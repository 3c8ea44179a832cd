SPECIFICATION Spec
CONSTANTS
    v1 = v1
    v2 = v2
    f1 = f1
    f2 = f2
    op1 = op1
    Vehicles = {v1, v2}
    Feeds = {f1}
    Operators = {op1}
    FeedOf <- TwoInOneFeed
    OperatorOf <- OneFeedOperator
    Positions <- JustHere
    Statuses = {TRUE, FALSE}
    TripWindow = 1
    NoVehicle = NoVehicle
    MaxTime = 2
    MaxChanges = 3
    MaxRestarts = 1
    MaxRedisLosses = 1
    CrashMidHandler = TRUE
    NightlyCleanup = FALSE
    ConfigChanges = FALSE
    TelegramMayBeMissing = TRUE
    QueueCapacity = 2
INVARIANTS NoNegativePeriods OwnRows 
SYMMETRY VehicleSymmetry
CONSTRAINT OneOrBriefly
