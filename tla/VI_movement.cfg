SPECIFICATION Spec
CONSTANTS
    v1 = v1
    v2 = v2
    f1 = f1
    f2 = f2
    op1 = op1
    Vehicles = {v1}
    Feeds = {f1}
    Operators = {op1}
    FeedOf <- OneVehicleFeed
    OperatorOf <- OneFeedOperator
    Positions <- HereNearFar
    Statuses = {TRUE, FALSE}
    TripWindow = 1
    NoVehicle = NoVehicle
    MaxTime = 2
    MaxChanges = 3
    MaxRestarts = 1
    MaxRedisLosses = 0
    CrashMidHandler = FALSE
    NightlyCleanup = FALSE
    ConfigChanges = TRUE
    TelegramMayBeMissing = FALSE
    QueueCapacity = 1
INVARIANTS TypeOK LastEventMatchesTables ParkEventsInOrder ParkedOrUnderWay ShownVehiclesAreParked CorrectionsAreSettled NonOperationalWhileParked
PROPERTIES EndedTripsStay ImplementsLifecycle
