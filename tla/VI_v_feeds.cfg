SPECIFICATION Spec
CONSTANTS
    v1 = v1
    v2 = v2
    f1 = f1
    f2 = f2
    op1 = op1
    Vehicles = {v1, v2}
    Feeds = {f1, f2}
    Operators = {op1}
    FeedOf <- TwoVehicleFeeds
    OperatorOf <- TwoFeedsOperator
    Positions <- JustHere
    Statuses = {FALSE}
    TripWindow = 1
    NoVehicle = NoVehicle
    MaxTime = 2
    MaxChanges = 1
    MaxRestarts = 1
    MaxRedisLosses = 0
    CrashMidHandler = FALSE
    NightlyCleanup = FALSE
    ConfigChanges = FALSE
    TelegramMayBeMissing = FALSE
    QueueCapacity = 2
INVARIANTS CorrectsOnlyImportedFeeds
