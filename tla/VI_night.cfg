SPECIFICATION FairSpec
CONSTANTS
    v1 = v1
    v2 = v2
    f1 = f1
    f2 = f2
    op1 = op1
    Vehicles = {v1}
    Feeds = {f1}
    Operators = {op1}
    FeedOf <- OneVehicleFeed
    OperatorOf <- OneFeedOperator
    Positions <- HereFar
    Statuses = {FALSE}
    TripWindow = 1
    NoVehicle = NoVehicle
    MaxTime = 2
    MaxChanges = 3
    MaxRestarts = 1
    MaxRedisLosses = 0
    CrashMidHandler = FALSE
    NightlyCleanup = TRUE
    ConfigChanges = FALSE
    TelegramMayBeMissing = FALSE
    QueueCapacity = 1
INVARIANTS AtMostOneOpenPark
PROPERTIES StaleParkIsEnded
