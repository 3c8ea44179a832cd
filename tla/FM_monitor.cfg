SPECIFICATION FairSpec
CONSTANTS
    Feeds = {1}
    Threshold = 0
    QueueCapacity = 2
    MaxAttempts = 2
    MaxTime = 2
    MaxSwitches = 1
    MaxErrors = 1
    MaxRestarts = 1
    MaxRefusals = 1
    MaxRejections = 1
INVARIANTS TypeOK DowntimesInOrder AlertsInOrder ChatTellsStatus
PROPERTIES EndedDowntimesStay DownIsRecorded UpIsClosed
