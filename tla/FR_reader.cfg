SPECIFICATION FairSpec
CONSTANTS
    v1 = v1
    v2 = v2
    v3 = v3
    v4 = v4
    Users = {1, 2}
    Vehicles <- TheVehicles
    Setups <- TheSetups
    Fleets <- TheFleets
    Margin = 4
    MaxDelay = 1
    MaxFaults = 2
    Limit = 2
    PageSize = 1
    MaxDepth = 2
    MaxChanges = 2
INVARIANTS TypeOK CompleteDownload FreshToken
PROPERTIES RequestsSucceedAgain
