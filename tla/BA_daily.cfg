SPECIFICATION FairSpec
CONSTANTS
    AvailableFrom = 2
    Selections = {{"vehicles", "parkedLong"}, {"rentals"}, {"available"}, {"vehicles", "parkedLong", "available", "rentals", "wronglyParked", "perVehicle"}}
    ChunkSize = 1
    BatchesPerWrite = 2
    MaxDay = 5
    MaxRecalculations = 1
    MaxDeaths = 1
INVARIANTS TypeOK StatisticsAreComplete NothingIsRefused RecalculatedAreThere
PROPERTIES OnlyRequestedChange StatisticsKeepUp
