SPECIFICATION Spec
CONSTANTS
    AvailableFrom = 2
    Selections = {{"perVehicle"}}
    ChunkSize = 1
    BatchesPerWrite = 2
    MaxDay = 5
    MaxRecalculations = 1
    MaxDeaths = 0
INVARIANTS RecalculatedAreThere
