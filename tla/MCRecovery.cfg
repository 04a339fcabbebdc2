CONSTANTS
    OrderIds = {1, 2, 3}
    kInvalidOrderId = 0
    MaxPrice = 1
    OrderQuantities = {1, 2}
    QuantityModulus = 8
    Capacity = 3
    Symbols = {1, 2}
    Start <- MCStart
    Commands <- MCCommands
    MaxCommands = 3
    MaxSnapshots = 2
    MaxCrashes = 2
SPECIFICATION Spec
CHECK_DEADLOCK FALSE
INVARIANTS
    EngineIsHistory
    CheckpointSuffices
