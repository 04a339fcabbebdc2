CONSTANTS
    OrderIds = {o1, o2, o3}
    kInvalidOrderId = none
    MaxPrice = 1
    OrderQuantities = {1, 2}
    QuantityModulus = 8
    Capacity = 3
    Symbols = {1, 3}
    partition_count = 2
    Commands <- MCCommands
    MaxCommands = 3
SPECIFICATION Spec
SYMMETRY Symmetry
INVARIANTS
    SameAsOneEngine
    SnapshotAllOrNothing
