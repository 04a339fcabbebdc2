CONSTANTS
    OrderIds = {o1, o2}
    kInvalidOrderId = none
    MaxPrice = 1
    OrderQuantities = {1, 3}
    QuantityModulus = 4
    MaxSequence = 3
SPECIFICATION HSpec
SYMMETRY Symmetry
INVARIANTS
    ZeroMeansRemoved
