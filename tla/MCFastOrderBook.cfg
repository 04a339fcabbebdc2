CONSTANTS
    OrderIds = {o1, o2, o3, o4}
    kInvalidOrderId = none
    MaxPrice = 2
    OrderQuantities = {1, 2}
    QuantityModulus = 4
    MaxSequence = 4
    PoolCapacity = 3
SPECIFICATION HSpec
SYMMETRY Symmetry
VIEW View
INVARIANTS
    QueuesLinked
    PoolExact
    CursorLive
    TotalsAgree
PROPERTIES
    ExhaustedTradesNothing
    ImplementsPriceTime
