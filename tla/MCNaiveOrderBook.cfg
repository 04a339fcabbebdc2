CONSTANTS
    OrderIds = {o1, o2, o3, o4}
    kInvalidOrderId = none
    MaxPrice = 2
    OrderQuantities = {0, 1, 3}
    QuantityModulus = 4
    MaxSequence = 4
SPECIFICATION HSpec
SYMMETRY Symmetry
VIEW View
INVARIANTS
    IInv
    FillOrKillFills
    RestoreReproduces
    DepthShown
PROPERTIES
    TradesAtBest
    LoopProgress
    ImplementsPriceTime
