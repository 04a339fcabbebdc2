CONSTANTS
    OrderIds = {o1, o2, o3}
    kInvalidOrderId = none
    MaxPrice = 2
    OrderQuantities = {1, 2}
    QuantityModulus = 4
    Capacity = 3
    Symbols = {s1, s2}
    MaxCommands = 4
SPECIFICATION OSpec
SYMMETRY Symmetry
VIEW View
INVARIANTS
    DepthIsExact
    OpenOrdersAreExact
