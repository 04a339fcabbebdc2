CONSTANTS
    Values = {1, 2, 3, 4, 5, 6, 7, 8, 9}
    Empty = none
    Capacity = 4
    CursorModulus = 8
SPECIFICATION FairSpec
INVARIANTS
    NoDataRace
    StopDrains
PROPERTIES
    ImplementsFifo
    StopReturns
    AcceptedIsHandled
