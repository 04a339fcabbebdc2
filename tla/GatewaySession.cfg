CONSTANTS
    InboundCapacity = 1
    OutboundCapacity = 1
    SendBuffer = 1
    MaxFrames = 3
    ReportCounts = {1, 2}
    CloseWakes = TRUE
SPECIFICATION FairSpec
INVARIANTS
    CommandsInOrder
    ReportsInOrder
PROPERTIES
    CommandsArrive
    StopReturns
