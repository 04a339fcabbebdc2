CONSTANTS
    ByteModulus = 3
    kMaxFrameBytes = 2
    Commands = {"new", "cancel"}
    Body <- MCBody
    MaxAppends = 3
    MaxWriters = 2
SPECIFICATION RotatingSpec
CHECK_DEADLOCK FALSE
INVARIANTS
    AppendsSurvive
