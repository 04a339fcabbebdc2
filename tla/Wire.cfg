CONSTANTS
    ByteModulus = 256
    kMaxFrameBytes = 32
    U32Bytes = 2
    U64Bytes = 3
SPECIFICATION WSpec
CHECK_DEADLOCK FALSE
INVARIANTS
    UnreadIsTheRest
    CutsDoNotMatter
    ErrorIsReal
    BufferBounded
    RoundTrip
    ShortIsRefused
