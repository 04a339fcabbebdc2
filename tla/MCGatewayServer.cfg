CONSTANTS
    Connections = 2
    MaxCommands <- MCMaxCommands
    InboundCapacity = 1
    JournalCapacity = 1
    FeedCapacity = 1
    CloseWakes = TRUE
SPECIFICATION FairSpec
INVARIANTS
    JournalInOrder
    SessionsTakeTurns
    ExitIsComplete
PROPERTIES
    CommandsApplied
    ShutdownCompletes
