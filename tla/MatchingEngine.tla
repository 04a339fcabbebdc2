--------------------------- MODULE MatchingEngine ---------------------------
(***************************************************************************)
(* me::MatchingEngine, the engine of one partition, driven by its one      *)
(* thread: a command is one step.                                          *)
(***************************************************************************)
EXTENDS EngineCommands

CONSTANT MaxCommands   \* bound on the number of commands

VARIABLES
    engine,   \* books_ and next_seq_
    events    \* out_events of the last call of Process

vars == <<engine, events>>

RegisterSymbol(symbol) ==
    /\ engine' = Registered(engine, symbol)
    /\ events' = << >>

ProcessCommand(c) ==
    LET p == Process(engine, c)
    IN  engine' = p.engine /\ events' = p.events

Init == engine = NewEngine /\ events = << >>

Next ==
    \/ \E s \in Symbols : RegisterSymbol(s)
    \/ /\ engine.next_seq <= MaxCommands
       /\ \/ \E c \in NewOrderCommand : ProcessCommand(c)
          \/ \E c \in CancelCommand : ProcessCommand(c)
          \/ \E c \in ModifyCommand : ProcessCommand(c)

Spec == Init /\ [][Next]_vars
=============================================================================
