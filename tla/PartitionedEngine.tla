-------------------------- MODULE PartitionedEngine --------------------------
(***************************************************************************)
(* me::PartitionedEngine driven by one thread, next to a single engine     *)
(* that owns every symbol and gets the same commands.  From time to time   *)
(* the partitions are replaced by what LoadSnapshot makes of a snapshot.   *)
(***************************************************************************)
EXTENDS Snapshot

CONSTANTS
    partition_count,
    Commands,      \* the commands that are dispatched
    MaxCommands    \* bound on their number

ASSUME CommandsAssumption ==
    /\ partition_count \in Nat \ {0}
    /\ Commands \subseteq NewOrderCommand \cup CancelCommand \cup ModifyCommand

VARIABLES
    pe,        \* router_ and partitions_
    routed,    \* history: the symbols the router was asked for
    one,       \* history: the one engine that got every command
    agreed     \* history: whether its events were those of Dispatch so far

vars == <<pe, routed, one, agreed>>

Register(symbol) ==
    /\ pe' = RegisterSymbol(pe, symbol)
    /\ routed' = routed \cup {symbol}
    /\ one' = Registered(one, symbol)
    /\ UNCHANGED agreed

(* Pin "must be called before the symbol is ever routed", and once.        *)
RegisterOn(symbol, partition) ==
    /\ symbol \notin routed \cup DOMAIN pe.overrides
    /\ pe' = RegisterSymbolOnPartition(pe, symbol, partition)
    /\ one' = Registered(one, symbol)
    /\ UNCHANGED <<routed, agreed>>

DispatchCommand(c) ==
    LET done == Dispatch(pe, c)
        alone == Process(one, c)
    IN  /\ one.next_seq <= MaxCommands
        /\ pe' = done.pe
        /\ one' = alone.engine
        /\ agreed' = (agreed /\ done.events = alone.events)
        /\ routed' = routed \cup {c.symbol}

Orders == SetToSeqs(Symbols)

Restart(order) ==
    /\ pe' = LoadSnapshot(WriteSnapshot(pe, order)).pe
    /\ UNCHANGED <<routed, one, agreed>>

Init ==
    /\ pe = NewPartitioned(partition_count)
    /\ one = NewEngine
    /\ agreed = TRUE /\ routed = {}

Next ==
    \/ \E s \in Symbols : Register(s)
    \/ \E s \in Symbols, p \in 0 .. (partition_count - 1) : RegisterOn(s, p)
    \/ \E c \in Commands : DispatchCommand(c)
    \/ \E order \in Orders : Restart(order)

Spec == Init /\ [][Next]_vars

-----------------------------------------------------------------------------
(* The same orders in the same queue order, under other sequence numbers.  *)
SameQueue(R, S) ==
    /\ {[r EXCEPT !.sequence_number = 0] : r \in R}
          = {[r EXCEPT !.sequence_number = 0] : r \in S}
    /\ \A r, x \in R :
          r.sequence_number < x.sequence_number
             <=> Find(S, r.id).sequence_number < Find(S, x.id).sequence_number

(* Partitioning, and recovery from a snapshot, are invisible: every        *)
(* command has the events one engine with all symbols would give it, and   *)
(* every book is the book of that engine.                                  *)
SameAsOneEngine ==
    /\ agreed
    /\ \A s \in DOMAIN one.books :
          LET home == pe.parts[PartitionFor(pe, s)]
          IN  s \in DOMAIN home.books /\ SameQueue(home.books[s], one.books[s])

(* LoadSnapshot gives back exactly the partitions that were written, every *)
(* level with its queue in the old order, and routes their symbols as      *)
(* before; it throws on every file that was cut short, wherever the cut is.*)
SnapshotAllOrNothing ==
    \A order \in Orders :
        LET cells == WriteSnapshot(pe, order)
            whole == LoadSnapshot(cells)
        IN  /\ whole.ok /\ whole.fifo /\ whole.pe.parts = pe.parts
            /\ \A s \in DOMAIN one.books : PartitionFor(whole.pe, s) = PartitionFor(pe, s)
            /\ \A n \in 0 .. (Len(cells) - 1) : ~LoadSnapshot(SubSeq(cells, 1, n)).ok
=============================================================================
