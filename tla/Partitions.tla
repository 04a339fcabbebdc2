----------------------------- MODULE Partitions -----------------------------
(***************************************************************************)
(* me::PartitionedEngine and me::SymbolRouter as values: the overrides of  *)
(* the router and one engine per partition.  Symbols are numbers, as the   *)
(* router's default takes the remainder.                                   *)
(***************************************************************************)
EXTENDS EngineCommands, TLC

ASSUME SymbolsAssumption == Symbols \subseteq Nat

(* PartitionedEngine(partition_count).                                     *)
NewPartitioned(partition_count) ==
    [overrides |-> [s \in {} |-> 0],
     parts |-> [p \in 0 .. (partition_count - 1) |-> NewEngine]]

PartitionCount(pe) == Cardinality(DOMAIN pe.parts)

PartitionFor(pe, symbol) ==
    IF symbol \in DOMAIN pe.overrides THEN pe.overrides[symbol]
    ELSE symbol % PartitionCount(pe)

Pin(pe, symbol, partition) == [pe EXCEPT !.overrides = (symbol :> partition) @@ @]

RegisterSymbol(pe, symbol) ==
    [pe EXCEPT !.parts[PartitionFor(pe, symbol)] = Registered(@, symbol)]

RegisterSymbolOnPartition(pe, symbol, partition) ==
    [Pin(pe, symbol, partition) EXCEPT !.parts[partition] = Registered(@, symbol)]

(* The partitions and the events after the command c.                      *)
Dispatch(pe, c) ==
    LET p == PartitionFor(pe, c.symbol)
        done == Process(pe.parts[p], c)
    IN  [pe |-> [pe EXCEPT !.parts[p] = done.engine], events |-> done.events]

(* The same engine with the route of every registered symbol spelled out.  *)
Routed(pe) ==
    LET registered == UNION {DOMAIN pe.parts[p].books : p \in DOMAIN pe.parts}
    IN  [pe EXCEPT !.overrides = [s \in registered |-> PartitionFor(pe, s)]]
=============================================================================
