------------------------------ MODULE MCEngine ------------------------------
(* Small instances of EngineObserver for TLC.                              *)
EXTENDS EngineObserver, TLC

(* Order ids and symbols are only compared for equality.                   *)
Symmetry == Permutations(OrderIds) \cup Permutations(Symbols)

(* No step depends on the events of the last command.                      *)
View == <<engine, depth, open>>
=============================================================================
