-------------------------- MODULE MCNaiveOrderBook --------------------------
(* Small instances of the naive book, its queries and its promise for TLC. *)
EXTENDS NaiveRefinement, NaiveQueries

(* Order ids are only compared for equality.                               *)
Symmetry == Permutations(OrderIds)

(* No step depends on the call that came last or on its trades and its     *)
(* result, and the properties constrain only the next value of these.      *)
View ==
    <<levels, node, index, clock, pc, op, IF pc = "idle" THEN << >> ELSE trades,
      last.resting, last.clock>>
=============================================================================
