--------------------------- MODULE MCFastOrderBook ---------------------------
(* A small instance of the fast book and its promise for TLC.              *)
EXTENDS FastRefinement, TLC

(* Order ids are only compared for equality.                               *)
Symmetry == Permutations(OrderIds)

(* No step depends on the call that came last or on its trades and its     *)
(* result, and the properties constrain only the next value of these.      *)
View ==
    <<levels, index, pool, clock, pc, op, IF pc = "idle" THEN << >> ELSE trades,
      last.resting, last.clock>>
=============================================================================
