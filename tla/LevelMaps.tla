------------------------------ MODULE LevelMaps ------------------------------
(***************************************************************************)
(* The std::map and std::unordered_map operations both books use, on       *)
(* functions: a side's price levels are a function from prices, ordered    *)
(* by the comparator of that side, and a book is one such map per side.    *)
(***************************************************************************)
EXTENDS BookTypes

(* operator[] = value, and erase.                                          *)
Put(f, k, v) == [x \in DOMAIN f \cup {k} |-> IF x = k THEN v ELSE f[x]]
Erase(f, k) == [x \in DOMAIN f \ {k} |-> f[x]]

SetLevel(lv, s, p, level) == [lv EXCEPT ![s] = Put(lv[s], p, level)]
EraseLevel(lv, s, p) == [lv EXCEPT ![s] = Erase(lv[s], p)]

(* A level iterator past the end; no level has price 0.                    *)
End == 0

(* begin() of a side.                                                      *)
Begin(lv, s) == IF DOMAIN lv[s] = {} THEN End ELSE Best(s, DOMAIN lv[s])

(* Mutant: the iterator moves towards the better prices.                   *)
FollowingBackwards(lv, s, p) ==
    LET better == {q \in DOMAIN lv[s] : Better(s, q, p)}
    IN  IF better = {} THEN End ELSE Best(s, better)

(* ++level_it, and the result of erase(level_it).                          *)
Following(lv, s, p) ==
    LET worse == {q \in DOMAIN lv[s] : Better(s, p, q)}
    IN  IF worse = {} THEN End ELSE Best(s, worse)

(* f maps some of S to T.                                                  *)
IsMap(f, S, T) == DOMAIN f \subseteq S /\ f \in [DOMAIN f -> T]
=============================================================================
