--------------------------- MODULE SpscQueueProofs ---------------------------
(***************************************************************************)
(* The ring buffer's cursors stay in order across every wrap, and the two  *)
(* threads never touch the same slot at once, for every capacity that      *)
(* divides the range of the cursors.                                       *)
(***************************************************************************)
EXTENDS SpscQueue, TLAPS

(* The provers may spend twenty seconds on a leaf.                         *)
USE SMTT(20), Z3T(20), ZenonT(20)

-----------------------------------------------------------------------------
(* Arithmetic.                                                             *)

(* A product of integers is no proper fraction of its positive factor.     *)
LEMMA NoMultipleBetween ==
  ASSUME NEW c \in Nat \ {0}, NEW j \in Int, 0 < c * j, c * j < c
  PROVE  FALSE
<1>1. CASE j <= 0
  BY <1>1
<1>2. CASE j >= 1
  BY <1>2
<1> QED  BY <1>1, <1>2

(* A remainder is determined by its range.                                 *)
LEMMA Remainder ==
  ASSUME NEW m \in Nat \ {0}, NEW n \in Int, NEW k \in Int, NEW r \in 0 .. m - 1,
         n = m * k + r
  PROVE  n % m = r
<1> DEFINE q == n \div m
<1>1. q \in Int /\ n % m \in 0 .. m - 1 /\ n = m * q + (n % m)
  OBVIOUS
<1> HIDE DEF q
<1>2. m * (q - k) = r - (n % m)
  BY <1>1
<1>3. m * (k - q) = (n % m) - r
  BY <1>1
<1>4. CASE r > n % m
  BY <1>1, <1>2, <1>4, NoMultipleBetween
<1>5. CASE r < n % m
  BY <1>1, <1>3, <1>5, NoMultipleBetween
<1> QED  BY <1>1, <1>4, <1>5

(* The difference of two cursors, with the wrap spelled out.               *)
LEMMA MinusIs ==
  ASSUME NEW a \in Cursor, NEW b \in Cursor
  PROVE  Minus(a, b) = IF a >= b THEN a - b ELSE a - b + CursorModulus
<1>1. CursorModulus \in Nat \ {0}
  BY CapacityAssumption
<1>2. CASE a >= b
  <2>1. a - b = CursorModulus * 0 + (a - b) /\ a - b \in 0 .. CursorModulus - 1
    BY <1>1, <1>2 DEF Cursor
  <2> QED  BY <1>1, <1>2, <2>1, Remainder DEF Minus, Cursor
<1>3. CASE ~(a >= b)
  <2>1. a - b = CursorModulus * (-1) + (a - b + CursorModulus) /\ a - b + CursorModulus \in 0 .. CursorModulus - 1
    BY <1>1, <1>3 DEF Cursor
  <2> QED  BY <1>1, <1>3, <2>1, Remainder DEF Minus, Cursor
<1> QED  BY <1>2, <1>3

(* A cursor moved on by less than the range, with the wrap spelled out.    *)
LEMMA PlusIs ==
  ASSUME NEW a \in Cursor, NEW n \in Cursor
  PROVE  /\ Plus(a, n) = IF a + n < CursorModulus THEN a + n ELSE a + n - CursorModulus
         /\ Plus(a, n) \in Cursor
<1>1. CursorModulus \in Nat \ {0}
  BY CapacityAssumption
<1>2. CASE a + n < CursorModulus
  <2>1. a + n = CursorModulus * 0 + (a + n) /\ a + n \in 0 .. CursorModulus - 1
    BY <1>1, <1>2 DEF Cursor
  <2> QED  BY <1>1, <1>2, <2>1, Remainder DEF Plus, Cursor
<1>3. CASE ~(a + n < CursorModulus)
  <2>1. a + n = CursorModulus * 1 + (a + n - CursorModulus) /\ a + n - CursorModulus \in 0 .. CursorModulus - 1
    BY <1>1, <1>3 DEF Cursor
  <2> QED  BY <1>1, <1>3, <2>1, Remainder DEF Plus, Cursor
<1> QED  BY <1>2, <1>3

(* Two cursors less than a capacity apart are at different slots, also     *)
(* when the range wraps between them.                                      *)
LEMMA SlotsDiffer ==
  ASSUME NEW a \in Cursor, NEW b \in Cursor, 0 < Minus(a, b), Minus(a, b) < Capacity
  PROVE  SlotOf(a) # SlotOf(b)
<1> SUFFICES ASSUME SlotOf(a) = SlotOf(b) PROVE FALSE
  OBVIOUS
<1> DEFINE qa == a \div Capacity
           qb == b \div Capacity
           k == CursorModulus \div Capacity
<1>1. Capacity \in Nat \ {0} /\ CursorModulus \in Nat
  BY CapacityAssumption
<1>2. qa \in Int /\ a = Capacity * qa + SlotOf(a)
  BY <1>1 DEF SlotOf, Cursor
<1>3. qb \in Int /\ b = Capacity * qb + SlotOf(b)
  BY <1>1 DEF SlotOf, Cursor
<1>4. k \in Int /\ CursorModulus = Capacity * k
  <2>1. k \in Int /\ CursorModulus = Capacity * k + (CursorModulus % Capacity)
    BY <1>1
  <2>2. CursorModulus % Capacity = 0
    BY CapacityAssumption
  <2> QED  BY <1>1, <2>1, <2>2
<1> HIDE DEF qa, qb, k
<1>5. a \in Int /\ b \in Int /\ SlotOf(a) \in Int
  BY <1>1 DEF Cursor, SlotOf
<1>6. a - b = Capacity * (qa - qb)
  BY <1>1, <1>2, <1>3, <1>5
<1>7. a - b + CursorModulus = Capacity * (qa - qb + k)
  BY <1>1, <1>2, <1>3, <1>4, <1>6
<1>8. CASE a >= b
  <2>1. Minus(a, b) = Capacity * (qa - qb)
    BY <1>6, <1>8, MinusIs
  <2> QED  BY <1>1, <1>2, <1>3, <2>1, NoMultipleBetween
<1>9. CASE ~(a >= b)
  <2>1. Minus(a, b) = Capacity * (qa - qb + k)
    BY <1>7, <1>9, MinusIs
  <2>2. qa - qb + k \in Int
    BY <1>2, <1>3, <1>4
  <2> QED  BY <1>1, <2>1, <2>2, NoMultipleBetween
<1> QED  BY <1>8, <1>9
(* Distances between cursors are cursors, and zero only between equals.    *)
LEMMA Distance ==
  ASSUME NEW a \in Cursor, NEW b \in Cursor
  PROVE  Minus(a, b) \in Cursor /\ (Minus(a, b) = 0 <=> a = b)
  BY MinusIs, CapacityAssumption DEF Cursor

(* A cursor a that moves towards w gets nearer to it, ...                  *)
LEMMA Nearer ==
  ASSUME NEW a \in Cursor, NEW w \in Cursor, NEW n \in 0 .. Minus(w, a)
  PROVE  Plus(a, n) \in Cursor /\ Minus(w, Plus(a, n)) = Minus(w, a) - n
<1>1. n \in Cursor /\ Plus(a, n) \in Cursor
  <2>1. Minus(w, a) \in Cursor
    BY Distance
  <2>2. n \in Cursor
    BY <2>1, CapacityAssumption DEF Cursor
  <2> QED  BY <2>2, PlusIs
<1>2. Plus(a, n) = IF a + n < CursorModulus THEN a + n ELSE a + n - CursorModulus
  BY <1>1, PlusIs
<1>3. Minus(w, a) = IF w >= a THEN w - a ELSE w - a + CursorModulus
  BY MinusIs
<1>4. Minus(w, Plus(a, n)) = IF w >= Plus(a, n) THEN w - Plus(a, n) ELSE w - Plus(a, n) + CursorModulus
  BY <1>1, MinusIs, Zenon
<1> QED  BY <1>1, <1>2, <1>3, <1>4, CapacityAssumption DEF Cursor

(* ... and one that moves away from w gets further, short of a full turn.  *)
LEMMA Further ==
  ASSUME NEW a \in Cursor, NEW w \in Cursor, NEW n \in Nat, Minus(a, w) + n < CursorModulus
  PROVE  Plus(a, n) \in Cursor /\ Minus(Plus(a, n), w) = Minus(a, w) + n
<1>1. n \in Cursor /\ Plus(a, n) \in Cursor
  <2>1. Minus(a, w) \in Cursor
    BY Distance
  <2>2. n \in Cursor
    BY <2>1, CapacityAssumption DEF Cursor
  <2> QED  BY <2>2, PlusIs
<1>2. Plus(a, n) = IF a + n < CursorModulus THEN a + n ELSE a + n - CursorModulus
  BY <1>1, PlusIs
<1>3. Minus(a, w) = IF a >= w THEN a - w ELSE a - w + CursorModulus
  BY MinusIs
<1>4. Minus(Plus(a, n), w) = IF Plus(a, n) >= w THEN Plus(a, n) - w ELSE Plus(a, n) - w + CursorModulus
  BY <1>1, MinusIs, Zenon
<1> QED  BY <1>1, <1>2, <1>3, <1>4, CapacityAssumption DEF Cursor

(* A push that does not look full has a free slot.                         *)
LEMMA NotFull ==
  ASSUME NEW t \in Cursor, head \in Cursor, Minus(head, t) <= Capacity, ~LooksFull(t)
  PROVE  Minus(head, t) < Capacity
<1>1. Minus(head, t) \in Nat /\ Minus(head, t) + 1 < CursorModulus
  <2>1. Minus(head, t) \in Cursor
    BY Distance
  <2> QED  BY <2>1, CapacityAssumption DEF Cursor
<1>2. Minus(Plus(head, 1), t) = Minus(head, t) + 1
  BY <1>1, Further
<1> QED  BY <1>1, <1>2, CapacityAssumption DEF LooksFull

-----------------------------------------------------------------------------
(* The invariant.                                                          *)

Inv == QueueTypeOK /\ CursorsOrdered

(* The queue starts empty.                                                 *)
LEMMA InitInv == SpscInit => Inv
<1> SUFFICES ASSUME SpscInit PROVE Inv
  OBVIOUS
<1>1. 0 \in Cursor
  BY CapacityAssumption DEF Cursor
<1>2. Minus(0, 0) = 0
  BY <1>1, Distance
<1>3. QueueTypeOK
  BY <1>1 DEF SpscInit, QueueTypeOK
<1>4. CursorsOrdered
  BY <1>2, CapacityAssumption DEF SpscInit, CursorsOrdered
<1> QED  BY <1>3, <1>4 DEF Inv

(* The distances are naturals, and the cursors of one are within reach.    *)
LEMMA Distances ==
  ASSUME Inv
  PROVE  /\ Minus(tail, cached_tail) \in Nat /\ Minus(cached_head, tail) \in Nat
         /\ Minus(head, cached_head) \in Nat /\ Minus(head, cached_tail) \in Nat
         /\ Minus(head, cached_tail) + 1 < CursorModulus
         /\ Capacity \in Nat /\ CursorModulus \in Nat
<1>1. /\ Minus(tail, cached_tail) \in Cursor /\ Minus(cached_head, tail) \in Cursor
      /\ Minus(head, cached_head) \in Cursor /\ Minus(head, cached_tail) \in Cursor
  BY Distance DEF Inv, QueueTypeOK
<1> QED  BY <1>1, CapacityAssumption DEF Inv, CursorsOrdered, Cursor

(* A push starts.                                                          *)
LEMMA PushBeginStep ==
  ASSUME Inv, NEW v \in Values, PushBegin(v)
  PROVE  Inv'
<1>1. UNCHANGED <<head, cached_tail, tail, cached_head, buffer, pop>>
  BY DEF PushBegin
<1>2. QueueTypeOK'
  BY <1>1 DEF Inv, QueueTypeOK, PushBegin
<1>3. push'.pc \in {"write", "store"} => Minus(head, cached_tail) < Capacity
  BY NotFull DEF Inv, QueueTypeOK, CursorsOrdered, PushBegin
<1> QED  BY <1>1, <1>2, <1>3 DEF Inv, CursorsOrdered

(* The producer loads tail_: its copy moves towards tail_.                 *)
LEMMA PushLoadStep ==
  ASSUME Inv, PushLoad(MayLoad(cached_tail, tail))
  PROVE  Inv'
<1>1. PICK n \in 0 .. Minus(tail, cached_tail) :
        /\ cached_tail' = Plus(cached_tail, n)
        /\ push' = [push EXCEPT !.pc = IF LooksFull(Plus(cached_tail, n)) THEN "idle" ELSE "write"]
  BY DEF PushLoad, MayLoad
<1>2. UNCHANGED <<head, tail, cached_head, buffer, pop>> /\ push.pc = "load"
  BY DEF PushLoad
<1>3. n \in Nat /\ n <= Minus(tail, cached_tail) /\ n <= Minus(head, cached_tail)
  BY Distances DEF Inv, CursorsOrdered
<1>4. cached_tail' \in Cursor /\ Minus(tail, cached_tail') = Minus(tail, cached_tail) - n
  BY <1>1, Nearer DEF Inv, QueueTypeOK
<1>5. Minus(head, cached_tail') = Minus(head, cached_tail) - n
  <2>1. n \in 0 .. Minus(head, cached_tail)
    BY <1>3, Distances
  <2> QED  BY <1>1, <2>1, Nearer DEF Inv, QueueTypeOK
<1>6. QueueTypeOK'
  BY <1>1, <1>2, <1>4 DEF Inv, QueueTypeOK
<1>7. Minus(head, cached_tail') <= Capacity
  BY <1>3, <1>5, Distances DEF Inv, CursorsOrdered
<1>8. push'.pc \in {"write", "store"} => Minus(head, cached_tail') < Capacity
  BY <1>1, <1>2, <1>4, <1>7, NotFull DEF Inv, QueueTypeOK
<1> QED
  BY <1>2, <1>3, <1>4, <1>5, <1>6, <1>7, <1>8, Distances DEF Inv, CursorsOrdered

(* The element is written; the cursors stay.                               *)
LEMMA PushWriteStep ==
  ASSUME Inv, PushWrite
  PROVE  Inv'
<1>1. UNCHANGED <<head, cached_tail, tail, cached_head, pop>> /\ push.pc = "write" /\ push'.pc = "store"
  BY DEF PushWrite, Inv, QueueTypeOK
<1>2. QueueTypeOK'
  BY <1>1, Zenon DEF Inv, QueueTypeOK, PushWrite
<1> QED  BY <1>1, <1>2 DEF Inv, CursorsOrdered

(* head_ moves on by one, away from everything.                            *)
LEMMA PushStoreStep ==
  ASSUME Inv, PushStore
  PROVE  Inv'
<1>1. /\ UNCHANGED <<cached_tail, tail, cached_head, buffer, pop>>
      /\ head' = Plus(head, 1) /\ push.pc = "store" /\ push'.pc = "idle"
  BY DEF PushStore, Inv, QueueTypeOK
<1>2. Minus(head, cached_head) + 1 < CursorModulus
  BY Distances DEF Inv, CursorsOrdered
<1>3. head' \in Cursor /\ Minus(head', cached_tail) = Minus(head, cached_tail) + 1
  BY <1>1, Distances, Further DEF Inv, QueueTypeOK
<1>4. Minus(head', cached_head) = Minus(head, cached_head) + 1
  BY <1>1, <1>2, Further DEF Inv, QueueTypeOK
<1>5. QueueTypeOK'
  BY <1>1, <1>3, Zenon DEF Inv, QueueTypeOK, PushStore
<1> QED
  BY <1>1, <1>3, <1>4, <1>5, Distances DEF Inv, CursorsOrdered

(* A pop starts.                                                           *)
LEMMA PopBeginStep ==
  ASSUME Inv, PopBegin
  PROVE  Inv'
<1>1. UNCHANGED <<head, cached_tail, tail, cached_head, buffer, push>>
  BY DEF PopBegin
<1>2. QueueTypeOK'
  BY <1>1, Zenon DEF Inv, QueueTypeOK, PopBegin
<1>3. pop'.pc \in {"read", "store"} => cached_head # tail
  BY DEF Inv, QueueTypeOK, PopBegin
<1> QED  BY <1>1, <1>2, <1>3 DEF Inv, CursorsOrdered

(* The consumer loads head_: its copy moves from tail_ towards head_.      *)
LEMMA PopLoadStep ==
  ASSUME Inv, PopLoad(MayLoad(cached_head, head))
  PROVE  Inv'
<1>1. PICK n \in 0 .. Minus(head, cached_head) :
        /\ cached_head' = Plus(cached_head, n)
        /\ pop' = [pop EXCEPT !.pc = IF tail = Plus(cached_head, n) THEN "idle" ELSE "read"]
  BY DEF PopLoad, MayLoad
<1>2. UNCHANGED <<head, cached_tail, tail, buffer, push>> /\ pop.pc = "load"
  BY DEF PopLoad
<1>3. n \in Nat /\ n <= Minus(head, cached_head) /\ Minus(cached_head, tail) + n < CursorModulus
  BY Distances DEF Inv, CursorsOrdered
<1>4. cached_head' \in Cursor /\ Minus(head, cached_head') = Minus(head, cached_head) - n
  BY <1>1, Nearer DEF Inv, QueueTypeOK
<1>5. Minus(cached_head', tail) = Minus(cached_head, tail) + n
  BY <1>1, <1>3, Further DEF Inv, QueueTypeOK
<1>6. QueueTypeOK'
  BY <1>1, <1>2, <1>4 DEF Inv, QueueTypeOK
<1>7. pop'.pc \in {"read", "store"} => cached_head' # tail
  BY <1>1, <1>2 DEF Inv, QueueTypeOK
<1> QED
  BY <1>2, <1>3, <1>4, <1>5, <1>6, <1>7, Distances DEF Inv, CursorsOrdered

(* The element is moved out; the cursors stay.                             *)
LEMMA PopReadStep ==
  ASSUME Inv, PopRead
  PROVE  Inv'
<1>1. /\ UNCHANGED <<head, cached_tail, tail, cached_head, push>>
      /\ pop.pc = "read" /\ pop'.pc = "store"
  BY DEF PopRead, Inv, QueueTypeOK
<1>2. SlotOf(tail) \in 0 .. (Capacity - 1)
  BY CapacityAssumption DEF Inv, QueueTypeOK, Cursor, SlotOf
<1>3. QueueTypeOK'
  BY <1>1, <1>2, Zenon DEF Inv, QueueTypeOK, PopRead
<1> QED  BY <1>1, <1>3 DEF Inv, CursorsOrdered

(* tail_ moves on by one, towards the copy of head_.                       *)
LEMMA PopStoreStep ==
  ASSUME Inv, PopStore
  PROVE  Inv'
<1>1. /\ UNCHANGED <<head, cached_tail, cached_head, buffer, push>>
      /\ tail' = Plus(tail, 1) /\ pop.pc = "store" /\ pop'.pc = "idle"
  BY DEF PopStore, Inv, QueueTypeOK
<1>2. 1 \in 0 .. Minus(cached_head, tail)
  <2>1. Minus(cached_head, tail) # 0
    BY <1>1, Distance DEF Inv, QueueTypeOK, CursorsOrdered
  <2> QED  BY <2>1, Distances
<1>3. tail' \in Cursor /\ Minus(cached_head, tail') = Minus(cached_head, tail) - 1
  BY <1>1, <1>2, Nearer DEF Inv, QueueTypeOK
<1>4. Minus(tail, cached_tail) + 1 < CursorModulus
  BY Distances DEF Inv, CursorsOrdered
<1>5. Minus(tail', cached_tail) = Minus(tail, cached_tail) + 1
  BY <1>1, <1>4, Further DEF Inv, QueueTypeOK
<1>6. QueueTypeOK'
  BY <1>1, <1>3, Zenon DEF Inv, QueueTypeOK, PopStore
<1> QED
  BY <1>1, <1>3, <1>5, <1>6, Distances DEF Inv, CursorsOrdered

-----------------------------------------------------------------------------
(* The cursors are in range and in order in every reachable state: each    *)
(* cached cursor lies between the cursor it copies and the limit it guards *)
(* across every wrap, and a push or pop past its check has its slot.       *)
THEOREM CursorsStayOrdered == SpscSpec => [](QueueTypeOK /\ CursorsOrdered)
<1>1. Inv /\ [SpscNext]_qvars => Inv'
  <2> SUFFICES ASSUME Inv, [SpscNext]_qvars PROVE Inv'
    OBVIOUS
  <2>1. ASSUME NEW v \in Values, PushBegin(v) PROVE Inv'
    BY <2>1, PushBeginStep
  <2>2. CASE UNCHANGED qvars
    BY <2>2 DEF qvars, Inv, QueueTypeOK, CursorsOrdered
  <2> QED
    BY <2>1, <2>2, PushLoadStep, PushWriteStep, PushStoreStep, PopBeginStep, PopLoadStep,
       PopReadStep, PopStoreStep DEF SpscNext, PushSteps, PopSteps
<1>2. Inv => QueueTypeOK /\ CursorsOrdered
  BY DEF Inv
<1> QED  BY <1>1, <1>2, InitInv, PTL DEF SpscSpec

(* The producer never writes the slot that the consumer reads, for every   *)
(* capacity that divides the range of the cursors: this is what makes the  *)
(* plain accesses to buffer_ safe without a lock.                          *)
THEOREM NoSlotIsShared == SpscSpec => []NoDataRace
<1>1. QueueTypeOK /\ CursorsOrdered => NoDataRace
  <2> SUFFICES ASSUME Inv, push.pc = "write", pop.pc = "read"
               PROVE  SlotOf(head) # SlotOf(tail)
    BY DEF Inv, NoDataRace
  <2>1. Minus(cached_head, tail) # 0
    BY Distance DEF Inv, QueueTypeOK, CursorsOrdered
  <2>2. Minus(head, tail) = Minus(cached_head, tail) + Minus(head, cached_head)
    <3> DEFINE n == Minus(head, cached_head)
    <3>1. n \in Nat /\ Minus(cached_head, tail) + n < CursorModulus
      BY Distances DEF Inv, CursorsOrdered
    <3>2. Plus(cached_head, n) = head
      <4>1. n \in 0 .. Minus(head, cached_head)
        BY <3>1
      <4>2. Plus(cached_head, n) \in Cursor /\ Minus(head, Plus(cached_head, n)) = 0
        BY <3>1, <4>1, Nearer DEF Inv, QueueTypeOK
      <4> QED  BY <4>2, Distance DEF Inv, QueueTypeOK
    <3>3. Minus(Plus(cached_head, n), tail) = Minus(cached_head, tail) + n
      BY <3>1, Further DEF Inv, QueueTypeOK
    <3> QED  BY <3>2, <3>3
  <2>3. 0 < Minus(head, tail) /\ Minus(head, tail) < Capacity
    BY <2>1, <2>2, Distances DEF Inv, CursorsOrdered
  <2> QED  BY <2>3, SlotsDiffer DEF Inv, QueueTypeOK
<1> QED  BY <1>1, CursorsStayOrdered, PTL
=============================================================================
