------------------------------ MODULE SpscQueue ------------------------------
(***************************************************************************)
(* me::SpscQueue<T>: the lock-free ring buffer between one producer and    *)
(* one consumer thread.  A call of TryPush or TryPop is split where the    *)
(* other thread can interfere: the acquire load of the other cursor, the   *)
(* access to the slot, the release store of the own cursor.  Cursors wrap  *)
(* at CursorModulus (2^64 in the code).                                    *)
(*                                                                         *)
(* Memory order: an acquire load of a cursor returns any value the other   *)
(* thread stored since the one this thread saw last, so it may be stale.   *)
(* A slot is plain memory; the threads may touch the same slot only if one *)
(* access happens before the other, which NoDataRace states.               *)
(***************************************************************************)
EXTENDS Integers, Sequences

CONSTANTS
    Values,         \* the elements
    Empty,          \* a default-constructed or moved-from element
    Capacity,       \* buffer_.size(), a power of two
    CursorModulus   \* the range of std::size_t, a multiple of Capacity

ASSUME CapacityAssumption ==
    /\ Capacity \in Nat \ {0}
    /\ CursorModulus \in Nat
    /\ CursorModulus % Capacity = 0
    /\ Capacity + 1 < CursorModulus
ASSUME EmptyAssumption == Empty \notin Values

VARIABLES
    head,         \* head_
    cached_tail,  \* cached_tail_, the producer's copy of tail_
    tail,         \* tail_
    cached_head,  \* cached_head_, the consumer's copy of head_
    buffer,       \* buffer_
    push,         \* the producer: where its call is, value and what it returned
    pop           \* the consumer: where its call is, out and what it returned

qvars == <<head, cached_tail, tail, cached_head, buffer, push, pop>>

Cursor == 0 .. (CursorModulus - 1)

(* size_t arithmetic on cursors, and head & mask_.                         *)
Minus(a, b) == (a - b) % CursorModulus
Plus(a, n) == (a + n) % CursorModulus
SlotOf(cursor) == cursor % Capacity

(* What an acquire load may return, given the value seen last and the      *)
(* latest one.                                                             *)
MayLoad(seen, latest) == {Plus(seen, n) : n \in 0 .. Minus(latest, seen)}

SpscInit ==
    /\ head = 0 /\ cached_tail = 0
    /\ tail = 0 /\ cached_head = 0
    /\ buffer = [i \in 0 .. (Capacity - 1) |-> Empty]
    /\ push = [pc |-> "idle", value |-> Empty, ok |-> FALSE]
    /\ pop = [pc |-> "idle", out |-> Empty, ok |-> FALSE]

-----------------------------------------------------------------------------
(* TryPush.                                                                *)

(* Mutant: compares head instead of next, one push too late.               *)
LooksFullLate(seen_tail) == Minus(head, seen_tail) > Capacity

(* next - cached_tail_ > buffer_.size()                                    *)
LooksFull(seen_tail) == Minus(Plus(head, 1), seen_tail) > Capacity

PushBegin(v) ==
    /\ push.pc = "idle"
    /\ push' = [pc |-> IF LooksFull(cached_tail) THEN "load" ELSE "write",
                value |-> v, ok |-> FALSE]
    /\ UNCHANGED <<head, cached_tail, tail, cached_head, buffer, pop>>

PushLoad(loads) ==
    /\ push.pc = "load"
    /\ \E t \in loads :
        /\ cached_tail' = t
        /\ push' = [push EXCEPT !.pc = IF LooksFull(t) THEN "idle" ELSE "write"]
    /\ UNCHANGED <<head, tail, cached_head, buffer, pop>>

PushWrite ==
    /\ push.pc = "write"
    /\ buffer' = [buffer EXCEPT ![SlotOf(head)] = push.value]
    /\ push' = [push EXCEPT !.pc = "store"]
    /\ UNCHANGED <<head, cached_tail, tail, cached_head, pop>>

PushStore ==
    /\ push.pc = "store"
    /\ head' = Plus(head, 1)
    /\ push' = [push EXCEPT !.pc = "idle", !.ok = TRUE]
    /\ UNCHANGED <<cached_tail, tail, cached_head, buffer, pop>>

-----------------------------------------------------------------------------
(* TryPop.                                                                 *)

(* Mutant: the element is read without the test for an empty queue.        *)
PopBeginUnchecked ==
    /\ pop.pc = "idle"
    /\ pop' = [pop EXCEPT !.pc = "read", !.ok = FALSE]
    /\ UNCHANGED <<head, cached_tail, tail, cached_head, buffer, push>>

PopBegin ==
    /\ pop.pc = "idle"
    /\ pop' = [pop EXCEPT !.pc = IF tail = cached_head THEN "load" ELSE "read",
                          !.ok = FALSE]
    /\ UNCHANGED <<head, cached_tail, tail, cached_head, buffer, push>>

PopLoad(loads) ==
    /\ pop.pc = "load"
    /\ \E h \in loads :
        /\ cached_head' = h
        /\ pop' = [pop EXCEPT !.pc = IF tail = h THEN "idle" ELSE "read"]
    /\ UNCHANGED <<head, cached_tail, tail, buffer, push>>

(* out = std::move(buffer_[tail & mask_])                                  *)
PopRead ==
    /\ pop.pc = "read"
    /\ pop' = [pop EXCEPT !.pc = "store", !.out = buffer[SlotOf(tail)]]
    /\ buffer' = [buffer EXCEPT ![SlotOf(tail)] = Empty]
    /\ UNCHANGED <<head, cached_tail, tail, cached_head, push>>

PopStore ==
    /\ pop.pc = "store"
    /\ tail' = Plus(tail, 1)
    /\ pop' = [pop EXCEPT !.pc = "idle", !.ok = TRUE]
    /\ UNCHANGED <<head, cached_tail, cached_head, buffer, push>>

-----------------------------------------------------------------------------
PushSteps == PushLoad(MayLoad(cached_tail, tail)) \/ PushWrite \/ PushStore
PopSteps == PopLoad(MayLoad(cached_head, head)) \/ PopRead \/ PopStore

SpscNext ==
    \/ \E v \in Values : PushBegin(v)
    \/ PushSteps
    \/ PopBegin
    \/ PopSteps

SpscSpec == SpscInit /\ [][SpscNext]_qvars

-----------------------------------------------------------------------------
(* Properties.                                                             *)

(* Cursors stay in the range of size_t and slots hold elements.            *)
QueueTypeOK ==
    /\ head \in Cursor /\ tail \in Cursor
    /\ cached_tail \in Cursor /\ cached_head \in Cursor
    /\ buffer \in [0 .. (Capacity - 1) -> Values \cup {Empty}]
    /\ push \in [pc : {"idle", "load", "write", "store"},
                 value : Values \cup {Empty}, ok : BOOLEAN]
    /\ pop \in [pc : {"idle", "load", "read", "store"},
                out : Values \cup {Empty}, ok : BOOLEAN]

(* Across any number of wraps each cached cursor lies between the cursor   *)
(* it copies and the limit it guards: cached_tail_ <= tail_ <=             *)
(* cached_head_ <= head_ <= cached_tail_ + capacity, and a push or a pop   *)
(* past its check has a free slot, respectively an element.                *)
CursorsOrdered ==
    /\ Minus(tail, cached_tail) + Minus(cached_head, tail)
         + Minus(head, cached_head) = Minus(head, cached_tail)
    /\ Minus(head, cached_tail) <= Capacity
    /\ push.pc \in {"write", "store"} => Minus(head, cached_tail) < Capacity
    /\ pop.pc \in {"read", "store"} => cached_head # tail

(* The threads never access the same slot at the same time.                *)
NoDataRace ==
    push.pc = "write" /\ pop.pc = "read" => SlotOf(head) # SlotOf(tail)

(* The elements pushed and not yet read, oldest first.                     *)
Contents ==
    LET first == IF pop.pc = "store" THEN Plus(tail, 1) ELSE tail
    IN  [i \in 1 .. Minus(head, first) |-> buffer[SlotOf(Plus(first, i - 1))]]

(* The ring is a bounded FIFO queue: a push takes effect with the store of *)
(* head_, a pop when it reads its slot, and nothing is lost, repeated,     *)
(* reordered or read after it was moved from.                              *)
Fifo == INSTANCE BoundedFifo WITH items <- Contents, out <- pop.out, None <- Empty
ImplementsFifo == Fifo!Spec
=============================================================================
