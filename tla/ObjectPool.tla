----------------------------- MODULE ObjectPool -----------------------------
(***************************************************************************)
(* me::ObjectPool<T>: a fixed array of slots, each a union of a live T and *)
(* the link to the next free slot.  A pool is a record of its three        *)
(* fields; a slot that is free holds [next_free |-> ...] and nothing else, *)
(* as the union does.                                                      *)
(***************************************************************************)
EXTENDS Naturals, Sequences, FiniteSets

CONSTANT PoolCapacity

ASSUME PoolCapacityAssumption == PoolCapacity \in Nat

nullptr == 0
Slots == 1 .. PoolCapacity

NewPool ==
    [slots |-> [i \in Slots |->
                   [next_free |-> IF i < PoolCapacity THEN i + 1 ELSE nullptr]],
     free_head |-> IF PoolCapacity > 0 THEN 1 ELSE nullptr,
     in_use |-> 0]

(* The pool after Acquire() constructed obj in the slot free_head.         *)
Acquire(pool, obj) ==
    [slots |-> [pool.slots EXCEPT ![pool.free_head] = obj],
     free_head |-> pool.slots[pool.free_head].next_free,
     in_use |-> pool.in_use + 1]

(* Mutant: the slot does not become the head of the free list.             *)
ReleaseLeaks(pool, slot) ==
    [slots |-> [pool.slots EXCEPT ![slot] = [next_free |-> pool.free_head]],
     free_head |-> pool.free_head,
     in_use |-> pool.in_use - 1]

Release(pool, slot) ==
    [slots |-> [pool.slots EXCEPT ![slot] = [next_free |-> pool.free_head]],
     free_head |-> slot,
     in_use |-> pool.in_use - 1]

IsFree(pool, slot) == "next_free" \in DOMAIN pool.slots[slot]

(* The slots met on following next from start, at most PoolCapacity + 1.   *)
Chain(start, next) ==
    LET at[i \in 0 .. PoolCapacity] ==
            IF i = 0 THEN start
            ELSE IF at[i - 1] = nullptr THEN nullptr ELSE next[at[i - 1]]
        met == {i \in 0 .. PoolCapacity : at[i] # nullptr}
    IN  [i \in 1 .. Cardinality(met) |-> at[i - 1]]

(* The free list holds each slot that is not live once, and in_use counts  *)
(* the live ones: nothing is leaked or released twice.                     *)
FreeListExact(pool) ==
    LET free == {i \in Slots : IsFree(pool, i)}
        list == Chain(pool.free_head,
                      [i \in free |-> pool.slots[i].next_free])
    IN  /\ pool.free_head \in free \cup {nullptr}
        /\ \A i \in free : pool.slots[i].next_free \in free \cup {nullptr}
        /\ {list[i] : i \in DOMAIN list} = free
        /\ Len(list) = Cardinality(free)
        /\ pool.in_use = PoolCapacity - Cardinality(free)
=============================================================================
