----------------------------- MODULE AsyncWorker -----------------------------
(***************************************************************************)
(* A queue drained by a background thread: AsyncJournalWriter, whose       *)
(* worker appends commands to the journal, and MarketDataPublisher, whose  *)
(* worker hands events to the sink; the two have the same code.  The       *)
(* engine thread calls TryAppend (Publish) and, at the end, Stop.  Items   *)
(* are numbered in the order in which the engine thread offers them.       *)
(***************************************************************************)
EXTENDS SpscQueue

ASSUME ItemsAssumption == Values \subseteq Nat \ {0}

VARIABLES
    running,    \* running_
    worker,     \* the worker: in Run()'s first or second loop, or returned
    stop,       \* Stop(): not called, waiting in join, or returned
    offered,    \* how many items TryAppend was called with
    accepted,   \* the items it returned true for
    dropped,    \* dropped_
    delivered   \* what writer_.Append or sink_ was called with

avars == <<running, worker, stop, offered, accepted, dropped, delivered>>
vars == <<qvars, avars>>

Init ==
    /\ SpscInit
    /\ running = TRUE
    /\ worker = "check"
    /\ stop = "no"
    /\ offered = 0
    /\ accepted = << >>
    /\ dropped = 0
    /\ delivered = << >>

-----------------------------------------------------------------------------
(* The engine thread.                                                      *)

TryAppend ==
    /\ stop = "no"
    /\ offered + 1 \in Values
    /\ PushBegin(offered + 1)
    /\ offered' = offered + 1
    /\ UNCHANGED <<running, worker, stop, accepted, dropped, delivered>>

AppendLoad ==
    /\ PushLoad(MayLoad(cached_tail, tail))
    /\ dropped' = IF push'.pc = "idle" THEN dropped + 1 ELSE dropped
    /\ UNCHANGED <<running, worker, stop, offered, accepted, delivered>>

AppendWrite == PushWrite /\ UNCHANGED avars

AppendStore ==
    /\ PushStore
    /\ accepted' = Append(accepted, push.value)
    /\ UNCHANGED <<running, worker, stop, offered, dropped, delivered>>

(* running_.exchange(false), then join.                                    *)
Stop ==
    /\ stop = "no"
    /\ push.pc = "idle"
    /\ running' = FALSE
    /\ stop' = "joining"
    /\ UNCHANGED <<qvars, worker, offered, accepted, dropped, delivered>>

Join ==
    /\ stop = "joining"
    /\ worker = "returned"
    /\ stop' = "done"
    /\ UNCHANGED <<qvars, running, worker, offered, accepted, dropped, delivered>>

-----------------------------------------------------------------------------
(* The worker.  The load of running_ may still return true after Stop      *)
(* stored false.  Once it returned false, everything the engine thread did *)
(* before Stop is visible, the last head_ included.                        *)

(* Mutant: running_ is loaded relaxed, and the drain may see an old head_. *)
HeadLoadsRelaxed == MayLoad(cached_head, head)

HeadLoads == IF worker = "draining" THEN {head} ELSE MayLoad(cached_head, head)

(* The loop test, and the call of TryPop that follows either way.          *)
CheckRunning(loaded) ==
    /\ worker = "check"
    /\ worker' = IF loaded THEN "popping" ELSE "draining"
    /\ PopBegin
    /\ UNCHANGED <<running, stop, offered, accepted, dropped, delivered>>

WorkerLoad == PopLoad(HeadLoads) /\ UNCHANGED avars
WorkerRead == PopRead /\ UNCHANGED avars
WorkerStore == PopStore /\ UNCHANGED avars

(* Mutant: the item is not handled.                                        *)
HandleNothing ==
    /\ worker = "popping"
    /\ pop.pc = "idle"
    /\ worker' = "check"
    /\ UNCHANGED <<qvars, running, stop, offered, accepted, dropped, delivered>>

(* TryPop returned to the first loop: handle the item, or yield.           *)
Handle ==
    /\ worker = "popping"
    /\ pop.pc = "idle"
    /\ delivered' = IF pop.ok THEN Append(delivered, pop.out) ELSE delivered
    /\ worker' = "check"
    /\ UNCHANGED <<qvars, running, stop, offered, accepted, dropped>>

(* Mutant: the second loop does not end when the queue is empty.           *)
DrainForever ==
    /\ worker = "draining"
    /\ pop.pc = "idle"
    /\ delivered' = IF pop.ok THEN Append(delivered, pop.out) ELSE delivered
    /\ PopBegin
    /\ UNCHANGED <<running, worker, stop, offered, accepted, dropped>>

(* TryPop returned to the second loop: handle the item and pop again, or   *)
(* return.                                                                 *)
Drain ==
    /\ worker = "draining"
    /\ pop.pc = "idle"
    /\ \/ /\ pop.ok
          /\ delivered' = Append(delivered, pop.out)
          /\ PopBegin
          /\ UNCHANGED worker
       \/ /\ ~pop.ok
          /\ worker' = "returned"
          /\ UNCHANGED <<qvars, delivered>>
    /\ UNCHANGED <<running, stop, offered, accepted, dropped>>

(* Stop has returned and no thread has anything left to do.                *)
Terminated == stop = "done" /\ UNCHANGED vars

-----------------------------------------------------------------------------
EngineSteps == AppendLoad \/ AppendWrite \/ AppendStore \/ Join
WorkerSteps ==
    \/ \E loaded \in {running, TRUE} : CheckRunning(loaded)
    \/ WorkerLoad \/ WorkerRead \/ WorkerStore
    \/ Handle \/ Drain

Next == TryAppend \/ EngineSteps \/ Stop \/ WorkerSteps \/ Terminated

Spec == Init /\ [][Next]_vars

(* Both threads are scheduled, and a store to an atomic reaches the other  *)
(* thread's loads after finitely many stale ones.                          *)
Fairness ==
    /\ WF_vars(EngineSteps)
    /\ WF_vars(WorkerSteps)
    /\ SF_vars(~running /\ CheckRunning(FALSE))
    /\ SF_vars(PopLoad({head}) /\ UNCHANGED avars)

FairSpec == Spec /\ Fairness

-----------------------------------------------------------------------------
(* Properties.                                                             *)

(* What the worker handled is a prefix of what was accepted: nothing is    *)
(* lost, invented, repeated or reordered on the way to the journal or the  *)
(* sink.  When Stop returns it is all of it: the drain on shutdown misses  *)
(* no item, however late the pushes were.                                  *)
StopDrains ==
    /\ Len(delivered) <= Len(accepted)
    /\ \A i \in 1 .. Len(delivered) : delivered[i] = accepted[i]
    /\ stop = "done" => delivered = accepted

(* Stop returns: the worker notices running_ and the drain ends.           *)
StopReturns == stop = "joining" ~> stop = "done"

(* An accepted item is handled even if Stop is never called.               *)
AcceptedIsHandled ==
    \A n \in Values : Len(accepted) >= n ~> Len(delivered) >= n
=============================================================================
