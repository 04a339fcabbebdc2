------------------------ MODULE GatewaySessionProofs ------------------------
(***************************************************************************)
(* What a session's writer does with the reports, and what its reader      *)
(* leaves behind, for every capacity of the queues and every number of     *)
(* frames and reports.                                                     *)
(***************************************************************************)
EXTENDS GatewaySession, SequenceTheorems, TLAPS

(* The provers may spend twenty seconds on a leaf.                         *)
USE SMTT(20), Z3T(20), ZenonT(20)

Report == Nat \X Nat

Types ==
    /\ inbound \in Seq(Nat) /\ extracted \in Nat
    /\ pending \in Seq(Report) /\ queued \in Seq(Report) /\ outbound \in Seq(Report)
    /\ body \in Seq(Report) /\ written \in Seq(Report)

(* Between two messages the writer has none in hand.                       *)
HandEmpty == writer \in {"loop", "drain"} => body = << >>

Inv == Types /\ HandEmpty /\ ReportsInOrder /\ DeadSessionShows

-----------------------------------------------------------------------------
(* Sequences.                                                              *)

(* What a session moves is the front of a queue.                           *)
LEMMA HeadThenTail ==
  ASSUME NEW S, NEW s \in Seq(S), s # << >>
  PROVE  /\ Head(s) \in S /\ Tail(s) \in Seq(S) /\ <<Head(s)>> \in Seq(S)
         /\ <<Head(s)>> \o Tail(s) = s
<1>1. Head(s) \in S /\ Tail(s) \in Seq(S) /\ Len(Tail(s)) = Len(s) - 1
  BY HeadTailProperties
<1>2. \A i \in 1 .. Len(Tail(s)) : Tail(s)[i] = s[i + 1]
  BY HeadTailProperties
<1>3. <<Head(s)>> \in Seq(S) /\ Len(<<Head(s)>>) = 1 /\ <<Head(s)>>[1] = s[1]
  BY <1>1
<1> DEFINE t == <<Head(s)>> \o Tail(s)
<1>4. /\ t \in Seq(S) /\ Len(t) = 1 + Len(Tail(s))
      /\ \A i \in 1 .. 1 + Len(Tail(s)) : t[i] = IF i <= 1 THEN <<Head(s)>>[i] ELSE Tail(s)[i - 1]
  BY <1>1, <1>3, ConcatProperties
<1> HIDE DEF t
<1>5. Len(t) = Len(s) /\ Len(s) \in Nat
  BY <1>1, <1>4, LenProperties
<1>6. \A i \in 1 .. Len(t) : t[i] = s[i]
  BY <1>1, <1>2, <1>3, <1>4, <1>5
<1>7. t = s
  BY <1>4, <1>5, <1>6, SeqEqual
<1> QED  BY <1>1, <1>3, <1>7 DEF t

(* Moving the front of one sequence to the end of another.                 *)
LEMMA MoveHead ==
  ASSUME NEW S, NEW s \in Seq(S), NEW t \in Seq(S), t # << >>
  PROVE  (s \o <<Head(t)>>) \o Tail(t) = s \o t
<1>1. <<Head(t)>> \in Seq(S) /\ Tail(t) \in Seq(S) /\ <<Head(t)>> \o Tail(t) = t
  BY HeadThenTail
<1>2. \A u, v \in Seq(S) : (s \o u) \o v = s \o (u \o v)
  BY ConcatAssociative
<1>3. (s \o <<Head(t)>>) \o Tail(t) = s \o (<<Head(t)>> \o Tail(t))
  BY <1>1, <1>2
<1> QED  BY <1>1, <1>3

(* An element appended to the last part is appended to the whole.          *)
LEMMA AppendToWhole ==
  ASSUME NEW S, NEW s \in Seq(S), NEW t \in Seq(S), NEW e \in S
  PROVE  s \o Append(t, e) = Append(s \o t, e)
<1>1. Append(t, e) = t \o <<e>> /\ Append(s \o t, e) = (s \o t) \o <<e>> /\ <<e>> \in Seq(S)
  BY ConcatProperties, AppendIsConcat
<1> QED  BY <1>1, ConcatAssociative
-----------------------------------------------------------------------------
(* The steps.                                                              *)

(* Nothing has happened yet.                                               *)
LEMMA InitInv == Init => Inv
<1> SUFFICES ASSUME Init PROVE Inv
  OBVIOUS
<1>1. Types /\ HandEmpty /\ DeadSessionShows
  BY DEF Init, Types, HandEmpty, DeadSessionShows
<1>2. ReportsInOrder
  BY ConcatEmptySeq, EmptySeq DEF Init, ReportsInOrder
<1> QED  BY <1>1, <1>2 DEF Inv

(* The peer and the reader have nothing to do with reports.  The reader    *)
(* returns without the store to alive_ only when the session is stopping.  *)
LEMMA ReaderStep ==
  ASSUME Inv, PeerSteps \/ ReaderSteps
  PROVE  Inv'
<1> USE DEF Inv, Types
<1>1. UNCHANGED <<evars, outbound, wvars, stopping>>
  BY DEF PeerSteps, PeerSend, PeerLeaves, PeerReads, ReaderSteps, ReaderCheck, ReaderCallsRecv,
         RecvData, RecvEnds, ReaderExtracts, ReaderPushes, evars, wvars, svars
<1>2. inbound' \in Seq(Nat)
  <2>1. inbound' = inbound \/ inbound' = Append(inbound, extracted)
    BY DEF PeerSteps, PeerSend, PeerLeaves, PeerReads, ReaderSteps, ReaderCheck, ReaderCallsRecv,
           RecvData, RecvEnds, ReaderExtracts, ReaderPushes
  <2>2. Append(inbound, extracted) \in Seq(Nat)
    BY AppendProperties
  <2> QED  BY <2>1, <2>2, Zenon
<1>3. extracted' \in Nat
  BY DEF PeerSteps, PeerSend, PeerLeaves, PeerReads, ReaderSteps, ReaderCheck, ReaderCallsRecv,
         RecvData, RecvEnds, ReaderExtracts, ReaderPushes, ReaderReturns, rvars
<1>4. DeadSessionShows'
  BY <1>1 DEF DeadSessionShows, PeerSteps, PeerSend, PeerLeaves, PeerReads, ReaderSteps,
              ReaderCheck, ReaderCallsRecv, RecvData, RecvEnds, ReaderExtracts, ReaderPushes,
              ReaderReturns, rvars
<1> QED  BY <1>1, <1>2, <1>3, <1>4 DEF HandEmpty, ReportsInOrder, evars, wvars

(* A command is taken, and its reports are made.                           *)
LEMMA TakeStep ==
  ASSUME Inv, NEW count \in ReportCounts, TryPopInbound(count)
  PROVE  Inv'
<1> USE DEF Inv, Types
<1>1. UNCHANGED <<rvars, queued, outbound, wvars, svars, alive>> /\ inbound # << >>
  BY DEF TryPopInbound
<1>2. Head(inbound) \in Nat /\ inbound' \in Seq(Nat)
  BY HeadThenTail DEF TryPopInbound
<1>3. pending' \in Seq(Report)
  <2>1. count \in Nat /\ pending' = [k \in 1 .. count |-> <<Head(inbound), k>>]
    BY SessionAssumption DEF TryPopInbound
  <2>2. \A k \in 1 .. count : <<Head(inbound), k>> \in Report
    BY <1>2, <2>1 DEF Report
  <2>3. pending' \in [1 .. count -> Report]
    BY <2>1, <2>2
  <2> QED  BY <2>1, <2>3
<1> QED
  BY <1>1, <1>2, <1>3 DEF HandEmpty, ReportsInOrder, DeadSessionShows, rvars, wvars, svars

(* A report is queued behind the others, or dropped.                       *)
LEMMA QueueStep ==
  ASSUME Inv, TryPushOutbound
  PROVE  Inv'
<1> USE DEF Inv, Types
<1>1. /\ UNCHANGED <<rvars, inbound, wvars, svars, alive>>
      /\ pending # << >> /\ pending' = Tail(pending)
  BY DEF TryPushOutbound
<1>2. Head(pending) \in Report /\ pending' \in Seq(Report)
  BY <1>1, HeadThenTail
<1>3. CASE UNCHANGED <<outbound, queued>>
  BY <1>1, <1>2, <1>3 DEF HandEmpty, ReportsInOrder, DeadSessionShows, rvars, wvars, svars
<1>4. CASE outbound' = Append(outbound, Head(pending)) /\ queued' = Append(queued, Head(pending))
  <2>1. outbound' \in Seq(Report) /\ queued' \in Seq(Report)
    BY <1>2, <1>4, AppendProperties
  <2>2. written \o body \in Seq(Report)
    BY ConcatProperties
  <2>3. (written \o body) \o outbound' = Append((written \o body) \o outbound, Head(pending))
    BY SMTT(30), <1>2, <1>4, <2>2, AppendToWhole
  <2>4. ReportsInOrder'
    BY <1>1, <1>4, <2>3, Zenon DEF ReportsInOrder, wvars
  <2> QED  BY <1>1, <1>2, <2>1, <2>4 DEF HandEmpty, DeadSessionShows, rvars, wvars, svars
<1> QED  BY <1>3, <1>4 DEF TryPushOutbound

(* Stop only closes and waits.                                             *)
LEMMA StopStep ==
  ASSUME Inv, Stop \/ StopSteps \/ Terminated \/ UNCHANGED vars
  PROVE  Inv'
<1>1. /\ UNCHANGED <<rvars, inbound, evars, outbound, wvars, alive>>
      /\ stopping' = TRUE \/ stopping' = stopping
  BY DEF Stop, StopSteps, CloseSocket, Join, Terminated, vars, svars
<1> QED
  BY <1>1 DEF Inv, Types, HandEmpty, ReportsInOrder, DeadSessionShows, rvars, evars, wvars

(* The writer takes the oldest report in hand, or leaves its loop.         *)
LEMMA WriterPopStep ==
  ASSUME Inv, WriterLoops \/ WriterDrains
  PROVE  Inv'
<1> USE DEF Inv, Types
<1>1. UNCHANGED <<rvars, inbound, evars, written, svars, alive>>
  BY DEF WriterLoops, WriterDrains
<1>2. CASE UNCHANGED <<body, outbound>> /\ writer \in {"loop", "drain"}
  BY <1>1, <1>2 DEF HandEmpty, ReportsInOrder, DeadSessionShows, rvars, evars, svars
<1>3. CASE PopOutbound /\ writer \in {"loop", "drain"} /\ writer' \in {"send", "drainSend"}
  <2>1. outbound # << >> /\ body' = <<Head(outbound)>> /\ outbound' = Tail(outbound)
    BY <1>3 DEF PopOutbound
  <2>2. body' \in Seq(Report) /\ outbound' \in Seq(Report)
    BY <2>1, HeadThenTail
  <2>3. written \o body = written
    BY <1>3, ConcatEmptySeq DEF HandEmpty
  <2>4. (written \o body') \o outbound' = written \o outbound
    BY <2>1, MoveHead
  <2>5. ReportsInOrder'
    BY <1>1, <2>3, <2>4 DEF ReportsInOrder, evars
  <2> QED  BY <1>1, <1>3, <2>2, <2>5 DEF HandEmpty, DeadSessionShows, rvars, evars, svars
<1> QED  BY <1>2, <1>3 DEF WriterLoops, WriterDrains

(* The report in hand is written, waits in send(), or the writer ends with *)
(* it in hand.                                                             *)
LEMMA WriterSendStep ==
  ASSUME Inv, SendBlocks \/ SendAllSucceeds \/ SendAllFails \/ SendAllKills
  PROVE  Inv'
<1> USE DEF Inv, Types
<1>1. UNCHANGED <<rvars, inbound, evars, outbound, svars>>
  BY DEF SendBlocks, SendAllSucceeds, SendAllFails, SendAllKills, input
<1>2. DeadSessionShows'
  BY <1>1, Zenon
  DEF DeadSessionShows, SendBlocks, SendAllSucceeds, SendAllFails, SendAllKills, rvars, svars
<1>3. CASE SendAllSucceeds
  <2>1. written' = written \o body /\ body' = << >>
    BY <1>3 DEF SendAllSucceeds
  <2>2. written' \in Seq(Report) /\ body' \in Seq(Report)
    BY <2>1, ConcatProperties
  <2>3. written' \o body' = written \o body
    BY <2>1, <2>2, ConcatEmptySeq
  <2> QED  BY <1>1, <1>2, <2>1, <2>2, <2>3 DEF HandEmpty, ReportsInOrder, rvars, evars
<1>4. CASE SendBlocks \/ SendAllFails \/ SendAllKills
  <2>1. UNCHANGED <<body, written>> /\ writer' \notin {"loop", "drain"}
    BY <1>4 DEF SendBlocks, SendAllFails, SendAllKills
  <2> QED  BY <1>1, <1>2, <2>1 DEF HandEmpty, ReportsInOrder, rvars, evars
<1> QED  BY <1>3, <1>4

-----------------------------------------------------------------------------
(* The invariant holds in every reachable state.                           *)
THEOREM Invariance == Spec => []Inv
<1>1. Inv /\ [Next]_vars => Inv'
  <2> SUFFICES ASSUME Inv, [Next]_vars PROVE Inv'
    OBVIOUS
  <2>1. CASE EngineSteps
    BY <2>1, TakeStep, QueueStep DEF EngineSteps
  <2>2. CASE WriterSteps
    BY <2>2, WriterPopStep, WriterSendStep DEF WriterSteps
  <2> QED  BY <2>1, <2>2, ReaderStep, StopStep DEF Next
<1> QED  BY <1>1, InitInv, PTL DEF Spec

(* Every queued report is written once and in order, in hand or queued:    *)
(* whatever fails, nothing is reordered, repeated or skipped.              *)
THEOREM ReportsKeepOrder == Spec => []ReportsInOrder
<1>1. Inv => ReportsInOrder
  BY DEF Inv
<1> QED  BY <1>1, Invariance, PTL

(* A session whose reader ended by itself is marked not alive.             *)
THEOREM DeadSessionsShow == Spec => []DeadSessionShows
<1>1. Inv => DeadSessionShows
  BY DEF Inv
<1> QED  BY <1>1, Invariance, PTL
=============================================================================
