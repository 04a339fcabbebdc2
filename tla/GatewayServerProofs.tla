------------------------- MODULE GatewayServerProofs -------------------------
(***************************************************************************)
(* The sessions take turns, for every number of connections and commands   *)
(* and every capacity of the queues.                                       *)
(***************************************************************************)
EXTENDS GatewayServer, TLAPS

(* The provers may spend twenty seconds on a leaf.                         *)
USE SMTT(20), Z3T(20), ZenonT(20)

InRound == main \in {"serve", "journal", "dispatch", "publish"}

(* The for loop has passed session t in this round.                        *)
Passed(t) == t < current \/ (t = current /\ main # "serve")

(* Session s still has its turn in this round.                             *)
Awaits(s) == s <= copy /\ ~Passed(s)

Types ==
    /\ backlog \in Nat /\ connected \in Nat /\ started \in Nat /\ sessions \in Nat
    /\ copy \in Nat /\ current \in Nat \ {0}
    /\ sent \in [SessionIds -> Nat]
    /\ inbound \in [SessionIds -> Seq(SessionIds \X Nat)]
    /\ overtaken \in [SessionIds -> [SessionIds -> Nat]]

(* A session in the copy is one that was handed over, and so connected.    *)
Accounted ==
    /\ copy <= sessions
    /\ started + backlog = connected /\ connected <= Connections
    /\ started = IF acceptor = "handing" THEN sessions + 1 ELSE sessions

(* Nobody overtakes a session that waits for nothing or is not known yet.  *)
NoneWaits ==
    /\ \A s \in SessionIds : inbound[s] = << >> => \A t \in SessionIds : overtaken[s][t] = 0
    /\ \A s \in SessionIds : s > sessions => \A t \in SessionIds : overtaken[s][t] = 0

(* Between two rounds everybody was overtaken at most once by each other   *)
(* session; in a round, t adds one when it is passed, and what s brought   *)
(* from the round before is forgotten when s has had its turn.             *)
Turns ==
    /\ ~InRound => \A s, t \in SessionIds : overtaken[s][t] <= 1
    /\ InRound => \A s, t \in SessionIds :
          overtaken[s][t] <= (IF Awaits(s) THEN 1 ELSE 0) + (IF Passed(t) THEN 1 ELSE 0)

Inv == Types /\ Accounted /\ NoneWaits /\ Turns

(* The invariant holds of the initial state.                               *)
LEMMA InitInv == Init => Inv
  BY ServerAssumption DEF Init, Inv, Types, Accounted, NoneWaits, Turns, InRound, SessionIds

-----------------------------------------------------------------------------
(* Connections, the accept thread and the signal change none of what the   *)
(* main loop counts; a session is handed over with nobody ahead of it.     *)
LEMMA AcceptStep ==
  ASSUME Inv, Connect \/ AcceptSteps \/ AcceptFails \/ HandleSignal
  PROVE  Inv'
<1>1. UNCHANGED <<main, copy, current, sent, inbound, overtaken>>
  BY DEF Connect, AcceptSteps, AcceptCheck, Accept, AcceptWakes, AcceptFails, HandOver,
         HandleSignal, clients, loop
<1>2. sessions' \in Nat /\ sessions <= sessions'
  BY DEF Inv, Types, Connect, AcceptSteps, AcceptCheck, Accept, AcceptWakes, AcceptFails,
         HandOver, HandleSignal, accept
<1>3. Types'
  BY <1>1, <1>2 DEF Inv, Types, Connect, AcceptSteps, AcceptCheck, Accept, AcceptWakes,
                    AcceptFails, HandOver, HandleSignal, accept
<1>4. Accounted'
  <2> USE <1>1, ServerAssumption DEF Inv, Types, Accounted
  <2>1. CASE Connect
    BY <2>1 DEF Connect
  <2>2. CASE AcceptCheck \/ AcceptWakes \/ AcceptFails
    BY <2>2, Zenon DEF AcceptCheck, AcceptWakes, AcceptFails
  <2>3. CASE Accept
    BY <2>3 DEF Accept
  <2>4. CASE HandOver
    BY <2>4 DEF HandOver
  <2>5. CASE HandleSignal
    BY <2>5 DEF HandleSignal, accept
  <2> QED  BY <2>1, <2>2, <2>3, <2>4, <2>5 DEF AcceptSteps
<1>5. NoneWaits'
  BY <1>1, <1>2 DEF Inv, Types, NoneWaits, SessionIds
<1>6. Turns'
  BY <1>1 DEF Inv, Turns, InRound, Awaits, Passed
<1> QED  BY <1>3, <1>4, <1>5, <1>6 DEF Inv

(* A command that arrives makes its session wait, with nobody ahead yet.   *)
LEMMA ReaderStep ==
  ASSUME Inv, NEW s \in SessionIds, ReaderPushes(s)
  PROVE  Inv'
<1>1. UNCHANGED <<accept, main, copy, current, overtaken>>
  BY DEF ReaderPushes, loop
<1>2. /\ sent' = [sent EXCEPT ![s] = @ + 1]
      /\ inbound' = [inbound EXCEPT ![s] = Append(@, <<s, sent'[s]>>)]
  BY DEF ReaderPushes
<1>3. sent' \in [SessionIds -> Nat] /\ sent'[s] \in Nat
  BY <1>2 DEF Inv, Types
<1>4. inbound' \in [SessionIds -> Seq(SessionIds \X Nat)] /\ inbound'[s] # << >>
  <2> DEFINE command == <<s, sent'[s]>>
  <2>1. command \in SessionIds \X Nat /\ inbound[s] \in Seq(SessionIds \X Nat)
    BY <1>3 DEF Inv, Types
  <2> HIDE DEF command
  <2>2. Append(inbound[s], command) \in Seq(SessionIds \X Nat) /\ Append(inbound[s], command) # << >>
    BY <2>1
  <2>3. inbound' = [inbound EXCEPT ![s] = Append(inbound[s], command)]
    BY <1>2 DEF command
  <2> QED  BY <2>2, <2>3, Zenon DEF Inv, Types
<1>5. \A u \in SessionIds : inbound'[u] = << >> => inbound[u] = << >>
  <2>1. \A u \in SessionIds : u # s => inbound'[u] = inbound[u]
    BY <1>2, Zenon DEF Inv, Types
  <2> QED  BY <1>4, <2>1, Zenon
<1>6. Types' /\ Accounted'
  BY <1>1, <1>3, <1>4, Zenon DEF Inv, Types, Accounted, accept
<1>7. NoneWaits'
  BY <1>1, <1>5 DEF Inv, NoneWaits, accept
<1>8. Turns'
  BY <1>1 DEF Inv, Turns, InRound, Awaits, Passed
<1> QED  BY <1>6, <1>7, <1>8 DEF Inv

-----------------------------------------------------------------------------
(* A new round: everybody in the copy has its turn ahead, and brings at    *)
(* most one from the last round.                                           *)
LEMMA CopyStep ==
  ASSUME Inv, CopySessions
  PROVE  Inv'
<1>1. /\ main = "loop" /\ main' = "serve" /\ current' = 1 /\ copy' = sessions
      /\ UNCHANGED <<accept, sent, inbound, overtaken>>
  BY DEF CopySessions, clients
<1>2. Types' /\ Accounted' /\ NoneWaits'
  BY <1>1 DEF Inv, Types, Accounted, NoneWaits, accept
<1>3. \A s, t \in SessionIds : overtaken[s][t] \in Nat /\ overtaken[s][t] <= 1
  BY <1>1 DEF Inv, Types, Turns, InRound
<1>4. \A s, t \in SessionIds : s > sessions => overtaken[s][t] = 0
  BY DEF Inv, NoneWaits
<1>5. \A s \in SessionIds : ~Passed(s)' /\ (Awaits(s)' <=> s <= sessions)
  BY <1>1 DEF Passed, Awaits, SessionIds
<1>6. Turns'
  BY <1>1, <1>3, <1>4, <1>5 DEF Inv, Types, Turns, InRound, SessionIds
<1> QED  BY <1>2, <1>6 DEF Inv

(* A session with nothing to do is passed: it was overtaken by nobody.     *)
LEMMA SkipStep ==
  ASSUME Inv, Skip
  PROVE  Inv'
<1>1. main = "serve" /\ UNCHANGED <<accept, copy, sent, inbound, overtaken>>
  BY DEF Skip, clients
<1>2. current' \in Nat \ {0}
  BY DEF Inv, Types, Skip, NextSession
<1>3. Types' /\ Accounted' /\ NoneWaits'
  BY <1>1, <1>2 DEF Inv, Types, Accounted, NoneWaits, accept
<1>4. \A s, t \in SessionIds :
        /\ overtaken[s][t] \in Nat
        /\ overtaken[s][t] <= (IF Awaits(s) THEN 1 ELSE 0) + (IF Passed(t) THEN 1 ELSE 0)
  BY <1>1 DEF Inv, Types, Turns, InRound
<1>5. CASE current > copy /\ main' = "loop"
  <2>1. \A s \in SessionIds : ~Awaits(s)
    BY <1>1, <1>5 DEF Inv, Types, Awaits, Passed, SessionIds
  <2>2. \A s, t \in SessionIds : overtaken[s][t] <= 1
    BY <2>1, <1>4
  <2> QED  BY <2>2, <1>1, <1>3, <1>5 DEF Inv, Turns, InRound
<1>6. CASE inbound[current] = << >> /\ current' = current + 1 /\ UNCHANGED main /\ current <= copy
  <2>1. \A s \in SessionIds : Passed(s) => Passed(s)'
    BY <1>1, <1>6 DEF Inv, Types, Passed, SessionIds
  <2>2. \A s \in SessionIds : s # current /\ Awaits(s) => Awaits(s)'
    BY <1>1, <1>6 DEF Inv, Types, Awaits, Passed, SessionIds
  <2>3. \A t \in SessionIds : current \in SessionIds => overtaken[current][t] = 0
    BY <1>6 DEF Inv, NoneWaits
  <2>4. \A s, t \in SessionIds :
          overtaken[s][t] <= (IF Awaits(s)' THEN 1 ELSE 0) + (IF Passed(t)' THEN 1 ELSE 0)
    BY <1>4, <2>1, <2>2, <2>3
  <2> QED  BY <2>4, <1>1, <1>3, <1>6 DEF Inv, Turns, InRound
<1> QED  BY <1>5, <1>6 DEF Skip, NextSession

(* A command of the current session t is taken: those that wait behind t   *)
(* are overtaken by it once more, and t is passed and starts again.        *)
LEMMA PopStep ==
  ASSUME Inv, TryPopInbound
  PROVE  Inv'
<1>1. /\ main = "serve" /\ main' = "journal" /\ current <= copy
      /\ inbound[current] # << >>
      /\ inbound' = [inbound EXCEPT ![current] = Tail(@)]
      /\ overtaken' = Overtakes(current)
      /\ UNCHANGED <<accept, sent, copy, current>>
  BY DEF TryPopInbound
<1>2. current \in SessionIds
  BY <1>1, ServerAssumption DEF Inv, Types, Accounted, SessionIds
<1>3. \A s, t \in SessionIds :
        overtaken'[s][t] =
            IF s = current THEN 0
            ELSE IF s <= sessions /\ inbound[s] # << >> /\ t = current
                 THEN overtaken[s][t] + 1 ELSE overtaken[s][t]
  <2> SUFFICES ASSUME NEW s \in SessionIds, NEW t \in SessionIds
               PROVE  overtaken'[s][t] =
                        IF s = current THEN 0
                        ELSE IF s <= sessions /\ inbound[s] # << >> /\ t = current
                             THEN overtaken[s][t] + 1 ELSE overtaken[s][t]
    OBVIOUS
  <2>1. overtaken[s] \in [SessionIds -> Nat]
    BY DEF Inv, Types
  <2>2. overtaken'[s] = IF s = current THEN [u \in SessionIds |-> 0]
                        ELSE IF s <= sessions /\ inbound[s] # << >>
                             THEN [overtaken[s] EXCEPT ![current] = overtaken[s][current] + 1]
                             ELSE overtaken[s]
    BY <1>1, Zenon DEF Overtakes
  <2>3. t # current => [overtaken[s] EXCEPT ![current] = overtaken[s][current] + 1][t] = overtaken[s][t]
    BY <2>1, Zenon
  <2>4. t = current =>
          [overtaken[s] EXCEPT ![current] = overtaken[s][current] + 1][t] = overtaken[s][t] + 1
    BY <2>1, <1>2, Zenon
  <2> QED  BY <2>2, <2>3, <2>4, Zenon
<1>4. overtaken' \in [SessionIds -> [SessionIds -> Nat]]
  <2>1. ASSUME NEW s \in SessionIds
        PROVE  [overtaken[s] EXCEPT ![current] = @ + 1] \in [SessionIds -> Nat]
    <3>1. overtaken[s] \in [SessionIds -> Nat] /\ overtaken[s][current] + 1 \in Nat
      BY <1>2 DEF Inv, Types
    <3> QED  BY <3>1, Zenon
  <2>2. \A s \in SessionIds : overtaken[s] \in [SessionIds -> Nat]
    BY DEF Inv, Types
  <2>3. [u \in SessionIds |-> 0] \in [SessionIds -> Nat]
    OBVIOUS
  <2> QED  BY <1>1, <2>1, <2>2, <2>3 DEF Overtakes
<1>5. inbound' \in [SessionIds -> Seq(SessionIds \X Nat)]
  BY <1>1, <1>2 DEF Inv, Types
<1>6. Types' /\ Accounted'
  BY <1>1, <1>4, <1>5, Zenon DEF Inv, Types, Accounted, accept
<1>7. NoneWaits'
  <2>1. \A s \in SessionIds : s # current => inbound'[s] = inbound[s]
    BY <1>1 DEF Inv, Types
  <2>2. current <= sessions
    BY <1>1 DEF Inv, Types, Accounted
  <2>3. \A s \in SessionIds : s > sessions => s # current /\ ~(s <= sessions)
    BY <2>2 DEF Inv, Types, SessionIds
  <2>4. sessions' = sessions
    BY <1>1 DEF accept
  <2>5. \A s \in SessionIds : inbound'[s] = << >> => \A t \in SessionIds : overtaken'[s][t] = 0
    BY <1>3, <2>1 DEF Inv, NoneWaits
  <2>6. \A s \in SessionIds : s > sessions => \A t \in SessionIds : overtaken'[s][t] = 0
    BY <1>3, <2>3 DEF Inv, NoneWaits
  <2> QED  BY <2>4, <2>5, <2>6 DEF NoneWaits
<1>8. \A s \in SessionIds : s # current => (Passed(s)' <=> Passed(s)) /\ (Awaits(s)' <=> Awaits(s))
  BY <1>1, <1>2 DEF Inv, Types, Passed, Awaits, SessionIds
<1>9. \A t \in SessionIds : t = current => ~Passed(t) /\ Passed(t)'
  BY <1>1 DEF Inv, Types, Passed
<1>10. \A s, t \in SessionIds :
        /\ overtaken[s][t] \in Nat
        /\ overtaken[s][t] <= (IF Awaits(s) THEN 1 ELSE 0) + (IF Passed(t) THEN 1 ELSE 0)
  BY <1>1 DEF Inv, Types, Turns, InRound
<1>11. \A s, t \in SessionIds :
        overtaken'[s][t] <= (IF Awaits(s)' THEN 1 ELSE 0) + (IF Passed(t)' THEN 1 ELSE 0)
  <2> SUFFICES ASSUME NEW s \in SessionIds, NEW t \in SessionIds
               PROVE  overtaken'[s][t] <= (IF Awaits(s)' THEN 1 ELSE 0) + (IF Passed(t)' THEN 1 ELSE 0)
    OBVIOUS
  <2>1. CASE s = current
    BY <2>1, <1>3
  <2>2. CASE s # current /\ t = current
    <3>1. overtaken'[s][t] <= overtaken[s][t] + 1
      BY <2>2, <1>3, <1>10
    <3>2. overtaken[s][t] <= IF Awaits(s) THEN 1 ELSE 0
      BY <2>2, <1>9, <1>10
    <3>3. overtaken[s][t] \in Nat /\ overtaken'[s][t] \in Nat
      BY <1>4, <1>10
    <3> QED  BY <2>2, <3>1, <3>2, <3>3, <1>8, <1>9
  <2>3. CASE s # current /\ t # current
    <3>1. overtaken'[s][t] = overtaken[s][t]
      BY <2>3, <1>3
    <3> QED  BY <2>3, <3>1, <1>8, <1>10
  <2> QED  BY <2>1, <2>2, <2>3
<1>12. Turns'
  BY <1>1, <1>11 DEF Turns, InRound
<1> QED  BY <1>6, <1>7, <1>12 DEF Inv

(* The command in hand is journaled, dispatched and published: the current *)
(* session stays passed.                                                   *)
LEMMA CommandStep ==
  ASSUME Inv, TryAppend \/ Dispatch \/ Publish
  PROVE  Inv'
<1>1. UNCHANGED <<accept, sent, inbound, copy, overtaken>>
  BY DEF TryAppend, Dispatch, Publish, clients
<1>2. /\ main \in {"journal", "dispatch", "publish"}
      /\ \/ main' \in {"dispatch", "publish"} /\ current' = current
         \/ main' = "serve" /\ current' = current + 1
  BY DEF TryAppend, Dispatch, Publish, NextSession
<1>3. Types' /\ Accounted' /\ NoneWaits'
  BY <1>1, <1>2 DEF Inv, Types, Accounted, NoneWaits, accept
<1>4. \A s \in SessionIds : (Passed(s)' <=> Passed(s)) /\ (Awaits(s)' <=> Awaits(s))
  BY <1>1, <1>2 DEF Inv, Types, Passed, Awaits, SessionIds
<1>5. Turns'
  BY <1>1, <1>2, <1>4 DEF Inv, Turns, InRound
<1> QED  BY <1>3, <1>5 DEF Inv

(* The shutdown begins between two rounds and counts nothing.              *)
LEMMA ShutdownStep ==
  ASSUME Inv, WriteSnapshot \/ StopGateway \/ JoinGateway \/ StopFeed \/ StopJournal
  PROVE  Inv'
<1>1. /\ ~InRound /\ ~InRound'
      /\ UNCHANGED <<backlog, connected, acceptor, started, sessions, sent, inbound, copy,
                     current, overtaken>>
  BY DEF WriteSnapshot, StopGateway, JoinGateway, StopFeed, StopJournal, InRound, accept, clients
<1> QED  BY <1>1 DEF Inv, Types, Accounted, NoneWaits, Turns

(* The workers touch only their queues.                                    *)
LEMMA OtherStep ==
  ASSUME Inv, JournalWorker \/ FeedWorker \/ Terminated \/ UNCHANGED vars
  PROVE  Inv'
<1>1. UNCHANGED <<accept, loop, sent, inbound, overtaken>>
  BY DEF JournalWorker, FeedWorker, Terminated, vars, clients
<1> QED
  BY <1>1 DEF Inv, Types, Accounted, NoneWaits, Turns, InRound, Awaits, Passed, accept, loop

-----------------------------------------------------------------------------
(* The invariant holds in every reachable state.                           *)
THEOREM Invariance == Spec => []Inv
<1>1. Inv /\ [Next]_vars => Inv'
  <2> SUFFICES ASSUME Inv, [Next]_vars PROVE Inv'
    OBVIOUS
  <2>1. ASSUME NEW s \in SessionIds, ReaderPushes(s) PROVE Inv'
    BY <2>1, ReaderStep
  <2> QED
    BY <2>1, AcceptStep, CopyStep, SkipStep, PopStep, CommandStep, ShutdownStep, OtherStep
       DEF Next, MainSteps
<1> QED  BY <1>1, InitInv, PTL DEF Spec

(* However many sessions there are and however fast their commands come,   *)
(* no session is served more than twice while another one waits: the copy  *)
(* of the session list and the for loop over it starve nobody.             *)
THEOREM TurnsAreTaken == Spec => []SessionsTakeTurns
<1>1. Inv => SessionsTakeTurns
  <2> SUFFICES ASSUME Inv, NEW s \in SessionIds, NEW t \in SessionIds
               PROVE  overtaken[s][t] <= 2
    BY DEF SessionsTakeTurns
  <2>1. overtaken[s][t] \in Nat
    BY DEF Inv, Types
  <2>2. CASE InRound
    BY <2>1, <2>2 DEF Inv, Turns
  <2>3. CASE ~InRound
    BY <2>1, <2>3 DEF Inv, Turns
  <2> QED  BY <2>2, <2>3
<1> QED  BY <1>1, Invariance, PTL
=============================================================================
