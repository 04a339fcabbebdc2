---------------------------- MODULE GatewayServer ----------------------------
(***************************************************************************)
(* gateway_server: the accept thread of TcpGateway, the main loop, which   *)
(* drives the engine for all sessions, the two background workers, and     *)
(* the shutdown.  Command n of session s is <<s, n>>.  The engine is the   *)
(* sequence of the commands dispatched to it, of which it is a function    *)
(* (see PartitionedEngine), and one event stands for the events of a       *)
(* command.  What happens inside a session is in GatewaySession, inside    *)
(* the workers' queues in AsyncWorker.                                     *)
(***************************************************************************)
EXTENDS Naturals, Sequences, SequencesExt

CONSTANTS
    Connections,     \* how many clients connect
    MaxCommands,     \* how many commands each of them sends: a function
    InboundCapacity, JournalCapacity, FeedCapacity,
    CloseWakes       \* does close() end another thread's accept()?

ASSUME ServerAssumption ==
    /\ Connections \in Nat /\ CloseWakes \in BOOLEAN
    /\ MaxCommands \in [1 .. Connections -> Nat]
    /\ {InboundCapacity, JournalCapacity, FeedCapacity} \subseteq Nat \ {0}

SessionIds == 1 .. Connections

VARIABLES
    backlog,      \* connections that were not accepted yet
    connected,    \* how many clients have connected
    listening,    \* listener_ is open
    stopped,      \* stopped_
    acceptor,     \* "check", "blocked", "handing", "returned"
    started,      \* next_session_id - 1: the sessions that were started
    sessions,     \* how many were handed over: sessions 1 .. n, in this order
    sent,         \* how many commands each client has sent
    inbound,      \* the sessions' inbound_
    g_shutdown,
    main,         \* where the main thread is
    copy,         \* how many sessions the copy holds
    current,      \* the session of the for loop
    cmd,          \* the command in hand, or none: a sequence
    jqueue,       \* the journal's queue
    journal,      \* the commands its worker appended
    dropped,      \* the commands TryAppend returned false for
    applied,      \* the engine: the commands that were dispatched
    feed,         \* how many events are in the market data's queue
    snapshot,     \* the engine that WriteSnapshot wrote
    overtaken     \* history: for sessions s and t, how many commands of t
                  \* were taken since one of s waits

accept == <<backlog, connected, listening, stopped, acceptor, started, sessions>>
clients == <<sent, inbound>>
loop == <<main, copy, current, cmd>>
log == <<jqueue, journal, dropped>>
vars == <<accept, clients, g_shutdown, loop, log, applied, feed, snapshot, overtaken>>

Init ==
    /\ backlog = 0 /\ connected = 0 /\ listening = TRUE /\ stopped = FALSE
    /\ acceptor = "check" /\ started = 0 /\ sessions = 0
    /\ sent = [s \in SessionIds |-> 0]
    /\ inbound = [s \in SessionIds |-> << >>]
    /\ g_shutdown = FALSE
    /\ main = "loop" /\ copy = 0 /\ current = 1 /\ cmd = << >>
    /\ jqueue = << >> /\ journal = << >> /\ dropped = {}
    /\ applied = << >> /\ feed = 0 /\ snapshot = << >>
    /\ overtaken = [s \in SessionIds |-> [t \in SessionIds |-> 0]]

-----------------------------------------------------------------------------
(* The clients, and the sessions' reader threads.                          *)

Connect ==
    /\ listening
    /\ connected < Connections
    /\ connected' = connected + 1 /\ backlog' = backlog + 1
    /\ UNCHANGED <<listening, stopped, acceptor, started, sessions, clients, g_shutdown,
                   loop, log, applied, feed, snapshot, overtaken>>

(* A command is pushed to inbound_ as soon as the session is started.      *)
ReaderPushes(s) ==
    /\ s <= started
    /\ sent[s] < MaxCommands[s]
    /\ Len(inbound[s]) < InboundCapacity
    /\ sent' = [sent EXCEPT ![s] = @ + 1]
    /\ inbound' = [inbound EXCEPT ![s] = Append(@, <<s, sent'[s]>>)]
    /\ UNCHANGED <<accept, g_shutdown, loop, log, applied, feed, snapshot, overtaken>>

-----------------------------------------------------------------------------
(* AcceptLoop.                                                             *)

(* The loop test and the call of accept, which fails at once on a listener *)
(* that was closed.                                                        *)
AcceptCheck ==
    /\ acceptor = "check"
    /\ acceptor' = IF stopped \/ ~listening THEN "returned" ELSE "blocked"
    /\ UNCHANGED <<backlog, connected, listening, stopped, started, sessions, clients,
                   g_shutdown, loop, log, applied, feed, snapshot, overtaken>>

(* accept returns a connection, and its session is started.                *)
Accept ==
    /\ acceptor = "blocked"
    /\ backlog > 0
    /\ backlog' = backlog - 1
    /\ started' = started + 1
    /\ acceptor' = "handing"
    /\ UNCHANGED <<connected, listening, stopped, sessions, clients, g_shutdown,
                   loop, log, applied, feed, snapshot, overtaken>>

(* The listener is closed while accept waits.                              *)
AcceptWakes ==
    /\ acceptor = "blocked"
    /\ ~listening /\ CloseWakes
    /\ acceptor' = "returned"
    /\ UNCHANGED <<backlog, connected, listening, stopped, started, sessions, clients,
                   g_shutdown, loop, log, applied, feed, snapshot, overtaken>>

(* accept fails for another reason, such as a connection that was aborted  *)
(* or no descriptor being left: the loop ends all the same.                *)
AcceptFails ==
    /\ acceptor = "blocked"
    /\ listening
    /\ acceptor' = "returned"
    /\ UNCHANGED <<backlog, connected, listening, stopped, started, sessions, clients,
                   g_shutdown, loop, log, applied, feed, snapshot, overtaken>>

(* on_new_session: push_back under the mutex.                              *)
HandOver ==
    /\ acceptor = "handing"
    /\ sessions' = sessions + 1
    /\ acceptor' = "check"
    /\ UNCHANGED <<backlog, connected, listening, stopped, started, clients, g_shutdown,
                   loop, log, applied, feed, snapshot, overtaken>>

-----------------------------------------------------------------------------
(* The main loop.                                                          *)

(* Mutants: the sessions are copied while there are none only; the loop    *)
(* goes on while there are sessions.                                       *)
CopySessionsWhileAny ==
    /\ main = "loop" /\ (~g_shutdown \/ sessions > 0)
    /\ copy' = sessions
    /\ current' = 1 /\ main' = "serve"
    /\ UNCHANGED <<accept, clients, g_shutdown, cmd, log, applied, feed, snapshot, overtaken>>

CopySessionsOnce ==
    /\ main = "loop" /\ ~g_shutdown
    /\ copy' = IF copy = 0 THEN sessions ELSE copy
    /\ current' = 1 /\ main' = "serve"
    /\ UNCHANGED <<accept, clients, g_shutdown, cmd, log, applied, feed, snapshot, overtaken>>

CopySessions ==
    /\ main = "loop" /\ ~g_shutdown
    /\ copy' = sessions
    /\ current' = 1 /\ main' = "serve"
    /\ UNCHANGED <<accept, clients, g_shutdown, cmd, log, applied, feed, snapshot, overtaken>>

(* Mutant: a session is served until its queue is empty (see Publish).     *)
NextSessionWhenEmpty == IF inbound[current] = << >> THEN current + 1 ELSE current

NextSession == current + 1

(* The for loop ends, or TryPopInbound finds nothing.                      *)
Skip ==
    /\ main = "serve"
    /\ \/ current > copy /\ main' = "loop" /\ UNCHANGED current
       \/ /\ current <= copy /\ inbound[current] = << >>
          /\ current' = NextSession /\ UNCHANGED main
    /\ UNCHANGED <<accept, clients, g_shutdown, copy, cmd, log, applied, feed, snapshot, overtaken>>

Overtakes(t) ==
    [s \in SessionIds |->
        IF s = t THEN [u \in SessionIds |-> 0]
        ELSE IF s <= sessions /\ inbound[s] # << >>
             THEN [overtaken[s] EXCEPT ![t] = @ + 1]
             ELSE overtaken[s]]

TryPopInbound ==
    /\ main = "serve" /\ current <= copy /\ inbound[current] # << >>
    /\ cmd' = <<Head(inbound[current])>>
    /\ inbound' = [inbound EXCEPT ![current] = Tail(@)]
    /\ overtaken' = Overtakes(current)
    /\ main' = "journal"
    /\ UNCHANGED <<accept, sent, g_shutdown, copy, current, log, applied, feed, snapshot>>

(* Mutant: a full queue loses its newest entry.                            *)
TryAppendOverwrites ==
    /\ main = "journal"
    /\ jqueue' = (IF Len(jqueue) < JournalCapacity THEN jqueue ELSE Front(jqueue)) \o cmd
    /\ main' = "dispatch"
    /\ UNCHANGED <<accept, clients, g_shutdown, copy, current, cmd, journal, dropped, applied,
                   feed, snapshot, overtaken>>

(* journal.TryAppend, whose result is ignored.                             *)
TryAppend ==
    /\ main = "journal"
    /\ IF Len(jqueue) < JournalCapacity
       THEN jqueue' = jqueue \o cmd /\ UNCHANGED dropped
       ELSE dropped' = dropped \cup Range(cmd) /\ UNCHANGED jqueue
    /\ main' = "dispatch"
    /\ UNCHANGED <<accept, clients, g_shutdown, copy, current, cmd, journal, applied, feed,
                   snapshot, overtaken>>

Dispatch ==
    /\ main = "dispatch"
    /\ applied' = applied \o cmd
    /\ main' = "publish"
    /\ UNCHANGED <<accept, clients, g_shutdown, copy, current, cmd, log, feed, snapshot, overtaken>>

(* market_data.Publish, which drops what does not fit, and TryPushOutbound *)
(* (see GatewaySession), whose result is ignored; then the next session.   *)
Publish ==
    /\ main = "publish"
    /\ feed' = IF feed < FeedCapacity THEN feed + 1 ELSE feed
    /\ cmd' = << >>
    /\ current' = NextSession
    /\ main' = "serve"
    /\ UNCHANGED <<accept, clients, g_shutdown, copy, log, applied, snapshot, overtaken>>

-----------------------------------------------------------------------------
(* The workers.                                                            *)

JournalWorker ==
    /\ jqueue # << >>
    /\ journal' = Append(journal, Head(jqueue))
    /\ jqueue' = Tail(jqueue)
    /\ UNCHANGED <<accept, clients, g_shutdown, loop, dropped, applied, feed, snapshot, overtaken>>

FeedWorker ==
    /\ feed > 0
    /\ feed' = feed - 1
    /\ UNCHANGED <<accept, clients, g_shutdown, loop, log, applied, snapshot, overtaken>>

-----------------------------------------------------------------------------
(* The shutdown.  The Stop of a worker returns when its queue is drained.  *)

HandleSignal ==
    /\ ~g_shutdown
    /\ g_shutdown' = TRUE
    /\ UNCHANGED <<accept, clients, loop, log, applied, feed, snapshot, overtaken>>

WriteSnapshot ==
    /\ main = "loop" /\ g_shutdown
    /\ snapshot' = applied
    /\ main' = "stopGateway"
    /\ UNCHANGED <<accept, clients, g_shutdown, copy, current, cmd, log, applied, feed, overtaken>>

StopGateway ==
    /\ main = "stopGateway"
    /\ stopped' = TRUE /\ listening' = FALSE
    /\ main' = "joinGateway"
    /\ UNCHANGED <<backlog, connected, acceptor, started, sessions, clients, g_shutdown,
                   copy, current, cmd, log, applied, feed, snapshot, overtaken>>

JoinGateway ==
    /\ main = "joinGateway" /\ acceptor = "returned"
    /\ main' = "stopFeed"
    /\ UNCHANGED <<accept, clients, g_shutdown, copy, current, cmd, log, applied, feed, snapshot, overtaken>>

StopFeed ==
    /\ main = "stopFeed" /\ feed = 0
    /\ main' = "stopJournal"
    /\ UNCHANGED <<accept, clients, g_shutdown, copy, current, cmd, log, applied, feed, snapshot, overtaken>>

(* Mutant: the journal's Stop does not wait for its queue to be drained.   *)
StopJournalAtOnce ==
    /\ main = "stopJournal"
    /\ main' = "exit"
    /\ UNCHANGED <<accept, clients, g_shutdown, copy, current, cmd, log, applied, feed, snapshot, overtaken>>

StopJournal ==
    /\ main = "stopJournal" /\ jqueue = << >>
    /\ main' = "exit"
    /\ UNCHANGED <<accept, clients, g_shutdown, copy, current, cmd, log, applied, feed, snapshot, overtaken>>

-----------------------------------------------------------------------------
Up == main # "exit"

AcceptSteps == AcceptCheck \/ Accept \/ AcceptWakes \/ HandOver
MainSteps ==
    \/ CopySessions \/ Skip \/ TryPopInbound \/ TryAppend \/ Dispatch \/ Publish
    \/ WriteSnapshot \/ StopGateway \/ JoinGateway \/ StopFeed \/ StopJournal

Terminated == ~Up /\ UNCHANGED vars

Next ==
    \/ Up /\ Connect
    \/ \E s \in SessionIds : Up /\ ReaderPushes(s)
    \/ Up /\ AcceptSteps
    \/ Up /\ AcceptFails
    \/ Up /\ MainSteps
    \/ Up /\ JournalWorker
    \/ Up /\ FeedWorker
    \/ Up /\ HandleSignal
    \/ Terminated

Spec == Init /\ [][Next]_vars

(* The server's threads are scheduled.  Nothing is assumed of the clients, *)
(* the signal need not come, and accept need not fail.                     *)
Fairness ==
    /\ WF_vars(Up /\ AcceptSteps)
    /\ WF_vars(Up /\ MainSteps)
    /\ WF_vars(Up /\ JournalWorker)
    /\ WF_vars(Up /\ FeedWorker)

FairSpec == Spec /\ Fairness

-----------------------------------------------------------------------------
(* Properties.                                                             *)

Logged(commands) == SelectSeq(commands, LAMBDA c : c \notin dropped)

(* The journal and its queue hold the commands in the order in which the   *)
(* engine gets them, and hold one that the engine does not have yet only   *)
(* while it is about to be dispatched; only those TryAppend refused are    *)
(* missing.  So a replay applies no command the engine did not apply, and  *)
(* none in another order.                                                  *)
JournalInOrder ==
    journal \o jqueue = Logged(IF main = "dispatch" THEN applied \o cmd ELSE applied)

(* The sessions take turns: while a command of a session waits, no other   *)
(* session is served more than twice, once in the round in which the       *)
(* session is not in the copy yet and once in the next.                    *)
SessionsTakeTurns == \A s, t \in SessionIds : overtaken[s][t] <= 2

(* When main returns, the snapshot is the engine with every command that   *)
(* was applied, and the journal holds all of them that TryAppend accepted. *)
ExitIsComplete == main = "exit" => snapshot = applied /\ journal = Logged(applied)

(* Every command a session has queued is applied, also one that came       *)
(* before the session was handed over, unless the server is shut down.     *)
CommandsApplied ==
    \A s \in SessionIds : \A n \in 1 .. MaxCommands[s] :
        sent[s] >= n ~> (<<s, n>> \in Range(applied) \/ g_shutdown)

(* The signal ends the server: the main loop notices it, the accept thread *)
(* returns, and the workers drain their queues.                            *)
ShutdownCompletes == g_shutdown ~> main = "exit"

(* A connection that is waiting is accepted.  False: AcceptLoop ends on    *)
(* any failure of accept, and the server goes on without it.               *)
ConnectionsAccepted == \A s \in SessionIds : connected >= s ~> (started >= s \/ g_shutdown)

(* docs/recovery.md: commands are written before they are applied.         *)
WrittenAhead == Range(applied) \subseteq Range(journal) \cup dropped

(* gateway_server.cpp: every inbound command is journaled.                 *)
EveryCommandJournaled == main = "exit" => journal = applied
=============================================================================
