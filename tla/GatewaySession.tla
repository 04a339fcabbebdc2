--------------------------- MODULE GatewaySession ---------------------------
(***************************************************************************)
(* GatewaySession: one connection, its reader and its writer thread, and   *)
(* the engine-driving thread, which takes commands, queues reports and, at *)
(* the end, calls Stop.  The peer and the sockets are the operating        *)
(* system's.  A frame is known by its place in what the peer sends, the    *)
(* reports on command n are <<n, 1>>, <<n, 2>>.  How recv cuts the stream  *)
(* does not matter (see FrameDecoder), so recv yields whole frames; the    *)
(* queues are bounded FIFOs (see SpscQueue).                               *)
(***************************************************************************)
EXTENDS Naturals, Sequences, SequencesExt

CONSTANTS
    InboundCapacity,
    OutboundCapacity,
    SendBuffer,  \* how many reports the connection holds for the peer
    MaxFrames,   \* bound on the frames the peer sends
    ReportCounts,\* how many reports a command may get
    CloseWakes   \* does close() end another thread's recv() or send() of the
                 \* same descriptor?  (it does on Darwin, not on Linux)

ASSUME SessionAssumption ==
    /\ InboundCapacity \in Nat \ {0} /\ OutboundCapacity \in Nat \ {0} /\ SendBuffer \in Nat \ {0}
    /\ MaxFrames \in Nat /\ ReportCounts \subseteq Nat /\ CloseWakes \in BOOLEAN

VARIABLES
    sent,        \* what the peer sent: "command", "malformed", "oversized"
    peer,        \* "open", "closed" (FIN), "reset" (RST)
    unread,      \* how many reports it has not read yet
    received,    \* how many frames recv returned,
    extracted,   \* and how many of them the reader took from the decoder
    reader,      \* "check", "recv", "blocked", "extract", "push", "returned"
    inbound,     \* inbound_
    taken,       \* the commands TryPopInbound returned
    pending,     \* the reports the engine thread has not pushed yet
    queued,      \* the reports TryPushOutbound returned true for
    outbound,    \* outbound_
    writer,      \* "loop", "send" (calling send()), "sending" (waiting in it),
                 \* "drain", "drainSend", "drainSending", "returned", "killed"
    body,        \* the report being sent
    written,     \* the reports SendAll returned true for
    connected,   \* socket_.fd_ is open
    alive,       \* alive_
    stopping,    \* stopping_
    stop         \* Stop(): "no", "set", "joining", "done"

input == <<sent, peer, unread>>
rvars == <<received, extracted, reader>>
evars == <<taken, pending, queued>>
wvars == <<writer, body, written>>
svars == <<connected, stopping, stop>>
vars == <<input, rvars, inbound, evars, outbound, wvars, svars, alive>>

Init ==
    /\ sent = << >> /\ peer = "open" /\ unread = 0
    /\ received = 0 /\ extracted = 0 /\ reader = "check"
    /\ inbound = << >> /\ taken = << >> /\ pending = << >> /\ queued = << >>
    /\ outbound = << >> /\ writer = "loop" /\ body = << >> /\ written = << >>
    /\ connected = TRUE /\ alive = TRUE /\ stopping = FALSE /\ stop = "no"

-----------------------------------------------------------------------------
(* The peer.                                                               *)

PeerSend(kind) ==
    /\ peer = "open"
    /\ Len(sent) < MaxFrames
    /\ sent' = Append(sent, kind)
    /\ UNCHANGED <<peer, unread, rvars, inbound, evars, outbound, wvars, svars, alive>>

PeerLeaves ==
    /\ peer = "open"
    /\ peer' \in {"closed", "reset"}
    /\ UNCHANGED <<sent, unread, rvars, inbound, evars, outbound, wvars, svars, alive>>

PeerReads ==
    /\ peer # "reset" /\ unread > 0
    /\ unread' = unread - 1
    /\ UNCHANGED <<sent, peer, rvars, inbound, evars, outbound, wvars, svars, alive>>

-----------------------------------------------------------------------------
(* ReaderLoop.                                                             *)

ReaderReturns == reader' = "returned" /\ alive' = FALSE /\ UNCHANGED <<received, extracted>>

ReaderCheck ==
    /\ reader = "check"
    /\ \/ stopping /\ ReaderReturns
       \/ ~stopping /\ reader' = "recv" /\ UNCHANGED <<received, extracted, alive>>
    /\ UNCHANGED <<input, inbound, evars, outbound, wvars, svars>>

(* recv of a descriptor that was closed before the call returns -1.        *)
ReaderCallsRecv ==
    /\ reader = "recv"
    /\ \/ ~connected /\ ReaderReturns
       \/ connected /\ reader' = "blocked" /\ UNCHANGED <<received, extracted, alive>>
    /\ UNCHANGED <<input, inbound, evars, outbound, wvars, svars>>

(* recv returns some bytes; or 0 or -1.                                    *)
RecvData ==
    /\ reader = "blocked"
    /\ received' \in received + 1 .. Len(sent)
    /\ reader' = "extract"
    /\ UNCHANGED <<input, extracted, inbound, evars, outbound, wvars, svars, alive>>

RecvEnds ==
    /\ reader = "blocked"
    /\ \/ peer = "closed" /\ received = Len(sent)
       \/ peer = "reset"
       \/ ~connected /\ CloseWakes
    /\ ReaderReturns
    /\ UNCHANGED <<input, inbound, evars, outbound, wvars, svars>>

(* TryExtractFrame and DecodeCommand: no frame is left, the length is over *)
(* the limit, the message is malformed, or a command is decoded.           *)
ReaderExtracts ==
    /\ reader = "extract"
    /\ \/ /\ extracted = received
          /\ reader' = "check" /\ UNCHANGED <<received, extracted, alive>>
       \/ /\ extracted < received
          /\ \/ sent[extracted + 1] = "oversized" /\ ReaderReturns
             \/ /\ sent[extracted + 1] # "oversized"
                /\ extracted' = extracted + 1
                /\ reader' = IF sent[extracted'] = "command" THEN "push" ELSE reader
                /\ UNCHANGED <<received, alive>>
    /\ UNCHANGED <<input, inbound, evars, outbound, wvars, svars>>

(* Mutants: a full queue drops the command; it is waited for in any case;  *)
(* the rest of the buffer is left until recv returns again.                *)
ReaderPushesOnce ==
    /\ reader = "push"
    /\ inbound' = IF Len(inbound) < InboundCapacity
                  THEN Append(inbound, extracted) ELSE inbound
    /\ reader' = "extract"
    /\ UNCHANGED <<input, received, extracted, alive, evars, outbound, wvars, svars>>

ReaderPushesForever ==
    /\ reader = "push"
    /\ \/ /\ Len(inbound) < InboundCapacity
          /\ inbound' = Append(inbound, extracted)
          /\ reader' = "extract"
       \/ Len(inbound) = InboundCapacity /\ UNCHANGED <<inbound, reader>>
    /\ UNCHANGED <<input, received, extracted, alive, evars, outbound, wvars, svars>>

ReaderPushesOneFrame ==
    /\ reader = "push"
    /\ \/ /\ Len(inbound) < InboundCapacity
          /\ inbound' = Append(inbound, extracted)
          /\ reader' = "check"
       \/ /\ Len(inbound) = InboundCapacity /\ stopping
          /\ reader' = "returned"
          /\ UNCHANGED inbound
    /\ UNCHANGED <<input, received, extracted, alive, evars, outbound, wvars, svars>>

(* TryPush, again and again until there is room, or the session stops.     *)
ReaderPushes ==
    /\ reader = "push"
    /\ \/ /\ Len(inbound) < InboundCapacity
          /\ inbound' = Append(inbound, extracted)
          /\ reader' = "extract"
       \/ /\ Len(inbound) = InboundCapacity /\ stopping
          /\ reader' = "returned"
          /\ UNCHANGED inbound
    /\ UNCHANGED <<input, received, extracted, alive, evars, outbound, wvars, svars>>

-----------------------------------------------------------------------------
(* The engine-driving thread: a command, its reports, and Stop.            *)

TryPopInbound(count) ==
    /\ stop = "no" /\ pending = << >>
    /\ inbound # << >>
    /\ taken' = Append(taken, Head(inbound))
    /\ inbound' = Tail(inbound)
    /\ pending' = [k \in 1 .. count |-> <<Head(inbound), k>>]
    /\ UNCHANGED <<input, rvars, queued, outbound, wvars, svars, alive>>

(* A report for which there is no room is dropped.                         *)
TryPushOutbound ==
    /\ pending # << >>
    /\ pending' = Tail(pending)
    /\ IF Len(outbound) < OutboundCapacity
       THEN /\ outbound' = Append(outbound, Head(pending))
            /\ queued' = Append(queued, Head(pending))
       ELSE UNCHANGED <<outbound, queued>>
    /\ UNCHANGED <<input, rvars, inbound, taken, wvars, svars, alive>>

Stop ==
    /\ stop = "no" /\ pending = << >>
    /\ stopping' = TRUE /\ stop' = "set"
    /\ UNCHANGED <<input, rvars, inbound, evars, outbound, wvars, connected, alive>>

CloseSocket ==
    /\ stop = "set"
    /\ connected' = FALSE /\ stop' = "joining"
    /\ UNCHANGED <<input, rvars, inbound, evars, outbound, wvars, stopping, alive>>

(* Both joins.                                                             *)
Join ==
    /\ stop = "joining"
    /\ reader = "returned" /\ writer = "returned"
    /\ stop' = "done"
    /\ UNCHANGED <<input, rvars, inbound, evars, outbound, wvars, connected, stopping, alive>>

-----------------------------------------------------------------------------
(* WriterLoop.                                                             *)

PopOutbound ==
    /\ outbound # << >>
    /\ body' = <<Head(outbound)>>
    /\ outbound' = Tail(outbound)

(* Mutant: TryPop before the loop test, and its message is not sent.       *)
WriterPopsFirst ==
    /\ writer = "loop"
    /\ \/ /\ outbound # << >>
          /\ outbound' = Tail(outbound)
          /\ body' = IF stopping THEN << >> ELSE <<Head(outbound)>>
          /\ writer' = IF stopping THEN "drain" ELSE "send"
       \/ /\ outbound = << >> /\ stopping
          /\ writer' = "drain" /\ UNCHANGED <<body, outbound>>
    /\ UNCHANGED <<input, rvars, inbound, evars, written, svars, alive>>

WriterLoops ==
    /\ writer = "loop"
    /\ \/ stopping /\ writer' = "drain" /\ UNCHANGED <<body, outbound>>
       \/ ~stopping /\ PopOutbound /\ writer' = "send"
    /\ UNCHANGED <<input, rvars, inbound, evars, written, svars, alive>>

WriterDrains ==
    /\ writer = "drain"
    /\ \/ PopOutbound /\ writer' = "drainSend"
       \/ outbound = << >> /\ writer' = "returned" /\ UNCHANGED <<body, outbound>>
    /\ UNCHANGED <<input, rvars, inbound, evars, written, svars, alive>>

Calling == writer \in {"send", "drainSend"}
Waiting == writer \in {"sending", "drainSending"}

(* The peer does not read and there is no room: send() waits.              *)
SendBlocks ==
    /\ Calling
    /\ connected /\ peer # "reset" /\ unread = SendBuffer
    /\ writer' = IF writer = "send" THEN "sending" ELSE "drainSending"
    /\ UNCHANGED <<input, rvars, inbound, evars, outbound, body, written, svars, alive>>

(* SendAll returns true: a send to a peer that has closed succeeds until   *)
(* the peer's reset arrives.                                               *)
SendAllSucceeds ==
    /\ (Calling /\ connected) \/ Waiting
    /\ peer # "reset" /\ unread < SendBuffer
    /\ written' = written \o body /\ body' = << >>
    /\ writer' = IF writer \in {"send", "sending"} THEN "loop" ELSE "drain"
    /\ unread' = unread + 1
    /\ peer' \in IF peer = "open" THEN {"open"} ELSE {"closed", "reset"}
    /\ UNCHANGED <<sent, rvars, inbound, evars, outbound, svars, alive>>

(* SendAll returns false: the connection was reset by the peer, or the     *)
(* socket was closed before a call of send().  One that waits is ended by  *)
(* close, or goes on, and the call for the rest of the report fails.       *)
SendAllFails ==
    /\ \/ Calling /\ ~connected
       \/ Waiting /\ ~connected /\ (CloseWakes \/ unread < SendBuffer)
       \/ (Calling \/ Waiting) /\ peer = "reset"
    /\ writer' = "returned"
    /\ alive' = (alive /\ writer \in {"drainSend", "drainSending"})
    /\ UNCHANGED <<input, rvars, inbound, evars, outbound, body, written, svars>>

(* send() without MSG_NOSIGNAL raises SIGPIPE when the peer has reset the  *)
(* connection; no handler is installed, and the process ends.              *)
SendAllKills ==
    /\ (Calling /\ connected) \/ Waiting
    /\ peer = "reset"
    /\ writer' = "killed"
    /\ UNCHANGED <<input, rvars, inbound, evars, outbound, body, written, svars, alive>>

-----------------------------------------------------------------------------
Up == writer # "killed"

PeerSteps ==
    (\E kind \in {"command", "malformed", "oversized"} : PeerSend(kind)) \/ PeerLeaves \/ PeerReads
ReaderSteps == ReaderCheck \/ ReaderCallsRecv \/ RecvData \/ RecvEnds \/ ReaderExtracts \/ ReaderPushes
EngineSteps == (\E count \in ReportCounts : TryPopInbound(count)) \/ TryPushOutbound
StopSteps == CloseSocket \/ Join
WriterSteps ==
    WriterLoops \/ WriterDrains \/ SendBlocks \/ SendAllSucceeds \/ SendAllFails \/ SendAllKills

(* Stop has returned, or the process is gone.                              *)
Terminated == (stop = "done" \/ ~Up) /\ UNCHANGED vars

Next ==
    \/ Up /\ PeerSteps
    \/ Up /\ ReaderSteps
    \/ Up /\ EngineSteps
    \/ Up /\ Stop
    \/ Up /\ StopSteps
    \/ Up /\ WriterSteps
    \/ Terminated

Spec == Init /\ [][Next]_vars

(* Each thread is scheduled, and bytes that were sent arrive.  Nothing is  *)
(* assumed of the peer, which need not read, and Stop need not be called.  *)
Fairness ==
    /\ WF_vars(Up /\ ReaderSteps)
    /\ WF_vars(Up /\ EngineSteps)
    /\ WF_vars(Up /\ StopSteps)
    /\ WF_vars(Up /\ WriterSteps)

FairSpec == Spec /\ Fairness

-----------------------------------------------------------------------------
(* Properties.                                                             *)

CommandsUpTo(n) == SelectSeq([i \in 1 .. n |-> i], LAMBDA i : sent[i] = "command")

(* Back-pressure loses nothing: the engine thread gets exactly the         *)
(* commands the reader decoded, each once and in the order in which the    *)
(* peer sent them, however full the queue was.  Only the command in the    *)
(* reader's hand may be missing, and for good only when the session stops. *)
CommandsInOrder ==
    LET decoded == CommandsUpTo(extracted)
    IN  \/ taken \o inbound = decoded
        \/ /\ reader = "push" \/ (reader = "returned" /\ stopping)
           /\ taken \o inbound = Front(decoded)

(* The reports that were queued go to the peer once each and in order;     *)
(* what SendAll failed on is the only one that is neither written nor      *)
(* still queued.                                                           *)
ReportsInOrder == written \o body \o outbound = queued

(* A reader that has returned while the session was not stopping leaves    *)
(* the session marked not alive, also when it gave up on an oversized      *)
(* frame: the engine thread can tell that no more commands will come.      *)
DeadSessionShows == reader = "returned" /\ ~stopping => ~alive

(* Every command the peer sent, also just before it closed and however     *)
(* many came in one recv, reaches the engine thread, also when the peer    *)
(* reads no reports; unless a frame that violates the protocol came before *)
(* it, the connection was reset, or the session stops.                     *)
CommandsArrive ==
    \A n \in 1 .. MaxFrames :
        (n \in DOMAIN sent /\ \A i \in 1 .. n : sent[i] = "command")
            ~> (n \in Range(taken) \/ stopping \/ peer = "reset" \/ ~Up)

(* Stop returns, also when the reader waits for room in the inbound queue  *)
(* or for bytes, and the writer has reports left or waits for a peer that  *)
(* does not read.                                                          *)
StopReturns == stop = "set" ~> (stop = "done" \/ ~Up)

(* protocol.hpp: a body that does not decode is a protocol violation, on   *)
(* which docs/protocol.md closes the connection: no later command counts.  *)
MalformedEndsSession == \A n \in Range(taken) : \A i \in 1 .. n : sent[i] # "malformed"

(* docs/protocol.md: the connection is closed on an oversized frame.       *)
OversizedCloses ==
    (reader = "returned" /\ extracted < received /\ ~stopping) ~> (~connected \/ ~Up)

(* gateway_session.cpp: remaining outbound messages are drained before the *)
(* writer exits; so with the peer still there, all of them are sent.       *)
DrainSends == (stop = "done" /\ peer = "open") => written = queued

(* tcp_socket.hpp: SendAll returns false on error.                         *)
SendAllReturns == Up
=============================================================================
