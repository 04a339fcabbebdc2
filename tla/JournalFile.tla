----------------------------- MODULE JournalFile -----------------------------
(***************************************************************************)
(* JournalWriter and ReadJournal on files of bytes, with crashes.  Append  *)
(* writes the frame in as many pieces as write() likes; a process crash    *)
(* leaves what was written, a power loss any part of it that fsync did not *)
(* cover.  A command's body is a short byte string; that decoding a body   *)
(* gives the command back, and that no body is cut short by a frame, is    *)
(* what Wire checks of the real codec.                                     *)
(***************************************************************************)
EXTENDS Framing, SequencesExt

CONSTANTS
    Commands,     \* the commands that are appended
    Body,         \* their encoded bodies
    MaxAppends,   \* bound on the calls of Append
    MaxWriters    \* bound on the JournalWriters constructed

ASSUME BodyAssumption ==
    /\ Body \in [Commands -> Seq(Byte)]
    /\ \A c \in Commands : Len(Body[c]) <= kMaxFrameBytes
    /\ \A c, d \in Commands : IsPrefix(Body[c], Body[d]) => c = d

VARIABLES
    files,     \* the journal files in the order of creation: the bytes
               \* write() accepted and how many of them fsync covered
    writer,    \* the JournalWriter on the last file
    opened,    \* how many were constructed
    history    \* the calls of Append: the command, the file, and what it is
               \* safe from: "nothing", a "process" crash, or "power" loss

vars == <<files, writer, opened, history>>

Closed == [pc |-> "closed", fsync |-> FALSE, frame |-> << >>]

EncodeCommand(c) == Body[c]

(* The command a body starts with: decoding ignores what follows.          *)
DecodeCommand(body) == {c \in Commands : IsPrefix(Body[c], body)}

(* The commands of a file from its first byte on.  An incomplete record at *)
(* the end is discarded; an oversized or undecodable one throws.           *)
ReadJournal(bytes) ==
    LET from[i \in 0 .. Len(bytes)] ==
            IF Oversized(bytes, i) THEN [ok |-> FALSE, commands |-> << >>]
            ELSE IF Incomplete(bytes, i) THEN [ok |-> TRUE, commands |-> << >>]
            ELSE LET end == i + kLengthPrefixBytes + DeclaredLength(bytes, i)
                     cmd == DecodeCommand(SubSeq(bytes, i + kLengthPrefixBytes + 1, end))
                 IN  IF cmd = {} THEN [ok |-> FALSE, commands |-> << >>]
                     ELSE [ok |-> from[end].ok,
                           commands |-> SetToSeq(cmd) \o from[end].commands]
    IN  from[0]

-----------------------------------------------------------------------------
Opens(fsync) ==
    /\ writer.pc = "closed"
    /\ opened < MaxWriters
    /\ opened' = opened + 1
    /\ writer' = [Closed EXCEPT !.pc = "open", !.fsync = fsync]
    /\ UNCHANGED history

(* The constructor, on a path that does not exist: O_CREAT.                *)
OpenNew(fsync) ==
    /\ Opens(fsync)
    /\ files' = Append(files, [bytes |-> << >>, synced |-> 0])

(* The constructor, on the path of the last file: O_APPEND.                *)
OpenAgain(fsync) ==
    /\ Opens(fsync)
    /\ UNCHANGED files

BeginAppend(c) ==
    /\ writer.pc = "open"
    /\ Len(history) < MaxAppends
    /\ writer' = [writer EXCEPT !.pc = "writing", !.frame = FrameMessage(EncodeCommand(c))]
    /\ history' = Append(history, [cmd |-> c, file |-> Len(files), safe |-> "nothing"])
    /\ UNCHANGED <<files, opened>>

(* write() takes the first n bytes of what is left.                        *)
Write(n) ==
    /\ writer.pc = "writing"
    /\ n \in 1 .. Len(writer.frame)
    /\ files' = [files EXCEPT ![Len(files)].bytes = @ \o SubSeq(writer.frame, 1, n)]
    /\ writer' = [writer EXCEPT !.frame = SubSeq(@, n + 1, Len(@))]
    /\ UNCHANGED <<opened, history>>

(* fsync: everything in the last file is on disk.                          *)
Synced == [files EXCEPT ![Len(files)].synced = Len(files[Len(files)].bytes)]

SafeFromPowerLoss(h) ==
    [i \in DOMAIN h |-> IF h[i].file = Len(files) /\ h[i].safe = "process"
                        THEN [h[i] EXCEPT !.safe = "power"] ELSE h[i]]

Returned == [history EXCEPT ![Len(history)].safe = "process"]

(* Mutant: the command counts as safe and fsync is left out.               *)
ReturnUnsynced ==
    /\ writer.pc = "writing" /\ writer.frame = << >>
    /\ history' = IF writer.fsync THEN SafeFromPowerLoss(Returned) ELSE Returned
    /\ writer' = [writer EXCEPT !.pc = "open"]
    /\ UNCHANGED <<files, opened>>

(* The loop is over: Flush if every write is to be flushed, and return.    *)
Return ==
    /\ writer.pc = "writing" /\ writer.frame = << >>
    /\ files' = IF writer.fsync THEN Synced ELSE files
    /\ history' = IF writer.fsync THEN SafeFromPowerLoss(Returned) ELSE Returned
    /\ writer' = [writer EXCEPT !.pc = "open"]
    /\ UNCHANGED opened

(* Flush, called by the owner of the writer.                               *)
Flush ==
    /\ writer.pc = "open"
    /\ files' = Synced
    /\ history' = SafeFromPowerLoss(history)
    /\ UNCHANGED <<writer, opened>>

(* The process ends, by its own doing, in a crash or because write()       *)
(* failed and the exception was not caught.                                *)
ProcessEnds ==
    /\ writer.pc # "closed"
    /\ writer' = Closed
    /\ UNCHANGED <<files, opened, history>>

(* The machine stops: of each file a prefix with all synced bytes is left. *)
PowerLoss ==
    /\ writer.pc # "closed"
    /\ writer' = Closed
    /\ \E left \in [DOMAIN files -> 0 .. Max({Len(f.bytes) : f \in Range(files)})] :
          /\ \A i \in DOMAIN files : left[i] \in files[i].synced .. Len(files[i].bytes)
          /\ files' = [i \in DOMAIN files |->
                          [bytes |-> SubSeq(files[i].bytes, 1, left[i]), synced |-> left[i]]]
    /\ history' = [i \in DOMAIN history |->
                      IF history[i].safe = "process"
                      THEN [history[i] EXCEPT !.safe = "nothing"] ELSE history[i]]
    /\ UNCHANGED opened

Init ==
    /\ files = << >> /\ writer = Closed
    /\ opened = 0 /\ history = << >>

Works ==
    \/ \E c \in Commands : BeginAppend(c)
    \/ \E n \in 1 .. (kLengthPrefixBytes + kMaxFrameBytes) : Write(n)
    \/ Return
    \/ Flush
    \/ ProcessEnds
    \/ PowerLoss

(* The last file ends with a whole record.                                 *)
Whole ==
    LET bytes == files[Len(files)].bytes
        commands == ReadJournal(bytes).commands
    IN  bytes = FlattenSeq([i \in DOMAIN commands |-> FrameMessage(EncodeCommand(commands[i]))])

(* A writer gets a new file, as log rotation and the tests have it, or a   *)
(* file that does not end in a torn record.                                *)
RotatingNext ==
    \/ Works
    \/ \E fsync \in BOOLEAN : OpenNew(fsync)
    \/ \E fsync \in BOOLEAN : files # << >> /\ Whole /\ OpenAgain(fsync)
RotatingSpec == Init /\ [][RotatingNext]_vars

(* The same path for every writer, torn or not, as gateway_server has it.  *)
ReopeningNext ==
    \/ Works
    \/ \E fsync \in BOOLEAN : files = << >> /\ OpenNew(fsync)
    \/ \E fsync \in BOOLEAN : files # << >> /\ OpenAgain(fsync)
ReopeningSpec == Init /\ [][ReopeningNext]_vars

-----------------------------------------------------------------------------
(* The commands of all files, one after the other.                         *)
AllCommands == FlattenSeq([i \in DOMAIN files |-> ReadJournal(files[i].bytes).commands])

(* The commands of the calls in K.                                         *)
Calls(K) ==
    LET kept == SetToSortSeq(K, <)
    IN  [i \in DOMAIN kept |-> history[kept[i]].cmd]

(* docs/recovery.md: a record that makes ReadJournal throw is real         *)
(* corruption, "since that cannot be produced by a torn tail write".       *)
OnlyCorruptionThrows == \A i \in DOMAIN files : ReadJournal(files[i].bytes).ok

(* Whatever crashed and when, the files can be read, and they hold the     *)
(* commands that were appended, in order, each at most once: all those the *)
(* header of JournalWriter calls safe, and of the others none or all of    *)
(* the record.                                                             *)
AppendsSurvive ==
    /\ OnlyCorruptionThrows
    /\ \E K \in SUBSET DOMAIN history :
          /\ \A i \in DOMAIN history : history[i].safe # "nothing" => i \in K
          /\ AllCommands = Calls(K)
=============================================================================
