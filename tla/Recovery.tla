------------------------------ MODULE Recovery ------------------------------
(***************************************************************************)
(* The recovery protocol of the recovery test, which docs/recovery.md      *)
(* describes: a command is appended to the journal and then dispatched; a  *)
(* checkpoint writes the snapshot and starts a fresh journal file; after a *)
(* crash LoadSnapshot reads the snapshot, or throws, and the commands of   *)
(* the journal files created after it are dispatched.  There is one        *)
(* snapshot path, which every checkpoint truncates and writes again.  A    *)
(* journal file is the sequence of commands ReadJournal gets from it (see  *)
(* JournalFile), the snapshot file the values that are on disk.            *)
(***************************************************************************)
EXTENDS Snapshot

CONSTANTS
    Start,        \* the engine before the first command
    Commands,     \* the commands that arrive
    MaxCommands,  \* bounds on the commands, the checkpoints
    MaxSnapshots, \* and the crashes
    MaxCrashes

VARIABLES
    pe,          \* the engine in memory
    pc,          \* "serving", "appended" (a command not yet dispatched),
                 \* "snapshot" (being written), "down", "failed"
                 \* (the recovery threw: there is no engine)
    journals,    \* the journal files: sequences of commands
    snapshot,    \* the snapshot file: its values (none when there is no
                 \* file), and how many journal files are older
    previous,    \* what the file held before the last checkpoint
    checkpoints, \* how many checkpoints were begun
    crashes,
    intact       \* history: the last checkpoint was completed, and no
                 \* power was lost since

files == <<journals, snapshot, previous>>
vars == <<pe, pc, files, checkpoints, crashes, intact>>

Accepted == FlattenSeq(journals)

NoFile == [cells |-> << >>, older |-> 0]

Replay(e, commands) ==
    LET after[n \in 0 .. Len(commands)] ==
            IF n = 0 THEN e ELSE Dispatch(after[n - 1], commands[n]).pe
    IN  after[Len(commands)]

(* Mutant: the journal files that are older than the snapshot are replayed *)
(* as well, as if the journal had not been rotated.                        *)
RecoveredUnrotated(sn, jr) ==
    LET loaded == LoadSnapshot(sn.cells)
        every == FlattenSeq(jr)
    IN  [ok |-> loaded.ok, pe |-> IF loaded.ok THEN Replay(loaded.pe, every) ELSE loaded.pe]

(* What the files alone give: LoadSnapshot throws when the file is not     *)
(* there or cut; otherwise the journal files that are not older than the   *)
(* snapshot are replayed on what it returns.                               *)
Recovered(sn, jr) ==
    LET loaded == LoadSnapshot(sn.cells)
        newer == FlattenSeq(SubSeq(jr, sn.older + 1, Len(jr)))
    IN  [ok |-> loaded.ok, pe |-> IF loaded.ok THEN Replay(loaded.pe, newer) ELSE loaded.pe]

-----------------------------------------------------------------------------
AppendCommand(c) ==
    /\ pc = "serving"
    /\ Len(Accepted) < MaxCommands
    /\ journals' = [journals EXCEPT ![Len(journals)] = Append(@, c)]
    /\ pc' = "appended"
    /\ UNCHANGED <<pe, snapshot, previous, checkpoints, crashes, intact>>

DispatchPending ==
    /\ pc = "appended"
    /\ pe' = Dispatch(pe, Last(Accepted)).pe
    /\ pc' = "serving"
    /\ UNCHANGED <<files, checkpoints, crashes, intact>>

(* What WriteSnapshot writes, with the books in some order of iteration,   *)
(* and what is left of a file that lost its end: where it is cut and how   *)
(* the books are ordered makes no difference, see SnapshotAllOrNothing.    *)
Written == WriteSnapshot(pe, SetToSeq(Symbols))
Cut(cells) == {<< >>, Front(cells)}

(* ofstream with trunc: the file is there, empty, and what it held is gone *)
(* (only a loss of power may bring it back).                               *)
BeginSnapshot ==
    /\ pc = "serving"
    /\ checkpoints < MaxSnapshots
    /\ checkpoints' = checkpoints + 1
    /\ snapshot' = [cells |-> << >>, older |-> Len(journals)]
    /\ previous' = snapshot
    /\ intact' = FALSE
    /\ pc' = "snapshot"
    /\ UNCHANGED <<pe, journals, crashes>>

(* Mutant: the snapshot is taken for younger than the fresh journal.       *)
FinishSnapshotLate ==
    /\ pc = "snapshot"
    /\ snapshot' = [cells |-> Written, older |-> Len(journals) + 1]
    /\ journals' = Append(journals, << >>)
    /\ intact' = TRUE
    /\ pc' = "serving"
    /\ UNCHANGED <<pe, previous, checkpoints, crashes>>

(* write and flush return, and the fresh journal file is opened.           *)
FinishSnapshot ==
    /\ pc = "snapshot"
    /\ snapshot' = [snapshot EXCEPT !.cells = Written]
    /\ journals' = Append(journals, << >>)
    /\ intact' = TRUE
    /\ pc' = "serving"
    /\ UNCHANGED <<pe, previous, checkpoints, crashes>>

Down ==
    /\ pc \notin {"down", "failed"}
    /\ crashes < MaxCrashes
    /\ crashes' = crashes + 1
    /\ pc' = "down" /\ pe' = NewPartitioned(0)
    /\ UNCHANGED <<journals, checkpoints>>

(* A crash while the snapshot is written, or a WriteSnapshot that throws,  *)
(* which nobody catches, leaves some of its values, or all of them and no  *)
(* fresh journal file.                                                     *)
ProcessCrash ==
    /\ Down
    /\ \/ pc # "snapshot" /\ UNCHANGED snapshot
       \/ /\ pc = "snapshot"
          /\ \E left \in Cut(Written) \cup {Written} :
                snapshot' = [snapshot EXCEPT !.cells = left]
    /\ UNCHANGED <<previous, intact>>

(* WriteSnapshot does not fsync: a file that was written may lose its end, *)
(* or be again what it was before.                                         *)
PowerLoss ==
    /\ Down
    /\ checkpoints > 0
    /\ \/ snapshot' = previous
       \/ /\ snapshot.cells # << >>
          /\ \E left \in Cut(snapshot.cells) :
                snapshot' = [snapshot EXCEPT !.cells = left]
    /\ intact' = FALSE
    /\ UNCHANGED previous

(* A restart: LoadSnapshot returns, the journal is replayed, and a fresh   *)
(* journal file is opened; or LoadSnapshot throws.                         *)
Recover ==
    /\ pc = "down"
    /\ Recovered(snapshot, journals).ok
    /\ pe' = Recovered(snapshot, journals).pe
    /\ journals' = Append(journals, << >>)
    /\ pc' = "serving"
    /\ UNCHANGED <<snapshot, previous, checkpoints, crashes, intact>>

RecoverThrows ==
    /\ pc = "down"
    /\ ~Recovered(snapshot, journals).ok
    /\ pc' = "failed"
    /\ UNCHANGED <<pe, files, checkpoints, crashes, intact>>

Init ==
    /\ pe = Start /\ pc = "serving"
    /\ journals = << << >> >> /\ snapshot = NoFile /\ previous = NoFile
    /\ checkpoints = 0 /\ crashes = 0 /\ intact = FALSE

Next ==
    \/ \E c \in Commands : AppendCommand(c)
    \/ DispatchPending
    \/ BeginSnapshot
    \/ FinishSnapshot
    \/ ProcessCrash
    \/ PowerLoss
    \/ Recover
    \/ RecoverThrows

Spec == Init /\ [][Next]_vars

-----------------------------------------------------------------------------
(* While it serves, the engine is the one that applied every command of    *)
(* the journals since the first start, once and in order: books, sequence  *)
(* numbers and routes, whatever crashed before.  A recovery that does not  *)
(* throw is exact: a half-written or lost snapshot is never taken for a    *)
(* whole one, and no command is lost or applied twice.                     *)
EngineIsHistory == pc = "serving" => Routed(pe) = Routed(Replay(Start, Accepted))

(* A completed checkpoint is enough: from then on, at whatever moment the  *)
(* process dies, the snapshot loads, and with the journal files after it   *)
(* gives the engine that applied every command that was appended, also the *)
(* one that was not dispatched yet.                                        *)
CheckpointSuffices ==
    intact => LET files_give == Recovered(snapshot, journals)
              IN  files_give.ok /\ Routed(files_give.pe) = Routed(Replay(Start, Accepted))

(* A snapshot that loads stays there until the next one is whole.  False:  *)
(* WriteSnapshot truncates the file in place, and a crash of the process   *)
(* before it is written again leaves no snapshot to recover from.          *)
SnapshotReplacedWhole ==
    [][LoadSnapshot(snapshot.cells).ok /\ pc' # "down" => LoadSnapshot(snapshot'.cells).ok]_vars
=============================================================================
