---------------------------- MODULE StateWriter -----------------------------
(***************************************************************************)
(* The state-writer thread (src/state/writer.rs), the atomic file write it *)
(* uses (src/util.rs), the load at start-up (src/state/mod.rs) and the     *)
(* bounded channel between the flows and the writer.                       *)
(*                                                                         *)
(* The file is a State, NoFile, or Unreadable (bytes load_or_init refuses: *)
(* torn by a power loss, or left by something else).  `disk` is what the   *)
(* file system shows; `images` is what it may show after a power loss:     *)
(* a rename is only certain once the directory has been synced.            *)
(* Memory of a process that is not running is reset to its initial value.  *)
(***************************************************************************)
EXTENDS StateApply

CONSTANTS
  Updates,       \* updates the flows and the supervisor send
  STATE_QUEUE,   \* channel capacity (256 in the code)
  BATCH_LIMIT,   \* updates drained per pass (64 in the code)
  MaxSent,       \* bound of the model: updates sent over a whole behaviour
  NoFile,
  Unreadable

ASSUME UpdatesAssumption == Updates \subseteq StateUpdate
ASSUME LimitsAssumption ==
  STATE_QUEUE \in Nat \ {0} /\ BATCH_LIMIT \in Nat \ {0} /\ MaxSent \in Nat
ASSUME FileAssumption ==
  /\ NoFile \notin State
  /\ Unreadable \notin State
  /\ NoFile # Unreadable

VARIABLES
  pc,       \* where the writer thread is
  queue,    \* the mpsc channel
  open,     \* some Sender clone is still alive
  buffer,   \* updates of the current batch not applied yet
  mem,      \* the writer's State
  dirty,    \* mem has updates that are not persisted
  final,    \* the write in progress is the one after the channel closed
  synced,   \* the temporary file's data has been fsynced
  disk,
  images,
  mirror,   \* the Arc<Mutex<State>> read by status and by spawn_flow
  sent      \* updates sent so far; only bounds the model

vars == <<pc, queue, open, buffer, mem, dirty, final, synced, disk, images, mirror, sent>>

ram == <<queue, open, buffer, mem, dirty, final, synced, mirror, sent>>

File == State \cup {NoFile, Unreadable}

Writing == {"write", "sync", "rename", "dirsync"}

\* Program points of a live writer thread.
Running == {"recv", "apply", "publish"} \cup Writing

\* exited: the thread has returned and the process is about to end.
TypeOK ==
  /\ pc \in Running \cup {"stopped", "refused", "exited"}
  /\ queue \in Seq(Updates) /\ Len(queue) <= STATE_QUEUE
  /\ open \in BOOLEAN
  /\ buffer \in Seq(Updates) /\ Len(buffer) <= BATCH_LIMIT
  /\ mem \in State
  /\ dirty \in BOOLEAN
  /\ final \in BOOLEAN
  /\ synced \in BOOLEAN
  /\ disk \in File
  /\ images \in SUBSET File
  /\ mirror \in State
  /\ sent \in Nat

\* load_or_init: no file means a fresh state.
Loaded(f) == IF f \in {NoFile, Unreadable} THEN DefaultState ELSE f

Init ==
  /\ pc = "stopped"
  /\ queue = << >> /\ open = FALSE /\ buffer = << >>
  /\ mem = DefaultState /\ mirror = DefaultState
  /\ dirty = FALSE /\ final = FALSE /\ synced = FALSE
  /\ disk \in {NoFile, Unreadable}
  /\ images = {disk}
  /\ sent = 0

-----------------------------------------------------------------------------
(* Start-up: load_or_init, then spawn_with_mirror.                         *)

Boot ==
  /\ pc = "stopped"
  /\ disk # Unreadable
  /\ pc' = "recv"
  /\ mem' = Loaded(disk)
  /\ mirror' = Loaded(disk)
  /\ open' = TRUE
  /\ UNCHANGED <<queue, buffer, dirty, final, synced, disk, images, sent>>

BootRefused ==
  /\ pc = "stopped"
  /\ disk = Unreadable
  /\ pc' = "refused"
  /\ UNCHANGED <<ram, disk, images>>

\* The operator follows the error message: remove the file and start again.
RemoveFile ==
  /\ pc = "refused"
  /\ pc' = "stopped"
  /\ disk' = NoFile
  /\ images' = {NoFile}
  /\ UNCHANGED ram

-----------------------------------------------------------------------------
(* Producers.                                                              *)

Send(u) ==
  /\ pc \in Running
  /\ open
  /\ Len(queue) < STATE_QUEUE
  /\ sent < MaxSent
  /\ queue' = Append(queue, u)
  /\ sent' = sent + 1
  /\ UNCHANGED <<pc, open, buffer, mem, dirty, final, synced, disk, images, mirror>>

\* The supervisor drops the last Sender at the end of a shutdown.
DropSenders ==
  /\ pc \in Running
  /\ open
  /\ open' = FALSE
  /\ UNCHANGED <<pc, queue, buffer, mem, dirty, final, synced, disk, images, mirror, sent>>

-----------------------------------------------------------------------------
(* The writer thread: run_mirrored.                                        *)

BatchSize == IF Len(queue) < BATCH_LIMIT THEN Len(queue) ELSE BATCH_LIMIT

RecvBatch ==
  /\ pc = "recv"
  /\ queue # << >>
  /\ buffer' = SubSeq(queue, 1, BatchSize)
  /\ queue' = SubSeq(queue, BatchSize + 1, Len(queue))
  /\ pc' = "apply"
  /\ UNCHANGED <<open, mem, dirty, final, synced, disk, images, mirror, sent>>

\* blocking_recv_many returned 0; one more write if something is unpersisted.
RecvClosed ==
  /\ pc = "recv"
  /\ queue = << >>
  /\ ~open
  /\ pc' = IF dirty THEN "write" ELSE "exited"
  /\ final' = dirty
  /\ UNCHANGED <<queue, open, buffer, mem, dirty, synced, disk, images, mirror, sent>>

ApplyNext ==
  /\ pc = "apply"
  /\ buffer # << >>
  /\ mem' = Apply(mem, Head(buffer))
  /\ buffer' = Tail(buffer)
  /\ UNCHANGED <<pc, queue, open, dirty, final, synced, disk, images, mirror, sent>>

BatchApplied ==
  /\ pc = "apply"
  /\ buffer = << >>
  /\ dirty' = TRUE
  /\ pc' = "write"
  /\ UNCHANGED <<queue, open, buffer, mem, final, synced, disk, images, mirror, sent>>

-----------------------------------------------------------------------------
(* atomic_write: every step may fail; a failure leaves the loop's next     *)
(* batch (or nobody, for the final write) to try again.                    *)

\* tempfile_in, write_all, set_permissions on the temporary file
WriteTemp ==
  /\ pc = "write"
  /\ pc' = "sync"
  /\ synced' = FALSE
  /\ UNCHANGED <<queue, open, buffer, mem, dirty, final, disk, images, mirror, sent>>

\* Faulty variant: rename without fsync of the data.
SyncTempSkipped ==
  /\ pc = "sync"
  /\ pc' = "rename"
  /\ UNCHANGED <<ram, disk, images>>

SyncTemp ==
  /\ pc = "sync"
  /\ pc' = "rename"
  /\ synced' = TRUE
  /\ UNCHANGED <<queue, open, buffer, mem, dirty, final, disk, images, mirror, sent>>

\* persist: from here the destination has the new contents.
Rename ==
  /\ pc = "rename"
  /\ pc' = "dirsync"
  /\ disk' = mem
  /\ images' = images \cup {mem} \cup (IF synced THEN {} ELSE {Unreadable})
  /\ UNCHANGED ram

\* Faulty variant: report success without syncing the directory.
SyncDirSkipped ==
  /\ pc = "dirsync"
  /\ pc' = "publish"
  /\ UNCHANGED <<ram, disk, images>>

\* set_permissions on the destination, then fsync of the directory
SyncDir ==
  /\ pc = "dirsync"
  /\ pc' = "publish"
  /\ images' = {disk}
  /\ UNCHANGED <<ram, disk>>

AfterWrite == IF final THEN "exited" ELSE "recv"

\* Faulty variants of the error arm: forget the unpersisted updates, show them,
\* or insist on the final write.
WriteFailsForgets ==
  /\ pc \in Writing
  /\ pc' = AfterWrite
  /\ dirty' = FALSE
  /\ UNCHANGED <<queue, open, buffer, mem, final, synced, disk, images, mirror, sent>>

WriteFailsShows ==
  /\ pc \in Writing
  /\ pc' = AfterWrite
  /\ mirror' = mem
  /\ UNCHANGED <<queue, open, buffer, mem, dirty, final, synced, disk, images, sent>>

WriteFailsInsists ==
  /\ pc \in Writing
  /\ pc' = IF final THEN "write" ELSE "recv"
  /\ UNCHANGED <<ram, disk, images>>

WriteFails ==
  /\ pc \in Writing
  /\ pc' = AfterWrite
  /\ UNCHANGED <<ram, disk, images>>

\* Ok(()): clear dirty (nobody reads it after the final write) and copy the state
\* into the mirror.
Publish ==
  /\ pc = "publish"
  /\ pc' = AfterWrite
  /\ dirty' = FALSE
  /\ mirror' = mem
  /\ UNCHANGED <<queue, open, buffer, mem, final, synced, disk, images, sent>>

-----------------------------------------------------------------------------
(* The process ends.                                                       *)

ClearMemory ==
  /\ pc' = "stopped"
  /\ queue' = << >> /\ open' = FALSE /\ buffer' = << >>
  /\ mem' = DefaultState /\ mirror' = DefaultState
  /\ dirty' = FALSE /\ final' = FALSE /\ synced' = FALSE
  /\ UNCHANGED sent

\* The thread has been joined and the process returns; or it is killed.
ProcessEnds ==
  /\ pc \in Running \cup {"exited"}
  /\ ClearMemory
  /\ UNCHANGED <<disk, images>>

PowerLoss ==
  /\ pc \in Running \cup {"exited", "stopped"}
  /\ ClearMemory
  /\ \E f \in images : disk' = f /\ images' = {f}

Writer ==
  \/ RecvBatch \/ RecvClosed \/ ApplyNext \/ BatchApplied
  \/ WriteTemp \/ SyncTemp \/ Rename \/ SyncDir \/ WriteFails \/ Publish

Next ==
  \/ Boot \/ BootRefused \/ RemoveFile
  \/ \E u \in Updates : Send(u)
  \/ DropSenders
  \/ Writer
  \/ ProcessEnds
  \/ PowerLoss

\* The writer is an OS thread: it keeps running while it has something to do.
Spec == Init /\ [][Next]_vars /\ WF_vars(Writer)

-----------------------------------------------------------------------------
(* Properties.                                                             *)

\* Whatever the interleaving of batches, failed writes, crashes and restarts,
\* memory, mirror and a readable file hold a well-formed state: no run is active
\* twice (RunFinished removes one match only), active runs are unfinished, and
\* finished runs are finished and at most NOTIFIED_RUNS_CAP (apply_run_started,
\* apply_run_finished).
StateWellFormed ==
  /\ WellFormed(mem)
  /\ WellFormed(mirror)
  /\ disk \in State => WellFormed(disk)

\* dirty is exact enough for the shutdown path to trust it: when the writer is
\* between batches (or has returned) and not dirty, the file, its memory and the
\* mirror agree, so skipping the final persist loses nothing (run_mirrored).
CleanMeansPersisted ==
  pc \in {"recv", "exited"} /\ ~dirty => Loaded(disk) = mem /\ mirror = mem

\* atomic_write with crashes and power losses at any point never turns state.json
\* into bytes that load_or_init refuses, and a file it refuses is never
\* overwritten by the daemon: only the operator removes it.
FileStaysReadable ==
  [][/\ disk' = Unreadable => disk = Unreadable
     /\ disk = Unreadable => disk' \in {Unreadable, NoFile}]_disk

\* The mirror that `gcit status` and spawn_flow read moves, within one process,
\* only to a state that no crash can take back (the mirror update follows the
\* successful persist).
MirrorShowsDurable ==
  [][mirror' # mirror /\ pc \in Running /\ pc' # "stopped" => images' = {mirror'}]_vars

\* Once the last Sender is dropped the writer returns, also when every write
\* fails: writer_handle.join() in the supervisor's shutdown terminates (the
\* contract stated on writer::spawn).
ShutdownTerminates == (pc \in Running /\ ~open) ~> (pc \notin Running)

\* util.rs: "on failure, the destination is unchanged".  The mirror is the last state
\* an Ok write left in the file, so between batches the file would still equal it.
FailedWriteLeavesDestination ==
  pc = "recv" => Loaded(disk) = mirror

\* The abstract store: what the restart of a daemon in any state would load.
Down == pc \in {"stopped", "refused"}

Store == INSTANCE CrashSafeStore WITH
  up      <- ~Down,
  current <- IF Down THEN Loaded(disk) ELSE mem,
  stable  <- {Loaded(f) : f \in images},
  view    <- IF Down THEN Loaded(disk) ELSE mirror

\* The writer with its batches, failing writes, kills and power losses implements
\* CrashSafeStore: a restart comes back with a state that the updates really
\* produced, never older than the last acknowledged write.
ImplementsStore == Store!Spec
=============================================================================
