------------------------- MODULE StateWriterProofs --------------------------
(***************************************************************************)
(* The state writer is type correct, keeps every copy of the state well    *)
(* formed, and implements CrashSafeStore, for every set of updates and     *)
(* every channel, batch and history size.                                  *)
(***************************************************************************)
EXTENDS StateWriter, StateApplyProofs

\* The facts the writer's program point stands for.
PointInv ==
  /\ pc \in Writing \cup {"publish"} => dirty
  /\ pc = "rename" => synced
  /\ pc \in {"dirsync", "publish"} => disk = mem
  /\ pc = "publish" => images = {mem}
  /\ pc \in {"stopped", "refused"} => ~dirty

\* What a power loss can leave: the visible file is one of the images, and an
\* unreadable file is only ever one the daemon found.
FileInv ==
  /\ disk \in images
  /\ Unreadable \in images => images = {Unreadable}
  /\ pc \in Running \cup {"exited"} => disk # Unreadable
  /\ pc = "refused" => disk = Unreadable

ImagesWellFormed == \A f \in images \cap State : WellFormed(f)

\* The inductive invariant.
IInv ==
  /\ TypeOK
  /\ PointInv
  /\ FileInv
  /\ CleanMeansPersisted
  /\ StateWellFormed
  /\ ImagesWellFormed

\* A fresh state (load_or_init without a file) is typed and well formed.
LEMMA DefaultStateType == DefaultState \in State /\ WellFormed(DefaultState)
BY DEF DefaultState, State, WellFormed

\* load_or_init returns a typed state whatever the file is.
LEMMA LoadedType ==
  ASSUME NEW f \in File
  PROVE  Loaded(f) \in State
BY DefaultStateType DEF Loaded, File

\* load_or_init returns a readable file as it is.
LEMMA LoadedState ==
  ASSUME NEW s \in State
  PROVE  Loaded(s) = s /\ s # Unreadable /\ s # NoFile
BY FileAssumption DEF Loaded

\* The invariant holds before the first daemon starts.
LEMMA InitIInv == Init => IInv
<1> SUFFICES ASSUME Init PROVE IInv
  OBVIOUS
<1> USE DEF Init
<1>1. TypeOK
  <2>1. /\ queue \in Seq(Updates) /\ Len(queue) <= STATE_QUEUE
        /\ buffer \in Seq(Updates) /\ Len(buffer) <= BATCH_LIMIT
        /\ sent \in Nat
    BY LimitsAssumption
  <2>2. disk \in File /\ images \in SUBSET File
    BY DEF File
  <2> QED
    BY <2>1, <2>2, DefaultStateType DEF TypeOK
<1>2. PointInv /\ FileInv
  BY DEF PointInv, FileInv, Running, Writing
<1>3. CleanMeansPersisted
  BY DEF CleanMeansPersisted
<1>4. StateWellFormed /\ ImagesWellFormed
  BY DefaultStateType, FileAssumption DEF StateWellFormed, ImagesWellFormed
<1> QED
  BY <1>1, <1>2, <1>3, <1>4 DEF IInv

\* What ClearMemory leaves of a process that ended is typed.
LEMMA ClearedType ==
  ASSUME ClearMemory
  PROVE  /\ queue' \in Seq(Updates) /\ Len(queue') <= STATE_QUEUE
         /\ buffer' \in Seq(Updates) /\ Len(buffer') <= BATCH_LIMIT
         /\ mem' \in State /\ mirror' \in State
BY DefaultStateType, LimitsAssumption DEF ClearMemory

\* Every step of the writer, its producers and its process keeps the types.
LEMMA StepType ==
  ASSUME TypeOK, [Next]_vars
  PROVE  TypeOK'
<1> USE DEF TypeOK
<1>1. CASE UNCHANGED vars
  BY <1>1 DEF vars
<1>2. CASE Boot
  BY <1>2, LoadedType DEF Boot, Running, Writing
<1>3. CASE BootRefused
  BY <1>3 DEF BootRefused, ram
<1>4. CASE RemoveFile
  BY <1>4 DEF RemoveFile, ram, File
<1>5. ASSUME NEW u \in Updates, Send(u)
      PROVE  TypeOK'
  <2>1. queue' \in Seq(Updates) /\ Len(queue') <= STATE_QUEUE
    BY <1>5, LimitsAssumption DEF Send
  <2> QED
    BY <1>5, <2>1 DEF Send
<1>6. CASE DropSenders
  BY <1>6 DEF DropSenders
<1>7. CASE RecvBatch
  <2>1. BatchSize \in 1 .. Len(queue) /\ BatchSize <= BATCH_LIMIT
    BY <1>7, LimitsAssumption DEF RecvBatch, BatchSize
  <2>2. buffer' \in Seq(Updates) /\ Len(buffer') <= BATCH_LIMIT
    BY <1>7, <2>1, LimitsAssumption DEF RecvBatch
  <2>3. queue' \in Seq(Updates) /\ Len(queue') <= STATE_QUEUE
    BY <1>7, <2>1, LimitsAssumption DEF RecvBatch
  <2> QED
    BY <1>7, <2>2, <2>3 DEF RecvBatch, Running
<1>8. CASE RecvClosed
  BY <1>8 DEF RecvClosed, Running, Writing
<1>9. CASE ApplyNext
  <2>1. Head(buffer) \in Updates /\ buffer' \in Seq(Updates) /\ Len(buffer') <= BATCH_LIMIT
    BY <1>9, LimitsAssumption DEF ApplyNext
  <2>2. mem' \in State
    BY <1>9, <2>1, ApplyType, UpdatesAssumption DEF ApplyNext
  <2> QED
    BY <1>9, <2>1, <2>2 DEF ApplyNext
<1>10. CASE BatchApplied
  BY <1>10 DEF BatchApplied, Running, Writing
<1>11. CASE WriteTemp
  BY <1>11 DEF WriteTemp, Running, Writing
<1>12. CASE SyncTemp
  BY <1>12 DEF SyncTemp, Running, Writing
<1>13. CASE Rename
  BY <1>13 DEF Rename, ram, Running, Writing, File
<1>14. CASE SyncDir
  BY <1>14 DEF SyncDir, ram, Running, Writing
<1>15. CASE WriteFails
  BY <1>15 DEF WriteFails, AfterWrite, ram, Running, Writing
<1>16. CASE Publish
  BY <1>16 DEF Publish, AfterWrite, Running, Writing
<1>17. CASE ProcessEnds
  BY <1>17, ClearedType DEF ProcessEnds, ClearMemory
<1>18. CASE PowerLoss
  <2>1. disk' \in File /\ images' \in SUBSET File
    BY <1>18 DEF PowerLoss
  <2> QED
    BY <1>18, <2>1, ClearedType DEF PowerLoss, ClearMemory
<1> QED
  BY <1>1, <1>2, <1>3, <1>4, <1>5, <1>6, <1>7, <1>8, <1>9, <1>10, <1>11, <1>12,
     <1>13, <1>14, <1>15, <1>16, <1>17, <1>18 DEF Next, Writer

\* Every variable of the writer always has its type: the channel and the batch
\* stay within their capacity and apply never leaves the State type.
THEOREM TypeCorrect == Spec => []TypeOK
<1>1. Init => TypeOK
  BY InitIInv DEF IInv
<1>2. TypeOK /\ [Next]_vars => TypeOK'
  BY StepType
<1> QED
  BY <1>1, <1>2, PTL DEF Spec

\* Every step keeps the facts run_mirrored relies on at its program points.
LEMMA StepPoint ==
  ASSUME TypeOK, PointInv, [Next]_vars
  PROVE  PointInv'
<1> USE DEF PointInv, Writing
<1>1. CASE UNCHANGED vars
  BY <1>1 DEF vars
<1>2. CASE Boot \/ BootRefused \/ RemoveFile
  BY <1>2 DEF Boot, BootRefused, RemoveFile, ram
<1>3. ASSUME NEW u \in Updates, Send(u)
      PROVE  PointInv'
  BY <1>3 DEF Send, Running
<1>4. CASE DropSenders
  BY <1>4 DEF DropSenders, Running
<1>5. CASE RecvBatch \/ RecvClosed \/ ApplyNext \/ BatchApplied
  BY <1>5 DEF RecvBatch, RecvClosed, ApplyNext, BatchApplied
<1>6. CASE WriteTemp \/ SyncTemp \/ Rename
  BY <1>6 DEF WriteTemp, SyncTemp, Rename, ram
<1>7. CASE SyncDir
  BY <1>7 DEF SyncDir, ram
<1>8. CASE WriteFails
  BY <1>8 DEF WriteFails, AfterWrite, ram
<1>9. CASE Publish
  BY <1>9 DEF Publish, AfterWrite
<1>10. CASE ProcessEnds \/ PowerLoss
  BY <1>10 DEF ProcessEnds, PowerLoss, ClearMemory
<1> QED
  BY <1>1, <1>2, <1>3, <1>4, <1>5, <1>6, <1>7, <1>8, <1>9, <1>10 DEF Next, Writer

\* Every step of atomic_write and every crash keeps the file readable and among the images.
LEMMA StepFile ==
  ASSUME TypeOK, PointInv, FileInv, [Next]_vars
  PROVE  FileInv'
<1> USE DEF FileInv, Running, Writing
<1>1. CASE UNCHANGED vars
  BY <1>1 DEF vars
<1>2. CASE Boot \/ BootRefused \/ RemoveFile
  BY <1>2, FileAssumption DEF Boot, BootRefused, RemoveFile, ram
<1>3. ASSUME NEW u \in Updates, Send(u)
      PROVE  FileInv'
  BY <1>3 DEF Send
<1>4. CASE DropSenders
  BY <1>4 DEF DropSenders
<1>5. CASE RecvBatch \/ RecvClosed \/ ApplyNext \/ BatchApplied
  BY <1>5 DEF RecvBatch, RecvClosed, ApplyNext, BatchApplied
<1>6. CASE WriteTemp \/ SyncTemp
  BY <1>6 DEF WriteTemp, SyncTemp
<1>7. CASE Rename
  <2>1. mem # Unreadable
    BY LoadedState DEF TypeOK
  <2>2. images' = images \cup {mem} /\ disk' = mem /\ pc' = "dirsync"
    BY <1>7 DEF Rename, PointInv
  <2>3. Unreadable \notin images
    BY <1>7 DEF Rename
  <2> QED
    BY <2>1, <2>2, <2>3
<1>8. CASE SyncDir
  BY <1>8 DEF SyncDir, ram
<1>9. CASE WriteFails \/ Publish
  BY <1>9 DEF WriteFails, Publish, AfterWrite, ram
<1>10. CASE ProcessEnds \/ PowerLoss
  BY <1>10 DEF ProcessEnds, PowerLoss, ClearMemory
<1> QED
  BY <1>1, <1>2, <1>3, <1>4, <1>5, <1>6, <1>7, <1>8, <1>9, <1>10 DEF Next, Writer

\* Every step keeps dirty exact: it is cleared only by a successful persist.
LEMMA StepClean ==
  ASSUME TypeOK, PointInv, CleanMeansPersisted, [Next]_vars
  PROVE  CleanMeansPersisted'
<1> USE DEF CleanMeansPersisted
<1>1. CASE UNCHANGED vars
  BY <1>1 DEF vars
<1>2. CASE Boot
  BY <1>2 DEF Boot, Loaded
<1>3. CASE BootRefused \/ RemoveFile
  BY <1>3 DEF BootRefused, RemoveFile
<1>4. ASSUME NEW u \in Updates, Send(u)
      PROVE  CleanMeansPersisted'
  BY <1>4 DEF Send, Loaded
<1>5. CASE DropSenders
  BY <1>5 DEF DropSenders, Loaded
<1>6. CASE RecvClosed
  BY <1>6 DEF RecvClosed, Loaded
<1>7. CASE RecvBatch \/ ApplyNext \/ BatchApplied \/ WriteTemp \/ SyncTemp \/ Rename \/ SyncDir
  BY <1>7 DEF RecvBatch, ApplyNext, BatchApplied, WriteTemp, SyncTemp, Rename, SyncDir
<1>8. CASE WriteFails
  BY <1>8 DEF WriteFails, PointInv, ram
<1>9. CASE Publish
  <2>1. disk = mem /\ Loaded(mem) = mem
    BY <1>9, LoadedState DEF Publish, PointInv, TypeOK
  <2> QED
    BY <1>9, <2>1 DEF Publish, Loaded
<1>10. CASE ProcessEnds \/ PowerLoss
  BY <1>10 DEF ProcessEnds, PowerLoss, ClearMemory
<1> QED
  BY <1>1, <1>2, <1>3, <1>4, <1>5, <1>6, <1>7, <1>8, <1>9, <1>10 DEF Next, Writer

\* load_or_init of a well-formed file gives a well-formed state.
LEMMA LoadedWellFormed ==
  ASSUME TypeOK, StateWellFormed
  PROVE  WellFormed(Loaded(disk))
BY DefaultStateType DEF TypeOK, File, Loaded, StateWellFormed

\* Every step keeps every copy of the state, images included, well formed.
LEMMA StepWellFormed ==
  ASSUME TypeOK, FileInv, StateWellFormed, ImagesWellFormed, [Next]_vars
  PROVE  StateWellFormed' /\ ImagesWellFormed'
<1> USE DEF StateWellFormed, ImagesWellFormed, WellFormed
<1>1. CASE UNCHANGED vars
  BY <1>1 DEF vars
<1>2. CASE Boot
  BY <1>2, LoadedWellFormed DEF Boot
<1>3. CASE BootRefused
  BY <1>3 DEF BootRefused, ram
<1>4. CASE RemoveFile
  BY <1>4, FileAssumption DEF RemoveFile, ram
<1>5. ASSUME NEW u \in Updates, Send(u)
      PROVE  StateWellFormed' /\ ImagesWellFormed'
  BY <1>5 DEF Send
<1>6. CASE DropSenders
  BY <1>6 DEF DropSenders
<1>7. CASE RecvBatch \/ RecvClosed \/ BatchApplied \/ WriteTemp \/ SyncTemp
  BY <1>7 DEF RecvBatch, RecvClosed, BatchApplied, WriteTemp, SyncTemp
<1>8. CASE ApplyNext
  <2>1. Head(buffer) \in StateUpdate
    BY <1>8, UpdatesAssumption DEF ApplyNext, TypeOK
  <2>2. WellFormed(mem)'
    BY <1>8, <2>1, ApplyWellFormed DEF ApplyNext, TypeOK
  <2> QED
    BY <1>8, <2>2 DEF ApplyNext
<1>9. CASE Rename
  BY <1>9, FileAssumption DEF Rename, ram, TypeOK
<1>10. CASE SyncDir \/ WriteFails
  BY <1>10 DEF SyncDir, WriteFails, FileInv, ram
<1>11. CASE Publish
  BY <1>11 DEF Publish
<1>12. CASE ProcessEnds
  BY <1>12, DefaultStateType DEF ProcessEnds, ClearMemory
<1>13. CASE PowerLoss
  BY <1>13, DefaultStateType DEF PowerLoss, ClearMemory
<1> QED
  BY <1>1, <1>2, <1>3, <1>4, <1>5, <1>6, <1>7, <1>8, <1>9, <1>10, <1>11, <1>12, <1>13
     DEF Next, Writer

\* The strengthened invariant holds in every reachable state of the writer (run_mirrored,
\* atomic_write, load_or_init).
THEOREM Inductive == Spec => []IInv
<1>1. Init => IInv
  BY InitIInv
<1>2. IInv /\ [Next]_vars => IInv'
  BY StepType, StepPoint, StepFile, StepClean, StepWellFormed DEF IInv
<1> QED
  BY <1>1, <1>2, PTL DEF Spec

\* No run is ever active twice and the finished-run history stays bounded, in
\* memory, in the mirror and on disk, across failed writes and crashes.
THEOREM WellFormedCorrect == Spec => []StateWellFormed
BY Inductive, PTL DEF IInv

\* Skipping the final persist when not dirty loses nothing.
THEOREM CleanCorrect == Spec => []CleanMeansPersisted
BY Inductive, PTL DEF IInv

\* atomic_write never leaves a file that load_or_init refuses, and a refused file
\* is never overwritten.
THEOREM ReadableCorrect == Spec => FileStaysReadable
<1> DEFINE A == /\ disk' = Unreadable => disk = Unreadable
                /\ disk = Unreadable => disk' \in {Unreadable, NoFile}
<1>1. IInv /\ [Next]_vars => [A]_disk
  <2> SUFFICES ASSUME IInv, [Next]_vars, disk' # disk
               PROVE  A
    OBVIOUS
  <2>1. CASE RemoveFile
    BY <2>1, FileAssumption DEF RemoveFile, IInv, FileInv
  <2>2. CASE Rename
    BY <2>2, LoadedState DEF Rename, IInv, TypeOK, FileInv, Running, Writing
  <2>3. CASE PowerLoss
    BY <2>3 DEF PowerLoss, IInv, FileInv
  <2>4. RemoveFile \/ Rename \/ PowerLoss
    BY DEF Next, Writer, vars, ram, Boot, BootRefused, Send, DropSenders, RecvBatch,
           RecvClosed, ApplyNext, BatchApplied, WriteTemp, SyncTemp, SyncDir, WriteFails,
           Publish, ProcessEnds
  <2> QED
    BY <2>1, <2>2, <2>3, <2>4
<1> QED
  BY <1>1, Inductive, PTL DEF Spec, FileStaysReadable

\* Within one process the mirror only moves to what no crash can take back.
THEOREM MirrorCorrect == Spec => MirrorShowsDurable
<1> DEFINE A == mirror' # mirror /\ pc \in Running /\ pc' # "stopped" => images' = {mirror'}
<1>1. IInv /\ [Next]_vars => [A]_vars
  <2> SUFFICES ASSUME IInv, [Next]_vars, mirror' # mirror, pc \in Running, pc' # "stopped"
               PROVE  images' = {mirror'}
    OBVIOUS
  <2>1. Publish
    BY DEF Next, Writer, vars, ram, Boot, BootRefused, RemoveFile, Send, DropSenders,
           RecvBatch, RecvClosed, ApplyNext, BatchApplied, WriteTemp, SyncTemp, Rename,
           SyncDir, WriteFails, ProcessEnds, PowerLoss, ClearMemory, Running, Writing
  <2> QED
    BY <2>1 DEF Publish, IInv, PointInv
<1> QED
  BY <1>1, Inductive, PTL DEF Spec, MirrorShowsDurable

\* The writer implements CrashSafeStore: crashes, kills and failed writes only ever
\* take the daemon back to a state it went through, and never behind a write that
\* was acknowledged.
THEOREM Refinement == Spec => ImplementsStore
<1> DEFINE current == IF Down THEN Loaded(disk) ELSE mem
           stable == {Loaded(f) : f \in images}
           view == IF Down THEN Loaded(disk) ELSE mirror
<1>1. Init => Store!Init
  BY DEF Init, Store!Init, Down, Loaded, DefaultState
<1>2. IInv /\ [Next]_vars => [Store!Next]_(Store!vars)
  <2> SUFFICES ASSUME IInv, [Next]_vars
               PROVE  Store!Next \/ UNCHANGED <<~Down, current, stable, view>>
    BY DEF Store!vars
  <2> DEFINE Stutter == UNCHANGED <<~Down, current, stable, view>>
  <2>0. /\ TypeOK /\ PointInv /\ FileInv
        /\ Loaded(mem) = mem
    BY LoadedState DEF IInv, TypeOK
  <2>1. CASE UNCHANGED vars
    BY <2>1 DEF vars, Down
  <2>2. CASE Boot
    BY <2>2 DEF Boot, Down, Loaded, Store!Next, Store!Start
  <2>3. CASE BootRefused
    BY <2>3 DEF BootRefused, Down, Loaded
  <2>4. CASE RemoveFile
    <3>1. disk = Unreadable /\ images = {Unreadable}
      BY <2>0, <2>4 DEF RemoveFile, FileInv
    <3> QED
      BY <2>4, <3>1 DEF RemoveFile, Down, Loaded
  <2>5. ASSUME NEW u \in Updates, Send(u)
        PROVE  Stutter
    BY <2>5 DEF Send, Down, Loaded
  <2>6. CASE DropSenders
    BY <2>6 DEF DropSenders, Down, Loaded
  <2>7. CASE RecvBatch \/ RecvClosed \/ BatchApplied
    BY <2>7 DEF RecvBatch, RecvClosed, BatchApplied, Down, Loaded
  <2>8. CASE ApplyNext
    <3>1. Head(buffer) \in Updates
      BY <2>0, <2>8 DEF ApplyNext, TypeOK
    <3>2. ~Down /\ ~Down'
      BY <2>8 DEF ApplyNext, Down
    <3>3. Store!Step(Head(buffer))
      BY <2>8, <3>2 DEF ApplyNext, Store!Step, Loaded
    <3> QED
      BY <3>1, <3>3 DEF Store!Next
  <2>9. CASE WriteTemp \/ SyncTemp \/ WriteFails
    BY <2>9 DEF WriteTemp, SyncTemp, WriteFails, AfterWrite, Writing, ram, Down, Loaded
  <2>10. CASE Rename
    <3>1. ~Down /\ ~Down' /\ mem' = mem /\ mirror' = mirror /\ images' = images \cup {mem}
      BY <2>0, <2>10 DEF Rename, PointInv, ram, Down
    <3>2. stable' = stable \cup {mem}
      BY <2>0, <3>1 DEF Loaded
    <3>3. Store!Attempt
      BY <3>1, <3>2 DEF Store!Attempt
    <3> QED
      BY <3>3 DEF Store!Next
  <2>11. CASE SyncDir
    <3>1. ~Down /\ ~Down' /\ mem' = mem /\ mirror' = mirror /\ images' = {mem}
      BY <2>0, <2>11 DEF SyncDir, PointInv, ram, Down
    <3>2. stable' = {mem}
      BY <2>0, <3>1 DEF Loaded
    <3>3. Store!Acknowledge
      BY <3>1, <3>2 DEF Store!Acknowledge
    <3> QED
      BY <3>3 DEF Store!Next
  <2>12. CASE Publish
    <3>1. ~Down /\ ~Down' /\ mem' = mem /\ mirror' = mem /\ images = {mem} /\ images' = images
      BY <2>0, <2>12 DEF Publish, AfterWrite, PointInv, Down
    <3>2. stable = {mem} /\ stable' = stable
      BY <2>0, <3>1 DEF Loaded
    <3>3. Store!Show
      BY <3>1, <3>2 DEF Store!Show
    <3> QED
      BY <3>3 DEF Store!Next
  <2>13. CASE ProcessEnds \/ PowerLoss
    <3>1. PICK f \in images : disk' = f /\ f \in images' /\ images' \subseteq images
      BY <2>0, <2>13 DEF ProcessEnds, PowerLoss, FileInv
    <3>2. Down' /\ Loaded(disk)' = Loaded(f)
      BY <2>13, <3>1 DEF ProcessEnds, PowerLoss, ClearMemory, Down, Loaded
    <3>3. stable' \subseteq stable /\ Loaded(f) \in stable /\ Loaded(f) \in stable'
      BY <3>1 DEF Loaded
    <3>4. Store!Stop
      BY <3>2, <3>3 DEF Store!Stop
    <3> QED
      BY <3>4 DEF Store!Next
  <2> QED
    BY <2>1, <2>2, <2>3, <2>4, <2>5, <2>6, <2>7, <2>8, <2>9, <2>10, <2>11, <2>12, <2>13
       DEF Next, Writer
<1> QED
  BY <1>1, <1>2, Inductive, PTL DEF Spec, ImplementsStore, Store!Spec
=============================================================================
