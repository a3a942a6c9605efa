------------------------- MODULE FilePipelineProofs -------------------------
(* Proofs about FilePipeline, for any files, operations and failures.         *)
EXTENDS FilePipeline, FiniteSetTheorems, TLAPS

(* Texts are closed under what the operations do with them.                   *)
LEMMA TextsFacts ==
    /\ \A d \in {Nothing} \cup Texts : TextOf(d) \in Texts
    /\ \A o \in Ops : {o} \in Texts
    /\ \A u \in Uploads : {u} \in Texts
    /\ {} \in Texts
    /\ \A s, t \in Texts : s \cup t \in Texts /\ s \ t \in Texts
    /\ \A t \in Texts : AsText(t) \in Texts
  BY DEF Texts, Marks, TextOf, AsText

(* What a job inserts is a batch.                                             *)
LEMMA BatchType ==
    \A o \in Ops, n \in 0..MaxTries, t \in Texts : Batch(o, n, t) \in Batches
  BY DEF Batch, Batches, Marks

(* Closing the session of an operation.                                       *)
LEMMA FinishType ==
    ASSUME OpTypes, SessionTypes, NEW o \in Ops, Finish(o), UNCHANGED <<kind, file, dup>>
    PROVE  OpTypes' /\ SessionTypes'
  <1>1. OpTypes'
    BY DEF OpTypes, Finish, Goto
  <1>2. IsFiniteSet({})
    BY FS_EmptySet
  <1>3. SessionTypes'
    BY <1>2, TextsFacts DEF SessionTypes, Finish, Statuses
  <1> QED BY <1>1, <1>3

(* The end of a job, and its return to the queue.                             *)
LEMMA JobEndType ==
    ASSUME JobTypes, NEW o \in Ops, jpc[o] # "none", UNCHANGED file,
           EndJob(o) \/ TryAgain(o)
    PROVE  JobTypes'
  <1> USE FilePipelineAssumption, TextsFacts
  <1>1. CASE EndJob(o)
    BY <1>1 DEF JobTypes, EndJob, JobGoto
  <1>2. CASE TryAgain(o)
    <2>1. tries[o] + 1 \in 0..MaxTries
      BY <1>2 DEF JobTypes, TryAgain
    <2> QED BY <1>2, <2>1 DEF JobTypes, TryAgain, JobGoto
  <1> QED BY <1>1, <1>2

(* A new status, everything else in the store as it was.                      *)
LEMMA StatusType ==
    ASSUME StoreTypes, NEW f \in Files, NEW s \in Statuses \cup {"none", "deleted"},
           SetStatus(f, s) \/ UNCHANGED status, UNCHANGED <<hash, disk, chunks, versions>>
    PROVE  StoreTypes'
  BY DEF StoreTypes, SetStatus

(* A failure is counted.                                                      *)
LEMMA FaultType ==
    ASSUME faults \in Nat, Fault \/ UNCHANGED faults PROVE faults' \in Nat
  BY DEF Fault

(* An upload keeps the types: its file is a new one or none.                  *)
LEMMA UploadFileType ==
    ASSUME TypeOK, NEW o \in Ops, NEW u \in Uploads, UploadFile(o, u)
    PROVE  TypeOK'
  <1> USE DEF TypeOK
  <1>1. CASE Goto(o, "done") /\ UNCHANGED <<disk, file, plan, past>> /\ dup' \in [Ops -> Files \cup {Nothing}]
    BY <1>1 DEF UploadFile, StoreTypes, OpTypes, SessionTypes, JobTypes, HistoryTypes, Goto, Kinds, jobs
  <1>2. ASSUME NEW f \in Files,
               disk' = [disk EXCEPT ![f] = {u}], past' = [past EXCEPT ![f] = {AsText({u})}],
               file' = [file EXCEPT ![o] = f], plan' = [plan EXCEPT ![o] = {u}],
               Goto(o, "insert"), UNCHANGED dup
        PROVE  TypeOK'
    <2>1. StoreTypes' /\ HistoryTypes'
      BY <1>2, TextsFacts DEF UploadFile, StoreTypes, HistoryTypes
    <2>2. OpTypes' /\ JobTypes'
      BY <1>2 DEF UploadFile, OpTypes, JobTypes, Goto, Kinds, jobs
    <2>3. SessionTypes'
      BY <1>2, TextsFacts DEF UploadFile, SessionTypes
    <2> QED BY <2>1, <2>2, <2>3
  <1>3. ASSUME NEW g \in Files, dup' = [dup EXCEPT ![o] = g] PROVE dup' \in [Ops -> Files \cup {Nothing}]
    BY <1>3 DEF OpTypes
  <1> QED BY <1>1, <1>2, <1>3 DEF UploadFile

(* Inserting the row keeps the types.                                         *)
LEMMA InsertRowType ==
    ASSUME TypeOK, NEW o \in Ops, InsertRow(o)
    PROVE  TypeOK'
  <1> USE DEF TypeOK
  <1>1. StoreTypes'
    BY DEF InsertRow, SetStatus, StoreTypes, OpTypes, SessionTypes, Statuses, Texts
  <1>2. OpTypes' /\ SessionTypes' /\ JobTypes' /\ HistoryTypes'
    BY DEF InsertRow, OpTypes, SessionTypes, JobTypes, HistoryTypes, Goto, jobs, history
  <1> QED BY <1>1, <1>2

(* What an edit plans is a text.                                              *)
LEMMA StartEditType ==
    ASSUME TypeOK, NEW o \in Ops, NEW k \in Kinds, NEW f \in Files, StartEdit(o, k, f)
    PROVE  TypeOK'
  <1> USE DEF TypeOK
  <1>1. Planned(o, k, f) \subseteq Texts
    <2>1. TextOf(disk[f]) \in Texts
      BY TextsFacts DEF StoreTypes
    <2>4. AsText(TextOf(disk[f])) \in Texts
      BY <2>1, TextsFacts
    <2>2. \A m : (AsText(TextOf(disk[f])) \ {m}) \cup {o} \in Texts
      BY <2>4 DEF Texts, Marks
    <2>3. \A v \in versions[f] : v.text \in Texts
      BY DEF StoreTypes, Snapshots
    <2> QED BY <2>2, <2>3, TextsFacts DEF Planned, Kinds
  <1>2. status[f] \in Statuses
    BY DEF StartEdit, Exists
  <1>3. SessionTypes'
    BY <1>1, <1>2 DEF StartEdit, SessionTypes
  <1>4. OpTypes' /\ JobTypes'
    BY DEF StartEdit, OpTypes, JobTypes, Goto, jobs
  <1>5. StoreTypes' /\ HistoryTypes'
    BY DEF StartEdit, StoreTypes, HistoryTypes, Enter, store
  <1> QED BY <1>3, <1>4, <1>5

(* The snapshot has a number and a text.                                      *)
LEMMA SaveVersionType ==
    ASSUME TypeOK, NEW o \in Ops, SaveVersion(o)
    PROVE  TypeOK'
  <1> USE DEF TypeOK
  <1> DEFINE f == file[o]
             v == [by |-> o, version |-> Cardinality(versions[f]) + 1,
                   text |-> AsText(disk[f])]
  <1>1. f \in Files
    BY DEF SaveVersion, OpTypes
  <1>2. Cardinality(versions[f]) \in Nat
    BY <1>1, FS_CardinalityType DEF StoreTypes
  <1>3. disk[f] # Nothing => v \in Snapshots
    BY <1>1, <1>2, TextsFacts DEF StoreTypes, Snapshots
  <1>4. IsFiniteSet({}) /\ IsFiniteSet({v})
    BY FS_EmptySet, FS_Singleton
  <1>5. snap' = [snap EXCEPT ![o] = IF disk[f] = Nothing THEN {} ELSE {v}]
    BY DEF SaveVersion
  <1>6. SessionTypes'
    <2>1. UNCHANGED <<plan, seen, doomed>>
      BY DEF SaveVersion
    <2>2. PICK x \in SUBSET Snapshots : IsFiniteSet(x) /\ snap' = [snap EXCEPT ![o] = x]
      <3> HIDE DEF v
      <3>1. CASE disk[f] = Nothing
        BY <1>4, <1>5, <3>1
      <3>2. CASE disk[f] # Nothing
        BY <1>3, <1>4, <1>5, <3>2
      <3> QED BY <3>1, <3>2
    <2> QED BY <2>1, <2>2 DEF SessionTypes
  <1>7. StoreTypes' /\ OpTypes' /\ JobTypes' /\ HistoryTypes'
    BY DEF SaveVersion, StoreTypes, OpTypes, JobTypes, HistoryTypes, Goto, store, jobs, history
  <1> QED BY <1>6, <1>7

(* Opening leaves a text on disk.                                             *)
LEMMA OpenFileType ==
    ASSUME TypeOK, NEW o \in Ops, OpenFile(o)
    PROVE  TypeOK'
  <1> USE DEF TypeOK
  <1>1. StoreTypes'
    BY TextsFacts DEF OpenFile, StoreTypes, OpTypes
  <1>2. OpTypes' /\ SessionTypes' /\ JobTypes' /\ HistoryTypes'
    BY DEF OpenFile, OpTypes, SessionTypes, JobTypes, HistoryTypes, Goto, jobs, history
  <1> QED BY <1>1, <1>2

(* Writing leaves a text on disk.                                             *)
LEMMA WriteFileType ==
    ASSUME TypeOK, NEW o \in Ops, WriteFile(o)
    PROVE  TypeOK'
  <1> USE DEF TypeOK
  <1> DEFINE f == file[o]
             t == IF kind[o] = "append" THEN TextOf(disk[f]) \cup plan[o] ELSE plan[o]
  <1>1. f \in Files
    BY DEF WriteFile, OpTypes
  <1>2. t \in Texts /\ AsText(t) \in Texts
    BY <1>1, TextsFacts DEF StoreTypes, SessionTypes
  <1>3. disk' = [disk EXCEPT ![f] = t] /\ past' = [past EXCEPT ![f] = past[f] \cup {AsText(t)}]
    BY DEF WriteFile
  <1>4. StoreTypes' /\ HistoryTypes'
    <2>1. UNCHANGED <<status, hash, chunks, versions, crossed, disturbed, hurt, stuck,
                      faults>>
      BY DEF WriteFile
    <2> HIDE DEF t, f
    <2> QED BY <1>1, <1>2, <1>3, <2>1 DEF StoreTypes, HistoryTypes
  <1>5. OpTypes' /\ SessionTypes' /\ JobTypes'
    BY DEF WriteFile, OpTypes, SessionTypes, JobTypes, Goto, jobs
  <1> QED BY <1>4, <1>5

(* What is to be deleted are batches.                                         *)
LEMMA DeleteChunksType ==
    ASSUME TypeOK, NEW o \in Ops, DeleteChunks(o)
    PROVE  TypeOK'
  <1> USE DEF TypeOK
  <1>1. SessionTypes'
    BY DEF DeleteChunks, SessionTypes, OpTypes, StoreTypes
  <1>2. StoreTypes' /\ OpTypes' /\ JobTypes' /\ HistoryTypes'
    BY DEF DeleteChunks, StoreTypes, OpTypes, JobTypes, HistoryTypes, Goto, store, jobs, history
  <1> QED BY <1>1, <1>2

(* The versions stay finite, and the row keeps a status.                      *)
LEMMA CommitEditType ==
    ASSUME TypeOK, NEW o \in Ops, CommitEdit(o)
    PROVE  TypeOK'
  <1> USE DEF TypeOK
  <1> DEFINE f == file[o]
  <1>1. f \in Files
    BY DEF CommitEdit, OpTypes
  <1>2. IsFiniteSet(versions[f] \cup snap[o])
    BY <1>1, FS_Union DEF StoreTypes, SessionTypes
  <1>3. CASE Goto(o, "enqueue") /\ UNCHANGED session
             /\ versions' = [versions EXCEPT ![f] = versions[f] \cup snap[o]]
             /\ chunks' = [chunks EXCEPT ![f] = chunks[f] \ doomed[o]]
             /\ (SetStatus(f, "uploaded") \/ UNCHANGED status)
    <2>1. StoreTypes'
      BY <1>1, <1>2, <1>3 DEF CommitEdit, StoreTypes, SessionTypes, SetStatus, Statuses
    <2>2. OpTypes' /\ SessionTypes' /\ JobTypes' /\ HistoryTypes'
      BY <1>3 DEF CommitEdit, OpTypes, SessionTypes, JobTypes, HistoryTypes, Goto, jobs,
                  history, session
    <2> QED BY <2>1, <2>2
  <1>4. CASE Finish(o) /\ UNCHANGED <<versions, chunks, status>>
    <2>1. OpTypes' /\ SessionTypes'
      BY <1>4, FinishType DEF CommitEdit
    <2>2. StoreTypes' /\ JobTypes' /\ HistoryTypes'
      BY <1>4 DEF CommitEdit, StoreTypes, JobTypes, HistoryTypes, jobs, history
    <2> QED BY <2>1, <2>2
  <1>5. CASE Goto(o, "enqueue") /\ UNCHANGED <<session, versions, chunks, status>>
    BY <1>5 DEF CommitEdit, StoreTypes, OpTypes, SessionTypes, JobTypes, HistoryTypes, Goto,
                jobs, history, session
  <1> QED BY <1>3, <1>4, <1>5 DEF CommitEdit

(* A queued job has its file and its first try.                               *)
LEMMA EnqueueType ==
    ASSUME TypeOK, NEW o \in Ops, Enqueue(o)
    PROVE  TypeOK'
  <1> USE DEF TypeOK
  <1>1. OpTypes' /\ SessionTypes'
    BY FinishType DEF Enqueue
  <1>2. 1 \in 0..MaxTries
    BY FilePipelineAssumption
  <1>3. JobTypes'
    BY <1>2 DEF Enqueue, JobTypes, JobGoto, OpTypes
  <1>4. StoreTypes' /\ HistoryTypes'
    BY DEF Enqueue, StoreTypes, HistoryTypes, store, history
  <1> QED BY <1>1, <1>3, <1>4

(* A failure is counted, and closes the session.                              *)
LEMMA FailOpType ==
    ASSUME TypeOK, NEW o \in Ops, FailOp(o)
    PROVE  TypeOK'
  <1> USE DEF TypeOK
  <1>1. OpTypes' /\ SessionTypes'
    BY FinishType DEF FailOp
  <1>2. file[o] \in Files
    BY DEF FailOp, OpTypes
  <1>3. HistoryTypes'
    BY <1>2, FaultType DEF FailOp, HistoryTypes
  <1>4. IsFiniteSet(versions[file[o]] \cup snap[o])
    BY <1>2, FS_Union DEF StoreTypes, SessionTypes
  <1>5. \/ UNCHANGED versions
        \/ versions' = [versions EXCEPT ![file[o]] = versions[file[o]] \cup snap[o]]
    BY DEF FailOp
  <1>6. StoreTypes'
    BY <1>2, <1>4, <1>5 DEF FailOp, StoreTypes, SessionTypes
  <1>7. JobTypes'
    BY DEF FailOp, JobTypes, jobs
  <1> QED BY <1>1, <1>3, <1>6, <1>7

(* Beginning a deletion keeps the types.                                      *)
LEMMA StartDeleteType ==
    ASSUME TypeOK, NEW o \in Ops, NEW f \in Files, StartDelete(o, f)
    PROVE  TypeOK'
  <1> USE DEF TypeOK
  <1>1. OpTypes' /\ JobTypes'
    BY DEF StartDelete, OpTypes, JobTypes, Goto, jobs, Kinds
  <1>2. StoreTypes' /\ SessionTypes' /\ HistoryTypes'
    BY DEF StartDelete, StoreTypes, SessionTypes, HistoryTypes, Enter, store
  <1> QED BY <1>1, <1>2

(* A deletion empties chunks and versions.                                    *)
LEMMA CommitDeleteType ==
    ASSUME TypeOK, NEW o \in Ops, CommitDelete(o)
    PROVE  TypeOK'
  <1> USE DEF TypeOK
  <1> DEFINE f == file[o]
  <1>1. f \in Files
    BY DEF CommitDelete, OpTypes
  <1>2. CASE Goto(o, "unlink") /\ SetStatus(f, "deleted") /\ UNCHANGED session
             /\ chunks' = [chunks EXCEPT ![f] = {}] /\ versions' = [versions EXCEPT ![f] = {}]
    <2>1. StoreTypes'
      BY <1>1, <1>2, FS_EmptySet DEF CommitDelete, StoreTypes, SetStatus
    <2>2. OpTypes' /\ SessionTypes' /\ JobTypes' /\ HistoryTypes'
      BY <1>2 DEF CommitDelete, OpTypes, SessionTypes, JobTypes, HistoryTypes, Goto, jobs,
                  history, session
    <2> QED BY <2>1, <2>2
  <1>3. CASE Finish(o) /\ UNCHANGED <<versions, chunks, status>>
    <2>1. OpTypes' /\ SessionTypes'
      BY <1>3, FinishType DEF CommitDelete
    <2>2. StoreTypes' /\ JobTypes' /\ HistoryTypes'
      BY <1>3 DEF CommitDelete, StoreTypes, JobTypes, HistoryTypes, jobs, history
    <2> QED BY <2>1, <2>2
  <1> QED BY <1>2, <1>3 DEF CommitDelete

(* After unlinking there is no text.                                          *)
LEMMA UnlinkFileType ==
    ASSUME TypeOK, NEW o \in Ops, UnlinkFile(o)
    PROVE  TypeOK'
  <1> USE DEF TypeOK
  <1>1. OpTypes' /\ SessionTypes'
    BY FinishType DEF UnlinkFile
  <1>2. StoreTypes' /\ JobTypes' /\ HistoryTypes'
    BY DEF UnlinkFile, StoreTypes, OpTypes, JobTypes, HistoryTypes, jobs, history
  <1> QED BY <1>1, <1>2

(* Beginning a job keeps the types.                                           *)
LEMMA StartJobType ==
    ASSUME TypeOK, NEW o \in Ops, StartJob(o)
    PROVE  TypeOK'
  <1> USE DEF TypeOK
  <1>1. file[o] \in Files
    BY DEF StartJob, JobTypes
  <1>2. StoreTypes'
    BY <1>1, StatusType DEF StartJob, Statuses
  <1>3. JobTypes'
    <2>1. CASE EndJob(o)
      BY <2>1, JobEndType DEF StartJob, ops
    <2>2. CASE JobGoto(o, "read") /\ UNCHANGED <<tries, text>>
      BY <2>2, <1>1 DEF StartJob, JobTypes, JobGoto, ops
    <2> QED BY <2>1, <2>2 DEF StartJob
  <1>4. OpTypes' /\ SessionTypes' /\ HistoryTypes'
    BY DEF StartJob, OpTypes, SessionTypes, HistoryTypes, ops, session, history
  <1> QED BY <1>2, <1>3, <1>4

(* What a job extracts is a text.                                             *)
LEMMA ReadFileType ==
    ASSUME TypeOK, NEW o \in Ops, ReadFile(o)
    PROVE  TypeOK'
  <1> USE DEF TypeOK
  <1>1. file[o] \in Files /\ TextOf(disk[file[o]]) \in Texts
    BY TextsFacts DEF ReadFile, JobTypes, StoreTypes
  <1>2. StoreTypes'
    BY <1>1, StatusType DEF ReadFile, Statuses
  <1>3. JobTypes'
    BY <1>1 DEF ReadFile, JobTypes, JobGoto, ops
  <1>4. HistoryTypes'
    BY <1>1, FaultType DEF ReadFile, HistoryTypes
  <1>5. OpTypes' /\ SessionTypes'
    BY DEF ReadFile, OpTypes, SessionTypes, ops, session
  <1> QED BY <1>2, <1>3, <1>4, <1>5

(* What a job inserts are batches.                                            *)
LEMMA SaveChunksType ==
    ASSUME TypeOK, NEW o \in Ops, SaveChunks(o)
    PROVE  TypeOK'
  <1> USE DEF TypeOK
  <1> DEFINE f == file[o]
  <1>1. f \in Files
    BY DEF SaveChunks, JobTypes
  <1>2. Batch(o, tries[o], text[o]) \in Batches /\ Batch(o, tries[o], {}) \in Batches
    BY BatchType, TextsFacts DEF JobTypes
  <1>3. \E s \in Statuses : status' = [status EXCEPT ![f] = s]
    BY DEF SaveChunks, SetStatus, Statuses
  <1>4. \E b \in SUBSET Batches : chunks' = [chunks EXCEPT ![f] = chunks[f] \cup b]
    <2>1. CASE UNCHANGED chunks
      BY <2>1, <1>1 DEF StoreTypes
    <2>2. CASE chunks' = [chunks EXCEPT ![f] = chunks[f] \cup {Batch(o, tries[o], text[o])}]
      BY <2>2, <1>2
    <2>3. CASE chunks' = [chunks EXCEPT ![f] = chunks[f] \cup {Batch(o, tries[o], {})}]
      BY <2>3, <1>2
    <2> QED BY <2>1, <2>2, <2>3 DEF SaveChunks
  <1>5. StoreTypes'
    <2>1. status' \in [Files -> Statuses \cup {"none", "deleted"}]
      BY <1>1, <1>3 DEF StoreTypes
    <2>2. chunks' \in [Files -> SUBSET Batches]
      BY <1>1, <1>4 DEF StoreTypes
    <2> QED BY <2>1, <2>2 DEF SaveChunks, StoreTypes
  <1>6. HistoryTypes'
    BY <1>1, FaultType DEF SaveChunks, HistoryTypes
  <1>7. OpTypes' /\ SessionTypes' /\ JobTypes'
    BY DEF SaveChunks, OpTypes, SessionTypes, JobTypes, JobGoto, ops, session
  <1> QED BY <1>5, <1>6, <1>7

(* A job ends or is tried again, at most MaxTries times.                      *)
LEMMA JobEndsType ==
    ASSUME TypeOK, NEW o \in Ops, AckJob(o) \/ RowGone(o) \/ FailJob(o) \/ KillWorker(o)
    PROVE  TypeOK'
  <1> USE DEF TypeOK
  <1>1. file[o] \in Files /\ jpc[o] # "none"
    BY DEF AckJob, RowGone, FailJob, KillWorker, JobTypes
  <1>2. UNCHANGED ops /\ (EndJob(o) \/ TryAgain(o))
    BY DEF AckJob, RowGone, FailJob, KillWorker
  <1>3. JobTypes'
    BY <1>1, <1>2, JobEndType DEF ops
  <1>4. OpTypes' /\ SessionTypes'
    BY <1>2 DEF OpTypes, SessionTypes, ops, session
  <1>5. StoreTypes'
    BY <1>1, StatusType DEF AckJob, RowGone, FailJob, KillWorker, store, Statuses
  <1>6. HistoryTypes'
    BY <1>1, FaultType DEF AckJob, RowGone, FailJob, KillWorker, HistoryTypes, history
  <1> QED BY <1>3, <1>4, <1>5, <1>6

(* Every row, file, chunk, version, session and job keeps its type, for any   *)
(* files, operations, tries and failures (services/, api/files).              *)
THEOREM TypeCorrect == Spec => []TypeOK
  <1>1. Init => TypeOK
    <2> SUFFICES ASSUME Init PROVE TypeOK
      OBVIOUS
    <2> USE FilePipelineAssumption, TextsFacts
    <2>1. First \in Uploads
      BY DEF First
    <2>2. Batch(First, 1, {First}) \in Batches
      BY <2>1 DEF Batch, Batches, Marks
    <2>3. IsFiniteSet({})
      BY FS_EmptySet
    <2>4. PICK old \in Files \cup {Nothing} :
             /\ status = [f \in Files |-> IF f = old THEN "ready" ELSE "none"]
             /\ hash = [f \in Files |-> IF f = old THEN First ELSE Nothing]
             /\ disk = [f \in Files |-> IF f = old THEN {First} ELSE Nothing]
             /\ chunks = [f \in Files |-> IF f = old THEN {Batch(First, 1, {First})}
                                          ELSE {}]
             /\ past = [f \in Files |-> IF f = old THEN {AsText({First})} ELSE {}]
      BY DEF Init
    <2>5. StoreTypes
      <3>1. versions = [f \in Files |-> {}]
        BY DEF Init
      <3> QED BY <2>1, <2>2, <2>3, <2>4, <3>1 DEF StoreTypes, Statuses, Marks
    <2>6. OpTypes /\ SessionTypes /\ JobTypes
      BY <2>3 DEF Init, OpTypes, SessionTypes, JobTypes
    <2>7. HistoryTypes
      BY <2>1, <2>4 DEF Init, HistoryTypes
    <2> QED BY <2>5, <2>6, <2>7 DEF TypeOK
  <1>2. TypeOK /\ [Next]_vars => TypeOK'
    <2> SUFFICES ASSUME TypeOK, [Next]_vars PROVE TypeOK'
      OBVIOUS
    <2>1. CASE UNCHANGED vars
      BY <2>1 DEF TypeOK, StoreTypes, OpTypes, SessionTypes, JobTypes, HistoryTypes,
                  vars, store, ops, session, jobs, history
    <2>2. CASE Next
      <3> PICK o \in Ops :
             \/ \E u \in Uploads : UploadFile(o, u)
             \/ \E k \in Kinds, f \in Files : StartEdit(o, k, f)
             \/ \E f \in Files : StartDelete(o, f)
             \/ OpStep(o) \/ FailOp(o)
             \/ JobStep(o) \/ FailJob(o) \/ KillWorker(o)
        BY <2>2 DEF Next
      <3> QED
        BY UploadFileType, InsertRowType, StartEditType, SaveVersionType, OpenFileType,
           WriteFileType, DeleteChunksType, CommitEditType, EnqueueType, FailOpType,
           StartDeleteType, CommitDeleteType, UnlinkFileType, StartJobType,
           ReadFileType, SaveChunksType, JobEndsType DEF OpStep, JobStep
    <2> QED BY <2>1, <2>2
  <1> QED BY <1>1, <1>2, PTL DEF Spec

------------------------------------------------------------------------------
(* Where operations can be.                                                   *)

(* A step of a job leaves operations and disk alone, and gives a status only  *)
(* to a file that has one.                                                    *)
LEMMA JobPlace ==
    ASSUME TypeOK, PlaceInv, NEW o \in Ops,
           JobStep(o) \/ FailJob(o) \/ KillWorker(o)
    PROVE  PlaceInv'
  <1> USE DEF JobStep, TypeOK
  <1>1. UNCHANGED <<ops, disk>>
    BY DEF StartJob, ReadFile, SaveChunks, AckJob, RowGone, FailJob, KillWorker, store
  <1>2. jpc[o] # "none" /\ file[o] \in Files
    BY DEF StartJob, ReadFile, SaveChunks, AckJob, RowGone, FailJob, KillWorker, JobTypes
  <1>3. \E l : jpc' = [jpc EXCEPT ![o] = l]
    BY DEF StartJob, ReadFile, SaveChunks, AckJob, RowGone, FailJob, KillWorker,
           JobGoto, EndJob, TryAgain
  <1>4. \/ UNCHANGED status
        \/ /\ Exists(file[o])
           /\ \E s \in Statuses : status' = [status EXCEPT ![file[o]] = s]
    BY DEF StartJob, ReadFile, SaveChunks, AckJob, RowGone, FailJob, KillWorker, store,
           SetStatus, Statuses
  <1>5. \A f \in Files : \/ status'[f] = status[f]
                         \/ status[f] \in Statuses /\ status'[f] \in Statuses
    BY <1>2, <1>4 DEF Exists, StoreTypes
  <1>6. \A p \in Ops : jpc'[p] # "none" => jpc[p] # "none"
    BY <1>2, <1>3 DEF JobTypes
  <1>7. \A p \in Ops : jpc[p] = "none" => jpc'[p] = "none"
    BY <1>2, <1>3 DEF JobTypes
  <1> QED
    BY <1>1, <1>5, <1>6, <1>7 DEF PlaceInv, Exists, Statuses, ops, OpTypes, JobTypes

(* The steps of operations, one by one.                                       *)
LEMMA UploadFilePlace ==
    ASSUME TypeOK, PlaceInv, NEW o \in Ops, NEW u \in Uploads, UploadFile(o, u)
    PROVE  PlaceInv'
  <1> USE DEF TypeOK, OpTypes, JobTypes, StoreTypes
  <1>1. /\ kind' = [kind EXCEPT ![o] = "upload"] /\ pc[o] = "idle"
        /\ UNCHANGED <<status, jpc>>
    BY DEF UploadFile, jobs
  <1>2. CASE Goto(o, "done") /\ UNCHANGED <<disk, file>>
    BY <1>1, <1>2 DEF PlaceInv, Goto, Exists
  <1>3. ASSUME NEW f \in Files, Unused(f), disk' = [disk EXCEPT ![f] = {u}],
               file' = [file EXCEPT ![o] = f], Goto(o, "insert")
        PROVE  PlaceInv'
    <2>1. {u} # Nothing
      BY FilePipelineAssumption, TextsFacts
    <2>2. jpc[o] = "none"
      BY <1>1 DEF PlaceInv
    <2>3. \A p \in Ops : pc[p] = "insert" => file[p] # f
      BY <1>3 DEF PlaceInv, Unused
    <2> QED
      BY <1>1, <1>3, <2>1, <2>2, <2>3 DEF PlaceInv, Goto, Exists, Unused, Statuses
  <1> QED BY <1>2, <1>3 DEF UploadFile

(* InsertRow: the file is on disk before it has a row.                        *)
LEMMA InsertRowPlace ==
    ASSUME TypeOK, PlaceInv, NEW o \in Ops, InsertRow(o)
    PROVE  PlaceInv'
  <1> USE DEF TypeOK, OpTypes, JobTypes, StoreTypes
  <1>1. /\ pc[o] = "insert" /\ file[o] \in Files
        /\ pc' = [pc EXCEPT ![o] = "enqueue"]
        /\ status' = [status EXCEPT ![file[o]] = "uploaded"]
        /\ UNCHANGED <<disk, kind, file, jpc>>
    BY DEF InsertRow, Goto, SetStatus, jobs
  <1> QED BY <1>1 DEF PlaceInv, Exists, Statuses

(* Operations begin on files that have a row.                                 *)
LEMMA StartPlace ==
    ASSUME TypeOK, PlaceInv, NEW o \in Ops, NEW f \in Files,
           (\E k \in Kinds : StartEdit(o, k, f)) \/ StartDelete(o, f)
    PROVE  PlaceInv'
  <1> USE DEF TypeOK, OpTypes, JobTypes, StoreTypes
  <1>1. /\ pc[o] = "idle" /\ Exists(f) /\ file' = [file EXCEPT ![o] = f]
        /\ UNCHANGED <<status, disk, jpc>>
    BY DEF StartEdit, StartDelete, store, jobs
  <1>2. \/ pc' = [pc EXCEPT ![o] = "delete"] /\ kind' = [kind EXCEPT ![o] = "delete"]
        \/ /\ pc' = [pc EXCEPT ![o] = "save"]
           /\ \E k \in Kinds \ {"delete"} : kind' = [kind EXCEPT ![o] = k]
    BY DEF StartEdit, StartDelete, Goto, Planned, Kinds
  <1> QED BY <1>1, <1>2 DEF PlaceInv, Exists, Statuses

(* SaveVersion moves the operation only.                                      *)
LEMMA SaveVersionPlace ==
    ASSUME TypeOK, PlaceInv, NEW o \in Ops, SaveVersion(o)
    PROVE  PlaceInv'
  BY DEF TypeOK, OpTypes, JobTypes, StoreTypes, SaveVersion, Goto, PlaceInv, Exists,
         store, jobs

(* Opening and writing create the file, never remove it.                      *)
LEMMA FileStepPlace ==
    ASSUME TypeOK, PlaceInv, NEW o \in Ops, OpenFile(o) \/ WriteFile(o)
    PROVE  PlaceInv'
  <1> USE DEF TypeOK, OpTypes, JobTypes, StoreTypes, SessionTypes
  <1>1. file[o] \in Files /\ pc[o] \in {"open", "write"}
    BY DEF OpenFile, WriteFile
  <1>2. \E t \in Texts : disk' = [disk EXCEPT ![file[o]] = t]
    BY <1>1, TextsFacts DEF OpenFile, WriteFile
  <1>3. \A f \in Files : disk[f] # Nothing => disk'[f] # Nothing
    BY <1>1, <1>2, FilePipelineAssumption
  <1>4. /\ pc' = [pc EXCEPT ![o] = "write"] \/ pc' = [pc EXCEPT ![o] = "delete"]
        /\ UNCHANGED <<status, file, kind, jpc>>
    BY DEF OpenFile, WriteFile, Goto, jobs
  <1>5. \A p \in Ops : p # o => pc'[p] = pc[p]
    BY <1>4
  <1>6. pc'[o] \in {"write", "delete"}
    BY <1>4
  <1>7. jpc[o] = "none" /\ status[file[o]] # "none" /\ kind[o] # "delete"
    BY <1>1 DEF PlaceInv
  <1>8. \A p \in Ops : pc'[p] = "insert" =>
          status[file[p]] = "none" /\ disk'[file[p]] # Nothing
    BY <1>3, <1>5, <1>6 DEF PlaceInv
  <1>9. \A f \in Files : status[f] \in Statuses => disk'[f] # Nothing
    BY <1>3 DEF PlaceInv, Exists
  <1>10. UNCHANGED <<status, file, kind, jpc>>
    BY <1>4
  <1>11. (\A p \in Ops : pc[p] # "done" => jpc[p] = "none")'
    BY <1>5, <1>6, <1>7, <1>10 DEF PlaceInv
  <1>12. (\A p \in Ops : jpc[p] # "none" => status[file[p]] # "none")'
    BY <1>10 DEF PlaceInv
  <1>13. (\A p \in Ops :
            pc[p] \notin {"idle", "insert", "done"} => status[file[p]] # "none")'
    BY <1>5, <1>7, <1>10 DEF PlaceInv
  <1>14. (\A p \in Ops : pc[p] \in {"insert", "save", "open", "write", "enqueue"}
            => kind[p] # "delete")'
    BY <1>5, <1>7, <1>10 DEF PlaceInv
  <1>15. (\A p, q \in Ops : pc[p] = "insert" /\ pc[q] = "insert" /\ file[p] = file[q]
            => p = q)'
    BY <1>5, <1>6, <1>10 DEF PlaceInv
  <1>16. (\A p \in Ops : pc[p] = "unlink" => status[file[p]] = "deleted")'
    BY <1>5, <1>6, <1>10 DEF PlaceInv
  <1>17. (\A p \in Ops : pc[p] = "insert"
            => status[file[p]] = "none" /\ disk[file[p]] # Nothing)'
    BY <1>8, <1>10
  <1>18. (\A f \in Files : Exists(f) => disk[f] # Nothing)'
    BY <1>9, <1>10 DEF Exists
  <1> QED BY <1>11, <1>12, <1>13, <1>14, <1>15, <1>16, <1>17, <1>18 DEF PlaceInv

(* DeleteChunks moves the operation only.                                     *)
LEMMA DeleteChunksPlace ==
    ASSUME TypeOK, PlaceInv, NEW o \in Ops, DeleteChunks(o)
    PROVE  PlaceInv'
  BY DEF TypeOK, OpTypes, JobTypes, StoreTypes, DeleteChunks, Goto, PlaceInv, Exists,
         store, jobs

(* CommitEdit gives a status to a file that has one.                          *)
LEMMA CommitEditPlace ==
    ASSUME TypeOK, PlaceInv, NEW o \in Ops, CommitEdit(o)
    PROVE  PlaceInv'
  <1> USE DEF TypeOK, OpTypes, JobTypes, StoreTypes
  <1>1. /\ file[o] \in Files /\ pc[o] = "commit" /\ kind[o] # "delete"
        /\ UNCHANGED <<disk, file, kind, jpc>>
    BY DEF CommitEdit, jobs
  <1>2. CASE /\ Exists(file[o]) /\ pc' = [pc EXCEPT ![o] = "enqueue"]
             /\ \/ status' = [status EXCEPT ![file[o]] = "uploaded"]
                \/ UNCHANGED status
    BY <1>1, <1>2 DEF PlaceInv, Exists, Statuses
  <1>3. CASE /\ pc' = [pc EXCEPT ![o] = "done"] \/ pc' = [pc EXCEPT ![o] = "enqueue"]
             /\ UNCHANGED status
    BY <1>1, <1>3 DEF PlaceInv, Exists
  <1> QED BY <1>2, <1>3 DEF CommitEdit, Finish, Goto, SetStatus

(* Enqueue: the operation is over when its job begins.                        *)
LEMMA EnqueuePlace ==
    ASSUME TypeOK, PlaceInv, NEW o \in Ops, Enqueue(o)
    PROVE  PlaceInv'
  <1> USE DEF TypeOK, OpTypes, JobTypes, StoreTypes
  <1>1. /\ pc[o] = "enqueue" /\ file[o] \in Files
        /\ pc' = [pc EXCEPT ![o] = "done"] /\ jpc' = [jpc EXCEPT ![o] = "queued"]
        /\ UNCHANGED <<status, disk, file, kind>>
    BY DEF Enqueue, Finish, Goto, JobGoto, store
  <1> QED BY <1>1 DEF PlaceInv, Exists

(* A failed operation is over.                                                *)
LEMMA FailOpPlace ==
    ASSUME TypeOK, PlaceInv, NEW o \in Ops, FailOp(o)
    PROVE  PlaceInv'
  <1> USE DEF TypeOK, OpTypes, JobTypes, StoreTypes
  <1>1. pc' = [pc EXCEPT ![o] = "done"] /\ UNCHANGED <<status, disk, file, kind, jpc>>
    BY DEF FailOp, Finish, Goto, store, jobs
  <1> QED BY <1>1 DEF PlaceInv, Exists

(* CommitDelete: the row goes before the file is unlinked.                    *)
LEMMA CommitDeletePlace ==
    ASSUME TypeOK, PlaceInv, NEW o \in Ops, CommitDelete(o)
    PROVE  PlaceInv'
  <1> USE DEF TypeOK, OpTypes, JobTypes, StoreTypes
  <1>1. /\ file[o] \in Files /\ pc[o] = "commit" /\ status[file[o]] # "none"
        /\ UNCHANGED <<disk, file, kind, jpc>>
    BY DEF CommitDelete, PlaceInv, jobs
  <1>2. CASE /\ pc' = [pc EXCEPT ![o] = "unlink"]
             /\ status' = [status EXCEPT ![file[o]] = "deleted"]
    BY <1>1, <1>2 DEF PlaceInv, Exists, Statuses
  <1>3. CASE pc' = [pc EXCEPT ![o] = "done"] /\ UNCHANGED status
    BY <1>1, <1>3 DEF PlaceInv, Exists
  <1> QED BY <1>2, <1>3 DEF CommitDelete, Finish, Goto, SetStatus

(* UnlinkFile: the file has no row any more.                                  *)
LEMMA UnlinkFilePlace ==
    ASSUME TypeOK, PlaceInv, NEW o \in Ops, UnlinkFile(o)
    PROVE  PlaceInv'
  <1> USE DEF TypeOK, OpTypes, JobTypes, StoreTypes
  <1>1. /\ file[o] \in Files /\ pc[o] = "unlink" /\ status[file[o]] = "deleted"
        /\ pc' = [pc EXCEPT ![o] = "done"] /\ disk' = [disk EXCEPT ![file[o]] = Nothing]
        /\ UNCHANGED <<status, file, kind, jpc>>
    BY DEF UnlinkFile, Finish, Goto, PlaceInv, jobs
  <1> QED BY <1>1 DEF PlaceInv, Exists, Statuses

(* Nobody but its upload knows a file without a row, only deletions unlink,   *)
(* and a file that has a row is on disk, however operations and jobs overlap. *)
THEOREM PlacesRight == Spec => []PlaceInv
  <1>1. Init => PlaceInv
    <2> SUFFICES ASSUME Init PROVE PlaceInv
      OBVIOUS
    <2>1. PICK old \in Files \cup {Nothing} :
             /\ status = [f \in Files |-> IF f = old THEN "ready" ELSE "none"]
             /\ disk = [f \in Files |-> IF f = old THEN {First} ELSE Nothing]
      BY DEF Init
    <2>2. \A f \in Files : Exists(f) => disk[f] # Nothing
      BY <2>1, FilePipelineAssumption, TextsFacts DEF Exists, Statuses, First
    <2>3. \A o \in Ops : pc[o] = "idle" /\ jpc[o] = "none"
      BY DEF Init
    <2> QED BY <2>2, <2>3 DEF PlaceInv
  <1>2. TypeOK /\ PlaceInv /\ [Next]_vars => PlaceInv'
    <2> SUFFICES ASSUME TypeOK, PlaceInv, [Next]_vars PROVE PlaceInv'
      OBVIOUS
    <2>1. CASE UNCHANGED vars
      BY <2>1 DEF PlaceInv, Exists, vars, store, ops, jobs
    <2>2. CASE Next
      <3> PICK o \in Ops :
             \/ \E u \in Uploads : UploadFile(o, u)
             \/ \E k \in Kinds, f \in Files : StartEdit(o, k, f)
             \/ \E f \in Files : StartDelete(o, f)
             \/ OpStep(o) \/ FailOp(o)
             \/ JobStep(o) \/ FailJob(o) \/ KillWorker(o)
        BY <2>2 DEF Next
      <3> QED
        BY UploadFilePlace, InsertRowPlace, StartPlace, SaveVersionPlace, FileStepPlace,
           DeleteChunksPlace, CommitEditPlace, EnqueuePlace, FailOpPlace,
           CommitDeletePlace, UnlinkFilePlace, JobPlace DEF OpStep
    <2> QED BY <2>1, <2>2
  <1> QED BY <1>1, <1>2, TypeCorrect, PTL DEF Spec

------------------------------------------------------------------------------
(* The index.                                                                 *)

(* A step of o is about one file: it touches neither the other operations and *)
(* jobs nor the other files.                                                  *)
Frame(o) ==
    /\ \A p \in Ops \ {o} : /\ file'[p] = file[p] /\ kind'[p] = kind[p]
                            /\ pc'[p] = pc[p] /\ jpc'[p] = jpc[p]
                            /\ text'[p] = text[p]
    /\ \A f \in Files : f # file'[o] => /\ disk'[f] = disk[f]
                                        /\ chunks'[f] = chunks[f]
                                        /\ status'[f] = status[f]
    /\ hurt \subseteq hurt'
    /\ file'[o] # file[o] => pc[o] = "idle"

(* IndexInv for the file that o is about.                                     *)
Fine(o) == file[o] \in Files \ hurt /\ Exists(file[o]) => Covered(file[o])

(* The other files stay covered: whoever carries their text is not o.         *)
LEMMA Elsewhere ==
    ASSUME TypeOK, PlaceInv, NEW o \in Ops, Frame(o), NEW f \in Files,
           f # file'[o], Covered(f)
    PROVE  Covered(f)'
  <1>1. disk'[f] = disk[f] /\ chunks'[f] = chunks[f]
    BY DEF Frame
  <1>2. ASSUME NEW p \in Ops, Carries(p, f) PROVE Carries(p, f)'
    <2>1. p # o
      BY <1>2 DEF Frame, Carries, PlaceInv
    <2> QED BY <1>1, <1>2, <2>1 DEF Frame, Carries
  <1> QED BY <1>1, <1>2 DEF Covered

(* So an invariant of the index is a matter of the file that o is about.      *)
LEMMA OneFile ==
    ASSUME TypeOK, PlaceInv, IndexInv, NEW o \in Ops, Frame(o), Fine(o)'
    PROVE  IndexInv'
  <1> SUFFICES ASSUME NEW f \in Files, f \notin hurt', Exists(f)' PROVE Covered(f)'
    BY DEF IndexInv
  <1>1. CASE f = file'[o]
    BY <1>1 DEF Fine
  <1>2. CASE f # file'[o]
    <2>1. f \notin hurt /\ Exists(f)
      BY <1>2 DEF Frame, Exists
    <2> QED BY <1>2, <2>1, Elsewhere DEF IndexInv
  <1> QED BY <1>1, <1>2

(* A step that leaves the text, adds chunks at most and does not take o off   *)
(* its way keeps the file covered.                                            *)
LEMMA Kept ==
    ASSUME TypeOK, IndexInv, NEW o \in Ops, Frame(o),
           \A f \in Files : file'[o] = f =>
               /\ Exists(f) /\ disk'[f] = disk[f] /\ chunks[f] \subseteq chunks'[f]
               /\ Carries(o, f) => Carries(o, f)'
    PROVE  Fine(o)'
  <1> SUFFICES ASSUME NEW f \in Files, f = file'[o], f \notin hurt' PROVE Covered(f)'
    BY DEF Fine
  <1>1. f \notin hurt /\ Covered(f)
    BY DEF Frame, IndexInv
  <1>2. disk'[f] = disk[f] /\ chunks[f] \subseteq chunks'[f]
    OBVIOUS
  <1>3. ASSUME NEW p \in Ops, Carries(p, f) PROVE Carries(p, f)'
    <2>1. CASE p = o
      BY <1>3, <2>1
    <2>2. CASE p # o
      BY <1>2, <1>3, <2>2 DEF Frame, Carries
    <2> QED BY <2>1, <2>2
  <1> QED BY <1>1, <1>2, <1>3 DEF Covered

(* A new file has no row yet; a duplicate upload touches nothing.             *)
LEMMA UploadFileIndex ==
    ASSUME TypeOK, PlaceInv, IndexInv, NEW o \in Ops, NEW u \in Uploads, UploadFile(o, u)
    PROVE  IndexInv'
  <1> USE DEF TypeOK, OpTypes, JobTypes, StoreTypes
  <1>1. /\ pc[o] = "idle" /\ kind' = [kind EXCEPT ![o] = "upload"]
        /\ UNCHANGED <<status, chunks, jpc, text, hurt>>
    BY DEF UploadFile, jobs
  <1>2. CASE pc' = [pc EXCEPT ![o] = "done"] /\ UNCHANGED <<disk, file>>
    <2>1. \A f \in Files \ hurt' : Exists(f)' => Exists(f) /\ f \notin hurt
      BY <1>1 DEF Exists
    <2>2. \A p \in Ops, f \in Files : Carries(p, f) => Carries(p, f)'
      BY <1>1, <1>2 DEF Carries, PlaceInv
    <2> QED BY <1>1, <1>2, <2>1, <2>2 DEF IndexInv, Covered
  <1>3. ASSUME NEW f \in Files, Unused(f), disk' = [disk EXCEPT ![f] = {u}],
               file' = [file EXCEPT ![o] = f], pc' = [pc EXCEPT ![o] = "insert"]
        PROVE  IndexInv'
    <2>1. Frame(o)
      BY <1>1, <1>3 DEF Frame
    <2>2. Fine(o)'
      BY <1>1, <1>3 DEF Fine, Exists, Statuses, Unused
    <2> QED BY <2>1, <2>2, OneFile
  <1> QED BY <1>2, <1>3 DEF UploadFile, Goto

(* Inserting the row, opening, writing: the operation carries the text.       *)
LEMMA CarryingIndex ==
    ASSUME TypeOK, PlaceInv, IndexInv, NEW o \in Ops,
           InsertRow(o) \/ OpenFile(o) \/ WriteFile(o)
    PROVE  IndexInv'
  <1> USE DEF TypeOK, OpTypes, JobTypes, StoreTypes
  <1>1. /\ file[o] \in Files /\ kind[o] # "delete"
        /\ UNCHANGED <<chunks, file, kind, jpc, text, hurt>>
    BY DEF InsertRow, OpenFile, WriteFile, PlaceInv, jobs, history
  <1>2. \E l \in {"write", "delete", "enqueue"} : pc' = [pc EXCEPT ![o] = l]
    BY DEF InsertRow, OpenFile, WriteFile, Goto
  <1>3. /\ UNCHANGED status \/ \E s : status' = [status EXCEPT ![file[o]] = s]
        /\ UNCHANGED disk \/ \E t : disk' = [disk EXCEPT ![file[o]] = t]
    BY DEF InsertRow, OpenFile, WriteFile, SetStatus
  <1>4. Frame(o)
    BY <1>1, <1>2, <1>3 DEF Frame
  <1>5. Fine(o)'
    BY <1>1, <1>2 DEF Fine, Covered, Carries
  <1> QED BY <1>4, <1>5, OneFile

(* Beginning an operation.                                                    *)
LEMMA StartIndex ==
    ASSUME TypeOK, PlaceInv, IndexInv, NEW o \in Ops, NEW f \in Files,
           (\E k \in Kinds : StartEdit(o, k, f)) \/ StartDelete(o, f)
    PROVE  IndexInv'
  <1> USE DEF TypeOK, OpTypes, JobTypes, StoreTypes
  <1>1. /\ pc[o] = "idle" /\ jpc[o] = "none" /\ Exists(f)
        /\ file' = [file EXCEPT ![o] = f]
        /\ UNCHANGED <<status, disk, chunks, jpc, text, hurt>>
    BY DEF StartEdit, StartDelete, PlaceInv, store, jobs
  <1>2. /\ \E l : pc' = [pc EXCEPT ![o] = l]
        /\ \E k : kind' = [kind EXCEPT ![o] = k]
    BY DEF StartEdit, StartDelete, Goto
  <1>3. Frame(o)
    BY <1>1, <1>2 DEF Frame
  <1>4. ~Carries(o, f)
    BY <1>1 DEF Carries
  <1>5. Fine(o)'
    BY <1>1, <1>3, <1>4, Kept
  <1> QED BY <1>3, <1>5, OneFile

(* Taking the snapshot, and deciding which chunks to delete.                  *)
LEMMA PreparingIndex ==
    ASSUME TypeOK, PlaceInv, IndexInv, NEW o \in Ops, SaveVersion(o) \/ DeleteChunks(o)
    PROVE  IndexInv'
  <1> USE DEF TypeOK, OpTypes, JobTypes, StoreTypes
  <1>1. /\ file[o] \in Files /\ jpc[o] = "none"
        /\ UNCHANGED <<status, disk, chunks, file, kind, jpc, text, hurt>>
    BY DEF SaveVersion, DeleteChunks, PlaceInv, store, jobs, history
  <1>2. \/ pc[o] = "save" /\ pc' = [pc EXCEPT ![o] = "open"]
        \/ pc[o] = "delete" /\ pc' = [pc EXCEPT ![o] = "commit"]
    BY DEF SaveVersion, DeleteChunks, Goto
  <1>3. Frame(o)
    BY <1>1, <1>2 DEF Frame
  <1>4. Carries(o, file[o]) => Carries(o, file[o])'
    BY <1>1, <1>2 DEF Carries
  <1>5. Exists(file[o])' => Exists(file[o])
    BY <1>1 DEF Exists
  <1>6. Fine(o)'
    <2>1. CASE Exists(file[o])
      BY <1>1, <1>3, <1>4, <2>1, Kept
    <2>2. CASE ~Exists(file[o])
      BY <1>1, <1>5, <2>2 DEF Fine
    <2> QED BY <2>1, <2>2
  <1> QED BY <1>3, <1>6, OneFile

(* The commit of an edit: its job is still to come.                           *)
LEMMA CommitEditIndex ==
    ASSUME TypeOK, PlaceInv, IndexInv, NEW o \in Ops, CommitEdit(o)
    PROVE  IndexInv'
  <1> USE DEF TypeOK, OpTypes, JobTypes, StoreTypes
  <1>1. /\ file[o] \in Files /\ kind[o] # "delete"
        /\ UNCHANGED <<disk, file, kind, jpc, text, hurt>>
    BY DEF CommitEdit, jobs, history
  <1>2. CASE /\ pc' = [pc EXCEPT ![o] = "enqueue"]
             /\ chunks' = [chunks EXCEPT ![file[o]] = @ \ doomed[o]]
             /\ UNCHANGED status \/ status' = [status EXCEPT ![file[o]] = "uploaded"]
    <2>1. Frame(o)
      BY <1>1, <1>2 DEF Frame
    <2>2. Fine(o)'
      BY <1>1, <1>2 DEF Fine, Covered, Carries
    <2> QED BY <2>1, <2>2, OneFile
  <1>3. CASE /\ ~Exists(file[o]) /\ UNCHANGED <<chunks, status>>
             /\ pc' = [pc EXCEPT ![o] = "done"] \/ pc' = [pc EXCEPT ![o] = "enqueue"]
    <2>1. Frame(o)
      BY <1>1, <1>3 DEF Frame
    <2>2. Fine(o)'
      BY <1>1, <1>3 DEF Fine, Exists
    <2> QED BY <2>1, <2>2, OneFile
  <1> QED BY <1>2, <1>3 DEF CommitEdit, Finish, Goto, SetStatus

(* The job is queued.                                                         *)
LEMMA EnqueueIndex ==
    ASSUME TypeOK, PlaceInv, IndexInv, NEW o \in Ops, Enqueue(o)
    PROVE  IndexInv'
  <1> USE DEF TypeOK, OpTypes, JobTypes, StoreTypes
  <1>1. /\ file[o] \in Files
        /\ pc' = [pc EXCEPT ![o] = "done"] /\ jpc' = [jpc EXCEPT ![o] = "queued"]
        /\ UNCHANGED <<status, disk, chunks, file, kind, text, hurt>>
    BY DEF Enqueue, Finish, Goto, JobGoto, store, history
  <1>2. Frame(o)
    BY <1>1 DEF Frame
  <1>3. Fine(o)'
    BY <1>1 DEF Fine, Covered, Carries
  <1> QED BY <1>2, <1>3, OneFile

(* A failed operation: one that had the text to carry leaves the file hurt.   *)
LEMMA FailOpIndex ==
    ASSUME TypeOK, PlaceInv, IndexInv, NEW o \in Ops, FailOp(o)
    PROVE  IndexInv'
  <1> USE DEF TypeOK, OpTypes, JobTypes, StoreTypes
  <1>1. /\ file[o] \in Files /\ pc[o] # "done" /\ jpc[o] = "none"
        /\ pc' = [pc EXCEPT ![o] = "done"]
        /\ hurt' = IF LeftBehind(o) THEN hurt \cup {file[o]} ELSE hurt
        /\ UNCHANGED <<status, disk, chunks, file, kind, jpc, text>>
    BY DEF FailOp, Finish, Goto, PlaceInv, store, jobs
  <1>2. Frame(o)
    BY <1>1 DEF Frame
  <1>3. Fine(o)'
    <2>1. CASE LeftBehind(o)
      BY <1>1, <2>1 DEF Fine
    <2>2. CASE ~Exists(file[o])
      BY <1>1, <2>2 DEF Fine, Exists
    <2>3. CASE ~LeftBehind(o) /\ Exists(file[o])
      <3>1. ~Carries(o, file[o])
        BY <1>1, <2>3 DEF Carries, LeftBehind
      <3> QED BY <1>1, <1>2, <2>3, <3>1, Kept
    <2> QED BY <2>1, <2>2, <2>3
  <1> QED BY <1>2, <1>3, OneFile

(* The commit of a deletion: the row is gone, or nothing has happened.        *)
LEMMA CommitDeleteIndex ==
    ASSUME TypeOK, PlaceInv, IndexInv, NEW o \in Ops, CommitDelete(o)
    PROVE  IndexInv'
  <1> USE DEF TypeOK, OpTypes, JobTypes, StoreTypes
  <1>1. /\ file[o] \in Files /\ kind[o] = "delete" /\ jpc[o] = "none"
        /\ UNCHANGED <<disk, file, kind, jpc, text, hurt>>
    BY DEF CommitDelete, PlaceInv, jobs, history
  <1>2. CASE /\ pc' = [pc EXCEPT ![o] = "unlink"]
             /\ status' = [status EXCEPT ![file[o]] = "deleted"]
             /\ chunks' = [chunks EXCEPT ![file[o]] = {}]
    <2>1. Frame(o)
      BY <1>1, <1>2 DEF Frame
    <2>2. Fine(o)'
      BY <1>1, <1>2 DEF Fine, Exists, Statuses
    <2> QED BY <2>1, <2>2, OneFile
  <1>3. CASE pc' = [pc EXCEPT ![o] = "done"] /\ UNCHANGED <<status, chunks>>
    <2>1. Frame(o)
      BY <1>1, <1>3 DEF Frame
    <2>2. ~Carries(o, file[o])
      BY <1>1 DEF Carries
    <2>3. Fine(o)'
      <3>1. CASE Exists(file[o])
        BY <1>1, <1>3, <2>1, <2>2, <3>1, Kept
      <3>2. CASE ~Exists(file[o])
        BY <1>1, <1>3, <3>2 DEF Fine, Exists
      <3> QED BY <3>1, <3>2
    <2> QED BY <2>1, <2>3, OneFile
  <1> QED BY <1>2, <1>3 DEF CommitDelete, Finish, Goto, SetStatus

(* The stored file goes after the row.                                        *)
LEMMA UnlinkFileIndex ==
    ASSUME TypeOK, PlaceInv, IndexInv, NEW o \in Ops, UnlinkFile(o)
    PROVE  IndexInv'
  <1> USE DEF TypeOK, OpTypes, JobTypes, StoreTypes
  <1>1. /\ file[o] \in Files /\ status[file[o]] = "deleted"
        /\ pc' = [pc EXCEPT ![o] = "done"] /\ disk' = [disk EXCEPT ![file[o]] = Nothing]
        /\ UNCHANGED <<status, chunks, file, kind, jpc, text, hurt>>
    BY DEF UnlinkFile, Finish, Goto, PlaceInv, jobs, history
  <1>2. Frame(o)
    BY <1>1 DEF Frame
  <1>3. Fine(o)'
    BY <1>1 DEF Fine, Exists, Statuses
  <1> QED BY <1>2, <1>3, OneFile

(* What every step of a job has in common.                                    *)
LEMMA JobFrame ==
    ASSUME TypeOK, NEW o \in Ops, JobStep(o) \/ FailJob(o) \/ KillWorker(o)
    PROVE  /\ file[o] \in Files /\ UNCHANGED <<disk, file, kind, pc>> /\ Frame(o)
           /\ \E l : jpc' = [jpc EXCEPT ![o] = l]
           /\ Exists(file[o])' => Exists(file[o])
  <1> USE DEF TypeOK, OpTypes, JobTypes, StoreTypes, JobStep
  <1>1. /\ file[o] \in Files /\ UNCHANGED <<disk, file, kind, pc>>
    BY DEF StartJob, ReadFile, SaveChunks, AckJob, RowGone, FailJob, KillWorker, store, ops
  <1>2. \E l : jpc' = [jpc EXCEPT ![o] = l]
    BY DEF StartJob, ReadFile, SaveChunks, AckJob, RowGone, FailJob, KillWorker,
           JobGoto, EndJob, TryAgain
  <1>3. UNCHANGED text \/ \E t : text' = [text EXCEPT ![o] = t]
    BY DEF StartJob, ReadFile, SaveChunks, AckJob, RowGone, FailJob, KillWorker,
           EndJob, TryAgain
  <1>4. \/ UNCHANGED status
        \/ Exists(file[o]) /\ \E s : status' = [status EXCEPT ![file[o]] = s]
    BY DEF StartJob, ReadFile, SaveChunks, AckJob, RowGone, FailJob, KillWorker, SetStatus,
           store
  <1>5. UNCHANGED chunks \/ \E c : chunks' = [chunks EXCEPT ![file[o]] = c]
    BY DEF StartJob, ReadFile, SaveChunks, AckJob, RowGone, FailJob, KillWorker, store
  <1>6. hurt \subseteq hurt'
    BY DEF StartJob, ReadFile, SaveChunks, AckJob, RowGone, FailJob, KillWorker, history
  <1>7. Frame(o)
    BY <1>1, <1>2, <1>3, <1>4, <1>5, <1>6 DEF Frame
  <1> QED BY <1>1, <1>2, <1>4, <1>7 DEF Exists

(* A job that has begun is still to read the text.                            *)
LEMMA StartJobIndex ==
    ASSUME TypeOK, PlaceInv, IndexInv, NEW o \in Ops, StartJob(o)
    PROVE  IndexInv'
  <1> USE DEF TypeOK, OpTypes, JobTypes, StoreTypes
  <1>1. file[o] \in Files /\ UNCHANGED <<disk, file, kind, pc>> /\ Frame(o)
    BY JobFrame DEF JobStep
  <1>2. CASE ~Exists(file[o]) /\ UNCHANGED status
    BY <1>1, <1>2, OneFile DEF Fine, Exists
  <1>3. CASE jpc' = [jpc EXCEPT ![o] = "read"]
    <2>1. Fine(o)'
      BY <1>1, <1>3 DEF Fine, Covered, Carries
    <2> QED BY <1>1, <2>1, OneFile
  <1> QED BY <1>2, <1>3 DEF StartJob, JobGoto

(* The job has the text of the disk, the disk is empty, or the file is hurt.  *)
LEMMA ReadFileIndex ==
    ASSUME TypeOK, PlaceInv, IndexInv, NEW o \in Ops, ReadFile(o)
    PROVE  IndexInv'
  <1> USE DEF TypeOK, OpTypes, JobTypes, StoreTypes
  <1>1. /\ file[o] \in Files /\ UNCHANGED <<disk, file, kind, pc>> /\ Frame(o)
        /\ Exists(file[o])' => Exists(file[o])
    BY JobFrame DEF JobStep
  <1>2. Exists(file[o]) => disk[file[o]] # Nothing
    BY <1>1 DEF PlaceInv
  <1>3. CASE /\ text' = [text EXCEPT ![o] = TextOf(disk[file[o]])]
             /\ jpc' = [jpc EXCEPT ![o] = "save"]
    <2>1. Fine(o)'
      BY <1>1, <1>2, <1>3 DEF Fine, Covered, Carries, TextOf
    <2> QED BY <1>1, <2>1, OneFile
  <1>4. CASE TextOf(disk[file[o]]) = {}
    <2>1. Fine(o)'
      BY <1>1, <1>2, <1>4 DEF Fine, Covered, TextOf
    <2> QED BY <1>1, <2>1, OneFile
  <1>5. CASE hurt' = hurt \cup {file[o]}
    <2>1. Fine(o)'
      BY <1>1, <1>5 DEF Fine
    <2> QED BY <1>1, <2>1, OneFile
  <1> QED BY <1>3, <1>4, <1>5 DEF ReadFile, JobGoto

(* The chunks of a job whose text is still that of the disk cover it; those   *)
(* of any other job are in addition to what covers it.                        *)
LEMMA SaveChunksIndex ==
    ASSUME TypeOK, PlaceInv, IndexInv, NEW o \in Ops, SaveChunks(o)
    PROVE  IndexInv'
  <1> USE DEF TypeOK, OpTypes, JobTypes, StoreTypes
  <1>1. file[o] \in Files /\ UNCHANGED <<disk, file, kind, pc>> /\ Frame(o)
    BY JobFrame DEF JobStep
  <1>2. /\ jpc[o] = "save" /\ pc[o] = "done" /\ Exists(file[o])
    BY DEF SaveChunks, PlaceInv
  <1>3. CASE chunks' = [chunks EXCEPT ![file[o]] =
                           @ \cup {Batch(o, tries[o], text[o])}]
    <2>1. CASE text[o] = disk[file[o]]
      <3>1. \E b \in chunks'[file[o]] : b.text = disk'[file[o]]
        <4>1. Batch(o, tries[o], text[o]) \in chunks'[file[o]]
          BY <1>1, <1>3
        <4>2. Batch(o, tries[o], text[o]).text = disk'[file[o]]
          BY <1>1, <2>1 DEF Batch
        <4> QED BY <4>1, <4>2
      <3>2. Fine(o)'
        BY <1>1, <3>1 DEF Fine, Covered
      <3> QED BY <1>1, <3>2, OneFile
    <2>2. CASE text[o] # disk[file[o]]
      <3>1. ~Carries(o, file[o])
        BY <1>2, <2>2 DEF Carries
      <3>2. chunks[file[o]] \subseteq chunks'[file[o]]
        BY <1>1, <1>3
      <3>3. Fine(o)'
        BY <1>1, <1>2, <3>1, <3>2, Kept
      <3> QED BY <1>1, <3>3, OneFile
    <2> QED BY <2>1, <2>2
  <1>4. CASE hurt' = hurt \cup {file[o]}
    <2>1. Fine(o)'
      BY <1>1, <1>4 DEF Fine
    <2> QED BY <1>1, <2>1, OneFile
  <1> QED BY <1>3, <1>4 DEF SaveChunks

(* A job that ends has done its work, is tried again, leaves the file hurt or *)
(* has no file.                                                               *)
LEMMA JobEndsIndex ==
    ASSUME TypeOK, PlaceInv, IndexInv, NEW o \in Ops,
           AckJob(o) \/ RowGone(o) \/ FailJob(o) \/ KillWorker(o)
    PROVE  IndexInv'
  <1> USE DEF TypeOK, OpTypes, JobTypes, StoreTypes
  <1>1. /\ file[o] \in Files /\ UNCHANGED <<disk, file, kind, pc>> /\ Frame(o)
        /\ Exists(file[o])' => Exists(file[o])
    BY JobFrame DEF JobStep
  <1>2. CASE jpc[o] = "saved" /\ UNCHANGED <<status, chunks>> /\ AckJob(o)
    <2>1. ~Carries(o, file[o])
      BY <1>2 DEF Carries, PlaceInv
    <2>2. Fine(o)'
      <3>1. CASE Exists(file[o])
        BY <1>1, <1>2, <2>1, <3>1, Kept
      <3>2. CASE ~Exists(file[o])
        BY <1>1, <3>2 DEF Fine
      <3> QED BY <3>1, <3>2
    <2> QED BY <1>1, <2>2, OneFile
  <1>3. CASE jpc' = [jpc EXCEPT ![o] = "queued"]
    <2>1. Fine(o)'
      BY <1>1, <1>3 DEF Fine, Covered, Carries
    <2> QED BY <1>1, <2>1, OneFile
  <1>4. CASE ~Exists(file[o]) \/ hurt' = hurt \cup {file[o]}
    <2>1. Fine(o)'
      BY <1>1, <1>4 DEF Fine
    <2> QED BY <1>1, <2>1, OneFile
  <1> QED
    BY <1>2, <1>3, <1>4 DEF AckJob, RowGone, FailJob, KillWorker, TryAgain, JobGoto, store

(* The text on disk is always in the index or on its way there, whatever      *)
(* operations and jobs do to the file meanwhile.                              *)
THEOREM IndexCovered == Spec => []IndexInv
  <1>1. Init => IndexInv
    <2> SUFFICES ASSUME Init PROVE IndexInv
      OBVIOUS
    <2>1. PICK old \in Files \cup {Nothing} :
             /\ status = [f \in Files |-> IF f = old THEN "ready" ELSE "none"]
             /\ disk = [f \in Files |-> IF f = old THEN {First} ELSE Nothing]
             /\ chunks = [f \in Files |-> IF f = old THEN {Batch(First, 1, {First})}
                                          ELSE {}]
      BY DEF Init
    <2>2. ASSUME NEW f \in Files, Exists(f)
          PROVE  \E b \in chunks[f] : b.text = disk[f]
      BY <2>1, <2>2 DEF Exists, Statuses, Batch
    <2> QED BY <2>2 DEF IndexInv, Covered
  <1>2. TypeOK /\ PlaceInv /\ IndexInv /\ [Next]_vars => IndexInv'
    <2> SUFFICES ASSUME TypeOK, PlaceInv, IndexInv, [Next]_vars PROVE IndexInv'
      OBVIOUS
    <2>1. CASE UNCHANGED vars
      BY <2>1 DEF IndexInv, Covered, Carries, Exists, vars, store, ops, jobs, history
    <2>2. CASE Next
      <3> PICK o \in Ops :
             \/ \E u \in Uploads : UploadFile(o, u)
             \/ \E k \in Kinds, f \in Files : StartEdit(o, k, f)
             \/ \E f \in Files : StartDelete(o, f)
             \/ OpStep(o) \/ FailOp(o)
             \/ JobStep(o) \/ FailJob(o) \/ KillWorker(o)
        BY <2>2 DEF Next
      <3> QED
        BY UploadFileIndex, CarryingIndex, StartIndex, PreparingIndex, CommitEditIndex,
           EnqueueIndex, FailOpIndex, CommitDeleteIndex, UnlinkFileIndex, StartJobIndex,
           ReadFileIndex, SaveChunksIndex, JobEndsIndex DEF OpStep, JobStep
    <2> QED BY <2>1, <2>2
  <1> QED BY <1>1, <1>2, TypeCorrect, PlacesRight, PTL DEF Spec

(* Once all operations and jobs of a file are through and none has failed, the *)
(* text on disk is in the index: edits and jobs that overlap never leave a     *)
(* text that retrieval cannot find (file_service, _process).                   *)
THEOREM CurrentIndexed == Spec => []CurrentIsIndexed
  <1>1. TypeOK /\ IndexInv => CurrentIsIndexed
    <2> SUFFICES ASSUME TypeOK, IndexInv, NEW f \in Files \ hurt, Quiet(f), Exists(f),
                        disk[f] # {}
                 PROVE  \E b \in chunks[f] : b.text = disk[f]
      BY DEF CurrentIsIndexed
    <2>1. ~\E o \in Ops : Carries(o, f)
      BY DEF Quiet, OpBusy, JobBusy, Carries
    <2> QED BY <2>1 DEF IndexInv, Covered
  <1> QED BY <1>1, TypeCorrect, IndexCovered, PTL
------------------------------------------------------------------------------
(* Deletions.                                                                 *)

(* What a step of o has to respect for the file it is about, for the rest to  *)
(* follow: it joins no other operation unnoticed, a file without its row has  *)
(* neither chunks nor versions, and only unlinking ends a deletion.           *)
Respects(o) ==
    /\ \A f \in Files : f # file'[o] => versions'[f] = versions[f]
    /\ crossed \subseteq crossed'
    /\ Busy(o)' => \/ Busy(o) /\ file'[o] = file[o]
                   \/ file'[o] \in crossed'
                   \/ \A p \in Ops \ {o} : Busy(p) => file[p] # file'[o]
    /\ \A f \in Files : f = file'[o] /\ status'[f] = "deleted" =>
          /\ chunks'[f] = {} /\ versions'[f] = {}
          /\ f \notin crossed' =>
                /\ Busy(o)' => pc'[o] = "unlink"
                /\ status[f] = "deleted" \/ (Busy(o) /\ file[o] = f)
          /\ f \notin hurt' \cup crossed' =>
                \/ disk'[f] = Nothing \/ pc'[o] = "unlink"
                \/ status[f] = "deleted" /\ disk'[f] = disk[f] /\ pc[o] # "unlink"

(* Then deletions leave nothing behind.                                       *)
LEMMA GoneStep ==
    ASSUME TypeOK, TypeOK', AloneInv, GoneInv, NEW o \in Ops, Frame(o), Respects(o)
    PROVE  AloneInv' /\ GoneInv'
  <1> USE DEF TypeOK, OpTypes, StoreTypes
  <1>1. \A p \in Ops \ {o} : /\ file'[p] = file[p] /\ pc'[p] = pc[p]
                             /\ Busy(p)' <=> Busy(p)
    BY DEF Frame, Busy
  <1>2. AloneInv'
    <2> SUFFICES ASSUME NEW p \in Ops, NEW q \in Ops, Busy(p)', Busy(q)',
                        file'[p] = file'[q], file'[p] \notin crossed', p # q
                 PROVE  FALSE
      BY DEF AloneInv
    <2>1. file'[p] \notin crossed
      BY DEF Respects
    <2>2. CASE p # o /\ q # o
      BY <1>1, <2>1, <2>2 DEF AloneInv
    <2>3. ASSUME NEW r \in Ops \ {o}, Busy(r)', Busy(o)', file'[r] = file'[o],
                 file'[o] \notin crossed'
          PROVE  FALSE
      <3>1. Busy(r) /\ file[r] = file'[o]
        BY <1>1, <2>3
      <3>2. Busy(o) /\ file'[o] = file[o]
        BY <2>3, <3>1 DEF Respects
      <3> QED BY <2>3, <3>1, <3>2 DEF AloneInv, Respects
    <2> QED BY <2>2, <2>3
  <1>3. \A f \in Files : status'[f] = "deleted" => chunks'[f] = {} /\ versions'[f] = {}
    BY DEF Frame, Respects, GoneInv
  <1>4. ASSUME NEW p \in Ops, Busy(p)', status'[file'[p]] = "deleted",
               file'[p] \notin crossed'
        PROVE  pc'[p] = "unlink"
    <2>1. CASE p = o
      <3>1. file'[o] \in Files
        BY <1>4, <2>1 DEF Busy
      <3> QED BY <1>4, <2>1, <3>1 DEF Respects
    <2>2. CASE p # o /\ file[p] # file'[o]
      <3>1. Busy(p) /\ file'[p] = file[p] /\ file[p] \in Files
        BY <1>1, <1>4, <2>2 DEF Busy
      <3>2. status[file[p]] = "deleted" /\ file[p] \notin crossed
        BY <1>4, <2>2, <3>1 DEF Frame, Respects
      <3> QED BY <1>1, <2>2, <3>1, <3>2 DEF GoneInv
    <2>3. CASE p # o /\ file[p] = file'[o]
      <3>1. Busy(p) /\ file'[p] = file[p] /\ file[p] \in Files
        BY <1>1, <1>4, <2>3 DEF Busy
      <3>2. status[file[p]] = "deleted" \/ (Busy(o) /\ file[o] = file[p])
        BY <1>4, <2>3, <3>1 DEF Respects
      <3>3. file[p] \notin crossed
        BY <1>4, <3>1 DEF Respects
      <3>4. ~(Busy(o) /\ file[o] = file[p])
        BY <2>3, <3>1, <3>3 DEF AloneInv
      <3> QED BY <1>1, <2>3, <3>1, <3>2, <3>3, <3>4 DEF GoneInv
    <2> QED BY <2>1, <2>2, <2>3
  <1>5. ASSUME NEW f \in Files, f \notin hurt' \cup crossed', status'[f] = "deleted",
               disk'[f] # Nothing
        PROVE  \E p \in Ops : file'[p] = f /\ pc'[p] = "unlink"
    <2>1. CASE f # file'[o]
      <3>1. /\ f \notin hurt \cup crossed /\ status[f] = "deleted"
            /\ disk[f] # Nothing
        BY <1>5, <2>1 DEF Frame, Respects
      <3>2. PICK p \in Ops : file[p] = f /\ pc[p] = "unlink"
        BY <3>1 DEF GoneInv
      <3>3. p # o
        BY <2>1, <3>2 DEF Frame
      <3> QED BY <1>1, <3>2, <3>3
    <2>2. CASE f = file'[o] /\ pc'[o] = "unlink"
      BY <2>2
    <2>3. CASE f = file'[o] /\ pc'[o] # "unlink"
      <3>1. status[f] = "deleted" /\ disk[f] # Nothing /\ pc[o] # "unlink"
        BY <1>5, <2>3 DEF Respects
      <3>2. f \notin hurt \cup crossed
        BY <1>5 DEF Frame, Respects
      <3>3. PICK p \in Ops : file[p] = f /\ pc[p] = "unlink"
        BY <3>1, <3>2 DEF GoneInv
      <3> QED BY <1>1, <3>1, <3>3
    <2> QED BY <2>1, <2>2, <2>3
  <1> QED BY <1>2, <1>3, <1>4, <1>5 DEF GoneInv

(* An upload has a file that nobody knows.                                    *)
LEMMA UploadFileGone ==
    ASSUME TypeOK, PlaceInv, AloneInv, GoneInv, NEW o \in Ops, NEW u \in Uploads,
           UploadFile(o, u)
    PROVE  Frame(o) /\ Respects(o)
  <1> USE DEF TypeOK, OpTypes, JobTypes, StoreTypes
  <1>1. /\ pc[o] = "idle" /\ kind' = [kind EXCEPT ![o] = "upload"]
        /\ UNCHANGED <<status, chunks, versions, jpc, text, crossed, hurt>>
    BY DEF UploadFile, jobs
  <1>2. CASE pc' = [pc EXCEPT ![o] = "done"] /\ UNCHANGED <<disk, file>>
    <2>1. Frame(o)
      BY <1>1, <1>2 DEF Frame
    <2>2. Respects(o)
      BY <1>1, <1>2 DEF Respects, Busy, GoneInv
    <2> QED BY <2>1, <2>2
  <1>3. ASSUME NEW f \in Files, Unused(f), disk' = [disk EXCEPT ![f] = {u}],
               file' = [file EXCEPT ![o] = f], pc' = [pc EXCEPT ![o] = "insert"]
        PROVE  Frame(o) /\ Respects(o)
    <2>1. Frame(o)
      BY <1>1, <1>3 DEF Frame
    <2>2. \A p \in Ops : Busy(p) => file[p] # f
      BY <1>3 DEF Busy, PlaceInv, Unused
    <2>3. Respects(o)
      BY <1>1, <1>3, <2>2 DEF Respects, Unused
    <2> QED BY <2>1, <2>3
  <1> QED BY <1>2, <1>3 DEF UploadFile, Goto

(* Operations begin on files that have a row, and overlapping is noticed.     *)
LEMMA StartGone ==
    ASSUME TypeOK, PlaceInv, AloneInv, GoneInv, NEW o \in Ops, NEW f \in Files,
           (\E k \in Kinds : StartEdit(o, k, f)) \/ StartDelete(o, f)
    PROVE  Frame(o) /\ Respects(o)
  <1> USE DEF TypeOK, OpTypes, JobTypes, StoreTypes
  <1>1. /\ pc[o] = "idle" /\ Exists(f) /\ file' = [file EXCEPT ![o] = f]
        /\ UNCHANGED <<status, disk, chunks, versions, jpc, text, hurt>>
        /\ crossed' = IF OpBusy(f) THEN crossed \cup {f} ELSE crossed
    BY DEF StartEdit, StartDelete, Enter, store, jobs
  <1>2. /\ \E l : pc' = [pc EXCEPT ![o] = l]
        /\ \E k : kind' = [kind EXCEPT ![o] = k]
    BY DEF StartEdit, StartDelete, Goto
  <1>3. Frame(o)
    BY <1>1, <1>2 DEF Frame
  <1>4. f \in crossed' \/ \A p \in Ops : Busy(p) => file[p] # f
    BY <1>1 DEF OpBusy, Busy
  <1>5. Respects(o)
    BY <1>1, <1>4 DEF Respects, Exists, Statuses
  <1> QED BY <1>3, <1>5

(* The steps of edits: none of them is taken when a deletion has come first,  *)
(* unless the two have overlapped.                                            *)
LEMMA EditGone ==
    ASSUME TypeOK, PlaceInv, AloneInv, GoneInv, NEW o \in Ops,
           \/ InsertRow(o) \/ SaveVersion(o) \/ OpenFile(o) \/ WriteFile(o)
           \/ DeleteChunks(o) \/ Enqueue(o)
    PROVE  Frame(o) /\ Respects(o)
  <1> USE DEF TypeOK, OpTypes, JobTypes, StoreTypes
  <1>1. /\ file[o] \in Files /\ Busy(o) /\ pc[o] # "unlink"
        /\ UNCHANGED <<chunks, versions, file, kind, text, crossed, hurt>>
    BY DEF InsertRow, SaveVersion, OpenFile, WriteFile, DeleteChunks, Enqueue, Busy,
           store, jobs, history
  <1>2. /\ \E l : pc' = [pc EXCEPT ![o] = l]
        /\ UNCHANGED jpc \/ \E l : jpc' = [jpc EXCEPT ![o] = l]
    BY DEF InsertRow, SaveVersion, OpenFile, WriteFile, DeleteChunks, Enqueue, Finish,
           Goto, JobGoto, jobs
  <1>3. /\ UNCHANGED status \/ status' = [status EXCEPT ![file[o]] = "uploaded"]
        /\ UNCHANGED disk \/ \E t : disk' = [disk EXCEPT ![file[o]] = t]
    BY DEF InsertRow, SaveVersion, OpenFile, WriteFile, DeleteChunks, Enqueue, SetStatus,
           store
  <1>4. Frame(o)
    BY <1>1, <1>2, <1>3 DEF Frame
  <1>5. status'[file[o]] = "deleted" =>
           status[file[o]] = "deleted" /\ file[o] \in crossed
    BY <1>1, <1>3 DEF GoneInv
  <1>6. Respects(o)
    BY <1>1, <1>5 DEF Respects, GoneInv
  <1> QED BY <1>4, <1>6

(* The commit of an edit adds a version only to a row.                        *)
LEMMA CommitEditGone ==
    ASSUME TypeOK, PlaceInv, AloneInv, GoneInv, NEW o \in Ops, CommitEdit(o)
    PROVE  Frame(o) /\ Respects(o)
  <1> USE DEF TypeOK, OpTypes, JobTypes, StoreTypes
  <1>1. /\ file[o] \in Files /\ Busy(o) /\ pc[o] # "unlink"
        /\ UNCHANGED <<disk, file, kind, jpc, text, crossed, hurt>>
        /\ \E l : pc' = [pc EXCEPT ![o] = l]
    BY DEF CommitEdit, Finish, Goto, Busy, jobs, history
  <1>2. \/ UNCHANGED <<status, chunks, versions>>
        \/ /\ Exists(file[o])
           /\ UNCHANGED status \/ status' = [status EXCEPT ![file[o]] = "uploaded"]
           /\ \E c : chunks' = [chunks EXCEPT ![file[o]] = c]
           /\ \E v : versions' = [versions EXCEPT ![file[o]] = v]
    BY DEF CommitEdit, SetStatus
  <1>3. Frame(o)
    BY <1>1, <1>2 DEF Frame
  <1>4. status'[file[o]] = "deleted" =>
           /\ status[file[o]] = "deleted" /\ file[o] \in crossed
           /\ UNCHANGED <<status, chunks, versions>>
    BY <1>1, <1>2 DEF GoneInv, Exists, Statuses
  <1>5. \A f \in Files : f # file[o] => versions'[f] = versions[f]
    BY <1>1, <1>2
  <1>6. Respects(o)
    BY <1>1, <1>4, <1>5 DEF Respects, GoneInv
  <1> QED BY <1>3, <1>6

(* A failure while unlinking leaves the file hurt.                            *)
LEMMA FailOpGone ==
    ASSUME TypeOK, PlaceInv, AloneInv, GoneInv, NEW o \in Ops, FailOp(o)
    PROVE  Frame(o) /\ Respects(o)
  <1> USE DEF TypeOK, OpTypes, JobTypes, StoreTypes
  <1>1. /\ file[o] \in Files /\ Busy(o) /\ pc' = [pc EXCEPT ![o] = "done"]
        /\ hurt' = IF LeftBehind(o) THEN hurt \cup {file[o]} ELSE hurt
        /\ UNCHANGED <<status, disk, chunks, file, kind, jpc, text, crossed>>
    BY DEF FailOp, Finish, Goto, Busy, jobs
  <1>2. \/ UNCHANGED versions
        \/ Exists(file[o]) /\ \E v : versions' = [versions EXCEPT ![file[o]] = v]
    BY DEF FailOp
  <1>3. pc[o] = "unlink" => file[o] \in hurt'
    BY <1>1 DEF LeftBehind
  <1>4. Frame(o)
    BY <1>1 DEF Frame
  <1>5. status[file[o]] = "deleted" => UNCHANGED versions
    BY <1>2 DEF Exists, Statuses
  <1>6. \A f \in Files : f # file[o] => versions'[f] = versions[f]
    BY <1>1, <1>2
  <1>7. Respects(o)
    BY <1>1, <1>3, <1>5, <1>6 DEF Respects, GoneInv, Busy
  <1> QED BY <1>4, <1>7

(* The row takes chunks and versions with it.                                 *)
LEMMA CommitDeleteGone ==
    ASSUME TypeOK, PlaceInv, AloneInv, GoneInv, NEW o \in Ops, CommitDelete(o)
    PROVE  Frame(o) /\ Respects(o)
  <1> USE DEF TypeOK, OpTypes, JobTypes, StoreTypes
  <1>1. /\ file[o] \in Files /\ Busy(o) /\ pc[o] = "commit"
        /\ UNCHANGED <<disk, file, kind, jpc, text, crossed, hurt>>
    BY DEF CommitDelete, Busy, jobs, history
  <1>2. CASE /\ pc' = [pc EXCEPT ![o] = "unlink"]
             /\ status' = [status EXCEPT ![file[o]] = "deleted"]
             /\ chunks' = [chunks EXCEPT ![file[o]] = {}]
             /\ versions' = [versions EXCEPT ![file[o]] = {}]
    <2>1. Frame(o)
      BY <1>1, <1>2 DEF Frame
    <2>2. Respects(o)
      BY <1>1, <1>2 DEF Respects
    <2> QED BY <2>1, <2>2
  <1>3. CASE /\ pc' = [pc EXCEPT ![o] = "done"]
             /\ UNCHANGED <<status, chunks, versions>>
    <2>1. Frame(o)
      BY <1>1, <1>3 DEF Frame
    <2>2. status[file[o]] = "deleted" => file[o] \in crossed
      BY <1>1 DEF GoneInv
    <2>3. Respects(o)
      BY <1>1, <1>3, <2>2 DEF Respects, GoneInv
    <2> QED BY <2>1, <2>3
  <1> QED BY <1>2, <1>3 DEF CommitDelete, Finish, Goto, SetStatus

(* Unlinking ends the deletion.                                               *)
LEMMA UnlinkFileGone ==
    ASSUME TypeOK, PlaceInv, AloneInv, GoneInv, NEW o \in Ops, UnlinkFile(o)
    PROVE  Frame(o) /\ Respects(o)
  <1> USE DEF TypeOK, OpTypes, JobTypes, StoreTypes
  <1>1. /\ file[o] \in Files /\ Busy(o) /\ status[file[o]] = "deleted"
        /\ pc' = [pc EXCEPT ![o] = "done"] /\ disk' = [disk EXCEPT ![file[o]] = Nothing]
        /\ UNCHANGED <<status, chunks, versions, file, kind, jpc, text, crossed, hurt>>
    BY DEF UnlinkFile, Finish, Goto, Busy, PlaceInv, jobs, history
  <1>2. Frame(o)
    BY <1>1 DEF Frame
  <1>3. Respects(o)
    BY <1>1 DEF Respects, GoneInv, Busy
  <1> QED BY <1>2, <1>3

(* A job gives chunks and status only to a row.                               *)
LEMMA JobGone ==
    ASSUME TypeOK, PlaceInv, AloneInv, GoneInv, NEW o \in Ops,
           JobStep(o) \/ FailJob(o) \/ KillWorker(o)
    PROVE  Frame(o) /\ Respects(o)
  <1> USE DEF TypeOK, OpTypes, JobTypes, StoreTypes
  <1>1. /\ file[o] \in Files /\ UNCHANGED <<disk, file, kind, pc>> /\ Frame(o)
        /\ Exists(file[o])' => Exists(file[o])
    BY JobFrame
  <1>2. pc[o] = "done"
    BY DEF JobStep, StartJob, ReadFile, SaveChunks, AckJob, RowGone, FailJob, KillWorker,
           PlaceInv
  <1>3. UNCHANGED <<versions, crossed>>
    BY DEF JobStep, StartJob, ReadFile, SaveChunks, AckJob, RowGone, FailJob, KillWorker,
           store, history
  <1>4. status'[file[o]] = "deleted" => /\ status[file[o]] = "deleted"
                                        /\ UNCHANGED chunks
    <2>1. \/ UNCHANGED <<status, chunks>>
          \/ \E s \in Statuses : status' = [status EXCEPT ![file[o]] = s]
      BY DEF JobStep, StartJob, ReadFile, SaveChunks, AckJob, RowGone, FailJob, KillWorker,
             SetStatus, Statuses, store
    <2> QED BY <1>1, <2>1 DEF Statuses
  <1>5. Respects(o)
    BY <1>1, <1>2, <1>3, <1>4 DEF Respects, GoneInv, Busy
  <1> QED BY <1>1, <1>5

(* Operations overlap only where crossed says so, and deletions end in an     *)
(* unlinked file.                                                             *)
THEOREM NothingLeft == Spec => [](AloneInv /\ GoneInv)
  <1>1. Init => AloneInv /\ GoneInv
    BY DEF Init, AloneInv, GoneInv, Busy
  <1>2. TypeOK /\ TypeOK' /\ PlaceInv /\ AloneInv /\ GoneInv /\ [Next]_vars
           => AloneInv' /\ GoneInv'
    <2> SUFFICES ASSUME TypeOK, TypeOK', PlaceInv, AloneInv, GoneInv, [Next]_vars
                 PROVE  AloneInv' /\ GoneInv'
      OBVIOUS
    <2>1. CASE UNCHANGED vars
      BY <2>1 DEF AloneInv, GoneInv, Busy, vars, store, ops, history
    <2>2. CASE Next
      <3> PICK o \in Ops :
             \/ \E u \in Uploads : UploadFile(o, u)
             \/ \E k \in Kinds, f \in Files : StartEdit(o, k, f)
             \/ \E f \in Files : StartDelete(o, f)
             \/ OpStep(o) \/ FailOp(o)
             \/ JobStep(o) \/ FailJob(o) \/ KillWorker(o)
        BY <2>2 DEF Next
      <3>1. Frame(o) /\ Respects(o)
        BY UploadFileGone, StartGone, EditGone, CommitEditGone, FailOpGone,
           CommitDeleteGone, UnlinkFileGone, JobGone DEF OpStep
      <3> QED BY <3>1, GoneStep
    <2> QED BY <2>1, <2>2
  <1> QED BY <1>1, <1>2, TypeCorrect, PlacesRight, PTL DEF Spec

(* A deleted file has neither chunks nor versions, whatever jobs and edits     *)
(* were under way, and unless edits overlapped with the deletion or a step     *)
(* failed, nothing of it stays on disk (delete_file).                          *)
THEOREM DeletedGone == Spec => []DeletedIsGone
  <1>1. GoneInv => DeletedIsGone
    BY DEF GoneInv, DeletedIsGone, OpBusy
  <1> QED BY <1>1, NothingLeft, PTL
------------------------------------------------------------------------------
(* The history.                                                               *)

(* Every step is about one file and respects deletions.                       *)
LEMMA StepsFrame ==
    ASSUME TypeOK, PlaceInv, AloneInv, GoneInv, NEW o \in Ops,
           \/ \E u \in Uploads : UploadFile(o, u)
           \/ \E k \in Kinds, f \in Files : StartEdit(o, k, f)
           \/ \E f \in Files : StartDelete(o, f)
           \/ OpStep(o) \/ FailOp(o)
           \/ JobStep(o) \/ FailJob(o) \/ KillWorker(o)
    PROVE  Frame(o) /\ Respects(o)
  BY UploadFileGone, StartGone, EditGone, CommitEditGone, FailOpGone,
     CommitDeleteGone, UnlinkFileGone, JobGone DEF OpStep

Undamaged == Files \ (hurt \cup crossed)
Editing(o, f) == file[o] = f /\ pc[o] \in {"open", "write", "delete", "commit"}

(* Every text a file has had is kept: it is a version, or in the snapshot a   *)
(* running edit has taken, or still on disk and no edit has opened the file.  *)
HeldText(f, t) ==
    \/ \E v \in versions[f] : v.text = t
    \/ \E o \in Ops : Editing(o, f) /\ \E v \in snap[o] : v.text = t
    \/ t = AsText(disk[f]) /\ \A o \in Ops : file[o] = f => pc[o] # "write"
Held(f) == f \in Undamaged /\ Exists(f) => \A t \in past[f] : HeldText(f, t)

(* Versions are numbered one by one.                                          *)
Numbered(f) ==
    f \in Undamaged =>
        /\ \A v \in versions[f] : v.version <= Cardinality(versions[f])
        /\ \A v, w \in versions[f] : v.version = w.version => v = w

(* A snapshot exists only from save_version to the commit, is of the text on  *)
(* disk until the file is opened, and has the next number. A file that is     *)
(* being uploaded has had no other text.                                      *)
SnapOK(o) ==
    /\ pc[o] \in {"idle", "insert", "save", "done"} \/ kind[o] = "delete"
          => snap[o] = {}
    /\ \A v, w \in snap[o] : v = w
    /\ file[o] \in Undamaged =>
          /\ pc[o] = "insert" => \A t \in past[file[o]] : t = AsText(disk[file[o]])
          /\ pc[o] = "open" => \E v \in snap[o] : v.text = AsText(disk[file[o]])
          /\ pc[o] \in {"open", "write", "delete", "commit"}
                => \A v \in snap[o] : v.version = Cardinality(versions[file[o]]) + 1

HistoryInv ==
    /\ \A f \in Files : Held(f) /\ Numbered(f)
    /\ \A o \in Ops : SnapOK(o)

(* What a step of o has to see to, for the file it is about.                  *)
SeesTo(o) ==
    /\ \A p \in Ops \ {o} : snap'[p] = snap[p]
    /\ \A f \in Files : f # file'[o] => past'[f] = past[f]
    /\ SnapOK(o)'
    /\ \A f \in Files : f = file'[o] =>
          /\ Held(f)' /\ Numbered(f)'
          /\ \A p \in Ops \ {o} : Busy(p) /\ file[p] = f =>
                \/ f \in crossed'
                \/ /\ disk'[f] = disk[f] /\ past'[f] = past[f]
                   /\ versions'[f] = versions[f]

(* Then nothing is lost from any file's history.                              *)
LEMMA HistoryStep ==
    ASSUME TypeOK, HistoryInv, NEW o \in Ops, Frame(o), Respects(o), SeesTo(o)
    PROVE  HistoryInv'
  <1> USE DEF TypeOK, OpTypes
  <1>0. Undamaged' \subseteq Undamaged
    BY DEF Undamaged, Frame, Respects
  <1>1. ASSUME NEW f \in Files, f # file'[o] PROVE Held(f)' /\ Numbered(f)'
    <2>1. /\ disk'[f] = disk[f] /\ past'[f] = past[f] /\ versions'[f] = versions[f]
          /\ Exists(f)' <=> Exists(f)
      BY <1>1 DEF Frame, Respects, SeesTo, Exists
    <2>2. Numbered(f)'
      BY <1>0, <2>1 DEF HistoryInv, Numbered
    <2>3. ASSUME NEW t, HeldText(f, t) PROVE HeldText(f, t)'
      <3>1. CASE \E v \in versions[f] : v.text = t
        BY <2>1, <3>1 DEF HeldText
      <3>2. CASE \E p \in Ops : Editing(p, f) /\ \E v \in snap[p] : v.text = t
        <4>1. PICK p \in Ops : Editing(p, f) /\ \E v \in snap[p] : v.text = t
          BY <3>2
        <4>2. p # o
          BY <1>1, <4>1 DEF Frame, Editing
        <4>3. Editing(p, f)' /\ snap'[p] = snap[p]
          BY <4>1, <4>2 DEF Frame, SeesTo, Editing
        <4> QED BY <4>1, <4>3 DEF HeldText
      <3>3. CASE t = AsText(disk[f]) /\ \A p \in Ops : file[p] = f => pc[p] # "write"
        <4>1. \A p \in Ops : file'[p] = f => pc'[p] # "write"
          BY <1>1, <3>3 DEF Frame
        <4> QED BY <2>1, <3>3, <4>1 DEF HeldText
      <3> QED BY <2>3, <3>1, <3>2, <3>3 DEF HeldText
    <2>4. Held(f)'
      <3> SUFFICES ASSUME f \in Undamaged', Exists(f)', NEW t \in past'[f]
                   PROVE  HeldText(f, t)'
        BY DEF Held
      <3>1. HeldText(f, t)
        BY <1>0, <2>1 DEF HistoryInv, Held
      <3> QED BY <2>3, <3>1
    <2> QED BY <2>2, <2>4
  <1>2. ASSUME NEW p \in Ops, p # o PROVE SnapOK(p)'
    <2>1. /\ pc'[p] = pc[p] /\ kind'[p] = kind[p] /\ file'[p] = file[p]
          /\ snap'[p] = snap[p] /\ SnapOK(p)
      BY <1>2 DEF Frame, SeesTo, HistoryInv
    <2>2. CASE ~Busy(p)
      BY <2>1, <2>2 DEF SnapOK, Busy
    <2>3. CASE Busy(p)
      <3>1. file[p] \in Files
        BY <2>3 DEF Busy
      <3>2. \/ file[p] \in crossed'
            \/ /\ disk'[file[p]] = disk[file[p]] /\ past'[file[p]] = past[file[p]]
               /\ versions'[file[p]] = versions[file[p]]
        BY <1>2, <2>3, <3>1 DEF SeesTo, Frame, Respects
      <3>3. file[p] \in Undamaged' =>
               /\ file[p] \in Undamaged
               /\ disk'[file[p]] = disk[file[p]] /\ past'[file[p]] = past[file[p]]
               /\ versions'[file[p]] = versions[file[p]]
        BY <1>0, <3>2 DEF Undamaged
      <3> QED BY <2>1, <3>3 DEF SnapOK
    <2> QED BY <2>2, <2>3
  <1> QED BY <1>1, <1>2 DEF HistoryInv, SeesTo

(* Alone with its file, o may change it; beside others it has crossed.        *)
LEMMA NobodyElse ==
    ASSUME AloneInv, NEW o \in Ops, Busy(o), crossed \subseteq crossed'
    PROVE  \A p \in Ops \ {o} : Busy(p) /\ file[p] = file[o] => file[o] \in crossed'
  BY DEF AloneInv

(* A step that leaves the file alone and takes no snapshot away.              *)
LEMMA HeldKept ==
    ASSUME TypeOK, HistoryInv, NEW o \in Ops, Frame(o), Respects(o), NEW f \in Files,
           \A p \in Ops \ {o} : snap'[p] = snap[p],
           disk'[f] = disk[f], past'[f] = past[f], versions[f] \subseteq versions'[f],
           Exists(f)' => Exists(f), pc'[o] # "write",
           Editing(o, f) => \/ snap[o] = {}
                            \/ Editing(o, f)' /\ snap'[o] = snap[o]
                            \/ snap[o] \subseteq versions'[f]
    PROVE  Held(f)'
  <1> SUFFICES ASSUME f \in Undamaged', Exists(f)', NEW t \in past'[f]
               PROVE  HeldText(f, t)'
    BY DEF Held
  <1>1. f \in Undamaged /\ Exists(f)
    BY DEF Undamaged, Frame, Respects
  <1>2. HeldText(f, t)
    BY <1>1 DEF HistoryInv, Held
  <1>3. CASE \E v \in versions[f] : v.text = t
    BY <1>3 DEF HeldText
  <1>4. CASE \E p \in Ops : Editing(p, f) /\ \E v \in snap[p] : v.text = t
    <2>1. PICK p \in Ops : Editing(p, f) /\ \E v \in snap[p] : v.text = t
      BY <1>4
    <2>2. CASE p # o
      <3>1. Editing(p, f)' /\ snap'[p] = snap[p]
        BY <2>1, <2>2 DEF Frame, Editing
      <3> QED BY <2>1, <3>1 DEF HeldText
    <2>3. CASE p = o
      BY <2>1, <2>3 DEF HeldText
    <2> QED BY <2>2, <2>3
  <1>5. CASE t = AsText(disk[f]) /\ \A p \in Ops : file[p] = f => pc[p] # "write"
    <2>1. \A p \in Ops : file'[p] = f => pc'[p] # "write"
      BY <1>5 DEF Frame
    <2> QED BY <1>5, <2>1 DEF HeldText
  <1> QED BY <1>2, <1>3, <1>4, <1>5 DEF HeldText

(* The versions of a file keep their numbers while there are no others.       *)
LEMMA NumbersKept ==
    ASSUME HistoryInv, NEW o \in Ops, Frame(o), Respects(o), NEW f \in Files,
           versions'[f] = versions[f]
    PROVE  Numbered(f)'
  BY DEF HistoryInv, Numbered, Undamaged, Frame, Respects

(* Without a snapshot there is little to see to.                              *)
LEMMA NoSnap ==
    ASSUME NEW o \in Ops, snap'[o] = {}, pc'[o] \notin {"insert", "open"}
    PROVE  SnapOK(o)'
  BY DEF SnapOK
(* An upload begins the history of its file.                                  *)
LEMMA UploadFileHistory ==
    ASSUME TypeOK, PlaceInv, HistoryInv, NEW o \in Ops, NEW u \in Uploads,
           UploadFile(o, u), Frame(o), Respects(o)
    PROVE  SeesTo(o)
  <1> USE DEF TypeOK, OpTypes, JobTypes, StoreTypes, HistoryTypes
  <1>1. /\ pc[o] = "idle" /\ snap[o] = {}
        /\ UNCHANGED <<status, versions, snap, crossed, hurt>>
    BY DEF UploadFile, HistoryInv, SnapOK
  <1>2. CASE pc' = [pc EXCEPT ![o] = "done"] /\ UNCHANGED <<disk, file, past>>
    <2>1. SnapOK(o)'
      BY <1>1, <1>2, NoSnap
    <2>2. \A f \in Files : Held(f)' /\ Numbered(f)'
      BY <1>1, <1>2, HeldKept, NumbersKept DEF Editing, Exists
    <2> QED BY <1>1, <1>2, <2>1, <2>2 DEF SeesTo
  <1>3. ASSUME NEW f \in Files, Unused(f), disk' = [disk EXCEPT ![f] = {u}],
               past' = [past EXCEPT ![f] = {AsText({u})}],
               file' = [file EXCEPT ![o] = f], pc' = [pc EXCEPT ![o] = "insert"]
        PROVE  SeesTo(o)
    <2>1. file'[o] = f /\ pc'[o] = "insert" /\ disk'[f] = {u} /\ past'[f] = {AsText({u})}
      BY <1>3
    <2>2. \A p \in Ops : Busy(p) => file[p] # f
      BY <1>3 DEF Busy, PlaceInv, Unused
    <2>3. SnapOK(o)'
      BY <1>1, <2>1 DEF SnapOK
    <2>4. Held(f)' /\ Numbered(f)'
      BY <1>1, <1>3, NumbersKept DEF Held, Unused, Exists, Statuses
    <2> QED BY <1>1, <1>3, <2>1, <2>2, <2>3, <2>4 DEF SeesTo
  <1> QED BY <1>2, <1>3 DEF UploadFile, Goto

(* Its row makes the file visible with the text it has.                       *)
LEMMA InsertRowHistory ==
    ASSUME TypeOK, PlaceInv, AloneInv, HistoryInv, NEW o \in Ops,
           InsertRow(o), Frame(o), Respects(o)
    PROVE  SeesTo(o)
  <1> USE DEF TypeOK, OpTypes, StoreTypes
  <1>1. /\ file[o] \in Files /\ pc[o] = "insert" /\ snap[o] = {} /\ Busy(o)
        /\ pc' = [pc EXCEPT ![o] = "enqueue"]
        /\ UNCHANGED <<disk, versions, file, snap, past, crossed, hurt>>
    BY DEF InsertRow, Goto, HistoryInv, SnapOK, Busy, history
  <1>2. SnapOK(o)'
    BY <1>1, NoSnap
  <1>3. \A p \in Ops : file'[p] = file[o] => pc'[p] # "write"
    BY <1>1 DEF PlaceInv
  <1>4. file[o] \in Undamaged => \A t \in past[file[o]] : t = AsText(disk[file[o]])
    BY <1>1 DEF HistoryInv, SnapOK
  <1>5. Held(file[o])'
    BY <1>1, <1>3, <1>4 DEF Held, HeldText, Undamaged
  <1>6. Numbered(file[o])'
    BY <1>1, NumbersKept
  <1> QED BY <1>1, <1>2, <1>5, <1>6 DEF SeesTo

(* Operations begin without a snapshot.                                       *)
LEMMA StartHistory ==
    ASSUME TypeOK, HistoryInv, NEW o \in Ops, NEW f \in Files,
           (\E k \in Kinds : StartEdit(o, k, f)) \/ StartDelete(o, f),
           Frame(o), Respects(o)
    PROVE  SeesTo(o)
  <1> USE DEF TypeOK, OpTypes, StoreTypes
  <1>1. /\ pc[o] = "idle" /\ snap[o] = {} /\ file' = [file EXCEPT ![o] = f]
        /\ UNCHANGED <<status, disk, versions, snap, past, hurt>>
        /\ pc'[o] \in {"save", "delete"}
    BY DEF StartEdit, StartDelete, Goto, HistoryInv, SnapOK, store
  <1>2. SnapOK(o)'
    BY <1>1, NoSnap
  <1>3. Held(f)' /\ Numbered(f)'
    BY <1>1, HeldKept, NumbersKept DEF Editing, Exists
  <1> QED BY <1>1, <1>2, <1>3 DEF SeesTo

(* An edit is about a file that has a row, unless others work on it.          *)
LEMMA EditedExists ==
    ASSUME TypeOK, PlaceInv, GoneInv, NEW o \in Ops, Busy(o),
           pc[o] \notin {"insert", "unlink"}, file[o] \notin crossed
    PROVE  Exists(file[o]) /\ disk[file[o]] # Nothing
  <1>1. status[file[o]] \in Statuses
    BY DEF TypeOK, OpTypes, StoreTypes, Busy, PlaceInv, GoneInv
  <1> QED BY <1>1 DEF TypeOK, OpTypes, Busy, PlaceInv, Exists

(* save_version snapshots the text on disk under the next number.             *)
LEMMA SaveVersionHistory ==
    ASSUME TypeOK, PlaceInv, AloneInv, GoneInv, HistoryInv, NEW o \in Ops,
           SaveVersion(o), Frame(o), Respects(o)
    PROVE  SeesTo(o)
  <1> USE DEF TypeOK, OpTypes, StoreTypes, SessionTypes
  <1> DEFINE f == file[o]
             v == [by |-> o, version |-> Cardinality(versions[f]) + 1,
                   text |-> AsText(disk[f])]
  <1>1. /\ f \in Files /\ pc[o] = "save" /\ kind[o] # "delete" /\ Busy(o)
        /\ pc' = [pc EXCEPT ![o] = "open"]
        /\ snap' = [snap EXCEPT ![o] = IF disk[f] = Nothing THEN {} ELSE {v}]
        /\ UNCHANGED <<status, disk, versions, file, kind, past, crossed, hurt>>
    BY DEF SaveVersion, Goto, PlaceInv, Busy, store, history
  <1>2. snap'[o] = IF disk[f] = Nothing THEN {} ELSE {v}
    BY <1>1
  <1>3. v.version = Cardinality(versions[f]) + 1 /\ v.text = AsText(disk[f])
    OBVIOUS
  <1>4. f \notin crossed => disk[f] # Nothing
    BY <1>1, EditedExists
  <1> HIDE DEF v
  <1>5. SnapOK(o)'
    BY <1>1, <1>2, <1>3, <1>4 DEF SnapOK, Undamaged
  <1>6. Held(f)' /\ Numbered(f)'
    BY <1>1, HeldKept, NumbersKept DEF Editing, Exists
  <1> QED BY <1>1, <1>5, <1>6 DEF SeesTo

(* Opening a file loses nothing but what the snapshot holds.                  *)
LEMMA OpenFileHistory ==
    ASSUME TypeOK, PlaceInv, AloneInv, GoneInv, HistoryInv, NEW o \in Ops,
           OpenFile(o), Frame(o), Respects(o)
    PROVE  SeesTo(o)
  <1> USE DEF TypeOK, OpTypes, StoreTypes
  <1>0. PICK f \in Files : f = file[o]
    BY DEF OpenFile
  <1>1. /\ f = file[o] /\ pc[o] = "open" /\ Busy(o)
        /\ pc' = [pc EXCEPT ![o] = "write"]
        /\ UNCHANGED <<status, versions, file, kind, snap, past, crossed, hurt>>
    BY <1>0 DEF OpenFile, Goto, Busy, history
  <1>2. \A p \in Ops \ {o} : Busy(p) /\ file[p] = f => f \in crossed'
    BY <1>1, NobodyElse
  <1>3. SnapOK(o)'
    BY <1>1 DEF HistoryInv, SnapOK, Undamaged
  <1>4. Held(f)'
    <2> SUFFICES ASSUME f \in Undamaged', Exists(f)', NEW t \in past'[f]
                 PROVE  HeldText(f, t)'
      BY DEF Held
    <2>1. HeldText(f, t)
      BY <1>1 DEF HistoryInv, Held, Undamaged, Exists
    <2>2. \A p \in Ops : Editing(p, f) => Editing(p, f)'
      BY <1>1 DEF Editing
    <2>3. \E v \in snap[o] : v.text = AsText(disk[f])
      BY <1>1 DEF HistoryInv, SnapOK, Undamaged
    <2>4. Editing(o, f)
      BY <1>1 DEF Editing
    <2> QED BY <1>1, <2>1, <2>2, <2>3, <2>4 DEF HeldText
  <1>5. Numbered(f)'
    BY <1>1, NumbersKept
  <1> QED BY <1>1, <1>2, <1>3, <1>4, <1>5 DEF SeesTo

(* The text that is written is on disk.                                       *)
LEMMA WriteFileHistory ==
    ASSUME TypeOK, PlaceInv, AloneInv, GoneInv, HistoryInv, NEW o \in Ops,
           WriteFile(o), Frame(o), Respects(o)
    PROVE  SeesTo(o)
  <1> USE DEF TypeOK, OpTypes, StoreTypes, HistoryTypes
  <1>0. PICK f \in Files : f = file[o]
    BY DEF WriteFile
  <1>1. /\ f = file[o] /\ pc[o] = "write" /\ Busy(o)
        /\ pc' = [pc EXCEPT ![o] = "delete"]
        /\ past' = [past EXCEPT ![f] = @ \cup {AsText(disk'[f])}]
        /\ UNCHANGED <<status, versions, file, kind, snap, crossed, hurt>>
    BY <1>0 DEF WriteFile, Goto, Busy
  <1>2. \A p \in Ops \ {o} : Busy(p) /\ file[p] = f => f \in crossed'
    BY <1>1, NobodyElse
  <1>3. SnapOK(o)'
    BY <1>1 DEF HistoryInv, SnapOK, Undamaged
  <1>4. Held(f)'
    <2> SUFFICES ASSUME f \in Undamaged', Exists(f)', NEW t \in past'[f]
                 PROVE  HeldText(f, t)'
      BY DEF Held
    <2>1. CASE t \in past[f]
      <3>1. HeldText(f, t)
        BY <1>1, <2>1 DEF HistoryInv, Held, Undamaged, Exists
      <3>2. \A p \in Ops : Editing(p, f) => Editing(p, f)'
        BY <1>1 DEF Editing
      <3> QED BY <1>1, <3>1, <3>2 DEF HeldText
    <2>2. CASE t = AsText(disk'[f])
      <3>1. \A p \in Ops : file'[p] = f => pc'[p] # "write"
        BY <1>1, <1>2 DEF Busy, Undamaged
      <3> QED BY <2>2, <3>1 DEF HeldText
    <2> QED BY <1>1, <2>1, <2>2
  <1>5. Numbered(f)'
    BY <1>1, NumbersKept
  <1> QED BY <1>1, <1>2, <1>3, <1>4, <1>5 DEF SeesTo

(* Deleting chunks is nothing to the history.                                 *)
LEMMA DeleteChunksHistory ==
    ASSUME TypeOK, PlaceInv, AloneInv, GoneInv, HistoryInv, NEW o \in Ops,
           DeleteChunks(o), Frame(o), Respects(o)
    PROVE  SeesTo(o)
  <1> USE DEF TypeOK, OpTypes, StoreTypes
  <1>1. /\ file[o] \in Files /\ pc[o] = "delete" /\ Busy(o)
        /\ pc' = [pc EXCEPT ![o] = "commit"]
        /\ UNCHANGED <<status, disk, versions, file, kind, snap, past, crossed, hurt>>
    BY DEF DeleteChunks, Goto, Busy, store, history
  <1>2. SnapOK(o)'
    BY <1>1 DEF HistoryInv, SnapOK, Undamaged
  <1>3. Held(file[o])' /\ Numbered(file[o])'
    BY <1>1, HeldKept, NumbersKept DEF Editing, Exists
  <1> QED BY <1>1, <1>2, <1>3 DEF SeesTo

(* The commit of an edit adds its snapshot to the versions.                   *)
LEMMA CommitEditHistory ==
    ASSUME TypeOK, PlaceInv, AloneInv, GoneInv, HistoryInv, NEW o \in Ops,
           CommitEdit(o), Frame(o), Respects(o)
    PROVE  SeesTo(o)
  <1> USE DEF TypeOK, OpTypes, StoreTypes, SessionTypes
  <1>0. PICK f \in Files : f = file[o]
    BY DEF CommitEdit
  <1>1. /\ f = file[o] /\ pc[o] = "commit" /\ kind[o] # "delete" /\ Busy(o)
        /\ UNCHANGED <<disk, file, kind, past, crossed, hurt>>
    BY <1>0 DEF CommitEdit, Busy, history
  <1>2. \A p \in Ops \ {o} : Busy(p) /\ file[p] = f => f \in crossed'
    BY <1>1, NobodyElse
  <1>3. CASE /\ Exists(f) /\ pc' = [pc EXCEPT ![o] = "enqueue"]
             /\ versions' = [versions EXCEPT ![f] = @ \cup snap[o]]
             /\ UNCHANGED snap
    <2>1. versions'[f] = versions[f] \cup snap[o]
      BY <1>1, <1>3
    <2>2. SnapOK(o)'
      BY <1>1, <1>3 DEF HistoryInv, SnapOK
    <2>3. Held(f)'
      BY <1>1, <1>3, <2>1, HeldKept
    <2>4. Numbered(f)'
      <3> SUFFICES ASSUME f \in Undamaged' PROVE Numbered(f)'
        BY DEF Numbered
      <3>1. f \in Undamaged /\ Numbered(f) /\ SnapOK(o)
        BY <1>1 DEF Undamaged, HistoryInv
      <3>2. CASE snap[o] = {}
        BY <2>1, <3>1, <3>2 DEF Numbered
      <3>3. ASSUME NEW v \in snap[o] PROVE Numbered(f)'
        <4>1. snap[o] = {v} /\ v.version = Cardinality(versions[f]) + 1
          BY <1>1, <3>1, <3>3 DEF SnapOK
        <4>2. IsFiniteSet(versions[f]) /\ Cardinality(versions[f]) \in Nat
          BY <1>1, FS_CardinalityType
        <4>3. \A w \in versions[f] : /\ w.version \in Nat
                                     /\ w.version <= Cardinality(versions[f])
          BY <1>1, <3>1 DEF Numbered, Snapshots
        <4>4. v \notin versions[f]
          BY <4>1, <4>2, <4>3
        <4>5. Cardinality(versions'[f]) = Cardinality(versions[f]) + 1
          <5>1. Cardinality(versions[f] \cup {v}) = Cardinality(versions[f]) + 1
            BY <4>2, <4>4, FS_AddElement
          <5>2. versions'[f] = versions[f] \cup {v}
            BY <2>1, <4>1
          <5> QED BY <5>1, <5>2
        <4>6. \A w \in versions'[f] : w.version <= Cardinality(versions'[f])
          BY <2>1, <4>1, <4>2, <4>3, <4>5
        <4>7. \A w, x \in versions'[f] : w.version = x.version => w = x
          BY <2>1, <3>1, <4>1, <4>2, <4>3 DEF Numbered
        <4> QED BY <4>6, <4>7 DEF Numbered
      <3> QED BY <3>2, <3>3
    <2> QED BY <1>1, <1>2, <1>3, <2>2, <2>3, <2>4 DEF SeesTo
  <1>4. CASE ~Exists(f) /\ UNCHANGED <<versions, status>> /\ UNCHANGED snap
             /\ pc' = [pc EXCEPT ![o] = "enqueue"]
    <2>1. SnapOK(o)'
      BY <1>1, <1>4 DEF HistoryInv, SnapOK
    <2>2. Held(f)' /\ Numbered(f)'
      BY <1>1, <1>4, NumbersKept DEF Held, Exists
    <2> QED BY <1>1, <1>2, <1>4, <2>1, <2>2 DEF SeesTo
  <1>5. CASE ~Exists(f) /\ UNCHANGED <<versions, status>>
             /\ snap' = [snap EXCEPT ![o] = {}] /\ pc' = [pc EXCEPT ![o] = "done"]
    <2>1. SnapOK(o)'
      BY <1>1, <1>5, NoSnap
    <2>2. Held(f)' /\ Numbered(f)'
      BY <1>1, <1>5, NumbersKept DEF Held, Exists
    <2> QED BY <1>1, <1>2, <1>5, <2>1, <2>2 DEF SeesTo
  <1> QED BY <1>0, <1>3, <1>4, <1>5 DEF CommitEdit, Finish, Goto, session
(* The operation is over: its snapshot is a version, or there is none.        *)
LEMMA EnqueueHistory ==
    ASSUME TypeOK, PlaceInv, AloneInv, GoneInv, HistoryInv, NEW o \in Ops,
           Enqueue(o), Frame(o), Respects(o)
    PROVE  SeesTo(o)
  <1> USE DEF TypeOK, OpTypes, StoreTypes, SessionTypes
  <1>0. PICK f \in Files : f = file[o]
    BY DEF Enqueue
  <1>1. /\ f = file[o] /\ pc[o] = "enqueue"
        /\ pc' = [pc EXCEPT ![o] = "done"] /\ snap' = [snap EXCEPT ![o] = {}]
        /\ UNCHANGED <<status, disk, versions, file, kind, past, crossed, hurt>>
    BY <1>0 DEF Enqueue, Finish, Goto, store, history
  <1>2. SnapOK(o)'
    BY <1>1, NoSnap
  <1>3. Held(f)' /\ Numbered(f)'
    BY <1>1, HeldKept, NumbersKept DEF Editing, Exists
  <1> QED BY <1>1, <1>2, <1>3 DEF SeesTo

(* An operation that fails leaves the file hurt, or untouched.                *)
LEMMA FailOpHistory ==
    ASSUME TypeOK, PlaceInv, AloneInv, GoneInv, HistoryInv, NEW o \in Ops,
           FailOp(o), Frame(o), Respects(o)
    PROVE  SeesTo(o)
  <1> USE DEF TypeOK, OpTypes, StoreTypes, SessionTypes
  <1>0. PICK f \in Files : f = file[o]
    BY DEF FailOp
  <1>1. /\ f = file[o] /\ Busy(o)
        /\ pc' = [pc EXCEPT ![o] = "done"] /\ snap' = [snap EXCEPT ![o] = {}]
        /\ hurt' = IF LeftBehind(o) THEN hurt \cup {f} ELSE hurt
        /\ UNCHANGED <<status, disk, file, kind, past, crossed>>
    BY <1>0 DEF FailOp, Finish, Goto, Busy
  <1>2. \A p \in Ops \ {o} : Busy(p) /\ file[p] = f => f \in crossed'
    BY <1>1, NobodyElse
  <1>3. SnapOK(o)'
    BY <1>1, NoSnap
  <1>4. Held(f)' /\ Numbered(f)'
    <2>1. CASE LeftBehind(o)
      BY <1>1, <2>1 DEF Held, Numbered, Undamaged
    <2>2. CASE ~LeftBehind(o)
      <3>1. versions' = versions
        BY <2>2 DEF FailOp, LeftBehind
      <3>2. Editing(o, f) => snap[o] = {}
        BY <1>1, <2>2 DEF Editing, LeftBehind, HistoryInv, SnapOK
      <3> QED BY <1>1, <3>1, <3>2, HeldKept, NumbersKept DEF Exists
    <2> QED BY <2>1, <2>2
  <1>5. UNCHANGED <<past>> /\ \A p \in Ops \ {o} : snap'[p] = snap[p]
    BY <1>1
  <1> QED BY <1>1, <1>2, <1>3, <1>4, <1>5 DEF SeesTo

(* A deletion takes the history with the row.                                 *)
LEMMA CommitDeleteHistory ==
    ASSUME TypeOK, PlaceInv, AloneInv, GoneInv, HistoryInv, NEW o \in Ops,
           CommitDelete(o), Frame(o), Respects(o)
    PROVE  SeesTo(o)
  <1> USE DEF TypeOK, OpTypes, StoreTypes, SessionTypes
  <1>0. PICK f \in Files : f = file[o]
    BY DEF CommitDelete
  <1>1. /\ f = file[o] /\ Busy(o) /\ kind[o] = "delete" /\ snap[o] = {}
        /\ UNCHANGED <<disk, file, kind, past, crossed, hurt>>
    BY <1>0 DEF CommitDelete, Busy, HistoryInv, SnapOK, history
  <1>2. \A p \in Ops \ {o} : Busy(p) /\ file[p] = f => f \in crossed'
    BY <1>1, NobodyElse
  <1>3. snap' = [snap EXCEPT ![o] = {}]
    BY <1>1 DEF CommitDelete, Finish, session
  <1>4. pc'[o] \in {"unlink", "done"}
    BY DEF CommitDelete, Finish, Goto
  <1>5. SnapOK(o)'
    BY <1>3, <1>4, NoSnap
  <1>6. CASE /\ status' = [status EXCEPT ![f] = "deleted"]
             /\ versions' = [versions EXCEPT ![f] = {}]
    <2>1. Held(f)'
      BY <1>6 DEF Held, Exists, Statuses
    <2>2. Numbered(f)'
      BY <1>6 DEF Numbered
    <2> QED BY <1>1, <1>2, <1>3, <1>5, <2>1, <2>2 DEF SeesTo
  <1>7. CASE UNCHANGED <<status, versions>>
    <2>1. Held(f)' /\ Numbered(f)'
      BY <1>1, <1>3, <1>4, <1>7, HeldKept, NumbersKept DEF Exists
    <2> QED BY <1>1, <1>2, <1>3, <1>5, <2>1 DEF SeesTo
  <1> QED BY <1>0, <1>6, <1>7 DEF CommitDelete, SetStatus

(* The stored file goes when there is no row.                                 *)
LEMMA UnlinkFileHistory ==
    ASSUME TypeOK, PlaceInv, AloneInv, GoneInv, HistoryInv, NEW o \in Ops,
           UnlinkFile(o), Frame(o), Respects(o)
    PROVE  SeesTo(o)
  <1> USE DEF TypeOK, OpTypes, StoreTypes, SessionTypes
  <1>0. PICK f \in Files : f = file[o]
    BY DEF UnlinkFile
  <1>1. /\ f = file[o] /\ Busy(o) /\ status[f] = "deleted"
        /\ pc' = [pc EXCEPT ![o] = "done"] /\ snap' = [snap EXCEPT ![o] = {}]
        /\ UNCHANGED <<status, versions, file, kind, past, crossed, hurt>>
    BY <1>0 DEF UnlinkFile, Finish, Goto, Busy, PlaceInv, history
  <1>2. \A p \in Ops \ {o} : Busy(p) /\ file[p] = f => f \in crossed'
    BY <1>1, NobodyElse
  <1>3. SnapOK(o)'
    BY <1>1, NoSnap
  <1>4. Held(f)' /\ Numbered(f)'
    BY <1>1, NumbersKept DEF Held, Exists, Statuses
  <1> QED BY <1>1, <1>2, <1>3, <1>4 DEF SeesTo

(* Jobs read the text and leave the history alone.                            *)
LEMMA JobHistory ==
    ASSUME TypeOK, PlaceInv, AloneInv, GoneInv, HistoryInv, NEW o \in Ops,
           JobStep(o) \/ FailJob(o) \/ KillWorker(o), Frame(o), Respects(o)
    PROVE  SeesTo(o)
  <1> USE DEF TypeOK, OpTypes, StoreTypes, SessionTypes
  <1>0. file[o] \in Files
    BY JobFrame
  <1>1. PICK f \in Files : f = file[o]
    BY <1>0
  <1>2. /\ UNCHANGED <<disk, file, kind, pc, snap, versions, past, crossed>>
        /\ Exists(f)' => Exists(f)
    BY <1>1, JobFrame DEF JobStep, StartJob, ReadFile, SaveChunks, AckJob, RowGone, FailJob,
           KillWorker, store, ops, session, history
  <1>3. pc[o] = "done"
    BY DEF JobStep, StartJob, ReadFile, SaveChunks, AckJob, RowGone, FailJob, KillWorker,
           PlaceInv
  <1>4. SnapOK(o)'
    BY <1>2, <1>3, NoSnap DEF HistoryInv, SnapOK
  <1>5. Held(f)' /\ Numbered(f)'
    BY <1>2, <1>3, HeldKept, NumbersKept DEF Editing
  <1> QED BY <1>1, <1>2, <1>4, <1>5 DEF SeesTo

(* At any time, however many edits, uploads, deletions and jobs there are: a   *)
(* text an undamaged file has been shown with is a version, or in the version  *)
(* a running edit has saved, or on disk in a file that nobody has opened       *)
(* (save_version).                                                             *)
THEOREM HistoryHeld == Spec => []HistoryInv
  <1>1. Init => HistoryInv
    <2> SUFFICES ASSUME Init PROVE HistoryInv
      OBVIOUS
    <2>1. PICK old \in Files \cup {Nothing} :
             /\ disk = [f \in Files |-> IF f = old THEN {First} ELSE Nothing]
             /\ status = [f \in Files |-> IF f = old THEN "ready" ELSE "none"]
             /\ past = [f \in Files |-> IF f = old THEN {AsText({First})} ELSE {}]
      BY DEF Init
    <2>2. \A f \in Files : Held(f)
      BY <2>1 DEF Init, Held, HeldText, Exists, Statuses
    <2>3. \A f \in Files : Numbered(f)
      BY DEF Init, Numbered
    <2>4. \A o \in Ops : SnapOK(o)
      BY DEF Init, SnapOK
    <2> QED BY <2>2, <2>3, <2>4 DEF HistoryInv
  <1>2. TypeOK /\ PlaceInv /\ AloneInv /\ GoneInv /\ HistoryInv /\ [Next]_vars
           => HistoryInv'
    <2> SUFFICES ASSUME TypeOK, PlaceInv, AloneInv, GoneInv, HistoryInv, [Next]_vars
                 PROVE  HistoryInv'
      OBVIOUS
    <2>1. CASE UNCHANGED vars
      BY <2>1 DEF HistoryInv, Held, HeldText, Numbered, SnapOK, Editing, Undamaged, Exists,
                  vars, store, ops, session, history
    <2>2. CASE Next
      <3> PICK o \in Ops :
             \/ \E u \in Uploads : UploadFile(o, u)
             \/ \E k \in Kinds, f \in Files : StartEdit(o, k, f)
             \/ \E f \in Files : StartDelete(o, f)
             \/ OpStep(o) \/ FailOp(o)
             \/ JobStep(o) \/ FailJob(o) \/ KillWorker(o)
        BY <2>2 DEF Next
      <3>1. Frame(o) /\ Respects(o)
        BY StepsFrame
      <3>2. SeesTo(o)
        BY <3>1, UploadFileHistory, InsertRowHistory, StartHistory, SaveVersionHistory,
           OpenFileHistory, WriteFileHistory, DeleteChunksHistory, CommitEditHistory,
           EnqueueHistory, FailOpHistory, CommitDeleteHistory, UnlinkFileHistory,
           JobHistory DEF OpStep
      <3> QED BY <3>1, <3>2, HistoryStep
    <2> QED BY <2>1, <2>2
  <1> QED BY <1>1, <1>2, TypeCorrect, PlacesRight, NothingLeft, PTL DEF Spec

(* Unless edits of a file overlap or one fails half-way, every text it has    *)
(* ever been shown with is its text now or one of its versions, and no two    *)
(* versions share a number, over any number of edits, restores and jobs;      *)
(* nothing is claimed of bytes that cannot be read as text (save_version).    *)
THEOREM HistoryComplete == Spec => []HistoryIsComplete
  <1>1. HistoryInv => HistoryIsComplete
    <2> SUFFICES ASSUME HistoryInv, NEW f \in Files \ (hurt \cup crossed),
                        ~OpBusy(f), Exists(f)
                 PROVE  /\ past[f] \subseteq {AsText(disk[f])} \cup {v.text : v \in versions[f]}
                        /\ \A v, w \in versions[f] : v.version = w.version => v = w
      BY DEF HistoryIsComplete
    <2>1. Held(f) /\ Numbered(f) /\ f \in Undamaged
      BY DEF HistoryInv, Undamaged
    <2>2. ~\E o \in Ops : Editing(o, f)
      BY DEF OpBusy, Editing
    <2> QED BY <2>1, <2>2 DEF Held, HeldText, Numbered
  <1> QED BY <1>1, HistoryHeld, PTL
------------------------------------------------------------------------------
(* The index holds nothing else.                                              *)

Active(o) == Busy(o) \/ jpc[o] \notin {"none", "done"}
Calm == Files \ (hurt \cup crossed \cup disturbed)

(* Unless something overlapped, one operation or one job is at work on a file.*)
CalmInv ==
    \A o, p \in Ops : Active(o) /\ Active(p) /\ file[o] = file[p] /\ file[o] \in Calm
        => o = p

(* The file is indexed once and with its own text, or is empty.               *)
Settled(f) ==
    \/ disk[f] = {}
    \/ status[f] = "ready" /\ \E b : chunks[f] = {b} /\ b.text = disk[f]

(* An operation that has not touched the file yet, or will not, or whose job  *)
(* has committed.                                                             *)
Resting(o) ==
    /\ pc[o] \in {"idle", "save", "done"} \/ kind[o] = "delete"
    /\ jpc[o] \in {"none", "saved", "done"}

Exact(f) ==
    /\ status[f] = "none" => chunks[f] = {}
    /\ f \in Calm /\ Exists(f) /\ (\A o \in Ops : file[o] = f => Resting(o))
          => Settled(f)

(* From the edit's commit to the job's there is no chunk, and the text a job  *)
(* has read is still the one on disk.                                         *)
WorkOK(o) ==
    file[o] \in Calm /\ Exists(file[o]) =>
        /\ pc[o] = "commit" /\ kind[o] # "delete" => doomed[o] = chunks[file[o]]
        /\ pc[o] = "enqueue" \/ jpc[o] \in {"queued", "read", "save"}
              => chunks[file[o]] = {}
        /\ jpc[o] = "save" => text[o] = disk[file[o]] /\ disk[file[o]] # {}

ExactInv ==
    /\ CalmInv
    /\ \A f \in Files : Exact(f)
    /\ \A o \in Ops : WorkOK(o)

(* What a step of o has to see to, for the file it is about.                  *)
Replaces(o) ==
    /\ \A p \in Ops \ {o} : doomed'[p] = doomed[p]
    /\ disturbed \subseteq disturbed'
    /\ Active(o)' => \/ Active(o) /\ file'[o] = file[o]
                     \/ file'[o] \notin Calm'
                     \/ \A p \in Ops \ {o} : Active(p) => file[p] # file'[o]
    /\ WorkOK(o)'
    /\ \A f \in Files : f = file'[o] =>
          /\ Exact(f)'
          /\ \A p \in Ops \ {o} : Active(p) /\ file[p] = f =>
                \/ f \notin Calm'
                \/ /\ disk'[f] = disk[f] /\ chunks'[f] = chunks[f]
                   /\ Exists(f)' => Exists(f)

(* Then every index stays exact.                                              *)
LEMMA ExactStep ==
    ASSUME TypeOK, PlaceInv, ExactInv, NEW o \in Ops, Frame(o), Respects(o), Replaces(o)
    PROVE  ExactInv'
  <1> USE DEF TypeOK, OpTypes, JobTypes
  <1>0. Calm' \subseteq Calm
    BY DEF Calm, Frame, Respects, Replaces
  <1>1. \A p \in Ops \ {o} : /\ file'[p] = file[p] /\ pc'[p] = pc[p]
                             /\ jpc'[p] = jpc[p] /\ kind'[p] = kind[p]
                             /\ (Active(p)' <=> Active(p))
                             /\ (Resting(p)' <=> Resting(p))
    BY DEF Frame, Active, Busy, Resting
  <1>2. CalmInv'
    <2> SUFFICES ASSUME NEW p \in Ops, NEW q \in Ops, Active(p)', Active(q)',
                        file'[p] = file'[q], file'[p] \in Calm', p # q
                 PROVE  FALSE
      BY DEF CalmInv
    <2>1. CASE p # o /\ q # o
      BY <1>0, <1>1, <2>1 DEF ExactInv, CalmInv
    <2>2. ASSUME NEW r \in Ops \ {o}, Active(r)', Active(o)', file'[r] = file'[o],
                 file'[o] \in Calm'
          PROVE  FALSE
      <3>1. Active(r) /\ file[r] = file'[o]
        BY <1>1, <2>2
      <3>2. Active(o) /\ file'[o] = file[o]
        BY <2>2, <3>1 DEF Replaces
      <3> QED BY <1>0, <2>2, <3>1, <3>2 DEF ExactInv, CalmInv
    <2> QED BY <2>1, <2>2
  <1>3. ASSUME NEW f \in Files, f # file'[o] PROVE Exact(f)'
    <2>1. /\ disk'[f] = disk[f] /\ chunks'[f] = chunks[f] /\ status'[f] = status[f]
      BY <1>3 DEF Frame
    <2>2. (\A p \in Ops : file'[p] = f => Resting(p)')
             => \A p \in Ops : file[p] = f => Resting(p)
      <3>1. file[o] = f => Resting(o)
        BY <1>3 DEF Frame, Resting, PlaceInv
      <3> QED BY <1>1, <3>1
    <2>3. Settled(f) => Settled(f)'
      BY <2>1 DEF Settled
    <2> QED BY <1>0, <2>1, <2>2, <2>3 DEF ExactInv, Exact, Exists
  <1>4. ASSUME NEW p \in Ops, p # o PROVE WorkOK(p)'
    <2>1. /\ pc'[p] = pc[p] /\ kind'[p] = kind[p] /\ file'[p] = file[p]
          /\ jpc'[p] = jpc[p] /\ text'[p] = text[p] /\ doomed'[p] = doomed[p]
          /\ WorkOK(p)
      BY <1>4 DEF Frame, Replaces, ExactInv
    <2>2. CASE ~Active(p)
      BY <2>1, <2>2 DEF WorkOK, Active, Busy
    <2>3. CASE Active(p)
      <3>1. file[p] \in Files
        BY <2>3 DEF Active, Busy
      <3>2. \/ file[p] \notin Calm'
            \/ /\ disk'[file[p]] = disk[file[p]] /\ chunks'[file[p]] = chunks[file[p]]
               /\ status'[file[p]] \in Statuses => status[file[p]] \in Statuses
        BY <1>4, <2>3, <3>1 DEF Replaces, Frame, Exists
      <3> QED BY <1>0, <2>1, <3>2 DEF WorkOK, Exists
    <2> QED BY <2>2, <2>3
  <1> QED BY <1>2, <1>3, <1>4 DEF ExactInv, Replaces

(* Alone with its file, o may change it; otherwise the file is not calm.      *)
LEMMA AloneOnCalm ==
    ASSUME ExactInv, NEW o \in Ops, Active(o), Calm' \subseteq Calm
    PROVE  \A p \in Ops \ {o} : Active(p) /\ file[p] = file[o] => file[o] \notin Calm'
  BY DEF ExactInv, CalmInv

(* What is settled stays settled while o rests and the file is left alone.    *)
LEMMA ExactKept ==
    ASSUME TypeOK, ExactInv, NEW o \in Ops, Frame(o), NEW f \in Files,
           Calm' \subseteq Calm,
           disk'[f] = disk[f], chunks'[f] = chunks[f], status'[f] = status[f],
           file[o] = f => Resting(o)
    PROVE  Exact(f)'
  <1>1. \A p \in Ops \ {o} : /\ file'[p] = file[p] /\ (Resting(p)' <=> Resting(p))
    BY DEF Frame, Resting
  <1>2. (\A p \in Ops : file'[p] = f => Resting(p)')
           => \A p \in Ops : file[p] = f => Resting(p)
    BY <1>1
  <1>3. Settled(f) => Settled(f)'
    BY DEF Settled
  <1> QED BY <1>2, <1>3 DEF ExactInv, Exact, Exists

(* While o is at work there is nothing to show.                               *)
LEMMA ExactLater ==
    ASSUME NEW o \in Ops, NEW f \in Files, file'[o] = f, status'[f] # "none",
           ~Resting(o)' \/ ~Exists(f)' \/ f \notin Calm'
    PROVE  Exact(f)'
  BY DEF Exact

(* An operation without a job that is not about to commit carries nothing.    *)
LEMMA NoWork ==
    ASSUME NEW o \in Ops, pc'[o] \notin {"commit", "enqueue"},
           jpc'[o] \in {"none", "saved", "done"}
    PROVE  WorkOK(o)'
  BY DEF WorkOK
LEMMA CalmShrinks ==
    ASSUME NEW o \in Ops, Frame(o), Respects(o), disturbed \subseteq disturbed'
    PROVE  Calm' \subseteq Calm
  BY DEF Calm, Frame, Respects

(* An upload is about a file without chunks that nobody works on.             *)
LEMMA UploadFileExact ==
    ASSUME TypeOK, PlaceInv, ExactInv, NEW o \in Ops, NEW u \in Uploads,
           UploadFile(o, u), Frame(o), Respects(o)
    PROVE  Replaces(o)
  <1> USE DEF TypeOK, OpTypes, JobTypes, StoreTypes
  <1>1. /\ pc[o] = "idle" /\ jpc[o] = "none"
        /\ UNCHANGED <<status, chunks, jpc, doomed, disturbed>>
    BY DEF UploadFile, PlaceInv, jobs
  <1>2. Calm' \subseteq Calm
    BY <1>1, CalmShrinks
  <1>3. CASE pc' = [pc EXCEPT ![o] = "done"] /\ UNCHANGED <<disk, file>>
    <2>1. WorkOK(o)'
      BY <1>1, <1>3, NoWork
    <2>2. \A f \in Files : Exact(f)'
      BY <1>1, <1>2, <1>3, ExactKept DEF Resting
    <2>3. ~Active(o)'
      BY <1>1, <1>3 DEF Active, Busy
    <2> QED BY <1>1, <1>3, <2>1, <2>2, <2>3 DEF Replaces, Exists
  <1>4. ASSUME NEW f \in Files, Unused(f),
               file' = [file EXCEPT ![o] = f], pc' = [pc EXCEPT ![o] = "insert"]
        PROVE  Replaces(o)
    <2>1. \A p \in Ops : Active(p) => file[p] # f
      BY <1>4 DEF Active, Busy, PlaceInv, Unused
    <2>2. WorkOK(o)'
      BY <1>1, <1>4, NoWork
    <2>3. Exact(f)'
      BY <1>1, <1>4 DEF ExactInv, Exact, Exists, Unused, Statuses
    <2>4. file'[o] = f
      BY <1>4
    <2> QED BY <1>1, <2>1, <2>2, <2>3, <2>4 DEF Replaces
  <1> QED BY <1>3, <1>4 DEF UploadFile, Goto

(* Operations begin on a file at rest, or the overlap is noticed.             *)
LEMMA StartExact ==
    ASSUME TypeOK, PlaceInv, ExactInv, NEW o \in Ops, NEW f \in Files,
           (\E k \in Kinds : StartEdit(o, k, f)) \/ StartDelete(o, f),
           Frame(o), Respects(o)
    PROVE  Replaces(o)
  <1> USE DEF TypeOK, OpTypes, JobTypes, StoreTypes
  <1>1. /\ pc[o] = "idle" /\ jpc[o] = "none" /\ file' = [file EXCEPT ![o] = f]
        /\ UNCHANGED <<status, disk, chunks, jpc, doomed>>
        /\ pc'[o] \in {"save", "delete"} /\ Enter(f)
    BY DEF StartEdit, StartDelete, Goto, PlaceInv, store, jobs
  <1>2. disturbed \subseteq disturbed'
    BY <1>1 DEF Enter
  <1>3. Calm' \subseteq Calm
    BY <1>2, CalmShrinks
  <1>4. f \in Calm' => \A p \in Ops : Active(p) => file[p] # f
    BY <1>1 DEF Enter, Calm, Active, Busy, OpBusy, JobBusy
  <1>5. WorkOK(o)'
    BY <1>1, NoWork
  <1>6. Exact(f)'
    BY <1>1, <1>3, ExactKept DEF Resting
  <1>7. file'[o] = f
    BY <1>1
  <1> QED BY <1>1, <1>2, <1>4, <1>5, <1>6, <1>7 DEF Replaces, Exists

(* The steps of an edit or a deletion, up to its commit.                      *)
LEMMA EditExact ==
    ASSUME TypeOK, PlaceInv, ExactInv, NEW o \in Ops,
           \/ InsertRow(o) \/ SaveVersion(o) \/ OpenFile(o) \/ WriteFile(o)
           \/ DeleteChunks(o) \/ Enqueue(o),
           Frame(o), Respects(o)
    PROVE  Replaces(o)
  <1> USE DEF TypeOK, OpTypes, JobTypes, StoreTypes, SessionTypes
  <1>0. PICK f \in Files : f = file[o]
    BY DEF InsertRow, SaveVersion, OpenFile, WriteFile, DeleteChunks, Enqueue
  <1>1. UNCHANGED <<chunks, file, kind, disturbed>>
    BY DEF InsertRow, SaveVersion, OpenFile, WriteFile, DeleteChunks, Enqueue,
           store, history
  <1>a. Active(o) /\ jpc[o] = "none"
    BY DEF InsertRow, SaveVersion, OpenFile, WriteFile, DeleteChunks, Enqueue,
           Active, Busy, PlaceInv
  <1>2. Calm' \subseteq Calm
    BY <1>1, CalmShrinks
  <1>3. \A p \in Ops \ {o} : Active(p) /\ file[p] = f => f \notin Calm'
    BY <1>0, <1>2, <1>a, AloneOnCalm
  <1>4. \A p \in Ops \ {o} : doomed'[p] = doomed[p]
    BY DEF InsertRow, SaveVersion, OpenFile, WriteFile, DeleteChunks, Enqueue, Finish
  <1>5. ASSUME WorkOK(o)', Exact(f)' PROVE Replaces(o)
    BY <1>0, <1>1, <1>3, <1>4, <1>5, <1>a DEF Replaces
  <1>6. CASE InsertRow(o)
    <2>1. /\ status[f] = "none" /\ chunks[f] = {} /\ kind[o] # "delete"
          /\ status' = [status EXCEPT ![f] = "uploaded"]
          /\ pc' = [pc EXCEPT ![o] = "enqueue"] /\ jpc' = jpc
      BY <1>0, <1>6 DEF InsertRow, Goto, SetStatus, PlaceInv, ExactInv, Exact, jobs
    <2>2. WorkOK(o)'
      BY <1>0, <1>1, <1>a, <2>1 DEF WorkOK
    <2>3. Exact(f)'
      BY <1>0, <1>1, <2>1, ExactLater DEF Resting
    <2> QED BY <1>5, <2>2, <2>3
  <1>7. CASE SaveVersion(o) \/ OpenFile(o) \/ WriteFile(o)
    <2>1. /\ status[f] # "none" /\ kind[o] # "delete" /\ UNCHANGED <<status, jpc>>
          /\ pc'[o] \in {"open", "write", "delete"}
      BY <1>0, <1>7 DEF SaveVersion, OpenFile, WriteFile, Goto, PlaceInv, store, jobs
    <2>2. WorkOK(o)'
      BY <1>a, <2>1, NoWork
    <2>3. Exact(f)'
      BY <1>0, <1>1, <2>1, ExactLater DEF Resting
    <2> QED BY <1>5, <2>2, <2>3
  <1>8. CASE DeleteChunks(o)
    <2>1. /\ status[f] # "none" /\ UNCHANGED <<status, disk, jpc>>
          /\ pc'[o] = "commit" /\ doomed'[o] = chunks[f]
      BY <1>0, <1>8 DEF DeleteChunks, Goto, PlaceInv, store, jobs
    <2>2. WorkOK(o)'
      BY <1>0, <1>1, <1>a, <2>1 DEF WorkOK
    <2>3. Exact(f)'
      <3>1. CASE kind[o] = "delete"
        BY <1>0, <1>1, <1>2, <1>a, <2>1, <3>1, ExactKept DEF Resting
      <3>2. CASE kind[o] # "delete"
        BY <1>0, <1>1, <2>1, <3>2, ExactLater DEF Resting
      <3> QED BY <3>1, <3>2
    <2> QED BY <1>5, <2>2, <2>3
  <1>9. CASE Enqueue(o)
    <2>1. /\ UNCHANGED <<status, disk>> /\ pc[o] = "enqueue"
          /\ pc'[o] = "done" /\ jpc'[o] = "queued"
      BY <1>9 DEF Enqueue, Finish, Goto, JobGoto, store
    <2>a. status[f] # "none"
      BY <1>0, <2>1 DEF PlaceInv
    <2>2. WorkOK(o)'
      BY <1>0, <1>1, <1>2, <2>1 DEF WorkOK, ExactInv, Exists
    <2>3. Exact(f)'
      BY <1>0, <1>1, <2>1, <2>a, ExactLater DEF Resting
    <2> QED BY <1>5, <2>2, <2>3
  <1> QED BY <1>6, <1>7, <1>8, <1>9

(* The commit of an edit takes all chunks with it: nobody has added any since *)
(* its DELETE.                                                                *)
LEMMA CommitEditExact ==
    ASSUME TypeOK, PlaceInv, ExactInv, NEW o \in Ops, CommitEdit(o),
           Frame(o), Respects(o)
    PROVE  Replaces(o)
  <1> USE DEF TypeOK, OpTypes, JobTypes, StoreTypes, SessionTypes
  <1>0. PICK f \in Files : f = file[o]
    BY DEF CommitEdit
  <1>1. /\ pc[o] = "commit" /\ kind[o] # "delete" /\ Active(o) /\ jpc[o] = "none"
        /\ status[f] # "none"
        /\ UNCHANGED <<disk, file, kind, jpc, disturbed>>
    BY <1>0 DEF CommitEdit, Active, Busy, PlaceInv, jobs, history
  <1>2. Calm' \subseteq Calm
    BY <1>1, CalmShrinks
  <1>3. \A p \in Ops \ {o} : Active(p) /\ file[p] = f => f \notin Calm'
    BY <1>0, <1>1, <1>2, AloneOnCalm
  <1>4. \A p \in Ops \ {o} : doomed'[p] = doomed[p]
    BY DEF CommitEdit, Finish, session
  <1>5. ASSUME WorkOK(o)', Exact(f)' PROVE Replaces(o)
    BY <1>0, <1>1, <1>3, <1>4, <1>5 DEF Replaces
  <1>6. CASE /\ Exists(f) /\ pc' = [pc EXCEPT ![o] = "enqueue"]
             /\ chunks' = [chunks EXCEPT ![f] = @ \ doomed[o]]
             /\ \/ status' = [status EXCEPT ![f] = "uploaded"]
                \/ UNCHANGED status
    <2>1. f \in Calm' => doomed[o] = chunks[f]
      BY <1>0, <1>1, <1>2, <1>6 DEF ExactInv, WorkOK
    <2>2. f \in Calm' => chunks'[f] = {}
      BY <1>6, <2>1
    <2>3. WorkOK(o)'
      BY <1>0, <1>1, <1>6, <2>2 DEF WorkOK
    <2>4. Exact(f)'
      BY <1>0, <1>1, <1>6, ExactLater DEF Resting
    <2> QED BY <1>5, <2>3, <2>4
  <1>7. CASE ~Exists(f) /\ UNCHANGED <<chunks, status>>
    <2>1. ~Exists(f)'
      BY <1>7 DEF Exists
    <2>2. WorkOK(o)'
      BY <1>0, <1>1, <2>1 DEF WorkOK
    <2>3. Exact(f)'
      BY <1>0, <1>1, <1>7, <2>1, ExactLater
    <2> QED BY <1>5, <2>2, <2>3
  <1> QED BY <1>0, <1>6, <1>7 DEF CommitEdit, Goto, SetStatus

(* Failures, and the end of a deletion.                                       *)
LEMMA FailOpExact ==
    ASSUME TypeOK, PlaceInv, ExactInv, NEW o \in Ops, FailOp(o), Frame(o), Respects(o)
    PROVE  Replaces(o)
  <1> USE DEF TypeOK, OpTypes, JobTypes, StoreTypes, SessionTypes
  <1>0. PICK f \in Files : f = file[o]
    BY DEF FailOp
  <1>1. /\ Active(o) /\ jpc[o] = "none" /\ pc'[o] = "done"
        /\ hurt' = IF LeftBehind(o) THEN hurt \cup {f} ELSE hurt
        /\ UNCHANGED <<status, disk, chunks, file, kind, jpc, disturbed>>
    BY <1>0 DEF FailOp, Finish, Goto, Active, Busy, PlaceInv, jobs
  <1>2. Calm' \subseteq Calm
    BY <1>1, CalmShrinks
  <1>3. \A p \in Ops \ {o} : Active(p) /\ file[p] = f => f \notin Calm'
    BY <1>0, <1>1, <1>2, AloneOnCalm
  <1>4. \A p \in Ops \ {o} : doomed'[p] = doomed[p]
    BY DEF FailOp, Finish
  <1>5. WorkOK(o)'
    BY <1>1, NoWork
  <1>6. Exact(f)'
    <2>1. CASE LeftBehind(o)
      BY <1>1, <2>1 DEF Exact, Calm, ExactInv
    <2>2. CASE pc[o] = "insert"
      BY <1>0, <1>1, <2>2 DEF Exact, ExactInv, PlaceInv, Exists, Statuses
    <2>3. CASE ~LeftBehind(o) /\ pc[o] # "insert"
      <3>1. Resting(o)
        BY <1>1, <2>3 DEF FailOp, LeftBehind, Resting
      <3> QED BY <1>1, <1>2, <3>1, ExactKept
    <2> QED BY <2>1, <2>2, <2>3
  <1> QED BY <1>0, <1>1, <1>3, <1>4, <1>5, <1>6 DEF Replaces

LEMMA DeleteExact ==
    ASSUME TypeOK, PlaceInv, ExactInv, NEW o \in Ops, CommitDelete(o) \/ UnlinkFile(o),
           Frame(o), Respects(o)
    PROVE  Replaces(o)
  <1> USE DEF TypeOK, OpTypes, JobTypes, StoreTypes, SessionTypes
  <1>0. PICK f \in Files : f = file[o]
    BY DEF CommitDelete, UnlinkFile
  <1>1. /\ Active(o) /\ jpc[o] = "none" /\ pc'[o] \in {"unlink", "done"}
        /\ status[f] # "none"
        /\ UNCHANGED <<file, kind, jpc, disturbed>>
    BY <1>0 DEF CommitDelete, UnlinkFile, Finish, Goto, Active, Busy, PlaceInv, jobs, history
  <1>2. Calm' \subseteq Calm
    BY <1>1, CalmShrinks
  <1>3. \A p \in Ops \ {o} : Active(p) /\ file[p] = f => f \notin Calm'
    BY <1>0, <1>1, <1>2, AloneOnCalm
  <1>4. \A p \in Ops \ {o} : doomed'[p] = doomed[p]
    BY DEF CommitDelete, UnlinkFile, Finish, session
  <1>5. WorkOK(o)'
    BY <1>1, NoWork
  <1>6. Exact(f)'
    <2>1. CASE status'[f] = "deleted"
      BY <1>0, <1>1, <2>1, ExactLater DEF Exists, Statuses
    <2>2. CASE kind[o] = "delete" /\ UNCHANGED <<status, disk, chunks>>
      BY <1>1, <1>2, <2>2, ExactKept DEF Resting
    <2>3. \/ status'[f] = "deleted"
          \/ kind[o] = "delete" /\ UNCHANGED <<status, disk, chunks>>
      BY <1>0 DEF CommitDelete, UnlinkFile, SetStatus, PlaceInv
    <2> QED BY <2>1, <2>2, <2>3
  <1> QED BY <1>0, <1>1, <1>3, <1>4, <1>5, <1>6 DEF Replaces
(* The job of an edit: it reads the text when there is no chunk, and commits  *)
(* it before anybody else has touched the file.                               *)
LEMMA JobExact ==
    ASSUME TypeOK, PlaceInv, ExactInv, NEW o \in Ops,
           JobStep(o) \/ FailJob(o) \/ KillWorker(o), Frame(o), Respects(o)
    PROVE  Replaces(o)
  <1> USE DEF TypeOK, OpTypes, JobTypes, StoreTypes, SessionTypes
  <1>0. PICK f \in Files : f = file[o]
    BY JobFrame
  <1>1. /\ UNCHANGED <<disk, file, kind, pc, doomed>>
        /\ disturbed \subseteq disturbed'
        /\ Exists(f)' => Exists(f)
    BY <1>0, JobFrame DEF JobStep, StartJob, ReadFile, SaveChunks, AckJob, RowGone, FailJob,
           KillWorker, store, ops, session, history
  <1>2. /\ jpc[o] \in {"queued", "read", "save", "saved"} /\ Active(o)
        /\ pc[o] = "done" /\ status[f] # "none"
    BY <1>0 DEF JobStep, StartJob, ReadFile, SaveChunks, AckJob, RowGone, FailJob, KillWorker,
           PlaceInv, Active
  <1>3. Calm' \subseteq Calm
    BY <1>1, CalmShrinks
  <1>4. \A p \in Ops \ {o} : Active(p) /\ file[p] = f => f \notin Calm'
    BY <1>0, <1>2, <1>3, AloneOnCalm
  <1>5. status'[f] # "none"
    <2>1. UNCHANGED status \/ \E s \in Statuses : status' = [status EXCEPT ![f] = s]
      BY <1>0 DEF JobStep, StartJob, ReadFile, SaveChunks, AckJob, RowGone, FailJob,
             KillWorker, SetStatus, Statuses, store
    <2> QED BY <1>2, <2>1 DEF Statuses
  <1>6. ASSUME WorkOK(o)', Exact(f)' PROVE Replaces(o)
    BY <1>0, <1>1, <1>2, <1>4, <1>6 DEF Replaces
  <1>7. /\ file'[o] = f /\ pc'[o] = "done"
    BY <1>0, <1>1, <1>2
  (* Four ways to leave the file as it should be.                             *)
  <1>gone. CASE f \notin Calm' \/ ~Exists(f)'
    <2>1. WorkOK(o)'
      BY <1>7, <1>gone DEF WorkOK
    <2>2. Exact(f)'
      BY <1>5, <1>7, <1>gone, ExactLater
    <2> QED BY <1>6, <2>1, <2>2
  <1>back. CASE /\ jpc[o] \in {"queued", "read", "save"} /\ UNCHANGED chunks
                /\ jpc'[o] \in {"queued", "read"} /\ f \in Calm' /\ Exists(f)'
    <2>1. chunks[f] = {}
      BY <1>0, <1>1, <1>3, <1>back DEF ExactInv, WorkOK
    <2>2. WorkOK(o)'
      BY <1>7, <1>back, <2>1 DEF WorkOK
    <2>3. Exact(f)'
      BY <1>5, <1>7, <1>back, ExactLater DEF Resting
    <2> QED BY <1>6, <2>2, <2>3
  <1>read. CASE /\ jpc[o] = "read" /\ UNCHANGED chunks /\ jpc'[o] = "save"
                /\ TextOf(disk[f]) # {} /\ text'[o] = TextOf(disk[f])
                /\ f \in Calm' /\ Exists(f)'
    <2>1. chunks[f] = {}
      BY <1>0, <1>1, <1>3, <1>read DEF ExactInv, WorkOK
    <2>2. TextOf(disk[f]) = disk[f]
      BY <1>read DEF TextOf
    <2>3. WorkOK(o)'
      BY <1>1, <1>7, <1>read, <2>1, <2>2 DEF WorkOK
    <2>4. Exact(f)'
      BY <1>5, <1>7, <1>read, ExactLater DEF Resting
    <2> QED BY <1>6, <2>3, <2>4
  <1>set. ASSUME jpc'[o] \in {"saved", "done"}, Settled(f)' PROVE Replaces(o)
    <2>1. WorkOK(o)'
      BY <1>7, <1>set, NoWork
    <2>2. Exact(f)'
      BY <1>5, <1>set DEF Exact
    <2> QED BY <1>6, <2>1, <2>2
  <1>8. CASE StartJob(o)
    <2>1. UNCHANGED chunks /\ (~Exists(f)' \/ jpc'[o] = "read") /\ jpc[o] = "queued"
      BY <1>0, <1>8 DEF StartJob, JobGoto, Exists
    <2> QED BY <1>gone, <1>back, <2>1
  <1>9. CASE ReadFile(o)
    <2>1. UNCHANGED chunks /\ jpc[o] = "read"
      BY <1>9 DEF ReadFile
    <2>2. CASE TextOf(disk[f]) # {} /\ text'[o] = TextOf(disk[f]) /\ jpc'[o] = "save"
      BY <1>gone, <1>read, <2>1, <2>2
    <2>3. CASE Exists(f) /\ jpc'[o] = "saved" /\ TextOf(disk[f]) = {}
      <3>1. disk[f] = {}
        BY <2>3 DEF TextOf, PlaceInv
      <3> QED BY <1>1, <1>set, <2>3, <3>1 DEF Settled
    <2>4. CASE f \in hurt'
      BY <1>gone, <2>4 DEF Calm
    <2> QED BY <1>0, <1>9, <2>2, <2>3, <2>4 DEF ReadFile, JobGoto
  <1>10. CASE SaveChunks(o)
    <2>1. CASE f \notin Calm'
      BY <1>gone, <2>1
    <2>2. CASE f \in Calm'
      <3>1. f \notin hurt'
        BY <2>2 DEF Calm
      <3>2. /\ status' = [status EXCEPT ![f] = "ready"] /\ jpc'[o] = "saved"
            /\ chunks' = [chunks EXCEPT ![f] = @ \cup {Batch(o, tries[o], text[o])}]
            /\ jpc[o] = "save" /\ Exists(f)
        BY <1>0, <1>10, <3>1 DEF SaveChunks, SetStatus, JobGoto
      <3>3. chunks[f] = {} /\ text[o] = disk[f]
        BY <1>0, <1>3, <2>2, <3>2 DEF ExactInv, WorkOK
      <3>4. chunks'[f] = {Batch(o, tries[o], text[o])}
        BY <3>2, <3>3
      <3>5. Batch(o, tries[o], text[o]).text = disk'[f]
        BY <1>1, <3>3 DEF Batch
      <3>6. Settled(f)'
        BY <3>2, <3>4, <3>5 DEF Settled
      <3> QED BY <1>set, <3>2, <3>6
    <2> QED BY <2>1, <2>2
  <1>11. CASE AckJob(o)
    <2>1. /\ jpc[o] = "saved" /\ jpc'[o] = "done" /\ UNCHANGED <<status, chunks, disk>>
      BY <1>11 DEF AckJob, EndJob, JobGoto, store
    <2>2. Exact(f)'
      BY <1>2, <1>3, <2>1, ExactKept DEF Resting
    <2>3. WorkOK(o)'
      BY <1>7, <2>1, NoWork
    <2> QED BY <1>6, <2>2, <2>3
  <1>12. CASE RowGone(o)
    BY <1>0, <1>1, <1>12, <1>gone DEF RowGone
  <1>13. CASE FailJob(o) \/ KillWorker(o)
    <2>1. /\ UNCHANGED chunks
          /\ \/ f \in hurt' \/ f \in disturbed'
             \/ jpc[o] \in {"queued", "read", "save"} /\ jpc'[o] = "queued"
      BY <1>0, <1>13 DEF FailJob, KillWorker, TryAgain, JobGoto, store
    <2> QED BY <1>gone, <1>back, <2>1 DEF Calm
  <1> QED BY <1>8, <1>9, <1>10, <1>11, <1>12, <1>13 DEF JobStep

(* At any time, also between the steps of a job: an undisturbed file has at    *)
(* most one batch of chunks, and whoever is busy with it will leave its text   *)
(* there (_process deletes before it inserts).                                 *)
THEOREM IndexExactly == Spec => []ExactInv
  <1>1. Init => ExactInv
    <2> SUFFICES ASSUME Init PROVE ExactInv
      OBVIOUS
    <2>1. PICK old \in Files \cup {Nothing} :
             /\ disk = [f \in Files |-> IF f = old THEN {First} ELSE Nothing]
             /\ status = [f \in Files |-> IF f = old THEN "ready" ELSE "none"]
             /\ chunks = [f \in Files |-> IF f = old THEN {Batch(First, 1, {First})}
                                          ELSE {}]
      BY DEF Init
    <2>2. \A f \in Files : Exact(f)
      <3>1. Batch(First, 1, {First}).text = {First}
        BY DEF Batch
      <3> QED BY <2>1, <3>1 DEF Exact, Settled, Exists, Statuses
    <2>3. \A o \in Ops : WorkOK(o)
      BY DEF Init, WorkOK
    <2>4. CalmInv
      BY DEF Init, CalmInv, Active, Busy
    <2> QED BY <2>2, <2>3, <2>4 DEF ExactInv
  <1>2. TypeOK /\ PlaceInv /\ AloneInv /\ GoneInv /\ ExactInv /\ [Next]_vars
           => ExactInv'
    <2> SUFFICES ASSUME TypeOK, PlaceInv, AloneInv, GoneInv, ExactInv, [Next]_vars
                 PROVE  ExactInv'
      OBVIOUS
    <2>1. CASE UNCHANGED vars
      BY <2>1 DEF ExactInv, CalmInv, Calm, Active, Busy, Exact, Settled, Resting, WorkOK,
                  Exists, vars, store, ops, session, jobs, history
    <2>2. CASE Next
      <3> PICK o \in Ops :
             \/ \E u \in Uploads : UploadFile(o, u)
             \/ \E k \in Kinds, f \in Files : StartEdit(o, k, f)
             \/ \E f \in Files : StartDelete(o, f)
             \/ OpStep(o) \/ FailOp(o)
             \/ JobStep(o) \/ FailJob(o) \/ KillWorker(o)
        BY <2>2 DEF Next
      <3>1. Frame(o) /\ Respects(o)
        BY StepsFrame
      <3>2. Replaces(o)
        BY <3>1, UploadFileExact, StartExact, EditExact, CommitEditExact, FailOpExact,
           DeleteExact, JobExact DEF OpStep
      <3> QED BY <3>1, <3>2, ExactStep
    <2> QED BY <2>1, <2>2
  <1> QED BY <1>1, <1>2, TypeCorrect, PlacesRight, NothingLeft, PTL DEF Spec

(* Unless operations and jobs of a file overlap, fail, or a job runs twice,   *)
(* the index of a file at rest holds its text once and nothing else, however  *)
(* often it was edited and however often its jobs were retried (_process).    *)
THEOREM IndexExact == Spec => []IndexIsExact
  <1>1. ExactInv => IndexIsExact
    <2> SUFFICES ASSUME ExactInv, NEW f \in Files \ (hurt \cup crossed \cup disturbed),
                        Quiet(f), Exists(f), disk[f] # {}
                 PROVE  /\ status[f] = "ready"
                        /\ \A b \in chunks[f] : b.text = disk[f]
                        /\ Cardinality(chunks[f]) = 1
      BY DEF IndexIsExact
    <2>1. \A o \in Ops : file[o] = f => Resting(o)
      BY DEF Quiet, OpBusy, JobBusy, Resting
    <2>2. Settled(f)
      BY <2>1 DEF ExactInv, Exact, Calm
    <2>3. status[f] = "ready" /\ \E b : chunks[f] = {b} /\ b.text = disk[f]
      BY <2>2 DEF Settled
    <2>4. PICK b : chunks[f] = {b} /\ b.text = disk[f]
      BY <2>3
    <2>5. Cardinality(chunks[f]) = 1
      BY <2>4, FS_Singleton
    <2> QED BY <2>3, <2>4, <2>5
  <1> QED BY <1>1, IndexExactly, PTL

==============================================================================
