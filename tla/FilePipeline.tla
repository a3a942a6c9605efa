----------------------------- MODULE FilePipeline -----------------------------
(* The files of ONE user: the files rows, the stored files on disk, the        *)
(* file_chunks the retriever searches, the file_versions a user can go back    *)
(* to, and everything that changes them: uploads (api/files), edits by the     *)
(* API or a tool (services/file_service.py), deletions, and the processing     *)
(* jobs of the arq worker (services/processor.py, services/arq_worker.py).     *)
(*                                                                             *)
(* Disk and database change in separate steps, edits take no lock, and a job   *)
(* reads the disk long before it commits its chunks. Files of different users  *)
(* never meet.                                                                 *)
EXTENDS Naturals, FiniteSets

CONSTANTS
    Files,       \* file ids
    Ops,         \* uploads, edits and deletions (each happens once)
    Uploads,     \* what is uploaded; equal uploads have equal hashes
    MaxTries,    \* _MAX_TRIES of the worker
    MaxFaults,   \* bound: failures in a behaviour
    Nothing,     \* no file, no upload, no content
    Raw,         \* uploads and edits that are not plain UTF-8 with LF lines
    Lost         \* what reading them as text leaves of them

Kinds == {"upload", "write", "append", "patch", "restore", "delete"}
Marks == Uploads \cup Ops \cup {Lost}   \* an edit leaves its mark in the text
Texts == SUBSET Marks

ASSUME FilePipelineAssumption ==
    /\ Uploads # {} /\ MaxTries \in Nat \ {0} /\ MaxFaults \in Nat
    /\ Nothing \notin Files \cup Uploads /\ \A t \in Texts : t # Nothing
    /\ Ops \cap Uploads = {}
    /\ Raw \subseteq Uploads \cup Ops /\ Lost \notin Uploads \cup Ops

VARIABLES
    status,    \* files.upload_status; "none" before, "deleted" after the row
    hash,      \* files.sha256_hash: the upload it was computed from
    disk,      \* the stored file, or Nothing
    chunks,    \* file_chunks, as the batches that jobs inserted
    versions,  \* file_versions
    pc, kind, file, \* each operation: place, kind, the file it is about
    plan,      \* the text it will write
    seen,      \* upload_status as its session loaded it
    snap,      \* the FileVersion it has added
    doomed,    \* the batches its DELETE removes
    dup,       \* the file an upload was answered with instead of a new one
    jpc, tries, text, \* its job: place, job_try, the text it extracted
    past,      \* history: texts a file has had, as the API shows them
    crossed,   \* history: files with operations that overlapped
    disturbed, \* history: files whose job overlapped an edit, or ran again
    hurt,      \* history: files on which a step failed or was incomplete
    stuck,     \* history: files whose job was lost
    faults     \* failures so far

session == <<plan, seen, snap, doomed>>
ops == <<pc, kind, file, session, dup>>
jobs == <<jpc, tries, text>>
store == <<status, hash, disk, chunks, versions>>
history == <<past, crossed, disturbed, hurt, stuck, faults>>
vars == <<store, ops, jobs, history>>

Statuses == {"uploaded", "processing", "ready", "partial", "failed", "error"}
Exists(f) == status[f] \in Statuses
TextOf(d) == IF d = Nothing THEN {} ELSE d
(* _sync_read, and GET /files/{id}/content: undecodable bytes are replaced and *)
(* line ends translated.                                                      *)
AsText(t) == IF t \cap Raw = {} THEN t ELSE (t \ Raw) \cup {Lost}
Batch(o, n, t) == [by |-> o, try |-> n, text |-> t]
First == CHOOSE u \in Uploads : TRUE

OpBusy(f) == \E o \in Ops : file[o] = f /\ pc[o] \notin {"idle", "done"}
JobBusy(f) == \E o \in Ops : file[o] = f /\ jpc[o] \notin {"none", "done"}

(* A behaviour begins with no file, or with one that is processed.            *)
Init ==
    /\ \E old \in Files \cup {Nothing} :
          /\ status = [f \in Files |-> IF f = old THEN "ready" ELSE "none"]
          /\ hash = [f \in Files |-> IF f = old THEN First ELSE Nothing]
          /\ disk = [f \in Files |-> IF f = old THEN {First} ELSE Nothing]
          /\ chunks = [f \in Files |-> IF f = old THEN {Batch(First, 1, {First})}
                                      ELSE {}]
          /\ past = [f \in Files |-> IF f = old THEN {AsText({First})} ELSE {}]
    /\ versions = [f \in Files |-> {}]
    /\ pc = [o \in Ops |-> "idle"] /\ kind = [o \in Ops |-> "none"]
    /\ file = [o \in Ops |-> Nothing] /\ plan = [o \in Ops |-> {}]
    /\ seen = [o \in Ops |-> "none"] /\ snap = [o \in Ops |-> {}]
    /\ doomed = [o \in Ops |-> {}] /\ dup = [o \in Ops |-> Nothing]
    /\ jpc = [o \in Ops |-> "none"] /\ tries = [o \in Ops |-> 0]
    /\ text = [o \in Ops |-> {}]
    /\ crossed = {} /\ disturbed = {} /\ hurt = {} /\ stuck = {}
    /\ faults = 0

Goto(o, l) == pc' = [pc EXCEPT ![o] = l]
(* The operation is over and its session closed.                              *)
Finish(o) ==
    /\ Goto(o, "done")
    /\ plan' = [plan EXCEPT ![o] = {}] /\ seen' = [seen EXCEPT ![o] = "none"]
    /\ snap' = [snap EXCEPT ![o] = {}] /\ doomed' = [doomed EXCEPT ![o] = {}]

JobGoto(o, l) == jpc' = [jpc EXCEPT ![o] = l]
Fault == faults < MaxFaults /\ faults' = faults + 1
SetStatus(f, s) == status' = [status EXCEPT ![f] = s]

------------------------------------------------------------------------------
(* Uploads: the file is stored under a new name, hashed on the way, and       *)
(* dropped again if a row of the user has the hash. Nobody else knows the new *)
(* name yet.                                                                  *)

Unused(f) == status[f] = "none" /\ disk[f] = Nothing

UploadFile(o, u) ==
    /\ pc[o] = "idle" /\ kind' = [kind EXCEPT ![o] = "upload"]
    /\ \/ \E g \in Files :
             /\ Exists(g) /\ hash[g] = u
             /\ dup' = [dup EXCEPT ![o] = g] /\ Goto(o, "done")
             /\ UNCHANGED <<disk, file, plan, past>>
       \/ \E f \in Files :
             /\ ~\E g \in Files : Exists(g) /\ hash[g] = u
             /\ Unused(f)
             /\ disk' = [disk EXCEPT ![f] = {u}]
             /\ past' = [past EXCEPT ![f] = {AsText({u})}]
             /\ file' = [file EXCEPT ![o] = f] /\ plan' = [plan EXCEPT ![o] = {u}]
             /\ Goto(o, "insert") /\ UNCHANGED dup
    /\ UNCHANGED <<status, hash, chunks, versions, seen, snap, doomed, jobs,
                   crossed, disturbed, hurt, stuck, faults>>

(* The row is inserted; there is no unique index on the hash.                 *)
InsertRow(o) ==
    /\ pc[o] = "insert" /\ Goto(o, "enqueue")
    /\ SetStatus(file[o], "uploaded")
    /\ \E u \in plan[o] : hash' = [hash EXCEPT ![file[o]] = u]
    /\ UNCHANGED <<disk, chunks, versions, kind, file, plan, seen, snap, doomed,
                   dup, jobs, history>>

------------------------------------------------------------------------------
(* Edits: write_content, append_content, patch_content, restore_version.      *)

(* Beginning an operation on a file others are busy with.                     *)
Enter(f) ==
    /\ crossed' = IF OpBusy(f) THEN crossed \cup {f} ELSE crossed
    /\ disturbed' = IF JobBusy(f) THEN disturbed \cup {f} ELSE disturbed

(* What the file is to become, as far as that is known before it is written.  *)
(* _fuzzy_replace works on the text as read now, and all of it is written     *)
(* back as it was read.                                                       *)
Planned(o, k, f) ==
    CASE k = "write"   -> {{}, {o}}
      [] k = "append"  -> {{o}}
      [] k = "patch"   -> LET t == AsText(TextOf(disk[f]))
                          IN  {(t \ {m}) \cup {o} : m \in t}
      [] k = "restore" -> {v.text : v \in versions[f]}
      [] OTHER         -> {}

StartEdit(o, k, f) ==
    /\ pc[o] = "idle" /\ Exists(f)
    /\ kind' = [kind EXCEPT ![o] = k] /\ file' = [file EXCEPT ![o] = f]
    /\ \E p \in Planned(o, k, f) : plan' = [plan EXCEPT ![o] = p]
    /\ seen' = [seen EXCEPT ![o] = status[f]]
    /\ Goto(o, "save") /\ Enter(f)
    /\ UNCHANGED <<store, snap, doomed, dup, jobs, past, hurt, stuck,
                   faults>>

(* Mutant: appending is taken to lose nothing.                                *)
SaveVersionNotOnAppend(o) ==
    LET f == file[o]
    IN  /\ pc[o] = "save" /\ Goto(o, "open")
        /\ snap' = [snap EXCEPT ![o] =
                       IF disk[f] = Nothing \/ kind[o] = "append" THEN {}
                       ELSE {[by |-> o, version |-> Cardinality(versions[f]) + 1,
                              text |-> AsText(disk[f])]}]
        /\ UNCHANGED <<store, kind, file, plan, seen, doomed, dup, jobs, history>>

(* save_version: number and text of the snapshot. What reading the file as    *)
(* text loses is lost; a file that cannot be read at all is only logged.      *)
SaveVersion(o) ==
    LET f == file[o]
    IN  /\ pc[o] = "save" /\ Goto(o, "open")
        /\ snap' = [snap EXCEPT ![o] =
                       IF disk[f] = Nothing THEN {}
                       ELSE {[by |-> o, version |-> Cardinality(versions[f]) + 1,
                              text |-> AsText(disk[f])]}]
        /\ UNCHANGED <<store, kind, file, plan, seen, doomed, dup, jobs, history>>

(* open(path, "w") empties the file, or creates it; "a" does not empty it.    *)
OpenFile(o) ==
    LET f == file[o]
    IN  /\ pc[o] = "open" /\ Goto(o, "write")
        /\ disk' = [disk EXCEPT ![f] = IF kind[o] = "append" THEN TextOf(@) ELSE {}]
        /\ UNCHANGED <<status, hash, chunks, versions, kind, file, plan, seen,
                       snap, doomed, dup, jobs, history>>

(* The text is written; an append goes behind whatever is there by now.       *)
WriteFile(o) ==
    LET f == file[o]
        t == IF kind[o] = "append" THEN TextOf(disk[f]) \cup plan[o] ELSE plan[o]
    IN  /\ pc[o] = "write" /\ Goto(o, "delete")
        /\ disk' = [disk EXCEPT ![f] = t]
        /\ past' = [past EXCEPT ![f] = @ \cup {AsText(t)}]
        /\ UNCHANGED <<status, hash, chunks, versions, kind, file, plan, seen,
                       snap, doomed, dup, jobs, crossed, disturbed, hurt, stuck,
                       faults>>

(* Mutant: an edit leaves the chunks alone.                                   *)
DeleteChunksNot(o) ==
    /\ pc[o] = "delete" /\ Goto(o, "commit")
    /\ UNCHANGED <<store, kind, file, plan, seen, snap, doomed, dup, jobs, history>>

(* DELETE FROM file_chunks: the ones committed by now.                        *)
DeleteChunks(o) ==
    /\ pc[o] = "delete" /\ Goto(o, "commit")
    /\ doomed' = [doomed EXCEPT ![o] = chunks[file[o]]]
    /\ UNCHANGED <<store, kind, file, plan, seen, snap, dup, jobs, history>>

(* The commit of an edit: the version, the deletion, and upload_status if the *)
(* session has it differently. When the row is gone it fails, unless there is *)
(* neither a version to insert nor a status to change.                        *)
CommitEdit(o) ==
    LET f == file[o]
    IN  /\ pc[o] = "commit" /\ kind[o] # "delete"
        /\ \/ /\ Exists(f) /\ Goto(o, "enqueue")
              /\ versions' = [versions EXCEPT ![f] = @ \cup snap[o]]
              /\ chunks' = [chunks EXCEPT ![f] = @ \ doomed[o]]
              /\ IF seen[o] # "uploaded" THEN SetStatus(f, "uploaded")
                 ELSE UNCHANGED status
              /\ UNCHANGED session
           \/ /\ ~Exists(f) /\ UNCHANGED <<versions, chunks, status>>
              /\ IF snap[o] = {} /\ seen[o] = "uploaded"
                 THEN Goto(o, "enqueue") /\ UNCHANGED session
                 ELSE Finish(o)
        /\ UNCHANGED <<hash, disk, kind, file, dup, jobs, history>>

(* Mutant: one job per file at a time.                                        *)
EnqueueOnce(o) ==
    /\ pc[o] = "enqueue" /\ Finish(o)
    /\ IF JobBusy(file[o]) THEN UNCHANGED <<jpc, tries>>
       ELSE JobGoto(o, "queued") /\ tries' = [tries EXCEPT ![o] = 1]
    /\ UNCHANGED <<store, kind, file, dup, text, history>>

(* process_file_async, as a task of its own.                                  *)
Enqueue(o) ==
    /\ pc[o] = "enqueue" /\ Finish(o)
    /\ JobGoto(o, "queued") /\ tries' = [tries EXCEPT ![o] = 1]
    /\ UNCHANGED <<store, kind, file, dup, text, history>>

(* An operation fails (disk full, database, Redis) or its process dies: what  *)
(* it did to the disk, or has committed, stays. The session of a chat turn    *)
(* outlives an edit whose file could not be written, and commits its version. *)
LeftBehind(o) ==
    \/ pc[o] \in {"open", "write", "enqueue", "unlink"}
    \/ pc[o] \in {"delete", "commit"} /\ kind[o] # "delete"

FailOp(o) ==
    LET f == file[o]
    IN  /\ pc[o] \in {"insert", "save", "open", "write", "delete", "commit",
                      "enqueue", "unlink"}
        /\ Finish(o) /\ Fault
        /\ \/ UNCHANGED versions
           \/ /\ pc[o] \in {"open", "write"} /\ Exists(f)
              /\ versions' = [versions EXCEPT ![f] = @ \cup snap[o]]
        /\ hurt' = IF LeftBehind(o) THEN hurt \cup {f} ELSE hurt
        /\ stuck' = IF pc[o] = "enqueue" THEN stuck \cup {f} ELSE stuck
        /\ UNCHANGED <<status, hash, disk, chunks, kind, file, dup, jobs, past,
                       crossed, disturbed>>

------------------------------------------------------------------------------
(* DELETE /files/{id}: chunks, then the row (its versions with it), then the  *)
(* stored file. Chunks that were inserted meanwhile keep the row: the foreign *)
(* key fails the commit. A version an edit has inserted locks the row until   *)
(* that edit commits.                                                         *)
StartDelete(o, f) ==
    /\ pc[o] = "idle" /\ Exists(f)
    /\ kind' = [kind EXCEPT ![o] = "delete"] /\ file' = [file EXCEPT ![o] = f]
    /\ Goto(o, "delete") /\ Enter(f)
    /\ UNCHANGED <<store, plan, seen, snap, doomed, dup, jobs, past, hurt, stuck,
                   faults>>

CommitDelete(o) ==
    LET f == file[o]
    IN  /\ pc[o] = "commit" /\ kind[o] = "delete"
        /\ \A p \in Ops : pc[p] = "commit" /\ file[p] = f => snap[p] = {}
        /\ \/ /\ chunks[f] \subseteq doomed[o] /\ Goto(o, "unlink")
              /\ SetStatus(f, "deleted")
              /\ chunks' = [chunks EXCEPT ![f] = {}]
              /\ versions' = [versions EXCEPT ![f] = {}]
              /\ UNCHANGED session
           \/ /\ ~(chunks[f] \subseteq doomed[o]) /\ Finish(o)
              /\ UNCHANGED <<status, chunks, versions>>
        /\ UNCHANGED <<hash, disk, kind, file, dup, jobs, history>>

UnlinkFile(o) ==
    /\ pc[o] = "unlink" /\ Finish(o)
    /\ disk' = [disk EXCEPT ![file[o]] = Nothing]
    /\ UNCHANGED <<status, hash, chunks, versions, kind, file, dup, jobs, history>>

------------------------------------------------------------------------------
(* The processing job (process_file_job, _process).                           *)

EndJob(o) ==
    /\ JobGoto(o, "done")
    /\ tries' = [tries EXCEPT ![o] = 0] /\ text' = [text EXCEPT ![o] = {}]

StartJob(o) ==
    LET f == file[o]
    IN  /\ jpc[o] = "queued"
        /\ \/ ~Exists(f) /\ EndJob(o) /\ UNCHANGED status
           \/ /\ Exists(f) /\ JobGoto(o, "read") /\ SetStatus(f, "processing")
              /\ UNCHANGED <<tries, text>>
        /\ UNCHANGED <<hash, disk, chunks, versions, ops, history>>

(* The text is extracted, or there is none: an empty or unreadable file, a    *)
(* format that cannot be read, an image without words (which is "ready" all   *)
(* the same). Without text the job ends here, in a commit.                    *)
ReadFile(o) ==
    LET f == file[o]
        t == TextOf(disk[f])
    IN  /\ jpc[o] = "read"
        /\ \/ /\ t # {} /\ text' = [text EXCEPT ![o] = t]
              /\ JobGoto(o, "save") /\ UNCHANGED <<status, hurt, faults>>
           \/ /\ Exists(f) /\ JobGoto(o, "saved") /\ UNCHANGED text
              /\ \E s \in {"ready", "error"} : SetStatus(f, s)
              /\ \/ t = {} /\ UNCHANGED <<hurt, faults>>
                 \/ t # {} /\ Fault /\ hurt' = hurt \cup {f}
        /\ UNCHANGED <<hash, disk, chunks, versions, ops, tries, past, crossed,
                       disturbed, stuck>>

(* Mutant: the chunks do not need their file.                                 *)
SaveChunksAnyway(o) ==
    LET f == file[o]
    IN  /\ jpc[o] = "save" /\ JobGoto(o, "saved")
        /\ chunks' = [chunks EXCEPT ![f] = @ \cup {Batch(o, tries[o], text[o])}]
        /\ IF Exists(f) THEN SetStatus(f, "ready") ELSE UNCHANGED status
        /\ UNCHANGED <<hash, disk, versions, ops, tries, text, history>>

(* All chunks got their embedding, or some, or none; one commit.              *)
SaveChunks(o) ==
    LET f == file[o]
    IN  /\ jpc[o] = "save" /\ Exists(f) /\ JobGoto(o, "saved")
        /\ \/ /\ SetStatus(f, "ready")
              /\ chunks' = [chunks EXCEPT ![f] = @ \cup {Batch(o, tries[o], text[o])}]
              /\ UNCHANGED <<hurt, faults>>
           \/ /\ SetStatus(f, "partial") /\ Fault
              /\ chunks' = [chunks EXCEPT ![f] = @ \cup {Batch(o, tries[o], {})}]
              /\ hurt' = hurt \cup {f}
           \/ /\ SetStatus(f, "failed") /\ Fault /\ UNCHANGED chunks
              /\ hurt' = hurt \cup {f}
        /\ UNCHANGED <<hash, disk, versions, ops, tries, text, past, crossed,
                       disturbed, stuck>>

AckJob(o) ==
    /\ jpc[o] = "saved" /\ EndJob(o)
    /\ UNCHANGED <<store, ops, history>>

(* The job goes back to the queue, with what it had forgotten.                *)
TryAgain(o) ==
    /\ tries[o] < MaxTries /\ JobGoto(o, "queued")
    /\ tries' = [tries EXCEPT ![o] = @ + 1] /\ text' = [text EXCEPT ![o] = {}]

(* Mutant: the last failure is only logged.                                   *)
FailJobSilent(o) ==
    /\ jpc[o] \in {"queued", "read", "save"} /\ Fault
    /\ \/ TryAgain(o) /\ UNCHANGED hurt
       \/ /\ tries[o] = MaxTries /\ EndJob(o)
          /\ hurt' = hurt \cup {file[o]}
    /\ UNCHANGED <<store, ops, past, crossed, disturbed, stuck>>

(* An exception rolls the session back: the job is tried again, and after the *)
(* last try the file gets "error", if the database lets it.                   *)
FailJob(o) ==
    LET f == file[o]
    IN  /\ jpc[o] \in {"queued", "read", "save"} /\ Fault
        /\ \/ TryAgain(o) /\ UNCHANGED <<status, hurt, stuck>>
           \/ /\ tries[o] = MaxTries /\ EndJob(o) /\ hurt' = hurt \cup {f}
              /\ \/ /\ IF Exists(f) THEN SetStatus(f, "error") ELSE UNCHANGED status
                    /\ UNCHANGED stuck
                 \/ UNCHANGED status /\ stuck' = stuck \cup {f}
        /\ UNCHANGED <<hash, disk, chunks, versions, ops, past, crossed, disturbed>>

(* The row is gone: the commit of the job fails, and the next try finds no    *)
(* row to work on.                                                            *)
RowGone(o) ==
    /\ jpc[o] \in {"read", "save"} /\ ~Exists(file[o])
    /\ TryAgain(o) \/ (tries[o] = MaxTries /\ EndJob(o))
    /\ UNCHANGED <<store, ops, history>>

(* The worker dies: arq runs the job again unless it was the last try. A job  *)
(* whose chunks are committed inserts them once more.                         *)
KillWorker(o) ==
    LET f == file[o]
    IN  /\ jpc[o] \in {"read", "save", "saved"} /\ Fault
        /\ \/ TryAgain(o) /\ UNCHANGED <<hurt, stuck>>
           \/ /\ tries[o] = MaxTries /\ EndJob(o)
              /\ hurt' = hurt \cup {f} /\ stuck' = stuck \cup {f}
        /\ disturbed' = IF jpc[o] = "saved" THEN disturbed \cup {f} ELSE disturbed
        /\ UNCHANGED <<store, ops, past, crossed>>

------------------------------------------------------------------------------
OpStep(o) ==
    \/ InsertRow(o) \/ SaveVersion(o) \/ OpenFile(o) \/ WriteFile(o)
    \/ DeleteChunks(o) \/ CommitEdit(o) \/ Enqueue(o)
    \/ CommitDelete(o) \/ UnlinkFile(o)

JobStep(o) == StartJob(o) \/ ReadFile(o) \/ SaveChunks(o) \/ AckJob(o) \/ RowGone(o)

Next ==
    \E o \in Ops :
        \/ \E u \in Uploads : UploadFile(o, u)
        \/ \E k \in Kinds, f \in Files : StartEdit(o, k, f)
        \/ \E f \in Files : StartDelete(o, f)
        \/ OpStep(o) \/ FailOp(o)
        \/ JobStep(o) \/ FailJob(o) \/ KillWorker(o)

(* Operations that have begun and jobs that are queued run on: the worker     *)
(* polls its queue, and everything they wait for has a timeout.               *)
Fairness == \A o \in Ops : WF_vars(OpStep(o)) /\ WF_vars(JobStep(o))

Spec == Init /\ [][Next]_vars /\ Fairness
------------------------------------------------------------------------------
Batches == [by : Marks, try : Nat, text : Texts]
Snapshots == [by : Ops, version : Nat, text : Texts]

StoreTypes ==
    /\ status \in [Files -> Statuses \cup {"none", "deleted"}]
    /\ hash \in [Files -> Marks \cup {Nothing}]
    /\ disk \in [Files -> {Nothing} \cup Texts]
    /\ chunks \in [Files -> SUBSET Batches]
    /\ versions \in [Files -> SUBSET Snapshots]
    /\ \A f \in Files : IsFiniteSet(versions[f])

OpTypes ==
    /\ pc \in [Ops -> {"idle", "insert", "save", "open", "write", "delete",
                       "commit", "enqueue", "unlink", "done"}]
    /\ kind \in [Ops -> Kinds \cup {"none"}]
    /\ file \in [Ops -> Files \cup {Nothing}]
    /\ \A o \in Ops : pc[o] \notin {"idle", "done"} => file[o] \in Files
    /\ dup \in [Ops -> Files \cup {Nothing}]

SessionTypes ==
    /\ plan \in [Ops -> Texts]
    /\ seen \in [Ops -> Statuses \cup {"none"}]
    /\ snap \in [Ops -> SUBSET Snapshots]
    /\ \A o \in Ops : IsFiniteSet(snap[o])
    /\ doomed \in [Ops -> SUBSET Batches]

JobTypes ==
    /\ jpc \in [Ops -> {"none", "queued", "read", "save", "saved", "done"}]
    /\ \A o \in Ops : jpc[o] # "none" => file[o] \in Files
    /\ tries \in [Ops -> 0..MaxTries]
    /\ text \in [Ops -> Texts]

HistoryTypes ==
    /\ past \in [Files -> SUBSET Texts]
    /\ crossed \subseteq Files /\ disturbed \subseteq Files
    /\ hurt \subseteq Files /\ stuck \subseteq Files
    /\ faults \in Nat

TypeOK == StoreTypes /\ OpTypes /\ SessionTypes /\ JobTypes /\ HistoryTypes

Quiet(f) == ~OpBusy(f) /\ ~JobBusy(f)

(* However edits and jobs of a file overlap: once all of them are through and  *)
(* none has failed, the text on disk is in the index. No edit is answered with *)
(* "Re-embedding in background" and then never found (file_service, _process). *)
CurrentIsIndexed ==
    \A f \in Files \ hurt :
        Quiet(f) /\ Exists(f) /\ disk[f] # {}
            => \E b \in chunks[f] : b.text = disk[f]

(* If they do not overlap either, and no job ran twice, the index holds the    *)
(* text once and nothing else: no text of an earlier version is retrieved.     *)
IndexIsExact ==
    \A f \in Files \ (hurt \cup crossed \cup disturbed) :
        Quiet(f) /\ Exists(f) /\ disk[f] # {}
            => /\ status[f] = "ready"
               /\ \A b \in chunks[f] : b.text = disk[f]
               /\ Cardinality(chunks[f]) = 1

(* "Snapshot current file content before any mutation" (save_version): unless  *)
(* edits overlap or fail, every text GET /files/{id}/content could have shown   *)
(* of a file is its text now or one of its versions, and the versions have     *)
(* different numbers. Of a file that is not plain text this is all that is     *)
(* kept: its bytes are gone with the first edit (file_service.py:17-18).       *)
HistoryIsComplete ==
    \A f \in Files \ (hurt \cup crossed) :
        ~OpBusy(f) /\ Exists(f)
            => /\ past[f] \subseteq {AsText(disk[f])} \cup {v.text : v \in versions[f]}
               /\ \A v, w \in versions[f] : v.version = w.version => v = w

(* A deletion leaves nothing behind, even if a job was working on the file:    *)
(* no chunk of a deleted file is ever in the index, and unless edits overlap   *)
(* with it or fail the stored file is gone too (delete_file).                  *)
DeletedIsGone ==
    \A f \in Files :
        status[f] = "deleted"
            => /\ chunks[f] = {} /\ versions[f] = {}
               /\ f \notin hurt \cup crossed /\ ~OpBusy(f) => disk[f] = Nothing

(* A file is not "uploaded" or "processing" for ever, unless its job was lost  *)
(* (the status stream and the frontend wait for that).                         *)
StatusSettles ==
    \A f \in Files : status[f] \in {"uploaded", "processing"}
        ~> (status[f] \notin {"uploaded", "processing"} \/ f \in stuck)

------------------------------------------------------------------------------
(* Inductive strengthenings, for the proofs.                                  *)

(* Where an operation can be, given what has become of its file: nobody but   *)
(* its upload knows a file without a row, and only its deletion unlinks it.   *)
PlaceInv ==
    /\ \A o \in Ops : pc[o] # "done" => jpc[o] = "none"
    /\ \A o \in Ops : jpc[o] # "none" => status[file[o]] # "none"
    /\ \A o \in Ops :
          pc[o] \notin {"idle", "insert", "done"} => status[file[o]] # "none"
    /\ \A o \in Ops : pc[o] \in {"insert", "save", "open", "write", "enqueue"}
          => kind[o] # "delete"
    /\ \A o \in Ops : pc[o] = "insert"
          => status[file[o]] = "none" /\ disk[file[o]] # Nothing
    /\ \A o, p \in Ops : pc[o] = "insert" /\ pc[p] = "insert" /\ file[o] = file[p]
          => o = p
    /\ \A o \in Ops : pc[o] = "unlink" => status[file[o]] = "deleted"
    /\ \A f \in Files : Exists(f) => disk[f] # Nothing

(* The text on disk is in the index, or somebody carries it there: an         *)
(* operation that has changed it and will start a job, a job that has yet to  *)
(* read it, or a job that has.                                                *)
Carries(o, f) ==
    /\ file[o] = f
    /\ \/ kind[o] # "delete" /\ pc[o] \in {"write", "delete", "commit", "enqueue"}
       \/ jpc[o] \in {"queued", "read"}
       \/ jpc[o] = "save" /\ text[o] = disk[f]
Covered(f) ==
    \/ disk[f] = {}
    \/ \E o \in Ops : Carries(o, f)
    \/ \E b \in chunks[f] : b.text = disk[f]
IndexInv == \A f \in Files \ hurt : Exists(f) => Covered(f)

(* Unless operations on a file have overlapped, at most one is busy with it.  *)
Busy(o) == pc[o] \notin {"idle", "done"}
AloneInv ==
    \A o, p \in Ops : Busy(o) /\ Busy(p) /\ file[o] = file[p] /\ file[o] \notin crossed
        => o = p

(* The row takes chunks and versions with it, and then the file is unlinked   *)
(* before anybody else can be busy with it.                                   *)
GoneInv ==
    /\ \A f \in Files : status[f] = "deleted" => chunks[f] = {} /\ versions[f] = {}
    /\ \A o \in Ops : Busy(o) /\ status[file[o]] = "deleted" /\ file[o] \notin crossed
          => pc[o] = "unlink"
    /\ \A f \in Files \ (hurt \cup crossed) : status[f] = "deleted"
          => disk[f] = Nothing \/ \E o \in Ops : file[o] = f /\ pc[o] = "unlink"

==============================================================================
