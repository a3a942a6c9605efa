------------------------------ MODULE UserMemory ------------------------------
(* The memory sheet of ONE user: the user_memory row, its user_memory_versions *)
(* snapshots, the per-user write lock (core/locks.py) and everything that      *)
(* writes the row.                                                             *)
(*                                                                             *)
(*   - background jobs (llm/summarizer): take the lock, read the row into      *)
(*     their session, wait for a model call, then commit the session;          *)
(*   - request handlers (api/memory.py): do NOT take the lock; two of them     *)
(*     serialize on the row with SELECT ... FOR UPDATE, the others, and an     *)
(*     administrator's reset and restore (api/admin/memory.py), read and write *)
(*     plainly;                                                                *)
(*   - chat turns (api/chat/helpers.py): bump the row's salience and hold the  *)
(*     row's database lock from the first autoflush to the end of the turn.    *)
(*                                                                             *)
(* Rows of different users never meet, so one user is the whole problem.       *)
(* A sheet is the set of its lines; a model's answer is any sheet at all.      *)
EXTENDS Naturals, FiniteSets

CONSTANTS
    Facts,       \* lines a user or a model may put on the sheet
    Jobs,        \* background jobs that may run (each runs once)
    Requests,    \* calls of the /memory and /admin/memory endpoints (each served once)
    Chats,       \* chat turns
    Backends,    \* the MEMORY_LOCK_BACKEND values an operator uses
    CompactMin,  \* a sheet with fewer lines is too small to compact
    MaxSalience, \* the cap 2.0 on salience, in decay steps
    ClearBelow,  \* salience 0.3, in decay steps
    DefaultSalience, \* the column's default 1.0, in decay steps
    StartRows,   \* the rows a behaviour may start from
    Nobody       \* not a job, not a chat

Kinds == {"update", "restructure", "compact", "project", "prefs"}
Lines == Facts \cup {"pref", "merged", "[USER]"}
Projects == {"", "p"}

Row == [content : SUBSET Lines, project : Projects, version : Nat,
        salience : Nat]
(* No row is version 0 of the empty sheet, as GET /memory shows it; a         *)
(* committed row has version 1 or more.                                       *)
NoRow == [content |-> {}, project |-> "", version |-> 0, salience |-> 0]

ASSUME UserMemoryAssumption ==
    /\ Backends \subseteq {"pg", "redis"} /\ Backends # {}
    /\ CompactMin \in Nat \ {0}
    /\ MaxSalience \in Nat \ {0} /\ ClearBelow \in 1..MaxSalience
    /\ DefaultSalience \in ClearBelow..MaxSalience
    /\ StartRows \subseteq Row
    /\ Nobody \notin Jobs \cup Chats
    /\ Jobs \cap Requests = {} /\ Jobs \cap Chats = {} /\ Requests \cap Chats = {}

VARIABLES
    row,       \* the committed user_memory row, or NoRow
    versions,  \* the committed user_memory_versions rows
    rowLock,   \* the chat turn whose uncommitted UPDATE holds the row
    backend,   \* config.MEMORY_LOCK_BACKEND as last reloaded
    pgLock,    \* holder of pg_advisory_xact_lock(user_id)
    redisLock, \* token stored under lock:mem:<user_id>
    pc, kind, via, \* where a job is, what it does, the lock backend it saw
    seen,      \* the row as a session read it
    plan,      \* the row as a session will write it
    past       \* history: every sheet that was ever committed

mem == <<row, versions, past>>
vars == <<row, versions, rowLock, backend, pgLock, redisLock,
          pc, kind, via, seen, plan, past>>

Procs == Jobs \cup Requests \cup Chats
Exists(r) == r.version > 0
Sheets == [content : SUBSET Lines, project : Projects, version : Nat]
Snapshot(r) == [content |-> r.content, project |-> r.project,
                version |-> r.version]

------------------------------------------------------------------------------
(* Salience, counted in decay steps: 0 is the 0.0 a cleared sheet gets, which *)
(* neither x0.95 nor x1.1 ever changes.                                       *)
DecaySalience(s) == IF s <= 1 THEN s ELSE s - 1
Capped(s) == IF s > MaxSalience THEN MaxSalience ELSE s
ComputeSalience(s) == IF s = 0 THEN 0 ELSE Capped(s + 1)

RowOf(c, p, v, s) ==
    [content |-> c, project |-> p, version |-> v, salience |-> s]

(* What a session's commit does to the row: the ORM emits only the columns    *)
(* whose value differs from the one it loaded.                                *)
Flush(old, new, now) ==
    IF ~Exists(old) THEN new
    ELSE RowOf(IF new.content # old.content THEN new.content ELSE now.content,
               IF new.project # old.project THEN new.project ELSE now.project,
               IF new.version # old.version THEN new.version ELSE now.version,
               IF new.salience # old.salience THEN new.salience ELSE now.salience)

Init ==
    /\ row \in StartRows /\ versions = {}
    /\ past = {Snapshot(row), Snapshot(NoRow)}
    /\ rowLock = Nobody /\ pgLock = Nobody /\ redisLock = Nobody
    /\ backend \in Backends
    /\ pc = [p \in Procs |-> "idle"]
    /\ kind = [j \in Jobs |-> "none"] /\ via = [j \in Jobs |-> "none"]
    /\ seen = [p \in Procs |-> NoRow] /\ plan = [p \in Procs |-> NoRow]

Goto(p, l) == pc' = [pc EXCEPT ![p] = l]

CloseSession(p) ==
    /\ seen' = [seen EXCEPT ![p] = NoRow] /\ plan' = [plan EXCEPT ![p] = NoRow]

(* Mutant: the advisory lock outlives the transaction (a session-level lock). *)
LeaveKeepsPgLock(j) ==
    /\ CloseSession(j)
    /\ Goto(j, IF via[j] = "redis" THEN "release" ELSE "done")
    /\ UNCHANGED <<pgLock, redisLock>>

(* Leaving user_write_lock and closing the session: what was not committed is *)
(* rolled back, and with the transaction goes the advisory lock. A Redis lock *)
(* is released by a call of its own.                                          *)
Leave(j) ==
    /\ CloseSession(j)
    /\ Goto(j, IF via[j] = "redis" THEN "release" ELSE "done")
    /\ pgLock' = IF pgLock = j THEN Nobody ELSE pgLock
    /\ UNCHANGED redisLock

------------------------------------------------------------------------------
(* Background jobs.                                                           *)

(* A chat turn, the scheduler or an endpoint creates the task. Preferences    *)
(* ask the model first; the other jobs enter the lock at once.                *)
Start(j, k) ==
    /\ kind' = [kind EXCEPT ![j] = k]
    /\ via' = [via EXCEPT ![j] = IF k = "prefs" THEN "none" ELSE backend]
    /\ Goto(j, IF k = "prefs" THEN "ask" ELSE "lock")

Spawn(j, k) ==
    /\ pc[j] = "idle" /\ k # "restructure"
    /\ Start(j, k)
    /\ UNCHANGED <<mem, rowLock, backend, pgLock, redisLock, seen, plan>>

(* extract_preferences asks the model outside the lock; it gives up when the  *)
(* call fails or the answer has no [PREFERENCES] block.                       *)
PrefsAnswer(j) ==
    /\ pc[j] = "ask"
    /\ \/ Goto(j, "done") /\ UNCHANGED via
       \/ Goto(j, "lock") /\ via' = [via EXCEPT ![j] = backend]
    /\ UNCHANGED <<mem, rowLock, backend, pgLock, redisLock, kind, seen, plan>>

(* Mutant: pg_try_advisory_xact_lock with its answer ignored.                 *)
AcquirePgUnchecked(j) ==
    /\ pc[j] = "lock" /\ via[j] = "pg"
    /\ pgLock' = (IF pgLock = Nobody THEN j ELSE pgLock) /\ Goto(j, "read")
    /\ UNCHANGED <<mem, rowLock, backend, redisLock, kind, via, seen, plan>>

AcquirePg(j) ==
    /\ pc[j] = "lock" /\ via[j] = "pg" /\ pgLock = Nobody
    /\ pgLock' = j /\ Goto(j, "read")
    /\ UNCHANGED <<mem, rowLock, backend, redisLock, kind, via, seen, plan>>

AcquireRedis(j) ==
    /\ pc[j] = "lock" /\ via[j] = "redis" /\ redisLock = Nobody
    /\ redisLock' = j /\ Goto(j, "read")
    /\ UNCHANGED <<mem, rowLock, backend, pgLock, kind, via, seen, plan>>

(* MEMORY_LOCK_WAIT is over and the key is still there: TimeoutError.         *)
LockTimeout(j) ==
    /\ pc[j] = "lock" /\ via[j] = "redis" /\ redisLock # Nobody
    /\ Goto(j, "done")
    /\ UNCHANGED <<mem, rowLock, backend, pgLock, redisLock, kind, via, seen, plan>>

(* MEMORY_LOCK_TTL is over: Redis drops the key, whoever still relies on it.  *)
ExpireRedis ==
    /\ redisLock # Nobody /\ redisLock' = Nobody
    /\ UNCHANGED <<mem, rowLock, backend, pgLock, pc, kind, via, seen, plan>>

(* db.get, then the early returns. "update" and "project" return when there   *)
(* is nothing new to summarize, which the sheet does not tell.                *)
NothingToDo(k, r) ==
    CASE k = "restructure" -> r.content = {}
      [] k = "compact"     -> Cardinality(r.content) < CompactMin
      [] k = "prefs"       -> FALSE
      [] OTHER             -> TRUE

MustWork(k) == k \in {"restructure", "compact", "prefs"}
Decayed(r) == RowOf(r.content, r.project, r.version, DecaySalience(r.salience))
Cleared(r) == RowOf({}, "", r.version + 1, 0)

(* _replace_or_append_pref: the block replaces the old one, and with it any   *)
(* lines that were appended behind it before the next section.                *)
WithPrefs(r) ==
    {RowOf(c \cup {"pref"}, r.project, r.version + 1,
           IF ~Exists(r) THEN DefaultSalience ELSE r.salience) :
        c \in IF "pref" \in r.content THEN SUBSET (r.content \ {"pref"})
              ELSE {r.content}}

ReadRow(j) ==
    /\ pc[j] = "read"
    /\ \/ NothingToDo(kind[j], row) /\ Leave(j)
       \/ /\ MustWork(kind[j]) => ~NothingToDo(kind[j], row)
          /\ seen' = [seen EXCEPT ![j] = row]
          /\ \/ /\ kind[j] = "prefs"
                /\ \E r \in WithPrefs(row) : plan' = [plan EXCEPT ![j] = r]
                /\ Goto(j, "write")
             \/ /\ kind[j] = "compact" /\ Decayed(row).salience < ClearBelow
                /\ plan' = [plan EXCEPT ![j] = Cleared(row)]
                /\ Goto(j, "write")
             \/ /\ kind[j] = "compact" => Decayed(row).salience >= ClearBelow
                /\ kind[j] # "prefs"
                /\ Goto(j, "call") /\ UNCHANGED plan
          /\ UNCHANGED <<pgLock, redisLock>>
    /\ UNCHANGED <<mem, rowLock, backend, kind, via>>

(* Mutants: a project summary that does not count as a version; a version     *)
(* counted back.                                                              *)
RewrittenSameVersion(k, r, c, p) ==
    IF k = "project" /\ Exists(r) THEN RowOf(r.content, p, r.version, r.salience)
    ELSE RowOf(c, r.project, r.version + 1, DefaultSalience)
RewrittenDown(k, r, c, p) == RowOf(c, r.project, r.version - 1, r.salience)

(* The sheet a job will write, given the row it read and the model's answer.  *)
Rewritten(k, r, c, p) ==
    LET s == IF ~Exists(r) THEN DefaultSalience
             ELSE IF k = "compact" THEN Capped(DecaySalience(r.salience) + 1)
             ELSE r.salience
    IN  IF k = "project" THEN RowOf(r.content, p, r.version + 1, s)
        ELSE RowOf(c, r.project, r.version + 1, s)

(* The model answered: a failure or "no update" ends the job, anything else   *)
(* becomes the new sheet (compaction asks about conflicts before it commits). *)
ModelAnswer(j) ==
    /\ pc[j] = "call"
    /\ \/ Leave(j)
       \/ /\ \E c \in SUBSET Facts \ {{}}, p \in Projects \ {""} :
                plan' = [plan EXCEPT ![j] = Rewritten(kind[j], seen[j], c, p)]
          /\ Goto(j, "write") /\ UNCHANGED <<pgLock, redisLock, seen>>
    /\ UNCHANGED <<mem, rowLock, backend, kind, via>>

(* Mutants: clearing without a snapshot; a snapshot taken after the rewrite.  *)
SnapshotOfRewrites(j) ==
    IF ~Exists(seen[j]) \/ plan[j].content = {} THEN {} ELSE {Snapshot(seen[j])}
SnapshotOfPlan(j) ==
    IF ~Exists(seen[j]) /\ kind[j] # "prefs" THEN {}
    ELSE {[Snapshot(plan[j]) EXCEPT !.version = seen[j].version]}

(* Whether a job stores a snapshot of the row it read.                        *)
SnapshotOf(j) ==
    IF ~Exists(seen[j]) /\ kind[j] # "prefs" THEN {} ELSE {Snapshot(seen[j])}

CommitRow(new, snaps) ==
    /\ row' = new
    /\ versions' = versions \cup snaps
    /\ past' = past \cup {Snapshot(new)}

(* db.commit: the snapshot and the columns that changed, in one transaction.  *)
(* An INSERT meets the row another session inserted meanwhile and fails; an   *)
(* UPDATE waits for the turn that holds the row.                              *)
Commit(j) ==
    /\ pc[j] = "write"
    /\ \/ ~Exists(seen[j]) /\ Exists(row) /\ UNCHANGED mem
       \/ /\ ~(~Exists(seen[j]) /\ Exists(row))
          /\ Exists(row) => rowLock = Nobody
          /\ CommitRow(Flush(seen[j], plan[j], row), SnapshotOf(j))
    /\ Leave(j)
    /\ UNCHANGED <<rowLock, backend, kind, via>>

(* Mutant: an unconditional DEL.                                              *)
ReleaseAnyRedis(j) ==
    /\ pc[j] = "release"
    /\ redisLock' = Nobody /\ Goto(j, "done")
    /\ UNCHANGED <<mem, rowLock, backend, pgLock, kind, via, seen, plan>>

(* _release_redis_lock: delete the key only while it holds our token.         *)
ReleaseRedis(j) ==
    /\ pc[j] = "release"
    /\ redisLock' = IF redisLock = j THEN Nobody ELSE redisLock
    /\ Goto(j, "done")
    /\ UNCHANGED <<mem, rowLock, backend, pgLock, kind, via, seen, plan>>

(* An exception in the locked section rolls back and is logged.               *)
Fail(j) ==
    /\ pc[j] \in {"read", "call", "write"}
    /\ Leave(j)
    /\ UNCHANGED <<mem, rowLock, backend, kind, via>>

(* The process dies: Postgres rolls back and frees the advisory lock with the *)
(* connection; a Redis key stays until it expires.                            *)
Kill(j) ==
    /\ pc[j] \in {"ask", "lock", "read", "call", "write", "release"}
    /\ Goto(j, "done") /\ CloseSession(j)
    /\ pgLock' = IF pgLock = j THEN Nobody ELSE pgLock
    /\ UNCHANGED <<mem, rowLock, backend, redisLock, kind, via>>

(* /admin/env/reload changes the backend under running jobs.                  *)
ReloadEnv(b) ==
    /\ b \in Backends \ {backend} /\ backend' = b
    /\ UNCHANGED <<mem, rowLock, pgLock, redisLock, pc, kind, via, seen, plan>>

------------------------------------------------------------------------------
(* Request handlers. The two FOR UPDATE handlers hold the row from their read *)
(* to their commit, so each is one step; one that loses the race to insert    *)
(* the row answers 500 and changes nothing.                                   *)

ForUpdate(r) == pc[r] = "idle" /\ rowLock = Nobody

(* POST /memory/write, and the restructuring task it starts.                  *)
WriteMemoryFact(r, f, j) ==
    /\ ForUpdate(r) /\ pc[j] = "idle"
    /\ IF ~Exists(row)
       THEN CommitRow(RowOf({f}, "", 1, 1), {})
       ELSE CommitRow(RowOf(row.content \cup {f}, row.project, row.version + 1,
                            row.salience + 1),
                      {Snapshot(row)})
    /\ kind' = [kind EXCEPT ![j] = "restructure"]
    /\ via' = [via EXCEPT ![j] = backend]
    /\ pc' = [pc EXCEPT ![r] = "done", ![j] = "lock"]
    /\ UNCHANGED <<rowLock, backend, pgLock, redisLock, seen, plan>>

(* PUT /memory and POST /memory/import replace both texts.                    *)
WriteMemory(r, c, p) ==
    /\ ForUpdate(r)
    /\ IF ~Exists(row)
       THEN CommitRow(RowOf(c, p, 1, DefaultSalience), {})
       ELSE CommitRow(RowOf(c, p, row.version + 1, row.salience), {Snapshot(row)})
    /\ Goto(r, "done")
    /\ UNCHANGED <<rowLock, backend, pgLock, redisLock, kind, via, seen, plan>>

(* resolve_conflict on a conflict between lines a and b: a plain read, no     *)
(* snapshot.                                                                  *)
Resolved(c, strategy, a, b) ==
    CASE strategy = "keep_a"       -> c \ {b}
      [] strategy = "keep_b"       -> c \ {a}
      [] strategy = "discard_both" -> c \ {a, b}
      [] strategy = "merge"        -> (c \ {a, b}) \cup {"merged"}

ResolveConflict(r, strategy, a, b) ==
    /\ pc[r] = "idle" /\ Exists(row)
    /\ seen' = [seen EXCEPT ![r] = row]
    /\ plan' = [plan EXCEPT ![r] =
                   RowOf(Resolved(row.content, strategy, a, b), row.project,
                         row.version + 1, row.salience)]
    /\ Goto(r, "write")
    /\ UNCHANGED <<mem, rowLock, backend, pgLock, redisLock, kind, via>>

(* POST /memory/decay.                                                        *)
DecayMemory(r) ==
    /\ pc[r] = "idle" /\ Exists(row)
    /\ seen' = [seen EXCEPT ![r] = row]
    /\ plan' = [plan EXCEPT ![r] = Decayed(row)]
    /\ Goto(r, "write")
    /\ UNCHANGED <<mem, rowLock, backend, pgLock, redisLock, kind, via>>

RequestCommit(r) ==
    /\ pc[r] = "write" /\ rowLock = Nobody
    /\ CommitRow(Flush(seen[r], plan[r], row), {})
    /\ Goto(r, "done") /\ CloseSession(r)
    /\ UNCHANGED <<rowLock, backend, pgLock, redisLock, kind, via>>

(* POST /admin/memory/reset: _backup_user reads the row and stores a snapshot *)
(* of what it read, in a session of its own; a hard reset then reads it again *)
(* and writes it, a soft one leaves it. _backup_user skips an empty sheet.    *)
BackupUser(r) ==
    /\ pc[r] = "idle"
    /\ seen' = [seen EXCEPT ![r] = row]
    /\ Goto(r, "backup")
    /\ UNCHANGED <<mem, rowLock, backend, pgLock, redisLock, kind, via, plan>>

BackupCommit(r) ==
    /\ pc[r] = "backup"
    /\ versions' = versions \cup (IF seen[r].content = {} THEN {} ELSE {Snapshot(seen[r])})
    /\ CloseSession(r)
    /\ Goto(r, "reset") \/ Goto(r, "done")
    /\ UNCHANGED <<row, past, rowLock, backend, pgLock, redisLock, kind, via>>

HardReset(r) ==
    /\ pc[r] = "reset"
    /\ IF Exists(row)
       THEN /\ seen' = [seen EXCEPT ![r] = row]
            /\ plan' = [plan EXCEPT ![r] = RowOf({"[USER]"}, "", row.version + 1, 0)]
            /\ Goto(r, "keep")
       ELSE Goto(r, "done") /\ UNCHANGED <<seen, plan>>
    /\ UNCHANGED <<mem, rowLock, backend, pgLock, redisLock, kind, via>>

(* POST /admin/memory/restore of one of the user's snapshots.                 *)
RestoreMemory(r, v) ==
    /\ pc[r] = "idle" /\ v \in versions /\ Exists(row)
    /\ seen' = [seen EXCEPT ![r] = row]
    /\ plan' = [plan EXCEPT ![r] =
                   RowOf(v.content, v.project, row.version + 1, row.salience)]
    /\ Goto(r, "keep")
    /\ UNCHANGED <<mem, rowLock, backend, pgLock, redisLock, kind, via>>

(* Both store a snapshot of the row they read with their write.               *)
AdminCommit(r) ==
    /\ pc[r] = "keep" /\ rowLock = Nobody
    /\ CommitRow(Flush(seen[r], plan[r], row), {Snapshot(seen[r])})
    /\ Goto(r, "done") /\ CloseSession(r)
    /\ UNCHANGED <<rowLock, backend, pgLock, redisLock, kind, via>>

------------------------------------------------------------------------------
(* Chat turns: _build_stream_context loads the row and bumps its salience;    *)
(* the next query autoflushes that UPDATE, which keeps the row locked until   *)
(* the turn commits or is rolled back.                                        *)

ChatLoad(c) ==
    /\ pc[c] = "idle" /\ Exists(row)
    /\ seen' = [seen EXCEPT ![c] = row]
    /\ plan' = [plan EXCEPT ![c] =
                   RowOf(row.content, row.project, row.version,
                         ComputeSalience(row.salience))]
    /\ Goto(c, "loaded")
    /\ UNCHANGED <<mem, rowLock, backend, pgLock, redisLock, kind, via>>

ChatFlush(c) ==
    /\ pc[c] = "loaded" /\ rowLock = Nobody
    /\ rowLock' = c /\ Goto(c, "open")
    /\ UNCHANGED <<mem, backend, pgLock, redisLock, kind, via, seen, plan>>

ChatEnd(c) ==
    /\ pc[c] = "open"
    /\ \/ CommitRow(Flush(seen[c], plan[c], row), {})
       \/ UNCHANGED mem
    /\ rowLock' = Nobody /\ Goto(c, "done") /\ CloseSession(c)
    /\ UNCHANGED <<backend, pgLock, redisLock, kind, via>>

------------------------------------------------------------------------------
JobStep(j) ==
    \/ PrefsAnswer(j) \/ AcquirePg(j) \/ AcquireRedis(j) \/ LockTimeout(j)
    \/ ReadRow(j) \/ ModelAnswer(j) \/ Commit(j) \/ ReleaseRedis(j)

RequestStep(r) ==
    \/ \E f \in Facts, j \in Jobs : WriteMemoryFact(r, f, j)
    \/ \E c \in SUBSET Facts, p \in Projects : WriteMemory(r, c, p)
    \/ \E s \in {"keep_a", "keep_b", "merge", "discard_both"}, a, b \in Facts :
          ResolveConflict(r, s, a, b)
    \/ DecayMemory(r)
    \/ RequestCommit(r)
    \/ BackupUser(r) \/ BackupCommit(r) \/ HardReset(r) \/ AdminCommit(r)
    \/ \E v \in versions : RestoreMemory(r, v)

ChatStep(c) == ChatFlush(c) \/ ChatEnd(c)

Next ==
    \/ \E j \in Jobs : \/ JobStep(j) \/ Fail(j) \/ Kill(j)
                       \/ \E k \in Kinds : Spawn(j, k)
    \/ \E r \in Requests : RequestStep(r)
    \/ \E c \in Chats : ChatLoad(c) \/ ChatStep(c)
    \/ ExpireRedis
    \/ \E b \in Backends : ReloadEnv(b)

(* A started job runs on: model calls and lock waits have timeouts, and so    *)
(* has a turn (STREAM_TURN_BUDGET). Nothing makes anybody start a job.        *)
Fairness ==
    /\ \A j \in Jobs : WF_vars(JobStep(j))
    /\ \A c \in Chats : WF_vars(ChatStep(c))

Spec == Init /\ [][Next]_vars /\ Fairness
------------------------------------------------------------------------------
(* Properties.                                                                *)

TypeOK ==
    /\ row \in Row
    /\ versions \subseteq Sheets /\ past \subseteq Sheets
    /\ rowLock \in Chats \cup {Nobody}
    /\ backend \in Backends
    /\ pgLock \in Jobs \cup {Nobody} /\ redisLock \in Jobs \cup {Nobody}
    /\ pc \in [Procs -> {"idle", "ask", "lock", "read", "call", "write",
                         "release", "done", "loaded", "open", "backup", "reset", "keep"}]
    /\ kind \in [Jobs -> Kinds \cup {"none"}]
    /\ via \in [Jobs -> {"none", "pg", "redis"}]
    /\ seen \in [Procs -> Row]
    /\ plan \in [Procs -> Row]

InSection(j) == pc[j] \in {"read", "call", "write"}

(* user_write_lock: at most one background job is between reading the sheet   *)
(* and committing its rewrite (core/locks.py).                                *)
MutualExclusion ==
    \A i, j \in Jobs : InSection(i) /\ InSection(j) => i = j

(* Every row of user_memory_versions is a sheet the user really had, with the *)
(* version number it had then: no writer snapshots a half-applied rewrite.    *)
SnapshotsAreReal == versions \subseteq past

(* As long as no request handler, the user's or the administrator's, has       *)
(* touched the sheet (none of them takes the lock): whenever a step changes    *)
(* one of its texts, the sheet it replaces is in user_memory_versions          *)
(* afterwards. Compaction and summaries lose nothing the user could not look   *)
(* up in the history.                                                          *)
NoRequestYet == \A r \in Requests : pc[r] = "idle"
KeepsReplaced ==
    \/ row.content = row'.content /\ row.project = row'.project
    \/ ~Exists(row)
    \/ Snapshot(row) \in versions'
ReplacedSheetIsKept == [][NoRequestYet' => KeepsReplaced]_vars

(* "Memory compaction: LLM-driven dedup and merge; snapshots to                *)
(* UserMemoryVersion" (docs/features.md): the same, of compaction alone.       *)
CompactionSnapshots ==
    [][\A j \in Jobs : kind[j] = "compact" /\ pc[j] = "write" /\ pc'[j] # "write"
                          => KeepsReplaced]_vars

(* Until then no two snapshots share a version number: the history is a       *)
(* sequence.                                                                  *)
VersionsAreDistinct ==
    NoRequestYet => \A s, t \in versions : s.version = t.version => s = t

(* The compare-and-delete release: a lock key disappears only because its TTL *)
(* is over or because its own holder releases it.                             *)
OnlyHolderReleases ==
    [][\/ ExpireRedis
       \/ redisLock' = redisLock \/ redisLock = Nobody
       \/ pc[redisLock] = "release"]_vars

(* A job that was started ends: no job waits for ever on the advisory lock,   *)
(* on the Redis key or on the row a chat turn holds.                          *)
JobsFinish == \A j \in Jobs : pc[j] # "idle" ~> pc[j] = "done"

------------------------------------------------------------------------------
(* Inductive strengthenings, for the proofs.                                  *)

(* With the advisory lock, being in the section means holding the lock.       *)
PgInv ==
    /\ \A j \in Jobs : pc[j] \in {"lock", "read", "call", "write"} => via[j] = "pg"
    /\ \A j \in Jobs : InSection(j) => pgLock = j

(* Whatever a session read was committed.                                     *)
HistoryInv ==
    /\ versions \subseteq past
    /\ Snapshot(row) \in past /\ Snapshot(NoRow) \in past
    /\ \A p \in Procs : Snapshot(seen[p]) \in past

(* A job in the section still has the current sheet in its session, and a     *)
(* turn plans to change nothing but the salience.                             *)
FreshInv ==
    /\ \A j \in Jobs : pc[j] \in {"call", "write"} => Snapshot(seen[j]) = Snapshot(row)
    /\ \A c \in Chats : pc[c] \in {"loaded", "open"}
                           => Exists(seen[c]) /\ Snapshot(plan[c]) = Snapshot(seen[c])

==============================================================================
