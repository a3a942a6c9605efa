--------------------------- MODULE UserMemoryProofs ---------------------------
(* Theorems about UserMemory, for any number of jobs, requests, turns, facts. *)
EXTENDS UserMemory, TLAPS

------------------------------------------------------------------------------
(* What the operators return.                                                 *)

LEMMA SalienceType ==
    ASSUME NEW s \in Nat
    PROVE  /\ DecaySalience(s) \in Nat
           /\ Capped(s) \in Nat
           /\ ComputeSalience(s) \in Nat
  BY UserMemoryAssumption DEF DecaySalience, Capped, ComputeSalience

LEMMA NoRowFacts ==
    /\ NoRow.content = {} /\ NoRow.project = "" /\ NoRow.version = 0
    /\ NoRow.salience = 0
    /\ NoRow \in Row
  BY DEF NoRow, Row, Projects

LEMMA FieldTypes ==
    ASSUME NEW r \in Row
    PROVE  /\ r.content \in SUBSET Lines /\ r.project \in Projects
           /\ r.version \in Nat /\ r.salience \in Nat
  BY NoRowFacts DEF Row, Projects

LEMMA SnapshotType ==
    ASSUME NEW r \in Row
    PROVE  Snapshot(r) \in Sheets
  BY FieldTypes DEF Snapshot, Sheets

LEMMA RowOfType ==
    ASSUME NEW c \in SUBSET Lines, NEW p \in Projects, NEW v \in Nat, NEW s \in Nat
    PROVE  RowOf(c, p, v, s) \in Row
  BY DEF RowOf, Row

LEMMA RowOfFields ==
    ASSUME NEW c, NEW p, NEW v, NEW s
    PROVE  /\ RowOf(c, p, v, s).content = c /\ RowOf(c, p, v, s).project = p
           /\ RowOf(c, p, v, s).version = v /\ RowOf(c, p, v, s).salience = s
  BY DEF RowOf

(* A flush keeps the row well-formed.                                         *)
LEMMA FlushType ==
    ASSUME NEW old \in Row, NEW new \in Row, NEW now \in Row
    PROVE  Flush(old, new, now) \in Row
  <1>1. /\ new.content \in SUBSET Lines /\ new.project \in Projects
        /\ new.version \in Nat /\ new.salience \in Nat
        /\ now.content \in SUBSET Lines /\ now.project \in Projects
        /\ now.version \in Nat /\ now.salience \in Nat
    BY FieldTypes
  <1>2. CASE ~Exists(old)
    BY <1>2 DEF Flush
  <1>3. CASE Exists(old)
    BY <1>1, <1>3, RowOfType DEF Flush
  <1> QED BY <1>2, <1>3

LEMMA ConstantTypes ==
    /\ DefaultSalience \in Nat
    /\ {} \in SUBSET Lines
    /\ "" \in Projects
  <1>1. DefaultSalience \in Nat
    BY UserMemoryAssumption
  <1> QED BY <1>1 DEF Projects

LEMMA RewrittenType ==
    ASSUME NEW k, NEW r \in Row, NEW c \in SUBSET Lines, NEW p \in Projects
    PROVE  Rewritten(k, r, c, p) \in Row
  <1>1. /\ r.content \in SUBSET Lines /\ r.project \in Projects
        /\ r.version + 1 \in Nat /\ r.salience \in Nat
    BY FieldTypes
  <1>2. DecaySalience(r.salience) + 1 \in Nat
    BY <1>1, SalienceType
  <1>3. Capped(DecaySalience(r.salience) + 1) \in Nat
    BY <1>2, SalienceType
  <1> QED BY <1>1, <1>3, ConstantTypes, RowOfType DEF Rewritten

LEMMA WithPrefsType ==
    ASSUME NEW r \in Row, NEW q \in WithPrefs(r)
    PROVE  q \in Row
  <1>1. PICK c \in SUBSET r.content :
           q = RowOf(c \cup {"pref"}, r.project, r.version + 1,
                     IF ~Exists(r) THEN DefaultSalience ELSE r.salience)
    BY DEF WithPrefs
  <1>2. c \cup {"pref"} \in SUBSET Lines
    BY FieldTypes DEF Lines
  <1>3. r.project \in Projects /\ r.version + 1 \in Nat /\ r.salience \in Nat
    BY FieldTypes
  <1> QED BY <1>1, <1>2, <1>3, ConstantTypes, RowOfType

LEMMA ClearedType ==
    ASSUME NEW r \in Row
    PROVE  Cleared(r) \in Row
  <1>1. r.version + 1 \in Nat /\ 0 \in Nat
    BY FieldTypes
  <1> QED BY <1>1, ConstantTypes, RowOfType DEF Cleared

LEMMA DecayedType ==
    ASSUME NEW r \in Row
    PROVE  Decayed(r) \in Row
  BY FieldTypes, SalienceType, RowOfType DEF Decayed

LEMMA SheetFields ==
    ASSUME NEW v \in Sheets
    PROVE  v.content \in SUBSET Lines /\ v.project \in Projects /\ v.version \in Nat
  BY DEF Sheets

LEMMA BackendType == TypeOK => backend \in {"none", "pg", "redis"}
  BY UserMemoryAssumption DEF TypeOK

LEMMA CommitRowType ==
    ASSUME TypeOK, NEW new \in Row, NEW snaps \in SUBSET Sheets,
           CommitRow(new, snaps)
    PROVE  row' \in Row /\ versions' \subseteq Sheets /\ past' \subseteq Sheets
  <1>1. Snapshot(new) \in Sheets
    BY SnapshotType
  <1> QED BY <1>1 DEF CommitRow, TypeOK

LEMMA LeaveType ==
    ASSUME TypeOK, NEW j \in Jobs, Leave(j)
    PROVE  /\ pc' \in [Procs -> {"idle", "ask", "lock", "read", "call", "write",
                                 "release", "done", "loaded", "open", "backup", "reset", "keep"}]
           /\ seen' \in [Procs -> Row] /\ plan' \in [Procs -> Row]
           /\ pgLock' \in Jobs \cup {Nobody} /\ redisLock' \in Jobs \cup {Nobody}
  BY NoRowFacts DEF TypeOK, Leave, CloseSession, Goto

------------------------------------------------------------------------------
(* Type correctness.                                                          *)

LEMMA TypeStep == TypeOK /\ [Next]_vars => TypeOK'
  <1> SUFFICES ASSUME TypeOK, [Next]_vars PROVE TypeOK'
    OBVIOUS
  <1> USE DEF Procs
  <1>job. ASSUME NEW j \in Jobs, JobStep(j) \/ Fail(j) \/ Kill(j)
                                   \/ \E k \in Kinds : Spawn(j, k)
          PROVE  TypeOK'
    <2>1. ASSUME NEW k \in Kinds, Spawn(j, k) PROVE TypeOK'
      BY <2>1, BackendType DEF Spawn, Start, Goto, TypeOK, mem, Kinds
    <2>2. CASE PrefsAnswer(j)
      BY <2>2, BackendType DEF PrefsAnswer, Goto, TypeOK, mem
    <2>3. CASE AcquirePg(j)
      BY <2>3 DEF AcquirePg, Goto, TypeOK, mem
    <2>4. CASE AcquireRedis(j)
      BY <2>4 DEF AcquireRedis, Goto, TypeOK, mem
    <2>5. CASE LockTimeout(j)
      BY <2>5 DEF LockTimeout, Goto, TypeOK, mem
    <2>6. CASE ReadRow(j)
      <3>1. row \in Row
        BY DEF TypeOK
      <3>2. CASE NothingToDo(kind[j], row) /\ Leave(j)
        BY <2>6, <3>2, LeaveType DEF ReadRow, TypeOK, mem
      <3>3. CASE /\ seen' = [seen EXCEPT ![j] = row]
                 /\ UNCHANGED <<pgLock, redisLock>>
                 /\ \/ \E r \in Row : plan' = [plan EXCEPT ![j] = r]
                    \/ UNCHANGED plan
                 /\ Goto(j, "write") \/ Goto(j, "call")
        BY <2>6, <3>1, <3>3 DEF ReadRow, TypeOK, mem, Goto
      <3> QED BY <2>6, <3>1, <3>2, <3>3, WithPrefsType, ClearedType DEF ReadRow
    <2>7. CASE ModelAnswer(j)
      <3>1. CASE Leave(j)
        BY <2>7, <3>1, LeaveType DEF ModelAnswer, TypeOK, mem
      <3>2. ASSUME NEW c \in SUBSET Facts, NEW q \in Projects,
                   plan' = [plan EXCEPT ![j] = Rewritten(kind[j], seen[j], c, q)],
                   Goto(j, "write"), UNCHANGED <<pgLock, redisLock, seen>>
            PROVE  TypeOK'
        <4>1. c \in SUBSET Lines /\ seen[j] \in Row
          BY DEF Lines, TypeOK
        <4>2. Rewritten(kind[j], seen[j], c, q) \in Row
          BY <4>1, RewrittenType
        <4> QED BY <2>7, <3>2, <4>2 DEF ModelAnswer, Goto, TypeOK, mem
      <3> QED BY <2>7, <3>1, <3>2 DEF ModelAnswer
    <2>8. CASE Commit(j)
      <3>1. seen[j] \in Row /\ plan[j] \in Row /\ row \in Row
        BY DEF TypeOK
      <3>2. Flush(seen[j], plan[j], row) \in Row
        BY <3>1, FlushType
      <3>3. SnapshotOf(j) \in SUBSET Sheets
        BY <3>1, SnapshotType DEF SnapshotOf
      <3>4. row' \in Row /\ versions' \subseteq Sheets /\ past' \subseteq Sheets
        BY <2>8, <3>2, <3>3, CommitRowType DEF Commit, TypeOK, mem
      <3> QED BY <2>8, <3>4, LeaveType DEF Commit, TypeOK
    <2>9. CASE ReleaseRedis(j)
      BY <2>9 DEF ReleaseRedis, Goto, TypeOK, mem
    <2>10. CASE Fail(j)
      BY <2>10, LeaveType DEF Fail, TypeOK, mem
    <2>11. CASE Kill(j)
      BY <2>11, NoRowFacts DEF Kill, Goto, CloseSession, TypeOK, mem
    <2> QED BY <1>job, <2>1, <2>2, <2>3, <2>4, <2>5, <2>6, <2>7, <2>8, <2>9,
               <2>10, <2>11 DEF JobStep
  <1>req. ASSUME NEW r \in Requests, RequestStep(r) PROVE TypeOK'
    <2>0. /\ row \in Row /\ Snapshot(row) \in Sheets
          /\ row.content \in SUBSET Lines /\ row.project \in Projects
          /\ row.version \in Nat /\ row.salience \in Nat
      BY SnapshotType, FieldTypes DEF TypeOK
    <2>1. ASSUME NEW f \in Facts, NEW j \in Jobs, WriteMemoryFact(r, f, j)
          PROVE  TypeOK'
      <3>1. /\ {f} \in SUBSET Lines /\ row.content \cup {f} \in SUBSET Lines
            /\ row.version + 1 \in Nat /\ row.salience + 1 \in Nat
        BY <2>0 DEF Lines
      <3>2. /\ RowOf({f}, "", 1, 1) \in Row
            /\ RowOf(row.content \cup {f}, row.project, row.version + 1,
                     row.salience + 1) \in Row
        BY <2>0, <3>1, ConstantTypes, RowOfType
      <3>3. row' \in Row /\ versions' \subseteq Sheets /\ past' \subseteq Sheets
        <4>1. {Snapshot(row)} \in SUBSET Sheets /\ {} \in SUBSET Sheets
          BY <2>0
        <4>2. \E new \in Row, snaps \in SUBSET Sheets : CommitRow(new, snaps)
          BY <2>1, <3>2, <4>1 DEF WriteMemoryFact
        <4> QED BY <4>2, CommitRowType
      <3> QED BY <2>1, <3>3, BackendType DEF WriteMemoryFact, TypeOK, Kinds
    <2>2. ASSUME NEW c \in SUBSET Facts, NEW q \in Projects, WriteMemory(r, c, q)
          PROVE  TypeOK'
      <3>1. c \in SUBSET Lines /\ row.version + 1 \in Nat
        BY <2>0 DEF Lines
      <3>2. /\ RowOf(c, q, 1, DefaultSalience) \in Row
            /\ RowOf(c, q, row.version + 1, row.salience) \in Row
        BY <2>0, <3>1, ConstantTypes, RowOfType
      <3>3. row' \in Row /\ versions' \subseteq Sheets /\ past' \subseteq Sheets
        BY <2>0, <2>2, <3>2, CommitRowType DEF WriteMemory
      <3> QED BY <2>2, <3>3 DEF WriteMemory, Goto, TypeOK
    <2>3. ASSUME NEW s \in {"keep_a", "keep_b", "merge", "discard_both"},
                 NEW a \in Facts, NEW b \in Facts, ResolveConflict(r, s, a, b)
          PROVE  TypeOK'
      <3>1. Resolved(row.content, s, a, b) \in SUBSET Lines
        BY <2>0 DEF Resolved, Lines
      <3>2. RowOf(Resolved(row.content, s, a, b), row.project,
                  row.version + 1, row.salience) \in Row
        BY <2>0, <3>1, RowOfType
      <3> QED BY <2>0, <2>3, <3>2 DEF ResolveConflict, Goto, TypeOK, mem
    <2>4. CASE DecayMemory(r)
      BY <2>0, <2>4, DecayedType DEF DecayMemory, Goto, TypeOK, mem
    <2>5. CASE RequestCommit(r)
      <3>1. seen[r] \in Row /\ plan[r] \in Row
        BY DEF TypeOK
      <3>2. Flush(seen[r], plan[r], row) \in Row
        BY <2>0, <3>1, FlushType
      <3>3. row' \in Row /\ versions' \subseteq Sheets /\ past' \subseteq Sheets
        BY <2>5, <3>2, CommitRowType DEF RequestCommit
      <3> QED BY <2>5, <3>3, NoRowFacts DEF RequestCommit, Goto, CloseSession, TypeOK
    <2>6. CASE BackupUser(r)
      BY <2>0, <2>6 DEF BackupUser, Goto, TypeOK, mem
    <2>7. CASE BackupCommit(r)
      <3>1. Snapshot(seen[r]) \in Sheets
        BY SnapshotType DEF TypeOK
      <3>2. versions' \subseteq Sheets
        BY <2>7, <3>1 DEF BackupCommit, TypeOK
      <3> QED BY <2>7, <3>2, NoRowFacts DEF BackupCommit, Goto, CloseSession, TypeOK
    <2>8. CASE HardReset(r)
      <3>1. {"[USER]"} \in SUBSET Lines /\ row.version + 1 \in Nat
        BY <2>0 DEF Lines
      <3>2. RowOf({"[USER]"}, "", row.version + 1, 0) \in Row
        BY <3>1, ConstantTypes, RowOfType
      <3> QED BY <2>0, <2>8, <3>2 DEF HardReset, Goto, TypeOK, mem
    <2>9. ASSUME NEW v \in versions, RestoreMemory(r, v) PROVE TypeOK'
      <3>1. v \in Sheets /\ row.version + 1 \in Nat
        BY <2>0 DEF TypeOK
      <3>2. RowOf(v.content, v.project, row.version + 1, row.salience) \in Row
        BY <2>0, <3>1, SheetFields, RowOfType
      <3> QED BY <2>0, <2>9, <3>2 DEF RestoreMemory, Goto, TypeOK, mem
    <2>10. CASE AdminCommit(r)
      <3>1. seen[r] \in Row /\ plan[r] \in Row
        BY DEF TypeOK
      <3>2. Flush(seen[r], plan[r], row) \in Row
        BY <2>0, <3>1, FlushType
      <3>3. {Snapshot(seen[r])} \in SUBSET Sheets
        BY <3>1, SnapshotType
      <3>4. row' \in Row /\ versions' \subseteq Sheets /\ past' \subseteq Sheets
        BY <2>10, <3>2, <3>3, CommitRowType DEF AdminCommit
      <3> QED BY <2>10, <3>4, NoRowFacts DEF AdminCommit, Goto, CloseSession, TypeOK
    <2> QED BY <1>req, <2>1, <2>2, <2>3, <2>4, <2>5, <2>6, <2>7, <2>8, <2>9, <2>10
            DEF RequestStep
  <1>chat. ASSUME NEW c \in Chats, ChatLoad(c) \/ ChatStep(c) PROVE TypeOK'
    <2>0. /\ row \in Row /\ seen[c] \in Row /\ plan[c] \in Row
      BY DEF TypeOK
    <2>1. CASE ChatLoad(c)
      <3>1. RowOf(row.content, row.project, row.version,
                  ComputeSalience(row.salience)) \in Row
        BY <2>0, FieldTypes, SalienceType, RowOfType
      <3> QED BY <2>0, <2>1, <3>1 DEF ChatLoad, Goto, TypeOK, mem
    <2>2. CASE ChatFlush(c)
      BY <2>2 DEF ChatFlush, Goto, TypeOK, mem
    <2>3. CASE ChatEnd(c)
      <3>1. Flush(seen[c], plan[c], row) \in Row
        BY <2>0, FlushType
      <3>2. row' \in Row /\ versions' \subseteq Sheets /\ past' \subseteq Sheets
        BY <2>3, <3>1, CommitRowType DEF ChatEnd, TypeOK, mem
      <3> QED BY <2>3, <3>2, NoRowFacts DEF ChatEnd, Goto, CloseSession, TypeOK
    <2> QED BY <1>chat, <2>1, <2>2, <2>3 DEF ChatStep
  <1>exp. CASE ExpireRedis
    BY <1>exp DEF ExpireRedis, TypeOK, mem
  <1>rel. ASSUME NEW b \in Backends, ReloadEnv(b) PROVE TypeOK'
    BY <1>rel DEF ReloadEnv, TypeOK, mem
  <1>unc. CASE UNCHANGED vars
    BY <1>unc DEF TypeOK, vars
  <1> QED BY <1>job, <1>req, <1>chat, <1>exp, <1>rel, <1>unc DEF Next

LEMMA TypeInit == Init => TypeOK
  <1> SUFFICES ASSUME Init PROVE TypeOK
    OBVIOUS
  <1>1. row \in Row /\ NoRow \in Row
    BY UserMemoryAssumption, NoRowFacts DEF Init
  <1>2. Snapshot(row) \in Sheets /\ Snapshot(NoRow) \in Sheets
    BY <1>1, SnapshotType
  <1> QED BY <1>1, <1>2 DEF Init, TypeOK

(* The row, its history, the locks and every session stay well-formed.        *)
THEOREM TypeCorrect == Spec => []TypeOK
  BY TypeInit, TypeStep, PTL DEF Spec

------------------------------------------------------------------------------
(* The advisory lock.                                                         *)

LEMMA PgStep ==
    ASSUME Backends = {"pg"}, TypeOK, PgInv, [Next]_vars
    PROVE  PgInv'
  <1> USE DEF Procs, PgInv, InSection
  <1>0. backend = "pg"
    BY DEF TypeOK
  <1>job. ASSUME NEW j \in Jobs, JobStep(j) \/ Fail(j) \/ Kill(j)
                                   \/ \E k \in Kinds : Spawn(j, k)
          PROVE  PgInv'
    <2>0. Leave(j) /\ UNCHANGED via => PgInv'
      BY UserMemoryAssumption DEF Leave, Goto, TypeOK
    <2>1. ASSUME NEW k \in Kinds, Spawn(j, k) PROVE PgInv'
      BY <1>0, <2>1 DEF Spawn, Start, Goto, TypeOK
    <2>2. CASE PrefsAnswer(j)
      BY <1>0, <2>2 DEF PrefsAnswer, Goto, TypeOK
    <2>3. CASE AcquirePg(j)
      BY <2>3, UserMemoryAssumption DEF AcquirePg, Goto, TypeOK
    <2>4. CASE AcquireRedis(j)
      BY <2>4 DEF AcquireRedis
    <2>5. CASE LockTimeout(j)
      BY <2>5 DEF LockTimeout
    <2>6. CASE ReadRow(j)
      BY <2>0, <2>6 DEF ReadRow, Goto, TypeOK
    <2>7. CASE ModelAnswer(j)
      BY <2>0, <2>7 DEF ModelAnswer, Goto, TypeOK
    <2>8. CASE Commit(j)
      BY <2>0, <2>8 DEF Commit
    <2>9. CASE ReleaseRedis(j)
      BY <2>9 DEF ReleaseRedis, Goto, TypeOK
    <2>10. CASE Fail(j)
      BY <2>0, <2>10 DEF Fail
    <2>11. CASE Kill(j)
      BY <2>11, UserMemoryAssumption DEF Kill, Goto, TypeOK
    <2> QED BY <1>job, <2>1, <2>2, <2>3, <2>4, <2>5, <2>6, <2>7, <2>8, <2>9,
               <2>10, <2>11 DEF JobStep
  <1>req. ASSUME NEW r \in Requests, RequestStep(r) PROVE PgInv'
    <2>0. r \notin Jobs
      BY UserMemoryAssumption
    <2>1. ASSUME NEW f \in Facts, NEW j \in Jobs, WriteMemoryFact(r, f, j)
          PROVE  PgInv'
      BY <1>0, <2>0, <2>1 DEF WriteMemoryFact, TypeOK
    <2>2. CASE /\ UNCHANGED <<pgLock, via>>
               /\ \E l : Goto(r, l)
      BY <2>0, <2>2 DEF Goto, TypeOK
    <2> QED BY <1>req, <2>1, <2>2 DEF RequestStep, WriteMemory, ResolveConflict,
               DecayMemory, RequestCommit, BackupUser, BackupCommit, HardReset,
               RestoreMemory, AdminCommit
  <1>chat. ASSUME NEW c \in Chats, ChatLoad(c) \/ ChatStep(c) PROVE PgInv'
    <2>0. c \notin Jobs
      BY UserMemoryAssumption
    <2>1. UNCHANGED <<pgLock, via>> /\ \E l : Goto(c, l)
      BY <1>chat DEF ChatStep, ChatLoad, ChatFlush, ChatEnd
    <2> QED BY <2>0, <2>1 DEF Goto, TypeOK
  <1>exp. CASE ExpireRedis
    BY <1>exp DEF ExpireRedis
  <1>rel. ASSUME NEW b \in Backends, ReloadEnv(b) PROVE PgInv'
    BY <1>rel DEF ReloadEnv
  <1>unc. CASE UNCHANGED vars
    BY <1>unc DEF vars
  <1> QED BY <1>job, <1>req, <1>chat, <1>exp, <1>rel, <1>unc DEF Next

LEMMA PgImpliesExclusion == PgInv => MutualExclusion
  BY DEF PgInv, MutualExclusion

(* With MEMORY_LOCK_BACKEND = pg, never two background jobs between reading   *)
(* the sheet and committing their rewrite, whatever requests, turns, failures *)
(* and crashes there are.                                                     *)
THEOREM PgMutualExclusion ==
    ASSUME Backends = {"pg"}
    PROVE  Spec => []MutualExclusion
  <1>1. Init => PgInv
    BY DEF Init, PgInv, InSection, Procs
  <1>2. TypeOK /\ PgInv /\ [Next]_vars => PgInv'
    BY PgStep
  <1> QED BY <1>1, <1>2, TypeCorrect, PgImpliesExclusion, PTL DEF Spec

------------------------------------------------------------------------------
(* The version history holds only sheets that were committed.                 *)

(* What every commit adds to the history is what it makes the row.            *)
LEMMA CommitRowHistory ==
    ASSUME HistoryInv, NEW new, NEW snaps \in SUBSET past, CommitRow(new, snaps)
    PROVE  /\ versions' \subseteq past' /\ past \subseteq past'
           /\ Snapshot(row') \in past' /\ Snapshot(NoRow) \in past'
  BY DEF HistoryInv, CommitRow

LEMMA HistoryStep ==
    ASSUME TypeOK, HistoryInv, [Next]_vars
    PROVE  HistoryInv'
  <1> USE DEF Procs
  <1>mem. ASSUME NEW p \in Procs,
                 \/ UNCHANGED mem
                 \/ \E new : \E snaps \in SUBSET past : CommitRow(new, snaps),
                 \/ UNCHANGED seen
                 \/ seen' = [seen EXCEPT ![p] = row]
                 \/ seen' = [seen EXCEPT ![p] = NoRow]
          PROVE  HistoryInv'
    <2>1. /\ versions' \subseteq past' /\ past \subseteq past'
          /\ Snapshot(row') \in past' /\ Snapshot(NoRow) \in past'
      <3>1. CASE UNCHANGED mem
        BY <3>1 DEF HistoryInv, mem
      <3>2. CASE \E new : \E snaps \in SUBSET past : CommitRow(new, snaps)
        BY <3>2, CommitRowHistory
      <3> QED BY <1>mem, <3>1, <3>2
    <2>2. ASSUME NEW q \in Procs PROVE Snapshot(seen'[q]) \in past
      <3>1. seen'[q] \in {seen[q], row, NoRow}
        BY <1>mem DEF TypeOK
      <3> QED BY <3>1 DEF HistoryInv
    <2> QED BY <2>1, <2>2 DEF HistoryInv
  <1>0. {Snapshot(row)} \in SUBSET past /\ {} \in SUBSET past
    BY DEF HistoryInv
  <1>job. ASSUME NEW j \in Jobs, JobStep(j) \/ Fail(j) \/ Kill(j)
                                   \/ \E k \in Kinds : Spawn(j, k)
          PROVE  HistoryInv'
    <2>0. Leave(j) => seen' = [seen EXCEPT ![j] = NoRow]
      BY DEF Leave, CloseSession
    <2>1. SnapshotOf(j) \in SUBSET past
      BY DEF SnapshotOf, HistoryInv
    <2>2. CASE Commit(j)
      BY <1>mem, <2>0, <2>1, <2>2 DEF Commit
    <2>3. CASE ReadRow(j)
      BY <1>mem, <2>0, <2>3 DEF ReadRow
    <2>4. CASE ModelAnswer(j) \/ Fail(j) \/ Kill(j)
      BY <1>mem, <2>0, <2>4 DEF ModelAnswer, Fail, Kill, CloseSession
    <2>5. CASE UNCHANGED <<mem, seen>>
      BY <1>mem, <2>5
    <2> QED BY <1>job, <2>2, <2>3, <2>4, <2>5 DEF JobStep, Spawn, PrefsAnswer,
               AcquirePg, AcquireRedis, LockTimeout, ReleaseRedis
  <1>req. ASSUME NEW r \in Requests, RequestStep(r) PROVE HistoryInv'
    <2>1. ASSUME NEW f \in Facts, NEW j \in Jobs, WriteMemoryFact(r, f, j)
          PROVE  HistoryInv'
      <3>1. \E new : \E snaps \in SUBSET past : CommitRow(new, snaps)
        BY <1>0, <2>1 DEF WriteMemoryFact
      <3> QED BY <1>mem, <2>1, <3>1 DEF WriteMemoryFact
    <2>2. ASSUME NEW c \in SUBSET Facts, NEW q \in Projects, WriteMemory(r, c, q)
          PROVE  HistoryInv'
      <3>1. \E new : \E snaps \in SUBSET past : CommitRow(new, snaps)
        BY <1>0, <2>2 DEF WriteMemory
      <3> QED BY <1>mem, <2>2, <3>1 DEF WriteMemory
    <2>3. CASE UNCHANGED mem /\ seen' = [seen EXCEPT ![r] = row]
      BY <1>mem, <2>3
    <2>4. CASE RequestCommit(r)
      BY <1>0, <1>mem, <2>4 DEF RequestCommit, CloseSession
    <2>5. CASE BackupCommit(r)
      <3>1. seen' = [seen EXCEPT ![r] = NoRow] /\ past' = past /\ row' = row
        BY <2>5 DEF BackupCommit, CloseSession
      <3>2. versions' \subseteq past'
        BY <2>5, <3>1 DEF BackupCommit, HistoryInv
      <3>3. ASSUME NEW q \in Procs PROVE Snapshot(seen'[q]) \in past
        <4>1. seen'[q] \in {seen[q], NoRow}
          BY <3>1 DEF TypeOK
        <4> QED BY <4>1 DEF HistoryInv
      <3> QED BY <3>1, <3>2, <3>3 DEF HistoryInv
    <2>6. CASE AdminCommit(r)
      <3>1. {Snapshot(seen[r])} \in SUBSET past
        BY DEF HistoryInv
      <3> QED BY <1>mem, <2>6, <3>1 DEF AdminCommit, CloseSession
    <2>7. CASE UNCHANGED <<mem, seen>>
      BY <1>mem, <2>7
    <2> QED BY <1>req, <2>1, <2>2, <2>3, <2>4, <2>5, <2>6, <2>7 DEF RequestStep,
               ResolveConflict, DecayMemory, BackupUser, HardReset, RestoreMemory
  <1>chat. ASSUME NEW c \in Chats, ChatLoad(c) \/ ChatStep(c) PROVE HistoryInv'
    <2>1. CASE ChatLoad(c)
      BY <1>mem, <2>1 DEF ChatLoad
    <2>2. CASE ChatFlush(c)
      BY <1>mem, <2>2 DEF ChatFlush
    <2>3. CASE ChatEnd(c)
      BY <1>0, <1>mem, <2>3 DEF ChatEnd, CloseSession
    <2> QED BY <1>chat, <2>1, <2>2, <2>3 DEF ChatStep
  <1>exp. CASE ExpireRedis
    BY <1>exp DEF ExpireRedis, HistoryInv, mem
  <1>rel. ASSUME NEW b \in Backends, ReloadEnv(b) PROVE HistoryInv'
    BY <1>rel DEF ReloadEnv, HistoryInv, mem
  <1>unc. CASE UNCHANGED vars
    BY <1>unc DEF HistoryInv, vars
  <1> QED BY <1>job, <1>req, <1>chat, <1>exp, <1>rel, <1>unc DEF Next

(* Whatever the lock backend and however stale a session is, a row of         *)
(* user_memory_versions is a sheet the user had, under the version number it  *)
(* had then.                                                                  *)
THEOREM SnapshotsReal == Spec => []SnapshotsAreReal
  <1>1. Init => HistoryInv
    BY DEF Init, HistoryInv, Procs
  <1>2. TypeOK /\ HistoryInv /\ [Next]_vars => HistoryInv'
    BY HistoryStep
  <1>3. HistoryInv => SnapshotsAreReal
    BY DEF HistoryInv, SnapshotsAreReal
  <1> QED BY <1>1, <1>2, <1>3, TypeCorrect, PTL DEF Spec

------------------------------------------------------------------------------
(* Among lock-taking writers, no sheet is replaced without a snapshot of it.  *)

LEMMA SnapshotFields ==
    ASSUME NEW r, NEW q, Snapshot(r) = Snapshot(q)
    PROVE  /\ r.content = q.content /\ r.project = q.project
           /\ r.version = q.version /\ (Exists(r) <=> Exists(q))
  <1>1. /\ Snapshot(r).content = r.content /\ Snapshot(q).content = q.content
        /\ Snapshot(r).project = r.project /\ Snapshot(q).project = q.project
        /\ Snapshot(r).version = r.version /\ Snapshot(q).version = q.version
    BY DEF Snapshot
  <1> QED BY <1>1 DEF Exists

(* A turn's flush changes nothing but the salience.                           *)
LEMMA ChatFlushKeeps ==
    ASSUME NEW old \in Row, NEW new \in Row, NEW now \in Row,
           Exists(old), Snapshot(new) = Snapshot(old)
    PROVE  Snapshot(Flush(old, new, now)) = Snapshot(now)
  <1>1. /\ new.content = old.content /\ new.project = old.project
        /\ new.version = old.version
    BY SnapshotFields
  <1>2. PICK s : Flush(old, new, now) = RowOf(now.content, now.project, now.version, s)
    BY <1>1 DEF Flush
  <1> QED BY <1>2, RowOfFields DEF Snapshot

(* A request that was served stays served.                                    *)
LEMMA RequestsAdvance ==
    ASSUME TypeOK, [Next]_vars, NoRequestYet'
    PROVE  NoRequestYet
  <1> USE DEF Procs
  <1> SUFFICES ASSUME NEW r \in Requests, pc[r] # "idle" PROVE pc'[r] # "idle"
    BY DEF NoRequestYet
  <1>1. r \notin Jobs /\ r \notin Chats
    BY UserMemoryAssumption
  <1>job. ASSUME NEW j \in Jobs, JobStep(j) \/ Fail(j) \/ Kill(j)
                                   \/ \E k \in Kinds : Spawn(j, k)
          PROVE  pc'[r] # "idle"
    <2>1. \E l : Goto(j, l)
      BY <1>job DEF JobStep, PrefsAnswer, AcquirePg, AcquireRedis, LockTimeout, ReadRow,
                    ModelAnswer, Commit, ReleaseRedis, Fail, Kill, Spawn, Start, Leave
    <2> QED BY <1>1, <2>1 DEF Goto, TypeOK
  <1>chat. ASSUME NEW c \in Chats, ChatLoad(c) \/ ChatStep(c)
           PROVE  pc'[r] # "idle"
    <2>1. \E l : Goto(c, l)
      BY <1>chat DEF ChatLoad, ChatStep, ChatFlush, ChatEnd
    <2> QED BY <1>1, <2>1 DEF Goto, TypeOK
  <1>req. ASSUME NEW q \in Requests, RequestStep(q) PROVE pc'[r] # "idle"
    <2>1. CASE \E f \in Facts, j \in Jobs : WriteMemoryFact(q, f, j)
      <3>1. PICK j \in Jobs : pc' = [pc EXCEPT ![q] = "done", ![j] = "lock"]
        BY <2>1 DEF WriteMemoryFact
      <3> QED BY <1>1, <3>1 DEF TypeOK
    <2>2. CASE \E l \in {"write", "done", "backup", "reset", "keep"} : Goto(q, l)
      BY <2>2 DEF Goto, TypeOK
    <2> QED BY <1>req, <2>1, <2>2 DEF RequestStep, WriteMemory, ResolveConflict,
                                      DecayMemory, RequestCommit, BackupUser,
                                      BackupCommit, HardReset, RestoreMemory, AdminCommit
  <1>rest. CASE ExpireRedis \/ (\E b \in Backends : ReloadEnv(b)) \/ UNCHANGED vars
    BY <1>rest DEF ExpireRedis, ReloadEnv, vars
  <1> QED BY <1>job, <1>chat, <1>req, <1>rest DEF Next

(* A request handler's step leaves a mark.                                    *)
LEMMA RequestShows ==
    ASSUME TypeOK, NEW r \in Requests, RequestStep(r)
    PROVE  ~NoRequestYet'
  <1> USE DEF Procs
  <1>1. CASE \E f \in Facts, j \in Jobs : WriteMemoryFact(r, f, j)
    <2>1. PICK j \in Jobs : pc' = [pc EXCEPT ![r] = "done", ![j] = "lock"]
      BY <1>1 DEF WriteMemoryFact
    <2>2. pc'[r] # "idle"
      BY <2>1, UserMemoryAssumption DEF TypeOK
    <2> QED BY <2>2 DEF NoRequestYet
  <1>2. CASE \E l \in {"write", "done", "backup", "reset", "keep"} : Goto(r, l)
    <2>1. pc'[r] # "idle"
      BY <1>2 DEF Goto, TypeOK
    <2> QED BY <2>1 DEF NoRequestYet
  <1> QED BY <1>1, <1>2 DEF RequestStep, WriteMemory, ResolveConflict, DecayMemory,
                            RequestCommit, BackupUser, BackupCommit, HardReset,
                            RestoreMemory, AdminCommit

(* Until a request handler wrote, jobs work on the present sheet.             *)
LEMMA FreshStep ==
    ASSUME NoRequestYet', TypeOK, MutualExclusion, FreshInv, [Next]_vars
    PROVE  FreshInv' /\ KeepsReplaced
  <1> USE DEF Procs
  <1> DEFINE Working(p) == pc[p] \in {"call", "write"}
             Turn(c) == pc[c] \in {"loaded", "open"}
             KeepChats == \A c \in Chats : pc'[c] \in {"loaded", "open"}
                             => /\ Exists(seen'[c])
                                /\ Snapshot(plan'[c]) = Snapshot(seen'[c])
             KeepJobs == \A j \in Jobs : pc'[j] \in {"call", "write"}
                             => Snapshot(seen'[j]) = Snapshot(row')
  <1>0. \A r \in Row : Snapshot(r) = Snapshot(r)
    OBVIOUS
  <1>job. ASSUME NEW j \in Jobs, JobStep(j) \/ Fail(j) \/ Kill(j)
                                   \/ \E k \in Kinds : Spawn(j, k)
          PROVE  FreshInv' /\ KeepsReplaced
    <2>0. j \notin Chats
      BY UserMemoryAssumption
    <2>a. ASSUME UNCHANGED mem, \E l \in {"ask", "lock", "read", "release", "done"} : Goto(j, l),
                 \/ UNCHANGED <<seen, plan>>
                 \/ CloseSession(j)
          PROVE  FreshInv' /\ KeepsReplaced
      <3>1. KeepsReplaced
        BY <2>a DEF KeepsReplaced, mem
      <3>2. KeepJobs
        BY <2>a DEF FreshInv, TypeOK, Goto, CloseSession, mem
      <3>3. KeepChats
        BY <2>0, <2>a DEF FreshInv, TypeOK, Goto, CloseSession, mem
      <3> QED BY <3>1, <3>2, <3>3 DEF FreshInv
    <2>leave. Leave(j) => /\ \E l \in {"release", "done"} : Goto(j, l)
                          /\ CloseSession(j)
      BY DEF Leave
    <2>1. CASE ReadRow(j)
      <3>1. CASE Leave(j)
        BY <2>1, <2>a, <2>leave, <3>1 DEF ReadRow
      <3>2. CASE /\ seen' = [seen EXCEPT ![j] = row]
                 /\ \E l \in {"call", "write"} : Goto(j, l)
                 /\ \/ \E r : plan' = [plan EXCEPT ![j] = r]
                    \/ UNCHANGED plan
        <4>1. UNCHANGED mem
          BY <2>1 DEF ReadRow
        <4>2. KeepsReplaced
          BY <4>1 DEF KeepsReplaced, mem
        <4>3. KeepJobs
          BY <3>2, <4>1 DEF FreshInv, TypeOK, Goto, mem
        <4>4. KeepChats
          BY <2>0, <3>2, <4>1 DEF FreshInv, TypeOK, Goto, mem
        <4> QED BY <4>2, <4>3, <4>4 DEF FreshInv
      <3> QED BY <2>1, <3>1, <3>2 DEF ReadRow
    <2>2. CASE ModelAnswer(j)
      <3>1. CASE Leave(j)
        BY <2>2, <2>a, <2>leave, <3>1 DEF ModelAnswer
      <3>2. CASE /\ \E r : plan' = [plan EXCEPT ![j] = r]
                 /\ Goto(j, "write") /\ UNCHANGED seen
        <4>1. UNCHANGED mem /\ pc[j] = "call"
          BY <2>2 DEF ModelAnswer
        <4>2. KeepsReplaced
          BY <4>1 DEF KeepsReplaced, mem
        <4>3. KeepJobs
          BY <3>2, <4>1 DEF FreshInv, TypeOK, Goto, mem
        <4>4. KeepChats
          BY <2>0, <3>2, <4>1 DEF FreshInv, TypeOK, Goto, mem
        <4> QED BY <4>2, <4>3, <4>4 DEF FreshInv
      <3> QED BY <2>2, <3>1, <3>2 DEF ModelAnswer
    <2>3. CASE Commit(j)
      <3>1. CASE UNCHANGED mem
        BY <2>3, <2>a, <2>leave, <3>1 DEF Commit
      <3>2. CASE CommitRow(Flush(seen[j], plan[j], row), SnapshotOf(j))
        <4>1. Snapshot(seen[j]) = Snapshot(row)
          BY <2>3 DEF Commit, FreshInv
        <4>2. Exists(seen[j]) <=> Exists(row)
          BY <4>1, SnapshotFields
        <4>3. Exists(row) => Snapshot(row) \in versions'
          BY <3>2, <4>1, <4>2 DEF CommitRow, SnapshotOf
        <4>4. KeepsReplaced
          BY <4>3 DEF KeepsReplaced
        <4>5. Leave(j)
          BY <2>3 DEF Commit
        <4>6. KeepJobs
          <5>1. ASSUME NEW i \in Jobs, pc'[i] \in {"call", "write"} PROVE FALSE
            <6>1. i # j
              BY <4>5, <5>1, <2>leave DEF Goto, TypeOK
            <6>2. pc[i] \in {"call", "write"}
              BY <4>5, <5>1, <6>1, <2>leave DEF Goto, TypeOK
            <6>3. i = j
              BY <2>3, <6>2 DEF MutualExclusion, InSection, Commit
            <6> QED BY <6>1, <6>3
          <5> QED BY <5>1
        <4>7. KeepChats
          BY <2>0, <4>5, <2>leave DEF FreshInv, TypeOK, Goto, CloseSession
        <4> QED BY <4>4, <4>6, <4>7 DEF FreshInv
      <3> QED BY <2>3, <3>1, <3>2 DEF Commit
    <2>4. CASE Fail(j)
      BY <2>4, <2>a, <2>leave DEF Fail
    <2>5. CASE Kill(j)
      BY <2>5, <2>a DEF Kill
    <2>6. ASSUME NEW k \in Kinds, Spawn(j, k) PROVE FreshInv' /\ KeepsReplaced
      BY <2>6, <2>a DEF Spawn, Start
    <2>7. CASE PrefsAnswer(j) \/ AcquirePg(j) \/ AcquireRedis(j) \/ LockTimeout(j)
                 \/ ReleaseRedis(j)
      BY <2>7, <2>a DEF PrefsAnswer, AcquirePg, AcquireRedis, LockTimeout, ReleaseRedis
    <2> QED BY <1>job, <2>1, <2>2, <2>3, <2>4, <2>5, <2>6, <2>7 DEF JobStep
  <1>chat. ASSUME NEW c \in Chats, ChatLoad(c) \/ ChatStep(c)
           PROVE  FreshInv' /\ KeepsReplaced
    <2>0. c \notin Jobs /\ row \in Row /\ seen[c] \in Row /\ plan[c] \in Row
      BY UserMemoryAssumption DEF TypeOK
    <2>1. CASE ChatLoad(c)
      <3>1. UNCHANGED mem
        BY <2>1 DEF ChatLoad
      <3>2. KeepsReplaced
        BY <3>1 DEF KeepsReplaced, mem
      <3>3. KeepJobs
        BY <2>0, <2>1, <3>1 DEF ChatLoad, FreshInv, TypeOK, Goto, mem
      <3>4. Exists(seen'[c]) /\ Snapshot(plan'[c]) = Snapshot(seen'[c])
        <4>1. seen'[c] = row /\ Exists(row)
          BY <2>1 DEF ChatLoad, TypeOK
        <4>2. plan'[c] = RowOf(row.content, row.project, row.version,
                               ComputeSalience(row.salience))
          BY <2>1 DEF ChatLoad, TypeOK
        <4> QED BY <4>1, <4>2, RowOfFields DEF Snapshot
      <3>5. KeepChats
        BY <2>1, <3>4 DEF ChatLoad, FreshInv, TypeOK, Goto
      <3> QED BY <3>2, <3>3, <3>5 DEF FreshInv
    <2>2. CASE ChatFlush(c)
      <3>1. KeepsReplaced
        BY <2>2 DEF ChatFlush, KeepsReplaced, mem
      <3>2. KeepJobs
        BY <2>0, <2>2 DEF ChatFlush, FreshInv, TypeOK, Goto, mem
      <3>3. KeepChats
        BY <2>2 DEF ChatFlush, FreshInv, TypeOK, Goto
      <3> QED BY <3>1, <3>2, <3>3 DEF FreshInv
    <2>3. CASE ChatEnd(c)
      <3>1. Snapshot(Flush(seen[c], plan[c], row)) = Snapshot(row)
        BY <2>0, <2>3, ChatFlushKeeps DEF ChatEnd, FreshInv
      <3>2. Snapshot(row') = Snapshot(row)
        BY <2>3, <3>1 DEF ChatEnd, CommitRow, mem
      <3>3. KeepsReplaced
        BY <3>2, SnapshotFields DEF KeepsReplaced
      <3>4. KeepJobs
        BY <2>0, <2>3, <3>2 DEF ChatEnd, FreshInv, TypeOK, Goto, CloseSession
      <3>5. KeepChats
        BY <2>3 DEF ChatEnd, FreshInv, TypeOK, Goto, CloseSession
      <3> QED BY <3>3, <3>4, <3>5 DEF FreshInv
    <2> QED BY <1>chat, <2>1, <2>2, <2>3 DEF ChatStep
  <1>exp. CASE ExpireRedis
    BY <1>exp DEF ExpireRedis, FreshInv, KeepsReplaced, mem
  <1>rel. ASSUME NEW b \in Backends, ReloadEnv(b) PROVE FreshInv' /\ KeepsReplaced
    BY <1>rel DEF ReloadEnv, FreshInv, KeepsReplaced, mem
  <1>unc. CASE UNCHANGED vars
    BY <1>unc DEF FreshInv, KeepsReplaced, vars
  <1>req. ASSUME NEW r \in Requests, RequestStep(r) PROVE FALSE
    BY <1>req, RequestShows
  <1> QED BY <1>job, <1>chat, <1>req, <1>exp, <1>rel, <1>unc DEF Next

(* Whatever kind of lock keeps the jobs apart: as long as it does, and until a *)
(* request handler writes, every sheet a job replaces is in                   *)
(* user_memory_versions afterwards.                                           *)
THEOREM ExclusionKeepsHistory == Spec /\ []MutualExclusion => ReplacedSheetIsKept
  <1> DEFINE Inv == NoRequestYet => FreshInv
  <1>1. Init => Inv
    BY DEF Init, FreshInv, Procs
  <1>2. ASSUME TypeOK, MutualExclusion, Inv, [Next]_vars
        PROVE  Inv' /\ (NoRequestYet' => KeepsReplaced)
    <2>1. ASSUME NoRequestYet' PROVE FreshInv' /\ KeepsReplaced
      BY <1>2, <2>1, RequestsAdvance, FreshStep
    <2> QED BY <2>1
  <1>3. TypeOK /\ MutualExclusion /\ Inv /\ [Next]_vars
           => Inv' /\ [NoRequestYet' => KeepsReplaced]_vars
    BY <1>2
  <1> HIDE DEF Inv
  <1> QED BY <1>1, <1>3, TypeCorrect, PTL DEF Spec, ReplacedSheetIsKept

(* Under the advisory lock the history is therefore complete, for any number  *)
(* of jobs, turns and requests. POST /memory/write ends that (run             *)
(* memory_compaction_race): it does not take the lock.                        *)
THEOREM PgHistoryComplete ==
    ASSUME Backends = {"pg"}
    PROVE  Spec => ReplacedSheetIsKept
  BY PgMutualExclusion, ExclusionKeepsHistory, PTL

------------------------------------------------------------------------------
(* The history is a sequence: each rewrite counts the version up by one, so a *)
(* snapshot is always older than the row and than every later snapshot.       *)

VersionInv ==
    /\ \A s \in versions : s.version < row.version
    /\ \A s, t \in versions : s.version = t.version => s = t
    /\ \A j \in Jobs : pc[j] = "write" => plan[j].version = seen[j].version + 1

(* Whatever a job plans to write is the next version of what it read.         *)
LEMMA PlansCountUp ==
    ASSUME NEW r
    PROVE  /\ Cleared(r).version = r.version + 1
           /\ \A q \in WithPrefs(r) : q.version = r.version + 1
           /\ \A k, c, p : Rewritten(k, r, c, p).version = r.version + 1
  <1>1. Cleared(r).version = r.version + 1
    BY DEF Cleared, RowOf
  <1>2. ASSUME NEW q \in WithPrefs(r) PROVE q.version = r.version + 1
    <2>1. PICK c, s : q = RowOf(c, r.project, r.version + 1, s)
      BY DEF WithPrefs
    <2> QED BY <2>1, RowOfFields
  <1>3. ASSUME NEW k, NEW c, NEW p
        PROVE  Rewritten(k, r, c, p).version = r.version + 1
    <2>1. PICK d, e, s : Rewritten(k, r, c, p) = RowOf(d, e, r.version + 1, s)
      BY DEF Rewritten
    <2> QED BY <2>1, RowOfFields
  <1> QED BY <1>1, <1>2, <1>3

(* A flush of such a plan writes its version number.                          *)
LEMMA FlushVersion ==
    ASSUME NEW old \in Row, NEW new \in Row, NEW now \in Row,
           new.version = old.version + 1
    PROVE  Flush(old, new, now).version = new.version
  <1>1. new.version # old.version
    BY FieldTypes
  <1>2. CASE ~Exists(old)
    BY <1>2 DEF Flush
  <1>3. CASE Exists(old)
    <2>1. PICK c, p, s : Flush(old, new, now) = RowOf(c, p, new.version, s)
      BY <1>1, <1>3 DEF Flush
    <2> QED BY <2>1, RowOfFields
  <1> QED BY <1>2, <1>3

LEMMA VersionStep ==
    ASSUME NoRequestYet', TypeOK, FreshInv, VersionInv, [Next]_vars
    PROVE  VersionInv'
  <1> USE DEF Procs
  <1>0. row \in Row /\ row.version \in Nat
    BY FieldTypes DEF TypeOK
  (* Steps that leave the versions alone: only the planned ones matter.       *)
  <1>keep. ASSUME versions' = versions, row'.version = row.version,
                  \A i \in Jobs : pc'[i] = "write" =>
                     \/ pc[i] = "write" /\ seen'[i] = seen[i] /\ plan'[i] = plan[i]
                     \/ plan'[i].version = seen'[i].version + 1
           PROVE  VersionInv'
    BY <1>keep DEF VersionInv
  <1>job. ASSUME NEW j \in Jobs, JobStep(j) \/ Fail(j) \/ Kill(j)
                                   \/ \E k \in Kinds : Spawn(j, k)
          PROVE  VersionInv'
    <2>a. ASSUME UNCHANGED mem,
                 \E l \in {"ask", "lock", "read", "call", "release", "done"} : Goto(j, l),
                 \/ UNCHANGED <<seen, plan>>
                 \/ CloseSession(j)
                 \/ \E r : seen' = [seen EXCEPT ![j] = r] /\ UNCHANGED plan
          PROVE  VersionInv'
      <3>1. \A i \in Jobs : pc'[i] = "write" =>
               pc[i] = "write" /\ seen'[i] = seen[i] /\ plan'[i] = plan[i]
        BY <2>a DEF TypeOK, Goto, CloseSession
      <3> QED BY <1>keep, <2>a, <3>1 DEF mem
    <2>leave. Leave(j) => /\ \E l \in {"release", "done"} : Goto(j, l)
                          /\ CloseSession(j)
      BY DEF Leave
    <2>1. CASE ReadRow(j)
      <3>0. UNCHANGED mem
        BY <2>1 DEF ReadRow
      <3>1. CASE Leave(j)
        BY <2>a, <2>leave, <3>0, <3>1
      <3>2. CASE /\ seen' = [seen EXCEPT ![j] = row]
                 /\ Goto(j, "call") /\ UNCHANGED plan
        BY <2>a, <3>0, <3>2
      <3>3. ASSUME NEW r, r.version = row.version + 1,
                   seen' = [seen EXCEPT ![j] = row],
                   plan' = [plan EXCEPT ![j] = r], Goto(j, "write")
            PROVE  VersionInv'
        <4>1. seen'[j] = row /\ plan'[j] = r
          BY <3>3 DEF TypeOK
        <4>2. \A i \in Jobs : i # j => /\ pc'[i] = pc[i]
                                       /\ seen'[i] = seen[i] /\ plan'[i] = plan[i]
          BY <3>3 DEF TypeOK, Goto
        <4> QED BY <1>keep, <3>0, <3>3, <4>1, <4>2 DEF mem
      <3> QED BY <2>1, <3>1, <3>2, <3>3, PlansCountUp DEF ReadRow
    <2>2. CASE ModelAnswer(j)
      <3>0. UNCHANGED mem
        BY <2>2 DEF ModelAnswer
      <3>1. CASE Leave(j)
        BY <2>a, <2>leave, <3>0, <3>1
      <3>2. ASSUME NEW c, NEW p, UNCHANGED seen, Goto(j, "write"),
                   plan' = [plan EXCEPT ![j] = Rewritten(kind[j], seen[j], c, p)]
            PROVE  VersionInv'
        <4>1. plan'[j].version = seen'[j].version + 1
          BY <3>2, PlansCountUp DEF TypeOK
        <4>2. \A i \in Jobs : i # j => /\ pc'[i] = pc[i]
                                       /\ seen'[i] = seen[i] /\ plan'[i] = plan[i]
          BY <3>2 DEF TypeOK, Goto
        <4> QED BY <1>keep, <3>0, <4>1, <4>2 DEF mem
      <3> QED BY <2>2, <3>1, <3>2 DEF ModelAnswer
    <2>3. CASE Commit(j)
      <3>1. CASE UNCHANGED mem
        BY <2>3, <2>a, <2>leave, <3>1 DEF Commit
      <3>2. CASE CommitRow(Flush(seen[j], plan[j], row), SnapshotOf(j))
        <4>1. pc[j] = "write" /\ seen[j] \in Row /\ plan[j] \in Row
          BY <2>3 DEF Commit, TypeOK
        <4>2. Snapshot(seen[j]) = Snapshot(row) /\ seen[j].version = row.version
          BY <4>1, SnapshotFields DEF FreshInv
        <4>3. plan[j].version = seen[j].version + 1
          BY <4>1 DEF VersionInv
        <4>4. Flush(seen[j], plan[j], row).version = plan[j].version
          BY <1>0, <4>1, <4>3, FlushVersion
        <4>5. row'.version = row.version + 1
          BY <3>2, <4>2, <4>3, <4>4 DEF CommitRow
        <4>6. Snapshot(row).version = row.version
          BY DEF Snapshot
        <4>7. versions' = versions \/ versions' = versions \cup {Snapshot(row)}
          BY <3>2, <4>2 DEF CommitRow, SnapshotOf
        <4>8. \A s \in versions : s.version \in Nat /\ s.version < row.version
          BY DEF TypeOK, VersionInv, Sheets
        <4>9. \A s \in versions' : s.version < row'.version
          BY <1>0, <4>5, <4>6, <4>7, <4>8
        <4>10. \A s, t \in versions' : s.version = t.version => s = t
          BY <1>0, <4>6, <4>7, <4>8 DEF VersionInv
        <4>11. \A i \in Jobs : pc'[i] = "write" =>
                  pc[i] = "write" /\ seen'[i] = seen[i] /\ plan'[i] = plan[i]
          BY <2>3, <2>leave DEF Commit, TypeOK, Goto, CloseSession
        <4>12. \A i \in Jobs : pc'[i] = "write" =>
                  plan'[i].version = seen'[i].version + 1
          BY <4>11 DEF VersionInv
        <4> QED BY <4>9, <4>10, <4>12 DEF VersionInv
      <3> QED BY <2>3, <3>1, <3>2 DEF Commit
    <2>4. CASE Fail(j)
      BY <2>4, <2>a, <2>leave DEF Fail
    <2>5. CASE Kill(j)
      BY <2>5, <2>a DEF Kill
    <2>6. ASSUME NEW k \in Kinds, Spawn(j, k) PROVE VersionInv'
      BY <2>6, <2>a DEF Spawn, Start
    <2>7. CASE PrefsAnswer(j) \/ AcquirePg(j) \/ AcquireRedis(j) \/ LockTimeout(j)
                 \/ ReleaseRedis(j)
      BY <2>7, <2>a DEF PrefsAnswer, AcquirePg, AcquireRedis, LockTimeout, ReleaseRedis
    <2> QED BY <1>job, <2>1, <2>2, <2>3, <2>4, <2>5, <2>6, <2>7 DEF JobStep
  <1>chat. ASSUME NEW c \in Chats, ChatLoad(c) \/ ChatStep(c) PROVE VersionInv'
    <2>0. c \notin Jobs /\ seen[c] \in Row /\ plan[c] \in Row
      BY UserMemoryAssumption DEF TypeOK
    <2>1. versions' = versions /\ row'.version = row.version
      <3>1. CASE ChatLoad(c) \/ ChatFlush(c)
        BY <3>1 DEF ChatLoad, ChatFlush, mem
      <3>2. CASE ChatEnd(c)
        <4>1. Snapshot(Flush(seen[c], plan[c], row)) = Snapshot(row)
          BY <1>0, <2>0, <3>2, ChatFlushKeeps DEF ChatEnd, FreshInv
        <4>2. Snapshot(row') = Snapshot(row)
          BY <3>2, <4>1 DEF ChatEnd, CommitRow, mem
        <4> QED BY <3>2, <4>2, SnapshotFields DEF ChatEnd, CommitRow, mem
      <3> QED BY <1>chat, <3>1, <3>2 DEF ChatStep
    <2>2. \A i \in Jobs : pc'[i] = pc[i] /\ seen'[i] = seen[i] /\ plan'[i] = plan[i]
      BY <1>chat, <2>0 DEF ChatStep, ChatLoad, ChatFlush, ChatEnd, Goto, CloseSession,
                           TypeOK
    <2> QED BY <1>keep, <2>1, <2>2
  <1>exp. CASE ExpireRedis
    BY <1>exp DEF ExpireRedis, VersionInv, mem
  <1>rel. ASSUME NEW b \in Backends, ReloadEnv(b) PROVE VersionInv'
    BY <1>rel DEF ReloadEnv, VersionInv, mem
  <1>unc. CASE UNCHANGED vars
    BY <1>unc DEF VersionInv, vars
  <1>req. ASSUME NEW r \in Requests, RequestStep(r) PROVE FALSE
    BY <1>req, RequestShows
  <1> QED BY <1>job, <1>chat, <1>req, <1>exp, <1>rel, <1>unc DEF Next

(* As long as the jobs are kept apart, and until a request handler writes, no *)
(* two rows of user_memory_versions share a version number, however many jobs *)
(* and turns overlap, fail or are killed: exclusion makes                     *)
(* "version = mem.version + 1" a counter.                                     *)
THEOREM ExclusionCountsVersions == Spec /\ []MutualExclusion => []VersionsAreDistinct
  <1> DEFINE Inv == NoRequestYet => FreshInv /\ VersionInv
  <1>1. Init => Inv
    BY DEF Init, FreshInv, VersionInv, Procs
  <1>2. ASSUME TypeOK, MutualExclusion, Inv, [Next]_vars PROVE Inv'
    <2>1. ASSUME NoRequestYet' PROVE FreshInv' /\ VersionInv'
      BY <1>2, <2>1, RequestsAdvance, FreshStep, VersionStep
    <2> QED BY <2>1
  <1>3. TypeOK /\ MutualExclusion /\ Inv /\ [Next]_vars => Inv'
    BY <1>2
  <1>4. Inv => VersionsAreDistinct
    BY DEF VersionsAreDistinct, VersionInv
  <1> HIDE DEF Inv
  <1> QED BY <1>1, <1>3, <1>4, TypeCorrect, PTL DEF Spec

(* So it is under the advisory lock.                                          *)
THEOREM PgVersionsDistinct ==
    ASSUME Backends = {"pg"}
    PROVE  Spec => []VersionsAreDistinct
  BY PgMutualExclusion, ExclusionCountsVersions, PTL

------------------------------------------------------------------------------
(* The Redis lock.                                                            *)

(* A lock key disappears only because its TTL is over or because its own      *)
(* holder releases it (_release_redis_lock compares before it deletes), with  *)
(* either backend, reloads between them and dying processes.                  *)
THEOREM HolderReleases == Spec => OnlyHolderReleases
  <1>1. ASSUME [Next]_vars
        PROVE  [\/ ExpireRedis
                \/ redisLock' = redisLock \/ redisLock = Nobody
                \/ pc[redisLock] = "release"]_vars
    <2>1. ASSUME NEW j \in Jobs, JobStep(j)
          PROVE  redisLock' = redisLock \/ redisLock = Nobody \/ pc[redisLock] = "release"
      BY <2>1 DEF JobStep, PrefsAnswer, AcquirePg, AcquireRedis, LockTimeout, ReadRow,
                  ModelAnswer, Commit, ReleaseRedis, Leave
    <2>2. ASSUME NEW j \in Jobs, Fail(j) \/ Kill(j) \/ \E k \in Kinds : Spawn(j, k)
          PROVE  redisLock' = redisLock
      BY <2>2 DEF Fail, Kill, Spawn, Start, Leave
    <2>3. ASSUME NEW r \in Requests, RequestStep(r) PROVE redisLock' = redisLock
      BY <2>3 DEF RequestStep, WriteMemoryFact, WriteMemory, ResolveConflict,
                  DecayMemory, RequestCommit, BackupUser, BackupCommit, HardReset,
                  RestoreMemory, AdminCommit
    <2>4. ASSUME NEW c \in Chats, ChatLoad(c) \/ ChatStep(c) PROVE redisLock' = redisLock
      BY <2>4 DEF ChatStep, ChatLoad, ChatFlush, ChatEnd
    <2>5. ASSUME NEW b \in Backends, ReloadEnv(b) PROVE redisLock' = redisLock
      BY <2>5 DEF ReloadEnv
    <2> QED BY <1>1, <2>1, <2>2, <2>3, <2>4, <2>5 DEF Next
  <1> QED BY <1>1, PTL DEF Spec, OnlyHolderReleases

==============================================================================
