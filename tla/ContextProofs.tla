----------------------------- MODULE ContextProofs -----------------------------
(* Proofs about what a turn is given. Of the model catalog: scans that overlap   *)
(* each other and the administrator's edits never undo a choice, and no snapshot *)
(* of any age offers a model that has never answered a probe. Of the context:    *)
(* apply_context_budget drops no tier that it need not drop, and the rules stay. *)
EXTENDS Catalog, ContextBudget, FiniteSetTheorems, SequenceTheorems,
        WellFoundedInduction, TLAPS

------------------------------------------------------------------------------
(* The model catalog. *)

Statuses == {"live", "error"} \cup Down

(* An entry of m that says live, or once live, is of a model that answered.      *)
Earned(e, m) == (e.status = "live" \/ e.wasLive) => m \in proven
EarnedAll(f) == \A m \in Models : Earned(f[m], m)

(* Everything that carries entries carries earned ones.                          *)
AllEarned ==
    /\ EarnedAll(row) /\ EarnedAll(entries)
    /\ \A s \in Scans : EarnedAll(loaded[s])
    /\ \A s \in Scans, m \in Models : probed[s][m] = "live" => m \in proven
    /\ \A p \in Procs : EarnedAll(snap[p])
    /\ \A w \in Publishers : EarnedAll(copy[w])

(* A rate-limited probe has got its status before the rows are written.          *)
NoneKept ==
    \A s \in Scans, m \in Models : scan[s] \in {"get", "commit"} => probed[s][m] # "keep"

(* Rows are never removed: what a scan has got and what is edited exists.        *)
RowsStay ==
    /\ \A s \in Scans, m \in Models : Known(loaded[s][m]) => Known(row[m])
    /\ \A p \in Procs : task[p] = "patch" =>
          edit[p].model \in Models /\ Known(row[edit[p].model])

(* Nobody has chosen about a model without a row.                                *)
Seeded == \A m \in Models : ~ Known(row[m]) => chosen[m] = (m \in Roles)

CatInv == CatTypeOK /\ AllEarned /\ NoneKept /\ RowsStay /\ Seeded /\ AdminChoiceWins

(* Where there is no row there is nothing earned.                                *)
LEMMA EmptyFacts == Empty \in Entries /\ EarnedAll(Empty) /\ \A m \in Models : Empty[m] = Unknown
  BY DEF Empty, Entries, Unknown, EarnedAll, Earned

(* A known row is an entry.                                                      *)
LEMMA KnownEntry ==
    ASSUME NEW e \in Entry \cup {Unknown}, Known(e) PROVE e \in Entry /\ e.status \in Statuses
  BY DEF Known, Unknown, Entry, Statuses

(* And an entry is known.                                                        *)
LEMMA EntryKnown ==
    ASSUME NEW e \in Entry PROVE Known(e)
  BY DEF Known, Entry, Down

(* No rows, no scans, the seed of the roles.                                     *)
LEMMA CatInitInv == CatInit => CatInv
  <1> SUFFICES ASSUME CatInit PROVE CatInv
    OBVIOUS
  <1> USE CatalogAssumption DEF CatInit
  <1>1. (CHOOSE p \in Procs : TRUE) \in Procs
    BY DEF CatInit
  <1>2. NoEdit \in [model : Models \cup {NoModel}, to : BOOLEAN, was : BOOLEAN]
    BY DEF NoEdit
  <1>3. CatTypeOK
    BY <1>1, <1>2, EmptyFacts DEF CatTypeOK
  <1>4. AllEarned
    BY EmptyFacts DEF AllEarned
  <1>5. NoneKept /\ RowsStay /\ Seeded /\ AdminChoiceWins
    <2>1. NoneKept /\ Seeded /\ AdminChoiceWins
      BY EmptyFacts DEF NoneKept, Seeded, AdminChoiceWins, Known, Unknown
    <2>2. \A p \in Procs : task[p] = "idle"
      BY DEF Publishers
    <2>3. RowsStay
      BY <2>2, EmptyFacts DEF RowsStay, Known, Unknown
    <2> QED BY <2>1, <2>3
  <1> QED BY <1>3, <1>4, <1>5 DEF CatInv

------------------------------------------------------------------------------
(* The scan. *)

(* The lock and the run of a scan decide nothing about the rows.                 *)
LEMMA LockInv ==
    ASSUME CatInv, (\E s \in Scans, p \in Procs : StartScan(s, p)) \/ ExpireLock
    PROVE  CatInv'
  <1> USE DEF CatInv
  <1>1. UNCHANGED <<row, probed, loaded, ver, entries, snap, snapVer, task, copy, edit, heard,
                    patches, chosen, proven>>
    BY DEF StartScan, ExpireLock, redisVars, procVars
  <1>2. /\ scan' \in [Scans -> {"new", "probe", "read", "get", "commit", "publish", "release",
                                "done"}]
        /\ \A s \in Scans : scan'[s] \in {"get", "commit"} => scan[s] = scan'[s]
        /\ runner' \in [Scans -> Procs] /\ lock' \in Scans \cup {Nobody}
    <2>1. CASE ExpireLock
      BY <2>1 DEF ExpireLock, CatTypeOK
    <2>2. ASSUME NEW s \in Scans, NEW p \in Procs, StartScan(s, p)
          PROVE /\ runner' = [runner EXCEPT ![s] = p] /\ lock' \in {lock, s}
                /\ \E there \in {"probe", "done"} : scan' = [scan EXCEPT ![s] = there]
      BY <2>2 DEF StartScan
    <2>3. CASE \E s \in Scans, p \in Procs : StartScan(s, p)
      <3>1. PICK s \in Scans, p \in Procs, there \in {"probe", "done"} :
               /\ runner' = [runner EXCEPT ![s] = p] /\ lock' \in {lock, s}
               /\ scan' = [scan EXCEPT ![s] = there]
        BY <2>2, <2>3
      <3>2. runner' \in [Scans -> Procs] /\ lock' \in Scans \cup {Nobody}
        BY <3>1 DEF CatTypeOK
      <3> QED BY <3>1, <3>2 DEF CatTypeOK
    <2> QED BY <2>1, <2>3
  <1>3. CatTypeOK'
    BY <1>1, <1>2 DEF CatTypeOK
  <1>4. AllEarned'
    BY <1>1 DEF AllEarned, EarnedAll, Earned
  <1>5. NoneKept'
    BY <1>1, <1>2 DEF NoneKept
  <1>6. RowsStay' /\ Seeded' /\ AdminChoiceWins'
    BY <1>1 DEF RowsStay, Seeded, AdminChoiceWins
  <1> QED BY <1>3, <1>4, <1>5, <1>6

(* A probe that is answered is what proves a model.                              *)
LEMMA ProbeInv ==
    ASSUME CatInv, NEW s \in Scans,
           NEW result \in [Models -> {"absent", "live", "error", "not_found", "keep"}],
           Probe(s, result)
    PROVE  CatInv'
  <1> USE DEF CatInv
  <1>1. UNCHANGED <<row, lock, runner, loaded, ver, entries, snap, snapVer, task, copy, edit,
                    heard, patches, chosen>>
    BY DEF Probe, redisVars, procVars
  <1>2. /\ scan' = [scan EXCEPT ![s] = "read"] /\ probed' = [probed EXCEPT ![s] = result]
        /\ proven' = proven \cup {m \in Models : result[m] = "live"}
    BY DEF Probe
  <1>3. CatTypeOK'
    <2>1. result \in [Models -> {"absent", "live", "error", "keep"} \cup Down]
      BY DEF Down
    <2> QED BY <1>1, <1>2, <2>1 DEF CatTypeOK
  <1>4. \A t \in Scans : probed'[t] = IF t = s THEN result ELSE probed[t]
    BY <1>2 DEF CatTypeOK
  <1>5. AllEarned'
    BY <1>1, <1>2, <1>4 DEF AllEarned, EarnedAll, Earned
  <1>6. NoneKept'
    BY <1>2, <1>4 DEF NoneKept, CatTypeOK
  <1>7. RowsStay' /\ Seeded' /\ AdminChoiceWins'
    BY <1>1 DEF RowsStay, Seeded, AdminChoiceWins
  <1> QED BY <1>3, <1>5, <1>6, <1>7

(* A rate-limited model keeps the status that its row has earned.                *)
LEMMA LoadRowsInv ==
    ASSUME CatInv, NEW s \in Scans, LoadRows(s)
    PROVE  CatInv'
  <1> USE DEF CatInv
  <1> DEFINE now == [m \in Models |->
                        IF probed[s][m] # "keep" THEN probed[s][m]
                        ELSE IF Known(row[m]) THEN row[m].status ELSE "error"]
  <1>1. UNCHANGED <<row, lock, runner, loaded, ver, entries, snap, snapVer, task, copy, edit,
                    heard, patches, chosen, proven>>
    BY DEF LoadRows, redisVars, procVars
  <1>2. scan' = [scan EXCEPT ![s] = "get"] /\ probed' = [probed EXCEPT ![s] = now]
    BY DEF LoadRows
  <1>3. ASSUME NEW m \in Models
        PROVE /\ now[m] \in {"absent", "live", "error"} \cup Down
              /\ now[m] = "live" => m \in proven
    <2>1. CASE probed[s][m] # "keep"
      BY <2>1 DEF CatTypeOK, AllEarned
    <2>2. CASE probed[s][m] = "keep" /\ Known(row[m])
      <3>1. row[m].status \in Statuses
        BY <2>2, KnownEntry DEF CatTypeOK, Entries
      <3>2. now[m] = row[m].status
        BY <2>2
      <3> QED BY <3>1, <3>2 DEF Statuses, AllEarned, EarnedAll, Earned
    <2>3. CASE probed[s][m] = "keep" /\ ~ Known(row[m])
      BY <2>3
    <2> QED BY <2>1, <2>2, <2>3
  <1>4. now \in [Models -> {"absent", "live", "error", "keep"} \cup Down]
    BY <1>3
  <1>5. \A m \in Models : now[m] # "keep"
    BY <1>3 DEF Down
  <1> HIDE DEF now
  <1>6. CatTypeOK'
    BY <1>1, <1>2, <1>4 DEF CatTypeOK
  <1>7. \A t \in Scans : probed'[t] = IF t = s THEN now ELSE probed[t]
    BY <1>2 DEF CatTypeOK
  <1>8. AllEarned'
    BY <1>1, <1>3, <1>7 DEF AllEarned, EarnedAll, Earned
  <1>9. NoneKept'
    BY <1>2, <1>5, <1>7 DEF NoneKept, CatTypeOK
  <1>10. RowsStay' /\ Seeded' /\ AdminChoiceWins'
    BY <1>1 DEF RowsStay, Seeded, AdminChoiceWins
  <1> QED BY <1>6, <1>8, <1>9, <1>10

(* The session holds what the rows are.                                          *)
LEMMA GetRowsInv ==
    ASSUME CatInv, NEW s \in Scans, GetRows(s)
    PROVE  CatInv'
  <1> USE DEF CatInv
  <1>1. UNCHANGED <<row, lock, runner, probed, ver, entries, snap, snapVer, task, copy, edit,
                    heard, patches, chosen, proven>>
    BY DEF GetRows, redisVars, procVars
  <1>2. /\ scan[s] = "get" /\ scan' = [scan EXCEPT ![s] = "commit"]
        /\ loaded' = [loaded EXCEPT ![s] = row]
    BY DEF GetRows
  <1>3. CatTypeOK'
    BY <1>1, <1>2 DEF CatTypeOK
  <1>4. \A t \in Scans : loaded'[t] = IF t = s THEN row ELSE loaded[t]
    BY <1>2 DEF CatTypeOK
  <1>5. AllEarned'
    BY <1>1, <1>4 DEF AllEarned, EarnedAll, Earned
  <1>6. NoneKept'
    BY <1>1, <1>2 DEF NoneKept, CatTypeOK
  <1>7. RowsStay'
    BY <1>1, <1>4 DEF RowsStay
  <1>8. Seeded' /\ AdminChoiceWins'
    BY <1>1 DEF Seeded, AdminChoiceWins
  <1> QED BY <1>3, <1>5, <1>6, <1>7, <1>8

(* What a scan writes of a listed model: an entry that is earned, whose enabled  *)
(* is the row's where there is a row.                                            *)
LEMMA UpsertFacts ==
    ASSUME CatInv, NEW s \in Scans, scan[s] = "commit", NEW m \in Models,
           probed[s][m] # "absent", Known(loaded[s][m]) \/ ~ Known(row[m])
    PROVE  /\ Upsert(s, m) \in Entry /\ Earned(Upsert(s, m), m)
           /\ Upsert(s, m).enabled = IF Known(row[m]) THEN row[m].enabled ELSE m \in Roles
  <1> USE DEF CatInv
  <1> DEFINE st == Written(probed[s][m], loaded[s][m].status, row[m].status)
             fl == Written(FailsAfter(s, m), loaded[s][m].fails, row[m].fails)
             en == IF Known(loaded[s][m]) THEN row[m].enabled ELSE m \in Roles
             wl == row[m].wasLive \/ probed[s][m] = "live"
  <1>1. Upsert(s, m) = [status |-> st, fails |-> fl, enabled |-> en, wasLive |-> wl]
    BY DEF Upsert
  <1>2. probed[s][m] \in Statuses
    BY DEF NoneKept, CatTypeOK, Statuses
  <1>3. /\ row[m] \in Entry \cup {Unknown} /\ loaded[s][m] \in Entry \cup {Unknown}
        /\ Known(loaded[s][m]) => Known(row[m])
    BY DEF CatTypeOK, Entries, RowsStay
  <1>4. st \in Statuses
    <2>1. CASE Known(loaded[s][m])
      <3>1. row[m].status \in Statuses
        BY <1>3, <2>1, KnownEntry
      <3> QED BY <1>2, <3>1 DEF Written
    <2>2. CASE ~ Known(loaded[s][m])
      <3>1. loaded[s][m].status = "unknown"
        BY <2>2 DEF Known
      <3>2. probed[s][m] # "unknown"
        BY <1>2 DEF Statuses, Down
      <3> QED BY <1>2, <3>1, <3>2 DEF Written
    <2> QED BY <2>1, <2>2
  <1>5. \A e \in Entry \cup {Unknown} :
           e.fails \in 0..2 /\ e.enabled \in BOOLEAN /\ e.wasLive \in BOOLEAN
    <2>1. \A e \in Entry : e.fails \in 0..2 /\ e.enabled \in BOOLEAN /\ e.wasLive \in BOOLEAN
      BY DEF Entry
    <2>2. Unknown.fails = 0 /\ Unknown.enabled = FALSE /\ Unknown.wasLive = FALSE
      BY DEF Unknown
    <2>3. \A e \in {Unknown} :
             e.fails \in 0..2 /\ e.enabled \in BOOLEAN /\ e.wasLive \in BOOLEAN
      <3> SUFFICES ASSUME NEW e \in {Unknown}
                   PROVE e.fails \in 0..2 /\ e.enabled \in BOOLEAN /\ e.wasLive \in BOOLEAN
        OBVIOUS
      <3>1. e = Unknown
        OBVIOUS
      <3>2. e.fails \in 0..2
        BY <2>2, <3>1
      <3>3. e.enabled \in BOOLEAN /\ e.wasLive \in BOOLEAN
        BY <2>2, <3>1, Zenon
      <3> QED BY <3>2, <3>3
    <2> QED BY <2>1, <2>3, Zenon
  <1>6. fl \in 0..2
    <2>1. row[m].fails \in 0..2 /\ loaded[s][m].fails \in 0..2
      BY <1>3, <1>5
    <2>2. OneMore(loaded[s][m].fails) \in 0..2
      BY <2>1 DEF OneMore
    <2> QED BY <2>1, <2>2 DEF Written, FailsAfter
  <1>7. row[m].enabled \in BOOLEAN /\ row[m].wasLive \in BOOLEAN
    BY <1>3, <1>5
  <1>8. en \in BOOLEAN /\ wl \in BOOLEAN
    <2>1. CASE Known(loaded[s][m])
      BY <1>7, <2>1, Zenon
    <2>2. CASE ~ Known(loaded[s][m])
      <3>1. (m \in Roles) \in BOOLEAN
        OBVIOUS
      <3> QED BY <2>2, <3>1, Zenon
    <2>3. wl \in BOOLEAN
      BY Zenon
    <2> QED BY <2>1, <2>2, <2>3
  <1>9. st = "live" \/ wl => m \in proven
    BY DEF AllEarned, EarnedAll, Earned, Written
  <1>10. en = IF Known(row[m]) THEN row[m].enabled ELSE m \in Roles
    BY <1>3, Zenon
  <1> HIDE DEF st, fl, en, wl
  <1>11. Upsert(s, m) \in Entry
    BY <1>1, <1>4, <1>6, <1>8 DEF Entry, Statuses
  <1>12. Upsert(s, m).status = st /\ Upsert(s, m).wasLive = wl /\ Upsert(s, m).enabled = en
    BY <1>1
  <1>13. Earned(Upsert(s, m), m)
    BY <1>9, <1>12 DEF Earned
  <1> QED BY <1>10, <1>11, <1>12, <1>13

(* What becomes of the row of a model that is not listed any more.               *)
LEMMA DelistedFacts ==
    ASSUME CatInv, NEW m \in Models
    PROVE  /\ Delisted(m) \in Entry \cup {Unknown} /\ Earned(Delisted(m), m)
           /\ Known(Delisted(m)) = Known(row[m]) /\ Delisted(m).enabled = row[m].enabled
  <1> USE DEF CatInv
  <1>1. row[m] \in Entry \cup {Unknown} /\ Earned(row[m], m)
    BY DEF CatTypeOK, Entries, AllEarned, EarnedAll
  <1>2. CASE ~ Known(row[m])
    BY <1>1, <1>2 DEF Delisted
  <1>3. CASE Known(row[m])
    <2> DEFINE d == [row[m] EXCEPT !.status = "delisted"]
    <2>1. row[m] \in Entry /\ Delisted(m) = d
      BY <1>1, <1>3, KnownEntry DEF Delisted
    <2>2. /\ d \in Entry /\ d.status = "delisted" /\ d.enabled = row[m].enabled
          /\ d.wasLive = row[m].wasLive
      BY <2>1 DEF Entry, Down
    <2> HIDE DEF d
    <2>3. Known(d) /\ Earned(d, m)
      BY <1>1, <2>2, EntryKnown DEF Earned
    <2> QED BY <1>3, <2>1, <2>2, <2>3
  <1> QED BY <1>2, <1>3

(* A row that appears has the seed, one that exists keeps its enabled, whatever  *)
(* the scan had got before.                                                      *)
LEMMA CommitScanInv ==
    ASSUME CatInv, NEW s \in Scans, CommitScan(s)
    PROVE  CatInv'
  <1> USE DEF CatInv
  <1>1. UNCHANGED <<lock, runner, probed, loaded, ver, entries, snap, snapVer, copy, edit,
                    heard, patches, chosen, proven>>
    BY DEF CommitScan, redisVars
  <1>2. /\ scan' \in [Scans -> {"new", "probe", "read", "get", "commit", "publish", "release",
                                "done"}]
        /\ \A t \in Scans : scan'[t] \in {"get", "commit"} => scan[t] = scan'[t]
    <2>1. \E there \in {"release", "publish"} : scan' = [scan EXCEPT ![s] = there]
      BY DEF CommitScan
    <2> QED BY <2>1 DEF CatTypeOK
  <1>3. /\ task' \in [Publishers -> {"idle", "patch", "publish", "entries", "ver"}]
        /\ \A p \in Procs : task'[p] = "patch" => task[p] = "patch"
    <2>1. task' = task \/ task' = [task EXCEPT ![s] = "publish"]
      BY DEF CommitScan
    <2> QED BY <2>1 DEF CatTypeOK, Publishers
  <1>4. NoneKept'
    BY <1>1, <1>2 DEF NoneKept
  <1>5. CASE row' = row
    <2>1. CatTypeOK'
      BY <1>1, <1>2, <1>3, <1>5 DEF CatTypeOK
    <2>2. AllEarned'
      BY <1>1, <1>5 DEF AllEarned, EarnedAll, Earned
    <2>3. RowsStay'
      BY <1>1, <1>3, <1>5 DEF RowsStay
    <2>4. Seeded' /\ AdminChoiceWins'
      BY <1>1, <1>5 DEF Seeded, AdminChoiceWins
    <2> QED BY <1>4, <2>1, <2>2, <2>3, <2>4
  <1>6. CASE row' # row
    <2> DEFINE new(m) == IF probed[s][m] = "absent" THEN Delisted(m) ELSE Upsert(s, m)
    <2>1. /\ scan[s] = "commit" /\ row' = [m \in Models |-> new(m)]
          /\ \A m \in Models : probed[s][m] # "absent" => Known(loaded[s][m]) \/ ~ Known(row[m])
      BY <1>6 DEF CommitScan
    <2>2. ASSUME NEW m \in Models
          PROVE /\ new(m) \in Entry \cup {Unknown} /\ Earned(new(m), m)
                /\ Known(row[m]) => Known(new(m)) /\ new(m).enabled = row[m].enabled
                /\ ~ Known(row[m]) /\ Known(new(m)) => new(m).enabled = (m \in Roles)
      <3>1. CASE probed[s][m] = "absent"
        <4>1. new(m) = Delisted(m)
          BY <3>1
        <4> QED BY <4>1, DelistedFacts
      <3>2. CASE probed[s][m] # "absent"
        <4>1. new(m) = Upsert(s, m) /\ (Known(loaded[s][m]) \/ ~ Known(row[m]))
          BY <2>1, <3>2
        <4>2. /\ Upsert(s, m) \in Entry /\ Earned(Upsert(s, m), m)
              /\ Upsert(s, m).enabled = IF Known(row[m]) THEN row[m].enabled ELSE m \in Roles
          BY <2>1, <3>2, <4>1, UpsertFacts
        <4>3. Known(Upsert(s, m))
          BY <4>2, EntryKnown
        <4> QED BY <4>1, <4>2, <4>3
      <3> QED BY <3>1, <3>2
    <2> HIDE DEF new
    <2>3. \A m \in Models : row'[m] = new(m)
      BY <2>1
    <2>4. row' \in Entries
      BY <2>1, <2>2 DEF Entries
    <2>5. CatTypeOK'
      BY <1>1, <1>2, <1>3, <2>4 DEF CatTypeOK
    <2>6. EarnedAll(row)'
      BY <1>1, <2>2, <2>3 DEF EarnedAll, Earned
    <2>7. AllEarned'
      BY <1>1, <2>6 DEF AllEarned, EarnedAll, Earned
    <2>8. \A m \in Models : Known(row[m]) => Known(row'[m])
      BY <2>2, <2>3
    <2>9. RowsStay'
      BY <1>1, <1>3, <2>8 DEF RowsStay
    <2>10. Seeded'
      BY <1>1, <2>8 DEF Seeded
    <2>11. AdminChoiceWins'
      BY <1>1, <2>2, <2>3 DEF AdminChoiceWins, Seeded
    <2> QED BY <1>4, <2>5, <2>7, <2>9, <2>10, <2>11
  <1> QED BY <1>5, <1>6

(* The end of a scan forgets what it had got.                                    *)
LEMMA EndScanInv ==
    ASSUME CatInv, NEW s \in Scans, EndScan(s)
    PROVE  CatInv'
  <1> USE DEF CatInv
  <1> DEFINE none == [m \in Models |-> "absent"]
  <1>1. UNCHANGED <<row, runner, ver, entries, snap, snapVer, task, copy, edit, heard, patches,
                    chosen, proven>>
    BY DEF EndScan, redisVars, procVars
  <1>2. /\ scan' = [scan EXCEPT ![s] = "done"] /\ lock' = Nobody
        /\ loaded' = [loaded EXCEPT ![s] = Empty] /\ probed' = [probed EXCEPT ![s] = none]
    BY DEF EndScan
  <1>3. none \in [Models -> {"absent", "live", "error", "keep"} \cup Down]
        /\ \A m \in Models : none[m] = "absent"
    OBVIOUS
  <1> HIDE DEF none
  <1>4. CatTypeOK'
    BY <1>1, <1>2, <1>3, EmptyFacts DEF CatTypeOK
  <1>5. \A t \in Scans : /\ loaded'[t] = IF t = s THEN Empty ELSE loaded[t]
                         /\ probed'[t] = IF t = s THEN none ELSE probed[t]
    BY <1>2 DEF CatTypeOK
  <1>6. AllEarned'
    <2>1. \A t \in Scans, m \in Models : probed'[t][m] = "live" => m \in proven
      BY <1>3, <1>5 DEF AllEarned
    <2>2. \A t \in Scans : EarnedAll(loaded'[t])
      BY <1>5, EmptyFacts DEF AllEarned
    <2> QED BY <1>1, <2>1, <2>2 DEF AllEarned, EarnedAll, Earned
  <1>7. NoneKept'
    BY <1>2, <1>3, <1>5 DEF NoneKept, CatTypeOK
  <1>8. RowsStay'
    <2>1. \A m \in Models : ~ Known(Empty[m])
      BY EmptyFacts DEF Known, Unknown
    <2> QED BY <1>1, <1>5, <2>1 DEF RowsStay
  <1>9. Seeded' /\ AdminChoiceWins'
    BY <1>1 DEF Seeded, AdminChoiceWins
  <1> QED BY <1>4, <1>6, <1>7, <1>8, <1>9

------------------------------------------------------------------------------
(* The administrator. *)

(* Only a model with a row is edited.                                            *)
LEMMA PatchReadInv ==
    ASSUME CatInv, NEW p \in Procs, NEW m \in Models, NEW e \in BOOLEAN, PatchRead(p, m, e)
    PROVE  CatInv'
  <1> USE DEF CatInv
  <1> DEFINE d == [model |-> m, to |-> e, was |-> row[m].enabled]
  <1>1. UNCHANGED <<row, lock, scan, runner, probed, loaded, ver, entries, snap, snapVer, copy,
                    heard, chosen, proven>>
    BY DEF PatchRead, scanVars, redisVars
  <1>2. /\ Known(row[m]) /\ task' = [task EXCEPT ![p] = "patch"] /\ patches' = patches + 1
        /\ edit' = [edit EXCEPT ![p] = d]
    BY DEF PatchRead
  <1>3. row[m] \in Entry
    BY <1>2, KnownEntry DEF CatTypeOK, Entries
  <1>4. row[m].enabled \in BOOLEAN
    BY <1>3 DEF Entry
  <1>5. d \in [model : Models \cup {NoModel}, to : BOOLEAN, was : BOOLEAN] /\ d.model = m
    BY <1>4
  <1> HIDE DEF d
  <1>6. CatTypeOK'
    <2>1. task' \in [Publishers -> {"idle", "patch", "publish", "entries", "ver"}]
      BY <1>2 DEF CatTypeOK
    <2>2. edit' \in [Procs -> [model : Models \cup {NoModel}, to : BOOLEAN, was : BOOLEAN]]
      BY <1>2, <1>5 DEF CatTypeOK
    <2>3. patches' \in Nat
      BY <1>2 DEF CatTypeOK
    <2> QED BY <1>1, <2>1, <2>2, <2>3 DEF CatTypeOK
  <1>7. AllEarned'
    BY <1>1 DEF AllEarned, EarnedAll, Earned
  <1>8. \A q \in Procs : q # p => task'[q] = task[q] /\ edit'[q] = edit[q]
    BY <1>2 DEF CatTypeOK, Publishers
  <1>9. edit'[p].model = m
    BY <1>2, <1>5 DEF CatTypeOK
  <1>10. RowsStay'
    BY <1>1, <1>2, <1>8, <1>9 DEF RowsStay
  <1>11. NoneKept' /\ Seeded' /\ AdminChoiceWins'
    BY <1>1 DEF NoneKept, Seeded, AdminChoiceWins
  <1> QED BY <1>6, <1>7, <1>10, <1>11

(* What an edit writes is the last word.                                         *)
LEMMA PatchCommitInv ==
    ASSUME CatInv, NEW p \in Procs, PatchCommit(p)
    PROVE  CatInv'
  <1> USE DEF CatInv
  <1>1. UNCHANGED <<lock, scan, runner, probed, loaded, ver, entries, snap, snapVer, copy, heard,
                    patches, proven>>
    BY DEF PatchCommit, scanVars, redisVars
  <1>2. /\ task[p] = "patch" /\ task' = [task EXCEPT ![p] = "publish"]
        /\ edit' = [edit EXCEPT ![p] = NoEdit]
    BY DEF PatchCommit
  <1>3. PICK m \in Models : m = edit[p].model /\ Known(row[m])
    BY <1>2 DEF RowsStay
  <1>4. PICK v \in BOOLEAN : v = edit[p].to
    BY DEF CatTypeOK
  <1>5. /\ task' \in [Publishers -> {"idle", "patch", "publish", "entries", "ver"}]
        /\ edit' \in [Procs -> [model : Models \cup {NoModel}, to : BOOLEAN, was : BOOLEAN]]
        /\ \A q \in Procs : task'[q] = "patch" => task[q] = "patch" /\ edit'[q] = edit[q]
    <2>1. NoEdit \in [model : Models \cup {NoModel}, to : BOOLEAN, was : BOOLEAN]
      BY DEF NoEdit
    <2> QED BY <1>2, <2>1 DEF CatTypeOK, Publishers
  <1>6. NoneKept'
    BY <1>1 DEF NoneKept
  <1>7. CASE UNCHANGED <<row, chosen>>
    <2>1. CatTypeOK'
      BY <1>1, <1>5, <1>7 DEF CatTypeOK
    <2>2. AllEarned'
      BY <1>1, <1>7 DEF AllEarned, EarnedAll, Earned
    <2>3. RowsStay'
      BY <1>1, <1>5, <1>7 DEF RowsStay
    <2>4. Seeded' /\ AdminChoiceWins'
      BY <1>7 DEF Seeded, AdminChoiceWins
    <2> QED BY <1>6, <2>1, <2>2, <2>3, <2>4
  <1>8. CASE /\ row' = [row EXCEPT ![m] = [@ EXCEPT !.enabled = v]]
             /\ chosen' = [chosen EXCEPT ![m] = v]
    <2> DEFINE e == [row[m] EXCEPT !.enabled = v]
    <2>1. row[m] \in Entry
      BY <1>3, KnownEntry DEF CatTypeOK, Entries
    <2>2. /\ e \in Entry /\ e.enabled = v /\ e.status = row[m].status
          /\ e.wasLive = row[m].wasLive
      BY <2>1 DEF Entry
    <2>3. row' = [row EXCEPT ![m] = e]
      BY <1>8
    <2> HIDE DEF e
    <2>4. row' \in Entries /\ \A n \in Models : row'[n] = IF n = m THEN e ELSE row[n]
      BY <2>2, <2>3 DEF CatTypeOK, Entries
    <2>5. chosen' \in [Models -> BOOLEAN] /\ chosen'[m] = v
      BY <1>8 DEF CatTypeOK
    <2>6. \A n \in Models : n # m => chosen'[n] = chosen[n]
      BY <1>8 DEF CatTypeOK
    <2>7. CatTypeOK'
      BY <1>1, <1>5, <2>4, <2>5 DEF CatTypeOK
    <2>8. EarnedAll(row)'
      BY <1>1, <2>2, <2>4 DEF AllEarned, EarnedAll, Earned
    <2>9. AllEarned'
      BY <1>1, <2>8 DEF AllEarned, EarnedAll, Earned
    <2>10. \A n \in Models : Known(row'[n]) = Known(row[n])
      BY <2>2, <2>4 DEF Known
    <2>11. RowsStay'
      BY <1>1, <1>5, <2>10 DEF RowsStay
    <2>12. Seeded'
      BY <1>3, <2>6, <2>10 DEF Seeded
    <2>13. AdminChoiceWins'
      BY <2>2, <2>4, <2>5, <2>6, <2>10 DEF AdminChoiceWins
    <2> QED BY <1>6, <2>7, <2>9, <2>11, <2>12, <2>13
  <1> QED BY <1>3, <1>4, <1>7, <1>8 DEF PatchCommit

------------------------------------------------------------------------------
(* Publication and freshness. *)

(* Redis and the snapshots get rows, or what came from rows: all earned.         *)
LEMMA CarryInv ==
    ASSUME CatInv, NEW w \in Publishers, NEW p \in Procs, p = Home(w),
           \/ ReloadRows(w) \/ PublishEntries(w) \/ PublishVer(w)
           \/ HearVer(p) \/ TakeEntries(p) \/ TakeRows(p)
    PROVE  CatInv'
  <1> USE DEF CatInv
  <1> USE DEF ReloadRows, PublishEntries, PublishVer, HearVer, TakeEntries, TakeRows, Go
  <1>1. UNCHANGED <<row, lock, scan, runner, probed, loaded, edit, patches, chosen, proven>>
    BY DEF scanVars
  <1>2. \/ snap' = snap \/ snap' = [snap EXCEPT ![p] = row]
        \/ snap' = [snap EXCEPT ![p] = entries]
    BY Zenon
  <1>3. copy' = copy \/ copy' = [copy EXCEPT ![w] = row] \/ copy' = [copy EXCEPT ![w] = Empty]
    OBVIOUS
  <1>4. entries' = entries \/ entries' = copy[w]
    BY DEF redisVars
  <1>5. task' = task \/ \E there \in {"entries", "ver", "idle"} : task' = [task EXCEPT ![w] = there]
    OBVIOUS
  <1>6. ver' = ver \/ ver' = ver + 1
    BY DEF redisVars
  <1>7. \/ snapVer' = snapVer \/ snapVer' = [snapVer EXCEPT ![p] = ver + 1]
        \/ snapVer' = [snapVer EXCEPT ![p] = heard[p]]
    OBVIOUS
  <1>8. \/ heard' = heard \/ heard' = [heard EXCEPT ![p] = 0] \/ heard' = [heard EXCEPT ![p] = ver]
    OBVIOUS
  <1> HIDE DEF ReloadRows, PublishEntries, PublishVer, HearVer, TakeEntries, TakeRows, Go
  <1>0. /\ row \in Entries /\ entries \in Entries /\ ver \in Nat
        /\ snap \in [Procs -> Entries] /\ copy \in [Publishers -> Entries]
        /\ snapVer \in [Procs -> Nat] /\ heard \in [Procs -> Nat]
    BY DEF CatTypeOK
  <1>9. /\ snap' \in [Procs -> Entries]
        /\ \A q \in Procs : snap'[q] = snap[q] \/ snap'[q] = row \/ snap'[q] = entries
    <2>1. PICK f \in {row, entries} : snap' = snap \/ snap' = [snap EXCEPT ![p] = f]
      BY <1>2
    <2> QED BY <1>0, <2>1
  <1>10. /\ copy' \in [Publishers -> Entries]
         /\ \A q \in Publishers : copy'[q] = copy[q] \/ copy'[q] = row \/ copy'[q] = Empty
    <2>1. PICK f \in {row, Empty} : copy' = copy \/ copy' = [copy EXCEPT ![w] = f]
      BY <1>3
    <2> QED BY <1>0, <2>1, EmptyFacts
  <1>11. /\ task' \in [Publishers -> {"idle", "patch", "publish", "entries", "ver"}]
         /\ \A q \in Procs : task'[q] = "patch" => task[q] = "patch"
    <2>1. PICK there \in {"entries", "ver", "idle"} :
              task' = task \/ task' = [task EXCEPT ![w] = there]
      BY <1>5
    <2>2. task \in [Publishers -> {"idle", "patch", "publish", "entries", "ver"}]
      BY DEF CatTypeOK
    <2>3. \A q \in Publishers : task'[q] = task[q] \/ task'[q] = there
      BY <2>1, <2>2
    <2> QED BY <2>1, <2>2, <2>3 DEF Publishers
  <1>12. /\ entries' \in Entries /\ ver' \in Nat
         /\ snapVer' \in [Procs -> Nat] /\ heard' \in [Procs -> Nat]
    <2>1. entries' \in Entries /\ ver' \in Nat /\ ver + 1 \in Nat
      BY <1>0, <1>4, <1>6
    <2>2. PICK n \in Nat : snapVer' = snapVer \/ snapVer' = [snapVer EXCEPT ![p] = n]
      BY <1>0, <1>7, <2>1
    <2>3. PICK k \in Nat : heard' = heard \/ heard' = [heard EXCEPT ![p] = k]
      BY <1>0, <1>8
    <2>4. snapVer' \in [Procs -> Nat]
      BY <1>0, <2>2
    <2>5. heard' \in [Procs -> Nat]
      BY <1>0, <2>3
    <2> QED BY <2>1, <2>4, <2>5
  <1>13. CatTypeOK'
    BY <1>1, <1>9, <1>10, <1>11, <1>12 DEF CatTypeOK
  <1>14. AllEarned'
    <2>1. /\ \A q \in Procs : EarnedAll(snap'[q])
          /\ \A q \in Publishers : EarnedAll(copy'[q])
      BY <1>9, <1>10, EmptyFacts DEF AllEarned
    <2>2. EarnedAll(entries')
      BY <1>4 DEF AllEarned
    <2> QED BY <1>1, <2>1, <2>2 DEF AllEarned, EarnedAll, Earned
  <1>15. RowsStay'
    BY <1>1, <1>11 DEF RowsStay
  <1>16. NoneKept' /\ Seeded' /\ AdminChoiceWins'
    BY <1>1 DEF NoneKept, Seeded, AdminChoiceWins
  <1> QED BY <1>13, <1>14, <1>15, <1>16

(* Every step keeps the invariant.                                               *)
LEMMA CatNextInv == CatInv /\ [CatNext]_catVars => CatInv'
  <1> SUFFICES ASSUME CatInv, [CatNext]_catVars PROVE CatInv'
    OBVIOUS
  <1>1. CASE UNCHANGED catVars
    <2>1. UNCHANGED <<row, lock, scan, runner, probed, loaded, ver, entries, snap, snapVer, task,
                      copy, edit, heard, patches, chosen, proven>>
      BY <1>1 DEF catVars, scanVars, redisVars, procVars
    <2>2. CatTypeOK'
      BY <2>1 DEF CatInv, CatTypeOK
    <2>3. AllEarned'
      BY <2>1 DEF CatInv, AllEarned, EarnedAll, Earned
    <2>4. NoneKept' /\ RowsStay' /\ Seeded' /\ AdminChoiceWins'
      BY <2>1 DEF CatInv, NoneKept, RowsStay, Seeded, AdminChoiceWins
    <2> QED BY <2>2, <2>3, <2>4 DEF CatInv
  <1>2. CASE (\E s \in Scans, p \in Procs : StartScan(s, p)) \/ ExpireLock
    BY <1>2, LockInv
  <1>3. CASE \E s \in Scans :
                \/ \E result \in [Models -> {"absent", "live", "error", "not_found", "keep"}] :
                      Probe(s, result)
                \/ LoadRows(s) \/ GetRows(s) \/ CommitScan(s) \/ EndScan(s)
    BY <1>3, ProbeInv, LoadRowsInv, GetRowsInv, CommitScanInv, EndScanInv
  <1>4. CASE \E p \in Procs :
                (\E m \in Models, e \in BOOLEAN : PatchRead(p, m, e)) \/ PatchCommit(p)
    BY <1>4, PatchReadInv, PatchCommitInv
  <1>5. CASE \E w \in Publishers : ReloadRows(w) \/ PublishEntries(w) \/ PublishVer(w)
    <2>1. \A w \in Publishers : Home(w) \in Procs
      BY DEF Home, Publishers, CatInv, CatTypeOK
    <2> QED BY <1>5, <2>1, CarryInv
  <1>6. CASE \E p \in Procs : HearVer(p) \/ TakeEntries(p) \/ TakeRows(p)
    <2>1. \A p \in Procs : p \in Publishers /\ Home(p) = p
      BY CatalogAssumption DEF Home, Publishers
    <2> QED BY <1>6, <2>1, CarryInv
  <1> QED BY <1>1, <1>2, <1>3, <1>4, <1>5, <1>6 DEF CatNext

(* However scans and edits overlap, a row is enabled as the administrator said   *)
(* last, or as it was seeded (upsert_scan_result, PATCH /admin/models).          *)
THEOREM AdminsChoiceWins == CatSpec => []AdminChoiceWins
  <1>1. CatInv => AdminChoiceWins
    BY DEF CatInv
  <1> QED BY <1>1, CatInitInv, CatNextInv, PTL DEF CatSpec

(* Whatever snapshot it is resolved against, a request's model is a role, Auto,  *)
(* or one that has answered a probe (_resolve_model, ensure_fresh).              *)
THEOREM OnlyProven == CatSpec => []OnlyProvenOffered
  <1>1. CatInv => OnlyProvenOffered
    <2> SUFFICES ASSUME CatInv, NEW p \in Procs, NEW m \in Models \cup {NoModel}
                 PROVE Resolve(p, m) \in Roles \cup proven \cup {NoModel}
      BY DEF OnlyProvenOffered, Effective
    <2>1. CASE m \in Models /\ Available(snap[p][m])
      <3>1. Earned(snap[p][m], m)
        BY <2>1 DEF CatInv, AllEarned, EarnedAll
      <3>2. snap[p][m].status = "live" \/ snap[p][m].wasLive
        BY <2>1 DEF Available
      <3> QED BY <3>1, <3>2 DEF Earned, Resolve
    <2>2. CASE ~ (m \in Models /\ Available(snap[p][m]))
      BY <2>2 DEF Resolve
    <2> QED BY <2>1, <2>2
  <1> QED BY <1>1, CatInitInv, CatNextInv, PTL DEF CatSpec

------------------------------------------------------------------------------
(* The context of a turn. *)

(* Every tier there is is at most 8.                                             *)
LEMMA TierRange == ASSUME NEW list, NEW i PROVE Tier(list, i) \in 0..8
  BY DEF Tier, TierOfKind

(* A set of tiers has a highest one.                                             *)
LEMMA HighestTier ==
    ASSUME NEW S, S # {}, S \subseteq 1..8
    PROVE  Max(S) \in S /\ \A u \in S : u <= Max(S)
  <1>1. \E x \in S : \A u \in S : u <= x
    <2>1. CASE 8 \in S
      BY <2>1
    <2>2. CASE S \subseteq 1..7 /\ 7 \in S
      BY <2>2
    <2>3. CASE S \subseteq 1..6 /\ 6 \in S
      BY <2>3
    <2>4. CASE S \subseteq 1..5 /\ 5 \in S
      BY <2>4
    <2>5. CASE S \subseteq 1..4 /\ 4 \in S
      BY <2>5
    <2>6. CASE S \subseteq 1..3 /\ 3 \in S
      BY <2>6
    <2>7. CASE S \subseteq 1..2
      <3>1. CASE 2 \in S
        BY <2>7, <3>1
      <3>2. CASE 2 \notin S
        <4>1. \A u \in S : u = 1
          BY <2>7, <3>2
        <4>2. 1 \in S
          BY <4>1
        <4> QED BY <4>1, <4>2
      <3> QED BY <3>1, <3>2
    <2>8. \/ 8 \in S \/ (S \subseteq 1..7 /\ 7 \in S) \/ (S \subseteq 1..6 /\ 6 \in S)
          \/ (S \subseteq 1..5 /\ 5 \in S) \/ (S \subseteq 1..4 /\ 4 \in S)
          \/ (S \subseteq 1..3 /\ 3 \in S) \/ S \subseteq 1..2
      OBVIOUS
    <2> QED BY <2>1, <2>2, <2>3, <2>4, <2>5, <2>6, <2>7, <2>8
  <1> QED BY <1>1 DEF Max

(* A tier that no message has drops nothing.                                     *)
LEMMA EmptyTier ==
    ASSUME NEW list, NEW t, \A i \in DOMAIN list : Tier(list, i) # t
    PROVE  DropSet(list, t) = {}
  BY DEF DropSet

(* Before the first tier is dropped everything survives.                         *)
LEMMA AllSurvive == ASSUME NEW list PROVE Surviving(list, 9) = DOMAIN list
  BY DEF Surviving

(* Dropping the next tier that some message has is dropping all down to it.      *)
LEMMA SkipEmptyTiers ==
    ASSUME NEW list, NEW t \in 1..9, NEW n \in 1..8, n < t,
           \A i \in DOMAIN list : Tier(list, i) \notin n + 1 .. t - 1
    PROVE  /\ Surviving(list, n + 1) = Surviving(list, t)
           /\ Surviving(list, n) = Surviving(list, t) \ DropSet(list, n)
  <1>1. ASSUME NEW u \in n + 1 .. t - 1 PROVE DropSet(list, u) = {}
    BY <1>1, EmptyTier
  <1>2. \A u \in n + 1 .. 8 : u \in n + 1 .. t - 1 \/ u \in t .. 8
    OBVIOUS
  <1>3. \A u \in t .. 8 : u \in n + 1 .. 8
    OBVIOUS
  <1>4. Surviving(list, n + 1) = Surviving(list, t)
    BY <1>1, <1>2, <1>3 DEF Surviving
  <1>5. \A u : u \in n .. 8 <=> u = n \/ u \in n + 1 .. 8
    OBVIOUS
  <1>6. Surviving(list, n) = Surviving(list, n + 1) \ DropSet(list, n)
    BY <1>5 DEF Surviving
  <1> QED BY <1>4, <1>6

(* While it trims, exactly the tiers from the last one up are gone, and what is  *)
(* left does not fit.                                                            *)
Trimming ==
    stage = "trim" =>
        /\ tier \in 1..9 /\ keep = Surviving(given, tier) /\ ~ Fits(given, keep)
        /\ tier < 9 => ~ Fits(given, Surviving(given, tier + 1))

BudgetInv == Trimming /\ TrimIsTight

(* The list a turn begins with is not trimmed.                                   *)
LEMMA BudgetInitInv == BudgetInit => BudgetInv
  BY DEF BudgetInit, BudgetInv, Trimming, TrimIsTight

(* The first look at the list drops nothing.                                     *)
LEMMA StartBudgetInv ==
    ASSUME BudgetInv, StartBudget PROVE BudgetInv'
  <1>1. /\ given' = msgs /\ keep' = DOMAIN msgs /\ tier' = 9 /\ window' = window
        /\ stage' = IF Fits(msgs, DOMAIN msgs) THEN "call" ELSE "trim"
    BY DEF StartBudget
  <1>2. keep' = Surviving(given', 9)
    BY <1>1, AllSurvive
  <1>3. Fits(given, keep)' = Fits(msgs, DOMAIN msgs)
    BY <1>1 DEF Fits
  <1>4. Trimming'
    BY <1>1, <1>2, <1>3 DEF Trimming
  <1>5. TrimIsTight'
    BY <1>1, <1>2, <1>3 DEF TrimIsTight
  <1> QED BY <1>4, <1>5 DEF BudgetInv

(* The next tier that some message has goes; those between are empty.            *)
LEMMA DropTierInv ==
    ASSUME BudgetInv, DropTier PROVE BudgetInv'
  <1>1. /\ stage = "trim" /\ Lower # {} /\ tier' = Max(Lower)
        /\ keep' = keep \ DropSet(given, tier') /\ given' = given /\ window' = window
        /\ stage' = IF Fits(given, keep') THEN "call" ELSE "trim"
    BY DEF DropTier
  <1>2. tier \in 1..9 /\ keep = Surviving(given, tier) /\ ~ Fits(given, keep)
    BY <1>1 DEF BudgetInv, Trimming
  <1>3. Lower \subseteq 1..8
    BY <1>2 DEF Lower
  <1>4. /\ tier' \in 1..8 /\ tier' < tier
        /\ \A u \in Lower : u <= tier'
    BY <1>1, <1>2, <1>3, HighestTier DEF Lower
  <1>5. PICK n \in 1..8 : n = tier'
    BY <1>4
  <1>6. \A i \in DOMAIN given : Tier(given, i) \notin n + 1 .. tier - 1
    <2> SUFFICES ASSUME NEW i \in DOMAIN given, Tier(given, i) \in n + 1 .. tier - 1 PROVE FALSE
      OBVIOUS
    <2>1. Tier(given, i) \in Lower
      BY <1>2, <1>5 DEF Lower
    <2>2. Tier(given, i) <= n
      BY <1>4, <1>5, <2>1
    <2> QED BY <1>2, <2>2
  <1>7. Surviving(given, tier' + 1) = keep /\ keep' = Surviving(given, tier')
    BY <1>1, <1>2, <1>4, <1>5, <1>6, SkipEmptyTiers
  <1>8. Fits(given, keep)' = Fits(given, keep') /\ ~ Fits(given, Surviving(given, tier + 1))'
    BY <1>1, <1>2, <1>7 DEF Fits, Surviving
  <1>9. Trimming'
    BY <1>1, <1>4, <1>7, <1>8 DEF Trimming
  <1>10. TrimIsTight'
    BY <1>1, <1>4, <1>7, <1>8 DEF TrimIsTight
  <1> QED BY <1>9, <1>10 DEF BudgetInv

(* No tier is left: what is kept may not be dropped.                             *)
LEMMA DropNoMoreInv ==
    ASSUME BudgetInv, DropNoMore PROVE BudgetInv'
  <1>1. /\ stage = "trim" /\ Lower = {} /\ stage' = "call"
        /\ given' = given /\ keep' = keep /\ tier' = tier /\ window' = window
    BY DEF DropNoMore
  <1>2. /\ tier \in 1..9 /\ keep = Surviving(given, tier)
        /\ tier < 9 => ~ Fits(given, Surviving(given, tier + 1))
    BY <1>1 DEF BudgetInv, Trimming
  <1>3. ASSUME NEW i \in keep PROVE Tier(given, i) = 0
    <2>1. i \in DOMAIN given /\ \A u \in tier..8 : i \notin DropSet(given, u)
      BY <1>2 DEF Surviving
    <2>2. Tier(given, i) \notin tier..8
      BY <2>1 DEF DropSet
    <2>3. Tier(given, i) \notin 1 .. tier - 1
      BY <1>1, <2>1 DEF Lower
    <2> QED BY <1>2, <2>2, <2>3, TierRange
  <1>4. keep' = Surviving(given', tier') /\ \A i \in keep' : Tier(given', i) = 0
    BY <1>1, <1>2, <1>3
  <1>5. tier' < 9 => ~ Fits(given, Surviving(given, tier + 1))'
    BY <1>1, <1>2 DEF Fits, Surviving
  <1>6. TrimIsTight'
    BY <1>4, <1>5 DEF TrimIsTight
  <1> QED BY <1>1, <1>6 DEF BudgetInv, Trimming

(* Every step keeps the invariant: the others leave both stages, or the budget   *)
(* alone.                                                                        *)
LEMMA BudgetNextInv == BudgetInv /\ [BudgetNext]_budgetVars => BudgetInv'
  <1> SUFFICES ASSUME BudgetInv, [BudgetNext]_budgetVars PROVE BudgetInv'
    OBVIOUS
  <1>1. CASE stage' \notin {"trim", "call"}
    BY <1>1 DEF BudgetInv, Trimming, TrimIsTight
  <1>2. CASE UNCHANGED budgetVars
    <2>1. UNCHANGED <<stage, window, given, keep, tier>>
      BY <1>2 DEF budgetVars
    <2> QED BY <2>1 DEF BudgetInv, Trimming, TrimIsTight, Fits, Surviving
  <1>3. CASE StartBudget
    BY <1>3, StartBudgetInv
  <1>4. CASE DropTier
    BY <1>4, DropTierInv
  <1>5. CASE DropNoMore
    BY <1>5, DropNoMoreInv
  <1>6. \/ StartBudget \/ DropTier \/ DropNoMore \/ UNCHANGED budgetVars
        \/ stage' \notin {"trim", "call"}
    BY DEF BudgetNext, Compose, UseTool, StopLoop, EndTools, FallBack, Answer
  <1> QED BY <1>1, <1>2, <1>3, <1>4, <1>5, <1>6

(* At every call of a model, of every size of message and window, exactly the    *)
(* tiers that had to go are gone (apply_context_budget).                         *)
THEOREM TrimsTightly == BudgetSpec => []TrimIsTight
  <1>1. BudgetInv => TrimIsTight
    BY DEF BudgetInv
  <1> QED BY <1>1, BudgetInitInv, BudgetNextInv, PTL DEF BudgetSpec

(* ----------------------------------------------------- lists of messages -- *)

(* A set of naturals has a least one.                                            *)
LEMMA LeastNat ==
    ASSUME NEW B \in SUBSET Nat, B # {} PROVE \E n \in B : \A m \in B : n <= m
  <1>1. PICK n \in B : \A m \in B : <<m, n>> \notin OpToRel(<, Nat)
    BY NatLessThanWellFounded, WFMin
  <1>2. \A m \in B : ~ (m < n)
    BY <1>1 DEF OpToRel
  <1> QED BY <1>2

(* A list of lists of messages is one list of messages.                          *)
LEMMA FlattenType ==
    ASSUME NEW S, NEW seqs \in Seq(Seq(S)) PROVE FlattenSeq(seqs) \in Seq(S)
  <1> DEFINE Flat(f, n) ==
        \A i \in 1..n : f[i] = IF i = 1 THEN seqs[i] ELSE f[i - 1] \o seqs[i]
  <1>1. Len(seqs) \in Nat /\ \A i \in 1..Len(seqs) : seqs[i] \in Seq(S)
    BY LenProperties, ElementOfSeq
  <1>2. \A n \in Nat : \E f : Flat(f, n)
    <2> DEFINE B == {n \in Nat : ~ \E f : Flat(f, n)}
    <2>1. SUFFICES ASSUME B # {} PROVE FALSE
      BY DEF B
    <2>2. PICK n \in B : \A m \in B : n <= m
      <3>1. B \in SUBSET Nat
        OBVIOUS
      <3> HIDE DEF B
      <3> QED BY <2>1, <3>1, LeastNat
    <2>3. n # 0
      BY <2>2
    <2>4. n \in Nat /\ n - 1 \in Nat /\ n - 1 \notin B
      <3>1. n \in Nat
        BY <2>2
      <3>2. n - 1 \in Nat /\ ~ (n <= n - 1)
        BY <2>3, <3>1
      <3> HIDE DEF B
      <3> QED BY <2>2, <3>1, <3>2
    <2>5. PICK f : Flat(f, n - 1)
      BY <2>4
    <2> DEFINE F == [i \in 1..n |->
                       IF i < n THEN f[i]
                       ELSE IF i = 1 THEN seqs[i] ELSE f[n - 1] \o seqs[n]]
    <2>6. Flat(F, n)
      <3> SUFFICES ASSUME NEW i \in 1..n
                   PROVE  F[i] = IF i = 1 THEN seqs[i] ELSE F[i - 1] \o seqs[i]
        OBVIOUS
      <3>1. i # 1 => i - 1 \in 1..n /\ i - 1 < n /\ F[i - 1] = f[i - 1]
        BY <2>4
      <3>2. CASE i < n
        <4>1. i \in 1..(n - 1)
          BY <2>4, <3>2
        <4>2. F[i] = f[i]
          BY <3>2
        <4> QED BY <2>5, <3>1, <4>1, <4>2
      <3>3. CASE i = n
        BY <3>1, <3>3
      <3> QED BY <2>4, <3>2, <3>3
    <2> QED BY <2>2, <2>6
  <1>3. PICK h : Flat(h, Len(seqs))
    BY <1>1, <1>2
  <1> DEFINE body(f) == [i \in 1..Len(seqs) |->
                           IF i = 1 THEN seqs[i] ELSE f[i - 1] \o seqs[i]]
             flatten == CHOOSE f : f = body(f)
             k == [i \in 1..Len(seqs) |-> h[i]]
  <1>4. k = body(k)
    BY <1>1, <1>3
  <1>5. flatten = body(flatten)
    <2> HIDE DEF k, body
    <2> QED BY <1>4
  <1>6. \A i \in 1..Len(seqs) : flatten[i] \in Seq(S)
    <2> HIDE DEF flatten
    <2> DEFINE B == {i \in 1..Len(seqs) : flatten[i] \notin Seq(S)}
    <2>1. SUFFICES ASSUME B # {} PROVE FALSE
      OBVIOUS
    <2>2. PICK n \in B : \A m \in B : n <= m
      <3>1. B \in SUBSET Nat
        BY <1>1
      <3> HIDE DEF B
      <3> QED BY <2>1, <3>1, LeastNat
    <2>3. n \in 1..Len(seqs) /\ flatten[n] \notin Seq(S)
      BY <2>2
    <2>4. flatten[n] = IF n = 1 THEN seqs[n] ELSE flatten[n - 1] \o seqs[n]
      BY <1>5, <2>3
    <2>5. CASE n = 1
      BY <1>1, <2>3, <2>4, <2>5
    <2>6. CASE n # 1
      <3>1. n - 1 \in 1..Len(seqs) /\ n - 1 < n
        BY <1>1, <2>3, <2>6
      <3>2. n - 1 \notin B
        BY <2>2, <3>1, <1>1
      <3>3. flatten[n - 1] \in Seq(S)
        BY <3>1, <3>2
      <3>4. flatten[n - 1] \o seqs[n] \in Seq(S)
        BY <1>1, <2>3, <3>3, ConcatProperties
      <3> QED BY <2>3, <2>4, <2>6, <3>4
    <2> QED BY <2>5, <2>6
  <1>7. Len(seqs) = 0 => seqs \in Seq(S)
    <2>1. Len(seqs) = 0 => seqs = <<>>
      BY EmptySeq
    <2> QED BY <2>1, EmptySeq
  <1>8. Len(seqs) # 0 => Len(seqs) \in 1..Len(seqs)
    BY <1>1
  <1>9. FlattenSeq(seqs) = IF Len(seqs) = 0 THEN seqs ELSE flatten[Len(seqs)]
    BY Zenon DEF FlattenSeq
  <1> HIDE DEF flatten
  <1> QED BY <1>6, <1>7, <1>8, <1>9

(* --------------------------------------------------- choosing messages -- *)

(* Of some sets of positions one has none of the others inside, and a set of     *)
(* positions has a last one.                                                     *)
LEMMA LeastSubset ==
    ASSUME NEW S, IsFiniteSet(S), NEW B \in SUBSET SUBSET S, B # {}
    PROVE  \E T \in B : \A U \in B : U \subseteq T => U = T
  <1>1. B \subseteq FiniteSubsetsOf(S)
    BY FS_FiniteSubsetsOfFinite
  <1>2. PICK T \in B : \A U \in B : <<U, T>> \notin StrictSubsetOrdering(S)
    BY <1>1, FS_StrictSubsetOrderingWellFounded, WFMin
  <1> QED BY <1>2 DEF StrictSubsetOrdering

LEMMA LastPosition ==
    ASSUME NEW n \in Nat, NEW s \in SUBSET (1..n), s # {}
    PROVE  Max(s) \in s /\ \A i \in s : i <= Max(s)
  <1> DEFINE B == {n - i : i \in s}
  <1>1. B \in SUBSET Nat /\ B # {}
    <2>1. \A i \in s : n - i \in Nat
      OBVIOUS
    <2> QED BY <2>1
  <1>2. PICK m \in B : \A k \in B : m <= k
    <2> HIDE DEF B
    <2> QED BY <1>1, LeastNat
  <1>3. PICK i \in s : m = n - i
    BY <1>2
  <1>4. \A k \in s : i >= k
    BY <1>2, <1>3
  <1> QED BY <1>4 DEF Max

Ordered(S) == \A s \in SUBSET S : s # {} => Max(s) \in s
LEMMA Positions ==
    ASSUME NEW n \in Nat PROVE IsFiniteSet(1..n) /\ Ordered(1..n)
  <1>1. IsFiniteSet(1..n)
    BY FS_Interval
  <1>2. Ordered(1..n)
    BY LastPosition DEF Ordered
  <1> QED BY <1>1, <1>2

(* A fold over positions, from the first to the last, that takes those in P.     *)
Taken(f, l, P, s) ==
    IF Max(s) \in P THEN Append(f[s \ {Max(s)}], l[Max(s)]) ELSE f[s \ {Max(s)}]
Takes(f, l, P, S) == \A s \in SUBSET S : f[s] = IF s = {} THEN <<>> ELSE Taken(f, l, P, s)

LEMMA TakesUnique ==
    ASSUME NEW S, IsFiniteSet(S), Ordered(S), NEW f, NEW h, NEW l, NEW P,
           Takes(f, l, P, S), Takes(h, l, P, S)
    PROVE  \A s \in SUBSET S : f[s] = h[s]
  <1> DEFINE B == {s \in SUBSET S : f[s] # h[s]}
  <1>1. SUFFICES ASSUME B # {} PROVE FALSE
    OBVIOUS
  <1>2. PICK T \in B : \A U \in B : U \subseteq T => U = T
    <2>1. B \in SUBSET SUBSET S
      OBVIOUS
    <2> HIDE DEF B
    <2> QED BY <1>1, <2>1, LeastSubset
  <1>3. CASE T = {}
    BY <1>3 DEF Takes
  <1>4. CASE T # {}
    <2>1. f[T] = Taken(f, l, P, T) /\ h[T] = Taken(h, l, P, T)
      BY <1>4 DEF Takes
    <2>2. T \ {Max(T)} \in SUBSET S /\ T \ {Max(T)} # T
      BY <1>4 DEF Ordered
    <2>3. f[T \ {Max(T)}] = h[T \ {Max(T)}]
      BY <1>2, <2>2
    <2> QED BY <1>2, <2>1, <2>3 DEF Taken
  <1> QED BY <1>3, <1>4

LEMMA TakesExists ==
    ASSUME NEW S, IsFiniteSet(S), Ordered(S), NEW l, NEW P PROVE \E f : Takes(f, l, P, S)
  <1> DEFINE B == {s \in SUBSET S : ~ \E f : Takes(f, l, P, s)}
  <1>1. SUFFICES ASSUME B # {} PROVE FALSE
    BY DEF B
  <1>2. PICK T \in B : \A U \in B : U \subseteq T => U = T
    <2>1. B \in SUBSET SUBSET S
      OBVIOUS
    <2> HIDE DEF B
    <2> QED BY <1>1, <2>1, LeastSubset
  <1> DEFINE Whole(s) == (CHOOSE f : Takes(f, l, P, s))[s]
             rest == Whole(T \ {Max(T)})
             last == IF Max(T) \in P THEN Append(rest, l[Max(T)]) ELSE rest
             F == [s \in SUBSET T |->
                     IF s = {} THEN <<>> ELSE IF s = T THEN last ELSE Whole(s)]
  <1>3. \A s \in SUBSET T : s # T => Takes(CHOOSE f : Takes(f, l, P, s), l, P, s)
    BY <1>2
  <1>4. \A s \in SUBSET T : s # T /\ s # {}
          => Whole(s) = IF Max(s) \in P THEN Append(Whole(s \ {Max(s)}), l[Max(s)])
                        ELSE Whole(s \ {Max(s)})
    <2> SUFFICES ASSUME NEW s \in SUBSET T, s # T, s # {}
                 PROVE  Whole(s) = IF Max(s) \in P
                                   THEN Append(Whole(s \ {Max(s)}), l[Max(s)])
                                   ELSE Whole(s \ {Max(s)})
      OBVIOUS
    <2> DEFINE r == s \ {Max(s)}
               a == CHOOSE f : Takes(f, l, P, s)
               b == CHOOSE f : Takes(f, l, P, r)
    <2>1. /\ r \in SUBSET s /\ r \in SUBSET T /\ r # T
          /\ IsFiniteSet(r) /\ Ordered(r)
      <3>1. s \in SUBSET S
        BY <1>2
      <3>2. r \in SUBSET S
        BY <3>1
      <3> HIDE DEF r
      <3>3. IsFiniteSet(r) /\ Ordered(r)
        BY <3>2, FS_Subset DEF Ordered
      <3> QED BY <3>1, <3>3 DEF Ordered, r
    <2>2. Takes(a, l, P, s) /\ Takes(b, l, P, r)
      BY <1>3, <2>1
    <2> HIDE DEF a, b
    <2>3. Takes(a, l, P, r)
      BY <2>1, <2>2 DEF Takes
    <2>4. a[r] = b[r]
      BY <2>1, <2>2, <2>3, TakesUnique
    <2>5. a[s] = IF Max(s) \in P THEN Append(a[r], l[Max(s)]) ELSE a[r]
      BY <2>2 DEF Takes, Taken
    <2> QED BY <2>4, <2>5 DEF a, b
  <1>5. Whole({}) = <<>>
    <2>1. CASE T # {}
      BY <1>3, <2>1 DEF Takes
    <2>2. CASE T = {}
      <3>1. Takes([s \in SUBSET T |-> <<>>], l, P, {})
        BY <2>2 DEF Takes
      <3> QED BY <1>2, <2>2, <3>1
    <2> QED BY <2>1, <2>2
  <1> HIDE DEF Whole
  <1>6. Takes(F, l, P, T)
    <2> SUFFICES ASSUME NEW s \in SUBSET T, s # {} PROVE F[s] = Taken(F, l, P, s)
      BY DEF Takes
    <2>1. s \ {Max(s)} \in SUBSET T /\ s \ {Max(s)} # T
      <3>1. s \in SUBSET S
        BY <1>2
      <3> QED BY <3>1 DEF Ordered
    <2>2. F[s \ {Max(s)}] = Whole(s \ {Max(s)})
      BY <1>5, <2>1
    <2>3. F[s] = IF Max(s) \in P THEN Append(Whole(s \ {Max(s)}), l[Max(s)])
                 ELSE Whole(s \ {Max(s)})
      BY <1>4
    <2> HIDE DEF F
    <2> QED BY <2>2, <2>3 DEF Taken
  <1> QED BY <1>2, <1>6

(* Read along the list, such a fold is a run: what it has taken so far.          *)
Run(g, l, P) ==
    /\ g[0] = <<>>
    /\ \A n \in 1..Len(l) : g[n] = IF n \in P THEN Append(g[n - 1], l[n]) ELSE g[n - 1]

LEMMA TakesRun ==
    ASSUME NEW l, Len(l) \in Nat, NEW P, NEW f, Takes(f, l, P, 1..Len(l))
    PROVE  Run([n \in 0..Len(l) |-> f[1..n]], l, P)
  <1> DEFINE g == [n \in 0..Len(l) |-> f[1..n]]
  <1>1. 1..0 = {} /\ f[{}] = <<>>
    BY DEF Takes
  <1>2. ASSUME NEW n \in 1..Len(l)
        PROVE  g[n] = IF n \in P THEN Append(g[n - 1], l[n]) ELSE g[n - 1]
    <2>1. Max(1..n) = n
      <3>1. Max(1..n) \in 1..n /\ n \in 1..n /\ n <= Max(1..n)
        <4>1. n \in Nat /\ n \in 1..n /\ 1..n \in SUBSET (1..n) /\ 1..n # {}
          OBVIOUS
        <4> QED BY <4>1, LastPosition
      <3> QED BY <3>1
    <2>2. (1..n) \ {n} = 1..(n - 1) /\ 1..n \in SUBSET (1..Len(l)) /\ 1..n # {}
      <3>1. n \in Nat /\ n \in 1..n /\ n <= Len(l)
        OBVIOUS
      <3>2. (1..n) \ {n} = 1..(n - 1)
        BY <3>1
      <3> QED BY <3>1, <3>2
    <2>3. f[1..n] = Taken(f, l, P, 1..n)
      BY <2>2 DEF Takes
    <2>4. g[n] = f[1..n] /\ g[n - 1] = f[1..(n - 1)]
      OBVIOUS
    <2> QED BY <2>1, <2>2, <2>3, <2>4 DEF Taken
  <1>3. g[0] = <<>>
    BY <1>1
  <1> HIDE DEF g
  <1>4. Run(g, l, P)
    BY <1>2, <1>3 DEF Run
  <1> QED BY <1>4 DEF g

(* What is kept of a list, and its rules, are the ends of such runs.             *)
Systems(l) == {i \in DOMAIN l : IsSystem(l[i])}
LEMMA KeptRun ==
    ASSUME NEW l \in Seq(Kinds), NEW P
    PROVE  \E g : Run(g, l, P) /\ Kept(l, P) = g[Len(l)]
  <1>0. Len(l) \in Nat /\ DOMAIN l = 1..Len(l)
    BY LenProperties
  <1> DEFINE S == DOMAIN [i \in DOMAIN l |-> i]
             at(s) == [i \in DOMAIN l |-> i][Max(s)]
             body(f) == [s \in SUBSET S |->
                 IF s = {} THEN <<>>
                 ELSE IF at(s) \in P THEN Append(f[s \ {Max(s)}], l[at(s)])
                      ELSE f[s \ {Max(s)}]]
             iter == CHOOSE f : f = body(f)
  <1>1. Kept(l, P) = iter[S]
    BY Zenon DEF Kept, FoldLeftDomain, FoldLeft, MapThenFoldSet
  <1>2. S = 1..Len(l) /\ \A s \in SUBSET (1..Len(l)) : s # {} => at(s) = Max(s)
    BY <1>0, LastPosition
  <1>3. PICK h : Takes(h, l, P, 1..Len(l))
    BY <1>0, Positions, TakesExists
  <1> DEFINE k == [s \in SUBSET (1..Len(l)) |-> h[s]]
  <1>4. k = body(k)
    <2> SUFFICES ASSUME NEW s \in SUBSET (1..Len(l)), s # {}
                 PROVE  h[s] = IF at(s) \in P THEN Append(k[s \ {Max(s)}], l[at(s)])
                               ELSE k[s \ {Max(s)}]
      BY <1>2, <1>3 DEF Takes
    <2>1. at(s) = Max(s)
      BY <1>2
    <2>2. h[s] = Taken(h, l, P, s)
      BY <1>3 DEF Takes
    <2>3. k[s \ {Max(s)}] = h[s \ {Max(s)}]
      OBVIOUS
    <2> HIDE DEF k, at
    <2> QED BY <2>1, <2>2, <2>3 DEF Taken
  <1>5. iter = body(iter)
    <2> HIDE DEF k, body
    <2> QED BY <1>4
  <1> HIDE DEF iter
  <1>6. Takes(iter, l, P, 1..Len(l))
    <2> SUFFICES ASSUME NEW s \in SUBSET (1..Len(l))
                 PROVE  iter[s] = IF s = {} THEN <<>> ELSE Taken(iter, l, P, s)
      BY DEF Takes
    <2>1. iter[s] = IF s = {} THEN <<>>
                    ELSE IF at(s) \in P THEN Append(iter[s \ {Max(s)}], l[at(s)])
                         ELSE iter[s \ {Max(s)}]
      BY <1>2, <1>5
    <2>2. s # {} => at(s) = Max(s)
      BY <1>2
    <2> HIDE DEF at
    <2> QED BY <2>1, <2>2 DEF Taken
  <1>7. Run([n \in 0..Len(l) |-> iter[1..n]], l, P)
    BY <1>0, <1>6, TakesRun
  <1>8. [n \in 0..Len(l) |-> iter[1..n]][Len(l)] = iter[S]
    BY <1>0, <1>2
  <1> QED BY <1>1, <1>7, <1>8

LEMMA RulesRun ==
    ASSUME NEW l \in Seq(Kinds)
    PROVE  \E g : Run(g, l, Systems(l)) /\ Rules(l) = g[Len(l)]
  <1>0. Len(l) \in Nat /\ DOMAIN l = 1..Len(l)
    BY LenProperties
  <1> DEFINE P == Systems(l)
             body(f) == [s \in SUBSET DOMAIN l |->
                 IF s = {} THEN <<>>
                 ELSE IF IsSystem(l[Max(s)]) THEN Append(f[s \ {Max(s)}], l[Max(s)])
                      ELSE f[s \ {Max(s)}]]
             iter == CHOOSE f : f = body(f)
  <1>1. Rules(l) = iter[DOMAIN l]
    BY Zenon DEF Rules, FoldLeft, MapThenFoldSet
  <1>2. \A s \in SUBSET (1..Len(l)) : s # {} => (IsSystem(l[Max(s)]) <=> Max(s) \in P)
    BY <1>0, LastPosition DEF Systems
  <1> HIDE DEF P
  <1>3. PICK h : Takes(h, l, P, 1..Len(l))
    BY <1>0, Positions, TakesExists
  <1> DEFINE k == [s \in SUBSET (1..Len(l)) |-> h[s]]
  <1>4. k = body(k)
    <2> SUFFICES ASSUME NEW s \in SUBSET (1..Len(l)), s # {}
                 PROVE  h[s] = IF IsSystem(l[Max(s)])
                               THEN Append(k[s \ {Max(s)}], l[Max(s)])
                               ELSE k[s \ {Max(s)}]
      BY <1>0, <1>3 DEF Takes
    <2>1. h[s] = Taken(h, l, P, s) /\ (IsSystem(l[Max(s)]) <=> Max(s) \in P)
      BY <1>2, <1>3 DEF Takes
    <2>2. k[s \ {Max(s)}] = h[s \ {Max(s)}]
      OBVIOUS
    <2> HIDE DEF k
    <2> QED BY <2>1, <2>2 DEF Taken
  <1>5. iter = body(iter)
    <2> HIDE DEF k, body
    <2> QED BY <1>4
  <1> HIDE DEF iter
  <1>6. Takes(iter, l, P, 1..Len(l))
    <2> SUFFICES ASSUME NEW s \in SUBSET (1..Len(l))
                 PROVE  iter[s] = IF s = {} THEN <<>> ELSE Taken(iter, l, P, s)
      BY DEF Takes
    <2>1. iter[s] = IF s = {} THEN <<>>
                    ELSE IF IsSystem(l[Max(s)]) THEN Append(iter[s \ {Max(s)}], l[Max(s)])
                         ELSE iter[s \ {Max(s)}]
      BY <1>0, <1>5
    <2> QED BY <1>2, <2>1 DEF Taken
  <1>7. Run([n \in 0..Len(l) |-> iter[1..n]], l, P)
    BY <1>0, <1>6, TakesRun
  <1>8. [n \in 0..Len(l) |-> iter[1..n]][Len(l)] = iter[DOMAIN l]
    BY <1>0
  <1> QED BY <1>1, <1>7, <1>8 DEF P

(* A run takes messages of the list.                                             *)
LEMMA RunType ==
    ASSUME NEW l \in Seq(Kinds), NEW P, NEW g, Run(g, l, P)
    PROVE  \A n \in 0..Len(l) : g[n] \in Seq(Kinds)
  <1>0. Len(l) \in Nat
    BY LenProperties
  <1> DEFINE B == {n \in 0..Len(l) : g[n] \notin Seq(Kinds)}
  <1>1. SUFFICES ASSUME B # {} PROVE FALSE
    OBVIOUS
  <1>2. PICK n \in B : \A m \in B : n <= m
    <2>1. B \in SUBSET Nat
      BY <1>0
    <2> HIDE DEF B
    <2> QED BY <1>1, <2>1, LeastNat
  <1>3. n # 0
    BY <1>2, EmptySeq DEF Run
  <1>4. n \in 1..Len(l) /\ n - 1 \in 0..Len(l) /\ ~ (n <= n - 1)
    BY <1>0, <1>2, <1>3
  <1>5. g[n - 1] \in Seq(Kinds)
    BY <1>2, <1>4
  <1>6. l[n] \in Kinds
    BY <1>4, ElementOfSeq
  <1>7. g[n] \in Seq(Kinds)
    <2>1. Append(g[n - 1], l[n]) \in Seq(Kinds)
      BY <1>5, <1>6, AppendProperties
    <2> QED BY <1>4, <1>5, <2>1 DEF Run
  <1> QED BY <1>2, <1>7

LEMMA KeptType ==
    ASSUME NEW l \in Seq(Kinds), NEW P PROVE Kept(l, P) \in Seq(Kinds)
  <1>1. Len(l) \in 0..Len(l)
    BY LenProperties
  <1> QED BY <1>1, KeptRun, RunType

LEMMA RulesType ==
    ASSUME NEW l \in Seq(Kinds) PROVE Rules(l) \in Seq(Kinds)
  <1>1. Len(l) \in 0..Len(l)
    BY LenProperties
  <1> QED BY <1>1, RulesRun, RunType

(* Runs that choose alike agree as far as both go.                               *)
LEMMA RunsAgree ==
    ASSUME NEW l \in Seq(Kinds), NEW o \in Seq(Kinds), NEW P, NEW Q, NEW g, NEW h,
           Run(g, l, P), Run(h, o, Q), NEW k \in Nat, k <= Len(l), k <= Len(o),
           \A n \in 1..k : l[n] = o[n] /\ (n \in P <=> n \in Q)
    PROVE  \A n \in 0..k : g[n] = h[n]
  <1>0. Len(l) \in Nat /\ Len(o) \in Nat
    BY LenProperties
  <1> DEFINE B == {n \in 0..k : g[n] # h[n]}
  <1>1. SUFFICES ASSUME B # {} PROVE FALSE
    OBVIOUS
  <1>2. PICK n \in B : \A m \in B : n <= m
    <2>1. B \in SUBSET Nat
      OBVIOUS
    <2> HIDE DEF B
    <2> QED BY <1>1, <2>1, LeastNat
  <1>3. n # 0
    BY <1>2 DEF Run
  <1>4. /\ n \in 1..k /\ n - 1 \in 0..k /\ ~ (n <= n - 1)
        /\ n \in 1..Len(l) /\ n \in 1..Len(o)
    BY <1>0, <1>2, <1>3
  <1>5. g[n - 1] = h[n - 1]
    BY <1>2, <1>4
  <1>6. l[n] = o[n] /\ (n \in P <=> n \in Q)
    BY <1>4
  <1>7. g[n] = h[n]
    BY <1>4, <1>5, <1>6 DEF Run
  <1> QED BY <1>2, <1>7

(* A message more is a rule more, or none.                                       *)
LEMMA RulesAppend ==
    ASSUME NEW l \in Seq(Kinds), NEW x \in Kinds
    PROVE  Rules(Append(l, x)) = IF IsSystem(x) THEN Append(Rules(l), x) ELSE Rules(l)
  <1>1. PICK o \in Seq(Kinds) : o = Append(l, x)
    BY AppendProperties
  <1>2. /\ Len(l) \in Nat /\ Len(o) = Len(l) + 1 /\ DOMAIN l = 1..Len(l)
        /\ DOMAIN o = 1..Len(o)
        /\ o[Len(o)] = x /\ \A n \in 1..Len(l) : o[n] = l[n]
    BY <1>1, AppendProperties, LenProperties
  <1>3. PICK g : Run(g, l, Systems(l)) /\ Rules(l) = g[Len(l)]
    BY RulesRun
  <1>4. PICK h : Run(h, o, Systems(o)) /\ Rules(o) = h[Len(o)]
    BY RulesRun
  <1>5. \A n \in 1..Len(l) : l[n] = o[n] /\ (n \in Systems(l) <=> n \in Systems(o))
    BY <1>2 DEF Systems
  <1>6. g[Len(l)] = h[Len(l)]
    <2>1. \A n \in 0..Len(l) : g[n] = h[n]
      BY <1>2, <1>3, <1>4, <1>5, RunsAgree
    <2> QED BY <1>2, <2>1
  <1>7. h[Len(o)] = IF Len(o) \in Systems(o) THEN Append(h[Len(o) - 1], o[Len(o)])
                    ELSE h[Len(o) - 1]
    <2>1. Len(o) \in 1..Len(o)
      BY <1>2
    <2> QED BY <1>4, <2>1 DEF Run
  <1>8. Len(o) - 1 = Len(l) /\ (Len(o) \in Systems(o) <=> IsSystem(x))
    BY <1>2 DEF Systems
  <1> QED BY <1>1, <1>2, <1>3, <1>4, <1>6, <1>7, <1>8

(* What keeps the system messages keeps the rules.                               *)
LEMMA RulesKept ==
    ASSUME NEW l \in Seq(Kinds), NEW P, Systems(l) \subseteq P
    PROVE  Rules(Kept(l, P)) = Rules(l)
  <1>0. Len(l) \in Nat /\ DOMAIN l = 1..Len(l)
    BY LenProperties
  <1>1. PICK g : Run(g, l, Systems(l)) /\ Rules(l) = g[Len(l)]
    BY RulesRun
  <1>2. PICK h : Run(h, l, P) /\ Kept(l, P) = h[Len(l)]
    BY KeptRun
  <1>3. Rules(<<>>) = <<>>
    <2>1. <<>> \in Seq(Kinds) /\ Len(<<>>) = 0
      BY EmptySeq
    <2>2. PICK e : Run(e, <<>>, Systems(<<>>)) /\ Rules(<<>>) = e[Len(<<>>)]
      BY <2>1, RulesRun
    <2> QED BY <2>1, <2>2 DEF Run
  <1> DEFINE B == {n \in 0..Len(l) : Rules(h[n]) # g[n]}
  <1>4. ASSUME B # {} PROVE FALSE
    <2>2. PICK n \in B : \A m \in B : n <= m
      <3>1. B \in SUBSET Nat
        BY <1>0
      <3> HIDE DEF B
      <3> QED BY <1>4, <3>1, LeastNat
    <2>3. n # 0
      BY <1>1, <1>2, <1>3, <2>2 DEF Run
    <2>4. n \in 1..Len(l) /\ n - 1 \in 0..Len(l) /\ ~ (n <= n - 1)
      BY <1>0, <2>2, <2>3
    <2>5. Rules(h[n - 1]) = g[n - 1]
      BY <2>2, <2>4
    <2>6. l[n] \in Kinds /\ h[n - 1] \in Seq(Kinds)
      BY <1>2, <2>4, ElementOfSeq, RunType
    <2>7. n \in Systems(l) <=> IsSystem(l[n])
      BY <1>0, <2>4 DEF Systems
    <2>8. g[n] = IF IsSystem(l[n]) THEN Append(g[n - 1], l[n]) ELSE g[n - 1]
      BY <1>1, <2>4, <2>7 DEF Run
    <2>9. h[n] = IF n \in P THEN Append(h[n - 1], l[n]) ELSE h[n - 1]
      BY <1>2, <2>4 DEF Run
    <2>10. IsSystem(l[n]) => n \in P
      BY <2>7
    <2>11. Rules(Append(h[n - 1], l[n]))
             = IF IsSystem(l[n]) THEN Append(Rules(h[n - 1]), l[n]) ELSE Rules(h[n - 1])
      BY <2>6, RulesAppend
    <2>12. Rules(h[n]) = g[n]
      BY <2>5, <2>8, <2>9, <2>10, <2>11
    <2> QED BY <2>2, <2>12
  <1>5. Rules(h[Len(l)]) = g[Len(l)]
    BY <1>0, <1>4
  <1> QED BY <1>1, <1>2, <1>5

(* Rules that grow: what is there stays, in its order.                           *)
Grows(r, s) == \E t \in Seq(Kinds) : s = r \o t
LEMMA GrowsFacts ==
    ASSUME NEW r \in Seq(Kinds)
    PROVE  /\ Grows(r, r)
           /\ \A s \in Seq(Kinds), x \in Kinds : Grows(r, s) => Grows(r, Append(s, x))
           /\ \A s \in Seq(Kinds) : Grows(r, s) => IsPrefix(r, s)
  <1>1. Grows(r, r)
    <2>1. <<>> \in Seq(Kinds) /\ r \o <<>> = r
      BY EmptySeq, ConcatEmptySeq
    <2> QED BY <2>1 DEF Grows
  <1>2. ASSUME NEW s \in Seq(Kinds), NEW x \in Kinds, Grows(r, s)
        PROVE  Grows(r, Append(s, x))
    <2>1. PICK t \in Seq(Kinds) : s = r \o t
      BY <1>2 DEF Grows
    <2>2. Append(s, x) = (r \o t) \o <<x>> /\ <<x>> \in Seq(Kinds)
      BY <2>1, AppendIsConcat
    <2>3. Append(s, x) = r \o (t \o <<x>>) /\ t \o <<x>> \in Seq(Kinds)
      BY <2>2, ConcatAssociative, ConcatProperties
    <2> QED BY <2>3 DEF Grows
  <1>3. ASSUME NEW s \in Seq(Kinds), Grows(r, s) PROVE IsPrefix(r, s)
    <2>1. PICK t \in Seq(Kinds) : s = r \o t
      BY <1>3 DEF Grows
    <2>2. /\ Len(s) = Len(r) + Len(t) /\ Len(r) \in Nat /\ Len(t) \in Nat
          /\ \A i \in 1..Len(r) : s[i] = r[i]
      BY <2>1, ConcatProperties, LenProperties
    <2>3. SubSeq(s, 1, Len(r)) = SubSeq(r, 1, Len(r))
      BY <2>2
    <2> QED BY <2>2, <2>3 DEF IsPrefix
  <1> QED BY <1>1, <1>2, <1>3

(* ------------------------------------------------------------ the rules -- *)

(* What a turn puts together is a list of messages.                              *)
LEMMA PartsType ==
    ASSUME NEW order \in Seq(Optional), NEW present
    PROVE  PartsOf(order, present) \in Seq(Kinds)
  <1> DEFINE parts == [n \in DOMAIN order |-> Part(order[n], present)]
  <1>1. Len(order) \in Nat /\ DOMAIN order = 1..Len(order)
        /\ \A n \in 1..Len(order) : order[n] \in Optional
    BY LenProperties, ElementOfSeq
  <1>2. \A kind \in Optional : Part(kind, present) \in Seq(Kinds)
    <2> TAKE kind \in Optional
    <2>1. kind \in Kinds /\ "ack" \in Kinds
      BY DEF Kinds
    <2>2. <<kind>> \in Seq(Kinds) /\ <<kind, "ack">> \in Seq(Kinds) /\ <<>> \in Seq(Kinds)
      BY <2>1
    <2> QED BY <2>2 DEF Part
  <1>3. parts \in [1..Len(order) -> Seq(Kinds)]
    BY <1>1, <1>2
  <1>4. parts \in Seq(Seq(Kinds))
    BY <1>1, <1>3, SeqDef
  <1> QED BY <1>4, FlattenType DEF PartsOf

LEMMA ContextType ==
    ASSUME NEW present, NEW history \in BoundedSeq(History, MaxHistory),
           NEW question \in Questions
    PROVE  BuildContext(present, history, question) \in Seq(Kinds)
  <1>1. Opening \in Seq(Optional) /\ Closing \in Seq(Optional)
    <2>1. \A i \in DOMAIN Opening : Opening[i] \in Optional
      BY Zenon DEF Optional, Range
    <2>2. \A i \in DOMAIN Closing : Closing[i] \in Optional
      BY Zenon DEF Optional, Range
    <2>3. DOMAIN Opening = 1..10 /\ DOMAIN Closing = 1..2
      BY DEF Opening, Closing
    <2>4. Opening \in [1..10 -> Optional] /\ Closing \in [1..2 -> Optional]
      BY <2>1, <2>2, <2>3 DEF Opening, Closing
    <2> QED BY <2>4, SeqDef
  <1>2. PartsOf(Opening, present) \in Seq(Kinds) /\ PartsOf(Closing, present) \in Seq(Kinds)
    BY <1>1, PartsType
  <1>3. history \in Seq(Kinds)
    <2>1. history \in UNION {[1..m -> History] : m \in 0..MaxHistory}
      BY DEF BoundedSeq, SeqOf
    <2>2. PICK m \in 0..MaxHistory : history \in [1..m -> History]
      BY <2>1
    <2>3. m \in Nat /\ history \in [1..m -> Kinds]
      BY <2>2, BudgetAssumption DEF Kinds
    <2> QED BY <2>3, SeqDef
  <1>4. <<"style">> \in Seq(Kinds) /\ <<question>> \in Seq(Kinds)
    <2>1. "style" \in Kinds /\ question \in Kinds
      BY DEF Kinds
    <2> QED BY <2>1
  <1> HIDE DEF Kinds
  <1> QED BY <1>2, <1>3, <1>4, ConcatProperties DEF BuildContext

(* The system messages are in no tier and answer nobody, so no tier takes them.  *)
LEMMA SystemsStay ==
    ASSUME NEW list, NEW t \in 1..8
    PROVE  Systems(list) \cap DropSet(list, t) = {}
  BY DEF Systems, DropSet, Tier, AckIdx, IsAck, IsSystem

(* While a list is trimmed its system messages are kept, and at any time the     *)
(* list begins with the rules that the turn began with.                          *)
RuleInv ==
    /\ base \in Seq(Kinds) /\ msgs \in Seq(Kinds)
    /\ stage = "context" => base = msgs
    /\ Grows(Rules(base), Rules(msgs))
    /\ stage = "trim" => given = msgs /\ Systems(given) \subseteq keep

LEMMA AppendedRules ==
    ASSUME RuleInv, NEW x \in Kinds, NEW list \in Seq(Kinds),
           Grows(Rules(base), Rules(list))
    PROVE  Append(list, x) \in Seq(Kinds) /\ Grows(Rules(base), Rules(Append(list, x)))
  <1>1. Rules(base) \in Seq(Kinds) /\ Rules(list) \in Seq(Kinds)
    BY RulesType DEF RuleInv
  <1>2. Append(list, x) \in Seq(Kinds)
    BY AppendProperties
  <1>3. Rules(Append(list, x)) = IF IsSystem(x) THEN Append(Rules(list), x) ELSE Rules(list)
    BY RulesAppend
  <1> QED BY <1>1, <1>2, <1>3, GrowsFacts

(* A list that is trimmed keeps its rules.                                       *)
LEMMA TrimRules ==
    ASSUME BudgetInv, RuleInv, StartBudget \/ DropTier \/ DropNoMore
    PROVE  RuleInv'
  <1>1. CASE StartBudget
    <2>1. /\ base' = base /\ msgs' = msgs /\ given' = msgs /\ keep' = DOMAIN msgs
          /\ stage' # "context"
      BY <1>1 DEF StartBudget
    <2>2. Systems(given') \subseteq keep'
      BY <2>1 DEF Systems
    <2> QED BY <2>1, <2>2 DEF RuleInv
  <1>2. CASE DropTier
    <2>1. /\ stage = "trim" /\ Lower # {} /\ tier' = Max(Lower) /\ base' = base
          /\ keep' = keep \ DropSet(given, tier') /\ given' = given
          /\ stage' # "context"
          /\ \/ stage' = "call" /\ msgs' = Kept(given, keep')
             \/ stage' = stage /\ msgs' = msgs
      BY <1>2 DEF DropTier
    <2>2. tier' \in 1..8
      <3>1. tier \in 1..9
        BY <2>1 DEF BudgetInv, Trimming
      <3>2. Lower \subseteq 1..8
        BY <3>1 DEF Lower
      <3> QED BY <2>1, <3>2, HighestTier
    <2>3. Systems(given) \subseteq keep'
      <3>1. PICK t \in 1..8 : t = tier'
        BY <2>2
      <3> QED BY <2>1, <3>1, SystemsStay DEF RuleInv
    <2>4. CASE stage' = "call" /\ msgs' = Kept(given, keep')
      <3>1. PICK k : k = keep'
        OBVIOUS
      <3>2. Kept(given, k) \in Seq(Kinds) /\ Rules(Kept(given, k)) = Rules(given)
        BY <2>1, <2>3, <3>1, KeptType, RulesKept DEF RuleInv
      <3>3. msgs' = Kept(given, k)
        BY <2>4, <3>1
      <3>4. /\ base' \in Seq(Kinds) /\ msgs' \in Seq(Kinds)
            /\ Grows(Rules(base), Rules(msgs))'
        BY <2>1, <3>2, <3>3 DEF RuleInv
      <3> QED BY <2>4, <3>4 DEF RuleInv
    <2>5. CASE stage' = stage /\ msgs' = msgs
      BY <2>1, <2>3, <2>5 DEF RuleInv
    <2> QED BY <2>1, <2>4, <2>5
  <1>3. CASE DropNoMore
    <2>1. /\ stage = "trim" /\ stage' = "call" /\ msgs' = Kept(given, keep)
          /\ base' = base
      BY <1>3 DEF DropNoMore
    <2>2. Kept(given, keep) \in Seq(Kinds) /\ Rules(Kept(given, keep)) = Rules(given)
      BY <2>1, KeptType, RulesKept DEF RuleInv
    <2>3. /\ base' \in Seq(Kinds) /\ msgs' \in Seq(Kinds)
          /\ Grows(Rules(base), Rules(msgs))'
      BY <2>1, <2>2 DEF RuleInv
    <2> QED BY <2>1, <2>3 DEF RuleInv
  <1> QED BY <1>1, <1>2, <1>3

(* The other steps add messages, or begin from the base again.                   *)
LEMMA OtherRules ==
    ASSUME RuleInv,
           \/ \E present \in SUBSET Parts, history \in BoundedSeq(History, MaxHistory),
                 question \in Questions : Compose(present, history, question)
           \/ \E after \in {<<>>, <<"advice">>} : UseTool(after)
           \/ StopLoop \/ EndTools \/ (\E w \in Windows : FallBack(w)) \/ Answer
           \/ UNCHANGED budgetVars
    PROVE  RuleInv'
  <1>0. Rules(base) \in Seq(Kinds)
    BY RulesType DEF RuleInv
  <1>1. CASE \E present \in SUBSET Parts, history \in BoundedSeq(History, MaxHistory),
                question \in Questions : Compose(present, history, question)
    <2>1. PICK present \in SUBSET Parts, history \in BoundedSeq(History, MaxHistory),
               question \in Questions : Compose(present, history, question)
      BY <1>1
    <2>2. PICK list \in Seq(Kinds) : list = BuildContext(present, history, question)
      BY ContextType
    <2>3. base' = list /\ msgs' = list /\ stage' = "budget"
      BY <2>1, <2>2 DEF Compose
    <2>4. Grows(Rules(list), Rules(list))
      BY RulesType, GrowsFacts
    <2> QED BY <2>3, <2>4 DEF RuleInv
  <1>2. CASE \E after \in {<<>>, <<"advice">>} : UseTool(after)
    <2>1. PICK after \in {<<>>, <<"advice">>} : UseTool(after)
      BY <1>2
    <2>2. /\ stage' = "tools" /\ base' = base
          /\ msgs' = msgs \o <<"call", "result">> \o after
      BY <2>1 DEF UseTool
    <2>3. "call" \in Kinds /\ "result" \in Kinds /\ "advice" \in Kinds
      BY DEF Kinds
    <2>4. PICK one \in Seq(Kinds) : one = Append(msgs, "call") /\ Grows(Rules(base), Rules(one))
      BY <2>3, AppendedRules DEF RuleInv
    <2>5. PICK two \in Seq(Kinds) : two = Append(one, "result")
                                    /\ Grows(Rules(base), Rules(two))
      BY <2>3, <2>4, AppendedRules
    <2>6. PICK three \in Seq(Kinds) : three = Append(two, "advice")
                                      /\ Grows(Rules(base), Rules(three))
      BY <2>3, <2>5, AppendedRules
    <2>7. msgs' = IF after = <<>> THEN two ELSE three
      <3>1. msgs \in Seq(Kinds)
        BY DEF RuleInv
      <3>2. msgs \o <<"call", "result">> = two
        BY <2>4, <2>5, <3>1
      <3>3. two \o <<>> = two /\ two \o <<"advice">> = three
        BY <2>3, <2>6, AppendIsConcat, ConcatEmptySeq
      <3>4. after # <<>> => after = <<"advice">>
        OBVIOUS
      <3> QED BY <2>2, <3>2, <3>3, <3>4
    <2>8. msgs' \in Seq(Kinds) /\ Grows(Rules(base), Rules(msgs))'
      BY <2>2, <2>5, <2>6, <2>7
    <2> QED BY <2>2, <2>8 DEF RuleInv
  <1>3. CASE StopLoop
    <2>1. msgs' = Append(msgs, "advice") /\ base' = base /\ stage' = "budget"
      BY <1>3 DEF StopLoop
    <2>2. "advice" \in Kinds
      BY DEF Kinds
    <2>3. msgs' \in Seq(Kinds) /\ Grows(Rules(base), Rules(msgs))'
      BY <2>1, <2>2, AppendedRules DEF RuleInv
    <2> QED BY <2>1, <2>3 DEF RuleInv
  <1>4. CASE EndTools \/ Answer
    BY <1>4 DEF EndTools, Answer, RuleInv
  <1>5. CASE \E w \in Windows : FallBack(w)
    <2>1. msgs' = base /\ base' = base /\ stage' = "budget"
      BY <1>5 DEF FallBack
    <2>2. Grows(Rules(base), Rules(base))
      BY <1>0, GrowsFacts
    <2> QED BY <2>1, <2>2 DEF RuleInv
  <1>6. CASE UNCHANGED budgetVars
    BY <1>6 DEF budgetVars, RuleInv
  <1> QED BY <1>1, <1>2, <1>3, <1>4, <1>5, <1>6

(* Whatever is trimmed, how often and for how many models of the chain, with     *)
(* any sizes, windows and tools: every call sees the rules that the turn began   *)
(* with, in their order (apply_context_budget, generate_stream).                 *)
THEOREM RulesStay == BudgetSpec => []RulesSurvive
  <1>1. BudgetInit => RuleInv
    <2> SUFFICES ASSUME BudgetInit PROVE RuleInv
      OBVIOUS
    <2>1. base = <<>> /\ msgs = <<>> /\ stage = "context" /\ <<>> \in Seq(Kinds)
      BY EmptySeq DEF BudgetInit
    <2>2. Grows(Rules(<<>>), Rules(<<>>))
      BY <2>1, RulesType, GrowsFacts
    <2> QED BY <2>1, <2>2 DEF RuleInv
  <1>2. BudgetInv /\ RuleInv /\ [BudgetNext]_budgetVars => RuleInv'
    BY TrimRules, OtherRules DEF BudgetNext
  <1>3. RuleInv => RulesSurvive
    <2> SUFFICES ASSUME RuleInv PROVE IsPrefix(Rules(base), Rules(msgs))
      BY DEF RulesSurvive
    <2> QED BY RulesType, GrowsFacts DEF RuleInv
  <1> QED BY <1>1, <1>2, <1>3, BudgetInitInv, BudgetNextInv, PTL DEF BudgetSpec

================================================================================
