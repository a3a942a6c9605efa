-------------------------------- MODULE Catalog --------------------------------
(* The live model catalog (llm/catalog): the scanner that probes every listed    *)
(* model, the rows it upserts, the administrator's curation                      *)
(* (api/admin/models.py), the copy in Redis that a publisher rewrites, the       *)
(* snapshot each process keeps of it, and what a request's model resolves to     *)
(* (api/chat/model_resolve.py).                                                  *)
EXTENDS Naturals, FiniteSets

CONSTANTS
    Models,      \* ids the endpoint may list
    Roles,       \* the ids of config.MODELS
    Procs,       \* processes: API workers and the worker that scans
    Scans,       \* run_scan calls
    NoModel,     \* Auto routing
    Nobody,      \* nobody holds the lock
    MaxVer,      \* bound: versions published
    MaxPatches   \* bound: edits by the administrator

ASSUME CatalogAssumption ==
    /\ Roles \subseteq Models /\ NoModel \notin Models /\ Nobody \notin Scans
    /\ Procs \cap Scans = {}
    /\ Procs # {} /\ MaxVer \in Nat /\ MaxPatches \in Nat

(* A row, or a model never seen. fails stops at 2, beyond which nothing asks.    *)
Down == {"not_found", "delisted"}
Entry == [status : {"live", "error"} \cup Down, fails : 0..2, enabled : BOOLEAN,
          wasLive : BOOLEAN]
Unknown == [status |-> "unknown", fails |-> 0, enabled |-> FALSE, wasLive |-> FALSE]
Entries == [Models -> Entry \cup {Unknown}]
Empty == [m \in Models |-> Unknown]
Known(e) == e.status # "unknown"
Publishers == Procs \cup Scans     \* a process by the PATCH it answers, and each scan
NoEdit == [model |-> NoModel, to |-> FALSE, was |-> FALSE]

VARIABLES
    row,      \* model_catalog
    lock,     \* catalog:scan:lock
    scan,     \* each scan: where it is
    runner,   \* the process that runs it
    probed,   \* the status of each model it has listed; "absent" where it is not listed
    loaded,   \* the rows its session has got
    ver,      \* catalog:ver; 0 where there is none
    entries,  \* catalog:entries
    snap,     \* each process: _snapshot
    snapVer,  \* _snapshot_ver
    heard,    \* the version its ensure_fresh has read; 0 where none is under way
    edit,     \* the PATCH it is at: the model, enabled as asked for and as read
    task,     \* each publisher: "idle", "patch", "publish", "entries" or "ver"
    copy,     \* the entries that its publish carries to Redis
    patches,  \* counts the edits
    chosen,   \* history: the administrator's last word on enabled, or the seed
    proven    \* history: models that have answered a probe

scanVars == <<lock, scan, runner, probed, loaded>>
redisVars == <<ver, entries>>
procVars == <<snap, snapVer, task, copy, edit, heard>>
catVars == <<row, scanVars, redisVars, procVars, patches, chosen, proven>>

CatInit ==
    /\ row = Empty /\ lock = Nobody
    /\ scan = [s \in Scans |-> "new"] /\ runner = [s \in Scans |-> CHOOSE p \in Procs : TRUE]
    /\ probed = [s \in Scans |-> [m \in Models |-> "absent"]]
    /\ loaded = [s \in Scans |-> Empty]
    /\ ver = 0 /\ entries = Empty
    /\ snap = [p \in Procs |-> Empty] /\ snapVer = [p \in Procs |-> 0]
    /\ heard = [p \in Procs |-> 0] /\ edit = [p \in Procs |-> NoEdit]
    /\ task = [w \in Publishers |-> "idle"] /\ copy = [w \in Publishers |-> Empty]
    /\ patches = 0 /\ chosen = [m \in Models |-> m \in Roles] /\ proven = {}

(* ------------------------------------------------------------------- scan -- *)

(* SET NX with a TTL, deleted at the end without asking who holds it.            *)
StartScan(s, p) ==
    /\ scan[s] = "new"
    /\ IF lock = Nobody
       THEN lock' = s /\ scan' = [scan EXCEPT ![s] = "probe"]
       ELSE scan' = [scan EXCEPT ![s] = "done"] /\ UNCHANGED lock
    /\ runner' = [runner EXCEPT ![s] = p]
    /\ UNCHANGED <<row, probed, loaded, redisVars, procVars, patches, chosen, proven>>
ExpireLock ==
    /\ lock # Nobody /\ lock' = Nobody
    /\ UNCHANGED <<row, scan, runner, probed, loaded, redisVars, procVars, patches, chosen,
                   proven>>

(* The listing and all probes, before a session is opened. 429 is "keep": the    *)
(* status listed next. The rows are got one by one after that.                   *)
Probe(s, result) ==
    /\ scan[s] = "probe" /\ scan' = [scan EXCEPT ![s] = "read"]
    /\ probed' = [probed EXCEPT ![s] = result]
    /\ proven' = proven \cup {m \in Models : result[m] = "live"}
    /\ UNCHANGED <<row, lock, runner, loaded, redisVars, procVars, patches, chosen>>
LoadRows(s) ==
    /\ scan[s] = "read" /\ scan' = [scan EXCEPT ![s] = "get"]
    /\ probed' = [probed EXCEPT ![s] = [m \in Models |->
                     IF probed[s][m] # "keep" THEN probed[s][m]
                     ELSE IF Known(row[m]) THEN row[m].status ELSE "error"]]
    /\ UNCHANGED <<row, lock, runner, loaded, redisVars, procVars, patches, chosen, proven>>
GetRows(s) ==
    /\ scan[s] = "get" /\ scan' = [scan EXCEPT ![s] = "commit"]
    /\ loaded' = [loaded EXCEPT ![s] = row]
    /\ UNCHANGED <<row, lock, runner, probed, redisVars, procVars, patches, chosen, proven>>

(* upsert_scan_result and mark_delisted. A rate-limited probe keeps the status,  *)
(* and counts as a failure unless that status is live. enabled is written for a  *)
(* new row only. Of a known row a commit writes the columns that are not as they *)
(* were read.                                                                    *)
OneMore(n) == IF n < 2 THEN n + 1 ELSE 2
FailsAfter(s, m) == IF probed[s][m] = "live" THEN 0 ELSE OneMore(loaded[s][m].fails)
Written(new, read, current) == IF new # read THEN new ELSE current
UpsertSeeds(s, m) ==
    [status |-> Written(probed[s][m], loaded[s][m].status, row[m].status),
     fails |-> Written(FailsAfter(s, m), loaded[s][m].fails, row[m].fails),
     enabled |-> m \in Roles,
     wasLive |-> row[m].wasLive \/ probed[s][m] = "live"]
Upsert(s, m) ==
    [status |-> Written(probed[s][m], loaded[s][m].status, row[m].status),
     fails |-> Written(FailsAfter(s, m), loaded[s][m].fails, row[m].fails),
     enabled |-> IF Known(loaded[s][m]) THEN row[m].enabled ELSE m \in Roles,
     wasLive |-> row[m].wasLive \/ probed[s][m] = "live"]
Delisted(m) == IF Known(row[m]) THEN [row[m] EXCEPT !.status = "delisted"] ELSE row[m]

(* An insert of a row that another scan has inserted meanwhile fails.            *)
CommitScan(s) ==
    /\ scan[s] = "commit"
    /\ IF \E m \in Models : probed[s][m] # "absent" /\ ~ Known(loaded[s][m]) /\ Known(row[m])
       THEN scan' = [scan EXCEPT ![s] = "release"] /\ UNCHANGED <<row, task>>
       ELSE /\ row' = [m \in Models |->
                          IF probed[s][m] = "absent" THEN Delisted(m) ELSE Upsert(s, m)]
            /\ scan' = [scan EXCEPT ![s] = "publish"]
            /\ task' = [task EXCEPT ![s] = "publish"]
    /\ UNCHANGED <<lock, runner, probed, loaded, redisVars, snap, snapVer, copy, edit, heard,
                   patches, chosen, proven>>
EndScan(s) ==
    /\ \/ scan[s] = "publish" /\ task[s] = "idle"
       \/ scan[s] \in {"probe", "read", "get", "release"}
    /\ scan' = [scan EXCEPT ![s] = "done"] /\ lock' = Nobody
    /\ loaded' = [loaded EXCEPT ![s] = Empty]
    /\ probed' = [probed EXCEPT ![s] = [m \in Models |-> "absent"]]
    /\ UNCHANGED <<row, runner, redisVars, procVars, patches, chosen, proven>>

(* ------------------------------------------------------------------ admin -- *)

(* PATCH /admin/models/{id}: a role model is not disabled, and a model that was  *)
(* never live is not enabled. An edit that asks for what it has read writes      *)
(* nothing, and so is no choice.                                                 *)
PatchRead(p, m, e) ==
    /\ patches < MaxPatches /\ patches' = patches + 1
    /\ Known(row[m]) /\ task[p] = "idle"
    /\ ~ e => m \notin Roles
    /\ e => row[m].wasLive
    /\ task' = [task EXCEPT ![p] = "patch"]
    /\ edit' = [edit EXCEPT ![p] = [model |-> m, to |-> e, was |-> row[m].enabled]]
    /\ UNCHANGED <<row, scanVars, redisVars, snap, snapVer, copy, heard, chosen, proven>>
PatchCommit(p) ==
    /\ task[p] = "patch" /\ task' = [task EXCEPT ![p] = "publish"]
    /\ LET m == edit[p].model
       IN IF edit[p].to # edit[p].was
          THEN /\ row' = [row EXCEPT ![m] = [@ EXCEPT !.enabled = edit[p].to]]
               /\ chosen' = [chosen EXCEPT ![m] = edit[p].to]
          ELSE UNCHANGED <<row, chosen>>
    /\ edit' = [edit EXCEPT ![p] = NoEdit]
    /\ UNCHANGED <<scanVars, redisVars, snap, snapVer, copy, heard, patches, proven>>

(* ---------------------------------------------------------------- publish -- *)

Go(w, there) == task' = [task EXCEPT ![w] = there]
Home(w) == IF w \in Scans THEN runner[w] ELSE w

(* The snapshot is reloaded from the rows, the hash rewritten from the snapshot, *)
(* the version set; Redis or the database may fail at each of them. A scan and   *)
(* an edit of one process publish beside each other.                             *)
ReloadRows(w) ==
    /\ task[w] = "publish"
    /\ \/ /\ snap' = [snap EXCEPT ![Home(w)] = row] /\ copy' = [copy EXCEPT ![w] = row]
          /\ Go(w, "entries")
       \/ UNCHANGED <<snap, copy>> /\ Go(w, "idle")
    /\ UNCHANGED <<row, scanVars, redisVars, snapVer, edit, heard, patches, chosen, proven>>
PublishEntries(w) ==
    /\ task[w] = "entries" /\ copy' = [copy EXCEPT ![w] = Empty]
    /\ \/ entries' = copy[w] /\ Go(w, "ver")
       \/ UNCHANGED entries /\ Go(w, "idle")
    /\ UNCHANGED <<row, scanVars, ver, snap, snapVer, edit, heard, patches, chosen, proven>>
PublishVer(w) ==
    /\ task[w] = "ver" /\ Go(w, "idle")
    /\ \/ /\ ver < MaxVer /\ ver' = ver + 1
          /\ snapVer' = [snapVer EXCEPT ![Home(w)] = ver + 1]
       \/ UNCHANGED <<ver, snapVer>>
    /\ UNCHANGED <<row, scanVars, entries, snap, copy, edit, heard, patches, chosen, proven>>

(* ----------------------------------------------------------- ensure_fresh -- *)

(* Once in 15 seconds, beside whatever the process publishes: the version, and   *)
(* where it has changed the hash. Without a version or without Redis the rows;   *)
(* without either the old snapshot.                                              *)
HearVer(p) ==
    /\ heard[p] = 0 /\ ver # 0 /\ ver # snapVer[p]
    /\ heard' = [heard EXCEPT ![p] = ver]
    /\ UNCHANGED <<row, scanVars, redisVars, snap, snapVer, task, copy, edit, patches, chosen,
                   proven>>
TakeEntries(p) ==
    /\ heard[p] # 0 /\ heard' = [heard EXCEPT ![p] = 0]
    /\ snap' = [snap EXCEPT ![p] = IF entries = Empty THEN row ELSE entries]
    /\ snapVer' = [snapVer EXCEPT ![p] = heard[p]]
    /\ UNCHANGED <<row, scanVars, redisVars, task, copy, edit, patches, chosen, proven>>
TakeRows(p) ==
    /\ snap' = [snap EXCEPT ![p] = row] /\ heard' = [heard EXCEPT ![p] = 0]
    /\ UNCHANGED <<row, scanVars, redisVars, snapVer, task, copy, edit, patches, chosen,
                   proven>>

(* ------------------------------------------------------------- resolution -- *)

(* Live, or failed once after it had been live.                                  *)
Available(e) ==
    e.enabled /\ (e.status = "live" \/ (e.status = "error" /\ e.fails <= 1 /\ e.wasLive))
ResolveKnown(p, m) ==
    IF m \in Roles \/ (m \in Models /\ Known(snap[p][m])) THEN m ELSE NoModel
Resolve(p, m) ==
    IF m \in Roles \/ (m \in Models /\ Available(snap[p][m])) THEN m ELSE NoModel

(* The override, else the lock of the conversation, else Auto.                   *)
Effective(p, override, locked) ==
    IF Resolve(p, override) # NoModel THEN Resolve(p, override) ELSE Resolve(p, locked)

CatNext ==
    \/ \E s \in Scans :
          \/ \E p \in Procs : StartScan(s, p)
          \/ \E result \in [Models -> {"absent", "live", "error", "not_found", "keep"}] :
                Probe(s, result)
          \/ LoadRows(s) \/ GetRows(s) \/ CommitScan(s) \/ EndScan(s)
    \/ \E p \in Procs :
          \/ \E m \in Models, e \in BOOLEAN : PatchRead(p, m, e)
          \/ PatchCommit(p) \/ HearVer(p) \/ TakeEntries(p) \/ TakeRows(p)
    \/ \E w \in Publishers : ReloadRows(w) \/ PublishEntries(w) \/ PublishVer(w)
    \/ ExpireLock

CatSpec == CatInit /\ [][CatNext]_catVars

(* Rows, scans, Redis and snapshots keep their types.                            *)
CatTypeOK ==
    /\ row \in Entries /\ lock \in Scans \cup {Nobody}
    /\ scan \in [Scans -> {"new", "probe", "read", "get", "commit", "publish", "release", "done"}]
    /\ runner \in [Scans -> Procs]
    /\ probed \in [Scans -> [Models -> {"absent", "live", "error", "keep"} \cup Down]]
    /\ loaded \in [Scans -> Entries]
    /\ ver \in Nat /\ entries \in Entries
    /\ snap \in [Procs -> Entries] /\ snapVer \in [Procs -> Nat]
    /\ task \in [Publishers -> {"idle", "patch", "publish", "entries", "ver"}]
    /\ copy \in [Publishers -> Entries]
    /\ edit \in [Procs -> [model : Models \cup {NoModel}, to : BOOLEAN, was : BOOLEAN]]
    /\ heard \in [Procs -> Nat] /\ patches \in Nat
    /\ chosen \in [Models -> BOOLEAN] /\ proven \subseteq Models

(* The administrator's choice outlives every scan: also one that has loaded the  *)
(* rows before the choice and commits after it, or runs beside another scan      *)
(* because its lock has expired.                                                 *)
AdminChoiceWins ==
    \A m \in Models : Known(row[m]) => row[m].enabled = chosen[m]

(* No process routes a turn to a catalog model that has never answered a probe,  *)
(* by an override or by a lock, however old or half-written the snapshot is it   *)
(* asks.                                                                         *)
OnlyProvenOffered ==
    \A p \in Procs, override, locked \in Models \cup {NoModel} :
        Effective(p, override, locked) \in Roles \cup proven \cup {NoModel}

==============================================================================
