------------------------------- MODULE Schedules -------------------------------
(* Scheduled prompts: the scheduled_prompts and scheduled_prompt_runs rows the  *)
(* API edits (api/scheduled_prompts.py), the APScheduler job table of the       *)
(* scheduler process and the runs it starts (services/scheduler_worker.py).     *)
(*                                                                              *)
(* The job table is a copy of the rows that sync_schedules refreshes every five *)
(* minutes, a run is a task of the process that started it, and its output file *)
(* is handed to processing before the row of the file is committed.            *)
EXTENDS Naturals, FiniteSets

CONSTANTS
    Prompts,     \* ids of scheduled prompts
    Crons,       \* cron expressions that croniter accepts (POST and PATCH check)
    Refused,     \* those that CronTrigger.from_crontab refuses: "@daily", six
                 \* fields, weekday 7
    Runs,        \* ids of runs (each is started once)
    Internal,    \* the __*__ jobs that main adds
    NoCron,      \* no job, or no row
    MaxCrashes   \* bound: crashes of a process

ASSUME SchedulesAssumption ==
    /\ NoCron \notin Crons /\ Refused \subseteq Crons /\ Refused # Crons
    /\ Internal # {} /\ Internal \cap Prompts = {}
    /\ MaxCrashes \in Nat

VARIABLES
    cron,     \* scheduled_prompts.cron_expr; NoCron where there is no row
    active,   \* scheduled_prompts.is_active
    born,     \* prompts that have been created
    up,       \* the scheduler process runs
    table,    \* the job table: job id -> the expression it triggers on
    syncing,  \* what sync_schedules has read and not yet applied
    firing,   \* _fire callbacks that have read an active row
    status,   \* scheduled_prompt_runs.status; "none" before, "gone" after the row
    owner,    \* the prompt of a run
    host,     \* the process of the task: "scheduler" or "api"
    task,     \* where execute_scheduled_prompt is
    output,   \* the files row of the output and what process_file_async made of it
    late,     \* history: runs the scheduler started after the last pause
    crashes

rows == <<cron, active, born>>
scheduler == <<up, table, syncing, firing>>
runs == <<status, owner, host, task, output, late>>
schedVars == <<rows, scheduler, runs, crashes>>

JobIds == Prompts \cup Internal
Exists(p) == cron[p] # NoCron
Fresh(r) == status[r] = "none"
NextRun == CHOOSE r \in Runs : Fresh(r)   \* ids are fresh and alike
AnyTrigger == CHOOSE c \in Crons \ Refused : TRUE
NotSyncing == [p \in Prompts |-> NoCron]
Saved == {"indexed", "unindexed"}
Live == {"load", "model", "flush", "commit", "notify"}
Ended == {"idle", "done", "lost", "killed"}

(* main: one sync before the internal jobs are added; a process that is just   *)
(* started has a job for every active row.                                     *)
SchedInit ==
    /\ cron = [p \in Prompts |-> NoCron] /\ active = [p \in Prompts |-> FALSE]
    /\ born = {}
    /\ up = TRUE /\ syncing = [on |-> FALSE, read |-> NotSyncing] /\ firing = {}
    /\ table = [j \in JobIds |-> IF j \in Internal THEN AnyTrigger ELSE NoCron]
    /\ status = [r \in Runs |-> "none"] /\ owner = [r \in Runs |-> NoCron]
    /\ host = [r \in Runs |-> "api"] /\ task = [r \in Runs |-> "idle"]
    /\ output = [r \in Runs |-> "none"]
    /\ late = [p \in Prompts |-> 0]
    /\ crashes = 0

(* ---------------------------------------------------------------- the API -- *)

(* POST /scheduled-prompts; is_active is true by default.                      *)
CreateSchedule(p, c) ==
    /\ p \notin born
    /\ born' = born \cup {p}
    /\ cron' = [cron EXCEPT ![p] = c] /\ active' = [active EXCEPT ![p] = TRUE]
    /\ UNCHANGED <<scheduler, runs, crashes>>

(* PATCH with a new schedule: the row changes, the job table does not.         *)
PatchCron(p, c) ==
    /\ Exists(p) /\ cron[p] # c
    /\ cron' = [cron EXCEPT ![p] = c]
    /\ UNCHANGED <<active, born, scheduler, runs, crashes>>

(* PATCH of is_active.                                                         *)
PatchActive(p) ==
    /\ Exists(p)
    /\ active' = [active EXCEPT ![p] = ~ @]
    /\ late' = [late EXCEPT ![p] = 0]
    /\ UNCHANGED <<cron, born, scheduler, status, owner, host, task,
                   output, crashes>>

(* DELETE: the foreign key removes the runs with their prompt.                 *)
DeleteSchedule(p) ==
    /\ Exists(p)
    /\ cron' = [cron EXCEPT ![p] = NoCron]
    /\ active' = [active EXCEPT ![p] = FALSE]
    /\ status' = [r \in Runs |-> IF owner[r] = p /\ ~ Fresh(r) THEN "gone"
                                 ELSE status[r]]
    /\ late' = [late EXCEPT ![p] = 0]
    /\ UNCHANGED <<born, scheduler, owner, host, task, output, crashes>>

(* The insert of a "running" row and the task that will execute it.            *)
StartRun(r, p, where) ==
    /\ Fresh(r) /\ r = NextRun /\ Exists(p)
    /\ status' = [status EXCEPT ![r] = "running"]
    /\ owner' = [owner EXCEPT ![r] = p]
    /\ host' = [host EXCEPT ![r] = where]
    /\ task' = [task EXCEPT ![r] = "load"]

(* POST /{id}/run: whether or not the schedule is active.                      *)
TriggerRun(r, p) ==
    /\ StartRun(r, p, "api")
    /\ UNCHANGED <<rows, scheduler, output, late,
                   crashes>>

(* ---------------------------------------------------- the scheduler process -- *)

SyncRead ==
    /\ up /\ ~ syncing.on /\ \A j \in Internal : table[j] # NoCron
    /\ syncing' = [on |-> TRUE,
                   read |-> [p \in Prompts |-> IF active[p] THEN cron[p] ELSE NoCron]]
    /\ UNCHANGED <<rows, up, table, firing, runs, crashes>>

(* What sync_schedules makes of the table, given the active rows it has read:  *)
(* an expression that gives no trigger is a warning, and no job.               *)
Trigger(c) == IF c \in Refused THEN NoCron ELSE c
SyncWholeTable(read) ==
    [j \in JobIds |-> IF j \in Prompts /\ read[j] # NoCron
                      THEN IF table[j] # NoCron THEN table[j] ELSE Trigger(read[j])
                      ELSE NoCron]
SyncedTable(read) ==
    [j \in JobIds |->
        IF j \in Internal THEN table[j]
        ELSE IF read[j] = NoCron THEN NoCron
        ELSE IF table[j] # NoCron THEN table[j] ELSE Trigger(read[j])]

SyncApply ==
    /\ up /\ syncing.on
    /\ table' = SyncedTable(syncing.read)
    /\ syncing' = [on |-> FALSE, read |-> NotSyncing]
    /\ UNCHANGED <<rows, up, firing, runs, crashes>>

(* _fire reads the row; a paused or deleted one is skipped.                    *)
FireReadAny(p) ==
    /\ up /\ table[p] # NoCron /\ p \notin firing /\ Exists(p)
    /\ firing' = firing \cup {p}
    /\ UNCHANGED <<rows, up, table, syncing, runs, crashes>>
FireRead(p) ==
    /\ up /\ table[p] # NoCron /\ p \notin firing
    /\ Exists(p) /\ active[p]
    /\ firing' = firing \cup {p}
    /\ UNCHANGED <<rows, up, table, syncing, runs, crashes>>

(* ... and inserts the run, unless the prompt was deleted meanwhile.           *)
FireInsert(p) ==
    /\ up /\ p \in firing /\ firing' = firing \ {p}
    /\ \/ /\ \E r \in Runs : StartRun(r, p, "scheduler")
          /\ late' = [late EXCEPT ![p] = IF active[p] THEN 0 ELSE @ + 1]
       \/ /\ ~ Exists(p)
          /\ UNCHANGED <<status, owner, host, task, late>>
    /\ UNCHANGED <<rows, up, table, syncing, output,
                   crashes>>

(* -------------------------------------------------------- one run's task -- *)

At(r, place) == task[r] = place
Go(r, place) == task' = [task EXCEPT ![r] = place]

LoadRun(r) ==
    /\ At(r, "load")
    /\ \/ status[r] = "gone" /\ Go(r, "done")
       \/ status[r] # "gone" /\ Go(r, "model")
    /\ UNCHANGED <<rows, scheduler, status, owner, host, output, late, crashes>>

(* The handler of an exception: the run becomes an error. Its commit fails too *)
(* when the row is gone or the session is already broken, and the task dies.   *)
Failed(r, broken) ==
    IF broken \/ status[r] = "gone"
    THEN Go(r, "lost") /\ UNCHANGED status
    ELSE Go(r, "done") /\ status' = [status EXCEPT ![r] = "error"]

(* The model call; its answer is saved to disk and a files row is flushed.     *)
CallModel(r) ==
    /\ At(r, "model")
    /\ \/ /\ Go(r, "flush") /\ UNCHANGED status
       \/ \E broken \in BOOLEAN : Failed(r, broken)
    /\ UNCHANGED <<rows, scheduler, owner, host, output, late, crashes>>

(* The flush, and the processing task started before the commit.               *)
FlushOutput(r) ==
    /\ At(r, "flush")
    /\ \/ /\ Go(r, "commit") /\ UNCHANGED status
          /\ output' = [output EXCEPT ![r] = "flushed"]
       \/ Failed(r, TRUE) /\ UNCHANGED output
    /\ UNCHANGED <<rows, scheduler, owner, host, late, crashes>>

(* The processing task has a session of its own and sees the files row only    *)
(* once it is committed: one that looks for it earlier finds nothing to do.    *)
IndexOutput(r) ==
    /\ output[r] = "flushed"
    /\ output' = [output EXCEPT ![r] = "missed"]
    /\ UNCHANGED <<rows, scheduler, status, owner, host, task, late, crashes>>

(* One commit for the file, the run and the schedule's last_run_at. It fails   *)
(* when the rows were deleted meanwhile or the database does.                  *)
CommitRunAlone(r) ==
    /\ At(r, "commit")
    /\ status[r] # "gone"
    /\ Go(r, "notify")
    /\ status' = [status EXCEPT ![r] = "success"]
    /\ UNCHANGED <<cron, active, born, scheduler, owner, host, output, late, crashes>>
CommitRun(r) ==
    /\ At(r, "commit")
    /\ \/ /\ status[r] # "gone"
          /\ Go(r, "notify")
          /\ status' = [status EXCEPT ![r] = "success"]
          /\ output' = [output EXCEPT ![r] = IF @ = "missed" THEN "unindexed"
                                             ELSE "indexed"]
       \/ /\ Failed(r, TRUE)
          /\ output' = [output EXCEPT ![r] = "none"]
    /\ UNCHANGED <<cron, active, born, scheduler, owner, host, late, crashes>>

(* The notification is queued after the commit; if that raises, the run that   *)
(* has succeeded is recorded as an error.                                      *)
NotifyRun(r) ==
    /\ At(r, "notify")
    /\ \/ Go(r, "done") /\ UNCHANGED status
       \/ \E broken \in BOOLEAN : Failed(r, broken)
    /\ UNCHANGED <<rows, scheduler, owner, host, output, late, crashes>>

(* A process dies with its tasks; what was only flushed is rolled back.        *)
Killed(r, where) == host[r] = where /\ task[r] \in Live
Crash(where) ==
    /\ crashes < MaxCrashes /\ crashes' = crashes + 1
    /\ task' = [r \in Runs |-> IF Killed(r, where) THEN "killed" ELSE task[r]]
    /\ output' = [r \in Runs |-> IF Killed(r, where) /\ output[r] \notin Saved
                                 THEN "none" ELSE output[r]]
    /\ UNCHANGED <<rows, status, owner, host, late>>
CrashApi == Crash("api") /\ UNCHANGED scheduler
CrashScheduler ==
    /\ up /\ up' = FALSE
    /\ table' = [j \in JobIds |-> NoCron] /\ firing' = {}
    /\ syncing' = [on |-> FALSE, read |-> NotSyncing]
    /\ Crash("scheduler")

(* main after a restart: sync first, then the internal jobs.                   *)
RestartScheduler ==
    /\ ~ up /\ up' = TRUE
    /\ table' = [j \in JobIds |-> IF j \in Internal THEN AnyTrigger
                                  ELSE IF active[j] THEN Trigger(cron[j]) ELSE NoCron]
    /\ UNCHANGED <<rows, syncing, firing, runs, crashes>>

RunStep(r) ==
    \/ LoadRun(r) \/ CallModel(r) \/ FlushOutput(r) \/ IndexOutput(r)
    \/ CommitRun(r) \/ NotifyRun(r)

SchedNext ==
    \/ \E p \in Prompts : \/ \E c \in Crons : CreateSchedule(p, c) \/ PatchCron(p, c)
                          \/ PatchActive(p) \/ DeleteSchedule(p)
                          \/ FireRead(p) \/ FireInsert(p)
                          \/ \E r \in Runs : TriggerRun(r, p)
    \/ \E r \in Runs : RunStep(r)
    \/ SyncRead \/ SyncApply
    \/ CrashApi \/ CrashScheduler \/ RestartScheduler

(* The container restarts the process and APScheduler runs sync_schedules      *)
(* every five minutes. Nothing is assumed of the runs' tasks.                  *)
SchedFairness ==
    /\ WF_schedVars(SyncRead) /\ WF_schedVars(SyncApply)
    /\ WF_schedVars(RestartScheduler)

SchedSpec == SchedInit /\ [][SchedNext]_schedVars /\ SchedFairness

(* ------------------------------------------------------------ properties -- *)

(* Rows, the job table, runs and tasks keep their types.                       *)
SchedTypeOK ==
    /\ cron \in [Prompts -> Crons \cup {NoCron}]
    /\ active \in [Prompts -> BOOLEAN] /\ born \subseteq Prompts
    /\ up \in BOOLEAN /\ table \in [JobIds -> Crons \cup {NoCron}]
    /\ syncing \in [on : BOOLEAN, read : [Prompts -> Crons \cup {NoCron}]]
    /\ firing \subseteq Prompts
    /\ status \in [Runs -> {"none", "running", "success", "error", "gone"}]
    /\ owner \in [Runs -> Prompts \cup {NoCron}]
    /\ host \in [Runs -> {"scheduler", "api"}]
    /\ task \in [Runs -> Live \cup Ended]
    /\ output \in [Runs -> {"none", "flushed", "missed"} \cup Saved]
    /\ late \in [Prompts -> Nat]
    /\ crashes \in 0..MaxCrashes

(* A run that the API shows as finished is what it says, whatever was deleted, *)
(* failed or killed: a success has its file, a committed file belongs to a run *)
(* that is not left "running", and a run stays "running" with no task behind   *)
(* it only when its process died or its session could not commit.              *)
RunsAreAccounted ==
    \A r \in Runs :
        /\ status[r] = "success" => output[r] \in Saved
        /\ output[r] \in Saved => status[r] \in {"success", "error", "gone"}
        /\ status[r] = "running" => task[r] \in Live \cup {"lost", "killed"}

(* Pausing a schedule stops it although its job stays in the table until the   *)
(* next sync: _fire reads is_active again, so at most the one callback that    *)
(* has already read the row starts a run afterwards.                           *)
PauseIsPrompt == \A p \in Prompts : late[p] <= 1

(* Rows and job table that disagree come to agree, across restarts of the      *)
(* scheduler: a paused or deleted schedule loses its job, an active one gets   *)
(* one, and the sync never removes itself. Not covered is an active schedule   *)
(* whose expression the API has accepted and APScheduler refuses: it stays     *)
(* without a job, and only the log says so (scheduler_worker.py:160-161).      *)
Agrees(p) == IF active[p] THEN table[p] # NoCron \/ cron[p] \in Refused
             ELSE table[p] = NoCron
TableFollowsRows == \A p \in Prompts : ~ Agrees(p) ~> Agrees(p)

(* "Re-sync every 5 minutes to pick up new/modified/deleted schedules": after  *)
(* a sync each job triggers on the expression that was read.                   *)
SyncPicksUpModified ==
    [][\A p \in Prompts : SyncApply => table'[p] = syncing.read[p]]_schedVars

==============================================================================
