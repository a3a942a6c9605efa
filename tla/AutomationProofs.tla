--------------------------- MODULE AutomationProofs ---------------------------
(* Proofs about what the system does unasked: insights and notifications,       *)
(* scheduled prompts, and the external sources that are kept connected.         *)
EXTENDS Schedules, Integrations, Insights, FiniteSetTheorems, TLAPS

------------------------------------------------------------------------------
(* Insights. *)

(* A webhook job that talks to the model works on an event that is not yet      *)
(* processed, and no event has an insight before it is.                         *)
EventInv ==
    \A e \in Events : /\ evJob[e] = "model" => evStatus[e] # "processed"
                      /\ fromEvent[e] <= 1
                      /\ fromEvent[e] >= 1 => evStatus[e] = "processed"

(* Every mail of this window, sent or let through, was counted by the window at *)
(* a count within the limit, or is one of the others.                           *)
MailInv ==
    /\ sent + Cardinality(LetThrough) <= hits + spare
    /\ sent + Cardinality(LetThrough) <= RateLimit + spare

InsInv == InsTypeOK /\ EventInv /\ MailInv

(* There are finitely many notifications on their way.                          *)
LEMMA LetThroughIsFinite == IsFiniteSet(LetThrough)
  <1>1. LetThrough \subseteq Mailers
    BY DEF LetThrough
  <1> QED BY <1>1, InsightsAssumption, FS_Subset

(* A step that leaves the mailers and the counters alone keeps their invariant. *)
LEMMA MailUntouched ==
    ASSUME MailInv, UNCHANGED <<hits, mailVars>> PROVE MailInv'
  <1>1. LetThrough' = LetThrough
    BY DEF LetThrough, WithinLimit, mailVars
  <1> QED BY <1>1 DEF MailInv, mailVars

(* The initial rows satisfy the invariant.                                      *)
LEMMA InsInitInv == InsInit => InsInv
  <1> SUFFICES ASSUME InsInit PROVE InsInv
    OBVIOUS
  <1>1. tokenSet \in BOOLEAN /\ expiring \in BOOLEAN
    BY DEF InsInit
  <1>2. delivery \in [WorkerJobs -> 1..MaxDeliveries]
    BY InsightsAssumption DEF InsInit
  <1>3. mailer \in [Mailers -> {"idle", "counted", "allowed", "send", "sent"}]
        /\ current \in [Mailers -> Nat]
    BY DEF InsInit
  <1>4. LetThrough = {}
    BY DEF InsInit, LetThrough
  <1>5. MailInv
    BY <1>4, FS_EmptySet, InsightsAssumption DEF MailInv, InsInit
  <1> QED
    BY <1>1, <1>2, <1>3, <1>5, InsightsAssumption DEF InsInit, InsInv, InsTypeOK, EventInv

(* The steps of a webhook event: its insight and "processed" are one commit.    *)
LEMMA EventSteps ==
    ASSUME InsInv, NEW e \in Events,
           ReceiveWebhook(e) \/ StartEventJob(e) \/ FinishEventJob(e) \/ AckEventJob(e)
    PROVE  InsInv'
  <1> USE InsightsAssumption
          DEF InsInv, InsTypeOK, EventInv, profileVars, noticeVars
  <1>0. MailInv'
    BY MailUntouched DEF ReceiveWebhook, StartEventJob, FinishEventJob, AckEventJob
  <1>1. CASE ReceiveWebhook(e)
    BY <1>0, <1>1 DEF ReceiveWebhook, mailVars
  <1>2. CASE StartEventJob(e)
    BY <1>0, <1>2 DEF StartEventJob, mailVars
  <1>3. CASE FinishEventJob(e)
    BY <1>0, <1>3 DEF FinishEventJob, mailVars
  <1>4. CASE AckEventJob(e)
    BY <1>0, <1>4 DEF AckEventJob, mailVars
  <1> QED BY <1>1, <1>2, <1>3, <1>4

(* The steps of a generated insight.                                            *)
LEMMA GenSteps ==
    ASSUME InsInv, NEW g \in Gens,
           QueueInsight(g) \/ StartInsight(g) \/ GenerateInsight(g) \/ NotifyInsight(g)
    PROVE  InsInv'
  <1>1. MailInv'
    BY MailUntouched
       DEF InsInv, noticeVars, QueueInsight, StartInsight, GenerateInsight, NotifyInsight
  <1> QED
    BY <1>1, InsightsAssumption
       DEF InsInv, InsTypeOK, EventInv, evVars, profileVars, noticeVars, mailVars,
           QueueInsight, StartInsight, GenerateInsight, NotifyInsight

(* A worker that dies sends its job back to the queue or gives it up.           *)
LEMMA KillSteps ==
    ASSUME InsInv, NEW j \in WorkerJobs, KillWorkerOf(j) PROVE InsInv'
  <1>1. MailInv'
    BY MailUntouched DEF InsInv, noticeVars, KillWorkerOf
  <1> QED
    BY <1>1, InsightsAssumption
       DEF InsInv, InsTypeOK, EventInv, profileVars, noticeVars, mailVars, KillWorkerOf,
           WorkerJobs

(* What a notification that is let through, or no longer, makes of their number.*)
LEMMA Letting ==
    ASSUME NEW m \in Mailers
    PROVE  /\ Cardinality(LetThrough) \in Nat
           /\ m \notin LetThrough =>
                 Cardinality(LetThrough \cup {m}) = Cardinality(LetThrough) + 1
           /\ m \in LetThrough =>
                 Cardinality(LetThrough \ {m}) = Cardinality(LetThrough) - 1
  BY LetThroughIsFinite, FS_CardinalityType, FS_AddElement, FS_RemoveElement

(* An email is sent only at a count within the limit, and each has its count.   *)
LEMMA NoticeSteps ==
    ASSUME InsInv, NEW m \in Mailers, NoticeStep(m) PROVE InsInv'
  <1> DEFINE Let == Cardinality(LetThrough)
  <1>0. /\ Let \in Nat /\ sent \in Nat /\ spare \in Nat /\ hits \in Nat /\ RateLimit \in Nat
        /\ sent + Let <= hits + spare /\ sent + Let <= RateLimit + spare
        /\ notices \in Nat /\ current[m] \in Nat /\ kills \in 0..MaxKills /\ MaxKills \in Nat
    BY Letting, InsightsAssumption DEF InsInv, InsTypeOK, MailInv
  <1>1. UNCHANGED restOfInsights
    BY DEF NoticeStep, CountNotice, FailOpen, Judge, LoadPrefs, SendEmail, AckNotice, KillMailer
  <1>2. ASSUME NEW there \in {"idle", "allowed", "send", "sent"}, Mail(m, there)
        PROVE  /\ mailer' \in [Mailers -> {"idle", "counted", "allowed", "send", "sent"}]
               /\ current' \in [Mailers -> Nat]
               /\ there \in {"allowed", "send"} => LetThrough' = LetThrough \cup {m}
               /\ there \in {"idle", "sent"} => LetThrough' = LetThrough \ {m}
    <2>1. /\ mailer' = [mailer EXCEPT ![m] = there] /\ current' = [current EXCEPT ![m] = 0]
          /\ mailer \in [Mailers -> {"idle", "counted", "allowed", "send", "sent"}]
          /\ current \in [Mailers -> Nat]
      BY <1>2 DEF Mail, InsInv, InsTypeOK
    <2> QED BY <2>1 DEF LetThrough, WithinLimit
  <1>3. SUFFICES /\ expiring' \in BOOLEAN /\ notices' \in Nat /\ prefs' \in {"none", "on", "off"}
                 /\ hits' \in Nat /\ sent' \in Nat /\ spare' \in Nat /\ kills' \in 0..MaxKills
                 /\ mailer' \in [Mailers -> {"idle", "counted", "allowed", "send", "sent"}]
                 /\ current' \in [Mailers -> Nat] /\ MailInv'
    BY <1>1 DEF InsInv, InsTypeOK, EventInv, restOfInsights, evVars, profileVars
  <1>4. expiring' \in BOOLEAN
    BY DEF NoticeStep, CountNotice, FailOpen, Judge, LoadPrefs, SendEmail, AckNotice, KillMailer,
           InsInv, InsTypeOK
  <1>5. /\ notices' \in Nat /\ prefs' \in {"none", "on", "off"}
        /\ hits' \in Nat /\ sent' \in Nat /\ spare' \in Nat /\ kills' \in 0..MaxKills
    BY <1>0 DEF NoticeStep, CountNotice, FailOpen, Judge, LoadPrefs, SendEmail, AckNotice,
                KillMailer, InsInv, InsTypeOK
  <1>6. CASE CountNotice(m)
    <2>1. /\ mailer' = [mailer EXCEPT ![m] = "counted"] /\ mailer[m] = "idle"
          /\ current' = [current EXCEPT ![m] = hits + 1] /\ hits' = hits + 1
          /\ UNCHANGED <<sent, spare>>
      BY <1>6 DEF CountNotice
    <2>2. LetThrough' = IF hits + 1 <= RateLimit THEN LetThrough \cup {m} ELSE LetThrough
      BY <2>1 DEF LetThrough, WithinLimit, InsInv, InsTypeOK
    <2>3. m \notin LetThrough
      BY <2>1 DEF LetThrough
    <2>4. Cardinality(LetThrough)' = IF hits + 1 <= RateLimit THEN Let + 1 ELSE Let
      BY <2>2, <2>3, Letting
    <2>5. MailInv'
      BY <1>0, <2>1, <2>4 DEF MailInv
    <2> QED BY <1>0, <1>4, <1>5, <2>1, <2>5 DEF InsInv, InsTypeOK
  <1>7. CASE FailOpen(m)
    <2>1. m \notin LetThrough
      BY <1>7 DEF FailOpen, LetThrough
    <2>2. Cardinality(LetThrough)' = Let + 1
      BY <1>2, <1>7, <2>1, Letting DEF FailOpen
    <2>3. MailInv'
      BY <1>0, <1>7, <2>2 DEF MailInv, FailOpen
    <2> QED BY <1>2, <1>4, <1>5, <1>7, <2>3 DEF FailOpen
  <1>8. CASE Judge(m)
    <2>1. PICK there \in {"idle", "allowed"} :
             /\ Mail(m, there) /\ mailer[m] = "counted" /\ UNCHANGED <<hits, sent>>
             /\ \/ there = "allowed" /\ WithinLimit(m) /\ spare' = spare
                \/ there = "allowed" /\ ~ WithinLimit(m) /\ spare' = spare + 1
                \/ there = "idle" /\ ~ WithinLimit(m) /\ spare' = spare
      BY <1>8 DEF Judge
    <2>2. m \in LetThrough <=> WithinLimit(m)
      BY <2>1 DEF LetThrough
    <2>3. CASE there = "allowed"
      <3>1. LetThrough' = LetThrough \cup {m}
        BY <1>2, <2>1, <2>3
      <3>2. Cardinality(LetThrough)' = IF WithinLimit(m) THEN Let ELSE Let + 1
        <4>1. WithinLimit(m) => LetThrough \cup {m} = LetThrough
          BY <2>2
        <4> QED BY <2>2, <3>1, <4>1, Letting
      <3>3. MailInv'
        BY <1>0, <2>1, <2>3, <3>2 DEF MailInv
      <3> QED BY <1>2, <1>4, <1>5, <2>1, <3>3
    <2>4. CASE there = "idle"
      <3>1. LetThrough' = LetThrough
        BY <1>2, <2>1, <2>2, <2>4
      <3>2. MailInv'
        BY <1>0, <2>1, <2>4, <3>1 DEF MailInv
      <3> QED BY <1>2, <1>4, <1>5, <2>1, <3>2
    <2> QED BY <2>1, <2>3, <2>4
  <1>9. CASE LoadPrefs(m) \/ SendEmail(m) \/ AckNotice(m) \/ KillMailer(m)
    <2>1. PICK there \in {"idle", "send", "sent"} :
             /\ Mail(m, there) /\ UNCHANGED <<hits, spare>>
             /\ there = "send" => mailer[m] = "allowed" /\ sent' = sent
             /\ there = "sent" => mailer[m] = "send" /\ sent' = sent + 1
             /\ there = "idle" => sent' = sent
      BY <1>9 DEF LoadPrefs, SendEmail, AckNotice, KillMailer
    <2>2. /\ Cardinality(LetThrough)' <= Let /\ Cardinality(LetThrough)' \in Nat
          /\ there = "sent" => Cardinality(LetThrough)' = Let - 1
      <3>1. CASE there = "send"
        <4>1. m \in LetThrough
          BY <2>1, <3>1 DEF LetThrough
        <4>2. LetThrough' = LetThrough
          BY <1>2, <2>1, <3>1, <4>1
        <4> QED BY <1>0, <3>1, <4>2
      <3>2. CASE there # "send" /\ m \in LetThrough
        <4>1. LetThrough' = LetThrough \ {m}
          BY <1>2, <2>1, <3>2
        <4>2. Cardinality(LetThrough)' = Let - 1
          BY <3>2, <4>1, Letting
        <4>3. Cardinality(LetThrough)' \in Nat
          BY <4>1, LetThroughIsFinite, FS_RemoveElement, FS_CardinalityType
        <4> QED BY <1>0, <4>2, <4>3
      <3>3. CASE there # "send" /\ m \notin LetThrough
        <4>1. LetThrough' = LetThrough
          BY <1>2, <2>1, <3>3
        <4>2. there # "sent"
          BY <2>1, <3>3 DEF LetThrough
        <4> QED BY <1>0, <4>1, <4>2
      <3> QED BY <3>1, <3>2, <3>3
    <2>4. /\ sent' + Cardinality(LetThrough)' <= sent + Let
          /\ sent' \in Nat /\ hits' = hits /\ spare' = spare
      <3>1. CASE there = "sent"
        BY <1>0, <2>1, <2>2, <3>1
      <3>2. CASE there # "sent"
        BY <1>0, <2>1, <2>2, <3>2
      <3> QED BY <3>1, <3>2
    <2>3. MailInv'
      BY <1>0, <2>2, <2>4 DEF MailInv
    <2> QED BY <1>2, <1>4, <1>5, <2>1, <2>3
  <1> QED BY <1>6, <1>7, <1>8, <1>9 DEF NoticeStep

(* A window that ends hands what it has let through to the next.                *)
LEMMA WindowSteps ==
    ASSUME InsInv, ExpireWindow \/ \E p \in {"on", "off"} : SetPrefs(p)
    PROVE  InsInv'
  <1>1. CASE ExpireWindow
    <2>0. hits' = 0 /\ sent' = 0 /\ spare' = Cardinality(LetThrough)
          /\ UNCHANGED <<mailer, current>>
      BY <1>1 DEF ExpireWindow
    <2>1. expiring' \in BOOLEAN
      BY <1>1 DEF ExpireWindow
    <2>2. LetThrough' = LetThrough /\ Cardinality(LetThrough) \in Nat
      BY <2>0, LetThroughIsFinite, FS_CardinalityType DEF LetThrough, WithinLimit
    <2>3. MailInv'
      BY <2>0, <2>2, InsightsAssumption DEF MailInv
    <2>4. spare' \in Nat /\ windows' \in 0..MaxWindows
      BY <1>1, <2>0, <2>2, InsightsAssumption DEF ExpireWindow, InsInv, InsTypeOK
    <2> QED
      BY <1>1, <2>0, <2>1, <2>3, <2>4 DEF ExpireWindow, InsInv, InsTypeOK, EventInv, evVars,
                                          profileVars
  <1>2. CASE \E p \in {"on", "off"} : SetPrefs(p)
    <2>1. MailInv'
      BY <1>2, MailUntouched DEF SetPrefs, InsInv
    <2> QED
      BY <1>2, <2>1 DEF SetPrefs, InsInv, InsTypeOK, EventInv, evVars, profileVars, mailVars
  <1> QED BY <1>1, <1>2

(* The profile jobs touch neither events nor notifications.                     *)
LEMMA ProfileSteps ==
    ASSUME InsInv, NEW b \in Replies, LoadProfile(b) \/ SaveProfile(b)
    PROVE  InsInv'
  <1> USE InsightsAssumption DEF InsInv, InsTypeOK, EventInv, evVars, noticeVars
  <1>0. MailInv'
    BY MailUntouched DEF LoadProfile, SaveProfile
  <1>1. CASE LoadProfile(b)
    BY <1>0, <1>1 DEF LoadProfile, mailVars
  <1>2. CASE SaveProfile(b)
    BY <1>0, <1>2 DEF SaveProfile, mailVars
  <1> QED BY <1>1, <1>2

(* Every step keeps the invariant.                                              *)
LEMMA InsNextInv == InsInv /\ [InsNext]_insVars => InsInv'
  <1> SUFFICES ASSUME InsInv, [InsNext]_insVars PROVE InsInv'
    OBVIOUS
  <1>0. CASE SetToken
    <2>1. tokenSet' \in BOOLEAN
      BY <1>0 DEF SetToken
    <2>2. MailInv'
      BY <1>0, MailUntouched DEF SetToken, InsInv, noticeVars
    <2> QED
      BY <1>0, <2>1, <2>2 DEF SetToken, InsInv, InsTypeOK, EventInv, profileVars, noticeVars,
                              mailVars
  <1>1. CASE ReadInsight \/ RunDigest
    <2>1. MailInv'
      BY <1>1, MailUntouched DEF ReadInsight, RunDigest, InsInv, noticeVars
    <2> QED
      BY <1>1, <2>1, InsightsAssumption
         DEF ReadInsight, RunDigest, InsInv, InsTypeOK, EventInv, evVars, profileVars,
             noticeVars, mailVars
  <1>2. CASE UNCHANGED insVars
    <2>1. MailInv'
      BY <1>2, MailUntouched DEF insVars, InsInv, noticeVars
    <2> QED
      BY <1>2, <2>1 DEF insVars, evVars, profileVars, noticeVars, mailVars, InsInv, InsTypeOK,
                        EventInv
  <1> QED
    BY <1>0, <1>1, <1>2, EventSteps, GenSteps, KillSteps, NoticeSteps, WindowSteps,
       ProfileSteps DEF InsNext

(* For any number of events, jobs, redeliveries and killed workers: a webhook   *)
(* event makes at most one insight (process_webhook_job).                       *)
THEOREM EventsToldOnce == InsSpec => []EventToldOnce
  <1>1. InsInv => EventToldOnce
    BY DEF InsInv, InsTypeOK, EventInv, EventToldOnce
  <1> QED BY InsInitInv, InsNextInv, <1>1, PTL DEF InsSpec

(* For every limit, any number of workers and any deaths among them: no rate    *)
(* window sees more emails than it allows, those apart that it has not counted  *)
(* (notify).                                                                    *)
THEOREM EmailsAreLimited == InsSpec => []RateIsLimited
  <1>1. InsInv => RateIsLimited
    <2> SUFFICES ASSUME InsInv PROVE RateIsLimited
      OBVIOUS
    <2>1. Cardinality(LetThrough) \in Nat
      BY LetThroughIsFinite, FS_CardinalityType DEF InsInv
    <2> QED
      BY <2>1, InsightsAssumption DEF InsInv, InsTypeOK, MailInv, RateIsLimited
  <1> QED BY InsInitInv, InsNextInv, <1>1, PTL DEF InsSpec

------------------------------------------------------------------------------
(* Scheduled prompts. *)

(* What a run's row and its output can be, given where its task is: the files   *)
(* row exists from the flush on, and the commit makes run and file final at     *)
(* once.                                                                        *)
RunInv ==
    \A r \in Runs :
        /\ Fresh(r) <=> At(r, "idle")
        /\ task[r] \in {"idle", "load", "model", "flush"} => output[r] = "none"
        /\ task[r] \in {"load", "model", "flush", "commit"} => status[r] \in {"running", "gone"}
        /\ At(r, "commit") <=> output[r] \in {"flushed", "missed"}
        /\ At(r, "notify") => status[r] \in {"success", "gone"} /\ output[r] \in Saved

(* A schedule that has run since it was paused has no callback under way that   *)
(* could start another run.                                                     *)
PauseInv ==
    \A p \in Prompts :
        /\ late[p] > 0 => late[p] = 1 /\ ~ active[p] /\ p \notin firing
        /\ p \notin born => ~ Exists(p) /\ late[p] = 0

SchedInv == SchedTypeOK /\ RunInv /\ RunsAreAccounted /\ PauseInv

(* The initial rows satisfy the invariant.                                      *)
LEMMA SchedInitInv == SchedInit => SchedInv
  <1> SUFFICES ASSUME SchedInit PROVE SchedInv
    OBVIOUS
  <1> USE SchedulesAssumption DEF SchedInit
  <1>1. up \in BOOLEAN /\ active \in [Prompts -> BOOLEAN]
    OBVIOUS
  <1>2. syncing \in [on : BOOLEAN, read : [Prompts -> Crons \cup {NoCron}]]
    BY DEF NotSyncing
  <1>3. table \in [JobIds -> Crons \cup {NoCron}]
    <2>1. AnyTrigger \in Crons
      BY DEF AnyTrigger
    <2> QED BY <2>1
  <1>4. SchedTypeOK
    BY <1>1, <1>2, <1>3 DEF SchedTypeOK, Live, Ended, Saved
  <1>5. RunInv /\ RunsAreAccounted
    BY DEF RunInv, RunsAreAccounted, Fresh, At, Saved
  <1>6. PauseInv
    BY DEF PauseInv, Exists
  <1> QED BY <1>4, <1>5, <1>6 DEF SchedInv

(* The API edits rows; deleting a schedule takes its runs with it.              *)
LEMMA ApiSteps ==
    ASSUME SchedInv, NEW p \in Prompts, NEW c \in Crons,
           \/ CreateSchedule(p, c) \/ PatchCron(p, c) \/ PatchActive(p)
           \/ DeleteSchedule(p)
    PROVE  SchedInv'
  <1> USE SchedulesAssumption DEF SchedInv
  <1>1. CASE CreateSchedule(p, c)
    <2>1. active' \in [Prompts -> BOOLEAN]
      BY <1>1 DEF CreateSchedule, SchedTypeOK
    <2> QED
      BY <1>1, <2>1 DEF CreateSchedule, scheduler, runs, SchedTypeOK, RunInv,
                        RunsAreAccounted, PauseInv, Fresh, At, Exists
  <1>2. CASE PatchCron(p, c)
    BY <1>2 DEF PatchCron, scheduler, runs, SchedTypeOK, RunInv, RunsAreAccounted, PauseInv,
                Fresh, At, Exists
  <1>3. CASE PatchActive(p)
    <2>1. active' \in [Prompts -> BOOLEAN]
      BY <1>3 DEF PatchActive, SchedTypeOK
    <2> QED
      BY <1>3, <2>1 DEF PatchActive, scheduler, SchedTypeOK, RunInv, RunsAreAccounted,
                        PauseInv, Fresh, At, Exists
  <1>4. CASE DeleteSchedule(p)
    <2>1. active' \in [Prompts -> BOOLEAN]
      BY <1>4 DEF DeleteSchedule, SchedTypeOK
    <2>2. SchedTypeOK' /\ PauseInv'
      BY <1>4, <2>1 DEF DeleteSchedule, scheduler, SchedTypeOK, PauseInv, Exists
    <2>3. RunInv' /\ RunsAreAccounted'
      BY <1>4 DEF DeleteSchedule, SchedTypeOK, RunInv, RunsAreAccounted, Fresh, At, Saved
    <2> QED BY <2>2, <2>3
  <1> QED BY <1>1, <1>2, <1>3, <1>4

(* A run starts from a fresh row.                                               *)
LEMMA StartSteps ==
    ASSUME SchedInv, NEW r \in Runs, NEW p \in Prompts, NEW where \in {"scheduler", "api"},
           StartRun(r, p, where), output' = output
    PROVE  /\ status' \in [Runs -> {"none", "running", "success", "error", "gone"}]
           /\ owner' \in [Runs -> Prompts \cup {NoCron}]
           /\ host' \in [Runs -> {"scheduler", "api"}]
           /\ task' \in [Runs -> Live \cup Ended]
           /\ RunInv' /\ RunsAreAccounted' /\ Exists(p)
  <1>1. /\ status' \in [Runs -> {"none", "running", "success", "error", "gone"}]
        /\ owner' \in [Runs -> Prompts \cup {NoCron}]
        /\ host' \in [Runs -> {"scheduler", "api"}]
        /\ task' \in [Runs -> Live \cup Ended] /\ Exists(p)
    BY DEF StartRun, SchedInv, SchedTypeOK, Live
  <1>2. RunInv' /\ RunsAreAccounted'
    BY DEF StartRun, SchedInv, SchedTypeOK, RunInv, RunsAreAccounted, Fresh, At, Saved, Live
  <1> QED BY <1>1, <1>2

(* A callback starts a run only for a row it has read as active.                *)
LEMMA FireSteps ==
    ASSUME SchedInv, NEW p \in Prompts,
           FireRead(p) \/ FireInsert(p) \/ \E r \in Runs : TriggerRun(r, p)
    PROVE  SchedInv'
  <1> USE SchedulesAssumption DEF SchedInv
  <1>1. CASE FireRead(p)
    BY <1>1 DEF FireRead, rows, runs, SchedTypeOK, RunInv, RunsAreAccounted, PauseInv, Fresh,
                At, Exists
  <1>2. CASE \E r \in Runs : TriggerRun(r, p)
    <2>1. PICK r \in Runs : TriggerRun(r, p)
      BY <1>2
    <2>2. StartRun(r, p, "api") /\ UNCHANGED <<rows, scheduler, output, late, crashes>>
      BY <2>1 DEF TriggerRun
    <2> QED
      BY <2>2, StartSteps DEF rows, scheduler, SchedTypeOK, PauseInv, Exists
  <1>3. CASE FireInsert(p)
    <2>0. /\ p \in firing /\ firing' = firing \ {p}
          /\ UNCHANGED <<rows, up, table, syncing, output, crashes>>
      BY <1>3 DEF FireInsert
    <2>1. CASE /\ \E r \in Runs : StartRun(r, p, "scheduler")
               /\ late' = [late EXCEPT ![p] = IF active[p] THEN 0 ELSE @ + 1]
      <3>1. PICK r \in Runs : StartRun(r, p, "scheduler")
        BY <2>1
      <3>2. late' \in [Prompts -> Nat]
        BY <2>1 DEF SchedTypeOK
      <3>3. Exists(p) /\ RunInv' /\ RunsAreAccounted' /\ SchedTypeOK'
        BY <2>0, <3>1, <3>2, StartSteps DEF rows, SchedTypeOK
      <3>4. PauseInv'
        BY <2>0, <2>1, <3>3 DEF rows, SchedTypeOK, PauseInv, Exists
      <3> QED BY <3>3, <3>4
    <2>2. CASE UNCHANGED <<status, owner, host, task, late>>
      BY <2>0, <2>2 DEF rows, SchedTypeOK, RunInv, RunsAreAccounted, PauseInv, Fresh, At,
                        Exists
    <2> QED BY <1>3, <2>1, <2>2 DEF FireInsert
  <1> QED BY <1>1, <1>2, <1>3

(* The sync refreshes the table and nothing else.                               *)
LEMMA SyncSteps ==
    ASSUME SchedInv, SyncRead \/ SyncApply \/ RestartScheduler PROVE SchedInv'
  <1> USE SchedulesAssumption DEF SchedInv
  <1>1. RunInv' /\ RunsAreAccounted' /\ PauseInv'
    BY DEF SyncRead, SyncApply, RestartScheduler, rows, runs, RunInv, RunsAreAccounted,
           PauseInv, Fresh, At, Exists
  <1>2. SchedTypeOK'
    <2>1. up' \in BOOLEAN
      BY DEF SyncRead, SyncApply, RestartScheduler, SchedTypeOK
    <2>2. syncing' \in [on : BOOLEAN, read : [Prompts -> Crons \cup {NoCron}]]
      <3>1. CASE SyncRead
        <4>1. [q \in Prompts |-> IF active[q] THEN cron[q] ELSE NoCron]
                  \in [Prompts -> Crons \cup {NoCron}]
          BY DEF SchedTypeOK
        <4> QED BY <3>1, <4>1 DEF SyncRead
      <3>2. CASE SyncApply
        BY <3>2 DEF SyncApply, NotSyncing
      <3>3. CASE RestartScheduler
        BY <3>3 DEF RestartScheduler, SchedTypeOK
      <3> QED BY <3>1, <3>2, <3>3
    <2>3. table' \in [JobIds -> Crons \cup {NoCron}]
      <3>1. AnyTrigger \in Crons /\ \A c \in Crons \cup {NoCron} : Trigger(c) \in Crons \cup {NoCron}
        BY DEF AnyTrigger, Trigger
      <3>2. CASE SyncRead
        BY <3>2 DEF SyncRead, SchedTypeOK
      <3>3. CASE SyncApply
        BY <3>1, <3>3 DEF SyncApply, SyncedTable, SchedTypeOK, JobIds
      <3>4. CASE RestartScheduler
        BY <3>1, <3>4 DEF RestartScheduler, SchedTypeOK, JobIds
      <3> QED BY <3>2, <3>3, <3>4
    <2>4. UNCHANGED <<rows, firing, runs, crashes>>
      BY DEF SyncRead, SyncApply, RestartScheduler
    <2> QED BY <2>1, <2>2, <2>3, <2>4 DEF rows, runs, SchedTypeOK
  <1> QED BY <1>1, <1>2

(* A step of one run's task moves only its own row and output.                  *)
LEMMA RunSteps ==
    ASSUME SchedInv, NEW r \in Runs, RunStep(r) PROVE SchedInv'
  <1> USE DEF SchedInv
  <1>0. UNCHANGED <<rows, scheduler, owner, host, late, crashes>>
    BY DEF RunStep, LoadRun, CallModel, FlushOutput, IndexOutput, CommitRun, NotifyRun, rows
  <1>1. PauseInv'
    BY <1>0 DEF rows, scheduler, PauseInv, Exists
  <1>2. SchedTypeOK' /\ RunInv' /\ RunsAreAccounted'
    <2> USE <1>0 DEF rows, scheduler, SchedTypeOK, RunInv, RunsAreAccounted, Fresh, At, Go,
                     Saved, Live, Ended
    <2>1. CASE LoadRun(r)
      BY <2>1 DEF LoadRun
    <2>2. CASE CallModel(r)
      BY <2>2 DEF CallModel, Failed
    <2>3. CASE FlushOutput(r)
      BY <2>3 DEF FlushOutput, Failed
    <2>4. CASE IndexOutput(r)
      BY <2>4 DEF IndexOutput, runs
    <2>5. CASE CommitRun(r)
      BY <2>5 DEF CommitRun, Failed
    <2>6. CASE NotifyRun(r)
      BY <2>6 DEF NotifyRun, Failed
    <2> QED BY <2>1, <2>2, <2>3, <2>4, <2>5, <2>6 DEF RunStep
  <1> QED BY <1>1, <1>2

(* A process that dies takes its tasks and what they had only flushed.          *)
LEMMA CrashSteps ==
    ASSUME SchedInv, CrashApi \/ CrashScheduler PROVE SchedInv'
  <1> USE SchedulesAssumption DEF SchedInv
  <1>1. PICK where \in {"api", "scheduler"} : Crash(where)
    BY DEF CrashApi, CrashScheduler
  <1>2. RunInv' /\ RunsAreAccounted'
    BY <1>1 DEF Crash, Killed, SchedTypeOK, RunInv, RunsAreAccounted, Fresh, At, Saved, Live,
                Ended
  <1>3. /\ task' \in [Runs -> Live \cup Ended]
        /\ output' \in [Runs -> {"none", "flushed", "missed"} \cup Saved]
        /\ crashes' \in 0..MaxCrashes
        /\ UNCHANGED <<rows, status, owner, host, late>>
    BY <1>1 DEF Crash, SchedTypeOK, Ended
  <1>4. /\ up' \in BOOLEAN /\ table' \in [JobIds -> Crons \cup {NoCron}]
        /\ syncing' \in [on : BOOLEAN, read : [Prompts -> Crons \cup {NoCron}]]
        /\ firing' \subseteq firing
    <2>1. CASE CrashApi
      BY <2>1 DEF CrashApi, scheduler, SchedTypeOK
    <2>2. CASE CrashScheduler
      BY <2>2 DEF CrashScheduler, SchedTypeOK, NotSyncing
    <2> QED BY <2>1, <2>2
  <1>5. SchedTypeOK' /\ PauseInv'
    BY <1>3, <1>4 DEF rows, SchedTypeOK, PauseInv, Exists
  <1> QED BY <1>2, <1>5

(* Every step keeps the invariant.                                              *)
LEMMA SchedNextInv == SchedInv /\ [SchedNext]_schedVars => SchedInv'
  <1> SUFFICES ASSUME SchedInv, [SchedNext]_schedVars PROVE SchedInv'
    OBVIOUS
  <1>1. CASE UNCHANGED schedVars
    BY <1>1 DEF schedVars, rows, scheduler, runs, SchedInv, SchedTypeOK, RunInv,
                RunsAreAccounted, PauseInv, Fresh, At, Exists
  <1>2. ASSUME NEW p \in Prompts, PatchActive(p) \/ DeleteSchedule(p) PROVE SchedInv'
    <2>1. PICK c \in Crons : TRUE
      BY SchedulesAssumption
    <2> QED BY <1>2, <2>1, ApiSteps
  <1> QED
    BY <1>1, <1>2, ApiSteps, FireSteps, SyncSteps, RunSteps, CrashSteps DEF SchedNext

(* For any number of schedules, runs and crashes: what the API shows of a run   *)
(* that has ended is true, and only a lost process or session leaves one        *)
(* "running" (execute_scheduled_prompt).                                        *)
THEOREM RunsAccounted == SchedSpec => []RunsAreAccounted
  <1>1. SchedInv => RunsAreAccounted
    BY DEF SchedInv
  <1> QED BY SchedInitInv, SchedNextInv, <1>1, PTL DEF SchedSpec

(* For any number of schedules: a pause lets at most one more run start (_fire).*)
THEOREM PausesArePrompt == SchedSpec => []PauseIsPrompt
  <1>1. SchedInv => PauseIsPrompt
    BY DEF SchedInv, SchedTypeOK, PauseInv, PauseIsPrompt
  <1> QED BY SchedInitInv, SchedNextInv, <1>1, PTL DEF SchedSpec

------------------------------------------------------------------------------
(* External sources. *)

InSession == {"use", "refresh", "reauth", "failing"}
FlowStates == {"none", "issued", "granted", "selected", "done", "failed"}

USE DEF history

(* A session or a queued job has a source, which was created before it, and     *)
(* renews only what can be renewed.                                             *)
AboutInv ==
    \A a \in Actors :
        /\ place[a] \in InSession \cup {"queued"} =>
              about[a] \in Sources /\ srcStatus[about[a]] # "none"
        /\ place[a] = "refresh" => Refreshable(seenCred[a])

(* What a session knows of an undisturbed source is still true: the credentials *)
(* it has loaded are the stored ones, the token it uses has not expired, and    *)
(* the ones it condemns are hopeless.                                           *)
Undisturbed(a) == IsRow(about[a]) /\ about[a] \notin disturbed
SessionInv ==
    \A a \in Actors : place[a] \in InSession /\ Undisturbed(a) =>
        /\ seenCred[a] = cred[about[a]]
        /\ place[a] = "use" => fresh[about[a]] \/ cred[about[a]] \in Lasting
        /\ place[a] = "reauth" => Hopeless(about[a])

IntInv == IntTypeOK /\ AboutInv /\ SessionInv /\ ReauthIsJustified

(* The initial rows satisfy the invariant.                                      *)
LEMMA IntInitInv == IntInit => IntInv
  <1> SUFFICES ASSUME IntInit PROVE IntInv
    OBVIOUS
  <1> USE IntegrationsAssumption DEF IntInit
  <1>1. fresh \in [Sources -> BOOLEAN] /\ sawActive \in [Actors -> BOOLEAN]
    OBVIOUS
  <1>2. tries \in [Jobs -> 1..MaxTries]
    OBVIOUS
  <1>3. IntTypeOK
    BY <1>1, <1>2 DEF IntTypeOK, SrcStatuses
  <1>4. AboutInv /\ SessionInv /\ ReauthIsJustified
    BY DEF AboutInv, SessionInv, InSession, ReauthIsJustified
  <1> QED BY <1>3, <1>4 DEF IntInv

(* What changes a row under the sessions on it marks it as disturbed, unless    *)
(* there is none.                                                               *)
LEMMA OutsideSteps ==
    ASSUME IntInv, NEW s \in Sources,
           UNCHANGED <<revoked, refused, place, session, tries>>,
           flow' \in [Grants -> FlowStates], target' \in [Grants -> Sources \cup {NoSource}],
           \A q \in Sources : q # s => /\ srcStatus'[q] = srcStatus[q]
                                       /\ cred'[q] = cred[q] /\ fresh'[q] = fresh[q]
                                       /\ q \in disturbed' <=> q \in disturbed,
           Busy(s) => s \in disturbed' \/ ~ IsRow(s)',
           srcStatus'[s] = "none" => srcStatus[s] = "none",
           /\ srcStatus' \in [Sources -> SrcStatuses \cup {"none", "gone"}]
           /\ cred' \in [Sources -> Grants \cup {NoGrant}]
           /\ fresh' \in [Sources -> BOOLEAN] /\ disturbed' \subseteq Sources,
           srcStatus'[s] = "needs_reauth" /\ s \notin disturbed' => Hopeless(s)'
    PROVE  IntInv'
  <1> USE DEF IntInv
  <1>0. \A q \in Sources : q # s => (Hopeless(q)' <=> Hopeless(q))
    BY DEF Hopeless
  <1>1. IntTypeOK' /\ AboutInv'
    BY DEF IntTypeOK, AboutInv, FlowStates, session
  <1>3. ReauthIsJustified'
    BY <1>0 DEF ReauthIsJustified
  <1>2. SessionInv'
    <2> SUFFICES ASSUME NEW a \in Actors, place'[a] \in InSession, Undisturbed(a)'
                 PROVE  /\ seenCred'[a] = cred'[about'[a]]
                        /\ place'[a] = "use" => fresh'[about'[a]] \/ cred'[about'[a]] \in Lasting
                        /\ place'[a] = "reauth" => Hopeless(about[a])'
      BY DEF SessionInv
    <2>0. place'[a] = place[a] /\ about'[a] = about[a] /\ seenCred'[a] = seenCred[a]
      BY DEF session
    <2>1. about[a] \in Sources /\ about'[a] = about[a]
      BY <2>0 DEF AboutInv
    <2>2. about[a] # s
      <3> SUFFICES ASSUME about[a] = s PROVE FALSE
        OBVIOUS
      <3>1. Busy(s)
        BY <2>0 DEF Busy, InSession
      <3> QED BY <2>1, <3>1 DEF Undisturbed, IsRow
    <2>3. Undisturbed(a)
      BY <2>1, <2>2 DEF Undisturbed, IsRow
    <2>4. Hopeless(about[a])' <=> Hopeless(about[a])
      BY <2>1, <2>2 DEF Hopeless
    <2>5. /\ cred'[about[a]] = cred[about[a]] /\ fresh'[about[a]] = fresh[about[a]]
          /\ place[a] = "reauth" => Hopeless(about[a])
          /\ place[a] = "use" => fresh[about[a]] \/ cred[about[a]] \in Lasting
          /\ seenCred[a] = cred[about[a]]
      BY <2>0, <2>1, <2>2, <2>3 DEF SessionInv
    <2> QED BY <2>0, <2>4, <2>5
  <1> QED BY <1>1, <1>2, <1>3

(* The API, the owner's edits and the provider.                                 *)
LEMMA RowSteps ==
    ASSUME IntInv, NEW s \in Sources,
           \/ CreateSource(s) \/ DeleteSource(s) \/ ExpireToken(s)
           \/ \E v \in {"active", "paused"} : PatchSource(s, v)
    PROVE  IntInv'
  <1> USE IntegrationsAssumption DEF IntInv
  <1>1. CASE CreateSource(s)
    <2>1. ~ Busy(s)
      BY <1>1 DEF CreateSource, Busy, AboutInv, InSession, IntTypeOK
    <2> QED
      BY <1>1, <2>1, OutsideSteps DEF CreateSource, IntTypeOK, grantVars, FlowStates, SrcStatuses
  <1>2. CASE DeleteSource(s)
    <2>1. fresh' \in [Sources -> BOOLEAN]
      BY <1>2 DEF DeleteSource, IntTypeOK
    <2> QED
      BY <1>2, <2>1, OutsideSteps DEF DeleteSource, IntTypeOK, grantVars, FlowStates, IsRow, SrcStatuses
  <1>3. CASE ExpireToken(s)
    <2>1. fresh' \in [Sources -> BOOLEAN]
      BY <1>3 DEF ExpireToken, IntTypeOK
    <2>2. UNCHANGED <<srcStatus, cred, grantVars, place, session, tries, refused>>
      BY <1>3 DEF ExpireToken
    <2>3. /\ disturbed \subseteq disturbed' /\ disturbed' \subseteq disturbed \cup {s}
          /\ Busy(s) => s \in disturbed'
      BY <1>3 DEF ExpireToken, Disturb
    <2>4. \A q \in Sources : q # s => fresh'[q] = fresh[q]
      BY <1>3 DEF ExpireToken, IntTypeOK
    <2>5. cred[s] \notin Lasting /\ fresh'[s] = FALSE
      BY <1>3 DEF ExpireToken, IntTypeOK
    <2>6. srcStatus'[s] = "needs_reauth" /\ s \notin disturbed' => Hopeless(s)'
      BY <2>2, <2>3, <2>5 DEF grantVars, ReauthIsJustified, Hopeless
    <2> QED
      BY <2>1, <2>2, <2>3, <2>4, <2>6, OutsideSteps DEF IntTypeOK, grantVars, FlowStates
  <1>4. CASE \E v \in {"active", "paused"} : PatchSource(s, v)
    BY <1>4, OutsideSteps DEF PatchSource, Disturb, IntTypeOK, grantVars, FlowStates, SrcStatuses
  <1> QED BY <1>1, <1>2, <1>3, <1>4

(* The OAuth flow writes a row only at its end, as a whole.                     *)
LEMMA FlowSteps ==
    ASSUME IntInv, NEW g \in Grants,
           OauthStart(g) \/ ExchangeCode(g) \/ SelectSource(g) \/ CommitCallback(g) \/ Revoke(g)
    PROVE  IntInv'
  <1> USE IntegrationsAssumption DEF IntInv
  <1>1. CASE OauthStart(g) \/ ExchangeCode(g) \/ SelectSource(g)
    <2>1. /\ UNCHANGED <<srcVars, revoked, place, session, tries, history>>
          /\ flow' \in [Grants -> FlowStates]
      BY <1>1 DEF OauthStart, ExchangeCode, SelectSource, FlowStates, IntTypeOK
    <2>2. target' \in [Grants -> Sources \cup {NoSource}]
      <3>1. Rows # {} => (CHOOSE s \in Rows : TRUE) \in Sources
        BY DEF Rows
      <3> QED BY <1>1, <3>1 DEF OauthStart, ExchangeCode, SelectSource, IntTypeOK
    <2> QED
      BY <2>1, <2>2 DEF srcVars, session, FlowStates, IntTypeOK, AboutInv, SessionInv,
                        Undisturbed, IsRow, ReauthIsJustified, Hopeless
  <1>2. CASE CommitCallback(g)
    <2>0. /\ flow' \in [Grants -> FlowStates]
          /\ target' \in [Grants -> Sources \cup {NoSource}]
          /\ UNCHANGED <<revoked, place, session, tries, refused>>
      BY <1>2 DEF CommitCallback, FlowStates, IntTypeOK
    <2>1. ASSUME NEW s \in Sources, Connect(g, s) PROVE IntInv'
      <3>1. fresh' \in [Sources -> BOOLEAN]
        BY <2>1 DEF Connect, IntTypeOK
      <3> QED
        BY <2>0, <2>1, <3>1, OutsideSteps DEF Connect, IntTypeOK, SrcStatuses
    <2>2. CASE UNCHANGED <<srcVars, disturbed>>
      BY <2>0, <2>2 DEF srcVars, session, FlowStates, IntTypeOK, AboutInv, SessionInv,
                        Undisturbed, IsRow, ReauthIsJustified, Hopeless
    <2> QED BY <1>2, <2>1, <2>2 DEF CommitCallback
  <1>3. CASE Revoke(g)
    BY <1>3 DEF Revoke, srcVars, session, IntTypeOK, AboutInv, SessionInv, Undisturbed, IsRow,
                ReauthIsJustified, Hopeless
  <1> QED BY <1>1, <1>2, <1>3

(* What a session does with its own state: it ends, goes on, or loads a row     *)
(* afresh. Rows keep their credentials, and only a session at "reauth"          *)
(* condemns one.                                                                *)
LEMMA SessionSteps ==
    ASSUME IntInv, NEW a \in Actors, UNCHANGED <<cred, fresh, grantVars, disturbed>>,
           refused \subseteq refused', refused' \subseteq Grants,
           tries' \in [Jobs -> 1..MaxTries],
           srcStatus' \in [Sources -> SrcStatuses \cup {"none", "gone"}],
           \A s \in Sources :
              \/ srcStatus'[s] = srcStatus[s]
              \/ IsRow(s) /\ srcStatus'[s] \in SrcStatuses \ {"needs_reauth"}
              \/ IsRow(s) /\ s = about[a] /\ place[a] = "reauth" /\ srcStatus'[s] = "needs_reauth",
           \/ End(a)
           \/ Step(a, "queued") /\ place[a] \in InSession
           \/ Step(a, "failing") /\ place[a] \in InSession
           \/ /\ Step(a, "reauth") /\ place[a] \in InSession
              /\ Undisturbed(a) => Hopeless(about[a])'
           \/ \E s \in Sources : LoadRow(a, s) /\ IsRow(s)
    PROVE  IntInv'
  <1> USE IntegrationsAssumption DEF IntInv
  <1>1. /\ about' \in [Actors -> Sources \cup {NoSource}]
        /\ seenCred' \in [Actors -> Grants \cup {NoGrant}]
    BY DEF IntTypeOK, End, Step, session, LoadRow
  <1>2. sawActive' \in [Actors -> BOOLEAN]
    BY DEF IntTypeOK, End, Step, session, LoadRow
  <1>3. place' \in [Actors -> InSession \cup {"idle", "queued", "done"}]
    BY DEF IntTypeOK, End, Step, LoadRow, AfterLoad, InSession
  <1>4. IntTypeOK'
    BY <1>1, <1>2, <1>3 DEF IntTypeOK, grantVars, InSession
  <1>0. \A s \in Sources : /\ IsRow(s)' <=> IsRow(s)
                           /\ srcStatus[s] # "none" => srcStatus'[s] # "none"
    BY DEF IsRow, SrcStatuses
  <1>8. \A s \in Sources : Hopeless(s) => Hopeless(s)'
    BY DEF Hopeless, grantVars
  <1>5. AboutInv'
    BY <1>0 DEF AboutInv, IntTypeOK, End, Step, session, LoadRow, AfterLoad, IsRow, InSession,
                SrcStatuses
  <1>6. ReauthIsJustified'
    BY <1>8 DEF ReauthIsJustified, SessionInv, AboutInv, Undisturbed, IsRow, SrcStatuses, InSession,
           IntTypeOK, grantVars
  <1>7. SessionInv'
    <2> SUFFICES ASSUME NEW b \in Actors, place'[b] \in InSession, Undisturbed(b)'
                 PROVE  /\ seenCred'[b] = cred[about'[b]]
                        /\ place'[b] = "use" => fresh[about'[b]] \/ cred[about'[b]] \in Lasting
                        /\ place'[b] = "reauth" => Hopeless(about[b])'
      BY DEF SessionInv, grantVars
    <2>1. CASE b # a
      <3>1. /\ place'[b] = place[b] /\ about'[b] = about[b] /\ seenCred'[b] = seenCred[b]
            /\ about[b] \in Sources
        BY <2>1 DEF IntTypeOK, AboutInv, End, Step, session, LoadRow
      <3>2. Undisturbed(b)
        BY <1>0, <3>1 DEF Undisturbed, IsRow
      <3>3. Hopeless(about[b]) => Hopeless(about[b])'
        BY <1>8, <3>1 DEF Hopeless
      <3> QED BY <3>1, <3>2, <3>3 DEF SessionInv
    <2>2. CASE b = a /\ \E s \in Sources : LoadRow(a, s) /\ IsRow(s)
      <3>1. PICK s \in Sources : LoadRow(a, s) /\ IsRow(s)
        BY <2>2
      <3>2. about'[a] = s /\ seenCred'[a] = cred[s] /\ place'[a] = AfterLoad(s)
        BY <3>1 DEF LoadRow, IntTypeOK
      <3>3. place'[a] = "use" => fresh[s] \/ cred[s] \in Lasting
        BY <3>2 DEF AfterLoad
      <3>4. place'[a] = "reauth" => Hopeless(s)
        <4> SUFFICES ASSUME place'[a] = "reauth", cred[s] # NoGrant PROVE Hopeless(s)
          BY DEF Hopeless
        <4>1. ~ fresh[s] /\ cred[s] \notin Lasting /\ ~ Refreshable(cred[s])
          BY <3>2 DEF AfterLoad
        <4>2. cred[s] \in Grants
          BY DEF IntTypeOK
        <4> QED BY <4>1, <4>2 DEF Refreshable, Hopeless
      <3>5. Hopeless(s) => Hopeless(about[a])'
        BY <3>2 DEF Hopeless, grantVars
      <3> QED BY <2>2, <3>2, <3>3, <3>4, <3>5
    <2>3. CASE /\ b = a /\ place[a] \in InSession
               /\ \/ Step(a, "failing")
                  \/ /\ Step(a, "reauth")
                     /\ Undisturbed(a) => Hopeless(about[a])'
      <3>1. /\ about'[a] = about[a] /\ seenCred'[a] = seenCred[a] /\ about[a] \in Sources
            /\ place'[a] \in {"failing", "reauth"}
        BY <2>3 DEF Step, session, AboutInv, IntTypeOK
      <3>2. Undisturbed(a)
        BY <1>0, <2>3, <3>1 DEF Undisturbed, IsRow
      <3>3. place'[a] = "reauth" => Hopeless(about[a])'
        BY <2>3, <3>1, <3>2 DEF Step, IntTypeOK
      <3> QED BY <2>3, <3>1, <3>2, <3>3 DEF SessionInv
    <2>4. CASE End(a) \/ Step(a, "queued")
      BY <2>1, <2>4 DEF End, Step, InSession, IntTypeOK
    <2> QED BY <2>1, <2>2, <2>3, <2>4
  <1> QED BY <1>4, <1>5, <1>6, <1>7

(* The status a session writes reaches its own row, if there is one.            *)
LEMMA WriteStatusFacts ==
    ASSUME IntTypeOK, NEW a \in Actors, about[a] \in Sources, NEW v \in SrcStatuses,
           WriteStatus(a, v)
    PROVE  /\ srcStatus' \in [Sources -> SrcStatuses \cup {"none", "gone"}]
           /\ \A s \in Sources : \/ srcStatus'[s] = srcStatus[s]
                                 \/ IsRow(s) /\ s = about[a] /\ srcStatus'[s] = v
  BY DEF WriteStatus, WriteStatusAlways, IntTypeOK, IsRow

(* A refresh that replaces other credentials disturbs the row, and one that is  *)
(* refused has loaded credentials that are withdrawn.                           *)
LEMMA RefreshSteps ==
    ASSUME IntInv, NEW a \in Actors, RefreshTokens(a) PROVE IntInv'
  <1> USE IntegrationsAssumption DEF IntInv
  <1>0. /\ place[a] = "refresh" /\ about[a] \in Sources
        /\ UNCHANGED <<srcStatus, grantVars, tries>>
    BY DEF RefreshTokens, AboutInv, InSession
  <1>1. CASE /\ seenCred[a] \notin revoked /\ IsRow(about[a])
             /\ StoreTokens(a) /\ Step(a, "use") /\ UNCHANGED refused
    <2>1. /\ cred' \in [Sources -> Grants \cup {NoGrant}] /\ fresh' \in [Sources -> BOOLEAN]
          /\ fresh'[about[a]] = TRUE /\ cred'[about[a]] = seenCred[a]
          /\ \A s \in Sources : s # about[a] => fresh'[s] = fresh[s]
      BY <1>0, <1>1 DEF StoreTokens, IntTypeOK
    <2>2. /\ disturbed \subseteq disturbed' /\ disturbed' \subseteq Sources
          /\ \A s \in Sources : s \notin disturbed' => cred'[s] = cred[s]
      BY <1>0, <1>1 DEF StoreTokens, IntTypeOK
    <2>3. /\ place' = [place EXCEPT ![a] = "use"]
          /\ UNCHANGED <<about, sawActive, seenCred, srcStatus, flow, target, revoked, tries,
                         refused>>
      BY <1>0, <1>1 DEF Step, session, grantVars
    <2>4. IntTypeOK' /\ AboutInv'
      BY <1>0, <2>1, <2>2, <2>3 DEF IntTypeOK, AboutInv, InSession
    <2>6. ASSUME NEW s \in Sources, s \notin disturbed', Hopeless(s) PROVE Hopeless(s)'
      <3>1. cred'[s] = cred[s] /\ refused' = refused /\ revoked' = revoked
        BY <2>2, <2>3, <2>6
      <3>2. s = about[a] => cred[s] \notin Unrefreshable
        BY <1>0, <2>1, <2>6, <3>1 DEF AboutInv, Refreshable
      <3> QED BY <2>1, <2>6, <3>1, <3>2 DEF Hopeless
    <2>7. ReauthIsJustified'
      BY <2>2, <2>3, <2>6 DEF ReauthIsJustified
    <2>5. SessionInv'
      <3> SUFFICES ASSUME NEW b \in Actors, place'[b] \in InSession, Undisturbed(b)'
                   PROVE  /\ seenCred[b] = cred'[about[b]]
                          /\ place'[b] = "use" =>
                                fresh'[about[b]] \/ cred'[about[b]] \in Lasting
                          /\ place'[b] = "reauth" => Hopeless(about[b])'
        BY <2>3 DEF SessionInv
      <3>1. CASE b = a
        BY <2>1, <2>3, <3>1 DEF IntTypeOK
      <3>2. CASE b # a
        <4>1. place'[b] = place[b] /\ about[b] \in Sources
          BY <2>3, <3>2 DEF AboutInv, IntTypeOK
        <4>2. Undisturbed(b) /\ cred'[about[b]] = cred[about[b]]
          BY <2>2, <2>3, <4>1 DEF Undisturbed, IsRow
        <4>3. fresh[about[b]] => fresh'[about[b]]
          BY <2>1, <4>1
        <4>4. Hopeless(about[b]) => Hopeless(about[b])'
          <5> SUFFICES ASSUME Hopeless(about[b]) PROVE Hopeless(about[b])'
            OBVIOUS
          <5>1. about[b] \notin disturbed' /\ about'[b] = about[b]
            BY <2>3 DEF Undisturbed
          <5>2. cred'[about[b]] = cred[about[b]] /\ refused' = refused /\ revoked' = revoked
            BY <2>3, <4>2
          <5>3. about[b] = about[a] => cred[about[b]] \notin Unrefreshable
            BY <1>0, <2>1, <4>2 DEF AboutInv, Refreshable
          <5> QED BY <2>1, <4>1, <5>1, <5>2, <5>3 DEF Hopeless
        <4> QED BY <4>1, <4>2, <4>3, <4>4 DEF SessionInv
      <3> QED BY <3>1, <3>2
    <2> QED BY <2>4, <2>5, <2>7
  <1>2. CASE /\ seenCred[a] \in revoked /\ Step(a, "reauth")
             /\ UNCHANGED <<cred, fresh, history>>
    <2>1. Undisturbed(a) => Hopeless(about[a])'
      BY <1>0, <1>2 DEF SessionInv, InSession, Hopeless, Step, session, grantVars
    <2> QED BY <1>0, <1>2, <2>1, SessionSteps DEF IntTypeOK, InSession
  <1>3. CASE /\ refused' = refused \cup {seenCred[a]}
             /\ Step(a, "reauth") /\ UNCHANGED <<cred, fresh, disturbed>>
    <2>1. Undisturbed(a) => Hopeless(about[a])'
      BY <1>0, <1>3 DEF SessionInv, InSession, Hopeless, Step, session
    <2>2. seenCred[a] \in Grants
      BY <1>0 DEF AboutInv, Refreshable
    <2> QED BY <1>0, <1>3, <2>1, <2>2, SessionSteps DEF IntTypeOK, InSession
  <1>4. CASE Step(a, "failing") /\ UNCHANGED <<cred, fresh, history>>
    BY <1>0, <1>4, SessionSteps DEF IntTypeOK, InSession
  <1> QED BY <1>1, <1>2, <1>3, <1>4 DEF RefreshTokens

(* A job enters the queue for a row that exists.                                *)
LEMMA QueueSteps ==
    ASSUME IntInv, NEW j \in Jobs, NEW s \in Sources, RequestSync(j, s) \/ ScheduleSync(j, s)
    PROVE  IntInv'
  <1> USE DEF IntInv
  <1>0. j \in Actors /\ srcStatus[s] # "none"
    BY DEF Actors, RequestSync, ScheduleSync
  <1>1. /\ place' = [place EXCEPT ![j] = "queued"] /\ about' = [about EXCEPT ![j] = s]
        /\ UNCHANGED <<srcStatus, cred, fresh, flow, target, revoked, sawActive, seenCred,
                       tries, history>>
    BY DEF RequestSync, ScheduleSync, Enqueue, srcVars, grantVars
  <1>2. IntTypeOK' /\ AboutInv' /\ ReauthIsJustified'
    BY <1>0, <1>1 DEF IntTypeOK, AboutInv, InSession, ReauthIsJustified, Hopeless
  <1>3. SessionInv'
    BY <1>0, <1>1 DEF SessionInv, InSession, Undisturbed, IsRow, IntTypeOK, Hopeless
  <1> QED BY <1>2, <1>3

(* The steps of the sync job, its retries and the death of its worker.          *)
LEMMA JobSteps ==
    ASSUME IntInv, NEW j \in Jobs, SyncStep(j) \/ KillSync(j)
    PROVE  IntInv'
  <1> USE IntegrationsAssumption DEF IntInv
  <1>0. j \in Actors
    BY DEF Actors
  <1>1. CASE StartSync(j)
    <2>1. about[j] \in Sources
      BY <1>0, <1>1 DEF StartSync, AboutInv
    <2> QED BY <1>0, <1>1, <2>1, SessionSteps DEF StartSync, srcVars, IntTypeOK
  <1>2. CASE FinishSync(j)
    <2>1. about[j] \in Sources /\ place[j] = "use"
      BY <1>0, <1>2 DEF FinishSync, AboutInv, InSession
    <2>2. CASE WriteStatus(j, "active") /\ End(j)
      BY <1>0, <1>2, <2>1, <2>2, WriteStatusFacts, SessionSteps
         DEF FinishSync, IntTypeOK, SrcStatuses
    <2>3. CASE Step(j, "failing") /\ UNCHANGED srcStatus
      BY <1>0, <1>2, <2>1, <2>3, SessionSteps DEF FinishSync, IntTypeOK, InSession
    <2> QED BY <1>2, <2>2, <2>3 DEF FinishSync
  <1>3. CASE FailSync(j)
    <2>1. about[j] \in Sources /\ place[j] = "failing"
      BY <1>0, <1>3 DEF FailSync, AboutInv, InSession
    <2>2. CASE /\ tries[j] < MaxTries /\ tries' = [tries EXCEPT ![j] = @ + 1]
               /\ Step(j, "queued") /\ UNCHANGED srcStatus
      <3>1. tries' \in [Jobs -> 1..MaxTries]
        BY <2>2 DEF IntTypeOK
      <3> QED
        BY <1>0, <1>3, <2>1, <2>2, <3>1, SessionSteps DEF FailSync, IntTypeOK, InSession
    <2>3. CASE WriteStatus(j, "error") /\ End(j) /\ UNCHANGED tries
      BY <1>0, <1>3, <2>1, <2>3, WriteStatusFacts, SessionSteps
         DEF FailSync, IntTypeOK, SrcStatuses
    <2>4. CASE End(j) /\ UNCHANGED <<srcStatus, tries>>
      BY <1>0, <1>3, <2>4, SessionSteps DEF FailSync, IntTypeOK
    <2> QED BY <1>3, <2>2, <2>3, <2>4 DEF FailSync
  <1>4. CASE KillSync(j)
    <2>1. CASE /\ tries[j] < MaxTries /\ tries' = [tries EXCEPT ![j] = @ + 1]
               /\ Step(j, "queued")
      <3>1. tries' \in [Jobs -> 1..MaxTries]
        BY <2>1 DEF IntTypeOK
      <3> QED
        BY <1>0, <1>4, <2>1, <3>1, SessionSteps DEF KillSync, srcVars, IntTypeOK, InSession
    <2>2. CASE End(j) /\ UNCHANGED tries
      BY <1>0, <1>4, <2>2, SessionSteps DEF KillSync, srcVars, IntTypeOK
    <2> QED BY <1>4, <2>1, <2>2 DEF KillSync
  <1>5. ASSUME NeedsReauth(j) PROVE IntInv'
    <2>1. about[j] \in Sources /\ place[j] = "reauth"
      BY <1>0, <1>5 DEF NeedsReauth, AboutInv, InSession
    <2> QED
      BY <1>0, <1>5, <2>1, WriteStatusFacts, SessionSteps
         DEF NeedsReauth, IntTypeOK, SrcStatuses
  <1> QED BY <1>0, <1>1, <1>2, <1>3, <1>4, <1>5, RefreshSteps DEF SyncStep

(* A tool that is refused condemns only a token that nothing can renew.         *)
LEMMA ToolSteps ==
    ASSUME IntInv, NEW t \in Tools,
           ToolStep(t) \/ \E s \in Sources : LoadCredentials(t, s)
    PROVE  IntInv'
  <1> USE IntegrationsAssumption DEF IntInv
  <1>0. t \in Actors
    BY DEF Actors
  <1>1. CASE \E s \in Sources : LoadCredentials(t, s)
    <2>1. PICK s \in Sources : LoadCredentials(t, s)
      BY <1>1
    <2>2. LoadRow(t, s) /\ IsRow(s)
      BY <2>1 DEF LoadCredentials, IsRow, SrcStatuses
    <2> QED BY <1>0, <2>1, <2>2, SessionSteps DEF LoadCredentials, srcVars, IntTypeOK
  <1>2. CASE UseTool(t)
    <2>1. /\ place[t] = "use" /\ about[t] \in Sources
          /\ UNCHANGED <<srcVars, grantVars, tries, history>>
      BY <1>0, <1>2 DEF UseTool, CalendarRead, CalendarWrite, DriveCall, GmailCall, AboutInv,
                        InSession
    <2>2. CASE End(t)
      BY <1>0, <2>1, <2>2, SessionSteps DEF srcVars, IntTypeOK
    <2>3. CASE ~ Accepted(t) /\ Step(t, "reauth")
      <3>1. Undisturbed(t) => Hopeless(about[t])'
        BY <1>0, <2>1, <2>3 DEF Accepted, SessionInv, InSession, IntTypeOK, Hopeless, Step,
                                session, srcVars, grantVars
      <3> QED BY <1>0, <2>1, <2>3, <3>1, SessionSteps DEF srcVars, IntTypeOK, InSession
    <2> QED
      BY <1>2, <2>2, <2>3 DEF UseTool, CalendarRead, CalendarWrite, DriveCall, GmailCall, Ask
  <1>3. CASE NeedsReauth(t)
    <2>1. about[t] \in Sources /\ place[t] = "reauth"
      BY <1>0, <1>3 DEF NeedsReauth, AboutInv, InSession
    <2> QED
      BY <1>0, <1>3, <2>1, WriteStatusFacts, SessionSteps
         DEF NeedsReauth, IntTypeOK, SrcStatuses
  <1>4. CASE FailTool(t)
    BY <1>0, <1>4, SessionSteps DEF FailTool, srcVars, IntTypeOK
  <1> QED BY <1>0, <1>1, <1>2, <1>3, <1>4, RefreshSteps DEF ToolStep

(* Every step keeps the invariant.                                              *)
LEMMA IntNextInv == IntInv /\ [IntNext]_intVars => IntInv'
  <1> SUFFICES ASSUME IntInv, [IntNext]_intVars PROVE IntInv'
    OBVIOUS
  <1>1. CASE UNCHANGED intVars
    BY <1>1 DEF intVars, srcVars, grantVars, session, IntInv, IntTypeOK, AboutInv, SessionInv,
                Undisturbed, IsRow, ReauthIsJustified, Hopeless
  <1> QED
    BY <1>1, RowSteps, FlowSteps, QueueSteps, JobSteps, ToolSteps DEF IntNext

(* For any number of sources, grants, syncs and tools: no timeout, server error,*)
(* retry or killed worker asks anybody to reconnect a source; it takes missing, *)
(* withdrawn or unrenewable credentials or a 401 or 403 to a job that renews    *)
(* them, unless the row changed or its token expired under a session            *)
(* (_google_creds, sync_external_source_job).                                   *)
THEOREM ReauthsAreJustified == IntSpec => []ReauthIsJustified
  <1>1. IntInv => ReauthIsJustified
    BY DEF IntInv
  <1> QED BY IntInitInv, IntNextInv, <1>1, PTL DEF IntSpec

==============================================================================
