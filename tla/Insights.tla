-------------------------------- MODULE Insights --------------------------------
(* What the system tells one user unasked: insights written by background jobs, *)
(* by webhook events and by the weekly digest, and the notifications about      *)
(* them (services/arq_worker.py, services/notification.py, services/digest.py,  *)
(* services/behavior.py, llm/agency.py and the APIs webhooks, insights and      *)
(* notifications).                                                              *)
(*                                                                              *)
(* arq delivers a job again when its worker dies, so every job may run twice,   *)
(* from the start, after any of its commits.                                    *)
EXTENDS Naturals, FiniteSets

CONSTANTS
    Events,       \* webhook events
    Gens,         \* runs of generate_insight_job
    Replies,      \* chat replies, each with one update_behavior_profile_job
    Mailers,      \* slots of the workers for send_insight_notification_job
    MaxUnread,    \* generate_insight_job skips at this many unread insights (3)
    Recurring,    \* a topic asked this often is a pattern (3)
    RateLimit,    \* NOTIFICATION_RATE_LIMIT
    MaxDeliveries,\* _MAX_TRIES
    MaxKills,     \* bound: workers killed
    MaxWindows    \* bound: rate windows, and digests

ASSUME InsightsAssumption ==
    /\ MaxUnread \in Nat /\ Recurring \in Nat /\ RateLimit \in Nat
    /\ MaxDeliveries \in Nat \ {0} /\ MaxKills \in Nat /\ MaxWindows \in Nat
    /\ IsFiniteSet(Mailers)

VARIABLES
    tokenSet,  \* users.webhook_token is not NULL
    evStatus,  \* webhook_events.status; "none" before the row
    evJob,     \* its process_webhook_job
    delivery,  \* job_try of a webhook or generation job
    fromEvent, \* insights made from each event
    unread,    \* user_insights with is_read false
    gen,       \* each generate_insight_job
    reply,     \* each update_behavior_profile_job
    asked,     \* profile["topic_keywords"][topic]
    loadedAsked, \* asked as a job has loaded it
    notices,   \* notification jobs in the queue
    prefs,     \* the user wants email about insights; "none" before the row
    hits,      \* notif:rl:{user}:insight in Redis
    expiring,  \* that key has a TTL
    mailer,    \* what each slot does with its notification
    current,   \* what its INCR has returned, until it is judged
    sent,      \* history: emails of this rate window
    spare,     \* history: those of them that this window has not counted: let
               \* through by a Redis that failed, or counted before the window
    windows, digests, kills

evVars == <<tokenSet, evStatus, evJob, fromEvent>>
profileVars == <<reply, asked, loadedAsked>>
mailVars == <<mailer, current, sent, spare>>
noticeVars == <<notices, prefs, hits, expiring, mailVars, windows>>
insVars == <<evVars, delivery, unread, gen, profileVars, noticeVars, digests,
             kills>>

WorkerJobs == Events \cup Gens

InsInit ==
    /\ tokenSet = FALSE /\ evStatus = [e \in Events |-> "none"]
    /\ evJob = [e \in Events |-> "none"] /\ fromEvent = [e \in Events |-> 0]
    /\ delivery = [j \in WorkerJobs |-> 1] /\ unread = 0
    /\ gen = [g \in Gens |-> "idle"] /\ reply = [b \in Replies |-> "idle"]
    /\ asked = 0 /\ loadedAsked = [b \in Replies |-> 0]
    /\ notices = 0 /\ prefs = "none" /\ hits = 0 /\ expiring = FALSE
    /\ mailer = [m \in Mailers |-> "idle"] /\ current = [m \in Mailers |-> 0]
    /\ sent = 0 /\ spare = 0 /\ windows = 0 /\ digests = 0 /\ kills = 0

(* ---------------------------------------------------------------- webhooks -- *)

(* POST and DELETE /auth/me/webhook-token.                                     *)
SetToken ==
    /\ tokenSet' = ~ tokenSet
    /\ UNCHANGED <<evStatus, evJob, fromEvent, delivery, unread, gen,
                   profileVars, noticeVars, digests, kills>>

(* The event is committed, then queued; a crash between leaves it pending.     *)
ReceiveWebhook(e) ==
    /\ tokenSet /\ evStatus[e] = "none"
    /\ evStatus' = [evStatus EXCEPT ![e] = "pending"]
    /\ \/ evJob' = [evJob EXCEPT ![e] = "queued"] /\ UNCHANGED kills
       \/ kills < MaxKills /\ kills' = kills + 1 /\ UNCHANGED evJob
    /\ UNCHANGED <<tokenSet, fromEvent, delivery, unread, gen, profileVars,
                   noticeVars, digests>>

(* process_webhook_job reads the row; a processed one is left alone.           *)
StartEventJobAlways(e) ==
    /\ evJob[e] = "queued" /\ evJob' = [evJob EXCEPT ![e] = "model"]
    /\ UNCHANGED <<tokenSet, evStatus, fromEvent, delivery, unread, gen,
                   profileVars, noticeVars, digests, kills>>
StartEventJob(e) ==
    /\ evJob[e] = "queued"
    /\ evJob' = [evJob EXCEPT ![e] = IF evStatus[e] = "processed" THEN "done"
                                     ELSE "model"]
    /\ UNCHANGED <<tokenSet, evStatus, fromEvent, delivery, unread, gen,
                   profileVars, noticeVars, digests, kills>>

(* The model may have nothing to say; insight and "processed" are one commit.  *)
FinishEventJob(e) ==
    /\ evJob[e] = "model"
    /\ \/ /\ evStatus' = [evStatus EXCEPT ![e] = "processed"]
          /\ evJob' = [evJob EXCEPT ![e] = "committed"]
          /\ \/ /\ unread' = unread + 1
                /\ fromEvent' = [fromEvent EXCEPT ![e] = @ + 1]
             \/ UNCHANGED <<unread, fromEvent>>
       \/ /\ evStatus' = [evStatus EXCEPT ![e] = "error"]
          /\ evJob' = [evJob EXCEPT ![e] = "done"] /\ UNCHANGED <<unread, fromEvent>>
    /\ UNCHANGED <<tokenSet, delivery, gen, profileVars, noticeVars,
                   digests, kills>>

AckEventJob(e) ==
    /\ evJob[e] = "committed" /\ evJob' = [evJob EXCEPT ![e] = "done"]
    /\ UNCHANGED <<tokenSet, evStatus, fromEvent, delivery, unread, gen,
                   profileVars, noticeVars, digests, kills>>

(* -------------------------------------------------- generated insights -- *)

(* Queued every few replies by the chat stream.                                *)
QueueInsight(g) ==
    /\ gen[g] = "idle" /\ gen' = [gen EXCEPT ![g] = "queued"]
    /\ UNCHANGED <<evVars, delivery, unread, profileVars, noticeVars, digests,
                   kills>>

(* "Skip if 3+ unread insights already waiting": a check before the model call *)
(* that nothing repeats at the insert.                                         *)
StartInsight(g) ==
    /\ gen[g] = "queued"
    /\ gen' = [gen EXCEPT ![g] = IF unread >= MaxUnread THEN "done" ELSE "model"]
    /\ UNCHANGED <<evVars, delivery, unread, profileVars, noticeVars, digests,
                   kills>>

GenerateInsight(g) ==
    /\ gen[g] = "model"
    /\ \/ unread' = unread + 1 /\ gen' = [gen EXCEPT ![g] = "committed"]
       \/ gen' = [gen EXCEPT ![g] = "done"] /\ UNCHANGED unread
    /\ UNCHANGED <<evVars, delivery, profileVars, noticeVars, digests,
                   kills>>

NotifyInsight(g) ==
    /\ gen[g] = "committed" /\ gen' = [gen EXCEPT ![g] = "done"]
    /\ notices' \in {notices, notices + 1}   \* the queue may be unreachable
    /\ UNCHANGED <<evVars, delivery, unread, profileVars, prefs, hits, expiring,
                   mailVars, windows, digests, kills>>

(* A worker dies in the middle of a job: arq delivers it again.                *)
KillWorkerOf(j) ==
    /\ kills < MaxKills /\ kills' = kills + 1
    /\ \/ /\ j \in Events /\ evJob[j] \in {"model", "committed"}
          /\ evJob' = [evJob EXCEPT ![j] = IF delivery[j] < MaxDeliveries
                                           THEN "queued" ELSE "done"]
          /\ UNCHANGED gen
       \/ /\ j \in Gens /\ gen[j] \in {"model", "committed"}
          /\ gen' = [gen EXCEPT ![j] = IF delivery[j] < MaxDeliveries
                                       THEN "queued" ELSE "done"]
          /\ UNCHANGED evJob
    /\ delivery' = [delivery EXCEPT ![j] = IF @ < MaxDeliveries THEN @ + 1 ELSE @]
    /\ UNCHANGED <<tokenSet, evStatus, fromEvent, unread, profileVars,
                   noticeVars, digests>>

(* PATCH /insights/{id}/read, or DELETE.                                       *)
ReadInsight ==
    /\ unread > 0 /\ unread' = unread - 1
    /\ UNCHANGED <<evVars, delivery, gen, profileVars, noticeVars, digests, kills>>

(* The digest mentions the insights of the week and becomes one itself; a week *)
(* with nothing in it has no digest. The email goes out before the commit.     *)
RunDigest ==
    /\ digests < MaxWindows /\ digests' = digests + 1
    /\ \/ unread' = unread + 1
       \/ UNCHANGED unread
    /\ UNCHANGED <<evVars, delivery, gen, profileVars, noticeVars, kills>>

(* ----------------------------------------------------- behaviour profile -- *)

LoadProfile(b) ==
    /\ reply[b] = "idle" /\ reply' = [reply EXCEPT ![b] = "loaded"]
    /\ loadedAsked' = [loadedAsked EXCEPT ![b] = asked]
    /\ UNCHANGED <<evVars, delivery, unread, gen, asked, noticeVars, digests,
                   kills>>

(* detect_recurring_patterns.                                                  *)
Recurs(count) == count >= Recurring

(* The whole profile is written back; a pattern that no insight of the week    *)
(* mentions queues one.                                                        *)
SaveProfile(b) ==
    /\ reply[b] = "loaded" /\ reply' = [reply EXCEPT ![b] = "done"]
    /\ asked' = loadedAsked[b] + 1
    /\ loadedAsked' = [loadedAsked EXCEPT ![b] = 0]
    /\ \/ /\ Recurs(asked')
          /\ \E g \in Gens : gen[g] = "idle" /\ gen' = [gen EXCEPT ![g] = "queued"]
       \/ UNCHANGED gen
    /\ UNCHANGED <<evVars, delivery, unread, noticeVars, digests, kills>>

(* ------------------------------------------------------------ notifications -- *)

(* GET creates the row with the defaults, PATCH changes it.                    *)
SetPrefs(p) ==
    /\ prefs # p /\ prefs' = p
    /\ UNCHANGED <<evVars, delivery, unread, gen, profileVars, notices, hits,
                   expiring, mailVars, windows, digests, kills>>

(* What a step of the notification job leaves alone.                           *)
restOfInsights == <<evVars, delivery, unread, gen, profileVars, windows, digests>>
Mail(m, there) == /\ mailer' = [mailer EXCEPT ![m] = there]
                  /\ current' = [current EXCEPT ![m] = 0]
WithinLimit(m) == current[m] <= RateLimit

(* _check_rate_limit is an INCR of the worker that takes the job ...           *)
CountNoticeRacy(m) ==
    /\ mailer[m] = "idle" /\ notices > 0 /\ notices' = notices - 1
    /\ hits' \in {hits, hits + 1}
    /\ mailer' = [mailer EXCEPT ![m] = "counted"]
    /\ current' = [current EXCEPT ![m] = hits + 1]
    /\ UNCHANGED <<restOfInsights, prefs, expiring, sent, spare, kills>>
CountNotice(m) ==
    /\ mailer[m] = "idle" /\ notices > 0 /\ notices' = notices - 1
    /\ hits' = hits + 1
    /\ mailer' = [mailer EXCEPT ![m] = "counted"]
    /\ current' = [current EXCEPT ![m] = hits + 1]
    /\ UNCHANGED <<restOfInsights, prefs, expiring, sent, spare, kills>>

(* ... which lets everything through when Redis fails or is switched off.      *)
FailOpen(m) ==
    /\ mailer[m] = "idle" /\ notices > 0 /\ notices' = notices - 1
    /\ Mail(m, "allowed") /\ spare' = spare + 1
    /\ UNCHANGED <<restOfInsights, prefs, hits, expiring, sent, kills>>

(* The first of a window sets its end, by a call of its own that may fail too; *)
(* then the limit is applied.                                                  *)
Judge(m) ==
    /\ mailer[m] = "counted"
    /\ \/ /\ expiring' = (expiring \/ current[m] = 1) /\ UNCHANGED spare
          /\ Mail(m, IF WithinLimit(m) THEN "allowed" ELSE "idle")
       \/ /\ current[m] = 1 /\ Mail(m, "allowed") /\ UNCHANGED expiring
          /\ spare' = IF WithinLimit(m) THEN spare ELSE spare + 1
    /\ UNCHANGED <<restOfInsights, notices, prefs, hits, sent, kills>>

(* _load_prefs, which inserts the defaults; and the channel they leave open.   *)
LoadPrefs(m) ==
    /\ mailer[m] = "allowed" /\ prefs' = (IF prefs = "none" THEN "on" ELSE prefs)
    /\ Mail(m, IF prefs' = "on" THEN "send" ELSE "idle")
    /\ UNCHANGED <<restOfInsights, notices, hits, expiring, sent, spare, kills>>

(* A mail that cannot be sent is logged and forgotten.                         *)
SendEmail(m) ==
    /\ mailer[m] = "send"
    /\ \/ sent' = sent + 1 /\ Mail(m, "sent")
       \/ Mail(m, "idle") /\ UNCHANGED sent
    /\ UNCHANGED <<restOfInsights, notices, prefs, hits, expiring, spare, kills>>

AckNotice(m) ==
    /\ mailer[m] = "sent" /\ Mail(m, "idle")
    /\ UNCHANGED <<restOfInsights, notices, prefs, hits, expiring, sent, spare,
                   kills>>

(* The job of a dead worker is delivered again, from the start, or was at its  *)
(* last try. Killed between INCR and EXPIRE it leaves a key for ever.          *)
KillMailer(m) ==
    /\ mailer[m] # "idle" /\ kills < MaxKills /\ kills' = kills + 1
    /\ Mail(m, "idle") /\ notices' \in {notices, notices + 1}
    /\ UNCHANGED <<restOfInsights, prefs, hits, expiring, sent, spare>>

NoticeStep(m) ==
    \/ CountNotice(m) \/ FailOpen(m) \/ Judge(m) \/ LoadPrefs(m) \/ SendEmail(m)
    \/ AckNotice(m) \/ KillMailer(m)

(* Notifications that have been let through, or will be, and are not sent yet. *)
LetThrough == {m \in Mailers : \/ mailer[m] \in {"allowed", "send"}
                               \/ mailer[m] = "counted" /\ WithinLimit(m)}

(* NOTIFICATION_RATE_WINDOW seconds after the first hit.                       *)
ExpireWindow ==
    /\ expiring /\ windows < MaxWindows /\ windows' = windows + 1
    /\ hits' = 0 /\ expiring' = FALSE
    /\ sent' = 0 /\ spare' = Cardinality(LetThrough)
    /\ UNCHANGED <<evVars, delivery, unread, gen, profileVars, notices, prefs,
                   mailer, current, digests, kills>>

InsNext ==
    \/ SetToken \/ ReadInsight \/ RunDigest \/ ExpireWindow
    \/ \E p \in {"on", "off"} : SetPrefs(p)
    \/ \E e \in Events : \/ ReceiveWebhook(e) \/ StartEventJob(e)
                         \/ FinishEventJob(e) \/ AckEventJob(e)
    \/ \E g \in Gens : \/ QueueInsight(g) \/ StartInsight(g) \/ GenerateInsight(g)
                       \/ NotifyInsight(g)
    \/ \E j \in WorkerJobs : KillWorkerOf(j)
    \/ \E b \in Replies : LoadProfile(b) \/ SaveProfile(b)
    \/ \E m \in Mailers : NoticeStep(m)

InsSpec == InsInit /\ [][InsNext]_insVars

(* --------------------------------------------------------------- properties -- *)

(* Rows, jobs, counters and preferences keep their types.                      *)
InsTypeOK ==
    /\ tokenSet \in BOOLEAN
    /\ evStatus \in [Events -> {"none", "pending", "processed", "error"}]
    /\ evJob \in [Events -> {"none", "queued", "model", "committed", "done"}]
    /\ delivery \in [WorkerJobs -> 1..MaxDeliveries]
    /\ fromEvent \in [Events -> Nat] /\ unread \in Nat
    /\ gen \in [Gens -> {"idle", "queued", "model", "committed", "done"}]
    /\ reply \in [Replies -> {"idle", "loaded", "done"}]
    /\ asked \in Nat /\ loadedAsked \in [Replies -> Nat]
    /\ notices \in Nat /\ prefs \in {"none", "on", "off"} /\ hits \in Nat
    /\ expiring \in BOOLEAN /\ sent \in Nat /\ spare \in Nat
    /\ mailer \in [Mailers -> {"idle", "counted", "allowed", "send", "sent"}]
    /\ current \in [Mailers -> Nat]
    /\ windows \in 0..MaxWindows /\ digests \in 0..MaxWindows /\ kills \in 0..MaxKills

(* However often arq delivers its job, before or after the commit, a webhook   *)
(* event makes at most one insight, and only an event that is "processed" has  *)
(* made one.                                                                   *)
EventToldOnce ==
    \A e \in Events : /\ fromEvent[e] <= 1
                      /\ fromEvent[e] = 1 => evStatus[e] = "processed"

(* No more emails in a rate window than the limit, however the jobs of several  *)
(* workers interleave, whichever of them die and are delivered again - but for  *)
(* those that this window has not counted: the ones let through while Redis     *)
(* failed (notification.py:49-51), and the ones counted in the window before    *)
(* that were still on their way when it ended.                                  *)
RateIsLimited == sent <= RateLimit + spare

==============================================================================
