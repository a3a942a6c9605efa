------------------------------ MODULE Integrations ------------------------------
(* The external sources of one user and one connector type: the API that edits  *)
(* them and runs the OAuth flow (api/integrations.py), the sync job of the arq  *)
(* worker (services/arq_worker.py), and the Drive, Calendar and Gmail tools     *)
(* that load, refresh and sometimes condemn the stored credentials              *)
(* (llm/tools/_google_creds.py, calendar.py, drive.py, gmail.py).               *)
(*                                                                              *)
(* Nothing locks a source. A session loads the row, talks to the provider, and  *)
(* then writes the columns it has changed: the status only where it differs     *)
(* from what was loaded, the credentials as a whole.                            *)
EXTENDS Naturals, FiniteSets

CONSTANTS
    Sources,     \* ids of external_sources rows (resource_id NULL)
    Grants,      \* what the provider may grant, one for each OAuth flow
    Lasting,     \* grants whose token never expires (GitHub, Notion)
    Unrefreshable, \* grants that expire and came without a refresh token
    Jobs, Tools, \* syncs of the worker and uses of a tool
    NoGrant,     \* no credentials
    NoSource,
    MaxTries     \* _MAX_TRIES

ASSUME IntegrationsAssumption ==
    /\ Lasting \subseteq Grants /\ Unrefreshable \subseteq Grants \ Lasting
    /\ NoGrant \notin Grants /\ NoSource \notin Sources
    /\ Jobs \cap Tools = {} /\ MaxTries \in Nat \ {0}

VARIABLES
    srcStatus,  \* external_sources.status; "none" before, "gone" after the row
    cred,       \* the grant in external_sources.credentials
    fresh,      \* the stored access token has not expired
    flow,       \* each OAuth flow
    target,     \* the row its callback has selected
    revoked,    \* grants the provider has withdrawn
    place,      \* each job and tool: where it is
    about,      \* the source it works on
    sawActive,  \* it has loaded the row with status "active"
    seenCred,   \* the credentials it has loaded
    tries,      \* job_try
    refused,    \* history: grants whose refresh was answered 401 or 403 to a job
    disturbed   \* history: sources changed, or tokens expired, under a session

grantVars == <<flow, target, revoked>>
srcVars == <<srcStatus, cred, fresh>>
session == <<about, sawActive, seenCred>>
history == <<refused, disturbed>>
intVars == <<srcVars, grantVars, place, session, tries, history>>

Actors == Jobs \cup Tools
SrcStatuses == {"pending", "active", "paused", "error", "needs_reauth"}
IsRow(s) == srcStatus[s] \in SrcStatuses
Rows == {s \in Sources : IsRow(s)}
Busy(s) == \E a \in Actors : about[a] = s /\ place[a] \notin {"idle", "queued", "done"}
(* refresh_tokens has something to work with.                                  *)
Refreshable(g) == g \in Grants \ (Lasting \cup Unrefreshable)
(* Ids are drawn at random: which unused one is taken makes no difference.     *)
NewSource == CHOOSE s \in Sources : srcStatus[s] = "none"
Disturb(s) == disturbed' = IF Busy(s) THEN disturbed \cup {s} ELSE disturbed

IntInit ==
    /\ srcStatus = [s \in Sources |-> "none"] /\ cred = [s \in Sources |-> NoGrant]
    /\ fresh = [s \in Sources |-> FALSE]
    /\ flow = [g \in Grants |-> "none"] /\ target = [g \in Grants |-> NoSource]
    /\ revoked = {} /\ place = [a \in Actors |-> "idle"]
    /\ about = [a \in Actors |-> NoSource]
    /\ sawActive = [a \in Actors |-> FALSE] /\ seenCred = [a \in Actors |-> NoGrant]
    /\ tries = [j \in Jobs |-> 1] /\ refused = {} /\ disturbed = {}

(* ------------------------------------------------------------ the rows API -- *)

CreateSource(s) ==
    /\ srcStatus[s] = "none" /\ s = NewSource
    /\ srcStatus' = [srcStatus EXCEPT ![s] = "pending"]
    /\ UNCHANGED <<cred, fresh, grantVars, place, session, tries, history>>

(* PATCH may set either value on a source in any status.                       *)
PatchSource(s, v) ==
    /\ IsRow(s) /\ srcStatus[s] # v
    /\ srcStatus' = [srcStatus EXCEPT ![s] = v]
    /\ Disturb(s)
    /\ UNCHANGED <<cred, fresh, grantVars, place, session, tries, refused>>

DeleteSource(s) ==
    /\ IsRow(s)
    /\ srcStatus' = [srcStatus EXCEPT ![s] = "gone"]
    /\ cred' = [cred EXCEPT ![s] = NoGrant]
    /\ fresh' = [fresh EXCEPT ![s] = FALSE] /\ disturbed' = disturbed \ {s}
    /\ UNCHANGED <<grantVars, place, session, tries, refused>>

(* ----------------------------------------------------------- the OAuth flow -- *)

OauthStart(g) ==
    /\ flow[g] = "none" /\ flow' = [flow EXCEPT ![g] = "issued"]
    /\ UNCHANGED <<srcVars, target, revoked, place, session, tries, history>>

(* The callback consumes the state, which lives for STATE_TTL seconds, and      *)
(* exchanges the code.                                                         *)
ExchangeCode(g) ==
    /\ flow[g] = "issued"
    /\ \/ flow' = [flow EXCEPT ![g] = "granted"]
       \/ flow' = [flow EXCEPT ![g] = "failed"]
    /\ UNCHANGED <<srcVars, target, revoked, place, session, tries, history>>

(* ... and looks for THE row of the connector; two rows make the query raise.  *)
SelectSource(g) ==
    /\ flow[g] = "granted"
    /\ \/ /\ Cardinality(Rows) > 1
          /\ flow' = [flow EXCEPT ![g] = "failed"] /\ UNCHANGED target
       \/ /\ Cardinality(Rows) <= 1
          /\ flow' = [flow EXCEPT ![g] = "selected"]
          /\ target' = [target EXCEPT ![g] =
                           IF Rows = {} THEN NoSource ELSE CHOOSE s \in Rows : TRUE]
    /\ UNCHANGED <<srcVars, revoked, place, session, tries, history>>

Connect(g, s) ==
    /\ srcStatus' = [srcStatus EXCEPT ![s] = "active"]
    /\ cred' = [cred EXCEPT ![s] = g] /\ fresh' = [fresh EXCEPT ![s] = TRUE]
    /\ disturbed' = IF Busy(s) THEN disturbed \cup {s} ELSE disturbed \ {s}
CommitCallback(g) ==
    /\ flow[g] = "selected"
    /\ \/ \E s \in Sources :
             /\ IF target[g] = NoSource THEN srcStatus[s] = "none" /\ s = NewSource
                ELSE s = target[g] /\ IsRow(s)
             /\ Connect(g, s) /\ flow' = [flow EXCEPT ![g] = "done"]
       \/ /\ target[g] # NoSource /\ ~ IsRow(target[g])
          /\ flow' = [flow EXCEPT ![g] = "failed"]
          /\ UNCHANGED <<srcVars, disturbed>>
    /\ target' = [target EXCEPT ![g] = NoSource]
    /\ UNCHANGED <<revoked, place, session, tries, refused>>

(* ------------------------------------------------------------- the provider -- *)

ExpireToken(s) ==
    /\ fresh[s] /\ cred[s] \notin Lasting
    /\ fresh' = [fresh EXCEPT ![s] = FALSE] /\ Disturb(s)
    /\ UNCHANGED <<srcStatus, cred, grantVars, place, session, tries, refused>>

Revoke(g) ==
    /\ g \notin revoked /\ (\E s \in Sources : cred[s] = g)
    /\ revoked' = revoked \cup {g}
    /\ UNCHANGED <<srcVars, flow, target, place, session, tries, history>>

(* ------------------------------------------- sessions on a source: the parts -- *)

Step(a, there) == place' = [place EXCEPT ![a] = there] /\ UNCHANGED session
(* The session is closed.                                                      *)
End(a) ==
    /\ place' = [place EXCEPT ![a] = "done"]
    /\ about' = [about EXCEPT ![a] = NoSource]
    /\ sawActive' = [sawActive EXCEPT ![a] = FALSE]
    /\ seenCred' = [seenCred EXCEPT ![a] = NoGrant]
(* A commit writes the status unless it equals the one that was loaded.        *)
WriteStatusAlways(a, v) ==
    srcStatus' = IF ~ IsRow(about[a]) THEN srcStatus
                 ELSE [srcStatus EXCEPT ![about[a]] = v]
WriteStatus(a, v) ==
    IF v = "active" /\ sawActive[a] THEN UNCHANGED srcStatus
    ELSE WriteStatusAlways(a, v)

(* Where a session goes with the credentials it has loaded.                    *)
AfterLoad(s) ==
    IF cred[s] = NoGrant THEN "reauth"
    ELSE IF fresh[s] \/ cred[s] \in Lasting THEN "use"
    ELSE IF Refreshable(cred[s]) THEN "refresh" ELSE "reauth"

LoadRow(a, s) ==
    /\ about' = [about EXCEPT ![a] = s]
    /\ sawActive' = [sawActive EXCEPT ![a] = srcStatus[s] = "active"]
    /\ seenCred' = [seenCred EXCEPT ![a] = cred[s]]
    /\ place' = [place EXCEPT ![a] = AfterLoad(s)]

(* The new tokens replace the stored credentials, the refresh token included,  *)
(* whatever is stored by now; on a deleted row the commit raises.              *)
StoreTokens(a) ==
    /\ cred' = [cred EXCEPT ![about[a]] = seenCred[a]]
    /\ fresh' = [fresh EXCEPT ![about[a]] = TRUE]
    /\ disturbed' = IF cred[about[a]] # seenCred[a] THEN disturbed \cup {about[a]}
                    ELSE disturbed
(* A withdrawn grant is a ReauthRequired (400 invalid_grant). The provider may *)
(* also refuse with 401 or 403 what is perfectly good, for the sake of the     *)
(* client or of a quota: the sync job takes that for a dead token, the tools   *)
(* let it raise like any other failure.                                        *)
RefreshTokens(a) ==
    /\ place[a] = "refresh"
    /\ \/ /\ seenCred[a] \notin revoked /\ IsRow(about[a])
          /\ StoreTokens(a) /\ Step(a, "use") /\ UNCHANGED refused
       \/ /\ seenCred[a] \in revoked /\ Step(a, "reauth")
          /\ UNCHANGED <<cred, fresh, history>>
       \/ /\ a \in Jobs /\ refused' = refused \cup {seenCred[a]}
          /\ Step(a, "reauth") /\ UNCHANGED <<cred, fresh, disturbed>>
       \/ Step(a, "failing") /\ UNCHANGED <<cred, fresh, history>>
    /\ UNCHANGED <<srcStatus, grantVars, tries>>

(* ------------------------------------------------------------ the sync job -- *)

Enqueue(j, s) ==
    /\ place[j] = "idle"
    /\ place' = [place EXCEPT ![j] = "queued"] /\ about' = [about EXCEPT ![j] = s]
    /\ UNCHANGED <<srcVars, grantVars, sawActive, seenCred, tries, history>>
(* POST /{id}/sync.                                                            *)
RequestSync(j, s) == srcStatus[s] \in {"active", "pending", "error"} /\ Enqueue(j, s)
(* run_integration_sync, every six hours.                                      *)
ScheduleSync(j, s) == srcStatus[s] = "active" /\ Enqueue(j, s)

StartSync(j) ==
    /\ place[j] = "queued"
    /\ \/ /\ IsRow(about[j])
          /\ LoadRow(j, about[j])
       \/ /\ ~ IsRow(about[j]) /\ End(j)
    /\ UNCHANGED <<srcVars, grantVars, tries, history>>

FinishSync(j) ==
    /\ place[j] = "use"
    /\ \/ IsRow(about[j]) /\ WriteStatus(j, "active") /\ End(j)
       \/ Step(j, "failing") /\ UNCHANGED srcStatus
    /\ UNCHANGED <<cred, fresh, grantVars, tries, history>>

(* No or dead credentials: 401, 403, ReauthRequired.                           *)
NeedsReauth(a) ==
    /\ place[a] = "reauth"
    /\ WriteStatus(a, "needs_reauth") /\ End(a)
    /\ UNCHANGED <<cred, fresh, grantVars, tries, history>>

(* Any other exception: Retry while job_try <= len(_RETRY_DELAYS), then error. *)
FailSyncReauth(j) ==
    /\ place[j] = "failing"
    /\ End(j) /\ WriteStatus(j, "needs_reauth")
    /\ UNCHANGED <<cred, fresh, grantVars, tries, history>>
FailSync(j) ==
    /\ place[j] = "failing"
    /\ \/ /\ IsRow(about[j]) /\ tries[j] < MaxTries
          /\ tries' = [tries EXCEPT ![j] = @ + 1] /\ Step(j, "queued")
          /\ UNCHANGED srcStatus
       \/ /\ IsRow(about[j]) /\ tries[j] >= MaxTries
          /\ WriteStatus(j, "error") /\ End(j) /\ UNCHANGED tries
       \/ /\ ~ IsRow(about[j]) /\ End(j) /\ UNCHANGED <<srcStatus, tries>>
    /\ UNCHANGED <<cred, fresh, grantVars, history>>

(* arq runs the job of a dead worker again, up to max_tries.                   *)
KillSync(j) ==
    /\ place[j] \in {"use", "refresh", "reauth", "failing"}
    /\ \/ /\ tries[j] < MaxTries
          /\ tries' = [tries EXCEPT ![j] = @ + 1] /\ Step(j, "queued")
       \/ tries[j] >= MaxTries /\ End(j) /\ UNCHANGED tries
    /\ UNCHANGED <<srcVars, grantVars, history>>

(* ------------------------------------------------------- tools and endpoints -- *)

(* load_google_credentials takes an active source; it has nothing to say about *)
(* one without credentials.                                                    *)
LoadCredentials(t, s) ==
    /\ place[t] = "idle" /\ srcStatus[s] = "active" /\ cred[s] # NoGrant
    /\ LoadRow(t, s)
    /\ UNCHANGED <<srcVars, grantVars, tries, history>>

(* The provider accepts the token a session holds.                             *)
Accepted(t) ==
    /\ seenCred[t] \notin revoked
    /\ fresh[about[t]] \/ seenCred[t] \in Lasting \/ cred[about[t]] # seenCred[t]

(* A read or a search: 401 condemns the source, anything else is an answer or  *)
(* an exception for the model.                                                 *)
Ask(t) ==
    \/ Accepted(t) /\ End(t)
    \/ ~ Accepted(t) /\ Step(t, "reauth")
    \/ End(t)
CalendarRead(t) == place[t] = "use" /\ Ask(t)
CalendarWrite(t) == place[t] = "use" /\ Ask(t)
DriveCall(t) == place[t] = "use" /\ Ask(t)
(* The details of a listed message are read until one is refused, which ends   *)
(* the list but condemns nothing.                                              *)
GmailCall(t) == place[t] = "use" /\ (Ask(t) \/ End(t))
UseTool(t) ==
    /\ CalendarRead(t) \/ CalendarWrite(t) \/ DriveCall(t) \/ GmailCall(t)
    /\ UNCHANGED <<srcVars, grantVars, tries, history>>

FailTool(t) ==
    /\ place[t] = "failing" /\ End(t)
    /\ UNCHANGED <<srcVars, grantVars, tries, history>>

SyncStep(j) ==
    \/ StartSync(j) \/ RefreshTokens(j) \/ FinishSync(j) \/ NeedsReauth(j)
    \/ FailSync(j)
ToolStep(t) == RefreshTokens(t) \/ UseTool(t) \/ NeedsReauth(t) \/ FailTool(t)

IntNext ==
    \/ \E s \in Sources :
          \/ CreateSource(s) \/ DeleteSource(s) \/ ExpireToken(s)
          \/ \E v \in {"active", "paused"} : PatchSource(s, v)
          \/ \E j \in Jobs : RequestSync(j, s) \/ ScheduleSync(j, s)
          \/ \E t \in Tools : LoadCredentials(t, s)
    \/ \E g \in Grants :
          \/ OauthStart(g) \/ ExchangeCode(g) \/ SelectSource(g) \/ CommitCallback(g)
          \/ Revoke(g)
    \/ \E j \in Jobs : SyncStep(j) \/ KillSync(j)
    \/ \E t \in Tools : ToolStep(t)

IntSpec == IntInit /\ [][IntNext]_intVars

(* ------------------------------------------------------------- properties -- *)

(* Rows, flows, sessions and tries keep their types.                           *)
IntTypeOK ==
    /\ srcStatus \in [Sources -> SrcStatuses \cup {"none", "gone"}]
    /\ cred \in [Sources -> Grants \cup {NoGrant}] /\ fresh \in [Sources -> BOOLEAN]
    /\ flow \in [Grants -> {"none", "issued", "granted", "selected", "done", "failed"}]
    /\ target \in [Grants -> Sources \cup {NoSource}] /\ revoked \subseteq Grants
    /\ place \in [Actors -> {"idle", "queued", "use", "refresh", "reauth", "failing",
                             "done"}]
    /\ about \in [Actors -> Sources \cup {NoSource}]
    /\ sawActive \in [Actors -> BOOLEAN]
    /\ seenCred \in [Actors -> Grants \cup {NoGrant}]
    /\ tries \in [Jobs -> 1..MaxTries]
    /\ refused \subseteq Grants /\ disturbed \subseteq Sources

(* The user is asked to reconnect only after the provider has said no, never    *)
(* for timeouts, server errors, retries or killed workers, whoever saw them: a  *)
(* source is "needs_reauth" only if it has no credentials, if they are          *)
(* withdrawn, if they have expired and cannot be renewed, or if the provider    *)
(* has once answered 401 or 403 to their renewal by a sync job - which condemns *)
(* credentials that may still be good (arq_worker.py:320-326) - unless the row  *)
(* changed or its token expired under a session that was using it.              *)
Hopeless(s) ==
    \/ cred[s] \in {NoGrant} \cup revoked \cup refused
    \/ cred[s] \in Unrefreshable /\ ~ fresh[s]
ReauthIsJustified ==
    \A s \in Sources :
        srcStatus[s] = "needs_reauth" /\ s \notin disturbed => Hopeless(s)

==============================================================================
