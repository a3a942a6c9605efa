------------------------------ MODULE Registration ------------------------------
(* Registration behind single-use invites (auth/router.py, auth/invites.py):    *)
(* requests that look for the name, lock and check the invite, flush the users  *)
(* row and commit it together with the mark on the invite, while the invite     *)
(* gate is switched at run time.                                                *)
EXTENDS Naturals, FiniteSets

CONSTANTS
    Names,      \* usernames
    Invites,    \* invitations rows
    Forms,      \* requests to POST /auth/register
    NoInvite,   \* no invite_token in the payload
    NoName,
    Nobody

ASSUME RegistrationAssumption ==
    /\ NoInvite \notin Invites /\ NoName \notin Names /\ Nobody \notin Forms

VARIABLES
    member,   \* names with a committed users row
    via,      \* history: the invite a member has registered with
    invite,   \* each invitation: "none", "valid", "expired"
    usedBy,   \* invitations.used_by_id
    gate,     \* config.REQUIRE_INVITE
    form,     \* each request: where it is
    name,     \* the username it asks for
    token,    \* its invite_token; NoInvite once the gate has let it through without
    rowLock,  \* the request that holds an invitation FOR UPDATE
    nameLock  \* the request with an uncommitted users row of that name

regRows == <<member, via, invite, usedBy>>
regVars == <<regRows, gate, form, name, token, rowLock, nameLock>>

RegInit ==
    /\ member = {} /\ via = [n \in Names |-> NoInvite]
    /\ invite = [i \in Invites |-> "none"] /\ usedBy = [i \in Invites |-> NoName]
    /\ gate \in BOOLEAN /\ form = [f \in Forms |-> "new"]
    /\ name = [f \in Forms |-> NoName] /\ token = [f \in Forms |-> NoInvite]
    /\ rowLock = [i \in Invites |-> Nobody] /\ nameLock = [n \in Names |-> Nobody]

(* POST /auth/invite, and the seven days of an invitation.                     *)
CreateInvite(i) ==
    /\ invite[i] = "none" /\ invite' = [invite EXCEPT ![i] = "valid"]
    /\ UNCHANGED <<member, via, usedBy, gate, form, name, token, rowLock, nameLock>>
ExpireInvite(i) ==
    /\ invite[i] = "valid" /\ invite' = [invite EXCEPT ![i] = "expired"]
    /\ UNCHANGED <<member, via, usedBy, gate, form, name, token, rowLock, nameLock>>

(* POST /admin/env/reload.                                                     *)
ReloadGate ==
    /\ gate' = ~ gate
    /\ UNCHANGED <<regRows, form, name, token, rowLock, nameLock>>

(* The end of a request: commit or rollback releases what it has locked.       *)
Leave(f, result) ==
    /\ form' = [form EXCEPT ![f] = result]
    /\ rowLock' = [i \in Invites |-> IF rowLock[i] = f THEN Nobody ELSE rowLock[i]]
    /\ nameLock' = [n \in Names |-> IF nameLock[n] = f THEN Nobody ELSE nameLock[n]]

CheckName(f, n, i) ==
    /\ form[f] = "new"
    /\ name' = [name EXCEPT ![f] = n] /\ token' = [token EXCEPT ![f] = i]
    /\ form' = [form EXCEPT ![f] = IF n \in member THEN "refused" ELSE "gate"]
    /\ UNCHANGED <<regRows, gate, rowLock, nameLock>>

(* The gate is read when the request gets there; an open gate ignores tokens.  *)
PassOpenGate(f) ==
    /\ form[f] = "gate" /\ ~ gate
    /\ form' = [form EXCEPT ![f] = "insert"] /\ token' = [token EXCEPT ![f] = NoInvite]
    /\ UNCHANGED <<regRows, gate, name, rowLock, nameLock>>

(* SELECT ... FOR UPDATE waits for the row, then the checks see its last       *)
(* committed version.                                                          *)
Valid(f) ==
    token[f] # NoInvite /\ invite[token[f]] = "valid" /\ usedBy[token[f]] = NoName
LockInviteNot(f) ==
    /\ form[f] = "gate" /\ gate
    /\ IF Valid(f)
       THEN /\ form' = [form EXCEPT ![f] = "insert"] /\ UNCHANGED <<rowLock, nameLock>>
       ELSE Leave(f, "refused")
    /\ UNCHANGED <<regRows, gate, name, token>>
LockInvite(f) ==
    /\ form[f] = "gate" /\ gate
    /\ IF Valid(f)
       THEN /\ rowLock[token[f]] = Nobody
            /\ rowLock' = [rowLock EXCEPT ![token[f]] = f]
            /\ form' = [form EXCEPT ![f] = "insert"] /\ UNCHANGED nameLock
       ELSE Leave(f, "refused")
    /\ UNCHANGED <<regRows, gate, name, token>>

(* The flush of the users row waits for an uncommitted row of that name and    *)
(* fails on a committed one.                                                   *)
InsertUser(f) ==
    /\ form[f] = "insert" /\ nameLock[name[f]] = Nobody
    /\ IF name[f] \in member
       THEN Leave(f, "failed")
       ELSE /\ nameLock' = [nameLock EXCEPT ![name[f]] = f]
            /\ form' = [form EXCEPT ![f] = "commit"] /\ UNCHANGED rowLock
    /\ UNCHANGED <<regRows, gate, name, token>>

(* The users row and the mark on the invite are one transaction.               *)
CommitUser(f) ==
    /\ form[f] = "commit"
    /\ \/ /\ member' = member \cup {name[f]}
          /\ via' = [via EXCEPT ![name[f]] = token[f]]
          /\ usedBy' = IF token[f] = NoInvite THEN usedBy
                       ELSE [usedBy EXCEPT ![token[f]] = name[f]]
          /\ Leave(f, "registered")
       \/ Leave(f, "failed") /\ UNCHANGED <<member, via, usedBy>>
    /\ UNCHANGED <<invite, gate, name, token>>

RegNext ==
    \/ \E i \in Invites : CreateInvite(i) \/ ExpireInvite(i)
    \/ \E f \in Forms :
          \/ \E n \in Names, i \in Invites \cup {NoInvite} : CheckName(f, n, i)
          \/ PassOpenGate(f) \/ LockInvite(f) \/ InsertUser(f) \/ CommitUser(f)
    \/ ReloadGate

RegSpec == RegInit /\ [][RegNext]_regVars

(* Members, invitations and requests keep their types.                         *)
RegTypeOK ==
    /\ member \subseteq Names /\ via \in [Names -> Invites \cup {NoInvite}]
    /\ invite \in [Invites -> {"none", "valid", "expired"}]
    /\ usedBy \in [Invites -> Names \cup {NoName}] /\ gate \in BOOLEAN
    /\ form \in [Forms -> {"new", "gate", "insert", "commit", "registered", "refused",
                           "failed"}]
    /\ name \in [Forms -> Names \cup {NoName}]
    /\ token \in [Forms -> Invites \cup {NoInvite}]
    /\ rowLock \in [Invites -> Forms \cup {Nobody}]
    /\ nameLock \in [Names -> Forms \cup {Nobody}]

(* An invite admits one member: however registrations with one token           *)
(* interleave, at most one name was registered with it, and the invitation     *)
(* names that one.                                                             *)
InviteOnce ==
    \A n \in Names : via[n] # NoInvite => n \in member /\ usedBy[via[n]] = n

==============================================================================
