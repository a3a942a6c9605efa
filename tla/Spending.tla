-------------------------------- MODULE Spending --------------------------------
(* What the demo accounts may spend: the cost cap that is checked before a turn *)
(* (api/chat/helpers.py), the ledger of assistant messages that turns and the   *)
(* stateless endpoints write after it (api/chat/stream.py, usage_ledger.py),    *)
(* minting and reaping of demo accounts (auth/router.py, services/demo.py) and  *)
(* the administrator's limit (api/admin/users.py).                              *)
(*                                                                              *)
(* The ledger is the messages table: deleting a conversation or an account      *)
(* deletes what was spent in it. An answer costs one unit. A window is a number *)
(* of days, or all time, of which only the order matters: 1 is the shortest.    *)
EXTENDS Naturals, FiniteSets, FiniteSetsExt

CONSTANTS
    Accounts,    \* demo_* accounts
    Turns,       \* requests to a chat endpoint
    Logins,      \* logins as the demo seed account
    Caps,        \* values of cost_limit_usd
    NoCap,       \* cost_limit_usd NULL
    DemoCap,     \* DEMO_PER_ACCOUNT_CAP_USD
    PoolCap,     \* DEMO_GLOBAL_CAP_USD
    Longest,     \* the longest window, NULL (all time)
    DemoWindow,  \* DEMO_PER_ACCOUNT_WINDOW_DAYS
    PoolWindow,  \* DEMO_GLOBAL_WINDOW_HOURS
    MaxLive,     \* DEMO_MAX_LIVE_ACCOUNTS; 0 is no bound
    NoSum,       \* no demo:pool:spend in Redis
    NoAccount

Windows == 1..Longest

ASSUME SpendingAssumption ==
    /\ Longest \in Nat \ {0} /\ DemoWindow \in Windows /\ PoolWindow \in Windows
    /\ Caps \subseteq Nat /\ DemoCap \in Caps /\ NoCap \notin Caps
    /\ PoolCap \in Nat /\ MaxLive \in Nat /\ NoSum \notin Nat /\ NoAccount \notin Accounts
    /\ IsFiniteSet(Turns)

VARIABLES
    row,       \* the users row: "none", "live", "purged"
    cap,       \* users.cost_limit_usd
    window,    \* users.cost_window_days
    recent,    \* a message of the account is younger than DEMO_IDLE_TTL_HOURS
    spent,     \* cost of the account's assistant messages that lie in each window
    poolSum,   \* demo:pool:spend
    login,     \* each login
    turn,      \* each turn: where it is
    payer,     \* its account
    kind,      \* "stored" (a chat message or a row of the stateless ledger), "compare"
    listed,    \* accounts reap_idle_demos has read as idle and not yet purged
    allowed,   \* history: the greatest cap under which a turn was admitted
    uncapped,  \* history: a turn was admitted without a cap
    shortest,  \* history: the shortest window in which a turn was admitted
    peak       \* history: most turns of the account in flight at once

ledger == <<row, cap, window, recent, spent>>
turns == <<turn, payer, kind>>
past == <<allowed, uncapped, shortest, peak>>
spendVars == <<ledger, poolSum, login, turns, listed, past>>

InFlight(u) == {t \in Turns : payer[t] = u /\ turn[t] \in {"model", "record"}}
LiveAccounts == {u \in Accounts : row[u] = "live"}
NewAccount == CHOOSE u \in Accounts : row[u] = "none"
PoolTotal == FoldSet(LAMBDA u, n : spent[u][PoolWindow] + n, 0, LiveAccounts)
AtLeast(a, b) == IF a >= b THEN a ELSE b
AtMostOf(a, b) == IF a <= b THEN a ELSE b
Nothing == [w \in Windows |-> 0]
(* A longer window holds whatever a shorter one does.                           *)
Nested(s) == \A v, w \in Windows : v <= w => s[v] <= s[w]

SpendInit ==
    /\ row = [u \in Accounts |-> "none"] /\ cap = [u \in Accounts |-> NoCap]
    /\ window = [u \in Accounts |-> Longest]
    /\ recent = [u \in Accounts |-> FALSE] /\ spent = [u \in Accounts |-> Nothing]
    /\ poolSum = NoSum /\ login = [l \in Logins |-> "new"]
    /\ turn = [t \in Turns |-> "new"] /\ payer = [t \in Turns |-> NoAccount]
    /\ kind = [t \in Turns |-> "stored"] /\ listed = {}
    /\ allowed = [u \in Accounts |-> 0] /\ uncapped = [u \in Accounts |-> FALSE]
    /\ shortest = [u \in Accounts |-> Longest] /\ peak = [u \in Accounts |-> 0]

(* pool_spend_usd: the cached sum, or a new one that is then cached, unless    *)
(* Redis fails.                                                                *)
PoolSpend(sum) ==
    \/ poolSum # NoSum /\ sum = poolSum /\ UNCHANGED poolSum
    \/ sum = PoolTotal /\ poolSum' \in {sum, poolSum}
ExpireSum ==
    /\ poolSum # NoSum /\ poolSum' = NoSum
    /\ UNCHANGED <<ledger, login, turns, listed, past>>

(* ---------------------------------------------------------- demo accounts -- *)

(* POST /auth/token as the seed: the pool, the number of accounts, the insert. *)
CheckLogin(l) ==
    /\ login[l] = "new"
    /\ \E sum \in 0..PoolTotal \cup ({poolSum} \ {NoSum}) :
          /\ PoolSpend(sum)
          /\ login' = [login EXCEPT ![l] =
                IF sum >= PoolCap \/ (MaxLive > 0 /\ Cardinality(LiveAccounts) >= MaxLive)
                THEN "refused" ELSE "minting"]
    /\ UNCHANGED <<ledger, turns, listed, past>>
Mint(l, u) ==
    /\ login[l] = "minting" /\ login' = [login EXCEPT ![l] = "done"]
    /\ row[u] = "none" /\ u = NewAccount
    /\ row' = [row EXCEPT ![u] = "live"] /\ cap' = [cap EXCEPT ![u] = DemoCap]
    /\ window' = [window EXCEPT ![u] = DemoWindow]
    /\ recent' = [recent EXCEPT ![u] = TRUE]
    /\ UNCHANGED <<spent, poolSum, turns, listed, past>>

(* Two hours without a message.                                                *)
FallIdle(u) ==
    /\ row[u] = "live" /\ recent[u] /\ recent' = [recent EXCEPT ![u] = FALSE]
    /\ UNCHANGED <<row, cap, window, spent, poolSum, login, turns, listed, past>>

(* reap_idle_demos reads the accounts with their last activity once, and then  *)
(* purges the idle ones one by one, whatever they do meanwhile.                *)
ReapRead ==
    /\ listed = {} /\ listed' = {u \in LiveAccounts : ~ recent[u]} /\ listed' # {}
    /\ UNCHANGED <<ledger, poolSum, login, turns, past>>
PurgeDemoUser(u) ==
    /\ u \in listed /\ listed' = listed \ {u}
    /\ row' = [row EXCEPT ![u] = "purged"] /\ spent' = [spent EXCEPT ![u] = Nothing]
    /\ recent' = [recent EXCEPT ![u] = FALSE]
    /\ UNCHANGED <<cap, window, poolSum, login, turns, past>>

(* ------------------------------------------------------------------ turns -- *)

Move(t, there) == turn' = [turn EXCEPT ![t] = there]

(* _check_cost_cap, first part: the pool of all demo accounts.                 *)
CheckPool(t, u, k) ==
    /\ turn[t] = "new" /\ row[u] = "live"
    /\ payer' = [payer EXCEPT ![t] = u] /\ kind' = [kind EXCEPT ![t] = k]
    /\ \E sum \in 0..PoolTotal \cup ({poolSum} \ {NoSum}) :
          PoolSpend(sum) /\ Move(t, IF sum >= PoolCap THEN "refused" ELSE "cap")
    /\ UNCHANGED <<ledger, login, listed, past>>

(* ... second part: what the account has spent in its window against its limit. *)
Counted(u) == spent[u][window[u]]
AdmitTurn(t) ==
    /\ Move(t, "model")
    /\ peak' = [peak EXCEPT ![payer[t]] =
                   AtLeast(@, Cardinality(InFlight(payer[t])) + 1)]
    /\ IF cap[payer[t]] = NoCap
       THEN uncapped' = [uncapped EXCEPT ![payer[t]] = TRUE] /\ UNCHANGED <<allowed, shortest>>
       ELSE /\ allowed' = [allowed EXCEPT ![payer[t]] = AtLeast(@, cap[payer[t]])]
            /\ shortest' = [shortest EXCEPT ![payer[t]] = AtMostOf(@, window[payer[t]])]
            /\ UNCHANGED uncapped
CheckCapAfter(t) ==
    /\ turn[t] = "cap"
    /\ IF cap[payer[t]] = NoCap \/ Counted(payer[t]) <= cap[payer[t]]
       THEN AdmitTurn(t)
       ELSE Move(t, "refused") /\ UNCHANGED past
    /\ UNCHANGED <<ledger, poolSum, login, payer, kind, listed>>
CheckCap(t) ==
    /\ turn[t] = "cap"
    /\ IF cap[payer[t]] = NoCap \/ Counted(payer[t]) < cap[payer[t]]
       THEN AdmitTurn(t)
       ELSE Move(t, "refused") /\ UNCHANGED past
    /\ UNCHANGED <<ledger, poolSum, login, payer, kind, listed>>

(* The models answer, or the answer comes from the cache, or nothing comes.    *)
Answer(t) ==
    /\ turn[t] = "model"
    /\ Move(t, "record") \/ Move(t, "done")
    /\ UNCHANGED <<ledger, poolSum, login, payer, kind, listed, past>>

(* The message of the turn or the row of the stateless ledger is committed; a  *)
(* comparison stores nothing. The commit may fail, and does when the account   *)
(* is gone.                                                                    *)
RecordUsage(t) ==
    /\ turn[t] = "record" /\ Move(t, "done")
    /\ \/ /\ kind[t] # "compare" /\ row[payer[t]] = "live"
          /\ spent' = [spent EXCEPT ![payer[t]] = [w \in Windows |-> @[w] + 1]]
          /\ recent' = [recent EXCEPT ![payer[t]] = TRUE]
       \/ UNCHANGED <<spent, recent>>
    /\ UNCHANGED <<row, cap, window, poolSum, login, payer, kind, listed, past>>

(* Messages grow older than a window, or their conversation is deleted.        *)
DropMessages(u) ==
    /\ \E less \in [Windows -> 0..spent[u][Longest]] :
          /\ Nested(less) /\ \A w \in Windows : less[w] <= spent[u][w]
          /\ less # spent[u] /\ spent' = [spent EXCEPT ![u] = less]
    /\ UNCHANGED <<row, cap, window, recent, poolSum, login, turns, listed, past>>

(* PATCH /admin/users/{id}/cost-limit: the limit and its window together; an    *)
(* account without a limit has no window. A longer window counts again what had *)
(* left the shorter one.                                                        *)
SetCostLimit(u, c, w) ==
    /\ row[u] = "live" /\ <<cap[u], window[u]>> # <<c, w>> /\ (c = NoCap => w = Longest)
    /\ cap' = [cap EXCEPT ![u] = c] /\ window' = [window EXCEPT ![u] = w]
    /\ UNCHANGED <<row, recent, spent, poolSum, login, turns, listed, past>>

SpendNext ==
    \/ \E l \in Logins : CheckLogin(l) \/ \E u \in Accounts : Mint(l, u)
    \/ \E u \in Accounts :
          \/ FallIdle(u) \/ PurgeDemoUser(u) \/ DropMessages(u)
          \/ \E c \in Caps \cup {NoCap}, w \in Windows : SetCostLimit(u, c, w)
    \/ \E t \in Turns :
          \/ \E u \in Accounts, k \in {"stored", "compare"} : CheckPool(t, u, k)
          \/ CheckCap(t) \/ Answer(t) \/ RecordUsage(t)
    \/ ExpireSum \/ ReapRead

SpendSpec == SpendInit /\ [][SpendNext]_spendVars

(* Rows, turns and sums keep their types.                                      *)
SpendTypeOK ==
    /\ row \in [Accounts -> {"none", "live", "purged"}]
    /\ cap \in [Accounts -> Caps \cup {NoCap}] /\ window \in [Accounts -> Windows]
    /\ recent \in [Accounts -> BOOLEAN]
    /\ spent \in [Accounts -> [Windows -> Nat]] /\ poolSum \in Nat \cup {NoSum}
    /\ login \in [Logins -> {"new", "minting", "done", "refused"}]
    /\ turn \in [Turns -> {"new", "cap", "model", "record", "done", "refused"}]
    /\ payer \in [Turns -> Accounts \cup {NoAccount}]
    /\ kind \in [Turns -> {"stored", "compare"}]
    /\ listed \subseteq Accounts
    /\ allowed \in [Accounts -> Nat] /\ uncapped \in [Accounts -> BOOLEAN]
    /\ shortest \in [Accounts -> Windows] /\ peak \in [Accounts -> Nat]

(* The cap is checked before a turn and charged after it, so turns that run    *)
(* together overshoot it, but by no more than were ever in flight at once:     *)
(* what the ledger holds of the shortest window a turn was admitted in, with   *)
(* what is still to be recorded, stays below the greatest cap a turn was       *)
(* admitted under plus that number, through limits and windows that change,    *)
(* messages that disappear and answers that are never recorded. Of a longer    *)
(* window nothing of the kind holds: what left the shorter one counts again    *)
(* when the window is widened, and may lie far above the cap.                  *)
CapIsSoft ==
    \A u \in Accounts : ~ uncapped[u] =>
        spent[u][shortest[u]] + Cardinality(InFlight(u))
            <= AtLeast(allowed[u], 1) - 1 + peak[u]

==============================================================================
