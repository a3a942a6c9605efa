---------------------------- MODULE CircuitBreaker ----------------------------
(* The circuit breaker of ONE model (llm/circuit_breaker.py). Every process    *)
(* has its own counters in memory; the API process also restores the breaker   *)
(* from the Redis key cb:open:<model> when it starts. The key is shared, and   *)
(* it is written and deleted by calls that finish later than the decision.     *)
(* Models do not share state, so one model is the whole problem.               *)
EXTENDS Naturals

CONSTANTS
    Procs,       \* processes that call models (the API, the arq worker)
    Restoring,   \* those that run restore_circuit_state and the startup probe
    Threshold,   \* _THRESHOLD
    Attempts,    \* outcomes one admitted call may report (MAX_RETRIES + 1)
    MaxOutstanding, \* bound: outcomes outstanding per process
    MaxPending,  \* bound: Redis writes of one kind in flight per process
    MaxRestarts  \* bound: restarts in a behaviour

ASSUME BreakerAssumption ==
    /\ Restoring \subseteq Procs
    /\ Threshold \in Nat \ {0} /\ Attempts \in Nat \ {0}
    /\ MaxOutstanding \in Nat /\ MaxPending \in Nat \ {0} /\ MaxRestarts \in Nat

VARIABLES
    failures,    \* _failures[model], as far as it matters (at most Threshold)
    open,        \* model \in _open
    hot,         \* _open_time[model] is at most _COOLDOWN ago
    key,         \* the Redis key exists
    keyFor,      \* processes whose SET for their present trip succeeded
    setting,     \* SETs in flight
    deleting,    \* DELETE tasks not yet run
    outstanding, \* outcomes the calls in flight may still report
    probing,     \* the process is starting and has not probed the model yet
    restarts

brk == <<failures, open, hot, key, keyFor, setting, deleting>>
vars == <<brk, outstanding, probing, restarts>>

Init ==
    /\ failures = [w \in Procs |-> 0] /\ open = [w \in Procs |-> FALSE]
    /\ hot = [w \in Procs |-> FALSE] /\ key = FALSE /\ keyFor = {}
    /\ setting = [w \in Procs |-> 0] /\ deleting = [w \in Procs |-> 0]
    /\ outstanding = [w \in Procs |-> 0]
    /\ probing = [w \in Procs |-> w \in Restoring]
    /\ restarts = 0

AtMost(n, k) == IF n > k THEN k ELSE n
Blocked(w) == open[w] /\ hot[w]

(* Mutant: the cooldown closes the circuit and keeps the count.               *)
IsOpenKeepsCount(w) ==
    /\ open' = [open EXCEPT ![w] = Blocked(w)]
    /\ UNCHANGED <<failures, hot, key, keyFor, setting, deleting>>

(* is_open, whose answer is Blocked(w): the first question after the cooldown *)
(* closes the circuit and clears the count.                                   *)
IsOpen(w) ==
    /\ open' = [open EXCEPT ![w] = Blocked(w)]
    /\ failures' = [failures EXCEPT ![w] = IF open[w] /\ ~hot[w] THEN 0 ELSE @]
    /\ UNCHANGED <<hot, key, keyFor, setting, deleting>>

(* n calls of record_failure: every one at or above the threshold opens the   *)
(* circuit, restarts the cooldown and sends a SET.                            *)
RecordFailures(w, n) ==
    LET f == AtMost(failures[w] + n, Threshold)
    IN  /\ failures' = [failures EXCEPT ![w] = f]
        /\ IF f = Threshold
           THEN /\ open' = [open EXCEPT ![w] = TRUE]
                /\ hot' = [hot EXCEPT ![w] = TRUE]
                /\ keyFor' = keyFor \ {w}
                /\ setting' = [setting EXCEPT ![w] = AtMost(@ + 1, MaxPending)]
           ELSE UNCHANGED <<open, hot, keyFor, setting>>
        /\ UNCHANGED <<key, deleting>>

(* record_success: closed at once; the DELETE is a task of its own.           *)
RecordSuccess(w) ==
    /\ failures' = [failures EXCEPT ![w] = 0]
    /\ open' = [open EXCEPT ![w] = FALSE]
    /\ keyFor' = keyFor \ {w}
    /\ deleting' = [deleting EXCEPT ![w] = AtMost(@ + 1, MaxPending)]
    /\ UNCHANGED <<hot, key, setting>>

------------------------------------------------------------------------------
(* GET /breakers asks and calls nothing.                                      *)
Look(w) ==
    /\ open[w] /\ IsOpen(w)
    /\ UNCHANGED <<outstanding, probing, restarts>>

(* A call that is not refused may report up to Attempts outcomes; retries do  *)
(* not ask the breaker again.                                                 *)
Admit(w) ==
    /\ ~probing[w] /\ ~Blocked(w)
    /\ outstanding[w] + Attempts <= MaxOutstanding
    /\ IsOpen(w)
    /\ outstanding' = [outstanding EXCEPT ![w] = @ + Attempts]
    /\ UNCHANGED <<probing, restarts>>

(* An attempt ends, and perhaps its call with it.                             *)
Attempt(w) ==
    /\ \E n \in 1..outstanding[w] :
          outstanding' = [outstanding EXCEPT ![w] = @ - n]
    /\ RecordFailures(w, 1) \/ RecordSuccess(w) \/ UNCHANGED brk
    /\ UNCHANGED <<probing, restarts>>

(* probe_models_on_startup: ok, or Threshold failures at once (_pre_trip).    *)
StartupProbe(w) ==
    /\ probing[w] /\ probing' = [probing EXCEPT ![w] = FALSE]
    /\ UNCHANGED brk \/ RecordFailures(w, Threshold)
    /\ UNCHANGED <<outstanding, restarts>>

(* A SET reaches Redis (with a fresh TTL), or fails, which nobody is told.    *)
FinishSet(w) ==
    /\ setting[w] > 0 /\ setting' = [setting EXCEPT ![w] = @ - 1]
    /\ \/ key' = TRUE /\ keyFor' = IF open[w] THEN keyFor \cup {w} ELSE keyFor
       \/ UNCHANGED <<key, keyFor>>
    /\ UNCHANGED <<failures, open, hot, deleting, outstanding, probing, restarts>>

FinishDelete(w) ==
    /\ deleting[w] > 0 /\ deleting' = [deleting EXCEPT ![w] = @ - 1]
    /\ key' \in {FALSE, key}
    /\ UNCHANGED <<failures, open, hot, keyFor, setting, outstanding, probing, restarts>>

CoolDown(w) ==
    /\ hot[w] /\ hot' = [hot EXCEPT ![w] = FALSE]
    /\ UNCHANGED <<failures, open, key, keyFor, setting, deleting,
                   outstanding, probing, restarts>>

(* The TTL equals the cooldown and starts later: the key outlives the trips   *)
(* it was set for.                                                            *)
ExpireKey ==
    /\ key /\ \A w \in keyFor : ~hot[w]
    /\ key' = FALSE
    /\ UNCHANGED <<failures, open, hot, keyFor, setting, deleting,
                   outstanding, probing, restarts>>

(* The process dies and starts again; restore_circuit_state starts a new      *)
(* cooldown for a model whose key it finds.                                   *)
Restart(w) ==
    LET restored == key /\ w \in Restoring
    IN  /\ restarts < MaxRestarts /\ restarts' = restarts + 1
        /\ failures' = [failures EXCEPT ![w] = 0]
        /\ open' = [open EXCEPT ![w] = restored]
        /\ hot' = [hot EXCEPT ![w] = restored]
        /\ keyFor' = keyFor \ {w}
        /\ setting' = [setting EXCEPT ![w] = 0]
        /\ deleting' = [deleting EXCEPT ![w] = 0]
        /\ outstanding' = [outstanding EXCEPT ![w] = 0]
        /\ probing' = [probing EXCEPT ![w] = w \in Restoring]
        /\ UNCHANGED key

Next ==
    \/ ExpireKey
    \/ \E w \in Procs : \/ Look(w) \/ Admit(w) \/ Attempt(w) \/ StartupProbe(w)
                        \/ FinishSet(w) \/ FinishDelete(w) \/ CoolDown(w)
                        \/ Restart(w)

Spec == Init /\ [][Next]_vars
------------------------------------------------------------------------------
TypeOK ==
    /\ failures \in [Procs -> 0..Threshold]
    /\ open \in [Procs -> BOOLEAN] /\ hot \in [Procs -> BOOLEAN]
    /\ key \in BOOLEAN /\ keyFor \subseteq Procs
    /\ setting \in [Procs -> 0..MaxPending]
    /\ deleting \in [Procs -> 0..MaxPending]
    /\ outstanding \in [Procs -> Nat]
    /\ probing \in [Procs -> BOOLEAN] /\ restarts \in Nat

(* A closed circuit always counts from below the threshold: whatever closed   *)
(* it (a success, the cooldown, a restart), one more failure does not open it *)
(* again unless the run of failures is complete (is_open, record_failure).    *)
ClosedBelowThreshold == \A w \in Procs : ~open[w] => failures[w] < Threshold

==============================================================================
