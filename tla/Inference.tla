------------------------------- MODULE Inference -------------------------------
(* Model calls of ONE process to ONE model: the health-gated choice between    *)
(* the primary endpoint and NIM (llm/endpoint.py), and the retry loops of      *)
(* call and call_stream (llm/nim.py) under the process-wide semaphore. The     *)
(* breaker is CircuitBreaker, whose operations the calls use.                  *)
EXTENDS Naturals, FiniteSets, FiniteSetsExt

CONSTANTS
    Calls,           \* requests (each is made once)
    Slots,           \* MAX_CONCURRENT_REQUESTS
    MaxRetries,      \* MAX_RETRIES
    Failover,        \* LLM_FAILOVER_ENABLED and LLM_PRIMARY_URL is set
    RedisFails,      \* whether Redis may be unreachable, at any access
    PrimaryOutcomes, \* how the primary may answer
    NimOutcomes,     \* how NIM may answer
    Threshold,       \* _THRESHOLD of the breaker
    MaxExpiries      \* bound: expiries of a health verdict

Proc == "api"
Attempts == MaxRetries + 1
Outcomes == {"ok", "empty", "client_error", "throttled", "unavailable",
             "server_error", "net", "crash", "budget"}
Non200 == {"client_error", "throttled", "unavailable", "server_error"}

ASSUME InferenceAssumption ==
    /\ IsFiniteSet(Calls) /\ Slots \in Nat \ {0} /\ MaxRetries \in Nat /\ MaxExpiries \in Nat
    /\ Threshold \in Nat \ {0}
    /\ Failover \in BOOLEAN /\ RedisFails \subseteq BOOLEAN
    /\ PrimaryOutcomes \subseteq Outcomes /\ NimOutcomes \subseteq Outcomes

VARIABLES
    failures, open, hot, key, keyFor, setting, deleting, \* the breaker
    flaky,    \* Redis may be unreachable in this behaviour
    verdict,  \* llm:primary_healthy in Redis: "none", "up", "down"
    local,    \* _local, used while Redis cannot be reached
    expiries,
    spoilt,   \* history: attempts of each call that demoted the primary
    pc, kind, attempt, url, \* each call: place, function, loop index, endpoint
    answer    \* what the caller got

brk == <<failures, open, hot, key, keyFor, setting, deleting>>
health == <<flaky, verdict, local, expiries, spoilt>>
vars == <<brk, health, pc, kind, attempt, url, answer>>

InFlight(c) == pc[c] \notin {"idle", "done"}
HoldsSlot(c) == pc[c] \in {"pick", "probe", "store", "post", "backoff"}
(* What a call in flight may still report to the breaker.                     *)
Left(c) == IF ~InFlight(c) THEN 0
           ELSE IF pc[c] = "backoff" THEN MaxRetries - attempt[c]
           ELSE Attempts - attempt[c]
Outstanding == [w \in {Proc} |-> MapThenSumSet(Left, Calls)]

Breaker == INSTANCE CircuitBreaker WITH
    Procs <- {Proc}, Restoring <- {}, MaxRestarts <- 0, MaxPending <- 1,
    MaxOutstanding <- Cardinality(Calls) * Attempts,
    outstanding <- Outstanding, probing <- [w \in {Proc} |-> FALSE],
    restarts <- 0

Init ==
    /\ failures = [w \in {Proc} |-> 0] /\ open = [w \in {Proc} |-> FALSE]
    /\ hot = [w \in {Proc} |-> FALSE] /\ key = FALSE /\ keyFor = {}
    /\ setting = [w \in {Proc} |-> 0] /\ deleting = [w \in {Proc} |-> 0]
    /\ flaky \in RedisFails /\ verdict = "none" /\ local = "none" /\ expiries = 0
    /\ spoilt = [c \in Calls |-> 0]
    /\ pc = [c \in Calls |-> "idle"] /\ kind \in [Calls -> {"call", "stream"}]
    /\ attempt = [c \in Calls |-> 0] /\ url = [c \in Calls |-> "none"]
    /\ answer = [c \in Calls |-> "none"] 

Goto(c, l) == pc' = [pc EXCEPT ![c] = l]

------------------------------------------------------------------------------
(* Endpoint selection.                                                        *)

(* _get_cached and _set_cached: Redis when it answers, else the local entry.  *)
Cached == {verdict} \cup IF flaky THEN {local} ELSE {}

SetCached(v) ==
    \/ verdict' = v /\ UNCHANGED local
    \/ flaky /\ local' = v /\ UNCHANGED verdict

(* Mutant: the failure of the primary is not written down.                    *)
MarkNobody(c) ==
    /\ spoilt' = [spoilt EXCEPT ![c] = @ + 1]
    /\ UNCHANGED <<flaky, verdict, local, expiries>>

(* mark_primary_unhealthy, by call c.                                         *)
MarkPrimaryUnhealthy(c) ==
    /\ SetCached("down") /\ spoilt' = [spoilt EXCEPT ![c] = @ + 1]
    /\ UNCHANGED <<flaky, expiries>>

(* pick_chat_url: a cached verdict decides at once; without one the call      *)
(* probes the primary, stores what it saw and acts on it.                     *)
Pick(c) ==
    /\ pc[c] = "pick"
    /\ \/ ~Failover /\ url' = [url EXCEPT ![c] = "nim"] /\ Goto(c, "post")
       \/ /\ Failover
          /\ \E v \in Cached :
                \/ v = "none" /\ Goto(c, "probe") /\ UNCHANGED url
                \/ /\ v # "none" /\ Goto(c, "post")
                   /\ url' = [url EXCEPT ![c] = IF v = "up" THEN "primary" ELSE "nim"]
    /\ UNCHANGED <<brk, health, kind, attempt, answer>>

Probe(c) ==
    /\ pc[c] = "probe" /\ Goto(c, "store")
    /\ \E u \in {"primary", "nim"} : url' = [url EXCEPT ![c] = u]
    /\ UNCHANGED <<brk, health, kind, attempt, answer>>

Store(c) ==
    /\ pc[c] = "store" /\ Goto(c, "post")
    /\ SetCached(IF url[c] = "primary" THEN "up" ELSE "down")
    /\ UNCHANGED <<brk, flaky, expiries, spoilt, kind, attempt, url, answer>>

(* LLM_HEALTH_TTL is over.                                                    *)
ExpireVerdict ==
    /\ expiries < MaxExpiries /\ expiries' = expiries + 1
    /\ \/ verdict # "none" /\ verdict' = "none" /\ UNCHANGED local
       \/ local # "none" /\ local' = "none" /\ UNCHANGED verdict
    /\ UNCHANGED <<brk, flaky, spoilt, pc, kind, attempt, url, answer>>

------------------------------------------------------------------------------
(* The calls.                                                                 *)

Finish(c, a) ==
    /\ Goto(c, "done") /\ answer' = [answer EXCEPT ![c] = a]
    /\ UNCHANGED attempt

(* Mutant: the circuit is not asked.                                          *)
AskNobody(c) ==
    /\ pc[c] = "idle" /\ Goto(c, "queued")
    /\ UNCHANGED <<brk, health, kind, attempt, url, answer>>

(* The circuit is asked before the semaphore: a refused call returns an error *)
(* (call) or raises (call_stream).                                            *)
Ask(c) ==
    /\ pc[c] = "idle"
    /\ \/ /\ Breaker!Blocked(Proc) /\ UNCHANGED brk
          /\ Finish(c, "circuit_open")
       \/ /\ ~Breaker!Blocked(Proc) /\ Breaker!IsOpen(Proc)
          /\ Goto(c, "queued") /\ UNCHANGED <<attempt, answer>>
    /\ UNCHANGED <<health, kind, url>>

Acquire(c) ==
    /\ pc[c] = "queued" /\ Cardinality({d \in Calls : HoldsSlot(d)}) < Slots
    /\ Goto(c, "pick")
    /\ UNCHANGED <<brk, health, kind, attempt, url, answer>>

(* Mutant: a retry that does not use up an attempt.                           *)
RetryForFree(c) ==
    Goto(c, "pick") /\ UNCHANGED <<attempt, answer>>

(* The next iteration of the loop; after the last one call returns "failed".  *)
Retry(c) ==
    IF attempt[c] = MaxRetries THEN Finish(c, "failed")
    ELSE /\ attempt' = [attempt EXCEPT ![c] = @ + 1]
         /\ Goto(c, "pick") /\ UNCHANGED answer

(* Sleeping keeps the slot.                                                   *)
Backoff(c) == Goto(c, "backoff") /\ UNCHANGED <<attempt, answer>>

Wake(c) ==
    /\ pc[c] = "backoff" /\ Retry(c)
    /\ UNCHANGED <<brk, health, kind, url>>

NoMark == UNCHANGED health
Fail(c) == Breaker!RecordFailures(Proc, 1) /\ NoMark

(* How call takes an answer of base_url.                                      *)
CallAnswer(c, o) ==
    \/ /\ o \in Non200 /\ url[c] = "primary"
       /\ MarkPrimaryUnhealthy(c) /\ UNCHANGED brk /\ Retry(c)
    \/ /\ o \in {"server_error", "unavailable"} /\ url[c] = "nim"
       /\ Fail(c) /\ Retry(c)
    \/ /\ o \in {"client_error", "throttled"} /\ url[c] = "nim"
       /\ NoMark /\ UNCHANGED brk /\ Finish(c, "error")
    \/ /\ o = "ok"
       /\ Breaker!RecordSuccess(Proc) /\ NoMark /\ Finish(c, "ok")
    \/ /\ o = "empty"
       /\ Fail(c) /\ Finish(c, "error")
    \/ /\ o = "net" /\ Backoff(c)
       /\ \/ url[c] = "primary" /\ MarkPrimaryUnhealthy(c) /\ UNCHANGED brk
          \/ url[c] = "nim" /\ Fail(c)
    \/ /\ o = "crash"
       /\ Fail(c) /\ Backoff(c)

(* How call_stream takes it: "budget" is a stream cut off by                  *)
(* STREAM_TOTAL_TIMEOUT, "crash" an exception it does not catch. A status     *)
(* that ends it ends it without a word to the caller.                         *)
StreamAnswer(c, o) ==
    \/ /\ o \in Non200 /\ url[c] = "primary"
       /\ MarkPrimaryUnhealthy(c) /\ UNCHANGED brk
       /\ IF attempt[c] < MaxRetries THEN Retry(c) ELSE Finish(c, "silent")
    \/ /\ o \in {"throttled", "unavailable"} /\ url[c] = "nim"
       /\ attempt[c] < MaxRetries
       /\ NoMark /\ UNCHANGED brk /\ Backoff(c)
    \/ /\ o \in Non200 /\ url[c] = "nim"
       /\ o \in {"throttled", "unavailable"} => attempt[c] = MaxRetries
       /\ Fail(c) /\ Finish(c, "silent")
    \/ /\ o \in {"ok", "empty"}
       /\ Breaker!RecordSuccess(Proc) /\ NoMark
       /\ Finish(c, IF o = "ok" THEN "ok" ELSE "silent")
    \/ /\ o = "budget"
       /\ NoMark /\ UNCHANGED brk /\ Finish(c, "budget")
    \/ /\ o = "net"
       /\ \/ url[c] = "primary" /\ MarkPrimaryUnhealthy(c) /\ UNCHANGED brk
          \/ /\ url[c] = "nim" /\ NoMark
             /\ IF attempt[c] = MaxRetries THEN Breaker!RecordFailures(Proc, 1)
                ELSE UNCHANGED brk
       /\ IF attempt[c] < MaxRetries THEN Backoff(c) ELSE Finish(c, "raised")
    \/ /\ o = "crash"
       /\ NoMark /\ UNCHANGED brk /\ Finish(c, "raised")

Answer(c, o) ==
    /\ pc[c] = "post"
    /\ o \in IF url[c] = "primary" THEN PrimaryOutcomes ELSE NimOutcomes
    /\ \/ kind[c] = "call" /\ o # "budget" /\ CallAnswer(c, o)
       \/ kind[c] = "stream" /\ StreamAnswer(c, o)
    /\ UNCHANGED <<kind, url>>

(* The turn that reads the stream stops: the generator is closed.             *)
Abandon(c) ==
    /\ kind[c] = "stream" /\ InFlight(c) /\ Finish(c, "abandoned")
    /\ UNCHANGED <<brk, health, kind, url>>

(* The breaker's clock and its Redis writes.                                  *)
BreakerEnv ==
    /\ UNCHANGED <<health, pc, kind, attempt, url, answer>>
    /\ \/ Breaker!CoolDown(Proc) \/ Breaker!FinishSet(Proc)
       \/ Breaker!FinishDelete(Proc) \/ Breaker!ExpireKey

Step(c) ==
    \/ Ask(c) \/ Acquire(c) \/ Pick(c) \/ Probe(c) \/ Store(c) \/ Wake(c)
    \/ \E o \in Outcomes : Answer(c, o)

Next ==
    \/ \E c \in Calls : Step(c) \/ Abandon(c)
    \/ ExpireVerdict \/ BreakerEnv

(* A call runs on: every wait in it has a timeout, and the waiters of the     *)
(* semaphore are served.                                                      *)
Spec == Init /\ [][Next]_vars /\ \A c \in Calls : WF_vars(Step(c))
------------------------------------------------------------------------------
TypeOK ==
    /\ Breaker!TypeOK
    /\ verdict \in {"none", "up", "down"} /\ local \in {"none", "up", "down"}
    /\ flaky \in BOOLEAN /\ expiries \in 0..MaxExpiries
    /\ spoilt \in [Calls -> 0..Attempts]
    /\ pc \in [Calls -> {"idle", "queued", "pick", "probe", "store", "post",
                         "backoff", "done"}]
    /\ kind \in [Calls -> {"call", "stream"}]
    /\ attempt \in [Calls -> 0..MaxRetries]
    /\ url \in [Calls -> {"none", "primary", "nim"}]
    /\ answer \in [Calls -> {"none", "ok", "error", "failed", "silent", "raised",
                             "budget", "circuit_open", "abandoned"}]

(* The calls use the breaker as its own module describes: none is admitted    *)
(* while it is open, and one that was admitted reports at most one outcome    *)
(* per attempt (nim.py against circuit_breaker.py).                           *)
UsesBreaker == Breaker!Spec

(* Every request gets its answer, however its attempts fail, whoever else     *)
(* holds the slots, and although sleeping calls keep theirs (nim.py).         *)
RequestsFinish == \A c \in Calls : pc[c] = "queued" ~> pc[c] = "done"

(* A failing primary costs a call few attempts, whatever it answers: as many   *)
(* as there are slots whose holders may declare it up with an older probe,    *)
(* once more for every verdict that expires, while Redis answers              *)
(* (endpoint.py, the failover of nim.py). Answers that blame the model, an    *)
(* empty or a malformed 200, do not count: they demote no endpoint.           *)
PrimaryIsLeft ==
    ~flaky => \A c \in Calls : spoilt[c] <= Slots * (expiries + 1)

(* "a primary failure on attempt N is retried against NIM on N+1": a call all *)
(* of whose attempts so far demoted the primary is posting to NIM (nim.py).   *)
NextAttemptIsNim ==
    \A c \in Calls :
        pc[c] = "post" /\ attempt[c] > 0 /\ spoilt[c] = attempt[c] => url[c] = "nim"

==============================================================================
