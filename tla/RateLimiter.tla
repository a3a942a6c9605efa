------------------------------ MODULE RateLimiter ------------------------------
(* The sliding-window limiter of the chat endpoints (rate_limiter.py and        *)
(* model_limits.py) for one user: a sorted set of timestamps per key in Redis,  *)
(* pruned, extended and counted in one MULTI. A request reads its clock first   *)
(* and reaches Redis later, in any order with the others.                       *)
EXTENDS Naturals, FiniteSets

CONSTANTS
    Requests,    \* requests of the user
    Roles,       \* the models of config.MODELS
    Catalog,     \* the bucket shared by every other model
    Chat,        \* the key of the endpoint's own limit
    RateOf,      \* the limits of the keys (limit(15, 60, "chat"), MODEL_RATE_LIMITS)
    IsDemo,      \* the user is an ephemeral demo account
    Window,      \* seconds, the same for every key
    Lag,         \* bound: seconds from reading the clock to the MULTI
    NoKey,
    MaxTime      \* bound: clock

Keys == Roles \cup {Catalog, Chat}

ASSUME RateLimiterAssumption ==
    /\ Catalog \notin Roles /\ Chat \notin Roles /\ Catalog # Chat /\ NoKey \notin Keys
    /\ RateOf \in [Keys -> Nat] /\ IsDemo \in BOOLEAN
    /\ Window \in Nat /\ Lag \in Nat /\ Lag <= Window /\ MaxTime \in Nat

VARIABLES
    clock,    \* seconds
    redis,    \* Redis answers
    stage,    \* each request: where it is
    bucket,   \* the key of its second check; NoKey where it names no model
    stamp,    \* the time it has read
    zset,     \* the timestamps stored under each key
    touched,  \* when each key's expiry was set last
    passed    \* history: timestamps of the requests each key has let through

rlVars == <<clock, redis, stage, bucket, stamp, zset, touched, passed>>

(* resolve_bucket: a role has its own bucket, every other model shares one, of *)
(* which a demo account gets half.                                             *)
BucketOf(model) == IF model \in Roles THEN model ELSE Catalog
LimitOf(k) ==
    IF k = Catalog /\ IsDemo
    THEN IF RateOf[k] \div 2 >= 1 THEN RateOf[k] \div 2 ELSE 1
    ELSE RateOf[k]

(* A key that was not touched for Window seconds no longer exists.             *)
Stored(k) == IF touched[k] + Window <= clock THEN {} ELSE zset[k]

RlInit ==
    /\ clock = 0 /\ redis = TRUE
    /\ stage = [q \in Requests |-> "new"] /\ bucket = [q \in Requests |-> NoKey]
    /\ stamp = [q \in Requests |-> 0]
    /\ zset = [k \in Keys |-> {}] /\ touched = [k \in Keys |-> 0]
    /\ passed = [k \in Keys |-> {}]

(* The limiter of the route reads the clock; the request may name a model.     *)
Arrive(q, b) ==
    /\ stage[q] = "new"
    /\ stage' = [stage EXCEPT ![q] = "chat"]
    /\ bucket' = [bucket EXCEPT ![q] = b]
    /\ stamp' = [stamp EXCEPT ![q] = clock]
    /\ UNCHANGED <<clock, redis, zset, touched, passed>>

(* check_model_rate has a clock reading of its own.                            *)
AskModel(q) ==
    /\ stage[q] = "through" /\ bucket[q] # NoKey
    /\ stage' = [stage EXCEPT ![q] = "model"]
    /\ stamp' = [stamp EXCEPT ![q] = clock]
    /\ UNCHANGED <<clock, redis, bucket, zset, touched, passed>>

KeyOf(q) == IF stage[q] = "chat" THEN Chat ELSE bucket[q]
Onward(q) == IF stage[q] = "chat" /\ bucket[q] # NoKey THEN "through" ELSE "served"

(* What ZREMRANGEBYSCORE 0 .. now - window leaves.                             *)
Pruned(k, now) == {s \in Stored(k) : s + Window > now}

(* ZREMRANGEBYSCORE, ZADD, ZCARD, EXPIRE in one transaction. A request that is *)
(* refused has been counted all the same.                                      *)
PipelineOnceMore(q, k) ==
    LET left == Pruned(k, stamp[q]) \cup {stamp[q]}
    IN  /\ zset' = [zset EXCEPT ![k] = left]
        /\ touched' = [touched EXCEPT ![k] = clock]
        /\ IF Cardinality(left) > LimitOf(k) + 1
           THEN /\ stage' = [stage EXCEPT ![q] = "refused"] /\ UNCHANGED passed
           ELSE /\ stage' = [stage EXCEPT ![q] = Onward(q)]
                /\ passed' = [passed EXCEPT ![k] = @ \cup {stamp[q]}]
Pipeline(q, k) ==
    LET left == Pruned(k, stamp[q]) \cup {stamp[q]}
    IN  /\ zset' = [zset EXCEPT ![k] = left]
        /\ touched' = [touched EXCEPT ![k] = clock]
        /\ IF Cardinality(left) > LimitOf(k)
           THEN /\ stage' = [stage EXCEPT ![q] = "refused"] /\ UNCHANGED passed
           ELSE /\ stage' = [stage EXCEPT ![q] = Onward(q)]
                /\ passed' = [passed EXCEPT ![k] = @ \cup {stamp[q]}]

Limiter(q) ==
    /\ stage[q] \in {"chat", "model"} /\ redis
    /\ Pipeline(q, KeyOf(q))
    /\ UNCHANGED <<clock, redis, bucket, stamp>>

(* Fail-open: without Redis nobody is counted and nobody is refused.           *)
FailOpen(q) ==
    /\ stage[q] \in {"chat", "model"} /\ ~ redis
    /\ stage' = [stage EXCEPT ![q] = Onward(q)]
    /\ UNCHANGED <<clock, redis, bucket, stamp, zset, touched, passed>>

RedisTurns ==
    /\ redis' = ~ redis
    /\ UNCHANGED <<clock, stage, bucket, stamp, zset, touched, passed>>

(* Time passes while no request is between its clock and Redis for more than   *)
(* Lag seconds.                                                                *)
Tick ==
    /\ clock < MaxTime /\ clock' = clock + 1
    /\ \A q \in Requests : stage[q] \in {"chat", "model"} => clock' <= stamp[q] + Lag
    /\ UNCHANGED <<redis, stage, bucket, stamp, zset, touched, passed>>

RlNext ==
    \/ \E q \in Requests :
          \/ \E b \in {NoKey} \cup {BucketOf(k) : k \in Roles \cup {Catalog}} : Arrive(q, b)
          \/ AskModel(q) \/ Limiter(q) \/ FailOpen(q)
    \/ RedisTurns \/ Tick

RlSpec == RlInit /\ [][RlNext]_rlVars

(* Clock, requests and sorted sets keep their types.                           *)
RlTypeOK ==
    /\ clock \in Nat /\ redis \in BOOLEAN
    /\ stage \in [Requests -> {"new", "chat", "through", "model", "served", "refused"}]
    /\ bucket \in [Requests -> Roles \cup {Catalog, NoKey}]
    /\ stamp \in [Requests -> Nat]
    /\ zset \in [Keys -> SUBSET Nat] /\ touched \in [Keys -> Nat]
    /\ passed \in [Keys -> SUBSET Nat]

(* However requests overtake each other between their clock and Redis, a key   *)
(* lets no more than its limit through in any window, counted in distinct      *)
(* timestamps and shortened by the time a request may take to reach Redis:     *)
(* pruning by another request's later clock and the expiry of the key lose     *)
(* nothing that still counts.                                                  *)
WindowHolds ==
    \A k \in Keys : \A t \in passed[k] :
        Cardinality({s \in passed[k] : s <= t /\ t + Lag < s + Window}) <= LimitOf(k)

==============================================================================
