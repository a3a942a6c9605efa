----------------------------- MODULE AccessProofs ------------------------------
(* Proofs about what decides whether a request goes ahead: registration behind  *)
(* single-use invites, the sliding windows of the limiter, the cost cap, and the *)
(* circuit breaker.                                                              *)
EXTENDS RateLimiter, Registration, Spending, CircuitBreaker, FiniteSetTheorems, TLAPS

------------------------------------------------------------------------------
(* Registration. *)

(* A request past the name check knows its name.                                *)
NamesKnown ==
    \A f \in Forms : form[f] \in {"gate", "insert", "commit"} => name[f] \in Names

(* Whoever is past the gate with an invite holds its row, still unused.         *)
InviteHeld ==
    \A f \in Forms : form[f] \in {"insert", "commit"} /\ token[f] # NoInvite =>
        rowLock[token[f]] = f /\ usedBy[token[f]] = NoName

(* Whoever is about to commit holds the name, still free.                       *)
NameHeld ==
    \A f \in Forms : form[f] = "commit" => nameLock[name[f]] = f /\ name[f] \notin member

RegInv == RegTypeOK /\ NamesKnown /\ InviteHeld /\ NameHeld /\ InviteOnce

(* The initial rows satisfy the invariant.                                      *)
LEMMA RegInitInv == RegInit => RegInv
  BY RegistrationAssumption
     DEF RegInit, RegInv, RegTypeOK, NamesKnown, InviteHeld, NameHeld, InviteOnce

(* The end of a request frees what it held and nothing else.                    *)
LEMMA LeaveFacts ==
    ASSUME RegTypeOK, NEW f \in Forms, NEW result \in {"registered", "refused", "failed"},
           Leave(f, result)
    PROVE  /\ form' \in [Forms -> {"new", "gate", "insert", "commit", "registered",
                                   "refused", "failed"}]
           /\ form'[f] = result
           /\ \A g \in Forms : g # f => form'[g] = form[g]
           /\ rowLock' \in [Invites -> Forms \cup {Nobody}]
           /\ nameLock' \in [Names -> Forms \cup {Nobody}]
           /\ \A i \in Invites : rowLock[i] # f => rowLock'[i] = rowLock[i]
           /\ \A n \in Names : nameLock[n] # f => nameLock'[n] = nameLock[n]
  BY DEF Leave, RegTypeOK

(* Every step of a request keeps the invariant.                                 *)
LEMMA RegNextInv == RegInv /\ [RegNext]_regVars => RegInv'
  <1> SUFFICES ASSUME RegInv, [RegNext]_regVars PROVE RegInv'
    OBVIOUS
  <1> USE RegistrationAssumption DEF RegInv
  <1>1. ASSUME NEW i \in Invites, CreateInvite(i) \/ ExpireInvite(i) PROVE RegInv'
    BY <1>1 DEF CreateInvite, ExpireInvite, RegTypeOK, NamesKnown, InviteHeld, NameHeld,
                InviteOnce
  <1>2. CASE ReloadGate
    BY <1>2 DEF ReloadGate, regRows, RegTypeOK, NamesKnown, InviteHeld, NameHeld, InviteOnce
  <1>3. ASSUME NEW f \in Forms, NEW n \in Names, NEW i \in Invites \cup {NoInvite},
               CheckName(f, n, i)
        PROVE  RegInv'
    BY <1>3 DEF CheckName, regRows, RegTypeOK, NamesKnown, InviteHeld, NameHeld, InviteOnce
  <1>4. ASSUME NEW f \in Forms, PassOpenGate(f) PROVE RegInv'
    BY <1>4 DEF PassOpenGate, regRows, RegTypeOK, NamesKnown, InviteHeld, NameHeld,
                InviteOnce
  <1>5. ASSUME NEW f \in Forms, LockInvite(f) PROVE RegInv'
    <2>1. CASE Valid(f)
      BY <1>5, <2>1 DEF LockInvite, Valid, regRows, RegTypeOK, NamesKnown, InviteHeld,
                        NameHeld, InviteOnce
    <2>2. CASE ~ Valid(f)
      <3>1. Leave(f, "refused") /\ UNCHANGED <<regRows, gate, name, token>>
        BY <1>5, <2>2 DEF LockInvite
      <3> QED
        BY <3>1, LeaveFacts
           DEF regRows, RegTypeOK, NamesKnown, InviteHeld, NameHeld, InviteOnce
    <2> QED BY <2>1, <2>2
  <1>6. ASSUME NEW f \in Forms, InsertUser(f) PROVE RegInv'
    <2>1. CASE name[f] \in member
      <3>1. Leave(f, "failed") /\ UNCHANGED <<regRows, gate, name, token>>
        BY <1>6, <2>1 DEF InsertUser
      <3> QED
        BY <3>1, LeaveFacts
           DEF regRows, RegTypeOK, NamesKnown, InviteHeld, NameHeld, InviteOnce
    <2>2. CASE name[f] \notin member
      BY <1>6, <2>2 DEF InsertUser, regRows, RegTypeOK, NamesKnown, InviteHeld, NameHeld,
                        InviteOnce
    <2> QED BY <2>1, <2>2
  <1>7. ASSUME NEW f \in Forms, CommitUser(f) PROVE RegInv'
    <2>0. UNCHANGED <<invite, gate, name, token>> /\ form[f] = "commit" /\ name[f] \in Names
      BY <1>7 DEF CommitUser, NamesKnown
    <2>1. CASE Leave(f, "failed") /\ UNCHANGED <<member, via, usedBy>>
      BY <2>0, <2>1, LeaveFacts
         DEF RegTypeOK, NamesKnown, InviteHeld, NameHeld, InviteOnce
    <2>2. CASE /\ member' = member \cup {name[f]}
               /\ via' = [via EXCEPT ![name[f]] = token[f]]
               /\ usedBy' = IF token[f] = NoInvite THEN usedBy
                            ELSE [usedBy EXCEPT ![token[f]] = name[f]]
               /\ Leave(f, "registered")
      <3>1. name[f] \notin member /\ nameLock[name[f]] = f
        BY <2>0 DEF NameHeld
      <3>2. token[f] # NoInvite =>
               token[f] \in Invites /\ rowLock[token[f]] = f /\ usedBy[token[f]] = NoName
        BY <2>0 DEF InviteHeld, RegTypeOK
      <3>3. RegTypeOK'
        BY <2>0, <2>2, <3>2, LeaveFacts DEF RegTypeOK
      <3>4. NamesKnown'
        BY <2>0, <2>2, LeaveFacts DEF NamesKnown
      <3>5. InviteHeld'
        BY <2>0, <2>2, <3>2, LeaveFacts DEF InviteHeld, RegTypeOK
      <3>6. NameHeld'
        BY <2>0, <2>2, <3>1, LeaveFacts DEF NameHeld, NamesKnown, RegTypeOK
      <3>7. InviteOnce'
        BY <2>0, <2>2, <3>1, <3>2 DEF InviteOnce, RegTypeOK
      <3> QED BY <3>3, <3>4, <3>5, <3>6, <3>7
    <2> QED BY <1>7, <2>1, <2>2 DEF CommitUser
  <1>8. CASE UNCHANGED regVars
    BY <1>8 DEF regVars, regRows, RegTypeOK, NamesKnown, InviteHeld, NameHeld, InviteOnce
  <1> QED
    BY <1>1, <1>2, <1>3, <1>4, <1>5, <1>6, <1>7, <1>8 DEF RegNext

(* For any number of names, invites and requests: an invite admits one member,  *)
(* and the invitation names that one (register).                                *)
THEOREM InvitesAdmitOne == RegSpec => []InviteOnce
  <1>1. RegInv => InviteOnce
    BY DEF RegInv
  <1> QED BY RegInitInv, RegNextInv, <1>1, PTL DEF RegSpec

------------------------------------------------------------------------------
(* The limiter. *)

(* A request on its way to Redis has read a clock that is not older than Lag,   *)
(* and knows its key.                                                           *)
StampsFresh ==
    \A q \in Requests : stage[q] \in {"chat", "model"} =>
        /\ stamp[q] <= clock /\ clock <= stamp[q] + Lag
        /\ stage[q] = "model" => bucket[q] # NoKey

(* No timestamp is younger than the expiry of its key, nor that than now.       *)
KeysOrdered ==
    \A k \in Keys : /\ IsFiniteSet(zset[k]) /\ touched[k] <= clock
                    /\ \A s \in zset[k] : s <= touched[k]

(* What was let through is still stored, or a whole window ago.                 *)
PassedStored ==
    \A k \in Keys : \A s \in passed[k] : s \in Stored(k) \/ s + Window <= clock

RlInv == RlTypeOK /\ StampsFresh /\ KeysOrdered /\ PassedStored /\ WindowHolds

(* The key of a request that is about to be counted is one of the keys.         *)
LEMMA KeyKnown ==
    ASSUME RlTypeOK, StampsFresh, NEW q \in Requests, stage[q] \in {"chat", "model"}
    PROVE  KeyOf(q) \in Keys
  BY RateLimiterAssumption DEF RlTypeOK, StampsFresh, KeyOf, Keys

(* Limits are numbers.                                                          *)
LEMMA LimitNat == ASSUME NEW k \in Keys PROVE LimitOf(k) \in Nat
  <1>1. RateOf[k] \in Nat
    BY RateLimiterAssumption
  <1>2. RateOf[k] \div 2 \in Nat
    BY <1>1
  <1> QED BY <1>1, <1>2 DEF LimitOf

(* The empty keys satisfy the invariant.                                        *)
LEMMA RlInitInv == RlInit => RlInv
  <1> SUFFICES ASSUME RlInit PROVE RlInv
    OBVIOUS
  <1> USE RateLimiterAssumption DEF RlInit
  <1>1. RlTypeOK
    BY DEF RlTypeOK
  <1>2. StampsFresh
    BY DEF StampsFresh
  <1>3. KeysOrdered
    BY FS_EmptySet DEF KeysOrdered
  <1>4. PassedStored /\ WindowHolds
    BY DEF PassedStored, WindowHolds
  <1> QED BY <1>1, <1>2, <1>3, <1>4 DEF RlInv

(* Steps that leave the keys and the clock alone keep what is known of them.    *)
LEMMA KeysUntouched ==
    ASSUME RlInv, UNCHANGED <<clock, zset, touched, passed>>
    PROVE  KeysOrdered' /\ PassedStored' /\ WindowHolds'
  BY DEF RlInv, KeysOrdered, PassedStored, WindowHolds, Stored

(* Time only makes keys expire whose timestamps are a window old.               *)
LEMMA TickInv == ASSUME RlInv, Tick PROVE RlInv'
  <1> USE RateLimiterAssumption DEF RlInv
  <1>1. /\ clock \in Nat /\ clock' = clock + 1
        /\ UNCHANGED <<redis, stage, bucket, stamp, zset, touched, passed>>
    BY DEF Tick, RlTypeOK
  <1>2. RlTypeOK'
    BY <1>1 DEF RlTypeOK
  <1>3. StampsFresh'
    BY <1>1 DEF StampsFresh, Tick, RlTypeOK
  <1>4. KeysOrdered'
    BY <1>1 DEF KeysOrdered, RlTypeOK
  <1>5. PassedStored'
    <2> SUFFICES ASSUME NEW k \in Keys, NEW s \in passed[k]
                 PROVE  s \in Stored(k)' \/ s + Window <= clock'
      BY <1>1 DEF PassedStored
    <2>1. s \in Nat /\ touched[k] \in Nat /\ Window \in Nat
      BY DEF RlTypeOK
    <2>2. CASE s + Window <= clock
      BY <1>1, <2>1, <2>2
    <2>3. CASE s \in Stored(k)
      BY <1>1, <2>1, <2>3 DEF Stored, KeysOrdered
    <2> QED BY <2>2, <2>3 DEF PassedStored
  <1>6. WindowHolds'
    BY <1>1 DEF WindowHolds
  <1> QED BY <1>2, <1>3, <1>4, <1>5, <1>6

(* The transaction of a request keeps the window of its key: whatever counts    *)
(* in a window with the new timestamp is among what the request has counted.    *)
LEMMA LimiterInv == ASSUME RlInv, NEW q \in Requests, Limiter(q) PROVE RlInv'
  <1> USE RateLimiterAssumption
  <1> DEFINE k == KeyOf(q)
             now == stamp[q]
             left == Pruned(k, now) \cup {now}
  <1>0. RlTypeOK /\ StampsFresh /\ KeysOrdered /\ PassedStored /\ WindowHolds
    BY DEF RlInv
  <1>1. /\ k \in Keys /\ now \in Nat /\ clock \in Nat /\ Window \in Nat /\ Lag \in Nat
        /\ now <= clock /\ clock <= now + Lag
    BY <1>0, KeyKnown DEF Limiter, RlTypeOK, StampsFresh
  <1>2. left \subseteq Nat /\ IsFiniteSet(left) /\ \A s \in left : s <= clock
    <2>1. Pruned(k, now) \subseteq zset[k]
      BY DEF Pruned, Stored
    <2>2. IsFiniteSet(Pruned(k, now))
      BY <1>0, <1>1, <2>1, FS_Subset DEF KeysOrdered
    <2>3. IsFiniteSet(left)
      BY <2>2, FS_AddElement
    <2>4. \A s \in zset[k] : s \in Nat /\ s <= touched[k] /\ touched[k] <= clock
                             /\ touched[k] \in Nat
      BY <1>0, <1>1 DEF KeysOrdered, RlTypeOK
    <2> QED BY <1>1, <2>1, <2>3, <2>4
  <1>3. /\ zset' = [zset EXCEPT ![k] = left] /\ touched' = [touched EXCEPT ![k] = clock]
        /\ UNCHANGED <<clock, redis, bucket, stamp>>
        /\ stage' \in [Requests -> {"new", "chat", "through", "model", "served", "refused"}]
        /\ stage'[q] \notin {"chat", "model"}
        /\ \A o \in Requests : o # q => stage'[o] = stage[o]
    BY <1>0 DEF Limiter, Pipeline, Onward, RlTypeOK
  <1>4. \/ passed' = passed
        \/ passed' = [passed EXCEPT ![k] = @ \cup {now}] /\ Cardinality(left) <= LimitOf(k)
    <2>1. Cardinality(left) \in Nat /\ LimitOf(k) \in Nat
      BY <1>1, <1>2, FS_CardinalityType, LimitNat
    <2> QED BY <2>1 DEF Limiter, Pipeline
  <1>5. passed' \in [Keys -> SUBSET Nat] /\ \A o \in Keys : o # k => passed'[o] = passed[o]
    BY <1>0, <1>1, <1>4 DEF RlTypeOK
  <1>6. /\ zset' \in [Keys -> SUBSET Nat] /\ touched' \in [Keys -> Nat]
        /\ zset'[k] = left /\ touched'[k] = clock
        /\ \A o \in Keys : o # k => zset'[o] = zset[o] /\ touched'[o] = touched[o]
    BY <1>0, <1>1, <1>2, <1>3 DEF RlTypeOK
  <1>7. RlTypeOK'
    BY <1>0, <1>3, <1>5, <1>6 DEF RlTypeOK
  <1>8. StampsFresh'
    BY <1>0, <1>3 DEF StampsFresh, RlTypeOK
  <1>9. KeysOrdered'
    BY <1>0, <1>1, <1>2, <1>3, <1>6 DEF KeysOrdered
  <1> HIDE DEF left
  <1>10. \A s \in passed[k] : s \in Nat /\ (s \in left \/ s + Window <= clock)
    BY <1>0, <1>1 DEF PassedStored, Pruned, RlTypeOK, left
  <1>11. PassedStored'
    <2> SUFFICES ASSUME NEW o \in Keys, NEW s \in passed'[o]
                 PROVE  s \in Stored(o)' \/ s + Window <= clock'
      BY DEF PassedStored
    <2>1. CASE o # k
      BY <1>0, <1>3, <1>5, <1>6, <2>1 DEF PassedStored, Stored
    <2>2. CASE o = k
      <3>1. s \in left \/ (s \in Nat /\ s + Window <= clock)
        BY <1>4, <1>5, <1>10, <2>2, <1>0, <1>1 DEF left, RlTypeOK
      <3>2. CASE s \in left
        <4>1. s \in Nat /\ s <= clock
          BY <1>2, <3>2
        <4>2. CASE Window = 0
          BY <1>1, <1>3, <4>1, <4>2
        <4>3. CASE Window # 0
          <5>1. Stored(o)' = left
            BY <1>1, <1>3, <1>6, <2>2, <4>3 DEF Stored
          <5> QED BY <3>2, <5>1
        <4> QED BY <4>2, <4>3
      <3> QED BY <1>3, <3>1, <3>2
    <2> QED BY <2>1, <2>2
  <1>12. WindowHolds'
    <2> DEFINE Win(p, t) == {s \in p : s <= t /\ t + Lag < s + Window}
    <2> SUFFICES ASSUME NEW o \in Keys, NEW t \in passed'[o]
                 PROVE  Cardinality(Win(passed'[o], t)) <= LimitOf(o)
      BY DEF WindowHolds
    <2>0. \A u \in passed[o] : Cardinality(Win(passed[o], u)) <= LimitOf(o)
      BY <1>0 DEF WindowHolds
    <2>1. CASE passed'[o] = passed[o]
      BY <2>0, <2>1
    <2>2. CASE passed'[o] # passed[o]
      <3>1. o = k /\ passed'[k] = passed[k] \cup {now} /\ Cardinality(left) <= LimitOf(k)
        BY <1>0, <1>1, <1>4, <1>5, <2>2 DEF RlTypeOK
      <3>2. t \in Nat
        BY <1>5
      <3>3. CASE now \in Win(passed'[k], t)
        <4>1. now <= t
          BY <3>3
        <4>2. Win(passed'[k], t) \subseteq left
          BY <1>1, <1>10, <3>1, <3>2, <4>1 DEF left
        <4>3. Cardinality(Win(passed'[k], t)) <= Cardinality(left)
          BY <1>2, <4>2, FS_Subset DEF left
        <4>4. /\ Cardinality(Win(passed'[k], t)) \in Nat /\ Cardinality(left) \in Nat
              /\ LimitOf(k) \in Nat
          BY <1>1, <1>2, <4>2, FS_Subset, FS_CardinalityType, LimitNat DEF left
        <4> QED BY <3>1, <4>3, <4>4
      <3>4. CASE now \notin Win(passed'[k], t)
        <4>1. Win(passed'[k], t) = Win(passed[k], t)
          BY <3>1, <3>4
        <4>2. CASE t \in passed[k]
          BY <2>0, <3>1, <4>1, <4>2
        <4>3. CASE t = now
          <5>1. Win(passed'[k], t) = {}
            BY <1>1, <3>1, <3>2, <3>4, <4>3, <1>5
          <5>2. Cardinality(Win(passed'[k], t)) = 0
            BY <5>1, FS_EmptySet
          <5> QED BY <1>1, <3>1, <5>2, LimitNat
        <4> QED BY <3>1, <4>2, <4>3
      <3> QED BY <3>3, <3>4
    <2> QED BY <2>1, <2>2
  <1> QED BY <1>7, <1>8, <1>9, <1>11, <1>12 DEF RlInv

(* Every step of the limiter keeps the invariant.                               *)
LEMMA RlNextInv == RlInv /\ [RlNext]_rlVars => RlInv'
  <1> SUFFICES ASSUME RlInv, [RlNext]_rlVars PROVE RlInv'
    OBVIOUS
  <1> USE RateLimiterAssumption
  <1>0. RlTypeOK /\ StampsFresh
    BY DEF RlInv
  <1>1. ASSUME NEW q \in Requests, NEW b \in {NoKey} \cup {BucketOf(m) : m \in Roles \cup {Catalog}},
               Arrive(q, b)
        PROVE  RlInv'
    <2>1. b \in Roles \cup {Catalog, NoKey}
      BY <1>1 DEF BucketOf
    <2>2. RlTypeOK' /\ StampsFresh'
      BY <1>0, <1>1, <2>1 DEF Arrive, RlTypeOK, StampsFresh
    <2> QED BY <1>1, <2>2, KeysUntouched DEF Arrive, RlInv
  <1>2. ASSUME NEW q \in Requests, AskModel(q) PROVE RlInv'
    <2>1. RlTypeOK' /\ StampsFresh'
      BY <1>0, <1>2 DEF AskModel, RlTypeOK, StampsFresh
    <2> QED BY <1>2, <2>1, KeysUntouched DEF AskModel, RlInv
  <1>3. ASSUME NEW q \in Requests, Limiter(q) PROVE RlInv'
    BY <1>3, LimiterInv
  <1>4. ASSUME NEW q \in Requests, FailOpen(q) PROVE RlInv'
    <2>1. RlTypeOK' /\ StampsFresh'
      BY <1>0, <1>4 DEF FailOpen, Onward, RlTypeOK, StampsFresh
    <2> QED BY <1>4, <2>1, KeysUntouched DEF FailOpen, RlInv
  <1>5. CASE RedisTurns
    <2>1. RlTypeOK' /\ StampsFresh'
      BY <1>0, <1>5 DEF RedisTurns, RlTypeOK, StampsFresh
    <2> QED BY <1>5, <2>1, KeysUntouched DEF RedisTurns, RlInv
  <1>6. CASE Tick
    BY <1>6, TickInv
  <1>7. CASE UNCHANGED rlVars
    <2>1. RlTypeOK' /\ StampsFresh'
      BY <1>0, <1>7 DEF rlVars, RlTypeOK, StampsFresh
    <2> QED BY <1>7, <2>1, KeysUntouched DEF rlVars, RlInv
  <1> QED
    BY <1>1, <1>2, <1>3, <1>4, <1>5, <1>6, <1>7 DEF RlNext

(* For any limits, windows and requests: however requests overtake each other   *)
(* on their way to Redis, no key lets more than its limit through in a window   *)
(* that is shortened by the time they may take (limiter, check_model_rate).     *)
THEOREM WindowsHold == RlSpec => []WindowHolds
  <1>1. RlInv => WindowHolds
    BY DEF RlInv
  <1> QED BY RlInitInv, RlNextInv, <1>1, PTL DEF RlSpec

------------------------------------------------------------------------------
(* The cost cap. *)

(* A turn past its first check has an account.                                  *)
PayersKnown ==
    \A t \in Turns : turn[t] \in {"cap", "model", "record"} => payer[t] \in Accounts

(* A longer window holds at least what a shorter one does.                      *)
LedgersNested == \A u \in Accounts : Nested(spent[u])

SpendInv == SpendTypeOK /\ PayersKnown /\ LedgersNested /\ CapIsSoft

(* The turns of an account in flight are finitely many.                         *)
LEMMA FlightFinite ==
    ASSUME NEW u PROVE IsFiniteSet(InFlight(u)) /\ Cardinality(InFlight(u)) \in Nat
  <1>1. InFlight(u) \subseteq Turns
    BY DEF InFlight
  <1> QED BY <1>1, SpendingAssumption, FS_Subset, FS_CardinalityType

(* Nothing spent, nobody in flight.                                             *)
LEMMA SpendInitInv == SpendInit => SpendInv
  <1> SUFFICES ASSUME SpendInit PROVE SpendInv
    OBVIOUS
  <1>1. SpendTypeOK /\ PayersKnown /\ LedgersNested
    BY SpendingAssumption
       DEF SpendInit, SpendTypeOK, PayersKnown, LedgersNested, Nested, Nothing, Windows
  <1>2. ASSUME NEW u \in Accounts PROVE Cardinality(InFlight(u)) = 0
    <2>1. InFlight(u) = {}
      BY DEF InFlight, SpendInit
    <2> QED BY <2>1, FS_EmptySet
  <1>3. CapIsSoft
    BY <1>2, SpendingAssumption DEF CapIsSoft, SpendInit, AtLeast, Nothing, Windows
  <1> QED BY <1>1, <1>3 DEF SpendInv

(* Steps that leave the turns and what is spent alone, or lower it.             *)
LEMMA CapKept ==
    ASSUME SpendInv, UNCHANGED <<turns, past>>, spent' \in [Accounts -> [Windows -> Nat]],
           \A u \in Accounts, w \in Windows : spent'[u][w] <= spent[u][w]
    PROVE  PayersKnown' /\ CapIsSoft'
  <1>1. PayersKnown'
    BY DEF SpendInv, PayersKnown, turns
  <1>2. ASSUME NEW u \in Accounts, ~ uncapped[u]
        PROVE  spent'[u][shortest[u]] + Cardinality(InFlight(u))
                  <= AtLeast(allowed[u], 1) - 1 + peak[u]
    <2>0. shortest[u] \in Windows
      BY <1>2 DEF SpendInv, SpendTypeOK
    <2>1. spent[u][shortest[u]] + Cardinality(InFlight(u))
             <= AtLeast(allowed[u], 1) - 1 + peak[u]
      BY <1>2 DEF SpendInv, CapIsSoft
    <2>2. /\ spent[u][shortest[u]] \in Nat /\ spent'[u][shortest[u]] \in Nat
          /\ spent'[u][shortest[u]] <= spent[u][shortest[u]]
          /\ peak[u] \in Nat /\ AtLeast(allowed[u], 1) \in Nat
      BY <1>2, <2>0 DEF SpendInv, SpendTypeOK, AtLeast
    <2> QED BY <2>1, <2>2, FlightFinite
  <1>3. CapIsSoft'
    BY <1>2 DEF CapIsSoft, InFlight, turns, past
  <1> QED BY <1>1, <1>3

(* A turn that is admitted joins the flight of its account.                     *)
LEMMA FlightGrows ==
    ASSUME SpendTypeOK, NEW t \in Turns, turn[t] = "cap", Move(t, "model"), UNCHANGED payer,
           NEW u \in Accounts
    PROVE  /\ u = payer[t] => Cardinality(InFlight(u)') = Cardinality(InFlight(u)) + 1
           /\ u # payer[t] => InFlight(u)' = InFlight(u)
  <1>1. turn'[t] = "model" /\ \A o \in Turns : o # t => turn'[o] = turn[o]
    BY DEF Move, SpendTypeOK
  <1>2. t \notin InFlight(u)
    BY DEF InFlight
  <1>3. u = payer[t] => InFlight(u)' = InFlight(u) \cup {t}
    BY <1>1 DEF InFlight
  <1>4. u # payer[t] => InFlight(u)' = InFlight(u)
    BY <1>1 DEF InFlight
  <1> QED BY <1>2, <1>3, <1>4, FlightFinite, FS_AddElement

(* A turn that is done leaves it.                                               *)
LEMMA FlightShrinks ==
    ASSUME SpendTypeOK, NEW t \in Turns, turn[t] \in {"model", "record"}, Move(t, "done"),
           UNCHANGED payer, NEW u \in Accounts
    PROVE  /\ u = payer[t] => Cardinality(InFlight(u)') = Cardinality(InFlight(u)) - 1
           /\ u # payer[t] => InFlight(u)' = InFlight(u)
  <1>1. turn'[t] = "done" /\ \A o \in Turns : o # t => turn'[o] = turn[o]
    BY DEF Move, SpendTypeOK
  <1>2. u = payer[t] => t \in InFlight(u) /\ InFlight(u)' = InFlight(u) \ {t}
    BY <1>1 DEF InFlight
  <1>3. u # payer[t] => InFlight(u)' = InFlight(u)
    BY <1>1 DEF InFlight
  <1> QED BY <1>2, <1>3, FlightFinite, FS_RemoveElement

(* A turn that is not in flight before and after changes nobody's flight.       *)
LEMMA FlightStays ==
    ASSUME SpendTypeOK, NEW t \in Turns, NEW there, Move(t, there),
           \/ turn[t] \in {"new", "cap"} /\ there \in {"cap", "refused"}
           \/ turn[t] \in {"model", "record"} /\ there \in {"model", "record"} /\ payer' = payer,
           payer' \in [Turns -> Accounts \cup {NoAccount}],
           \A o \in Turns : o # t => payer'[o] = payer[o], NEW u \in Accounts
    PROVE  InFlight(u)' = InFlight(u)
  <1>1. turn'[t] = there /\ \A o \in Turns : o # t => turn'[o] = turn[o]
    BY DEF Move, SpendTypeOK
  <1> QED BY <1>1 DEF InFlight

(* Steps of a turn that change neither its account's ledger nor its flight.     *)
LEMMA CapStays ==
    ASSUME SpendInv, UNCHANGED <<spent, past>>,
           \A u \in Accounts : InFlight(u)' = InFlight(u)
    PROVE  CapIsSoft'
  BY DEF SpendInv, CapIsSoft, past

(* The check of the pool.                                                       *)
LEMMA CheckPoolInv ==
    ASSUME SpendInv, NEW t \in Turns, NEW u \in Accounts,
           NEW k \in {"stored", "compare"}, CheckPool(t, u, k)
    PROVE  SpendInv'
  <1>0. SpendTypeOK /\ PayersKnown
    BY DEF SpendInv
  <1>1. PICK sum \in 0..PoolTotal \cup ({poolSum} \ {NoSum}) :
           PoolSpend(sum) /\ Move(t, IF sum >= PoolCap THEN "refused" ELSE "cap")
    BY DEF CheckPool
  <1>2. /\ turn[t] = "new" /\ payer' = [payer EXCEPT ![t] = u] /\ kind' = [kind EXCEPT ![t] = k]
        /\ UNCHANGED <<ledger, login, listed, past>>
    BY DEF CheckPool
  <1>3. poolSum' \in Nat \cup {NoSum}
    <2>1. sum \in Nat
      BY <1>0, <1>1 DEF SpendTypeOK
    <2> QED BY <1>0, <1>1, <2>1 DEF PoolSpend, SpendTypeOK
  <1>4. PICK there \in {"refused", "cap"} : Move(t, there)
    BY <1>1
  <1>5. /\ payer' \in [Turns -> Accounts \cup {NoAccount}] /\ payer'[t] = u
        /\ \A o \in Turns : o # t => payer'[o] = payer[o]
    BY <1>0, <1>2 DEF SpendTypeOK
  <1>6. SpendTypeOK'
    BY <1>0, <1>2, <1>3, <1>4, <1>5 DEF SpendTypeOK, Move, ledger, past
  <1>7. PayersKnown'
    BY <1>0, <1>4, <1>5 DEF PayersKnown, Move, SpendTypeOK
  <1>8. CapIsSoft'
    BY <1>0, <1>2, <1>4, <1>5, FlightStays, CapStays DEF ledger
  <1>9. LedgersNested'
    BY <1>2 DEF SpendInv, LedgersNested, ledger
  <1> QED BY <1>6, <1>7, <1>8, <1>9 DEF SpendInv

(* The check of the cap: an account below it has room for one turn more.        *)
LEMMA CheckCapInv == ASSUME SpendInv, NEW t \in Turns, CheckCap(t) PROVE SpendInv'
  <1> DEFINE w == payer[t]
  <1>0. SpendTypeOK /\ PayersKnown /\ CapIsSoft /\ w \in Accounts /\ turn[t] = "cap"
    BY DEF SpendInv, PayersKnown, CheckCap
  <1>1. UNCHANGED <<ledger, poolSum, login, payer, kind, listed>>
    BY DEF CheckCap
  <1>n. LedgersNested /\ LedgersNested' /\ spent' = spent /\ w' = w
    BY <1>1 DEF SpendInv, LedgersNested, ledger
  <1>2. CASE Move(t, "refused") /\ UNCHANGED past
    <2>1. SpendTypeOK' /\ PayersKnown'
      BY <1>0, <1>1, <1>2 DEF SpendTypeOK, PayersKnown, Move, ledger, past
    <2>2. payer' \in [Turns -> Accounts \cup {NoAccount}]
      BY <2>1 DEF SpendTypeOK
    <2>3. CapIsSoft'
      BY <1>0, <1>1, <1>2, <2>2, FlightStays, CapStays DEF ledger, past
    <2> QED BY <1>n, <2>1, <2>3 DEF SpendInv
  <1>3. CASE /\ cap[w] = NoCap \/ Counted(w) < cap[w]
             /\ AdmitTurn(t)
    <2> DEFINE n == Cardinality(InFlight(w))
               v == window[w]
    <2>0. /\ n \in Nat /\ peak \in [Accounts -> Nat] /\ v \in Windows
          /\ allowed \in [Accounts -> Nat] /\ uncapped \in [Accounts -> BOOLEAN]
          /\ shortest \in [Accounts -> Windows] /\ spent[w] \in [Windows -> Nat]
      BY <1>0, FlightFinite DEF SpendTypeOK
    <2>1. Move(t, "model") /\ peak' = [peak EXCEPT ![w] = AtLeast(@, n + 1)]
      BY <1>3 DEF AdmitTurn
    <2>2. peak' \in [Accounts -> Nat] /\ peak'[w] \in Nat /\ n + 1 <= peak'[w]
      BY <1>0, <2>0, <2>1 DEF AtLeast
    <2>3. \A u \in Accounts : u # w => peak'[u] = peak[u]
      BY <1>0, <2>0, <2>1
    <2>4. cap[w] # NoCap => cap[w] \in Nat
      BY <1>0, SpendingAssumption DEF SpendTypeOK
    <2>5. /\ cap[w] = NoCap => /\ uncapped' = [uncapped EXCEPT ![w] = TRUE]
                              /\ UNCHANGED <<allowed, shortest>>
          /\ cap[w] # NoCap =>
                /\ UNCHANGED uncapped /\ allowed' = [allowed EXCEPT ![w] = AtLeast(@, cap[w])]
                /\ shortest' = [shortest EXCEPT ![w] = AtMostOf(@, v)]
      BY <1>3 DEF AdmitTurn
    <2>6. /\ allowed' \in [Accounts -> Nat] /\ uncapped' \in [Accounts -> BOOLEAN]
          /\ shortest' \in [Accounts -> Windows]
          /\ \A u \in Accounts : u # w =>
                allowed'[u] = allowed[u] /\ uncapped'[u] = uncapped[u]
                /\ shortest'[u] = shortest[u]
      BY <1>0, <2>0, <2>4, <2>5 DEF AtLeast, AtMostOf
    <2>7. SpendTypeOK' /\ PayersKnown'
      BY <1>0, <1>1, <2>1, <2>2, <2>6 DEF SpendTypeOK, PayersKnown, Move, ledger
    <2>8. CapIsSoft'
      <3> SUFFICES ASSUME NEW u \in Accounts, ~ uncapped'[u]
                   PROVE  spent'[u][shortest'[u]] + Cardinality(InFlight(u)')
                             <= AtLeast(allowed'[u], 1) - 1 + peak'[u]
        BY DEF CapIsSoft, AtLeast
      <3>1. CASE u # w
        BY <1>0, <1>1, <2>1, <2>3, <2>6, <3>1, FlightGrows DEF CapIsSoft, ledger
      <3>2. CASE u = w
        <4>1. cap[w] # NoCap
          BY <1>0, <2>0, <2>5, <3>2
        <4>2. cap[w] \in Nat /\ spent[w][v] < cap[w]
          BY <1>3, <2>4, <4>1 DEF Counted
        <4>3. allowed'[w] \in Nat /\ cap[w] <= allowed'[w]
          BY <1>0, <2>0, <2>4, <2>5, <4>1 DEF AtLeast
        <4>4. Cardinality(InFlight(u)') = n + 1
          BY <1>0, <1>1, <2>1, <3>2, FlightGrows
        <4>5. shortest'[w] \in Windows /\ shortest'[w] <= v
          BY <1>0, <2>0, <2>5, <4>1, SpendingAssumption DEF AtMostOf, Windows
        <4>6. /\ spent'[u][shortest'[u]] = spent[w][shortest'[w]]
              /\ spent[w][shortest'[w]] \in Nat /\ spent[w][v] \in Nat
              /\ spent[w][shortest'[w]] <= spent[w][v]
          BY <1>0, <1>n, <2>0, <3>2, <4>5 DEF LedgersNested, Nested
        <4>7. AtLeast(allowed'[w], 1) = allowed'[w]
          BY <2>0, <4>2, <4>3, <4>6 DEF AtLeast
        <4> HIDE DEF n, w, v
        <4> QED BY <2>0, <2>2, <3>2, <4>2, <4>3, <4>4, <4>6, <4>7
      <3> QED BY <3>1, <3>2
    <2> QED BY <1>n, <2>7, <2>8 DEF SpendInv
  <1> QED BY <1>2, <1>3 DEF CheckCap

(* The end of a turn: what it adds to the ledger it takes out of the flight.    *)
LEMMA EndOfTurn ==
    ASSUME SpendInv, NEW t \in Turns, turn[t] \in {"model", "record"}, Move(t, "done"),
           UNCHANGED <<payer, past>>, spent' \in [Accounts -> [Windows -> Nat]],
           \A u \in Accounts : u # payer[t] => spent'[u] = spent[u],
           \A w \in Windows : spent'[payer[t]][w] \in {spent[payer[t]][w], spent[payer[t]][w] + 1}
    PROVE  PayersKnown' /\ CapIsSoft'
  <1>0. SpendTypeOK /\ PayersKnown /\ CapIsSoft /\ payer[t] \in Accounts
    BY DEF SpendInv, PayersKnown
  <1>1. PayersKnown'
    BY <1>0 DEF PayersKnown, Move, SpendTypeOK
  <1>2. ASSUME NEW u \in Accounts, ~ uncapped[u]
        PROVE  spent'[u][shortest[u]] + Cardinality(InFlight(u)')
                  <= AtLeast(allowed[u], 1) - 1 + peak[u]
    <2>1. spent[u][shortest[u]] + Cardinality(InFlight(u))
             <= AtLeast(allowed[u], 1) - 1 + peak[u]
      BY <1>0, <1>2 DEF CapIsSoft
    <2>2. /\ shortest[u] \in Windows /\ spent[u][shortest[u]] \in Nat /\ peak[u] \in Nat /\ AtLeast(allowed[u], 1) \in Nat
          /\ Cardinality(InFlight(u)) \in Nat
      BY <1>0, FlightFinite DEF SpendTypeOK, AtLeast
    <2>3. CASE u # payer[t]
      BY <1>0, <2>1, <2>3, FlightShrinks
    <2>4. CASE u = payer[t]
      <3>1. Cardinality(InFlight(u)') = Cardinality(InFlight(u)) - 1
        BY <1>0, <2>4, FlightShrinks
      <3> QED BY <2>1, <2>2, <2>4, <3>1
    <2> QED BY <2>3, <2>4
  <1>3. CapIsSoft'
    BY <1>2 DEF CapIsSoft, past
  <1> QED BY <1>1, <1>3

(* Answers and records.                                                         *)
LEMMA AnswerInv ==
    ASSUME SpendInv, NEW t \in Turns, Answer(t) \/ RecordUsage(t) PROVE SpendInv'
  <1>0. SpendTypeOK /\ PayersKnown /\ (turn[t] \in {"model", "record"} => payer[t] \in Accounts)
    BY DEF SpendInv, PayersKnown
  <1>n. LedgersNested /\ \A u \in Accounts : Nested(spent[u])
    BY DEF SpendInv, LedgersNested
  <1>1. CASE Answer(t)
    <2>1. /\ turn[t] = "model" /\ (Move(t, "record") \/ Move(t, "done"))
          /\ UNCHANGED <<ledger, poolSum, login, payer, kind, listed, past>>
      BY <1>1 DEF Answer
    <2>2. SpendTypeOK'
      BY <1>0, <2>1 DEF SpendTypeOK, Move, ledger, past
    <2>3. CASE Move(t, "record")
      <3>1. PayersKnown'
        BY <1>0, <2>1, <2>3 DEF PayersKnown, Move, SpendTypeOK
      <3>2. payer' \in [Turns -> Accounts \cup {NoAccount}]
        BY <2>2 DEF SpendTypeOK
      <3>3. CapIsSoft'
        BY <1>0, <2>1, <2>3, <3>2, FlightStays, CapStays DEF ledger
      <3> QED BY <1>n, <2>1, <2>2, <3>1, <3>3 DEF SpendInv, LedgersNested, ledger
    <2>4. CASE Move(t, "done")
      <3>1. spent' = spent /\ \A w \in Windows : spent[payer[t]][w] \in {spent[payer[t]][w], spent[payer[t]][w] + 1}
        BY <2>1 DEF ledger
      <3>2. LedgersNested' /\ spent' \in [Accounts -> [Windows -> Nat]]
        BY <1>n, <2>2, <3>1 DEF LedgersNested, SpendTypeOK
      <3> QED BY <2>1, <2>2, <2>4, <3>1, <3>2, EndOfTurn DEF SpendInv
    <2> QED BY <2>1, <2>3, <2>4
  <1>2. CASE RecordUsage(t)
    <2> DEFINE w == payer[t]
    <2>1. /\ turn[t] = "record" /\ Move(t, "done") /\ w \in Accounts
          /\ UNCHANGED <<row, cap, window, poolSum, login, payer, kind, listed, past>>
          /\ \/ /\ spent' = [spent EXCEPT ![w] = [v \in Windows |-> @[v] + 1]]
                /\ recent' = [recent EXCEPT ![w] = TRUE]
             \/ UNCHANGED <<spent, recent>>
      BY <1>0, <1>2 DEF RecordUsage
    <2>2. /\ spent \in [Accounts -> [Windows -> Nat]] /\ spent[w] \in [Windows -> Nat]
          /\ [v \in Windows |-> spent[w][v] + 1] \in [Windows -> Nat]
      BY <1>0, <2>1 DEF SpendTypeOK
    <2>3. /\ spent' \in [Accounts -> [Windows -> Nat]]
          /\ \A v \in Windows : spent'[w][v] \in {spent[w][v], spent[w][v] + 1}
          /\ \A u \in Accounts : u # w => spent'[u] = spent[u]
          /\ spent'[w] = spent[w] \/ spent'[w] = [v \in Windows |-> spent[w][v] + 1]
      BY <2>1, <2>2
    <2>n. LedgersNested'
      <3>1. Nested([v \in Windows |-> spent[w][v] + 1])
        BY <1>n, <2>1, <2>2 DEF Nested
      <3> QED BY <1>n, <2>1, <2>3, <3>1 DEF LedgersNested
    <2>4. SpendTypeOK'
      BY <1>0, <2>1, <2>3 DEF SpendTypeOK, Move, past
    <2> QED BY <2>1, <2>3, <2>n, <2>4, EndOfTurn DEF SpendInv
  <1> QED BY <1>1, <1>2

(* Every step keeps the invariant.                                              *)
LEMMA SpendNextInv == SpendInv /\ [SpendNext]_spendVars => SpendInv'
  <1> SUFFICES ASSUME SpendInv, [SpendNext]_spendVars PROVE SpendInv'
    OBVIOUS
  <1> USE SpendingAssumption
  <1>0. /\ SpendTypeOK /\ PayersKnown /\ LedgersNested
        /\ spent \in [Accounts -> [Windows -> Nat]]
        /\ \A u \in Accounts, w \in Windows : spent[u][w] \in Nat /\ spent[u][w] <= spent[u][w]
    BY DEF SpendInv, SpendTypeOK
  <1>n. spent' = spent => LedgersNested' /\ \A u \in Accounts, w \in Windows : spent'[u][w] <= spent[u][w]
    BY <1>0 DEF LedgersNested
  <1>1. ASSUME NEW l \in Logins, CheckLogin(l) PROVE SpendInv'
    <2>1. PICK sum \in 0..PoolTotal \cup ({poolSum} \ {NoSum}) :
             /\ PoolSpend(sum)
             /\ login' = [login EXCEPT ![l] =
                   IF sum >= PoolCap \/ (MaxLive > 0 /\ Cardinality(LiveAccounts) >= MaxLive)
                   THEN "refused" ELSE "minting"]
      BY <1>1 DEF CheckLogin
    <2>2. sum \in Nat
      BY <1>0, <2>1 DEF SpendTypeOK
    <2>3. UNCHANGED <<ledger, turns, listed, past>>
      BY <1>1 DEF CheckLogin
    <2>4. poolSum' \in Nat \cup {NoSum}
      BY <1>0, <2>1, <2>2 DEF PoolSpend, SpendTypeOK
    <2>5. SpendTypeOK'
      BY <1>0, <2>1, <2>3, <2>4 DEF SpendTypeOK, ledger, turns, past
    <2> QED BY <1>0, <1>n, <2>3, <2>5, CapKept DEF ledger, SpendInv
  <1>2. ASSUME NEW l \in Logins, NEW u \in Accounts, Mint(l, u) PROVE SpendInv'
    <2>1. SpendTypeOK'
      BY <1>0, <1>2 DEF SpendTypeOK, Mint, turns, past
    <2> QED BY <1>0, <1>2, <1>n, <2>1, CapKept DEF Mint, SpendInv
  <1>3. ASSUME NEW u \in Accounts, FallIdle(u) PROVE SpendInv'
    <2>1. SpendTypeOK'
      BY <1>0, <1>3 DEF SpendTypeOK, FallIdle, turns, past
    <2> QED BY <1>0, <1>3, <1>n, <2>1, CapKept DEF FallIdle, SpendInv
  <1>4. ASSUME NEW u \in Accounts, PurgeDemoUser(u) PROVE SpendInv'
    <2>1. SpendTypeOK'
      BY <1>0, <1>4 DEF SpendTypeOK, PurgeDemoUser, turns, past, Nothing
    <2>2. /\ \A v \in Accounts, w \in Windows : spent'[v][w] <= spent[v][w]
          /\ LedgersNested'
      BY <1>0, <1>4 DEF PurgeDemoUser, Nothing, LedgersNested, Nested
    <2>3. UNCHANGED <<turns, past>>
      BY <1>4 DEF PurgeDemoUser
    <2> QED BY <2>1, <2>2, <2>3, CapKept DEF SpendTypeOK, SpendInv
  <1>5. ASSUME NEW u \in Accounts, DropMessages(u) PROVE SpendInv'
    <2>1. PICK less \in [Windows -> 0..spent[u][Longest]] :
             /\ Nested(less) /\ \A w \in Windows : less[w] <= spent[u][w]
             /\ spent' = [spent EXCEPT ![u] = less]
      BY <1>5 DEF DropMessages
    <2>2. Longest \in Windows /\ less \in [Windows -> Nat]
      BY <1>0, <2>1, SpendingAssumption DEF Windows
    <2>3. /\ spent' \in [Accounts -> [Windows -> Nat]] /\ LedgersNested'
          /\ \A v \in Accounts, w \in Windows : spent'[v][w] <= spent[v][w]
      BY <1>0, <2>1, <2>2 DEF LedgersNested
    <2>4. UNCHANGED <<row, cap, window, recent, poolSum, login, turns, listed, past>>
      BY <1>5 DEF DropMessages
    <2>5. SpendTypeOK'
      BY <1>0, <2>3, <2>4 DEF SpendTypeOK, turns, past
    <2> QED BY <2>3, <2>4, <2>5, CapKept DEF SpendInv
  <1>6. ASSUME NEW u \in Accounts, NEW c \in Caps \cup {NoCap}, NEW w \in Windows,
               SetCostLimit(u, c, w)
        PROVE  SpendInv'
    <2>1. SpendTypeOK'
      BY <1>0, <1>6 DEF SpendTypeOK, SetCostLimit, turns, past
    <2> QED BY <1>0, <1>6, <1>n, <2>1, CapKept DEF SetCostLimit, SpendInv
  <1>7. ASSUME NEW t \in Turns, NEW u \in Accounts,
               NEW k \in {"stored", "compare"}, CheckPool(t, u, k)
        PROVE  SpendInv'
    BY <1>7, CheckPoolInv
  <1>8. ASSUME NEW t \in Turns, CheckCap(t) \/ Answer(t) \/ RecordUsage(t) PROVE SpendInv'
    BY <1>8, CheckCapInv, AnswerInv
  <1>9. CASE ExpireSum
    <2>1. SpendTypeOK'
      BY <1>0, <1>9 DEF SpendTypeOK, ExpireSum, ledger, turns, past
    <2> QED BY <1>0, <1>9, <1>n, <2>1, CapKept DEF ExpireSum, ledger, SpendInv
  <1>10. CASE ReapRead
    <2>1. SpendTypeOK'
      BY <1>0, <1>10 DEF SpendTypeOK, ReapRead, LiveAccounts, ledger, turns, past
    <2> QED BY <1>0, <1>10, <1>n, <2>1, CapKept DEF ReapRead, ledger, SpendInv
  <1>11. CASE UNCHANGED spendVars
    <2>1. SpendTypeOK'
      BY <1>0, <1>11 DEF SpendTypeOK, spendVars, ledger, turns, past
    <2> QED BY <1>0, <1>11, <1>n, <2>1, CapKept DEF spendVars, ledger, SpendInv
  <1> QED
    BY <1>1, <1>2, <1>3, <1>4, <1>5, <1>6, <1>7, <1>8, <1>9, <1>10, <1>11 DEF SpendNext

(* For any accounts, turns, limits and windows: in the shortest window a turn   *)
(* was admitted in, the cap is overshot by no more turns than were in flight at *)
(* once (_check_cost_cap against record_stateless_usage, the commit of a turn   *)
(* and the administrator's PATCH of limit and window).                          *)
THEOREM CapHolds == SpendSpec => []CapIsSoft
  <1>1. SpendInv => CapIsSoft
    BY DEF SpendInv
  <1> QED BY SpendInitInv, SpendNextInv, <1>1, PTL DEF SpendSpec

------------------------------------------------------------------------------
(* The circuit breaker. *)

(* A counter that is capped stays a counter, and stays below the cap unless    *)
(* it reaches it.                                                              *)
LEMMA AtMostType ==
    ASSUME NEW n \in Nat, NEW k \in Nat
    PROVE  AtMost(n, k) \in 0..k
  BY DEF AtMost

(* What the breaker's operations do to one process's count and state.          *)
LEMMA FailuresType ==
    ASSUME TypeOK, NEW w \in Procs, NEW n \in Nat, RecordFailures(w, n)
    PROVE  /\ failures' \in [Procs -> 0..Threshold]
           /\ open' \in [Procs -> BOOLEAN] /\ hot' \in [Procs -> BOOLEAN]
           /\ keyFor' \subseteq Procs /\ setting' \in [Procs -> 0..MaxPending]
           /\ UNCHANGED <<key, deleting>>
           /\ ClosedBelowThreshold => ClosedBelowThreshold'
  <1> DEFINE f == AtMost(failures[w] + n, Threshold)
  <1>0. /\ failures[w] + n \in Nat /\ setting[w] + 1 \in Nat
        /\ Threshold \in Nat /\ MaxPending \in Nat
    BY BreakerAssumption DEF TypeOK
  <1>1. f \in 0..Threshold
    BY <1>0, AtMostType
  <1>2. AtMost(setting[w] + 1, MaxPending) \in 0..MaxPending
    BY <1>0, AtMostType
  <1>3. failures' = [failures EXCEPT ![w] = f]
    BY DEF RecordFailures
  <1> HIDE DEF f
  <1>4. CASE /\ f = Threshold
             /\ open' = [open EXCEPT ![w] = TRUE] /\ hot' = [hot EXCEPT ![w] = TRUE]
             /\ keyFor' = keyFor \ {w} /\ UNCHANGED <<key, deleting>>
             /\ setting' = [setting EXCEPT ![w] = AtMost(setting[w] + 1, MaxPending)]
    BY <1>1, <1>2, <1>3, <1>4, BreakerAssumption DEF TypeOK, ClosedBelowThreshold
  <1>5. CASE f # Threshold /\ UNCHANGED <<open, hot, keyFor, setting, key, deleting>>
    BY <1>1, <1>3, <1>5, BreakerAssumption DEF TypeOK, ClosedBelowThreshold
  <1> QED BY <1>4, <1>5 DEF RecordFailures, f

LEMMA SuccessType ==
    ASSUME TypeOK, NEW w \in Procs, RecordSuccess(w)
    PROVE  /\ failures' \in [Procs -> 0..Threshold]
           /\ open' \in [Procs -> BOOLEAN] /\ keyFor' \subseteq Procs
           /\ deleting' \in [Procs -> 0..MaxPending]
           /\ UNCHANGED <<hot, key, setting>>
           /\ ClosedBelowThreshold => ClosedBelowThreshold'
  <1>0. deleting[w] + 1 \in Nat /\ MaxPending \in Nat
    BY BreakerAssumption DEF TypeOK
  <1>1. AtMost(deleting[w] + 1, MaxPending) \in 0..MaxPending
    BY <1>0, AtMostType
  <1> QED BY <1>1, BreakerAssumption DEF RecordSuccess, TypeOK, ClosedBelowThreshold

LEMMA IsOpenType ==
    ASSUME TypeOK, NEW w \in Procs, IsOpen(w)
    PROVE  /\ failures' \in [Procs -> 0..Threshold]
           /\ open' \in [Procs -> BOOLEAN]
           /\ UNCHANGED <<hot, key, keyFor, setting, deleting>>
           /\ ClosedBelowThreshold => ClosedBelowThreshold'
  <1>1. open' = [open EXCEPT ![w] = open[w] /\ hot[w]]
        /\ failures' = [failures EXCEPT ![w] = IF open[w] /\ ~hot[w] THEN 0 ELSE failures[w]]
    BY DEF IsOpen, Blocked
  <1>2. failures' \in [Procs -> 0..Threshold] /\ open' \in [Procs -> BOOLEAN]
    BY <1>1, BreakerAssumption DEF TypeOK
  <1>3. ASSUME ClosedBelowThreshold, NEW v \in Procs, ~open'[v]
        PROVE  failures'[v] < Threshold
    <2>1. CASE v = w /\ open[w]
      BY <1>1, <1>3, <2>1, BreakerAssumption DEF TypeOK
    <2>2. CASE v # w \/ ~open[w]
      BY <1>1, <1>3, <2>2, BreakerAssumption DEF TypeOK, ClosedBelowThreshold
    <2> QED BY <2>1, <2>2
  <1> QED BY <1>2, <1>3 DEF IsOpen, ClosedBelowThreshold

(* One step keeps the types and the bound on a closed circuit's count.         *)
LEMMA BreakerStep ==
    ASSUME TypeOK, ClosedBelowThreshold, [Next]_vars
    PROVE  TypeOK' /\ ClosedBelowThreshold'
  <1>expire. CASE ExpireKey
    BY <1>expire DEF ExpireKey, TypeOK, ClosedBelowThreshold
  <1>proc. ASSUME NEW w \in Procs,
                  \/ Look(w) \/ Admit(w) \/ Attempt(w) \/ StartupProbe(w)
                  \/ FinishSet(w) \/ FinishDelete(w) \/ CoolDown(w) \/ Restart(w)
           PROVE  TypeOK' /\ ClosedBelowThreshold'
    <2>1. CASE Look(w)
      BY <2>1, IsOpenType DEF Look, TypeOK
    <2>2. CASE Admit(w)
      <3>1. outstanding' \in [Procs -> Nat]
        BY <2>2, BreakerAssumption DEF Admit, TypeOK
      <3> QED BY <2>2, <3>1, IsOpenType DEF Admit, TypeOK
    <2>3. CASE Attempt(w)
      <3>1. outstanding' \in [Procs -> Nat]
        BY <2>3 DEF Attempt, TypeOK
      <3>2. CASE RecordFailures(w, 1)
        BY <2>3, <3>1, <3>2, FailuresType DEF Attempt, TypeOK
      <3>3. CASE RecordSuccess(w)
        BY <2>3, <3>1, <3>3, SuccessType DEF Attempt, TypeOK
      <3>4. CASE UNCHANGED brk
        BY <2>3, <3>1, <3>4 DEF Attempt, brk, TypeOK, ClosedBelowThreshold
      <3> QED BY <2>3, <3>2, <3>3, <3>4 DEF Attempt
    <2>4. CASE StartupProbe(w)
      <3>1. probing' \in [Procs -> BOOLEAN] /\ UNCHANGED <<outstanding, restarts>>
        BY <2>4 DEF StartupProbe, TypeOK
      <3>2. CASE UNCHANGED brk
        BY <3>1, <3>2 DEF brk, TypeOK, ClosedBelowThreshold
      <3>3. CASE RecordFailures(w, Threshold)
        BY <3>1, <3>3, FailuresType, BreakerAssumption DEF TypeOK
      <3> QED BY <2>4, <3>2, <3>3 DEF StartupProbe
    <2>5. CASE FinishSet(w)
      <3>1. setting' \in [Procs -> 0..MaxPending]
        BY <2>5, BreakerAssumption DEF FinishSet, TypeOK
      <3>2. key' \in BOOLEAN /\ keyFor' \subseteq Procs
        BY <2>5 DEF FinishSet, TypeOK
      <3> QED BY <2>5, <3>1, <3>2 DEF FinishSet, TypeOK, ClosedBelowThreshold
    <2>6. CASE FinishDelete(w)
      <3>1. deleting' \in [Procs -> 0..MaxPending]
        BY <2>6, BreakerAssumption DEF FinishDelete, TypeOK
      <3>2. key' \in BOOLEAN
        BY <2>6 DEF FinishDelete, TypeOK
      <3> QED BY <2>6, <3>1, <3>2 DEF FinishDelete, TypeOK, ClosedBelowThreshold
    <2>7. CASE CoolDown(w)
      BY <2>7 DEF CoolDown, TypeOK, ClosedBelowThreshold
    <2>8. CASE Restart(w)
      <3>1. /\ (key /\ w \in Restoring) \in BOOLEAN
            /\ 0 \in 0..Threshold /\ 0 \in 0..MaxPending /\ 0 < Threshold
        BY BreakerAssumption DEF TypeOK
      <3>2. TypeOK'
        BY <2>8, <3>1 DEF Restart, TypeOK
      <3>3. ClosedBelowThreshold'
        BY <2>8, <3>1 DEF Restart, TypeOK, ClosedBelowThreshold
      <3> QED BY <3>2, <3>3
    <2> QED BY <1>proc, <2>1, <2>2, <2>3, <2>4, <2>5, <2>6, <2>7, <2>8
  <1>stutter. CASE UNCHANGED vars
    BY <1>stutter DEF vars, brk, TypeOK, ClosedBelowThreshold
  <1> QED BY <1>expire, <1>proc, <1>stutter DEF Next

(* The breaker's state keeps its types, and a closed circuit counts from below *)
(* the threshold (is_open, record_failure, record_success, the restart).       *)
THEOREM BreakerCorrect == Spec => [](TypeOK /\ ClosedBelowThreshold)
  <1>1. Init => TypeOK /\ ClosedBelowThreshold
    <2> SUFFICES ASSUME Init PROVE TypeOK /\ ClosedBelowThreshold
      OBVIOUS
    <2>1. open \in [Procs -> BOOLEAN] /\ hot \in [Procs -> BOOLEAN] /\ key \in BOOLEAN
      BY DEF Init
    <2>3. probing \in [Procs -> BOOLEAN]
      <3>1. \A w \in Procs : (w \in Restoring) \in BOOLEAN
        OBVIOUS
      <3> QED BY <3>1, Zenon DEF Init
    <2>2. /\ failures \in [Procs -> 0..Threshold]
          /\ setting \in [Procs -> 0..MaxPending]
          /\ deleting \in [Procs -> 0..MaxPending]
          /\ outstanding \in [Procs -> Nat] /\ restarts \in Nat
          /\ \A w \in Procs : failures[w] < Threshold
      BY BreakerAssumption DEF Init
    <2> QED BY <2>1, <2>2, <2>3 DEF Init, TypeOK, ClosedBelowThreshold
  <1>2. TypeOK /\ ClosedBelowThreshold /\ [Next]_vars
          => TypeOK' /\ ClosedBelowThreshold'
    BY BreakerStep
  <1> QED BY <1>1, <1>2, PTL DEF Spec

================================================================================
