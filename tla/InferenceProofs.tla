---------------------------- MODULE InferenceProofs ----------------------------
(* Proofs about the model calls: that they use the circuit breaker as its own   *)
(* module describes it, and how few attempts a failing primary costs a call.   *)
EXTENDS Inference, Integers, FiniteSetTheorems, WellFoundedInduction, TLAPS

(* Sums over a finite set, taken one element at a time as the fold does.      *)
Some(s) == CHOOSE x \in s : TRUE
Adds(f, g, S) ==
    \A s \in SUBSET S : f[s] = IF s = {} THEN 0 ELSE g[Some(s)] + f[s \ {Some(s)}]

LEMMA SomeFacts ==
    ASSUME NEW s, s # {} PROVE Some(s) \in s
  BY DEF Some

(* Of some subsets of a finite set one has none of the others inside.         *)
LEMMA LeastSubset ==
    ASSUME NEW S, IsFiniteSet(S), NEW B \in SUBSET SUBSET S, B # {}
    PROVE  \E T \in B : \A U \in B : U \subseteq T => U = T
  <1>1. B \subseteq FiniteSubsetsOf(S)
    BY FS_FiniteSubsetsOfFinite
  <1>2. PICK T \in B : \A U \in B : <<U, T>> \notin StrictSubsetOrdering(S)
    BY <1>1, FS_StrictSubsetOrderingWellFounded, WFMin
  <1> QED BY <1>2 DEF StrictSubsetOrdering

(* Two sums of the same terms agree.                                          *)
LEMMA AddsUnique ==
    ASSUME NEW S, IsFiniteSet(S), NEW f, NEW h, NEW g, Adds(f, g, S), Adds(h, g, S)
    PROVE  \A s \in SUBSET S : f[s] = h[s]
  <1> DEFINE B == {s \in SUBSET S : f[s] # h[s]}
  <1>1. SUFFICES ASSUME B # {} PROVE FALSE
    OBVIOUS
  <1>2. PICK T \in B : \A U \in B : U \subseteq T => U = T
    <2>1. B \in SUBSET SUBSET S
      OBVIOUS
    <2> HIDE DEF B
    <2> QED BY <1>1, <2>1, LeastSubset
  <1>3. CASE T = {}
    BY <1>3 DEF Adds
  <1>4. CASE T # {}
    <2>1. /\ f[T] = g[Some(T)] + f[T \ {Some(T)}]
          /\ h[T] = g[Some(T)] + h[T \ {Some(T)}]
      BY <1>4 DEF Adds
    <2>2. T \ {Some(T)} \in SUBSET S /\ T \ {Some(T)} # T
      BY <1>4, SomeFacts
    <2> QED BY <1>2, <2>1, <2>2
  <1> QED BY <1>3, <1>4

(* Every finite set has a sum.                                                *)
LEMMA AddsExists ==
    ASSUME NEW S, IsFiniteSet(S), NEW g PROVE \E f : Adds(f, g, S)
  <1> DEFINE B == {s \in SUBSET S : ~ \E f : Adds(f, g, s)}
  <1>1. SUFFICES ASSUME B # {} PROVE FALSE
    BY DEF B
  <1>2. PICK T \in B : \A U \in B : U \subseteq T => U = T
    <2>1. B \in SUBSET SUBSET S
      OBVIOUS
    <2> HIDE DEF B
    <2> QED BY <1>1, <2>1, LeastSubset
  <1> DEFINE Whole(s) == (CHOOSE f : Adds(f, g, s))[s]
             last == g[Some(T)] + Whole(T \ {Some(T)})
             F == [s \in SUBSET T |-> IF s = {} THEN 0 ELSE IF s = T THEN last ELSE Whole(s)]
  <1>3. \A s \in SUBSET T : s # T => Adds(CHOOSE f : Adds(f, g, s), g, s)
    BY <1>2
  <1>4. \A s \in SUBSET T : s # T /\ s # {}
          => Whole(s) = g[Some(s)] + Whole(s \ {Some(s)})
    <2> SUFFICES ASSUME NEW s \in SUBSET T, s # T, s # {}
                 PROVE  Whole(s) = g[Some(s)] + Whole(s \ {Some(s)})
      OBVIOUS
    <2> DEFINE r == s \ {Some(s)}
               a == CHOOSE f : Adds(f, g, s)
               b == CHOOSE f : Adds(f, g, r)
    <2>1. r \in SUBSET s /\ r \in SUBSET T /\ r # T
      BY SomeFacts
    <2>2. Adds(a, g, s) /\ Adds(b, g, r)
      BY <1>3, <2>1
    <2> HIDE DEF a, b
    <2>3. Adds(a, g, r)
      BY <2>1, <2>2 DEF Adds
    <2>4. IsFiniteSet(r)
      BY <2>1, FS_Subset
    <2>5. a[r] = b[r]
      BY <2>2, <2>3, <2>4, AddsUnique
    <2>6. a[s] = g[Some(s)] + a[r]
      BY <2>2 DEF Adds
    <2> QED BY <2>5, <2>6 DEF a, b
  <1>5. Whole({}) = 0
    <2>1. CASE T # {}
      BY <1>3, <2>1 DEF Adds
    <2>2. CASE T = {}
      <3>1. Adds([s \in SUBSET T |-> 0], g, {})
        BY <2>2 DEF Adds
      <3> QED BY <1>2, <2>2, <3>1
    <2> QED BY <2>1, <2>2
  <1> HIDE DEF Whole
  <1>6. Adds(F, g, T)
    <2> SUFFICES ASSUME NEW s \in SUBSET T, s # {}
                 PROVE  F[s] = g[Some(s)] + F[s \ {Some(s)}]
      BY DEF Adds
    <2>1. s \ {Some(s)} \in SUBSET T /\ s \ {Some(s)} # T
      BY SomeFacts
    <2>2. F[s \ {Some(s)}] = Whole(s \ {Some(s)})
      BY <1>5, <2>1
    <2>3. F[s] = g[Some(s)] + Whole(s \ {Some(s)})
      BY <1>4
    <2> QED BY <2>2, <2>3
  <1> QED BY <1>2, <1>6

(* A sum of naturals follows its terms: it changes by what one of them does.   *)
LEMMA AddsChange ==
    ASSUME NEW S, IsFiniteSet(S), NEW f, NEW k, NEW g, NEW h, NEW c \in S,
           \A d \in S : g[d] \in Nat /\ h[d] \in Nat,
           \A d \in S \ {c} : g[d] = h[d], Adds(f, g, S), Adds(k, h, S)
    PROVE  \A s \in SUBSET S : /\ f[s] \in Nat /\ k[s] \in Nat
                               /\ c \in s => k[s] + g[c] = f[s] + h[c]
                               /\ c \notin s => k[s] = f[s]
  <1> DEFINE OK(s) == /\ f[s] \in Nat /\ k[s] \in Nat
                      /\ c \in s => k[s] + g[c] = f[s] + h[c]
                      /\ c \notin s => k[s] = f[s]
             B == {s \in SUBSET S : ~ OK(s)}
  <1>1. SUFFICES ASSUME B # {} PROVE FALSE
    OBVIOUS
  <1>2. PICK T \in B : \A U \in B : U \subseteq T => U = T
    <2>1. B \in SUBSET SUBSET S
      OBVIOUS
    <2> HIDE DEF B
    <2> QED BY <1>1, <2>1, LeastSubset
  <1>3. CASE T = {}
    <2>1. f[T] = 0 /\ k[T] = 0 /\ c \notin T
      BY <1>3 DEF Adds
    <2> QED BY <1>2, <2>1
  <1>4. CASE T # {}
    <2> DEFINE r == T \ {Some(T)}
    <2>1. /\ f[T] = g[Some(T)] + f[r] /\ k[T] = h[Some(T)] + k[r]
      BY <1>4 DEF Adds
    <2>2. r \in SUBSET S /\ r \subseteq T /\ r # T /\ Some(T) \in S /\ Some(T) \in T
      BY <1>4, SomeFacts
    <2>3. OK(r)
      BY <1>2, <2>2
    <2>4. f[T] \in Nat /\ k[T] \in Nat
      BY <2>1, <2>2, <2>3
    <2>5. CASE Some(T) = c
      BY <1>2, <2>1, <2>2, <2>3, <2>4, <2>5
    <2>6. CASE Some(T) # c
      <3>1. g[Some(T)] = h[Some(T)] /\ (c \in T <=> c \in r)
        BY <2>2, <2>6
      <3> QED BY <1>2, <2>1, <2>2, <2>3, <2>4, <3>1
    <2> QED BY <2>5, <2>6
  <1> QED BY <1>3, <1>4

SameBut(g, h, c, S) ==
    /\ c \in S
    /\ \A d \in S : g[d] \in Nat /\ h[d] \in Nat
    /\ \A d \in S \ {c} : g[d] = h[d]
LEMMA AddsTotal ==
    ASSUME NEW S, IsFiniteSet(S), NEW f, NEW k, NEW g, NEW h, NEW c,
           SameBut(g, h, c, S), Adds(f, g, S), Adds(k, h, S)
    PROVE  f[S] \in Nat /\ k[S] \in Nat /\ k[S] + g[c] = f[S] + h[c]
  <1>1. \A s \in SUBSET S : /\ f[s] \in Nat /\ k[s] \in Nat
                            /\ c \in s => k[s] + g[c] = f[s] + h[c]
                            /\ c \notin s => k[s] = f[s]
    BY AddsChange DEF SameBut
  <1> QED BY <1>1 DEF SameBut

(* A sum of terms up to A is at most A for each.                               *)
LEMMA AddsBounded ==
    ASSUME NEW S, IsFiniteSet(S), NEW f, NEW g, NEW A \in Nat,
           \A d \in S : g[d] \in 0..A, Adds(f, g, S)
    PROVE  \A s \in SUBSET S : f[s] \in Nat /\ f[s] <= Cardinality(s) * A
  <1> DEFINE OK(s) == f[s] \in Nat /\ f[s] <= Cardinality(s) * A
             B == {s \in SUBSET S : ~ OK(s)}
  <1>1. SUFFICES ASSUME B # {} PROVE FALSE
    OBVIOUS
  <1>2. PICK T \in B : \A U \in B : U \subseteq T => U = T
    <2>1. B \in SUBSET SUBSET S
      OBVIOUS
    <2> HIDE DEF B
    <2> QED BY <1>1, <2>1, LeastSubset
  <1>3. CASE T = {}
    BY <1>3, FS_EmptySet DEF Adds
  <1>4. CASE T # {}
    <2> DEFINE r == T \ {Some(T)}
    <2>1. f[T] = g[Some(T)] + f[r]
      BY <1>4 DEF Adds
    <2>2. r \in SUBSET S /\ r \subseteq T /\ r # T /\ Some(T) \in S /\ Some(T) \in T
      BY <1>4, SomeFacts
    <2>3. OK(r)
      BY <1>2, <2>2
    <2>4. IsFiniteSet(T) /\ IsFiniteSet(r)
      BY <2>2, FS_Subset
    <2>5. Cardinality(r) = Cardinality(T) - 1 /\ Cardinality(T) \in Nat /\ Cardinality(r) \in Nat
      BY <2>2, <2>4, FS_RemoveElement, FS_CardinalityType
    <2> DEFINE n == Cardinality(r)
    <2>6. Cardinality(T) = n + 1 /\ n \in Nat
      BY <2>5
    <2>7. f[r] \in Nat /\ f[r] <= n * A /\ g[Some(T)] \in 0..A
      BY <2>2, <2>3
    <2> HIDE DEF n, r
    <2>8. n * A \in Nat /\ (n + 1) * A = n * A + A
      BY <2>6
    <2> QED BY <1>2, <2>1, <2>6, <2>7, <2>8
  <1> QED BY <1>3, <1>4

(* What the breaker's client counts as outstanding is such a sum.              *)
Lefts == [c \in Calls |-> Left(c)]
OwedSum == \E f : Adds(f, Lefts, Calls) /\ Outstanding = [w \in {Proc} |-> f[Calls]]
LEMMA OwedIsSum == OwedSum
  <1> DEFINE f == CHOOSE f : f = [s \in SUBSET Calls |->
                    IF s = {} THEN 0 ELSE Left(Some(s)) + f[s \ {Some(s)}]]
  <1>1. MapThenSumSet(Left, Calls) = f[Calls]
    BY Zenon DEF MapThenSumSet, MapThenFoldSet, Some
  <1>2. PICK h : Adds(h, Lefts, Calls)
    BY AddsExists, InferenceAssumption
  <1> DEFINE k == [s \in SUBSET Calls |-> h[s]]
  <1>3. k = [s \in SUBSET Calls |->
                    IF s = {} THEN 0 ELSE Left(Some(s)) + k[s \ {Some(s)}]]
    <2> SUFFICES ASSUME NEW s \in SUBSET Calls, s # {}
                 PROVE  h[s] = Left(Some(s)) + k[s \ {Some(s)}]
      BY <1>2 DEF Adds
    <2>1. Some(s) \in Calls /\ s \ {Some(s)} \in SUBSET Calls
      BY SomeFacts
    <2>2. h[s] = Lefts[Some(s)] + h[s \ {Some(s)}]
      BY <1>2 DEF Adds
    <2> QED BY <2>1, <2>2 DEF Lefts
  <1>4. f = [s \in SUBSET Calls |->
                    IF s = {} THEN 0 ELSE Left(Some(s)) + f[s \ {Some(s)}]]
    <2> HIDE DEF k
    <2> QED BY <1>3
  <1> HIDE DEF f
  <1>5. Adds(f, Lefts, Calls)
    <2> SUFFICES ASSUME NEW s \in SUBSET Calls, s # {}
                 PROVE  f[s] = Lefts[Some(s)] + f[s \ {Some(s)}]
      BY <1>4 DEF Adds
    <2>1. Some(s) \in Calls /\ s \ {Some(s)} \in SUBSET Calls
      BY SomeFacts
    <2>2. f[s] = Left(Some(s)) + f[s \ {Some(s)}]
      BY <1>4
    <2> QED BY <2>1, <2>2 DEF Lefts
  <1> QED BY <1>1, <1>5 DEF Outstanding, OwedSum

(* ------------------------------------------------------------- the calls -- *)

(* The calls' own variables, and a call that has not begun.                    *)
Places == {"idle", "queued", "pick", "probe", "store", "post", "backoff", "done"}
CallsOK ==
    /\ pc \in [Calls -> Places]
    /\ kind \in [Calls -> {"call", "stream"}]
    /\ attempt \in [Calls -> 0..MaxRetries]
    /\ url \in [Calls -> {"none", "primary", "nim"}]
    /\ \A c \in Calls : pc[c] = "idle" => attempt[c] = 0

LEMMA LeftType ==
    ASSUME CallsOK, NEW c \in Calls
    PROVE  Left(c) \in 0..Attempts
  BY InferenceAssumption DEF CallsOK, Left, InFlight, Attempts

(* A call moves itself only.                                                   *)
Moves(c) ==
    \E l \in Places, n \in 0..MaxRetries :
        pc' = [pc EXCEPT ![c] = l] /\ attempt' = [attempt EXCEPT ![c] = n]

(* What a step of a call is to the breaker: nothing, a question, or an outcome *)
(* of an attempt that it had left.                                             *)
Quiet(c) == UNCHANGED brk /\ Left(c)' = Left(c)
Asks(c) == /\ ~ Breaker!Blocked(Proc) /\ Breaker!IsOpen(Proc)
           /\ Left(c) = 0 /\ Left(c)' = Attempts
Reports(c) == /\ Left(c)' < Left(c)
              /\ \/ Breaker!RecordFailures(Proc, 1) \/ Breaker!RecordSuccess(Proc)
                 \/ UNCHANGED brk

(* The next iteration of the loop, or its end, whoever asks for it.            *)
LEMMA RetryFacts ==
    ASSUME CallsOK, NEW c \in Calls, pc[c] \in {"post", "backoff"}, Retry(c)
    PROVE  /\ Moves(c) /\ pc'[c] # "idle"
           /\ pc[c] = "backoff" => Left(c)' = Left(c)
           /\ pc[c] = "post" => Left(c)' < Left(c)
  <1> USE InferenceAssumption DEF CallsOK
  <1>1. CASE attempt[c] = MaxRetries
    <2>1. pc' = [pc EXCEPT ![c] = "done"] /\ attempt' = [attempt EXCEPT ![c] = attempt[c]]
      BY <1>1 DEF Retry, Finish, Goto
    <2>2. Moves(c)
      BY <2>1 DEF Moves, Places
    <2> QED BY <1>1, <2>1, <2>2 DEF Left, InFlight, Attempts
  <1>2. CASE attempt[c] # MaxRetries
    <2>1. /\ pc' = [pc EXCEPT ![c] = "pick"]
          /\ attempt' = [attempt EXCEPT ![c] = attempt[c] + 1]
          /\ attempt[c] + 1 \in 0..MaxRetries
      BY <1>2 DEF Retry, Goto
    <2>2. Moves(c)
      BY <2>1 DEF Moves, Places
    <2> QED BY <1>2, <2>1, <2>2 DEF Left, InFlight, Attempts
  <1> QED BY <1>1, <1>2

LEMMA BackoffFacts ==
    ASSUME CallsOK, NEW c \in Calls, pc[c] = "post", Backoff(c)
    PROVE  Moves(c) /\ pc'[c] # "idle" /\ Left(c)' < Left(c)
  <1> USE InferenceAssumption DEF CallsOK
  <1>1. pc' = [pc EXCEPT ![c] = "backoff"] /\ attempt' = [attempt EXCEPT ![c] = attempt[c]]
    BY DEF Backoff, Goto
  <1>2. Moves(c)
    BY <1>1 DEF Moves, Places
  <1> QED BY <1>1, <1>2 DEF Left, InFlight, Attempts

LEMMA FinishFacts ==
    ASSUME CallsOK, NEW c \in Calls, NEW a, Finish(c, a)
    PROVE  /\ Moves(c) /\ pc'[c] # "idle" /\ Left(c)' = 0
           /\ pc[c] = "post" => Left(c)' < Left(c)
  <1> USE InferenceAssumption DEF CallsOK
  <1>1. pc' = [pc EXCEPT ![c] = "done"] /\ attempt' = [attempt EXCEPT ![c] = attempt[c]]
    BY DEF Finish, Goto
  <1>2. Moves(c)
    BY <1>1 DEF Moves, Places
  <1> QED BY <1>1, <1>2 DEF Left, InFlight, Attempts

(* An answer ends the attempt, and is one outcome at most.                     *)
LEMMA AnswerFacts ==
    ASSUME CallsOK, NEW c \in Calls, NEW o \in Outcomes, Answer(c, o)
    PROVE  Moves(c) /\ pc'[c] # "idle" /\ Reports(c) /\ UNCHANGED <<kind, url>>
  <1>1. pc[c] = "post" /\ UNCHANGED <<kind, url>>
    BY DEF Answer
  <1>2. /\ \/ Retry(c) \/ Backoff(c) \/ \E a : Finish(c, a)
        /\ \/ Breaker!RecordFailures(Proc, 1) \/ Breaker!RecordSuccess(Proc)
           \/ UNCHANGED brk
    <2>1. CASE CallAnswer(c, o)
      BY <2>1 DEF CallAnswer, Fail
    <2>2. CASE StreamAnswer(c, o)
      BY <2>2 DEF StreamAnswer, Fail
    <2> QED BY <2>1, <2>2 DEF Answer
  <1> QED BY <1>1, <1>2, RetryFacts, BackoffFacts, FinishFacts DEF Reports

(* The steps before an answer: one asks the breaker, the others mean nothing   *)
(* to it.                                                                      *)
LEMMA WayFacts ==
    ASSUME CallsOK, NEW c \in Calls,
           Ask(c) \/ Acquire(c) \/ Pick(c) \/ Probe(c) \/ Store(c) \/ Wake(c) \/ Abandon(c)
    PROVE  /\ Moves(c) /\ (Quiet(c) \/ Asks(c) \/ Reports(c))
           /\ pc'[c] # "idle" /\ kind' = kind
           /\ url' \in [Calls -> {"none", "primary", "nim"}]
  <1> USE InferenceAssumption DEF CallsOK
  <1>1. CASE Ask(c)
    <2>1. CASE Finish(c, "circuit_open") /\ UNCHANGED brk
      <3>1. Left(c) = 0
        BY <1>1 DEF Ask, Left, InFlight
      <3> QED BY <1>1, <2>1, <3>1, FinishFacts DEF Ask, Quiet
    <2>2. CASE /\ ~Breaker!Blocked(Proc) /\ Breaker!IsOpen(Proc)
               /\ Goto(c, "queued") /\ UNCHANGED <<attempt, answer>>
      <3>1. pc' = [pc EXCEPT ![c] = "queued"] /\ attempt' = [attempt EXCEPT ![c] = attempt[c]]
        BY <2>2 DEF Goto
      <3>2. Moves(c)
        BY <3>1 DEF Moves, Places
      <3>3. Left(c) = 0 /\ Left(c)' = Attempts
        BY <1>1, <3>1 DEF Ask, Left, InFlight, Attempts
      <3> QED BY <1>1, <2>2, <3>1, <3>2, <3>3 DEF Ask, Asks
    <2> QED BY <1>1, <2>1, <2>2 DEF Ask
  <1>2. CASE Acquire(c) \/ Pick(c) \/ Probe(c) \/ Store(c)
    <2>1. /\ pc[c] \in {"queued", "pick", "probe", "store"}
          /\ \E l \in {"pick", "probe", "store", "post"} : pc' = [pc EXCEPT ![c] = l]
          /\ attempt' = [attempt EXCEPT ![c] = attempt[c]] /\ UNCHANGED <<brk, kind>>
      BY <1>2 DEF Acquire, Pick, Probe, Store, Goto
    <2>2. url' \in [Calls -> {"none", "primary", "nim"}]
      BY <1>2 DEF Acquire, Pick, Probe, Store
    <2>3. Moves(c)
      BY <2>1 DEF Moves, Places
    <2>4. Left(c)' = Left(c)
      BY <2>1 DEF Left, InFlight, Attempts
    <2> QED BY <2>1, <2>2, <2>3, <2>4 DEF Quiet
  <1>3. CASE Wake(c)
    <2>1. pc[c] = "backoff" /\ Retry(c) /\ UNCHANGED <<brk, kind, url>>
      BY <1>3 DEF Wake
    <2> QED BY <2>1, RetryFacts DEF Quiet
  <1>4. CASE Abandon(c)
    <2>1. Finish(c, "abandoned") /\ UNCHANGED <<brk, kind, url>>
      BY <1>4 DEF Abandon
    <2>2. Moves(c) /\ pc'[c] # "idle" /\ Left(c)' = 0
      BY <2>1, FinishFacts
    <2>3. Left(c) \in Nat
      BY LeftType DEF Attempts
    <2> QED BY <2>1, <2>2, <2>3 DEF Quiet, Reports
  <1> QED BY <1>1, <1>2, <1>3, <1>4

LEMMA CallSteps ==
    ASSUME CallsOK, NEW c \in Calls, Step(c) \/ Abandon(c)
    PROVE  /\ Moves(c) /\ (Quiet(c) \/ Asks(c) \/ Reports(c))
           /\ CallsOK'
  <1>1. /\ Moves(c) /\ (Quiet(c) \/ Asks(c) \/ Reports(c))
        /\ pc'[c] # "idle" /\ kind' = kind /\ url' \in [Calls -> {"none", "primary", "nim"}]
    <2>1. CASE \E o \in Outcomes : Answer(c, o)
      BY <2>1, AnswerFacts DEF CallsOK
    <2> QED BY <2>1, WayFacts DEF Step
  <1>2. PICK l \in Places, n \in 0..MaxRetries :
            pc' = [pc EXCEPT ![c] = l] /\ attempt' = [attempt EXCEPT ![c] = n]
    BY <1>1 DEF Moves
  <1>3. CallsOK'
    BY <1>1, <1>2 DEF CallsOK
  <1> QED BY <1>1, <1>3

(* ---------------------------------------------- the calls as the breaker's -- *)

(* What is outstanding changes by what one call has left.                      *)
LEMMA OwedChange ==
    ASSUME CallsOK, CallsOK', NEW c \in Calls, Moves(c)
    PROVE  /\ Outstanding \in [{Proc} -> Nat]
           /\ Left(c) <= Outstanding[Proc]
           /\ Outstanding' = [Outstanding EXCEPT ![Proc] = (@ - Left(c)) + Left(c)']
           /\ Left(c) = 0
              => Outstanding[Proc] + Attempts <= Cardinality(Calls) * Attempts
  <1> USE InferenceAssumption
  <1>0. Attempts \in Nat
    BY DEF Attempts
  <1>1. \A d \in Calls : Left(d) \in 0..Attempts
    BY LeftType
  <1>2. \A d \in Calls : Left(d)' \in 0..Attempts
    <2> TAKE d \in Calls
    <2> QED BY InferenceAssumption DEF CallsOK, Left, InFlight, Attempts
  <1>3. \A d \in Calls \ {c} : Left(d)' = Left(d)
    BY DEF CallsOK, Moves, Left, InFlight, Attempts
  <1>a. PICK now : now = Lefts
    OBVIOUS
  <1>b. PICK then : then = [d \in Calls |-> Left(d)']
    OBVIOUS
  <1>c. PICK none : none = [d \in Calls |-> IF d = c THEN 0 ELSE Left(d)]
    OBVIOUS
  <1>d. PICK full : full = [d \in Calls |-> IF d = c THEN Attempts ELSE Left(d)]
    OBVIOUS
  <1>4. PICK f : Adds(f, now, Calls) /\ Outstanding = [w \in {Proc} |-> f[Calls]]
    BY <1>a, OwedIsSum DEF OwedSum
  <1>5. OwedSum'
    BY OwedIsSum, PTL
  <1>6. Lefts' = then
    BY <1>b DEF Lefts
  <1>7. PICK h : Adds(h, then, Calls) /\ Outstanding' = [w \in {Proc} |-> h[Calls]]
    BY <1>5, <1>6 DEF OwedSum, Adds
  <1>8. PICK e : Adds(e, none, Calls)
    BY AddsExists
  <1>9. PICK u : Adds(u, full, Calls)
    BY AddsExists
  <1>10. f[Calls] \in Nat /\ h[Calls] \in Nat /\ h[Calls] + Left(c) = f[Calls] + Left(c)'
    <2>1. /\ \A d \in Calls : now[d] \in Nat /\ then[d] \in Nat
          /\ \A d \in Calls \ {c} : now[d] = then[d]
          /\ now[c] = Left(c) /\ then[c] = Left(c)' /\ Calls \in SUBSET Calls
      BY <1>0, <1>1, <1>2, <1>3, <1>a, <1>b DEF Lefts
    <2>2. SameBut(now, then, c, Calls)
      BY <2>1 DEF SameBut
    <2>3. IsFiniteSet(Calls)
      BY InferenceAssumption
    <2>4. f[Calls] \in Nat /\ h[Calls] \in Nat /\ h[Calls] + now[c] = f[Calls] + then[c]
      BY <1>4, <1>7, <2>2, <2>3, AddsTotal
    <2> QED BY <2>1, <2>4
  <1>11. e[Calls] \in Nat /\ e[Calls] + Left(c) = f[Calls]
    <2>1. /\ \A d \in Calls : now[d] \in Nat /\ none[d] \in Nat
          /\ \A d \in Calls \ {c} : now[d] = none[d]
          /\ now[c] = Left(c) /\ none[c] = 0 /\ Calls \in SUBSET Calls
      BY <1>0, <1>1, <1>a, <1>c DEF Lefts
    <2>2. SameBut(now, none, c, Calls)
      BY <2>1 DEF SameBut
    <2>3. IsFiniteSet(Calls)
      BY InferenceAssumption
    <2>4. f[Calls] \in Nat /\ e[Calls] \in Nat /\ e[Calls] + now[c] = f[Calls] + none[c]
      BY <1>4, <1>8, <2>2, <2>3, AddsTotal
    <2> QED BY <2>1, <2>4
  <1>12. u[Calls] \in Nat /\ u[Calls] + Left(c) = f[Calls] + Attempts
    <2>1. /\ \A d \in Calls : now[d] \in Nat /\ full[d] \in Nat
          /\ \A d \in Calls \ {c} : now[d] = full[d]
          /\ now[c] = Left(c) /\ full[c] = Attempts /\ Calls \in SUBSET Calls
      BY <1>0, <1>1, <1>a, <1>d DEF Lefts
    <2>2. SameBut(now, full, c, Calls)
      BY <2>1 DEF SameBut
    <2>3. IsFiniteSet(Calls)
      BY InferenceAssumption
    <2>4. f[Calls] \in Nat /\ u[Calls] \in Nat /\ u[Calls] + now[c] = f[Calls] + full[c]
      BY <1>4, <1>9, <2>2, <2>3, AddsTotal
    <2> QED BY <2>1, <2>4
  <1>13. u[Calls] <= Cardinality(Calls) * Attempts
    <2>1. \A d \in Calls : full[d] \in 0..Attempts
      BY <1>0, <1>1, <1>d
    <2> QED BY <1>0, <1>9, <2>1, AddsBounded
  <1>14. Left(c) \in Nat /\ Left(c)' \in Nat /\ h[Calls] = (f[Calls] - Left(c)) + Left(c)'
    BY <1>0, <1>1, <1>2, <1>10
  <1>15. Outstanding \in [{Proc} -> Nat] /\ Outstanding[Proc] = f[Calls]
    BY <1>4, <1>10
  <1>16. Outstanding' = [Outstanding EXCEPT ![Proc] = (@ - Left(c)) + Left(c)']
    BY <1>4, <1>7, <1>14
  <1>17. Left(c) <= Outstanding[Proc]
    BY <1>11, <1>14, <1>15
  <1>18. Left(c) = 0 => Outstanding[Proc] + Attempts <= Cardinality(Calls) * Attempts
    BY <1>10, <1>12, <1>13, <1>15
  <1> QED BY <1>15, <1>16, <1>17, <1>18

(* Nothing is outstanding before the first call.                               *)
LEMMA OwesNothing ==
    ASSUME Init PROVE Outstanding = [w \in {Proc} |-> 0]
  <1>1. PICK f : Adds(f, Lefts, Calls) /\ Outstanding = [w \in {Proc} |-> f[Calls]]
    BY OwedIsSum DEF OwedSum
  <1>2. \A d \in Calls : Lefts[d] \in 0..0
    BY DEF Init, Lefts, Left, InFlight
  <1>3. IsFiniteSet(Calls) /\ Cardinality(Calls) \in Nat
    BY InferenceAssumption, FS_CardinalityType
  <1>4. \A s \in SUBSET Calls : f[s] \in Nat /\ f[s] <= Cardinality(s) * 0
    BY <1>1, <1>2, <1>3, AddsBounded
  <1>5. f[Calls] = 0
    BY <1>3, <1>4
  <1> QED BY <1>1, <1>5

(* A step of a call is a step of the breaker's clients, or none.               *)
LEMMA CallRefines ==
    ASSUME CallsOK, NEW c \in Calls, Step(c) \/ Abandon(c)
    PROVE  [Breaker!Next]_(Breaker!vars)
  <1>1. Moves(c) /\ (Quiet(c) \/ Asks(c) \/ Reports(c)) /\ CallsOK'
    BY CallSteps
  <1>2. /\ Outstanding \in [{Proc} -> Nat] /\ Left(c) <= Outstanding[Proc]
        /\ Outstanding' = [Outstanding EXCEPT ![Proc] = (@ - Left(c)) + Left(c)']
        /\ Left(c) = 0 => Outstanding[Proc] + Attempts <= Cardinality(Calls) * Attempts
    BY <1>1, OwedChange
  <1>3. /\ Left(c) \in Nat /\ Left(c)' \in Nat /\ Attempts \in Nat
    <2>1. Left(c)' \in 0..Attempts
      BY <1>1, InferenceAssumption DEF CallsOK, Left, InFlight, Attempts
    <2> QED BY <2>1, LeftType, InferenceAssumption DEF Attempts
  <1>4. CASE Quiet(c)
    <2>1. Outstanding' = Outstanding
      BY <1>2, <1>3, <1>4 DEF Quiet
    <2> QED BY <1>4, <2>1 DEF Quiet, Breaker!vars, Breaker!brk, brk
  <1>5. CASE Asks(c)
    <2>0. (Outstanding[Proc] - Left(c)) + Left(c)' = Outstanding[Proc] + Attempts
      BY <1>2, <1>3, <1>5 DEF Asks
    <2>1. Outstanding' = [Outstanding EXCEPT ![Proc] = @ + Attempts]
      BY <1>2, <2>0
    <2>2. Breaker!Admit(Proc)
      BY <1>2, <1>5, <2>1 DEF Asks, Breaker!Admit
    <2> QED BY <2>2 DEF Breaker!Next
  <1>6. CASE Reports(c)
    <2>1. PICK n \in 1..Outstanding[Proc] : n = Left(c) - Left(c)'
      BY <1>2, <1>3, <1>6 DEF Reports
    <2>0. (Outstanding[Proc] - Left(c)) + Left(c)' = Outstanding[Proc] - n
      BY <1>2, <1>3, <2>1
    <2>2. Outstanding' = [Outstanding EXCEPT ![Proc] = @ - n]
      BY <1>2, <2>0
    <2>3. Breaker!Attempt(Proc)
      BY <1>6, <2>2 DEF Reports, Breaker!Attempt, Breaker!brk, brk
    <2> QED BY <2>3 DEF Breaker!Next
  <1> QED BY <1>1, <1>4, <1>5, <1>6

(* What happens without a call leaves what is outstanding alone.               *)
LEMMA StillOwed ==
    ASSUME UNCHANGED <<pc, attempt>> PROVE Outstanding' = Outstanding
  <1>1. PICK f : Adds(f, Lefts, Calls) /\ Outstanding = [w \in {Proc} |-> f[Calls]]
    BY OwedIsSum DEF OwedSum
  <1>2. OwedSum'
    BY OwedIsSum, PTL
  <1>3. Lefts' = Lefts
    BY DEF Lefts, Left, InFlight
  <1>4. PICK h : Adds(h, Lefts, Calls) /\ Outstanding' = [w \in {Proc} |-> h[Calls]]
    BY <1>2, <1>3 DEF OwedSum, Adds
  <1>5. \A s \in SUBSET Calls : f[s] = h[s]
    BY <1>1, <1>4, AddsUnique, InferenceAssumption
  <1> QED BY <1>1, <1>4, <1>5

LEMMA EnvRefines ==
    ASSUME ExpireVerdict \/ BreakerEnv \/ UNCHANGED vars
    PROVE  [Breaker!Next]_(Breaker!vars)
  <1>1. Outstanding' = Outstanding
    BY StillOwed DEF ExpireVerdict, BreakerEnv, vars
  <1>2. CASE ExpireVerdict \/ UNCHANGED vars
    BY <1>1, <1>2 DEF ExpireVerdict, vars, brk, Breaker!vars, Breaker!brk
  <1>3. CASE BreakerEnv
    BY <1>1, <1>3 DEF BreakerEnv, Breaker!Next
  <1> QED BY <1>2, <1>3

LEMMA CallsTyped == Spec => []CallsOK
  <1>1. Init => CallsOK
    BY InferenceAssumption DEF Init, CallsOK, Places
  <1>2. CallsOK /\ [Next]_vars => CallsOK'
    <2> SUFFICES ASSUME CallsOK, [Next]_vars PROVE CallsOK'
      OBVIOUS
    <2>1. CASE ExpireVerdict \/ BreakerEnv \/ UNCHANGED vars
      BY <2>1 DEF ExpireVerdict, BreakerEnv, vars, CallsOK
    <2> QED BY <2>1, CallSteps DEF Next
  <1> QED BY <1>1, <1>2, PTL DEF Spec

(* The calls use the breaker as its own module describes it: whatever the      *)
(* retry loops do, none is admitted while the circuit is open, and one that    *)
(* was admitted reports at most one outcome per attempt, so that everything    *)
(* said of CircuitBreaker holds of the calls (nim.py, circuit_breaker.py).     *)
THEOREM CallsUseBreaker == Spec => UsesBreaker
  <1>1. Init => Breaker!Init
    <2> SUFFICES ASSUME Init PROVE Breaker!Init
      OBVIOUS
    <2>1. [w \in {Proc} |-> FALSE] = [w \in {Proc} |-> w \in {}]
      <3>1. \A w \in {Proc} : FALSE = (w \in {})
        OBVIOUS
      <3> QED BY Zenon, <3>1
    <2> QED BY <2>1, OwesNothing DEF Init, Breaker!Init
  <1>2. CallsOK /\ [Next]_vars => [Breaker!Next]_(Breaker!vars)
    <2> SUFFICES ASSUME CallsOK, [Next]_vars PROVE [Breaker!Next]_(Breaker!vars)
      OBVIOUS
    <2> QED BY CallRefines, EnvRefines DEF Next
  <1> QED BY <1>1, <1>2, CallsTyped, PTL DEF Spec, UsesBreaker, Breaker!Spec

(* ------------------------------------------------- a primary that fails -- *)

(* The semaphore: no more calls than slots are between it and their end.       *)
Holders == {d \in Calls : HoldsSlot(d)}
SlotsOK == Cardinality(Holders) <= Slots

LEMMA HoldersFinite ==
    /\ IsFiniteSet(Holders) /\ Cardinality(Holders) \in Nat
    /\ IsFiniteSet(Holders') /\ Cardinality(Holders') \in Nat
  <1>1. Holders \in SUBSET Calls /\ Holders' \in SUBSET Calls
    BY DEF Holders
  <1> QED BY <1>1, InferenceAssumption, FS_Subset, FS_CardinalityType

LEMMA SlotsKept ==
    ASSUME CallsOK, SlotsOK, [Next]_vars PROVE SlotsOK'
  <1> USE InferenceAssumption DEF CallsOK, Places
  <1>1. ASSUME NEW c \in Calls, Acquire(c) PROVE SlotsOK'
    <2>1. Cardinality(Holders) < Slots /\ pc' = [pc EXCEPT ![c] = "pick"]
      BY <1>1 DEF Acquire, Holders, Goto
    <2>2. Holders' = Holders \cup {c}
      BY <2>1 DEF Holders, HoldsSlot
    <2>3. Cardinality(Holders') <= Cardinality(Holders) + 1
      BY <2>2, HoldersFinite, FS_AddElement
    <2> QED BY <2>1, <2>3, HoldersFinite DEF SlotsOK
  <1>2. ASSUME Holders' \subseteq Holders PROVE SlotsOK'
    <2>1. Cardinality(Holders') <= Cardinality(Holders)
      BY <1>2, HoldersFinite, FS_Subset
    <2> QED BY <2>1, HoldersFinite DEF SlotsOK
  <1>3. ASSUME NEW c \in Calls, NEW l \in Places, pc' = [pc EXCEPT ![c] = l],
               pc[c] \in {"pick", "probe", "store", "post", "backoff"}
                  \/ l \in {"queued", "done"}
        PROVE  SlotsOK'
    <2>1. Holders' \subseteq Holders
      BY <1>3 DEF Holders, HoldsSlot
    <2> QED BY <1>2, <2>1
  <1>4. ASSUME NEW c \in Calls, Ask(c) \/ Abandon(c) PROVE SlotsOK'
    <2>1. \E l \in {"queued", "done"} : pc' = [pc EXCEPT ![c] = l]
      BY <1>4 DEF Ask, Abandon, Finish, Goto
    <2> QED BY <1>3, <2>1
  <1>5. ASSUME NEW c \in Calls, Pick(c) \/ Probe(c) \/ Store(c) PROVE SlotsOK'
    <2>1. /\ pc[c] \in {"pick", "probe", "store"}
          /\ \E l \in {"probe", "store", "post"} : pc' = [pc EXCEPT ![c] = l]
      BY <1>5 DEF Pick, Probe, Store, Goto
    <2> QED BY <1>3, <2>1
  <1>6. ASSUME NEW c \in Calls, Wake(c) \/ \E o \in Outcomes : Answer(c, o) PROVE SlotsOK'
    <2>1. Moves(c) /\ pc[c] \in {"post", "backoff"}
      BY <1>6, WayFacts, AnswerFacts DEF Wake, Answer
    <2> QED BY <1>3, <2>1 DEF Moves
  <1>7. CASE ExpireVerdict \/ BreakerEnv \/ UNCHANGED vars
    <2>1. Holders' = Holders
      BY <1>7 DEF ExpireVerdict, BreakerEnv, vars, Holders, HoldsSlot
    <2> QED BY <1>2, <2>1
  <1> QED BY <1>1, <1>4, <1>5, <1>6, <1>7 DEF Next, Step

(* The calls that may still store that the primary is up.                      *)
Fresh == {c \in Calls : pc[c] = "probe" \/ (pc[c] = "store" /\ url[c] = "primary")}

(* How often the primary may still be declared up before a verdict expires: by *)
(* every slot while there is no verdict, and by those that are about to.       *)
Lures == IF verdict = "none" THEN Slots ELSE Cardinality(Fresh)

(* The attempts the primary has spoilt, and the one it may be spoiling.        *)
Lured(c) == verdict = "up" \/ (pc[c] = "post" /\ url[c] = "primary")
Spoiled(c) == spoilt[c] + (IF Lured(c) THEN 1 ELSE 0)

HealthOK ==
    /\ verdict \in {"none", "up", "down"} /\ local = "none" /\ expiries \in Nat
    /\ spoilt \in [Calls -> Nat]
    /\ \A c \in Calls : pc[c] \in {"store", "post"} => url[c] \in {"primary", "nim"}
LuresOK == \A c \in Calls : Spoiled(c) + Lures <= Slots * (expiries + 1)
OutageInv == CallsOK /\ SlotsOK /\ HealthOK /\ LuresOK

(* A step spoils nothing that was not lured, or it is one of the lures.        *)
Wears == /\ expiries' = expiries
         /\ \/ Lures' <= Lures /\ \A d \in Calls : Spoiled(d)' <= Spoiled(d)
            \/ Lures' + 1 <= Lures /\ \A d \in Calls : Spoiled(d)' <= Spoiled(d) + 1

LEMMA FreshFinite ==
    /\ IsFiniteSet(Fresh) /\ Cardinality(Fresh) \in Nat
    /\ Cardinality(Fresh) <= Cardinality(Holders)
    /\ IsFiniteSet(Fresh') /\ Cardinality(Fresh') \in Nat
    /\ Cardinality(Fresh') <= Cardinality(Holders')
  <1>1. Fresh \subseteq Holders /\ Fresh' \subseteq Holders'
    BY DEF Fresh, Holders, HoldsSlot
  <1> QED BY <1>1, HoldersFinite, FS_Subset, FS_CardinalityType

LEMMA LuresType ==
    ASSUME SlotsOK, HealthOK
    PROVE  /\ Lures \in 0..Slots /\ Slots \in Nat /\ \A d \in Calls : Spoiled(d) \in Nat
           /\ Cardinality(Fresh) \in 0..Slots
  BY FreshFinite, HoldersFinite, InferenceAssumption DEF SlotsOK, HealthOK, Lures, Spoiled

(* Until the verdict expires, no lure is added.                                *)
LEMMA LuresShrink ==
    ASSUME SlotsOK, HealthOK, SlotsOK', HealthOK', UNCHANGED expiries,
           verdict # "none" => verdict' # "none" /\ Fresh' \subseteq Fresh
    PROVE  Lures' <= Lures
  <1>1. Lures \in 0..Slots /\ Slots \in Nat
    BY LuresType
  <1>2. Lures' \in 0..Slots
    BY FreshFinite, HoldersFinite, InferenceAssumption DEF SlotsOK, Lures
  <1>3. verdict # "none" => Cardinality(Fresh') <= Cardinality(Fresh)
    BY FreshFinite, FS_Subset
  <1> QED BY <1>1, <1>2, <1>3, FreshFinite DEF Lures

(* A verdict that expires lets every slot declare the primary up once more.    *)
LEMMA ExpiryInvites ==
    ASSUME OutageInv, SlotsOK', ExpireVerdict
    PROVE  HealthOK' /\ LuresOK'
  <1>1. /\ verdict' = "none" /\ expiries' = expiries + 1
        /\ UNCHANGED <<local, spoilt, pc, url>>
    BY DEF ExpireVerdict, OutageInv, HealthOK
  <1>2. HealthOK'
    BY <1>1 DEF OutageInv, HealthOK
  <1>3. ASSUME NEW d \in Calls PROVE Spoiled(d)' + Lures' <= Slots * (expiries' + 1)
    <2>1. Spoiled(d) + Lures <= Slots * (expiries + 1)
      BY DEF OutageInv, LuresOK
    <2>2. /\ Lures \in Nat /\ Slots \in Nat /\ Spoiled(d) \in Nat /\ expiries \in Nat
      BY LuresType DEF OutageInv, HealthOK
    <2>3. Spoiled(d)' \in Nat /\ Spoiled(d)' <= Spoiled(d) /\ Lures' = Slots
      BY <1>1 DEF Spoiled, Lured, Lures, OutageInv, HealthOK
    <2>4. Slots * (expiries' + 1) = Slots * (expiries + 1) + Slots
          /\ Slots * (expiries + 1) \in Nat
      BY <1>1, <2>2
    <2> QED BY <2>1, <2>2, <2>3, <2>4
  <1> QED BY <1>2, <1>3 DEF LuresOK

(* The breaker's clock and its writes touch neither verdicts nor calls.        *)
LEMMA ClockWears ==
    ASSUME OutageInv, SlotsOK', BreakerEnv \/ UNCHANGED vars
    PROVE  HealthOK' /\ Wears
  <1>1. UNCHANGED <<health, pc, kind, attempt, url>>
    BY DEF BreakerEnv, vars
  <1>2. HealthOK'
    BY <1>1 DEF OutageInv, HealthOK, health
  <1>3. Lures' = Lures
    BY <1>1 DEF Lures, Fresh, health
  <1>4. Lures \in Nat /\ \A d \in Calls : Spoiled(d) \in Nat
    BY LuresType DEF OutageInv
  <1>5. \A d \in Calls : Spoiled(d)' = Spoiled(d)
    BY <1>1 DEF Spoiled, Lured, health
  <1> QED BY <1>1, <1>2, <1>3, <1>4, <1>5 DEF Wears, health

(* The steps of a call to its endpoint: one more finds the primary up only if  *)
(* it was declared so.                                                         *)
LEMMA WayWears ==
    ASSUME OutageInv, flaky = FALSE, NEW c \in Calls, CallsOK', SlotsOK',
           Ask(c) \/ Acquire(c) \/ Pick(c) \/ Probe(c) \/ Abandon(c) \/ Wake(c)
    PROVE  HealthOK' /\ Wears
  <1> USE DEF OutageInv, CallsOK, Places
  <1>1. UNCHANGED health
    BY DEF Ask, Acquire, Pick, Probe, Abandon, Wake
  <1>2. ASSUME NEW l \in Places, pc' = [pc EXCEPT ![c] = l], UNCHANGED url,
               l \notin {"probe", "store", "post"}
        PROVE  HealthOK' /\ Wears
    <2>1. Fresh' \subseteq Fresh /\ HealthOK'
      BY <1>1, <1>2 DEF Fresh, HealthOK, health
    <2>2. Lures' <= Lures
      BY <1>1, <2>1, LuresShrink DEF health
    <2>3. \A d \in Calls : Spoiled(d)' <= Spoiled(d)
      BY <1>1, <1>2 DEF Spoiled, Lured, health, HealthOK
    <2> QED BY <1>1, <2>1, <2>2, <2>3 DEF Wears, health
  <1>3. CASE Ask(c) \/ Acquire(c) \/ Abandon(c)
    <2>1. /\ \E l \in {"queued", "pick", "done"} : pc' = [pc EXCEPT ![c] = l]
          /\ UNCHANGED url
      BY <1>3 DEF Ask, Acquire, Abandon, Finish, Goto
    <2> QED BY <1>2, <2>1
  <1>4. CASE Wake(c)
    <2>1. (\E l \in {"pick", "done"} : pc' = [pc EXCEPT ![c] = l]) /\ UNCHANGED url
      BY <1>4 DEF Wake, Retry, Finish, Goto
    <2> QED BY <1>2, <2>1
  <1>5. CASE Pick(c)
    <2>1. /\ pc[c] = "pick"
          /\ \/ verdict = "none" /\ pc' = [pc EXCEPT ![c] = "probe"] /\ url' = url
             \/ /\ pc' = [pc EXCEPT ![c] = "post"]
                /\ \/ url' = [url EXCEPT ![c] = "nim"]
                   \/ verdict = "up" /\ url' = [url EXCEPT ![c] = "primary"]
      BY <1>5 DEF Pick, Goto, Cached, HealthOK
    <2>2. verdict # "none" => Fresh' \subseteq Fresh
      BY <2>1 DEF Fresh
    <2>3. HealthOK'
      BY <1>1, <2>1 DEF HealthOK, health
    <2>4. Lures' <= Lures
      BY <1>1, <2>2, <2>3, LuresShrink DEF health
    <2>5. \A d \in Calls : Spoiled(d)' <= Spoiled(d)
      BY <1>1, <2>1 DEF Spoiled, Lured, health, HealthOK
    <2> QED BY <1>1, <2>3, <2>4, <2>5 DEF Wears, health
  <1>6. CASE Probe(c)
    <2>1. /\ pc[c] = "probe" /\ pc' = [pc EXCEPT ![c] = "store"]
          /\ \E u \in {"primary", "nim"} : url' = [url EXCEPT ![c] = u]
      BY <1>6 DEF Probe, Goto
    <2>2. Fresh' \subseteq Fresh /\ HealthOK'
      BY <1>1, <2>1 DEF Fresh, HealthOK, health
    <2>3. Lures' <= Lures
      BY <1>1, <2>2, LuresShrink DEF health
    <2>4. \A d \in Calls : Spoiled(d)' <= Spoiled(d)
      BY <1>1, <2>1 DEF Spoiled, Lured, health, HealthOK
    <2> QED BY <1>1, <2>2, <2>3, <2>4 DEF Wears, health
  <1> QED BY <1>3, <1>4, <1>5, <1>6

(* A probe that found the primary up is a lure that is used.                   *)
LEMMA StoreWears ==
    ASSUME OutageInv, flaky = FALSE, NEW c \in Calls, CallsOK', SlotsOK', Store(c)
    PROVE  HealthOK' /\ Wears
  <1> USE DEF OutageInv, CallsOK, Places
  <1>1. /\ pc[c] = "store" /\ pc' = [pc EXCEPT ![c] = "post"]
        /\ verdict' = (IF url[c] = "primary" THEN "up" ELSE "down")
        /\ UNCHANGED <<local, expiries, spoilt, url>>
    BY DEF Store, SetCached, Goto
  <1>2. HealthOK'
    BY <1>1 DEF HealthOK
  <1>3. Fresh' = Fresh \ {c}
    BY <1>1 DEF Fresh
  <1>4. CASE url[c] = "primary"
    <2>1. c \in Fresh /\ verdict' = "up"
      BY <1>1, <1>4 DEF Fresh
    <2>2. /\ Cardinality(Fresh) \in 0..Slots /\ Slots \in Nat
          /\ Cardinality(Fresh') = Cardinality(Fresh) - 1
      BY <1>3, <2>1, LuresType, FreshFinite, FS_RemoveElement
    <2>3. Lures' + 1 <= Lures
      BY <2>1, <2>2 DEF Lures
    <2>4. \A d \in Calls : Spoiled(d)' <= Spoiled(d) + 1
      BY <1>1 DEF Spoiled, HealthOK
    <2> QED BY <1>1, <1>2, <2>3, <2>4 DEF Wears
  <1>5. CASE url[c] # "primary"
    <2>1. verdict' = "down"
      BY <1>1, <1>5
    <2>2. Lures' <= Lures
      BY <1>1, <1>2, <1>3, <2>1, LuresShrink
    <2>3. \A d \in Calls : Spoiled(d)' <= Spoiled(d)
      BY <1>1, <1>5, <2>1 DEF Spoiled, Lured, HealthOK
    <2> QED BY <1>1, <1>2, <2>2, <2>3 DEF Wears
  <1> QED BY <1>4, <1>5

(* An answer: a failure of the primary is counted where it was lured.          *)
LEMMA AnswerWears ==
    ASSUME OutageInv, flaky = FALSE, NEW c \in Calls, CallsOK', SlotsOK',
           NEW o \in Outcomes, Answer(c, o)
    PROVE  HealthOK' /\ Wears
  <1> USE DEF OutageInv, CallsOK, Places
  <1>1. /\ pc[c] = "post" /\ url' = url
        /\ \E l \in {"pick", "backoff", "done"} : pc' = [pc EXCEPT ![c] = l]
    <2>1. Retry(c) \/ Backoff(c) \/ \E a : Finish(c, a)
      <3>1. CASE CallAnswer(c, o)
        BY <3>1 DEF CallAnswer
      <3>2. CASE StreamAnswer(c, o)
        BY <3>2 DEF StreamAnswer
      <3> QED BY <3>1, <3>2 DEF Answer
    <2> QED BY <2>1 DEF Answer, Retry, Backoff, Finish, Goto
  <1>2. \/ UNCHANGED health
        \/ url[c] = "primary" /\ MarkPrimaryUnhealthy(c)
    <2>1. CASE CallAnswer(c, o)
      BY <2>1 DEF CallAnswer, NoMark, Fail
    <2>2. CASE StreamAnswer(c, o)
      BY <2>2 DEF StreamAnswer, NoMark, Fail
    <2> QED BY <2>1, <2>2 DEF Answer
  <1>3. CASE UNCHANGED health
    <2>1. Fresh' \subseteq Fresh /\ HealthOK'
      BY <1>1, <1>3 DEF Fresh, HealthOK, health
    <2>2. Lures' <= Lures
      BY <1>3, <2>1, LuresShrink DEF health
    <2>3. \A d \in Calls : Spoiled(d)' <= Spoiled(d)
      BY <1>1, <1>3 DEF Spoiled, Lured, health, HealthOK
    <2> QED BY <1>3, <2>1, <2>2, <2>3 DEF Wears, health
  <1>4. CASE url[c] = "primary" /\ MarkPrimaryUnhealthy(c)
    <2>1. /\ verdict' = "down" /\ spoilt' = [spoilt EXCEPT ![c] = @ + 1]
          /\ UNCHANGED <<local, expiries>>
      BY <1>4 DEF MarkPrimaryUnhealthy, SetCached
    <2>2. Fresh' \subseteq Fresh /\ HealthOK'
      BY <1>1, <2>1 DEF Fresh, HealthOK
    <2>3. Lures' <= Lures
      BY <2>1, <2>2, LuresShrink
    <2>4. \A d \in Calls : Spoiled(d)' <= Spoiled(d)
      BY <1>1, <1>4, <2>1 DEF Spoiled, Lured, HealthOK
    <2> QED BY <2>1, <2>2, <2>3, <2>4 DEF Wears
  <1> QED BY <1>2, <1>3, <1>4

LEMMA OutageStep ==
    ASSUME OutageInv, flaky = FALSE, [Next]_vars
    PROVE  OutageInv'
  <1>0. SlotsOK'
    BY SlotsKept DEF OutageInv
  <1>1. CallsOK'
    <2>1. CASE ExpireVerdict \/ BreakerEnv \/ UNCHANGED vars
      BY <2>1 DEF ExpireVerdict, BreakerEnv, vars, OutageInv, CallsOK
    <2> QED BY <2>1, CallSteps DEF Next, OutageInv
  <1>2. CASE ExpireVerdict
    BY <1>0, <1>1, <1>2, ExpiryInvites DEF OutageInv
  <1>3. CASE ~ ExpireVerdict
    <2>1. HealthOK' /\ Wears
      <3>1. CASE BreakerEnv \/ UNCHANGED vars
        BY <1>0, <3>1, ClockWears
      <3>2. CASE \E c \in Calls : Step(c) \/ Abandon(c)
        BY <1>0, <1>1, <3>2, WayWears, StoreWears, AnswerWears DEF Step
      <3> QED BY <1>3, <3>1, <3>2 DEF Next
    <2>2. ASSUME NEW d \in Calls PROVE Spoiled(d)' + Lures' <= Slots * (expiries' + 1)
      <3>1. Spoiled(d) + Lures <= Slots * (expiries + 1) /\ expiries' = expiries
        BY <2>1 DEF OutageInv, LuresOK, Wears
      <3>n. Slots * (expiries + 1) \in Nat
        BY InferenceAssumption DEF OutageInv, HealthOK
      <3>2. Lures \in Nat /\ Spoiled(d) \in Nat
        BY LuresType DEF OutageInv
      <3>3. Lures' \in Nat /\ Spoiled(d)' \in Nat
        BY <2>1, FreshFinite, InferenceAssumption DEF Lures, Spoiled, HealthOK
      <3>4. \/ Lures' <= Lures /\ Spoiled(d)' <= Spoiled(d)
            \/ Lures' + 1 <= Lures /\ Spoiled(d)' <= Spoiled(d) + 1
        BY <2>1 DEF Wears
      <3>5. \A a, b, x, y \in Nat :
               \/ x <= a /\ y <= b
               \/ x + 1 <= a /\ y <= b + 1
               => y + x <= b + a
        OBVIOUS
      <3>6. Spoiled(d)' + Lures' <= Spoiled(d) + Lures
        BY <3>2, <3>3, <3>4, <3>5
      <3> QED BY <3>1, <3>n, <3>2, <3>3, <3>6
    <2> QED BY <1>0, <1>1, <2>1, <2>2 DEF OutageInv, LuresOK
  <1> QED BY <1>2, <1>3

(* For any requests, slots and retries and whatever the endpoints answer: while *)
(* Redis answers, a primary that fails spoils no more attempts of a call than   *)
(* there are slots, once more for every verdict that expires (endpoint.py,      *)
(* nim.py). A call that has more attempts than that gets past the primary.      *)
THEOREM PrimaryLeft == Spec => []PrimaryIsLeft
  <1> DEFINE Inv == flaky \in BOOLEAN /\ (flaky \/ OutageInv)
  <1>1. Init => Inv
    <2> SUFFICES ASSUME Init PROVE Inv
      OBVIOUS
    <2>1. CallsOK /\ HealthOK /\ flaky \in BOOLEAN
      BY InferenceAssumption DEF Init, CallsOK, Places, HealthOK
    <2>2. SlotsOK
      <3>1. Holders = {}
        BY DEF Init, Holders, HoldsSlot
      <3> QED BY <3>1, FS_EmptySet, InferenceAssumption DEF SlotsOK
    <2>3. \A d \in Calls : Spoiled(d) = 0 /\ Lures = Slots /\ expiries = 0
      BY DEF Init, Spoiled, Lured, Lures
    <2>4. LuresOK
      BY <2>3, InferenceAssumption DEF LuresOK
    <2> QED BY <2>1, <2>2, <2>4 DEF OutageInv
  <1>2. Inv /\ [Next]_vars => Inv'
    <2> SUFFICES ASSUME Inv, [Next]_vars PROVE Inv'
      OBVIOUS
    <2>1. flaky' = flaky
      <3>1. CASE \E c \in Calls : Step(c) \/ Abandon(c)
        <4>1. PICK c \in Calls : Step(c) \/ Abandon(c)
          BY <3>1
        <4>2. CASE Store(c)
          BY <4>2 DEF Store
        <4>3. ASSUME NEW o \in Outcomes, Answer(c, o) PROVE flaky' = flaky
          <5>1. CASE CallAnswer(c, o)
            BY <5>1 DEF CallAnswer, NoMark, Fail, health, MarkPrimaryUnhealthy
          <5>2. CASE StreamAnswer(c, o)
            BY <5>2 DEF StreamAnswer, NoMark, Fail, health, MarkPrimaryUnhealthy
          <5> QED BY <4>3, <5>1, <5>2 DEF Answer
        <4>4. CASE Ask(c) \/ Acquire(c) \/ Pick(c) \/ Probe(c) \/ Wake(c) \/ Abandon(c)
          BY <4>4 DEF Ask, Acquire, Pick, Probe, Wake, Abandon, health
        <4> QED BY <4>1, <4>2, <4>3, <4>4 DEF Step
      <3>2. CASE ExpireVerdict \/ BreakerEnv \/ UNCHANGED vars
        BY <3>2 DEF ExpireVerdict, BreakerEnv, vars, health
      <3> QED BY <3>1, <3>2 DEF Next
    <2> QED BY <2>1, OutageStep
  <1>3. Inv => PrimaryIsLeft
    <2> SUFFICES ASSUME OutageInv, NEW c \in Calls
                 PROVE  spoilt[c] <= Slots * (expiries + 1)
      BY DEF PrimaryIsLeft
    <2>1. Spoiled(c) + Lures <= Slots * (expiries + 1) /\ Slots * (expiries + 1) \in Nat
      BY InferenceAssumption DEF OutageInv, LuresOK, HealthOK
    <2>2. Lures \in Nat /\ spoilt[c] \in Nat /\ spoilt[c] <= Spoiled(c) /\ Spoiled(c) \in Nat
      BY LuresType DEF OutageInv, HealthOK, Spoiled
    <2> QED BY <2>1, <2>2
  <1> QED BY <1>1, <1>2, <1>3, PTL DEF Spec

===============================================================================
