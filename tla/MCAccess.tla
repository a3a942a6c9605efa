------------------------------- MODULE MCAccess -------------------------------
(* What decides whether a request goes ahead, for TLC: the limiter, the cost     *)
(* caps, registration and the circuit breaker, side by side. What each of them   *)
(* guards lives in rows, keys or counters of its own, so a behaviour is about    *)
(* one of them.                                                                  *)
EXTENDS RateLimiter, Spending, Registration, CircuitBreaker, TLC

VARIABLE focus   \* the part a behaviour is about

accessVars == <<focus, rlVars, spendVars, regVars, vars>>

MCRateOf == [k \in Keys |-> 2]
(* One set of calls plays requests, turns and forms, so six permutations do.     *)
MCSymmetry == Permutations(Requests)

InLimiter(A) ==
    focus = "limiter" /\ A /\ UNCHANGED <<focus, spendVars, regVars, vars>>
InSpending(A) ==
    focus = "spending" /\ A /\ UNCHANGED <<focus, rlVars, regVars, vars>>
InRegistration(A) ==
    focus = "registration" /\ A /\ UNCHANGED <<focus, rlVars, spendVars, vars>>
InBreaker(A) ==
    focus = "breaker" /\ A /\ UNCHANGED <<focus, rlVars, spendVars, regVars>>

AccessInit ==
    /\ focus \in {"limiter", "spending", "registration", "breaker"}
    /\ RlInit /\ SpendInit /\ RegInit /\ Init
    /\ focus # "registration" => gate
AccessNext ==
    \/ InLimiter(RlNext) \/ InSpending(SpendNext) \/ InRegistration(RegNext)
    \/ InBreaker(Next)
AccessSpec == AccessInit /\ [][AccessNext]_accessVars

==============================================================================
