----------------------------- MODULE ContextBudget -----------------------------
(* What a turn sends to the model: the messages that build_context_messages and  *)
(* generate_stream put together, apply_context_budget that fits them into the    *)
(* model's window one tier at a time, the tool results that are added to what is *)
(* left and fitted again, and a fallback model that starts over with a window of *)
(* its own (llm/service/context.py, llm/service/stream.py).                      *)
EXTENDS Integers, SequencesExt

CONSTANTS
    Parts,        \* the optional parts an input is drawn from
    SizeOf,       \* the estimated tokens of a message of each kind
    Windows,      \* context windows of the models of the chain
    MaxOut,       \* max_output_tokens
    MaxHistory,   \* bound: messages of history
    MaxCalls,     \* bound: tool calls of an attempt
    MaxAttempts   \* models of the fallback chain

(* The parts in the order of the message list, around the history.               *)
Opening == <<"rules", "last", "context", "facts", "state", "goals", "insights",
             "project", "rag", "earlier">>
Closing == <<"file", "hint">>
Optional == Range(Opening) \cup Range(Closing)
History == {"asked", "said", "agreed"}      \* agreed: an answer that begins "Understood"
Questions == {"question", "image"}          \* image: its content is a list of parts
Kinds == Optional \cup History \cup Questions
            \cup {"style", "ack", "call", "result", "advice"}

ASSUME BudgetAssumption ==
    /\ Parts \subseteq Optional /\ SizeOf \in [Kinds -> Nat \ {0}]
    /\ Windows \subseteq Nat /\ MaxOut \in Nat
    /\ MaxHistory \in Nat /\ MaxCalls \in Nat /\ MaxAttempts \in Nat \ {0}

VARIABLES
    base,      \* base_messages
    msgs,      \* tool_messages
    stage,     \* "context", "budget", "trim", "call", "tools" or "done"
    window,    \* ctx_window of the current model
    given,     \* the messages apply_context_budget was given last
    keep,      \* the positions of given that it keeps
    tier,      \* the last tier it has dropped; 9 before the first
    calls,     \* tool calls of this attempt
    attempts   \* models tried

budgetVars == <<base, msgs, stage, window, given, keep, tier, calls, attempts>>

BudgetInit ==
    /\ base = <<>> /\ msgs = <<>> /\ stage = "context" /\ window \in Windows
    /\ given = <<>> /\ keep = {} /\ tier = 9 /\ calls = 0 /\ attempts = 1

(* --------------------------------------------------------------- assembly -- *)

(* Every block of context is a user message with an acknowledgement, except the  *)
(* ones that are system messages.                                                *)
IsSystem(kind) == kind \in {"style", "rules", "state", "hint", "advice"}
IsAssistant(kind) == kind \in {"said", "agreed", "ack", "call"}
Part(kind, present) ==
    IF kind \notin present THEN <<>>
    ELSE IF IsSystem(kind) THEN <<kind>> ELSE <<kind, "ack">>
PartsOf(order, present) == FlattenSeq([n \in DOMAIN order |-> Part(order[n], present)])
BuildContext(present, history, question) ==
    <<"style">> \o PartsOf(Opening, present) \o history
        \o PartsOf(Closing, present) \o <<question>>

Compose(present, history, question) ==
    /\ stage = "context" /\ stage' = "budget"
    /\ base' = BuildContext(present, history, question) /\ msgs' = base'
    /\ UNCHANGED <<window, given, keep, tier, calls, attempts>>

(* ------------------------------------------------------------------ budget -- *)

(* The last message, an image and the system messages are never dropped. What    *)
(* has no prefix of its own goes with the history: acknowledgements, tool calls, *)
(* results, and the question once it is not last.                                *)
TierOfKind(kind) ==
    CASE kind = "last" -> 8
      [] kind = "file" -> 7
      [] kind = "earlier" -> 5
      [] kind \in {"context", "facts"} -> 4
      [] kind = "goals" -> 3
      [] kind \in {"insights", "project"} -> 2
      [] OTHER -> 6
TierByPrefix(list, i) ==
    IF i = Len(list) \/ list[i] = "image" THEN 0 ELSE TierOfKind(list[i])
Tier(list, i) ==
    IF i = Len(list) \/ list[i] = "image" \/ IsSystem(list[i]) THEN 0
    ELSE TierOfKind(list[i])

(* The acknowledgement of i, reached over assistant messages only.               *)
IsAck(kind) == kind \in {"ack", "agreed"}
AckIdx(list, i) ==
    {j \in DOMAIN list :
        /\ i < j /\ IsAck(list[j])
        /\ \A k \in i + 1 .. j - 1 : IsAssistant(list[k]) /\ ~ IsAck(list[k])}
DropSet(list, t) ==
    LET drop == {i \in DOMAIN list : Tier(list, i) = t}
    IN drop \cup UNION {AckIdx(list, i) : i \in drop}

Total(list, positions) == MapThenSumSet(LAMBDA i : SizeOf[list[i]], positions)
Budget(w) == w - (MaxOut + w \div 10)
Fits(list, positions) == Total(list, positions) <= Budget(window)

Kept(list, positions) ==
    FoldLeftDomain(LAMBDA acc, i : IF i \in positions THEN Append(acc, list[i]) ELSE acc,
                   <<>>, list)

(* apply_context_budget: nothing to do where everything fits; otherwise tier     *)
(* after tier that some message has, until the rest fits. The [USER STATE] block *)
(* is a system message, so tier 1, which drops facts one by one, does not occur. *)
StartBudget ==
    /\ stage = "budget"
    /\ given' = msgs /\ keep' = DOMAIN msgs /\ tier' = 9
    /\ stage' = IF Fits(msgs, DOMAIN msgs) THEN "call" ELSE "trim"
    /\ UNCHANGED <<base, msgs, window, calls, attempts>>
Lower == {Tier(given, i) : i \in DOMAIN given} \cap 1 .. tier - 1
DropNextOnly ==
    /\ stage = "trim" /\ Lower # {}
    /\ tier' = Max(Lower)
    /\ keep' = keep \ {i \in DOMAIN given : Tier(given, i) = tier'}
    /\ IF Fits(given, keep')
       THEN stage' = "call" /\ msgs' = Kept(given, keep')
       ELSE UNCHANGED <<stage, msgs>>
    /\ UNCHANGED <<base, window, given, calls, attempts>>
DropTier ==
    /\ stage = "trim" /\ Lower # {}
    /\ tier' = Max(Lower) /\ keep' = keep \ DropSet(given, tier')
    /\ IF Fits(given, keep')
       THEN stage' = "call" /\ msgs' = Kept(given, keep')
       ELSE UNCHANGED <<stage, msgs>>
    /\ UNCHANGED <<base, window, given, calls, attempts>>
DropNoMore ==
    /\ stage = "trim" /\ Lower = {}
    /\ stage' = "call" /\ msgs' = Kept(given, keep)
    /\ UNCHANGED <<base, window, given, keep, tier, calls, attempts>>

(* -------------------------------------------------------------- tool rounds -- *)

(* Each call the model has asked for is added with its result, and the advice    *)
(* that some tools want after it.                                                *)
UseTool(after) ==
    /\ stage \in {"call", "tools"} /\ calls < MaxCalls
    /\ stage' = "tools" /\ calls' = calls + 1
    /\ msgs' = msgs \o <<"call", "result">> \o after
    /\ UNCHANGED <<base, window, given, keep, tier, attempts>>

(* The guard against repeated calls adds advice in their place.                  *)
StopLoop ==
    /\ stage \in {"call", "tools"} /\ calls < MaxCalls
    /\ stage' = "budget" /\ calls' = MaxCalls
    /\ msgs' = Append(msgs, "advice")
    /\ UNCHANGED <<base, window, given, keep, tier, attempts>>
EndTools ==
    /\ stage = "tools" /\ stage' = "budget"
    /\ UNCHANGED <<base, msgs, window, given, keep, tier, calls, attempts>>

(* The next model of the chain starts from the base messages.                    *)
FallBack(w) ==
    /\ stage = "call" /\ attempts < MaxAttempts /\ attempts' = attempts + 1
    /\ stage' = "budget" /\ msgs' = base /\ window' = w /\ calls' = 0
    /\ UNCHANGED <<base, given, keep, tier>>
Answer ==
    /\ stage = "call" /\ stage' = "done"
    /\ UNCHANGED <<base, msgs, window, given, keep, tier, calls, attempts>>

BudgetNext ==
    \/ \E present \in SUBSET Parts, history \in BoundedSeq(History, MaxHistory),
          question \in Questions : Compose(present, history, question)
    \/ StartBudget \/ DropTier \/ DropNoMore
    \/ \E after \in {<<>>, <<"advice">>} : UseTool(after)
    \/ StopLoop \/ EndTools
    \/ \E w \in Windows : FallBack(w)
    \/ Answer

BudgetSpec == BudgetInit /\ [][BudgetNext]_budgetVars

(* What is left once the tiers from t up are gone, each with its answers.        *)
Surviving(list, t) ==
    {i \in DOMAIN list : \A u \in t..8 : i \notin DropSet(list, u)}

(* What goes to the model is trimmed as little as its order of tiers allows: the *)
(* tiers from the last one dropped up are gone and no other, without the last    *)
(* one it would not fit, and it does not fit in the end only if nothing is left  *)
(* that may be dropped (apply_context_budget, at every model and tool round).    *)
TrimIsTight ==
    stage = "call" =>
        /\ keep = Surviving(given, tier)
        /\ tier < 9 => ~ Fits(given, Surviving(given, tier + 1))
        /\ Fits(given, keep) \/ \A i \in keep : Tier(given, i) = 0

(* The rules hold to the end of the turn: the style head, the tools' rules, the  *)
(* memory sheet and the depth hint that the turn began with are still there, in  *)
(* their order, at every call of every model, whatever was trimmed how often.    *)
Rules(list) ==
    FoldLeft(LAMBDA acc, kind : IF IsSystem(kind) THEN Append(acc, kind) ELSE acc,
             <<>>, list)
RulesSurvive ==
    stage \in {"call", "tools", "done"} => IsPrefix(Rules(base), Rules(msgs))

==============================================================================
