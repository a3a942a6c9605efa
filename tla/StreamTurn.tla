------------------------------ MODULE StreamTurn ------------------------------
(* ONE turn of POST /chat/stream: event_generator (api/chat/stream.py) reading *)
(* generate_stream (llm/service/stream.py), with its fallback chain, tool      *)
(* loop, budgets and loop guard, the tools' use of the turn's database session *)
(* (llm/tools/registry.py), and what the turn leaves in the database.          *)
(*                                                                             *)
(* The user message, and a new conversation, are flushed but not committed     *)
(* when the turn starts; the turn's one session holds them all along.          *)
EXTENDS Naturals, Sequences

CONSTANTS
    Sigs,         \* tool-call signatures (name and canonical arguments)
    Limit,        \* max_identical_calls of the signature's tool
    Models,       \* length of the longest fallback chain
    MaxIter,      \* MAX_TOOL_ITERATIONS
    MaxBatch,     \* bound: tool calls in one answer
    Retries,      \* MAX_RETRIES of call_stream
    CommitFails,  \* a commit of the turn may fail
    ToolDbFails   \* a tool, or its log entry, may fail in the database

ASSUME StreamTurnAssumption ==
    /\ Limit \in [Sigs -> Nat \ {0}]
    /\ Models \in Nat \ {0} /\ MaxIter \in Nat \ {0} /\ MaxBatch \in Nat \ {0}
    /\ Retries \in Nat
    /\ CommitFails \in BOOLEAN /\ ToolDbFails \in BOOLEAN

VARIABLES
    pc,
    chain, model,  \* length of fallback_chain, the model being tried
    iter, counts, queue, \* the tool loop of this model
    attempt,       \* call_stream's attempt of this model call
    started,       \* this call has yielded a token
    text,          \* attempts whose tokens are in event_generator's accumulated
    question,      \* pending_question is set
    over,          \* a turn budget is exceeded
    conv, user,    \* "pending", "stored" or "lost"
    asst,          \* the assistant message in the database
    rolled,        \* a tool's failure rolled the session back
    failed,        \* history: the turn failed in the database otherwise
    cached,        \* chat_stream found the answer in the cache
    client,        \* "here" or "gone"
    told,          \* terminal events sent: "done", "error"
    runs           \* history: runs[m][s] times model m had s executed

db == <<conv, user, asst, rolled, failed>>
loop == <<chain, model, iter, counts, queue, runs>>
call == <<attempt, started, text>>
vars == <<pc, cached, loop, call, question, over, db, client, told>>

Init ==
    /\ cached \in BOOLEAN /\ pc = IF cached THEN "cached" ELSE "ready"
    /\ chain = 0 /\ model = 0 /\ iter = 0
    /\ counts = [s \in Sigs |-> 0] /\ queue = <<>>
    /\ attempt = 0 /\ started = FALSE /\ text = {} /\ question = FALSE /\ over = FALSE
    /\ conv \in {"pending", "stored"} /\ user = "pending" /\ asst = "none"
    /\ rolled = FALSE /\ failed = FALSE
    /\ client = "here" /\ told = <<>>
    /\ runs = [m \in 1..Models |-> [s \in Sigs |-> 0]]

Goto(l) == pc' = l
After(x, what) == IF x = "pending" THEN what ELSE x
(* The session is committed, or rolled back: what it held is stored or lost.  *)
Settle(what) ==
    conv' = After(conv, what) /\ user' = After(user, what)

(* db.commit with a new assistant message. The message refers to the          *)
(* conversation: if that row was rolled back, the commit fails. A rollback    *)
(* also expires the conversation object, whose id is read here: that fails    *)
(* unless a query has reloaded it since.                                      *)
CommitAnswer(content) ==
    /\ \/ conv # "lost" /\ Settle("stored") /\ asst' = content /\ UNCHANGED failed
       \/ /\ rolled \/ CommitFails
          /\ Settle("lost") /\ failed' = ~rolled /\ UNCHANGED asst
    /\ UNCHANGED rolled

------------------------------------------------------------------------------
(* chat_stream found the answer in the cache before building any context:     *)
(* cached_generator sends it as one token and commits. It catches nothing: a  *)
(* commit, or the count behind it, that fails ends the stream as it is.       *)
CachedCommit ==
    /\ pc = "cached"
    /\ CommitAnswer("answer")
    /\ Goto(IF failed' THEN "end" ELSE "cachedDone")
    /\ UNCHANGED <<cached, loop, call, question, over, client, told>>

CachedDone ==
    /\ pc = "cachedDone" /\ Goto("end")
    /\ \/ told' = Append(told, "done") /\ UNCHANGED failed
       \/ CommitFails /\ failed' = TRUE /\ UNCHANGED told
    /\ UNCHANGED <<cached, loop, call, question, over, conv, user, asst, rolled, client>>

(* generate_stream up to its loop: a cache hit, an exception, or a chain of   *)
(* models.                                                                    *)
Choose ==
    /\ pc = "ready"
    /\ \/ Goto("done") /\ text' = {0} /\ UNCHANGED <<chain, model>>
       \/ Goto("error") /\ UNCHANGED <<text, chain, model>>
       \/ Goto("iter") /\ model' = 1 /\ chain' \in 1..Models /\ UNCHANGED text
    /\ UNCHANGED <<cached, iter, counts, queue, runs, attempt, started, question,
                   over, db, client, told>>

(* The top of the loop: iterations exhausted, budget exceeded, or a call.     *)
Iterate ==
    /\ pc = "iter"
    /\ Goto(IF iter = MaxIter \/ over THEN "error" ELSE "call")
    /\ attempt' = 0 /\ started' = FALSE
    /\ UNCHANGED <<cached, loop, text, question, over, db, client, told>>

(* _check_turn_budget will say so from now on.                                *)
BudgetPasses ==
    /\ pc # "end" /\ ~over /\ over' = TRUE
    /\ UNCHANGED <<pc, cached, loop, call, question, db, client, told>>

(* A token goes out at once; the budget is checked behind every one.          *)
Token ==
    /\ pc = "call" /\ started' = TRUE /\ text' = text \cup {attempt}
    /\ Goto(IF over THEN "error" ELSE "call")
    /\ UNCHANGED <<cached, loop, attempt, question, over, db, client, told>>

(* The connection breaks, before or behind the first token: call_stream makes *)
(* the same call again, and what it has yielded stays in the answer.          *)
StreamRetry ==
    /\ pc = "call" /\ attempt < Retries /\ attempt' = attempt + 1
    /\ UNCHANGED <<pc, cached, loop, started, text, question, over, db, client, told>>

Batches == UNION {[1..n -> Sigs] : n \in 1..MaxBatch}

(* Mutant: the preamble of a tool call stays in the answer.                   *)
ToolRequestKeepsPreamble(q) ==
    /\ pc = "call"
    /\ queue' = q /\ Goto("tools")
    /\ UNCHANGED <<cached, chain, model, iter, counts, runs, call, question, over,
                   db, client, told>>

(* The stream ends with tool calls, which are run whether or not any tool was *)
(* offered: preamble_discard drops the text of this call, all attempts of it. *)
ToolRequest(q) ==
    /\ pc = "call"
    /\ queue' = q /\ Goto("tools")
    /\ text' = IF started THEN {} ELSE text
    /\ UNCHANGED <<cached, chain, model, iter, counts, runs, attempt, started,
                   question, over, db, client, told>>

(* It ends without: an answer (stored in the cache), or nothing at all; or    *)
(* the connection's budget ends it; or call_stream raises.                    *)
StreamEnd ==
    /\ pc = "call"
    /\ \/ Goto(IF started THEN "done" ELSE "next")
       \/ Goto("error")
       \/ Goto(IF started THEN "error" ELSE "next")
    /\ UNCHANGED <<cached, loop, call, question, over, db, client, told>>

(* run_tool: the tool may commit the session; if the tool or the entry in     *)
(* tool_call_logs fails in the database, the session is rolled back.          *)
ToolSession ==
    \/ UNCHANGED <<conv, user, rolled>>
    \/ Settle("stored") /\ UNCHANGED rolled
    \/ ToolDbFails /\ Settle("lost") /\ rolled' = TRUE

(* Mutant: the guard looks at the count before this call.                     *)
GuardedLate(s) == counts[s] > Limit[s]

(* The loop guard: this call repeats the same call once too often.            *)
Guarded(s) == counts[s] + 1 > Limit[s]

Counted(f, s) == [f EXCEPT ![s] = @ + 1]

(* The next requested call: stopped by the guard, which drops the rest of the *)
(* batch and offers no tool in the next calls of the model; or run, and its   *)
(* result asks the user (or for a confirmation), which ends the turn, or goes *)
(* to the model.                                                              *)
RunTool ==
    /\ pc = "tools" /\ queue # <<>>
    /\ LET s == Head(queue)
       IN  /\ counts' = Counted(counts, s)
           /\ \/ /\ Guarded(s) /\ queue' = <<>>
                 /\ UNCHANGED <<pc, runs, question, conv, user, rolled>>
              \/ /\ ~Guarded(s) /\ ToolSession
                 /\ runs' = [runs EXCEPT ![model] = Counted(runs[model], s)]
                 /\ \/ queue' = Tail(queue) /\ UNCHANGED <<pc, question>>
                    \/ /\ queue' = <<>> /\ Goto("done")
                       /\ question' \in BOOLEAN
    /\ UNCHANGED <<cached, chain, model, iter, call, over, asst, failed, client, told>>

ToolsDone ==
    /\ pc = "tools" /\ queue = <<>>
    /\ iter' = iter + 1 /\ Goto("iter")
    /\ UNCHANGED <<cached, chain, model, counts, queue, runs, call, question, over,
                   db, client, told>>

(* An exception of the loop itself (tool arguments that are no object, a       *)
(* confirmation that does not parse, a context that cannot be fitted) leaves  *)
(* generate_stream; event_generator reports it.                               *)
Crash ==
    /\ pc \in {"iter", "tools"} /\ Goto("error")
    /\ UNCHANGED <<cached, loop, call, question, over, db, client, told>>

(* Mutants: the end of the chain goes unreported; the chain is never left.    *)
NextModelSilent ==
    /\ pc = "next"
    /\ IF model < chain
       THEN /\ model' = model + 1 /\ Goto("iter")
            /\ iter' = 0 /\ counts' = [s \in Sigs |-> 0]
       ELSE Goto("end") /\ UNCHANGED <<model, iter, counts>>
    /\ UNCHANGED <<cached, chain, queue, runs, call, question, over, db, client, told>>
NextModelAgain ==
    /\ pc = "next" /\ Goto("iter")
    /\ iter' = 0 /\ counts' = [s \in Sigs |-> 0]
    /\ UNCHANGED <<cached, chain, model, queue, runs, call, question, over, db,
                   client, told>>

(* The next model starts from the base messages with fresh counters; what the *)
(* tools did for the last one is done.                                        *)
NextModel ==
    /\ pc = "next"
    /\ IF model < chain
       THEN /\ model' = model + 1 /\ Goto("iter")
            /\ iter' = 0 /\ counts' = [s \in Sigs |-> 0]
       ELSE Goto("error") /\ UNCHANGED <<model, iter, counts>>
    /\ UNCHANGED <<cached, chain, queue, runs, call, question, over, db, client, told>>

------------------------------------------------------------------------------
(* event_generator: a done event is persisted before it is sent.              *)
PersistDone ==
    /\ pc = "done" /\ Goto("told")
    /\ CommitAnswer(IF text # {} THEN "answer" ELSE IF question THEN "question" ELSE "blank")
    /\ UNCHANGED <<cached, loop, call, question, over, client, told>>

SendDone ==
    /\ pc = "told" /\ told' = Append(told, "done") /\ Goto("end")
    /\ UNCHANGED <<cached, loop, call, question, over, db, client>>

(* An error event is sent before the turn is persisted.                       *)
SendError ==
    /\ pc = "error" /\ told' = Append(told, "error") /\ Goto("abort")
    /\ UNCHANGED <<cached, loop, call, question, over, db, client>>

(* Mutant: the note is written by another session, the turn's own is rolled   *)
(* back.                                                                      *)
PersistAbortApart ==
    /\ pc = "abort" /\ Goto("end") /\ Settle("lost")
    /\ asst' = IF conv = "stored" THEN "note" ELSE asst
    /\ UNCHANGED <<cached, loop, call, question, over, rolled, failed, client, told>>

(* _persist_abort: the partial text, or a note.                               *)
PersistAbort ==
    /\ pc = "abort" /\ Goto("end")
    /\ CommitAnswer(IF text # {} THEN "partial" ELSE "note")
    /\ UNCHANGED <<cached, loop, call, question, over, client, told>>

(* The client closes the connection: the generator is cancelled, which no     *)
(* except clause of the turn catches, and the session is closed.              *)
Disconnect ==
    /\ pc # "end" /\ Goto("end")
    /\ client' = "gone" /\ Settle("lost")
    /\ UNCHANGED <<cached, loop, call, question, over, asst, rolled, failed, told>>

TurnStep ==
    \/ CachedCommit \/ CachedDone \/ Choose \/ Iterate
    \/ (\E q \in Batches : ToolRequest(q)) \/ StreamEnd
    \/ RunTool \/ ToolsDone \/ Crash \/ NextModel
    \/ PersistDone \/ SendDone \/ SendError \/ PersistAbort

Next == TurnStep \/ Token \/ StreamRetry \/ BudgetPasses \/ Disconnect

(* The turn's task is scheduled, and a stream that trickles is cut off by     *)
(* STREAM_TOTAL_TIMEOUT.                                                      *)
Spec == Init /\ [][Next]_vars /\ WF_vars(TurnStep)
------------------------------------------------------------------------------
Fate == {"pending", "stored", "lost"}

FlagTypes ==
    /\ cached \in BOOLEAN /\ started \in BOOLEAN /\ question \in BOOLEAN
    /\ over \in BOOLEAN /\ rolled \in BOOLEAN /\ failed \in BOOLEAN

LoopTypes ==
    /\ pc \in {"ready", "cached", "cachedDone", "iter", "call", "tools", "next",
               "done", "told", "error", "abort", "end"}
    /\ chain \in 0..Models /\ model \in 0..Models /\ iter \in 0..MaxIter
    /\ attempt \in 0..Retries /\ text \subseteq 0..Retries
    /\ counts \in [Sigs -> Nat] /\ queue \in Seq(Sigs)
    /\ runs \in [1..Models -> [Sigs -> Nat]]

SessionTypes ==
    /\ conv \in Fate /\ user \in Fate
    /\ asst \in {"none", "answer", "question", "blank", "partial", "note"}
    /\ client \in {"here", "gone"} /\ told \in Seq({"done", "error"})

TypeOK == FlagTypes /\ LoopTypes /\ SessionTypes

(* No client gets two terminal events, and one that stays gets one: whatever   *)
(* models, tools and commits do, nobody waits for a done that never comes, and *)
(* no turn goes on behind one (event_generator, generate_stream). The one case *)
(* in which the code lets a client wait is named: an answer from the cache     *)
(* whose commit, or the count behind it, fails (cached_generator has no        *)
(* except).                                                                    *)
OneTerminalEvent ==
    /\ Len(told) <= 1
    /\ pc = "end" /\ client = "here" /\ ~(cached /\ failed) => told # <<>>

(* What the history keeps of a turn, unless a tool's failure rolled its        *)
(* session back: never an answer without its question, whatever commits fail   *)
(* and whenever the client leaves; and once the turn is over, both, if the     *)
(* client stayed and no commit failed, for done turns and for aborted ones     *)
(* (event_generator, _persist_abort, run_tool).                                *)
TurnIsKept ==
    ~rolled =>
       /\ asst # "none" => user = "stored"
       /\ pc = "end" /\ client = "here" /\ ~failed => user = "stored" /\ asst # "none"

(* "Persist the user msg + a short assistant note so failed turns stay         *)
(* visible. Commits the pending user_msg too." (_persist_abort): a turn whose  *)
(* client stayed and none of whose own commits failed is in the history when   *)
(* it ends. run_tool's rollback of the session takes the flushed question.     *)
TurnStaysVisible ==
    pc = "end" /\ client = "here" /\ ~failed => user = "stored" /\ asst # "none"

(* The runaway-loop guard: no model gets the same tool with the same arguments *)
(* executed more often than the tool allows, over all its iterations, in one   *)
(* batch or in many.                                                           *)
IdenticalCallsBounded ==
    \A m \in 1..Models, s \in Sigs : runs[m][s] <= Limit[s]

(* No model call begins with text of an earlier model call in the answer:      *)
(* preambles are dropped, all attempts of them, and a call that broke behind   *)
(* its first token is not followed by another model's. (Within one call        *)
(* call_stream does retry behind text it has yielded; that text stays.)        *)
NoStaleText == pc = "iter" => text = {}

(* Every turn ends: no sequence of tool calls, empty answers and failures      *)
(* keeps it going.                                                             *)
TurnEnds == <>(pc = "end")
------------------------------------------------------------------------------
(* Inductive strengthenings, for the proofs.                                  *)

InLoop == pc \in {"iter", "call", "tools", "next"}

(* The loop tries a model of the chain and has iterations left in its body.   *)
LoopInv ==
    /\ InLoop => model \in 1..chain
    /\ pc = "ready" => model = 0
    /\ pc \in {"call", "tools"} => iter < MaxIter

(* A terminal event is the last thing but the abort's commit; only a cached   *)
(* answer that failed in the database ends without one.                       *)
TerminalInv ==
    /\ cached <=> pc \in {"cached", "cachedDone"} \/ (cached /\ pc = "end")
    /\ \/ /\ told = <<>> /\ pc # "abort"
          /\ pc = "end" => client = "gone" \/ (cached /\ failed)
       \/ told \in {<<"done">>, <<"error">>} /\ pc \in {"abort", "end"}

(* Before the turn's own commit nothing of it is lost or failed, unless a     *)
(* tool rolled it back; when it ends, both messages are stored or neither.    *)
KeptInv ==
    ~rolled =>
       /\ asst # "none" => user = "stored"
       /\ conv = "lost" => user = "lost"
       /\ conv = "pending" => user = "pending"
       /\ pc \notin {"told", "cachedDone", "end"} => user # "lost" /\ asst = "none"
       /\ pc \in {"told", "cachedDone"} \/ (pc = "end" /\ client = "here")
              => failed \/ (user = "stored" /\ asst # "none")

(* What was executed for the present model was counted, and nothing yet for   *)
(* the models behind it.                                                      *)
CallsInv ==
    /\ IdenticalCallsBounded
    /\ InLoop => \A s \in Sigs : runs[model][s] <= counts[s]
    /\ \A m \in 1..Models, s \in Sigs : m > model => runs[m][s] = 0

(* Text is there only while, or after, the call that yielded it.              *)
TextInv ==
    /\ pc \in {"ready", "iter", "tools", "next"} => text = {}
    /\ pc = "call" /\ text # {} => started

==============================================================================
