--------------------------- MODULE StreamTurnProofs ---------------------------
(* Theorems about StreamTurn, for any tools, limits, chains and iterations.    *)
EXTENDS StreamTurn, TLAPS

(* One more of a signature, and of no other.                                   *)
LEMMA CountedFacts ==
    ASSUME NEW f \in [Sigs -> Nat], NEW s \in Sigs
    PROVE  /\ Counted(f, s) \in [Sigs -> Nat]
           /\ Counted(f, s)[s] = f[s] + 1
           /\ \A t \in Sigs : t # s => Counted(f, s)[t] = f[t]
  BY DEF Counted

(* A batch of tool calls is a non-empty sequence of signatures.                *)
LEMMA BatchType ==
    ASSUME NEW q \in Batches
    PROVE  q \in Seq(Sigs)
  <1>1. PICK n \in 1..MaxBatch : q \in [1..n -> Sigs]
    BY DEF Batches
  <1> QED BY <1>1, StreamTurnAssumption

(* The flags stay Boolean.                                                    *)
LEMMA FlagStep ==
    ASSUME FlagTypes, [Next]_vars
    PROVE  FlagTypes'
  <1>CachedCommit. CASE CachedCommit
    BY <1>CachedCommit DEF CachedCommit, CommitAnswer, Goto, db, loop, call, Settle, After, FlagTypes
  <1>CachedDone. CASE CachedDone
    BY <1>CachedDone DEF CachedDone, Goto, db, loop, call, FlagTypes
  <1>Choose. CASE Choose
    BY <1>Choose DEF Choose, Goto, db, loop, call, FlagTypes
  <1>Iterate. CASE Iterate
    BY <1>Iterate DEF Iterate, Goto, db, loop, call, FlagTypes
  <1>StreamEnd. CASE StreamEnd
    BY <1>StreamEnd DEF StreamEnd, Goto, db, loop, call, FlagTypes
  <1>RunTool. CASE RunTool
    BY <1>RunTool DEF RunTool, Goto, db, loop, call, ToolSession, Settle, After, Guarded, FlagTypes
  <1>ToolsDone. CASE ToolsDone
    BY <1>ToolsDone DEF ToolsDone, Goto, db, loop, call, FlagTypes
  <1>Crash. CASE Crash
    BY <1>Crash DEF Crash, Goto, db, loop, call, FlagTypes
  <1>NextModel. CASE NextModel
    BY <1>NextModel DEF NextModel, Goto, db, loop, call, FlagTypes
  <1>PersistDone. CASE PersistDone
    BY <1>PersistDone DEF PersistDone, Goto, db, loop, call, CommitAnswer, Settle, After, FlagTypes
  <1>SendDone. CASE SendDone
    BY <1>SendDone DEF SendDone, Goto, db, loop, call, FlagTypes
  <1>SendError. CASE SendError
    BY <1>SendError DEF SendError, Goto, db, loop, call, FlagTypes
  <1>PersistAbort. CASE PersistAbort
    BY <1>PersistAbort DEF PersistAbort, Goto, db, loop, call, CommitAnswer, Settle, After, FlagTypes
  <1>Token. CASE Token
    BY <1>Token DEF Token, Goto, db, loop, call, FlagTypes
  <1>StreamRetry. CASE StreamRetry
    BY <1>StreamRetry DEF StreamRetry, Goto, db, loop, call, FlagTypes
  <1>BudgetPasses. CASE BudgetPasses
    BY <1>BudgetPasses DEF BudgetPasses, Goto, db, loop, call, FlagTypes
  <1>Disconnect. CASE Disconnect
    BY <1>Disconnect DEF Disconnect, Goto, db, loop, call, Settle, After, FlagTypes
  <1>ToolRequest. CASE \E q \in Batches : ToolRequest(q)
    BY <1>ToolRequest, BatchType DEF ToolRequest, Goto, db, loop, call, FlagTypes
  <1>stutter. CASE UNCHANGED vars
    BY <1>stutter DEF vars, db, loop, call, FlagTypes
  <1> QED BY <1>CachedCommit, <1>CachedDone, <1>Choose, <1>Iterate, <1>StreamEnd, <1>RunTool, <1>ToolsDone, <1>Crash,
            <1>NextModel, <1>PersistDone, <1>SendDone, <1>SendError, <1>PersistAbort, <1>Token, <1>StreamRetry, <1>BudgetPasses, <1>Disconnect, <1>ToolRequest, <1>stutter
         DEF Next, TurnStep

(* The session's rows and the events sent keep their types.                   *)
LEMMA SessionStep ==
    ASSUME SessionTypes, [Next]_vars
    PROVE  SessionTypes'
  <1>CachedCommit. CASE CachedCommit
    BY <1>CachedCommit DEF CachedCommit, CommitAnswer, Goto, db, loop, call, Settle, After, SessionTypes, Fate
  <1>CachedDone. CASE CachedDone
    BY <1>CachedDone DEF CachedDone, Goto, db, loop, call, SessionTypes, Fate
  <1>Choose. CASE Choose
    BY <1>Choose DEF Choose, Goto, db, loop, call, SessionTypes, Fate
  <1>Iterate. CASE Iterate
    BY <1>Iterate DEF Iterate, Goto, db, loop, call, SessionTypes, Fate
  <1>StreamEnd. CASE StreamEnd
    BY <1>StreamEnd DEF StreamEnd, Goto, db, loop, call, SessionTypes, Fate
  <1>RunTool. CASE RunTool
    BY <1>RunTool DEF RunTool, Goto, db, loop, call, ToolSession, Settle, After, Guarded, SessionTypes, Fate
  <1>ToolsDone. CASE ToolsDone
    BY <1>ToolsDone DEF ToolsDone, Goto, db, loop, call, SessionTypes, Fate
  <1>Crash. CASE Crash
    BY <1>Crash DEF Crash, Goto, db, loop, call, SessionTypes, Fate
  <1>NextModel. CASE NextModel
    BY <1>NextModel DEF NextModel, Goto, db, loop, call, SessionTypes, Fate
  <1>PersistDone. CASE PersistDone
    BY <1>PersistDone DEF PersistDone, Goto, db, loop, call, CommitAnswer, Settle, After, SessionTypes, Fate
  <1>SendDone. CASE SendDone
    BY <1>SendDone DEF SendDone, Goto, db, loop, call, SessionTypes, Fate
  <1>SendError. CASE SendError
    BY <1>SendError DEF SendError, Goto, db, loop, call, SessionTypes, Fate
  <1>PersistAbort. CASE PersistAbort
    BY <1>PersistAbort DEF PersistAbort, Goto, db, loop, call, CommitAnswer, Settle, After, SessionTypes, Fate
  <1>Token. CASE Token
    BY <1>Token DEF Token, Goto, db, loop, call, SessionTypes, Fate
  <1>StreamRetry. CASE StreamRetry
    BY <1>StreamRetry DEF StreamRetry, Goto, db, loop, call, SessionTypes, Fate
  <1>BudgetPasses. CASE BudgetPasses
    BY <1>BudgetPasses DEF BudgetPasses, Goto, db, loop, call, SessionTypes, Fate
  <1>Disconnect. CASE Disconnect
    BY <1>Disconnect DEF Disconnect, Goto, db, loop, call, Settle, After, SessionTypes, Fate
  <1>ToolRequest. CASE \E q \in Batches : ToolRequest(q)
    BY <1>ToolRequest, BatchType DEF ToolRequest, Goto, db, loop, call, SessionTypes, Fate
  <1>stutter. CASE UNCHANGED vars
    BY <1>stutter DEF vars, db, loop, call, SessionTypes, Fate
  <1> QED BY <1>CachedCommit, <1>CachedDone, <1>Choose, <1>Iterate, <1>StreamEnd, <1>RunTool, <1>ToolsDone, <1>Crash,
            <1>NextModel, <1>PersistDone, <1>SendDone, <1>SendError, <1>PersistAbort, <1>Token, <1>StreamRetry, <1>BudgetPasses, <1>Disconnect, <1>ToolRequest, <1>stutter
         DEF Next, TurnStep

(* The loop's counters keep their types, with the bounds of LoopInv.          *)
LEMMA LoopStep ==
    ASSUME LoopTypes, LoopInv, [Next]_vars
    PROVE  (LoopTypes /\ LoopInv)'
  <1>CachedCommit. CASE CachedCommit
    BY <1>CachedCommit, StreamTurnAssumption DEF CachedCommit, CommitAnswer, Goto, db, loop, call, Settle, After, LoopTypes, LoopInv, InLoop
  <1>CachedDone. CASE CachedDone
    BY <1>CachedDone, StreamTurnAssumption DEF CachedDone, Goto, db, loop, call, LoopTypes, LoopInv, InLoop
  <1>Choose. CASE Choose
    <2>1. /\ UNCHANGED <<iter, counts, queue, runs, attempt>>
          /\ text' = text \/ text' = {0}
      BY <1>Choose DEF Choose
    <2>4. text' \subseteq 0..Retries
      <3>1. 0 \in 0..Retries
        BY StreamTurnAssumption
      <3>2. text \subseteq 0..Retries
        BY DEF LoopTypes
      <3> QED BY <2>1, <3>1, <3>2
    <2>2. CASE pc' = "iter" /\ model' = 1 /\ chain' \in 1..Models
      BY <2>1, <2>4, <2>2, StreamTurnAssumption DEF LoopTypes, LoopInv, InLoop
    <2>3. CASE pc' \in {"done", "error"} /\ UNCHANGED <<chain, model>>
      BY <2>1, <2>4, <2>3 DEF LoopTypes, LoopInv, InLoop
    <2> QED BY <1>Choose, <2>2, <2>3 DEF Choose, Goto
  <1>Iterate. CASE Iterate
    <2>1. /\ UNCHANGED <<loop, text>> /\ attempt' = 0
          /\ pc' \in {"call", "error"} /\ pc = "iter"
          /\ pc' = "call" => iter # MaxIter
      BY <1>Iterate DEF Iterate, Goto
    <2> QED BY <2>1, StreamTurnAssumption DEF loop, LoopTypes, LoopInv, InLoop
  <1>StreamEnd. CASE StreamEnd
    BY <1>StreamEnd, StreamTurnAssumption DEF StreamEnd, Goto, db, loop, call, LoopTypes, LoopInv, InLoop
  <1>RunTool. CASE RunTool
    <2> DEFINE s == Head(queue)
    <2>1. s \in Sigs /\ Tail(queue) \in Seq(Sigs) /\ model \in 1..Models
      BY <1>RunTool, StreamTurnAssumption DEF RunTool, LoopTypes, LoopInv, InLoop
    <2>2. counts' = Counted(counts, s) /\ counts' \in [Sigs -> Nat]
      BY <1>RunTool, <2>1, CountedFacts DEF RunTool, LoopTypes
    <2>3. queue' \in Seq(Sigs)
      <3>1. <<>> \in Seq(Sigs)
        OBVIOUS
      <3>2. queue' = <<>> \/ queue' = Tail(queue)
        BY <1>RunTool DEF RunTool
      <3> QED BY <2>1, <3>1, <3>2
    <2>4. \/ runs' = runs
          \/ runs' = [runs EXCEPT ![model] = Counted(runs[model], s)]
      BY <1>RunTool DEF RunTool
    <2>5. runs' \in [1..Models -> [Sigs -> Nat]]
      <3>1. Counted(runs[model], s) \in [Sigs -> Nat]
        BY <2>1, CountedFacts DEF LoopTypes
      <3> QED BY <2>1, <2>4, <3>1 DEF LoopTypes
    <2>6. pc' \in {"tools", "done"} /\ UNCHANGED <<chain, model, iter, attempt, text>>
      BY <1>RunTool DEF RunTool, Goto, call
    <2> QED BY <1>RunTool, <2>2, <2>3, <2>5, <2>6 DEF RunTool, LoopTypes, LoopInv, InLoop
  <1>ToolsDone. CASE ToolsDone
    BY <1>ToolsDone, StreamTurnAssumption DEF ToolsDone, Goto, db, loop, call, LoopTypes, LoopInv, InLoop
  <1>Crash. CASE Crash
    BY <1>Crash, StreamTurnAssumption DEF Crash, Goto, db, loop, call, LoopTypes, LoopInv, InLoop
  <1>NextModel. CASE NextModel
    <2>1. CASE /\ model < chain /\ model' = model + 1 /\ pc' = "iter" /\ iter' = 0
               /\ counts' = [s \in Sigs |-> 0] /\ UNCHANGED <<chain, queue, runs, attempt, text>>
      BY <1>NextModel, <2>1, StreamTurnAssumption DEF NextModel, LoopTypes, LoopInv, InLoop
    <2>2. CASE pc' = "error" /\ UNCHANGED <<chain, model, iter, counts, queue, runs, attempt, text>>
      BY <2>2 DEF LoopTypes, LoopInv, InLoop
    <2> QED BY <1>NextModel, <2>1, <2>2 DEF NextModel, Goto, call
  <1>PersistDone. CASE PersistDone
    BY <1>PersistDone, StreamTurnAssumption DEF PersistDone, Goto, db, loop, call, CommitAnswer, Settle, After, LoopTypes, LoopInv, InLoop
  <1>SendDone. CASE SendDone
    BY <1>SendDone, StreamTurnAssumption DEF SendDone, Goto, db, loop, call, LoopTypes, LoopInv, InLoop
  <1>SendError. CASE SendError
    BY <1>SendError, StreamTurnAssumption DEF SendError, Goto, db, loop, call, LoopTypes, LoopInv, InLoop
  <1>PersistAbort. CASE PersistAbort
    BY <1>PersistAbort, StreamTurnAssumption DEF PersistAbort, Goto, db, loop, call, CommitAnswer, Settle, After, LoopTypes, LoopInv, InLoop
  <1>Token. CASE Token
    BY <1>Token, StreamTurnAssumption DEF Token, Goto, db, loop, call, LoopTypes, LoopInv, InLoop
  <1>StreamRetry. CASE StreamRetry
    BY <1>StreamRetry, StreamTurnAssumption DEF StreamRetry, Goto, db, loop, call, LoopTypes, LoopInv, InLoop
  <1>BudgetPasses. CASE BudgetPasses
    BY <1>BudgetPasses, StreamTurnAssumption DEF BudgetPasses, Goto, db, loop, call, LoopTypes, LoopInv, InLoop
  <1>Disconnect. CASE Disconnect
    BY <1>Disconnect, StreamTurnAssumption DEF Disconnect, Goto, db, loop, call, Settle, After, LoopTypes, LoopInv, InLoop
  <1>ToolRequest. CASE \E q \in Batches : ToolRequest(q)
    BY <1>ToolRequest, BatchType, StreamTurnAssumption DEF ToolRequest, Goto, db, loop, call, LoopTypes, LoopInv, InLoop
  <1>stutter. CASE UNCHANGED vars
    BY <1>stutter DEF vars, db, loop, call, LoopTypes, LoopInv, InLoop
  <1> QED BY <1>CachedCommit, <1>CachedDone, <1>Choose, <1>Iterate, <1>StreamEnd, <1>RunTool, <1>ToolsDone, <1>Crash,
            <1>NextModel, <1>PersistDone, <1>SendDone, <1>SendError, <1>PersistAbort, <1>Token, <1>StreamRetry, <1>BudgetPasses, <1>Disconnect, <1>ToolRequest, <1>stutter
         DEF Next, TurnStep

(* No step sends a second terminal event or ends a turn without one.          *)
LEMMA TerminalStep ==
    ASSUME TerminalInv, [Next]_vars
    PROVE  TerminalInv'
  <1>CachedCommit. CASE CachedCommit
    BY <1>CachedCommit DEF CachedCommit, CommitAnswer, Goto, db, loop, call, Settle, After, TerminalInv
  <1>CachedDone. CASE CachedDone
    BY <1>CachedDone DEF CachedDone, Goto, db, loop, call, TerminalInv
  <1>Choose. CASE Choose
    BY <1>Choose DEF Choose, Goto, db, loop, call, TerminalInv
  <1>Iterate. CASE Iterate
    BY <1>Iterate DEF Iterate, Goto, db, loop, call, TerminalInv
  <1>StreamEnd. CASE StreamEnd
    BY <1>StreamEnd DEF StreamEnd, Goto, db, loop, call, TerminalInv
  <1>RunTool. CASE RunTool
    BY <1>RunTool DEF RunTool, Goto, db, loop, call, ToolSession, Settle, After, Guarded, TerminalInv
  <1>ToolsDone. CASE ToolsDone
    BY <1>ToolsDone DEF ToolsDone, Goto, db, loop, call, TerminalInv
  <1>Crash. CASE Crash
    BY <1>Crash DEF Crash, Goto, db, loop, call, TerminalInv
  <1>NextModel. CASE NextModel
    BY <1>NextModel DEF NextModel, Goto, db, loop, call, TerminalInv
  <1>PersistDone. CASE PersistDone
    BY <1>PersistDone DEF PersistDone, Goto, db, loop, call, CommitAnswer, Settle, After, TerminalInv
  <1>SendDone. CASE SendDone
    BY <1>SendDone DEF SendDone, Goto, db, loop, call, TerminalInv
  <1>SendError. CASE SendError
    BY <1>SendError DEF SendError, Goto, db, loop, call, TerminalInv
  <1>PersistAbort. CASE PersistAbort
    BY <1>PersistAbort DEF PersistAbort, Goto, db, loop, call, CommitAnswer, Settle, After, TerminalInv
  <1>Token. CASE Token
    BY <1>Token DEF Token, Goto, db, loop, call, TerminalInv
  <1>StreamRetry. CASE StreamRetry
    BY <1>StreamRetry DEF StreamRetry, Goto, db, loop, call, TerminalInv
  <1>BudgetPasses. CASE BudgetPasses
    BY <1>BudgetPasses DEF BudgetPasses, Goto, db, loop, call, TerminalInv
  <1>Disconnect. CASE Disconnect
    BY <1>Disconnect DEF Disconnect, Goto, db, loop, call, Settle, After, TerminalInv
  <1>ToolRequest. CASE \E q \in Batches : ToolRequest(q)
    BY <1>ToolRequest, BatchType DEF ToolRequest, Goto, db, loop, call, TerminalInv
  <1>stutter. CASE UNCHANGED vars
    BY <1>stutter DEF vars, db, loop, call, TerminalInv
  <1> QED BY <1>CachedCommit, <1>CachedDone, <1>Choose, <1>Iterate, <1>StreamEnd, <1>RunTool, <1>ToolsDone, <1>Crash,
            <1>NextModel, <1>PersistDone, <1>SendDone, <1>SendError, <1>PersistAbort, <1>Token, <1>StreamRetry, <1>BudgetPasses, <1>Disconnect, <1>ToolRequest, <1>stutter
         DEF Next, TurnStep

(* Unless a tool rolls it back, no step loses half of a turn.                 *)
LEMMA KeptStep ==
    ASSUME FlagTypes, SessionTypes, KeptInv, [Next]_vars
    PROVE  KeptInv'
  <1>CachedCommit. CASE CachedCommit
    BY <1>CachedCommit DEF CachedCommit, CommitAnswer, Goto, db, loop, call, Settle, After, KeptInv, FlagTypes, SessionTypes, Fate
  <1>CachedDone. CASE CachedDone
    BY <1>CachedDone DEF CachedDone, Goto, db, loop, call, KeptInv, FlagTypes, SessionTypes, Fate
  <1>Choose. CASE Choose
    BY <1>Choose DEF Choose, Goto, db, loop, call, KeptInv, FlagTypes, SessionTypes, Fate
  <1>Iterate. CASE Iterate
    BY <1>Iterate DEF Iterate, Goto, db, loop, call, KeptInv, FlagTypes, SessionTypes, Fate
  <1>StreamEnd. CASE StreamEnd
    BY <1>StreamEnd DEF StreamEnd, Goto, db, loop, call, KeptInv, FlagTypes, SessionTypes, Fate
  <1>RunTool. CASE RunTool
    BY <1>RunTool DEF RunTool, Goto, db, loop, call, ToolSession, Settle, After, Guarded, KeptInv, FlagTypes, SessionTypes, Fate
  <1>ToolsDone. CASE ToolsDone
    BY <1>ToolsDone DEF ToolsDone, Goto, db, loop, call, KeptInv, FlagTypes, SessionTypes, Fate
  <1>Crash. CASE Crash
    BY <1>Crash DEF Crash, Goto, db, loop, call, KeptInv, FlagTypes, SessionTypes, Fate
  <1>NextModel. CASE NextModel
    BY <1>NextModel DEF NextModel, Goto, db, loop, call, KeptInv, FlagTypes, SessionTypes, Fate
  <1>PersistDone. CASE PersistDone
    BY <1>PersistDone DEF PersistDone, Goto, db, loop, call, CommitAnswer, Settle, After, KeptInv, FlagTypes, SessionTypes, Fate
  <1>SendDone. CASE SendDone
    BY <1>SendDone DEF SendDone, Goto, db, loop, call, KeptInv, FlagTypes, SessionTypes, Fate
  <1>SendError. CASE SendError
    BY <1>SendError DEF SendError, Goto, db, loop, call, KeptInv, FlagTypes, SessionTypes, Fate
  <1>PersistAbort. CASE PersistAbort
    BY <1>PersistAbort DEF PersistAbort, Goto, db, loop, call, CommitAnswer, Settle, After, KeptInv, FlagTypes, SessionTypes, Fate
  <1>Token. CASE Token
    BY <1>Token DEF Token, Goto, db, loop, call, KeptInv, FlagTypes, SessionTypes, Fate
  <1>StreamRetry. CASE StreamRetry
    BY <1>StreamRetry DEF StreamRetry, Goto, db, loop, call, KeptInv, FlagTypes, SessionTypes, Fate
  <1>BudgetPasses. CASE BudgetPasses
    BY <1>BudgetPasses DEF BudgetPasses, Goto, db, loop, call, KeptInv, FlagTypes, SessionTypes, Fate
  <1>Disconnect. CASE Disconnect
    BY <1>Disconnect DEF Disconnect, Goto, db, loop, call, Settle, After, KeptInv, FlagTypes, SessionTypes, Fate
  <1>ToolRequest. CASE \E q \in Batches : ToolRequest(q)
    BY <1>ToolRequest, BatchType DEF ToolRequest, Goto, db, loop, call, KeptInv, FlagTypes, SessionTypes, Fate
  <1>stutter. CASE UNCHANGED vars
    BY <1>stutter DEF vars, db, loop, call, KeptInv, FlagTypes, SessionTypes, Fate
  <1> QED BY <1>CachedCommit, <1>CachedDone, <1>Choose, <1>Iterate, <1>StreamEnd, <1>RunTool, <1>ToolsDone, <1>Crash,
            <1>NextModel, <1>PersistDone, <1>SendDone, <1>SendError, <1>PersistAbort, <1>Token, <1>StreamRetry, <1>BudgetPasses, <1>Disconnect, <1>ToolRequest, <1>stutter
         DEF Next, TurnStep

(* The count bounds what was executed.                                        *)
LEMMA CallsStep ==
    ASSUME LoopTypes, LoopInv, CallsInv, [Next]_vars
    PROVE  CallsInv'
  <1>CachedCommit. CASE CachedCommit
    BY <1>CachedCommit DEF CachedCommit, CommitAnswer, Goto, db, loop, call, Settle, After, CallsInv, IdenticalCallsBounded, InLoop
  <1>CachedDone. CASE CachedDone
    BY <1>CachedDone DEF CachedDone, Goto, db, loop, call, CallsInv, IdenticalCallsBounded, InLoop
  <1>Choose. CASE Choose
    <2>1. UNCHANGED <<counts, runs>> /\ pc = "ready"
      BY <1>Choose DEF Choose
    <2>2. CASE pc' = "iter" /\ model' = 1
      <3>1. \A s \in Sigs : runs[1][s] = 0 /\ counts[s] \in Nat
        BY <2>1, StreamTurnAssumption DEF CallsInv, LoopInv, LoopTypes
      <3>2. \A m \in 1..Models, s \in Sigs : m > 1 => runs[m][s] = 0
        BY <2>1 DEF CallsInv, LoopInv
      <3> QED BY <2>1, <2>2, <3>1, <3>2 DEF CallsInv, IdenticalCallsBounded
    <2>3. CASE pc' \in {"done", "error"} /\ UNCHANGED model
      BY <2>1, <2>3 DEF CallsInv, IdenticalCallsBounded, InLoop
    <2> QED BY <1>Choose, <2>2, <2>3 DEF Choose, Goto
  <1>Iterate. CASE Iterate
    BY <1>Iterate DEF Iterate, Goto, db, loop, call, CallsInv, IdenticalCallsBounded, InLoop
  <1>StreamEnd. CASE StreamEnd
    BY <1>StreamEnd DEF StreamEnd, Goto, db, loop, call, CallsInv, IdenticalCallsBounded, InLoop
  <1>RunTool. CASE RunTool
    <2> DEFINE s == Head(queue)
    <2>1. s \in Sigs /\ model \in 1..Models /\ model' = model
      BY <1>RunTool, StreamTurnAssumption DEF RunTool, LoopTypes, LoopInv, InLoop
    <2>2. /\ counts' = Counted(counts, s)
          /\ \A t \in Sigs : counts'[t] \in Nat /\ counts[t] <= counts'[t]
      <3>1. counts' = Counted(counts, s) /\ counts \in [Sigs -> Nat]
        BY <1>RunTool DEF RunTool, LoopTypes
      <3>2. counts' \in [Sigs -> Nat] /\ counts'[s] = counts[s] + 1
            /\ \A t \in Sigs : t # s => counts'[t] = counts[t]
        BY <2>1, <3>1, CountedFacts
      <3> QED BY <3>1, <3>2
    <2>3. \A t \in Sigs : runs[model][t] <= counts[t]
      BY <1>RunTool DEF RunTool, CallsInv, InLoop
    <2>4. CASE runs' = runs
      <3>1. \A t \in Sigs : /\ runs[model][t] \in Nat /\ counts[t] \in Nat
                            /\ runs[model][t] <= counts[t]
        BY <2>1, <2>3 DEF LoopTypes
      <3>2. \A t \in Sigs : runs[model][t] <= counts'[t]
        BY <2>2, <3>1
      <3> QED BY <2>1, <2>4, <3>2 DEF CallsInv, IdenticalCallsBounded
    <2>5. CASE /\ counts[s] + 1 <= Limit[s]
               /\ runs' = [runs EXCEPT ![model] = Counted(runs[model], s)]
      <3>1. /\ runs'[model][s] = runs[model][s] + 1
            /\ \A m \in 1..Models, t \in Sigs :
                  m # model \/ t # s => runs'[m][t] = runs[m][t]
        <4>1. /\ runs'[model] = Counted(runs[model], s)
              /\ \A m \in 1..Models : m # model => runs'[m] = runs[m]
          BY <2>1, <2>5 DEF LoopTypes
        <4>2. runs[model] \in [Sigs -> Nat]
          BY <2>1 DEF LoopTypes
        <4> QED BY <4>1, <4>2, <2>1, CountedFacts
      <3>2. runs[model][s] <= counts[s] /\ counts'[s] = counts[s] + 1
        BY <2>1, <2>2, <2>3, CountedFacts DEF LoopTypes
      <3>3. /\ runs[model][s] \in Nat /\ counts[s] \in Nat /\ Limit[s] \in Nat
        BY <2>1, StreamTurnAssumption DEF LoopTypes
      <3>4. runs'[model][s] <= Limit[s] /\ runs'[model][s] <= counts'[s]
        BY <2>5, <3>1, <3>2, <3>3
      <3>5. IdenticalCallsBounded'
        BY <3>1, <3>4 DEF CallsInv, IdenticalCallsBounded
      <3>6. \A t \in Sigs : runs'[model][t] <= counts'[t]
        <4> TAKE t \in Sigs
        <4>1. CASE t = s BY <4>1, <3>4
        <4>2. CASE t # s
          <5>1. runs'[model][t] = runs[model][t] /\ counts'[t] = counts[t]
            BY <2>1, <2>2, <3>1, <4>2, CountedFacts DEF LoopTypes
          <5> QED BY <5>1, <2>3
        <4> QED BY <4>1, <4>2
      <3>7. \A m \in 1..Models, t \in Sigs : m > model => runs'[m][t] = 0
        BY <2>1, <3>1 DEF CallsInv
      <3> QED BY <2>1, <3>5, <3>6, <3>7 DEF CallsInv, InLoop
    <2>6. ~Guarded(s) => counts[s] + 1 <= Limit[s]
      BY <2>1, StreamTurnAssumption DEF Guarded, LoopTypes
    <2> QED BY <1>RunTool, <2>4, <2>5, <2>6 DEF RunTool
  <1>ToolsDone. CASE ToolsDone
    BY <1>ToolsDone DEF ToolsDone, Goto, db, loop, call, CallsInv, IdenticalCallsBounded, InLoop
  <1>Crash. CASE Crash
    BY <1>Crash DEF Crash, Goto, db, loop, call, CallsInv, IdenticalCallsBounded, InLoop
  <1>NextModel. CASE NextModel
    <2>1. CASE /\ model < chain /\ model' = model + 1 /\ pc' = "iter"
               /\ counts' = [s \in Sigs |-> 0] /\ UNCHANGED runs
      BY <1>NextModel, <2>1, StreamTurnAssumption
         DEF NextModel, CallsInv, IdenticalCallsBounded, InLoop, LoopTypes, LoopInv
    <2>2. CASE pc' = "error" /\ UNCHANGED <<model, counts, runs>>
      BY <2>2 DEF CallsInv, IdenticalCallsBounded, InLoop
    <2> QED BY <1>NextModel, <2>1, <2>2 DEF NextModel, Goto
  <1>PersistDone. CASE PersistDone
    BY <1>PersistDone DEF PersistDone, Goto, db, loop, call, CommitAnswer, Settle, After, CallsInv, IdenticalCallsBounded, InLoop
  <1>SendDone. CASE SendDone
    BY <1>SendDone DEF SendDone, Goto, db, loop, call, CallsInv, IdenticalCallsBounded, InLoop
  <1>SendError. CASE SendError
    BY <1>SendError DEF SendError, Goto, db, loop, call, CallsInv, IdenticalCallsBounded, InLoop
  <1>PersistAbort. CASE PersistAbort
    BY <1>PersistAbort DEF PersistAbort, Goto, db, loop, call, CommitAnswer, Settle, After, CallsInv, IdenticalCallsBounded, InLoop
  <1>Token. CASE Token
    BY <1>Token DEF Token, Goto, db, loop, call, CallsInv, IdenticalCallsBounded, InLoop
  <1>StreamRetry. CASE StreamRetry
    BY <1>StreamRetry DEF StreamRetry, Goto, db, loop, call, CallsInv, IdenticalCallsBounded, InLoop
  <1>BudgetPasses. CASE BudgetPasses
    BY <1>BudgetPasses DEF BudgetPasses, Goto, db, loop, call, CallsInv, IdenticalCallsBounded, InLoop
  <1>Disconnect. CASE Disconnect
    BY <1>Disconnect DEF Disconnect, Goto, db, loop, call, Settle, After, CallsInv, IdenticalCallsBounded, InLoop
  <1>ToolRequest. CASE \E q \in Batches : ToolRequest(q)
    BY <1>ToolRequest, BatchType DEF ToolRequest, Goto, db, loop, call, CallsInv, IdenticalCallsBounded, InLoop
  <1>stutter. CASE UNCHANGED vars
    BY <1>stutter DEF vars, db, loop, call, CallsInv, IdenticalCallsBounded, InLoop
  <1> QED BY <1>CachedCommit, <1>CachedDone, <1>Choose, <1>Iterate, <1>StreamEnd, <1>RunTool, <1>ToolsDone, <1>Crash,
            <1>NextModel, <1>PersistDone, <1>SendDone, <1>SendError, <1>PersistAbort, <1>Token, <1>StreamRetry, <1>BudgetPasses, <1>Disconnect, <1>ToolRequest, <1>stutter
         DEF Next, TurnStep

(* Text never outlives its call into another one.                             *)
LEMMA TextStep ==
    ASSUME FlagTypes, TextInv, [Next]_vars
    PROVE  TextInv'
  <1>CachedCommit. CASE CachedCommit
    BY <1>CachedCommit DEF CachedCommit, CommitAnswer, Goto, db, loop, call, Settle, After, TextInv, FlagTypes
  <1>CachedDone. CASE CachedDone
    BY <1>CachedDone DEF CachedDone, Goto, db, loop, call, TextInv, FlagTypes
  <1>Choose. CASE Choose
    BY <1>Choose DEF Choose, Goto, db, loop, call, TextInv, FlagTypes
  <1>Iterate. CASE Iterate
    BY <1>Iterate DEF Iterate, Goto, db, loop, call, TextInv, FlagTypes
  <1>StreamEnd. CASE StreamEnd
    BY <1>StreamEnd DEF StreamEnd, Goto, db, loop, call, TextInv, FlagTypes
  <1>RunTool. CASE RunTool
    BY <1>RunTool DEF RunTool, Goto, db, loop, call, ToolSession, Settle, After, Guarded, TextInv, FlagTypes
  <1>ToolsDone. CASE ToolsDone
    BY <1>ToolsDone DEF ToolsDone, Goto, db, loop, call, TextInv, FlagTypes
  <1>Crash. CASE Crash
    BY <1>Crash DEF Crash, Goto, db, loop, call, TextInv, FlagTypes
  <1>NextModel. CASE NextModel
    BY <1>NextModel DEF NextModel, Goto, db, loop, call, TextInv, FlagTypes
  <1>PersistDone. CASE PersistDone
    BY <1>PersistDone DEF PersistDone, Goto, db, loop, call, CommitAnswer, Settle, After, TextInv, FlagTypes
  <1>SendDone. CASE SendDone
    BY <1>SendDone DEF SendDone, Goto, db, loop, call, TextInv, FlagTypes
  <1>SendError. CASE SendError
    BY <1>SendError DEF SendError, Goto, db, loop, call, TextInv, FlagTypes
  <1>PersistAbort. CASE PersistAbort
    BY <1>PersistAbort DEF PersistAbort, Goto, db, loop, call, CommitAnswer, Settle, After, TextInv, FlagTypes
  <1>Token. CASE Token
    BY <1>Token DEF Token, Goto, db, loop, call, TextInv, FlagTypes
  <1>StreamRetry. CASE StreamRetry
    BY <1>StreamRetry DEF StreamRetry, Goto, db, loop, call, TextInv, FlagTypes
  <1>BudgetPasses. CASE BudgetPasses
    BY <1>BudgetPasses DEF BudgetPasses, Goto, db, loop, call, TextInv, FlagTypes
  <1>Disconnect. CASE Disconnect
    BY <1>Disconnect DEF Disconnect, Goto, db, loop, call, Settle, After, TextInv, FlagTypes
  <1>ToolRequest. CASE \E q \in Batches : ToolRequest(q)
    BY <1>ToolRequest, BatchType DEF ToolRequest, Goto, db, loop, call, TextInv, FlagTypes
  <1>stutter. CASE UNCHANGED vars
    BY <1>stutter DEF vars, db, loop, call, TextInv, FlagTypes
  <1> QED BY <1>CachedCommit, <1>CachedDone, <1>Choose, <1>Iterate, <1>StreamEnd, <1>RunTool, <1>ToolsDone, <1>Crash,
            <1>NextModel, <1>PersistDone, <1>SendDone, <1>SendError, <1>PersistAbort, <1>Token, <1>StreamRetry, <1>BudgetPasses, <1>Disconnect, <1>ToolRequest, <1>stutter
         DEF Next, TurnStep

(* Types and the loop's bounds together are inductive.                         *)
LEMMA Bounds == Spec => [](TypeOK /\ LoopInv)
  <1>1. Init => FlagTypes
    BY DEF Init, FlagTypes
  <1>2. Init => SessionTypes
    BY DEF Init, SessionTypes, Fate
  <1>3. Init => LoopTypes /\ LoopInv
    <2> SUFFICES ASSUME Init PROVE LoopTypes /\ LoopInv
      OBVIOUS
    <2>1. runs \in [1..Models -> [Sigs -> Nat]] /\ counts \in [Sigs -> Nat]
      BY DEF Init
    <2>2. chain \in 0..Models /\ model \in 0..Models /\ iter \in 0..MaxIter
      BY StreamTurnAssumption DEF Init
    <2>3. attempt \in 0..Retries /\ text \subseteq 0..Retries
      BY StreamTurnAssumption DEF Init
    <2> QED BY <2>1, <2>2, <2>3 DEF Init, LoopTypes, LoopInv, InLoop
  <1>4. TypeOK /\ LoopInv /\ [Next]_vars => (TypeOK /\ LoopInv)'
    BY FlagStep, SessionStep, LoopStep DEF TypeOK
  <1>5. Init => TypeOK /\ LoopInv
    BY <1>1, <1>2, <1>3 DEF TypeOK
  <1> QED BY <1>4, <1>5, PTL DEF Spec

(* Every variable of a turn keeps its type (the state of event_generator and   *)
(* generate_stream).                                                           *)
THEOREM TypeCorrect == Spec => []TypeOK
  BY Bounds, PTL

(* No client gets two terminal events, and one that stays gets one, also when  *)
(* tools and commits fail in the database; except behind a cached answer whose *)
(* commit or count fails (event_generator, generate_stream, cached_generator). *)
THEOREM OneTerminal == Spec => []OneTerminalEvent
  <1>1. Init => TerminalInv
    BY DEF Init, TerminalInv
  <1>2. TerminalInv /\ [Next]_vars => TerminalInv'
    BY TerminalStep
  <1>3. TerminalInv => OneTerminalEvent
    <2>1. Len(<<>>) = 0 /\ Len(<<"done">>) = 1 /\ Len(<<"error">>) = 1
      OBVIOUS
    <2>2. <<"done">> # <<>> /\ <<"error">> # <<>>
      BY <2>1
    <2>3. TerminalInv => Len(told) <= 1
      <3>1. TerminalInv => told = <<>> \/ told = <<"done">> \/ told = <<"error">>
        BY DEF TerminalInv
      <3>2. told = <<>> \/ told = <<"done">> \/ told = <<"error">>
              => Len(told) \in {0, 1}
        BY <2>1
      <3> QED BY <3>1, <3>2
    <2>4. TerminalInv /\ pc = "end" /\ client = "here" /\ ~(cached /\ failed) => told # <<>>
      BY <2>2 DEF TerminalInv
    <2> QED BY <2>3, <2>4 DEF OneTerminalEvent
  <1> QED BY <1>1, <1>2, <1>3, PTL DEF Spec

(* Unless a tool's failure rolled the turn's session back, the history has no  *)
(* answer without its question, and a turn whose client stayed and whose       *)
(* commits succeeded is in it, question and answer, when it ends: also one     *)
(* that exhausted its chain, its iterations or its budget (event_generator,    *)
(* _persist_abort, run_tool).                                                  *)
THEOREM TurnsAreKept == Spec => []TurnIsKept
  <1>1. Init => KeptInv
    BY DEF Init, KeptInv
  <1>2. TypeOK /\ KeptInv /\ [Next]_vars => KeptInv'
    BY KeptStep DEF TypeOK
  <1>3. KeptInv => TurnIsKept
    BY DEF KeptInv, TurnIsKept
  <1> QED BY <1>1, <1>2, <1>3, TypeCorrect, PTL DEF Spec

(* The loop guard holds per model over any number of iterations, however the   *)
(* calls are batched (tool_call_counts).                                       *)
THEOREM GuardHolds == Spec => []IdenticalCallsBounded
  <1>1. Init => CallsInv
    BY StreamTurnAssumption DEF Init, CallsInv, IdenticalCallsBounded, InLoop
  <1>2. TypeOK /\ LoopInv /\ CallsInv /\ [Next]_vars => CallsInv'
    BY CallsStep DEF TypeOK
  <1>3. CallsInv => IdenticalCallsBounded
    BY DEF CallsInv
  <1> QED BY <1>1, <1>2, <1>3, Bounds, PTL DEF Spec

(* No model call begins with text of an earlier model call in the answer,      *)
(* however often call_stream retried a call behind text it had yielded         *)
(* (preamble_discard, generate_stream).                                        *)
THEOREM AnswersStartEmpty == Spec => []NoStaleText
  <1>1. Init => TextInv
    BY DEF Init, TextInv
  <1>2. TypeOK /\ TextInv /\ [Next]_vars => TextInv'
    BY TextStep DEF TypeOK
  <1>3. TextInv => NoStaleText
    BY DEF TextInv, NoStaleText
  <1> QED BY <1>1, <1>2, <1>3, TypeCorrect, PTL DEF Spec

==============================================================================
