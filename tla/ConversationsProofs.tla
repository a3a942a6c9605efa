-------------------------- MODULE ConversationsProofs --------------------------
(* Proofs about what outlives a turn. Of the conversations of a user: rotation   *)
(* bounds them although the size is checked before a turn and grows after it. Of *)
(* the entity graph: extractions in flight together overshoot its cap by a batch *)
(* each at most, the merge of duplicates carries over every relation there was   *)
(* at its start, and a cached answer is wrong only where a writer has still to   *)
(* clear it or a query has straddled the clearing.                               *)
EXTENDS GraphMemory, Conversations, FiniteSetTheorems, WellFoundedInduction, TLAPS

------------------------------------------------------------------------------
(* Conversations. *)

(* A request that has its conversation works on one that was created.           *)
CallsPlaced ==
    \A q \in Calls : call[q] \in {"loaded", "turn"} =>
        target[q] \in Convs /\ conv[target[q]] # "none"

(* A conversation that was not created has no messages.                         *)
Unborn == \A c \in Convs : conv[c] = "none" => size[c] = 0

ConvInv ==
    ConvTypeOK /\ CallsPlaced /\ Unborn /\ ConversationIsBounded

(* The requests at work on a conversation are finitely many.                    *)
LEMMA WorkFinite ==
    ASSUME NEW c PROVE IsFiniteSet(Working(c)) /\ Cardinality(Working(c)) \in Nat
  <1>1. Working(c) \subseteq Calls
    BY DEF Working
  <1> QED BY <1>1, ConversationsAssumption, FS_Subset, FS_CardinalityType

(* A new conversation has one of the settings.                                 *)
LEMMA AnySettingIn == AnySetting \in Settings
  BY ConversationsAssumption DEF AnySetting

(* No rows, no requests.                                                        *)
LEMMA ConvInitInv == ConvInit => ConvInv
  <1> SUFFICES ASSUME ConvInit PROVE ConvInv
    OBVIOUS
  <1> USE ConversationsAssumption DEF ConvInit
  <1>1. ConvTypeOK
    BY AnySettingIn DEF ConvTypeOK
  <1>2. CallsPlaced /\ Unborn
    BY DEF CallsPlaced, Unborn
  <1>3. ASSUME NEW c \in Convs PROVE Cardinality(Working(c)) = 0
    <2>1. Working(c) = {}
      BY DEF Working
    <2> QED BY <2>1, FS_EmptySet
  <1>4. ConversationIsBounded
    BY <1>3 DEF ConversationIsBounded
  <1> QED BY <1>1, <1>2, <1>4 DEF ConvInv

------------------------------------------------------------------------------
(* How the requests at work change. *)

(* A turn that begins joins the requests at work on its conversation.           *)
LEMMA WorkGrows ==
    ASSUME ConvTypeOK, NEW q \in Calls, call[q] # "turn", NEW c \in Convs, Begin(q, c)
    PROVE  /\ call' \in [Calls -> {"new", "loaded", "turn", "done", "failed"}]
           /\ call'[q] = "turn" /\ \A o \in Calls : o # q => call'[o] = call[o]
           /\ target' \in [Calls -> Convs \cup {NoConv}]
           /\ target'[q] = c /\ \A o \in Calls : o # q => target'[o] = target[o]
           /\ crowd' \in [Convs -> Nat]
           /\ Cardinality(Working(c)') = Cardinality(Working(c)) + 1
           /\ Cardinality(Working(c)) + 1 <= crowd'[c]
           /\ \A d \in Convs : d # c => Working(d)' = Working(d) /\ crowd'[d] = crowd[d]
  <1>1. /\ call' \in [Calls -> {"new", "loaded", "turn", "done", "failed"}]
        /\ call'[q] = "turn" /\ \A o \in Calls : o # q => call'[o] = call[o]
        /\ target' \in [Calls -> Convs \cup {NoConv}]
        /\ target'[q] = c /\ \A o \in Calls : o # q => target'[o] = target[o]
    BY DEF Begin, ConvTypeOK
  <1>2. Working(c)' = Working(c) \cup {q} /\ q \notin Working(c)
    BY <1>1 DEF Working
  <1>3. Cardinality(Working(c)') = Cardinality(Working(c)) + 1
    BY <1>2, WorkFinite, FS_AddElement
  <1>4. \A d \in Convs : d # c => Working(d)' = Working(d)
    BY <1>1 DEF Working
  <1> DEFINE n == Cardinality(Working(c)) + 1
  <1>5. n \in Nat
    BY WorkFinite
  <1>6. crowd' = [crowd EXCEPT ![c] = IF n > @ THEN n ELSE @]
    BY DEF Begin
  <1> HIDE DEF n
  <1>7. /\ crowd' \in [Convs -> Nat] /\ n <= crowd'[c]
        /\ \A d \in Convs : d # c => crowd'[d] = crowd[d]
    BY <1>5, <1>6 DEF ConvTypeOK
  <1> QED BY <1>1, <1>3, <1>4, <1>7 DEF n

(* A turn that ends leaves them.                                                *)
LEMMA WorkShrinks ==
    ASSUME ConvTypeOK, NEW q \in Calls, call[q] = "turn", NEW c \in Convs, c = target[q],
           NEW result \in {"done", "failed"}, Finish(q, result)
    PROVE  /\ call' \in [Calls -> {"new", "loaded", "turn", "done", "failed"}]
           /\ call'[q] = result /\ \A o \in Calls : o # q => call'[o] = call[o]
           /\ target' \in [Calls -> Convs \cup {NoConv}]
           /\ \A o \in Calls : o # q => target'[o] = target[o]
           /\ seen' \in [Calls -> {"none", "live", "archived"}]
           /\ Cardinality(Working(c)') = Cardinality(Working(c)) - 1
           /\ \A d \in Convs : d # c => Working(d)' = Working(d)
  <1>1. /\ call' \in [Calls -> {"new", "loaded", "turn", "done", "failed"}]
        /\ call'[q] = result /\ \A o \in Calls : o # q => call'[o] = call[o]
        /\ target' \in [Calls -> Convs \cup {NoConv}]
        /\ \A o \in Calls : o # q => target'[o] = target[o]
        /\ seen' \in [Calls -> {"none", "live", "archived"}]
    BY DEF Finish, ConvTypeOK
  <1>2. \A d \in Convs : Working(d)' = Working(d) \ {q}
    BY <1>1 DEF Working
  <1>3. q \in Working(c) /\ \A d \in Convs : d # c => q \notin Working(d)
    BY DEF Working
  <1>4. Cardinality(Working(c) \ {q}) = Cardinality(Working(c)) - 1
    BY <1>3, WorkFinite, FS_RemoveElement
  <1>5. Cardinality(Working(c)') = Cardinality(Working(c)) - 1
    BY <1>2, <1>4
  <1>6. \A d \in Convs : d # c => Working(d)' = Working(d)
    BY <1>2, <1>3
  <1> QED BY <1>1, <1>5, <1>6

(* Begins with room in the conversation: the bound moves with the crowd.        *)
LEMMA Joined ==
    ASSUME ConvInv, NEW q \in Calls, call[q] # "turn", NEW c \in Convs, Begin(q, c),
           size' = size, size[c] <= Limit, conv'[c] # "none",
           \A d \in Convs : conv[d] # "none" => conv'[d] # "none"
    PROVE  CallsPlaced' /\ Unborn' /\ ConversationIsBounded'
  <1> USE DEF ConvInv
  <1>1. CallsPlaced'
    BY WorkGrows DEF CallsPlaced
  <1>2. Unborn'
    BY DEF Unborn
  <1>3. ASSUME NEW d \in Convs
        PROVE size'[d] + 2 * Cardinality(Working(d)') <= Limit + 2 * crowd'[d]
    <2>1. CASE d = c
      <3> DEFINE n == Cardinality(Working(c)) m == Cardinality(Working(c)')
      <3>1. n \in Nat /\ m = n + 1 /\ n + 1 <= crowd'[c] /\ crowd'[c] \in Nat
        BY WorkFinite, WorkGrows
      <3>2. size'[c] \in Nat /\ size'[c] <= Limit /\ Limit \in Nat
        BY ConversationsAssumption DEF ConvTypeOK
      <3> HIDE DEF n, m
      <3>3. size'[c] + 2 * m <= Limit + 2 * crowd'[c]
        BY <3>1, <3>2
      <3> QED BY <3>3, <2>1 DEF m
    <2>2. CASE d # c
      <3>1. Working(d)' = Working(d) /\ crowd'[d] = crowd[d] /\ size'[d] = size[d]
        BY <2>2, WorkGrows
      <3> QED BY <3>1 DEF ConversationIsBounded
    <2> QED BY <2>1, <2>2
  <1>4. ConversationIsBounded'
    BY <1>3 DEF ConversationIsBounded
  <1> QED BY <1>1, <1>2, <1>4

(* What a turn adds when it ends it was accounted for while it worked.          *)
LEMMA Left ==
    ASSUME ConvInv, NEW q \in Calls, call[q] = "turn", NEW c \in Convs, c = target[q],
           NEW result \in {"done", "failed"}, Finish(q, result), UNCHANGED crowd,
           size' \in [Convs -> Nat], size'[c] <= size[c] + 2,
           \A d \in Convs : d # c => size'[d] = size[d],
           \A d \in Convs : (conv'[d] = "none") = (conv[d] = "none")
    PROVE  CallsPlaced' /\ Unborn' /\ ConversationIsBounded'
  <1> USE DEF ConvInv
  <1>0. conv[c] # "none"
    BY DEF CallsPlaced
  <1>1. CallsPlaced'
    BY WorkShrinks DEF CallsPlaced
  <1>2. Unborn'
    BY <1>0 DEF Unborn
  <1>3. ASSUME NEW d \in Convs
        PROVE size'[d] + 2 * Cardinality(Working(d)') <= Limit + 2 * crowd'[d]
    <2>1. CASE d = c
      <3> DEFINE n == Cardinality(Working(c)) m == Cardinality(Working(c)')
      <3>1. n \in Nat /\ m = n - 1
        BY WorkFinite, WorkShrinks
      <3>2. /\ size'[c] \in Nat /\ size[c] \in Nat /\ size'[c] <= size[c] + 2
            /\ Limit \in Nat /\ crowd[c] \in Nat /\ crowd'[c] = crowd[c]
        BY ConversationsAssumption DEF ConvTypeOK
      <3>3. size[c] + 2 * n <= Limit + 2 * crowd[c]
        BY DEF ConversationIsBounded
      <3> HIDE DEF n, m
      <3>4. size'[c] + 2 * m <= Limit + 2 * crowd'[c]
        BY <3>1, <3>2, <3>3
      <3> QED BY <3>4, <2>1 DEF m
    <2>2. CASE d # c
      <3>1. Working(d)' = Working(d) /\ crowd'[d] = crowd[d] /\ size'[d] = size[d]
        BY <2>2, WorkShrinks
      <3> QED BY <3>1 DEF ConversationIsBounded
    <2> QED BY <2>1, <2>2
  <1>4. ConversationIsBounded'
    BY <1>3 DEF ConversationIsBounded
  <1> QED BY <1>1, <1>2, <1>4

(* A step that begins and ends no turn and adds no message.                     *)
LEMMA Aside ==
    ASSUME ConvInv, UNCHANGED crowd,
           \A q \in Calls : (call'[q] = "turn") = (call[q] = "turn"),
           \A q \in Calls : call[q] = "turn" => target'[q] = target[q],
           \A c \in Convs : size'[c] \in Nat /\ size'[c] <= size[c],
           \A c \in Convs : (conv'[c] = "none") = (conv[c] = "none"),
           CallsPlaced'
    PROVE  Unborn' /\ ConversationIsBounded'
  <1> USE DEF ConvInv
  <1>1. Unborn'
    BY DEF Unborn, ConvTypeOK
  <1>2. ASSUME NEW c \in Convs
        PROVE size'[c] + 2 * Cardinality(Working(c)') <= Limit + 2 * crowd'[c]
    <2>1. Working(c)' = Working(c)
      BY DEF Working
    <2> DEFINE n == Cardinality(Working(c))
    <2>2. n \in Nat /\ size[c] + 2 * n <= Limit + 2 * crowd[c]
      BY WorkFinite DEF ConversationIsBounded
    <2>3. /\ size'[c] \in Nat /\ size[c] \in Nat /\ size'[c] <= size[c]
          /\ Limit \in Nat /\ crowd[c] \in Nat /\ crowd'[c] = crowd[c]
      BY ConversationsAssumption DEF ConvTypeOK
    <2> HIDE DEF n
    <2>4. size'[c] + 2 * n <= Limit + 2 * crowd'[c]
      BY <2>2, <2>3
    <2> QED BY <2>1, <2>4 DEF n
  <1>3. ConversationIsBounded'
    BY <1>2 DEF ConversationIsBounded
  <1> QED BY <1>1, <1>3

(* The case of Aside in which the requests do not move at all.                  *)
LEMMA Elsewhere ==
    ASSUME ConvInv, UNCHANGED convCalls,
           \A c \in Convs : size'[c] \in Nat /\ size'[c] <= size[c],
           \A c \in Convs : (conv'[c] = "none") = (conv[c] = "none")
    PROVE  CallsPlaced' /\ Unborn' /\ ConversationIsBounded'
  <1>1. CallsPlaced'
    BY DEF ConvInv, CallsPlaced, convCalls
  <1> QED BY <1>1, Aside DEF convCalls

------------------------------------------------------------------------------
(* The steps of a request. *)

(* A new conversation is named after the message that starts it.                *)
LEMMA StartConversationInv ==
    ASSUME ConvInv, NEW q \in Calls, NEW c \in Convs, StartConversation(q, c)
    PROVE  ConvInv'
  <1> USE DEF ConvInv
  <1>1. Begin(q, c) /\ call[q] # "turn"
    BY DEF StartConversation
  <1>2. /\ conv' = [conv EXCEPT ![c] = "draft"] /\ conv[c] = "none"
        /\ title' = [title EXCEPT ![c] = TextOf[q]]
        /\ UNCHANGED <<setting, size, summary, handoff, attached, seen, titling, folding>>
    BY DEF StartConversation, convTasks
  <1>3. ConvTypeOK'
    <2>1. /\ call' \in [Calls -> {"new", "loaded", "turn", "done", "failed"}]
          /\ target' \in [Calls -> Convs \cup {NoConv}] /\ crowd' \in [Convs -> Nat]
      BY <1>1, WorkGrows
    <2>2. title' \in [Convs -> Titles]
      BY <1>2, ConversationsAssumption DEF ConvTypeOK
    <2> QED BY <1>2, <2>1, <2>2 DEF ConvTypeOK
  <1>4. size[c] <= Limit
    BY <1>2, ConversationsAssumption DEF Unborn
  <1>5. conv'[c] # "none" /\ \A d \in Convs : conv[d] # "none" => conv'[d] # "none"
    BY <1>2 DEF ConvTypeOK
  <1>6. CallsPlaced' /\ Unborn' /\ ConversationIsBounded'
    BY <1>1, <1>2, <1>4, <1>5, Joined
  <1> QED BY <1>3, <1>6

(* A successor is named as its predecessor is, whatever becomes of that one.    *)
LEMMA SucceedInv ==
    ASSUME ConvInv, NEW q \in Calls, call[q] = "loaded", NEW c \in Convs, NEW told \in BOOLEAN,
           NEW o \in Convs, Succeed(q, o, c, told),
           conv' \in [Convs -> {"none", "draft", "live", "archived", "deleted"}],
           conv'[c] # "none", \A d \in Convs : conv[d] # "none" => conv'[d] # "none"
    PROVE  ConvInv'
  <1> USE DEF ConvInv
  <1>1. Begin(q, c) /\ call[q] # "turn"
    BY DEF Succeed
  <1>2. /\ conv[c] = "none" /\ title' = [title EXCEPT ![c] = title[o]]
        /\ setting' = [setting EXCEPT ![c] = setting[o]]
        /\ handoff' = [handoff EXCEPT ![c] = told]
        /\ UNCHANGED <<size, summary, attached, seen, titling, folding>>
    BY DEF Succeed, convTasks
  <1>3. ConvTypeOK'
    <2>1. /\ call' \in [Calls -> {"new", "loaded", "turn", "done", "failed"}]
          /\ target' \in [Calls -> Convs \cup {NoConv}] /\ crowd' \in [Convs -> Nat]
      BY <1>1, WorkGrows
    <2> QED BY <1>2, <2>1 DEF ConvTypeOK
  <1>4. size[c] <= Limit
    BY <1>2, ConversationsAssumption DEF Unborn
  <1>5. CallsPlaced' /\ Unborn' /\ ConversationIsBounded'
    BY <1>1, <1>2, <1>4, Joined
  <1> QED BY <1>3, <1>5

(* The four ways in which the request comes to its conversation.                *)
LEMMA ResolveInv ==
    ASSUME ConvInv, NEW q \in Calls, NEW c \in Convs,
           \/ LoadConversation(q, c) \/ ContinueArchived(q, c) \/ Rotate(q, c)
           \/ Stay(q) \/ Gone(q)
    PROVE  ConvInv'
  <1> USE DEF ConvInv
  <1>1. CASE LoadConversation(q, c)
    <2>1. /\ call[q] = "new" /\ conv[c] \in {"live", "archived"}
          /\ call' = [call EXCEPT ![q] = "loaded"] /\ target' = [target EXCEPT ![q] = c]
          /\ seen' = [seen EXCEPT ![q] = conv[c]]
          /\ UNCHANGED <<conv, title, setting, size, summary, handoff, attached,
                         titling, folding, crowd>>
      BY <1>1 DEF LoadConversation, Visible, convRows, convTasks
    <2>2. ConvTypeOK'
      BY <2>1 DEF ConvTypeOK
    <2>3. CallsPlaced'
      BY <2>1 DEF CallsPlaced, ConvTypeOK
    <2>4. /\ \A r \in Calls : (call'[r] = "turn") = (call[r] = "turn")
          /\ \A r \in Calls : call[r] = "turn" => target'[r] = target[r]
      BY <2>1 DEF ConvTypeOK
    <2>5. \A d \in Convs : size'[d] \in Nat /\ size'[d] <= size[d]
      BY <2>1 DEF ConvTypeOK
    <2>6. Unborn' /\ ConversationIsBounded'
      BY <2>1, <2>3, <2>4, <2>5, Aside
    <2> QED BY <2>1, <2>2, <2>3, <2>6
  <1>2. CASE ContinueArchived(q, c)
    <2>1. call[q] = "loaded" /\ target[q] \in Convs /\ Succeed(q, target[q], c, FALSE)
      BY <1>2 DEF ContinueArchived, CallsPlaced
    <2>2. /\ conv' \in [Convs -> {"none", "draft", "live", "archived", "deleted"}]
          /\ conv'[c] # "none" /\ \A d \in Convs : conv[d] # "none" => conv'[d] # "none"
      BY <1>2 DEF ContinueArchived, ConvTypeOK
    <2> QED BY <2>1, <2>2, SucceedInv
  <1>3. CASE Rotate(q, c)
    <2>1. call[q] = "loaded" /\ target[q] \in Convs /\ Succeed(q, target[q], c, TRUE)
      BY <1>3 DEF Rotate, CallsPlaced
    <2>2. /\ conv' \in [Convs -> {"none", "draft", "live", "archived", "deleted"}]
          /\ conv'[c] # "none" /\ \A d \in Convs : conv[d] # "none" => conv'[d] # "none"
      BY <1>3 DEF Rotate, ConvTypeOK
    <2> QED BY <2>1, <2>2, SucceedInv
  <1>4. CASE Stay(q)
    <2> DEFINE d == target[q]
    <2>1. d \in Convs /\ conv[d] # "none" /\ size[d] <= Limit /\ Begin(q, d) /\ call[q] # "turn"
      BY <1>4 DEF Stay, CallsPlaced
    <2>2. UNCHANGED <<conv, title, setting, size, summary, handoff, attached,
                      titling, folding, seen>>
      BY <1>4 DEF Stay, convRows, convTasks
    <2> HIDE DEF d
    <2>3. /\ call' \in [Calls -> {"new", "loaded", "turn", "done", "failed"}]
          /\ target' \in [Calls -> Convs \cup {NoConv}] /\ crowd' \in [Convs -> Nat]
      BY <2>1, WorkGrows
    <2>4. ConvTypeOK'
      BY <2>2, <2>3 DEF ConvTypeOK
    <2>5. PICK e \in Convs : e = d
      BY <2>1
    <2>6. CallsPlaced' /\ Unborn' /\ ConversationIsBounded'
      BY <2>1, <2>2, <2>5, Joined
    <2> QED BY <2>2, <2>4, <2>6
  <1>5. CASE Gone(q)
    <2>1. /\ call[q] = "loaded" /\ call' = [call EXCEPT ![q] = "failed"]
          /\ target' = [target EXCEPT ![q] = NoConv] /\ seen' = [seen EXCEPT ![q] = "none"]
          /\ UNCHANGED <<conv, title, setting, size, summary, handoff, attached,
                         titling, folding, crowd>>
      BY <1>5 DEF Gone, Finish, convRows, convTasks
    <2>2. ConvTypeOK'
      BY <2>1 DEF ConvTypeOK
    <2>3. CallsPlaced'
      BY <2>1 DEF CallsPlaced, ConvTypeOK
    <2>4. /\ \A r \in Calls : (call'[r] = "turn") = (call[r] = "turn")
          /\ \A r \in Calls : call[r] = "turn" => target'[r] = target[r]
      BY <2>1 DEF ConvTypeOK
    <2>5. \A d \in Convs : size'[d] \in Nat /\ size'[d] <= size[d]
      BY <2>1 DEF ConvTypeOK
    <2>6. Unborn' /\ ConversationIsBounded'
      BY <2>1, <2>3, <2>4, <2>5, Aside
    <2> QED BY <2>1, <2>2, <2>3, <2>6
  <1> QED BY <1>1, <1>2, <1>3, <1>4, <1>5

(* The end of a turn, with messages or without.                                 *)
LEMMA EndInv ==
    ASSUME ConvInv, NEW q \in Calls, CommitTurn(q) \/ CommitCompare(q) \/ LoseTurn(q)
    PROVE  ConvInv'
  <1> USE DEF ConvInv
  <1>1. PICK c \in Convs : c = target[q] /\ call[q] = "turn"
    BY DEF CommitTurn, CommitCompare, LoseTurn, CallsPlaced
  <1>2. PICK result \in {"done", "failed"} : Finish(q, result)
    BY DEF CommitTurn, CommitCompare, LoseTurn
  <1>3. \E v \in {"live", "deleted"} :
           conv' = [conv EXCEPT ![c] = IF @ = "draft" THEN v ELSE @]
    BY <1>1 DEF CommitTurn, CommitCompare, LoseTurn
  <1>4. /\ conv' \in [Convs -> {"none", "draft", "live", "archived", "deleted"}]
        /\ \A d \in Convs : (conv'[d] = "none") = (conv[d] = "none")
    BY <1>3 DEF ConvTypeOK
  <1>5. size' = size \/ size' = [size EXCEPT ![c] = @ + 2]
    BY <1>1 DEF CommitTurn, CommitCompare, LoseTurn
  <1>6. /\ size' \in [Convs -> Nat] /\ size'[c] <= size[c] + 2
        /\ \A d \in Convs : d # c => size'[d] = size[d]
    BY <1>5 DEF ConvTypeOK
  <1>7. UNCHANGED <<title, setting, summary, handoff, attached, crowd>>
    BY DEF CommitTurn, CommitCompare, LoseTurn
  <1>8. titling' \subseteq Convs \X Calls /\ folding' \subseteq Convs \X Nat
    BY <1>1 DEF CommitTurn, CommitCompare, LoseTurn, convTasks, ConvTypeOK
  <1>9. ConvTypeOK'
    <2>1. /\ call' \in [Calls -> {"new", "loaded", "turn", "done", "failed"}]
          /\ target' \in [Calls -> Convs \cup {NoConv}]
          /\ seen' \in [Calls -> {"none", "live", "archived"}]
      BY <1>1, <1>2, WorkShrinks
    <2> QED BY <1>4, <1>6, <1>7, <1>8, <2>1 DEF ConvTypeOK
  <1>10. CallsPlaced' /\ Unborn' /\ ConversationIsBounded'
    BY <1>1, <1>2, <1>4, <1>6, <1>7, Left
  <1> QED BY <1>7, <1>9, <1>10

------------------------------------------------------------------------------
(* Tasks, endpoints and resets. *)

(* The tasks a turn leaves behind touch titles and summaries.                   *)
LEMMA TaskInv ==
    ASSUME ConvInv,
           \/ \E t \in titling, new \in Titles : AutoTitle(t, new)
           \/ \E t \in folding : ReadHistory(t) \/ StoreSummary(t)
    PROVE  ConvInv'
  <1> USE DEF ConvInv
  <1>1. UNCHANGED <<conv, size>> /\ UNCHANGED convCalls
    BY DEF AutoTitle, ReadHistory, StoreSummary, convRows
  <1>2. \A c \in Convs : size'[c] \in Nat /\ size'[c] <= size[c]
    BY <1>1 DEF ConvTypeOK
  <1>3. CallsPlaced' /\ Unborn' /\ ConversationIsBounded'
    BY <1>1, <1>2, Elsewhere
  <1>4. CASE \E t \in titling, new \in Titles : AutoTitle(t, new)
    <2>1. PICK t \in titling, new \in Titles : AutoTitle(t, new)
      BY <1>4
    <2>2. t[1] \in Convs /\ t[2] \in Calls
      BY DEF ConvTypeOK
    <2>3. /\ title' = title \/ title' = [title EXCEPT ![t[1]] = new]
          /\ titling' = titling \ {t}
          /\ UNCHANGED <<conv, setting, size, summary, handoff, attached, folding,
                         call, target, seen, crowd>>
      BY <2>1 DEF AutoTitle, convCalls
    <2>4. title' \in [Convs -> Titles]
      BY <2>2, <2>3 DEF ConvTypeOK
    <2>5. ConvTypeOK'
      BY <2>3, <2>4 DEF ConvTypeOK
    <2> QED BY <1>3, <2>5
  <1>5. CASE \E t \in folding : ReadHistory(t) \/ StoreSummary(t)
    <2>1. PICK t \in folding : ReadHistory(t) \/ StoreSummary(t)
      BY <1>5
    <2>2. t[1] \in Convs /\ t[2] \in Nat
      BY DEF ConvTypeOK
    <2>3. UNCHANGED <<conv, title, setting, size, attached, titling,
                      call, target, seen, crowd>>
      BY <2>1 DEF ReadHistory, StoreSummary, convRows, convCalls
    <2>4. folding' \subseteq Convs \X Nat
      <3>1. CASE StoreSummary(t)
        BY <3>1 DEF StoreSummary, ConvTypeOK
      <3>2. CASE ReadHistory(t)
        <4>1. size[t[1]] > KeepRaw => size[t[1]] - KeepRaw \in Nat
          BY <2>2, ConversationsAssumption DEF ConvTypeOK
        <4> QED BY <3>2, <2>2, <4>1 DEF ReadHistory, ConvTypeOK
      <3> QED BY <2>1, <3>1, <3>2
    <2>5. summary' \in [Convs -> Nat] /\ handoff' \in [Convs -> BOOLEAN]
      BY <2>1, <2>2 DEF ReadHistory, StoreSummary, convRows, ConvTypeOK
    <2>6. ConvTypeOK'
      BY <2>3, <2>4, <2>5 DEF ConvTypeOK
    <2> QED BY <1>3, <2>3, <2>6
  <1> QED BY <1>4, <1>5

(* Endpoints and resets name and begin nothing.                                 *)
LEMMA EndpointInv ==
    ASSUME ConvInv,
           \/ \E c \in Convs :
                 \/ \E s \in Settings : PatchConversation(c, s)
                 \/ \E f \in Files : AttachFile(c, f) \/ DetachFile(c, f)
                 \/ DeleteConversation(c)
           \/ \E S \in SUBSET Convs : SoftReset(S)
           \/ HardReset
    PROVE  ConvInv'
  <1> USE DEF ConvInv
  <1>1. /\ UNCHANGED <<title, titling, folding, call, target, seen, crowd>>
        /\ UNCHANGED convCalls
    BY DEF PatchConversation, AttachFile, DetachFile, DeleteConversation, SoftReset, HardReset,
           convTasks, convCalls
  <1>2. /\ conv' \in [Convs -> {"none", "draft", "live", "archived", "deleted"}]
        /\ \A c \in Convs : (conv'[c] = "none") = (conv[c] = "none")
    <2>1. CASE HardReset
      BY <2>1 DEF HardReset, Archive, ConvTypeOK
    <2>2. CASE \E S \in SUBSET Convs : SoftReset(S)
      BY <2>2 DEF SoftReset, Archive, ConvTypeOK
    <2>3. CASE \E c \in Convs : DeleteConversation(c)
      BY <2>3 DEF DeleteConversation, Visible, ConvTypeOK
    <2>4. CASE UNCHANGED conv
      BY <2>4 DEF ConvTypeOK
    <2> QED BY <2>1, <2>2, <2>3, <2>4 DEF PatchConversation, AttachFile, DetachFile
  <1>3. size' \in [Convs -> Nat] /\ \A c \in Convs : size'[c] <= size[c]
    <2>1. size' = size \/ \E c \in Convs : size' = [size EXCEPT ![c] = 0]
      BY DEF PatchConversation, AttachFile, DetachFile, DeleteConversation, SoftReset, HardReset
    <2> QED BY <2>1 DEF ConvTypeOK
  <1>4. summary' \in [Convs -> Nat] /\ handoff' \in [Convs -> BOOLEAN]
    <2>1. CASE UNCHANGED <<summary, handoff>>
      BY <2>1 DEF ConvTypeOK
    <2>2. CASE \E c \in Convs : DeleteConversation(c)
      <3>1. PICK c \in Convs : summary' = [summary EXCEPT ![c] = 0]
                               /\ handoff' = [handoff EXCEPT ![c] = FALSE]
        BY <2>2 DEF DeleteConversation
      <3>2. summary' \in [Convs -> Nat]
        BY <3>1 DEF ConvTypeOK
      <3>3. handoff' \in [Convs -> BOOLEAN]
        BY <3>1 DEF ConvTypeOK
      <3> QED BY <3>2, <3>3
    <2> QED BY <2>1, <2>2 DEF PatchConversation, AttachFile, DetachFile, SoftReset, HardReset
  <1>5. attached' \in [Convs -> SUBSET Files] /\ setting' \in [Convs -> Settings]
    BY DEF PatchConversation, AttachFile, DetachFile, DeleteConversation, SoftReset, HardReset,
           ConvTypeOK
  <1>6. ConvTypeOK'
    BY <1>1, <1>2, <1>3, <1>4, <1>5 DEF ConvTypeOK
  <1>7. CallsPlaced' /\ Unborn' /\ ConversationIsBounded'
    BY <1>1, <1>2, <1>3, Elsewhere
  <1> QED BY <1>1, <1>6, <1>7

(* Every step keeps the invariant.                                              *)
LEMMA ConvNextInv == ConvInv /\ [ConvNext]_convVars => ConvInv'
  <1> SUFFICES ASSUME ConvInv, [ConvNext]_convVars PROVE ConvInv'
    OBVIOUS
  <1>1. CASE UNCHANGED convVars
    <2>1. UNCHANGED convRows /\ UNCHANGED convTasks /\ UNCHANGED convCalls
      BY <1>1 DEF convVars
    <2>2. UNCHANGED <<conv, title, setting, size, summary, handoff, attached,
                      titling, folding, call, target, seen, crowd>>
      BY <2>1 DEF convRows, convTasks, convCalls
    <2>3. ConvTypeOK' /\ Unborn' /\ CallsPlaced'
      BY <2>2 DEF ConvInv, ConvTypeOK, Unborn, CallsPlaced
    <2>4. \A c \in Convs : size'[c] \in Nat /\ size'[c] <= size[c]
      BY <2>2 DEF ConvInv, ConvTypeOK
    <2>5. ConversationIsBounded'
      BY <2>1, <2>2, <2>4, Elsewhere
    <2> QED BY <2>3, <2>5 DEF ConvInv
  <1>2. CASE \E q \in Calls, c \in Convs : StartConversation(q, c)
    BY <1>2, StartConversationInv
  <1>3. CASE \E q \in Calls, c \in Convs :
                LoadConversation(q, c) \/ ContinueArchived(q, c) \/ Rotate(q, c)
    BY <1>3, ResolveInv
  <1>4. CASE \E q \in Calls : Stay(q) \/ Gone(q)
    <2>1. PICK q \in Calls : Stay(q) \/ Gone(q)
      BY <1>4
    <2>2. target[q] \in Convs
      BY <2>1 DEF ConvInv, CallsPlaced, Stay, Gone
    <2> QED BY <2>1, <2>2, ResolveInv
  <1>5. CASE \E q \in Calls : CommitTurn(q) \/ CommitCompare(q) \/ LoseTurn(q)
    BY <1>5, EndInv
  <1>6. CASE \/ \E t \in titling, new \in Titles : AutoTitle(t, new)
             \/ \E t \in folding : ReadHistory(t) \/ StoreSummary(t)
    BY <1>6, TaskInv
  <1>7. CASE \/ \E c \in Convs :
                   \/ \E s \in Settings : PatchConversation(c, s)
                   \/ \E f \in Files : AttachFile(c, f) \/ DetachFile(c, f)
                   \/ DeleteConversation(c)
             \/ \E S \in SUBSET Convs : SoftReset(S)
             \/ HardReset
    BY <1>7, EndpointInv
  <1> QED BY <1>1, <1>2, <1>3, <1>4, <1>5, <1>6, <1>7 DEF ConvNext

(* However requests overlap, a conversation outgrows the rotation limit by no   *)
(* more than the turns that were on it at once add (_check_rotation).           *)
THEOREM RotationBounds == ConvSpec => []ConversationIsBounded
  <1>1. ConvInv => ConversationIsBounded
    BY DEF ConvInv
  <1> QED BY <1>1, ConvInitInv, ConvNextInv, PTL DEF ConvSpec

------------------------------------------------------------------------------
(* The size of the graph. *)

(* An extraction that is past its count has at most a batch to add, and one     *)
(* that goes straight to the merge has nothing to evict.                        *)
BatchInv ==
    /\ \A j \in Jobs : Cardinality(batch[j]) <= MaxBatch
    /\ \A j \in Jobs : job[j] = "merge" => overflow[j] = 0
    /\ Cardinality(InFlightJobs) <= busy

(* Room for the extractions in flight: whichever of them go on, there is one    *)
(* among them that counted when the batches of the others fitted.               *)
Extra(n) == (IF n > 1 THEN n - 1 ELSE 0) * MaxBatch
Fits(w, k) ==
    Cardinality(nodes) + Cardinality(batch[w]) + (k - 1) * MaxBatch
        <= MaxEntities + Extra(busy) + overflow[w]
RoomInv ==
    /\ Cardinality(nodes) <= MaxEntities + Extra(busy)
    /\ \A S \in SUBSET InFlightJobs : S # {} => \E w \in S : Fits(w, Cardinality(S))

SizeInv == GraphTypeOK /\ BatchInv /\ RoomInv

(* Multiples of a batch.                                                        *)
LEMMA BatchTimes ==
    /\ \A m, n \in Nat : m <= n => m * MaxBatch <= n * MaxBatch
    /\ \A n \in Nat : n * MaxBatch \in Nat /\ (n + 1) * MaxBatch = n * MaxBatch + MaxBatch
  <1>1. MaxBatch \in Nat
    BY GraphAssumption
  <1>2. ASSUME NEW m \in Nat, NEW n \in Nat, m <= n PROVE m * MaxBatch <= n * MaxBatch
    BY <1>1, <1>2
  <1>3. ASSUME NEW n \in Nat
        PROVE  n * MaxBatch \in Nat /\ (n + 1) * MaxBatch = n * MaxBatch + MaxBatch
    BY <1>1
  <1> QED BY <1>2, <1>3

(* What concurrency costs grows with the extractions in flight.                 *)
LEMMA ExtraFacts ==
    /\ \A n \in Nat : Extra(n) \in Nat
    /\ \A m, n \in Nat : m <= n => Extra(m) <= Extra(n)
    /\ \A n \in Nat : n >= 1 => Extra(n) = (n - 1) * MaxBatch
    /\ Extra(0) = 0
  <1>1. ASSUME NEW n \in Nat
        PROVE  Extra(n) \in Nat /\ (n >= 1 => Extra(n) = (n - 1) * MaxBatch)
    <2>1. CASE n > 1
      <3>1. n - 1 \in Nat
        BY <2>1
      <3> QED BY <2>1, <3>1, BatchTimes DEF Extra
    <2>2. CASE n <= 1
      BY <2>2, BatchTimes DEF Extra
    <2> QED BY <2>1, <2>2
  <1>2. ASSUME NEW m \in Nat, NEW n \in Nat, m <= n PROVE Extra(m) <= Extra(n)
    <2> DEFINE x == IF m > 1 THEN m - 1 ELSE 0
               y == IF n > 1 THEN n - 1 ELSE 0
    <2>1. x \in Nat /\ y \in Nat /\ x <= y
      BY <1>2
    <2> HIDE DEF x, y
    <2>2. x * MaxBatch <= y * MaxBatch
      BY <2>1, BatchTimes
    <2> QED BY <2>2 DEF Extra, x, y
  <1>3. Extra(0) = 0
    BY GraphAssumption DEF Extra
  <1> QED BY <1>1, <1>2, <1>3

(* All sets of names and of extractions are finite.                             *)
LEMMA FiniteFacts ==
    /\ \A N \in SUBSET Names : IsFiniteSet(N) /\ Cardinality(N) \in Nat
    /\ \A N, M \in SUBSET Names : N \subseteq M => Cardinality(N) <= Cardinality(M)
    /\ \A S \in SUBSET Jobs : IsFiniteSet(S) /\ Cardinality(S) \in Nat
    /\ \A S, U \in SUBSET Jobs : S \subseteq U => Cardinality(S) <= Cardinality(U)
    /\ \A S \in SUBSET Jobs : S # {} => Cardinality(S) >= 1
  <1>1. /\ \A N \in SUBSET Names : IsFiniteSet(N)
        /\ \A S \in SUBSET Jobs : IsFiniteSet(S)
    BY FS_Subset, GraphAssumption
  <1>2. /\ \A N \in SUBSET Names : Cardinality(N) \in Nat
        /\ \A S \in SUBSET Jobs : Cardinality(S) \in Nat
    BY <1>1, FS_CardinalityType
  <1>3. /\ \A N, M \in SUBSET Names : N \subseteq M => Cardinality(N) <= Cardinality(M)
        /\ \A S, U \in SUBSET Jobs : S \subseteq U => Cardinality(S) <= Cardinality(U)
    BY <1>1, FS_Subset
  <1>4. \A S \in SUBSET Jobs : S # {} => Cardinality(S) >= 1
    BY <1>1, <1>2, FS_EmptySet
  <1> QED BY <1>1, <1>2, <1>3, <1>4

(* A step that adds no node, that starts no extraction and that leaves those in *)
(* flight alone keeps room for them.                                            *)
LEMMA NoGrowth ==
    ASSUME SizeInv, GraphTypeOK', nodes' \subseteq nodes, busy' = busy,
           InFlightJobs' \subseteq InFlightJobs,
           \A j \in InFlightJobs' : /\ batch'[j] = batch[j] /\ overflow'[j] = overflow[j]
                                    /\ job'[j] = job[j],
           \A j \in Jobs : Cardinality(batch'[j]) <= MaxBatch
    PROVE  SizeInv'
  <1> USE GraphAssumption DEF SizeInv
  <1>0. InFlightJobs \subseteq Jobs /\ InFlightJobs' \subseteq Jobs /\ nodes \subseteq Names
        /\ nodes' \subseteq Names /\ busy \in Nat
    BY DEF InFlightJobs, GraphTypeOK
  <1>1. /\ Cardinality(nodes') \in Nat /\ Cardinality(nodes) \in Nat
        /\ Cardinality(nodes') <= Cardinality(nodes)
    BY <1>0, FiniteFacts
  <1>2. /\ Cardinality(InFlightJobs') \in Nat /\ Cardinality(InFlightJobs) \in Nat
        /\ Cardinality(InFlightJobs') <= Cardinality(InFlightJobs)
    BY <1>0, FiniteFacts
  <1>3. BatchInv'
    <2>1. \A j \in Jobs : job'[j] = "merge" => overflow'[j] = 0
      BY DEF BatchInv, InFlightJobs, Waiting
    <2> QED BY <1>0, <1>2, <2>1 DEF BatchInv
  <1>4. Cardinality(nodes') <= MaxEntities + Extra(busy')
    BY <1>0, <1>1, ExtraFacts DEF RoomInv
  <1>5. ASSUME NEW S \in SUBSET InFlightJobs', S # {}
        PROVE  \E w \in S : Fits(w, Cardinality(S))'
    <2>1. PICK w \in S : Fits(w, Cardinality(S))
      BY <1>5 DEF RoomInv
    <2>2. Cardinality(S) - 1 \in Nat
      BY <1>0, <1>5, FiniteFacts
    <2>3. (Cardinality(S) - 1) * MaxBatch \in Nat
      BY <2>2, BatchTimes
    <2>4. Cardinality(batch[w]) \in Nat /\ overflow[w] \in Nat
      BY <1>0, FiniteFacts DEF GraphTypeOK
    <2>5. Extra(busy) \in Nat
      BY <1>0, ExtraFacts
    <2>6. Fits(w, Cardinality(S))'
      BY <1>0, <1>1, <2>1, <2>3, <2>4, <2>5 DEF Fits, Extra
    <2> QED BY <2>6
  <1> QED BY <1>3, <1>4, <1>5 DEF RoomInv

(* A finite set of names has a longest one: of the sets of longer names, one is *)
(* minimal, and it is empty.                                                    *)
LEMMA LongestFacts ==
    ASSUME NEW S \in SUBSET Names, S # {}
    PROVE  Longest(S) \in S /\ \A o \in S : Length[o] <= Length[Longest(S)]
  <1> DEFINE Longer(n) == {o \in S : Length[o] > Length[n]}
             Sets == {Longer(n) : n \in S}
  <1>1. \A n \in S : Longer(n) \in FiniteSubsetsOf(S)
    BY FiniteFacts DEF FiniteSubsetsOf
  <1>2. Sets \subseteq FiniteSubsetsOf(S) /\ Sets # {}
    BY <1>1
  <1> HIDE DEF Sets
  <1>3. PICK U \in Sets : \A V \in Sets : <<V, U>> \notin StrictSubsetOrdering(S)
    BY <1>2, FS_StrictSubsetOrderingWellFounded, WFMin
  <1>4. PICK n \in S : U = Longer(n)
    BY <1>3 DEF Sets
  <1>5. \A o \in S : Length[o] <= Length[n]
    <2> SUFFICES ASSUME NEW o \in S, Length[o] > Length[n] PROVE FALSE
      BY GraphAssumption
    <2>1. o \in Longer(n) /\ o \notin Longer(o)
      BY GraphAssumption
    <2>2. Longer(o) \subseteq Longer(n)
      BY GraphAssumption
    <2>3. Longer(o) \in Sets /\ Longer(o) \in SUBSET S /\ Longer(n) \in SUBSET S
      BY DEF Sets
    <2> HIDE DEF Longer
    <2>4. <<Longer(o), Longer(n)>> \in StrictSubsetOrdering(S)
      BY <2>1, <2>2, <2>3 DEF StrictSubsetOrdering
    <2> QED BY <1>3, <1>4, <2>3, <2>4
  <1> QED BY <1>5 DEF Longest

(* A plan sends duplicates to names that are no duplicates: each to one, and    *)
(* nothing to itself.                                                           *)
Sound(pairs) ==
    /\ pairs \subseteq nodes \X nodes
    /\ \A p, q \in pairs : p[1] = q[1] => p = q
    /\ \A p, q \in pairs : p[1] # q[2]
LEMMA PlanFacts ==
    ASSUME GraphTypeOK PROVE Sound(FirstPlan) /\ Sound(SecondPlan)
  <1>1. ASSUME NEW n \in nodes
        PROVE  /\ Longest(SameNorm(n)) \in SameNorm(n) /\ Longest(SameType(n)) \in SameType(n)
               /\ Longest(SameNorm(n)) \in nodes /\ Longest(SameType(n)) \in nodes
    <2>1. /\ SameNorm(n) \in SUBSET Names /\ n \in SameNorm(n)
          /\ SameType(n) \in SUBSET Names /\ n \in SameType(n)
      BY DEF SameNorm, SameType, GraphTypeOK
    <2>2. Longest(SameNorm(n)) \in SameNorm(n) /\ Longest(SameType(n)) \in SameType(n)
      BY <2>1, LongestFacts
    <2> QED BY <2>2 DEF SameNorm, SameType
  <1>2. ASSUME NEW n \in nodes, NEW o \in nodes
        PROVE  /\ o = Longest(SameNorm(n)) => Longest(SameNorm(o)) = o
               /\ o = Longest(SameType(n)) => Longest(SameType(o)) = o
    <2>1. /\ o \in SameNorm(n) => SameNorm(o) = SameNorm(n)
          /\ o \in SameType(n) => SameType(o) = SameType(n)
      BY DEF SameNorm, SameType
    <2> QED BY <1>1, <2>1
  <1>3. Sound(FirstPlan)
    <2>1. \A p \in FirstPlan : /\ p = <<p[1], p[2]>> /\ p[1] \in nodes
                              /\ p[2] = Longest(SameNorm(p[1]))
                              /\ Longest(SameNorm(p[1])) # p[1]
      BY DEF FirstPlan
    <2> QED BY <1>1, <1>2, <2>1 DEF Sound
  <1>4. Sound(SecondPlan)
    <2>1. \A p \in SecondPlan : /\ p = <<p[1], p[2]>> /\ p[1] \in nodes
                               /\ p[2] = Longest(SameType(p[1]))
                               /\ Longest(SameType(p[1])) # p[1]
      <3> SUFFICES ASSUME NEW p \in SecondPlan
                   PROVE  /\ p = <<p[1], p[2]>> /\ p[1] \in nodes
                          /\ p[2] = Longest(SameType(p[1])) /\ Longest(SameType(p[1])) # p[1]
        OBVIOUS
      <3>1. PICK n \in nodes : Longest(SameType(n)) # n /\ p = <<n, Longest(SameType(n))>>
        BY Zenon DEF SecondPlan
      <3> QED BY <3>1
    <2> QED BY <1>1, <1>2, <2>1 DEF Sound
  <1> QED BY <1>3, <1>4

------------------------------------------------------------------------------
(* Types. *)

(* DETACH DELETE leaves no edge without its ends.                               *)
LEMMA DetachFacts ==
    ASSUME GraphTypeOK, NEW gone, Detach(gone)
    PROVE  /\ nodes' \subseteq nodes /\ nodes' \subseteq Names
           /\ edges' \subseteq nodes' \X nodes' /\ updated' \in [Names -> Nat]
  BY DEF Detach, GraphTypeOK

(* Owing and clearing keep the types of what the cache holds.                   *)
LEMMA OweTypes ==
    ASSUME GraphTypeOK, NEW w, NEW names, Owe(w, names) PROVE owed' \in [Writers -> SUBSET Names]
  BY GraphAssumption DEF GraphTypeOK, Owe
LEMMA ClearTypes ==
    ASSUME GraphTypeOK, NEW w \in Writers, ClearCache(w) \/ LeaveCache(w)
    PROVE  /\ answer' \in SUBSET Names /\ owed' \in [Writers -> SUBSET Names]
           /\ excused' \subseteq Names
  <1>1. owed[w] \subseteq Names
    BY DEF GraphTypeOK
  <1>2. answer' \in {{}, answer} /\ owed' = [owed EXCEPT ![w] = {}]
        /\ excused' \subseteq excused \cup owed[w]
    BY DEF ClearCache, LeaveCache
  <1> QED BY <1>1, <1>2 DEF GraphTypeOK

(* The steps of an extraction keep the types.                                   *)
LEMMA ExtractTypes ==
    ASSUME GraphTypeOK, NEW j \in Jobs,
           \/ \E b \in SUBSET Names : \E r \in SUBSET (b \X b) : Extract(j, b, r)
           \/ CheckCompaction(j) \/ CountEntities(j) \/ Evict(j) \/ MergeEntities(j)
           \/ UncacheEntities(j) \/ Relate(j) \/ FailExtract(j)
    PROVE  GraphTypeOK'
  <1> USE DEF GraphTypeOK, store, merger, caching
  <1>1. CASE \E b \in SUBSET Names : \E r \in SUBSET (b \X b) : Extract(j, b, r)
    <2>0. PICK b \in SUBSET Names : \E r \in SUBSET (b \X b) : Extract(j, b, r)
      BY <1>1
    <2>1. PICK r \in SUBSET (b \X b) : Extract(j, b, r)
      BY <2>0
    <2>2. {e \in r : e[1] \in b /\ e[2] \in b} \in SUBSET (Names \X Names)
      OBVIOUS
    <2> QED BY <2>1, <2>2 DEF Extract
  <1>0. j \in Writers
    BY DEF Writers
  <1>2. CASE CheckCompaction(j)
    BY <1>2 DEF CheckCompaction, End
  <1>8. CASE FailExtract(j)
    <2>1. /\ answer' \in SUBSET Names /\ owed' \in [Writers -> SUBSET Names]
          /\ excused' \subseteq Names
      BY <1>0, <1>8, ClearTypes DEF FailExtract
    <2> QED BY <1>8, <2>1 DEF FailExtract, End
  <1>3. CASE CountEntities(j)
    <2>1. Cardinality(nodes) \in Nat /\ Cardinality(batch[j]) \in Nat /\ MaxEntities \in Nat
      BY FiniteFacts, GraphAssumption
    <2>2. \A S \in SUBSET Jobs : Cardinality(S) \in Nat
      BY FiniteFacts
    <2>3. busy' \in Nat
      BY <1>3, <2>2 DEF CountEntities, Peak, InFlightJobs
    <2>4. overflow' \in [Jobs -> Nat]
      BY <1>3, <2>1 DEF CountEntities
    <2> QED BY <1>3, <2>3, <2>4 DEF CountEntities
  <1>4. CASE Evict(j)
    <2>1. PICK gone \in SUBSET nodes : Detach(gone) /\ Owe(j, gone)
      BY <1>4 DEF Evict
    <2>4. owed' \in [Writers -> SUBSET Names]
      BY <2>1, OweTypes
    <2>2. lost' \in BOOLEAN
      BY <1>4 DEF Evict
    <2>3. /\ nodes' \subseteq Names
          /\ edges' \subseteq nodes' \X nodes' /\ updated' \in [Names -> Nat]
      BY <2>1, DetachFacts
    <2> QED BY <1>4, <2>2, <2>3, <2>4 DEF Evict
  <1>5. CASE MergeEntities(j)
    <2>1. owed' \in [Writers -> SUBSET Names]
      BY <1>5, OweTypes DEF MergeEntities
    <2> QED BY <1>5, <2>1 DEF MergeEntities
  <1>6. CASE UncacheEntities(j)
    <2>1. /\ answer' \in SUBSET Names /\ owed' \in [Writers -> SUBSET Names]
          /\ excused' \subseteq Names
      BY <1>0, <1>6, ClearTypes DEF UncacheEntities
    <2> QED BY <1>6, <2>1 DEF UncacheEntities
  <1>7. CASE Relate(j)
    <2>1. edges' \subseteq nodes \X nodes
      BY <1>7 DEF Relate
    <2> QED BY <1>7, <2>1 DEF Relate, End
  <1> QED BY <1>1, <1>2, <1>3, <1>4, <1>5, <1>6, <1>7, <1>8

(* The steps of the merge of duplicates keep the types.                         *)
LEMMA MergeTypes ==
    ASSUME GraphTypeOK,
           \/ StartMerge \/ SecondPass \/ EndMerge \/ FailMerge
           \/ \E p \in Names \X Names :
                 TakeDuplicate(p) \/ RedirectOut(p) \/ RedirectIn(p) \/ DropDuplicate(p)
    PROVE  GraphTypeOK'
  <1> USE DEF GraphTypeOK, store, extraction, caching
  <1>1. CASE StartMerge \/ SecondPass
    <2>1. FirstPlan \subseteq Names \X Names /\ SecondPlan \subseteq Names \X Names
      BY PlanFacts DEF Sound
    <2>2. lost' \in BOOLEAN
      BY <1>1 DEF StartMerge, SecondPass
    <2> QED BY <1>1, <2>1, <2>2 DEF StartMerge, SecondPass
  <1>2. CASE EndMerge \/ FailMerge
    <2>1. /\ answer' \in SUBSET Names /\ owed' \in [Writers -> SUBSET Names]
          /\ excused' \subseteq Names
      BY <1>2, ClearTypes DEF EndMerge, FailMerge, Writers
    <2> QED BY <1>2, <2>1 DEF EndMerge, FailMerge
  <1>3. ASSUME NEW p \in Names \X Names,
               TakeDuplicate(p) \/ RedirectOut(p) \/ RedirectIn(p) \/ DropDuplicate(p)
        PROVE  GraphTypeOK'
    <2>1. CASE TakeDuplicate(p)
      BY <2>1 DEF TakeDuplicate
    <2>2. CASE RedirectOut(p)
      <3>1. edges' \subseteq nodes \X nodes
        BY <2>2 DEF RedirectOut
      <3> QED BY <2>2, <3>1 DEF RedirectOut
    <2>3. CASE RedirectIn(p)
      <3>1. edges' \subseteq nodes \X nodes
        BY <2>3 DEF RedirectIn
      <3> QED BY <2>3, <3>1 DEF RedirectIn
    <2>4. CASE DropDuplicate(p)
      <3>1. Detach({p[1]})
        BY <2>4 DEF DropDuplicate
      <3>2. /\ nodes' \subseteq Names
            /\ edges' \subseteq nodes' \X nodes' /\ updated' \in [Names -> Nat]
        BY <3>1, DetachFacts
      <3>3. owed' \in [Writers -> SUBSET Names]
        BY <2>4, OweTypes DEF DropDuplicate
      <3> QED BY <2>4, <3>2, <3>3 DEF DropDuplicate
    <2> QED BY <1>3, <2>1, <2>2, <2>3, <2>4
  <1> QED BY <1>1, <1>2, <1>3

(* Deletions and queries keep the types.                                        *)
LEMMA QueryTypes ==
    ASSUME GraphTypeOK,
           \/ \E gone \in SUBSET nodes : DeleteNodes(gone)
           \/ \E q \in Queries : ReadGraph(q) \/ CacheAnswer(q)
           \/ UncacheDeleted \/ ExpireAnswer
    PROVE  GraphTypeOK'
  <1> USE DEF GraphTypeOK, store, extraction, merger
  <1>1. ASSUME NEW gone \in SUBSET nodes, DeleteNodes(gone) PROVE GraphTypeOK'
    <2>1. stale' \in BOOLEAN /\ lost' \in BOOLEAN
      BY <1>1 DEF DeleteNodes
    <2>2. /\ nodes' \subseteq Names
          /\ edges' \subseteq nodes' \X nodes' /\ updated' \in [Names -> Nat]
      BY <1>1, DetachFacts DEF DeleteNodes
    <2>3. owed' \in [Writers -> SUBSET Names]
      BY <1>1, OweTypes DEF DeleteNodes
    <2> QED BY <1>1, <2>1, <2>2, <2>3 DEF DeleteNodes
  <1>2. ASSUME NEW q \in Queries, ReadGraph(q) \/ CacheAnswer(q) PROVE GraphTypeOK'
    BY <1>2 DEF ReadGraph, CacheAnswer
  <1>3. CASE UncacheDeleted
    <2>1. stale' \in BOOLEAN
      BY <1>3 DEF UncacheDeleted
    <2>2. /\ answer' \in SUBSET Names /\ owed' \in [Writers -> SUBSET Names]
          /\ excused' \subseteq Names
      BY <1>3, ClearTypes DEF UncacheDeleted, Writers
    <2> QED BY <1>3, <2>1, <2>2 DEF UncacheDeleted
  <1>4. CASE ExpireAnswer
    BY <1>4 DEF ExpireAnswer
  <1> QED BY <1>1, <1>2, <1>3, <1>4

------------------------------------------------------------------------------
(* The size of the graph, step by step. *)

(* The numbers in the size invariant are naturals.                              *)
LEMMA SizeTypes ==
    ASSUME GraphTypeOK
    PROVE  /\ InFlightJobs \subseteq Jobs /\ busy \in Nat /\ Extra(busy) \in Nat
           /\ MaxEntities \in Nat /\ MaxBatch \in Nat /\ MaxBatch <= MaxEntities
           /\ nodes \subseteq Names /\ Cardinality(nodes) \in Nat
           /\ \A j \in Jobs : Cardinality(batch[j]) \in Nat /\ overflow[j] \in Nat
           /\ \A S \in SUBSET Jobs : S # {} =>
                 /\ Cardinality(S) \in Nat /\ Cardinality(S) - 1 \in Nat
                 /\ (Cardinality(S) - 1) * MaxBatch \in Nat
  <1>1. /\ InFlightJobs \subseteq Jobs /\ busy \in Nat /\ nodes \subseteq Names
        /\ \A j \in Jobs : batch[j] \in SUBSET Names /\ overflow[j] \in Nat
    BY DEF InFlightJobs, GraphTypeOK
  <1>2. Extra(busy) \in Nat
    BY <1>1, ExtraFacts
  <1>3. /\ Cardinality(nodes) \in Nat
        /\ \A j \in Jobs : Cardinality(batch[j]) \in Nat
    BY <1>1, FiniteFacts
  <1>4. \A S \in SUBSET Jobs : S # {} =>
           Cardinality(S) \in Nat /\ Cardinality(S) - 1 \in Nat
    BY FiniteFacts
  <1>5. \A S \in SUBSET Jobs : S # {} => (Cardinality(S) - 1) * MaxBatch \in Nat
    BY <1>4, BatchTimes
  <1> QED BY <1>1, <1>2, <1>3, <1>4, <1>5, GraphAssumption

(* A count makes room for its own batch, whatever the others are about to add.  *)
LEMMA CountRoom ==
    ASSUME SizeInv, GraphTypeOK', NEW j \in Jobs, CountEntities(j) PROVE SizeInv'
  <1> USE DEF SizeInv
  <1>0. /\ job[j] = "count" /\ busy' = Peak
        /\ nodes' = nodes /\ batch' = batch
        /\ job' = [job EXCEPT ![j] = job'[j]] /\ job'[j] \in Waiting
        /\ overflow' = [overflow EXCEPT ![j] = overflow'[j]]
    BY DEF CountEntities, store, GraphTypeOK, Waiting
  <1>1. /\ Cardinality(nodes) + Cardinality(batch[j]) <= MaxEntities + overflow'[j]
        /\ job'[j] = "merge" => overflow'[j] = 0
    BY SizeTypes DEF CountEntities, GraphTypeOK
  <1>2. j \notin InFlightJobs /\ InFlightJobs' = InFlightJobs \cup {j}
    BY <1>0 DEF InFlightJobs, Waiting, GraphTypeOK
  <1>3. IsFiniteSet(InFlightJobs) /\ Cardinality(InFlightJobs) \in Nat
    BY SizeTypes, FiniteFacts
  <1>4. Cardinality(InFlightJobs') = Cardinality(InFlightJobs) + 1
    BY <1>2, <1>3, FS_AddElement
  <1>5. busy' \in Nat /\ busy <= busy' /\ Cardinality(InFlightJobs') <= busy'
    BY <1>0, <1>3, <1>4, SizeTypes DEF Peak
  <1>6. Extra(busy) <= Extra(busy') /\ Extra(busy') \in Nat
        /\ Extra(busy') = (busy' - 1) * MaxBatch
    BY <1>3, <1>4, <1>5, SizeTypes, ExtraFacts
  <1>7. BatchInv'
    BY <1>0, <1>1, <1>5 DEF BatchInv, GraphTypeOK
  <1>8. Cardinality(nodes') <= MaxEntities + Extra(busy')
    BY <1>0, <1>6, SizeTypes DEF RoomInv
  <1>9. ASSUME NEW S \in SUBSET InFlightJobs', S # {}
        PROVE  \E w \in S : Fits(w, Cardinality(S))'
    <2>0. S \in SUBSET Jobs
      BY <1>2, <1>9, SizeTypes
    <2>1. CASE j \in S
      <3>1. Cardinality(S) <= busy'
        <4>1. InFlightJobs' \in SUBSET Jobs
          BY <1>2, SizeTypes
        <4>2. Cardinality(S) <= Cardinality(InFlightJobs')
          BY <1>9, <2>0, <4>1, FiniteFacts
        <4> QED BY <1>3, <1>4, <1>5, <1>9, <2>0, <4>2, SizeTypes
      <3>2. (Cardinality(S) - 1) * MaxBatch <= (busy' - 1) * MaxBatch
        <4>1. Cardinality(S) - 1 \in Nat /\ busy' - 1 \in Nat
              /\ Cardinality(S) - 1 <= busy' - 1
          <5>1. Cardinality(S) \in Nat /\ Cardinality(S) - 1 \in Nat
            BY <1>9, <2>0, SizeTypes
          <5>2. busy' \in Nat /\ Cardinality(S) <= busy' /\ Cardinality(S) >= 1
            BY <1>5, <3>1, <5>1
          <5>3. \A m, n \in Nat : m >= 1 /\ m <= n => n - 1 \in Nat /\ m - 1 <= n - 1
            OBVIOUS
          <5> QED BY <5>1, <5>2, <5>3
        <4> QED BY <4>1, BatchTimes
      <3>3. (Cardinality(S) - 1) * MaxBatch \in Nat
        BY <1>9, <2>0, SizeTypes
      <3>4. overflow'[j] \in Nat
        BY DEF GraphTypeOK
      <3>5. Fits(j, Cardinality(S))'
        <4> DEFINE x == (Cardinality(S) - 1) * MaxBatch
        <4>1. x \in Nat /\ x <= Extra(busy')
          BY <1>6, <3>2, <3>3
        <4> HIDE DEF x
        <4>2. Cardinality(nodes) + Cardinality(batch[j]) + x
                 <= MaxEntities + Extra(busy') + overflow'[j]
          BY <1>1, <1>6, <3>4, <4>1, SizeTypes
        <4> QED BY <1>0, <4>2 DEF Fits, Extra, x
      <3> QED BY <2>1, <3>5
    <2>2. CASE j \notin S
      <3>1. PICK w \in S : Fits(w, Cardinality(S))
        BY <1>2, <1>9, <2>2 DEF RoomInv
      <3>2. overflow'[w] = overflow[w] /\ w \in Jobs
        BY <1>0, <2>0, <2>2 DEF GraphTypeOK
      <3>3. Fits(w, Cardinality(S))'
        <4> DEFINE x == (Cardinality(S) - 1) * MaxBatch
        <4>1. x \in Nat
          BY <1>9, <2>0, SizeTypes
        <4>2. Cardinality(nodes) + Cardinality(batch[w]) + x
                 <= MaxEntities + Extra(busy) + overflow[w]
          BY <3>1 DEF Fits
        <4> HIDE DEF x
        <4>3. Cardinality(nodes) + Cardinality(batch[w]) + x
                 <= MaxEntities + Extra(busy') + overflow[w]
          BY <1>6, <3>2, <4>1, <4>2, SizeTypes
        <4> QED BY <1>0, <3>2, <4>3 DEF Fits, Extra, x
      <3> QED BY <3>3
    <2> QED BY <2>1, <2>2
  <1> QED BY <1>7, <1>8, <1>9 DEF RoomInv

(* An eviction removes what was counted, or everything.                         *)
LEMMA EvictRoom ==
    ASSUME SizeInv, GraphTypeOK', NEW j \in Jobs, Evict(j) PROVE SizeInv'
  <1> USE DEF SizeInv
  <1>0. /\ job[j] = "evict" /\ job' = [job EXCEPT ![j] = "merge"]
        /\ overflow' = [overflow EXCEPT ![j] = 0] /\ batch' = batch /\ busy' = busy
    BY DEF Evict
  <1>1. PICK gone \in SUBSET nodes : Oldest(gone, overflow[j]) /\ Detach(gone)
    BY DEF Evict
  <1>2. InFlightJobs' = InFlightJobs /\ j \in InFlightJobs
    BY <1>0 DEF InFlightJobs, Waiting, GraphTypeOK
  <1>3. /\ Cardinality(nodes') \in Nat /\ Cardinality(nodes') <= Cardinality(nodes)
        /\ nodes' = {} \/ Cardinality(nodes') + overflow[j] = Cardinality(nodes)
    <2>1. nodes' = nodes \ gone /\ nodes' \subseteq Names /\ gone \in SUBSET Names
      BY <1>1, SizeTypes DEF Detach
    <2>2. /\ Cardinality(nodes') \in Nat /\ Cardinality(nodes') <= Cardinality(nodes)
          /\ Cardinality(gone) \in Nat /\ IsFiniteSet(nodes) /\ IsFiniteSet(gone)
      BY <2>1, SizeTypes, FiniteFacts
    <2>3. nodes \cap gone = gone
      OBVIOUS
    <2>4. Cardinality(nodes') = Cardinality(nodes) - Cardinality(gone)
      <3>1. Cardinality(nodes \ gone) = Cardinality(nodes) - Cardinality(nodes \cap gone)
        BY <2>2, FS_Difference
      <3> QED BY <2>1, <2>3, <3>1
    <2>5. CASE Cardinality(gone) = overflow[j]
      BY <2>2, <2>4, <2>5, SizeTypes
    <2>6. CASE gone = nodes
      BY <2>1, <2>2, <2>6
    <2> QED BY <1>1, <2>2, <2>5, <2>6 DEF Oldest
  <1>4. BatchInv'
    BY <1>0, <1>2 DEF BatchInv, GraphTypeOK
  <1>5. Cardinality(nodes') <= MaxEntities + Extra(busy')
    BY <1>0, <1>3, SizeTypes DEF RoomInv
  <1>6. ASSUME NEW S \in SUBSET InFlightJobs', S # {}
        PROVE  \E w \in S : Fits(w, Cardinality(S))'
    <2> DEFINE x == (Cardinality(S) - 1) * MaxBatch
    <2>0. S \in SUBSET Jobs /\ x \in Nat
      BY <1>2, <1>6, SizeTypes
    <2>1. PICK w \in S : Fits(w, Cardinality(S))
      BY <1>2, <1>6 DEF RoomInv
    <2>2. Cardinality(nodes) + Cardinality(batch[w]) + x
             <= MaxEntities + Extra(busy) + overflow[w]
      BY <2>1 DEF Fits
    <2>3. overflow'[w] \in Nat /\ (w = j => overflow'[w] = 0)
          /\ (w # j => overflow'[w] = overflow[w])
      BY <1>0, <2>0 DEF GraphTypeOK
    <2>4. x <= Extra(busy)
      <3>1. Cardinality(S) <= busy
        <4>1. Cardinality(S) <= Cardinality(InFlightJobs) /\ Cardinality(InFlightJobs) \in Nat
          BY <1>2, <1>6, <2>0, SizeTypes, FiniteFacts
        <4> QED BY <1>6, <2>0, <4>1, SizeTypes DEF BatchInv
      <3>2. Cardinality(S) - 1 \in Nat /\ busy - 1 \in Nat /\ Cardinality(S) - 1 <= busy - 1
            /\ busy >= 1
        BY <1>6, <2>0, <3>1, SizeTypes
      <3>3. Extra(busy) = (busy - 1) * MaxBatch
        BY <3>2, SizeTypes, ExtraFacts
      <3> QED BY <3>2, <3>3, BatchTimes
    <2> HIDE DEF x
    <2>5. Cardinality(nodes') + Cardinality(batch[w]) + x
             <= MaxEntities + Extra(busy) + overflow'[w]
      <3>1. Cardinality(batch[w]) \in Nat /\ Cardinality(batch[w]) <= MaxBatch
        BY <2>0, SizeTypes DEF BatchInv
      <3>2. overflow[w] \in Nat
        BY <2>0, SizeTypes
      <3>3. CASE nodes' = {}
        <4>1. Cardinality(nodes') = 0
          BY <3>3, FS_EmptySet
        <4> QED BY <2>0, <2>3, <2>4, <3>1, <4>1, SizeTypes
      <3>4. CASE Cardinality(nodes') + overflow[j] = Cardinality(nodes)
        BY <1>3, <2>0, <2>2, <2>3, <3>1, <3>2, <3>4, SizeTypes
      <3> QED BY <1>3, <3>3, <3>4
    <2>6. Fits(w, Cardinality(S))'
      BY <1>0, <2>5 DEF Fits, Extra, x
    <2> QED BY <2>6
  <1> QED BY <1>4, <1>5, <1>6 DEF RoomInv

(* A merge takes the room that was made for it, or that of another batch.       *)
LEMMA MergeRoom ==
    ASSUME SizeInv, GraphTypeOK', NEW j \in Jobs, MergeEntities(j) PROVE SizeInv'
  <1> USE DEF SizeInv
  <1>0. /\ job[j] = "merge" /\ job' = [job EXCEPT ![j] = "uncache"]
        /\ nodes' = nodes \cup batch[j] /\ overflow[j] = 0
        /\ batch' = batch /\ overflow' = overflow /\ busy' = busy
    BY DEF MergeEntities, BatchInv
  <1>1. j \in InFlightJobs /\ InFlightJobs' = InFlightJobs \ {j}
    BY <1>0 DEF InFlightJobs, Waiting, GraphTypeOK
  <1>2. /\ Cardinality(nodes') \in Nat
        /\ Cardinality(nodes') <= Cardinality(nodes) + Cardinality(batch[j])
    <2>1. IsFiniteSet(nodes) /\ IsFiniteSet(batch[j])
      BY FiniteFacts DEF GraphTypeOK
    <2>2. nodes' \subseteq Names /\ nodes \cap batch[j] \subseteq Names
      BY DEF GraphTypeOK
    <2>3. Cardinality(nodes') \in Nat /\ Cardinality(nodes \cap batch[j]) \in Nat
      BY <2>2, FiniteFacts
    <2>4. Cardinality(nodes')
             = Cardinality(nodes) + Cardinality(batch[j]) - Cardinality(nodes \cap batch[j])
      BY <1>0, <2>1, FS_Union
    <2> QED BY <2>3, <2>4, SizeTypes
  <1>3. BatchInv'
    <2>1. Cardinality(InFlightJobs') <= Cardinality(InFlightJobs)
          /\ Cardinality(InFlightJobs') \in Nat /\ Cardinality(InFlightJobs) \in Nat
      BY <1>1, SizeTypes, FiniteFacts
    <2> QED BY <1>0, <2>1, SizeTypes DEF BatchInv, GraphTypeOK
  <1>4. Cardinality(nodes') <= MaxEntities + Extra(busy')
    <2>1. {j} \in SUBSET InFlightJobs /\ Cardinality({j}) = 1
      BY <1>1, FS_Singleton
    <2>2. Fits(j, 1)
      BY <2>1 DEF RoomInv
    <2>3. Cardinality(nodes) + Cardinality(batch[j]) <= MaxEntities + Extra(busy)
      BY <1>0, <2>2, SizeTypes DEF Fits
    <2> QED BY <1>0, <1>2, <2>3, SizeTypes
  <1>5. ASSUME NEW S \in SUBSET InFlightJobs', S # {}
        PROVE  \E w \in S : Fits(w, Cardinality(S))'
    <2> DEFINE x == (Cardinality(S) - 1) * MaxBatch
    <2>0. S \in SUBSET Jobs /\ S # {} /\ x \in Nat /\ j \notin S
      BY <1>1, <1>5, SizeTypes
    <2>1. S \cup {j} \in SUBSET InFlightJobs /\ S \cup {j} # {}
      BY <1>1, <1>5
    <2>2. Cardinality(S \cup {j}) = Cardinality(S) + 1 /\ Cardinality(S) \in Nat
      BY <2>0, FiniteFacts, FS_AddElement
    <2>3. PICK w \in S \cup {j} : Fits(w, Cardinality(S) + 1)
      BY <2>1, <2>2 DEF RoomInv
    <2>4. Cardinality(S) * MaxBatch = x + MaxBatch
      BY <2>0, <2>2, SizeTypes, BatchTimes
    <2>5. Cardinality(nodes) + Cardinality(batch[w]) + (x + MaxBatch)
             <= MaxEntities + Extra(busy) + overflow[w]
      <3>1. (Cardinality(S) + 1) - 1 = Cardinality(S)
        BY <2>2
      <3> QED BY <2>3, <2>4, <3>1 DEF Fits
    <2> HIDE DEF x
    <2>6. \A v \in Jobs : /\ Cardinality(batch[v]) \in Nat /\ Cardinality(batch[v]) <= MaxBatch
                          /\ overflow[v] \in Nat
      BY SizeTypes DEF BatchInv
    <2>7. \E v \in S : Cardinality(nodes') + Cardinality(batch[v]) + x
                          <= MaxEntities + Extra(busy) + overflow[v]
      <3>1. CASE w = j
        <4>1. PICK v \in S : TRUE
          BY <2>0
        <4>2. Cardinality(nodes') + Cardinality(batch[v]) + x
                 <= MaxEntities + Extra(busy) + overflow[v]
          BY <1>0, <1>2, <2>0, <2>5, <2>6, <3>1, SizeTypes
        <4> QED BY <4>2
      <3>2. CASE w # j
        <4>1. Cardinality(nodes') + Cardinality(batch[w]) + x
                 <= MaxEntities + Extra(busy) + overflow[w]
          BY <1>0, <1>2, <2>0, <2>5, <2>6, <3>2, SizeTypes
        <4> QED BY <2>3, <3>2, <4>1
      <3> QED BY <3>1, <3>2
    <2> QED BY <1>0, <2>7 DEF Fits, Extra, x
  <1> QED BY <1>3, <1>4, <1>5 DEF RoomInv

(* The initial graph is within its bound, and nothing is in flight.             *)
LEMMA SizeInit == GraphInit => SizeInv
  <1> SUFFICES ASSUME GraphInit PROVE SizeInv
    OBVIOUS
  <1>1. stale \in BOOLEAN /\ lost \in BOOLEAN
    BY DEF GraphInit
  <1>2. GraphTypeOK
    BY <1>1 DEF GraphInit, GraphTypeOK
  <1>3. InFlightJobs = {}
    BY DEF GraphInit, InFlightJobs, Waiting
  <1>4. BatchInv
    BY <1>3, FS_EmptySet, GraphAssumption DEF GraphInit, BatchInv
  <1>5. RoomInv
    BY <1>3, ExtraFacts, GraphAssumption DEF GraphInit, RoomInv
  <1> QED BY <1>2, <1>4, <1>5 DEF SizeInv

(* Every step keeps types and room.                                             *)
LEMMA SizeNext == SizeInv /\ [GraphNext]_graphVars => SizeInv'
  <1> SUFFICES ASSUME SizeInv, [GraphNext]_graphVars PROVE SizeInv'
    OBVIOUS
  <1>0. GraphTypeOK
    BY DEF SizeInv
  <1>1. ASSUME GraphTypeOK', nodes' \subseteq nodes,
               UNCHANGED <<job, batch, overflow, busy>>
        PROVE  SizeInv'
    <2>1. InFlightJobs' = InFlightJobs
      BY <1>1 DEF InFlightJobs
    <2> QED BY <1>1, <2>1, NoGrowth DEF SizeInv, BatchInv
  <1>2. ASSUME NEW j \in Jobs,
               NEW b \in SUBSET Names, Cardinality(b) <= MaxBatch,
               NEW r \in SUBSET (b \X b), Extract(j, b, r)
        PROVE  SizeInv'
    <2>1. GraphTypeOK'
      BY <1>0, <1>2, ExtractTypes
    <2>2. /\ job[j] = "idle" /\ job' = [job EXCEPT ![j] = "check"]
          /\ batch' = [batch EXCEPT ![j] = b] /\ UNCHANGED <<nodes, overflow, busy>>
      BY <1>2 DEF Extract, store
    <2>3. InFlightJobs' = InFlightJobs /\ j \notin InFlightJobs
      BY <1>0, <2>2 DEF InFlightJobs, Waiting, GraphTypeOK
    <2>4. \A i \in Jobs : Cardinality(batch'[i]) <= MaxBatch
      BY <1>0, <1>2, <2>2 DEF SizeInv, BatchInv, GraphTypeOK
    <2>5. \A i \in InFlightJobs : batch'[i] = batch[i] /\ job'[i] = job[i]
      BY <1>0, <2>2, <2>3 DEF GraphTypeOK, InFlightJobs
    <2> QED BY <2>1, <2>2, <2>3, <2>4, <2>5, NoGrowth
  <1>3. ASSUME NEW j \in Jobs, CheckCompaction(j) \/ Relate(j) \/ FailExtract(j)
        PROVE  SizeInv'
    <2>1. GraphTypeOK' /\ UNCHANGED <<nodes, busy>>
      BY <1>0, <1>3, ExtractTypes DEF CheckCompaction, Relate, FailExtract, store
    <2>2. CASE End(j)
      <3>1. /\ job'[j] = "idle" /\ batch'[j] = {}
            /\ \A i \in Jobs : i # j => /\ job'[i] = job[i] /\ batch'[i] = batch[i]
                                         /\ overflow'[i] = overflow[i]
        BY <1>0, <2>2 DEF End, GraphTypeOK
      <3>2. InFlightJobs' \subseteq InFlightJobs /\ j \notin InFlightJobs'
        BY <3>1 DEF InFlightJobs, Waiting
      <3>3. \A i \in Jobs : Cardinality(batch'[i]) <= MaxBatch
        <4>1. Cardinality(batch'[j]) <= MaxBatch
          BY <3>1, FS_EmptySet, GraphAssumption
        <4>2. \A i \in Jobs : i # j => Cardinality(batch'[i]) <= MaxBatch
          BY <3>1 DEF SizeInv, BatchInv
        <4> QED BY <4>1, <4>2
      <3> QED BY <2>1, <3>1, <3>2, <3>3, NoGrowth DEF InFlightJobs
    <2>3. CASE /\ job[j] = "check" /\ job' = [job EXCEPT ![j] = "count"]
               /\ UNCHANGED <<batch, rels, ts, overflow>>
      <3>1. InFlightJobs' = InFlightJobs /\ j \notin InFlightJobs
        BY <1>0, <2>3 DEF InFlightJobs, Waiting, GraphTypeOK
      <3>2. \A i \in InFlightJobs : job'[i] = job[i]
        BY <1>0, <2>3, <3>1 DEF InFlightJobs, GraphTypeOK
      <3> QED BY <2>1, <2>3, <3>1, <3>2, NoGrowth DEF SizeInv, BatchInv
    <2> QED BY <1>3, <2>2, <2>3 DEF CheckCompaction, Relate, FailExtract
  <1>4. ASSUME NEW j \in Jobs, CountEntities(j) \/ Evict(j) \/ MergeEntities(j)
        PROVE  SizeInv'
    BY <1>0, <1>4, ExtractTypes, CountRoom, EvictRoom, MergeRoom
  <1>5. ASSUME NEW j \in Jobs, UncacheEntities(j) PROVE SizeInv'
    <2>1. /\ GraphTypeOK' /\ UNCHANGED <<nodes, busy, batch, overflow>>
          /\ job[j] = "uncache" /\ job' = [job EXCEPT ![j] = "relate"]
      BY <1>0, <1>5, ExtractTypes DEF UncacheEntities, store
    <2>2. InFlightJobs' = InFlightJobs /\ j \notin InFlightJobs
      BY <1>0, <2>1 DEF InFlightJobs, Waiting, GraphTypeOK
    <2>3. \A i \in InFlightJobs : job'[i] = job[i]
      BY <1>0, <2>1, <2>2 DEF InFlightJobs, GraphTypeOK
    <2> QED BY <2>1, <2>2, <2>3, NoGrowth DEF SizeInv, BatchInv
  <1>6. CASE \/ StartMerge \/ SecondPass \/ EndMerge \/ FailMerge
             \/ \E p \in Names \X Names :
                   TakeDuplicate(p) \/ RedirectOut(p) \/ RedirectIn(p) \/ DropDuplicate(p)
    <2>1. GraphTypeOK'
      BY <1>0, <1>6, MergeTypes
    <2>2. nodes' \subseteq nodes /\ UNCHANGED extraction
      BY <1>6 DEF StartMerge, SecondPass, EndMerge, FailMerge, TakeDuplicate, RedirectOut,
                  RedirectIn, DropDuplicate, Detach, store
    <2> QED BY <1>1, <2>1, <2>2 DEF extraction
  <1>7. CASE \/ \E gone \in SUBSET nodes : DeleteNodes(gone)
             \/ \E q \in Queries : ReadGraph(q) \/ CacheAnswer(q)
             \/ UncacheDeleted \/ ExpireAnswer
    <2>1. GraphTypeOK'
      BY <1>0, <1>7, QueryTypes
    <2>2. nodes' \subseteq nodes /\ UNCHANGED extraction
      BY <1>7 DEF DeleteNodes, ReadGraph, CacheAnswer, UncacheDeleted, ExpireAnswer, Detach,
                  store
    <2> QED BY <1>1, <2>1, <2>2 DEF extraction
  <1>8. CASE UNCHANGED graphVars
    <2>1. GraphTypeOK'
      BY <1>0, <1>8 DEF graphVars, GraphTypeOK
    <2> QED BY <1>1, <1>8, <2>1 DEF graphVars
  <1> QED
    BY <1>2, <1>3, <1>4, <1>5, <1>6, <1>7, <1>8 DEF GraphNext

(* For any number of extractions and of names: the entity graph exceeds its     *)
(* bound by no more than one batch for each extraction that ran together with   *)
(* another (extract_and_store).                                               *)
THEOREM GraphBounded == GraphSpec => []GraphIsBounded
  <1>1. SizeInv => GraphIsBounded
    BY DEF SizeInv, RoomInv, GraphIsBounded, Extra
  <1> QED BY SizeInit, SizeNext, <1>1, PTL DEF GraphSpec

------------------------------------------------------------------------------
(* The merge of duplicates. *)

(* A pair has been redirected at its out-edges (1) or at its in-edges (2), and  *)
(* what a name stands for at that end of an edge.                               *)
Redirected(p, k) == p \notin plan /\ (p \in doing => moved >= k)
StandsFor(m, n, k) ==
    \/ \E p \in planned : p[1] = n /\ p[2] = m /\ Redirected(p, k)
    \/ m = n /\ \A p \in planned : p[1] = n => ~ Redirected(p, k)

(* The pairs at hand are of the plan, of which no name is both duplicate and    *)
(* kept. Unless nodes were removed from outside, the nodes still to be merged   *)
(* exist, and each edge of the start joins what its ends stand for by now.      *)
PlanInv ==
    /\ planned \subseteq Names \X Names
    /\ plan \subseteq planned /\ doing \subseteq planned /\ plan \cap doing = {}
    /\ \A p, q \in doing : p = q
    /\ \A p, q \in planned : p[1] = q[1] => p = q
    /\ \A p, q \in planned : p[1] # q[2]
NodesInv == ~ lost => \A p \in plan \cup doing : p[1] \in nodes /\ p[2] \in nodes
EdgesInv ==
    ~ lost => \A e \in before : \A m, n \in Names :
        StandsFor(m, e[1], 1) /\ StandsFor(n, e[2], 2) => <<m, n>> \in edges
RelInv == PlanInv /\ NodesInv /\ EdgesInv

(* Steps that only add nodes and edges, or that are not of the merge, keep it.  *)
LEMMA RelGrowth ==
    ASSUME RelInv, UNCHANGED merger,
           lost' = TRUE \/ (lost' = lost /\ nodes \subseteq nodes' /\ edges \subseteq edges')
    PROVE  RelInv'
  <1>1. PlanInv'
    BY DEF RelInv, PlanInv, merger
  <1>2. NodesInv' /\ EdgesInv'
    BY DEF RelInv, NodesInv, EdgesInv, StandsFor, Redirected, merger
  <1> QED BY <1>1, <1>2 DEF RelInv

(* A pass starts with every name standing for itself.                           *)
LEMMA RelStart ==
    ASSUME GraphTypeOK, NEW pairs, Sound(pairs),
           plan' = pairs, planned' = pairs, doing' = {}, before' = edges,
           UNCHANGED <<nodes, edges>>
    PROVE  RelInv'
  <1>1. PlanInv' /\ NodesInv'
    BY DEF Sound, PlanInv, NodesInv, GraphTypeOK
  <1>2. ASSUME NEW n, NEW m, NEW k, StandsFor(m, n, k)' PROVE m = n
    BY <1>2 DEF StandsFor, Redirected
  <1>3. EdgesInv'
    <2> SUFFICES ASSUME NEW e \in edges, NEW m \in Names, NEW n \in Names,
                        StandsFor(m, e[1], 1)', StandsFor(n, e[2], 2)'
                 PROVE  <<m, n>> \in edges
      BY DEF EdgesInv
    <2>1. m = e[1] /\ n = e[2]
      BY <1>2
    <2>2. e = <<e[1], e[2]>>
      BY DEF GraphTypeOK
    <2> QED BY <2>1, <2>2
  <1> QED BY <1>1, <1>3 DEF RelInv

(* Whatever a name stands for is no duplicate that has been redirected there.   *)
LEMMA StandsForKept ==
    ASSUME PlanInv, NEW p \in planned, NEW k, Redirected(p, k), NEW m, NEW n,
           StandsFor(m, n, k)
    PROVE  m # p[1]
  BY DEF PlanInv, StandsFor

(* Taking up a pair moves no edge.                                              *)
LEMMA RelTake ==
    ASSUME GraphTypeOK, RelInv, NEW p, TakeDuplicate(p) PROVE RelInv'
  <1>0. /\ doing = {} /\ p \in plan /\ plan' = plan \ {p} /\ doing' = {p} /\ moved' = 0
        /\ UNCHANGED <<nodes, edges, planned, before, lost>>
    BY DEF TakeDuplicate
  <1>1. PlanInv' /\ NodesInv'
    BY <1>0 DEF RelInv, PlanInv, NodesInv
  <1>2. \A q \in planned, k \in {1, 2} : Redirected(q, k)' <=> Redirected(q, k)
    BY <1>0 DEF Redirected, RelInv, PlanInv
  <1>3. \A m, n : \A k \in {1, 2} : StandsFor(m, n, k)' <=> StandsFor(m, n, k)
    BY <1>0, <1>2 DEF StandsFor
  <1>4. EdgesInv'
    BY <1>0, <1>3 DEF RelInv, EdgesInv
  <1> QED BY <1>1, <1>4 DEF RelInv

(* Redirecting the edges out of a duplicate.                                    *)
LEMMA RelOut ==
    ASSUME GraphTypeOK, RelInv, NEW p \in Names \X Names, RedirectOut(p) PROVE RelInv'
  <1>0. /\ p \in doing /\ moved = 0 /\ moved' = 1
        /\ UNCHANGED <<nodes, planned, plan, doing, before, lost>>
    BY DEF RedirectOut
  <1>1. PlanInv' /\ NodesInv'
    BY <1>0 DEF RelInv, PlanInv, NodesInv
  <1>2. /\ p \in planned /\ Redirected(p, 1)' /\ ~ Redirected(p, 1)
        /\ \A q \in planned : Redirected(q, 2)' <=> Redirected(q, 2)
        /\ \A q \in planned : q # p => (Redirected(q, 1)' <=> Redirected(q, 1))
    BY <1>0 DEF RelInv, PlanInv, Redirected
  <1>3. \A m, n : StandsFor(m, n, 2)' <=> StandsFor(m, n, 2)
    BY <1>0, <1>2 DEF StandsFor
  <1>4. \A m, n : n # p[1] => (StandsFor(m, n, 1)' <=> StandsFor(m, n, 1))
    BY <1>0, <1>2 DEF StandsFor
  <1>5. StandsFor(p[1], p[1], 1) /\ \A m : StandsFor(m, p[1], 1)' => m = p[2]
    BY <1>0, <1>2 DEF StandsFor, RelInv, PlanInv
  <1>6. EdgesInv'
    <2> SUFFICES ASSUME ~ lost, NEW e \in before, NEW m \in Names, NEW n \in Names,
                        StandsFor(m, e[1], 1)', StandsFor(n, e[2], 2)'
                 PROVE  <<m, n>> \in edges'
      BY <1>0 DEF EdgesInv
    <2>0. StandsFor(n, e[2], 2) /\ p[1] \in Names
      BY <1>3
    <2>1. /\ {p[1], p[2]} \subseteq nodes
          /\ edges' = {f \in edges : f[1] # p[1]}
                         \cup {<<p[2], f[2]>> : f \in {f \in edges : f[1] = p[1]}}
      BY <1>0 DEF RelInv, NodesInv, RedirectOut
    <2>2. CASE e[1] = p[1]
      <3>1. m = p[2] /\ <<p[1], n>> \in edges
        BY <1>5, <2>0, <2>2 DEF RelInv, EdgesInv
      <3> QED BY <2>1, <3>1
    <2>3. CASE e[1] # p[1]
      <3>1. StandsFor(m, e[1], 1) /\ <<m, n>> \in edges
        BY <1>4, <2>0, <2>3 DEF RelInv, EdgesInv
      <3>2. m # p[1]
        BY <1>2, <2>3, <3>1 DEF StandsFor, RelInv, PlanInv
      <3> QED BY <2>1, <3>1, <3>2
    <2> QED BY <2>2, <2>3
  <1> QED BY <1>1, <1>6 DEF RelInv

(* Redirecting the edges into a duplicate.                                      *)
LEMMA RelIn ==
    ASSUME GraphTypeOK, RelInv, NEW p \in Names \X Names, RedirectIn(p) PROVE RelInv'
  <1>0. /\ p \in doing /\ moved = 1 /\ moved' = 2
        /\ UNCHANGED <<nodes, planned, plan, doing, before, lost>>
    BY DEF RedirectIn
  <1>1. PlanInv' /\ NodesInv'
    BY <1>0 DEF RelInv, PlanInv, NodesInv
  <1>2. /\ p \in planned /\ Redirected(p, 2)' /\ ~ Redirected(p, 2)
        /\ \A q \in planned : Redirected(q, 1)' <=> Redirected(q, 1)
        /\ \A q \in planned : q # p => (Redirected(q, 2)' <=> Redirected(q, 2))
    BY <1>0 DEF RelInv, PlanInv, Redirected
  <1>3. \A m, n : StandsFor(m, n, 1)' <=> StandsFor(m, n, 1)
    BY <1>0, <1>2 DEF StandsFor
  <1>4. \A m, n : n # p[1] => (StandsFor(m, n, 2)' <=> StandsFor(m, n, 2))
    BY <1>0, <1>2 DEF StandsFor
  <1>5. StandsFor(p[1], p[1], 2) /\ \A m : StandsFor(m, p[1], 2)' => m = p[2]
    BY <1>0, <1>2 DEF StandsFor, RelInv, PlanInv
  <1>6. EdgesInv'
    <2> SUFFICES ASSUME ~ lost, NEW e \in before, NEW m \in Names, NEW n \in Names,
                        StandsFor(m, e[1], 1)', StandsFor(n, e[2], 2)'
                 PROVE  <<m, n>> \in edges'
      BY <1>0 DEF EdgesInv
    <2>0. StandsFor(m, e[1], 1) /\ p[1] \in Names
      BY <1>3
    <2>1. /\ {p[1], p[2]} \subseteq nodes
          /\ edges' = {f \in edges : f[2] # p[1]}
                         \cup {<<f[1], p[2]>> : f \in {f \in edges : f[2] = p[1]}}
      BY <1>0 DEF RelInv, NodesInv, RedirectIn
    <2>2. CASE e[2] = p[1]
      <3>1. n = p[2] /\ <<m, p[1]>> \in edges
        BY <1>5, <2>0, <2>2 DEF RelInv, EdgesInv
      <3> QED BY <2>1, <3>1
    <2>3. CASE e[2] # p[1]
      <3>1. StandsFor(n, e[2], 2) /\ <<m, n>> \in edges
        BY <1>4, <2>0, <2>3 DEF RelInv, EdgesInv
      <3>2. n # p[1]
        BY <1>2, <2>3, <3>1 DEF StandsFor, RelInv, PlanInv
      <3> QED BY <2>1, <3>1, <3>2
    <2> QED BY <2>2, <2>3
  <1> QED BY <1>1, <1>6 DEF RelInv

(* By the time a duplicate is dropped, no edge of the start is at it.           *)
LEMMA RelDrop ==
    ASSUME GraphTypeOK, RelInv, NEW p \in Names \X Names, DropDuplicate(p) PROVE RelInv'
  <1>0. /\ p \in doing /\ moved = 2 /\ doing' = {} /\ moved' = 0 /\ Detach({p[1]})
        /\ UNCHANGED <<planned, plan, before, lost>>
    BY DEF DropDuplicate
  <1>1. PlanInv'
    BY <1>0 DEF RelInv, PlanInv
  <1>2. /\ p \in planned /\ Redirected(p, 1) /\ Redirected(p, 2)
        /\ \A q \in planned, k \in {1, 2} : Redirected(q, k)' <=> Redirected(q, k)
    BY <1>0 DEF RelInv, PlanInv, Redirected
  <1>3. \A m, n : \A k \in {1, 2} : StandsFor(m, n, k)' <=> StandsFor(m, n, k)
    BY <1>0, <1>2 DEF StandsFor
  <1>4. NodesInv'
    BY <1>0, <1>2 DEF RelInv, PlanInv, NodesInv, Detach
  <1>5. EdgesInv'
    <2> SUFFICES ASSUME ~ lost, NEW e \in before, NEW m \in Names, NEW n \in Names,
                        StandsFor(m, e[1], 1)', StandsFor(n, e[2], 2)'
                 PROVE  <<m, n>> \in edges'
      BY <1>0 DEF EdgesInv
    <2>1. StandsFor(m, e[1], 1) /\ StandsFor(n, e[2], 2)
      BY <1>3
    <2>2. <<m, n>> \in edges
      BY <2>1 DEF RelInv, EdgesInv
    <2>3. m # p[1] /\ n # p[1]
      BY <1>2, <2>1, StandsForKept DEF RelInv
    <2> QED BY <1>0, <2>2, <2>3 DEF Detach
  <1> QED BY <1>1, <1>4, <1>5 DEF RelInv

(* Initially nothing is planned.                                                *)
LEMMA RelInit == GraphInit => RelInv
  BY DEF GraphInit, RelInv, PlanInv, NodesInv, EdgesInv

(* Every step keeps the invariant of the merge.                                 *)
LEMMA RelNext == GraphTypeOK /\ RelInv /\ [GraphNext]_graphVars => RelInv'
  <1> SUFFICES ASSUME GraphTypeOK, RelInv, [GraphNext]_graphVars PROVE RelInv'
    OBVIOUS
  <1>1. ASSUME NEW j \in Jobs,
               \/ \E b \in SUBSET Names : \E r \in SUBSET (b \X b) : Extract(j, b, r)
               \/ CheckCompaction(j) \/ CountEntities(j) \/ MergeEntities(j)
               \/ UncacheEntities(j) \/ Relate(j) \/ FailExtract(j)
        PROVE  RelInv'
    <2>1. UNCHANGED merger /\ lost' = lost /\ nodes \subseteq nodes' /\ edges \subseteq edges'
      BY <1>1 DEF Extract, CheckCompaction, CountEntities, MergeEntities, UncacheEntities,
                  Relate, FailExtract, store
    <2> QED BY <2>1, RelGrowth
  <1>2. ASSUME NEW j \in Jobs, Evict(j) PROVE RelInv'
    BY <1>2, RelGrowth DEF Evict
  <1>3. ASSUME NEW gone \in SUBSET nodes, DeleteNodes(gone) PROVE RelInv'
    BY <1>3, RelGrowth DEF DeleteNodes
  <1>4. CASE \/ \E q \in Queries : ReadGraph(q) \/ CacheAnswer(q)
             \/ UncacheDeleted \/ ExpireAnswer \/ UNCHANGED graphVars
    <2>1. UNCHANGED <<merger, lost, nodes, edges>>
      BY <1>4 DEF ReadGraph, CacheAnswer, UncacheDeleted, ExpireAnswer, graphVars, store, merger
    <2> QED BY <2>1, RelGrowth
  <1>5. CASE StartMerge \/ SecondPass
    BY <1>5, PlanFacts, RelStart DEF StartMerge, SecondPass, store
  <1>6. CASE EndMerge \/ FailMerge
    <2>1. plan' = {} /\ doing' = {} /\ planned' = {} /\ before' = {}
      BY <1>6 DEF EndMerge, FailMerge
    <2> QED BY <2>1 DEF RelInv, PlanInv, NodesInv, EdgesInv
  <1>7. ASSUME NEW p \in Names \X Names,
               TakeDuplicate(p) \/ RedirectOut(p) \/ RedirectIn(p) \/ DropDuplicate(p)
        PROVE  RelInv'
    BY <1>7, RelTake, RelOut, RelIn, RelDrop
  <1> QED
    BY <1>1, <1>2, <1>3, <1>4, <1>5, <1>6, <1>7 DEF GraphNext

(* For any graph, any number of duplicates and any extractions beside it: the   *)
(* merge of duplicates loses none of the relations there are when a pass starts *)
(* (merge_duplicate_entities). Of those added during the pass it says nothing.  *)
THEOREM MergeLosesNothing == GraphSpec => []MergeKeepsRelations
  <1>1. GraphTypeOK /\ RelInv => MergeKeepsRelations
    <2> SUFFICES ASSUME GraphTypeOK, RelInv, plan = {}, doing = {}, ~ lost, NEW e \in before
                 PROVE  <<KeptAs(e[1]), KeptAs(e[2])>> \in edges
      BY DEF MergeKeepsRelations
    <2>1. \A p \in planned, k \in {1, 2} : Redirected(p, k)
      BY DEF Redirected
    <2>2. ASSUME NEW n \in Names, NEW k \in {1, 2}
          PROVE  KeptAs(n) \in Names /\ StandsFor(KeptAs(n), n, k)
      <3>1. CASE \E p \in planned : p[1] = n
        <4>1. PICK p \in planned : p[1] = n
          BY <3>1
        <4>2. (CHOOSE q \in planned : q[1] = n) = p
          BY <4>1 DEF RelInv, PlanInv
        <4>3. KeptAs(n) = p[2]
          BY <3>1, <4>2 DEF KeptAs
        <4> QED BY <2>1, <4>1, <4>3 DEF StandsFor, RelInv, PlanInv
      <3>2. CASE ~ \E p \in planned : p[1] = n
        BY <3>2 DEF KeptAs, StandsFor
      <3> QED BY <3>1, <3>2
    <2>3. e[1] \in Names /\ e[2] \in Names
      BY DEF GraphTypeOK
    <2> QED BY <2>2, <2>3 DEF RelInv, EdgesInv
  <1>2. SizeInv => GraphTypeOK
    BY DEF SizeInv
  <1> QED BY SizeInit, SizeNext, RelInit, RelNext, <1>1, <1>2, PTL DEF GraphSpec

------------------------------------------------------------------------------
(* The cached answers. *)

(* Names that a writer has still to clear the cache of, or that it has missed.  *)
Explained == excused \cup UNION {owed[w] : w \in Writers}

(* What is told and what queries have read differs from the graph there only.   *)
CacheInv ==
    /\ answer \subseteq Matching /\ Wrong(answer) \subseteq Explained
    /\ \A q \in Queries : query[q] \subseteq Matching /\ Wrong(query[q]) \subseteq Explained

(* Who changes nodes owes a clearing of what is asked for.                      *)
LEMMA ChangeInv ==
    ASSUME GraphTypeOK, CacheInv, NEW w \in Writers, NEW names, Owe(w, names),
           nodes \ nodes' \subseteq names, nodes' \ nodes \subseteq names,
           UNCHANGED <<answer, query, excused>>
    PROVE  CacheInv'
  <1>1. owed' = [owed EXCEPT ![w] = owed[w] \cup (names \cap Matching)]
    BY DEF Owe
  <1>2. /\ \A v \in Writers : owed[v] \subseteq owed'[v]
        /\ names \cap Matching \subseteq owed'[w]
    BY <1>1 DEF GraphTypeOK
  <1>3. Explained \subseteq Explained' /\ names \cap Matching \subseteq Explained'
    BY <1>2 DEF Explained
  <1>4. ASSUME NEW S \in SUBSET Matching, Wrong(S) \subseteq Explained
        PROVE  Wrong(S)' \subseteq Explained'
    BY <1>3, <1>4 DEF Wrong
  <1>5. Wrong(answer)' \subseteq Explained'
    BY <1>4 DEF CacheInv, Wrong
  <1>6. ASSUME NEW q \in Queries PROVE Wrong(query[q])' \subseteq Explained'
    BY <1>4 DEF CacheInv, Wrong
  <1> QED BY <1>5, <1>6 DEF CacheInv

(* A clearing excuses the queries that it catches under way, and one that fails *)
(* the answer that it leaves.                                                   *)
LEMMA ClearInv ==
    ASSUME GraphTypeOK, CacheInv, NEW w \in Writers, ClearCache(w) \/ LeaveCache(w),
           UNCHANGED <<nodes, query>>
    PROVE  CacheInv'
  <1>1. owed' = [owed EXCEPT ![w] = {}]
    BY DEF ClearCache, LeaveCache
  <1>2. \A v \in Writers : v # w => owed'[v] = owed[v]
    BY <1>1 DEF GraphTypeOK
  <1>3. ASSUME NEW n \in Explained, n \in excused \cup owed[w] => n \in excused'
        PROVE  n \in Explained'
    BY <1>2, <1>3 DEF Explained
  <1>4. (excused \cup owed[w]) \cap Straddling \subseteq excused'
    BY DEF ClearCache, LeaveCache
  <1>5. ASSUME NEW q \in Queries
        PROVE  query'[q] \subseteq Matching /\ Wrong(query[q])' \subseteq Explained'
    <2>1. Wrong(query[q])' = Wrong(query[q]) /\ Wrong(query[q]) \subseteq Straddling
      BY DEF Wrong, Straddling
    <2> QED BY <1>3, <1>4, <2>1 DEF CacheInv
  <1>6. answer' \subseteq Matching /\ Wrong(answer)' \subseteq Explained'
    <2>1. CASE answer' = {}
      BY <2>1 DEF Wrong
    <2>2. CASE answer' # {}
      <3>1. answer' = answer /\ (excused \cup owed[w]) \cap Wrong(answer) \subseteq excused'
        BY <2>2 DEF ClearCache, LeaveCache
      <3>2. Wrong(answer)' = Wrong(answer)
        BY <3>1 DEF Wrong
      <3> QED BY <1>3, <3>1, <3>2 DEF CacheInv
    <2> QED BY <2>1, <2>2
  <1> QED BY <1>5, <1>6 DEF CacheInv

(* No answer is cached and nothing is asked at the start.                       *)
LEMMA CacheInit == GraphInit => CacheInv
  BY DEF GraphInit, CacheInv, Wrong

(* Every step keeps the invariant of the cache.                                 *)
LEMMA CacheNext == GraphTypeOK /\ CacheInv /\ [GraphNext]_graphVars => CacheInv'
  <1> SUFFICES ASSUME GraphTypeOK, CacheInv, [GraphNext]_graphVars PROVE CacheInv'
    OBVIOUS
  <1>1. ASSUME UNCHANGED <<nodes, answer, query, owed, excused>> PROVE CacheInv'
    BY <1>1 DEF CacheInv, Wrong, Explained
  <1>2. ASSUME NEW j \in Jobs,
               \/ \E b \in SUBSET Names : \E r \in SUBSET (b \X b) : Extract(j, b, r)
               \/ CheckCompaction(j) \/ CountEntities(j) \/ Relate(j)
        PROVE  CacheInv'
    BY <1>1, <1>2 DEF Extract, CheckCompaction, CountEntities, Relate, store, caching
  <1>3. ASSUME NEW j \in Jobs, Evict(j) \/ MergeEntities(j) PROVE CacheInv'
    <2>1. j \in Writers /\ UNCHANGED <<answer, query, excused>>
      BY <1>3 DEF Evict, MergeEntities, Writers
    <2>2. \E names : /\ Owe(j, names)
                     /\ nodes \ nodes' \subseteq names /\ nodes' \ nodes \subseteq names
      BY <1>3 DEF Evict, MergeEntities, Detach
    <2> QED BY <2>1, <2>2, ChangeInv
  <1>4. ASSUME NEW j \in Jobs, UncacheEntities(j) \/ FailExtract(j) PROVE CacheInv'
    <2>1. j \in Writers
      BY DEF Writers
    <2>2. (ClearCache(j) \/ LeaveCache(j)) /\ UNCHANGED <<nodes, query>>
      BY <1>4 DEF UncacheEntities, FailExtract, store
    <2> QED BY <2>1, <2>2, ClearInv
  <1>5. ASSUME NEW p \in Names \X Names, DropDuplicate(p) PROVE CacheInv'
    <2>1. /\ "merge" \in Writers /\ Owe("merge", nodes \cap {p[1]})
          /\ nodes' = nodes \ {p[1]} /\ UNCHANGED <<answer, query, excused>>
      BY <1>5 DEF DropDuplicate, Detach, Writers
    <2> QED BY <2>1, ChangeInv
  <1>6. CASE EndMerge \/ FailMerge
    <2>1. "merge" \in Writers
      BY DEF Writers
    <2>2. (ClearCache("merge") \/ LeaveCache("merge")) /\ UNCHANGED <<nodes, query>>
      BY <1>6 DEF EndMerge, FailMerge, store
    <2> QED BY <2>1, <2>2, ClearInv
  <1>7. CASE \/ StartMerge \/ SecondPass
             \/ \E p \in Names \X Names : TakeDuplicate(p) \/ RedirectOut(p) \/ RedirectIn(p)
    BY <1>1, <1>7 DEF StartMerge, SecondPass, TakeDuplicate, RedirectOut, RedirectIn, store,
                      caching
  <1>8. ASSUME NEW gone \in SUBSET nodes, DeleteNodes(gone) PROVE CacheInv'
    <2>1. /\ "delete" \in Writers /\ Owe("delete", gone) /\ nodes' = nodes \ gone
          /\ UNCHANGED <<answer, query, excused>>
      BY <1>8 DEF DeleteNodes, Detach, Writers
    <2> QED BY <2>1, ChangeInv
  <1>9. CASE UncacheDeleted
    <2>1. "delete" \in Writers /\ ClearCache("delete") /\ UNCHANGED <<nodes, query>>
      BY <1>9 DEF UncacheDeleted, Writers, store
    <2> QED BY <2>1, ClearInv
  <1>10. ASSUME NEW q \in Queries, ReadGraph(q) \/ CacheAnswer(q) PROVE CacheInv'
    <2>1. UNCHANGED <<nodes, owed, excused>>
      BY <1>10 DEF ReadGraph, CacheAnswer, store
    <2>3. ASSUME NEW o \in Queries
          PROVE  query'[o] = query[o] \/ query'[o] = {} \/ query'[o] = nodes \cap Matching
      BY <1>10 DEF ReadGraph, CacheAnswer, GraphTypeOK
    <2>4. answer' = answer \/ answer' = query[q]
      BY <1>10 DEF ReadGraph, CacheAnswer
    <2> QED BY <2>1, <2>3, <2>4 DEF CacheInv, Wrong, Explained
  <1>11. CASE ExpireAnswer
    <2>1. /\ UNCHANGED <<nodes, query, owed>> /\ answer' = {}
          /\ excused' = excused \cap Straddling
      BY <1>11 DEF ExpireAnswer, store
    <2>2. ASSUME NEW q \in Queries PROVE Wrong(query[q])' \subseteq Explained'
      <3>1. Wrong(query[q])' = Wrong(query[q]) /\ Wrong(query[q]) \subseteq Straddling
        BY <2>1 DEF Wrong, Straddling
      <3> QED BY <2>1, <3>1 DEF CacheInv, Explained
    <2> QED BY <2>1, <2>2 DEF CacheInv, Wrong
  <1>12. CASE UNCHANGED graphVars
    BY <1>1, <1>12 DEF graphVars
  <1> QED
    BY <1>2, <1>3, <1>4, <1>5, <1>6, <1>7, <1>8, <1>9, <1>10, <1>11, <1>12 DEF GraphNext

(* For any names, extractions, deletions and queries: a cached answer misses or *)
(* makes up a name only where a writer has still to clear the cache or has not  *)
(* been able to, or a query has straddled the clearing (_cache_del_user).       *)
THEOREM CacheFollowsGraph == GraphSpec => []CacheTellsGraph
  <1>1. CacheInv => CacheTellsGraph
    BY DEF CacheInv, CacheTellsGraph, Explained
  <1>2. SizeInv => GraphTypeOK
    BY DEF SizeInv
  <1> QED BY SizeInit, SizeNext, CacheInit, CacheNext, <1>1, <1>2, PTL DEF GraphSpec

================================================================================
