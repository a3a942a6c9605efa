----------------------------- MODULE Conversations -----------------------------
(* The conversations of one user: resolving a request to a conversation and      *)
(* rotating one that has grown too long (api/chat/helpers.py), the messages a    *)
(* turn commits and the tasks it leaves behind (api/chat/stream.py,              *)
(* background.py, llm/summarizer/history.py), the endpoints that list, patch,    *)
(* delete and attach files (api/conversations), and the resets that archive      *)
(* (api/admin/memory.py). Requests with one conversation id overlap freely.      *)
(*                                                                               *)
(* Tokens and days, the two other reasons to rotate, may be over their           *)
(* thresholds at any time.                                                       *)
EXTENDS Naturals, FiniteSets

CONSTANTS
    Convs,     \* conversation ids
    Calls,     \* requests to /chat/stream
    Files,     \* the user's files
    Settings,  \* values of system_prompt and locked_model
    Titles,    \* titles, raw or by the model
    TextOf,    \* the first 60 characters of each request's message
    Limit,     \* messages beyond which a conversation is rotated: 80
    KeepRaw,   \* messages compress_history leaves alone: 10
    NoConv

ASSUME ConversationsAssumption ==
    /\ IsFiniteSet(Convs) /\ IsFiniteSet(Calls) /\ Limit \in Nat /\ KeepRaw \in Nat
    /\ NoConv \notin Convs /\ Settings # {} /\ TextOf \in [Calls -> Titles] /\ Titles # {}

VARIABLES
    conv,      \* each row: "none", "draft" (not committed), "live", "archived", "deleted"
    title,
    setting,   \* system_prompt and locked_model
    size,      \* committed messages
    summary,   \* history_summary: how many of the conversation's messages it covers
    handoff,   \* history_summary speaks of the predecessor
    attached,  \* conversation_files
    call,      \* each request: where it is
    target,    \* the conversation it works on
    seen,      \* the row it has loaded
    titling,   \* <<conversation, call>> pairs _auto_title works on
    folding,   \* <<conversation, messages>> pairs compress_history works on
    crowd      \* history: most turns on a conversation at once

convRows == <<conv, title, setting, size, summary, handoff, attached>>
convTasks == <<titling, folding>>
convCalls == <<call, target, seen, crowd>>
convVars == <<convRows, convTasks, convCalls>>

Visible(c) == conv[c] \in {"live", "archived"}
Working(c) == {q \in Calls : call[q] = "turn" /\ target[q] = c}
FreshConv == CHOOSE c \in Convs : conv[c] = "none"
AnySetting == CHOOSE s \in Settings : TRUE

ConvInit ==
    /\ conv = [c \in Convs |-> "none"]
    /\ title = [c \in Convs |-> CHOOSE t \in Titles : TRUE]
    /\ setting = [c \in Convs |-> AnySetting] /\ size = [c \in Convs |-> 0]
    /\ summary = [c \in Convs |-> 0] /\ handoff = [c \in Convs |-> FALSE]
    /\ attached = [c \in Convs |-> {}]
    /\ call = [q \in Calls |-> "new"] /\ target = [q \in Calls |-> NoConv]
    /\ seen = [q \in Calls |-> "none"]
    /\ titling = {} /\ folding = {}
    /\ crowd = [c \in Convs |-> 0]

(* ---------------------------------------------------- resolving a request -- *)

(* The turn begins on c.                                                        *)
Begin(q, c) ==
    /\ call' = [call EXCEPT ![q] = "turn"] /\ target' = [target EXCEPT ![q] = c]
    /\ crowd' = [crowd EXCEPT ![c] = IF Cardinality(Working(c)) + 1 > @
                                     THEN Cardinality(Working(c)) + 1 ELSE @]

(* No conversation_id: a row that only the commit of the turn makes visible.    *)
StartConversation(q, c) ==
    /\ call[q] = "new" /\ conv[c] = "none" /\ c = FreshConv
    /\ conv' = [conv EXCEPT ![c] = "draft"] /\ title' = [title EXCEPT ![c] = TextOf[q]]
    /\ Begin(q, c)
    /\ UNCHANGED <<setting, size, summary, handoff, attached, seen, convTasks>>

(* db.get of the conversation the request names.                                *)
LoadConversation(q, c) ==
    /\ call[q] = "new" /\ Visible(c)
    /\ call' = [call EXCEPT ![q] = "loaded"] /\ target' = [target EXCEPT ![q] = c]
    /\ seen' = [seen EXCEPT ![q] = conv[c]]
    /\ UNCHANGED <<convRows, convTasks, crowd>>

(* A successor takes title and settings along.                                  *)
Succeed(q, old, c, told) ==
    /\ conv[c] = "none" /\ c = FreshConv
    /\ title' = [title EXCEPT ![c] = title[old]] /\ setting' = [setting EXCEPT ![c] = setting[old]]
    /\ handoff' = [handoff EXCEPT ![c] = told]
    /\ Begin(q, c)
    /\ UNCHANGED <<size, summary, attached, seen, convTasks>>

(* An archived conversation has a new successor for every request.              *)
ContinueArchived(q, c) ==
    /\ call[q] = "loaded" /\ seen[q] = "archived" /\ Visible(target[q])
    /\ Succeed(q, target[q], c, FALSE) /\ conv' = [conv EXCEPT ![c] = "live"]

(* _check_rotation: over one of the thresholds the conversation is archived and *)
(* the successor starts from the summary and the last messages. Two requests    *)
(* that have both loaded it live make two successors.                           *)
Rotate(q, c) ==
    /\ call[q] = "loaded" /\ seen[q] = "live" /\ Visible(target[q])
    /\ Succeed(q, target[q], c, TRUE)
    /\ conv' = [conv EXCEPT ![target[q]] = "archived", ![c] = "live"]
StayAnyway(q) ==
    /\ call[q] = "loaded" /\ seen[q] = "live" /\ Begin(q, target[q])
    /\ UNCHANGED <<convRows, convTasks, seen>>
Stay(q) ==
    /\ call[q] = "loaded" /\ seen[q] = "live" /\ size[target[q]] <= Limit
    /\ Begin(q, target[q])
    /\ UNCHANGED <<convRows, convTasks, seen>>

(* The end of a request, and one whose conversation was deleted under it.       *)
Finish(q, result) ==
    /\ call' = [call EXCEPT ![q] = result] /\ target' = [target EXCEPT ![q] = NoConv]
    /\ seen' = [seen EXCEPT ![q] = "none"]
Gone(q) ==
    /\ call[q] = "loaded" /\ ~ Visible(target[q]) /\ Finish(q, "failed")
    /\ UNCHANGED <<convRows, convTasks, crowd>>

(* ---------------------------------------------------- the end of the turn -- *)

(* The answer and its question are committed together. The second message of a  *)
(* conversation starts the title task, and compress_history starts where the    *)
(* context is long or the count is right. Of an aborted turn a note is kept.    *)
CommitTurn(q) ==
    /\ call[q] = "turn" /\ conv[target[q]] # "deleted" /\ Finish(q, "done")
    /\ conv' = [conv EXCEPT ![target[q]] = IF @ = "draft" THEN "live" ELSE @]
    /\ size' = [size EXCEPT ![target[q]] = @ + 2]
    /\ \/ /\ titling' = IF size[target[q]] = 0 THEN titling \cup {<<target[q], q>>}
                        ELSE titling
          /\ folding' \in {folding, folding \cup {<<target[q], 0>>}}
       \/ UNCHANGED convTasks
    /\ UNCHANGED <<title, setting, summary, handoff, attached, crowd>>

(* A comparison commits the row and no message.                                 *)
CommitCompare(q) ==
    /\ call[q] = "turn" /\ conv[target[q]] # "deleted" /\ Finish(q, "done")
    /\ conv' = [conv EXCEPT ![target[q]] = IF @ = "draft" THEN "live" ELSE @]
    /\ UNCHANGED <<title, setting, size, summary, handoff, attached, convTasks, crowd>>

(* The process dies or the commit fails, as it does for a deleted conversation. *)
LoseTurn(q) ==
    /\ call[q] = "turn" /\ Finish(q, "failed")
    /\ conv' = [conv EXCEPT ![target[q]] = IF @ = "draft" THEN "deleted" ELSE @]
    /\ UNCHANGED <<title, setting, size, summary, handoff, attached, convTasks, crowd>>

(* ------------------------------------------------------------------ tasks -- *)

(* The title is replaced only while it is the text of the exchange's message,    *)
(* as it also is in a line that began with the same words.                      *)
AutoTitle(t, new) ==
    /\ t \in titling /\ titling' = titling \ {t}
    /\ \/ /\ Visible(t[1]) /\ title[t[1]] = TextOf[t[2]]
          /\ title' = [title EXCEPT ![t[1]] = new]
       \/ UNCHANGED title
    /\ UNCHANGED <<conv, setting, size, summary, handoff, attached, folding, convCalls>>

(* compress_history reads all messages, asks the model about all but the last   *)
(* KeepRaw and stores what it says, whatever the row holds by then: the handoff  *)
(* of a predecessor is overwritten.                                             *)
ReadHistory(t) ==
    /\ t \in folding /\ t[2] = 0
    /\ folding' = (folding \ {t}) \cup
          (IF size[t[1]] > KeepRaw THEN {<<t[1], size[t[1]] - KeepRaw>>} ELSE {})
    /\ UNCHANGED <<convRows, titling, convCalls>>
StoreSummary(t) ==
    /\ t \in folding /\ t[2] > 0 /\ folding' = folding \ {t}
    /\ \/ /\ Visible(t[1])
          /\ summary' = [summary EXCEPT ![t[1]] = t[2]]
          /\ handoff' = [handoff EXCEPT ![t[1]] = FALSE]
       \/ UNCHANGED <<summary, handoff>>
    /\ UNCHANGED <<conv, title, setting, size, attached, titling, convCalls>>

(* -------------------------------------------------------------- endpoints -- *)

PatchConversation(c, s) ==
    /\ Visible(c) /\ setting[c] # s /\ setting' = [setting EXCEPT ![c] = s]
    /\ UNCHANGED <<conv, title, size, summary, handoff, attached, convTasks, convCalls>>
AttachFile(c, f) ==
    /\ Visible(c) /\ f \notin attached[c]
    /\ attached' = [attached EXCEPT ![c] = @ \cup {f}]
    /\ UNCHANGED <<conv, title, setting, size, summary, handoff, convTasks, convCalls>>
DetachFile(c, f) ==
    /\ Visible(c) /\ f \in attached[c] /\ attached' = [attached EXCEPT ![c] = @ \ {f}]
    /\ UNCHANGED <<conv, title, setting, size, summary, handoff, convTasks, convCalls>>

(* Messages and attachments go with the row.                                    *)
DeleteConversation(c) ==
    /\ Visible(c) /\ conv' = [conv EXCEPT ![c] = "deleted"]
    /\ size' = [size EXCEPT ![c] = 0] /\ attached' = [attached EXCEPT ![c] = {}]
    /\ summary' = [summary EXCEPT ![c] = 0] /\ handoff' = [handoff EXCEPT ![c] = FALSE]
    /\ UNCHANGED <<title, setting, convTasks, convCalls>>

(* A soft reset archives what is over a threshold, a hard one everything, both  *)
(* without a successor.                                                         *)
Archive(S) == conv' = [c \in Convs |-> IF c \in S THEN "archived" ELSE conv[c]]
SoftReset(S) ==
    /\ S # {} /\ \A c \in S : conv[c] = "live"
    /\ \A c \in Convs : conv[c] = "live" /\ size[c] > Limit => c \in S
    /\ Archive(S)
    /\ UNCHANGED <<title, setting, size, summary, handoff, attached, convTasks, convCalls>>
HardReset ==
    /\ \E c \in Convs : conv[c] = "live"
    /\ Archive({c \in Convs : conv[c] = "live"})
    /\ UNCHANGED <<title, setting, size, summary, handoff, attached, convTasks, convCalls>>

ConvNext ==
    \/ \E q \in Calls :
          \/ \E c \in Convs :
                \/ StartConversation(q, c) \/ LoadConversation(q, c)
                \/ ContinueArchived(q, c) \/ Rotate(q, c)
          \/ Stay(q) \/ Gone(q) \/ CommitTurn(q) \/ CommitCompare(q) \/ LoseTurn(q)
    \/ \E t \in titling, new \in Titles : AutoTitle(t, new)
    \/ \E t \in folding : ReadHistory(t) \/ StoreSummary(t)
    \/ \E c \in Convs :
          \/ \E s \in Settings : PatchConversation(c, s)
          \/ \E f \in Files : AttachFile(c, f) \/ DetachFile(c, f)
          \/ DeleteConversation(c)
    \/ \E S \in SUBSET Convs : SoftReset(S)
    \/ HardReset

ConvSpec == ConvInit /\ [][ConvNext]_convVars

(* Rows, requests and tasks keep their types.                                   *)
ConvTypeOK ==
    /\ conv \in [Convs -> {"none", "draft", "live", "archived", "deleted"}]
    /\ title \in [Convs -> Titles] /\ setting \in [Convs -> Settings]
    /\ size \in [Convs -> Nat] /\ summary \in [Convs -> Nat]
    /\ handoff \in [Convs -> BOOLEAN] /\ attached \in [Convs -> SUBSET Files]
    /\ call \in [Calls -> {"new", "loaded", "turn", "done", "failed"}]
    /\ target \in [Calls -> Convs \cup {NoConv}]
    /\ seen \in [Calls -> {"none", "live", "archived"}]
    /\ titling \subseteq Convs \X Calls /\ folding \subseteq Convs \X Nat
    /\ crowd \in [Convs -> Nat]

(* The size of a conversation is checked before a turn and grows after it, so   *)
(* requests that run together overshoot the threshold, but by no more than what *)
(* the most of them at once add: rotation bounds every conversation, also one   *)
(* that is archived while turns are still working on it.                        *)
ConversationIsBounded ==
    \A c \in Convs :
        size[c] + 2 * Cardinality(Working(c)) <= Limit + 2 * crowd[c]

==============================================================================
