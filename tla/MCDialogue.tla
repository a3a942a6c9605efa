------------------------------ MODULE MCDialogue ------------------------------
(* What a turn draws on for TLC: the model catalog, the context it sends, the    *)
(* conversation it belongs to and the entity graph. They share no state, so a    *)
(* behaviour is about one of them, and of each about one group of its operations *)
(* with everything they can interfere with: the rows under two scans and an      *)
(* edit, or what a scan and edits publish to two processes; extractions against  *)
(* each other, the merge of duplicates or cached queries against one extraction; *)
(* turns against rotation, or the endpoints against two requests.                *)
EXTENDS Catalog, ContextBudget, GraphMemory, Conversations

CONSTANTS a, as, b, c, j2, q3, second

VARIABLE focus   \* what a behaviour is about

dialogueVars == <<focus, catVars, budgetVars, graphVars, convVars>>

MCSizeOf ==
    [kind \in Kinds |-> CASE kind = "file" -> 3
                          [] kind \in {"rag", "result"} -> 2
                          [] OTHER -> 1]

(* a and as share a normal form; as is akin to b, the longest of its type.       *)
MCNormOf == [n \in Names |-> IF n = as THEN a ELSE n]
MCTypeOf == [n \in Names |-> IF n = c THEN Other ELSE b]
MCLength == a :> 1 @@ as :> 2 @@ b :> 3 @@ c :> 4
MCKin == {<<as, b>>}

(* Two of the requests say the same.                                             *)
MCTextOf == [q \in Calls |-> IF q = q3 THEN "parting" ELSE "greeting"]

InCatalog(A) ==
    /\ focus \in {"scans", "processes"}
    /\ A /\ UNCHANGED <<focus, budgetVars, graphVars, convVars>>
    /\ focus = "scans" => /\ runner' = runner /\ snap' = snap /\ heard' = heard
                          /\ \A p \in Procs \ {runner[second]} : task'[p] = "idle"
    /\ focus = "processes" => scan'[second] = "new"
InTurn(A) ==
    /\ focus = "turn" /\ A /\ UNCHANGED <<focus, catVars, graphVars, convVars>>
InGraph(A) ==
    /\ focus \in {"counting", "merging", "answering"}
    /\ A /\ UNCHANGED <<focus, catVars, budgetVars, convVars>>
    /\ focus = "counting" => UNCHANGED <<merger, query, rels>>
    /\ focus = "merging" => UNCHANGED query /\ job'[j2] = "idle" /\ now' <= 1
    /\ focus = "answering" => UNCHANGED merger /\ job'[j2] = "idle"
InConversations(A) ==
    /\ focus \in {"turns", "endpoints"}
    /\ A /\ UNCHANGED <<focus, catVars, budgetVars, graphVars>>
    /\ focus = "turns" => UNCHANGED attached /\ setting' \in [Convs -> {AnySetting}]
    /\ focus = "endpoints" => call'[q3] = "new"

MCInit ==
    /\ focus \in {"scans", "processes", "turn", "counting", "merging", "answering", "turns",
                  "endpoints"}
    /\ CatInit /\ BudgetInit /\ GraphInit /\ ConvInit
    /\ focus # "turn" => window = CHOOSE w \in Windows : TRUE
    /\ focus \notin {"counting", "merging", "answering"} => nodes = {}
    /\ focus # "merging" => edges = {}
MCNext ==
    InCatalog(CatNext) \/ InTurn(BudgetNext) \/ InGraph(GraphNext) \/ InConversations(ConvNext)
MCSpec == MCInit /\ [][MCNext]_dialogueVars

==============================================================================
