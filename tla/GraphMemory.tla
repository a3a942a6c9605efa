------------------------------ MODULE GraphMemory ------------------------------
(* One user's entity graph in Neo4j (llm/graph_memory.py, api/graph.py) and the  *)
(* cached answers about it in Redis. Every session.run is a transaction of its   *)
(* own, so an extraction that counts, evicts, merges and relates interleaves     *)
(* with other extractions, with the merge of duplicates by a soft reset, with    *)
(* deletions and with queries; each of them may fail between two of its steps.   *)
EXTENDS Naturals, Integers, FiniteSets

CONSTANTS
    Names,        \* entity names the models produce
    Jobs,         \* extract_and_store tasks
    Queries,      \* query_context and query_by_keywords calls with one text
    MaxEntities,  \* _MAX_USER_ENTITIES
    MaxBatch,     \* _MAX_ENTITIES_PER_CALL
    MaxEdges,     \* bound: relations at the start and of one extraction
    NormOf,       \* _norm of a name
    TypeOf,       \* the type the models give it
    Length,       \* its length; distinct, as a tie is broken by the row order
    Matching,     \* the names the text of the queries matches
    Kin,          \* pairs whose normalised names contain each other
    Other,        \* the type OTHER
    MaxTime       \* bound: extractions that got an answer

ASSUME GraphAssumption ==
    /\ MaxEntities \in Nat /\ MaxBatch \in Nat /\ MaxBatch <= MaxEntities
    /\ IsFiniteSet(Names) /\ IsFiniteSet(Jobs)
    /\ Length \in [Names -> Nat] /\ Kin \subseteq Names \X Names
    /\ Matching \subseteq Names
    /\ MaxTime \in Nat /\ MaxEdges \in Nat

VARIABLES
    nodes,     \* names of the Entity nodes
    edges,     \* RELATED_TO pairs
    updated,   \* updated_at
    now,       \* counts the answers extractions have had
    job,       \* each extraction: where it is
    batch,     \* its entity_batch
    rels,      \* its rel_batch
    ts,        \* its timestamp
    overflow,  \* what it is about to evict
    merging,   \* the soft reset: "idle", "first", "second", "uncache"
    plan,      \* <<duplicate, kept>> pairs it has still to merge
    moved,     \* how many redirections of the pair at hand are done
    doing,     \* the pair at hand, as a set of at most one
    stale,     \* deletions that have still to clear the cache
    answer,    \* the names the cached answer tells; {} is no cached answer
    query,     \* the names each query has read; {} is no query under way
    owed,      \* history: names each writer has changed and not cleared the cache of
    excused,   \* history: names that a clearing has missed
    before,    \* history: the edges when the pass was planned
    planned,   \* history: the plan of the pass
    lost,      \* history: somebody else has removed a node since
    busy       \* history: most extractions in flight at once

graphVars == <<nodes, edges, updated, now, job, batch, rels, ts, overflow, merging,
               plan, moved, doing, stale, answer, query, owed, excused, before, planned,
               lost, busy>>

store == <<nodes, edges, updated>>
extraction == <<now, job, batch, rels, ts, overflow, busy>>
merger == <<merging, plan, moved, doing, before, planned>>
caching == <<stale, answer, query, owed, excused>>

Writers == Jobs \cup {"merge", "delete"}
Waiting == {"merge", "evict"}
InFlightJobs == {j \in Jobs : job[j] \in Waiting}

GraphInit ==
    /\ nodes \in {N \in SUBSET Names : Cardinality(N) <= MaxEntities}
    /\ edges \in {E \in SUBSET (nodes \X nodes) : Cardinality(E) <= MaxEdges}
    /\ updated = [n \in Names |-> 0] /\ now = 0
    /\ job = [j \in Jobs |-> "idle"] /\ batch = [j \in Jobs |-> {}]
    /\ rels = [j \in Jobs |-> {}] /\ ts = [j \in Jobs |-> 0]
    /\ overflow = [j \in Jobs |-> 0]
    /\ merging = "idle" /\ plan = {} /\ moved = 0 /\ doing = {} /\ before = {} /\ planned = {}
    /\ stale = FALSE /\ answer = {} /\ query = [q \in Queries |-> {}]
    /\ owed = [w \in Writers |-> {}] /\ excused = {}
    /\ lost = FALSE /\ busy = 0

(* DETACH DELETE.                                                               *)
Detach(gone) ==
    /\ nodes' = nodes \ gone
    /\ edges' = {e \in edges : e[1] \notin gone /\ e[2] \notin gone}
    /\ updated' = [n \in Names |-> IF n \in gone THEN 0 ELSE updated[n]]

(* Where what is told differs from what a query would read now.                 *)
Wrong(told) ==
    IF told = {} THEN {} ELSE (told \ nodes) \cup ((nodes \cap Matching) \ told)
Straddling == UNION {Wrong(query[q]) : q \in Queries}

(* _cache_del_user of a writer; when Redis fails the cache stays. A query that  *)
(* is under way then has read the graph before and is cached after.             *)
Owe(w, names) == owed' = [owed EXCEPT ![w] = @ \cup (names \cap Matching)]
LeaveCache(w) ==
    /\ owed' = [owed EXCEPT ![w] = {}] /\ answer' = answer
    /\ excused' = (excused \cup owed[w]) \cap (Straddling \cup Wrong(answer))
ClearOtherKeys(w) ==
    /\ owed' = [owed EXCEPT ![w] = {}] /\ answer' = answer
    /\ excused' = (excused \cup owed[w]) \cap Straddling
ClearCache(w) ==
    \/ /\ owed' = [owed EXCEPT ![w] = {}] /\ answer' = {}
       /\ excused' = (excused \cup owed[w]) \cap Straddling
    \/ LeaveCache(w)

(* ------------------------------------------------------------- extraction -- *)

(* The model answers with entities and relations between them; relations to     *)
(* names outside the batch are dropped.                                         *)
Extract(j, b, r) ==
    /\ job[j] = "idle" /\ now < MaxTime
    /\ job' = [job EXCEPT ![j] = "check"] /\ now' = now + 1
    /\ batch' = [batch EXCEPT ![j] = b]
    /\ rels' = [rels EXCEPT ![j] = {e \in r : e[1] \in b /\ e[2] \in b}]
    /\ ts' = [ts EXCEPT ![j] = now + 1]
    /\ UNCHANGED <<store, overflow, merger, caching, lost, busy>>

(* The end of a task, whatever it has got done: its variables are gone.         *)
End(j) ==
    /\ job' = [job EXCEPT ![j] = "idle"] /\ batch' = [batch EXCEPT ![j] = {}]
    /\ rels' = [rels EXCEPT ![j] = {}] /\ ts' = [ts EXCEPT ![j] = 0]
    /\ overflow' = [overflow EXCEPT ![j] = 0]

(* compact:running is read once: the extraction is dropped while a compaction   *)
(* runs, and goes on when one starts later.                                     *)
CheckCompaction(j) ==
    /\ job[j] = "check"
    /\ \/ End(j)
       \/ job' = [job EXCEPT ![j] = "count"] /\ UNCHANGED <<batch, rels, ts, overflow>>
    /\ UNCHANGED <<store, now, busy, merger, caching, lost>>

(* The count, and from it the number of nodes to evict before the batch.        *)
Peak == IF Cardinality(InFlightJobs) + 1 > busy THEN Cardinality(InFlightJobs) + 1 ELSE busy
CountEntitiesAlone(j) ==
    /\ job[j] = "count"
    /\ LET over == Cardinality(nodes) - MaxEntities
       IN  /\ overflow' = [overflow EXCEPT ![j] = IF over > 0 THEN over ELSE 0]
           /\ job' = [job EXCEPT ![j] = IF over > 0 THEN "evict" ELSE "merge"]
    /\ busy' = Peak
    /\ UNCHANGED <<store, now, batch, rels, ts, merger, caching, lost>>
CountEntities(j) ==
    /\ job[j] = "count"
    /\ LET over == Cardinality(nodes) + Cardinality(batch[j]) - MaxEntities
       IN  /\ overflow' = [overflow EXCEPT ![j] = IF over > 0 THEN over ELSE 0]
           /\ job' = [job EXCEPT ![j] = IF over > 0 THEN "evict" ELSE "merge"]
    /\ busy' = Peak
    /\ UNCHANGED <<store, now, batch, rels, ts, merger, caching, lost>>

(* ORDER BY updated_at ASC LIMIT overflow.                                      *)
Oldest(gone, n) ==
    /\ gone \subseteq nodes
    /\ \/ Cardinality(gone) = n
       \/ gone = nodes /\ Cardinality(nodes) < n
    /\ \A x \in gone, y \in nodes \ gone : updated[x] <= updated[y]
Evict(j) ==
    /\ job[j] = "evict" /\ job' = [job EXCEPT ![j] = "merge"]
    /\ \E gone \in SUBSET nodes : Oldest(gone, overflow[j]) /\ Detach(gone) /\ Owe(j, gone)
    /\ overflow' = [overflow EXCEPT ![j] = 0] /\ lost' = TRUE
    /\ UNCHANGED <<now, batch, rels, ts, busy, merger, stale, answer, query, excused>>

MergeEntities(j) ==
    /\ job[j] = "merge" /\ job' = [job EXCEPT ![j] = "uncache"]
    /\ nodes' = nodes \cup batch[j]
    /\ updated' = [n \in Names |-> IF n \in batch[j] THEN ts[j] ELSE updated[n]]
    /\ Owe(j, batch[j] \ nodes)
    /\ UNCHANGED <<edges, now, batch, rels, ts, overflow, busy, merger, stale, answer, query,
                   excused, lost>>

(* The cache is cleared before the relations are written.                       *)
UncacheEntities(j) ==
    /\ job[j] = "uncache" /\ job' = [job EXCEPT ![j] = "relate"]
    /\ ClearCache(j)
    /\ UNCHANGED <<store, now, batch, rels, ts, overflow, busy, merger, stale, query, lost>>
Relate(j) ==
    /\ job[j] = "relate" /\ End(j)
    /\ edges' = edges \cup {e \in rels[j] : e[1] \in nodes /\ e[2] \in nodes}
    /\ UNCHANGED <<nodes, updated, now, busy, merger, caching, lost>>

(* An exception ends the task wherever it is.                                   *)
FailExtract(j) ==
    /\ job[j] # "idle" /\ End(j) /\ LeaveCache(j)
    /\ UNCHANGED <<store, now, busy, merger, stale, query, lost>>

(* ------------------------------------------------------ merging duplicates -- *)

(* First pass: names with one normal form go to the longest of them. Second     *)
(* pass: for each type but OTHER, names akin to the longest of the type.        *)
Longest(S) == CHOOSE n \in S : \A o \in S : Length[o] <= Length[n]
SameNorm(n) == {o \in nodes : NormOf[o] = NormOf[n]}
SameType(n) == {o \in nodes : TypeOf[o] = TypeOf[n]}
FirstPlan == {<<n, Longest(SameNorm(n))>> : n \in {n \in nodes : Longest(SameNorm(n)) # n}}
SecondPlan ==
    {<<n, Longest(SameType(n))>> : n \in
        {n \in nodes : /\ TypeOf[n] # Other /\ Longest(SameType(n)) # n
                       /\ <<n, Longest(SameType(n))>> \in Kin}}

StartMerge ==
    /\ merging = "idle" /\ nodes # {} /\ merging' = "first"
    /\ plan' = FirstPlan /\ planned' = FirstPlan /\ before' = edges /\ lost' = FALSE /\ moved' = 0 /\ doing' = {}
    /\ UNCHANGED <<store, extraction, caching>>
SecondPass ==
    /\ merging = "first" /\ plan = {} /\ doing = {} /\ merging' = "second"
    /\ plan' = SecondPlan /\ planned' = SecondPlan /\ before' = edges /\ lost' = FALSE
    /\ UNCHANGED <<store, extraction, moved, doing, caching>>

(* Of one duplicate: its edges out, its edges in, the node.                     *)
TakeDuplicate(p) ==
    /\ doing = {} /\ p \in plan /\ plan' = plan \ {p} /\ doing' = {p} /\ moved' = 0
    /\ updated' = IF merging = "first" THEN [updated EXCEPT ![p[2]] = now] ELSE updated
    /\ UNCHANGED <<nodes, edges, extraction, merging, before, planned, caching, lost>>
RedirectOut(p) ==
    /\ p \in doing /\ moved = 0 /\ moved' = 1
    /\ edges' = IF {p[1], p[2]} \subseteq nodes
                THEN {e \in edges : e[1] # p[1]}
                         \cup {<<p[2], e[2]>> : e \in {e \in edges : e[1] = p[1]}}
                ELSE edges
    /\ UNCHANGED <<nodes, updated, extraction, merging, plan, doing, before, planned, caching,
                   lost>>
RedirectInNot(p) ==
    /\ p \in doing /\ moved = 1 /\ moved' = 2
    /\ UNCHANGED <<store, extraction, merging, plan, doing, before, planned, caching, lost>>
RedirectIn(p) ==
    /\ p \in doing /\ moved = 1 /\ moved' = 2
    /\ edges' = IF {p[1], p[2]} \subseteq nodes
                THEN {e \in edges : e[2] # p[1]}
                         \cup {<<e[1], p[2]>> : e \in {e \in edges : e[2] = p[1]}}
                ELSE edges
    /\ UNCHANGED <<nodes, updated, extraction, merging, plan, doing, before, planned, caching,
                   lost>>
DropDuplicate(p) ==
    /\ p \in doing /\ moved = 2 /\ doing' = {} /\ moved' = 0
    /\ Detach({p[1]}) /\ Owe("merge", nodes \cap {p[1]})
    /\ UNCHANGED <<extraction, merging, plan, before, planned, stale, answer, query, excused,
                   lost>>

(* The cache is cleared after both passes if they have merged anything, and not *)
(* when one of them has failed.                                                 *)
EndMerge ==
    /\ merging = "second" /\ plan = {} /\ doing = {} /\ merging' = "idle"
    /\ ClearCache("merge") /\ before' = {} /\ planned' = {}
    /\ UNCHANGED <<store, extraction, plan, moved, doing, stale, query, lost>>
FailMerge ==
    /\ merging # "idle" /\ merging' = "idle" /\ plan' = {} /\ doing' = {} /\ moved' = 0
    /\ before' = {} /\ planned' = {} /\ LeaveCache("merge")
    /\ UNCHANGED <<store, extraction, stale, query, lost>>

(* --------------------------------------------------- deletions and queries -- *)

(* delete_entity, prune_graph and the hard reset delete first and then clear    *)
(* the cache.                                                                   *)
DeleteNodes(gone) ==
    /\ gone # {} /\ gone \subseteq nodes /\ ~ stale /\ stale' = TRUE
    /\ \/ Cardinality(gone) = 1
       \/ \A n \in gone : TypeOf[n] = Other
       \/ gone = nodes
    /\ Detach(gone) /\ lost' = TRUE /\ Owe("delete", gone)
    /\ UNCHANGED <<extraction, merger, answer, query, excused>>
UncacheDeleted ==
    /\ stale /\ stale' = FALSE /\ ClearCache("delete")
    /\ UNCHANGED <<store, extraction, merger, query, lost>>

(* A query is answered from the cache or reads the graph, and an answer that    *)
(* tells anything is cached for _GRAPH_CACHE_TTL seconds.                       *)
ReadGraph(q) ==
    /\ query[q] = {} /\ answer = {} /\ nodes \cap Matching # {}
    /\ query' = [query EXCEPT ![q] = nodes \cap Matching]
    /\ UNCHANGED <<store, extraction, merger, stale, answer, owed, excused, lost>>
CacheAnswer(q) ==
    /\ query[q] # {} /\ query' = [query EXCEPT ![q] = {}]
    /\ answer' \in {query[q], answer}
    /\ UNCHANGED <<store, extraction, merger, stale, owed, excused, lost>>
ExpireAnswer ==
    /\ answer # {} /\ answer' = {} /\ excused' = excused \cap Straddling
    /\ UNCHANGED <<store, extraction, merger, stale, query, owed, lost>>

GraphNext ==
    \/ \E j \in Jobs :
          \/ \E b \in {b \in SUBSET Names : b # {} /\ Cardinality(b) <= MaxBatch} :
                \E r \in {r \in SUBSET (b \X b) : Cardinality(r) <= MaxEdges} : Extract(j, b, r)
          \/ CheckCompaction(j) \/ CountEntities(j) \/ Evict(j) \/ MergeEntities(j)
          \/ UncacheEntities(j) \/ Relate(j) \/ FailExtract(j)
    \/ \E p \in Names \X Names :
          TakeDuplicate(p) \/ RedirectOut(p) \/ RedirectIn(p) \/ DropDuplicate(p)
    \/ \E gone \in SUBSET nodes : DeleteNodes(gone)
    \/ \E q \in Queries : ReadGraph(q) \/ CacheAnswer(q)
    \/ StartMerge \/ SecondPass \/ EndMerge \/ FailMerge
    \/ UncacheDeleted \/ ExpireAnswer

GraphSpec == GraphInit /\ [][GraphNext]_graphVars

(* Nodes, edges, tasks and cached answers keep their types, and an edge joins   *)
(* nodes that exist.                                                            *)
GraphTypeOK ==
    /\ nodes \subseteq Names /\ edges \subseteq nodes \X nodes
    /\ updated \in [Names -> Nat] /\ now \in Nat
    /\ job \in [Jobs -> {"idle", "check", "count", "evict", "merge", "uncache", "relate"}]
    /\ batch \in [Jobs -> SUBSET Names] /\ rels \in [Jobs -> SUBSET (Names \X Names)]
    /\ ts \in [Jobs -> Nat] /\ overflow \in [Jobs -> Nat]
    /\ merging \in {"idle", "first", "second"} /\ plan \subseteq Names \X Names
    /\ moved \in 0..2 /\ doing \subseteq Names \X Names /\ before \subseteq Names \X Names
    /\ stale \in BOOLEAN /\ answer \in SUBSET Names
    /\ query \in [Queries -> SUBSET Names]
    /\ owed \in [Writers -> SUBSET Names] /\ excused \subseteq Names
    /\ lost \in BOOLEAN /\ busy \in Nat

(* _MAX_USER_ENTITIES is enforced by a count that is old when the batch is      *)
(* merged: extractions that run together overshoot it, but never by more than   *)
(* one batch for each of them but one, however their counts, evictions and      *)
(* merges interleave and whichever of them fail.                                *)
GraphIsBounded ==
    Cardinality(nodes) <= MaxEntities + (IF busy > 1 THEN busy - 1 ELSE 0) * MaxBatch

(* Merging duplicates loses none of the relations there are when a pass starts: *)
(* once the pass is through, each of them joins the nodes its ends were merged  *)
(* into, although extractions go on adding nodes and edges. Only a node that    *)
(* somebody else has removed meanwhile takes its edges along. An edge that is   *)
(* added to a duplicate during the pass may go with it.                         *)
KeptAs(n) == IF \E p \in planned : p[1] = n THEN (CHOOSE p \in planned : p[1] = n)[2] ELSE n
MergeKeepsRelations ==
    merging # "idle" /\ plan = {} /\ doing = {} /\ ~ lost =>
        \A e \in before : <<KeptAs(e[1]), KeptAs(e[2])>> \in edges

(* A cached answer tells the nodes there are: it misses or makes up a name only *)
(* while the writer that added or removed the node has still to clear the       *)
(* cache, if that writer has died or failed before it could or Redis has failed *)
(* it, or if the query read the graph before the clearing and was cached after  *)
(* it (_cache_del_user behind every write, _cache_set in query_context).        *)
CacheTellsGraph ==
    Wrong(answer) \subseteq excused \cup UNION {owed[w] : w \in Writers}

==============================================================================
