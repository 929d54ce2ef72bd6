-------------------------- MODULE KnowledgePipeline --------------------------
(***************************************************************************)
(* What happens to a document after its upload was announced: the shadow   *)
(* subscribers of the knowledge engine and registry, of relationships, of  *)
(* the knowledge index and of the knowledge graph run one after the other  *)
(* in the thread of the upload (backend/app/knowledge_*/shadow.py), each   *)
(* swallowing what it raises. Pipelines of different documents overlap:    *)
(* the tables are shared, every query reads what is committed, and the     *)
(* index and the graph live in memory with a JSON file beside each.        *)
(* Neither file is ever read back. The queries for peers and for the graph *)
(* have a limit.                                                           *)
(***************************************************************************)
EXTENDS Naturals, FiniteSets

CONSTANTS
    Docs,          \* documents, each uploaded once
    Questions,     \* threads of questions, which rebuild an empty graph
    Labels,        \* unique rows: seed data, category paths, version groups
    Seed,          \* the label of the seed data
    LabelsOf,      \* categories and version group of each document
    Related,       \* pairs that share a collection, a taxonomy path or a concept
    Similar,       \* pairs the duplicate detector scores above its threshold
    Newer,         \* <<d, e>>: d ranks above e in their version group
    RowLimit,      \* registry rows that a query for peers returns at most
    EdgeLimit,     \* relationships that the query of the graph always returns
    MayFail,       \* bound: threads whose handlers may raise
    MaxUploads,    \* bound on the documents that are announced
    MaxAtOnce,     \* bound on the threads that are under way at once
    MaxRestarts    \* bound on restarts of the process

ASSUME ConstantsAssumption ==
    /\ Docs \cap Questions = {}
    /\ Seed \in Labels
    /\ LabelsOf \in [Docs -> SUBSET (Labels \ {Seed})]
    /\ IsFiniteSet(Docs)
    /\ \A R \in {Related, Similar} :
          /\ R \subseteq Docs \X Docs
          /\ \A d, e \in Docs : <<d, e>> \in R => <<e, d>> \in R /\ d # e
    /\ Newer \subseteq Docs \X Docs
    /\ \A d, e \in Docs : <<d, e>> \in Newer => d # e /\ <<e, d>> \notin Newer
    /\ RowLimit \in Nat /\ EdgeLimit \in Nat
    /\ MayFail \subseteq Docs \cup Questions
    /\ MaxUploads \in Nat /\ MaxAtOnce \in Nat /\ MaxRestarts \in Nat

Threads == Docs \cup Questions

VARIABLES
    knowledge,     \* document_knowledge rows
    registry,      \* knowledge_registry rows
    labels,        \* committed unique rows
    duplicates,    \* <<d, e>>: duplicate_of_id of the row of d
    edges,         \* knowledge_relationships rows
    indexed,       \* documents of the in-memory KnowledgeIndexManager
    snapshot,      \* documents in hybrid_knowledge_index.json
    graph,         \* [nodes, edges] of the in-memory graph
    graphFile,     \* the graph in knowledge_graph.json
    at,            \* where each thread stands
    local,         \* what the handler of each thread has read and not written yet
    restarts,
    linked,        \* history: documents whose relationships were committed
    before,        \* history: the rows that were there when d registered
    skipped,       \* history: <<thread, "rows" | "snapshot" | "graph">> not written
    overlap        \* history: two threads were under way at once

tables == <<knowledge, registry, labels, duplicates, edges>>
memory == <<indexed, graph>>
files == <<snapshot, graphFile>>
history == <<linked, before, skipped>>
vars == <<tables, memory, files, at, local, restarts, history, overlap>>

NoGraph == [nodes |-> {}, edges |-> {}]
Points == {"idle", "load", "store", "seed", "seeding", "peers", "labels", "register",
           "source", "link", "index", "serialize", "write", "entries", "edges",
           "replace", "save", "done"}

(* Unique rows found missing, registry rows read as peers, the documents   *)
(* of a snapshot, the registry and relationship rows a rebuild read.       *)
Local == [missing : SUBSET Labels, peers : SUBSET Docs, copy : SUBSET Docs,
          nodes : SUBSET Docs, links : SUBSET (Docs \X Docs)]
NoLocals == [missing |-> {}, peers |-> {}, copy |-> {}, nodes |-> {}, links |-> {}]

Running == {t \in Threads : at[t] \notin {"idle", "done"}}
Goto(t, p) == at' = [at EXCEPT ![t] = p]
Keep(t, read) == local' = [local EXCEPT ![t] = read]

(* A handler returns and the thread calls the next one, at p.              *)
Return(t, p) == Goto(t, p) /\ local' = [local EXCEPT ![t] = NoLocals]

Skip(d, handler) == skipped' = skipped \cup {<<d, handler>>}

(* A query with a limit: all of the rows, or as many as the limit allows,  *)
(* the most recently updated ones, in an order other threads decide.       *)
Latest(rows, limit) ==
    IF Cardinality(rows) <= limit THEN {rows} ELSE {R \in SUBSET rows : Cardinality(R) = limit}

(* DuplicateDetector: the peers that score above the threshold.            *)
SimilarIn(d, S) == {e \in S : <<d, e>> \in Similar}

(* VersioningDiscoverer: in the order of ranks, the versions next to d     *)
(* among S; and every older one, unless d is the newest.                   *)
Versions(d, S) ==
    {e \in S :
        \/ <<d, e>> \in Newer /\ \A f \in S : ~(<<d, f>> \in Newer /\ <<f, e>> \in Newer)
        \/ <<e, d>> \in Newer /\ \A f \in S : ~(<<e, f>> \in Newer /\ <<f, d>> \in Newer)
        \/ <<d, e>> \in Newer /\ \E f \in S : <<f, d>> \in Newer}

(* RelationshipEngine.discover_for: the targets among the peers S.         *)
Discovered(d, S) == {e \in S : <<d, e>> \in Related} \cup Versions(d, S)

Endpoints(E) == {e[1] : e \in E} \cup {e[2] : e \in E}

(***************************************************************************)
(* Mutants.                                                                *)
(***************************************************************************)
(* Only documents that already have relationships are taken as peers.      *)
FindSourceWithOldPeers(d) ==
    /\ at[d] = "source"
    /\ d \in registry
    /\ Keep(d, [local[d] EXCEPT !.peers = linked])
    /\ Goto(d, "link")
    /\ UNCHANGED <<tables, memory, files, restarts, history, overlap>>

(* The graph is updated with the document of the event only.               *)
ReplaceGraphWithOne(t) ==
    /\ at[t] = "replace"
    /\ graph' = [nodes |-> graph.nodes \cup (local[t].nodes \cap {t}),
                 edges |-> graph.edges \cup {e \in local[t].links : e[1] = t}]
    /\ Goto(t, "save")
    /\ UNCHANGED <<tables, indexed, files, local, restarts, history, overlap>>

(* The index takes documents without a knowledge row.                      *)
IndexWithoutKnowledge(d) ==
    /\ at[d] = "index"
    /\ indexed' = indexed \cup {d}
    /\ Goto(d, "serialize")
    /\ UNCHANGED <<tables, graph, files, local, restarts, history, overlap>>

-----------------------------------------------------------------------------
Init ==
    /\ knowledge = {} /\ registry = {} /\ labels = {} /\ duplicates = {} /\ edges = {}
    /\ indexed = {} /\ snapshot = {}
    /\ graph = NoGraph /\ graphFile = NoGraph
    /\ at = [t \in Threads |-> "idle"]
    /\ local = [t \in Threads |-> NoLocals]
    /\ restarts = 0
    /\ linked = {} /\ before = [d \in Docs |-> {}] /\ skipped = {}
    /\ overlap = FALSE

(* publish(DocumentUploaded), or DocumentRetryCompleted.                   *)
Announce(d) ==
    /\ at[d] = "idle"
    /\ Cardinality({e \in Docs : at[e] # "idle"}) < MaxUploads
    /\ Cardinality(Running) < MaxAtOnce
    /\ Goto(d, "load")
    /\ overlap' = (overlap \/ Running # {})
    /\ UNCHANGED <<tables, memory, files, local, restarts, history>>

-----------------------------------------------------------------------------
(* ShadowKnowledgeService.process_document_id finds the document, or that  *)
(* it was deleted meanwhile: the one time a handler looks at its status.   *)
Load(d) ==
    /\ at[d] = "load"
    /\ Goto(d, "store")
    /\ UNCHANGED <<tables, memory, files, local, restarts, history, overlap>>

LoadDeleted(d) ==
    /\ at[d] = "load"
    /\ Skip(d, "rows")
    /\ Goto(d, "source")
    /\ UNCHANGED <<tables, memory, files, local, restarts, linked, before, overlap>>

(* The file is read and analyzed, KnowledgeRepository.upsert commits.      *)
StoreKnowledge(d) ==
    /\ at[d] = "store"
    /\ knowledge' = knowledge \cup {d}
    /\ Goto(d, "seed")
    /\ UNCHANGED <<registry, labels, duplicates, edges, memory, files, local,
                   restarts, history, overlap>>

StoreFails(d) ==
    /\ at[d] = "store"
    /\ d \in MayFail
    /\ Skip(d, "rows")
    /\ Goto(d, "source")
    /\ UNCHANGED <<tables, memory, files, local, restarts, linked, before, overlap>>

(* Get-or-create: the rows of S that a query does not find.                *)
Missing(S) == S \ labels

(* The commit of inserted unique rows, which fails for rows that another   *)
(* session committed meanwhile.                                            *)
Insertable(d) == local[d].missing \cap labels = {}

(* ensure_seed_data: the queries, then the commit.                         *)
ReadSeed(d) ==
    /\ at[d] = "seed"
    /\ Keep(d, [local[d] EXCEPT !.missing = Missing({Seed})])
    /\ Goto(d, "seeding")
    /\ UNCHANGED <<tables, memory, files, restarts, history, overlap>>

CommitSeed(d) ==
    /\ at[d] = "seeding"
    /\ Insertable(d)
    /\ labels' = labels \cup local[d].missing
    /\ Goto(d, "peers")
    /\ UNCHANGED <<knowledge, registry, duplicates, edges, memory, files, local,
                   restarts, history, overlap>>

(* peers_as_entries(exclude_document_id), from which build_entry finds the *)
(* probable duplicate: the own row is left out after the limit.            *)
ReadPeers(d) ==
    /\ at[d] = "peers"
    /\ \E rows \in Latest(registry, RowLimit) :
          Keep(d, [local[d] EXCEPT !.peers = rows \ {d}])
    /\ Goto(d, "labels")
    /\ UNCHANGED <<tables, memory, files, restarts, history, overlap>>

(* upsert_entry: the queries for the version group and the categories.     *)
ReadLabels(d) ==
    /\ at[d] = "labels"
    /\ Keep(d, [local[d] EXCEPT !.missing = Missing(LabelsOf[d])])
    /\ Goto(d, "register")
    /\ UNCHANGED <<tables, memory, files, restarts, history, overlap>>

(* upsert_entry: the commit of the row, marked as a duplicate of the most  *)
(* similar peer if there is one, and of what it added.                     *)
Register(d) ==
    /\ at[d] = "register"
    /\ Insertable(d)
    /\ labels' = labels \cup local[d].missing
    /\ registry' = registry \cup {d}
    /\ \/ SimilarIn(d, local[d].peers) = {} /\ UNCHANGED duplicates
       \/ \E e \in SimilarIn(d, local[d].peers) : duplicates' = duplicates \cup {<<d, e>>}
    /\ before' = [before EXCEPT ![d] = registry]
    /\ Return(d, "source")
    /\ UNCHANGED <<knowledge, edges, memory, files, restarts, linked, skipped, overlap>>

(* IntegrityError out of one of the two commits, logged and swallowed.     *)
Refused(d) ==
    /\ at[d] \in {"seeding", "register"}
    /\ ~ Insertable(d)
    /\ Skip(d, "rows")
    /\ Return(d, "source")
    /\ UNCHANGED <<tables, memory, files, restarts, linked, before, overlap>>

-----------------------------------------------------------------------------
(* ShadowRelationshipService.process_document_id: the source row and the   *)
(* peers, in a session of its own.                                         *)
FindSource(d) ==
    /\ at[d] = "source"
    /\ d \in registry
    /\ \E rows \in Latest(registry, RowLimit) : Keep(d, [local[d] EXCEPT !.peers = rows])
    /\ Goto(d, "link")
    /\ UNCHANGED <<tables, memory, files, restarts, history, overlap>>

SourceMissing(d) ==
    /\ at[d] = "source"
    /\ d \notin registry
    /\ Skip(d, "rows")
    /\ Return(d, "index")
    /\ UNCHANGED <<tables, memory, files, restarts, linked, before, overlap>>

(* The targets of d. An entry read as a peer lacks duplicate_of_id: only a *)
(* source rebuilt from its row, for want of it among the rows read, has a  *)
(* relationship for its duplicate.                                         *)
Targets(d) ==
    Discovered(d, local[d].peers \ {d})
        \cup {e \in Docs : <<d, e>> \in duplicates /\ d \notin local[d].peers}

(* discover_for, replace_for_source and its commit.                        *)
Link(d) ==
    /\ at[d] = "link"
    /\ edges' = {e \in edges : e[1] # d} \cup ({d} \X Targets(d))
    /\ linked' = linked \cup {d}
    /\ Return(d, "index")
    /\ UNCHANGED <<knowledge, registry, labels, duplicates, memory, files,
                   restarts, before, skipped, overlap>>

LinkFails(d) ==
    /\ at[d] = "link"
    /\ d \in MayFail
    /\ Skip(d, "rows")
    /\ Return(d, "index")
    /\ UNCHANGED <<tables, memory, files, restarts, linked, before, overlap>>

-----------------------------------------------------------------------------
(* ShadowKnowledgeIndexService.process_document_id: manager.update of a    *)
(* document built from its rows.                                           *)
Index(d) ==
    /\ at[d] = "index"
    /\ d \in knowledge
    /\ indexed' = indexed \cup {d}
    /\ Goto(d, "serialize")
    /\ UNCHANGED <<tables, graph, files, local, restarts, history, overlap>>

KnowledgeMissing(d) ==
    /\ at[d] = "index"
    /\ d \notin knowledge
    /\ Skip(d, "snapshot")
    /\ Return(d, "entries")
    /\ UNCHANGED <<tables, memory, files, restarts, linked, before, overlap>>

(* manager._persist: the payload, then the file.                           *)
Serialize(d) ==
    /\ at[d] = "serialize"
    /\ Keep(d, [local[d] EXCEPT !.copy = indexed])
    /\ Goto(d, "write")
    /\ UNCHANGED <<tables, memory, files, restarts, history, overlap>>

(* One way to fail: another thread adds to the dictionary meanwhile.       *)
SerializeFails(d) ==
    /\ at[d] = "serialize"
    /\ d \in MayFail
    /\ Skip(d, "snapshot")
    /\ Return(d, "entries")
    /\ UNCHANGED <<tables, memory, files, restarts, linked, before, overlap>>

WriteSnapshot(d) ==
    /\ at[d] = "write"
    /\ snapshot' = local[d].copy
    /\ Return(d, "entries")
    /\ UNCHANGED <<tables, memory, graphFile, restarts, history, overlap>>

-----------------------------------------------------------------------------
(* analyze_query of a question: an empty graph is rebuilt on the way.      *)
Ask(q) ==
    /\ at[q] = "idle"
    /\ graph = NoGraph
    /\ Cardinality(Running) < MaxAtOnce
    /\ Goto(q, "entries")
    /\ overlap' = (overlap \/ Running # {})
    /\ UNCHANGED <<tables, memory, files, local, restarts, history>>

(* rebuild_from_persistence: one query for the registry, a later one for   *)
(* the relationships, then a new graph in place of the old one.            *)
ReadEntries(t) ==
    /\ at[t] = "entries"
    /\ \E rows \in Latest(registry, RowLimit) : Keep(t, [local[t] EXCEPT !.nodes = rows])
    /\ Goto(t, "edges")
    /\ UNCHANGED <<tables, memory, files, restarts, history, overlap>>

(* A pair has several rows, of which the limit may cut off some or all.    *)
ReadEdges(t) ==
    /\ at[t] = "edges"
    /\ \E links \in SUBSET edges :
          /\ Cardinality(edges) <= EdgeLimit => links = edges
          /\ Keep(t, [local[t] EXCEPT !.links = links])
    /\ Goto(t, "replace")
    /\ UNCHANGED <<tables, memory, files, restarts, history, overlap>>

(* An end of an edge the registry query missed gets a bare node.           *)
ReplaceGraph(t) ==
    /\ at[t] = "replace"
    /\ graph' = [nodes |-> local[t].nodes \cup Endpoints(local[t].links), edges |-> local[t].links]
    /\ Return(t, "save")
    /\ UNCHANGED <<tables, indexed, files, restarts, history, overlap>>

(* The store writes self._graph_service.graph, which may be newer.         *)
SaveGraph(t) ==
    /\ at[t] = "save"
    /\ graphFile' = graph
    /\ Return(t, "done")
    /\ UNCHANGED <<tables, memory, snapshot, restarts, history, overlap>>

(* A query, the build or the write raises.                                 *)
GraphFails(t) ==
    /\ at[t] \in {"entries", "edges", "save"}
    /\ t \in MayFail
    /\ Skip(t, "graph")
    /\ Return(t, "done")
    /\ UNCHANGED <<tables, memory, files, restarts, linked, before, overlap>>

-----------------------------------------------------------------------------
(* The process ends at any point and starts again with empty memory. The   *)
(* events are not kept: what was under way is not resumed.                 *)
Restart ==
    /\ restarts < MaxRestarts
    /\ restarts' = restarts + 1
    /\ indexed' = {}
    /\ graph' = NoGraph
    /\ local' = [t \in Threads |-> NoLocals]
    /\ at' = [t \in Threads |-> IF at[t] = "idle" \/ t \in Questions THEN "idle" ELSE "done"]
    /\ skipped' = skipped \cup (Running \X {"rows", "snapshot", "graph"})
    /\ UNCHANGED <<tables, files, linked, before, overlap>>

Engine(d) ==
    Load(d) \/ LoadDeleted(d) \/ StoreKnowledge(d) \/ StoreFails(d) \/ ReadSeed(d) \/ CommitSeed(d)
    \/ ReadPeers(d) \/ ReadLabels(d) \/ Register(d) \/ Refused(d)
Relationships(d) == FindSource(d) \/ SourceMissing(d) \/ Link(d) \/ LinkFails(d)
KnowledgeIndex(d) == Index(d) \/ KnowledgeMissing(d) \/ Serialize(d) \/ SerializeFails(d) \/ WriteSnapshot(d)
RebuildGraph(t) == ReadEntries(t) \/ ReadEdges(t) \/ ReplaceGraph(t) \/ SaveGraph(t) \/ GraphFails(t)

Next ==
    \/ \E d \in Docs :
          Announce(d) \/ Engine(d) \/ Relationships(d) \/ KnowledgeIndex(d)
    \/ \E q \in Questions : Ask(q)
    \/ \E t \in Threads : RebuildGraph(t)
    \/ Restart

Spec == Init /\ [][Next]_vars

-----------------------------------------------------------------------------
TypeOK ==
    /\ knowledge \subseteq Docs /\ registry \subseteq Docs
    /\ labels \subseteq Labels
    /\ duplicates \subseteq Docs \X Docs /\ edges \subseteq Docs \X Docs
    /\ indexed \subseteq Docs /\ snapshot \subseteq Docs
    /\ graph.nodes \subseteq Docs /\ graph.edges \subseteq Docs \X Docs
    /\ graphFile.nodes \subseteq Docs /\ graphFile.edges \subseteq Docs \X Docs
    /\ at \in [Threads -> Points]
    /\ local \in [Threads -> Local]
    /\ restarts \in 0..MaxRestarts
    /\ linked \subseteq Docs
    /\ before \in [Docs -> SUBSET Docs]
    /\ skipped \subseteq Threads \X {"rows", "snapshot", "graph"}
    /\ overlap \in BOOLEAN

(* Up to the limits of the queries.                                        *)
RegistryFits == Cardinality(registry) <= RowLimit
WithinLimits == RegistryFits /\ Cardinality(edges) <= EdgeLimit

(***************************************************************************)
(* Of two related documents whose relationships were both committed, one   *)
(* at least has an edge to the other, however the pipelines interleaved:   *)
(* each reads the registry after it registered. This holds as long as the  *)
(* registry fits the limit of the query (peers_as_entries reads the 1000   *)
(* latest rows): beyond it, an older document is no peer of a later one.   *)
(***************************************************************************)
RelatedAreLinked ==
    RegistryFits =>
        \A d, e \in linked :
            <<d, e>> \in Related => <<d, e>> \in edges \/ <<e, d>> \in edges

(***************************************************************************)
(* What is derived stays within what it is derived from: an edge or a      *)
(* duplicate mark joins two registered documents, a registered or indexed  *)
(* one has its knowledge row, and neither memory nor a file shows another. *)
(***************************************************************************)
DerivedFromRows ==
    /\ registry \subseteq knowledge
    /\ Endpoints(edges \cup duplicates) \subseteq registry
    /\ indexed \subseteq knowledge /\ snapshot \subseteq knowledge
    /\ \A g \in {graph, graphFile} : g.nodes \subseteq registry /\ g.edges \subseteq edges

(***************************************************************************)
(* Without overlap and within the limits of the queries, a pipeline whose  *)
(* handlers all went through leaves its document registered, marked as a   *)
(* duplicate exactly when a similar one had registered before it, with the *)
(* relationships that can be discovered among the documents registered     *)
(* before it, and in a graph that holds the whole registry, also when a    *)
(* restart emptied the memory before; without a restart it is in the index *)
(* and its file.                                                           *)
(***************************************************************************)
AloneIsComplete ==
    \A d \in Docs :
        at[d] = "done" /\ ~ overlap /\ WithinLimits /\ (\A s \in skipped : s[1] # d) =>
            /\ d \in registry /\ d \in linked
            /\ SimilarIn(d, before[d]) # {} <=> \E e \in before[d] : <<d, e>> \in duplicates
            /\ {e \in Docs : <<d, e>> \in edges} = Discovered(d, before[d])
            /\ restarts = 0 => d \in indexed \cap snapshot
            /\ graph = NoGraph \/ d \in graph.nodes
            /\ Running = {} /\ (\A s \in skipped : s[2] # "graph") =>
                   graph = NoGraph \/ graph = [nodes |-> registry, edges |-> edges]

-----------------------------------------------------------------------------
(* Not so: two similar documents announced together are both registered as *)
(* no duplicate of anything (duplicates/detector.py: "Probable             *)
(* knowledge-duplicate detection").                                        *)
DuplicatesMarked ==
    RegistryFits =>
        \A d, e \in linked :
            <<d, e>> \in Similar => \E p \in duplicates : p[1] \in {d, e}

(* Not so: an older rebuild that ends last takes a document out of the     *)
(* graph, until the next upload.                                           *)
GraphComplete ==
    (Running = {} /\ skipped = {} /\ restarts = 0 /\ WithinLimits) => registry \subseteq graph.nodes

(* Not so: beyond the limit, the rows a query returns may lack an older    *)
(* related document.                                                       *)
AlwaysLinked ==
    \A d, e \in linked : <<d, e>> \in Related => <<d, e>> \in edges \/ <<e, d>> \in edges
=============================================================================
