----------------------- MODULE KnowledgePipelineProofs -----------------------
(***************************************************************************)
(* What the pipelines leave behind, for any documents, labels and          *)
(* relations, any number of questions and restarts, and any interleaving:  *)
(* nothing derived is without the rows it is derived from, and related     *)
(* documents are linked although no pipeline waits for another.            *)
(***************************************************************************)
EXTENDS KnowledgePipeline, FiniteSetTheorems, TLAPS

(* Where a document has its knowledge row, and where its relationships may *)
(* have been committed.                                                    *)
Registering == {"seed", "seeding", "peers", "labels", "register"}
AfterLink == {"index", "serialize", "write", "entries", "edges", "replace", "save", "done"}

(* What a handler has read is still there when it writes: rows of these    *)
(* tables are not removed, and the edges of a document are written once.   *)
ReadsStand ==
    /\ \A d \in Docs :
          /\ at[d] \in Registering => d \in knowledge
          /\ at[d] = "link" => d \in registry
          /\ d \in linked => at[d] \in AfterLink /\ d \in registry
          /\ \A e \in edges : e[1] = d => d \in linked
    /\ \A t \in Threads :
          /\ local[t].peers \subseteq registry
          /\ local[t].copy \subseteq knowledge
          /\ local[t].nodes \subseteq registry
          /\ local[t].links \subseteq edges

(* A document that has looked for peers, and whether it saw another one.   *)
Looked(d) == at[d] = "link" \/ d \in linked
Saw(d, e) == IF at[d] = "link" THEN e \in local[d].peers ELSE <<d, e>> \in edges

(* Of two related documents that both have looked, one saw the other, if   *)
(* their queries returned every row.                                       *)
OneSaw ==
    RegistryFits =>
        \A d, e \in Docs :
            Looked(d) /\ Looked(e) /\ <<d, e>> \in Related => Saw(d, e) \/ Saw(e, d)

Inv == TypeOK /\ DerivedFromRows /\ ReadsStand /\ OneSaw

-----------------------------------------------------------------------------
(* What a query with a limit returns.                                      *)
LEMMA LatestRows ==
  ASSUME NEW rows \in Latest(registry, RowLimit)
  PROVE  rows \subseteq registry /\ (RegistryFits => rows = registry)
  BY DEF Latest, RegistryFits

(* Tables only grow: what fits the limits did so before.                   *)
LEMMA FitBefore ==
  ASSUME TypeOK', registry \subseteq registry'
  PROVE  /\ RegistryFits' => RegistryFits
         /\ edges \subseteq edges' /\ WithinLimits' => WithinLimits
<1> USE ConstantsAssumption
<1>1. IsFiniteSet(registry') /\ Cardinality(registry) <= Cardinality(registry')
  <2>1. IsFiniteSet(registry')
    BY FS_Subset DEF TypeOK
  <2> QED
    BY <2>1, FS_Subset
<1>2. Cardinality(registry) \in Nat /\ Cardinality(registry') \in Nat
  BY <1>1, FS_Subset, FS_CardinalityType
<1>3. ASSUME edges \subseteq edges'
      PROVE  /\ Cardinality(edges) <= Cardinality(edges')
             /\ Cardinality(edges) \in Nat /\ Cardinality(edges') \in Nat
  <2>1. IsFiniteSet(Docs \X Docs)
    BY FS_Product
  <2>2. IsFiniteSet(edges')
    BY <2>1, FS_Subset DEF TypeOK
  <2> QED
    BY <1>3, <2>2, FS_Subset, FS_CardinalityType
<1>4. RegistryFits' => RegistryFits
  BY <1>1, <1>2 DEF RegistryFits
<1> QED
  BY <1>3, <1>4 DEF WithinLimits

LEMMA Initially == Init => Inv
<1> SUFFICES ASSUME Init PROVE Inv
  OBVIOUS
<1> USE ConstantsAssumption DEF Init, NoGraph, NoLocals
<1>1. TypeOK
  <2>1. NoLocals \in Local /\ local \in [Threads -> {NoLocals}]
    BY DEF Local
  <2>2. at \in [Threads -> Points] /\ before \in [Docs -> SUBSET Docs]
    BY DEF Points
  <2>3. /\ graph.nodes = {} /\ graph.edges = {} /\ graphFile.nodes = {} /\ graphFile.edges = {}
        /\ overlap \in BOOLEAN
    OBVIOUS
  <2> HIDE DEF NoLocals
  <2>4. local \in [Threads -> Local]
    BY <2>1
  <2> QED
    BY <2>2, <2>3, <2>4 DEF TypeOK
<1>2. DerivedFromRows
  BY DEF DerivedFromRows, Endpoints
<1>3. ReadsStand
  BY DEF ReadsStand, Registering, AfterLink, Threads
<1>4. OneSaw
  BY DEF OneSaw, RegistryFits, Looked, Threads
<1> QED
  BY <1>1, <1>2, <1>3, <1>4 DEF Inv

(* A handler reads what stands in the tables, or gives up, and goes on.    *)
LEMMA ReadStep ==
  ASSUME Inv, NEW t \in Threads, NEW new \in Local, NEW p \in Points,
         Keep(t, new), Goto(t, p),
         new.peers \subseteq registry, new.copy \subseteq knowledge,
         new.nodes \subseteq registry, new.links \subseteq edges,
         p # "link",
         p \in Registering /\ t \in Docs => t \in knowledge,
         t \in linked => p \in AfterLink,
         skipped' \subseteq Threads \X {"rows", "snapshot", "graph"},
         UNCHANGED <<tables, memory, files, restarts, linked, before, overlap>>
  PROVE  Inv'
<1> USE ConstantsAssumption DEF Inv, tables, memory, files, Goto, Keep
<1>1. /\ local' \in [Threads -> Local] /\ at' \in [Threads -> Points]
      /\ local'[t] = new /\ at'[t] = p
      /\ \A u \in Threads \ {t} : local'[u] = local[u] /\ at'[u] = at[u]
  BY DEF TypeOK
<1>2. TypeOK'
  BY <1>1 DEF TypeOK
<1>3. DerivedFromRows'
  BY DEF DerivedFromRows, Endpoints
<1>4. ReadsStand'
  BY <1>1 DEF ReadsStand, Threads
<1>5. OneSaw'
  <2>1. \A d \in Docs : at'[d] = "link" => d # t /\ at[d] = "link" /\ local'[d] = local[d]
    BY <1>1 DEF Threads
  <2>2. \A d \in Docs : d \in linked => at[d] # "link"
    BY DEF ReadsStand, AfterLink
  <2> QED
    BY <2>1, <2>2 DEF OneSaw, RegistryFits, Looked, Saw
<1> QED
  BY <1>2, <1>3, <1>4, <1>5

(* The state of a thread whose handler has returned.                       *)
LEMMA Returned ==
  ASSUME TypeOK, NEW t \in Threads, NEW p \in Points, Return(t, p)
  PROVE  /\ local' \in [Threads -> Local] /\ at' \in [Threads -> Points]
         /\ at'[t] = p /\ local'[t].peers = {} /\ local'[t].copy = {}
         /\ local'[t].nodes = {} /\ local'[t].links = {}
         /\ \A u \in Threads \ {t} : local'[u] = local[u] /\ at'[u] = at[u]
<1>1. NoLocals \in Local
  BY DEF NoLocals, Local
<1>2. local' = [local EXCEPT ![t] = NoLocals] /\ at' = [at EXCEPT ![t] = p]
  BY DEF Return, Goto
<1>3. local'[t] = NoLocals
  BY <1>2 DEF TypeOK
<1> QED
  BY <1>1, <1>2, <1>3 DEF TypeOK, NoLocals

LEMMA Inductive == Inv /\ [Next]_vars => Inv'
<1> SUFFICES ASSUME Inv, [Next]_vars PROVE Inv'
  OBVIOUS
<1> USE ConstantsAssumption
<1>1. ASSUME NEW d \in Docs, Announce(d) PROVE Inv'
  BY <1>1 DEF Announce, Inv, TypeOK, DerivedFromRows, ReadsStand, OneSaw, RegistryFits, Looked, Saw,
      Registering, AfterLink, Threads, Points, tables, memory, files, history, Goto, Skip
<1>2. ASSUME NEW d \in Docs, LoadDeleted(d) PROVE Inv'
  <2>1. /\ at[d] \in {"load", "store"} /\ Goto(d, "source") /\ skipped' = skipped \cup {<<d, "rows">>}
        /\ UNCHANGED <<tables, memory, files, local, restarts, linked, before, overlap>>
    BY <1>2 DEF LoadDeleted, Skip
  <2>2. d \in Threads /\ local[d] \in Local /\ Keep(d, local[d])
    BY <2>1 DEF Keep, Inv, TypeOK, Threads
  <2>3. /\ local[d].peers \subseteq registry /\ local[d].copy \subseteq knowledge
        /\ local[d].nodes \subseteq registry /\ local[d].links \subseteq edges
    BY <2>2 DEF Inv, ReadsStand
  <2>4. skipped' \subseteq Threads \X {"rows", "snapshot", "graph"}
    BY <2>1, <2>2 DEF Inv, TypeOK
  <2>5. d \notin linked /\ "source" \notin Registering /\ "source" \in Points
    BY <2>1 DEF Inv, ReadsStand, AfterLink, Registering, Points
  <2> QED
    BY <2>1, <2>2, <2>3, <2>4, <2>5, ReadStep
<1>3. ASSUME NEW d \in Docs, Load(d) PROVE Inv'
  BY <1>3 DEF Load, Inv, TypeOK, DerivedFromRows, ReadsStand, OneSaw, RegistryFits, Looked, Saw,
      Registering, AfterLink, Threads, Points, tables, memory, files, history, Goto, Skip
<1>4. ASSUME NEW d \in Docs, StoreKnowledge(d) PROVE Inv'
  BY <1>4 DEF StoreKnowledge, Inv, TypeOK, DerivedFromRows, ReadsStand, OneSaw, RegistryFits, Looked, Saw,
      Registering, AfterLink, Threads, Points, tables, memory, files, history, Goto, Skip
<1>5. ASSUME NEW d \in Docs, StoreFails(d) PROVE Inv'
  <2>1. /\ at[d] \in {"load", "store"} /\ Goto(d, "source") /\ skipped' = skipped \cup {<<d, "rows">>}
        /\ UNCHANGED <<tables, memory, files, local, restarts, linked, before, overlap>>
    BY <1>5 DEF StoreFails, Skip
  <2>2. d \in Threads /\ local[d] \in Local /\ Keep(d, local[d])
    BY <2>1 DEF Keep, Inv, TypeOK, Threads
  <2>3. /\ local[d].peers \subseteq registry /\ local[d].copy \subseteq knowledge
        /\ local[d].nodes \subseteq registry /\ local[d].links \subseteq edges
    BY <2>2 DEF Inv, ReadsStand
  <2>4. skipped' \subseteq Threads \X {"rows", "snapshot", "graph"}
    BY <2>1, <2>2 DEF Inv, TypeOK
  <2>5. d \notin linked /\ "source" \notin Registering /\ "source" \in Points
    BY <2>1 DEF Inv, ReadsStand, AfterLink, Registering, Points
  <2> QED
    BY <2>1, <2>2, <2>3, <2>4, <2>5, ReadStep
<1>6. ASSUME NEW d \in Docs, ReadSeed(d) PROVE Inv'
  <2> DEFINE new == [local[d] EXCEPT !.missing = Missing({Seed})]
  <2>1. local[d] \in Local
    BY DEF Inv, TypeOK, Threads
  <2>2. new \in Local
    BY <2>1 DEF Inv, TypeOK, Local, Missing
  <2>3. /\ new.peers \subseteq registry /\ new.copy \subseteq knowledge
        /\ new.nodes \subseteq registry /\ new.links \subseteq edges
    BY <2>1 DEF Inv, TypeOK, Local, ReadsStand, DerivedFromRows, Threads
  <2>4. Keep(d, new) /\ Goto(d, "seeding")
    BY <1>6 DEF ReadSeed
  <2>5. /\ skipped' \subseteq Threads \X {"rows", "snapshot", "graph"}
        /\ UNCHANGED <<tables, memory, files, restarts, linked, before, overlap>>
    BY <1>6 DEF ReadSeed, Skip, history, Inv, TypeOK, Threads
  <2>6. /\ "seeding" \in Registering /\ d \in Docs => d \in knowledge
        /\ d \in linked => "seeding" \in AfterLink
    BY <1>6 DEF ReadSeed, Inv, ReadsStand, Registering, AfterLink, TypeOK
  <2> HIDE DEF new
  <2> QED
    BY <2>2, <2>3, <2>4, <2>5, <2>6, ReadStep DEF Points, Threads
<1>7. ASSUME NEW d \in Docs, CommitSeed(d) PROVE Inv'
  <2>1. local[d].missing \subseteq Labels /\ at[d] = "seeding" /\ d \in Threads
    BY <1>7 DEF CommitSeed, Inv, TypeOK, Local, Threads
  <2>2. /\ labels' = labels \cup local[d].missing /\ Goto(d, "peers")
        /\ UNCHANGED <<knowledge, registry, duplicates, edges, memory, files, local,
                       restarts, history, overlap>>
    BY <1>7 DEF CommitSeed
  <2>3. /\ at' \in [Threads -> Points] /\ at'[d] = "peers"
        /\ \A u \in Threads \ {d} : at'[u] = at[u]
    BY <2>1, <2>2 DEF Inv, TypeOK, Goto, Points
  <2>4. TypeOK'
    BY <2>1, <2>2, <2>3 DEF Inv, TypeOK, memory, files, history
  <2>5. DerivedFromRows'
    BY <2>2 DEF Inv, DerivedFromRows, Endpoints, memory, files
  <2>6. ReadsStand'
    BY <2>1, <2>2, <2>3 DEF Inv, ReadsStand, Threads, Registering, AfterLink, history
  <2>7. OneSaw'
    BY <2>1, <2>2, <2>3 DEF Inv, OneSaw, RegistryFits, Looked, Saw, Threads, history
  <2> QED
    BY <2>4, <2>5, <2>6, <2>7 DEF Inv
<1>8. ASSUME NEW d \in Docs, ReadPeers(d) PROVE Inv'
  <2>0. PICK rows \in Latest(registry, RowLimit) :
            Keep(d, [local[d] EXCEPT !.peers = rows \ {d}])
    BY <1>8 DEF ReadPeers
  <2> DEFINE new == [local[d] EXCEPT !.peers = rows \ {d}]
  <2>1. local[d] \in Local
    BY DEF Inv, TypeOK, Threads
  <2>2. new \in Local
    BY <2>1, LatestRows DEF Inv, TypeOK, Local
  <2>3. /\ new.peers \subseteq registry /\ new.copy \subseteq knowledge
        /\ new.nodes \subseteq registry /\ new.links \subseteq edges
    BY <2>1, LatestRows DEF Inv, TypeOK, Local, ReadsStand, DerivedFromRows, Threads
  <2>4. Keep(d, new) /\ Goto(d, "labels")
    BY <1>8, <2>0 DEF ReadPeers
  <2>5. /\ skipped' \subseteq Threads \X {"rows", "snapshot", "graph"}
        /\ UNCHANGED <<tables, memory, files, restarts, linked, before, overlap>>
    BY <1>8 DEF ReadPeers, Skip, history, Inv, TypeOK, Threads
  <2>6. /\ "labels" \in Registering /\ d \in Docs => d \in knowledge
        /\ d \in linked => "labels" \in AfterLink
    BY <1>8 DEF ReadPeers, Inv, ReadsStand, Registering, AfterLink, TypeOK
  <2> HIDE DEF new
  <2> QED
    BY <2>2, <2>3, <2>4, <2>5, <2>6, ReadStep DEF Points, Threads
<1>9. ASSUME NEW d \in Docs, ReadLabels(d) PROVE Inv'
  <2> DEFINE new == [local[d] EXCEPT !.missing = Missing(LabelsOf[d])]
  <2>1. local[d] \in Local
    BY DEF Inv, TypeOK, Threads
  <2>2. new \in Local
    BY <2>1 DEF Inv, TypeOK, Local, Missing
  <2>3. /\ new.peers \subseteq registry /\ new.copy \subseteq knowledge
        /\ new.nodes \subseteq registry /\ new.links \subseteq edges
    BY <2>1 DEF Inv, TypeOK, Local, ReadsStand, DerivedFromRows, Threads
  <2>4. Keep(d, new) /\ Goto(d, "register")
    BY <1>9 DEF ReadLabels
  <2>5. /\ skipped' \subseteq Threads \X {"rows", "snapshot", "graph"}
        /\ UNCHANGED <<tables, memory, files, restarts, linked, before, overlap>>
    BY <1>9 DEF ReadLabels, Skip, history, Inv, TypeOK, Threads
  <2>6. /\ "register" \in Registering /\ d \in Docs => d \in knowledge
        /\ d \in linked => "register" \in AfterLink
    BY <1>9 DEF ReadLabels, Inv, ReadsStand, Registering, AfterLink, TypeOK
  <2> HIDE DEF new
  <2> QED
    BY <2>2, <2>3, <2>4, <2>5, <2>6, ReadStep DEF Points, Threads
<1>10. ASSUME NEW d \in Docs, Register(d) PROVE Inv'
  <2>1. Return(d, "source")
    BY <1>10 DEF Register
  <2>2. TypeOK /\ "source" \in Points /\ d \in Threads
    BY DEF Inv, Points, Threads
  <2>3. /\ local' \in [Threads -> Local] /\ at' \in [Threads -> Points]
        /\ at'[d] = "source" /\ local'[d].peers = {} /\ local'[d].copy = {}
        /\ local'[d].nodes = {} /\ local'[d].links = {}
        /\ \A u \in Threads \ {d} : local'[u] = local[u] /\ at'[u] = at[u]
    BY <2>1, <2>2, Returned
  <2>4. /\ at[d] = "register" /\ registry' = registry \cup {d}
        /\ labels' = labels \cup local[d].missing
        /\ before' = [before EXCEPT ![d] = registry]
        /\ duplicates' \subseteq duplicates \cup ({d} \X SimilarIn(d, local[d].peers))
        /\ UNCHANGED <<knowledge, edges, memory, files, restarts, linked, skipped, overlap>>
    BY <1>10 DEF Register
  <2>5. d \in knowledge /\ local[d].missing \subseteq Labels
    BY <2>2, <2>4 DEF Inv, TypeOK, Local, ReadsStand, Registering
  <2>a. SimilarIn(d, local[d].peers) \subseteq registry
    BY <2>2 DEF SimilarIn, Inv, ReadsStand
  <2>6. TypeOK'
    BY <2>2, <2>3, <2>4, <2>5, <2>a DEF TypeOK, memory, files
  <2>7. DerivedFromRows'
    BY <2>4, <2>5, <2>a DEF Inv, DerivedFromRows, Endpoints, memory, files
  <2>8. ReadsStand'
    BY <2>3, <2>4 DEF Inv, ReadsStand, Threads, Registering, AfterLink
  <2>9. OneSaw'
    <3>1. RegistryFits' => RegistryFits
      BY <2>4, <2>6, FitBefore
    <3> QED
      BY <2>3, <2>4, <3>1 DEF Inv, OneSaw, Looked, Saw, Threads
  <2> QED
    BY <2>6, <2>7, <2>8, <2>9 DEF Inv
<1>11. ASSUME NEW d \in Docs, Refused(d) PROVE Inv'
  <2> DEFINE new == NoLocals
  <2>2. new \in Local
    BY DEF NoLocals, Local
  <2>3. /\ new.peers \subseteq registry /\ new.copy \subseteq knowledge
        /\ new.nodes \subseteq registry /\ new.links \subseteq edges
    BY DEF NoLocals
  <2>4. Keep(d, new) /\ Goto(d, "source")
    BY <1>11 DEF Refused, Keep, Return
  <2>5. /\ skipped' \subseteq Threads \X {"rows", "snapshot", "graph"}
        /\ UNCHANGED <<tables, memory, files, restarts, linked, before, overlap>>
    BY <1>11 DEF Refused, Skip, history, Inv, TypeOK, Threads
  <2>6. /\ "source" \in Registering /\ d \in Docs => d \in knowledge
        /\ d \in linked => "source" \in AfterLink
    BY <1>11 DEF Refused, Inv, ReadsStand, Registering, AfterLink, TypeOK
  <2> HIDE DEF new
  <2> QED
    BY <2>2, <2>3, <2>4, <2>5, <2>6, ReadStep DEF Points, Threads
<1>12. ASSUME NEW d \in Docs, FindSource(d) PROVE Inv'
  <2>0. PICK rows \in Latest(registry, RowLimit) : Keep(d, [local[d] EXCEPT !.peers = rows])
    BY <1>12 DEF FindSource
  <2> DEFINE new == [local[d] EXCEPT !.peers = rows]
  <2>1. local[d] \in Local /\ d \in Threads
    BY DEF Inv, TypeOK, Threads
  <2>2. /\ new \in Local /\ new.peers = rows /\ new.copy = local[d].copy
        /\ new.nodes = local[d].nodes /\ new.links = local[d].links
    BY <2>1, LatestRows DEF Inv, TypeOK, Local
  <2>3. /\ at[d] = "source" /\ d \in registry /\ Keep(d, new) /\ Goto(d, "link")
        /\ UNCHANGED <<tables, memory, files, restarts, history, overlap>>
    BY <1>12, <2>0 DEF FindSource
  <2> HIDE DEF new
  <2>4. /\ local' \in [Threads -> Local] /\ at' \in [Threads -> Points]
        /\ local'[d] = new /\ at'[d] = "link"
        /\ \A u \in Threads \ {d} : local'[u] = local[u] /\ at'[u] = at[u]
    BY <2>1, <2>2, <2>3 DEF Inv, TypeOK, Keep, Goto, Points
  <2>5. d \notin linked
    BY <2>3 DEF Inv, ReadsStand, AfterLink
  <2>6. TypeOK'
    BY <2>3, <2>4 DEF Inv, TypeOK, tables, memory, files, history
  <2>7. DerivedFromRows'
    BY <2>3 DEF Inv, DerivedFromRows, Endpoints, tables, memory, files
  <2>8. ReadsStand'
    BY <2>2, <2>3, <2>4, <2>5, LatestRows DEF Inv, ReadsStand, Threads, Registering, AfterLink, tables,
       history
  <2>9. OneSaw'
    <3>1. \A e \in Docs \ {d} : (Looked(e)' <=> Looked(e)) /\ \A f \in Docs : Saw(e, f)' <=> Saw(e, f)
      BY <2>3, <2>4 DEF Looked, Saw, Threads, tables, history
    <3>2. \A e \in Docs : Looked(e) => e \in registry
      BY DEF Inv, ReadsStand, Looked
    <3>3. RegistryFits => \A e \in registry : Saw(d, e)'
      BY <2>2, <2>4, LatestRows DEF Saw
    <3>4. RegistryFits' <=> RegistryFits
      BY <2>3 DEF RegistryFits, tables
    <3> QED
      BY <3>1, <3>2, <3>3, <3>4, ConstantsAssumption DEF Inv, OneSaw
  <2> QED
    BY <2>6, <2>7, <2>8, <2>9 DEF Inv
<1>13. ASSUME NEW d \in Docs, SourceMissing(d) PROVE Inv'
  <2> DEFINE new == NoLocals
  <2>2. new \in Local
    BY DEF NoLocals, Local
  <2>3. /\ new.peers \subseteq registry /\ new.copy \subseteq knowledge
        /\ new.nodes \subseteq registry /\ new.links \subseteq edges
    BY DEF NoLocals
  <2>4. Keep(d, new) /\ Goto(d, "index")
    BY <1>13 DEF SourceMissing, Keep, Return
  <2>5. /\ skipped' \subseteq Threads \X {"rows", "snapshot", "graph"}
        /\ UNCHANGED <<tables, memory, files, restarts, linked, before, overlap>>
    BY <1>13 DEF SourceMissing, Skip, history, Inv, TypeOK, Threads
  <2>6. /\ "index" \in Registering /\ d \in Docs => d \in knowledge
        /\ d \in linked => "index" \in AfterLink
    BY <1>13 DEF SourceMissing, Inv, ReadsStand, Registering, AfterLink, TypeOK
  <2> HIDE DEF new
  <2> QED
    BY <2>2, <2>3, <2>4, <2>5, <2>6, ReadStep DEF Points, Threads
<1>14. ASSUME NEW d \in Docs, Link(d) PROVE Inv'
  <2>1. Return(d, "index")
    BY <1>14 DEF Link
  <2>2. TypeOK /\ "index" \in Points /\ d \in Threads
    BY DEF Inv, Points, Threads
  <2>3. /\ local' \in [Threads -> Local] /\ at' \in [Threads -> Points]
        /\ at'[d] = "index" /\ local'[d].peers = {} /\ local'[d].copy = {}
        /\ local'[d].nodes = {} /\ local'[d].links = {}
        /\ \A u \in Threads \ {d} : local'[u] = local[u] /\ at'[u] = at[u]
    BY <2>1, <2>2, Returned
  <2> DEFINE found == {d} \X Targets(d)
  <2>4. /\ at[d] = "link" /\ edges' = {e \in edges : e[1] # d} \cup found
        /\ linked' = linked \cup {d}
        /\ UNCHANGED <<knowledge, registry, labels, duplicates, memory, files,
                       restarts, before, skipped, overlap>>
    BY <1>14 DEF Link
  <2>5. d \in registry /\ d \notin linked /\ local[d].peers \subseteq registry
    BY <2>2, <2>4 DEF Inv, ReadsStand, AfterLink
  <2>6. edges' = edges \cup found
    BY <2>4, <2>5 DEF Inv, ReadsStand
  <2>7. found \subseteq registry \X registry
    <3>1. Targets(d) \subseteq registry
      <4>1. \A p \in duplicates : p[2] \in registry
        BY DEF Inv, DerivedFromRows, Endpoints
      <4>2. Discovered(d, local[d].peers \ {d}) \subseteq registry
        BY <2>5 DEF Discovered, Versions
      <4>3. \A e \in Docs : <<d, e>> \in duplicates => e \in registry
        BY <4>1
      <4> QED
        BY <4>2, <4>3 DEF Targets
    <3> QED
      BY <3>1, <2>5
  <2>8. \A e \in Docs : <<d, e>> \in Related /\ e \in local[d].peers => <<d, e>> \in edges'
    <3>1. \A e \in Docs : <<d, e>> \in Related /\ e \in local[d].peers => e \in Targets(d)
      BY ConstantsAssumption DEF Targets, Discovered
    <3> QED
      BY <2>6, <3>1
  <2>9. \A e, f \in Docs : e # d => (<<e, f>> \in edges' <=> <<e, f>> \in edges)
    BY <2>6
  <2>10. /\ \A e \in found : e[1] = d
         /\ Endpoints(edges' \cup duplicates) \subseteq registry
    BY <2>6, <2>7 DEF Inv, DerivedFromRows, Endpoints
  <2>11. edges' \subseteq Docs \X Docs
    BY <2>6, <2>7 DEF Inv, TypeOK
  <2> HIDE DEF found
  <2>12. TypeOK'
    BY <2>2, <2>3, <2>4, <2>11 DEF TypeOK, memory, files
  <2>13. DerivedFromRows'
    BY <2>4, <2>6, <2>10 DEF Inv, DerivedFromRows, memory, files
  <2>14. ReadsStand'
    BY <2>3, <2>4, <2>5, <2>6, <2>10 DEF Inv, ReadsStand, Threads, Registering, AfterLink
  <2>15. OneSaw'
    <3>1. \A e \in Docs : Looked(e)' <=> Looked(e)
      BY <2>3, <2>4 DEF Looked, Threads
    <3>2. \A e, f \in Docs : <<e, f>> \in Related /\ Saw(e, f) => Saw(e, f)'
      BY <2>3, <2>4, <2>8, <2>9 DEF Saw, Threads
    <3>3. RegistryFits' <=> RegistryFits
      BY <2>4 DEF RegistryFits
    <3> QED
      BY <3>1, <3>2, <3>3 DEF Inv, OneSaw
  <2> QED
    BY <2>12, <2>13, <2>14, <2>15 DEF Inv
<1>15. ASSUME NEW d \in Docs, LinkFails(d) PROVE Inv'
  <2> DEFINE new == NoLocals
  <2>2. new \in Local
    BY DEF NoLocals, Local
  <2>3. /\ new.peers \subseteq registry /\ new.copy \subseteq knowledge
        /\ new.nodes \subseteq registry /\ new.links \subseteq edges
    BY DEF NoLocals
  <2>4. Keep(d, new) /\ Goto(d, "index")
    BY <1>15 DEF LinkFails, Keep, Return
  <2>5. /\ skipped' \subseteq Threads \X {"rows", "snapshot", "graph"}
        /\ UNCHANGED <<tables, memory, files, restarts, linked, before, overlap>>
    BY <1>15 DEF LinkFails, Skip, history, Inv, TypeOK, Threads
  <2>6. /\ "index" \in Registering /\ d \in Docs => d \in knowledge
        /\ d \in linked => "index" \in AfterLink
    BY <1>15 DEF LinkFails, Inv, ReadsStand, Registering, AfterLink, TypeOK
  <2> HIDE DEF new
  <2> QED
    BY <2>2, <2>3, <2>4, <2>5, <2>6, ReadStep DEF Points, Threads
<1>16. ASSUME NEW d \in Docs, Index(d) PROVE Inv'
  BY <1>16 DEF Index, Inv, TypeOK, DerivedFromRows, ReadsStand, OneSaw, RegistryFits, Looked, Saw,
      Registering, AfterLink, Threads, Points, tables, memory, files, history, Goto, Skip
<1>17. ASSUME NEW d \in Docs, KnowledgeMissing(d) PROVE Inv'
  <2> DEFINE new == NoLocals
  <2>2. new \in Local
    BY DEF NoLocals, Local
  <2>3. /\ new.peers \subseteq registry /\ new.copy \subseteq knowledge
        /\ new.nodes \subseteq registry /\ new.links \subseteq edges
    BY DEF NoLocals
  <2>4. Keep(d, new) /\ Goto(d, "entries")
    BY <1>17 DEF KnowledgeMissing, Keep, Return
  <2>5. /\ skipped' \subseteq Threads \X {"rows", "snapshot", "graph"}
        /\ UNCHANGED <<tables, memory, files, restarts, linked, before, overlap>>
    BY <1>17 DEF KnowledgeMissing, Skip, history, Inv, TypeOK, Threads
  <2>6. /\ "entries" \in Registering /\ d \in Docs => d \in knowledge
        /\ d \in linked => "entries" \in AfterLink
    BY <1>17 DEF KnowledgeMissing, Inv, ReadsStand, Registering, AfterLink, TypeOK
  <2> HIDE DEF new
  <2> QED
    BY <2>2, <2>3, <2>4, <2>5, <2>6, ReadStep DEF Points, Threads
<1>18. ASSUME NEW d \in Docs, Serialize(d) PROVE Inv'
  <2> DEFINE new == [local[d] EXCEPT !.copy = indexed]
  <2>1. local[d] \in Local
    BY DEF Inv, TypeOK, Threads
  <2>2. new \in Local
    BY <2>1 DEF Inv, TypeOK, Local
  <2>3. /\ new.peers \subseteq registry /\ new.copy \subseteq knowledge
        /\ new.nodes \subseteq registry /\ new.links \subseteq edges
    BY <2>1 DEF Inv, TypeOK, Local, ReadsStand, DerivedFromRows, Threads
  <2>4. Keep(d, new) /\ Goto(d, "write")
    BY <1>18 DEF Serialize
  <2>5. /\ skipped' \subseteq Threads \X {"rows", "snapshot", "graph"}
        /\ UNCHANGED <<tables, memory, files, restarts, linked, before, overlap>>
    BY <1>18 DEF Serialize, Skip, history, Inv, TypeOK, Threads
  <2>6. /\ "write" \in Registering /\ d \in Docs => d \in knowledge
        /\ d \in linked => "write" \in AfterLink
    BY <1>18 DEF Serialize, Inv, ReadsStand, Registering, AfterLink, TypeOK
  <2> HIDE DEF new
  <2> QED
    BY <2>2, <2>3, <2>4, <2>5, <2>6, ReadStep DEF Points, Threads
<1>19. ASSUME NEW d \in Docs, SerializeFails(d) PROVE Inv'
  <2> DEFINE new == NoLocals
  <2>2. new \in Local
    BY DEF NoLocals, Local
  <2>3. /\ new.peers \subseteq registry /\ new.copy \subseteq knowledge
        /\ new.nodes \subseteq registry /\ new.links \subseteq edges
    BY DEF NoLocals
  <2>4. Keep(d, new) /\ Goto(d, "entries")
    BY <1>19 DEF SerializeFails, Keep, Return
  <2>5. /\ skipped' \subseteq Threads \X {"rows", "snapshot", "graph"}
        /\ UNCHANGED <<tables, memory, files, restarts, linked, before, overlap>>
    BY <1>19 DEF SerializeFails, Skip, history, Inv, TypeOK, Threads
  <2>6. /\ "entries" \in Registering /\ d \in Docs => d \in knowledge
        /\ d \in linked => "entries" \in AfterLink
    BY <1>19 DEF SerializeFails, Inv, ReadsStand, Registering, AfterLink, TypeOK
  <2> HIDE DEF new
  <2> QED
    BY <2>2, <2>3, <2>4, <2>5, <2>6, ReadStep DEF Points, Threads
<1>20. ASSUME NEW d \in Docs, WriteSnapshot(d) PROVE Inv'
  <2>1. Return(d, "entries")
    BY <1>20 DEF WriteSnapshot
  <2>2. TypeOK /\ "entries" \in Points /\ d \in Threads
    BY DEF Inv, Points, Threads
  <2>3. /\ local' \in [Threads -> Local] /\ at' \in [Threads -> Points]
        /\ at'[d] = "entries" /\ local'[d].peers = {} /\ local'[d].copy = {}
        /\ local'[d].nodes = {} /\ local'[d].links = {}
        /\ \A u \in Threads \ {d} : local'[u] = local[u] /\ at'[u] = at[u]
    BY <2>1, <2>2, Returned
  <2>4. local[d].copy \subseteq knowledge
    BY DEF Inv, ReadsStand, Threads
  <2>5. TypeOK'
    BY <1>20, <2>2, <2>3, <2>4 DEF WriteSnapshot, TypeOK, tables, memory, history
  <2>6. DerivedFromRows'
    BY <1>20, <2>4 DEF WriteSnapshot, Inv, DerivedFromRows, Endpoints, tables, memory
  <2>7. ReadsStand'
    BY <1>20, <2>2, <2>3 DEF WriteSnapshot, Inv, ReadsStand, Threads, Registering, AfterLink,
       tables, history
  <2>8. OneSaw'
    BY <1>20, <2>3 DEF WriteSnapshot, Inv, OneSaw, RegistryFits, Looked, Saw, Threads, tables, history
  <2> QED
    BY <2>5, <2>6, <2>7, <2>8 DEF Inv
<1>21. ASSUME NEW q \in Questions, Ask(q) PROVE Inv'
  BY <1>21 DEF Ask, Inv, TypeOK, DerivedFromRows, ReadsStand, OneSaw, RegistryFits, Looked, Saw,
      Registering, AfterLink, Threads, Points, tables, memory, files, history, Goto, Skip
<1>22. ASSUME NEW t \in Threads, ReadEntries(t) PROVE Inv'
  <2>0. PICK rows \in Latest(registry, RowLimit) : Keep(t, [local[t] EXCEPT !.nodes = rows])
    BY <1>22 DEF ReadEntries
  <2> DEFINE new == [local[t] EXCEPT !.nodes = rows]
  <2>1. local[t] \in Local
    BY DEF Inv, TypeOK, Threads
  <2>2. new \in Local
    BY <2>1, LatestRows DEF Inv, TypeOK, Local
  <2>3. /\ new.peers \subseteq registry /\ new.copy \subseteq knowledge
        /\ new.nodes \subseteq registry /\ new.links \subseteq edges
    BY <2>1, LatestRows DEF Inv, TypeOK, Local, ReadsStand, DerivedFromRows, Threads
  <2>4. Keep(t, new) /\ Goto(t, "edges")
    BY <1>22, <2>0 DEF ReadEntries
  <2>5. /\ skipped' \subseteq Threads \X {"rows", "snapshot", "graph"}
        /\ UNCHANGED <<tables, memory, files, restarts, linked, before, overlap>>
    BY <1>22 DEF ReadEntries, Skip, history, Inv, TypeOK, Threads
  <2>6. /\ "edges" \in Registering /\ t \in Docs => t \in knowledge
        /\ t \in linked => "edges" \in AfterLink
    BY <1>22 DEF ReadEntries, Inv, ReadsStand, Registering, AfterLink, TypeOK
  <2> HIDE DEF new
  <2> QED
    BY <2>2, <2>3, <2>4, <2>5, <2>6, ReadStep DEF Points, Threads
<1>23. ASSUME NEW t \in Threads, ReadEdges(t) PROVE Inv'
  <2>0. PICK links \in SUBSET edges : Keep(t, [local[t] EXCEPT !.links = links])
    BY <1>23 DEF ReadEdges
  <2> DEFINE new == [local[t] EXCEPT !.links = links]
  <2>1. local[t] \in Local
    BY DEF Inv, TypeOK, Threads
  <2>2. new \in Local
    BY <2>1, LatestRows DEF Inv, TypeOK, Local
  <2>3. /\ new.peers \subseteq registry /\ new.copy \subseteq knowledge
        /\ new.nodes \subseteq registry /\ new.links \subseteq edges
    BY <2>1, LatestRows DEF Inv, TypeOK, Local, ReadsStand, DerivedFromRows, Threads
  <2>4. Keep(t, new) /\ Goto(t, "replace")
    BY <1>23, <2>0 DEF ReadEdges
  <2>5. /\ skipped' \subseteq Threads \X {"rows", "snapshot", "graph"}
        /\ UNCHANGED <<tables, memory, files, restarts, linked, before, overlap>>
    BY <1>23 DEF ReadEdges, Skip, history, Inv, TypeOK, Threads
  <2>6. /\ "replace" \in Registering /\ t \in Docs => t \in knowledge
        /\ t \in linked => "replace" \in AfterLink
    BY <1>23 DEF ReadEdges, Inv, ReadsStand, Registering, AfterLink, TypeOK
  <2> HIDE DEF new
  <2> QED
    BY <2>2, <2>3, <2>4, <2>5, <2>6, ReadStep DEF Points, Threads
<1>24. ASSUME NEW t \in Threads, ReplaceGraph(t) PROVE Inv'
  <2>1. Return(t, "save")
    BY <1>24 DEF ReplaceGraph
  <2>2. TypeOK /\ "save" \in Points /\ t \in Threads
    BY DEF Inv, Points, Threads
  <2>3. /\ local' \in [Threads -> Local] /\ at' \in [Threads -> Points]
        /\ at'[t] = "save" /\ local'[t].peers = {} /\ local'[t].copy = {}
        /\ local'[t].nodes = {} /\ local'[t].links = {}
        /\ \A u \in Threads \ {t} : local'[u] = local[u] /\ at'[u] = at[u]
    BY <2>1, <2>2, Returned
  <2>4. /\ graph' = [nodes |-> local[t].nodes \cup Endpoints(local[t].links), edges |-> local[t].links]
        /\ UNCHANGED <<tables, indexed, files, restarts, history, overlap>>
        /\ at[t] # "link"
    BY <1>24 DEF ReplaceGraph
  <2>5. local[t].nodes \subseteq registry /\ local[t].links \subseteq edges
    BY <2>2 DEF Inv, ReadsStand
  <2>6. Endpoints(local[t].links) \subseteq Endpoints(edges \cup duplicates)
    BY <2>5 DEF Endpoints
  <2>7. graph'.nodes \subseteq registry /\ graph'.edges \subseteq edges
    BY <2>4, <2>5, <2>6 DEF Inv, DerivedFromRows
  <2>8. TypeOK'
    BY <2>2, <2>3, <2>4, <2>7 DEF TypeOK, tables, files, history
  <2>9. DerivedFromRows'
    BY <2>4, <2>7 DEF Inv, DerivedFromRows, Endpoints, tables, files
  <2>10. ReadsStand'
    BY <2>3, <2>4 DEF Inv, ReadsStand, Threads, Registering, AfterLink, tables, history
  <2>11. OneSaw'
    BY <2>3, <2>4 DEF Inv, OneSaw, RegistryFits, Looked, Saw, Threads, tables, history
  <2> QED
    BY <2>8, <2>9, <2>10, <2>11 DEF Inv
<1>25. ASSUME NEW t \in Threads, SaveGraph(t) PROVE Inv'
  <2>1. Return(t, "done")
    BY <1>25 DEF SaveGraph
  <2>2. TypeOK /\ "done" \in Points /\ t \in Threads
    BY DEF Inv, Points, Threads
  <2>3. /\ local' \in [Threads -> Local] /\ at' \in [Threads -> Points]
        /\ at'[t] = "done" /\ local'[t].peers = {} /\ local'[t].copy = {}
        /\ local'[t].nodes = {} /\ local'[t].links = {}
        /\ \A u \in Threads \ {t} : local'[u] = local[u] /\ at'[u] = at[u]
    BY <2>1, <2>2, Returned
  <2>4. graphFile' = graph /\ UNCHANGED <<tables, memory, snapshot, restarts, history, overlap>>
    BY <1>25 DEF SaveGraph
  <2>5. at[t] # "link"
    BY <1>25 DEF SaveGraph
  <2>6. TypeOK'
    BY <2>2, <2>3, <2>4 DEF TypeOK, tables, memory, history
  <2>7. DerivedFromRows'
    BY <2>4 DEF Inv, DerivedFromRows, Endpoints, tables, memory
  <2>8. ReadsStand'
    BY <2>3, <2>4, <2>5 DEF Inv, ReadsStand, Threads, Registering, AfterLink, tables, history
  <2>9. OneSaw'
    BY <2>3, <2>4, <2>5 DEF Inv, OneSaw, RegistryFits, Looked, Saw, Threads, tables, history
  <2> QED
    BY <2>6, <2>7, <2>8, <2>9 DEF Inv
<1>26. ASSUME NEW t \in Threads, GraphFails(t) PROVE Inv'
  <2> DEFINE new == NoLocals
  <2>2. new \in Local
    BY DEF NoLocals, Local
  <2>3. /\ new.peers \subseteq registry /\ new.copy \subseteq knowledge
        /\ new.nodes \subseteq registry /\ new.links \subseteq edges
    BY DEF NoLocals
  <2>4. Keep(t, new) /\ Goto(t, "done")
    BY <1>26 DEF GraphFails, Keep, Return
  <2>5. /\ skipped' \subseteq Threads \X {"rows", "snapshot", "graph"}
        /\ UNCHANGED <<tables, memory, files, restarts, linked, before, overlap>>
    BY <1>26 DEF GraphFails, Skip, history, Inv, TypeOK, Threads
  <2>6. /\ "done" \in Registering /\ t \in Docs => t \in knowledge
        /\ t \in linked => "done" \in AfterLink
    BY <1>26 DEF GraphFails, Inv, ReadsStand, Registering, AfterLink, TypeOK
  <2> HIDE DEF new
  <2> QED
    BY <2>2, <2>3, <2>4, <2>5, <2>6, ReadStep DEF Points, Threads
<1>30. CASE Restart
  <2>1. /\ local' = [t \in Threads |-> NoLocals]
        /\ at' = [t \in Threads |-> IF at[t] = "idle" \/ t \in Questions THEN "idle" ELSE "done"]
        /\ indexed' = {} /\ graph' = NoGraph /\ restarts' = restarts + 1 /\ restarts < MaxRestarts
        /\ skipped' = skipped \cup (Running \X {"rows", "snapshot", "graph"})
        /\ UNCHANGED <<tables, files, linked, before, overlap>>
    BY <1>30 DEF Restart
  <2>2. /\ local' \in [Threads -> Local]
        /\ \A t \in Threads : /\ local'[t].peers = {} /\ local'[t].copy = {}
                              /\ local'[t].nodes = {} /\ local'[t].links = {}
    BY <2>1 DEF NoLocals, Local
  <2>3. /\ at' \in [Threads -> Points]
        /\ \A d \in Docs : at'[d] = IF at[d] = "idle" THEN "idle" ELSE "done"
    BY <2>1 DEF Threads, Points
  <2>4. graph'.nodes = {} /\ graph'.edges = {}
    BY <2>1 DEF NoGraph
  <2>5. TypeOK'
    <3>1. Running \subseteq Threads
      BY DEF Running
    <3>2. skipped' \subseteq Threads \X {"rows", "snapshot", "graph"}
      BY <2>1, <3>1 DEF Inv, TypeOK
    <3>3. restarts' \in 0..MaxRestarts
      BY <2>1 DEF Inv, TypeOK
    <3> QED
      BY <2>1, <2>2, <2>3, <2>4, <3>2, <3>3 DEF Inv, TypeOK, tables, files
  <2>6. DerivedFromRows'
    BY <2>1, <2>4 DEF Inv, DerivedFromRows, Endpoints, tables, files
  <2>7. ReadsStand'
    BY <2>1, <2>2, <2>3 DEF Inv, ReadsStand, Registering, AfterLink, tables
  <2>8. OneSaw'
    <3>1. \A d \in Docs : Looked(d)' => d \in linked /\ at[d] # "link"
      BY <2>1, <2>3 DEF Inv, ReadsStand, Looked, AfterLink
    <3>2. \A d, e \in Docs : d \in linked => (Saw(d, e)' <=> Saw(d, e))
      BY <2>1, <2>3 DEF Inv, ReadsStand, AfterLink, Saw, tables
    <3> QED
      BY <2>1, <3>1, <3>2 DEF Inv, OneSaw, RegistryFits, Looked, tables
  <2> QED
    BY <2>5, <2>6, <2>7, <2>8 DEF Inv
<1>31. CASE UNCHANGED vars
  BY <1>31 DEF vars, Inv, TypeOK, DerivedFromRows, Endpoints, ReadsStand, OneSaw, RegistryFits, Looked, Saw,
      tables, memory, files, history
<1> QED
  BY <1>1, <1>2, <1>3, <1>4, <1>5, <1>6, <1>7, <1>8, <1>9, <1>10, <1>11, <1>12, <1>13,
     <1>14, <1>15, <1>16, <1>17, <1>18, <1>19, <1>20, <1>21, <1>22, <1>23, <1>24, <1>25, <1>26,
     <1>30, <1>31
  DEF Next, Engine, Relationships, KnowledgeIndex, RebuildGraph

(***************************************************************************)
(* Type correctness and the invariant above, in every reachable state.     *)
(***************************************************************************)
THEOREM Invariance == Spec => []Inv
  BY Initially, Inductive, PTL DEF Spec

(***************************************************************************)
(* No table, memory or file holds anything derived without the rows it is  *)
(* derived from (knowledge_*/shadow.py).                                   *)
(***************************************************************************)
THEOREM DerivedHasRows == Spec => []DerivedFromRows
<1>1. Inv => DerivedFromRows
  BY DEF Inv
<1> QED
  BY <1>1, Invariance, PTL

(***************************************************************************)
(* Related documents end up linked, whichever order their pipelines read   *)
(* and commit in (ShadowRelationshipService.process_document_id), as long  *)
(* as the registry fits the limit of the query (peers_as_entries).         *)
(***************************************************************************)
THEOREM RelatedGetLinked == Spec => []RelatedAreLinked
<1>1. Inv => RelatedAreLinked
  <2> SUFFICES ASSUME Inv, RegistryFits, NEW d \in linked, NEW e \in linked, <<d, e>> \in Related
               PROVE  <<d, e>> \in edges \/ <<e, d>> \in edges
    BY DEF RelatedAreLinked
  <2>1. d \in Docs /\ e \in Docs
    BY DEF Inv, TypeOK
  <2>2. at[d] # "link" /\ at[e] # "link"
    BY <2>1 DEF Inv, ReadsStand, AfterLink
  <2> QED
    BY <2>1, <2>2 DEF Inv, OneSaw, Looked, Saw
<1> QED
  BY <1>1, Invariance, PTL

-----------------------------------------------------------------------------
(***************************************************************************)
(* Pipelines that do not overlap. Each step then finds what the last one   *)
(* of its own thread left, and a finished document stays complete: what    *)
(* comes after it adds rows, and replaces the snapshot and the graph by    *)
(* larger ones.                                                            *)
(***************************************************************************)
(* A document whose pipeline has not committed its registry row has none,  *)
(* and is no duplicate of another either.                                  *)
BeforeRegistry == {"idle", "load", "store", "seed", "seeding", "peers", "labels", "register"}
Unregistered ==
    \A d \in Docs :
        at[d] \in BeforeRegistry => d \notin registry /\ \A e \in Docs : <<d, e>> \notin duplicates

(* No handler of the document has failed or was cut off.                   *)
Unharmed(d) == \A s \in skipped : s[1] # d

(* One thread at most is under way.                                        *)
OneRuns ==
    \A t, u \in Threads :
        at[t] \notin {"idle", "done"} /\ t # u => at[u] \in {"idle", "done"}

(* What a handler has read is what the tables and the memory hold when it  *)
(* writes.                                                                 *)
ReadsCurrent(t) ==
    /\ at[t] \in {"labels", "register"} => local[t].peers = registry \ {t}
    /\ at[t] = "link" => local[t].peers = registry
    /\ at[t] = "write" => local[t].copy = indexed
    /\ at[t] \in {"edges", "replace"} => local[t].nodes = registry
    /\ at[t] = "replace" => local[t].links = edges

(* The rows of a document, from the point where each has been committed:   *)
(* the mark and the relationships come from two reads of the registry,     *)
(* with nothing between them.                                              *)
Marked(d) == SimilarIn(d, before[d]) # {} <=> \E e \in before[d] : <<d, e>> \in duplicates
RowsComplete(d) ==
    /\ at[d] \in {"source", "link"} /\ Unharmed(d) =>
           d \in registry /\ registry \ {d} = before[d] /\ Marked(d)
    /\ at[d] \in AfterLink /\ Unharmed(d) =>
           /\ d \in registry /\ d \in linked /\ Marked(d)
           /\ {e \in Docs : <<d, e>> \in edges} = Discovered(d, before[d])

(* Index, index file and graph, from the point where each has been         *)
(* written. A restart empties the first and the last; the graph comes back *)
(* whole or not at all.                                                    *)
MemoryComplete(d) ==
    Unharmed(d) =>
        /\ restarts = 0 /\ at[d] \in AfterLink \ {"index"} => d \in indexed
        /\ restarts = 0 /\ at[d] \in AfterLink \ {"index", "serialize", "write"} => d \in snapshot
        /\ at[d] \in {"save", "done"} => graph = NoGraph \/ d \in graph.nodes

(* While nobody is rebuilding the graph, it is empty or shows the tables.  *)
GraphCurrent ==
    (/\ \A s \in skipped : s[2] # "graph"
     /\ \A t \in Threads : at[t] \in {"idle", "done", "save"}) =>
        graph = NoGraph \/ graph = [nodes |-> registry, edges |-> edges]

(* The inductive invariant, beside Inv.                                    *)
Usual == ~overlap /\ WithinLimits
Alone ==
    Usual =>
        /\ OneRuns
        /\ \A t \in Threads : ReadsCurrent(t)
        /\ \A d \in Docs : RowsComplete(d) /\ MemoryComplete(d)
        /\ GraphCurrent
AloneInv == Unregistered /\ Alone

(* Nothing is under way at the start.                                      *)
LEMMA AloneInit == Init => AloneInv
  BY ConstantsAssumption DEF Init, AloneInv, Unregistered, Alone, OneRuns, ReadsCurrent,
     RowsComplete, MemoryComplete, GraphCurrent, AfterLink, Threads, NoGraph

(* A handler that runs alone leaves what is said of every other thread:    *)
(* those are idle or done, and rows only come to be. What is left to prove *)
(* of a step is what it does for its own document, and to the graph.       *)
LEMMA OthersUnmoved ==
  ASSUME Inv, Alone, Usual, NEW t \in Threads, NEW p \in Points \ {"idle"},
         at[t] \notin {"idle", "done"}, Goto(t, p),
         skipped \subseteq skipped',
         registry \subseteq registry', linked \subseteq linked',
         \A d \in Docs \ {t} : before'[d] = before[d],
         \A d, e \in Docs : d # t => (<<d, e>> \in duplicates' <=> <<d, e>> \in duplicates),
         \A d, e \in Docs : d # t => (<<d, e>> \in edges' <=> <<d, e>> \in edges),
         indexed \subseteq indexed', snapshot' = snapshot \/ snapshot' = indexed,
         restarts' = restarts,
         graph' = graph \/ registry \subseteq graph'.nodes,
         ReadsCurrent(t)', t \in Docs => RowsComplete(t)' /\ MemoryComplete(t)',
         p \in {"save", "done"} => GraphCurrent'
  PROVE  Alone'
<1>1. at' \in [Threads -> Points] /\ at'[t] = p /\ \A u \in Threads \ {t} : at'[u] = at[u]
  BY DEF Inv, TypeOK, Goto
<1>2. \A u \in Threads \ {t} : at[u] \in {"idle", "done"}
  BY DEF Alone, OneRuns
<1>3. OneRuns'
  BY <1>1, <1>2 DEF OneRuns
<1>4. \A u \in Threads : ReadsCurrent(u)'
  BY <1>1, <1>2 DEF ReadsCurrent
<1>5. ASSUME NEW d \in Docs, d # t
      PROVE  RowsComplete(d)' /\ MemoryComplete(d)'
  <2>1. at'[d] = at[d] /\ at[d] \in {"idle", "done"} /\ d \in Threads
    BY <1>1, <1>2, <1>5 DEF Threads
  <2>2. Unharmed(d)' => Unharmed(d)
    BY DEF Unharmed
  <2>3. RowsComplete(d) /\ MemoryComplete(d)
    BY DEF Alone
  <2>4. RowsComplete(d)'
    <3>1. before'[d] = before[d] /\ before[d] \subseteq Docs
      BY <1>5 DEF Inv, TypeOK
    <3>2. Marked(d)' <=> Marked(d)
      BY <1>5, <3>1 DEF Marked
    <3>3. {e \in Docs : <<d, e>> \in edges}' = {e \in Docs : <<d, e>> \in edges}
      BY <1>5
    <3> QED
      BY <1>5, <2>1, <2>2, <2>3, <3>1, <3>2, <3>3 DEF RowsComplete, AfterLink
  <2>5. MemoryComplete(d)'
    BY <1>5, <2>1, <2>2, <2>3 DEF MemoryComplete, RowsComplete, AfterLink
  <2> QED
    BY <2>4, <2>5
<1>6. GraphCurrent'
  <2>1. CASE p \in {"save", "done"}
    BY <2>1
  <2>2. CASE p \notin {"save", "done"}
    BY <1>1, <2>2 DEF GraphCurrent
  <2> QED
    BY <2>1, <2>2
<1> QED
  BY <1>3, <1>4, <1>5, <1>6 DEF Alone

(* Every step keeps it: a handler by the lemma above; an announcement and  *)
(* a question only when nothing else runs, or they overlap; a restart      *)
(* skips what it cuts off.                                                 *)
LEMMA AloneStep == Inv /\ AloneInv /\ [Next]_vars => AloneInv'
<1> SUFFICES ASSUME Inv, AloneInv, [Next]_vars PROVE AloneInv'
  OBVIOUS
<1> USE ConstantsAssumption DEF tables, memory, files, history
<1>1. ASSUME NEW d \in Docs, Load(d), Usual PROVE Alone'
  <2>1. d \in Threads /\ local[d] \in Local /\ ReadsCurrent(d) /\ at[d] \notin {"idle", "done"}
        /\ (d \in Docs => RowsComplete(d) /\ MemoryComplete(d))
    BY <1>1 DEF Load, Inv, TypeOK, Threads, AloneInv, Alone
  <2>2. Goto(d, "store")
    BY <1>1 DEF Load
  <2>3. at'[d] = "store"
    BY <2>1, <2>2 DEF Goto, Inv, TypeOK
  <2>4. /\ skipped \subseteq skipped' /\ registry \subseteq registry' /\ linked \subseteq linked'
        /\ \A e \in Docs \ {d} : before'[e] = before[e]
        /\ \A e, f \in Docs : e # d => (<<e, f>> \in duplicates' <=> <<e, f>> \in duplicates)
        /\ \A e, f \in Docs : e # d => (<<e, f>> \in edges' <=> <<e, f>> \in edges)
        /\ indexed \subseteq indexed' /\ (snapshot' = snapshot \/ snapshot' = indexed)
        /\ restarts' = restarts /\ overlap' = overlap
        /\ graph' = graph \/ registry \subseteq graph'.nodes
    BY <1>1, <2>1 DEF Load, Skip
  <2>6. ReadsCurrent(d)'
    BY <2>2, <2>3 DEF ReadsCurrent
  <2>7. Unharmed(d)' <=> Unharmed(d)
    BY <1>1 DEF Load, Unharmed
  <2>8. d \in Docs => RowsComplete(d)' /\ MemoryComplete(d)'
    BY <1>1, <2>1, <2>3, <2>7 DEF Load, RowsComplete, Marked, MemoryComplete, AfterLink
  <2> QED
    BY <1>1, <2>1, <2>2, <2>3, <2>4, <2>6, <2>8, OthersUnmoved DEF AloneInv, Points
<1>29. ASSUME NEW d \in Docs, LoadDeleted(d), Usual PROVE Alone'
  <2>1. d \in Threads /\ local[d] \in Local /\ ReadsCurrent(d) /\ at[d] \notin {"idle", "done"}
        /\ (d \in Docs => RowsComplete(d) /\ MemoryComplete(d))
    BY <1>29 DEF LoadDeleted, Inv, TypeOK, Threads, AloneInv, Alone
  <2>2. Goto(d, "source")
    BY <1>29 DEF LoadDeleted
  <2>3. at'[d] = "source"
    BY <2>1, <2>2 DEF Goto, Inv, TypeOK
  <2>4. /\ skipped \subseteq skipped' /\ registry \subseteq registry' /\ linked \subseteq linked'
        /\ \A e \in Docs \ {d} : before'[e] = before[e]
        /\ \A e, f \in Docs : e # d => (<<e, f>> \in duplicates' <=> <<e, f>> \in duplicates)
        /\ \A e, f \in Docs : e # d => (<<e, f>> \in edges' <=> <<e, f>> \in edges)
        /\ indexed \subseteq indexed' /\ (snapshot' = snapshot \/ snapshot' = indexed)
        /\ restarts' = restarts /\ overlap' = overlap
        /\ graph' = graph \/ registry \subseteq graph'.nodes
    BY <1>29, <2>1 DEF LoadDeleted, Skip
  <2>6. ReadsCurrent(d)'
    BY <2>2, <2>3 DEF ReadsCurrent
  <2>7. ~Unharmed(d)'
    <3>1. <<d, "rows">> \in skipped'
      BY <1>29 DEF LoadDeleted, Skip
    <3> QED
      BY <3>1 DEF Unharmed
  <2>8. d \in Docs => RowsComplete(d)' /\ MemoryComplete(d)'
    BY <2>2, <2>3, <2>7 DEF RowsComplete, Marked, MemoryComplete, AfterLink
  <2> QED
    BY <1>29, <2>1, <2>2, <2>3, <2>4, <2>6, <2>8, OthersUnmoved DEF AloneInv, Points
<1>2. ASSUME NEW d \in Docs, StoreKnowledge(d), Usual PROVE Alone'
  <2>1. d \in Threads /\ local[d] \in Local /\ ReadsCurrent(d) /\ at[d] \notin {"idle", "done"}
        /\ (d \in Docs => RowsComplete(d) /\ MemoryComplete(d))
    BY <1>2 DEF StoreKnowledge, Inv, TypeOK, Threads, AloneInv, Alone
  <2>2. Goto(d, "seed")
    BY <1>2 DEF StoreKnowledge
  <2>3. at'[d] = "seed"
    BY <2>1, <2>2 DEF Goto, Inv, TypeOK
  <2>4. /\ skipped \subseteq skipped' /\ registry \subseteq registry' /\ linked \subseteq linked'
        /\ \A e \in Docs \ {d} : before'[e] = before[e]
        /\ \A e, f \in Docs : e # d => (<<e, f>> \in duplicates' <=> <<e, f>> \in duplicates)
        /\ \A e, f \in Docs : e # d => (<<e, f>> \in edges' <=> <<e, f>> \in edges)
        /\ indexed \subseteq indexed' /\ (snapshot' = snapshot \/ snapshot' = indexed)
        /\ restarts' = restarts /\ overlap' = overlap
        /\ graph' = graph \/ registry \subseteq graph'.nodes
    BY <1>2, <2>1 DEF StoreKnowledge, Skip
  <2>6. ReadsCurrent(d)'
    BY <2>2, <2>3 DEF ReadsCurrent
  <2>7. Unharmed(d)' <=> Unharmed(d)
    BY <1>2 DEF StoreKnowledge, Unharmed
  <2>8. d \in Docs => RowsComplete(d)' /\ MemoryComplete(d)'
    BY <1>2, <2>1, <2>3, <2>7 DEF StoreKnowledge, RowsComplete, Marked, MemoryComplete, AfterLink
  <2> QED
    BY <1>2, <2>1, <2>2, <2>3, <2>4, <2>6, <2>8, OthersUnmoved DEF AloneInv, Points
<1>3. ASSUME NEW d \in Docs, StoreFails(d), Usual PROVE Alone'
  <2>1. d \in Threads /\ local[d] \in Local /\ ReadsCurrent(d) /\ at[d] \notin {"idle", "done"}
        /\ (d \in Docs => RowsComplete(d) /\ MemoryComplete(d))
    BY <1>3 DEF StoreFails, Inv, TypeOK, Threads, AloneInv, Alone
  <2>2. Goto(d, "source")
    BY <1>3 DEF StoreFails
  <2>3. at'[d] = "source"
    BY <2>1, <2>2 DEF Goto, Inv, TypeOK
  <2>4. /\ skipped \subseteq skipped' /\ registry \subseteq registry' /\ linked \subseteq linked'
        /\ \A e \in Docs \ {d} : before'[e] = before[e]
        /\ \A e, f \in Docs : e # d => (<<e, f>> \in duplicates' <=> <<e, f>> \in duplicates)
        /\ \A e, f \in Docs : e # d => (<<e, f>> \in edges' <=> <<e, f>> \in edges)
        /\ indexed \subseteq indexed' /\ (snapshot' = snapshot \/ snapshot' = indexed)
        /\ restarts' = restarts /\ overlap' = overlap
        /\ graph' = graph \/ registry \subseteq graph'.nodes
    BY <1>3, <2>1 DEF StoreFails, Skip
  <2>6. ReadsCurrent(d)'
    BY <2>2, <2>3 DEF ReadsCurrent
  <2>7. ~Unharmed(d)'
    <3>1. <<d, "rows">> \in skipped'
      BY <1>3 DEF StoreFails, Skip
    <3> QED
      BY <3>1 DEF Unharmed
  <2>8. d \in Docs => RowsComplete(d)' /\ MemoryComplete(d)'
    BY <2>2, <2>3, <2>7 DEF RowsComplete, Marked, MemoryComplete, AfterLink
  <2> QED
    BY <1>3, <2>1, <2>2, <2>3, <2>4, <2>6, <2>8, OthersUnmoved DEF AloneInv, Points
<1>4. ASSUME NEW d \in Docs, ReadSeed(d), Usual PROVE Alone'
  <2>1. d \in Threads /\ local[d] \in Local /\ ReadsCurrent(d) /\ at[d] \notin {"idle", "done"}
        /\ (d \in Docs => RowsComplete(d) /\ MemoryComplete(d))
    BY <1>4 DEF ReadSeed, Inv, TypeOK, Threads, AloneInv, Alone
  <2>2. Goto(d, "seeding")
    BY <1>4 DEF ReadSeed
  <2>3. at'[d] = "seeding"
    BY <2>1, <2>2 DEF Goto, Inv, TypeOK
  <2>4. /\ skipped \subseteq skipped' /\ registry \subseteq registry' /\ linked \subseteq linked'
        /\ \A e \in Docs \ {d} : before'[e] = before[e]
        /\ \A e, f \in Docs : e # d => (<<e, f>> \in duplicates' <=> <<e, f>> \in duplicates)
        /\ \A e, f \in Docs : e # d => (<<e, f>> \in edges' <=> <<e, f>> \in edges)
        /\ indexed \subseteq indexed' /\ (snapshot' = snapshot \/ snapshot' = indexed)
        /\ restarts' = restarts /\ overlap' = overlap
        /\ graph' = graph \/ registry \subseteq graph'.nodes
    BY <1>4, <2>1 DEF ReadSeed, Skip
  <2>5. local'[d] = [local[d] EXCEPT !.missing = Missing({Seed})]
    BY <1>4, <2>1 DEF ReadSeed, Keep, Inv, TypeOK
  <2>6. ReadsCurrent(d)'
    BY <1>4, <2>1, <2>3, <2>5 DEF ReadSeed, ReadsCurrent, Local
  <2>7. Unharmed(d)' <=> Unharmed(d)
    BY <1>4 DEF ReadSeed, Unharmed
  <2>8. d \in Docs => RowsComplete(d)' /\ MemoryComplete(d)'
    BY <1>4, <2>1, <2>3, <2>7 DEF ReadSeed, RowsComplete, Marked, MemoryComplete, AfterLink
  <2> QED
    BY <1>4, <2>1, <2>2, <2>3, <2>4, <2>6, <2>8, OthersUnmoved DEF AloneInv, Points
<1>5. ASSUME NEW d \in Docs, CommitSeed(d), Usual PROVE Alone'
  <2>1. d \in Threads /\ local[d] \in Local /\ ReadsCurrent(d) /\ at[d] \notin {"idle", "done"}
        /\ (d \in Docs => RowsComplete(d) /\ MemoryComplete(d))
    BY <1>5 DEF CommitSeed, Inv, TypeOK, Threads, AloneInv, Alone
  <2>2. Goto(d, "peers")
    BY <1>5 DEF CommitSeed
  <2>3. at'[d] = "peers"
    BY <2>1, <2>2 DEF Goto, Inv, TypeOK
  <2>4. /\ skipped \subseteq skipped' /\ registry \subseteq registry' /\ linked \subseteq linked'
        /\ \A e \in Docs \ {d} : before'[e] = before[e]
        /\ \A e, f \in Docs : e # d => (<<e, f>> \in duplicates' <=> <<e, f>> \in duplicates)
        /\ \A e, f \in Docs : e # d => (<<e, f>> \in edges' <=> <<e, f>> \in edges)
        /\ indexed \subseteq indexed' /\ (snapshot' = snapshot \/ snapshot' = indexed)
        /\ restarts' = restarts /\ overlap' = overlap
        /\ graph' = graph \/ registry \subseteq graph'.nodes
    BY <1>5, <2>1 DEF CommitSeed, Skip
  <2>6. ReadsCurrent(d)'
    BY <2>2, <2>3 DEF ReadsCurrent
  <2>7. Unharmed(d)' <=> Unharmed(d)
    BY <1>5 DEF CommitSeed, Unharmed
  <2>8. d \in Docs => RowsComplete(d)' /\ MemoryComplete(d)'
    BY <1>5, <2>1, <2>3, <2>7 DEF CommitSeed, RowsComplete, Marked, MemoryComplete, AfterLink
  <2> QED
    BY <1>5, <2>1, <2>2, <2>3, <2>4, <2>6, <2>8, OthersUnmoved DEF AloneInv, Points
<1>6. ASSUME NEW d \in Docs, ReadPeers(d), Usual PROVE Alone'
  <2>1. d \in Threads /\ local[d] \in Local /\ ReadsCurrent(d) /\ at[d] \notin {"idle", "done"}
        /\ (d \in Docs => RowsComplete(d) /\ MemoryComplete(d))
    BY <1>6 DEF ReadPeers, Inv, TypeOK, Threads, AloneInv, Alone
  <2>2. Goto(d, "labels")
    BY <1>6 DEF ReadPeers
  <2>3. at'[d] = "labels"
    BY <2>1, <2>2 DEF Goto, Inv, TypeOK
  <2>4. /\ skipped \subseteq skipped' /\ registry \subseteq registry' /\ linked \subseteq linked'
        /\ \A e \in Docs \ {d} : before'[e] = before[e]
        /\ \A e, f \in Docs : e # d => (<<e, f>> \in duplicates' <=> <<e, f>> \in duplicates)
        /\ \A e, f \in Docs : e # d => (<<e, f>> \in edges' <=> <<e, f>> \in edges)
        /\ indexed \subseteq indexed' /\ (snapshot' = snapshot \/ snapshot' = indexed)
        /\ restarts' = restarts /\ overlap' = overlap
        /\ graph' = graph \/ registry \subseteq graph'.nodes
    BY <1>6, <2>1 DEF ReadPeers, Skip
  <2>5. local'[d] = [local[d] EXCEPT !.peers = registry \ {d}]
    BY <1>6, <2>1, LatestRows DEF ReadPeers, Keep, Inv, TypeOK, Usual, WithinLimits
  <2>6. ReadsCurrent(d)'
    BY <1>6, <2>1, <2>3, <2>5 DEF ReadPeers, ReadsCurrent, Local
  <2>7. Unharmed(d)' <=> Unharmed(d)
    BY <1>6 DEF ReadPeers, Unharmed
  <2>8. d \in Docs => RowsComplete(d)' /\ MemoryComplete(d)'
    BY <1>6, <2>1, <2>3, <2>7 DEF ReadPeers, RowsComplete, Marked, MemoryComplete, AfterLink
  <2> QED
    BY <1>6, <2>1, <2>2, <2>3, <2>4, <2>6, <2>8, OthersUnmoved DEF AloneInv, Points
<1>7. ASSUME NEW d \in Docs, ReadLabels(d), Usual PROVE Alone'
  <2>1. d \in Threads /\ local[d] \in Local /\ ReadsCurrent(d) /\ at[d] \notin {"idle", "done"}
        /\ (d \in Docs => RowsComplete(d) /\ MemoryComplete(d))
    BY <1>7 DEF ReadLabels, Inv, TypeOK, Threads, AloneInv, Alone
  <2>2. Goto(d, "register")
    BY <1>7 DEF ReadLabels
  <2>3. at'[d] = "register"
    BY <2>1, <2>2 DEF Goto, Inv, TypeOK
  <2>4. /\ skipped \subseteq skipped' /\ registry \subseteq registry' /\ linked \subseteq linked'
        /\ \A e \in Docs \ {d} : before'[e] = before[e]
        /\ \A e, f \in Docs : e # d => (<<e, f>> \in duplicates' <=> <<e, f>> \in duplicates)
        /\ \A e, f \in Docs : e # d => (<<e, f>> \in edges' <=> <<e, f>> \in edges)
        /\ indexed \subseteq indexed' /\ (snapshot' = snapshot \/ snapshot' = indexed)
        /\ restarts' = restarts /\ overlap' = overlap
        /\ graph' = graph \/ registry \subseteq graph'.nodes
    BY <1>7, <2>1 DEF ReadLabels, Skip
  <2>5. local'[d] = [local[d] EXCEPT !.missing = Missing(LabelsOf[d])]
    BY <1>7, <2>1 DEF ReadLabels, Keep, Inv, TypeOK
  <2>6. ReadsCurrent(d)'
    BY <1>7, <2>1, <2>3, <2>5 DEF ReadLabels, ReadsCurrent, Local
  <2>7. Unharmed(d)' <=> Unharmed(d)
    BY <1>7 DEF ReadLabels, Unharmed
  <2>8. d \in Docs => RowsComplete(d)' /\ MemoryComplete(d)'
    BY <1>7, <2>1, <2>3, <2>7 DEF ReadLabels, RowsComplete, Marked, MemoryComplete, AfterLink
  <2> QED
    BY <1>7, <2>1, <2>2, <2>3, <2>4, <2>6, <2>8, OthersUnmoved DEF AloneInv, Points
<1>8. ASSUME NEW d \in Docs, Register(d), Usual PROVE Alone'
  <2>1. d \in Threads /\ local[d] \in Local /\ ReadsCurrent(d) /\ at[d] \notin {"idle", "done"}
        /\ (d \in Docs => RowsComplete(d) /\ MemoryComplete(d))
    BY <1>8 DEF Register, Inv, TypeOK, Threads, AloneInv, Alone
  <2>2. Goto(d, "source")
    BY <1>8 DEF Register, Return
  <2>3. at'[d] = "source"
    BY <2>1, <2>2 DEF Goto, Inv, TypeOK
  <2>4. /\ skipped \subseteq skipped' /\ registry \subseteq registry' /\ linked \subseteq linked'
        /\ \A e \in Docs \ {d} : before'[e] = before[e]
        /\ \A e, f \in Docs : e # d => (<<e, f>> \in duplicates' <=> <<e, f>> \in duplicates)
        /\ \A e, f \in Docs : e # d => (<<e, f>> \in edges' <=> <<e, f>> \in edges)
        /\ indexed \subseteq indexed' /\ (snapshot' = snapshot \/ snapshot' = indexed)
        /\ restarts' = restarts /\ overlap' = overlap
        /\ graph' = graph \/ registry \subseteq graph'.nodes
    BY <1>8, <2>1 DEF Register, Skip
  <2>6. ReadsCurrent(d)'
    BY <2>2, <2>3 DEF ReadsCurrent
  <2>7. Unharmed(d)' <=> Unharmed(d)
    BY <1>8 DEF Register, Unharmed
  <2>8. d \in Docs => RowsComplete(d)' /\ MemoryComplete(d)'
    <3> DEFINE similar == SimilarIn(d, local[d].peers)
    <3>1. /\ registry' = registry \cup {d} /\ d \notin registry /\ at[d] = "register"
          /\ \A e \in Docs : <<d, e>> \notin duplicates
          /\ before' = [before EXCEPT ![d] = registry]
          /\ \/ similar = {} /\ duplicates' = duplicates
             \/ \E e \in similar : duplicates' = duplicates \cup {<<d, e>>}
      BY <1>8 DEF Register, AloneInv, Unregistered, BeforeRegistry
    <3>2. /\ local[d].peers = registry /\ similar \subseteq registry /\ registry \subseteq Docs
          /\ before'[d] = registry /\ SimilarIn(d, registry) = similar
      <4>1. local[d].peers = registry /\ before'[d] = registry /\ registry \subseteq Docs
        <5>1. local[d].peers = registry \ {d}
          BY <2>1, <3>1 DEF ReadsCurrent
        <5>2. registry \ {d} = registry
          BY <3>1
        <5> QED
          BY <3>1, <5>1, <5>2 DEF Inv, TypeOK
      <4>2. similar \subseteq local[d].peers
        BY DEF SimilarIn
      <4> QED
        BY <4>1, <4>2
    <3> HIDE DEF similar
    <3>3. similar # {} <=> \E e \in registry : <<d, e>> \in duplicates'
      BY <3>1, <3>2
    <3>4. SimilarIn(d, before[d])' = similar
      BY <3>2 DEF SimilarIn
    <3>5. Marked(d)'
      BY <3>2, <3>3, <3>4 DEF Marked
    <3>6. registry' \ {d} = before'[d] /\ d \in registry'
      BY <3>1, <3>2
    <3> QED
      BY <2>3, <3>5, <3>6 DEF RowsComplete, Marked, MemoryComplete, AfterLink
  <2> QED
    BY <1>8, <2>1, <2>2, <2>3, <2>4, <2>6, <2>8, OthersUnmoved DEF AloneInv, Points
<1>9. ASSUME NEW d \in Docs, Refused(d), Usual PROVE Alone'
  <2>1. d \in Threads /\ local[d] \in Local /\ ReadsCurrent(d) /\ at[d] \notin {"idle", "done"}
        /\ (d \in Docs => RowsComplete(d) /\ MemoryComplete(d))
    BY <1>9 DEF Refused, Inv, TypeOK, Threads, AloneInv, Alone
  <2>2. Goto(d, "source")
    BY <1>9 DEF Refused, Return
  <2>3. at'[d] = "source"
    BY <2>1, <2>2 DEF Goto, Inv, TypeOK
  <2>4. /\ skipped \subseteq skipped' /\ registry \subseteq registry' /\ linked \subseteq linked'
        /\ \A e \in Docs \ {d} : before'[e] = before[e]
        /\ \A e, f \in Docs : e # d => (<<e, f>> \in duplicates' <=> <<e, f>> \in duplicates)
        /\ \A e, f \in Docs : e # d => (<<e, f>> \in edges' <=> <<e, f>> \in edges)
        /\ indexed \subseteq indexed' /\ (snapshot' = snapshot \/ snapshot' = indexed)
        /\ restarts' = restarts /\ overlap' = overlap
        /\ graph' = graph \/ registry \subseteq graph'.nodes
    BY <1>9, <2>1 DEF Refused, Skip
  <2>6. ReadsCurrent(d)'
    BY <2>2, <2>3 DEF ReadsCurrent
  <2>7. ~Unharmed(d)'
    <3>1. <<d, "rows">> \in skipped'
      BY <1>9 DEF Refused, Skip
    <3> QED
      BY <3>1 DEF Unharmed
  <2>8. d \in Docs => RowsComplete(d)' /\ MemoryComplete(d)'
    BY <2>2, <2>3, <2>7 DEF RowsComplete, Marked, MemoryComplete, AfterLink
  <2> QED
    BY <1>9, <2>1, <2>2, <2>3, <2>4, <2>6, <2>8, OthersUnmoved DEF AloneInv, Points
<1>10. ASSUME NEW d \in Docs, FindSource(d), Usual PROVE Alone'
  <2>1. d \in Threads /\ local[d] \in Local /\ ReadsCurrent(d) /\ at[d] \notin {"idle", "done"}
        /\ (d \in Docs => RowsComplete(d) /\ MemoryComplete(d))
    BY <1>10 DEF FindSource, Inv, TypeOK, Threads, AloneInv, Alone
  <2>2. Goto(d, "link")
    BY <1>10 DEF FindSource
  <2>3. at'[d] = "link"
    BY <2>1, <2>2 DEF Goto, Inv, TypeOK
  <2>4. /\ skipped \subseteq skipped' /\ registry \subseteq registry' /\ linked \subseteq linked'
        /\ \A e \in Docs \ {d} : before'[e] = before[e]
        /\ \A e, f \in Docs : e # d => (<<e, f>> \in duplicates' <=> <<e, f>> \in duplicates)
        /\ \A e, f \in Docs : e # d => (<<e, f>> \in edges' <=> <<e, f>> \in edges)
        /\ indexed \subseteq indexed' /\ (snapshot' = snapshot \/ snapshot' = indexed)
        /\ restarts' = restarts /\ overlap' = overlap
        /\ graph' = graph \/ registry \subseteq graph'.nodes
    BY <1>10, <2>1 DEF FindSource, Skip
  <2>5. local'[d] = [local[d] EXCEPT !.peers = registry]
    BY <1>10, <2>1, LatestRows DEF FindSource, Keep, Inv, TypeOK, Usual, WithinLimits
  <2>6. ReadsCurrent(d)'
    BY <1>10, <2>1, <2>3, <2>5 DEF FindSource, ReadsCurrent, Local
  <2>7. Unharmed(d)' <=> Unharmed(d)
    BY <1>10 DEF FindSource, Unharmed
  <2>8. d \in Docs => RowsComplete(d)' /\ MemoryComplete(d)'
    BY <1>10, <2>1, <2>3, <2>7 DEF FindSource, RowsComplete, Marked, MemoryComplete, AfterLink
  <2> QED
    BY <1>10, <2>1, <2>2, <2>3, <2>4, <2>6, <2>8, OthersUnmoved DEF AloneInv, Points
<1>11. ASSUME NEW d \in Docs, SourceMissing(d), Usual PROVE Alone'
  <2>1. d \in Threads /\ local[d] \in Local /\ ReadsCurrent(d) /\ at[d] \notin {"idle", "done"}
        /\ (d \in Docs => RowsComplete(d) /\ MemoryComplete(d))
    BY <1>11 DEF SourceMissing, Inv, TypeOK, Threads, AloneInv, Alone
  <2>2. Goto(d, "index")
    BY <1>11 DEF SourceMissing, Return
  <2>3. at'[d] = "index"
    BY <2>1, <2>2 DEF Goto, Inv, TypeOK
  <2>4. /\ skipped \subseteq skipped' /\ registry \subseteq registry' /\ linked \subseteq linked'
        /\ \A e \in Docs \ {d} : before'[e] = before[e]
        /\ \A e, f \in Docs : e # d => (<<e, f>> \in duplicates' <=> <<e, f>> \in duplicates)
        /\ \A e, f \in Docs : e # d => (<<e, f>> \in edges' <=> <<e, f>> \in edges)
        /\ indexed \subseteq indexed' /\ (snapshot' = snapshot \/ snapshot' = indexed)
        /\ restarts' = restarts /\ overlap' = overlap
        /\ graph' = graph \/ registry \subseteq graph'.nodes
    BY <1>11, <2>1 DEF SourceMissing, Skip
  <2>6. ReadsCurrent(d)'
    BY <2>2, <2>3 DEF ReadsCurrent
  <2>7. ~Unharmed(d)'
    <3>1. <<d, "rows">> \in skipped'
      BY <1>11 DEF SourceMissing, Skip
    <3> QED
      BY <3>1 DEF Unharmed
  <2>8. d \in Docs => RowsComplete(d)' /\ MemoryComplete(d)'
    BY <2>2, <2>3, <2>7 DEF RowsComplete, Marked, MemoryComplete, AfterLink
  <2> QED
    BY <1>11, <2>1, <2>2, <2>3, <2>4, <2>6, <2>8, OthersUnmoved DEF AloneInv, Points
<1>12. ASSUME NEW d \in Docs, Link(d), Usual PROVE Alone'
  <2>1. d \in Threads /\ local[d] \in Local /\ ReadsCurrent(d) /\ at[d] \notin {"idle", "done"}
        /\ (d \in Docs => RowsComplete(d) /\ MemoryComplete(d))
    BY <1>12 DEF Link, Inv, TypeOK, Threads, AloneInv, Alone
  <2>2. Goto(d, "index")
    BY <1>12 DEF Link, Return
  <2>3. at'[d] = "index"
    BY <2>1, <2>2 DEF Goto, Inv, TypeOK
  <2>4. /\ skipped \subseteq skipped' /\ registry \subseteq registry' /\ linked \subseteq linked'
        /\ \A e \in Docs \ {d} : before'[e] = before[e]
        /\ \A e, f \in Docs : e # d => (<<e, f>> \in duplicates' <=> <<e, f>> \in duplicates)
        /\ \A e, f \in Docs : e # d => (<<e, f>> \in edges' <=> <<e, f>> \in edges)
        /\ indexed \subseteq indexed' /\ (snapshot' = snapshot \/ snapshot' = indexed)
        /\ restarts' = restarts /\ overlap' = overlap
        /\ graph' = graph \/ registry \subseteq graph'.nodes
    BY <1>12, <2>1 DEF Link, Skip
  <2>6. ReadsCurrent(d)'
    BY <2>2, <2>3 DEF ReadsCurrent
  <2>7. Unharmed(d)' <=> Unharmed(d)
    BY <1>12 DEF Link, Unharmed
  <2>8. d \in Docs => RowsComplete(d)' /\ MemoryComplete(d)'
    <3> DEFINE found == {d} \X Targets(d)
    <3>1. /\ edges' = {e \in edges : e[1] # d} \cup found /\ linked' = linked \cup {d}
          /\ UNCHANGED <<registry, duplicates, before>>
          /\ local[d].peers = registry /\ d \in registry /\ at[d] = "link"
      BY <1>12, <2>1 DEF Link, ReadsCurrent, Inv, ReadsStand
    <3>2. Targets(d) = Discovered(d, registry \ {d})
      BY <3>1 DEF Targets
    <3>3. Discovered(d, registry \ {d}) \subseteq Docs
      BY DEF Discovered, Versions, Inv, TypeOK
    <3>4. \A e \in Docs : <<d, e>> \in edges' <=> e \in Targets(d)
      BY <3>1
    <3>5. {e \in Docs : <<d, e>> \in edges}' = Discovered(d, registry \ {d})
      BY <3>2, <3>3, <3>4
    <3>6. Unharmed(d) => registry \ {d} = before[d] /\ Marked(d)
      BY <2>1, <3>1 DEF RowsComplete
    <3>7. /\ Marked(d)' <=> Marked(d)
          /\ Discovered(d, before[d])' = Discovered(d, before[d])
      BY <3>1 DEF Marked
    <3>8. RowsComplete(d)'
      <4> HIDE DEF found
      <4> QED
        BY <2>3, <2>7, <3>1, <3>5, <3>6, <3>7 DEF RowsComplete
    <3> QED
      BY <2>3, <3>8 DEF MemoryComplete
  <2> QED
    BY <1>12, <2>1, <2>2, <2>3, <2>4, <2>6, <2>8, OthersUnmoved DEF AloneInv, Points
<1>13. ASSUME NEW d \in Docs, LinkFails(d), Usual PROVE Alone'
  <2>1. d \in Threads /\ local[d] \in Local /\ ReadsCurrent(d) /\ at[d] \notin {"idle", "done"}
        /\ (d \in Docs => RowsComplete(d) /\ MemoryComplete(d))
    BY <1>13 DEF LinkFails, Inv, TypeOK, Threads, AloneInv, Alone
  <2>2. Goto(d, "index")
    BY <1>13 DEF LinkFails, Return
  <2>3. at'[d] = "index"
    BY <2>1, <2>2 DEF Goto, Inv, TypeOK
  <2>4. /\ skipped \subseteq skipped' /\ registry \subseteq registry' /\ linked \subseteq linked'
        /\ \A e \in Docs \ {d} : before'[e] = before[e]
        /\ \A e, f \in Docs : e # d => (<<e, f>> \in duplicates' <=> <<e, f>> \in duplicates)
        /\ \A e, f \in Docs : e # d => (<<e, f>> \in edges' <=> <<e, f>> \in edges)
        /\ indexed \subseteq indexed' /\ (snapshot' = snapshot \/ snapshot' = indexed)
        /\ restarts' = restarts /\ overlap' = overlap
        /\ graph' = graph \/ registry \subseteq graph'.nodes
    BY <1>13, <2>1 DEF LinkFails, Skip
  <2>6. ReadsCurrent(d)'
    BY <2>2, <2>3 DEF ReadsCurrent
  <2>7. ~Unharmed(d)'
    <3>1. <<d, "rows">> \in skipped'
      BY <1>13 DEF LinkFails, Skip
    <3> QED
      BY <3>1 DEF Unharmed
  <2>8. d \in Docs => RowsComplete(d)' /\ MemoryComplete(d)'
    BY <2>2, <2>3, <2>7 DEF RowsComplete, Marked, MemoryComplete, AfterLink
  <2> QED
    BY <1>13, <2>1, <2>2, <2>3, <2>4, <2>6, <2>8, OthersUnmoved DEF AloneInv, Points
<1>14. ASSUME NEW d \in Docs, Index(d), Usual PROVE Alone'
  <2>1. d \in Threads /\ local[d] \in Local /\ ReadsCurrent(d) /\ at[d] \notin {"idle", "done"}
        /\ (d \in Docs => RowsComplete(d) /\ MemoryComplete(d))
    BY <1>14 DEF Index, Inv, TypeOK, Threads, AloneInv, Alone
  <2>2. Goto(d, "serialize")
    BY <1>14 DEF Index
  <2>3. at'[d] = "serialize"
    BY <2>1, <2>2 DEF Goto, Inv, TypeOK
  <2>4. /\ skipped \subseteq skipped' /\ registry \subseteq registry' /\ linked \subseteq linked'
        /\ \A e \in Docs \ {d} : before'[e] = before[e]
        /\ \A e, f \in Docs : e # d => (<<e, f>> \in duplicates' <=> <<e, f>> \in duplicates)
        /\ \A e, f \in Docs : e # d => (<<e, f>> \in edges' <=> <<e, f>> \in edges)
        /\ indexed \subseteq indexed' /\ (snapshot' = snapshot \/ snapshot' = indexed)
        /\ restarts' = restarts /\ overlap' = overlap
        /\ graph' = graph \/ registry \subseteq graph'.nodes
    BY <1>14, <2>1 DEF Index, Skip
  <2>6. ReadsCurrent(d)'
    BY <2>2, <2>3 DEF ReadsCurrent
  <2>7. Unharmed(d)' <=> Unharmed(d)
    BY <1>14 DEF Index, Unharmed
  <2>8. d \in Docs => RowsComplete(d)' /\ MemoryComplete(d)'
    BY <1>14, <2>1, <2>3, <2>7 DEF Index, RowsComplete, Marked, MemoryComplete, AfterLink
  <2> QED
    BY <1>14, <2>1, <2>2, <2>3, <2>4, <2>6, <2>8, OthersUnmoved DEF AloneInv, Points
<1>15. ASSUME NEW d \in Docs, KnowledgeMissing(d), Usual PROVE Alone'
  <2>1. d \in Threads /\ local[d] \in Local /\ ReadsCurrent(d) /\ at[d] \notin {"idle", "done"}
        /\ (d \in Docs => RowsComplete(d) /\ MemoryComplete(d))
    BY <1>15 DEF KnowledgeMissing, Inv, TypeOK, Threads, AloneInv, Alone
  <2>2. Goto(d, "entries")
    BY <1>15 DEF KnowledgeMissing, Return
  <2>3. at'[d] = "entries"
    BY <2>1, <2>2 DEF Goto, Inv, TypeOK
  <2>4. /\ skipped \subseteq skipped' /\ registry \subseteq registry' /\ linked \subseteq linked'
        /\ \A e \in Docs \ {d} : before'[e] = before[e]
        /\ \A e, f \in Docs : e # d => (<<e, f>> \in duplicates' <=> <<e, f>> \in duplicates)
        /\ \A e, f \in Docs : e # d => (<<e, f>> \in edges' <=> <<e, f>> \in edges)
        /\ indexed \subseteq indexed' /\ (snapshot' = snapshot \/ snapshot' = indexed)
        /\ restarts' = restarts /\ overlap' = overlap
        /\ graph' = graph \/ registry \subseteq graph'.nodes
    BY <1>15, <2>1 DEF KnowledgeMissing, Skip
  <2>6. ReadsCurrent(d)'
    BY <2>2, <2>3 DEF ReadsCurrent
  <2>7. ~Unharmed(d)'
    <3>1. <<d, "snapshot">> \in skipped'
      BY <1>15 DEF KnowledgeMissing, Skip
    <3> QED
      BY <3>1 DEF Unharmed
  <2>8. d \in Docs => RowsComplete(d)' /\ MemoryComplete(d)'
    BY <2>2, <2>3, <2>7 DEF RowsComplete, Marked, MemoryComplete, AfterLink
  <2> QED
    BY <1>15, <2>1, <2>2, <2>3, <2>4, <2>6, <2>8, OthersUnmoved DEF AloneInv, Points
<1>16. ASSUME NEW d \in Docs, Serialize(d), Usual PROVE Alone'
  <2>1. d \in Threads /\ local[d] \in Local /\ ReadsCurrent(d) /\ at[d] \notin {"idle", "done"}
        /\ (d \in Docs => RowsComplete(d) /\ MemoryComplete(d))
    BY <1>16 DEF Serialize, Inv, TypeOK, Threads, AloneInv, Alone
  <2>2. Goto(d, "write")
    BY <1>16 DEF Serialize
  <2>3. at'[d] = "write"
    BY <2>1, <2>2 DEF Goto, Inv, TypeOK
  <2>4. /\ skipped \subseteq skipped' /\ registry \subseteq registry' /\ linked \subseteq linked'
        /\ \A e \in Docs \ {d} : before'[e] = before[e]
        /\ \A e, f \in Docs : e # d => (<<e, f>> \in duplicates' <=> <<e, f>> \in duplicates)
        /\ \A e, f \in Docs : e # d => (<<e, f>> \in edges' <=> <<e, f>> \in edges)
        /\ indexed \subseteq indexed' /\ (snapshot' = snapshot \/ snapshot' = indexed)
        /\ restarts' = restarts /\ overlap' = overlap
        /\ graph' = graph \/ registry \subseteq graph'.nodes
    BY <1>16, <2>1 DEF Serialize, Skip
  <2>5. local'[d] = [local[d] EXCEPT !.copy = indexed]
    BY <1>16, <2>1 DEF Serialize, Keep, Inv, TypeOK
  <2>6. ReadsCurrent(d)'
    BY <1>16, <2>1, <2>3, <2>5 DEF Serialize, ReadsCurrent, Local
  <2>7. Unharmed(d)' <=> Unharmed(d)
    BY <1>16 DEF Serialize, Unharmed
  <2>8. d \in Docs => RowsComplete(d)' /\ MemoryComplete(d)'
    BY <1>16, <2>1, <2>3, <2>7 DEF Serialize, RowsComplete, Marked, MemoryComplete, AfterLink
  <2> QED
    BY <1>16, <2>1, <2>2, <2>3, <2>4, <2>6, <2>8, OthersUnmoved DEF AloneInv, Points
<1>17. ASSUME NEW d \in Docs, SerializeFails(d), Usual PROVE Alone'
  <2>1. d \in Threads /\ local[d] \in Local /\ ReadsCurrent(d) /\ at[d] \notin {"idle", "done"}
        /\ (d \in Docs => RowsComplete(d) /\ MemoryComplete(d))
    BY <1>17 DEF SerializeFails, Inv, TypeOK, Threads, AloneInv, Alone
  <2>2. Goto(d, "entries")
    BY <1>17 DEF SerializeFails, Return
  <2>3. at'[d] = "entries"
    BY <2>1, <2>2 DEF Goto, Inv, TypeOK
  <2>4. /\ skipped \subseteq skipped' /\ registry \subseteq registry' /\ linked \subseteq linked'
        /\ \A e \in Docs \ {d} : before'[e] = before[e]
        /\ \A e, f \in Docs : e # d => (<<e, f>> \in duplicates' <=> <<e, f>> \in duplicates)
        /\ \A e, f \in Docs : e # d => (<<e, f>> \in edges' <=> <<e, f>> \in edges)
        /\ indexed \subseteq indexed' /\ (snapshot' = snapshot \/ snapshot' = indexed)
        /\ restarts' = restarts /\ overlap' = overlap
        /\ graph' = graph \/ registry \subseteq graph'.nodes
    BY <1>17, <2>1 DEF SerializeFails, Skip
  <2>6. ReadsCurrent(d)'
    BY <2>2, <2>3 DEF ReadsCurrent
  <2>7. ~Unharmed(d)'
    <3>1. <<d, "snapshot">> \in skipped'
      BY <1>17 DEF SerializeFails, Skip
    <3> QED
      BY <3>1 DEF Unharmed
  <2>8. d \in Docs => RowsComplete(d)' /\ MemoryComplete(d)'
    BY <2>2, <2>3, <2>7 DEF RowsComplete, Marked, MemoryComplete, AfterLink
  <2> QED
    BY <1>17, <2>1, <2>2, <2>3, <2>4, <2>6, <2>8, OthersUnmoved DEF AloneInv, Points
<1>18. ASSUME NEW d \in Docs, WriteSnapshot(d), Usual PROVE Alone'
  <2>1. d \in Threads /\ local[d] \in Local /\ ReadsCurrent(d) /\ at[d] \notin {"idle", "done"}
        /\ (d \in Docs => RowsComplete(d) /\ MemoryComplete(d))
    BY <1>18 DEF WriteSnapshot, Inv, TypeOK, Threads, AloneInv, Alone
  <2>2. Goto(d, "entries")
    BY <1>18 DEF WriteSnapshot, Return
  <2>3. at'[d] = "entries"
    BY <2>1, <2>2 DEF Goto, Inv, TypeOK
  <2>4. /\ skipped \subseteq skipped' /\ registry \subseteq registry' /\ linked \subseteq linked'
        /\ \A e \in Docs \ {d} : before'[e] = before[e]
        /\ \A e, f \in Docs : e # d => (<<e, f>> \in duplicates' <=> <<e, f>> \in duplicates)
        /\ \A e, f \in Docs : e # d => (<<e, f>> \in edges' <=> <<e, f>> \in edges)
        /\ indexed \subseteq indexed' /\ (snapshot' = snapshot \/ snapshot' = indexed)
        /\ restarts' = restarts /\ overlap' = overlap
        /\ graph' = graph \/ registry \subseteq graph'.nodes
    BY <1>18, <2>1 DEF WriteSnapshot, Skip, ReadsCurrent
  <2>6. ReadsCurrent(d)'
    BY <2>2, <2>3 DEF ReadsCurrent
  <2>7. Unharmed(d)' <=> Unharmed(d)
    BY <1>18 DEF WriteSnapshot, Unharmed
  <2>8. d \in Docs => RowsComplete(d)' /\ MemoryComplete(d)'
    <3>1. /\ snapshot' = indexed /\ at[d] = "write"
          /\ UNCHANGED <<tables, memory, restarts, history>>
      BY <1>18, <2>1 DEF WriteSnapshot, ReadsCurrent
    <3> QED
      BY <2>1, <2>3, <2>7, <3>1 DEF RowsComplete, Marked, MemoryComplete, AfterLink
  <2> QED
    BY <1>18, <2>1, <2>2, <2>3, <2>4, <2>6, <2>8, OthersUnmoved DEF AloneInv, Points
<1>19. ASSUME NEW t \in Threads, ReadEntries(t), Usual PROVE Alone'
  <2>1. t \in Threads /\ local[t] \in Local /\ ReadsCurrent(t) /\ at[t] \notin {"idle", "done"}
        /\ (t \in Docs => RowsComplete(t) /\ MemoryComplete(t))
    BY <1>19 DEF ReadEntries, Inv, TypeOK, Threads, AloneInv, Alone
  <2>2. Goto(t, "edges")
    BY <1>19 DEF ReadEntries
  <2>3. at'[t] = "edges"
    BY <2>1, <2>2 DEF Goto, Inv, TypeOK
  <2>4. /\ skipped \subseteq skipped' /\ registry \subseteq registry' /\ linked \subseteq linked'
        /\ \A e \in Docs \ {t} : before'[e] = before[e]
        /\ \A e, f \in Docs : e # t => (<<e, f>> \in duplicates' <=> <<e, f>> \in duplicates)
        /\ \A e, f \in Docs : e # t => (<<e, f>> \in edges' <=> <<e, f>> \in edges)
        /\ indexed \subseteq indexed' /\ (snapshot' = snapshot \/ snapshot' = indexed)
        /\ restarts' = restarts /\ overlap' = overlap
        /\ graph' = graph \/ registry \subseteq graph'.nodes
    BY <1>19, <2>1 DEF ReadEntries, Skip
  <2>5. local'[t] = [local[t] EXCEPT !.nodes = registry]
    BY <1>19, <2>1, LatestRows DEF ReadEntries, Keep, Inv, TypeOK, Usual, WithinLimits
  <2>6. ReadsCurrent(t)'
    BY <1>19, <2>1, <2>3, <2>5 DEF ReadEntries, ReadsCurrent, Local
  <2>7. Unharmed(t)' <=> Unharmed(t)
    BY <1>19 DEF ReadEntries, Unharmed
  <2>8. t \in Docs => RowsComplete(t)' /\ MemoryComplete(t)'
    BY <1>19, <2>1, <2>3, <2>7 DEF ReadEntries, RowsComplete, Marked, MemoryComplete, AfterLink
  <2> QED
    BY <1>19, <2>1, <2>2, <2>3, <2>4, <2>6, <2>8, OthersUnmoved DEF AloneInv, Points
<1>20. ASSUME NEW t \in Threads, ReadEdges(t), Usual PROVE Alone'
  <2>1. t \in Threads /\ local[t] \in Local /\ ReadsCurrent(t) /\ at[t] \notin {"idle", "done"}
        /\ (t \in Docs => RowsComplete(t) /\ MemoryComplete(t))
    BY <1>20 DEF ReadEdges, Inv, TypeOK, Threads, AloneInv, Alone
  <2>2. Goto(t, "replace")
    BY <1>20 DEF ReadEdges
  <2>3. at'[t] = "replace"
    BY <2>1, <2>2 DEF Goto, Inv, TypeOK
  <2>4. /\ skipped \subseteq skipped' /\ registry \subseteq registry' /\ linked \subseteq linked'
        /\ \A e \in Docs \ {t} : before'[e] = before[e]
        /\ \A e, f \in Docs : e # t => (<<e, f>> \in duplicates' <=> <<e, f>> \in duplicates)
        /\ \A e, f \in Docs : e # t => (<<e, f>> \in edges' <=> <<e, f>> \in edges)
        /\ indexed \subseteq indexed' /\ (snapshot' = snapshot \/ snapshot' = indexed)
        /\ restarts' = restarts /\ overlap' = overlap
        /\ graph' = graph \/ registry \subseteq graph'.nodes
    BY <1>20, <2>1 DEF ReadEdges, Skip
  <2>5. local'[t] = [local[t] EXCEPT !.links = edges]
    BY <1>20, <2>1 DEF ReadEdges, Keep, Inv, TypeOK, Usual, WithinLimits
  <2>6. ReadsCurrent(t)'
    BY <1>20, <2>1, <2>3, <2>5 DEF ReadEdges, ReadsCurrent, Local
  <2>7. Unharmed(t)' <=> Unharmed(t)
    BY <1>20 DEF ReadEdges, Unharmed
  <2>8. t \in Docs => RowsComplete(t)' /\ MemoryComplete(t)'
    BY <1>20, <2>1, <2>3, <2>7 DEF ReadEdges, RowsComplete, Marked, MemoryComplete, AfterLink
  <2> QED
    BY <1>20, <2>1, <2>2, <2>3, <2>4, <2>6, <2>8, OthersUnmoved DEF AloneInv, Points
<1>21. ASSUME NEW t \in Threads, ReplaceGraph(t), Usual PROVE Alone'
  <2>1. t \in Threads /\ local[t] \in Local /\ ReadsCurrent(t) /\ at[t] \notin {"idle", "done"}
        /\ (t \in Docs => RowsComplete(t) /\ MemoryComplete(t))
    BY <1>21 DEF ReplaceGraph, Inv, TypeOK, Threads, AloneInv, Alone
  <2>2. Goto(t, "save")
    BY <1>21 DEF ReplaceGraph, Return
  <2>3. at'[t] = "save"
    BY <2>1, <2>2 DEF Goto, Inv, TypeOK
  <2>4. /\ skipped \subseteq skipped' /\ registry \subseteq registry' /\ linked \subseteq linked'
        /\ \A e \in Docs \ {t} : before'[e] = before[e]
        /\ \A e, f \in Docs : e # t => (<<e, f>> \in duplicates' <=> <<e, f>> \in duplicates)
        /\ \A e, f \in Docs : e # t => (<<e, f>> \in edges' <=> <<e, f>> \in edges)
        /\ indexed \subseteq indexed' /\ (snapshot' = snapshot \/ snapshot' = indexed)
        /\ restarts' = restarts /\ overlap' = overlap
        /\ graph' = graph \/ registry \subseteq graph'.nodes
    BY <1>21, <2>1 DEF ReplaceGraph, Skip, ReadsCurrent
  <2>6. ReadsCurrent(t)'
    BY <2>2, <2>3 DEF ReadsCurrent
  <2>7. Unharmed(t)' <=> Unharmed(t)
    BY <1>21 DEF ReplaceGraph, Unharmed
  <2>8. t \in Docs => RowsComplete(t)' /\ MemoryComplete(t)'
    <3>1. /\ registry \subseteq graph'.nodes /\ at[t] = "replace"
          /\ UNCHANGED <<tables, indexed, files, restarts, history>>
      BY <1>21, <2>1 DEF ReplaceGraph, ReadsCurrent
    <3> QED
      BY <2>1, <2>3, <2>7, <3>1 DEF RowsComplete, Marked, MemoryComplete, AfterLink
  <2>9. GraphCurrent'
    <3>1. /\ graph' = [nodes |-> registry \cup Endpoints(edges), edges |-> edges]
          /\ UNCHANGED <<registry, edges>>
      BY <1>21, <2>1 DEF ReplaceGraph, ReadsCurrent
    <3>2. registry \cup Endpoints(edges) = registry
      BY DEF Inv, DerivedFromRows, Endpoints
    <3> QED
      BY <3>1, <3>2 DEF GraphCurrent
  <2> QED
    BY <1>21, <2>1, <2>2, <2>3, <2>4, <2>6, <2>8, <2>9, OthersUnmoved DEF AloneInv, Points
<1>22. ASSUME NEW t \in Threads, SaveGraph(t), Usual PROVE Alone'
  <2>1. t \in Threads /\ local[t] \in Local /\ ReadsCurrent(t) /\ at[t] \notin {"idle", "done"}
        /\ (t \in Docs => RowsComplete(t) /\ MemoryComplete(t))
    BY <1>22 DEF SaveGraph, Inv, TypeOK, Threads, AloneInv, Alone
  <2>2. Goto(t, "done")
    BY <1>22 DEF SaveGraph, Return
  <2>3. at'[t] = "done"
    BY <2>1, <2>2 DEF Goto, Inv, TypeOK
  <2>4. /\ skipped \subseteq skipped' /\ registry \subseteq registry' /\ linked \subseteq linked'
        /\ \A e \in Docs \ {t} : before'[e] = before[e]
        /\ \A e, f \in Docs : e # t => (<<e, f>> \in duplicates' <=> <<e, f>> \in duplicates)
        /\ \A e, f \in Docs : e # t => (<<e, f>> \in edges' <=> <<e, f>> \in edges)
        /\ indexed \subseteq indexed' /\ (snapshot' = snapshot \/ snapshot' = indexed)
        /\ restarts' = restarts /\ overlap' = overlap
        /\ graph' = graph \/ registry \subseteq graph'.nodes
    BY <1>22, <2>1 DEF SaveGraph, Skip
  <2>6. ReadsCurrent(t)'
    BY <2>2, <2>3 DEF ReadsCurrent
  <2>7. Unharmed(t)' <=> Unharmed(t)
    BY <1>22 DEF SaveGraph, Unharmed
  <2>8. t \in Docs => RowsComplete(t)' /\ MemoryComplete(t)'
    BY <1>22, <2>1, <2>3, <2>7 DEF SaveGraph, RowsComplete, Marked, MemoryComplete, AfterLink
  <2>9. GraphCurrent'
    <3>1. /\ at[t] = "save" /\ UNCHANGED <<registry, edges, graph, skipped>>
      BY <1>22 DEF SaveGraph
    <3>2. \A u \in Threads \ {t} : at'[u] = at[u]
      BY <2>2 DEF Goto, Inv, TypeOK
    <3>3. GraphCurrent
      BY <1>22 DEF AloneInv, Alone
    <3> QED
      BY <3>1, <3>2, <3>3 DEF GraphCurrent
  <2> QED
    BY <1>22, <2>1, <2>2, <2>3, <2>4, <2>6, <2>8, <2>9, OthersUnmoved DEF AloneInv, Points
<1>23. ASSUME NEW t \in Threads, GraphFails(t), Usual PROVE Alone'
  <2>1. t \in Threads /\ local[t] \in Local /\ ReadsCurrent(t) /\ at[t] \notin {"idle", "done"}
        /\ (t \in Docs => RowsComplete(t) /\ MemoryComplete(t))
    BY <1>23 DEF GraphFails, Inv, TypeOK, Threads, AloneInv, Alone
  <2>2. Goto(t, "done")
    BY <1>23 DEF GraphFails, Return
  <2>3. at'[t] = "done"
    BY <2>1, <2>2 DEF Goto, Inv, TypeOK
  <2>4. /\ skipped \subseteq skipped' /\ registry \subseteq registry' /\ linked \subseteq linked'
        /\ \A e \in Docs \ {t} : before'[e] = before[e]
        /\ \A e, f \in Docs : e # t => (<<e, f>> \in duplicates' <=> <<e, f>> \in duplicates)
        /\ \A e, f \in Docs : e # t => (<<e, f>> \in edges' <=> <<e, f>> \in edges)
        /\ indexed \subseteq indexed' /\ (snapshot' = snapshot \/ snapshot' = indexed)
        /\ restarts' = restarts /\ overlap' = overlap
        /\ graph' = graph \/ registry \subseteq graph'.nodes
    BY <1>23, <2>1 DEF GraphFails, Skip
  <2>6. ReadsCurrent(t)'
    BY <2>2, <2>3 DEF ReadsCurrent
  <2>7. ~Unharmed(t)'
    <3>1. <<t, "graph">> \in skipped'
      BY <1>23 DEF GraphFails, Skip
    <3> QED
      BY <3>1 DEF Unharmed
  <2>8. t \in Docs => RowsComplete(t)' /\ MemoryComplete(t)'
    BY <2>2, <2>3, <2>7 DEF RowsComplete, Marked, MemoryComplete, AfterLink
  <2>9. GraphCurrent'
    <3>1. <<t, "graph">> \in skipped'
      BY <1>23 DEF GraphFails, Skip
    <3> QED
      BY <3>1 DEF GraphCurrent
  <2> QED
    BY <1>23, <2>1, <2>2, <2>3, <2>4, <2>6, <2>8, <2>9, OthersUnmoved DEF AloneInv, Points
<1>24. ASSUME \E t \in Threads : at[t] = "idle" /\ Goto(t, IF t \in Docs THEN "load" ELSE "entries")
                /\ overlap' = (overlap \/ Running # {})
                /\ UNCHANGED <<tables, memory, files, local, restarts, history>>
       PROVE Alone'
  <2> SUFFICES ASSUME Usual' PROVE Alone'
    BY DEF Alone
  <2>1. PICK t \in Threads :
          /\ at[t] = "idle" /\ Goto(t, IF t \in Docs THEN "load" ELSE "entries")
          /\ overlap' = (overlap \/ Running # {})
          /\ UNCHANGED <<tables, memory, files, local, restarts, history>>
    BY <1>24
  <2>2. /\ \A u \in Threads : at[u] \in {"idle", "done"}
        /\ \A d \in Docs : RowsComplete(d) /\ MemoryComplete(d)
    BY <2>1 DEF Running, AloneInv, Alone, Usual, WithinLimits, RegistryFits
  <2>3. /\ at'[t] = IF t \in Docs THEN "load" ELSE "entries"
        /\ \A u \in Threads \ {t} : at'[u] = at[u]
    BY <2>1 DEF Goto, Inv, TypeOK
  <2>4. OneRuns' /\ \A u \in Threads : ReadsCurrent(u)'
    BY <2>2, <2>3 DEF OneRuns, ReadsCurrent
  <2>5. ASSUME NEW d \in Docs PROVE RowsComplete(d)' /\ MemoryComplete(d)'
    <3>1. d \in Threads /\ (Unharmed(d)' <=> Unharmed(d))
      BY <2>1 DEF Threads, Unharmed
    <3> QED
      BY <2>1, <2>2, <2>3, <3>1 DEF RowsComplete, Marked, MemoryComplete, AfterLink
  <2>6. GraphCurrent'
    BY <2>3 DEF GraphCurrent
  <2> QED
    BY <2>4, <2>5, <2>6 DEF Alone
<1>25. ASSUME UNCHANGED <<tables, memory, files, at, local, restarts, history, overlap>>
       PROVE Alone'
  BY <1>25 DEF AloneInv, Alone, OneRuns, ReadsCurrent, RowsComplete, MemoryComplete,
     GraphCurrent, Unharmed, Marked, Usual, WithinLimits, RegistryFits
<1>26. ASSUME Restart PROVE Alone'
  <2>1. /\ local' = [t \in Threads |-> NoLocals] /\ indexed' = {} /\ graph' = NoGraph
        /\ at' = [t \in Threads |-> IF at[t] = "idle" \/ t \in Questions THEN "idle" ELSE "done"]
        /\ restarts' = restarts + 1 /\ restarts \in Nat
        /\ skipped' = skipped \cup (Running \X {"rows", "snapshot", "graph"})
        /\ UNCHANGED <<tables, files, linked, before, overlap>>
    BY <1>26 DEF Restart, Inv, TypeOK
  <2>2. \A t \in Threads : at'[t] \in {"idle", "done"}
    BY <2>1
  <2>3. OneRuns' /\ (\A t \in Threads : ReadsCurrent(t)') /\ GraphCurrent' /\ restarts' # 0
    BY <2>1, <2>2 DEF OneRuns, ReadsCurrent, GraphCurrent
  <2>4. ASSUME Usual', NEW d \in Docs
        PROVE  RowsComplete(d)' /\ MemoryComplete(d)'
    <3>1. ASSUME Unharmed(d)' PROVE Unharmed(d) /\ at'[d] = at[d]
      <4>1. d \notin Running
        <5> SUFFICES ASSUME d \in Running PROVE FALSE
          OBVIOUS
        <5>1. <<d, "rows">> \in skipped'
          BY <2>1
        <5> QED
          BY <3>1, <5>1 DEF Unharmed
      <4> QED
        BY <2>1, <3>1, <4>1 DEF Running, Threads, Unharmed
    <3>2. RowsComplete(d)
      BY <2>1, <2>4 DEF AloneInv, Alone, Usual, WithinLimits, RegistryFits
    <3> QED
      BY <2>1, <2>2, <2>3, <3>1, <3>2 DEF RowsComplete, Marked, MemoryComplete, AfterLink, Threads
  <2> QED
    BY <2>3, <2>4 DEF Alone
<1>27. Alone'
  <2> SUFFICES ASSUME Usual' PROVE Alone'
    BY DEF Alone
  <2>1. Inv'
    BY Inductive
  <2>2. registry \subseteq registry'
    BY DEF Next, vars, Announce, Engine, Load, LoadDeleted, StoreKnowledge, StoreFails, ReadSeed,
       CommitSeed, ReadPeers, ReadLabels, Register, Refused, Relationships, FindSource,
       SourceMissing, Link, LinkFails, KnowledgeIndex, Index, KnowledgeMissing, Serialize,
       SerializeFails, WriteSnapshot, Ask, RebuildGraph, ReadEntries, ReadEdges, ReplaceGraph,
       SaveGraph, GraphFails, Restart
  <2>3. edges \subseteq edges'
    <3>1. ASSUME NEW d \in Docs, Link(d) PROVE edges \subseteq edges'
      <4>1. \A e \in edges : e[1] # d
        BY <3>1 DEF Link, Inv, ReadsStand, AfterLink
      <4> QED
        BY <3>1, <4>1 DEF Link
    <3> QED
      BY <3>1 DEF Next, vars, Announce, Engine, Load, LoadDeleted, StoreKnowledge, StoreFails,
         ReadSeed, CommitSeed, ReadPeers, ReadLabels, Register, Refused, Relationships, FindSource,
         SourceMissing, LinkFails, KnowledgeIndex, Index, KnowledgeMissing, Serialize,
         SerializeFails, WriteSnapshot, Ask, RebuildGraph, ReadEntries, ReadEdges, ReplaceGraph,
         SaveGraph, GraphFails, Restart
  <2>4. overlap => overlap'
    BY DEF Next, vars, Announce, Engine, Load, LoadDeleted, StoreKnowledge, StoreFails, ReadSeed,
       CommitSeed, ReadPeers, ReadLabels, Register, Refused, Relationships, FindSource,
       SourceMissing, Link, LinkFails, KnowledgeIndex, Index, KnowledgeMissing, Serialize,
       SerializeFails, WriteSnapshot, Ask, RebuildGraph, ReadEntries, ReadEdges, ReplaceGraph,
       SaveGraph, GraphFails, Restart
  <2>5. Usual
    BY <2>1, <2>2, <2>3, <2>4, FitBefore DEF Usual, Inv
  <2>6. ASSUME NEW d \in Docs, Announce(d) PROVE Alone'
    BY <1>24, <2>6 DEF Announce, Threads
  <2>7. ASSUME NEW q \in Questions, Ask(q) PROVE Alone'
    BY <1>24, <2>7 DEF Ask, Threads
  <2>8. CASE UNCHANGED vars
    BY <1>25, <2>8 DEF vars
  <2> QED
    BY <2>5, <2>6, <2>7, <2>8, <1>1, <1>2, <1>3, <1>4, <1>5, <1>6, <1>7, <1>8, <1>9, <1>10, <1>11,
       <1>12, <1>13, <1>14, <1>15, <1>16, <1>17, <1>18, <1>19, <1>20, <1>21, <1>22, <1>23, <1>26,
       <1>29
    DEF Next, Engine, Relationships, KnowledgeIndex, RebuildGraph
<1>28. Unregistered'
  <2>1. ASSUME NEW d \in Docs, Register(d) PROVE Unregistered'
    <3>1. /\ at' = [at EXCEPT ![d] = "source"] /\ registry' = registry \cup {d}
          /\ duplicates' \subseteq duplicates \cup ({d} \X Docs)
      <4>1. SimilarIn(d, local[d].peers) \subseteq Docs
        BY DEF SimilarIn, Inv, TypeOK, ReadsStand, Threads
      <4> QED
        BY <2>1, <4>1 DEF Register, Return, Goto
    <3> QED
      BY <3>1 DEF AloneInv, Unregistered, BeforeRegistry, Inv, TypeOK, Threads
  <2>2. ASSUME UNCHANGED <<registry, duplicates>>,
               \A d \in Docs : at'[d] \in BeforeRegistry => at[d] \in BeforeRegistry
        PROVE  Unregistered'
    BY <2>2 DEF AloneInv, Unregistered
  <2>3. CASE Restart
    BY <2>2, <2>3 DEF Restart, BeforeRegistry, Threads
  <2>4. ASSUME NEW t \in Threads, NEW p \in Points, Goto(t, p),
               p \in BeforeRegistry /\ t \in Docs => at[t] \in BeforeRegistry,
               UNCHANGED <<registry, duplicates>>
        PROVE  Unregistered'
    BY <2>2, <2>4 DEF Goto, Inv, TypeOK, Threads
  <2>5. ASSUME NEW d \in Docs,
               Announce(d) \/ Load(d) \/ LoadDeleted(d) \/ StoreKnowledge(d) \/ StoreFails(d) \/ ReadSeed(d)
               \/ CommitSeed(d) \/ ReadPeers(d) \/ ReadLabels(d) \/ Refused(d)
        PROVE  Unregistered'
    BY <2>4, <2>5 DEF Announce, Load, LoadDeleted, StoreKnowledge, StoreFails, ReadSeed,
       CommitSeed, ReadPeers, ReadLabels, Refused, Return, Points, BeforeRegistry, Threads
  <2>6. ASSUME NEW d \in Docs, Relationships(d) \/ KnowledgeIndex(d)
        PROVE  Unregistered'
    BY <2>4, <2>6 DEF Relationships, FindSource, SourceMissing, Link, LinkFails, KnowledgeIndex,
       Index,
       KnowledgeMissing, Serialize, SerializeFails, WriteSnapshot, Return, Points,
       BeforeRegistry, Threads
  <2>7. ASSUME NEW t \in Threads, RebuildGraph(t) PROVE Unregistered'
    BY <2>4, <2>7 DEF RebuildGraph, ReadEntries, ReadEdges, ReplaceGraph, SaveGraph, GraphFails,
       Return, Points,
       BeforeRegistry
  <2>8. ASSUME NEW q \in Questions, Ask(q) PROVE Unregistered'
    BY <2>4, <2>8 DEF Ask, Points, BeforeRegistry, Threads
  <2>9. CASE UNCHANGED vars
    BY <2>2, <2>9 DEF vars
  <2> QED
    BY <2>1, <2>3, <2>5, <2>6, <2>7, <2>8, <2>9 DEF Next, Engine
<1> QED
  BY <1>27, <1>28 DEF AloneInv

(***************************************************************************)
(* Pipelines that do not overlap leave everything their documents need     *)
(* (AloneIsComplete), as long as the tables fit the limits of the queries: *)
(* rows, the duplicate mark, the relationships that are there to discover, *)
(* index, snapshot and graph, for any documents, labels and relations,     *)
(* however many handlers of other documents failed and whatever restarts   *)
(* came between (knowledge_*/shadow.py).                                   *)
(***************************************************************************)
THEOREM AloneLeavesAll == Spec => []AloneIsComplete
<1>1. Inv /\ AloneInv => AloneIsComplete
  <2> SUFFICES ASSUME Inv, AloneInv, Usual, NEW d \in Docs, at[d] = "done", Unharmed(d)
               PROVE  /\ d \in registry /\ d \in linked
                      /\ SimilarIn(d, before[d]) # {}
                            <=> \E e \in before[d] : <<d, e>> \in duplicates
                      /\ {e \in Docs : <<d, e>> \in edges} = Discovered(d, before[d])
                      /\ restarts = 0 => d \in indexed \cap snapshot
                      /\ graph = NoGraph \/ d \in graph.nodes
                      /\ Running = {} /\ (\A s \in skipped : s[2] # "graph") =>
                            graph = NoGraph \/ graph = [nodes |-> registry, edges |-> edges]
    BY DEF AloneIsComplete, Unharmed, Usual
  <2>1. RowsComplete(d) /\ MemoryComplete(d) /\ GraphCurrent
    BY DEF AloneInv, Alone
  <2>2. Running = {} => \A t \in Threads : at[t] \in {"idle", "done", "save"}
    BY DEF Running
  <2> QED
    BY <2>1, <2>2 DEF RowsComplete, Marked, MemoryComplete, GraphCurrent, AfterLink
<1>2. Inv /\ AloneInv /\ [Next]_vars => Inv' /\ AloneInv'
  BY Inductive, AloneStep
<1> QED
  BY <1>1, <1>2, Initially, AloneInit, PTL DEF Spec
==============================================================================
