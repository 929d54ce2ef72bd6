----------------------------- MODULE MCIndexes -----------------------------
(***************************************************************************)
(* DenseIndex and HybridIndex for TLC: a store with one writer beside a    *)
(* search, a store whose writers overlap, and the pair of indexes. The     *)
(* three share nothing, so each behaviour moves one of them, chosen at the *)
(* start, and the run explores the sum of their state spaces, not the      *)
(* product.                                                                *)
(***************************************************************************)
EXTENDS DenseIndex, TLC

CONSTANTS
    Crew,                 \* the writers of the second store
    Askers,               \* threads that ask the pair
    HybridDocs,           \* the documents of the pair
    Live, Missing, Torn, DiskFaults, MaxRestarts, MaxRepairs   \* see HybridIndex

ASSUME IndexesAssumption ==
    /\ IsFiniteSet(Docs)
    /\ DiskFaults \in BOOLEAN
    /\ MaxRestarts \in Nat
    /\ MaxRepairs \in Nat
    /\ Missing # Torn
    /\ Live \notin Seq(HybridDocs \cup {Null})

VARIABLES
    store,      \* the store that moves
    crewVectors, crewChunks, crewOwners, crewIndex, crewRequested, crewRemoved,
    crewAt, crewDoc, crewLocal, crewHit, crewAnswer,
    dense, sparse, disk, rows, uploaded, hybridAt, task, hybridDoc, holds, step, entry,
    phase, todo, restarts, repairs, disturbed, lone

crewVars == <<crewVectors, crewChunks, crewOwners, crewIndex, crewRequested, crewRemoved,
              crewAt, crewDoc, crewLocal, crewHit, crewAnswer>>
hybridVars == <<dense, sparse, disk, rows, uploaded, hybridAt, task, hybridDoc, holds, step,
                entry, phase, todo, restarts, repairs, disturbed, lone>>

Pair == INSTANCE DenseIndex WITH
    Writers <- Crew, Readers <- {},
    vectors <- crewVectors, chunks <- crewChunks, owners <- crewOwners,
    index <- crewIndex, requested <- crewRequested, removed <- crewRemoved,
    at <- crewAt, doc <- crewDoc, local <- crewLocal, hit <- crewHit, answer <- crewAnswer

Hybrid == INSTANCE HybridIndex WITH
    Docs <- HybridDocs, Nobody <- Null,
    lists <- sparse, requested <- uploaded,
    at <- hybridAt, doc <- hybridDoc, local <- holds

(* Documents are interchangeable.                                          *)
Symmetry == Permutations(Docs) \cup Permutations(HybridDocs)

IndexesInit == store \in {"searched", "crowded", "hybrid"} /\ Init /\ Pair!Init /\ Hybrid!Init
IndexesNext ==
    \/ store = "searched" /\ Next /\ UNCHANGED <<store, crewVars, hybridVars>>
    \/ store = "crowded" /\ Pair!Next /\ UNCHANGED <<store, vars, hybridVars>>
    \/ store = "hybrid" /\ Hybrid!Next /\ UNCHANGED <<store, vars, crewVars>>
IndexesSpec == IndexesInit /\ [][IndexesNext]_<<store, vars, crewVars, hybridVars>>

(* However the writers of the crew overlap, no list has a document twice,  *)
(* and if they only add, none lacks a document once they are done.         *)
OverlapLosesNothing == Pair!HeldOnce /\ Pair!AddsLoseNothing

(* Requests one at a time leave the dense and the sparse index with the    *)
(* same documents (HybridIndexStore).                                      *)
InSync == Hybrid!InSync

(* A question that finds the sizes different and nobody at work leaves the *)
(* indexes alike, whatever overlapped before it (ensure_bm25_synced).      *)
LoneQuestionRepairs == Hybrid!LoneQuestionRepairs

(* A readable file holds the sparse index, requests one at a time          *)
(* (BM25Index._persist).                                                   *)
FileIsCurrent == Hybrid!FileIsCurrent

=============================================================================
