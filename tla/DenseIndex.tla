----------------------------- MODULE DenseIndex -----------------------------
(***************************************************************************)
(* FaissVectorStore, the in-memory vector store every request thread       *)
(* shares (backend/app/ingestion/vector_store/faiss_store.py). It has no   *)
(* lock. Chunks are kept in parallel lists; the FAISS index is built anew  *)
(* from the list of vectors after every change, and a search maps the      *)
(* positions FAISS returns to the list of chunks.                          *)
(*                                                                         *)
(* One element stands for all the chunks of a document: they enter a list  *)
(* in one extend, and leave it together. _chunks also stands for           *)
(* _chunk_ids, which is changed right after it. A step is one statement on *)
(* a shared attribute.                                                     *)
(***************************************************************************)
EXTENDS Naturals, FiniteSets, Sequences, Functions

CONSTANTS
    Writers,     \* threads that upload or delete
    Readers,     \* threads that search
    Docs,        \* documents; each is added once, under a fresh id
    Null         \* Python's None

ASSUME ConstantsAssumption ==
    /\ Null \notin Docs \cup Seq(Docs)
    /\ Writers \cap Readers = {}

VARIABLES
    vectors, chunks, owners,  \* the parallel lists, as documents
    index,       \* the FAISS index: vectors by position, or Null
    requested,   \* documents an add has been called for
    removed,     \* history: whether any remove has been called
    at,          \* where each writer and reader stands
    doc,         \* the document a writer works on
    local,       \* the list a writer computed: what remove keeps, or the
                 \* array a rebuild has made from the vectors
    hit,         \* the position and the vector a search found
    answer       \* the chunk it returned

lists == <<vectors, chunks, owners>>
writing == <<requested, removed, doc, local>>
reading == <<hit, answer>>
vars == <<lists, index, writing, reading, at>>

AddPoints    == {"vectors added", "chunks added"}
RemovePoints == {"removing", "filtered", "vectors kept", "chunks kept"}
BuildPoints  == {"changed", "copied", "published"}
ReadPoints   == {"searching", "found", "answered", "empty", "failed"}

Goto(t, p) == at' = [at EXCEPT ![t] = p]
NoHit == [position |-> 0, vector |-> Null]

SameLength == Len(vectors) = Len(chunks) /\ Len(chunks) = Len(owners)

-----------------------------------------------------------------------------
(***************************************************************************)
(* Mutants: a plausible slip in the definition each is named after.        *)
(***************************************************************************)

(* The comparison with the owner is inverted.                              *)
KeptInverted(list, by, d) ==
    LET kept[i \in 0..Len(by)] ==
            IF i = 0 THEN <<>>
            ELSE IF by[i] # d THEN kept[i - 1]
            ELSE Append(kept[i - 1], list[i])
    IN  kept[Len(by)]

(* The kept chunks are appended to the list instead of replacing it.       *)
KeepChunksExtend(w) ==
    /\ at[w] = "vectors kept"
    /\ chunks' = chunks \o local[w][2]
    /\ Goto(w, "chunks kept")
    /\ UNCHANGED <<vectors, owners, index, writing, reading>>

(* The list of owners is rebound instead of extended.                      *)
AddOwnersRebound(w) ==
    /\ at[w] = "chunks added"
    /\ owners' = <<doc[w]>>
    /\ Goto(w, "changed")
    /\ UNCHANGED <<vectors, chunks, index, writing, reading>>

(* The rebuild adds to the index there is.                                 *)
BuildPublishSame(w) ==
    /\ at[w] = "copied"
    /\ index' = IF index = Null THEN <<>> ELSE index
    /\ Goto(w, "published")
    /\ UNCHANGED <<lists, writing, reading>>

-----------------------------------------------------------------------------
(* What the loop of remove_document keeps of a list: it pairs entries and  *)
(* owners by position.                                                     *)
Kept(list, by, d) ==
    LET kept[i \in 0..Len(by)] ==
            IF i = 0 THEN <<>>
            ELSE IF by[i] = d THEN kept[i - 1]
            ELSE Append(kept[i - 1], list[i])
    IN  kept[Len(by)]

Init ==
    /\ vectors = <<>> /\ chunks = <<>> /\ owners = <<>>
    /\ index = Null
    /\ requested = {}
    /\ removed = FALSE
    /\ at = [t \in Writers \cup Readers |-> "idle"]
    /\ doc = [w \in Writers |-> Null]
    /\ local = [w \in Writers |-> <<>>]
    /\ hit = [r \in Readers |-> NoHit]
    /\ answer = [r \in Readers |-> Null]

(***************************************************************************)
(* add_chunks.                                                             *)
(***************************************************************************)
AddVectors(w, d) ==
    /\ at[w] = "idle"
    /\ d \notin requested
    /\ requested' = requested \cup {d}
    /\ doc' = [doc EXCEPT ![w] = d]
    /\ vectors' = Append(vectors, d)
    /\ Goto(w, "vectors added")
    /\ UNCHANGED <<chunks, owners, index, removed, local, reading>>

AddChunks(w) ==
    /\ at[w] = "vectors added"
    /\ chunks' = Append(chunks, doc[w])
    /\ Goto(w, "chunks added")
    /\ UNCHANGED <<vectors, owners, index, writing, reading>>

AddOwners(w) ==
    /\ at[w] = "chunks added"
    /\ owners' = Append(owners, doc[w])
    /\ Goto(w, "changed")
    /\ UNCHANGED <<vectors, chunks, index, writing, reading>>

(***************************************************************************)
(* remove_document.                                                        *)
(***************************************************************************)

(* Nothing is done while the list of vectors is empty.                     *)
RemoveStart(w, d) ==
    /\ at[w] = "idle"
    /\ d \in requested
    /\ vectors # <<>>
    /\ removed' = TRUE
    /\ doc' = [doc EXCEPT ![w] = d]
    /\ Goto(w, "removing")
    /\ UNCHANGED <<lists, index, requested, local, reading>>

(* The loop keeps the entries of the other owners.                         *)
RemoveFilter(w) ==
    /\ at[w] = "removing"
    /\ SameLength
    /\ local' = [local EXCEPT ![w] =
           <<Kept(vectors, owners, doc[w]), Kept(chunks, owners, doc[w]),
             Kept(owners, owners, doc[w])>>]
    /\ Goto(w, "filtered")
    /\ UNCHANGED <<lists, index, requested, removed, doc, reading>>

(* zip(..., strict=True) over the live lists: ValueError.                  *)
RemoveRaises(w) ==
    /\ at[w] = "removing"
    /\ ~SameLength
    /\ Goto(w, "idle")
    /\ UNCHANGED <<lists, index, writing, reading>>

(* Nothing was dropped, as far as the length of the current list tells.    *)
RemoveNothing(w) ==
    /\ at[w] = "filtered"
    /\ Len(local[w][1]) = Len(vectors)
    /\ Goto(w, "idle")
    /\ UNCHANGED <<lists, index, writing, reading>>

(* The kept lists replace the shared ones, whatever these have become.     *)
KeepVectors(w) ==
    /\ at[w] = "filtered"
    /\ Len(local[w][1]) # Len(vectors)
    /\ vectors' = local[w][1]
    /\ Goto(w, "vectors kept")
    /\ UNCHANGED <<chunks, owners, index, writing, reading>>

KeepChunks(w) ==
    /\ at[w] = "vectors kept"
    /\ chunks' = local[w][2]
    /\ Goto(w, "chunks kept")
    /\ UNCHANGED <<vectors, owners, index, writing, reading>>

KeepOwners(w) ==
    /\ at[w] = "chunks kept"
    /\ owners' = local[w][3]
    /\ Goto(w, "changed")
    /\ UNCHANGED <<vectors, chunks, index, writing, reading>>

(***************************************************************************)
(* _rebuild_index.                                                         *)
(***************************************************************************)
BuildEmpty(w) ==
    /\ at[w] = "changed"
    /\ vectors = <<>>
    /\ index' = Null
    /\ Goto(w, "idle")
    /\ UNCHANGED <<lists, writing, reading>>

BuildCopy(w) ==
    /\ at[w] = "changed"
    /\ vectors # <<>>
    /\ local' = [local EXCEPT ![w] = vectors]
    /\ Goto(w, "copied")
    /\ UNCHANGED <<lists, index, requested, removed, doc, reading>>

(* The new index is visible to every thread before it has any vector.      *)
BuildPublish(w) ==
    /\ at[w] = "copied"
    /\ index' = <<>>
    /\ Goto(w, "published")
    /\ UNCHANGED <<lists, writing, reading>>

(* self._index.add: on whatever index is current by then.                  *)
BuildFill(w) ==
    /\ at[w] = "published"
    /\ index # Null
    /\ index' = index \o local[w]
    /\ Goto(w, "idle")
    /\ UNCHANGED <<lists, writing, reading>>

(* AttributeError: another thread has set the index to None.               *)
BuildRaises(w) ==
    /\ at[w] = "published"
    /\ index = Null
    /\ Goto(w, "idle")
    /\ UNCHANGED <<lists, index, writing, reading>>

(***************************************************************************)
(* search and gather_candidates, followed for any one of the hits.         *)
(***************************************************************************)
SearchStart(r) ==
    /\ at[r] = "idle"
    /\ index # Null
    /\ chunks # <<>>
    /\ Goto(r, "searching")
    /\ UNCHANGED <<lists, index, writing, reading>>

(* After the query is encoded. A hit is any position of the index.         *)
SearchIndex(r) ==
    /\ at[r] = "searching"
    /\ index # Null
    /\ \E i \in DOMAIN index :
           hit' = [hit EXCEPT ![r] = [position |-> i, vector |-> index[i]]]
    /\ Goto(r, "found")
    /\ UNCHANGED <<lists, index, writing, answer>>

(* The index has no vector yet: no hit.                                    *)
SearchEmpty(r) ==
    /\ at[r] = "searching"
    /\ index = <<>>
    /\ Goto(r, "empty")
    /\ UNCHANGED <<lists, index, writing, reading>>

(* self._index is None by now, or the position is beyond the chunks.       *)
SearchRaises(r) ==
    /\ \/ at[r] = "searching" /\ index = Null
       \/ at[r] = "found" /\ hit[r].position > Len(chunks)
    /\ Goto(r, "failed")
    /\ UNCHANGED <<lists, index, writing, reading>>

SearchChunk(r) ==
    /\ at[r] = "found"
    /\ hit[r].position <= Len(chunks)
    /\ answer' = [answer EXCEPT ![r] = chunks[hit[r].position]]
    /\ Goto(r, "answered")
    /\ UNCHANGED <<lists, index, writing, hit>>

(* The request ends, and its thread serves another.                        *)
SearchEnd(r) ==
    /\ at[r] \in {"answered", "empty", "failed"}
    /\ Goto(r, "idle")
    /\ hit' = [hit EXCEPT ![r] = NoHit]
    /\ answer' = [answer EXCEPT ![r] = Null]
    /\ UNCHANGED <<lists, index, writing>>

-----------------------------------------------------------------------------
AddDocument(w) ==
    \/ \E d \in Docs : AddVectors(w, d)
    \/ AddChunks(w)
    \/ AddOwners(w)

RemoveDocument(w) ==
    \/ \E d \in Docs : RemoveStart(w, d)
    \/ RemoveFilter(w) \/ RemoveRaises(w) \/ RemoveNothing(w)
    \/ KeepVectors(w) \/ KeepChunks(w) \/ KeepOwners(w)

Rebuild(w) ==
    \/ BuildEmpty(w) \/ BuildCopy(w) \/ BuildPublish(w)
    \/ BuildFill(w) \/ BuildRaises(w)

Search(r) ==
    \/ SearchStart(r) \/ SearchIndex(r) \/ SearchEmpty(r)
    \/ SearchRaises(r) \/ SearchChunk(r) \/ SearchEnd(r)

Next ==
    \/ \E w \in Writers : AddDocument(w) \/ RemoveDocument(w) \/ Rebuild(w)
    \/ \E r \in Readers : Search(r)

Spec == Init /\ [][Next]_vars

-----------------------------------------------------------------------------
Points == {"idle"} \cup AddPoints \cup RemovePoints \cup BuildPoints \cup ReadPoints
Quiet == \A w \in Writers : at[w] = "idle"

(* Types: every variable keeps to the values the code can give it.         *)
TypeOK ==
    /\ vectors \in Seq(Docs) /\ chunks \in Seq(Docs) /\ owners \in Seq(Docs)
    /\ index \in Seq(Docs) \cup {Null}
    /\ requested \subseteq Docs
    /\ removed \in BOOLEAN
    /\ at \in [Writers \cup Readers -> Points]
    /\ doc \in [Writers -> Docs \cup {Null}]
    /\ DOMAIN local = Writers
    /\ hit \in [Readers -> [position : Nat, vector : Docs \cup {Null}]]
    /\ answer \in [Readers -> Docs \cup {Null}]

(* After every change of a lone writer the parallel lists agree entry by   *)
(* entry: a position means the same document in each.                      *)
ListsAgree == Quiet => vectors = chunks /\ chunks = owners

(* Until something is removed, the chunk a search returns is the chunk     *)
(* whose vector matched the query, however an upload overlaps the search.  *)
AnswerMatches ==
    \/ removed
    \/ \A r \in Readers : at[r] = "answered" => answer[r] = hit[r].vector

(* ... and no search ends in an AttributeError or an IndexError.           *)
SearchSound == AnswerMatches /\ (removed \/ \A r \in Readers : at[r] # "failed")

(* However uploads overlap, once they are over no list lacks a document or *)
(* has one twice.                                                          *)
AddsLoseNothing ==
    Quiet /\ ~removed => \A list \in {vectors, chunks, owners} :
        Len(list) = Cardinality(requested) /\ Range(list) = requested

(* Whatever uploads and deletes overlap, the lists hold a document once.   *)
HeldOnce ==
    \A list \in {vectors, chunks, owners} : IsInjective(list)

(* "Chunk text and metadata are stored alongside vectors": a search        *)
(* answers with the chunk whose vector it found, removals included.        *)
AnswerAlwaysMatches ==
    \A r \in Readers : at[r] = "answered" => answer[r] = hit[r].vector

(* The owners list implements the set of documents VectorStore promises:   *)
(* a change adds or removes one document and touches no other.             *)
Store == INSTANCE ChunkIndex WITH indexed <- Range(owners)
ImplementsChunkIndex == Store!Spec
=============================================================================
