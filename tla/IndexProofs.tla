----------------------------- MODULE IndexProofs -----------------------------
(***************************************************************************)
(* Proofs about DenseIndex and HybridIndex, for every set of documents and *)
(* of threads, under the discipline each needs: one writer at a time for   *)
(* the lists of FaissVectorStore; for the dense and the sparse index       *)
(* together, one request at a time, or a question that begins when nobody  *)
(* is at work, whatever came before it.                                    *)
(***************************************************************************)
EXTENDS MCIndexes, WellFoundedInduction, FiniteSetTheorems, TLAPS

-----------------------------------------------------------------------------
(* One writer that adds and removes.                                       *)

(* How far the writer's change has gone through the lists.                 *)
ListsInv(w) ==
    /\ DOMAIN at = Writers \cup Readers
    /\ DOMAIN doc = Writers
    /\ DOMAIN local = Writers
    /\ \A r \in Readers : at[r] \in {"idle"} \cup ReadPoints
    /\ \/ /\ at[w] \in {"idle", "removing", "changed", "copied", "published"}
          /\ vectors = chunks /\ chunks = owners
       \/ /\ at[w] = "vectors added"
          /\ vectors = Append(chunks, doc[w]) /\ chunks = owners
       \/ /\ at[w] = "chunks added"
          /\ vectors = chunks /\ chunks = Append(owners, doc[w])
       \/ /\ at[w] = "filtered"
          /\ vectors = chunks /\ chunks = owners
          /\ local[w][1] = local[w][2] /\ local[w][2] = local[w][3]
       \/ /\ at[w] = "vectors kept"
          /\ vectors = local[w][2] /\ local[w][2] = local[w][3]
       \/ /\ at[w] = "chunks kept"
          /\ vectors = chunks /\ chunks = local[w][3]

(* A lone writer starts with equal lists.                                  *)
LEMMA InitLists ==
    ASSUME NEW w, Writers = {w}, Init
    PROVE  ListsInv(w)
BY DEF Init, ListsInv

(* No step of the writer lets the lists diverge beyond ListsInv.           *)
LEMMA WriterLists ==
    ASSUME NEW w, Writers = {w}, ListsInv(w),
           AddDocument(w) \/ RemoveDocument(w) \/ Rebuild(w)
    PROVE  ListsInv(w)'
<1> USE ConstantsAssumption DEF ListsInv, Goto, lists, writing, reading, ReadPoints
<1>1. CASE AddDocument(w)
  BY <1>1 DEF AddDocument, AddVectors, AddChunks, AddOwners
<1>2. CASE \E d \in Docs : RemoveStart(w, d)
  BY <1>2 DEF RemoveStart
<1>3. CASE RemoveFilter(w)
  <2>1. at[w] = "removing" /\ vectors = chunks /\ chunks = owners
    BY <1>3 DEF RemoveFilter
  <2>2. local'[w] = <<Kept(vectors, owners, doc[w]), Kept(chunks, owners, doc[w]),
                      Kept(owners, owners, doc[w])>>
    BY <1>3 DEF RemoveFilter
  <2>3. local'[w][1] = local'[w][2] /\ local'[w][2] = local'[w][3]
    BY <2>1, <2>2
  <2> QED
    BY <1>3, <2>1, <2>3 DEF RemoveFilter
<1>4. CASE RemoveRaises(w) \/ RemoveNothing(w)
  BY <1>4 DEF RemoveRaises, RemoveNothing
<1>5. CASE KeepVectors(w)
  BY <1>5 DEF KeepVectors
<1>6. CASE KeepChunks(w)
  BY <1>6 DEF KeepChunks
<1>7. CASE KeepOwners(w)
  BY <1>7 DEF KeepOwners
<1>8. CASE Rebuild(w)
  BY <1>8 DEF Rebuild, BuildEmpty, BuildCopy, BuildPublish, BuildFill, BuildRaises
<1> QED
  BY <1>1, <1>2, <1>3, <1>4, <1>5, <1>6, <1>7, <1>8 DEF RemoveDocument

(* Searches change neither the lists nor where the writer stands.          *)
LEMMA ReaderLists ==
    ASSUME NEW w, Writers = {w}, ListsInv(w), NEW r \in Readers, Search(r)
    PROVE  ListsInv(w)'
<1>1. w # r
  BY ConstantsAssumption
<1> QED
  BY <1>1 DEF ListsInv, Goto, lists, writing, reading, ReadPoints, Search, SearchStart,
     SearchIndex, SearchEmpty, SearchRaises, SearchChunk, SearchEnd

(* With one writer at a time the parallel lists agree after every change.  *)
THEOREM SerialListsAgree ==
    ASSUME NEW w, Writers = {w}
    PROVE  Spec => []ListsAgree
<1>1. Init => ListsInv(w)
  BY InitLists
<1>2. ListsInv(w) /\ [Next]_vars => ListsInv(w)'
  <2> SUFFICES ASSUME ListsInv(w), [Next]_vars PROVE ListsInv(w)'
    OBVIOUS
  <2>1. CASE UNCHANGED vars
    BY <2>1 DEF ListsInv, vars, lists, writing, reading
  <2>2. CASE AddDocument(w) \/ RemoveDocument(w) \/ Rebuild(w)
    BY <2>2, WriterLists
  <2>3. CASE \E r \in Readers : Search(r)
    BY <2>3, ReaderLists
  <2> QED
    BY <2>1, <2>2, <2>3 DEF Next
<1>3. ListsInv(w) => ListsAgree
  BY DEF ListsInv, ListsAgree, Quiet
<1> QED
  BY <1>1, <1>2, <1>3, PTL DEF Spec

-----------------------------------------------------------------------------
(* One writer that only adds, and any number of overlapping searches.      *)

Prefix(s, t) == Len(s) <= Len(t) /\ \A i \in 1..Len(s) : s[i] = t[i]

(* The index shows a prefix of the chunks, and the chunks only grow.       *)
AppendInv(w) ==
    /\ TypeOK
    /\ at[w] \in {"idle", "vectors added", "chunks added", "changed", "copied", "published"}
    /\ at[w] = "vectors added" => vectors = Append(chunks, doc[w]) /\ doc[w] \in Docs
    /\ at[w] # "vectors added" => vectors = chunks
    /\ at[w] = "chunks added" => doc[w] \in Docs
    /\ at[w] \in {"chunks added", "changed", "copied", "published"} => vectors # <<>>
    /\ at[w] \in {"copied", "published"} => local[w] = vectors
    /\ at[w] = "published" => index = <<>>
    /\ index # Null => Prefix(index, chunks)

(* What a search holds on to stays true until it answers.                  *)
SearchInv ==
    \A r \in Readers :
        /\ at[r] \in {"idle", "searching", "found", "answered", "empty"}
        /\ at[r] = "searching" => index # Null
        /\ at[r] = "found" =>
               /\ hit[r].position \in 1..Len(chunks)
               /\ chunks[hit[r].position] = hit[r].vector
        /\ at[r] = "answered" => answer[r] = hit[r].vector

(* Both hold of an empty store.                                            *)
LEMMA InitAppend ==
    ASSUME NEW w, Writers = {w}, Init
    PROVE  AppendInv(w) /\ SearchInv
<1>1. removed \in BOOLEAN
  BY DEF Init
<1>2. vectors \in Seq(Docs) /\ chunks \in Seq(Docs) /\ owners \in Seq(Docs)
  BY DEF Init
<1>3. TypeOK
  BY <1>1, <1>2 DEF Init, TypeOK, Points, NoHit
<1> QED
  BY <1>3 DEF Init, AppendInv, SearchInv

(* A writer's step that only lengthens the chunks, and never takes the     *)
(* index away, disturbs no search.                                         *)
LEMMA SearchUndisturbed ==
    ASSUME NEW w \in Writers, TypeOK, SearchInv,
           NEW p, at' = [at EXCEPT ![w] = p],
           hit' = hit, answer' = answer,
           index # Null => index' # Null,
           chunks' \in Seq(Docs), Prefix(chunks, chunks')
    PROVE  SearchInv'
<1> SUFFICES ASSUME NEW r \in Readers
             PROVE  /\ at'[r] \in {"idle", "searching", "found", "answered", "empty"}
                    /\ at'[r] = "searching" => index' # Null
                    /\ at'[r] = "found" =>
                           /\ hit'[r].position \in 1..Len(chunks')
                           /\ chunks'[hit'[r].position] = hit'[r].vector
                    /\ at'[r] = "answered" => answer'[r] = hit'[r].vector
  BY DEF SearchInv
<1>1. at'[r] = at[r]
  BY ConstantsAssumption DEF TypeOK
<1>2. at[r] = "found" =>
        /\ hit[r].position \in 1..Len(chunks')
        /\ chunks'[hit[r].position] = hit[r].vector
  <2>1. chunks \in Seq(Docs) /\ Len(chunks) \in Nat /\ Len(chunks') \in Nat
    BY DEF TypeOK
  <2> QED
    BY <2>1 DEF SearchInv, Prefix
<1> QED
  BY <1>1, <1>2 DEF SearchInv

(* Every list, and the empty one, is a prefix of a list.                   *)
LEMMA PrefixSelf ==
    ASSUME NEW s \in Seq(Docs)
    PROVE  Prefix(s, s) /\ Prefix(<<>>, s)
BY DEF Prefix

(* A prefix stays one when the list grows.                                 *)
LEMMA PrefixAppend ==
    ASSUME NEW s \in Seq(Docs), NEW t \in Seq(Docs), Prefix(s, t), NEW d \in Docs
    PROVE  Append(t, d) \in Seq(Docs) /\ Prefix(s, Append(t, d)) /\ Append(t, d) # <<>>
<1> DEFINE u == Append(t, d)
<1>1. u \in Seq(Docs) /\ Len(u) = Len(t) + 1 /\ Len(t) \in Nat /\ Len(s) \in Nat
  OBVIOUS
<1>2. \A i \in 1..Len(t) : u[i] = t[i]
  OBVIOUS
<1>3. Prefix(s, u)
  BY <1>1, <1>2 DEF Prefix
<1>4. u # <<>>
  BY <1>1
<1> QED
  BY <1>1, <1>3, <1>4

(* Every step of add_chunks preserves both.                                *)
LEMMA AddStep ==
    ASSUME NEW w, Writers = {w}, AppendInv(w), SearchInv, AddDocument(w)
    PROVE  AppendInv(w)' /\ SearchInv'
<1> USE ConstantsAssumption DEF Goto, lists, writing, reading
<1>0. TypeOK /\ w \in Writers /\ chunks \in Seq(Docs) /\ Prefix(chunks, chunks)
  BY PrefixSelf DEF AppendInv, TypeOK
<1>1. CASE \E d \in Docs : AddVectors(w, d)
  <2> PICK d \in Docs : AddVectors(w, d)
    BY <1>1
  <2>1. vectors = chunks /\ Append(vectors, d) \in Seq(Docs)
    BY <1>0, PrefixAppend DEF AddVectors, AppendInv
  <2>2. TypeOK'
    BY <2>1 DEF AddVectors, AppendInv, TypeOK, Points, AddPoints
  <2>3. AppendInv(w)'
    BY <2>1, <2>2 DEF AddVectors, AppendInv, TypeOK
  <2>4. SearchInv'
    BY <1>0, SearchUndisturbed DEF AddVectors
  <2> QED
    BY <2>3, <2>4
<1>2. CASE AddChunks(w)
  <2>1. /\ doc[w] \in Docs /\ vectors' = vectors
        /\ chunks' = Append(chunks, doc[w]) /\ vectors = Append(chunks, doc[w])
    BY <1>2 DEF AddChunks, AppendInv
  <2>2. chunks' \in Seq(Docs) /\ Prefix(chunks, chunks') /\ chunks' # <<>>
    BY <1>0, <2>1, PrefixAppend
  <2>3. index # Null => Prefix(index, chunks')
    BY <1>0, <2>1, PrefixAppend DEF AppendInv, TypeOK
  <2>4. TypeOK'
    BY <1>2, <2>2 DEF AddChunks, AppendInv, TypeOK, Points, AddPoints
  <2>5. AppendInv(w)'
    BY <1>2, <2>1, <2>2, <2>3, <2>4 DEF AddChunks, AppendInv, TypeOK
  <2>6. SearchInv'
    BY <1>0, <1>2, <2>2, SearchUndisturbed DEF AddChunks
  <2> QED
    BY <2>5, <2>6
<1>3. CASE AddOwners(w)
  <2>1. doc[w] \in Docs /\ vectors = chunks
    BY <1>3 DEF AddOwners, AppendInv
  <2>2. Append(owners, doc[w]) \in Seq(Docs)
    BY <1>0, <2>1 DEF TypeOK
  <2>3. TypeOK'
    BY <1>3, <2>1, <2>2 DEF AddOwners, AppendInv, TypeOK, Points, BuildPoints
  <2>4. AppendInv(w)'
    BY <1>3, <2>1, <2>3 DEF AddOwners, AppendInv, TypeOK
  <2>5. SearchInv'
    BY <1>0, <1>3, SearchUndisturbed DEF AddOwners
  <2> QED
    BY <2>4, <2>5
<1> QED
  BY <1>1, <1>2, <1>3 DEF AddDocument

(* Every step of _rebuild_index preserves both: the new index is empty, or *)
(* all of the chunks.                                                      *)
LEMMA RebuildStep ==
    ASSUME NEW w, Writers = {w}, AppendInv(w), SearchInv, Rebuild(w)
    PROVE  AppendInv(w)' /\ SearchInv'
<1> USE ConstantsAssumption DEF Goto, lists, writing, reading
<1>0. /\ TypeOK /\ w \in Writers /\ chunks \in Seq(Docs)
      /\ Prefix(chunks, chunks) /\ Prefix(<<>>, chunks)
      /\ <<>> \in Seq(Docs) /\ <<>> # Null /\ chunks # Null
  <2>1. TypeOK /\ w \in Writers
    BY DEF AppendInv
  <2>2. chunks \in Seq(Docs) /\ <<>> \in Seq(Docs)
    BY <2>1 DEF TypeOK
  <2>3. Null \notin Seq(Docs)
    BY ConstantsAssumption
  <2> QED
    BY <2>1, <2>2, <2>3, PrefixSelf
<1>1. ~BuildEmpty(w) /\ ~BuildRaises(w)
  BY <1>0 DEF BuildEmpty, BuildRaises, AppendInv
<1>2. CASE BuildCopy(w)
  <2>1. TypeOK'
    BY <1>2 DEF BuildCopy, AppendInv, TypeOK, Points, BuildPoints
  <2>2. AppendInv(w)'
    BY <1>2, <2>1 DEF BuildCopy, AppendInv, TypeOK
  <2>3. SearchInv'
    BY <1>0, <1>2, SearchUndisturbed DEF BuildCopy
  <2> QED
    BY <2>2, <2>3
<1>3. CASE BuildPublish(w)
  <2>1. TypeOK'
    BY <1>0, <1>3 DEF BuildPublish, AppendInv, TypeOK, Points, BuildPoints
  <2>2. AppendInv(w)'
    BY <1>0, <1>3, <2>1 DEF BuildPublish, AppendInv, TypeOK
  <2>3. SearchInv'
    BY <1>0, <1>3, SearchUndisturbed DEF BuildPublish
  <2> QED
    BY <2>2, <2>3
<1>4. CASE BuildFill(w)
  <2>1. index = <<>> /\ local[w] = vectors /\ vectors = chunks
    BY <1>4 DEF BuildFill, AppendInv
  <2>2. index' = chunks
    BY <1>0, <1>4, <2>1 DEF BuildFill
  <2>3. TypeOK'
    BY <1>0, <1>4, <2>2 DEF BuildFill, AppendInv, TypeOK, Points
  <2>4. AppendInv(w)'
    BY <1>0, <1>4, <2>1, <2>2, <2>3 DEF BuildFill, AppendInv, TypeOK
  <2>5. index' # Null
    BY <1>0, <2>2
  <2>6. SearchInv'
    BY <1>0, <1>4, <2>5, SearchUndisturbed DEF BuildFill
  <2> QED
    BY <2>4, <2>6
<1> QED
  BY <1>1, <1>2, <1>3, <1>4 DEF Rebuild

(* A search finds a position the chunks already have.                      *)
LEMMA SearchStep ==
    ASSUME NEW w, Writers = {w}, AppendInv(w), SearchInv, NEW r \in Readers, Search(r)
    PROVE  AppendInv(w)' /\ SearchInv'
<1> USE ConstantsAssumption DEF Goto, lists, writing, reading
<1>0. /\ w # r /\ TypeOK /\ chunks \in Seq(Docs) /\ Len(chunks) \in Nat
      /\ UNCHANGED <<lists, index, writing>>
      /\ \A t \in Writers \cup Readers : t # r => at'[t] = at[t]
  <2>1. w # r
    BY ConstantsAssumption
  <2>2. TypeOK
    BY DEF AppendInv
  <2>3. chunks \in Seq(Docs) /\ Len(chunks) \in Nat
    BY <2>2 DEF TypeOK
  <2>4. \E p : at' = [at EXCEPT ![r] = p]
    BY DEF Search, SearchStart, SearchIndex, SearchEmpty, SearchRaises, SearchChunk, SearchEnd
  <2>5. UNCHANGED <<lists, index, writing>>
    BY DEF Search, SearchStart, SearchIndex, SearchEmpty, SearchRaises, SearchChunk, SearchEnd
  <2> QED
    BY <2>1, <2>2, <2>3, <2>4, <2>5 DEF TypeOK
<1>1. ~SearchRaises(r)
  <2>1. at[r] = "found" => hit[r].position <= Len(chunks)
    BY <1>0 DEF SearchInv
  <2>2. at[r] = "found" => hit[r].position \in Nat
    BY <1>0 DEF TypeOK
  <2> QED
    BY <1>0, <2>1, <2>2 DEF SearchRaises, SearchInv
<1>2. TypeOK'
  <2>1. CASE SearchIndex(r)
    <3>1. PICK i \in DOMAIN index :
              hit' = [hit EXCEPT ![r] = [position |-> i, vector |-> index[i]]]
      BY <2>1 DEF SearchIndex
    <3>2. index \in Seq(Docs)
      BY <2>1 DEF SearchIndex, AppendInv, TypeOK
    <3>3. i \in Nat /\ index[i] \in Docs
      BY <3>2
    <3> QED
      BY <2>1, <1>0, <3>1, <3>3 DEF SearchIndex, TypeOK, Points, ReadPoints
  <2>2. CASE SearchChunk(r)
    <3>1. at[r] = "found" /\ chunks[hit[r].position] \in Docs
      BY <1>0, <2>2 DEF SearchChunk, SearchInv
    <3> QED
      BY <1>0, <2>2, <3>1 DEF SearchChunk, TypeOK, Points, ReadPoints
  <2>3. CASE SearchStart(r) \/ SearchEmpty(r)
    BY <1>0, <2>3 DEF SearchStart, SearchEmpty, TypeOK, Points, ReadPoints
  <2>4. CASE SearchEnd(r)
    <3>1. NoHit \in [position : Nat, vector : Docs \cup {Null}]
      BY DEF NoHit
    <3> QED
      BY <1>0, <2>4, <3>1 DEF SearchEnd, TypeOK, Points
  <2> QED
    BY <1>1, <2>1, <2>2, <2>3, <2>4 DEF Search
<1>3. AppendInv(w)'
  BY <1>0, <1>2 DEF AppendInv, TypeOK
<1>4. SearchInv'
  <2>1. CASE SearchIndex(r)
    <3>1. PICK i \in DOMAIN index :
              hit' = [hit EXCEPT ![r] = [position |-> i, vector |-> index[i]]]
      BY <2>1 DEF SearchIndex
    <3>2. index \in Seq(Docs) /\ Prefix(index, chunks)
      BY <2>1 DEF SearchIndex, AppendInv, TypeOK
    <3>3. i \in 1..Len(chunks) /\ chunks[i] = index[i]
      BY <1>0, <3>2 DEF Prefix
    <3> QED
      BY <2>1, <1>0, <3>1, <3>3 DEF SearchIndex, TypeOK, SearchInv
  <2>2. CASE SearchStart(r) \/ SearchEmpty(r) \/ SearchChunk(r) \/ SearchEnd(r)
    BY <1>0, <2>2 DEF SearchStart, SearchEmpty, SearchChunk, SearchEnd, SearchInv, TypeOK
  <2> QED
    BY <1>1, <2>1, <2>2 DEF Search
<1> QED
  BY <1>3, <1>4

(* A removal is never forgotten.                                           *)
LEMMA RemovedStays == removed /\ [Next]_vars => removed'
<1> SUFFICES ASSUME removed, [Next]_vars
             PROVE  removed'
  OBVIOUS
<1> USE DEF lists, writing, reading
<1>1. ASSUME NEW w \in Writers, AddDocument(w)
      PROVE  removed'
  BY <1>1 DEF AddDocument, AddVectors, AddChunks, AddOwners
<1>2. ASSUME NEW w \in Writers, RemoveDocument(w)
      PROVE  removed'
  BY <1>2 DEF RemoveDocument, RemoveStart, RemoveFilter, RemoveRaises, RemoveNothing,
     KeepVectors, KeepChunks, KeepOwners
<1>3. ASSUME NEW w \in Writers, Rebuild(w)
      PROVE  removed'
  BY <1>3 DEF Rebuild, BuildEmpty, BuildCopy, BuildPublish, BuildFill, BuildRaises
<1>4. ASSUME NEW r \in Readers, Search(r)
      PROVE  removed'
  BY <1>4 DEF Search, SearchStart, SearchIndex, SearchEmpty, SearchRaises, SearchChunk, SearchEnd
<1>5. CASE UNCHANGED vars
  BY <1>5 DEF vars
<1> QED
  BY <1>1, <1>2, <1>3, <1>4, <1>5 DEF Next

(* The invariant of a store a lone writer has only added to so far.        *)
LEMMA AppendSafety ==
    ASSUME NEW w, Writers = {w}
    PROVE  Spec => [](removed \/ (AppendInv(w) /\ SearchInv))
<1> DEFINE Inv == removed \/ (AppendInv(w) /\ SearchInv)
<1>1. Init => Inv
  BY InitAppend
<1>2. Inv /\ [Next]_vars => Inv'
  <2> SUFFICES ASSUME AppendInv(w), SearchInv, [Next]_vars
               PROVE  removed' \/ (AppendInv(w)' /\ SearchInv')
    BY RemovedStays
  <2>1. CASE UNCHANGED vars
    BY <2>1 DEF AppendInv, SearchInv, TypeOK, Points, Prefix, vars, lists, writing, reading
  <2>2. CASE AddDocument(w) \/ Rebuild(w)
    BY <2>2, AddStep, RebuildStep
  <2>3. CASE RemoveDocument(w)
    <3>1. PICK d \in Docs : RemoveStart(w, d)
      BY <2>3 DEF RemoveDocument, RemoveFilter, RemoveRaises, RemoveNothing,
         KeepVectors, KeepChunks, KeepOwners, AppendInv
    <3> QED
      BY <3>1 DEF RemoveStart
  <2>4. CASE \E r \in Readers : Search(r)
    BY <2>4, SearchStep
  <2> QED
    BY <2>1, <2>2, <2>3, <2>4 DEF Next
<1> QED
  BY <1>1, <1>2, PTL DEF Spec

(* While a lone writer only adds, a search that overlaps it returns the    *)
(* chunk whose vector it matched, and its position always has a chunk.     *)
THEOREM AppendsSearchSound ==
    ASSUME NEW w, Writers = {w}
    PROVE  Spec => []SearchSound
<1>1. removed \/ (AppendInv(w) /\ SearchInv) => SearchSound
  BY DEF SearchInv, SearchSound, AnswerMatches
<1> QED
  BY <1>1, AppendSafety, PTL

-----------------------------------------------------------------------------
(* The loop of remove_document, and how lists grow.                        *)

(* A set of numbers that has any has a least one.                          *)
LEMMA Least ==
    ASSUME NEW T \in SUBSET Nat, T # {}
    PROVE  \E n \in T : \A m \in T : n <= m
<1>1. \E x \in T : \A y \in T : ~ (<<y, x>> \in OpToRel(<, Nat))
  BY NatLessThanWellFounded, WFMin
<1>2. PICK x \in T : \A y \in T : ~ (<<y, x>> \in OpToRel(<, Nat))
  BY <1>1
<1>3. \A m \in T : m < x => <<m, x>> \in OpToRel(<, Nat)
  BY DEF OpToRel
<1>4. \A m \in T : ~ (m < x)
  BY <1>2, <1>3
<1> QED
  BY <1>4

(* A set of numbers with 0 and the successor of each member has all.       *)
LEMMA Induction ==
    ASSUME NEW T \in SUBSET Nat, 0 \in T, \A n \in T : n + 1 \in T
    PROVE  T = Nat
<1> SUFFICES ASSUME T # Nat
             PROVE  FALSE
  OBVIOUS
<1>1. PICK n \in Nat \ T : \A m \in Nat \ T : n <= m
  BY Least
<1>2. n # 0 /\ n - 1 \in Nat /\ n - 1 \in T
  BY <1>1
<1>3. (n - 1) + 1 \in T
  BY <1>2
<1> QED
  BY <1>1, <1>3

(* f is the list the loop of remove_document has kept after each of the    *)
(* first n rounds.                                                         *)
Loop(f, list, by, d, n) ==
    f = [i \in 0..n |->
            IF i = 0 THEN <<>>
            ELSE IF by[i] = d THEN f[i - 1]
            ELSE Append(f[i - 1], list[i])]

(* The loop runs through any list: the recursion of Kept defines a         *)
(* function.                                                               *)
LEMMA LoopRuns ==
    ASSUME NEW list, NEW by, NEW d, NEW n \in Nat
    PROVE  \E f : Loop(f, list, by, d, n)
<1> DEFINE T == {m \in Nat : \E f : Loop(f, list, by, d, m)}
<1>1. 0 \in T
  <2>1. Loop([i \in 0..0 |-> <<>>], list, by, d, 0)
    BY DEF Loop
  <2> QED
    BY <2>1
<1>2. ASSUME NEW m \in T
      PROVE  m + 1 \in T
  <2>1. PICK f : Loop(f, list, by, d, m)
    OBVIOUS
  <2>0. \A i \in 0..m : f[i] = IF i = 0 THEN <<>>
                             ELSE IF by[i] = d THEN f[i - 1]
                             ELSE Append(f[i - 1], list[i])
    BY <2>1 DEF Loop
  <2> DEFINE g == [i \in 0..(m + 1) |->
                     IF i = m + 1 THEN (IF by[i] = d THEN f[m] ELSE Append(f[m], list[i]))
                     ELSE f[i]]
             h == [i \in 0..(m + 1) |->
                     IF i = 0 THEN <<>>
                     ELSE IF by[i] = d THEN g[i - 1]
                     ELSE Append(g[i - 1], list[i])]
  <2>2. \A i \in 0..(m + 1) : h[i] = g[i]
    <3> SUFFICES ASSUME NEW i \in 0..(m + 1)
                 PROVE  h[i] = g[i]
      OBVIOUS
    <3>1. CASE i = 0
      BY <3>1, <2>1 DEF Loop
    <3>2. CASE i = m + 1
      BY <3>2
    <3>3. CASE i \in 1..m
      <4>1. i - 1 \in 0..m /\ i \in 0..m /\ g[i - 1] = f[i - 1] /\ g[i] = f[i]
        BY <3>3
      <4>2. f[i] = IF by[i] = d THEN f[i - 1] ELSE Append(f[i - 1], list[i])
        BY <3>3, <4>1, <2>0
      <4> QED
        BY <3>3, <4>1, <4>2
    <3> QED
      BY <3>1, <3>2, <3>3
  <2>3. g = h
    BY <2>2
  <2>4. Loop(g, list, by, d, m + 1)
    BY <2>3 DEF Loop
  <2> HIDE DEF g, h
  <2> QED
    BY <2>4
<1> HIDE DEF T
<1>3. T = Nat
  <2>1. T \in SUBSET Nat
    BY DEF T
  <2> QED
    BY <1>1, <1>2, <2>1, Induction
<1> QED
  BY <1>3 DEF T

(* Appending to a list adds the one element, and a new one repeats         *)
(* nothing.                                                                *)
LEMMA AppendHeld ==
    ASSUME NEW list \in Seq(Docs), NEW d \in Docs
    PROVE  /\ Append(list, d) \in Seq(Docs)
           /\ Range(Append(list, d)) = Range(list) \cup {d}
           /\ IsInjective(list) /\ d \notin Range(list) => IsInjective(Append(list, d))
<1> DEFINE u == Append(list, d)
<1>1. /\ u \in Seq(Docs) /\ Len(u) = Len(list) + 1 /\ Len(list) \in Nat
      /\ DOMAIN u = 1..Len(u) /\ DOMAIN list = 1..Len(list)
  OBVIOUS
<1>2. \A i \in DOMAIN u : u[i] = IF i = Len(list) + 1 THEN d ELSE list[i]
  OBVIOUS
<1>3. ASSUME IsInjective(list), d \notin Range(list)
      PROVE  IsInjective(u)
  <2>1. \A i \in DOMAIN list : list[i] # d
    BY <1>3 DEF Range
  <2> QED
    BY <1>1, <1>2, <1>3, <2>1 DEF IsInjective
<1>5. Range(u) \subseteq Range(list) \cup {d}
  BY <1>1, <1>2 DEF Range
<1>6. Range(list) \cup {d} \subseteq Range(u)
  <2>1. \A i \in DOMAIN list : i \in DOMAIN u /\ u[i] = list[i]
    BY <1>1, <1>2
  <2>2. Len(list) + 1 \in DOMAIN u /\ u[Len(list) + 1] = d
    BY <1>1, <1>2
  <2> QED
    BY <2>1, <2>2 DEF Range
<1> QED
  BY <1>1, <1>3, <1>5, <1>6

(* The first n entries of a list that another document than d owns.        *)
Owned(list, by, d, n) == {list[i] : i \in {j \in 1..n : by[j] # d}}

(* What remove_document keeps of a list: the entries of the other owners,  *)
(* and none twice unless the list had it twice.                            *)
LEMMA KeptIs ==
    ASSUME NEW list \in Seq(Docs), NEW by \in Seq(Docs), NEW d,
           Len(list) = Len(by)
    PROVE  /\ Kept(list, by, d) \in Seq(Docs)
           /\ Range(Kept(list, by, d)) = Owned(list, by, d, Len(by))
           /\ IsInjective(list) => IsInjective(Kept(list, by, d))
<1> DEFINE N == Len(by)
<1>0. N \in Nat /\ \A i \in 1..N : list[i] \in Docs
  OBVIOUS
<1>1. PICK f : Loop(f, list, by, d, N) /\ Kept(list, by, d) = f[N]
  <2> DEFINE f == CHOOSE f : Loop(f, list, by, d, N)
  <2>1. Loop(f, list, by, d, N)
    BY <1>0, LoopRuns
  <2>2. Kept(list, by, d) = f[N]
    BY DEF Kept, Loop
  <2> QED
    BY <2>1, <2>2
<1> DEFINE Good(n) == /\ f[n] \in Seq(Docs)
                      /\ Range(f[n]) = Owned(list, by, d, n)
                      /\ IsInjective(list) => IsInjective(f[n])
           T == {n \in Nat : n <= N => Good(n)}
<1>2. 0 \in T
  <2>1. f[0] = <<>>
    BY <1>0, <1>1 DEF Loop
  <2>2. <<>> \in Seq(Docs) /\ IsInjective(<<>>) /\ Range(<<>>) = {}
    BY DEF IsInjective, Range
  <2>3. Owned(list, by, d, 0) = {}
    <3>1. 1..0 = {}
      OBVIOUS
    <3> QED
      BY <3>1 DEF Owned
  <2> QED
    BY <2>1, <2>2, <2>3
<1>3. ASSUME NEW n \in T
      PROVE  n + 1 \in T
  <2> SUFFICES ASSUME n + 1 <= N
               PROVE  Good(n + 1)
    OBVIOUS
  <2>1. Good(n) /\ n \in Nat /\ n + 1 \in 1..N
    BY <1>0
  <2>2. f[n + 1] = IF by[n + 1] = d THEN f[n] ELSE Append(f[n], list[n + 1])
    <3>1. n + 1 \in 0..N /\ n + 1 # 0 /\ (n + 1) - 1 = n
      BY <2>1
    <3> QED
      BY <3>1, <1>1 DEF Loop
  <2>3. Owned(list, by, d, n + 1) =
          Owned(list, by, d, n) \cup (IF by[n + 1] = d THEN {} ELSE {list[n + 1]})
    <3>1. 1..(n + 1) = (1..n) \cup {n + 1}
      BY <2>1
    <3> QED
      BY <3>1 DEF Owned
  <2>4. IsInjective(list) => list[n + 1] \notin Owned(list, by, d, n)
    <3>1. \A j \in 1..n : j \in DOMAIN list /\ n + 1 \in DOMAIN list /\ j # n + 1
      BY <1>0, <2>1
    <3> QED
      BY <3>1 DEF IsInjective, Owned
  <2>5. CASE by[n + 1] = d
    BY <2>1, <2>2, <2>3, <2>5
  <2>6. CASE by[n + 1] # d
    <3>1. /\ list[n + 1] \in Docs
          /\ IsInjective(list) => list[n + 1] \notin Range(f[n])
      BY <1>0, <2>1, <2>4
    <3>2. f[n + 1] = Append(f[n], list[n + 1])
      BY <2>2, <2>6
    <3>3. /\ Append(f[n], list[n + 1]) \in Seq(Docs)
          /\ IsInjective(list) => IsInjective(Append(f[n], list[n + 1]))
          /\ Range(Append(f[n], list[n + 1])) = Owned(list, by, d, n + 1)
      BY <2>1, <2>3, <2>6, <3>1, AppendHeld
    <3> QED
      BY <3>2, <3>3
  <2> QED
    BY <2>5, <2>6
<1> HIDE DEF T
<1>4. T = Nat
  <2>1. T \in SUBSET Nat
    BY DEF T
  <2> QED
    BY <1>2, <1>3, <2>1, Induction
<1>5. Good(N)
  BY <1>0, <1>4 DEF T
<1> QED
  BY <1>1, <1>5

(* A list without repetitions is as long as its set is large.              *)
LEMMA CountHeld ==
    ASSUME NEW list \in Seq(Docs), IsInjective(list)
    PROVE  Len(list) = Cardinality(Range(list))
<1>1. Len(list) \in Nat /\ DOMAIN list = 1..Len(list)
  OBVIOUS
<1>2. IsFiniteSet(1..Len(list)) /\ Cardinality(1..Len(list)) = Len(list)
  <2>1. IsFiniteSet(1..Len(list))
        /\ Cardinality(1..Len(list)) = IF 1 > Len(list) THEN 0 ELSE Len(list) - 1 + 1
    BY <1>1, FS_Interval
  <2> QED
    BY <1>1, <2>1
<1>3. list \in Bijection(1..Len(list), Range(list))
  <2>1. list \in [1..Len(list) -> Range(list)]
    BY <1>1 DEF Range
  <2> QED
    BY <1>1, <2>1 DEF Bijection, Injection, Surjection, IsInjective, Range
<1>4. ExistsBijection(1..Len(list), Range(list))
  BY <1>3 DEF ExistsBijection
<1> QED
  BY <1>2, <1>4, FS_Bijection

-----------------------------------------------------------------------------
(* One writer implements the set of documents.                             *)

(* Where a removal holds the lists it filtered.                            *)
Snapshots == {"filtered", "vectors kept", "chunks kept"}
(* Filtering the owners by a document drops this document and no other.    *)
LEMMA DropsOne ==
    ASSUME NEW by \in Seq(Docs), NEW d
    PROVE  Range(Kept(by, by, d)) = Range(by) \ {d}
<1>1. Range(Kept(by, by, d)) = Owned(by, by, d, Len(by))
  BY KeptIs
<1>2. DOMAIN by = 1..Len(by)
  OBVIOUS
<1> QED
  BY <1>1, <1>2 DEF Owned, Range

(* While a single writer removes a document, the list it is going to       *)
(* store is the current list of owners without this document.              *)
Lone(w) ==
    /\ DOMAIN at = Writers \cup Readers /\ DOMAIN doc = Writers /\ DOMAIN local = Writers
    /\ owners \in Seq(Docs)
    /\ \A r \in Readers : at[r] \in {"idle"} \cup ReadPoints
    /\ at[w] \in AddPoints \cup {"removing"} \cup Snapshots => doc[w] \in Docs
    /\ at[w] \in Snapshots =>
           local[w][3] \in Seq(Docs) /\ Range(local[w][3]) = Range(owners) \ {doc[w]}

(* Each step of a store with one writer is a step of the set of            *)
(* documents, or changes nothing of it.                                    *)
LEMMA LoneStep ==
    ASSUME NEW w, Writers = {w}, Lone(w), [Next]_vars
    PROVE  /\ Lone(w)'
           /\ [Store!Next]_(Range(owners))
<1> USE DEF Goto, lists, writing, reading, AddPoints, ReadPoints
<1>0. w \in Writers /\ \A r \in Readers : r # w
  BY ConstantsAssumption
<1>1. CASE \E d \in Docs : AddVectors(w, d)
  <2>1. PICK d \in Docs : AddVectors(w, d)
    BY <1>1
  <2> QED
    BY <1>0, <2>1 DEF AddVectors, Lone, Snapshots
<1>2. CASE AddChunks(w)
  BY <1>2 DEF AddChunks, Lone, Snapshots
<1>3. CASE AddOwners(w)
  <2>1. doc[w] \in Docs /\ owners' = Append(owners, doc[w])
    BY <1>3 DEF AddOwners, Lone
  <2>2. owners' \in Seq(Docs) /\ Range(owners') = Range(owners) \cup {doc[w]}
    BY <2>1, AppendHeld DEF Lone
  <2>3. Lone(w)'
    BY <1>3, <2>2 DEF AddOwners, Lone, Snapshots
  <2> QED
    BY <2>1, <2>2, <2>3 DEF Store!Next, Store!Add
<1>4. CASE \E d \in Docs : RemoveStart(w, d)
  <2>1. PICK d \in Docs : RemoveStart(w, d)
    BY <1>4
  <2> QED
    BY <1>0, <2>1 DEF RemoveStart, Lone, Snapshots
<1>5. CASE RemoveFilter(w)
  <2>1. /\ at[w] = "removing" /\ at' = [at EXCEPT ![w] = "filtered"]
        /\ local'[w][3] = Kept(owners, owners, doc[w]) /\ UNCHANGED <<owners, doc>>
    BY <1>0, <1>5 DEF RemoveFilter, Lone
  <2>2. local'[w][3] \in Seq(Docs) /\ Range(local'[w][3]) = Range(owners) \ {doc[w]}
    BY <2>1, DropsOne, KeptIs DEF Lone
  <2> QED
    BY <1>0, <1>5, <2>1, <2>2 DEF RemoveFilter, Lone
<1>6. CASE RemoveRaises(w) \/ RemoveNothing(w)
  BY <1>6 DEF RemoveRaises, RemoveNothing, Lone, Snapshots
<1>7. CASE KeepVectors(w) \/ KeepChunks(w)
  BY <1>7 DEF KeepVectors, KeepChunks, Lone, Snapshots
<1>8. CASE KeepOwners(w)
  <2>1. Lone(w)'
    BY <1>8 DEF KeepOwners, Lone, Snapshots
  <2>2. doc[w] \in Docs /\ Range(owners') = Range(owners) \ {doc[w]}
    BY <1>8 DEF KeepOwners, Lone, Snapshots
  <2> QED
    BY <2>1, <2>2 DEF Store!Next, Store!Remove
<1>9. CASE Rebuild(w)
  BY <1>9 DEF Rebuild, BuildEmpty, BuildCopy, BuildPublish, BuildFill, BuildRaises,
     Lone, Snapshots
<1>10. CASE \E r \in Readers : Search(r)
  <2>1. PICK r \in Readers : Search(r)
    BY <1>10
  <2> QED
    BY <1>0, <2>1 DEF Search, SearchStart, SearchIndex, SearchEmpty, SearchRaises,
       SearchChunk, SearchEnd, Lone
<1>11. CASE UNCHANGED vars
  BY <1>11 DEF vars, Lone
<1> QED
  BY <1>1, <1>2, <1>3, <1>4, <1>5, <1>6, <1>7, <1>8, <1>9, <1>10, <1>11
  DEF Next, AddDocument, RemoveDocument

(* With one writer at a time FaissVectorStore implements the set           *)
(* VectorStore promises: searches, and the steps in which the lists        *)
(* differ, are invisible to whoever counts on the owners.                  *)
THEOREM SerialImplements ==
    ASSUME NEW w, Writers = {w}
    PROVE  Spec => ImplementsChunkIndex
<1>1. Init => Lone(w) /\ Store!Init
  BY DEF Init, Lone, AddPoints, Snapshots, Store!Init, Range
<1> QED
  BY <1>1, LoneStep, PTL DEF Spec, ImplementsChunkIndex, Store!Spec

-----------------------------------------------------------------------------
(* Writers that overlap.                                                   *)

(* The second store's operators on lists and sets are the first one's.     *)
LEMMA SameHelpers ==
    /\ \A list, by, d : Pair!Kept(list, by, d) = Kept(list, by, d)
    /\ \A f : Pair!Range(f) = Range(f)
    /\ \A f : Pair!IsInjective(f) <=> IsInjective(f)
    /\ \A S : Pair!Cardinality(S) = Cardinality(S)
<1>1. \A list, by, d : Pair!Kept(list, by, d) = Kept(list, by, d)
  BY DEF Pair!Kept, Kept
<1>2. \A f : Pair!Range(f) = Range(f)
  BY DEF Pair!Range, Range
<1>3. \A f : Pair!IsInjective(f) <=> IsInjective(f)
  BY DEF Pair!IsInjective, IsInjective
<1>4. \A S : Pair!Cardinality(S) = Cardinality(S)
  BY DEF Pair!Cardinality, Cardinality
<1> QED
  BY <1>1, <1>2, <1>3, <1>4

(* A list with nothing in it that was not uploaded, and nothing twice.     *)
Held(list) ==
    /\ list \in Seq(Docs) /\ IsInjective(list)
    /\ Range(list) \subseteq crewRequested

(* Types, and the lists hold a document once.                              *)
OnceTypes ==
    /\ crewRequested \subseteq Docs
    /\ crewRemoved \in BOOLEAN
    /\ DOMAIN crewAt = Crew
    /\ DOMAIN crewDoc = Crew
    /\ DOMAIN crewLocal = Crew
    /\ Held(crewVectors) /\ Held(crewChunks) /\ Held(crewOwners)

(* The document of an upload is not yet in the lists it has not reached.   *)
Adding(w) ==
    crewAt[w] \in AddPoints =>
        /\ crewDoc[w] \in crewRequested
        /\ crewDoc[w] \notin Range(crewOwners)
        /\ crewAt[w] = "vectors added" => crewDoc[w] \notin Range(crewChunks)

(* The lists a removal is going to store are sound too, stale as they      *)
(* are.                                                                    *)
Snapshot(w) ==
    crewAt[w] \in Snapshots =>
        Held(crewLocal[w][1]) /\ Held(crewLocal[w][2]) /\ Held(crewLocal[w][3])

(* Two uploads never add the same document, and what a removal is going    *)
(* to store lacks what an upload is still going to append.                 *)
Apart(u, w) ==
    /\ crewAt[u] \in AddPoints /\ crewAt[w] \in AddPoints /\ u # w =>
           crewDoc[u] # crewDoc[w]
    /\ crewAt[u] \in AddPoints /\ crewAt[w] \in Snapshots =>
           crewDoc[u] \notin Range(crewLocal[w][3])
    /\ crewAt[u] = "vectors added" /\ crewAt[w] \in Snapshots =>
           crewDoc[u] \notin Range(crewLocal[w][2])

(* Without removals a document is missing from a list only while its       *)
(* upload is on the way there.                                             *)
OnlyAdds ==
    ~crewRemoved =>
        /\ \A w \in Crew : crewAt[w] \notin RemovePoints
        /\ Range(crewVectors) = crewRequested
        /\ \A d \in crewRequested \ Range(crewChunks) :
              \E w \in Crew : crewAt[w] = "vectors added" /\ crewDoc[w] = d
        /\ \A d \in crewRequested \ Range(crewOwners) :
              \E w \in Crew : crewAt[w] \in AddPoints /\ crewDoc[w] = d

(* The invariant of a store whose writers overlap.                         *)
OnceInv ==
    /\ OnceTypes
    /\ \A w \in Crew : Adding(w) /\ Snapshot(w)
    /\ \A u, w \in Crew : Apart(u, w)
    /\ OnlyAdds

(* It holds of an empty store.                                             *)
LEMMA OnceInit == Pair!Init => OnceInv
<1> SUFFICES ASSUME Pair!Init
             PROVE  OnceInv
  OBVIOUS
<1>1. <<>> \in Seq(Docs) /\ IsInjective(<<>>) /\ Range(<<>>) = {}
  BY DEF IsInjective, Range
<1> QED
  BY <1>1 DEF Pair!Init, OnceInv, OnceTypes, Held, Adding, Snapshot, Apart, OnlyAdds,
     AddPoints,
     Snapshots, RemovePoints

(* A step that touches no list keeps it.                                   *)
LEMMA OnceMoves ==
    ASSUME OnceInv, NEW w \in Crew, NEW p,
           p \in {"idle"} \cup BuildPoints \/ (crewAt[w] \in Snapshots /\ p \in Snapshots),
           crewAt[w] \notin AddPoints \/ p \in AddPoints,
           crewAt' = [crewAt EXCEPT ![w] = p], p # "removing",
           \A x \in Crew : crewAt[x] \in Snapshots /\ (x # w \/ p \in Snapshots) =>
               crewLocal'[x] = crewLocal[x],
           DOMAIN crewLocal' = Crew,
           UNCHANGED <<crewVectors, crewChunks, crewOwners,
                       crewRequested, crewRemoved, crewDoc>>
    PROVE  OnceInv'
<1>1. \A x \in Crew : crewAt'[x] = IF x = w THEN p ELSE crewAt[x]
  BY DEF OnceInv, OnceTypes
<1>2. OnceTypes'
  BY <1>1 DEF OnceInv, OnceTypes, Held
<1>3. \A u \in Crew : (Adding(u) /\ Snapshot(u))'
  BY <1>1 DEF OnceInv, OnceTypes, Adding, Snapshot, Held, AddPoints, Snapshots,
     BuildPoints
<1>4. \A u, x \in Crew : Apart(u, x)'
  BY <1>1 DEF OnceInv, OnceTypes, Apart, AddPoints, Snapshots, BuildPoints
<1>5. OnlyAdds'
  <2> SUFFICES ASSUME ~crewRemoved
               PROVE  OnlyAdds'
    BY DEF OnlyAdds
  <2>1. \A x \in Crew : crewAt[x] \notin RemovePoints
    BY DEF OnceInv, OnlyAdds
  <2>2. p \notin RemovePoints /\ crewAt[w] \notin AddPoints
    BY <2>1 DEF AddPoints, Snapshots, BuildPoints, RemovePoints
  <2>3. \A x \in Crew : crewAt'[x] \notin RemovePoints
    BY <1>1, <2>1, <2>2
  <2>4. \A x \in Crew : crewAt[x] \in AddPoints => crewAt'[x] = crewAt[x]
    BY <1>1, <2>2
  <2>5. \A d \in crewRequested \ Range(crewChunks) :
            \E x \in Crew : crewAt'[x] = "vectors added" /\ crewDoc[x] = d
    BY <2>4 DEF OnceInv, OnceTypes, OnlyAdds, AddPoints
  <2>6. \A d \in crewRequested \ Range(crewOwners) :
            \E x \in Crew : crewAt'[x] \in AddPoints /\ crewDoc[x] = d
    BY <2>4 DEF OnceInv, OnlyAdds
  <2> QED
    BY <2>3, <2>5, <2>6 DEF OnceInv, OnlyAdds
<1> QED
  BY <1>2, <1>3, <1>4, <1>5 DEF OnceInv

(* Every step of a writer keeps it, whatever the others are in the middle  *)
(* of.                                                                     *)
LEMMA OnceStep ==
    ASSUME OnceInv, [Pair!Next]_Pair!vars
    PROVE  OnceInv'
<1> USE DEF Pair!Goto, Pair!lists, Pair!writing, Pair!reading
<1>1. ASSUME NEW w \in Crew, NEW d \in Docs, Pair!AddVectors(w, d)
      PROVE  OnceInv'
  <2>1. /\ crewAt[w] = "idle" /\ d \notin crewRequested
        /\ crewRequested' = crewRequested \cup {d}
        /\ crewAt' = [crewAt EXCEPT ![w] = "vectors added"]
        /\ crewDoc' = [crewDoc EXCEPT ![w] = d]
        /\ crewVectors' = Append(crewVectors, d)
        /\ UNCHANGED <<crewChunks, crewOwners, crewRemoved, crewLocal>>
    BY <1>1 DEF Pair!AddVectors
  <2>2. \A x \in Crew : crewAt'[x] = IF x = w THEN "vectors added" ELSE crewAt[x]
    BY <2>1 DEF OnceInv, OnceTypes
  <2>3. \A x \in Crew : crewDoc'[x] = IF x = w THEN d ELSE crewDoc[x]
    BY <2>1 DEF OnceInv, OnceTypes
  <2>4. /\ crewVectors' \in Seq(Docs) /\ IsInjective(crewVectors')
        /\ Range(crewVectors') = Range(crewVectors) \cup {d}
    BY <2>1, AppendHeld DEF OnceInv, OnceTypes, Held
  <2>5. OnceTypes'
    BY <2>1, <2>2, <2>3, <2>4 DEF OnceInv, OnceTypes, Held
  <2>6. \A u \in Crew : (Adding(u) /\ Snapshot(u))'
    BY <2>1, <2>2, <2>3 DEF OnceInv, OnceTypes, Adding, Snapshot, Held, AddPoints,
       Snapshots
  <2>7. \A u, x \in Crew : Apart(u, x)'
    <3> SUFFICES ASSUME NEW u \in Crew, NEW x \in Crew
                 PROVE  Apart(u, x)'
      OBVIOUS
    <3>1. Apart(u, x) /\ Adding(u) /\ Adding(x) /\ Snapshot(u) /\ Snapshot(x)
      BY DEF OnceInv
    <3>2. /\ crewAt[u] \in AddPoints => crewDoc[u] # d
          /\ crewAt[x] \in AddPoints => crewDoc[x] # d
      BY <2>1, <3>1 DEF Adding
    <3>3. ASSUME crewAt[x] \in Snapshots
          PROVE  d \notin Range(crewLocal[x][2]) /\ d \notin Range(crewLocal[x][3])
      BY <2>1, <3>1, <3>3 DEF Snapshot, Held
    <3>4. crewLocal' = crewLocal
      BY <2>1
    <3>5. CASE u = w
      BY <2>2, <2>3, <3>1, <3>2, <3>3, <3>4, <3>5 DEF Apart, AddPoints, Snapshots
    <3>6. CASE u # w
      BY <2>2, <2>3, <3>1, <3>2, <3>3, <3>4, <3>6 DEF Apart, AddPoints, Snapshots
    <3> QED
      BY <3>5, <3>6
  <2>8. OnlyAdds'
    BY <2>1, <2>2, <2>3, <2>4 DEF OnceInv, OnceTypes, OnlyAdds, AddPoints, RemovePoints
  <2> QED
    BY <2>5, <2>6, <2>7, <2>8 DEF OnceInv
<1>2. ASSUME NEW w \in Crew, Pair!AddChunks(w)
      PROVE  OnceInv'
  <2>1. /\ crewAt[w] = "vectors added" /\ crewAt' = [crewAt EXCEPT ![w] = "chunks added"]
        /\ crewChunks' = Append(crewChunks, crewDoc[w])
        /\ UNCHANGED <<crewVectors, crewOwners,
                       crewRequested, crewRemoved, crewDoc, crewLocal>>
    BY <1>2 DEF Pair!AddChunks
  <2>2. \A x \in Crew : crewAt'[x] = IF x = w THEN "chunks added" ELSE crewAt[x]
    BY <2>1 DEF OnceInv, OnceTypes
  <2>3. /\ crewDoc[w] \in crewRequested /\ crewDoc[w] \in Docs
        /\ crewDoc[w] \notin Range(crewChunks)
    BY <2>1 DEF OnceInv, OnceTypes, Adding, AddPoints
  <2>4. /\ crewChunks' \in Seq(Docs) /\ IsInjective(crewChunks')
        /\ Range(crewChunks') = Range(crewChunks) \cup {crewDoc[w]}
    BY <2>1, <2>3, AppendHeld DEF OnceInv, OnceTypes, Held
  <2>5. OnceTypes'
    BY <2>1, <2>2, <2>3, <2>4 DEF OnceInv, OnceTypes, Held
  <2>6. \A u \in Crew : (Adding(u) /\ Snapshot(u))'
    BY <2>1, <2>2, <2>4 DEF OnceInv, OnceTypes, Apart, Adding, Snapshot, Held,
       AddPoints, Snapshots
  <2>7. \A u, x \in Crew : Apart(u, x)'
    BY <2>1, <2>2 DEF OnceInv, OnceTypes, Apart, AddPoints, Snapshots
  <2>8. OnlyAdds'
    <3>1. \A x \in Crew : x # w => crewAt'[x] = crewAt[x]
      BY <2>2
    <3>2. crewAt'[w] \notin RemovePoints /\ crewAt'[w] \in AddPoints
      BY <2>2 DEF AddPoints, RemovePoints
    <3>3. ASSUME ~crewRemoved, NEW d \in crewRequested \ Range(crewChunks')
          PROVE  \E x \in Crew : crewAt'[x] = "vectors added" /\ crewDoc[x] = d
      <4>1. PICK x \in Crew : crewAt[x] = "vectors added" /\ crewDoc[x] = d
        BY <2>4, <3>3 DEF OnceInv, OnlyAdds
      <4>2. x # w
        BY <2>4, <3>3, <4>1
      <4> QED
        BY <3>1, <4>1, <4>2
    <3>4. ASSUME ~crewRemoved, NEW d \in crewRequested \ Range(crewOwners)
          PROVE  \E x \in Crew : crewAt'[x] \in AddPoints /\ crewDoc[x] = d
      <4>1. PICK x \in Crew : crewAt[x] \in AddPoints /\ crewDoc[x] = d
        BY <3>4 DEF OnceInv, OnlyAdds
      <4> QED
        BY <3>1, <3>2, <4>1
    <3>5. ASSUME ~crewRemoved
          PROVE  \A x \in Crew : crewAt'[x] \notin RemovePoints
      BY <3>1, <3>2, <3>5 DEF OnceInv, OnlyAdds
    <3> QED
      BY <2>1, <3>3, <3>4, <3>5 DEF OnceInv, OnlyAdds
  <2> QED
    BY <2>5, <2>6, <2>7, <2>8 DEF OnceInv
<1>3. ASSUME NEW w \in Crew, Pair!AddOwners(w)
      PROVE  OnceInv'
  <2>1. /\ crewAt[w] = "chunks added" /\ crewAt' = [crewAt EXCEPT ![w] = "changed"]
        /\ crewOwners' = Append(crewOwners, crewDoc[w])
        /\ UNCHANGED <<crewVectors, crewChunks,
                       crewRequested, crewRemoved, crewDoc, crewLocal>>
    BY <1>3 DEF Pair!AddOwners
  <2>2. \A x \in Crew : crewAt'[x] = IF x = w THEN "changed" ELSE crewAt[x]
    BY <2>1 DEF OnceInv, OnceTypes
  <2>3. /\ crewDoc[w] \in crewRequested /\ crewDoc[w] \in Docs
        /\ crewDoc[w] \notin Range(crewOwners)
    BY <2>1 DEF OnceInv, OnceTypes, Adding, AddPoints
  <2>4. /\ crewOwners' \in Seq(Docs) /\ IsInjective(crewOwners')
        /\ Range(crewOwners') = Range(crewOwners) \cup {crewDoc[w]}
    BY <2>1, <2>3, AppendHeld DEF OnceInv, OnceTypes, Held
  <2>5. OnceTypes'
    BY <2>1, <2>2, <2>3, <2>4 DEF OnceInv, OnceTypes, Held
  <2>6. \A u \in Crew : (Adding(u) /\ Snapshot(u))'
    BY <2>1, <2>2, <2>4 DEF OnceInv, OnceTypes, Apart, Adding, Snapshot, Held,
       AddPoints, Snapshots
  <2>7. \A u, x \in Crew : Apart(u, x)'
    BY <2>1, <2>2 DEF OnceInv, OnceTypes, Apart, AddPoints, Snapshots
  <2>8. OnlyAdds'
    <3> SUFFICES ASSUME ~crewRemoved
                 PROVE  /\ \A x \in Crew : crewAt'[x] \notin RemovePoints
                        /\ Range(crewVectors) = crewRequested
                        /\ \A e \in crewRequested \ Range(crewChunks) :
                              \E x \in Crew : crewAt'[x] = "vectors added" /\ crewDoc[x] = e
                        /\ \A e \in crewRequested \ Range(crewOwners') :
                              \E x \in Crew : crewAt'[x] \in AddPoints /\ crewDoc[x] = e
      BY <2>1 DEF OnlyAdds
    <3>1. /\ \A x \in Crew : crewAt[x] \notin RemovePoints
          /\ Range(crewVectors) = crewRequested
          /\ \A e \in crewRequested \ Range(crewChunks) :
                \E x \in Crew : crewAt[x] = "vectors added" /\ crewDoc[x] = e
          /\ \A e \in crewRequested \ Range(crewOwners) :
                \E x \in Crew : crewAt[x] \in AddPoints /\ crewDoc[x] = e
      BY DEF OnceInv, OnlyAdds
    <3>2. \A x \in Crew : crewAt'[x] \notin RemovePoints
      BY <2>2, <3>1 DEF RemovePoints
    <3>3. \A e \in crewRequested \ Range(crewChunks) :
             \E x \in Crew : crewAt'[x] = "vectors added" /\ crewDoc[x] = e
      BY <2>1, <2>2, <3>1
    <3>4. ASSUME NEW e \in crewRequested \ Range(crewOwners')
          PROVE  \E x \in Crew : crewAt'[x] \in AddPoints /\ crewDoc[x] = e
      <4>1. e \in crewRequested \ Range(crewOwners) /\ e # crewDoc[w]
        BY <2>4
      <4>2. PICK x \in Crew : crewAt[x] \in AddPoints /\ crewDoc[x] = e
        BY <3>1, <4>1
      <4> QED
        BY <2>2, <4>1, <4>2
    <3> QED
      BY <3>1, <3>2, <3>3, <3>4
  <2> QED
    BY <2>5, <2>6, <2>7, <2>8 DEF OnceInv
<1>4. ASSUME NEW w \in Crew, NEW d \in Docs, Pair!RemoveStart(w, d)
      PROVE  OnceInv'
  <2>1. /\ crewAt[w] = "idle" /\ crewAt' = [crewAt EXCEPT ![w] = "removing"]
        /\ crewRemoved' = TRUE /\ crewDoc' = [crewDoc EXCEPT ![w] = d]
        /\ UNCHANGED <<crewVectors, crewChunks, crewOwners, crewRequested, crewLocal>>
    BY <1>4 DEF Pair!RemoveStart
  <2>2. \A x \in Crew : crewAt'[x] = IF x = w THEN "removing" ELSE crewAt[x]
    BY <2>1 DEF OnceInv, OnceTypes
  <2>3. \A x \in Crew : crewDoc'[x] = IF x = w THEN d ELSE crewDoc[x]
    BY <2>1 DEF OnceInv, OnceTypes
  <2>4. OnceTypes'
    BY <2>1, <2>2 DEF OnceInv, OnceTypes, Held
  <2>5. \A u \in Crew : (Adding(u) /\ Snapshot(u))'
    BY <2>1, <2>2, <2>3 DEF OnceInv, OnceTypes, Adding, Snapshot, Held, AddPoints,
       Snapshots
  <2>6. \A u, x \in Crew : Apart(u, x)'
    BY <2>1, <2>2, <2>3 DEF OnceInv, OnceTypes, Apart, AddPoints, Snapshots
  <2> QED
    BY <2>1, <2>4, <2>5, <2>6 DEF OnceInv, OnceTypes, OnlyAdds
<1>5. ASSUME NEW w \in Crew, Pair!RemoveFilter(w)
      PROVE  OnceInv'
  <2>1. /\ crewAt[w] = "removing" /\ crewAt' = [crewAt EXCEPT ![w] = "filtered"]
        /\ Len(crewVectors) = Len(crewOwners) /\ Len(crewChunks) = Len(crewOwners)
        /\ crewLocal' = [crewLocal EXCEPT ![w] = <<Kept(crewVectors, crewOwners, crewDoc[w]),
                                           Kept(crewChunks, crewOwners, crewDoc[w]),
                                           Kept(crewOwners, crewOwners, crewDoc[w])>>]
        /\ UNCHANGED <<crewVectors, crewChunks, crewOwners,
                       crewRequested, crewRemoved, crewDoc>>
    BY <1>5, SameHelpers DEF Pair!RemoveFilter, Pair!SameLength
  <2>2. \A x \in Crew : crewAt'[x] = IF x = w THEN "filtered" ELSE crewAt[x]
    BY <2>1 DEF OnceInv, OnceTypes
  <2>3. ASSUME NEW list \in {crewVectors, crewChunks, crewOwners}
        PROVE  /\ Held(Kept(list, crewOwners, crewDoc[w]))
               /\ Range(Kept(list, crewOwners, crewDoc[w])) \subseteq Range(list)
    <3>1. list \in Seq(Docs) /\ crewOwners \in Seq(Docs) /\ IsInjective(list)
          /\ Len(list) = Len(crewOwners) /\ Range(list) \subseteq crewRequested
      BY <2>1 DEF OnceInv, OnceTypes, Held
    <3>2. Owned(list, crewOwners, crewDoc[w], Len(crewOwners)) \subseteq Range(list)
      BY <3>1 DEF Owned, Range
    <3> QED
      BY <3>1, <3>2, KeptIs DEF Held
  <2>4. /\ crewLocal'[w][1] = Kept(crewVectors, crewOwners, crewDoc[w])
        /\ crewLocal'[w][2] = Kept(crewChunks, crewOwners, crewDoc[w])
        /\ crewLocal'[w][3] = Kept(crewOwners, crewOwners, crewDoc[w])
        /\ \A x \in Crew : x # w => crewLocal'[x] = crewLocal[x]
    BY <2>1 DEF OnceInv, OnceTypes
  <2>5. OnceTypes'
    BY <2>1, <2>2 DEF OnceInv, OnceTypes, Held
  <2>6. \A u \in Crew : (Adding(u) /\ Snapshot(u))'
    <3>1. Snapshot(w)'
      BY <2>1, <2>3, <2>4 DEF Snapshot, Held
    <3>2. \A u \in Crew : Adding(u)' /\ (u # w => Snapshot(u)')
      BY <2>1, <2>2, <2>4 DEF OnceInv, OnceTypes, Adding, Snapshot, Held, AddPoints,
         Snapshots
    <3> QED
      BY <3>1, <3>2
  <2>7. \A u, x \in Crew : Apart(u, x)'
    <3> SUFFICES ASSUME NEW u \in Crew, NEW x \in Crew
                 PROVE  Apart(u, x)'
      OBVIOUS
    <3>1. CASE x = w
      <4>1. crewAt[u] \in AddPoints => crewDoc[u] \notin Range(crewLocal'[w][3])
        BY <2>3, <2>4 DEF OnceInv, OnceTypes, Adding
      <4>2. crewAt[u] = "vectors added" => crewDoc[u] \notin Range(crewLocal'[w][2])
        BY <2>3, <2>4 DEF OnceInv, OnceTypes, Adding, AddPoints
      <4> QED
        BY <2>1, <2>2, <3>1, <4>1, <4>2 DEF OnceInv, OnceTypes, Apart, AddPoints,
           Snapshots
    <3>2. CASE x # w
      BY <2>1, <2>2, <2>4, <3>2 DEF OnceInv, OnceTypes, Apart, AddPoints, Snapshots
    <3> QED
      BY <3>1, <3>2
  <2>8. OnlyAdds'
    BY <2>1 DEF OnceInv, OnceTypes, OnlyAdds, RemovePoints
  <2> QED
    BY <2>5, <2>6, <2>7, <2>8 DEF OnceInv
<1>6. ASSUME NEW w \in Crew, Pair!RemoveRaises(w) \/ Pair!RemoveNothing(w)
      PROVE  OnceInv'
  <2>1. /\ crewAt[w] \in {"removing", "filtered"}
        /\ crewAt' = [crewAt EXCEPT ![w] = "idle"]
        /\ UNCHANGED <<crewVectors, crewChunks, crewOwners,
                       crewRequested, crewRemoved, crewDoc, crewLocal>>
    BY <1>6 DEF Pair!RemoveRaises, Pair!RemoveNothing
  <2>2. DOMAIN crewLocal' = Crew /\ crewAt[w] \notin AddPoints
    BY <2>1 DEF OnceInv, OnceTypes, AddPoints
  <2> QED
    BY <2>1, <2>2, OnceMoves
<1>7. ASSUME NEW w \in Crew,
             Pair!KeepVectors(w) \/ Pair!KeepChunks(w) \/ Pair!KeepOwners(w)
      PROVE  OnceInv'
  <2>1. PICK p \in {"vectors kept", "chunks kept", "changed"} :
            crewAt' = [crewAt EXCEPT ![w] = p]
    BY <1>7 DEF Pair!KeepVectors, Pair!KeepChunks, Pair!KeepOwners
  <2>2. /\ crewAt[w] \in Snapshots
        /\ crewVectors' = crewVectors \/ crewVectors' = crewLocal[w][1]
        /\ crewChunks' = crewChunks \/ crewChunks' = crewLocal[w][2]
        /\ crewOwners' = crewOwners \/ crewOwners' = crewLocal[w][3]
        /\ UNCHANGED <<crewRequested, crewRemoved, crewDoc, crewLocal>>
    BY <1>7 DEF Pair!KeepVectors, Pair!KeepChunks, Pair!KeepOwners, Snapshots
  <2>3. \A x \in Crew : crewAt'[x] = IF x = w THEN p ELSE crewAt[x]
    BY <2>1 DEF OnceInv, OnceTypes
  <2>4. OnceTypes'
    <3>1. Held(crewLocal[w][1]) /\ Held(crewLocal[w][2]) /\ Held(crewLocal[w][3])
      BY <2>2 DEF OnceInv, Snapshot
    <3>2. Held(crewVectors)' /\ Held(crewChunks)' /\ Held(crewOwners)'
      BY <2>2, <3>1 DEF OnceInv, OnceTypes, Held
    <3>3. DOMAIN crewAt' = Crew
      BY <2>1 DEF OnceInv, OnceTypes
    <3> QED
      BY <2>2, <3>2, <3>3 DEF OnceInv, OnceTypes
  <2>5. \A u \in Crew : (Adding(u) /\ Snapshot(u))'
    BY <2>2, <2>3 DEF OnceInv, OnceTypes, Adding, Snapshot, Apart, Held, AddPoints,
       Snapshots
  <2>6. \A u, x \in Crew : Apart(u, x)'
    BY <2>2, <2>3 DEF OnceInv, OnceTypes, Apart, AddPoints, Snapshots
  <2>7. crewRemoved
    BY <2>2 DEF OnceInv, OnceTypes, OnlyAdds, Snapshots, RemovePoints
  <2> QED
    BY <2>2, <2>4, <2>5, <2>6, <2>7 DEF OnceInv, OnceTypes, OnlyAdds
<1>8. ASSUME NEW w \in Crew, Pair!Rebuild(w)
      PROVE  OnceInv'
  <2>1. /\ crewAt[w] \in BuildPoints
        /\ \E p \in {"idle", "copied", "published"} : crewAt' = [crewAt EXCEPT ![w] = p]
        /\ UNCHANGED <<crewVectors, crewChunks, crewOwners,
                       crewRequested, crewRemoved, crewDoc>>
        /\ crewLocal' = crewLocal \/ crewLocal' = [crewLocal EXCEPT ![w] = crewVectors]
    BY <1>8 DEF Pair!Rebuild, Pair!BuildEmpty, Pair!BuildCopy, Pair!BuildPublish,
       Pair!BuildFill, Pair!BuildRaises, BuildPoints
  <2>2. PICK p \in {"idle", "copied", "published"} : crewAt' = [crewAt EXCEPT ![w] = p]
    BY <2>1
  <2>3. /\ DOMAIN crewLocal' = Crew
        /\ \A x \in Crew : x # w => crewLocal'[x] = crewLocal[x]
    BY <2>1 DEF OnceInv, OnceTypes
  <2>4. crewAt[w] \notin AddPoints /\ crewAt[w] \notin Snapshots /\ p \notin Snapshots
        /\ p \in {"idle"} \cup BuildPoints /\ p # "removing"
    BY <2>1, <2>2 DEF AddPoints, Snapshots, BuildPoints
  <2>5. \A x \in Crew : crewAt[x] \in Snapshots /\ (x # w \/ p \in Snapshots) =>
            crewLocal'[x] = crewLocal[x]
    BY <2>3, <2>4
  <2> QED
    BY <2>1, <2>2, <2>3, <2>4, <2>5, OnceMoves
<1>9. CASE UNCHANGED Pair!vars
  BY <1>9 DEF Pair!vars, OnceInv, OnceTypes, Adding, Snapshot, Apart, OnlyAdds, Held
<1>10. ASSUME Pair!Next
       PROVE  OnceInv'
  <2>1. PICK w \in Crew : Pair!AddDocument(w) \/ Pair!RemoveDocument(w) \/ Pair!Rebuild(w)
    BY <1>10 DEF Pair!Next
  <2>2. CASE Pair!AddDocument(w)
    BY <1>1, <1>2, <1>3, <2>2 DEF Pair!AddDocument
  <2>3. CASE Pair!RemoveDocument(w)
    BY <1>4, <1>5, <1>6, <1>7, <2>3 DEF Pair!RemoveDocument
  <2> QED
    BY <1>8, <2>1, <2>2, <2>3
<1> QED
  BY <1>9, <1>10

(* However uploads and removals overlap, for any number of threads and     *)
(* documents, no list holds a document twice; and as long as nothing is    *)
(* removed, every list holds each uploaded document when the threads are   *)
(* done.                                                                   *)
THEOREM OverlapsLoseNothing == IndexesSpec => []OverlapLosesNothing
<1>1. OnceInv => Pair!HeldOnce
  BY SameHelpers DEF OnceInv, OnceTypes, Held, Pair!HeldOnce
<1>2. OnceInv => Pair!AddsLoseNothing
  <2> SUFFICES ASSUME OnceInv, Pair!Quiet, ~crewRemoved,
                      NEW list \in {crewVectors, crewChunks, crewOwners}
               PROVE  Len(list) = Cardinality(crewRequested) /\ Range(list) = crewRequested
    BY SameHelpers DEF Pair!AddsLoseNothing
  <2>1. Range(list) = crewRequested
    BY DEF OnceInv, OnceTypes, Held, OnlyAdds, Pair!Quiet, AddPoints
  <2>2. list \in Seq(Docs) /\ IsInjective(list)
    BY DEF OnceInv, OnceTypes, Held
  <2> QED
    BY <2>1, <2>2, CountHeld
<1>3. OnceInv /\ [IndexesNext]_<<store, vars, crewVars, hybridVars>> => OnceInv'
  <2> SUFFICES ASSUME OnceInv, [IndexesNext]_<<store, vars, crewVars, hybridVars>>
               PROVE  OnceInv'
    OBVIOUS
  <2>1. [Pair!Next]_Pair!vars
    BY DEF IndexesNext, crewVars, Pair!vars, Pair!lists, Pair!writing, Pair!reading
  <2> QED
    BY <2>1, OnceStep
<1> QED
  BY <1>1, <1>2, <1>3, OnceInit, PTL DEF IndexesSpec, IndexesInit, OverlapLosesNothing

(* The set of documents the owners of the shared lists stand for.          *)
CrewStore == INSTANCE ChunkIndex WITH indexed <- Range(crewOwners)

(* Who has removed once has removed for good.                              *)
LEMMA CrewRemovedStays == crewRemoved /\ [Pair!Next]_Pair!vars => crewRemoved'
<1> SUFFICES ASSUME crewRemoved, [Pair!Next]_Pair!vars
             PROVE  crewRemoved'
  OBVIOUS
<1> USE DEF Pair!Goto, Pair!lists, Pair!writing, Pair!reading
<1>1. CASE UNCHANGED Pair!vars
  BY <1>1 DEF Pair!vars
<1>2. ASSUME NEW w \in Crew, Pair!AddDocument(w)
      PROVE  crewRemoved'
  BY <1>2 DEF Pair!AddDocument, Pair!AddVectors, Pair!AddChunks, Pair!AddOwners
<1>3. ASSUME NEW w \in Crew, Pair!RemoveDocument(w)
      PROVE  crewRemoved'
  BY <1>3 DEF Pair!RemoveDocument, Pair!RemoveStart, Pair!RemoveFilter,
     Pair!RemoveRaises, Pair!RemoveNothing, Pair!KeepVectors, Pair!KeepChunks,
     Pair!KeepOwners
<1>4. ASSUME NEW w \in Crew, Pair!Rebuild(w)
      PROVE  crewRemoved'
  BY <1>4 DEF Pair!Rebuild, Pair!BuildEmpty, Pair!BuildCopy, Pair!BuildPublish,
     Pair!BuildFill, Pair!BuildRaises
<1> QED
  BY <1>1, <1>2, <1>3, <1>4 DEF Pair!Next

(* While nothing has been removed, a step of a writer makes one document   *)
(* appear among the owners, one that was called for, was not there and is  *)
(* in the other two lists; or it changes nothing of them.                  *)
LEMMA UploadStep ==
    ASSUME OnceInv, [Pair!Next]_Pair!vars, ~crewRemoved'
    PROVE  \/ \E d \in crewRequested \ Range(crewOwners) :
                 CrewStore!Add(d) /\ d \in Range(crewVectors) /\ d \in Range(crewChunks)
           \/ UNCHANGED Range(crewOwners)
<1> USE DEF Pair!Goto, Pair!lists, Pair!writing, Pair!reading
<1>1. CASE UNCHANGED Pair!vars
  BY <1>1 DEF Pair!vars
<1>2. ASSUME NEW w \in Crew, Pair!AddOwners(w)
      PROVE  \E d \in crewRequested \ Range(crewOwners) :
                 CrewStore!Add(d) /\ d \in Range(crewVectors) /\ d \in Range(crewChunks)
  <2>1. /\ crewAt[w] = "chunks added"
        /\ crewOwners' = Append(crewOwners, crewDoc[w])
        /\ crewRemoved' = crewRemoved
    BY <1>2 DEF Pair!AddOwners
  <2>2. /\ crewDoc[w] \in crewRequested /\ crewDoc[w] \in Docs
        /\ crewDoc[w] \notin Range(crewOwners)
    BY <2>1 DEF OnceInv, OnceTypes, Adding, AddPoints
  <2>3. Range(crewOwners') = Range(crewOwners) \cup {crewDoc[w]}
    BY <2>1, <2>2, AppendHeld DEF OnceInv, OnceTypes, Held
  <2>4. crewDoc[w] \in Range(crewVectors)
    BY <2>1, <2>2 DEF OnceInv, OnlyAdds
  <2>5. crewDoc[w] \in Range(crewChunks)
    <3> SUFFICES ASSUME crewDoc[w] \notin Range(crewChunks)
                 PROVE  FALSE
      OBVIOUS
    <3>1. PICK u \in Crew : crewAt[u] = "vectors added" /\ crewDoc[u] = crewDoc[w]
      BY <2>1, <2>2 DEF OnceInv, OnlyAdds
    <3>2. Apart(u, w) /\ u # w
      BY <2>1, <3>1 DEF OnceInv
    <3> QED
      BY <2>1, <3>1, <3>2 DEF Apart, AddPoints
  <2>6. CrewStore!Add(crewDoc[w])
    BY <2>3 DEF CrewStore!Add
  <2> QED
    BY <2>2, <2>4, <2>5, <2>6
<1>3. ASSUME NEW w \in Crew, Pair!AddDocument(w), ~Pair!AddOwners(w)
      PROVE  crewOwners' = crewOwners
  BY <1>3 DEF Pair!AddDocument, Pair!AddVectors, Pair!AddChunks
<1>4. ASSUME NEW w \in Crew, Pair!RemoveDocument(w)
      PROVE  crewOwners' = crewOwners
  <2>1. ~crewRemoved /\ crewAt[w] \notin RemovePoints
    BY CrewRemovedStays DEF OnceInv, OnceTypes, OnlyAdds
  <2> QED
    BY <1>4, <2>1 DEF Pair!RemoveDocument, Pair!RemoveStart, Pair!RemoveFilter,
       Pair!RemoveRaises, Pair!RemoveNothing, Pair!KeepVectors, Pair!KeepChunks,
       Pair!KeepOwners, RemovePoints
<1>5. ASSUME NEW w \in Crew, Pair!Rebuild(w)
      PROVE  crewOwners' = crewOwners
  BY <1>5 DEF Pair!Rebuild, Pair!BuildEmpty, Pair!BuildCopy, Pair!BuildPublish,
     Pair!BuildFill, Pair!BuildRaises
<1>6. ASSUME Pair!Next
      PROVE  \/ \E w \in Crew : Pair!AddOwners(w)
             \/ crewOwners' = crewOwners
  BY <1>3, <1>4, <1>5, <1>6 DEF Pair!Next
<1> QED
  BY <1>1, <1>2, <1>6

(* However uploads overlap, for any number of threads and documents, the   *)
(* store implements the set VectorStore promises as long as nothing is     *)
(* removed: a removal may start late, and every step before it is an Add   *)
(* of one document or invisible. KeepOwners is why it says no more: a      *)
(* stale list drops what other uploads have added.                         *)
THEOREM OverlappingUploadsImplement ==
    IndexesSpec =>
        /\ CrewStore!Init
        /\ [][~crewRemoved' => \E d \in Docs : CrewStore!Add(d)]_(Range(crewOwners))
<1>1. Pair!Init => CrewStore!Init
  BY DEF Pair!Init, CrewStore!Init, Range
<1>2. ASSUME OnceInv, [IndexesNext]_<<store, vars, crewVars, hybridVars>>
      PROVE  /\ OnceInv'
             /\ [~crewRemoved' => \E d \in Docs : CrewStore!Add(d)]_(Range(crewOwners))
  <2>1. [Pair!Next]_Pair!vars
    BY <1>2 DEF IndexesNext, crewVars, Pair!vars, Pair!lists, Pair!writing, Pair!reading
  <2>2. crewRequested \subseteq Docs
    BY <1>2 DEF OnceInv, OnceTypes
  <2>3. ASSUME ~crewRemoved'
        PROVE  (\E d \in Docs : CrewStore!Add(d)) \/ UNCHANGED Range(crewOwners)
    BY <1>2, <2>1, <2>2, <2>3, UploadStep
  <2> QED
    BY <1>2, <2>1, <2>3, OnceStep
<1> QED
  BY <1>1, <1>2, OnceInit, PTL DEF IndexesSpec, IndexesInit

-----------------------------------------------------------------------------
(* The dense and the sparse index together.                                *)

(* A list ends in another.                                                 *)
Suffix(tail, list) ==
    /\ Len(tail) <= Len(list)
    /\ \A i \in 1..Len(tail) : list[Len(list) - Len(tail) + i] = tail[i]

(* What a removal has kept of a list after n rounds: as long as the list   *)
(* so far only if it is the same, and the part of the tail so far, which   *)
(* starts after the first m entries.                                       *)
KeptSoFar(g, n, m, S, list, tail) ==
    /\ g \in Seq(S)
    /\ Len(g) <= n
    /\ Len(g) = n => \A i \in 1..n : g[i] = list[i]
    /\ n >= m => /\ Len(g) >= n - m
                 /\ \A i \in 1..(n - m) : g[Len(g) - (n - m) + i] = tail[i]

LEMMA KeptStart ==
    ASSUME NEW S, NEW list, NEW tail, NEW m \in Nat
    PROVE  KeptSoFar(<<>>, 0, m, S, list, tail)
<1>1. <<>> \in Seq(S) /\ Len(<<>>) = 0 /\ 1..0 = {}
  OBVIOUS
<1>2. 0 >= m => 0 - m = 0
  OBVIOUS
<1> QED
  BY <1>1, <1>2 DEF KeptSoFar

(* A round that drops an entry before the tail.                            *)
LEMMA KeptDrops ==
    ASSUME NEW S, NEW list, NEW tail, NEW m \in Nat, NEW n \in Nat, NEW g,
           KeptSoFar(g, n, m, S, list, tail), n + 1 <= m
    PROVE  KeptSoFar(g, n + 1, m, S, list, tail)
<1>1. g \in Seq(S) /\ Len(g) \in Nat /\ Len(g) <= n
  BY DEF KeptSoFar
<1>2. Len(g) # n + 1 /\ Len(g) <= n + 1
  BY <1>1
<1>3. CASE n + 1 = m
  <2>1. (n + 1) - m = 0 /\ 1..0 = {} /\ Len(g) >= 0
    BY <1>1, <1>3
  <2> QED
    BY <1>1, <1>2, <2>1 DEF KeptSoFar
<1>4. CASE n + 1 < m
  <2>1. ~(n + 1 >= m)
    BY <1>4
  <2> QED
    BY <1>1, <1>2, <2>1 DEF KeptSoFar
<1> QED
  BY <1>3, <1>4

(* A round that keeps an entry.                                            *)
LEMMA KeptAppends ==
    ASSUME NEW S, NEW list, NEW tail, NEW m \in Nat, NEW n \in Nat, NEW g, NEW e \in S,
           KeptSoFar(g, n, m, S, list, tail), e = list[n + 1],
           n >= m => e = tail[(n + 1) - m]
    PROVE  KeptSoFar(Append(g, e), n + 1, m, S, list, tail)
<1>1. g \in Seq(S) /\ Len(g) \in Nat /\ Len(g) <= n
  BY DEF KeptSoFar
<1> DEFINE h == Append(g, e)
<1>2. /\ h \in Seq(S) /\ Len(h) = Len(g) + 1 /\ h[Len(g) + 1] = e
      /\ \A i \in 1..Len(g) : h[i] = g[i]
  BY <1>1
<1> HIDE DEF h
<1>3. Len(h) <= n + 1
  BY <1>1, <1>2
<1>4. ASSUME Len(h) = n + 1, NEW i \in 1..(n + 1)
      PROVE  h[i] = list[i]
  <2>1. Len(g) = n /\ (i = n + 1 \/ i \in 1..n)
    BY <1>1, <1>2, <1>4
  <2>2. CASE i = n + 1
    BY <1>2, <2>1, <2>2
  <2>3. CASE i \in 1..n
    <3>1. \A k \in 1..n : g[k] = list[k]
      BY <2>1 DEF KeptSoFar
    <3> QED
      BY <1>2, <2>1, <2>3, <3>1
  <2> QED
    BY <2>1, <2>2, <2>3
<1>5. ASSUME n + 1 >= m
      PROVE  /\ Len(h) >= (n + 1) - m
             /\ \A i \in 1..((n + 1) - m) : h[Len(h) - ((n + 1) - m) + i] = tail[i]
  <2>1. CASE n + 1 = m
    <3>1. (n + 1) - m = 0 /\ 1..0 = {} /\ Len(h) >= 0
      BY <1>1, <1>2, <2>1
    <3> QED
      BY <3>1
  <2>2. CASE n >= m
    <3>1. Len(g) >= n - m /\ \A i \in 1..(n - m) : g[Len(g) - (n - m) + i] = tail[i]
      BY <2>2 DEF KeptSoFar
    <3>2. ASSUME NEW i \in 1..((n + 1) - m)
          PROVE  h[Len(h) - ((n + 1) - m) + i] = tail[i]
      <4> DEFINE at1 == Len(h) - ((n + 1) - m) + i
      <4>1. at1 = Len(g) - (n - m) + i /\ (i = (n + 1) - m \/ i \in 1..(n - m))
        <5>1. i \in Int /\ i >= 1 /\ i <= (n + 1) - m
          OBVIOUS
        <5>2. at1 = Len(g) - (n - m) + i
          BY <1>1, <1>2, <5>1
        <5> QED
          BY <5>1, <5>2
      <4>2. CASE i = (n + 1) - m
        <5>1. at1 = Len(g) + 1
          BY <1>1, <4>1, <4>2
        <5> QED
          BY <1>2, <2>2, <4>2, <5>1
      <4>3. CASE i \in 1..(n - m)
        <5>1. at1 \in 1..Len(g)
          BY <1>1, <2>2, <3>1, <4>1, <4>3
        <5> QED
          BY <1>2, <3>1, <4>1, <4>3, <5>1
      <4> QED
        BY <4>1, <4>2, <4>3
    <3>3. Len(h) >= (n + 1) - m
      BY <1>1, <1>2, <3>1
    <3> QED
      BY <3>2, <3>3
  <2>3. n + 1 = m \/ n >= m
    BY <1>5
  <2> QED
    BY <2>1, <2>2, <2>3
<1>6. KeptSoFar(h, n + 1, m, S, list, tail)
  BY <1>2, <1>3, <1>4, <1>5 DEF KeptSoFar
<1> QED
  BY <1>6 DEF h

(* What a removal keeps is no longer than the list, is the list if it is   *)
(* as long, and ends as the list does if the document is not there.        *)
LEMMA KeptOf ==
    ASSUME NEW S, NEW list \in Seq(S), NEW by \in Seq(S), NEW d, Len(list) = Len(by),
           NEW tail \in Seq(S), Suffix(tail, list),
           \A i \in 1..Len(tail) : by[Len(list) - Len(tail) + i] # d
    PROVE  /\ Kept(list, by, d) \in Seq(S)
           /\ Len(Kept(list, by, d)) = Len(list) => Kept(list, by, d) = list
           /\ Suffix(tail, Kept(list, by, d))
<1>1. PICK N \in Nat, M \in Nat :
          N = Len(by) /\ M = Len(list) - Len(tail)
  <2>1. Len(by) \in Nat /\ Len(list) \in Nat /\ Len(tail) \in Nat /\ Len(tail) <= Len(list)
    BY DEF Suffix
  <2>2. Len(list) - Len(tail) \in Nat
    BY <2>1
  <2> QED
    BY <2>1, <2>2
<1>2. /\ Len(list) = N /\ Len(tail) \in Nat /\ N = M + Len(tail)
      /\ \A i \in 1..N : list[i] \in S
      /\ \A i \in 1..Len(tail) : list[M + i] = tail[i] /\ by[M + i] # d
  BY <1>1 DEF Suffix
<1>3. PICK f : Loop(f, list, by, d, N) /\ Kept(list, by, d) = f[N]
  <2> DEFINE f == CHOOSE f : Loop(f, list, by, d, N)
  <2>1. Loop(f, list, by, d, N)
    BY LoopRuns
  <2>2. Kept(list, by, d) = f[N]
    BY <1>1 DEF Kept, Loop
  <2> QED
    BY <2>1, <2>2
<1>4. /\ f[0] = <<>>
      /\ \A n \in Nat : n + 1 <= N =>
            f[n + 1] = IF by[n + 1] = d THEN f[n] ELSE Append(f[n], list[n + 1])
  <2>1. 0 \in 0..N /\ \A n \in Nat : n + 1 <= N => n + 1 \in 0..N /\ n + 1 # 0 /\ (n + 1) - 1 = n
    OBVIOUS
  <2> QED
    BY <1>3, <2>1 DEF Loop
<1> DEFINE Good(n) == KeptSoFar(f[n], n, M, S, list, tail)
           T == {n \in Nat : n <= N => Good(n)}
<1>5. 0 \in T
  BY <1>4, KeptStart
<1>6. ASSUME NEW n \in T
      PROVE  n + 1 \in T
  <2> SUFFICES ASSUME n + 1 <= N
               PROVE  Good(n + 1)
    OBVIOUS
  <2>1. n \in Nat /\ n <= N /\ n + 1 \in 1..N
    BY <1>1
  <2>2. Good(n)
    BY <2>1
  <2> HIDE DEF Good, T
  <2>3. n >= M => (n + 1) - M \in 1..Len(tail) /\ M + ((n + 1) - M) = n + 1
    BY <1>1, <1>2, <2>1
  <2>4. CASE by[n + 1] = d
    <3>1. n + 1 <= M
      BY <1>1, <1>2, <2>1, <2>3, <2>4
    <3> QED
      BY <1>4, <2>1, <2>2, <2>4, <3>1, KeptDrops DEF Good
  <2>5. CASE by[n + 1] # d
    <3>1. f[n + 1] = Append(f[n], list[n + 1]) /\ list[n + 1] \in S
      BY <1>2, <1>4, <2>1, <2>5
    <3>2. n >= M => list[n + 1] = tail[(n + 1) - M]
      BY <1>2, <2>3
    <3> QED
      BY <2>1, <2>2, <3>1, <3>2, KeptAppends DEF Good
  <2> QED
    BY <2>4, <2>5
<1>7. T \in SUBSET Nat
  OBVIOUS
<1>8. N \in T /\ N <= N
  <2> HIDE DEF T
  <2>1. T = Nat
    BY <1>5, <1>6, <1>7, Induction
  <2> QED
    BY <2>1
<1> DEFINE k == Kept(list, by, d)
<1>9. KeptSoFar(k, N, M, S, list, tail)
  BY <1>3, <1>8
<1> HIDE DEF k, Good, T
<1>10. k \in Seq(S) /\ Len(k) \in Nat
  BY <1>9 DEF KeptSoFar
<1>11. ASSUME Len(k) = Len(list)
       PROVE  k = list
  <2>1. \A i \in 1..N : k[i] = list[i]
    BY <1>2, <1>9, <1>11 DEF KeptSoFar
  <2> QED
    BY <1>2, <1>10, <1>11, <2>1
<1>12. Suffix(tail, k)
  <2>1. N - M = Len(tail) /\ N >= M
    BY <1>1, <1>2
  <2>2. Len(k) >= Len(tail) /\ \A i \in 1..Len(tail) : k[Len(k) - Len(tail) + i] = tail[i]
    BY <1>9, <2>1 DEF KeptSoFar
  <2>3. Len(tail) <= Len(k)
    BY <1>2, <1>10, <2>2
  <2> QED
    BY <2>2, <2>3 DEF Suffix
<1> QED
  BY <1>10, <1>11, <1>12 DEF k

(* What a list ends in grows with it.                                      *)
LEMMA SuffixAppend ==
    ASSUME NEW S, NEW list \in Seq(S), NEW tail \in Seq(S), NEW d \in S, Suffix(tail, list)
    PROVE  Suffix(Append(tail, d), Append(list, d))
<1>1. /\ Len(tail) \in Nat /\ Len(list) \in Nat /\ Len(tail) <= Len(list)
      /\ Len(Append(tail, d)) = Len(tail) + 1 /\ Len(Append(list, d)) = Len(list) + 1
  BY DEF Suffix
<1>2. ASSUME NEW i \in 1..(Len(tail) + 1)
      PROVE  Append(list, d)[(Len(list) + 1) - (Len(tail) + 1) + i] = Append(tail, d)[i]
  <2>1. CASE i = Len(tail) + 1
    <3>1. (Len(list) + 1) - (Len(tail) + 1) + i = Len(list) + 1
      BY <2>1, <1>1
    <3> QED
      BY <2>1, <3>1, <1>1
  <2>2. CASE i \in 1..Len(tail)
    <3>1. /\ (Len(list) + 1) - (Len(tail) + 1) + i = Len(list) - Len(tail) + i
          /\ Len(list) - Len(tail) + i \in 1..Len(list)
      BY <2>2, <1>1
    <3> QED
      BY <2>2, <3>1, <1>1 DEF Suffix
  <2> QED
    BY <2>1, <2>2, <1>1
<1> DEFINE l == Append(list, d)
           a == Append(tail, d)
<1>3. Len(a) = Len(tail) + 1 /\ Len(l) = Len(list) + 1 /\ Len(a) <= Len(l)
  BY <1>1
<1>4. \A i \in 1..Len(a) : l[Len(l) - Len(a) + i] = a[i]
  BY <1>2, <1>3
<1> HIDE DEF l, a
<1>5. Suffix(a, l)
  BY <1>3, <1>4 DEF Suffix
<1> QED
  BY <1>5 DEF l, a

(* HybridIndex filters as DenseIndex does.                                 *)
LEMMA HybridKept == \A list, by, d : Hybrid!Kept(list, by, d) = Kept(list, by, d)
BY DEF Hybrid!Kept, Kept

(* A removal from a list that owns itself.                                 *)
LEMMA KeptFrom ==
    ASSUME NEW S, NEW list \in Seq(S), NEW d
    PROVE  /\ Hybrid!Kept(list, list, d) \in Seq(S)
           /\ Len(Hybrid!Kept(list, list, d)) = Len(list) => Hybrid!Kept(list, list, d) = list
           /\ \A tail \in Seq(S) :
                 Suffix(tail, list) /\ (\A i \in 1..Len(tail) : tail[i] # d)
                     => Suffix(tail, Hybrid!Kept(list, list, d))
<1>1. Suffix(<<>>, list) /\ <<>> \in Seq(S) /\ 1..Len(<<>>) = {}
  BY DEF Suffix
<1>2. ASSUME NEW tail \in Seq(S), Suffix(tail, list), \A i \in 1..Len(tail) : tail[i] # d
      PROVE  \A i \in 1..Len(tail) : list[Len(list) - Len(tail) + i] # d
  BY <1>2 DEF Suffix
<1>3. /\ Kept(list, list, d) \in Seq(S)
      /\ Len(Kept(list, list, d)) = Len(list) => Kept(list, list, d) = list
  <2>1. \A i \in 1..Len(<<>>) : list[Len(list) - Len(<<>>) + i] # d
    BY <1>1
  <2> QED
    BY <1>1, <2>1, KeptOf
<1>4. \A tail \in Seq(S) :
          Suffix(tail, list) /\ (\A i \in 1..Len(tail) : tail[i] # d)
              => Suffix(tail, Kept(list, list, d))
  BY <1>2, KeptOf
<1> QED
  BY <1>3, <1>4, HybridKept

(***************************************************************************)
(* Types, and what a request holds where it stands.                        *)
(***************************************************************************)
Busy(t) == hybridAt[t] # "idle"
Readable == disk \notin {Missing, Torn}
Stepping == {"adding", "assigning", "clearing", "filling"}

Stands(t) ==
    /\ Busy(t) => phase = "serving" /\ task[t] \in {"add", "remove", "sync"}
    /\ task[t] \in {"add", "remove"} => hybridDoc[t] \in uploaded
    /\ hybridAt[t] \in {"adding", "sparse", "comparing", "assigning"} =>
          hybridDoc[t] \in HybridDocs /\ task[t] # "sync"
    /\ hybridAt[t] \notin Stepping => step[t] = 1
    /\ hybridAt[t] \in {"idle", "copying", "copying_ids", "clearing", "unlinking"} =>
          entry[t] = 0
    /\ hybridAt[t] \in {"comparing", "assigning", "open", "write"} =>
          holds[t] \in [Hybrid!Lists -> Hybrid!Entries]
    /\ hybridAt[t] \in {"copying_ids", "clearing", "unlinking", "filling"} =>
          holds[t][1] \in Hybrid!Entries
    /\ hybridAt[t] \in {"clearing", "unlinking", "filling"} => holds[t][2] \in Hybrid!Entries

HybridTypes ==
    /\ dense \in Seq(HybridDocs)
    /\ sparse \in [Hybrid!Lists -> Hybrid!Entries]
    /\ disk \in {Missing, Torn} \cup [Hybrid!Lists -> Hybrid!Entries]
    /\ rows \subseteq uploaded /\ uploaded \subseteq HybridDocs
    /\ todo \subseteq HybridDocs
    /\ hybridAt \in [Hybrid!Threads -> Hybrid!Points]
    /\ DOMAIN task = Hybrid!Threads
    /\ hybridDoc \in [Hybrid!Threads -> HybridDocs \cup {Null}]
    /\ holds \in [Hybrid!Threads -> [Hybrid!Lists -> Hybrid!Entries \cup {Live}]]
    /\ step \in [Hybrid!Threads -> Hybrid!Lists]
    /\ entry \in [Hybrid!Threads -> Nat]
    /\ \A t \in Hybrid!Threads : Stands(t)
    /\ phase \in {"serving", "loading", "booting", "saving", "broken"}
    /\ phase = "serving" => todo = {}

(* Who appends an entry to the lists in turn has it until it is in all.    *)
Filling == \A t \in Hybrid!Threads : hybridAt[t] = "filling" /\ step[t] # 1 => Hybrid!Taken(t)

(* What a removal keeps is a list of documents again.                      *)
LEMMA KeptTypes ==
    ASSUME NEW S, NEW list \in Seq(S), NEW by \in Seq(S), NEW d, Len(list) = Len(by)
    PROVE  Hybrid!Kept(list, by, d) \in Seq(S)
<1>1. Suffix(<<>>, list) /\ <<>> \in Seq(S) /\ 1..Len(<<>>) = {}
  BY DEF Suffix
<1> QED
  BY <1>1, KeptOf, HybridKept

(* Empty indexes have these types.                                         *)
LEMMA HybridInit == Hybrid!Init => HybridTypes
<1>1. <<>> \in Seq(HybridDocs) /\ <<>> \in Seq(HybridDocs \cup {Null})
  OBVIOUS
<1> QED
  BY <1>1 DEF Hybrid!Init, HybridTypes, Hybrid!Points, Hybrid!Entries, Hybrid!Empty, Hybrid!Lists, Busy,
               Stands, Stepping

(* Every step keeps the types.                                             *)
LEMMA HybridTypesStep ==
    ASSUME HybridTypes, Filling, [Hybrid!Next]_Hybrid!vars
    PROVE  HybridTypes'
<1> USE DEF HybridTypes, Stands, Busy, Hybrid!Goto, Hybrid!stores, Hybrid!threads,
            Hybrid!process, Hybrid!history, Hybrid!Chunks, Hybrid!Ids, Hybrid!Owners
<1>0. /\ 1 \in Hybrid!Lists /\ 2 \in Hybrid!Lists /\ 3 \in Hybrid!Lists
      /\ \A k \in Hybrid!Lists : k # 3 => k + 1 \in Hybrid!Lists
  BY DEF Hybrid!Lists
<1>e. /\ <<>> \in Hybrid!Entries /\ <<>> \in Seq(HybridDocs)
      /\ \A s \in Seq(HybridDocs) : s \in Hybrid!Entries
      /\ \A s \in Hybrid!Entries : \A d \in HybridDocs \cup {Null} : Append(s, d) \in Hybrid!Entries
      /\ \A s \in Hybrid!Entries : \A i \in 1..Len(s) : s[i] \in HybridDocs \cup {Null}
      /\ \A s \in Hybrid!Entries : Len(s) \in Nat /\ DOMAIN s = 1..Len(s)
  BY DEF Hybrid!Entries
(* A request that ends forgets everything.                                 *)
<1>f. ASSUME NEW t \in Hybrid!Threads,
             hybridAt' = [hybridAt EXCEPT ![t] = "idle"], task' = [task EXCEPT ![t] = "none"],
             hybridDoc' = [hybridDoc EXCEPT ![t] = Null], step' = [step EXCEPT ![t] = 1],
             entry' = [entry EXCEPT ![t] = 0], holds' = [holds EXCEPT ![t] = Hybrid!Empty],
             rows' \subseteq uploaded, UNCHANGED <<Hybrid!stores, uploaded, Hybrid!process>>
      PROVE  HybridTypes'
  <2>1. Hybrid!Empty \in [Hybrid!Lists -> Hybrid!Entries]
    BY <1>e DEF Hybrid!Empty
  <2>2. /\ holds' \in [Hybrid!Threads -> [Hybrid!Lists -> Hybrid!Entries \cup {Live}]]
        /\ hybridAt' \in [Hybrid!Threads -> Hybrid!Points]
        /\ step' \in [Hybrid!Threads -> Hybrid!Lists] /\ entry' \in [Hybrid!Threads -> Nat]
        /\ hybridDoc' \in [Hybrid!Threads -> HybridDocs \cup {Null}]
        /\ DOMAIN task' = Hybrid!Threads
    BY <1>f, <1>0, <2>1 DEF Hybrid!Points
  <2> QED
    BY <1>f, <2>2 DEF Stepping
(* A request goes on, with something else in its hands.                    *)
<1>m. ASSUME NEW t \in Hybrid!Threads, NEW p \in Hybrid!Points,
             hybridAt' = [hybridAt EXCEPT ![t] = p],
             UNCHANGED <<dense, sparse, rows, uploaded, task, hybridDoc, step, entry, Hybrid!process>>,
             disk' \in {disk, Missing},
             holds' \in [Hybrid!Threads -> [Hybrid!Lists -> Hybrid!Entries \cup {Live}]],
             \A u \in Hybrid!Threads : u # t => holds'[u] = holds[u],
             Stands(t)'
      PROVE  HybridTypes'
  <2>1. ASSUME NEW u \in Hybrid!Threads
        PROVE  Stands(u)'
    <3>1. CASE u # t
      <4>1. /\ hybridAt'[u] = hybridAt[u] /\ holds'[u] = holds[u]
            /\ Stands(u)
        BY <1>m, <3>1
      <4> QED
        BY <1>m, <4>1
    <3> QED
      BY <1>m, <3>1
  <2> QED
    BY <1>m, <2>1
<1>1. ASSUME NEW t \in Hybrid!Threads, NEW d \in HybridDocs, Hybrid!AddDense(t, d)
      PROVE  HybridTypes'
  <2>1. dense' \in Seq(HybridDocs)
    BY <1>1 DEF Hybrid!AddDense
  <2> QED
    BY <1>1, <2>1 DEF Hybrid!AddDense, Hybrid!Begin, Hybrid!Points, Stepping
<1>2. ASSUME NEW t \in Hybrid!Threads, NEW d \in HybridDocs, Hybrid!RemoveDense(t, d)
      PROVE  HybridTypes'
  <2>1. dense' \in Seq(HybridDocs)
    BY <1>2, KeptTypes DEF Hybrid!RemoveDense
  <2>2. /\ holds' \in [Hybrid!Threads -> [Hybrid!Lists -> Hybrid!Entries \cup {Live}]]
        /\ \A u \in Hybrid!Threads : holds'[u][1] = holds[u][1] /\ holds'[u][2] = holds[u][2]
        /\ \A u \in Hybrid!Threads : holds[u] \in [Hybrid!Lists -> Hybrid!Entries]
              => holds'[u] \in [Hybrid!Lists -> Hybrid!Entries]
    <3>1. CASE holds' = holds
      BY <3>1
    <3>2. CASE holds' = [u \in Hybrid!Threads |->
                            [holds[u] EXCEPT ![3] = IF @ = Live THEN dense ELSE @]]
      <4>1. ASSUME NEW u \in Hybrid!Threads
            PROVE  /\ holds'[u] \in [Hybrid!Lists -> Hybrid!Entries \cup {Live}]
                   /\ holds'[u][1] = holds[u][1] /\ holds'[u][2] = holds[u][2]
                   /\ holds[u] \in [Hybrid!Lists -> Hybrid!Entries]
                         => holds'[u] \in [Hybrid!Lists -> Hybrid!Entries]
        <5> DEFINE h == holds[u]
        <5> DEFINE o == IF h[3] = Live THEN dense ELSE h[3]
        <5>1. /\ holds'[u] = [h EXCEPT ![3] = o]
              /\ h \in [Hybrid!Lists -> Hybrid!Entries \cup {Live}]
          BY <3>2
        <5>2. /\ o \in Hybrid!Entries \cup {Live}
              /\ h[3] \in Hybrid!Entries => o \in Hybrid!Entries
          BY <5>1, <1>0, <1>e
        <5> HIDE DEF o
        <5>3. /\ holds'[u] \in [Hybrid!Lists -> Hybrid!Entries \cup {Live}]
              /\ holds'[u][1] = h[1] /\ holds'[u][2] = h[2]
          BY <5>1, <5>2, <1>0
        <5>4. h \in [Hybrid!Lists -> Hybrid!Entries] =>
                 holds'[u] \in [Hybrid!Lists -> Hybrid!Entries]
          BY <5>1, <5>2, <1>0
        <5> QED
          BY <5>3, <5>4
      <4> QED
        BY <4>1, <3>2
    <3> QED
      BY <1>2, <3>1, <3>2 DEF Hybrid!RemoveDense
  <2>3. /\ hybridAt' = [hybridAt EXCEPT ![t] = "sparse"] /\ task' = [task EXCEPT ![t] = "remove"]
        /\ hybridDoc' = [hybridDoc EXCEPT ![t] = d] /\ d \in uploaded /\ phase = "serving"
        /\ hybridAt[t] = "idle"
        /\ UNCHANGED <<sparse, disk, rows, uploaded, step, entry, phase, todo>>
    BY <1>2 DEF Hybrid!RemoveDense, Hybrid!Begin
  <2> QED
    BY <2>1, <2>2, <2>3 DEF Hybrid!Points, Stepping
<1>3. ASSUME NEW t \in Hybrid!Threads, Hybrid!AddSparse(t)
      PROVE  HybridTypes'
  <2>1. sparse' \in [Hybrid!Lists -> Hybrid!Entries]
    BY <1>3, <1>e DEF Hybrid!AddSparse
  <2> QED
    BY <1>3, <1>0, <2>1 DEF Hybrid!AddSparse, Hybrid!NextList, Hybrid!Points, Stepping
<1>4. ASSUME NEW t \in Hybrid!Threads, Hybrid!RemoveFilter(t)
      PROVE  HybridTypes'
  <2>1. CASE sparse[1] = <<>>
    <3>1. /\ hybridAt' = [hybridAt EXCEPT ![t] = "commit"] /\ hybridAt[t] = "sparse"
          /\ UNCHANGED <<Hybrid!stores, rows, uploaded, task, hybridDoc, holds, step, entry,
                        Hybrid!process>>
      BY <1>4, <2>1 DEF Hybrid!RemoveFilter
    <3> QED
      BY <3>1 DEF Hybrid!Points, Stepping
  <2>2. CASE sparse[1] # <<>>
    <3> DEFINE kept == [k \in Hybrid!Lists |-> Hybrid!Kept(sparse[k], sparse[3], hybridDoc[t])]
    <3>1. /\ holds' = [holds EXCEPT ![t] = kept]
          /\ hybridAt' = [hybridAt EXCEPT ![t] = "comparing"] /\ hybridAt[t] = "sparse"
          /\ \A k \in Hybrid!Lists : Len(sparse[k]) = Len(sparse[3])
      BY <1>4, <1>0, <2>2 DEF Hybrid!RemoveFilter, Hybrid!SameLength
    <3>2. kept \in [Hybrid!Lists -> Hybrid!Entries]
      BY <3>1, <1>0, KeptTypes DEF Hybrid!Entries
    <3> HIDE DEF kept
    <3> QED
      BY <1>4, <3>1, <3>2 DEF Hybrid!RemoveFilter, Hybrid!Points, Stepping
  <2> QED
    BY <2>1, <2>2
<1>5. ASSUME NEW t \in Hybrid!Threads,
             Hybrid!RemoveRaises(t) \/ Hybrid!WriteFails(t) \/ Hybrid!SyncRaises(t)
      PROVE  HybridTypes'
  <2>1. /\ hybridAt' = [hybridAt EXCEPT ![t] = "idle"] /\ task' = [task EXCEPT ![t] = "none"]
        /\ hybridDoc' = [hybridDoc EXCEPT ![t] = Null] /\ step' = [step EXCEPT ![t] = 1]
        /\ entry' = [entry EXCEPT ![t] = 0] /\ holds' = [holds EXCEPT ![t] = Hybrid!Empty]
        /\ UNCHANGED <<Hybrid!stores, rows, uploaded, Hybrid!process>>
    BY <1>5 DEF Hybrid!RemoveRaises, Hybrid!WriteFails, Hybrid!SyncRaises, Hybrid!End
  <2> QED
    BY <2>1, <1>f
<1>6. ASSUME NEW t \in Hybrid!Threads, Hybrid!RemoveCompare(t) \/ Hybrid!SyncDone(t)
      PROVE  HybridTypes'
  <2>1. PICK p \in {"commit", "assigning", "dump"} :
          /\ hybridAt' = [hybridAt EXCEPT ![t] = p]
          /\ p = "assigning" => hybridAt[t] = "comparing"
    BY <1>6 DEF Hybrid!RemoveCompare, Hybrid!SyncDone
  <2>2. /\ hybridAt[t] \in {"comparing", "filling"} /\ step[t] = 1
        /\ UNCHANGED <<Hybrid!stores, rows, uploaded, task, hybridDoc, holds, step, entry,
                      Hybrid!process>>
    BY <1>6 DEF Hybrid!RemoveCompare, Hybrid!SyncDone, Stepping
  <2> QED
    BY <2>1, <2>2 DEF Hybrid!Points, Stepping
<1>7. ASSUME NEW t \in Hybrid!Threads, Hybrid!RemoveAssign(t)
      PROVE  HybridTypes'
  <2>1. sparse' \in [Hybrid!Lists -> Hybrid!Entries]
    BY <1>7, <1>e DEF Hybrid!RemoveAssign
  <2> QED
    BY <1>7, <1>0, <2>1 DEF Hybrid!RemoveAssign, Hybrid!NextList, Hybrid!Points, Stepping
<1>8. ASSUME NEW t \in Hybrid!Threads, Hybrid!Commit(t)
      PROVE  HybridTypes'
  <2>1. rows' \subseteq rows \cup {hybridDoc[t]} /\ (task[t] = "sync" => rows' = rows)
    BY <1>8 DEF Hybrid!Commit
  <2>2. rows' \subseteq uploaded'
    BY <1>8, <2>1 DEF Hybrid!Commit
  <2> QED
    BY <1>8, <1>f, <2>2 DEF Hybrid!Commit, Hybrid!End
<1>9. ASSUME NEW t \in Hybrid!Threads, Hybrid!Serialize(t) \/ Hybrid!Truncate(t) \/ Hybrid!Write(t)
      PROVE  HybridTypes'
  <2>1. CASE Hybrid!Serialize(t)
    <3>1. /\ hybridAt' = [hybridAt EXCEPT ![t] = "open"] /\ hybridAt[t] = "dump"
          /\ holds' = [holds EXCEPT ![t] = sparse]
          /\ UNCHANGED <<Hybrid!stores, rows, uploaded, task, hybridDoc, step, entry, Hybrid!process>>
      BY <2>1 DEF Hybrid!Serialize
    <3>2. sparse \in [Hybrid!Lists -> Hybrid!Entries \cup {Live}]
      BY <1>e
    <3> QED
      BY <3>1, <3>2 DEF Hybrid!Points, Stepping
  <2>2. CASE Hybrid!Truncate(t)
    BY <2>2 DEF Hybrid!Truncate, Hybrid!Points, Stepping
  <2>3. CASE Hybrid!Write(t)
    BY <2>3 DEF Hybrid!Write, Hybrid!Points, Stepping
  <2> QED
    BY <1>9, <2>1, <2>2, <2>3
<1>10. ASSUME NEW t \in Hybrid!Threads, Hybrid!SyncNeeded(t)
       PROVE  HybridTypes'
  BY <1>10 DEF Hybrid!SyncNeeded, Hybrid!Begin, Hybrid!Points, Stepping
<1>11. ASSUME NEW t \in Hybrid!Threads, Hybrid!SyncCopy(t) \/ Hybrid!SyncCopyIds(t)
       PROVE  HybridTypes'
  <2> DEFINE h == holds[t]
  <2>1. h \in [Hybrid!Lists -> Hybrid!Entries \cup {Live}] /\ dense \in Hybrid!Entries
    BY <1>e
  <2>2. CASE Hybrid!SyncCopy(t)
    <3>1. holds' = [holds EXCEPT ![t] = [h EXCEPT ![1] = dense]]
      BY <2>2 DEF Hybrid!SyncCopy
    <3>2. [h EXCEPT ![1] = dense] \in [Hybrid!Lists -> Hybrid!Entries \cup {Live}]
      BY <2>1, <1>0
    <3>3. /\ hybridAt' = [hybridAt EXCEPT ![t] = "copying_ids"] /\ hybridAt[t] = "copying"
          /\ UNCHANGED <<Hybrid!stores, rows, uploaded, task, hybridDoc, step, entry, Hybrid!process>>
      BY <2>2 DEF Hybrid!SyncCopy
    <3>4. /\ holds'[t][1] \in Hybrid!Entries
          /\ holds' \in [Hybrid!Threads -> [Hybrid!Lists -> Hybrid!Entries \cup {Live}]]
      BY <2>1, <3>1, <3>2, <1>0
    <3>5. \A u \in Hybrid!Threads : u # t => holds'[u] = holds[u]
      BY <3>1
    <3>6. Stands(t)'
      BY <3>3, <3>4 DEF Stepping
    <3> QED
      BY <1>m, <3>3, <3>4, <3>5, <3>6 DEF Hybrid!Points
  <2>3. CASE Hybrid!SyncCopyIds(t)
    <3>1. holds' = [holds EXCEPT ![t] = [h EXCEPT ![2] = dense, ![3] = Live]]
      BY <2>3 DEF Hybrid!SyncCopyIds
    <3>2. [h EXCEPT ![2] = dense, ![3] = Live] \in [Hybrid!Lists -> Hybrid!Entries \cup {Live}]
      BY <2>1, <1>0
    <3>3. /\ hybridAt' = [hybridAt EXCEPT ![t] = "clearing"] /\ hybridAt[t] = "copying_ids"
          /\ UNCHANGED <<Hybrid!stores, rows, uploaded, task, hybridDoc, step, entry, Hybrid!process>>
      BY <2>3 DEF Hybrid!SyncCopyIds
    <3>0. h[1] \in Hybrid!Entries
      BY <3>3
    <3>4. /\ holds'[t][1] \in Hybrid!Entries /\ holds'[t][2] \in Hybrid!Entries
          /\ holds' \in [Hybrid!Threads -> [Hybrid!Lists -> Hybrid!Entries \cup {Live}]]
      <4> DEFINE n == [h EXCEPT ![2] = dense, ![3] = Live]
      <4>1. n[1] = h[1] /\ n[2] = dense /\ n \in [Hybrid!Lists -> Hybrid!Entries \cup {Live}]
        BY <2>1, <3>2, <1>0
      <4>2. holds' = [holds EXCEPT ![t] = n]
        BY <3>1
      <4> HIDE DEF n, h
      <4>3. holds'[t] = n /\ holds' \in [Hybrid!Threads -> [Hybrid!Lists -> Hybrid!Entries \cup {Live}]]
        BY <4>1, <4>2
      <4> QED
        BY <2>1, <3>0, <4>1, <4>3
    <3>5. \A u \in Hybrid!Threads : u # t => holds'[u] = holds[u]
      BY <3>1
    <3>6. Stands(t)'
      BY <3>3, <3>4 DEF Stepping
    <3> QED
      BY <1>m, <3>3, <3>4, <3>5, <3>6 DEF Hybrid!Points
  <2> QED
    BY <1>11, <2>2, <2>3
<1>12. ASSUME NEW t \in Hybrid!Threads, Hybrid!SyncClear(t)
       PROVE  HybridTypes'
  <2>1. sparse' \in [Hybrid!Lists -> Hybrid!Entries]
    BY <1>12, <1>e DEF Hybrid!SyncClear
  <2> QED
    BY <1>12, <1>0, <2>1 DEF Hybrid!SyncClear, Hybrid!NextList, Hybrid!Points, Stepping
<1>13. ASSUME NEW t \in Hybrid!Threads, Hybrid!SyncUnlink(t)
       PROVE  HybridTypes'
  <2> DEFINE h == holds[t]
             g == [i \in DOMAIN h[1] |-> Null]
             ids == IF h[2] = <<>> THEN h[1] ELSE h[2]
             own == IF Hybrid!OwnersSeen(t) = <<>> THEN g ELSE h[3]
             n == [h EXCEPT ![2] = ids, ![3] = own]
  <2>1. /\ h \in [Hybrid!Lists -> Hybrid!Entries \cup {Live}]
        /\ h[1] \in Hybrid!Entries /\ h[2] \in Hybrid!Entries /\ hybridAt[t] = "unlinking"
    BY <1>13 DEF Hybrid!SyncUnlink
  <2>2. g \in Hybrid!Entries
    <3>1. Len(h[1]) \in Nat /\ DOMAIN h[1] = 1..Len(h[1])
      BY <2>1, <1>e
    <3> QED
      BY <3>1 DEF Hybrid!Entries
  <2>3. holds' = [holds EXCEPT ![t] = n]
    BY <1>13 DEF Hybrid!SyncUnlink
  <2>4. ids \in Hybrid!Entries /\ own \in Hybrid!Entries \cup {Live}
    BY <2>1, <2>2, <1>0
  <2> HIDE DEF ids, own
  <2>5. n \in [Hybrid!Lists -> Hybrid!Entries \cup {Live}] /\ n[1] = h[1] /\ n[2] = ids
    <3> HIDE DEF h
    <3>1. n \in [Hybrid!Lists -> Hybrid!Entries \cup {Live}]
      BY <2>1, <2>4, <1>0
    <3>2. n[1] = h[1] /\ n[2] = ids
      BY <2>1, <1>0
    <3> QED
      BY <3>1, <3>2
  <2> HIDE DEF n
  <2> QED
    <3>1. PICK p \in {"commit", "filling"} : hybridAt' = [hybridAt EXCEPT ![t] = p]
      BY <1>13 DEF Hybrid!SyncUnlink
    <3>2. disk' = Missing /\ UNCHANGED <<dense, sparse, rows, uploaded, task, hybridDoc, step, entry,
                                       Hybrid!process>>
      BY <1>13 DEF Hybrid!SyncUnlink
    <3>3. /\ holds' \in [Hybrid!Threads -> [Hybrid!Lists -> Hybrid!Entries \cup {Live}]]
          /\ holds'[t][1] \in Hybrid!Entries /\ holds'[t][2] \in Hybrid!Entries
          /\ \A u \in Hybrid!Threads : u # t => holds'[u] = holds[u]
      BY <2>1, <2>3, <2>4, <2>5
    <3>4. Stands(t)'
      BY <2>1, <3>1, <3>2, <3>3 DEF Stepping
    <3> QED
      BY <1>m, <3>1, <3>2, <3>3, <3>4 DEF Hybrid!Points
<1>14. ASSUME NEW t \in Hybrid!Threads, Hybrid!SyncFill(t)
       PROVE  HybridTypes'
  <2> DEFINE e == Hybrid!Sources(t)[step[t]][entry[t] + 1]
  <2>1. /\ sparse' = [sparse EXCEPT ![step[t]] = Append(@, e)]
        /\ hybridAt[t] = "filling" /\ hybridAt' = [hybridAt EXCEPT ![t] = "filling"]
        /\ step' = [step EXCEPT ![t] = IF @ = 3 THEN 1 ELSE @ + 1]
        /\ entry' = [entry EXCEPT ![t] = IF step[t] = 3 THEN @ + 1 ELSE @]
        /\ UNCHANGED <<dense, disk, rows, uploaded, task, hybridDoc, holds, phase, todo>>
    BY <1>14 DEF Hybrid!SyncFill, Hybrid!NextList
  <2>2. Hybrid!Taken(t)
    BY <1>14, <2>1 DEF Hybrid!SyncFill, Filling
  <2>3. \A k \in Hybrid!Lists : Hybrid!Sources(t)[k] \in Hybrid!Entries
    <3>1. holds[t] \in [Hybrid!Lists -> Hybrid!Entries \cup {Live}]
      OBVIOUS
    <3>2. Hybrid!OwnersSeen(t) \in Hybrid!Entries
      BY <3>1, <1>0, <1>e DEF Hybrid!OwnersSeen
    <3> QED
      BY <2>1, <3>2 DEF Hybrid!Sources, Hybrid!Lists
  <2>4. e \in HybridDocs \cup {Null}
    BY <2>2, <2>3, <1>e DEF Hybrid!Taken
  <2> HIDE DEF e
  <2>5. sparse' \in [Hybrid!Lists -> Hybrid!Entries]
    BY <2>1, <2>4, <1>e
  <2> QED
    BY <1>0, <2>1, <2>5 DEF Hybrid!Points, Stepping
<1>15. CASE Hybrid!Crash
  BY <1>15, <1>0, <1>e DEF Hybrid!Crash, Hybrid!Empty, Hybrid!Points, Stepping
<1>16. CASE Hybrid!Load \/ Hybrid!LoadRaises \/ Hybrid!BootSync \/ Hybrid!BootSave \/ Hybrid!BootFails
  <2>1. sparse' \in [Hybrid!Lists -> Hybrid!Entries]
    <3>1. CASE Hybrid!Load
      BY <3>1, <1>e DEF Hybrid!Load, Hybrid!Empty, Readable
    <3>2. CASE Hybrid!BootSync
      BY <3>2, <1>e DEF Hybrid!BootSync
    <3>3. CASE Hybrid!LoadRaises \/ Hybrid!BootSave \/ Hybrid!BootFails
      BY <3>3 DEF Hybrid!LoadRaises, Hybrid!BootSave, Hybrid!BootFails
    <3> QED
      BY <1>16, <3>1, <3>2, <3>3
  <2>2. disk' \in {Missing, Torn} \cup [Hybrid!Lists -> Hybrid!Entries]
    BY <1>16 DEF Hybrid!Load, Hybrid!LoadRaises, Hybrid!BootSync, Hybrid!BootSave, Hybrid!BootFails
  <2> QED
    BY <1>16, <2>1, <2>2
       DEF Hybrid!Load, Hybrid!LoadRaises, Hybrid!BootSync, Hybrid!BootSave, Hybrid!BootFails
<1>17. ASSUME NEW d \in HybridDocs, Hybrid!BootIndex(d)
       PROVE  HybridTypes'
  <2>1. dense' \in Seq(HybridDocs)
    BY <1>17 DEF Hybrid!BootIndex
  <2>2. ASSUME NEW k \in Hybrid!Lists
        PROVE  (IF sparse[1] = <<>> THEN sparse[k] ELSE Hybrid!Kept(sparse[k], sparse[3], d))
                   \in Hybrid!Entries
    <3>1. sparse[1] # <<>> => Len(sparse[k]) = Len(sparse[3])
      BY <1>17, <1>0 DEF Hybrid!BootIndex, Hybrid!SameLength
    <3> QED
      BY <3>1, <1>0, KeptTypes DEF Hybrid!Entries
  <2>3. sparse' \in [Hybrid!Lists -> Hybrid!Entries]
    BY <1>17, <1>e, <2>2 DEF Hybrid!BootIndex
  <2> QED
    BY <1>17, <2>1, <2>3 DEF Hybrid!BootIndex
<1>18. ASSUME NEW d \in HybridDocs, Hybrid!BootSkip(d)
       PROVE  HybridTypes'
  BY <1>18 DEF Hybrid!BootSkip
<1>19. CASE UNCHANGED Hybrid!vars
  BY <1>19 DEF Hybrid!vars
<1> QED
  BY <1>1, <1>2, <1>3, <1>4, <1>5, <1>6, <1>7, <1>8, <1>9, <1>10, <1>11, <1>12, <1>13, <1>14,
     <1>15, <1>16, <1>17, <1>18, <1>19
     DEF Hybrid!Next, Hybrid!Change, Hybrid!Sync, Hybrid!Persist, Hybrid!Boot, Hybrid!Threads

(* The owners a rebuild reads never get fewer.                             *)
LEMMA OwnersStay ==
    ASSUME HybridTypes, NEW t \in Hybrid!Threads, NEW d \in HybridDocs,
           Hybrid!AddDense(t, d) \/ Hybrid!RemoveDense(t, d),
           NEW u \in Hybrid!Threads
    PROVE  /\ holds'[u][1] = holds[u][1] /\ holds'[u][2] = holds[u][2]
           /\ Hybrid!OwnersSeen(u)' \in Hybrid!Entries
           /\ Hybrid!OwnersSeen(u) \in Hybrid!Entries
           /\ Len(Hybrid!OwnersSeen(u)') >= Len(Hybrid!OwnersSeen(u))
<1> USE DEF HybridTypes, Hybrid!OwnersSeen, Hybrid!Owners
<1>0. 1 \in Hybrid!Lists /\ 2 \in Hybrid!Lists /\ 3 \in Hybrid!Lists
  BY DEF Hybrid!Lists
<1>e. /\ \A s \in Seq(HybridDocs) : s \in Hybrid!Entries
      /\ \A s \in Hybrid!Entries : Len(s) \in Nat
      /\ Live \notin Hybrid!Entries
  BY IndexesAssumption DEF Hybrid!Entries
<1>1. CASE Hybrid!AddDense(t, d)
  <2>1. dense' = Append(dense, d) /\ holds' = holds /\ dense' \in Seq(HybridDocs)
    BY <1>1 DEF Hybrid!AddDense
  <2>2. Len(dense') >= Len(dense)
    BY <2>1
  <2>3. /\ Hybrid!OwnersSeen(u)' = IF holds[u][3] = Live THEN dense' ELSE holds[u][3]
        /\ holds[u][3] \in Hybrid!Entries \cup {Live}
    BY <1>0, <2>1
  <2>4. dense \in Hybrid!Entries /\ dense' \in Hybrid!Entries
    BY <1>e, <2>1
  <2> QED
    BY <1>e, <2>1, <2>2, <2>3, <2>4
<1>2. CASE Hybrid!RemoveDense(t, d)
  <2>1. /\ dense' \in Seq(HybridDocs)
        /\ Len(dense') = Len(dense) => dense' = dense
    BY <1>2, KeptFrom DEF Hybrid!RemoveDense
  <2>2. CASE Len(dense') = Len(dense)
    BY <1>2, <1>0, <1>e, <2>1, <2>2 DEF Hybrid!RemoveDense
  <2>3. CASE Len(dense') # Len(dense)
    <3> DEFINE h == holds[u]
    <3>1. /\ holds'[u] = [h EXCEPT ![3] = IF h[3] = Live THEN dense ELSE h[3]]
          /\ h \in [Hybrid!Lists -> Hybrid!Entries \cup {Live}]
      BY <1>2, <2>3 DEF Hybrid!RemoveDense
    <3> QED
      BY <3>1, <1>0, <1>e
  <2> QED
    BY <2>2, <2>3
<1> QED
  BY <1>1, <1>2

LEMMA FillingStep ==
    ASSUME HybridTypes, Filling, [Hybrid!Next]_Hybrid!vars
    PROVE  Filling'
<1> USE DEF Filling, Hybrid!Goto, Hybrid!stores, Hybrid!threads, Hybrid!process, Hybrid!history,
            Hybrid!Chunks, Hybrid!Ids, Hybrid!Owners
<1>t. /\ hybridAt \in [Hybrid!Threads -> Hybrid!Points] /\ step \in [Hybrid!Threads -> Hybrid!Lists]
      /\ holds \in [Hybrid!Threads -> [Hybrid!Lists -> Hybrid!Entries \cup {Live}]]
      /\ entry \in [Hybrid!Threads -> Nat]
  BY DEF HybridTypes
(* A step that leaves the dense index, and what others hold, alone.        *)
<1>a. ASSUME NEW t \in Hybrid!Threads, dense' = dense,
             \A u \in Hybrid!Threads : u # t =>
                 hybridAt'[u] = hybridAt[u] /\ step'[u] = step[u] /\ holds'[u] = holds[u]
                     /\ entry'[u] = entry[u],
             hybridAt'[t] = "filling" /\ step'[t] # 1 => Hybrid!Taken(t)'
      PROVE  Filling'
  <2>1. ASSUME NEW u \in Hybrid!Threads, u # t, hybridAt'[u] = "filling", step'[u] # 1
        PROVE  Hybrid!Taken(u)'
    <3>1. Hybrid!Taken(u)
      BY <1>a, <2>1
    <3> QED
      BY <1>a, <2>1, <3>1 DEF Hybrid!Taken, Hybrid!Sources, Hybrid!OwnersSeen
  <2> QED
    BY <1>a, <2>1
<1>1. ASSUME NEW t \in Hybrid!Threads, NEW d \in HybridDocs,
             Hybrid!AddDense(t, d) \/ Hybrid!RemoveDense(t, d)
      PROVE  Filling'
  <2> SUFFICES ASSUME NEW u \in Hybrid!Threads, hybridAt'[u] = "filling", step'[u] # 1
               PROVE  Hybrid!Taken(u)'
    OBVIOUS
  <2>1. u # t /\ hybridAt[u] = "filling" /\ step[u] # 1 /\ entry' = entry
    BY <1>1, <1>t DEF Hybrid!AddDense, Hybrid!RemoveDense, Hybrid!Begin
  <2>2. Hybrid!Taken(u)
    BY <2>1
  <2>3. /\ holds'[u][1] = holds[u][1] /\ holds'[u][2] = holds[u][2]
        /\ Len(Hybrid!OwnersSeen(u)') >= Len(Hybrid!OwnersSeen(u))
        /\ Hybrid!OwnersSeen(u) \in Hybrid!Entries
    BY <1>1, OwnersStay
  <2>4. Len(Hybrid!OwnersSeen(u)) \in Nat /\ entry[u] < Len(Hybrid!OwnersSeen(u)) /\ entry[u] \in Nat
    BY <1>t, <2>2, <2>3 DEF Hybrid!Taken, Hybrid!Sources, Hybrid!Lists, Hybrid!Entries
  <2> DEFINE own == Hybrid!OwnersSeen(u)'
  <2>5. own \in Hybrid!Entries
    BY <1>1, OwnersStay
  <2>6. Len(own) \in Nat
    BY <2>5 DEF Hybrid!Entries
  <2>7. entry'[u] < Len(own)
    BY <2>1, <2>3, <2>4, <2>6
  <2> HIDE DEF own
  <2>8. Hybrid!Sources(u)' = <<holds[u][1], holds[u][2], own>>
    BY <2>3 DEF Hybrid!Sources, own
  <2>9. entry'[u] < Len(holds[u][1]) /\ entry'[u] < Len(holds[u][2])
    BY <2>1, <2>2 DEF Hybrid!Taken, Hybrid!Sources, Hybrid!Lists
  <2> QED
    BY <2>7, <2>8, <2>9 DEF Hybrid!Taken, Hybrid!Lists
<1>2. ASSUME NEW t \in Hybrid!Threads,
             \/ Hybrid!AddSparse(t) \/ Hybrid!RemoveFilter(t) \/ Hybrid!RemoveRaises(t)
             \/ Hybrid!RemoveCompare(t) \/ Hybrid!RemoveAssign(t) \/ Hybrid!Commit(t)
             \/ Hybrid!Persist(t)
      PROVE  Filling'
  BY <1>2, <1>a, <1>t DEF Hybrid!AddSparse, Hybrid!RemoveFilter, Hybrid!RemoveRaises,
     Hybrid!RemoveCompare, Hybrid!RemoveAssign, Hybrid!Commit, Hybrid!Persist, Hybrid!Serialize,
     Hybrid!Truncate, Hybrid!Write, Hybrid!WriteFails, Hybrid!End, Hybrid!NextList
<1>3. ASSUME NEW t \in Hybrid!Threads,
             \/ Hybrid!SyncNeeded(t) \/ Hybrid!SyncCopy(t) \/ Hybrid!SyncCopyIds(t)
             \/ Hybrid!SyncClear(t) \/ Hybrid!SyncDone(t) \/ Hybrid!SyncRaises(t)
      PROVE  Filling'
  BY <1>3, <1>a, <1>t DEF Hybrid!SyncNeeded, Hybrid!SyncCopy, Hybrid!SyncCopyIds, Hybrid!SyncClear,
     Hybrid!SyncDone, Hybrid!SyncRaises, Hybrid!End, Hybrid!NextList, Hybrid!Begin
<1>4. ASSUME NEW t \in Hybrid!Threads, Hybrid!SyncUnlink(t)
      PROVE  Filling'
  <2>1. step[t] = 1
    BY <1>4 DEF Hybrid!SyncUnlink, HybridTypes, Stands, Stepping
  <2> QED
    BY <1>4, <1>a, <1>t, <2>1 DEF Hybrid!SyncUnlink
<1>5. ASSUME NEW t \in Hybrid!Threads, Hybrid!SyncFill(t)
      PROVE  Filling'
  <2>1. Hybrid!Taken(t)
    BY <1>5 DEF Hybrid!SyncFill
  <2>2. /\ holds' = holds /\ dense' = dense
        /\ hybridAt' = [hybridAt EXCEPT ![t] = "filling"]
        /\ step' = [step EXCEPT ![t] = IF @ = 3 THEN 1 ELSE @ + 1]
        /\ entry' = [entry EXCEPT ![t] = IF step[t] = 3 THEN @ + 1 ELSE @]
    BY <1>5 DEF Hybrid!SyncFill, Hybrid!NextList
  <2>3. step'[t] # 1 => entry'[t] = entry[t]
    BY <1>t, <2>2
  <2>4. step'[t] # 1 => Hybrid!Taken(t)'
    BY <2>1, <2>2, <2>3 DEF Hybrid!Taken, Hybrid!Sources, Hybrid!OwnersSeen
  <2> QED
    BY <1>a, <1>t, <2>2, <2>4
<1>6. CASE Hybrid!Crash
  BY <1>6 DEF Hybrid!Crash
<1>7. CASE Hybrid!Boot
  <2>1. \A u \in Hybrid!Threads : hybridAt'[u] = "idle"
    BY <1>7 DEF Hybrid!Boot, Hybrid!Load, Hybrid!LoadRaises, Hybrid!BootIndex, Hybrid!BootSkip,
       Hybrid!BootSync, Hybrid!BootSave, Hybrid!BootFails, HybridTypes, Stands, Busy
  <2> QED
    BY <2>1
<1>8. CASE UNCHANGED Hybrid!vars
  BY <1>8 DEF Hybrid!vars, Hybrid!Taken, Hybrid!Sources, Hybrid!OwnersSeen
<1> QED
  BY <1>1, <1>2, <1>3, <1>4, <1>5, <1>6, <1>7, <1>8
     DEF Hybrid!Next, Hybrid!Change, Hybrid!Sync, Hybrid!Threads

(* What the reconstruction at start-up relies on.                          *)
Rebuilding ==
    /\ phase = "loading" => dense = <<>>
    /\ \A i \in 1..Len(dense) : dense[i] \notin todo

(* All lists of a copy of the sparse index are alike.                      *)
Even(all) == \A k \in Hybrid!Lists : all[k] = all[1]

(* The list holds the first n entries of another.                          *)
Beginning(list, n, whole) == Len(list) = n /\ \A i \in 1..n : list[i] = whole[i]

(* How far the only request at work has come.                              *)
HowFar(t) ==
    /\ hybridAt[t] = "adding" =>
          \A k \in Hybrid!Lists : (IF k < step[t] THEN sparse[k] ELSE Append(sparse[k], hybridDoc[t]))
                                  = dense
    /\ hybridAt[t] = "sparse" =>
          Even(sparse) /\ dense = Hybrid!Kept(sparse[1], sparse[1], hybridDoc[t])
    /\ hybridAt[t] = "comparing" =>
          /\ Even(sparse)
          /\ \A k \in Hybrid!Lists : holds[t][k] = dense
          /\ Len(dense) = Len(sparse[1]) => dense = sparse[1]
    /\ hybridAt[t] = "assigning" =>
          /\ \A k \in Hybrid!Lists : holds[t][k] = dense
          /\ \A k \in Hybrid!Lists : k < step[t] => sparse[k] = dense
    /\ hybridAt[t] \in {"dump", "open", "write", "commit"} => Hybrid!InLine
    /\ hybridAt[t] \in {"open", "write"} => holds[t] = sparse
    /\ hybridAt[t] = "write" => disk = Torn
    /\ hybridAt[t] \in {"sparse", "comparing", "commit"} => (Readable => disk = sparse)
    /\ hybridAt[t] \in {"copying_ids", "clearing", "unlinking", "filling"} => holds[t][1] = dense
    /\ hybridAt[t] \in {"clearing", "unlinking", "filling"} => holds[t][2] = dense /\ holds[t][3] = Live
    /\ hybridAt[t] = "clearing" => \A k \in Hybrid!Lists : k < step[t] => sparse[k] = <<>>
    /\ hybridAt[t] = "unlinking" => \A k \in Hybrid!Lists : sparse[k] = <<>>
    /\ hybridAt[t] = "filling" =>
          /\ entry[t] <= Len(dense)
          /\ \A k \in Hybrid!Lists :
                Beginning(sparse[k], IF k < step[t] THEN entry[t] + 1 ELSE entry[t], dense)

(* Nothing but this request is at work.                                    *)
Alone(t) == \A u \in Hybrid!Threads : Busy(u) => u = t

(* Either no requests ever overlapped and every start-up got through, or   *)
(* the last request to begin was a question that found nobody at work.     *)
Undisturbed == ~disturbed \/ lone

(* Undisturbed, each request leaves the lists in line with the dense       *)
(* index; without overlaps the file and the start-up keep to it as well.   *)
SerialInv ==
    /\ Undisturbed =>
          /\ \A t \in Hybrid!Threads : Busy(t) => Alone(t) /\ HowFar(t)
          /\ Hybrid!Quiet => Hybrid!InLine
    /\ ~disturbed =>
          /\ Readable => Even(disk)
          /\ (Hybrid!Quiet \/ phase = "booting") /\ Readable => disk = sparse
          /\ phase \in {"loading", "booting", "saving"} => Even(sparse) /\ Suffix(dense, sparse[1])
    /\ lone => phase = "serving"

(* A removal from nothing keeps nothing.                                   *)
LEMMA KeptNone == \A d : Hybrid!Kept(<<>>, <<>>, d) = <<>>
<1> TAKE d
<1> DEFINE f == CHOOSE f : Loop(f, <<>>, <<>>, d, Len(<<>>))
<1>1. Len(<<>>) = 0 /\ 0 \in Nat /\ 0 \in 0..0
  OBVIOUS
<1>2. Loop(f, <<>>, <<>>, d, Len(<<>>))
  BY <1>1, LoopRuns
<1>3. Kept(<<>>, <<>>, d) = f[Len(<<>>)]
  BY DEF Kept, Loop
<1> HIDE DEF f
<1>4. f[0] = <<>>
  BY <1>1, <1>2 DEF Loop
<1> QED
  BY <1>1, <1>3, <1>4, HybridKept

(* Every step keeps what the restart relies on.                            *)
LEMMA RebuildingStep ==
    ASSUME HybridTypes, Rebuilding, [Hybrid!Next]_Hybrid!vars
    PROVE  Rebuilding'
<1> USE DEF Rebuilding, Hybrid!Goto, Hybrid!stores, Hybrid!threads, Hybrid!process, Hybrid!history
<1>t. /\ dense \in Seq(HybridDocs)
      /\ phase = "serving" => todo = {}
      /\ \A t \in Hybrid!Threads : Busy(t) => phase = "serving"
  BY DEF HybridTypes, Stands
<1>1. ASSUME NEW t \in Hybrid!Threads, NEW d \in HybridDocs,
             Hybrid!AddDense(t, d) \/ Hybrid!RemoveDense(t, d)
      PROVE  Rebuilding'
  <2>1. phase = "serving" /\ UNCHANGED <<phase, todo>>
    BY <1>1 DEF Hybrid!AddDense, Hybrid!RemoveDense, Hybrid!Begin
  <2> QED
    BY <2>1, <1>t
<1>2. ASSUME NEW t \in Hybrid!Threads,
             \/ Hybrid!AddSparse(t) \/ Hybrid!RemoveFilter(t) \/ Hybrid!RemoveRaises(t)
             \/ Hybrid!RemoveCompare(t) \/ Hybrid!RemoveAssign(t)
             \/ Hybrid!Commit(t) \/ Hybrid!Persist(t) \/ Hybrid!Sync(t)
      PROVE  Rebuilding'
  <2>1. UNCHANGED <<phase, dense, todo>>
    BY <1>2 DEF Hybrid!AddSparse, Hybrid!RemoveFilter, Hybrid!RemoveRaises, Hybrid!RemoveCompare,
       Hybrid!RemoveAssign, Hybrid!Commit, Hybrid!Persist, Hybrid!Serialize, Hybrid!Truncate,
       Hybrid!Write, Hybrid!WriteFails, Hybrid!Sync, Hybrid!SyncNeeded, Hybrid!SyncCopy,
       Hybrid!SyncCopyIds, Hybrid!SyncClear, Hybrid!SyncUnlink, Hybrid!SyncFill, Hybrid!SyncDone,
       Hybrid!SyncRaises
  <2> QED
    BY <2>1
<1>3. CASE \/ Hybrid!Crash \/ Hybrid!Load \/ Hybrid!LoadRaises
           \/ Hybrid!BootSave \/ Hybrid!BootSync \/ Hybrid!BootFails
  <2>1. CASE Hybrid!Crash
    BY <2>1 DEF Hybrid!Crash
  <2>2. CASE ~Hybrid!Crash
    BY <1>3, <2>2
       DEF Hybrid!Load, Hybrid!LoadRaises, Hybrid!BootSave, Hybrid!BootSync, Hybrid!BootFails
  <2> QED
    BY <2>1, <2>2
<1>4. ASSUME NEW d \in HybridDocs, Hybrid!BootIndex(d)
      PROVE  Rebuilding'
  <2>1. dense' = Append(dense, d) /\ todo' = todo \ {d} /\ phase' = "saving"
    BY <1>4 DEF Hybrid!BootIndex
  <2> QED
    BY <2>1, <1>t
<1>5. ASSUME NEW d \in HybridDocs, Hybrid!BootSkip(d)
      PROVE  Rebuilding'
  BY <1>5 DEF Hybrid!BootSkip
<1>6. CASE UNCHANGED Hybrid!vars
  BY <1>6 DEF Hybrid!vars
<1> QED
  BY <1>1, <1>2, <1>3, <1>4, <1>5, <1>6 DEF Hybrid!Next, Hybrid!Change, Hybrid!Boot, Hybrid!Threads

(* A step of the only request keeps SerialInv if it gets as far as HowFar  *)
(* says, or ends with the indexes and the file alike.                      *)
LEMMA LoneRequest ==
    ASSUME HybridTypes, NEW t \in Hybrid!Threads, Alone(t),
           NEW p, hybridAt' = [hybridAt EXCEPT ![t] = p],
           phase' = "serving",
           p # "idle" => HowFar(t)',
           p = "idle" => Hybrid!InLine' /\ (Readable' => disk' = sparse'),
           ~disturbed' /\ Readable' => Even(disk')
    PROVE  SerialInv'
<1>1. \A u \in Hybrid!Threads : hybridAt'[u] = IF u = t THEN p ELSE hybridAt[u]
  BY DEF HybridTypes
<1>2. \A u \in Hybrid!Threads : Busy(u)' => u = t /\ p # "idle"
  BY <1>1 DEF Busy, Alone
<1>3. Hybrid!Quiet' => p = "idle"
  BY <1>1 DEF Hybrid!Quiet
<1> QED
  BY <1>2, <1>3 DEF SerialInv, Alone

(* The parts of SerialInv that only matter between requests.               *)
LEMMA NobodyAtWork ==
    ASSUME HybridTypes', phase' # "serving",
           ~disturbed' =>
               /\ Readable' => Even(disk')
               /\ phase' = "booting" /\ Readable' => disk' = sparse'
               /\ phase' \in {"loading", "booting", "saving"} => Even(sparse') /\ Suffix(dense', sparse'[1]),
           ~lone'
    PROVE  SerialInv'
<1>1. \A t \in Hybrid!Threads : ~Busy(t)'
  BY DEF HybridTypes, Stands
<1> QED
  BY <1>1 DEF SerialInv, Hybrid!Quiet

(* Every step keeps SerialInv.                                             *)
LEMMA SerialStep ==
    ASSUME HybridTypes, Filling, Rebuilding, SerialInv, [Hybrid!Next]_Hybrid!vars, HybridTypes'
    PROVE  SerialInv'
<1> USE DEF Hybrid!Goto, Hybrid!stores, Hybrid!threads, Hybrid!process, Hybrid!history,
            Hybrid!Chunks, Hybrid!Ids, Hybrid!Owners
<1>0. /\ 1 \in Hybrid!Lists /\ 2 \in Hybrid!Lists /\ 3 \in Hybrid!Lists
      /\ \A k \in Hybrid!Lists : k \in Nat /\ ~(k < 1) /\ k <= 3 /\ (k # 3 => k + 1 \in Hybrid!Lists)
  BY DEF Hybrid!Lists
<1>t. /\ dense \in Seq(HybridDocs) /\ sparse \in [Hybrid!Lists -> Hybrid!Entries]
      /\ hybridAt \in [Hybrid!Threads -> Hybrid!Points] /\ step \in [Hybrid!Threads -> Hybrid!Lists]
      /\ hybridDoc \in [Hybrid!Threads -> HybridDocs \cup {Null}]
      /\ holds \in [Hybrid!Threads -> [Hybrid!Lists -> Hybrid!Entries \cup {Live}]]
      /\ entry \in [Hybrid!Threads -> Nat]
      /\ \A s \in Seq(HybridDocs) : s \in Hybrid!Entries
      /\ \A s \in Hybrid!Entries : s \in Seq(HybridDocs \cup {Null})
      /\ \A t \in Hybrid!Threads : hybridAt[t] \notin Stepping => step[t] = 1
  BY DEF HybridTypes, Stands, Hybrid!Entries
(* The only request at work.                                               *)
<1>a. ASSUME NEW t \in Hybrid!Threads, Busy(t), Undisturbed
      PROVE  Alone(t) /\ HowFar(t) /\ phase = "serving"
  BY <1>a DEF SerialInv, HybridTypes, Stands
(* A request that begins with nobody at work.                              *)
<1>b. ASSUME NEW t \in Hybrid!Threads, NEW what, NEW point, Hybrid!Begin(t, what, point), Undisturbed'
      PROVE  /\ Alone(t) /\ Hybrid!Quiet /\ hybridAt[t] = "idle"
             /\ what # "sync" => ~disturbed' /\ ~disturbed /\ Hybrid!InLine
             /\ what # "sync" => (Readable => disk = sparse /\ Even(disk))
             /\ ~disturbed' => (Readable => Even(disk))
  BY <1>b DEF Hybrid!Begin, Alone, Busy, Hybrid!Quiet, SerialInv, Undisturbed
(* A request disturbed leaves nothing to prove.                            *)
<1>c. ASSUME NEW t \in Hybrid!Threads, ~Undisturbed', phase' = "serving"
      PROVE  SerialInv'
  BY <1>c DEF SerialInv, Undisturbed
<1>d. ~disturbed /\ Readable => Even(disk)
  BY DEF SerialInv
<1>1. ASSUME NEW t \in Hybrid!Threads, NEW d \in HybridDocs, Hybrid!AddDense(t, d)
      PROVE  SerialInv'
  <2>1. Hybrid!Begin(t, "add", "adding")
    BY <1>1 DEF Hybrid!AddDense
  <2>2. /\ hybridAt' = [hybridAt EXCEPT ![t] = "adding"] /\ phase' = "serving"
        /\ hybridDoc' = [hybridDoc EXCEPT ![t] = d]
        /\ dense' = Append(dense, d) /\ UNCHANGED <<sparse, disk, step>>
    BY <1>1, <2>1 DEF Hybrid!AddDense, Hybrid!Begin
  <2>3. CASE Undisturbed'
    <3>1. Hybrid!InLine /\ Alone(t) /\ step[t] = 1 /\ (~disturbed' => (Readable => Even(disk)))
      <4>1. Hybrid!InLine /\ Alone(t) /\ hybridAt[t] = "idle" /\ (~disturbed' => (Readable => Even(disk)))
        BY <1>b, <2>1, <2>3
      <4> QED
        BY <1>t, <4>1 DEF Stepping
    <3>2. hybridAt'[t] = "adding" /\ hybridDoc'[t] = d
      BY <1>t, <2>2
    <3>3. \A k \in Hybrid!Lists : ~(k < step'[t]) /\ Append(sparse'[k], d) = dense'
      BY <1>0, <2>2, <3>1 DEF Hybrid!InLine
    <3>4. HowFar(t)'
      BY <3>2, <3>3 DEF HowFar
    <3> QED
      BY <2>2, <3>1, <3>4, LoneRequest DEF Readable
  <2> QED
    BY <1>c, <2>2, <2>3
<1>2. ASSUME NEW t \in Hybrid!Threads, NEW d \in HybridDocs, Hybrid!RemoveDense(t, d)
      PROVE  SerialInv'
  <2>1. Hybrid!Begin(t, "remove", "sparse")
    BY <1>2 DEF Hybrid!RemoveDense
  <2>2. /\ hybridAt' = [hybridAt EXCEPT ![t] = "sparse"] /\ phase' = "serving"
        /\ hybridDoc' = [hybridDoc EXCEPT ![t] = d]
        /\ dense' = Hybrid!Kept(dense, dense, d) /\ UNCHANGED <<sparse, disk>>
    BY <1>2, <2>1 DEF Hybrid!RemoveDense, Hybrid!Begin
  <2>3. CASE Undisturbed'
    <3>1. Hybrid!InLine /\ Alone(t) /\ (Readable => disk = sparse /\ Even(disk))
      BY <1>b, <2>1, <2>3
    <3>2. hybridAt'[t] = "sparse" /\ hybridDoc'[t] = d
      BY <1>t, <2>2
    <3>3. Even(sparse') /\ dense' = Hybrid!Kept(sparse'[1], sparse'[1], d)
      BY <1>0, <2>2, <3>1 DEF Hybrid!InLine, Even
    <3>4. HowFar(t)'
      BY <2>2, <3>1, <3>2, <3>3 DEF HowFar, Readable
    <3> QED
      BY <2>2, <3>1, <3>4, LoneRequest DEF Readable
  <2> QED
    BY <1>c, <2>2, <2>3
(* The steps of a request at work.                                         *)
<1>3. ASSUME NEW t \in Hybrid!Threads, Undisturbed, Hybrid!AddSparse(t)
      PROVE  SerialInv'
  <2>1. /\ hybridAt[t] = "adding" /\ UNCHANGED <<dense, disk, phase, hybridDoc, Hybrid!history>>
        /\ sparse' = [sparse EXCEPT ![step[t]] = Append(@, hybridDoc[t])]
        /\ step' = [step EXCEPT ![t] = IF @ = 3 THEN 1 ELSE @ + 1]
        /\ hybridAt' = [hybridAt EXCEPT ![t] = IF step[t] = 3 THEN "dump" ELSE "adding"]
    BY <1>3 DEF Hybrid!AddSparse, Hybrid!NextList
  <2>2. Alone(t) /\ HowFar(t) /\ phase = "serving"
    BY <1>a, <1>3, <2>1 DEF Busy
  <2>3. \A k \in Hybrid!Lists : sparse'[k] = IF k = step[t] THEN Append(sparse[k], hybridDoc[t])
                                             ELSE sparse[k]
    BY <1>t, <2>1
  <2>4. \A k \in Hybrid!Lists :
            (IF k < step[t] THEN sparse[k] ELSE Append(sparse[k], hybridDoc[t])) = dense
    BY <2>1, <2>2 DEF HowFar
  <2>5. step[t] \in 1..3 /\ step'[t] = IF step[t] = 3 THEN 1 ELSE step[t] + 1
    BY <1>t, <2>1 DEF Hybrid!Lists
  <2>6. CASE step[t] = 3
    <3>1. \A k \in Hybrid!Lists : k < 3 \/ k = 3
      BY DEF Hybrid!Lists
    <3>2. Hybrid!InLine'
      <4>1. \A k \in Hybrid!Lists : sparse'[k] = dense
        <5> TAKE k \in Hybrid!Lists
        <5>1. CASE k < 3
          BY <2>3, <2>4, <2>6, <5>1
        <5>2. CASE k = 3
          <6>1. ~(k < step[t])
            BY <2>6, <5>2
          <6> QED
            BY <2>3, <2>4, <2>6, <5>2, <6>1
        <5> QED
          BY <3>1, <5>1, <5>2
      <4> QED
        BY <2>1, <4>1 DEF Hybrid!InLine
    <3>3. hybridAt'[t] = "dump"
      BY <1>t, <2>1, <2>6
    <3>4. HowFar(t)'
      BY <3>2, <3>3 DEF HowFar
    <3> QED
      BY <1>d, <2>1, <2>2, <2>6, <3>4, LoneRequest DEF Readable
  <2>7. CASE step[t] # 3
    <3>1. hybridAt'[t] = "adding" /\ step'[t] = step[t] + 1
      BY <1>t, <2>1, <2>5, <2>7
    <3>2. \A k \in Hybrid!Lists :
              (IF k < step'[t] THEN sparse'[k] ELSE Append(sparse'[k], hybridDoc'[t])) = dense'
      <4> TAKE k \in Hybrid!Lists
      <4>1. k < step'[t] <=> k < step[t] \/ k = step[t]
        BY <2>5, <3>1 DEF Hybrid!Lists
      <4>2. ~(step[t] < step[t])
        BY <2>5
      <4> QED
        BY <2>1, <2>3, <2>4, <4>1, <4>2
    <3>4. HowFar(t)'
      BY <3>1, <3>2 DEF HowFar
    <3> QED
      BY <1>d, <2>1, <2>2, <2>7, <3>4, LoneRequest DEF Readable
  <2> QED
    BY <2>6, <2>7
<1>4. ASSUME NEW t \in Hybrid!Threads, Undisturbed, Hybrid!RemoveFilter(t)
      PROVE  SerialInv'
  <2>1. hybridAt[t] = "sparse" /\ UNCHANGED <<dense, sparse, disk, phase, hybridDoc, Hybrid!history>>
    BY <1>4 DEF Hybrid!RemoveFilter
  <2>2. /\ Alone(t) /\ HowFar(t) /\ phase = "serving"
        /\ Even(sparse) /\ dense = Hybrid!Kept(sparse[1], sparse[1], hybridDoc[t])
        /\ Readable => disk = sparse
    BY <1>a, <1>4, <2>1 DEF Busy, HowFar
  <2>3. CASE sparse[1] = <<>>
    <3>1. hybridAt' = [hybridAt EXCEPT ![t] = "commit"] /\ hybridAt'[t] = "commit"
      BY <1>4, <1>t, <2>3 DEF Hybrid!RemoveFilter
    <3>2. Hybrid!InLine'
      BY <2>1, <2>2, <2>3, KeptNone DEF Hybrid!InLine, Even
    <3>3. HowFar(t)'
      BY <2>1, <2>2, <3>1, <3>2 DEF HowFar, Readable
    <3> QED
      BY <1>d, <2>1, <2>2, <3>1, <3>3, LoneRequest DEF Readable
  <2>4. CASE sparse[1] # <<>>
    <3>1. /\ hybridAt' = [hybridAt EXCEPT ![t] = "comparing"] /\ hybridAt'[t] = "comparing"
          /\ holds' = [holds EXCEPT ![t] =
                          [k \in Hybrid!Lists |-> Hybrid!Kept(sparse[k], sparse[3], hybridDoc[t])]]
      BY <1>4, <1>t, <2>4 DEF Hybrid!RemoveFilter
    <3>2. \A k \in Hybrid!Lists : holds'[t][k] = Hybrid!Kept(sparse[k], sparse[3], hybridDoc[t])
      BY <1>t, <3>1
    <3>3. \A k \in Hybrid!Lists : holds'[t][k] = dense'
      BY <1>0, <2>1, <2>2, <3>2 DEF Even
    <3>4. sparse[1] \in Hybrid!Entries
      BY <1>0, <1>t
    <3>5. Len(dense') = Len(sparse'[1]) => dense' = sparse'[1]
      BY <2>1, <2>2, <3>4, KeptFrom DEF Hybrid!Entries
    <3>6. HowFar(t)'
      BY <2>1, <2>2, <3>1, <3>3, <3>5 DEF HowFar, Readable, Even
    <3> QED
      BY <1>d, <2>1, <2>2, <3>1, <3>6, LoneRequest DEF Readable
  <2> QED
    BY <2>3, <2>4
<1>5. ASSUME NEW t \in Hybrid!Threads, Undisturbed, Hybrid!RemoveRaises(t)
      PROVE  FALSE
  <2>1. hybridAt[t] = "sparse" /\ ~Hybrid!SameLength(sparse)
    BY <1>5 DEF Hybrid!RemoveRaises
  <2>2. Even(sparse)
    BY <1>a, <1>5, <2>1 DEF Busy, HowFar
  <2> QED
    BY <2>1, <2>2 DEF Even, Hybrid!SameLength
<1>6. ASSUME NEW t \in Hybrid!Threads, Undisturbed, Hybrid!RemoveCompare(t)
      PROVE  SerialInv'
  <2>1. /\ hybridAt[t] = "comparing"
        /\ UNCHANGED <<dense, sparse, disk, holds, step, phase, hybridDoc, Hybrid!history>>
        /\ hybridAt' = [hybridAt EXCEPT ![t] =
                           IF Len(holds[t][1]) = Len(sparse[1]) THEN "commit" ELSE "assigning"]
    BY <1>6 DEF Hybrid!RemoveCompare
  <2>2. /\ Alone(t) /\ phase = "serving" /\ step[t] = 1
        /\ Even(sparse) /\ (Readable => disk = sparse)
        /\ \A k \in Hybrid!Lists : holds[t][k] = dense
        /\ Len(dense) = Len(sparse[1]) => dense = sparse[1]
    BY <1>a, <1>6, <1>t, <2>1 DEF Busy, HowFar, Stepping
  <2>3. CASE Len(holds[t][1]) = Len(sparse[1])
    <3>1. hybridAt'[t] = "commit"
      BY <1>t, <2>1, <2>3
    <3>2. Hybrid!InLine'
      BY <1>0, <2>1, <2>2, <2>3 DEF Hybrid!InLine, Even
    <3>3. HowFar(t)'
      BY <2>1, <2>2, <3>1, <3>2 DEF HowFar, Readable
    <3> QED
      BY <1>d, <2>1, <2>2, <2>3, <3>3, LoneRequest DEF Readable
  <2>4. CASE Len(holds[t][1]) # Len(sparse[1])
    <3>1. hybridAt'[t] = "assigning"
      BY <1>t, <2>1, <2>4
    <3>2. \A k \in Hybrid!Lists : holds'[t][k] = dense' /\ ~(k < step'[t])
      BY <1>0, <2>1, <2>2
    <3>3. HowFar(t)'
      BY <3>1, <3>2 DEF HowFar
    <3> QED
      BY <1>d, <2>1, <2>2, <2>4, <3>3, LoneRequest DEF Readable
  <2> QED
    BY <2>3, <2>4
<1>7. ASSUME NEW t \in Hybrid!Threads, Undisturbed, Hybrid!RemoveAssign(t)
      PROVE  SerialInv'
  <2>1. /\ hybridAt[t] = "assigning" /\ UNCHANGED <<dense, disk, holds, phase, Hybrid!history>>
        /\ sparse' = [sparse EXCEPT ![step[t]] = holds[t][step[t]]]
        /\ step' = [step EXCEPT ![t] = IF @ = 3 THEN 1 ELSE @ + 1]
        /\ hybridAt' = [hybridAt EXCEPT ![t] = IF step[t] = 3 THEN "dump" ELSE "assigning"]
    BY <1>7 DEF Hybrid!RemoveAssign, Hybrid!NextList
  <2>2. /\ Alone(t) /\ phase = "serving"
        /\ \A k \in Hybrid!Lists : holds[t][k] = dense
        /\ \A k \in Hybrid!Lists : k < step[t] => sparse[k] = dense
    BY <1>a, <1>7, <2>1 DEF Busy, HowFar
  <2>3. step[t] \in 1..3 /\ step'[t] = IF step[t] = 3 THEN 1 ELSE step[t] + 1
    BY <1>t, <2>1 DEF Hybrid!Lists
  <2>4. \A k \in Hybrid!Lists : k < step[t] + 1 => sparse'[k] = dense'
    <3> TAKE k \in Hybrid!Lists
    <3>1. k < step[t] + 1 => k < step[t] \/ k = step[t]
      BY <2>3 DEF Hybrid!Lists
    <3> QED
      BY <1>t, <2>1, <2>2, <3>1
  <2>5. CASE step[t] = 3
    <3>1. Hybrid!InLine'
      BY <2>4, <2>5 DEF Hybrid!InLine, Hybrid!Lists
    <3>2. hybridAt'[t] = "dump"
      BY <1>t, <2>1, <2>5
    <3>3. HowFar(t)'
      BY <3>1, <3>2 DEF HowFar
    <3> QED
      BY <1>d, <2>1, <2>2, <2>5, <3>3, LoneRequest DEF Readable
  <2>6. CASE step[t] # 3
    <3>1. hybridAt'[t] = "assigning" /\ step'[t] = step[t] + 1
      BY <1>t, <2>1, <2>3, <2>6
    <3>2. HowFar(t)'
      BY <2>1, <2>2, <2>4, <3>1 DEF HowFar
    <3> QED
      BY <1>d, <2>1, <2>2, <2>6, <3>2, LoneRequest DEF Readable
  <2> QED
    BY <2>5, <2>6
<1>8. ASSUME NEW t \in Hybrid!Threads, Undisturbed, Hybrid!Commit(t) \/ Hybrid!WriteFails(t)
      PROVE  SerialInv'
  <2>1. /\ hybridAt[t] \in {"commit", "write"}
        /\ hybridAt' = [hybridAt EXCEPT ![t] = "idle"]
        /\ UNCHANGED <<sparse, dense, disk, phase, Hybrid!history>>
    BY <1>8 DEF Hybrid!Commit, Hybrid!WriteFails, Hybrid!End
  <2>2. /\ Alone(t) /\ phase = "serving" /\ Hybrid!InLine
        /\ Readable => disk = sparse
    BY <1>a, <1>8, <2>1 DEF Busy, HowFar, Readable
  <2>3. Hybrid!InLine' /\ (Readable' => disk' = sparse')
    BY <2>1, <2>2 DEF Hybrid!InLine, Readable
  <2> QED
    BY <1>d, <2>1, <2>2, <2>3, LoneRequest DEF Readable
<1>9. ASSUME NEW t \in Hybrid!Threads, Undisturbed,
             Hybrid!Serialize(t) \/ Hybrid!Truncate(t) \/ Hybrid!Write(t)
      PROVE  SerialInv'
  <2>1. /\ hybridAt[t] \in {"dump", "open", "write"}
        /\ UNCHANGED <<sparse, dense, phase, Hybrid!history>>
    BY <1>9 DEF Hybrid!Serialize, Hybrid!Truncate, Hybrid!Write
  <2>2. /\ Alone(t) /\ phase = "serving" /\ Hybrid!InLine
        /\ hybridAt[t] \in {"open", "write"} => holds[t] = sparse
        /\ hybridAt[t] = "write" => disk = Torn
    BY <1>a, <1>9, <2>1 DEF Busy, HowFar
  <2>3. Hybrid!InLine' /\ Even(sparse')
    BY <1>0, <2>1, <2>2 DEF Hybrid!InLine, Even
  <2>4. CASE Hybrid!Serialize(t)
    <3>1. /\ hybridAt' = [hybridAt EXCEPT ![t] = "open"] /\ hybridAt'[t] = "open"
          /\ holds'[t] = sparse' /\ disk' = disk
      BY <1>t, <2>4 DEF Hybrid!Serialize
    <3>2. HowFar(t)'
      BY <2>3, <3>1 DEF HowFar
    <3> QED
      BY <1>d, <2>1, <2>2, <3>1, <3>2, LoneRequest DEF Readable
  <2>5. CASE Hybrid!Truncate(t)
    <3>1. /\ hybridAt' = [hybridAt EXCEPT ![t] = "write"] /\ hybridAt'[t] = "write"
          /\ holds'[t] = sparse' /\ disk' = Torn
      BY <1>t, <2>1, <2>2, <2>5 DEF Hybrid!Truncate
    <3>2. HowFar(t)'
      BY <2>3, <3>1 DEF HowFar
    <3> QED
      BY <2>1, <2>2, <3>1, <3>2, LoneRequest DEF Readable
  <2>6. CASE Hybrid!Write(t)
    <3>1. /\ hybridAt' = [hybridAt EXCEPT ![t] = "commit"] /\ hybridAt'[t] = "commit"
          /\ disk' = Missing \/ disk' = sparse'
      BY <1>t, <2>1, <2>2, <2>6 DEF Hybrid!Write
    <3>2. HowFar(t)'
      BY <2>3, <3>1 DEF HowFar, Readable
    <3> QED
      BY <2>1, <2>2, <2>3, <3>1, <3>2, LoneRequest DEF Readable
  <2> QED
    BY <1>9, <2>4, <2>5, <2>6
<1>10. ASSUME NEW t \in Hybrid!Threads, Hybrid!SyncNeeded(t)
       PROVE  SerialInv'
  <2>1. Hybrid!Begin(t, "sync", "copying")
    BY <1>10 DEF Hybrid!SyncNeeded
  <2>2. /\ hybridAt' = [hybridAt EXCEPT ![t] = "copying"] /\ hybridAt'[t] = "copying"
        /\ phase' = "serving" /\ UNCHANGED <<dense, sparse, disk>>
    BY <1>10, <1>t, <2>1 DEF Hybrid!SyncNeeded, Hybrid!Begin
  <2>3. CASE Undisturbed'
    <3>1. Alone(t) /\ (~disturbed' => (Readable => Even(disk)))
      BY <1>b, <2>1, <2>3
    <3>2. HowFar(t)'
      BY <2>2 DEF HowFar
    <3> QED
      BY <2>2, <3>1, <3>2, LoneRequest DEF Readable
  <2> QED
    BY <1>c, <2>2, <2>3
<1>11. ASSUME NEW t \in Hybrid!Threads, Undisturbed, Hybrid!SyncCopy(t) \/ Hybrid!SyncCopyIds(t)
       PROVE  SerialInv'
  <2>1. /\ hybridAt[t] \in {"copying", "copying_ids"}
        /\ UNCHANGED <<dense, sparse, disk, step, phase, Hybrid!history>>
    BY <1>11 DEF Hybrid!SyncCopy, Hybrid!SyncCopyIds
  <2>2. /\ Alone(t) /\ phase = "serving" /\ step[t] = 1
        /\ hybridAt[t] = "copying_ids" => holds[t][1] = dense
    BY <1>a, <1>11, <1>t, <2>1 DEF Busy, HowFar, Stepping
  <2> DEFINE h == holds[t]
  <2>3. h \in [Hybrid!Lists -> Hybrid!Entries \cup {Live}]
    BY <1>t
  <2>4. CASE Hybrid!SyncCopy(t)
    <3>1. /\ hybridAt' = [hybridAt EXCEPT ![t] = "copying_ids"] /\ hybridAt'[t] = "copying_ids"
          /\ holds' = [holds EXCEPT ![t] = [h EXCEPT ![1] = dense]]
      BY <1>t, <2>4 DEF Hybrid!SyncCopy
    <3>2. holds'[t][1] = dense'
      BY <1>0, <1>t, <2>1, <2>3, <3>1
    <3>3. HowFar(t)'
      BY <3>1, <3>2 DEF HowFar
    <3> QED
      BY <1>d, <2>1, <2>2, <3>1, <3>3, LoneRequest DEF Readable
  <2>5. CASE Hybrid!SyncCopyIds(t)
    <3>1. /\ hybridAt' = [hybridAt EXCEPT ![t] = "clearing"] /\ hybridAt'[t] = "clearing"
          /\ hybridAt[t] = "copying_ids"
          /\ holds' = [holds EXCEPT ![t] = [h EXCEPT ![2] = dense, ![3] = Live]]
      BY <1>t, <2>5 DEF Hybrid!SyncCopyIds
    <3>2. holds'[t][1] = dense' /\ holds'[t][2] = dense' /\ holds'[t][3] = Live
      BY <1>0, <1>t, <2>1, <2>2, <2>3, <3>1
    <3>3. \A k \in Hybrid!Lists : ~(k < step'[t])
      BY <1>0, <2>1, <2>2
    <3>4. HowFar(t)'
      BY <3>1, <3>2, <3>3 DEF HowFar
    <3> QED
      BY <1>d, <2>1, <2>2, <3>1, <3>4, LoneRequest DEF Readable
  <2> QED
    BY <1>11, <2>4, <2>5
<1>12. ASSUME NEW t \in Hybrid!Threads, Undisturbed, Hybrid!SyncClear(t)
       PROVE  SerialInv'
  <2>1. /\ hybridAt[t] = "clearing" /\ UNCHANGED <<dense, disk, holds, entry, phase, Hybrid!history>>
        /\ sparse' = [sparse EXCEPT ![step[t]] = <<>>]
        /\ step' = [step EXCEPT ![t] = IF @ = 3 THEN 1 ELSE @ + 1]
        /\ hybridAt' = [hybridAt EXCEPT ![t] = IF step[t] = 3 THEN "unlinking" ELSE "clearing"]
    BY <1>12 DEF Hybrid!SyncClear, Hybrid!NextList
  <2>2. /\ Alone(t) /\ phase = "serving"
        /\ holds[t][1] = dense /\ holds[t][2] = dense /\ holds[t][3] = Live
        /\ \A k \in Hybrid!Lists : k < step[t] => sparse[k] = <<>>
    BY <1>a, <1>12, <2>1 DEF Busy, HowFar
  <2>3. step[t] \in 1..3 /\ step'[t] = IF step[t] = 3 THEN 1 ELSE step[t] + 1
    BY <1>t, <2>1 DEF Hybrid!Lists
  <2>4. \A k \in Hybrid!Lists : k < step[t] + 1 => sparse'[k] = <<>>
    <3> TAKE k \in Hybrid!Lists
    <3>1. k < step[t] + 1 => k < step[t] \/ k = step[t]
      BY <2>3 DEF Hybrid!Lists
    <3> QED
      BY <1>t, <2>1, <2>2, <3>1
  <2>5. CASE step[t] = 3
    <3>1. \A k \in Hybrid!Lists : sparse'[k] = <<>>
      BY <2>4, <2>5 DEF Hybrid!Lists
    <3>2. hybridAt'[t] = "unlinking"
      BY <1>t, <2>1, <2>5
    <3>3. HowFar(t)'
      BY <2>1, <2>2, <3>1, <3>2 DEF HowFar
    <3> QED
      BY <1>d, <2>1, <2>2, <2>5, <3>3, LoneRequest DEF Readable
  <2>6. CASE step[t] # 3
    <3>1. hybridAt'[t] = "clearing" /\ step'[t] = step[t] + 1
      BY <1>t, <2>1, <2>3, <2>6
    <3>2. HowFar(t)'
      BY <2>1, <2>2, <2>4, <3>1 DEF HowFar
    <3> QED
      BY <1>d, <2>1, <2>2, <2>6, <3>2, LoneRequest DEF Readable
  <2> QED
    BY <2>5, <2>6
<1>13. ASSUME NEW t \in Hybrid!Threads, Undisturbed, Hybrid!SyncUnlink(t)
       PROVE  SerialInv'
  <2>1. /\ hybridAt[t] = "unlinking" /\ disk' = Missing
        /\ UNCHANGED <<dense, sparse, step, entry, phase, Hybrid!history>>
        /\ hybridAt' = [hybridAt EXCEPT ![t] = IF holds[t][1] = <<>> THEN "commit" ELSE "filling"]
    BY <1>13 DEF Hybrid!SyncUnlink
  <2>2. /\ Alone(t) /\ phase = "serving" /\ step[t] = 1 /\ entry[t] = 0
        /\ holds[t][1] = dense /\ holds[t][2] = dense /\ holds[t][3] = Live
        /\ \A k \in Hybrid!Lists : sparse[k] = <<>>
    BY <1>a, <1>13, <1>t, <2>1 DEF Busy, HowFar, Stepping, HybridTypes, Stands
  <2>3. CASE dense = <<>>
    <3>1. hybridAt'[t] = "commit" /\ hybridAt' = [hybridAt EXCEPT ![t] = "commit"]
      BY <1>t, <2>1, <2>2, <2>3
    <3>2. Hybrid!InLine'
      BY <2>1, <2>2, <2>3 DEF Hybrid!InLine
    <3>3. HowFar(t)'
      BY <2>1, <3>1, <3>2 DEF HowFar, Readable
    <3> QED
      BY <2>1, <2>2, <3>1, <3>3, LoneRequest DEF Readable
  <2>4. CASE dense # <<>>
    <3> DEFINE h == holds[t]
    <3>1. hybridAt'[t] = "filling" /\ hybridAt' = [hybridAt EXCEPT ![t] = "filling"]
      BY <1>t, <2>1, <2>2, <2>4
    <3>2. Hybrid!OwnersSeen(t) # <<>>
      BY <2>2, <2>4 DEF Hybrid!OwnersSeen
    <3>3. holds' = [holds EXCEPT ![t] = [h EXCEPT ![2] = h[2], ![3] = h[3]]]
      BY <1>13, <2>2, <2>4, <3>2 DEF Hybrid!SyncUnlink
    <3>4. holds'[t] = holds[t]
      BY <1>0, <1>t, <3>3
    <3>5. \A k \in Hybrid!Lists : ~(k < step'[t]) /\ sparse'[k] = <<>>
      BY <1>0, <2>1, <2>2
    <3>6. Len(dense) \in Nat /\ Len(<<>>) = 0 /\ \A i \in 1..0 : FALSE
      BY <1>t
    <3>7. \A k \in Hybrid!Lists :
              Beginning(sparse'[k], IF k < step'[t] THEN entry'[t] + 1 ELSE entry'[t], dense')
      BY <2>1, <2>2, <3>5, <3>6 DEF Beginning
    <3>8. HowFar(t)'
      BY <2>1, <2>2, <3>1, <3>4, <3>6, <3>7 DEF HowFar
    <3> QED
      BY <2>1, <2>2, <3>1, <3>8, LoneRequest DEF Readable
  <2> QED
    BY <2>3, <2>4
<1>14. ASSUME NEW t \in Hybrid!Threads, Undisturbed,
              Hybrid!SyncFill(t) \/ Hybrid!SyncDone(t) \/ Hybrid!SyncRaises(t)
       PROVE  SerialInv'
  <2>1. hybridAt[t] = "filling"
    BY <1>14 DEF Hybrid!SyncFill, Hybrid!SyncDone, Hybrid!SyncRaises
  <2>2. /\ Alone(t) /\ phase = "serving" /\ entry[t] <= Len(dense)
        /\ holds[t][1] = dense /\ holds[t][2] = dense /\ holds[t][3] = Live
        /\ \A k \in Hybrid!Lists :
              Beginning(sparse[k], IF k < step[t] THEN entry[t] + 1 ELSE entry[t], dense)
    BY <1>a, <1>14, <2>1 DEF Busy, HowFar
  <2>3. Hybrid!Sources(t) = <<dense, dense, dense>>
    BY <2>2 DEF Hybrid!Sources, Hybrid!OwnersSeen
  <2>4. /\ Hybrid!Taken(t) <=> entry[t] < Len(dense)
        /\ Hybrid!Exhausted(t) <=> entry[t] >= Len(dense)
        /\ \A k \in Hybrid!Lists : Hybrid!Sources(t)[k] = dense
    BY <2>3 DEF Hybrid!Taken, Hybrid!Exhausted, Hybrid!Lists
  <2>5. entry[t] \in Nat /\ Len(dense) \in Nat /\ step[t] \in 1..3
    BY <1>t DEF Hybrid!Lists
  <2>6. CASE Hybrid!SyncFill(t)
    <3> DEFINE e == dense[entry[t] + 1]
    <3>1. /\ sparse' = [sparse EXCEPT ![step[t]] = Append(@, e)]
          /\ hybridAt' = [hybridAt EXCEPT ![t] = "filling"]
          /\ step' = [step EXCEPT ![t] = IF @ = 3 THEN 1 ELSE @ + 1]
          /\ entry' = [entry EXCEPT ![t] = IF step[t] = 3 THEN @ + 1 ELSE @]
          /\ UNCHANGED <<dense, disk, holds, phase, Hybrid!history>>
      BY <1>t, <2>4, <2>6 DEF Hybrid!SyncFill, Hybrid!NextList
    <3>2. entry[t] < Len(dense)
      <4>1. CASE step[t] = 1
        BY <2>4, <2>6, <4>1 DEF Hybrid!SyncFill
      <4>2. CASE step[t] # 1
        <5>1. 1 < step[t] /\ 1 \in Hybrid!Lists
          BY <1>0, <2>5, <4>2
        <5> QED
          BY <2>1, <2>4, <4>2 DEF Filling
      <4> QED
        BY <4>1, <4>2
    <3>3. /\ hybridAt'[t] = "filling"
          /\ step'[t] = IF step[t] = 3 THEN 1 ELSE step[t] + 1
          /\ entry'[t] = IF step[t] = 3 THEN entry[t] + 1 ELSE entry[t]
      BY <1>t, <3>1
    <3>4. ASSUME NEW k \in Hybrid!Lists
          PROVE  Beginning(sparse'[k], IF k < step'[t] THEN entry'[t] + 1 ELSE entry'[t], dense')
      <4>1. k \in 1..3 /\ sparse[k] \in Seq(HybridDocs \cup {Null})
        BY <1>t DEF Hybrid!Lists
      <4>2. (IF k < step'[t] THEN entry'[t] + 1 ELSE entry'[t])
              = IF k <= step[t] THEN entry[t] + 1 ELSE entry[t]
        BY <2>5, <3>3, <4>1
      <4>3. CASE k = step[t]
        <5> DEFINE s == sparse[k]
        <5>1. sparse'[k] = Append(s, e) /\ Len(s) = entry[t] /\ \A i \in 1..entry[t] : s[i] = dense[i]
          BY <1>t, <2>2, <2>5, <3>1, <4>3 DEF Beginning
        <5>2. /\ Len(sparse'[k]) = entry[t] + 1 /\ sparse'[k][entry[t] + 1] = e
              /\ \A i \in 1..entry[t] : sparse'[k][i] = s[i]
          BY <4>1, <5>1, <2>5
        <5>3. \A i \in 1..(entry[t] + 1) : sparse'[k][i] = dense[i]
          <6> TAKE i \in 1..(entry[t] + 1)
          <6>1. i \in 1..entry[t] \/ i = entry[t] + 1
            BY <2>5
          <6> QED
            BY <5>1, <5>2, <6>1
        <5>4. k <= step[t]
          BY <2>5, <4>3
        <5> QED
          BY <3>1, <4>2, <5>2, <5>3, <5>4 DEF Beginning
      <4>4. CASE k # step[t]
        <5>1. sparse'[k] = sparse[k] /\ (k <= step[t] <=> k < step[t])
          BY <1>t, <2>5, <3>1, <4>1, <4>4
        <5> QED
          BY <2>2, <3>1, <4>2, <5>1
      <4> QED
        BY <4>3, <4>4
    <3>5. entry'[t] <= Len(dense')
      BY <2>5, <3>1, <3>2, <3>3
    <3>6. HowFar(t)'
      BY <2>2, <3>1, <3>3, <3>4, <3>5 DEF HowFar
    <3> QED
      BY <1>d, <2>2, <3>1, <3>6, LoneRequest DEF Readable
  <2>7. CASE Hybrid!SyncDone(t)
    <3>1. /\ hybridAt' = [hybridAt EXCEPT ![t] = "dump"] /\ hybridAt'[t] = "dump" /\ step[t] = 1
          /\ UNCHANGED <<dense, sparse, disk, phase, Hybrid!history>> /\ Hybrid!Exhausted(t)
      BY <1>t, <2>7 DEF Hybrid!SyncDone
    <3>2. entry[t] = Len(dense)
      BY <2>2, <2>4, <2>5, <3>1
    <3>3. ASSUME NEW k \in Hybrid!Lists
          PROVE  sparse[k] = dense
      <4>1. Beginning(sparse[k], Len(dense), dense)
        BY <1>0, <2>2, <3>1, <3>2
      <4>2. sparse[k] \in Seq(HybridDocs \cup {Null}) /\ dense \in Seq(HybridDocs \cup {Null})
        BY <1>t
      <4> QED
        BY <4>1, <4>2 DEF Beginning
    <3>4. Hybrid!InLine'
      BY <3>1, <3>3 DEF Hybrid!InLine
    <3>5. HowFar(t)'
      BY <3>1, <3>4 DEF HowFar
    <3> QED
      BY <1>d, <2>2, <3>1, <3>5, LoneRequest DEF Readable
  <2>8. CASE Hybrid!SyncRaises(t)
    BY <2>4, <2>5, <2>8 DEF Hybrid!SyncRaises
  <2> QED
    BY <1>14, <2>6, <2>7, <2>8
<1>15. CASE Hybrid!Crash
  <2>1. /\ phase' = "loading" /\ ~lone' /\ UNCHANGED <<disk, disturbed>>
        /\ sparse' = Hybrid!Empty /\ dense' = <<>>
    BY <1>15 DEF Hybrid!Crash
  <2>2. Even(sparse') /\ Suffix(dense', sparse'[1])
    BY <1>0, <2>1 DEF Hybrid!Empty, Even, Suffix
  <2> QED
    BY <1>d, <2>1, <2>2, NobodyAtWork DEF Readable
<1>16. CASE Hybrid!Load
  <2>1. /\ phase' = "booting" /\ ~lone' /\ UNCHANGED <<disk, dense, disturbed>> /\ dense = <<>>
        /\ sparse' = IF disk = Missing THEN Hybrid!Empty ELSE disk
        /\ disk # Torn
    BY <1>16 DEF Hybrid!Load, SerialInv, Rebuilding
  <2>2. ~disturbed => Even(sparse')
    <3>1. Even(Hybrid!Empty)
      BY <1>0 DEF Hybrid!Empty, Even
    <3> QED
      BY <1>d, <2>1, <3>1 DEF Readable
  <2>3. Suffix(dense', sparse'[1])
    <3>1. sparse'[1] \in Hybrid!Entries
      BY <1>0 DEF HybridTypes
    <3> QED
      BY <2>1, <3>1 DEF Suffix, Hybrid!Entries
  <2> QED
    BY <1>d, <2>1, <2>2, <2>3, NobodyAtWork DEF Readable
<1>17. CASE Hybrid!LoadRaises
  BY <1>17, <1>d, NobodyAtWork DEF Hybrid!LoadRaises, Readable, SerialInv
<1>18. ASSUME NEW d \in HybridDocs, Hybrid!BootIndex(d)
       PROVE  SerialInv'
  <2>1. /\ phase = "booting" /\ phase' = "saving" /\ disk' = Torn /\ d \in todo
        /\ UNCHANGED <<disturbed, lone>> /\ dense' = Append(dense, d)
        /\ sparse' = [k \in Hybrid!Lists |->
                         Append(IF sparse[1] = <<>> THEN sparse[k]
                                ELSE Hybrid!Kept(sparse[k], sparse[3], d), d)]
    BY <1>18 DEF Hybrid!BootIndex
  <2>2. ASSUME ~disturbed'
        PROVE  Even(sparse') /\ Suffix(dense', sparse'[1])
    <3> DEFINE s == sparse[1]
               kept == IF s = <<>> THEN s ELSE Hybrid!Kept(s, s, d)
    <3>1. Even(sparse) /\ Suffix(dense, s)
      BY <2>1, <2>2 DEF SerialInv
    <3>2. \A k \in Hybrid!Lists : sparse'[k] = Append(kept, d)
      BY <1>0, <2>1, <3>1 DEF Even
    <3>3. s \in Seq(HybridDocs \cup {Null}) /\ dense \in Seq(HybridDocs \cup {Null})
      BY <1>0, <1>t
    <3>4. \A i \in 1..Len(dense) : dense[i] # d
      BY <2>1 DEF Rebuilding
    <3>5. kept \in Seq(HybridDocs \cup {Null}) /\ Suffix(dense, kept)
      BY <3>1, <3>3, <3>4, KeptFrom
    <3> HIDE DEF kept
    <3>6. Suffix(Append(dense, d), Append(kept, d))
      BY <3>3, <3>5, SuffixAppend
    <3> QED
      BY <1>0, <2>1, <3>2, <3>6 DEF Even
  <2>3. ~lone'
    BY <2>1 DEF SerialInv
  <2> QED
    BY <2>1, <2>2, <2>3, NobodyAtWork DEF Readable
<1>19. ASSUME NEW d \in HybridDocs, Hybrid!BootSkip(d)
       PROVE  SerialInv'
  <2>1. phase = "booting" /\ UNCHANGED <<Hybrid!stores, phase, disturbed, lone>>
    BY <1>19 DEF Hybrid!BootSkip
  <2> QED
    BY <2>1, NobodyAtWork DEF SerialInv, Readable
<1>20. CASE Hybrid!BootSync
  <2>1. phase = "booting" /\ UNCHANGED <<dense, hybridAt, disturbed, lone>> /\ ~lone
    BY <1>20 DEF Hybrid!BootSync, SerialInv
  <2>2. \A t \in Hybrid!Threads : ~Busy(t) /\ ~Busy(t)'
    BY <2>1 DEF HybridTypes, Stands, Busy
  <2>3. CASE Len(sparse[2]) = Len(dense)
    <3>1. phase' = "serving" /\ UNCHANGED <<sparse, disk>>
      BY <1>20, <2>3 DEF Hybrid!BootSync
    <3>2. ~disturbed => Hybrid!InLine
      <4> SUFFICES ASSUME ~disturbed
                   PROVE  \A k \in Hybrid!Lists : sparse[k] = dense
        BY DEF Hybrid!InLine
      <4>1. Even(sparse) /\ Suffix(dense, sparse[1])
        BY <2>1 DEF SerialInv
      <4> DEFINE s == sparse[1]
      <4>2. s \in Seq(HybridDocs \cup {Null}) /\ dense \in Seq(HybridDocs \cup {Null}) /\ Len(s) = Len(dense)
        BY <1>0, <1>t, <2>3, <4>1 DEF Even
      <4>3. \A i \in 1..Len(dense) : s[i] = dense[i]
        <5> TAKE i \in 1..Len(dense)
        <5>1. Len(s) - Len(dense) + i = i
          BY <4>2
        <5> QED
          BY <4>1, <5>1 DEF Suffix
      <4>4. s = dense
        BY <4>2, <4>3
      <4> QED
        BY <4>1, <4>4 DEF Even
    <3>3. ~disturbed' => Hybrid!InLine' /\ (Readable' => disk' = sparse' /\ Even(disk'))
      BY <1>d, <2>1, <3>1, <3>2 DEF Hybrid!InLine, Readable, SerialInv
    <3> QED
      BY <2>1, <2>2, <3>1, <3>3 DEF SerialInv, Undisturbed
  <2>4. CASE Len(sparse[2]) # Len(dense)
    <3>1. /\ sparse' = [k \in Hybrid!Lists |-> dense]
          /\ phase' = IF dense = <<>> THEN "serving" ELSE "saving"
          /\ disk' = IF dense = <<>> THEN Missing ELSE Torn
      BY <1>20, <2>4 DEF Hybrid!BootSync
    <3>2. Hybrid!InLine' /\ Even(sparse') /\ Suffix(dense', sparse'[1])
      <4>1. Suffix(dense, dense)
        BY <1>t DEF Suffix
      <4> QED
        BY <1>0, <2>1, <3>1, <4>1 DEF Hybrid!InLine, Even
    <3> QED
      BY <2>1, <2>2, <3>1, <3>2 DEF SerialInv, Undisturbed, Readable, Hybrid!Quiet
  <2> QED
    BY <2>3, <2>4
<1>21. CASE Hybrid!BootSave
  <2>1. phase = "saving" /\ phase' = "booting" /\ disk' \in {sparse, Torn}
        /\ UNCHANGED <<dense, sparse, disturbed, lone>>
    BY <1>21 DEF Hybrid!BootSave
  <2>2. ~lone' /\ (~disturbed' => Even(sparse') /\ Suffix(dense', sparse'[1]))
    BY <2>1 DEF SerialInv
  <2> QED
    BY <2>1, <2>2, NobodyAtWork DEF Readable
<1>22. CASE Hybrid!BootFails
  <2>1. phase = "booting" /\ UNCHANGED hybridAt /\ disturbed' /\ ~lone'
    BY <1>22 DEF Hybrid!BootFails, SerialInv
  <2> QED
    BY <2>1 DEF SerialInv, Undisturbed
<1>23. CASE UNCHANGED Hybrid!vars
  BY <1>23 DEF Hybrid!vars, SerialInv, Undisturbed, HowFar, Alone, Busy, Hybrid!Quiet, Hybrid!InLine,
     Readable
(* A step at work that is disturbed, or not.                               *)
<1>24. ASSUME NEW t \in Hybrid!Threads,
              \/ Hybrid!AddSparse(t) \/ Hybrid!RemoveFilter(t) \/ Hybrid!RemoveRaises(t)
              \/ Hybrid!RemoveCompare(t) \/ Hybrid!RemoveAssign(t)
              \/ Hybrid!Commit(t) \/ Hybrid!Persist(t)
              \/ Hybrid!SyncCopy(t) \/ Hybrid!SyncCopyIds(t) \/ Hybrid!SyncClear(t)
              \/ Hybrid!SyncUnlink(t) \/ Hybrid!SyncFill(t) \/ Hybrid!SyncDone(t)
              \/ Hybrid!SyncRaises(t)
       PROVE  SerialInv'
  <2>1. Busy(t) /\ UNCHANGED <<phase, disturbed, lone>>
    BY <1>24 DEF Hybrid!AddSparse, Hybrid!RemoveFilter, Hybrid!RemoveRaises, Hybrid!RemoveCompare,
       Hybrid!RemoveAssign, Hybrid!Commit, Hybrid!Persist, Hybrid!Serialize, Hybrid!Truncate,
       Hybrid!Write, Hybrid!WriteFails, Hybrid!SyncCopy, Hybrid!SyncCopyIds, Hybrid!SyncClear,
       Hybrid!SyncUnlink, Hybrid!SyncFill, Hybrid!SyncDone, Hybrid!SyncRaises, Busy
  <2>2. phase' = "serving" /\ (Undisturbed' => Undisturbed)
    BY <2>1 DEF HybridTypes, Stands, Undisturbed
  <2> QED
    BY <1>c, <1>3, <1>4, <1>5, <1>6, <1>7, <1>8, <1>9, <1>11, <1>12, <1>13, <1>14, <1>24, <2>2
       DEF Hybrid!Persist
<1> QED
  BY <1>1, <1>2, <1>10, <1>15, <1>16, <1>17, <1>18, <1>19, <1>20, <1>21, <1>22, <1>23, <1>24
     DEF Hybrid!Next, Hybrid!Change, Hybrid!Sync, Hybrid!Boot, Hybrid!Threads

(* All that holds of the two indexes in every state.                       *)
HybridInv == HybridTypes /\ Filling /\ Rebuilding /\ SerialInv

(* The invariants hold in every behaviour of the indexes.                  *)
LEMMA HybridSafety == IndexesSpec => []HybridInv
<1>1. IndexesInit => HybridInv
  <2> SUFFICES ASSUME Hybrid!Init
               PROVE  HybridInv
    BY DEF IndexesInit
  <2>1. HybridTypes
    BY HybridInit
  <2>2. Hybrid!InLine
    BY DEF Hybrid!Init, Hybrid!Empty, Hybrid!InLine
  <2>3. 1..Len(<<>>) = {}
    OBVIOUS
  <2>4. Filling /\ Rebuilding /\ SerialInv
    BY <2>2, <2>3 DEF Hybrid!Init, Filling, Rebuilding, SerialInv, Busy, Readable
  <2> QED
    BY <2>1, <2>4 DEF HybridInv
<1>2. HybridInv /\ [Hybrid!Next]_Hybrid!vars => HybridInv'
  BY HybridTypesStep, FillingStep, RebuildingStep, SerialStep DEF HybridInv
<1>3. [IndexesNext]_<<store, vars, crewVars, hybridVars>> => [Hybrid!Next]_Hybrid!vars
  BY DEF IndexesNext, hybridVars, Hybrid!vars, Hybrid!stores, Hybrid!threads, Hybrid!process,
     Hybrid!history
<1> QED
  BY <1>1, <1>2, <1>3, PTL DEF IndexesSpec

(* Requests one at a time leave both indexes with the same documents, once *)
(* each, through any number of restarts that got through and any number of *)
(* failed writes.                                                          *)
THEOREM RequestsKeepSync == IndexesSpec => []InSync
<1>1. HybridInv => InSync
  BY DEF HybridInv, SerialInv, Undisturbed, InSync, Hybrid!InSync
<1> QED
  BY <1>1, HybridSafety, PTL

(* Requests one at a time leave a readable file with what the sparse index *)
(* holds.                                                                  *)
THEOREM FileHoldsIndex == IndexesSpec => []FileIsCurrent
<1>1. HybridInv => FileIsCurrent
  BY DEF HybridInv, SerialInv, FileIsCurrent, Hybrid!FileIsCurrent, Readable
<1> QED
  BY <1>1, HybridSafety, PTL

(* Whatever overlapping requests or a start-up that failed have left       *)
(* behind, a question that finds the sizes different and nobody at work    *)
(* leaves the indexes in line.                                             *)
THEOREM LoneQuestionsRepair == IndexesSpec => []LoneQuestionRepairs
<1>1. HybridInv => LoneQuestionRepairs
  BY DEF HybridInv, SerialInv, Undisturbed, LoneQuestionRepairs, Hybrid!LoneQuestionRepairs
<1> QED
  BY <1>1, HybridSafety, PTL

=============================================================================
