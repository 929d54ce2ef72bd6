---------------------- MODULE QuestionAnsweringProofs ----------------------
(***************************************************************************)
(* What an answer rests on is authorized, for any users, documents, names, *)
(* categories and visibilities, and any interleaving of questions with     *)
(* each other and with uploads and deletions.                              *)
(***************************************************************************)
EXTENDS QuestionAnswering, TLAPS

(* The state a question keeps lies within what was authorized for it.      *)
Authorized ==
    \A a \in Askers : \A d \in hits[a] \cup results[a] :
        Name[d] \in authorized[a] /\ Category[Name[d]] \in Permitted[a]

(* A question that has not searched yet has found nothing, and one that    *)
(* generates has found something.                                          *)
Staged ==
    \A a \in Askers :
        /\ at[a] \in {"idle", "finding"} => hits[a] = {} /\ results[a] = {}
        /\ at[a] = "generating" => results[a] # {}

(* A name is authorized because of a row seen active that the asker may    *)
(* read, and a row once seen never goes back to not being there.           *)
Witnessed ==
    \A a \in Askers :
        /\ \A n \in authorized[a] : \E e \in seen[a] : Name[e] = n /\ CanRead(a, e)
        /\ \A e \in seen[a] : rows[e] # "none"

Inv == TypeOK /\ Authorized /\ Staged /\ Witnessed

-----------------------------------------------------------------------------
LEMMA Initially == Init => Inv
<1> SUFFICES ASSUME Init PROVE Inv
  OBVIOUS
<1> USE ConstantsAssumption
<1>1. TypeOK
  BY DEF Init, TypeOK, WriterPoints, Points, Outcomes
<1>2. Authorized /\ Staged /\ Witnessed
  BY DEF Init, Authorized, Staged, Witnessed
<1> QED
  BY <1>1, <1>2 DEF Inv

(* A writer changes nothing a question keeps.                              *)
LEMMA WriteStep ==
  ASSUME Inv, NEW d \in Docs, Write(d)
  PROVE  Inv'
<1> USE ConstantsAssumption DEF Inv
<1>1. TypeOK'
  <2>1. uploads' \in Seq(Docs)
    <3>1. uploads' = uploads \/ uploads' = Append(uploads, d)
      BY DEF Write, CheckName, CreateRow, AddDense, AddSparse, IngestionFails, RemoveDense,
          RemoveSparse, MarkDeleted
    <3>2. uploads \in Seq(Docs)
      BY DEF TypeOK
    <3> QED
      BY <3>1, <3>2
  <2>2. rows' \in [Docs -> {"none", "active", "deleted"}]
    BY DEF Write, CheckName, CreateRow, AddDense, AddSparse, IngestionFails, RemoveDense,
        RemoveSparse, MarkDeleted, TypeOK
  <2>3. writer' \in [Docs -> WriterPoints]
    BY DEF Write, CheckName, CreateRow, AddDense, AddSparse, IngestionFails, RemoveDense,
        RemoveSparse, MarkDeleted, TypeOK, WriterGoto, WriterPoints
  <2>4. dense' \subseteq Docs /\ sparse' \subseteq Docs
    BY DEF Write, CheckName, CreateRow, AddDense, AddSparse, IngestionFails, RemoveDense,
        RemoveSparse, MarkDeleted, TypeOK
  <2>5. UNCHANGED <<at, request, asks>>
    BY DEF Write, CheckName, CreateRow, AddDense, AddSparse, IngestionFails, RemoveDense,
        RemoveSparse, MarkDeleted
  <2> QED
    BY <2>1, <2>2, <2>3, <2>4, <2>5 DEF TypeOK, request
<1>2. UNCHANGED <<at, request>>
  BY DEF Write, CheckName, CreateRow, AddDense, AddSparse, IngestionFails, RemoveDense,
      RemoveSparse, MarkDeleted
<1>3. \A e \in Docs : rows[e] # "none" => rows'[e] # "none"
  BY DEF Write, CheckName, CreateRow, AddDense, AddSparse, IngestionFails, RemoveDense,
      RemoveSparse, MarkDeleted, TypeOK
<1>4. Authorized' /\ Staged'
  BY <1>2 DEF Authorized, Staged, request
<1>5. Witnessed'
  BY <1>2, <1>3 DEF Witnessed, request, TypeOK, CanRead
<1> QED
  BY <1>1, <1>4, <1>5

LEMMA EndStep ==
  ASSUME Inv, NEW a \in Askers, NEW how \in Outcomes, End(a, how), UNCHANGED <<corpus, asks>>
  PROVE  Inv'
<1> USE ConstantsAssumption DEF Inv, End, Goto, Set, corpus
<1>1. TypeOK'
  BY DEF TypeOK, Points
<1>2. Authorized' /\ Staged'
  BY DEF TypeOK, Authorized, Staged
<1>3. Witnessed'
  BY DEF TypeOK, Witnessed, CanRead
<1> QED
  BY <1>1, <1>2, <1>3

LEMMA FindStep ==
  ASSUME Inv, NEW a \in Askers, FindRows(a)
  PROVE  Inv'
<1> USE ConstantsAssumption DEF Inv, FindRows, Goto, Set, corpus
<1>0. AuthorizedSources(a, candidates[a]) \subseteq Names
  BY DEF AuthorizedSources, Names
<1>1. TypeOK'
  BY <1>0 DEF TypeOK, Points, Active
<1>2. Authorized' /\ Staged'
  BY DEF TypeOK, Authorized, Staged
<1>3. Witnessed'
  <2>1. \A n \in AuthorizedSources(a, candidates[a]) :
            \E e \in Active : Name[e] = n /\ CanRead(a, e)
    BY DEF AuthorizedSources, Decides
  <2>2. \A e \in Active : rows[e] # "none"
    BY DEF Active
  <2>3. seen'[a] = Active /\ authorized'[a] = AuthorizedSources(a, candidates[a])
    BY DEF TypeOK
  <2>4. \A b \in Askers \ {a} : seen'[b] = seen[b] /\ authorized'[b] = authorized[b]
    BY DEF TypeOK
  <2> QED
    BY <2>1, <2>2, <2>3, <2>4 DEF Witnessed, CanRead
<1> QED
  BY <1>1, <1>2, <1>3

LEMMA SearchStep ==
  ASSUME Inv, NEW a \in Askers, GatherDense(a) \/ GatherSparse(a)
  PROVE  Inv'
<1> USE ConstantsAssumption DEF Inv, Goto, Set, corpus
<1>1. PICK index \in {dense, sparse} : \E found \in SUBSET {d \in index : Allowed(a, d)} :
          hits' = Set(hits, a, hits[a] \cup found)
  BY DEF GatherDense, GatherSparse
<1>2. TypeOK'
  <2>1. hits' \in [Askers -> SUBSET Docs]
    BY <1>1 DEF TypeOK
  <2>2. at' \in [Askers -> Points]
    BY DEF GatherDense, GatherSparse, TypeOK, Points
  <2>3. query' \in [Askers -> 1..MaxQueries]
    <3>1. \/ query' = query
          \/ query[a] < MaxQueries /\ query' = [query EXCEPT ![a] = query[a] + 1]
      <4>1. CASE GatherDense(a)
        BY <4>1 DEF GatherDense
      <4>2. CASE GatherSparse(a)
        BY <4>2 DEF GatherSparse
      <4> QED
        BY <4>1, <4>2
    <3>2. query \in [Askers -> 1..MaxQueries] /\ MaxQueries \in Nat
      BY DEF TypeOK
    <3>3. query[a] < MaxQueries => query[a] + 1 \in 1..MaxQueries
      BY <3>2
    <3> QED
      BY <3>1, <3>2, <3>3
  <2>4. UNCHANGED <<corpus, candidates, authorized, chunks, results, outcome, seen, asks>>
    BY DEF GatherDense, GatherSparse
  <2> QED
    BY <2>1, <2>2, <2>3, <2>4 DEF TypeOK
<1>3. UNCHANGED <<rows, authorized, results, seen>>
  BY DEF GatherDense, GatherSparse
<1>4. /\ \A b \in Askers \ {a} : at'[b] = at[b] /\ hits'[b] = hits[b]
      /\ at[a] \notin {"idle", "finding"}
      /\ at'[a] \notin {"idle", "finding", "generating"}
  BY DEF GatherDense, GatherSparse, TypeOK
<1>5. Authorized' /\ Staged'
  BY <1>1, <1>3, <1>4 DEF TypeOK, Authorized, Staged, Allowed
<1>6. Witnessed'
  BY <1>3 DEF Witnessed, CanRead
<1> QED
  BY <1>2, <1>5, <1>6

LEMMA RankStep ==
  ASSUME Inv, NEW a \in Askers, Rank(a)
  PROVE  Inv'
<1> USE ConstantsAssumption DEF Inv, Goto, Set, corpus
<1>1. PICK kept \in (SUBSET hits[a]) \ {{}} :
          \/ Goto(a, "expanding") /\ hits' = Set(hits, a, kept) /\ UNCHANGED results
          \/ Goto(a, "generating") /\ results' = Set(results, a, kept) /\ hits' = Set(hits, a, {})
  BY DEF Rank
<1>2. UNCHANGED <<corpus, candidates, authorized, chunks, query, outcome, seen, asks>>
  BY DEF Rank
<1>3. at[a] = "ranking"
  BY DEF Rank
<1>4. TypeOK'
  BY <1>1, <1>2 DEF TypeOK, Points
<1>5. /\ \A b \in Askers \ {a} : at'[b] = at[b] /\ hits'[b] = hits[b] /\ results'[b] = results[b]
      /\ hits'[a] \subseteq hits[a]
      /\ results'[a] \subseteq hits[a] \cup results[a]
      /\ \/ at'[a] = "expanding"
         \/ at'[a] = "generating" /\ results'[a] # {}
  <2>0. at \in [Askers -> Points] /\ hits \in [Askers -> SUBSET Docs] /\ results \in [Askers -> SUBSET Docs]
    BY DEF TypeOK
  <2>1. CASE Goto(a, "expanding") /\ hits' = Set(hits, a, kept) /\ UNCHANGED results
    BY <2>0, <2>1
  <2>2. CASE Goto(a, "generating") /\ results' = Set(results, a, kept) /\ hits' = Set(hits, a, {})
    BY <2>0, <2>2
  <2> QED
    BY <1>1, <2>1, <2>2
<1>6. Authorized'
  BY <1>2, <1>5 DEF Authorized
<1>7. Staged'
  BY <1>5 DEF Staged
<1>8. Witnessed'
  BY <1>2 DEF Witnessed, CanRead
<1> QED
  BY <1>4, <1>6, <1>7, <1>8

(* The whole focus document bears the name, hence the category, of a hit.  *)
LEMMA ExpandStep ==
  ASSUME Inv, NEW a \in Askers, Expand(a)
  PROVE  Inv'
<1> USE ConstantsAssumption DEF Inv, Goto, Set, corpus
<1>1. PICK h \in hits[a] : \E kept \in (SUBSET (hits[a] \cup FocusChunks(a, Name[h]))) \ {{}} :
          results' = Set(results, a, kept)
  BY DEF Expand
<1>2. PICK kept \in (SUBSET (hits[a] \cup FocusChunks(a, Name[h]))) \ {{}} :
          results' = Set(results, a, kept)
  BY <1>1
<1>3. /\ hits' = Set(hits, a, {}) /\ Goto(a, "generating")
      /\ UNCHANGED <<corpus, candidates, authorized, chunks, query, outcome, seen, asks>>
  BY DEF Expand
<1>4. \A d \in kept : Name[d] \in authorized[a] /\ Category[Name[d]] \in Permitted[a]
  BY DEF Authorized, FocusChunks
<1>5. kept \subseteq Docs
  BY DEF TypeOK, FocusChunks
<1>6. TypeOK'
  BY <1>2, <1>3, <1>5 DEF TypeOK, Points
<1>7. /\ \A b \in Askers \ {a} : at'[b] = at[b] /\ hits'[b] = hits[b] /\ results'[b] = results[b]
      /\ hits'[a] = {} /\ results'[a] = kept /\ kept # {} /\ at'[a] = "generating"
  <2>1. at \in [Askers -> Points] /\ hits \in [Askers -> SUBSET Docs] /\ results \in [Askers -> SUBSET Docs]
    BY DEF TypeOK
  <2> QED
    BY <1>2, <1>3, <2>1
<1>8. Authorized'
  BY <1>3, <1>4, <1>7 DEF Authorized
<1>9. Staged'
  BY <1>7 DEF Staged
<1>10. Witnessed'
  BY <1>3 DEF Witnessed, CanRead
<1> QED
  BY <1>6, <1>8, <1>9, <1>10

(* The steps that leave what was found and authorized alone.               *)
LEMMA PlainStep ==
  ASSUME Inv, NEW a \in Askers, Ask(a) \/ LookupFails(a) \/ Compare(a) \/ Copy(a)
  PROVE  Inv'
<1> USE ConstantsAssumption DEF Inv, Goto, Set, corpus
<1>1. CASE Ask(a)
  <2>1. {Name[d] : d \in Active} \subseteq Names
    BY DEF Active, Names
  <2>2. TypeOK'
    BY <1>1, <2>1 DEF Ask, TypeOK, Points, Outcomes
  <2> QED
    BY <1>1, <2>2 DEF Ask, TypeOK, Authorized, Staged, Witnessed, CanRead
<1>2. CASE LookupFails(a)
  <2>1. TypeOK'
    BY <1>2 DEF LookupFails, TypeOK, Points
  <2> QED
    BY <1>2, <2>1 DEF LookupFails, TypeOK, Authorized, Staged, Witnessed, CanRead
<1>3. CASE Compare(a)
  <2>0. \/ Goto(a, "densing") /\ UNCHANGED chunks
        \/ Goto(a, "copying") /\ chunks' = Set(chunks, a, dense)
    BY <1>3 DEF Compare
  <2>1. TypeOK'
    BY <1>3, <2>0 DEF Compare, TypeOK, Points
  <2> QED
    BY <1>3, <2>0, <2>1 DEF Compare, TypeOK, Authorized, Staged, Witnessed, CanRead
<1>4. CASE Copy(a)
  <2>1. TypeOK'
    BY <1>4 DEF Copy, TypeOK, Points
  <2> QED
    BY <1>4, <2>1 DEF Copy, TypeOK, Authorized, Staged, Witnessed, CanRead
<1> QED
  BY <1>1, <1>2, <1>3, <1>4

LEMMA Inductive == Inv /\ [Next]_vars => Inv'
<1> SUFFICES ASSUME Inv, [Next]_vars PROVE Inv'
  OBVIOUS
<1>1. ASSUME NEW d \in Docs, Write(d) PROVE Inv'
  BY <1>1, WriteStep
<1>2. ASSUME NEW a \in Askers, Ask(a) \/ Answer(a) PROVE Inv'
  <2>1. CASE RouteDenied(a) \/ Insufficient(a) \/ Generate(a) \/ QueryFails(a)
    BY <2>1, EndStep DEF RouteDenied, Insufficient, Generate, QueryFails, Outcomes
  <2> QED
    BY <1>2, <2>1, PlainStep, FindStep, SearchStep, RankStep, ExpandStep DEF Answer, Advance
<1>3. CASE UNCHANGED vars
  BY <1>3 DEF vars, corpus, request, Inv, TypeOK, Authorized, Staged, Witnessed, CanRead
<1> QED
  BY <1>1, <1>2, <1>3 DEF Next

(***************************************************************************)
(* Type correctness and the invariant above, in every reachable state.     *)
(***************************************************************************)
THEOREM Invariance == Spec => []Inv
  BY Initially, Inductive, PTL DEF Spec

(***************************************************************************)
(* Every chunk given to the model bears an authorized name and category    *)
(* (EnterpriseRAG._search and _expand_exhaustive_context).                 *)
(***************************************************************************)
THEOREM AnswersAreGrounded == Spec => []Grounded
<1>1. Inv => Grounded
  BY DEF Inv, Authorized, Staged, Grounded
<1> QED
  BY <1>1, Invariance, PTL

(***************************************************************************)
(* While a name has had one document, the one that is given to the model   *)
(* is the one access was decided on (_get_authorized_sources in chat.py).  *)
(***************************************************************************)
THEOREM NamesMeanDocuments == Spec => []OneNameOneReader
<1>1. Inv => OneNameOneReader
  <2> SUFFICES ASSUME Inv, NEW a \in Askers, NEW d \in results[a],
                      \A e \in Docs \ {d} : Name[e] = Name[d] => rows[e] = "none"
               PROVE  CanRead(a, d) /\ d \in seen[a]
    BY DEF OneNameOneReader
  <2>1. PICK e \in seen[a] : Name[e] = Name[d] /\ CanRead(a, e)
    BY DEF Inv, Authorized, Witnessed
  <2>2. rows[e] # "none" /\ e \in Docs
    BY DEF Inv, Witnessed, TypeOK
  <2>3. e = d
    BY <2>1, <2>2
  <2> QED
    BY <2>1, <2>3
<1> QED
  BY <1>1, Invariance, PTL
=============================================================================
