------------------------- MODULE QuestionAnswering -------------------------
(***************************************************************************)
(* A question from the endpoint to the answer: the file names the asker    *)
(* may read (api/v1/chat.py, auth/retrieval_authorization.py), routing,    *)
(* retrieval from the two indexes and generation (rag/engine.py), while    *)
(* documents are uploaded and deleted.                                     *)
(*                                                                         *)
(* A document is one chunk. Access is decided once, per file NAME, before  *)
(* the search; the chunks are found later, by name. What a write to either *)
(* index does inside is in DenseIndex and HybridIndex; what the question   *)
(* does to its conversation is in ConversationChat.                        *)
(***************************************************************************)
EXTENDS Naturals, Sequences, FiniteSets

CONSTANTS
    Askers,          \* requests to /chat/ask, each of one user
    Docs,            \* documents, each uploaded and deleted at most once
    Name,            \* [Docs -> file names]
    Categories,      \* what a question can be routed to
    Category,        \* [file names -> categories], CATEGORY_MAP
    Permitted,       \* [Askers -> sets of categories], ROLE_PERMISSIONS
    Admins,          \* askers with the Admin role
    Owner,           \* [Docs -> users, asking or not]
    Visibility,      \* [Docs -> "public", "restricted", "private", "unknown"]
    RoleAllowed,     \* [Docs -> askers with a role in allowed_roles]
    MaxQueries,      \* bound: retrieval queries a question is expanded to
    MaxAsks          \* bound: questions ever asked

Names == {Name[d] : d \in Docs}

ASSUME ConstantsAssumption ==
    /\ \A n \in Names : Category[n] \in Categories
    /\ \A a \in Askers : Permitted[a] \subseteq Categories
    /\ Admins \subseteq Askers
    /\ MaxQueries \in Nat \ {0} /\ MaxAsks \in Nat

VARIABLES
    rows,         \* of each document: no row, an active one, or a deleted one
    uploads,      \* documents in the order of uploaded_at
    writer,       \* how far the upload or the deletion of each document is
    dense,        \* documents in the FAISS index
    sparse,       \* documents in the BM25 index
    at,           \* where each question stands
    candidates,   \* names of the active rows, as listed
    authorized,   \* names the asker may read
    chunks,       \* dense chunks copied to rebuild the sparse index from
    hits,         \* documents found so far
    query,        \* the retrieval query being served
    results,      \* documents given to generation
    outcome,      \* how the last question ended
    asks,         \* questions asked so far
    seen          \* history: the rows that were active when access was decided

corpus == <<rows, uploads, writer, dense, sparse>>
request == <<candidates, authorized, chunks, hits, query, results, outcome, seen>>
vars == <<corpus, at, request, asks>>

WriterPoints == {"new", "creating", "adding", "pairing", "live",
                 "removing", "unpairing", "marking", "over"}
Points == {"idle", "finding", "comparing", "copying", "densing", "sparsing", "ranking",
           "expanding", "generating"}
Outcomes == {"none", "answered", "denied", "insufficient", "error"}

-----------------------------------------------------------------------------
(* DocumentAuthorizationService._evaluate: owner and Admin first, then the *)
(* visibility; a visibility nobody knows is denied.                        *)
CanRead(a, d) ==
    \/ a \in Admins
    \/ Owner[d] = a
    \/ Visibility[d] = "public"
    \/ Visibility[d] = "restricted" /\ a \in RoleAllowed[d]

Active == {d \in Docs : rows[d] = "active"}

Position(d) == CHOOSE i \in 1..Len(uploads) : uploads[i] = d

(* find_by_filenames returns the latest upload first and the dictionary    *)
(* keeps the last of a name: the oldest active row of a name decides.      *)
Decides(d) ==
    /\ d \in Active
    /\ \A e \in Active : Name[e] = Name[d] => Position(d) <= Position(e)

(* RetrievalAuthorizationService.get_authorized_sources: a name without an *)
(* active row is denied.                                                   *)
AuthorizedSources(a, names) ==
    {Name[d] : d \in {e \in Docs : Decides(e) /\ Name[e] \in names /\ CanRead(a, e)}}

(* A mutant: "set(x) or None", the empty set turns the filter off.         *)
AllowedUnlessNone(a, d) ==
    /\ authorized[a] = {} \/ Name[d] \in authorized[a]
    /\ Category[Name[d]] \in Permitted[a]

(* The filter of gather_candidates and of BM25Index.search.                *)
Allowed(a, d) == Name[d] \in authorized[a] /\ Category[Name[d]] \in Permitted[a]

WriterGoto(d, p) == writer' = [writer EXCEPT ![d] = p]
Goto(a, p) == at' = [at EXCEPT ![a] = p]
Set(f, a, x) == [f EXCEPT ![a] = x]

(* The request ends, and what it held goes with it.                        *)
End(a, how) ==
    /\ Goto(a, "idle")
    /\ outcome' = Set(outcome, a, how)
    /\ candidates' = Set(candidates, a, {})
    /\ authorized' = Set(authorized, a, {})
    /\ chunks' = Set(chunks, a, {})
    /\ hits' = Set(hits, a, {})
    /\ query' = Set(query, a, 1)
    /\ results' = Set(results, a, {})
    /\ seen' = Set(seen, a, {})

-----------------------------------------------------------------------------
(***************************************************************************)
(* Mutants.                                                                *)
(***************************************************************************)
(* A failed lookup lets every file through.                                *)
LookupFailsOpen(a) ==
    /\ at[a] = "finding"
    /\ authorized' = Set(authorized, a, Names)
    /\ Goto(a, "comparing")
    /\ UNCHANGED <<corpus, candidates, chunks, hits, query, results, outcome, seen, asks>>

-----------------------------------------------------------------------------
Init ==
    /\ rows = [d \in Docs |-> "none"]
    /\ uploads = <<>>
    /\ writer = [d \in Docs |-> "new"]
    /\ dense = {} /\ sparse = {}
    /\ at = [a \in Askers |-> "idle"]
    /\ candidates = [a \in Askers |-> {}]
    /\ authorized = [a \in Askers |-> {}]
    /\ chunks = [a \in Askers |-> {}]
    /\ hits = [a \in Askers |-> {}]
    /\ query = [a \in Askers |-> 1]
    /\ results = [a \in Askers |-> {}]
    /\ outcome = [a \in Askers |-> "none"]
    /\ asks = 0
    /\ seen = [a \in Askers |-> {}]

(***************************************************************************)
(* Uploads and deletions, as far as a question can tell: DocumentLifecycle *)
(* has them in full.                                                       *)
(***************************************************************************)
CheckName(d) ==
    /\ writer[d] = "new"
    /\ \A e \in Active : Name[e] # Name[d]
    /\ WriterGoto(d, "creating")
    /\ UNCHANGED <<rows, uploads, dense, sparse, at, request, asks>>

CreateRow(d) ==
    /\ writer[d] = "creating"
    /\ rows' = [rows EXCEPT ![d] = "active"]
    /\ uploads' = Append(uploads, d)
    /\ WriterGoto(d, "adding")
    /\ UNCHANGED <<dense, sparse, at, request, asks>>

AddDense(d) ==
    /\ writer[d] = "adding"
    /\ dense' = dense \cup {d}
    /\ WriterGoto(d, "pairing")
    /\ UNCHANGED <<rows, uploads, sparse, at, request, asks>>

AddSparse(d) ==
    /\ writer[d] = "pairing"
    /\ sparse' = sparse \cup {d}
    /\ WriterGoto(d, "live")
    /\ UNCHANGED <<rows, uploads, dense, at, request, asks>>

(* The row of a failed upload stays, with no chunk.                        *)
IngestionFails(d) ==
    /\ writer[d] = "adding"
    /\ WriterGoto(d, "live")
    /\ UNCHANGED <<rows, uploads, dense, sparse, at, request, asks>>

RemoveDense(d) ==
    /\ writer[d] = "live"
    /\ dense' = dense \ {d}
    /\ WriterGoto(d, "unpairing")
    /\ UNCHANGED <<rows, uploads, sparse, at, request, asks>>

RemoveSparse(d) ==
    /\ writer[d] = "unpairing"
    /\ sparse' = sparse \ {d}
    /\ WriterGoto(d, "marking")
    /\ UNCHANGED <<rows, uploads, dense, at, request, asks>>

MarkDeleted(d) ==
    /\ writer[d] = "marking"
    /\ rows' = [rows EXCEPT ![d] = "deleted"]
    /\ WriterGoto(d, "over")
    /\ UNCHANGED <<uploads, dense, sparse, at, request, asks>>

Write(d) ==
    \/ CheckName(d) \/ CreateRow(d) \/ AddDense(d) \/ AddSparse(d) \/ IngestionFails(d)
    \/ RemoveDense(d) \/ RemoveSparse(d) \/ MarkDeleted(d)

(***************************************************************************)
(* What the asker may read.                                                *)
(***************************************************************************)
Ask(a) ==
    /\ at[a] = "idle"
    /\ asks < MaxAsks
    /\ asks' = asks + 1
    /\ candidates' = Set(candidates, a, {Name[d] : d \in Active})
    /\ outcome' = Set(outcome, a, "none")
    /\ Goto(a, "finding")
    /\ UNCHANGED <<corpus, authorized, chunks, hits, query, results, seen>>

FindRows(a) ==
    /\ at[a] = "finding"
    /\ authorized' = Set(authorized, a, AuthorizedSources(a, candidates[a]))
    /\ seen' = Set(seen, a, Active)
    /\ Goto(a, "comparing")
    /\ UNCHANGED <<corpus, candidates, chunks, hits, query, results, outcome, asks>>

(* Either read failed: the empty set, which denies all.                    *)
LookupFails(a) ==
    /\ at[a] = "finding"
    /\ authorized' = Set(authorized, a, {})
    /\ Goto(a, "comparing")
    /\ UNCHANGED <<corpus, candidates, chunks, hits, query, results, outcome, seen, asks>>

(***************************************************************************)
(* EnterpriseRAG.query.                                                    *)
(***************************************************************************)
(* check_access on the category the question is routed to, before the      *)
(* first search.                                                           *)
RouteDenied(a) ==
    /\ at[a] = "comparing"
    /\ query[a] = 1
    /\ Permitted[a] # Categories
    /\ End(a, "denied")
    /\ UNCHANGED <<corpus, asks>>

(* ensure_bm25_synced: the sizes are compared, then the dense chunks are   *)
(* copied and the sparse index is filled from the copy.                    *)
Compare(a) ==
    /\ at[a] = "comparing"
    /\ IF Cardinality(sparse) = Cardinality(dense)
          THEN Goto(a, "densing") /\ UNCHANGED chunks
          ELSE Goto(a, "copying") /\ chunks' = Set(chunks, a, dense)
    /\ UNCHANGED <<corpus, candidates, authorized, hits, query, results, outcome, seen, asks>>

Copy(a) ==
    /\ at[a] = "copying"
    /\ sparse' = chunks[a]
    /\ chunks' = Set(chunks, a, {})
    /\ Goto(a, "densing")
    /\ UNCHANGED <<rows, uploads, writer, dense, candidates, authorized, hits, query,
                   results, outcome, seen, asks>>

GatherDense(a) ==
    /\ at[a] = "densing"
    /\ \E found \in SUBSET {d \in dense : Allowed(a, d)} :
          hits' = Set(hits, a, hits[a] \cup found)
    /\ Goto(a, "sparsing")
    /\ UNCHANGED <<corpus, candidates, authorized, chunks, query, results, outcome, seen, asks>>

GatherSparse(a) ==
    /\ at[a] = "sparsing"
    /\ \E found \in SUBSET {d \in sparse : Allowed(a, d)} :
          hits' = Set(hits, a, hits[a] \cup found)
    /\ \/ /\ query[a] < MaxQueries
          /\ query' = Set(query, a, query[a] + 1)
          /\ Goto(a, "comparing")
       \/ /\ Goto(a, "ranking")
          /\ UNCHANGED query
    /\ UNCHANGED <<corpus, candidates, authorized, chunks, results, outcome, seen, asks>>

(* Merging and reranking keep some of the hits, in an order left out; a    *)
(* list or table question goes on to the expansion.                        *)
Rank(a) ==
    /\ at[a] = "ranking"
    /\ \E kept \in (SUBSET hits[a]) \ {{}} :
          \/ Goto(a, "expanding") /\ hits' = Set(hits, a, kept) /\ UNCHANGED results
          \/ Goto(a, "generating") /\ results' = Set(results, a, kept) /\ hits' = Set(hits, a, {})
    /\ UNCHANGED <<corpus, candidates, authorized, chunks, query, outcome, seen, asks>>

(* No chunk: the answer says so.                                           *)
Insufficient(a) ==
    /\ at[a] = "ranking"
    /\ End(a, "insufficient")
    /\ UNCHANGED <<corpus, asks>>

(* The chunks of the focus document are taken from the dense index as it   *)
(* is now, by file name, with no other filter.                             *)
FocusChunks(a, n) == {d \in dense \cup hits[a] : Name[d] = n}

Expand(a) ==
    /\ at[a] = "expanding"
    /\ \E h \in hits[a] : \E kept \in (SUBSET (hits[a] \cup FocusChunks(a, Name[h]))) \ {{}} :
          results' = Set(results, a, kept)
    /\ hits' = Set(hits, a, {})
    /\ Goto(a, "generating")
    /\ UNCHANGED <<corpus, candidates, authorized, chunks, query, outcome, seen, asks>>

(* By the model, by the rules of AnswerGenerator when the model fails, or  *)
(* a refusal of the synthesis plan: an answer with citations each time.    *)
Generate(a) ==
    /\ at[a] = "generating"
    /\ End(a, "answered")
    /\ UNCHANGED <<corpus, asks>>

(* Any exception of the engine, an LLMError without fallback included,     *)
(* becomes RagRetrievalError.                                              *)
QueryFails(a) ==
    /\ at[a] \in {"comparing", "copying", "densing", "sparsing", "ranking",
                  "expanding", "generating"}
    /\ End(a, "error")
    /\ UNCHANGED <<corpus, asks>>

Advance(a) ==
    \/ FindRows(a) \/ RouteDenied(a) \/ Compare(a) \/ Copy(a) \/ GatherDense(a)
    \/ GatherSparse(a) \/ Rank(a) \/ Insufficient(a) \/ Expand(a) \/ Generate(a)

Answer(a) == Advance(a) \/ LookupFails(a) \/ QueryFails(a)

Next ==
    \/ \E d \in Docs : Write(d)
    \/ \E a \in Askers : Ask(a) \/ Answer(a)

Spec == Init /\ [][Next]_vars

-----------------------------------------------------------------------------
TypeOK ==
    /\ rows \in [Docs -> {"none", "active", "deleted"}]
    /\ uploads \in Seq(Docs)
    /\ writer \in [Docs -> WriterPoints]
    /\ dense \subseteq Docs /\ sparse \subseteq Docs
    /\ at \in [Askers -> Points]
    /\ candidates \in [Askers -> SUBSET Names]
    /\ authorized \in [Askers -> SUBSET Names]
    /\ chunks \in [Askers -> SUBSET Docs]
    /\ hits \in [Askers -> SUBSET Docs]
    /\ query \in [Askers -> 1..MaxQueries]
    /\ results \in [Askers -> SUBSET Docs]
    /\ outcome \in [Askers -> Outcomes]
    /\ asks \in 0..MaxAsks
    /\ seen \in [Askers -> SUBSET Docs]

(* An answer rests on at least one chunk, and whatever the expansion to    *)
(* the whole focus document brings in, every chunk bears a name the asker  *)
(* was authorized for and a category of the asker's role                   *)
(* (rag/engine.py: _search and _expand_exhaustive_context).                *)
Grounded ==
    \A a \in Askers :
        /\ at[a] = "generating" => results[a] # {}
        /\ \A d \in results[a] :
              Name[d] \in authorized[a] /\ Category[Name[d]] \in Permitted[a]

(* Access is decided by name and used later: as long as a name has had one *)
(* document only, what is given to the model is a document the asker may   *)
(* read and whose row was active when that was decided, uploads, deletions *)
(* and rebuilds in between notwithstanding (api/v1/chat.py:116).           *)
OneNameOneReader ==
    \A a \in Askers : \A d \in results[a] :
        (\A e \in Docs \ {d} : Name[e] = Name[d] => rows[e] = "none")
            => CanRead(a, d) /\ d \in seen[a]

=============================================================================
