------------------------- MODULE SuggestedQuestions -------------------------
(***************************************************************************)
(* The cache behind the suggested questions of the chat page: a pool of    *)
(* questions mined from every indexed document, kept until a lifecycle     *)
(* event says that the corpus changed, and filtered per request by what    *)
(* the caller may read (backend/app/services/suggested_questions.py).      *)
(*                                                                         *)
(* Readers take the pool in get_candidate_pool, twice per request, and     *)
(* read the attribute outside the lock; uploads and deletes change the     *)
(* index first, then the row, and publish the event last. Chunks carry the *)
(* name of their file and no document: questions are grouped, and callers  *)
(* authorized, by names, which documents may share one after the other     *)
(* and, when uploads race, at a time. A question is told apart only by the *)
(* name and the documents it may have been worded from.                    *)
(***************************************************************************)
EXTENDS Naturals, Sequences, SequencesExt, FiniteSets

CONSTANTS
    Readers,         \* threads that serve /suggested-questions
    Docs,            \* documents, each uploaded once and deleted once
    NamesOf,         \* the file names each document may be uploaded under
    None,            \* the pool when it has been invalidated
    Unusable,        \* documents without a heading worth a question
    MaxConsidered,   \* MAX_DOCUMENTS_CONSIDERED: names, 12 in the code
    Limit,           \* DEFAULT_SUGGESTION_LIMIT, 3 in the code
    WriterFaults,    \* whether a step of an upload or a delete may fail
    MaxRequests      \* bound: requests ever begun

ASSUME ConstantsAssumption ==
    /\ Unusable \subseteq Docs
    /\ MaxConsidered \in Nat \ {0}
    /\ Limit \in Nat \ {0}
    /\ WriterFaults \in BOOLEAN
    /\ MaxRequests \in Nat
    /\ None \notin Readers

VARIABLES
    index,        \* indexed documents, oldest first
    active,       \* documents whose row is active: what callers may read
    name,         \* the file name of each document
    writer,       \* how far the upload or the delete of each document is
    pool,         \* self._pool: None, or the mined names in order, each
                  \* with the documents its questions are worded from
    lock,         \* the reader in the locked section, or None
    at,           \* where each reader stands
    round,        \* 1: the endpoint's call, 2: the one of get_suggestions
    snapshot,     \* the chunks a reader mines
    held,         \* the value get_candidate_pool returned
    authorized,   \* the names the caller may read
    served,       \* the documents the questions last returned come from
    requests,     \* requests begun
    fallback,     \* history: the pool is the empty one of a failed mining
    gone,         \* history: documents deleted when the request began,
                  \* whose name no active row has borne since
    silent        \* history: documents whose index change raised no event

storeVars == <<index, active, name, writer>>
cacheVars == <<pool, lock, fallback>>
readerVars == <<at, round, snapshot, held, authorized, served>>
history == <<gone, silent>>
vars == <<storeVars, cacheVars, readerVars, requests, history>>

Uploading == {"new", "checked", "indexing", "recording", "announcing"}
Deleting  == {"live", "unfiling", "marking", "withdrawing"}
WriterPoints == Uploading \cup Deleting \cup {"stuck", "over"}
ReaderPoints == {"idle", "testing", "waiting", "mining", "building", "returning",
                 "authorizing", "filtering", "failed"}

NamesIn(docs) == {name[d] : d \in docs}

(* _collect_document_profiles, given the name each chunk carries: the      *)
(* names with a usable heading, in the order they are first met, the last  *)
(* MaxConsidered of them ...                                               *)
Considered(source, chunks) ==
    LET usable == {source[d] : d \in ToSet(chunks) \ Unusable}
        order == FoldLeft(LAMBDA met, d :
                     IF source[d] \in usable \ ToSet(met) THEN Append(met, source[d]) ELSE met,
                     <<>>, chunks)
        surplus == IF Len(order) > MaxConsidered THEN Len(order) - MaxConsidered ELSE 0
    IN SubSeq(order, surplus + 1, Len(order))

(* ... and _build_pool: the questions of a name are worded from headings   *)
(* of any document indexed under it.                                       *)
Mined(source, chunks) ==
    LET names == Considered(source, chunks)
    IN [i \in DOMAIN names |->
           [source |-> names[i], docs |-> {d \in ToSet(chunks) \ Unusable : source[d] = names[i]}]]

Sources(questions) == {questions[i].source : i \in DOMAIN questions}

(* _diversify: one question per name first, so those of the first Limit    *)
(* names of the pool that the caller may read.                             *)
Selected(questions, allowed) ==
    LET Rank(i) == Cardinality({k \in 1..i : questions[k].source \in allowed})
    IN UNION {questions[i].docs : i \in {k \in DOMAIN questions :
                                questions[k].source \in allowed /\ Rank(k) <= Limit}}

-----------------------------------------------------------------------------
WriterGoto(d, p) == writer' = [writer EXCEPT ![d] = p]
ReaderGoto(r, p) == at' = [at EXCEPT ![r] = p]

(***************************************************************************)
(* Mutants.                                                                *)
(***************************************************************************)
(* The inner test of the double-checked lock is dropped.                   *)
LockAlwaysMines(r) ==
    /\ at[r] = "waiting"
    /\ lock = None
    /\ lock' = r
    /\ ReaderGoto(r, "mining")
    /\ UNCHANGED <<storeVars, pool, fallback, round, snapshot, held, authorized, served, requests, history>>

(* The publisher of a deletion clears nothing.                             *)
DeletedIgnored(d) ==
    /\ writer[d] = "withdrawing"
    /\ lock = None
    /\ WriterGoto(d, "over")
    /\ UNCHANGED <<index, active, name, cacheVars, readerVars, requests, history>>

(* get_suggestions trusts the pool instead of the authorized sources.      *)
ServeUnfiltered(r) ==
    /\ at[r] = "filtering"
    /\ served' = [served EXCEPT ![r] = Selected(held[r], Sources(held[r]))]
    /\ ReaderGoto(r, "idle")
    /\ held' = [held EXCEPT ![r] = None]
    /\ authorized' = [authorized EXCEPT ![r] = {}]
    /\ UNCHANGED <<storeVars, cacheVars, round, snapshot, requests, history>>

(* An exception while mining leaves the lock held.                         *)
PublishPoolKeepsLock(r) ==
    /\ at[r] = "building"
    /\ \E failed \in BOOLEAN :
          /\ pool' = IF failed THEN <<>> ELSE Mined(name, snapshot[r])
          /\ fallback' = failed
          /\ lock' = IF failed THEN lock ELSE None
    /\ snapshot' = [snapshot EXCEPT ![r] = <<>>]
    /\ ReaderGoto(r, "returning")
    /\ UNCHANGED <<storeVars, round, held, authorized, served, requests, history>>

-----------------------------------------------------------------------------
Init ==
    /\ index = <<>>
    /\ active = {}
    /\ name \in {f \in [Docs -> UNION {NamesOf[d] : d \in Docs}] : \A d \in Docs : f[d] \in NamesOf[d]}
    /\ writer = [d \in Docs |-> "new"]
    /\ pool = None
    /\ lock = None
    /\ at = [r \in Readers |-> "idle"]
    /\ round = [r \in Readers |-> 1]
    /\ snapshot = [r \in Readers |-> <<>>]
    /\ held = [r \in Readers |-> None]
    /\ authorized = [r \in Readers |-> {}]
    /\ served = [r \in Readers |-> {}]
    /\ requests = 0
    /\ gone = [r \in Readers |-> {}]
    /\ fallback = FALSE
    /\ silent = {}

(* upload_document: no active row has the name, as far as a check tells    *)
(* that uploads of one name may pass together ...                          *)
CheckName(d) ==
    /\ writer[d] = "new"
    /\ name[d] \notin NamesIn(active)
    /\ WriterGoto(d, "checked")
    /\ UNCHANGED <<index, active, name, cacheVars, readerVars, requests, history>>

(* ... the row is inserted ...                                             *)
InsertRow(d) ==
    /\ writer[d] = "checked"
    /\ active' = active \cup {d}
    /\ gone' = [r \in Readers |-> {e \in gone[r] : name[e] # name[d]}]
    /\ WriterGoto(d, "indexing")
    /\ UNCHANGED <<index, name, cacheVars, readerVars, requests, silent>>

(* ... then the indexing stage adds the vectors ...                        *)
IndexVectors(d) ==
    /\ writer[d] = "indexing"
    /\ index' = Append(index, d)
    /\ WriterGoto(d, "recording")
    /\ UNCHANGED <<active, name, cacheVars, readerVars, requests, history>>

(* ... then the row becomes SEARCHABLE. When that update fails the request *)
(* raises: the vectors stay and no event is published.                     *)
RecordSearchable(d) ==
    /\ writer[d] = "recording"
    /\ WriterGoto(d, "announcing")
    /\ UNCHANGED <<index, active, name, cacheVars, readerVars, requests, history>>

RecordFails(d) ==
    /\ WriterFaults
    /\ writer[d] = "recording"
    /\ WriterGoto(d, "stuck")
    /\ silent' = silent \cup {d}
    /\ UNCHANGED <<index, active, name, cacheVars, readerVars, requests, gone>>

(* delete_document: vectors ...                                            *)
RemoveVectors(d) ==
    /\ writer[d] = "live"
    /\ index' = SelectSeq(index, LAMBDA e : e # d)
    /\ WriterGoto(d, "unfiling")
    /\ UNCHANGED <<active, name, cacheVars, readerVars, requests, history>>

(* ... file: when it cannot be removed the row stays and nobody is told .. *)
RemoveFile(d) ==
    /\ writer[d] = "unfiling"
    /\ WriterGoto(d, "marking")
    /\ UNCHANGED <<index, active, name, cacheVars, readerVars, requests, history>>

RemoveFileFails(d) ==
    /\ WriterFaults
    /\ writer[d] = "unfiling"
    /\ WriterGoto(d, "stuck")
    /\ silent' = silent \cup {d}
    /\ UNCHANGED <<index, active, name, cacheVars, readerVars, requests, gone>>

(* ... and row.                                                            *)
MarkDeleted(d) ==
    /\ writer[d] = "marking"
    /\ active' = active \ {d}
    /\ WriterGoto(d, "withdrawing")
    /\ UNCHANGED <<index, name, cacheVars, readerVars, requests, history>>

(* publish -> on_lifecycle_event -> invalidate, in the writer's thread: it *)
(* waits for the lock, so for a mining under way.                          *)
Publish(d, from, to) ==
    /\ writer[d] = from
    /\ lock = None
    /\ pool' = None
    /\ fallback' = FALSE
    /\ WriterGoto(d, to)
    /\ UNCHANGED <<index, active, name, lock, readerVars, requests, history>>

PublishIndexed(d) == Publish(d, "announcing", "live")
PublishDeleted(d) == Publish(d, "withdrawing", "over")

-----------------------------------------------------------------------------
(* GET /suggested-questions.                                               *)
Begin(r) ==
    /\ at[r] = "idle"
    /\ requests < MaxRequests
    /\ requests' = requests + 1
    /\ round' = [round EXCEPT ![r] = 1]
    /\ gone' = [gone EXCEPT ![r] =
           {d \in Docs : writer[d] \in {"withdrawing", "over"} /\ name[d] \notin NamesIn(active)}]
    /\ served' = [served EXCEPT ![r] = {}]
    /\ ReaderGoto(r, "testing")
    /\ UNCHANGED <<storeVars, cacheVars, snapshot, held, authorized, silent>>

(* get_candidate_pool: the test outside the lock ...                       *)
TestPool(r) ==
    /\ at[r] = "testing"
    /\ ReaderGoto(r, IF pool # None THEN "returning" ELSE "waiting")
    /\ UNCHANGED <<storeVars, cacheVars, round, snapshot, held, authorized, served, requests, history>>

(* ... the same test under the lock; a pool found there is returned ...    *)
EnterLock(r) ==
    /\ at[r] = "waiting"
    /\ lock = None
    /\ IF pool = None
       THEN lock' = r /\ ReaderGoto(r, "mining")
       ELSE lock' = lock /\ ReaderGoto(r, "returning")
    /\ UNCHANGED <<storeVars, pool, fallback, round, snapshot, held, authorized, served, requests, history>>

(* ... _extract_chunks copies the list of chunks ...                       *)
ReadChunks(r) ==
    /\ at[r] = "mining"
    /\ snapshot' = [snapshot EXCEPT ![r] = index]
    /\ ReaderGoto(r, "building")
    /\ UNCHANGED <<storeVars, cacheVars, round, held, authorized, served, requests, history>>

(* ... _build_pool, which on any exception leaves an empty pool ...        *)
PublishPool(r) ==
    /\ at[r] = "building"
    /\ \E failed \in BOOLEAN :
          /\ pool' = IF failed THEN <<>> ELSE Mined(name, snapshot[r])
          /\ fallback' = failed
    /\ lock' = None
    /\ snapshot' = [snapshot EXCEPT ![r] = <<>>]
    /\ ReaderGoto(r, "returning")
    /\ UNCHANGED <<storeVars, round, held, authorized, served, requests, history>>

(* ... and the attribute is read once more, without the lock: an           *)
(* invalidation may have come between. Iterating over None is a TypeError  *)
(* that ends the request.                                                  *)
ReturnPool(r) ==
    /\ at[r] = "returning"
    /\ IF pool = None
       THEN /\ ReaderGoto(r, "failed")
            /\ UNCHANGED <<held, round>>
       ELSE /\ held' = [held EXCEPT ![r] = pool]
            /\ ReaderGoto(r, IF round[r] = 1 THEN "authorizing" ELSE "filtering")
            /\ UNCHANGED round
    /\ UNCHANGED <<storeVars, cacheVars, snapshot, authorized, served, requests, history>>

(* The names of that pool which the caller may read: find_by_filenames     *)
(* finds an active row of the name. Which rows whom are open to is left to *)
(* QuestionAnswering.                                                      *)
Authorize(r) ==
    /\ at[r] = "authorizing"
    /\ authorized' = [authorized EXCEPT ![r] = Sources(held[r]) \cap NamesIn(active)]
    /\ held' = [held EXCEPT ![r] = None]
    /\ round' = [round EXCEPT ![r] = 2]
    /\ ReaderGoto(r, "testing")
    /\ UNCHANGED <<storeVars, cacheVars, snapshot, served, requests, history>>

(* get_suggestions filters the pool it took itself; onboarding questions,  *)
(* which name no document, when nothing is left.                           *)
Serve(r) ==
    /\ at[r] = "filtering"
    /\ served' = [served EXCEPT ![r] = Selected(held[r], authorized[r])]
    /\ ReaderGoto(r, "idle")
    /\ held' = [held EXCEPT ![r] = None]
    /\ authorized' = [authorized EXCEPT ![r] = {}]
    /\ UNCHANGED <<storeVars, cacheVars, round, snapshot, requests, history>>

(* The 500 is returned.                                                    *)
Fail(r) ==
    /\ at[r] = "failed"
    /\ ReaderGoto(r, "idle")
    /\ authorized' = [authorized EXCEPT ![r] = {}]
    /\ UNCHANGED <<storeVars, cacheVars, round, snapshot, held, served, requests, history>>

-----------------------------------------------------------------------------
Write(d) ==
    \/ CheckName(d) \/ InsertRow(d) \/ IndexVectors(d) \/ RecordSearchable(d) \/ RecordFails(d)
    \/ RemoveVectors(d) \/ RemoveFile(d) \/ RemoveFileFails(d) \/ MarkDeleted(d)
    \/ PublishIndexed(d) \/ PublishDeleted(d)

Read(r) ==
    \/ TestPool(r) \/ EnterLock(r) \/ ReadChunks(r) \/ PublishPool(r)
    \/ ReturnPool(r) \/ Authorize(r) \/ Serve(r) \/ Fail(r)

Next == (\E d \in Docs : Write(d)) \/ (\E r \in Readers : Begin(r) \/ Read(r))

Spec == Init /\ [][Next]_vars

(* Threads run on. The requests and the changes are finitely many, so the  *)
(* lock is free for good in the end and weak fairness is enough.           *)
FairSpec ==
    /\ Spec
    /\ \A r \in Readers : WF_vars(Read(r))
    /\ \A d \in Docs : WF_vars(PublishIndexed(d)) /\ WF_vars(PublishDeleted(d))

-----------------------------------------------------------------------------
(* Every variable keeps its type.                                          *)
TypeOK ==
    /\ IsInjective(index) /\ ToSet(index) \subseteq Docs
    /\ active \subseteq Docs
    /\ name \in [Docs -> UNION {NamesOf[d] : d \in Docs}]
    /\ writer \in [Docs -> WriterPoints]
    /\ pool # None => \A entry \in ToSet(pool) : entry.docs \subseteq Docs
    /\ lock \in Readers \cup {None}
    /\ at \in [Readers -> ReaderPoints]
    /\ round \in [Readers -> {1, 2}]
    /\ \A r \in Readers :
          /\ ToSet(snapshot[r]) \subseteq Docs
          /\ held[r] # None => \A entry \in ToSet(held[r]) : entry.docs \subseteq Docs
          /\ authorized[r] \subseteq NamesIn(Docs) /\ gone[r] \subseteq Docs
          /\ served[r] \subseteq Docs
    /\ silent \subseteq Docs /\ fallback \in BOOLEAN
    /\ requests \in 0..MaxRequests

(* The change of a document is on its way to the cache: the event comes.   *)
Announced(d) == writer[d] \in {"recording", "announcing", "unfiling", "marking", "withdrawing"}

(* No mining that overlaps a change, and no order of event and mining,     *)
(* leaves a pool that disagrees with the index once every change was       *)
(* announced, unless an error cut a change or the mining short.            *)
PoolFollowsIndex ==
    (pool # None /\ ~fallback /\ silent = {} /\ \A d \in Docs : ~Announced(d))
        => pool = Mined(name, index)

(* A request that begins after a deletion was recorded never suggests a    *)
(* question worded from the deleted document, however old the pool it      *)
(* reads, as long as no active row bears the name: callers are authorized  *)
(* by names, so a new document of the name lets the old question through.  *)
DeletedNeverSuggested ==
    \A r \in Readers : served[r] \cap gone[r] = {}

(* The expensive step runs once per version of the corpus, however many    *)
(* readers find the pool empty at once: a mined pool is replaced by None   *)
(* only, never by another mining.                                          *)
MinedOncePerVersion == [][pool # None => pool' \in {pool, None}]_vars

(* Every request ends, and every event gets through to the cache: no       *)
(* reader leaves the lock held and none waits for ever.                    *)
NobodyWaitsForever ==
    /\ \A r \in Readers : []<>(at[r] = "idle")
    /\ \A d \in Docs : []<>(writer[d] \notin {"announcing", "withdrawing"})

(* What the code says of itself: "never break the request path".           *)
NeverBroken == \A r \in Readers : at[r] # "failed"
=============================================================================
