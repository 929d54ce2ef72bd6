# Formal model of the enterprise knowledge assistant

The repository is a retrieval-augmented assistant: a FastAPI backend
(`backend/app`) over PostgreSQL and an in-memory search index, and a React
front end. This directory holds TLA+ models of the parts where several requests,
several stores, late answers, a clock or a restart can go wrong together,
the TLC configurations that check them, and TLAPS proofs about most of them.

## 1. The system

Endpoints are synchronous functions: FastAPI runs each request in a thread of a
pool, so requests interleave wherever the code calls a store. Every thread has
a database session of its own (`db/session.py`: READ COMMITTED, no expiry on
commit) and shares one `DocumentService`, one `RagService` and one vector store
(`lru_cache` in `dependencies.py`). There is one process.

| Component | State it keeps | Operations | What is hard | What makes it correct |
|---|---|---|---|---|
| Document lifecycle (`services/document_service.py`, `documents/`, `db/repositories/document_repository.py`, `storage/`) | row of `documents`, file, vectors | upload, delete, retry, read, change domain | three stores without a transaction, blind UPDATEs, partial failure | content unique, no vectors without file, deletion complete and final |
| Start-up rebuild (`services/index_bootstrap_service.py`, `main.py`) | the in-memory index | list SEARCHABLE rows, re-index each | crash at any point, swallowed errors | what the table calls SEARCHABLE can be found |
| Ingestion (`ingestion/`) | the context of one upload | nine stages in order | failure after a side effect | each failure ends in a status |
| Semantic chunking (`ingestion/semantic_chunking/`) | the open group of one document | group blocks, split what is too large | thresholds meet in many combinations | no part of a block is lost, headings keep their text |
| Vector store (`ingestion/vector_store/faiss_store.py`) | four parallel lists and a FAISS index | add, remove, search, clear | no lock, rebuild replaces the index | the chunk returned is the one whose vector matched |
| Hybrid index (`rag/hybrid/`) | BM25 statistics, `bm25_corpus.json` | add, remove, search, persist, load | two indexes and a file, non-atomic write | sparse and dense agree after a sync |
| Retrieval authorization (`auth/`, `api/v1/chat.py`) | none | decide which file names a user may retrieve | decided once, by file name, before the search | nothing unauthorized is retrieved |
| Retrieval and answering (`rag/engine.py`, `rag/retriever.py`) | the work of one question | route, search each query, rank, expand, generate | the indexes change between the steps | an answer rests on authorized chunks |
| Conversations (`services/conversation_*.py`) | conversations, messages | ask, create, rename, delete, import | an answer takes long: everything else happens meanwhile | messages form turns, a user's title stays |
| RAG service (`services/rag_service.py`, `dependencies.py`) | the store, the engine, flag, lock | initialize, query | double-checked lock, `lru_cache` without a lock | one engine, over the store uploads go to |
| Suggested questions (`services/suggested_questions.py`) | cached pool, lock | get, invalidate | cache against corpus, attribute read outside the lock | the pool is that of the index, nothing deleted is shown |
| Rate limiter (`core/rate_limit.py`) | window of request times per key | is_allowed | clock read before the lock | at most n requests per window |
| Worker orchestration (`knowledge_orchestration/`) | schedule, futures, results | run workers in parallel with deadlines | timeout against completion, cycles | each worker reported once, after what it depends on |
| Knowledge engines (`knowledge_engine/`, `knowledge_registry/`, `knowledge_relationships/`, `knowledge_index/`, `knowledge_graph/`) | tables, an index and a graph in memory, two JSON files | four shadow pipelines per upload, rebuild by a question | pipelines overlap, each error is swallowed | related documents get linked, nothing derived without its rows |
| Users and roles (`services/user_service.py`, `services/role_service.py`) | users, roles | create, update, disable, delete | last-administrator check and write are separate | an administrator remains |
| Session (`services/auth_service.py`, `auth/jwt.py`, `frontend/src/services/api.ts`, `contexts/AuthContext.tsx`) | two tokens in localStorage, the user shown, a queue of calls | login, logout, reload, refresh, repeat | many calls meet one expired token; answers come after the session has changed | tokens and user are of one login, a call fails only for a reason, none waits for ever |
| Chat page (`frontend/src/pages/ChatPage.tsx`, `features/chat/`) | selection, cached messages, the answer typed out, a question handed over | select, ask, create, delete, load | answers, loads and renders overlap; a request times out and is served | what is shown is what is stored, a handed question is asked |
| Query understanding, planning, synthesis, evaluation, analytics, audit | none, or append-only records | transformations of one request's data | heuristics | |

Interactions. `api/v1/documents.py` calls `DocumentService`, which calls the
pipeline (whose stages write the file and the vectors), the repository (which
commits), the storage adapter and, last, the publisher of lifecycle events:
its subscribers invalidate the suggested questions and run the knowledge
pipelines in the thread of the upload. `api/v1/chat.py` passes the rate limiter,
asks `RetrievalAuthorizationService` for the file names a user may see, and
`ConversationChatService` for an answer; that stores the question, calls
`RagService` (whose `answer_question` the orchestration wraps) and stores the
answer. Retrieval reads the vector store uploads and deletes write.

The browser runs one handler at a time, up to its next `await`. Its calls go
through one axios client whose interceptors attach and refresh the access token;
TanStack Query caches what the pages load, and a mutation invalidates the
queries it knows it has changed. A call is given up after 30 seconds, whether or
not the backend has served it.

## 2. Modules

| Module | Models | Proofs |
|---|---|---|
| `DocumentLifecycle` | upload, delete and retry of documents over table, storage and index; the start-up rebuild | `DocumentLifecycleProofs` |
| `ChunkIndex` | what a vector store promises: a set of documents that grows and shrinks by one | |
| `DenseIndex` | `FaissVectorStore`, one shared attribute at a time; implements `ChunkIndex` with one writer | `IndexProofs` |
| `HybridIndex` | `HybridIndexStore`, `BM25Index` with its file, synchronization, start-up | `IndexProofs` |
| `QuestionAnswering` | a question from the access decision to the answer, beside uploads and deletions | `QuestionAnsweringProofs` |
| `ConversationChat` | conversations, their messages and titles | `ConversationChatProofs` |
| `SuggestedQuestions` | the cached pool of questions and its invalidation | `SuggestedQuestionsProofs` |
| `KnowledgePipeline` | the four shadow pipelines, their tables, memory and files | `KnowledgePipelineProofs` |
| `RagService` | the one store and the one engine, and how they come to be | `ServicesProofs` |
| `WorkerScheduler` | one orchestration over workers | `ServicesProofs` |
| `RateLimiter` | the sliding window of one key | `SafetyProofs` |
| `SemanticChunking` | blocks grouped and split into chunks | `SafetyProofs` |
| `AdminProtection` | account and role changes, the last-administrator guard | `SafetyProofs` |
| `ClientSession` | the browser's tokens, their refresh and the calls that wait for it | `ServicesProofs` |
| `ChatView` | the chat page: selection, cache of messages, streamed answer, deep link | `SafetyProofs` |

`MC<module>` gives a module its symmetry set or the constants a `.cfg` cannot
write. Three of them put side by side what shares no state: a variable chosen at
the start (`part`, `store`) says which part moves, so a run explores the sum of
the state spaces and not the product. `MCServices` has `RagService`,
`WorkerScheduler` and `ClientSession`, with their fairness; `MCSafety` has
`AdminProtection`, `RateLimiter`, `SemanticChunking` and `ChatView`, for safety
alone; `MCIndexes` has two stores, one searched beside a lone writer, one with
two writers, and `HybridIndex`. Their proofs extend these modules, since a property
of an instance has its name there.

The modules are layers of one system seen at different grains.
`DocumentLifecycle` follows the row, the file and the list of owners, which says
what the index holds; uploads and removals change it in the steps that other
requests can come between. `HybridIndex` follows the lists of BM25 one by one,
with their file, and takes a change of FAISS as one step. `DenseIndex` opens the
change of FAISS itself, list by list. `QuestionAnswering` composes the row, the two indexes and the
question that reads all three; `SuggestedQuestions` composes the row, the index
and the event that ends an upload or a deletion; `KnowledgePipeline` begins
where that event is received. `ChatView` sees the conversations of
`ConversationChat` from the other end of the wire.

### DocumentLifecycle

One row per `DocumentORM`, numbered in insertion order. `status`, `path`,
`name` and `sum` are its columns; `files` and `vectors` are the other two
stores. `at` and `work` are where each request thread stands in
`DocumentService` and what its local variables hold; a step ends where the
code commits or touches a store.

| Action | Code |
|---|---|
| `UploadCheck`, `UploadCreate`, `UploadRaced` | duplicate policy; the INSERT; its `IntegrityError` |
| `UploadStore` | `StorageStage` |
| `UploadExtend`, `UploadIndex` | the stages up to `IndexingStage`, which begins to extend the lists of the index; its last list, the owners, is extended too |
| `UploadFail`, `UploadComplete`, `UploadRefused` | the exception handler; the final UPDATE; either one refused by the partial unique index |
| `DeleteLoad` | the access check, which loads the row |
| `DeleteFilter`, `DeleteRaises`, `DeleteAssign`, `DeleteDropsNothing` | `remove_document` of the dense index: the lists are filtered (or the strict zip meets unequal ones and raises), then assigned, or left when they have kept their length |
| `DeleteFile`, `DeleteFails`, `DeleteMark` | the file; BM25 or the storage adapter raises; the last UPDATE |
| `RetryLoad`, `RetrySchedule`, `RetryRefused`, `RetryWithoutContent` | `retry_document`, which no endpoint calls yet and which only ever fails: `RetryFindsNoContent` |
| `DatabaseError` | a commit fails and the exception ends the request |
| `Restart`, `BootIndex`, `BootSkip`, `BootDone` | the lifespan hook and `bootstrap_search_index`, which lists nothing when the database is down |

The repository sets attributes of an object loaded earlier and emits an UPDATE
by primary key, so an update never looks at the status other requests have
written: the actions have no guard on it either. Only the unique index
(`Fits`) stands in the way.

`FaissVectorStore` has no lock. A removal that filters the lists while another
request extends or filters them, or is met by one before it has assigned, loses
what the other did, or loses itself: of two deletions at once the second may find
its lists as long as the shared ones and drop nothing. `torn` records that this
happened; from then on, until a restart makes new lists, the model lets removals
raise, drop, revive or keep documents, and the properties about the vectors
promise nothing.

Two history variables keep the properties honest. `overlapped` holds the
documents whose deletion overlapped an upload or a retry of the same document;
`DeletedIsGone` and `StaysDeleted` speak of the others, and
`doc_bug_deleted_searchable` shows what happens to these. `lost` holds the
documents whose absence from the index is logged rather than repaired (a
deletion that failed after dropping the vectors, a row the bootstrap skipped or
did not ask for, every row when a start listed nothing). `SearchableIsIndexed`
excludes these, the rows a deletion is working on, and what `torn` stands for.

### DenseIndex and ChunkIndex

One element stands for all chunks of a document. A step is one statement on a
shared attribute: the three `extend`s of `add_chunks`, the filtered lists of
`remove_document` and their three assignments, and in `_rebuild_index` the
array, the publication of the empty index and its filling. A search reads the
index, then the chunks. The loop of `remove_document` over the live lists is
one step: an append that falls inside it has the effect of one just before or
just after, or raises (`RemoveRaises`). `ImplementsChunkIndex` maps the owners
list to the abstract set. `clear` is left out: no endpoint calls it.

The history variable `removed` marks that some removal was called.
`SearchSound` says that until then a search answers with the chunk whose vector
matched and never raises; after it a search may map a position of the old index
to a list that has shrunk (`dense_bug_answer.cfg`).

### HybridIndex

A document has one chunk. `dense` is the list of the FAISS index, `lists` the
chunks, identifiers and owners of BM25 (`_tokenized_corpus` moves with the
owners), and each change of one of them is a step: `step` is the list that is
next. `AddSparse` extends them; `RemoveFilter` and `RemoveCompare` are the first
half of `BM25Index.remove_document`, `RemoveRaises` its strict zip over unequal
lists, `RemoveAssign` the assignments. `disk` is the file: missing, torn
(truncated and not yet written: `write_text` opens it with truncation and there
is no temporary file), or the lists as saved (`Serialize`, `Truncate`, `Write`,
`WriteFails`).

`SyncNeeded` to `SyncDone` are `ensure_bm25_synced`, which compares two sizes:
`SyncCopy` and `SyncCopyIds` take two copies of the dense index at two moments
and its live list of owners (`Live`), `SyncClear` empties the lists in turn,
`SyncUnlink` deletes the file, `SyncFill` appends entry by entry and list by
list, and `SyncRaises` is the strict zip over three sources of unequal length.
`Load`, `LoadRaises`, `BootIndex`, `BootSkip`, `BootSync`, `BootSave` are the
start-up, in the order of the lifespan hook; `BootFails` is a database that
cannot be read, or an engine that cannot be built: logged, nothing compared, and
the application serves. The `rows` are those the table calls SEARCHABLE.

The history variable `disturbed` records that two requests were ever at work at
once, or that a start-up left the indexes as they were; `lone` that the last
request to begin was a question that found the sizes different and nobody at
work. `InSync` and `FileIsCurrent` speak of the behaviours that are not
disturbed. `LoneQuestionRepairs` speaks of all: lists of unequal length, a
document twice in one of them, whatever an overlap or a failed start-up left, is
repaired by such a question. What it cannot see are unequal contents of equal
sizes, which one upload beside one question can leave (`hybrid_bug_sizes`).

### QuestionAnswering

A document is one chunk and has a name, an owner and a visibility. `writer` is
how far its upload or deletion is, through the row, FAISS and BM25, in the order
of `DocumentService`; `Decides` is the row `get_by_filename` returns for a name.
`Ask` lists the active names, `FindRows` reads a row for each and applies
`CanRead`; `LookupFails` is the exception that yields the empty set. `RouteDenied`
is the category check of the engine. `Compare` and `Copy` are the
synchronization of BM25, `GatherDense` and `GatherSparse` the two searches of a
query, any allowed subset being what they find; `Rank` merges and reranks;
`Expand` fetches the chunks of the focus document from the index as it is then,
by file name and with no other filter; `Insufficient`, `Generate` and
`QueryFails` are the ways to end.

The history variable `seen` is the set of rows that were active when access was
decided. `Grounded` is about names and categories, which is all that the code
compares; `OneNameOneReader` adds what the user cares about, that the document
itself is readable, and holds while its name has no second document.

### ConversationChat

Columns default to `now()`, which PostgreSQL fixes at the start of a
transaction, so a row is stamped with the time its transaction began; that is
`work.began`, and `now` is the clock. One ask is `Ask`, `StoreQuestion`,
`TouchQuestion` (`add_user_message` with its second commit), `ReadContext`,
`StoreAnswer`, `TouchAnswer`, `ReadTitle`, `SetTitle`, a commit between any two;
`ContextFails` and `GenerationFails` are its exceptions. `Create`, `ImportGuest`,
`RenameLoad`/`RenameWrite` and `DeleteLoad`/`DeleteWrite` are the other requests
of the user, and `Crash` ends whatever is under way.

`TurnOrder` is what the sorted list of messages shows: every answer after its
question, in the turn of its own ask. `UnansweredExplained` uses the history
variable `broken`, the turns an error or a crash cut short; `ContextIsEarlier`
uses `earlier`, what was stored when an ask began. `UserTitleKept` is the
generated title's promise not to overwrite the user's. An error while the title is
generated is logged and leaves it unset until the next answer; that is left out,
so `TitledInTheEnd` speaks of titles that can be generated.

### SuggestedQuestions

Chunks carry the name of their file and no document, so the pool groups questions
by `name`, callers are authorized by name, and two documents may share one: one
after the other, since `CheckName` (the duplicate policy) looks at active rows
only, or at once when two uploads race. A pool entry is a name with the documents
its questions may have been worded from. The endpoint takes the pool
twice (`round`): once to know which sources to authorize, once in
`get_suggestions`. Each time `TestPool` reads the attribute without the lock,
`EnterLock` tests again with it, `ReadChunks`, `PublishPool` mine and publish,
and `ReturnPool` reads the attribute once more, without the lock. `Authorize`
and `Serve` filter, by the names of active rows. Uploads (`CheckName`,
`InsertRow`, `IndexVectors`, `RecordSearchable`) and
deletions (`RemoveVectors`, `RemoveFile`, `MarkDeleted`) end in `Publish`, which
waits for the lock to clear the pool; `RecordFails` and `RemoveFileFails` end
them before it. A change of the index is one step here; `DenseIndex` and
`DocumentLifecycle` show what overlapping ones do to it. The history variables
`fallback` (the empty pool of a failed mining) and `silent` (documents whose
change raised no event) name the exceptions of the properties. `gone` are the
documents that were deleted when a request began and whose name no active row has
borne since: of these `DeletedNeverSuggested` says that no question is shown. A
new document of the name lets the old question through, until the deletion is
announced.

### KnowledgePipeline

Each upload runs, in its own thread, the subscribers of the event in the order
they subscribed: the knowledge engine and the registry (`Load`,
`StoreKnowledge`, `ReadSeed`, `CommitSeed`, `ReadPeers`, `ReadLabels`,
`Register`; `LoadDeleted` when the row is deleted by then), the relationships
(`FindSource`, `Link`), the knowledge index
(`Index`, `Serialize`, `WriteSnapshot`) and the graph (`ReadEntries`,
`ReadEdges`, `ReplaceGraph`, `SaveGraph`). Every one swallows what it raises and
the next runs all the same: `StoreFails`, `Refused`, `SourceMissing`,
`LinkFails`, `KnowledgeMissing`, `SerializeFails`, `GraphFails`. `Refused` is a
unique constraint met by two get-or-create sequences: the loser's whole
registration is dropped. A question rebuilds an empty graph through the same
four steps. No handler reacts to the deletion of a document. `Restart` empties the
memory, and neither JSON file is ever read back. Each document is uploaded once.

Three relations stand for the rules that compare documents. `Similar` are the
pairs the duplicate detector scores above its threshold (`duplicates/detector.py`),
`Related` those the discoverers of organization, taxonomy and concepts join, and
`Newer` the ranks of `VersioningDiscoverer`, which looks at all the versions among
the peers (`Versions`). None implies another. `Latest` is a query with a limit:
the peers of a registration, those of a discovery and the nodes of the graph are at
most 1000 registry rows, the most recently updated ones (`RowLimit`), and its
edges come from at most 10 000 rows (`EdgeLimit` is the number of pairs that fit
these in any case).

`RelatedAreLinked` is the property of the interleaving: two pipelines each read
the peers before the other has registered only if one registers first, and that
one's successor finds it. It holds while the registry fits the limit
(`RegistryFits`): beyond it an older document may be no peer of a later one, and
neither gets an edge (`AlwaysLinked`, `knowledge_bugs.cfg`). `DerivedFromRows`
orders the derived stores. What a run alone leaves complete, within the limits, is
`AloneIsComplete`: `before` is the registry as it was when a document registered,
and its duplicate mark and its edges are those due among these. With an overlap an
older rebuild may end last (`knowledge_bugs.cfg`).

### RagService, WorkerScheduler, RateLimiter, SemanticChunking

`RagService`: `get_document_service` is `Hit`, or `Miss` and later `Build` or
`BuildRaises`; `lru_cache` holds no lock while the function runs, so two misses
build two stores and each caller keeps its own. The lifespan is the thread
`Boot`: the shadow services that subscribe (`Wirings`), the bootstrap, the
engine, each error swallowed. `initialize` is `FastTest`, `Enter`, the service,
`Create` or `CreateFails`, `Publish`, `Finish`: the engine is visible before the
flag. `Ask`/`Query` and `Upload` are the requests that meet it half done. There is one
`RagService` in the model; `get_rag_service` is under an `lru_cache` too, and when
the start-up did not fill it, two first questions may build two services, each of
which then behaves as this one.

`RateLimiter`: `ReadClock` comes before the lock, `Allow` and `Deny` are the
locked section. `Budget` holds while callers reach the lock in the order of
their readings (`InOrder`); otherwise an entry older than its predecessor keeps
that one from expiring, or is let through in a window already full.

`WorkerScheduler`: `Submit` makes a pool and futures for the workers whose
dependencies have been scheduled, or for all that remain when there is a cycle;
`Begin`, `Complete` are the pool; `Collect`, `TimeOut` the thread of the
question, which stops waiting at the deadline (`Expire`) and then in `Leave`
waits for the pool all the same; `SkipForBudget` reports what the exhausted
budget skips; `Merge` and `Answer` end it.

`SemanticChunking`: a step reads one block (`Heading`, `Body` or the block after
a lone heading, `Following`) as the loop of `_group_blocks` does, and `Chunks` is
what `_expand_groups` then makes of the groups: `SplitUnits` cuts a table at its
rows and a list at its items, `SplitMixed` a group of several blocks. `size` is
what the code takes for the size of a group. All sizes and thresholds are those
of the code.

### AdminProtection

A request authenticates its caller (`Authorize`), loads the user (`Load`),
counts (`CheckPasses`, `CheckRefuses`) and commits (`Write...`); the endpoint
then records an audit event (`Audit`). A session's identity map keeps the user
as loaded, and gives the same object to the counting query, so `HoldsAdmin`
reads the roles of the request's own user and caller from what was loaded and
everybody else's from the table. `Register` is the public registration.
Initially `known` are the seeded accounts: superusers hold Admin, as
`scripts/seeding/admin.py` sets both.

### ClientSession

Sessions are numbered by login and 0 is `null`. `access` is the access token
(the session it is of, and the tick of the clock it was issued in: it is good
until the next one), `refresh` the session of the refresh token, `shown` the user
of the React context. A call is sent, waits in `refreshQueue` or is the one that
refreshes (`refresher`, which is `isRefreshing`); its `purpose` tells a page's
call from the lookup of the user (`me`) and from `logout`, whose ends change the
session.

| Action | Code |
|---|---|
| `Start`, `SubmitLogin`, `LoginAnswers`, `LoginRefused`, `Logout` | pages, and `login` and `logout` of `AuthContext` |
| `Reload` | the page is loaded anew: module state and calls are gone, the tokens stay, and `bootstrap` asks who the user is |
| `Answer`, `Break` | the backend accepts the token; any failure but a 401 |
| `Deny` | a 401 in the interceptor: `GiveUp`, `Join` the queue, or `Begin` a refresh |
| `RefreshAnswers`, `RefreshFails` | the end of `performTokenRefresh`, with `processRefreshQueue` and `clearSession` |
| `Tick`, `EndSession` | access tokens expire; a refresh token expires or its account is disabled |

`clearSession` does not stop what is under way: a refresh answered afterwards
stores a token of the session that is over, and a lookup shows its user. The
history variable `crossed` records that this became possible, and `OneLogin` and
`RefusedForAReason` speak of the behaviours where it did not;
`AlwaysOneLogin` is the first without that exception (`services_bugs.cfg`).
`excused` holds the calls with a reason to fail.

### ChatView

`stored` is what the backend has of each conversation; `StoreQuestion` and
`StoreAnswer` are `ConversationChat` in two steps. `data`, `stale`, `failing` and
`load` are one query of TanStack Query per conversation, as the code relies on
it: selecting loads what is absent or stale (`Load`), invalidating reloads only
the selected query and restarts a load only if there are data already
(`Reload`), a removed query forgets all. `Send`, `PickSuggestion`, `AnswerArrives`
and `AskFails` are `sendQuestion` and its two continuations, which run in
whichever conversation is selected by then; `Create`/`Created` and
`Delete`/`Deleted` are the handlers before and after their `await`. `link`,
`cancelled` and `pendingQuestion` are the dashboard's question: `Render` is the
render that the pending mutation causes, `LinkCreated` and `LinkFails` its end,
`ConsumeQuestion` the effect of `ChatArea`.

`ShownIsStored` says that once a conversation's questions are answered and its
messages loaded, the page shows what is stored, whatever order answers, loads and
changes of the selection came in. `missed` holds its exceptions: a question that
failed here (the backend may have stored it, or yet do so) and an answer that met
a load it could not restart. In both, the cache stays behind for the five minutes
of `staleTime`, which `AlwaysShownIsStored` shows (`view_bugs.cfg`).

## 3. What the runs check

`PROJECT.json` lists twelve runs; a run asks the questions of one module, or of
the modules `MCServices`, `MCSafety` or `MCIndexes` puts side by side.

| Run | Instance | What it shows |
|---|---|---|
| `doc_races` | 3 requests, 2 rows of one file name, upload, delete, retry, commits may fail, 1 restart, a bootstrap that asks for 1 row or for none | content stays unique, a retry never has content, a deletion no upload or retry overlapped is final; until a removal meets another change of the index, vectors never outlive their file, such a deletion is complete, and what the table calls SEARCHABLE is found |
| `doc_liveness` | 2 requests, 2 rows, 1 restart, fair | an upload leaves PROCESSING, the service comes back |
| `doc_bug_deleted_searchable` | 2 requests, upload and delete | refuted: "document no longer searchable" when the deletion overlaps the upload |
| `indexes` | 1 writer and 1 reader, or 2 writers, 3 documents; or 1 writer and 1 asker over both indexes, 2 documents, 1 restart, 2 repairs, disk faults, failed starts | one writer: lists agree, the abstract store is implemented, an append disturbs no search; two: no list holds a document twice, uploads alone lose none. Sparse and dense agree, and the file is current, without overlap; whatever an overlap or a failed start left, a question that finds the sizes different and nobody at work repairs |
| `safety` | 1 request at a time over 3 accounts, 1 of them a superuser; 2 callers, a window of 3 ticks in 6; 5 blocks of 10 shapes with the thresholds of the code; 2 conversations, 2 questions | an administrative account remains; the budget of a window; no text lost by chunking, headings stay with theirs; the chat page shows what is stored |
| `chat` | 2 requests, 1 conversation, context of 3, imports of 2, 4 operations, 1 crash, fair | turns sort, a question is unanswered only for a reason, contexts hold what is earlier, a user's title stays, an answered conversation gets its title |
| `suggest` | 2 readers, 2 requests, 2 documents that may share a name, 1 name considered, 1 question shown, failing writers, fair | the pool is that of the index, mined once per version, nothing deleted is shown unless another document bears its name, nobody waits for ever |
| `answer` | 1 asker, 2 asks of 2 queries, 3 documents (two share a name, one is public but of a category the asker lacks) | answers rest on names and categories allowed at the start; with one document per name, on readable documents |
| `services` | 3 requests and the start-up, 2 wirings, 4 builds; 4 workers in a pool of 2 over three dependency graphs, one cyclic; 2 calls, 2 logins, 2 expiries; fair | one engine over the shared store; one result per worker, in dependency order; tokens and user of one login, no call fails without a reason; whoever waits for any of these is served |
| `knowledge` | 3 documents of which any 2 are uploaded (2 versions that are also duplicates, 1 in a collection with the older), 1 question, 3 threads at once, any step failing, 1 restart, limits of 2 | related documents get linked, what is derived has its rows, a pipeline alone leaves everything complete |
| `hybrid_bug_sizes` | 1 writer, 1 asker, 2 documents | refuted: "Rebuild BM25 from FAISS chunks when indexes diverge", since an upload beside a question that rebuilds may leave its document twice and the sizes equal |
| `view_bug_link` | 2 conversations, the dashboard's question | refuted: "hand the question to ChatArea once", since the effect is cancelled by the render its own request causes |

`doc_bug_deleted_searchable`, `hybrid_bug_sizes` and `view_bug_link` quote in
`PROJECT.json` what two docstrings and a comment say, and end with a counterexample. These configurations
ask further such questions and can be run by hand in the same way
(`tlc -continue -config X.cfg Module`; `-continue` where a file names more than one
property); TLC finds a counterexample for each:

| Configuration, module | What is refuted |
|---|---|
| `admin_bug_audit`, `AdminProtection` | the event `user.disabled` of `PUT /users/{id}`: it is never written, since old and new state are one object |
| `admin_bug_race`, `AdminProtection` | two requests at once each spare the other's administrator: none remains |
| `admin_bug_super`, `AdminProtection` | the seeded superuser demotes itself: nobody holds Admin, though an administrative account remains |
| `chat_bugs`, `MCConversationChat` | "ordered by most recent activity first": the list is sorted by creation. `touch` "reflects the latest interaction": a late commit of an earlier transaction puts an older time back |
| `dense_bug_adds`, `DenseIndex` | two uploads pair vectors with other documents' chunks |
| `dense_bug_answer`, `DenseIndex` | a search that overlaps a deletion answers with another document's chunk |
| `doc_bugs`, `MCDocumentLifecycle` | "removes the stored file": an upload that fails after storage has written its file keeps the placeholder path, so a deletion leaves the file for ever. "Re-run ingestion for a failed document without re-uploading": content is looked up by a path only a successful upload writes |
| `hybrid_bug_start`, `HybridIndex` | a torn BM25 file keeps the service from starting |
| `hybrid_bug_sync`, `HybridIndex` | "maintains synchronized dense and sparse indexes" when an upload overlaps a question |
| `knowledge_bugs`, `MCKnowledgePipeline` | of two similar documents one is marked a duplicate: two overlapping pipelines that reuse what the other wrote need not see each other as a peer. The graph has every registered document once nothing is under way: an older rebuild may end last. Related documents are linked also beyond the limit of the query for peers |
| `services_bug_hang`, `MCServices` | a question is answered although a worker never ends: the pool waits for the worker it reported as timed out |
| `services_bugs`, `MCServices` | the engine searches the store uploads go to, when the start-up failed to build it and first requests race. "client discards tokens locally": a refresh answered after the logout stores a token again |
| `suggest_bug_crash`, `MCSuggestedQuestions` | the endpoint never raises: the attribute read again outside the lock may be `None` by then |
| `view_bugs`, `ChatView` | the answer typed out is one of the conversation shown: `activeStream` has a `conversationId` nothing compares. What is shown is what is stored, also after a time-out or an answer during a first load |

`knowledge_three` (`MCKnowledgePipeline`) is one more configuration to run by hand,
and it passes: the properties of `knowledge` with all three documents uploaded, so
that the limits bite, and no failures.

### Bounds

* `MaxDocs = 2`. Rows interact through the unique index, the duplicate check
  and the order of the bootstrap list, all of them pairwise.
* Three requests in `doc_races`: an upload, the deletion that overlaps it, and
  the newer upload of the same content that the late UPDATE collides with.
* `BootLimit = 1` with two rows makes the 10 000 of the code a limit that bites;
  `Window = 3` does the same for the context of a conversation, `MaxConsidered`
  and `Limit` for the suggestions, `PoolSize = 2` for four workers.
* One restart in `DocumentLifecycle` and in `HybridIndex`: the second meets the
  same stores, and the file it loads is one a request or a start has written, as
  for the first; the proofs are for any number. In `ConversationChat` a crash leaves only rows, so one
  crash shows every row it can leave.
* `FailureKinds`: the failure statuses a run tells apart. One in `doc_races`, since
  only FAILED can be retried and nothing distinguishes the others; two in
  `doc_liveness`.
* Two documents and `MaxRepairs = 2` in `HybridIndex`: one whose lists an overlap
  leaves unequal and one beside it, a question that overlaps and one that repairs.
* `RowLimit = 2`, `EdgeLimit = 2` for the 1000 rows and 10 000 relationships of the
  code. With `MaxUploads = 2` all fits, with 3 it does not. `MaxAtOnce` bounds the
  pipelines and questions under way, not what they do.
* Three documents in `DenseIndex`, where lists matter: one before and one after the removed one.
* `UploadCheck` admits no more requests than there are rows left, so that no
  request is stuck at `checked` by the bound alone.
* `MaxOps = 4` requests on a conversation: two questions, one that renames and
  one that deletes.
* `MaxBlocks = 5`: the two blocks a group may hold, those around it, and the
  heading that waits.
* `Calls = {c1, c2}`: one call refreshes, one waits for it or meets its end; a
  third behaves as the second. Two logins: the session answered late and the one
  after it. Two expiries: one for the first token, one for the token of the
  repeated call.
* Two conversations and two questions in `ChatView`: the selected one and
  another, the answer awaited and one that overtakes it.
* Symmetry is used only in runs without liveness properties.

Deadlock is not checked: the systems stop when every row has been used and
every document is deleted, when the bound on requests is reached and each has
ended, or when the process cannot start (`broken`).

### Fairness

Every fair specification has weak fairness per thread, for the steps after the
first: FastAPI's threads are scheduled by the operating system. Clients are not
fair: nothing makes a request arrive. Crashes and faults are not fair either.

* `DocumentLifecycle`: `Continue` per request and `Boot`, the one thread that
  runs the start-up hook. No step waits for another thread. A crash during an
  upload leaves its row PROCESSING for ever, hence the clause of `UploadEnds`
  about restarts. The run checks `UploadsAndStartsEnd`: uploads end, and so does
  every start.
* `RagService`: `Step` per thread. `Enter` waits for the lock, and the holder
  is a thread that is fair and always gives it back.
* `WorkerScheduler`: the thread of the question, the clock (`Expire`), each
  worker's `Begin` and, in `FairSpec`, its `Complete`: a worker is a function
  over an index in memory. `HangSpec` leaves that last one out.
* `SuggestedQuestions`: `Read` per reader and `Publish` per document. The lock
  is a `threading.Lock`, which does not promise its waiters an order; weak
  fairness suffices since there are finitely many requests.
* `ConversationChat`: `Continue` per request. The language model answers or
  times out, and its client then raises (`GenerationFails`).
* `ClientSession`: `Settle` per call and `Refresh`, since axios gives every request
  up after 30 seconds. `CallsEnd` excludes the behaviours of a visitor who reloads
  the page for ever.
* `MCServices` gives each of its parts the fairness of its own specification;
  `CallersAreServed` is the conjunction of what each then promises.

## 4. What is proved

The proofs hold for every value of the constants that meets the `ASSUME`s of
the modules, which TLC evaluates in each run: bounds and thresholds of time are
naturals, `None` and `Null` are no values, accounts and documents are finitely
many where something counts them (`IndexesAssumption`, `ServicesAssumption` and
`SafetyAssumption` gather what the composed modules need). Each argument is an
inductive invariant, one lemma per action or small group of actions, a case
split of the step, and a short temporal conclusion. The invariants were checked
by TLC first, on the instances of the runs. Type correctness is a part of each and
so is not model-checked again. TLAPS proves each of the 31 invariants the runs check.

* `DocumentLifecycleProofs`: `TypeCorrect`, `ContentIsUnique`,
  `VectorsHaveFiles`, `RetryIsDead`, for any number of requests, rows and
  restarts. That vectors have files, until `torn`, needs to know
  that what a removal keeps is the index without its document and that it is alone
  in changing the lists (`FilteredAlone`), that a deletion which removes
  a file loaded the final path, hence comes after the upload's last step and has
  dropped the vectors (`DeletingRow`), that one request ingests a row
  (`IngestingApart`) and has stored its file (`IngestingFile`), and that nothing
  runs during start-up (`QuietBoot`). That a retry is dead needs that failed
  rows keep the placeholder (`PendingPath`) and that nothing ingests a row being
  retried (`RetryingRow`).
  A second invariant, `DInv`, inductive given the first, proves
  `DeletionIsComplete`, `DeletionIsFinal` and `SearchableCanBeFound`:
  `WritersApart` (an upload or a retry and a deletion of one row are recorded as
  overlapping, and none is at work on a deleted row otherwise),
  `DeletionProgress` (vectors a deletion removed, then the file, stay removed:
  only an upload brings them back, and only an upload's last step changes the
  path the deletion loaded), `BootRows` (the bootstrap works on SEARCHABLE rows,
  so it revives no deleted one), `IngestedVectors` and `SearchableHeld`.
* `IndexProofs`, over `MCIndexes`. One writer: `SerialListsAgree`, from
  `ListsInv`, which says how far a change has gone through the lists; until
  something is removed, `AppendsSearchSound`, from `AppendInv` and `SearchInv`
  (index, copies and lists are prefixes of the vectors, and a hit is a position
  of the chunks); and the refinement `SerialImplements`: every step of the lists
  is `Add`, `Remove` or a stutter of `ChunkIndex`. For it `Lone` follows the list
  a removal has filtered. What the loop of `remove_document` has kept after n
  rounds (`Loop`, `LoopRuns`, `KeptIs`) needs an induction, which the library
  only states with an operator parameter; the smallest counterexample of a set
  of naturals (`Induction`, from the well-foundedness of <) does it instead. "One
  writer" is a hypothesis (`Writers = {w}`) the code does not enforce:
  `dense_bug_adds` is its negation.
  Any crew of writers: `OverlapsLoseNothing`, from `OnceInv`. Two uploads never
  add one document (`Apart`), a list a removal is going to store is stale but
  sound (`Snapshot`), and without removals a document missing from a list has
  its upload on the way there (`OnlyAdds`).
  From the same invariant, the refinement again without one writer:
  `OverlappingUploadsImplement` says that until something is removed every step
  is `Add` or a stutter of `ChunkIndex` (`CrewStore`), and `UploadStep` that the
  document that appears among the owners was called for, was not there and is in
  the other two lists. A removal ends it: the stale list it stores drops the
  documents uploaded meanwhile, all in one step.
  Both indexes: `RequestsKeepSync`, `FileHoldsIndex` and `LoneQuestionsRepair`, for
  any number of threads, documents, crashes and restarts, from two invariants.
  `HybridTypes` and `Filling` hold in every behaviour, overlapping ones included.
  `SerialInv` says, list by list, what the sparse index and the file still lack at
  each point of the only request (`HowFar`), through crashes, failed writes and
  restarts (`Rebuilding`). The lists need it also when earlier requests did overlap
  but the last to begin was a lone question (`Undisturbed`): `SyncClear` empties
  whatever it finds, so that question starts from known lists again, and its
  sources are those of an index nobody changes. That is why it repairs even lists of
  unequal length, and why the file, which its write may fail to renew, is not part
  of the claim.
* `SafetyProofs`, over `MCSafety`. `TypeCorrect` for any overlapping requests;
  `SerialAdministratorRemains`, that the guard works for one request at a time
  and any accounts and superusers; and `SerialNoLockout`, that without
  superusers it prevents the lockout. The heart is `GuardSpares`: a guard that
  passes, together with the row as loaded, leaves a second administrator, by
  the cardinality of the set it counted.
  `PageShowsWhatIsStored`, from `ViewInv`: of a conversation in which nothing is
  pending and nothing was missed (`Settled`), a response on its way and the cached
  messages are those stored (`Fresh`), and the selected one never waits for a
  load nobody has started (`Watched`).
  `WindowsHoldBudget`, from `RateInv`: the bucket is the tail of what was let
  through, what has left it is a window older than the last call (`Outdated`), and
  calls a budget apart in order are a window apart in time (`Spaced`); a set of
  positions less than a budget apart then has no more members than the budget.
  `ChunksHoldTheDocument` and `HeadingsKeepTheirText`, for documents of any
  `Blocks` and any length, so the block list of the run is a constant of
  `MCSafety`. The invariant of the first is short: the closed groups, one after the
  other, and then the open one are the positions 1, 2, ... of the document
  (`Grouped`). What needs work is `Chunks`, which expands the groups. Its two
  loops are recursive functions in `SemanticChunking`; `BatchesExist` and
  `MergesExist` show that there are such functions, `BatchOK` and `MergeOK` say
  what each iteration keeps (the pieces done so far and the open ones hold the
  parts seen so far), and the induction is again over a set of numbers (`UpTo`)
  or over sequences that grow at the end (`SeqInduction`). The second adds that a
  closed group is in reading order, and that one which is a heading alone stands
  before another heading or a block it did not fit with (`Firm`); it needs `Preferred <= Absolute`, as the
  defaults have it (1200 and 1800, `semantic_chunking/config.py`).
* `ServicesProofs`, over `MCServices`. `OneEngineBuilt`, `StoreIsShared`: `BootFirst`
  (no request before the lifespan hook has run), `OneBuilder` (only the holder of
  the lock is in the locked section) and `OneStore` (a store got by a thread is
  the cached one, once the start-up has cached it) strengthen them.
  `EachReportedOnce`, `DependenciesComeFirst`, for any graphs of dependencies: a
  worker is to be scheduled, in the running group or reported, once (`Accounted`),
  and one that runs off every cycle has been supplied (`Supplied`).
  `TokensOfOneLogin`, `FailuresHaveReasons`, for any number of calls, logins and
  expiries: as long as no session was cleared under an answer that changes it,
  tokens, refresh, user and the user asked for are of one session (`OneSession`),
  and whoever has failed, or is about to, has a reason (`Excuses`).
* `QuestionAnsweringProofs`: `AnswersAreGrounded` and `NamesMeanDocuments`, for
  any documents, askers, queries and interleaving of uploads and deletions.
  `Authorized` keeps the names an ask may use among those some readable row
  decided for; `Staged` carries them through the two searches and the expansion;
  `Witnessed` ties each back to the rows seen at the start.
* `KnowledgePipelineProofs`: `DerivedHasRows`, `RelatedGetLinked`, with any
  documents, questions, limits, failures and restarts. `LatestRows` is what a query
  with a limit returns, and the whole registry while that fits. `ReadsStand` says that what a
  pipeline has read is still there (nothing deletes those rows), `OneSaw` that, while the registry fits the limit, of two
  related registered documents that have both read their peers, one has the other
  among them. `AloneLeavesAll`, from a second
  invariant inductive given the first: without overlap one thread runs
  (`OneRuns`), what it has read is current when it writes (`ReadsCurrent`), and each
  document has all the points it has passed have written (`RowsComplete`,
  `MemoryComplete`, `GraphCurrent`); what fits the limits has always fitted
  (`FitBefore`); `OthersUnmoved` is the frame.
* `SuggestedQuestionsProofs`: `PoolIsUpToDate`, `MinedOnce`, from `OneMiner`
  (the lock), `CopyIsCurrent` (the chunks a miner read are those of the index as
  long as no event waits to clear the pool) and `PoolIsMined`; and
  `DeletedIsNeverSuggested`: the name of a document that was deleted when a request
  began is not among the names it authorizes, unless an active row has borne it
  since, whatever pool the request is served from.
* `ConversationChatProofs`: `TurnsSort`, `NoneSilentlyUnanswered`,
  `ContextsAreEarlier`, `NothingOrphaned`, `TitlesAreKept`, for any number of
  conversations, requests, operations and crashes. `Placed` orders the stamps of
  what an ask has stored, `Asks` says what each point of an ask has done.

Model-checked only: the liveness properties `UploadsAndStartsEnd`, `TitledInTheEnd`,
`NobodyWaitsForever` and `CallersAreServed` (fairness and ENABLED are out of the
prover's reach). Where a theorem supposes one writer, one request or no overlap, it
says so, and the runs show what happens otherwise. Those of
`DocumentLifecycleProofs` about vectors suppose that no removal met another change
of the index, which the code has no lock to ensure.

## 5. Observations

What the models show, or reading the code for them did, besides the properties
above. None of it is a claim about severity.

* The check for an equal file name (`FILENAME_CONFLICT`) has no index behind it,
  unlike the one for equal content: racing uploads leave two active rows of a
  name, and since index entries carry the name only, the older row then decides
  for the chunks of both.
* While `_rebuild_index` has published its empty index and not filled it, a
  search finds nothing of any document.
* A removal replaces the lists it filtered, so it drops a document another
  thread has added meanwhile; the row stays SEARCHABLE until the next restart
  indexes it again. Of two removals at once, the second to assign brings back what
  the first removed, or finds its lists as long as the shared ones and removes
  nothing: vectors of a deleted document remain, and its file is gone. A removal
  that meets lists of unequal length raises. `torn` stands for all of these.
* When the database is down while the application starts, or the list of documents
  cannot be read, the error is logged and it serves with an empty index until the
  next start (`BootFails`, and `Restart` that lists nothing).
* `ensure_bm25_synced` compares sizes: a removed and an added document of equal
  size leave two indexes that differ and are never compared again, until a
  change of either makes the sizes differ. One upload beside one question gets
  there without any removal (`DivergenceAlwaysShows`, `hybrid_bug_sizes`); what
  holds is `LoneQuestionRepairs`.
* The peers of a document are the 1000 most recently updated registry rows: beyond
  that, an older related document gets no relationship to a later one, either way.
* A question about a deleted document is shown to who may read another document of
  its name, until the deletion is announced.
* Deleted documents stay in the registry, the relationships and the graph: no
  handler reacts to a deletion. The JSON files of the knowledge index and of the
  graph are written and never read.
* The planning, execution and orchestration services build a knowledge index and
  a graph of their own, which nothing fills.
* `get_suggested_question_service` is under `lru_cache`, so two first callers may
  build, and subscribe, two services; each then behaves as `SuggestedQuestions`
  says.
* Registering a document may be refused because another pipeline inserted the
  same seed or category first; nothing tries again.
* `max_table_chunk_size` and `section_merge_threshold` are read nowhere, and the
  size a group is compared with leaves out the blank lines between its blocks.
  The chunk validator expects each block in one chunk, so a table or list that
  was split is logged as a mismatch.
* When the conversation for a dashboard's question cannot be created, the effect
  is free to run again and the render of the error runs it: it tries for ever
  (`LinkFails`). When it can, the question is dropped (`view_bug_link`).
* The suggestions of an empty conversation stay enabled while a question is sent,
  so a second click asks a second question (`PickSuggestion`).

## 6. Not modelled, and why

The map covers a small share of the repository's lines. Most of the others
compute: they turn the data of one request into other data, keep no state between
requests and meet no other thread, so a state machine of them would have one
step, and a translation of their rules would be as long as they are and check
nothing they do not say themselves.

* Query understanding, routing and planning, answer planning and synthesis
  (`query_router`, `query_planner`, `gaqa`, `answer_*`, `evidence_*`,
  `rag/answer_generator.py`, `rag/query_processing`, `response_experience`):
  heuristics over words. In `QuestionAnswering` their results are choices.
* Parsing, structure analysis, embedding, scores, fusion, reranking: numbers and
  texts. A search may return any allowed chunk in the models, so no property
  rests on a score.
* The language model: an external service that answers, fails or takes too long
  (`GenerationFails`, `QueryFails`).
* Analytics, audit reports, monitoring: queries over what was stored, and
  append-only records. The one event whose presence the models state is
  `user.disabled`.
* Workspace, guest demonstration, knowledge domains, and the change of a
  document's domain: reads and edits of one row, with no second store.
* In user administration: names, e-mails, passwords, `replace_user_roles`, roles
  other than Admin.
* `replace_document`: not implemented by the code.
* In the front end: pages that show one response, the batch upload, the guest
  chat; of the queries, refetch when the window regains focus, the removal of
  unused ones after five minutes, and the 180 ms of transition in which no
  suggestions are shown. What is shown of a session that is over is cleared by
  `queryClient.clear`, which joins `ClientSession` and `ChatView` and is in
  neither.
* Evaluation and scripts, stubs of integrations, tests, schemas, configuration.

## 7. Plan

* Models: the batch upload of the front end over `DocumentLifecycle`, with its
  polling; the guest chat and its import; `ChatView` and `ClientSession` joined
  by the query cache that a logout clears.
