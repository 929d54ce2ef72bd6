----------------------------- MODULE RagService -----------------------------
(***************************************************************************)
(* How the process comes by its one vector store and its one RAG engine:   *)
(* get_document_service, a function under lru_cache that builds the store  *)
(* on the first call, and RagService.initialize, a double-checked lock     *)
(* around the construction of the engine over that store                   *)
(* (backend/app/services/rag_service.py, services/document_service.py).    *)
(*                                                                         *)
(* The lifespan of the application tries both before it serves a request   *)
(* and swallows every failure; a request that finds one missing tries      *)
(* again, in the thread pool, beside other requests.                       *)
(***************************************************************************)
EXTENDS Naturals, FiniteSets

CONSTANTS
    Requests,      \* requests, each served by a thread of its own
    Boot,          \* the thread that runs the lifespan
    NoOne,         \* the owner of a free lock
    Wirings,       \* shadow services that subscribe at start (a setting each)
    DatabaseUp,    \* check_database_connection() in the lifespan
    MayFail,       \* whether building the store or the engine may raise
    MaxBuilds      \* bound: stores ever built

ASSUME ConstantsAssumption ==
    /\ Boot \notin Requests
    /\ NoOne \notin Requests \cup {Boot}
    /\ Wirings \in Nat
    /\ DatabaseUp \in BOOLEAN /\ MayFail \in BOOLEAN
    /\ MaxBuilds \in Nat

Threads == Requests \cup {Boot}
Stores == 1..MaxBuilds
NoStore == 0

VARIABLES
    cached,        \* the store of the service lru_cache holds, or NoStore
    built,         \* stores built so far
    building,      \* threads inside the cached function after a miss
    mine,          \* the store of the service each thread was given
    engine,        \* the store self._engine searches, or NoStore
    initialized,   \* self._initialized
    lock,          \* the owner of self._init_lock
    at,            \* where each thread stands
    wired,         \* subscriptions the lifespan has tried
    created,       \* engines constructed
    outcome        \* how each request ended

vars == <<cached, built, building, mine, engine, initialized, lock, at, wired,
          created, outcome>>
cacheVars == <<cached, built, building>>
engineVars == <<engine, initialized, created>>

Points == {"wire", "index", "rebuild", "idle", "add", "fast", "waiting", "attach",
           "create", "publish", "finish", "query", "done"}
NeedsService == {"wire", "index", "attach", "add"}

Ready == engine # NoStore /\ initialized
Serving == at[Boot] = "done"

Goto(t, p) == at' = [at EXCEPT ![t] = p]

(* The end of a request, and of the lifespan's own call, which swallows.   *)
End(t, result) ==
    /\ Goto(t, "done")
    /\ outcome' = [outcome EXCEPT ![t] = result]

Release == lock' = NoOne

(***************************************************************************)
(* Mutants.                                                                *)
(***************************************************************************)
(* The second test, under the lock, is forgotten.                          *)
EnterWithoutTest(t) ==
    /\ at[t] = "waiting"
    /\ lock = NoOne
    /\ lock' = t
    /\ Goto(t, "attach")
    /\ UNCHANGED <<cacheVars, mine, engineVars, wired, outcome>>

(* The lock is taken by hand and not released by the failing path.         *)
CreateFailsKeepsLock(t) ==
    /\ at[t] = "create"
    /\ MayFail
    /\ End(t, "error")
    /\ UNCHANGED <<cacheVars, mine, engineVars, lock, wired>>

(* lru_cache is dropped from get_document_service: every call builds.      *)
MissAlways(t) ==
    /\ at[t] \in NeedsService
    /\ t \notin building
    /\ building' = building \cup {t}
    /\ UNCHANGED <<cached, built, mine, engineVars, lock, at, wired, outcome>>

-----------------------------------------------------------------------------
Init ==
    /\ cached = NoStore
    /\ built = 0
    /\ building = {}
    /\ mine = [t \in Threads |-> NoStore]
    /\ engine = NoStore
    /\ initialized = FALSE
    /\ lock = NoOne
    /\ at = [t \in Threads |-> IF t # Boot THEN "idle"
                               ELSE IF Wirings > 0 THEN "wire"
                               ELSE IF DatabaseUp THEN "index" ELSE "done"]
    /\ wired = 0
    /\ created = 0
    /\ outcome = [t \in Threads |-> "none"]

(* Where the lifespan goes after a wiring, whether it failed or not.       *)
AfterWiring ==
    IF wired + 1 < Wirings THEN "wire" ELSE IF DatabaseUp THEN "index" ELSE "done"

(* What a thread does with the service it was given.                       *)
GoOn(t) ==
    CASE at[t] = "wire"   -> Goto(t, AfterWiring) /\ wired' = wired + 1 /\ UNCHANGED outcome
      [] at[t] = "index"  -> Goto(t, "rebuild") /\ UNCHANGED <<wired, outcome>>
      [] at[t] = "attach" -> Goto(t, "create") /\ UNCHANGED <<wired, outcome>>
      [] at[t] = "add"    -> End(t, "added") /\ UNCHANGED wired

(* get_document_service: a hit returns the cached service.                 *)
Hit(t) ==
    /\ at[t] \in NeedsService
    /\ t \notin building
    /\ cached # NoStore
    /\ mine' = [mine EXCEPT ![t] = cached]
    /\ GoOn(t)
    /\ UNCHANGED <<cacheVars, engineVars, lock>>

(* A miss runs the function; lru_cache holds no lock while it does.        *)
Miss(t) ==
    /\ at[t] \in NeedsService
    /\ t \notin building
    /\ cached = NoStore
    /\ building' = building \cup {t}
    /\ UNCHANGED <<cached, built, mine, engineVars, lock, at, wired, outcome>>

(* The function returns. The first result stays in the cache, and every    *)
(* caller gets the one it built itself.                                    *)
Build(t) ==
    /\ t \in building
    /\ built < MaxBuilds
    /\ built' = built + 1
    /\ cached' = IF cached = NoStore THEN built' ELSE cached
    /\ mine' = [mine EXCEPT ![t] = built']
    /\ building' = building \ {t}
    /\ GoOn(t)
    /\ UNCHANGED <<engineVars, lock>>

(* The function raises: BM25Index.load cannot read its file. A wiring and  *)
(* the lifespan swallow it, initialize leaves its with statement.          *)
BuildRaises(t) ==
    /\ t \in building
    /\ MayFail
    /\ building' = building \ {t}
    /\ IF at[t] = "wire"
       THEN Goto(t, AfterWiring) /\ wired' = wired + 1 /\ UNCHANGED outcome
       ELSE End(t, "error") /\ UNCHANGED wired
    /\ IF at[t] = "attach" THEN Release ELSE UNCHANGED lock
    /\ UNCHANGED <<cached, built, mine, engineVars>>

(* bootstrap_search_index fills the store, or raises, which leaves the     *)
(* engine to the first question.                                           *)
Bootstrap(t) ==
    /\ at[t] = "rebuild"
    /\ \/ Goto(t, "fast") /\ UNCHANGED outcome
       \/ MayFail /\ End(t, "error")
    /\ UNCHANGED <<cacheVars, mine, engineVars, lock, wired>>

(* A request arrives: an upload, which adds to the store of its service.   *)
Upload(t) ==
    /\ Serving
    /\ at[t] = "idle"
    /\ Goto(t, "add")
    /\ UNCHANGED <<cacheVars, mine, engineVars, lock, wired, outcome>>

(* A question: _ensure_initialized.                                        *)
Ask(t) ==
    /\ Serving
    /\ at[t] = "idle"
    /\ Goto(t, IF Ready THEN "query" ELSE "fast")
    /\ UNCHANGED <<cacheVars, mine, engineVars, lock, wired, outcome>>

(* initialize: the test without the lock.                                  *)
FastTest(t) ==
    /\ at[t] = "fast"
    /\ Goto(t, IF Ready THEN "query" ELSE "waiting")
    /\ UNCHANGED <<cacheVars, mine, engineVars, lock, wired, outcome>>

(* initialize: the lock, and the test again.                               *)
Enter(t) ==
    /\ at[t] = "waiting"
    /\ lock = NoOne
    /\ IF Ready
       THEN Goto(t, "query") /\ UNCHANGED lock
       ELSE Goto(t, "attach") /\ lock' = t
    /\ UNCHANGED <<cacheVars, mine, engineVars, wired, outcome>>

(* _create_engine: the provider, the engine, engine.initialize().          *)
Create(t) ==
    /\ at[t] = "create"
    /\ created' = created + 1
    /\ Goto(t, "publish")
    /\ UNCHANGED <<cacheVars, mine, engine, initialized, lock, wired, outcome>>

(* Any exception of it becomes RagInitializationError.                     *)
CreateFails(t) ==
    /\ at[t] = "create"
    /\ MayFail
    /\ Release
    /\ End(t, "error")
    /\ UNCHANGED <<cacheVars, mine, engineVars, wired>>

(* self._engine is visible before self._initialized.                       *)
Publish(t) ==
    /\ at[t] = "publish"
    /\ engine' = mine[t]
    /\ Goto(t, "finish")
    /\ UNCHANGED <<cacheVars, mine, initialized, created, lock, wired, outcome>>

Finish(t) ==
    /\ at[t] = "finish"
    /\ initialized' = TRUE
    /\ Release
    /\ Goto(t, "query")
    /\ UNCHANGED <<cacheVars, mine, engine, created, wired, outcome>>

(* engine.query, after the assertion that there is an engine. The lifespan *)
(* only initializes.                                                       *)
Query(t) ==
    /\ at[t] = "query"
    /\ End(t, IF engine = NoStore THEN "error" ELSE "answered")
    /\ UNCHANGED <<cacheVars, mine, engineVars, lock, wired>>

Service(t) == Hit(t) \/ Miss(t) \/ Build(t) \/ BuildRaises(t)
Initialize(t) ==
    FastTest(t) \/ Enter(t) \/ Create(t) \/ CreateFails(t) \/ Publish(t) \/ Finish(t)
Step(t) == Service(t) \/ Bootstrap(t) \/ Initialize(t) \/ Query(t)

Next == \E t \in Threads : Step(t) \/ Upload(t) \/ Ask(t)

Spec == Init /\ [][Next]_vars

(* A thread that has begun is scheduled again and leaves what it builds.   *)
FairSpec == Spec /\ \A t \in Threads : WF_vars(Step(t))

-----------------------------------------------------------------------------
TypeOK ==
    /\ cached \in Stores \cup {NoStore}
    /\ built \in 0..MaxBuilds
    /\ building \subseteq Threads
    /\ mine \in [Threads -> Stores \cup {NoStore}]
    /\ engine \in Stores \cup {NoStore}
    /\ initialized \in BOOLEAN
    /\ lock \in Threads \cup {NoOne}
    /\ at \in [Threads -> Points]
    /\ wired \in 0..Wirings
    /\ created \in Nat
    /\ outcome \in [Threads -> {"none", "added", "answered", "error"}]

(***************************************************************************)
(* The engine, once a question may use it, is never replaced, so requests  *)
(* that race to build it end up sharing one (rag_service.py, initialize:   *)
(* "Idempotent - subsequent calls return without re-initializing").        *)
(***************************************************************************)
OneEngine == [][engine # NoStore => engine' = engine /\ created' = created]_vars

(***************************************************************************)
(* When the lifespan managed to build the document service, every service  *)
(* handed out is that one: what an upload adds is in the store the engine  *)
(* searches, whatever failed before and after.                             *)
(***************************************************************************)
SharedAfterStart ==
    mine[Boot] # NoStore =>
        /\ cached = mine[Boot]
        /\ engine \in {NoStore, cached}
        /\ \A r \in Requests : outcome[r] = "added" => mine[r] = cached

(***************************************************************************)
(* Every request ends, also when the one it waits for fails to build.      *)
(***************************************************************************)
EveryRequestEnds == \A r \in Requests : at[r] # "idle" ~> at[r] = "done"

(***************************************************************************)
(* The docstring of initialize: "Attach to the shared vector store used by *)
(* document ingestion". Not so when the start failed to build the service  *)
(* and two first requests miss the cache together: the engine keeps a      *)
(* store nobody uploads to.                                                *)
(***************************************************************************)
EngineOnSharedStore ==
    (engine # NoStore /\ cached # NoStore) => engine = cached
=============================================================================
