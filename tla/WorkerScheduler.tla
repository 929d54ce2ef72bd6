-------------------------- MODULE WorkerScheduler --------------------------
(***************************************************************************)
(* One question orchestrated over workers: WorkerScheduler.build_schedule  *)
(* and run, KnowledgeOrchestrator.orchestrate, and the wrapper the shadow  *)
(* service puts around RagService.answer_question                          *)
(* (backend/app/knowledge_orchestration). The workers of a group run in a  *)
(* thread pool of their own; the thread of the question collects them      *)
(* until a deadline and leaves the pool, which waits for all of them.      *)
(***************************************************************************)
EXTENDS Naturals, Sequences, FiniteSets

CONSTANTS
    Workers,       \* the eligible workers of the plan
    Graphs,        \* what depends_on() of the workers may be; it may name others
    PoolSize,      \* max_workers of the scheduler
    NoResult       \* the future of a worker that has not finished

VARIABLES
    dependsOn,     \* the dependencies declared by the workers of this plan
    at,            \* where the thread of the question stands
    remaining,     \* workers not scheduled yet
    group,         \* the group that is being executed
    started,       \* workers of the group a pool thread has begun
    future,        \* what the future of each worker holds
    collected,     \* futures of the group already taken
    expired,       \* the deadline of the group has passed
    spent,         \* the budget of the whole run has passed
    results,       \* the list of WorkerEvidence: [worker, outcome]
    seen,          \* history: the successful workers in each worker's context
    merged         \* the workers whose evidence the merger took

vars == <<dependsOn, at, remaining, group, started, future, collected, expired, spent,
          results, seen, merged>>
poolVars == <<started, future>>

Outcomes == {"ok", "failed"}
Points == {"next", "collect", "cut", "leave", "answering", "answered"}

Reported == {results[i].worker : i \in 1..Len(results)}
Succeeded == {results[i].worker : i \in {j \in 1..Len(results) : results[j].outcome = "ok"}}

(* depends_on names workers that need not be eligible for this plan.       *)
Needs(w) == dependsOn[w] \cap Workers

(* A list of results of the workers of S: their order in the list is that  *)
(* of the schedule, and nothing below depends on it.                       *)
ListOf(S, outcome) ==
    CHOOSE list \in [1..Cardinality(S) -> {[worker |-> w, outcome |-> outcome] : w \in S}] :
        \A w \in S : \E i \in 1..Cardinality(S) : list[i].worker = w

(***************************************************************************)
(* Mutants.                                                                *)
(***************************************************************************)
(* any() for all(): one finished dependency is enough.                     *)
ReadyWithAny == {w \in remaining : Needs(w) = {} \/ Needs(w) \cap (Workers \ remaining) # {}}

(* pending.discard is forgotten: a result comes with a timeout beside it.  *)
PendingWithCollected == group

(* A timed-out pool drops the work it has not begun.                       *)
BeginUntilExpired(w) ==
    /\ w \in group \ started
    /\ ~ expired
    /\ Cardinality({v \in started : future[v] = NoResult}) < PoolSize
    /\ started' = started \cup {w}
    /\ UNCHANGED <<dependsOn, at, remaining, group, future, collected, expired, spent, results, seen, merged>>

-----------------------------------------------------------------------------
Init ==
    /\ dependsOn \in Graphs
    /\ at = "next"
    /\ remaining = Workers
    /\ group = {}
    /\ started = {}
    /\ future = [w \in Workers |-> NoResult]
    /\ collected = {}
    /\ expired = FALSE
    /\ spent = FALSE
    /\ results = <<>>
    /\ seen = [w \in Workers |-> {}]
    /\ merged = {}

(* build_schedule: the workers whose dependencies are all in earlier       *)
(* groups, or every remaining worker when a cycle leaves none. The groups  *)
(* depend on nothing else, so each is computed when its turn comes.        *)
ReadyWorkers == {w \in remaining : Needs(w) \subseteq Workers \ remaining}
NextGroup == IF ReadyWorkers = {} THEN remaining ELSE ReadyWorkers

(* context_factory: candidates of the successful results so far.           *)
Context == Succeeded

(* run: the budget test before a group.                                    *)
SkipForBudget ==
    /\ at = "next"
    /\ remaining # {}
    /\ spent
    /\ results' = results \o ListOf(NextGroup, "skipped")
    /\ remaining' = remaining \ NextGroup
    /\ UNCHANGED <<dependsOn, at, group, poolVars, collected, expired, spent, seen, merged>>

(* _execute_one, _execute_parallel: a pool, and a future per worker.       *)
Submit ==
    /\ at = "next"
    /\ remaining # {}
    /\ ~ spent
    /\ group' = NextGroup
    /\ remaining' = remaining \ NextGroup
    /\ started' = {}
    /\ collected' = {}
    /\ expired' = FALSE
    /\ seen' = [w \in Workers |-> IF w \in NextGroup THEN Context ELSE seen[w]]
    /\ at' = "collect"
    /\ UNCHANGED <<dependsOn, future, spent, results, merged>>

(* A thread of the pool takes the next submitted worker.                   *)
Begin(w) ==
    /\ w \in group \ started
    /\ Cardinality({v \in started : future[v] = NoResult}) < PoolSize
    /\ started' = started \cup {w}
    /\ UNCHANGED <<dependsOn, at, remaining, group, future, collected, expired, spent, results, seen, merged>>

(* Worker.execute returns, or what it raised is kept in the future.        *)
Complete(w) ==
    /\ w \in started
    /\ future[w] = NoResult
    /\ \E outcome \in Outcomes : future' = [future EXCEPT ![w] = outcome]
    /\ UNCHANGED <<dependsOn, at, remaining, group, started, collected, expired, spent, results, seen, merged>>

(* The clock passes the deadline of the group, or the budget of the run.   *)
Expire ==
    /\ at = "collect"
    /\ ~ expired
    /\ expired' = TRUE
    /\ UNCHANGED <<dependsOn, at, remaining, group, poolVars, collected, spent, results, seen, merged>>
Exhaust ==
    /\ at \in {"next", "collect", "cut", "leave"}
    /\ ~ spent
    /\ spent' = TRUE
    /\ UNCHANGED <<dependsOn, at, remaining, group, poolVars, collected, expired, results, seen, merged>>

Pending == group \ collected

(* The next finished future. In a group of several, a look at the clock    *)
(* after it ends the collection.                                           *)
Collect(w) ==
    /\ at = "collect"
    /\ w \in Pending
    /\ future[w] # NoResult
    /\ results' = Append(results, [worker |-> w, outcome |-> future[w]])
    /\ collected' = collected \cup {w}
    /\ at' = IF Pending = {w} THEN "leave" ELSE IF expired THEN "cut" ELSE "collect"
    /\ UNCHANGED <<dependsOn, remaining, group, poolVars, expired, spent, seen, merged>>

(* The deadline: every pending worker is reported as timed out, also one   *)
(* that finished meanwhile. A single worker is asked once more.            *)
TimeOut ==
    /\ \/ at = "cut"
       \/ /\ at = "collect"
          /\ expired
          /\ Cardinality(group) = 1 => \A w \in group : future[w] = NoResult
    /\ results' = results \o ListOf(Pending, "timeout")
    /\ at' = "leave"
    /\ UNCHANGED <<dependsOn, remaining, group, poolVars, collected, expired, spent, seen, merged>>

(* The end of the with block: the pool shuts down and waits for all.       *)
Leave ==
    /\ at = "leave"
    /\ \A w \in group : future[w] # NoResult
    /\ at' = "next"
    /\ group' = {}
    /\ started' = {}
    /\ UNCHANGED <<dependsOn, remaining, future, collected, expired, spent, results, seen, merged>>

(* EvidenceMerger.merge skips what was skipped, timed out or failed.       *)
Evidence == Succeeded

Merge ==
    /\ at = "next"
    /\ remaining = {}
    /\ merged' = Evidence
    /\ at' = "answering"
    /\ UNCHANGED <<dependsOn, remaining, group, poolVars, collected, expired, spent, results, seen>>

(* The wrapper goes on to the original answer_question.                    *)
Answer ==
    /\ at = "answering"
    /\ at' = "answered"
    /\ UNCHANGED <<dependsOn, remaining, group, poolVars, collected, expired, spent, results, seen, merged>>

Question == SkipForBudget \/ Submit \/ Leave \/ Merge \/ Answer \/ TimeOut
            \/ \E w \in Workers : Collect(w)
Pool(w) == Begin(w) \/ Complete(w)

Next == Question \/ Expire \/ Exhaust \/ \E w \in Workers : Pool(w)

Spec == Init /\ [][Next]_vars

(* The threads are scheduled and time passes. Nothing makes a worker end.  *)
Scheduled == WF_vars(Question) /\ WF_vars(Expire) /\ \A w \in Workers : WF_vars(Begin(w))
HangSpec == Spec /\ Scheduled

(* Workers that end: look-ups in memory.                                   *)
FairSpec == HangSpec /\ \A w \in Workers : WF_vars(Complete(w))

-----------------------------------------------------------------------------
TypeOK ==
    /\ dependsOn \in Graphs
    /\ at \in Points
    /\ remaining \subseteq Workers
    /\ group \subseteq Workers \ remaining
    /\ started \subseteq group
    /\ collected \subseteq Workers
    /\ future \in [Workers -> Outcomes \cup {NoResult}]
    /\ expired \in BOOLEAN
    /\ spent \in BOOLEAN
    /\ \A i \in 1..Len(results) :
          /\ results[i].worker \in Workers
          /\ results[i].outcome \in Outcomes \cup {"timeout", "skipped"}
    /\ seen \in [Workers -> SUBSET Workers]
    /\ merged \subseteq Workers

(***************************************************************************)
(* The run reports each worker once, whether it was skipped, collected or  *)
(* timed out, and misses none; what is merged are the workers reported as  *)
(* successful, so nothing that a worker finds after its timeout counts.    *)
(***************************************************************************)
OneResultEach ==
    /\ \A i, j \in 1..Len(results) : results[i].worker = results[j].worker => i = j
    /\ at \in {"answering", "answered"} =>
          /\ \A w \in Workers : \E i \in 1..Len(results) :
                /\ results[i].worker = w
                /\ w \in merged <=> results[i].outcome = "ok"

(* Workers that depend, in the end, on themselves or on one that does.     *)
OnCycle(w) ==
    \E S \in SUBSET Workers : w \in S /\ \A v \in S : Needs(v) \cap S # {}

(***************************************************************************)
(* A worker whose dependencies have no cycle begins after all of them were *)
(* reported, and its context holds those that succeeded ("worker ids that  *)
(* should complete before this worker").                                   *)
(***************************************************************************)
DependenciesFirst ==
    \A w \in started :
        ~ OnCycle(w) =>
            /\ Needs(w) \subseteq Reported
            /\ Needs(w) \cap Succeeded \subseteq seen[w]

(***************************************************************************)
(* When every worker ends, so does the orchestration, and the question is  *)
(* answered. Under HangSpec, with a worker that does not end, this fails:  *)
(* the timeout reports the worker and the pool still waits for it          *)
(* ("Never influences production answers").                                *)
(***************************************************************************)
QuestionAnswered == <>(at = "answered")
=============================================================================
