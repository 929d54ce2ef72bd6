----------------------------- MODULE MCServices -----------------------------
(***************************************************************************)
(* RagService, WorkerScheduler and ClientSession for TLC. The three share  *)
(* no state, so each behaviour moves one of them, chosen at the start, and *)
(* the run explores the sum of their state spaces, not the product.        *)
(***************************************************************************)
EXTENDS RagService, FiniteSets, Sequences, TLC

CONSTANTS
    Workers, PoolSize, NoResult, Graphs, metadata, keyword, graph,
    Calls, MaxLogins, MaxTicks

(* A plan names finitely many workers, and there is a page to make a call. *)
ASSUME ServicesAssumption == IsFiniteSet(Workers) /\ Calls # {}

VARIABLES
    part,
    dependsOn, point, remaining, group, started, future, collected, expired, spent,
    results, seen, merged,
    access, refresh, shown, signing, call, refresher, waiting, logins, clock, ended,
    crossed, excused

workerVars == <<dependsOn, point, remaining, group, started, future, collected, expired,
                spent, results, seen, merged>>
sessionVars == <<access, refresh, shown, signing, call, refresher, waiting, logins, clock,
                 ended, crossed, excused>>
allVars == <<part, vars, workerVars, sessionVars>>

(* The graph worker names four index workers. Two may depend on each other *)
(* in a registry with other workers than the default ones.                 *)
MCGraphs ==
    LET free == [w \in Workers |-> {}]
    IN {[free EXCEPT ![graph] = {metadata, keyword, "entity", "relationship"}],
        [free EXCEPT ![graph] = {metadata, keyword}, ![keyword] = {metadata}],
        [free EXCEPT ![graph] = {keyword}, ![keyword] = {metadata}, ![metadata] = {keyword}]}

Sched == INSTANCE WorkerScheduler WITH at <- point
Session == INSTANCE ClientSession

Rag(A) == part = "rag" /\ A /\ UNCHANGED <<part, workerVars, sessionVars>>
Work(A) == part = "workers" /\ A /\ UNCHANGED <<part, vars, sessionVars>>
Browse(A) == part = "session" /\ A /\ UNCHANGED <<part, vars, workerVars>>

ServicesInit ==
    /\ part \in {"rag", "workers", "session"}
    /\ Init /\ Sched!Init /\ Session!Init
ServicesNext == Rag(Next) \/ Work(Sched!Next) \/ Browse(Session!Next)
ServicesSpec == ServicesInit /\ [][ServicesNext]_allVars

(* The fairness of FairSpec of RagService, of HangSpec and FairSpec of     *)
(* WorkerScheduler, and of FairSpec of ClientSession.                      *)
Fairness ==
    /\ \A t \in Threads : WF_allVars(Rag(Step(t)))
    /\ WF_allVars(Work(Sched!Question))
    /\ WF_allVars(Work(Sched!Expire))
    /\ \A w \in Workers : WF_allVars(Work(Sched!Begin(w)))
    /\ WF_allVars(Browse(Session!Refresh))
    /\ \A c \in Calls : WF_allVars(Browse(Session!Settle(c)))
HangingServices == ServicesSpec /\ Fairness
FairServices ==
    HangingServices /\ \A w \in Workers : WF_allVars(Work(Sched!Complete(w)))

(* WorkerScheduler: one result for each worker.                            *)
OneResultEach == Sched!OneResultEach
(* WorkerScheduler: a worker begins after what it depends on.              *)
DependenciesFirst == Sched!DependenciesFirst
(* ClientSession: the tokens and the user shown are of one login.          *)
OneLogin == Session!OneLogin
(* ClientSession: no call fails without a reason.                          *)
RefusedForAReason == Session!RefusedForAReason
(* ClientSession: OneLogin whatever answer comes late.                     *)
AlwaysOneLogin == Session!AlwaysOneLogin

(* WorkerScheduler: the question is answered.                              *)
QuestionAnswered == (part = "workers") => <>(point = "answered")
(* ClientSession: no call waits for ever.                                  *)
CallsEnd == (part = "session") => Session!CallsEnd
(* What a caller waits for ends: a first question or upload, a question    *)
(* behind an orchestration, a call behind a refresh of its token.          *)
CallersAreServed == EveryRequestEnds /\ QuestionAnswered /\ CallsEnd
=============================================================================
