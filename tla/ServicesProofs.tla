--------------------------- MODULE ServicesProofs ---------------------------
(***************************************************************************)
(* RagService, WorkerScheduler and ClientSession, for any number of        *)
(* requests, workers, dependencies, calls and sessions and whatever fails. *)
(***************************************************************************)
EXTENDS MCServices, FiniteSetTheorems, TLAPS

-----------------------------------------------------------------------------
(***************************************************************************)
(* RagService. Requests that race to build the engine share one, and a     *)
(* start that was given the document service shares its store with every   *)
(* later caller.                                                           *)
(***************************************************************************)

(***************************************************************************)
(* The lifespan alone wires, indexes and rebuilds, and no request moves    *)
(* before it is over.                                                      *)
(***************************************************************************)
BootFirst ==
    /\ \A t \in Threads : at[t] \in {"wire", "index", "rebuild"} => t = Boot
    /\ at[Boot] \notin {"idle", "add"}
    /\ at[Boot] = "wire" => wired < Wirings
    /\ ~ Serving => \A r \in Requests :
          at[r] = "idle" /\ mine[r] = NoStore /\ outcome[r] = "none"
    /\ \A t \in building : at[t] \in NeedsService

(* The lock is held throughout the construction, which starts from no      *)
(* engine; an engine that is not marked as initialized is being marked.    *)
OneBuilder ==
    /\ \A t \in Threads : at[t] \in {"attach", "create", "publish", "finish"} => lock = t
    /\ \A t \in Threads : at[t] \in {"attach", "create", "publish"} => engine = NoStore
    /\ engine # NoStore /\ ~ initialized => \E t \in Threads : at[t] = "finish"

(* A thread past the call of the cached function has a service; before the *)
(* lifespan has one, there is no store at all.                             *)
OneStore ==
    /\ \A t \in Threads : at[t] \in {"create", "publish"} => mine[t] # NoStore
    /\ \A t \in Threads : outcome[t] = "added" => mine[t] # NoStore
    /\ ~ Serving /\ mine[Boot] = NoStore => cached = NoStore /\ engine = NoStore
    /\ mine[Boot] # NoStore =>
          /\ building = {}
          /\ cached = mine[Boot]
          /\ engine \in {NoStore, cached}
          /\ \A t \in Threads : mine[t] \in {NoStore, cached}

Inv == TypeOK /\ BootFirst /\ OneBuilder /\ OneStore

-----------------------------------------------------------------------------
LEMMA Initially == Init => Inv
<1> SUFFICES ASSUME Init PROVE Inv
  OBVIOUS
<1> USE ConstantsAssumption DEF Threads, Stores, NoStore, Serving, NeedsService
<1>1. /\ \A r \in Requests : at[r] = "idle"
      /\ at[Boot] = IF Wirings > 0 THEN "wire" ELSE IF DatabaseUp THEN "index" ELSE "done"
      /\ at \in [Threads -> Points]
  BY DEF Init, Points
<1>2. /\ mine \in [Threads -> {NoStore}]
      /\ outcome \in [Threads -> {"none"}]
  BY DEF Init
<1>3. /\ cached = NoStore /\ built = 0 /\ building = {} /\ engine = NoStore
      /\ initialized = FALSE /\ lock = NoOne /\ wired = 0 /\ created = 0
  BY DEF Init
<1>4. TypeOK
  <2>1. mine \in [Threads -> Stores \cup {NoStore}]
    BY <1>2
  <2>2. outcome \in [Threads -> {"none", "added", "answered", "error"}]
    BY <1>2
  <2>3. initialized \in BOOLEAN
    BY <1>3
  <2>4. building \subseteq Threads /\ lock \in Threads \cup {NoOne} /\ created \in Nat
    BY <1>3
  <2>5. cached \in Stores \cup {NoStore} /\ engine \in Stores \cup {NoStore}
    BY <1>3
  <2>6. built \in 0..MaxBuilds /\ wired \in 0..Wirings
    BY <1>3
  <2> QED
    BY <1>1, <2>1, <2>2, <2>3, <2>4, <2>5, <2>6 DEF TypeOK
<1>5. BootFirst /\ OneBuilder /\ OneStore
  BY <1>1, <1>2, <1>3 DEF BootFirst, OneBuilder, OneStore
<1> QED
  BY <1>4, <1>5 DEF Inv

(* Where a thread goes with its service.                                   *)
LEMMA Onward ==
  ASSUME NEW t, at[t] \in NeedsService, GoOn(t)
  PROVE  \/ at[t] = "wire" /\ Goto(t, AfterWiring) /\ wired' = wired + 1 /\ UNCHANGED outcome
         \/ at[t] = "index" /\ Goto(t, "rebuild") /\ UNCHANGED <<wired, outcome>>
         \/ at[t] = "attach" /\ Goto(t, "create") /\ UNCHANGED <<wired, outcome>>
         \/ at[t] = "add" /\ End(t, "added") /\ UNCHANGED wired
<1>1. CASE at[t] = "wire"
  BY <1>1 DEF GoOn
<1>2. CASE at[t] = "index"
  BY <1>2 DEF GoOn
<1>3. CASE at[t] = "attach"
  BY <1>3 DEF GoOn
<1>4. CASE at[t] = "add"
  BY <1>4 DEF GoOn
<1> QED
  BY <1>1, <1>2, <1>3, <1>4 DEF NeedsService

LEMMA HitStep ==
  ASSUME Inv, NEW t \in Threads, Hit(t)
  PROVE  Inv'
<1> USE ConstantsAssumption
    DEF Inv, TypeOK, BootFirst, OneBuilder, OneStore, Threads, Stores, NoStore,
        Points, Serving, NeedsService, cacheVars, engineVars, Goto, End
<1>0. /\ at[t] \in NeedsService /\ t \notin building /\ cached # NoStore
      /\ mine' = [mine EXCEPT ![t] = cached]
      /\ UNCHANGED <<cacheVars, engineVars, lock>>
      /\ GoOn(t)
  BY DEF Hit
<1>1. CASE at[t] = "wire" /\ Goto(t, AfterWiring) /\ wired' = wired + 1 /\ UNCHANGED outcome
  BY <1>0, <1>1 DEF AfterWiring
<1>2. CASE at[t] = "index" /\ Goto(t, "rebuild") /\ UNCHANGED <<wired, outcome>>
  BY <1>0, <1>2
<1>3. CASE at[t] = "attach" /\ Goto(t, "create") /\ UNCHANGED <<wired, outcome>>
  BY <1>0, <1>3
<1>4. CASE at[t] = "add" /\ End(t, "added") /\ UNCHANGED wired
  BY <1>0, <1>4
<1> QED
  BY <1>0, <1>1, <1>2, <1>3, <1>4, Onward

LEMMA BuildStep ==
  ASSUME Inv, NEW t \in Threads, Build(t)
  PROVE  Inv'
<1> USE ConstantsAssumption
    DEF Inv, TypeOK, BootFirst, OneBuilder, OneStore, Threads, Stores, NoStore,
        Points, Serving, NeedsService, cacheVars, engineVars, Goto, End
<1>0. /\ t \in building /\ built < MaxBuilds /\ built' = built + 1
      /\ cached' = IF cached = NoStore THEN built' ELSE cached
      /\ mine' = [mine EXCEPT ![t] = built']
      /\ building' = building \ {t}
      /\ UNCHANGED <<engineVars, lock>>
      /\ GoOn(t) /\ at[t] \in NeedsService
  BY DEF Build
<1>1. CASE at[t] = "wire" /\ Goto(t, AfterWiring) /\ wired' = wired + 1 /\ UNCHANGED outcome
  BY <1>0, <1>1 DEF AfterWiring
<1>2. CASE at[t] = "index" /\ Goto(t, "rebuild") /\ UNCHANGED <<wired, outcome>>
  BY <1>0, <1>2
<1>3. CASE at[t] = "attach" /\ Goto(t, "create") /\ UNCHANGED <<wired, outcome>>
  BY <1>0, <1>3
<1>4. CASE at[t] = "add" /\ End(t, "added") /\ UNCHANGED wired
  BY <1>0, <1>4
<1> QED
  BY <1>0, <1>1, <1>2, <1>3, <1>4, Onward

LEMMA Inductive == Inv /\ [Next]_vars => Inv'
<1> SUFFICES ASSUME Inv, [Next]_vars PROVE Inv'
  OBVIOUS
<1> USE ConstantsAssumption
    DEF Inv, TypeOK, BootFirst, OneBuilder, OneStore, Threads, Stores, NoStore,
        Points, Serving, NeedsService, cacheVars, engineVars, Goto, End
<1>1. ASSUME NEW t \in Threads, Miss(t) PROVE Inv'
  BY <1>1 DEF Miss
<1>2. ASSUME NEW t \in Threads, BuildRaises(t) PROVE Inv'
  BY <1>2 DEF BuildRaises, AfterWiring, Release
<1>3. ASSUME NEW t \in Threads, Bootstrap(t) PROVE Inv'
  BY <1>3 DEF Bootstrap
<1>4. ASSUME NEW t \in Threads, Upload(t) PROVE Inv'
  BY <1>4 DEF Upload
<1>5. ASSUME NEW t \in Threads, Ask(t) PROVE Inv'
  BY <1>5 DEF Ask, Ready
<1>6. ASSUME NEW t \in Threads, FastTest(t) PROVE Inv'
  BY <1>6 DEF FastTest, Ready
<1>7. ASSUME NEW t \in Threads, Enter(t) PROVE Inv'
  BY <1>7 DEF Enter, Ready
<1>8. ASSUME NEW t \in Threads, Create(t) PROVE Inv'
  BY <1>8 DEF Create
<1>9. ASSUME NEW t \in Threads, CreateFails(t) PROVE Inv'
  BY <1>9 DEF CreateFails, Release
<1>10. ASSUME NEW t \in Threads, Publish(t) PROVE Inv'
  BY <1>10 DEF Publish
<1>11. ASSUME NEW t \in Threads, Finish(t) PROVE Inv'
  BY <1>11 DEF Finish, Release
<1>12. ASSUME NEW t \in Threads, Query(t) PROVE Inv'
  BY <1>12 DEF Query
<1>20. CASE UNCHANGED vars
  BY <1>20 DEF vars
<1> QED
  BY <1>1, <1>2, <1>3, <1>4, <1>5, <1>6, <1>7, <1>8, <1>9, <1>10, <1>11, <1>12, <1>20, HitStep, BuildStep
  DEF Next, Step, Service, Initialize

(***************************************************************************)
(* Type correctness and the invariant above, in every reachable state.     *)
(***************************************************************************)
THEOREM Invariance == Spec => []Inv
  BY Initially, Inductive, PTL DEF Spec

(***************************************************************************)
(* One engine: the lock and its inner test keep a second thread from       *)
(* constructing another one (RagService.initialize).                       *)
(***************************************************************************)
LEMMA EngineStays ==
  ASSUME Inv, [Next]_vars
  PROVE  engine # NoStore => engine' = engine /\ created' = created
<1> USE DEF Inv, OneBuilder, cacheVars, engineVars
<1>1. ASSUME NEW t \in Threads, Step(t), engine # NoStore
      PROVE  engine' = engine /\ created' = created
  BY <1>1 DEF Step, Service, Initialize, Hit, Miss, Build, BuildRaises, Bootstrap,
      FastTest, Enter, Create, CreateFails, Publish, Finish, Query
<1> QED
  BY <1>1 DEF Next, Upload, Ask, vars

THEOREM OneEngineBuilt == Spec => OneEngine
<1>1. Inv /\ [Next]_vars => [engine # NoStore => engine' = engine /\ created' = created]_vars
  BY EngineStays
<1> QED
  BY <1>1, Invariance, PTL DEF Spec, OneEngine

(***************************************************************************)
(* One store: when the lifespan was given a document service, all that is  *)
(* uploaded goes to the store the engine searches (get_document_service).  *)
(***************************************************************************)
THEOREM StoreIsShared == Spec => []SharedAfterStart
<1>1. Inv => SharedAfterStart
  BY DEF Inv, OneStore, SharedAfterStart, Threads
<1> QED
  BY <1>1, Invariance, PTL

-----------------------------------------------------------------------------
(***************************************************************************)
(* WorkerScheduler. Every worker is in one of three places: still to be    *)
(* scheduled, in the group that runs and not reported, or in the results,  *)
(* once.                                                                   *)
(***************************************************************************)
Entries == [worker : Workers, outcome : {"ok", "failed", "timeout", "skipped"}]
Reporting(list) == {list[i].worker : i \in 1..Len(list)}
Successes(list) == {list[i].worker : i \in {j \in 1..Len(list) : list[j].outcome = "ok"}}
Distinct(list) == \A i, j \in 1..Len(list) : list[i].worker = list[j].worker => i = j

SchedTypes ==
    /\ remaining \subseteq Workers
    /\ group \subseteq Workers \ remaining
    /\ collected \subseteq Workers
    /\ started \subseteq group
    /\ future \in [Workers -> {"ok", "failed", NoResult}]
    /\ results \in Seq(Entries)
    /\ seen \in [Workers -> SUBSET Workers]
    /\ point \in {"next", "collect", "cut", "leave", "answering", "answered"}

(* Who has been reported, at each point of the run.                        *)
Accounted ==
    /\ Distinct(results)
    /\ point \in {"collect", "cut"} =>
          collected \subseteq group
            /\ Reporting(results) = (Workers \ (remaining \cup group)) \cup collected
    /\ point \notin {"collect", "cut"} => Reporting(results) = Workers \ remaining
    /\ point \notin {"collect", "cut", "leave"} => group = {}
    /\ point \in {"answering", "answered"} =>
          remaining = {} /\ merged = Successes(results)

(* A running worker off every cycle depends on workers reported before its *)
(* group, and saw all that these have found.                               *)
Supplied ==
    \A w \in group : ~ Sched!OnCycle(w) =>
        /\ Sched!Needs(w) \subseteq Workers \ (remaining \cup group)
        /\ Sched!Needs(w) \cap Successes(results) \subseteq seen[w]

SchedInv == SchedTypes /\ Accounted /\ Supplied

-----------------------------------------------------------------------------
LEMMA SuccessesWork == \A list \in Seq(Entries) : Successes(list) \subseteq Workers
<1>1. \A e \in Entries : e.worker \in Workers
  BY DEF Entries
<1> QED
  BY <1>1 DEF Successes

(* What the list of results becomes when one worker is reported ...        *)
LEMMA OneMore ==
    ASSUME NEW list \in Seq(Entries), Distinct(list),
           NEW e \in Entries, e.worker \notin Reporting(list)
    PROVE  /\ Append(list, e) \in Seq(Entries) /\ Distinct(Append(list, e))
           /\ Reporting(Append(list, e)) = Reporting(list) \cup {e.worker}
           /\ Successes(Append(list, e)) \subseteq Successes(list) \cup {e.worker}
<1> DEFINE new == Append(list, e)
<1>1. /\ new \in Seq(Entries) /\ Len(new) = Len(list) + 1 /\ Len(list) \in Nat
      /\ \A i \in 1..Len(list) : new[i] = list[i]
      /\ new[Len(list) + 1] = e
  OBVIOUS
<1> HIDE DEF new
<1>2. Distinct(new)
  BY <1>1 DEF Distinct, Reporting
<1>3. Reporting(new) = Reporting(list) \cup {e.worker}
  BY <1>1 DEF Reporting
<1>4. Successes(new) \subseteq Successes(list) \cup {e.worker}
  BY <1>1 DEF Successes
<1> QED
  BY <1>1, <1>2, <1>3, <1>4 DEF new

LEMMA SchedCardinality == \A S : Sched!Cardinality(S) = Cardinality(S)
BY DEF Cardinality, Sched!Cardinality

(* ... and when a set of them is, with the same outcome.                   *)
LEMMA ListOfSet ==
    ASSUME NEW S \in SUBSET Workers, NEW kind \in {"timeout", "skipped"}
    PROVE  LET list == Sched!ListOf(S, kind)
           IN  /\ list \in Seq(Entries)
               /\ \A i \in 1..Len(list) : list[i].worker \in S /\ list[i].outcome = kind
               /\ Distinct(list) /\ Reporting(list) = S
<1> DEFINE n == Cardinality(S)
           R == {[worker |-> w, outcome |-> kind] : w \in S}
           Good(list) == \A w \in S : \E i \in 1..n : list[i].worker = w
           chosen == Sched!ListOf(S, kind)
<1>1. IsFiniteSet(S) /\ n \in Nat
  BY FS_Subset, FS_CardinalityType, ServicesAssumption
<1>2. PICK f \in Bijection(1..n, S) : TRUE
  BY <1>1, FS_CardinalityType DEF ExistsBijection
<1>3. f \in [1..n -> S] /\ \A w \in S : \E i \in 1..n : f[i] = w
  BY <1>2 DEF Bijection, Surjection, Injection
<1>4. \E l \in [1..n -> R] : Good(l)
  <2> DEFINE l == [i \in 1..n |-> [worker |-> f[i], outcome |-> kind]]
  <2>1. l \in [1..n -> R] /\ Good(l)
    BY <1>3
  <2> QED
    BY <2>1
<1>5. chosen \in [1..n -> R] /\ Good(chosen)
  <2>1. chosen = CHOOSE list \in [1..n -> R] : Good(list)
    BY SchedCardinality DEF Sched!ListOf
  <2> HIDE DEF n, R, Good, chosen
  <2> QED
    BY <1>4, <2>1
<1> HIDE DEF chosen
<1>6. /\ Len(chosen) = n /\ chosen \in Seq(Entries)
      /\ \A i \in 1..n : chosen[i].worker \in S /\ chosen[i].outcome = kind
  <2>1. R \subseteq Entries
    BY DEF Entries
  <2>2. chosen \in Seq(Entries) /\ Len(chosen) = n
    BY <1>1, <1>5, <2>1
  <2>3. \A r \in R : r.worker \in S /\ r.outcome = kind
    OBVIOUS
  <2> QED
    BY <1>5, <2>2, <2>3
<1>7. Reporting(chosen) = S
  BY <1>5, <1>6 DEF Reporting
<1>8. Distinct(chosen)
  <2> DEFINE g == [i \in 1..n |-> chosen[i].worker]
  <2>1. g \in [1..n -> S] /\ \A w \in S : \E i \in 1..n : g[i] = w
    BY <1>5
  <2>2. g \in Surjection(1..n, S)
    BY <2>1 DEF Surjection
  <2>3. IsFiniteSet(1..n) /\ Cardinality(1..n) = n
    BY <1>1, FS_Interval
  <2>4. g \in Injection(1..n, S)
    BY <1>1, <2>2, <2>3, FS_SurjSameCardinalityImpliesInj
  <2>5. \A i, j \in 1..n : g[i] = g[j] => i = j
      BY <2>4 DEF Injection, IsInjective
  <2>6. \A i \in 1..n : g[i] = chosen[i].worker
    OBVIOUS
  <2> QED
    BY <2>5, <2>6, <1>6 DEF Distinct
<1> QED
  BY <1>6, <1>7, <1>8 DEF chosen

LEMMA ManyMore ==
    ASSUME NEW list \in Seq(Entries), Distinct(list), NEW S \in SUBSET Workers,
           S \cap Reporting(list) = {}, NEW kind \in {"timeout", "skipped"}
    PROVE  LET new == list \o Sched!ListOf(S, kind)
           IN  /\ new \in Seq(Entries) /\ Distinct(new)
               /\ Reporting(new) = Reporting(list) \cup S
               /\ Successes(new) = Successes(list)
<1> DEFINE more == Sched!ListOf(S, kind)
           new == list \o more
<1>1. /\ more \in Seq(Entries) /\ Distinct(more) /\ Reporting(more) = S
      /\ \A i \in 1..Len(more) : more[i].worker \in S /\ more[i].outcome = kind
  BY ListOfSet
<1> HIDE DEF more
<1>2. more \in Seq(Entries)
  BY <1>1
<1>3. /\ new \in Seq(Entries) /\ Len(new) = Len(list) + Len(more)
      /\ Len(list) \in Nat /\ Len(more) \in Nat
      /\ \A i \in 1..Len(list) : new[i] = list[i]
      /\ \A i \in 1..Len(more) : new[Len(list) + i] = more[i]
      /\ \A i \in (Len(list) + 1)..Len(new) : new[i] = more[i - Len(list)]
  BY <1>2
<1>4. \A i \in 1..Len(more) : more[i].outcome # "ok" /\ more[i].worker \in S
  BY <1>1
<1> HIDE DEF new
<1>5. \A i \in 1..Len(new) :
         /\ i <= Len(list) => i \in 1..Len(list) /\ new[i] = list[i]
         /\ i > Len(list) => i - Len(list) \in 1..Len(more) /\ new[i] = more[i - Len(list)]
  BY <1>3
<1>6. Reporting(new) = Reporting(list) \cup S
  <2>1. Reporting(new) \subseteq Reporting(list) \cup S
    BY <1>4, <1>5 DEF Reporting
  <2>2. Reporting(list) \subseteq Reporting(new)
    BY <1>3 DEF Reporting
  <2>3. S \subseteq Reporting(new)
    <3>1. ASSUME NEW w \in S PROVE w \in Reporting(new)
      <4>1. PICK i \in 1..Len(more) : more[i].worker = w
        BY <1>1 DEF Reporting
      <4>2. Len(list) + i \in 1..Len(new) /\ new[Len(list) + i].worker = w
        BY <1>3, <4>1
      <4> QED
        BY <4>2 DEF Reporting
    <3> QED
      BY <3>1
  <2> QED
    BY <2>1, <2>2, <2>3
<1>7. Successes(new) = Successes(list)
  <2>1. ASSUME NEW i \in 1..Len(new), new[i].outcome = "ok"
        PROVE  i \in 1..Len(list) /\ new[i] = list[i]
    <3>1. ~ (i > Len(list))
      BY <1>4, <1>5, <2>1
    <3> QED
      BY <1>3, <1>5, <3>1
  <2>2. Successes(new) \subseteq Successes(list)
    BY <2>1 DEF Successes
  <2>3. Successes(list) \subseteq Successes(new)
    BY <1>3 DEF Successes
  <2> QED
    BY <2>2, <2>3
<1>8. Distinct(new)
  <2>1. \A i \in 1..Len(list) : new[i].worker \notin S
    BY <1>3 DEF Reporting
  <2> SUFFICES ASSUME NEW i \in 1..Len(new), NEW j \in 1..Len(new), new[i].worker = new[j].worker
               PROVE  i = j
    BY DEF Distinct
  <2>2. CASE i <= Len(list) /\ j <= Len(list)
    BY <1>3, <2>2 DEF Distinct
  <2>3. CASE i > Len(list) /\ j > Len(list)
    <3>1. i - Len(list) \in 1..Len(more) /\ j - Len(list) \in 1..Len(more)
      BY <1>5, <2>3
    <3>2. more[i - Len(list)].worker = more[j - Len(list)].worker
      BY <1>5, <2>3
    <3>3. i - Len(list) = j - Len(list)
      BY <1>1, <3>1, <3>2 DEF Distinct
    <3> QED
      BY <1>3, <3>3
  <2>4. CASE i <= Len(list) /\ j > Len(list)
    BY <1>4, <1>5, <2>1, <2>4
  <2>5. CASE i > Len(list) /\ j <= Len(list)
    BY <1>4, <1>5, <2>1, <2>5
  <2> QED
    BY <1>3, <2>2, <2>3, <2>4, <2>5
<1> QED
  BY <1>3, <1>6, <1>7, <1>8 DEF new, more

-----------------------------------------------------------------------------
LEMMA SchedInitially == Sched!Init => SchedInv
<1> SUFFICES ASSUME Sched!Init PROVE SchedInv
  OBVIOUS
<1> USE DEF Sched!Init
<1>1. SchedTypes
  BY DEF SchedTypes
<1>2. Reporting(results) = {}
  BY DEF Reporting
<1>3. Accounted
  BY <1>2 DEF Accounted, Distinct
<1>4. Supplied
  BY DEF Supplied
<1> QED
  BY <1>1, <1>3, <1>4 DEF SchedInv

(* A step that changes neither the schedule nor what was seen, and reports *)
(* nobody or workers of the group, supplies the group as before.           *)
LEMMA SuppliedStays ==
    ASSUME SchedInv, dependsOn' = dependsOn, remaining' = remaining, group' = group,
           seen' = seen, Successes(results)' \subseteq Successes(results) \cup group
    PROVE  Supplied'
<1>1. ASSUME NEW w \in Workers PROVE Sched!OnCycle(w)' <=> Sched!OnCycle(w)
  BY DEF Sched!Needs, Sched!OnCycle
<1> SUFFICES ASSUME NEW w \in group', ~ Sched!OnCycle(w)'
             PROVE  /\ Sched!Needs(w)' \subseteq (Workers \ (remaining \cup group))'
                    /\ Sched!Needs(w)' \cap Successes(results)' \subseteq seen'[w]
  BY DEF Supplied
<1>2. w \in Workers /\ w \in group
  BY DEF SchedInv, SchedTypes
<1>3. Sched!Needs(w)' = Sched!Needs(w)
  BY DEF Sched!Needs
<1>4. ~ Sched!OnCycle(w)
  BY <1>1, <1>2
<1> QED
  BY <1>2, <1>3, <1>4 DEF SchedInv, Supplied

(* The next group: the workers that wait for nobody, or all that are left  *)
(* when each waits for another of them and so is on a cycle.               *)
LEMMA NextGroupReady ==
    ASSUME SchedInv, remaining # {}
    PROVE  /\ Sched!NextGroup \subseteq remaining
           /\ \A w \in Sched!NextGroup :
                 ~ Sched!OnCycle(w) => Sched!Needs(w) \subseteq Workers \ remaining
<1>1. remaining \subseteq Workers
  BY DEF SchedInv, SchedTypes
<1>2. CASE Sched!ReadyWorkers # {}
  BY <1>2 DEF Sched!NextGroup, Sched!ReadyWorkers
<1>3. CASE Sched!ReadyWorkers = {}
  <2>1. \A v \in remaining : Sched!Needs(v) \cap remaining # {}
    BY <1>3 DEF Sched!ReadyWorkers, Sched!Needs
  <2>2. \A w \in remaining : Sched!OnCycle(w)
    BY <1>1, <2>1 DEF Sched!OnCycle
  <2> QED
    BY <1>3, <2>2 DEF Sched!NextGroup
<1> QED
  BY <1>2, <1>3

LEMMA SubmitKeeps == ASSUME SchedInv, Sched!Submit PROVE SchedInv'
<1> USE DEF Sched!Submit, Sched!poolVars
<1>1. /\ Sched!NextGroup \subseteq remaining
      /\ \A w \in Sched!NextGroup :
            ~ Sched!OnCycle(w) => Sched!Needs(w) \subseteq Workers \ remaining
  BY NextGroupReady
<1>2. Sched!Succeeded = Successes(results) /\ Successes(results) \subseteq Workers
  <2>1. Sched!Succeeded = Successes(results)
    BY DEF Sched!Succeeded, Successes
  <2> QED
    BY <2>1, SuccessesWork DEF SchedInv, SchedTypes
<1>3. SchedTypes'
  BY <1>1, <1>2 DEF SchedInv, SchedTypes, Sched!Context
<1>4. Accounted'
  BY <1>1 DEF SchedInv, SchedTypes, Accounted
<1>5. Supplied'
  <2>1. ASSUME NEW w \in Workers PROVE Sched!OnCycle(w)' <=> Sched!OnCycle(w)
    BY DEF Sched!Needs, Sched!OnCycle
  <2>2. \A w \in group' : seen'[w] = Successes(results)
    BY <1>1, <1>2 DEF SchedInv, SchedTypes, Sched!Context
  <2>3. remaining' \cup group' = remaining /\ group' \subseteq Workers /\ results' = results
    BY <1>1 DEF SchedInv, SchedTypes
  <2>4. Successes(results)' = Successes(results)
    BY <2>3 DEF Successes
  <2> SUFFICES ASSUME NEW w \in group', ~ Sched!OnCycle(w)'
               PROVE  /\ Sched!Needs(w)' \subseteq (Workers \ (remaining \cup group))'
                      /\ Sched!Needs(w)' \cap Successes(results)' \subseteq seen'[w]
    BY DEF Supplied
  <2>5. w \in Workers /\ w \in Sched!NextGroup
    BY <1>1 DEF SchedInv, SchedTypes
  <2>6. Sched!Needs(w)' = Sched!Needs(w)
    BY DEF Sched!Needs
  <2>7. ~ Sched!OnCycle(w)
    BY <2>1, <2>5
  <2> QED
    BY <1>1, <2>2, <2>3, <2>4, <2>5, <2>6, <2>7
<1> QED
  BY <1>3, <1>4, <1>5 DEF SchedInv

LEMMA SkipKeeps == ASSUME SchedInv, Sched!SkipForBudget PROVE SchedInv'
<1> USE DEF Sched!SkipForBudget, Sched!poolVars, SchedInv
<1>1. Sched!NextGroup \in SUBSET Workers /\ Sched!NextGroup \subseteq remaining
  BY NextGroupReady DEF SchedTypes
<1>2. /\ results \in Seq(Entries) /\ Distinct(results)
      /\ Reporting(results) = Workers \ remaining /\ group = {}
  BY DEF SchedTypes, Accounted
<1>3. /\ results' \in Seq(Entries) /\ Distinct(results)'
      /\ Reporting(results)' = Reporting(results) \cup Sched!NextGroup
  BY <1>1, <1>2, ManyMore
<1>4. SchedTypes'
  BY <1>1, <1>3 DEF SchedTypes
<1>5. Accounted'
  BY <1>1, <1>2, <1>3 DEF Accounted, SchedTypes
<1>6. Supplied'
  BY <1>2 DEF Supplied
<1> QED
  BY <1>4, <1>5, <1>6

LEMMA CollectKeeps == ASSUME SchedInv, NEW w \in Workers, Sched!Collect(w) PROVE SchedInv'
<1> USE DEF Sched!Collect, Sched!Pending, Sched!poolVars, SchedInv
<1> DEFINE e == [worker |-> w, outcome |-> future[w]]
<1>1. results \in Seq(Entries) /\ Distinct(results) /\ e \in Entries
  BY DEF SchedTypes, Accounted, Entries
<1>2. w \in group /\ w \notin Reporting(results)
  BY DEF SchedTypes, Accounted
<1>3. /\ results' \in Seq(Entries) /\ Distinct(results)'
      /\ Reporting(results)' = Reporting(results) \cup {w}
      /\ Successes(results)' \subseteq Successes(results) \cup {w}
  BY <1>1, <1>2, OneMore
<1>4. SchedTypes'
  BY <1>3 DEF SchedTypes
<1>5. Accounted'
  BY <1>2, <1>3 DEF Accounted, SchedTypes
<1>6. Supplied'
  BY <1>2, <1>3, SuppliedStays
<1> QED
  BY <1>4, <1>5, <1>6

LEMMA TimeOutKeeps == ASSUME SchedInv, Sched!TimeOut PROVE SchedInv'
<1> USE DEF Sched!TimeOut, Sched!Pending, Sched!poolVars, SchedInv
<1>1. /\ results \in Seq(Entries) /\ Distinct(results)
      /\ group \ collected \in SUBSET Workers
      /\ (group \ collected) \cap Reporting(results) = {}
  BY DEF SchedTypes, Accounted
<1>2. /\ results' \in Seq(Entries) /\ Distinct(results)'
      /\ Reporting(results)' = Reporting(results) \cup (group \ collected)
      /\ Successes(results)' = Successes(results)
  BY <1>1, ManyMore
<1>3. SchedTypes'
  BY <1>2 DEF SchedTypes
<1>4. Accounted'
  BY <1>2 DEF Accounted, SchedTypes
<1>5. Supplied'
  BY <1>2, SuppliedStays
<1> QED
  BY <1>3, <1>4, <1>5

LEMMA SchedStep == ASSUME SchedInv, Sched!Next PROVE SchedInv'
<1> USE DEF SchedInv, Sched!poolVars
<1>1. ASSUME NEW w \in Workers, Sched!Begin(w) \/ Sched!Complete(w) PROVE SchedInv'
  <2>1. SchedTypes'
    BY <1>1 DEF SchedTypes, Sched!Begin, Sched!Complete, Sched!Outcomes
  <2>2. Accounted'
    BY <1>1 DEF Accounted, Sched!Begin, Sched!Complete
  <2>3. Supplied'
    BY <1>1, SuppliedStays DEF Sched!Begin, Sched!Complete
  <2> QED
    BY <2>1, <2>2, <2>3
<1>2. ASSUME Sched!Expire \/ Sched!Exhaust PROVE SchedInv'
  <2>1. SchedTypes' /\ Accounted'
    BY <1>2 DEF SchedTypes, Accounted, Sched!Expire, Sched!Exhaust
  <2>2. Supplied'
    BY <1>2, SuppliedStays DEF Sched!Expire, Sched!Exhaust
  <2> QED
    BY <2>1, <2>2
<1>3. ASSUME Sched!Leave PROVE SchedInv'
  BY <1>3 DEF SchedTypes, Accounted, Supplied, Sched!Leave
<1>4. ASSUME Sched!Merge \/ Sched!Answer PROVE SchedInv'
  <2>1. Sched!Succeeded = Successes(results)
    BY DEF Sched!Succeeded, Successes
  <2> QED
    BY <1>4, <2>1 DEF SchedTypes, Accounted, Supplied, Sched!Merge, Sched!Answer, Sched!Evidence
<1> QED
  BY <1>1, <1>2, <1>3, <1>4, SubmitKeeps, SkipKeeps, CollectKeeps, TimeOutKeeps
     DEF Sched!Next, Sched!Question, Sched!Pool

LEMMA SchedStutters == ASSUME SchedInv, UNCHANGED workerVars PROVE SchedInv'
<1> USE DEF workerVars, SchedInv
<1>1. SchedTypes' /\ Accounted'
  BY DEF SchedTypes, Accounted
<1>2. Supplied'
  BY SuppliedStays
<1> QED
  BY <1>1, <1>2

LEMMA Scheduling == ServicesSpec => []SchedInv
<1>1. ServicesInit => SchedInv
  BY SchedInitially DEF ServicesInit
<1>2. SchedInv /\ [ServicesNext]_allVars => SchedInv'
  BY SchedStep, SchedStutters DEF ServicesNext, Rag, Work, Browse, allVars
<1> QED
  BY <1>1, <1>2, PTL DEF ServicesSpec

(***************************************************************************)
(* One result for each worker of the plan, collected, skipped or timed     *)
(* out, and the merger takes those that succeeded (WorkerScheduler.run,    *)
(* EvidenceMerger.merge).                                                  *)
(***************************************************************************)
THEOREM EachReportedOnce == ServicesSpec => []OneResultEach
<1>1. SchedInv => OneResultEach
  BY DEF SchedInv, Accounted, Distinct, Reporting, Successes, OneResultEach, Sched!OneResultEach
<1> QED
  BY <1>1, Scheduling, PTL

(***************************************************************************)
(* A worker off every cycle begins after what it depends on was reported,  *)
(* and sees what those have found (build_schedule, context_factory).       *)
(***************************************************************************)
THEOREM DependenciesComeFirst == ServicesSpec => []DependenciesFirst
<1>1. SchedInv => DependenciesFirst
  <2> SUFFICES ASSUME SchedInv, NEW w \in started, ~ Sched!OnCycle(w)
               PROVE  /\ Sched!Needs(w) \subseteq Sched!Reported
                      /\ Sched!Needs(w) \cap Sched!Succeeded \subseteq seen[w]
    BY DEF DependenciesFirst, Sched!DependenciesFirst
  <2>1. Sched!Reported = Reporting(results) /\ Sched!Succeeded = Successes(results)
    BY DEF Sched!Reported, Sched!Succeeded, Reporting, Successes
  <2>2. Workers \ (remaining \cup group) \subseteq Reporting(results)
    BY DEF SchedInv, SchedTypes, Accounted
  <2> QED
    BY <2>1, <2>2 DEF SchedInv, SchedTypes, Supplied
<1> QED
  BY <1>1, Scheduling, PTL

-----------------------------------------------------------------------------
(***************************************************************************)
(* ClientSession. Every answer that may still change the session is one of *)
(* the session that is stored, as long as none was cleared under it.       *)
(***************************************************************************)
CallTypes == [at : {"idle", "failed", "sent", "waiting", "refreshing"},
              purpose : {"page", "me", "logout"},
              token : [of : Nat, at : Nat], retried : BOOLEAN]

SessionTypes ==
    /\ access \in [of : Nat, at : Nat]
    /\ refresh \in Nat /\ shown \in Nat /\ logins \in Nat /\ clock \in Nat
    /\ call \in [Calls -> CallTypes]
    /\ refresher.of \in Nat /\ waiting \subseteq Calls /\ crossed \in BOOLEAN

(* Only a call under way has a purpose of its own; those that wait for the *)
(* token, and the one that fetches it, are held until it comes.            *)
CallsHeld ==
    /\ \A c \in Calls : call[c].purpose # "page" => c \in Session!Pending
    /\ \A c \in waiting : call[c].at = "waiting"
    /\ Session!Refreshing =>
          refresher.call \in Calls /\ call[refresher.call].at = "refreshing"

(* A login is submitted while nobody is shown or asked about.              *)
LoginAlone == signing => shown = 0 /\ \A c \in Calls : call[c].purpose # "me"

(* One session: that of the tokens, of the refresh under way, of the user  *)
(* shown and of the user being asked for. A session nobody shows yet is    *)
(* being asked about.                                                      *)
OneSession ==
    /\ access.of = refresh
    /\ access.of = 0 => access = Session!NoToken
    /\ shown \in {0, refresh}
    /\ Session!Refreshing => refresh # 0 /\ refresher.of = refresh
    /\ \A c \in Calls : call[c].purpose = "me" => call[c].token.of = refresh
    /\ refresh # 0 /\ shown = 0 => \E c \in Calls : call[c].purpose = "me"

(* Who has failed has a reason, and so has who is about to: a call whose   *)
(* session is gone, or whose second token expired.                         *)
Excuses ==
    /\ \A c \in Calls : call[c].at = "failed" => c \in excused
    /\ refresh = 0 => Session!Pending \subseteq excused
    /\ \A c \in Calls : call[c].retried /\ call[c].at = "sent" =>
          c \in excused \/ (call[c].token.of # 0 /\ call[c].token.at = clock)

SessionInv ==
    SessionTypes /\ CallsHeld /\ LoginAlone /\ (~ crossed => OneSession /\ Excuses)

-----------------------------------------------------------------------------
LEMMA CallValues ==
    /\ Session!Idle \in CallTypes /\ Session!Failed \in CallTypes
    /\ \A what \in {"page", "me", "logout"}, t \in [of : Nat, at : Nat] :
          Session!Sent(what, t) \in CallTypes
    /\ \A k \in CallTypes : /\ [k EXCEPT !.at = "waiting"] \in CallTypes
                            /\ [k EXCEPT !.at = "refreshing", !.retried = TRUE] \in CallTypes
    /\ \A k \in CallTypes, t \in [of : Nat, at : Nat] :
          [k EXCEPT !.at = "sent", !.token = t] \in CallTypes
BY DEF CallTypes, Session!Idle, Session!Failed, Session!Sent, Session!NoToken

LEMMA SessionInitially == Session!Init => SessionInv
<1> SUFFICES ASSUME Session!Init PROVE SessionInv
  OBVIOUS
<1> USE DEF Session!Init, Session!NoToken, Session!Nobody, Session!Idle, Session!Sent,
            Session!Pending, Session!Under, Session!Refreshing
<1> DEFINE first == CHOOSE d \in Calls : TRUE
<1>1. first \in Calls
  BY ServicesAssumption
<1>2. \A c \in Calls : call[c] = IF logins # 0 /\ c = first THEN Session!Sent("me", access)
                                                       ELSE Session!Idle
  BY DEF Session!Loaded
<1>3. SessionTypes
  <2>1. call \in [Calls -> CallTypes]
    BY DEF Session!Loaded, CallTypes
  <2>2. access \in [of : Nat, at : Nat] /\ logins \in Nat
    OBVIOUS
  <2> QED
    BY <2>1, <2>2 DEF SessionTypes
<1>4. CallsHeld /\ LoginAlone
  BY <1>2 DEF CallsHeld, LoginAlone
<1>5. OneSession /\ Excuses
  BY <1>1, <1>2 DEF OneSession, Excuses
<1> QED
  BY <1>3, <1>4, <1>5 DEF SessionInv

LEMMA StartKeeps == ASSUME SessionInv, NEW c \in Calls, Session!Start(c) PROVE SessionInv'
<1> USE DEF Session!NoToken, Session!Nobody, Session!Idle, Session!Failed, Session!Sent,
            Session!Pending, Session!Under, Session!Refreshing, Session!storage, Session!world, Session!Start
<1>1. SessionTypes'
  BY DEF SessionInv, SessionTypes, CallTypes
<1>2. CallsHeld' /\ LoginAlone'
  BY DEF SessionInv, SessionTypes, CallTypes, CallsHeld, LoginAlone
<1>3. ~ crossed' => OneSession'
  BY DEF SessionInv, SessionTypes, CallTypes, CallsHeld, LoginAlone, OneSession
<1>4. ~ crossed' => Excuses'
  BY DEF SessionInv, SessionTypes, CallTypes, CallsHeld, OneSession, Excuses
<1> QED
  BY <1>1, <1>2, <1>3, <1>4 DEF SessionInv

LEMMA LoginKeeps == ASSUME SessionInv, Session!SubmitLogin \/ Session!LoginRefused PROVE SessionInv'
<1> USE DEF Session!NoToken, Session!Nobody, Session!Idle, Session!Failed, Session!Sent,
            Session!Pending, Session!Under, Session!Refreshing, Session!storage, Session!world, Session!SubmitLogin, Session!LoginRefused
<1>1. SessionTypes'
  BY DEF SessionInv, SessionTypes, CallTypes
<1>2. CallsHeld' /\ LoginAlone'
  BY DEF SessionInv, SessionTypes, CallTypes, CallsHeld, LoginAlone
<1>3. ~ crossed' => OneSession'
  BY DEF SessionInv, SessionTypes, CallTypes, CallsHeld, LoginAlone, OneSession
<1>4. ~ crossed' => Excuses'
  BY DEF SessionInv, SessionTypes, CallTypes, CallsHeld, OneSession, Excuses
<1> QED
  BY <1>1, <1>2, <1>3, <1>4 DEF SessionInv

LEMMA LoginAnswersKeeps == ASSUME SessionInv, NEW c \in Calls, Session!LoginAnswers(c) PROVE SessionInv'
<1> USE DEF Session!NoToken, Session!Nobody, Session!Idle, Session!Failed, Session!Sent,
            Session!Pending, Session!Under, Session!Refreshing, Session!storage, Session!world, Session!LoginAnswers, Session!Token
<1>1. SessionTypes'
  <2>1. access' \in [of : Nat, at : Nat]
    BY DEF SessionInv, SessionTypes
  <2>2. call' \in [Calls -> CallTypes]
    BY <2>1 DEF SessionInv, SessionTypes, CallTypes
  <2> QED
    BY <2>1, <2>2 DEF SessionInv, SessionTypes
<1>2. CallsHeld' /\ LoginAlone'
  BY DEF SessionInv, SessionTypes, CallTypes, CallsHeld, LoginAlone
<1>3. ~ crossed' => OneSession'
  BY DEF SessionInv, SessionTypes, CallTypes, CallsHeld, LoginAlone, OneSession
<1>4. ~ crossed' => Excuses'
  BY DEF SessionInv, SessionTypes, CallTypes, CallsHeld, OneSession, Excuses
<1> QED
  BY <1>1, <1>2, <1>3, <1>4 DEF SessionInv

LEMMA LogoutKeeps == ASSUME SessionInv, NEW c \in Calls, Session!Logout(c) PROVE SessionInv'
<1> USE DEF Session!NoToken, Session!Nobody, Session!Idle, Session!Failed, Session!Sent,
            Session!Pending, Session!Under, Session!Refreshing, Session!storage, Session!world, Session!Logout, Session!Cleared, Session!Crossed, Session!Crosses
<1>1. SessionTypes'
  <2>1. call' \in [Calls -> CallTypes]
    BY CallValues DEF SessionInv, SessionTypes
  <2>2. access' \in [of : Nat, at : Nat] /\ refresh' \in Nat /\ shown' \in Nat
    BY DEF SessionInv, SessionTypes
  <2> QED
    BY <2>1, <2>2 DEF SessionInv, SessionTypes
<1>2. CallsHeld' /\ LoginAlone'
  BY DEF SessionInv, SessionTypes, CallTypes, CallsHeld, LoginAlone
<1>3. ~ crossed' => OneSession'
  BY DEF SessionInv, SessionTypes, CallTypes, CallsHeld, LoginAlone, OneSession
<1>4. ~ crossed' => Excuses'
  BY DEF SessionInv, SessionTypes, CallTypes, CallsHeld, OneSession, Excuses
<1> QED
  BY <1>1, <1>2, <1>3, <1>4 DEF SessionInv

LEMMA ReloadKeeps == ASSUME SessionInv, Session!Reload PROVE SessionInv'
<1> USE DEF Session!NoToken, Session!Nobody, Session!Idle, Session!Failed, Session!Sent,
            Session!Pending, Session!Under, Session!Refreshing, Session!storage, Session!world, Session!Reload, Session!Loaded
<1>1. SessionTypes'
  BY DEF SessionInv, SessionTypes, CallTypes
<1>2. CallsHeld' /\ LoginAlone'
  BY DEF SessionInv, SessionTypes, CallTypes, CallsHeld, LoginAlone
<1>3. ~ crossed' => OneSession'
  <2> DEFINE first == CHOOSE d \in Calls : TRUE
  <2>1. first \in Calls
    BY ServicesAssumption
  <2>2. \A c \in Calls : call'[c] = IF access # Session!NoToken /\ c = first
                                     THEN Session!Sent("me", access) ELSE Session!Idle
    OBVIOUS
  <2> QED
    BY <2>1, <2>2 DEF SessionInv, SessionTypes, OneSession
<1>4. ~ crossed' => Excuses'
  BY DEF SessionInv, SessionTypes, CallTypes, CallsHeld, OneSession, Excuses
<1> QED
  BY <1>1, <1>2, <1>3, <1>4 DEF SessionInv

LEMMA AnswerKeeps == ASSUME SessionInv, NEW c \in Calls, Session!Answer(c) PROVE SessionInv'
<1> USE DEF Session!NoToken, Session!Nobody, Session!Idle, Session!Failed, Session!Sent,
            Session!Pending, Session!Under, Session!Refreshing, Session!storage, Session!world
<1>1. /\ call[c].at = "sent" /\ call[c].token # Session!NoToken
      /\ call' = [call EXCEPT ![c] = Session!Idle]
      /\ UNCHANGED <<signing, refresher, waiting, logins, clock, ended>>
      /\ call[c] \in CallTypes
  BY DEF SessionInv, SessionTypes, Session!Answer
<1>2. CASE call[c].purpose = "page"
  <2>1. UNCHANGED <<access, refresh, shown, crossed, excused>>
    BY <1>2 DEF Session!Answer
  <2> QED
    BY <1>1, <1>2, <2>1 DEF SessionInv, SessionTypes, CallTypes, CallsHeld, LoginAlone, OneSession, Excuses
<1>3. CASE call[c].purpose = "me"
  <2>1. shown' = call[c].token.of /\ UNCHANGED <<access, refresh, crossed, excused>>
    BY <1>3 DEF Session!Answer
  <2> QED
    BY <1>1, <1>3, <2>1 DEF SessionInv, SessionTypes, CallTypes, CallsHeld, LoginAlone, OneSession, Excuses
<1>4. CASE call[c].purpose = "logout"
  <2>1. Session!Cleared /\ Session!Crosses(Session!Pending \ {c})
    BY <1>4 DEF Session!Answer
  <2> USE <1>1, <1>4, <2>1 DEF Session!Cleared, Session!Crosses, Session!Crossed
  <2>2. SessionTypes'
    BY DEF SessionInv, SessionTypes, CallTypes
  <2>3. CallsHeld' /\ LoginAlone'
    BY DEF SessionInv, SessionTypes, CallsHeld, LoginAlone
  <2>4. ~ crossed' => OneSession' /\ Excuses'
    BY DEF SessionInv, SessionTypes, CallsHeld, LoginAlone, OneSession, Excuses
  <2> QED
    BY <2>2, <2>3, <2>4 DEF SessionInv
<1> QED
  BY <1>1, <1>2, <1>3, <1>4 DEF CallTypes

LEMMA BreakKeeps == ASSUME SessionInv, NEW c \in Calls, Session!Break(c) PROVE SessionInv'
<1> USE DEF Session!NoToken, Session!Nobody, Session!Idle, Session!Failed, Session!Sent,
            Session!Pending, Session!Under, Session!Refreshing, Session!storage, Session!world, Session!Break, Session!Cleared, Session!Crossed
<1>1. SessionTypes'
  <2>1. call' \in [Calls -> CallTypes]
    BY CallValues DEF SessionInv, SessionTypes
  <2>2. access' \in [of : Nat, at : Nat] /\ refresh' \in Nat /\ shown' \in Nat
    BY DEF SessionInv, SessionTypes
  <2> QED
    BY <2>1, <2>2 DEF SessionInv, SessionTypes
<1>2. CallsHeld' /\ LoginAlone'
  BY DEF SessionInv, SessionTypes, CallTypes, CallsHeld, LoginAlone
<1>3. ~ crossed' => OneSession'
  <2>1. CASE call[c].purpose = "page"
    BY <2>1 DEF SessionInv, SessionTypes, CallTypes, OneSession
  <2>2. CASE call[c].purpose # "page"
    <3>1. ASSUME ~ crossed' PROVE \A d \in Calls : call'[d].purpose = "page"
      BY <2>2, <3>1 DEF SessionInv, SessionTypes, CallTypes, CallsHeld
    <3>2. ASSUME ~ crossed' PROVE ~ Session!Refreshing'
      BY <2>2, <3>2 DEF SessionInv, SessionTypes
    <3>3. access' = Session!NoToken /\ refresh' = 0 /\ shown' = 0
      BY <2>2
    <3> QED
      BY <3>1, <3>2, <3>3 DEF OneSession
  <2> QED
    BY <2>1, <2>2
<1>4. ~ crossed' => Excuses'
  BY DEF SessionInv, SessionTypes, CallTypes, CallsHeld, OneSession, Excuses
<1> QED
  BY <1>1, <1>2, <1>3, <1>4 DEF SessionInv

LEMMA GiveUpKeeps == ASSUME SessionInv, NEW c \in Calls, Session!GiveUp(c), UNCHANGED Session!world,
           call[c].at = "sent", ~ crossed => c \in excused PROVE SessionInv'
<1> USE DEF Session!NoToken, Session!Nobody, Session!Idle, Session!Failed, Session!Sent,
            Session!Pending, Session!Under, Session!Refreshing, Session!storage, Session!world, Session!GiveUp, Session!Cleared, Session!Crossed, Session!Crosses
<1>1. SessionTypes'
  BY DEF SessionInv, SessionTypes, CallTypes
<1>2. CallsHeld' /\ LoginAlone'
  BY DEF SessionInv, SessionTypes, CallTypes, CallsHeld, LoginAlone
<1>3. ~ crossed' => OneSession'
  BY DEF SessionInv, SessionTypes, CallTypes, CallsHeld, LoginAlone, OneSession
<1>4. ~ crossed' => Excuses'
  BY DEF SessionInv, SessionTypes, CallTypes, CallsHeld, OneSession, Excuses
<1> QED
  BY <1>1, <1>2, <1>3, <1>4 DEF SessionInv

LEMMA JoinKeeps ==
    ASSUME SessionInv, NEW c \in Calls, Session!Join(c), UNCHANGED Session!world,
           call[c].at = "sent"
    PROVE  SessionInv'
<1> USE DEF Session!NoToken, Session!Nobody, Session!Idle, Session!Failed, Session!Sent,
            Session!Pending, Session!Under, Session!Refreshing, Session!storage, Session!world, Session!Join
<1>1. SessionTypes'
  BY DEF SessionInv, SessionTypes, CallTypes
<1>2. CallsHeld' /\ LoginAlone'
  BY DEF SessionInv, SessionTypes, CallTypes, CallsHeld, LoginAlone
<1>3. ~ crossed' => OneSession'
  BY DEF SessionInv, SessionTypes, CallTypes, CallsHeld, LoginAlone, OneSession
<1>4. ~ crossed' => Excuses'
  BY DEF SessionInv, SessionTypes, CallTypes, CallsHeld, OneSession, Excuses
<1> QED
  BY <1>1, <1>2, <1>3, <1>4 DEF SessionInv

LEMMA BeginKeeps ==
    ASSUME SessionInv, NEW c \in Calls, Session!Begin(c), UNCHANGED Session!world,
           call[c].at = "sent", ~ Session!Refreshing, refresh # 0
    PROVE  SessionInv'
<1> USE DEF Session!NoToken, Session!Nobody, Session!Idle, Session!Failed, Session!Sent,
            Session!Pending, Session!Under, Session!Refreshing, Session!storage, Session!world, Session!Begin
<1>1. SessionTypes'
  <2>1. call[c] \in CallTypes
    BY DEF SessionInv, SessionTypes
  <2>2. call' = [call EXCEPT ![c] = [call[c] EXCEPT !.at = "refreshing", !.retried = TRUE]]
    OBVIOUS
  <2>3. call' \in [Calls -> CallTypes]
    BY <2>1, <2>2, CallValues DEF SessionInv, SessionTypes
  <2> QED
    BY <2>3 DEF SessionInv, SessionTypes
<1>2. CallsHeld' /\ LoginAlone'
  BY DEF SessionInv, SessionTypes, CallTypes, CallsHeld, LoginAlone
<1>3. ~ crossed' => OneSession'
  BY DEF SessionInv, SessionTypes, CallTypes, CallsHeld, LoginAlone, OneSession
<1>4. ~ crossed' => Excuses'
  BY DEF SessionInv, SessionTypes, CallTypes, CallsHeld, OneSession, Excuses
<1> QED
  BY <1>1, <1>2, <1>3, <1>4 DEF SessionInv

LEMMA RefreshAnswersKeeps == ASSUME SessionInv, Session!RefreshAnswers PROVE SessionInv'
<1> USE DEF Session!NoToken, Session!Nobody, Session!Idle, Session!Failed, Session!Sent,
            Session!Pending, Session!Under, Session!Refreshing, Session!storage, Session!world, Session!RefreshAnswers, Session!Resumed, Session!Token
<1>0. \A d \in Calls : call'[d] =
         IF d \in Session!Resumed THEN [call[d] EXCEPT !.at = "sent", !.token = access'] ELSE call[d]
  OBVIOUS
<1>1. SessionTypes'
  <2>1. access' \in [of : Nat, at : Nat]
    BY DEF SessionInv, SessionTypes
  <2>2. call' \in [Calls -> CallTypes]
    <3>1. \A d \in Calls : call[d] \in CallTypes
      BY DEF SessionInv, SessionTypes
    <3> HIDE DEF Session!RefreshAnswers, Session!Resumed
    <3>2. ASSUME NEW d \in Calls
          PROVE  call'[d] \in CallTypes
      <4>1. \A t \in [of : Nat, at : Nat] :
               [call[d] EXCEPT !.at = "sent", !.token = t] \in CallTypes
        BY <3>1, CallValues
      <4>2. [call[d] EXCEPT !.at = "sent", !.token = access'] \in CallTypes
        BY <2>1, <4>1
      <4> QED
        BY <1>0, <3>1, <4>2
    <3> QED
      BY <3>2 DEF Session!RefreshAnswers
  <2> QED
    BY <2>1, <2>2 DEF SessionInv, SessionTypes
<1>2. \A d \in Calls :
         /\ call'[d].purpose = call[d].purpose /\ call'[d].retried = call[d].retried
         /\ d \in Session!Resumed => call'[d].at = "sent" /\ call'[d].token = access'
         /\ d \notin Session!Resumed => call'[d] = call[d]
  <2> HIDE DEF Session!RefreshAnswers, Session!Resumed
  <2>1. ASSUME NEW k \in CallTypes, NEW t
        PROVE  LET n == [k EXCEPT !.at = "sent", !.token = t]
               IN  n.at = "sent" /\ n.token = t /\ n.purpose = k.purpose /\ n.retried = k.retried
    BY DEF CallTypes
  <2>2. \A d \in Calls : call[d] \in CallTypes
    BY DEF SessionInv, SessionTypes
  <2> SUFFICES ASSUME NEW d \in Calls
               PROVE  /\ call'[d].purpose = call[d].purpose /\ call'[d].retried = call[d].retried
                      /\ d \in Session!Resumed => call'[d].at = "sent" /\ call'[d].token = access'
                      /\ d \notin Session!Resumed => call'[d] = call[d]
    OBVIOUS
  <2>3. CASE d \in Session!Resumed
    <3>1. call'[d] = [call[d] EXCEPT !.at = "sent", !.token = access']
      BY <1>0, <2>3
    <3> QED
      BY <2>1, <2>2, <2>3, <3>1
  <2> QED
    BY <1>0, <2>3
<1>3. CallsHeld' /\ LoginAlone'
  <2>1. waiting' = {} /\ ~ Session!Refreshing' /\ signing' = signing /\ shown' = shown
    OBVIOUS
  <2>2. \A d \in Session!Pending : d \in Session!Pending'
    BY <1>2
  <2> HIDE DEF Session!RefreshAnswers, Session!Resumed, Session!Pending, Session!Refreshing
  <2>3. CallsHeld'
    BY <1>2, <2>1, <2>2 DEF SessionInv, CallsHeld
  <2>4. LoginAlone'
    BY <1>2, <2>1 DEF SessionInv, LoginAlone
  <2> QED
    BY <2>3, <2>4
<1>4. ~ crossed' => OneSession'
  <2> SUFFICES ASSUME ~ crossed PROVE OneSession'
    OBVIOUS
  <2>1. /\ access'.of = refresher.of /\ refresh' = refresh /\ shown' = shown
        /\ ~ Session!Refreshing' /\ Session!Refreshing
    OBVIOUS
  <2>2. OneSession
    BY DEF SessionInv
  <2> HIDE DEF Session!RefreshAnswers, Session!Resumed, Session!Refreshing
  <2>3. refresh # 0 /\ refresher.of = refresh
    BY <2>1, <2>2 DEF OneSession
  <2>4. \A d \in Calls : call'[d].purpose = "me" => call'[d].token.of = refresh
    BY <1>2, <2>1, <2>2, <2>3 DEF OneSession
  <2>5. refresh # 0 /\ shown = 0 => \E d \in Calls : call'[d].purpose = "me"
    BY <1>2, <2>2 DEF OneSession
  <2> QED
    BY <2>1, <2>2, <2>3, <2>4, <2>5 DEF OneSession
<1>5. ~ crossed' => Excuses'
  <2> SUFFICES ASSUME ~ crossed PROVE Excuses'
    OBVIOUS
  <2>1. access'.of # 0 /\ access'.at = clock' /\ refresh' = refresh /\ refresh # 0 /\ excused' = excused
    BY DEF SessionInv, SessionTypes, OneSession
  <2>2. clock' = clock /\ \A d \in Session!Resumed : call[d].at \in {"waiting", "refreshing"}
    BY DEF SessionInv, CallsHeld
  <2> QED
    BY <1>2, <2>1, <2>2 DEF SessionInv, Excuses
<1> QED
  BY <1>1, <1>3, <1>4, <1>5 DEF SessionInv

LEMMA RefreshFailsKeeps == ASSUME SessionInv, Session!RefreshFails PROVE SessionInv'
<1> USE DEF Session!NoToken, Session!Nobody, Session!Idle, Session!Failed, Session!Sent,
            Session!Pending, Session!Under, Session!Refreshing, Session!storage, Session!world, Session!RefreshFails, Session!Resumed, Session!Cleared
<1>1. SessionTypes'
  BY DEF SessionInv, SessionTypes, CallTypes
<1>2. CallsHeld' /\ LoginAlone'
  BY DEF SessionInv, SessionTypes, CallTypes, CallsHeld, LoginAlone
<1>3. ~ crossed' => OneSession'
  BY DEF SessionInv, SessionTypes, CallTypes, CallsHeld, LoginAlone, OneSession
<1>4. ~ crossed' => Excuses'
  BY DEF SessionInv, SessionTypes, CallTypes, CallsHeld, OneSession, Excuses
<1> QED
  BY <1>1, <1>2, <1>3, <1>4 DEF SessionInv

LEMMA TimeKeeps == ASSUME SessionInv, Session!Tick \/ \E n \in Nat : Session!EndSession(n) PROVE SessionInv'
<1> USE DEF Session!NoToken, Session!Nobody, Session!Idle, Session!Failed, Session!Sent,
            Session!Pending, Session!Under, Session!Refreshing, Session!storage, Session!world, Session!Tick, Session!EndSession
<1>1. SessionTypes'
  BY DEF SessionInv, SessionTypes, CallTypes
<1>2. CallsHeld' /\ LoginAlone'
  BY DEF SessionInv, SessionTypes, CallTypes, CallsHeld, LoginAlone
<1>3. ~ crossed' => OneSession'
  BY DEF SessionInv, SessionTypes, CallTypes, CallsHeld, LoginAlone, OneSession
<1>4. ~ crossed' => Excuses'
  BY DEF SessionInv, SessionTypes, CallTypes, CallsHeld, OneSession, Excuses
<1> QED
  BY <1>1, <1>2, <1>3, <1>4 DEF SessionInv

LEMMA SessionStep == ASSUME SessionInv, Session!Next PROVE SessionInv'
<1>1. ASSUME NEW c \in Calls, Session!Deny(c) PROVE SessionInv'
  <2>1. /\ call[c].at = "sent" /\ UNCHANGED Session!world
        /\ call[c].token = Session!NoToken \/ call[c].token.at < clock
    BY <1>1 DEF Session!Deny
  <2>2. ASSUME call[c].retried, Session!GiveUp(c) PROVE SessionInv'
    <3>1. ~ crossed => c \in excused
      BY <2>1, <2>2 DEF SessionInv, SessionTypes, CallTypes, Excuses, Session!NoToken
    <3> QED
      BY <2>1, <2>2, <3>1, GiveUpKeeps
  <2>3. ASSUME refresh = 0, Session!GiveUp(c) PROVE SessionInv'
    <3>1. ~ crossed => c \in excused
      BY <2>1, <2>3 DEF SessionInv, Excuses, Session!Pending, Session!Under
    <3> QED
      BY <2>1, <2>3, <3>1, GiveUpKeeps
  <2>4. ASSUME ~ call[c].retried, Session!Refreshing, Session!Join(c) PROVE SessionInv'
    BY <2>1, <2>4, JoinKeeps
  <2>5. ASSUME ~ call[c].retried, ~ Session!Refreshing, refresh # 0, Session!Begin(c) PROVE SessionInv'
    BY <2>1, <2>5, BeginKeeps
  <2> QED
    BY <1>1, <2>2, <2>3, <2>4, <2>5 DEF Session!Deny
<1>2. ASSUME NEW n \in 1..MaxLogins, Session!EndSession(n) PROVE SessionInv'
  BY <1>2, TimeKeeps
<1> QED
  BY <1>1, <1>2, StartKeeps, LoginKeeps, LoginAnswersKeeps, LogoutKeeps, ReloadKeeps, AnswerKeeps,
     BreakKeeps, RefreshAnswersKeeps, RefreshFailsKeeps, TimeKeeps
     DEF Session!Next, Session!Settle, Session!Refresh

LEMMA SessionStutters == ASSUME SessionInv, UNCHANGED sessionVars PROVE SessionInv'
BY DEF sessionVars, SessionInv, SessionTypes, CallsHeld, LoginAlone, OneSession, Excuses,
       Session!Pending, Session!Refreshing

LEMMA Sessions == ServicesSpec => []SessionInv
<1>1. ServicesInit => SessionInv
  BY SessionInitially DEF ServicesInit
<1>2. SessionInv /\ [ServicesNext]_allVars => SessionInv'
  BY SessionStep, SessionStutters DEF ServicesNext, Rag, Work, Browse, allVars
<1> QED
  BY <1>1, <1>2, PTL DEF ServicesSpec

(***************************************************************************)
(* The tokens in the storage and the user shown are of one login, unless a *)
(* session was cleared under an answer that changes it (the interceptors   *)
(* of api.ts, AuthContext).                                                *)
(***************************************************************************)
THEOREM TokensOfOneLogin == ServicesSpec => []OneLogin
<1>1. SessionInv => OneLogin
  BY DEF SessionInv, OneSession, OneLogin, Session!OneLogin
<1> QED
  BY <1>1, Sessions, PTL

(***************************************************************************)
(* A call fails only for a reason: the network, the refresh, a session     *)
(* cleared meanwhile, a new token that expired at once (the response       *)
(* interceptor of api.ts).                                                 *)
(***************************************************************************)
THEOREM FailuresHaveReasons == ServicesSpec => []RefusedForAReason
<1>1. SessionInv => RefusedForAReason
  BY DEF SessionInv, Excuses, RefusedForAReason, Session!RefusedForAReason
<1> QED
  BY <1>1, Sessions, PTL
=============================================================================
