---------------------------- MODULE SafetyProofs ----------------------------
(***************************************************************************)
(* The four parts MCSafety checks, for every value of their constants.     *)
(* Administration: while requests are served one at a time, an active      *)
(* administrative account remains. The chat page: what it shows is what is *)
(* stored. The rate limiter: no window holds more calls than the budget.   *)
(* Semantic chunking: nothing is lost, and headings keep their text.       *)
(***************************************************************************)
EXTENDS MCSafety, WellFoundedInduction, FiniteSetTheorems, SequenceTheorems,
        TLAPS

-----------------------------------------------------------------------------
(***************************************************************************)
(* Type correctness, for any number of requests.  A request is about a     *)
(* user that has a row, or is to get one: the model adds no user anywhere  *)
(* else.                                                                   *)
(***************************************************************************)
OfKnownUsers ==
    \A t \in Requests : request[t].point # "idle" =>
        /\ request[t].user \in Users
        /\ request[t].kind \notin Creations => request[t].user \in known

TypeInv == TypeOK /\ OfKnownUsers

(* What a thread may be doing.                                             *)
Records == [point : {"idle", "load", "check", "write", "audit"}, kind : Kinds,
            caller : Users \cup {None}, user : Users \cup {None},
            isActive : BOOLEAN, isAdmin : BOOLEAN]

LEMMA TypeInit == Init => TypeInv
  BY UsersAssumption DEF Init, TypeInv, TypeOK, OfKnownUsers, Idle, Kinds

(* A record changed by a request is still one.                             *)
LEMMA RecordChanges ==
    ASSUME NEW r \in Records, NEW a \in BOOLEAN, NEW b \in BOOLEAN,
           NEW p \in {"check", "write", "audit"}
    PROVE  /\ [r EXCEPT !.point = p] \in Records
           /\ [r EXCEPT !.point = p, !.isActive = a] \in Records
           /\ [r EXCEPT !.point = p, !.isActive = a, !.isAdmin = b] \in Records
  BY DEF Records

LEMMA TypeStep == TypeInv /\ [Next]_vars => TypeInv'
<1> SUFFICES ASSUME TypeInv, [Next]_vars
             PROVE  TypeInv'
  OBVIOUS
<1> USE UsersAssumption DEF TypeInv, TypeOK, OfKnownUsers, rows, At, Answer, Kinds, Creations
<1>1. ASSUME NEW t \in Requests, Authorize(t)
      PROVE  TypeInv'
  <2>1. PICK kind \in Kinds, caller \in active \cap admins, user \in Users :
          /\ user \in known <=> kind \notin Creations
          /\ request' = [request EXCEPT ![t] =
                [Idle EXCEPT !.point = "load", !.kind = kind,
                             !.caller = caller, !.user = user]]
    BY <1>1 DEF Authorize
  <2>2. UNCHANGED <<rows, disabled>>
    BY <1>1 DEF Authorize
  <2> QED
    BY <2>1, <2>2 DEF Idle
<1>2. ASSUME NEW t \in Requests, Load(t)
      PROVE  TypeInv'
  <2>1. \A u \in Requests : u # t => request'[u] = request[u]
    BY <1>2 DEF Load
  <2>2. /\ request'[t].point = "check"
        /\ request'[t].kind = request[t].kind
        /\ request'[t].caller = request[t].caller
        /\ request'[t].user = request[t].user
        /\ request'[t].isActive \in BOOLEAN
        /\ request'[t].isAdmin \in BOOLEAN
    <3>1. PICK r : /\ r = request[t]
                   /\ request' = [request EXCEPT ![t] =
                         [r EXCEPT !.point = "check",
                                   !.isActive = r.user = r.caller \/ r.user \in active,
                                   !.isAdmin = r.user = r.caller \/ r.user \in admins]]
      BY <1>2 DEF Load
    <3>2. DOMAIN request = Requests /\ r \in Records
      BY <3>1 DEF Records
    <3> DEFINE a == r.user = r.caller \/ r.user \in active
               b == r.user = r.caller \/ r.user \in admins
               s == [r EXCEPT !.point = "check", !.isActive = a, !.isAdmin = b]
    <3>3. a \in BOOLEAN /\ b \in BOOLEAN
      OBVIOUS
    <3>4. request'[t] = s
      BY <3>1, <3>2
    <3> HIDE DEF a, b
    <3>5. /\ s.point = "check" /\ s.kind = r.kind /\ s.caller = r.caller /\ s.user = r.user
          /\ s.isActive = a /\ s.isAdmin = b
      BY <3>2 DEF Records
    <3> HIDE DEF s
    <3> QED
      BY <3>1, <3>3, <3>4, <3>5
  <2>3. UNCHANGED <<rows, disabled>> /\ request[t].point # "idle"
        /\ \E r : request' = [request EXCEPT ![t] = r]
    BY <1>2 DEF Load
  <2>4. TypeOK'
    <3>1. request'[t] \in Records
      <4>1. request[t] \in Records
        BY DEF Records
      <4> DEFINE a == request[t].user = request[t].caller \/ request[t].user \in active
                 b == request[t].user = request[t].caller \/ request[t].user \in admins
      <4>2. request'[t] = [request[t] EXCEPT !.point = "check", !.isActive = a, !.isAdmin = b]
        BY <1>2 DEF Load
      <4>3. a \in BOOLEAN /\ b \in BOOLEAN
        OBVIOUS
      <4> HIDE DEF a, b
      <4>4. [request[t] EXCEPT !.point = "check", !.isActive = a, !.isAdmin = b] \in Records
        BY <4>1, <4>3, RecordChanges
      <4> QED
        BY <4>2, <4>4
    <3>2. request' \in [Requests -> Records]
      BY <2>1, <2>3, <3>1 DEF Records
    <3> QED
      BY <2>3, <3>2 DEF Records
  <2>5. OfKnownUsers'
    BY <2>1, <2>2, <2>3
  <2> QED
    BY <2>4, <2>5
<1>3. ASSUME NEW t \in Requests, CheckPasses(t)
      PROVE  TypeInv'
  <2>1. TypeOK'
    <3>1. [request[t] EXCEPT !.point = "write"] \in Records
      <4>1. request[t] \in Records
        BY DEF Records
      <4> QED
        BY <4>1, RecordChanges
    <3>2. request' \in [Requests -> Records]
      BY <1>3, <3>1 DEF CheckPasses, Records
    <3> QED
      BY <1>3, <3>2 DEF CheckPasses, Records
  <2>2. OfKnownUsers'
    BY <1>3 DEF CheckPasses
  <2> QED
    BY <2>1, <2>2
<1>4. ASSUME NEW t \in Requests, CheckRefuses(t)
      PROVE  TypeInv'
  BY <1>4 DEF CheckRefuses, Idle
<1>5. ASSUME NEW t \in Requests, WriteDisabled(t)
      PROVE  TypeInv'
  <2>1. TypeOK'
    <3>1. [request[t] EXCEPT !.point = "audit", !.isActive = FALSE] \in Records
      <4>1. request[t] \in Records
        BY DEF Records
      <4> QED
        BY <4>1, RecordChanges
    <3>2. request' \in [Requests -> Records]
      BY <1>5, <3>1 DEF WriteDisabled, Records
    <3>3. active' \in SUBSET known
      BY <1>5 DEF WriteDisabled
    <3> QED
      BY <1>5, <3>2, <3>3 DEF WriteDisabled, Records
  <2>2. OfKnownUsers'
    BY <1>5 DEF WriteDisabled
  <2> QED
    BY <2>1, <2>2
<1>6. ASSUME NEW t \in Requests, WriteEnabled(t)
      PROVE  TypeInv'
  BY <1>6 DEF WriteEnabled, Idle
<1>7. ASSUME NEW t \in Requests, WritePromoted(t)
      PROVE  TypeInv'
  BY <1>7 DEF WritePromoted, Idle
<1>8. ASSUME NEW t \in Requests, WriteDemoted(t)
      PROVE  TypeInv'
  BY <1>8 DEF WriteDemoted, Idle
<1>9. ASSUME NEW t \in Requests, WriteCreated(t)
      PROVE  TypeInv'
  BY <1>9 DEF WriteCreated, Idle
<1>10. ASSUME NEW t \in Requests, CreateRefused(t)
       PROVE  TypeInv'
  BY <1>10 DEF CreateRefused, Idle
<1>11. ASSUME NEW t \in Requests, Audit(t)
       PROVE  TypeInv'
  BY <1>11 DEF Audit, Idle
<1>12. CASE Register
  BY <1>12 DEF Register
<1>13. CASE UNCHANGED vars
  BY <1>13 DEF vars
<1> QED
  BY <1>1, <1>2, <1>3, <1>4, <1>5, <1>6, <1>7, <1>8, <1>9, <1>10, <1>11, <1>12, <1>13
     DEF Next

(***************************************************************************)
(* The rows and the requests keep their types (TypeOK), for any accounts   *)
(* and any number of overlapping requests.                                 *)
(***************************************************************************)
THEOREM TypeCorrect == Spec => []TypeOK
<1>1. TypeInv => TypeOK
  BY DEF TypeInv
<1> QED
  BY <1>1, TypeInit, TypeStep, PTL DEF Spec

-----------------------------------------------------------------------------
(***************************************************************************)
(* The count of the guard: when ensure_not_last_admin lets an active       *)
(* administrative user go, the count has found another one.                *)
(***************************************************************************)
LEMMA AnotherIsCounted ==
  ASSUME NEW S, NEW u, IsFiniteSet(S), Cardinality(S) > 1
  PROVE  \E v \in S : v # u
<1> SUFFICES ASSUME \A v \in S : v = u
             PROVE  FALSE
  OBVIOUS
<1>1. /\ IsFiniteSet({u})
      /\ Cardinality({u}) = 1
  BY FS_Singleton
<1>2. S \in SUBSET {u}
  OBVIOUS
<1>3. Cardinality(S) <= Cardinality({u})
  BY <1>1, <1>2, FS_Subset
<1> QED
  BY <1>1, <1>3, FS_CardinalityType

(***************************************************************************)
(* The inductive invariant, for one request r at a time.  What r loaded is *)
(* still so when it commits; its caller is still an active administrator;  *)
(* and past the guard, someone else is administrative or the change takes  *)
(* nothing away.                                                           *)
(***************************************************************************)
Administrators == active \cap (admins \cup Supers)

LoadedIsCurrent(r) ==
    r.point \in {"check", "write"} =>
        /\ r.kind \notin Creations
        /\ r.isActive = (r.user \in active)
        /\ r.isAdmin = (r.user \in admins)

CallerIsAdmin(r) ==
    r.point \in {"load", "check", "write"} => r.caller \in active \cap admins

TakesAway(r) == \/ r.kind \in {"disable", "delete"}
                \/ r.kind = "demote" /\ r.user \notin Supers

OthersRemain(r) ==
    r.point = "write" /\ TakesAway(r) => \E v \in Administrators : v # r.user

AdminInv == /\ TypeInv
            /\ AdministratorRemains
            /\ \A t \in Requests : /\ LoadedIsCurrent(request[t])
                                   /\ CallerIsAdmin(request[t])
                                   /\ OthersRemain(request[t])

LEMMA AdminInit == Init => AdminInv
<1> SUFFICES ASSUME Init
             PROVE  AdminInv
  OBVIOUS
<1>1. TypeInv
  BY TypeInit
<1>2. AdministratorRemains
  BY DEF Init, AdministratorRemains
<1> QED
  BY <1>1, <1>2 DEF Init, AdminInv, LoadedIsCurrent, CallerIsAdmin, OthersRemain, Idle

\* The guard: past it, OthersRemain.
LEMMA GuardSpares ==
  ASSUME AdminInv, NEW t \in Requests, CheckPasses(t), TakesAway(request[t])
  PROVE  \E v \in Administrators : v # request[t].user
<1> DEFINE r == request[t]
<1>1. /\ r.caller \in active \cap admins
      /\ r.isActive = (r.user \in active)
      /\ r.isAdmin = (r.user \in admins)
  BY DEF AdminInv, CheckPasses, At, LoadedIsCurrent, CallerIsAdmin
<1>2. CASE r.caller # r.user
  BY <1>1, <1>2 DEF Administrators
<1>3. CASE r.caller = r.user
  <2>1. IsAdministrative(r, r.user)
    BY <1>1, <1>3 DEF IsAdministrative, HoldsAdmin
  <2>2. ~IsLastAdmin(r)
    BY <1>1, <1>3 DEF CheckPasses, MustKeep, TakesAway
  <2>3. ~(Cardinality(ActiveAdmins(r)) <= 1)
    BY <1>1, <1>3, <2>1, <2>2 DEF IsLastAdmin
  <2>4. IsFiniteSet(ActiveAdmins(r))
    <3>1. ActiveAdmins(r) \in SUBSET Users
      BY DEF ActiveAdmins, AdminInv, TypeInv, TypeOK
    <3> QED
      BY <3>1, FS_Subset, UsersAssumption
  <2>5. Cardinality(ActiveAdmins(r)) > 1
    BY <2>3, <2>4, FS_CardinalityType
  <2>6. PICK v \in ActiveAdmins(r) : v # r.user
    BY <2>4, <2>5, AnotherIsCounted
  <2>7. v \in Administrators
    BY <2>6, <1>3 DEF ActiveAdmins, IsAdministrative, HoldsAdmin, Administrators
  <2> QED
    BY <2>6, <2>7
<1> QED
  BY <1>2, <1>3

LEMMA AdminStep ==
  ASSUME AdminInv, [Next]_vars, NEW r \in Requests, Requests = {r}
  PROVE  AdminInv'
<1>1. TypeInv /\ TypeInv'
  BY TypeStep DEF AdminInv
<1> USE DEF TypeInv, TypeOK, OfKnownUsers, AdministratorRemains, Administrators, LoadedIsCurrent,
            CallerIsAdmin, OthersRemain, rows, At, Answer
<1> DEFINE Rest == /\ AdministratorRemains
                   /\ LoadedIsCurrent(request[r])
                   /\ CallerIsAdmin(request[r])
                   /\ OthersRemain(request[r])
<1>2. Rest
  BY DEF AdminInv
<1> SUFFICES Rest'
  BY <1>1 DEF AdminInv
<1>3. CASE Authorize(r)
  BY <1>1, <1>2, <1>3 DEF Authorize, Idle
<1>4. CASE Load(r)
  BY <1>1, <1>2, <1>4 DEF Load
<1>5. CASE CheckPasses(r)
  <2>1. /\ request' = [request EXCEPT ![r].point = "write"]
        /\ request[r].point = "check"
        /\ UNCHANGED rows
    BY <1>5 DEF CheckPasses
  <2>2. /\ request'[r].user = request[r].user
        /\ request'[r].kind = request[r].kind
        /\ request'[r].caller = request[r].caller
        /\ request'[r].isActive = request[r].isActive
        /\ request'[r].isAdmin = request[r].isAdmin
    BY <1>1, <2>1
  <2>3. TakesAway(request[r]) => \E v \in Administrators : v # request[r].user
    BY <1>5, GuardSpares
  <2>4. OthersRemain(request[r])'
    BY <2>1, <2>2, <2>3 DEF TakesAway
  <2>5. /\ LoadedIsCurrent(request[r])'
        /\ CallerIsAdmin(request[r])'
    BY <1>2, <2>1, <2>2
  <2> QED
    BY <1>2, <2>1, <2>4, <2>5
<1>6. CASE CheckRefuses(r)
  BY <1>1, <1>2, <1>6 DEF CheckRefuses, Idle
<1>7. CASE WriteDisabled(r)
  BY <1>1, <1>2, <1>7 DEF WriteDisabled, TakesAway
<1>8. CASE WriteEnabled(r)
  BY <1>1, <1>2, <1>8 DEF WriteEnabled, Idle
<1>9. CASE WritePromoted(r)
  BY <1>1, <1>2, <1>9 DEF WritePromoted, Idle
<1>10. CASE WriteDemoted(r)
  BY <1>1, <1>2, <1>10 DEF WriteDemoted, TakesAway, Idle
<1>11. CASE WriteCreated(r)
  BY <1>1, <1>2, <1>11 DEF WriteCreated, Idle
<1>12. CASE CreateRefused(r)
  BY <1>1, <1>2, <1>12 DEF CreateRefused, Idle
<1>13. CASE Audit(r)
  BY <1>1, <1>2, <1>13 DEF Audit, Idle
<1>14. CASE Register
  BY <1>1, <1>2, <1>14 DEF Register, TakesAway
<1>15. CASE UNCHANGED vars
  BY <1>1, <1>2, <1>15 DEF vars, TakesAway
<1> QED
  BY <1>3, <1>4, <1>5, <1>6, <1>7, <1>8, <1>9, <1>10, <1>11, <1>12, <1>13, <1>14, <1>15
     DEF Next

(***************************************************************************)
(* Served one at a time, requests never leave the installation without an  *)
(* active administrative account (AdministratorRemains), whatever accounts *)
(* there are and whichever of them are superusers.                         *)
(***************************************************************************)
THEOREM SerialAdministratorRemains ==
  ASSUME NEW r, Requests = {r}
  PROVE  Spec => []AdministratorRemains
<1>1. AdminInv /\ [Next]_vars => AdminInv'
  BY AdminStep
<1>2. AdminInv => AdministratorRemains
  BY DEF AdminInv
<1> QED
  BY <1>1, <1>2, AdminInit, PTL DEF Spec

(***************************************************************************)
(* Where no account is a superuser, that account holds the Admin role: it  *)
(* can still administer (NoLockout).  Superusers are what the guard gets   *)
(* wrong when requests do not overlap.                                     *)
(***************************************************************************)
THEOREM SerialNoLockout ==
  ASSUME NEW r, Requests = {r}, Supers = {}
  PROVE  Spec => []NoLockout
<1>1. AdministratorRemains => NoLockout
  BY DEF AdministratorRemains, NoLockout
<1> QED
  BY <1>1, SerialAdministratorRemains, PTL

-----------------------------------------------------------------------------
(***************************************************************************)
(* The chat page. Every load that is answered after a change of the        *)
(* conversation must have been discarded or repeated before anyone trusts  *)
(* it: that is what the invariant says of each place a list of messages    *)
(* may be, the backend, a response on its way and the cache.               *)
(***************************************************************************)
(* The messages a conversation may hold: which turn, and its question or   *)
(* its answer.                                                             *)
Rows == Seq(View!Turns \X {"question", "answer"})

(* Types, and what the mutation under way is about: a created conversation *)
(* has its rows, a deleted one is gone.                                    *)
ViewTypes ==
    /\ stored \in [Conversations -> Rows \cup {None}]
    /\ gone \subseteq Conversations
    /\ ask \in [View!Turns -> [of : Conversations \cup {None},
                               here : {"unused", "pending", "answered", "failed"},
                               there : {"none", "asked", "answered"}]]
    /\ asks \in 0..MaxAsks
    /\ selected \in Conversations \cup {None}
    /\ data \in [Conversations -> Rows \cup {None}]
    /\ stale \subseteq Conversations /\ failing \subseteq Conversations
    /\ missed \subseteq Conversations
    /\ load \in [Conversations -> [at : {"idle", "sent", "read"}, rows : Rows]]
    /\ change \in [kind : {"none", "create", "delete"}, of : Conversations \cup {None}]
    /\ change.kind = "create" => change.of \in Conversations /\ stored[change.of] # None
    /\ change.kind = "delete" => change.of \in gone

(* How far a question is here says how far it is in the backend: an answer *)
(* shown was stored, and a failed question left its conversation marked or *)
(* deleted.                                                                *)
Asked(t) ==
    /\ t > asks => ask[t].here = "unused"
    /\ IF ask[t].here = "unused" THEN ask[t].there = "none" ELSE ask[t].of \in Conversations
    /\ ask[t].here = "answered" => ask[t].there = "answered"
    /\ ask[t].here = "failed" => ask[t].of \in missed \cup gone

(* A conversation that does not exist yet is neither loaded, cached nor    *)
(* selected.                                                               *)
Absent(c) ==
    stored[c] = None => load[c].at = "idle" /\ data[c] = None /\ c # selected

(* No question is under way in the conversation and nothing excuses an     *)
(* outdated cache: its messages do not change any more.                    *)
Settled(c) ==
    /\ stored[c] # None /\ c \notin missed \cup gone
    /\ \A t \in View!Turns : ask[t].here = "pending" => ask[t].of # c

(* For a settled conversation, a response on its way holds the stored      *)
(* messages, and cached data without a load under way and not invalidated  *)
(* are those.                                                              *)
Fresh(c) ==
    Settled(c) =>
        /\ load[c].at = "read" => load[c].rows = stored[c]
        /\ load[c].at = "idle" /\ c \notin stale /\ data[c] # None => data[c] = stored[c]

(* The selected conversation never waits for a load nobody started, unless *)
(* one has failed.                                                         *)
Watched ==
    selected # None /\ load[selected].at = "idle"
        /\ (selected \in stale \/ data[selected] = None) => selected \in failing

(* The inductive invariant.                                                *)
ViewInv ==
    /\ ViewTypes
    /\ \A t \in View!Turns : Asked(t)
    /\ \A c \in Conversations : Absent(c) /\ Fresh(c)
    /\ Watched

(* null is neither a list of messages nor a conversation.                  *)
LEMMA NoneIsNoRows == None \notin Rows /\ <<>> \in Rows /\ None \notin Conversations
  BY SafetyAssumption DEF Rows, View!Turns

(* An empty cache holds nothing wrong.                                     *)
LEMMA ViewInit == View!Init => ViewInv
<1> SUFFICES ASSUME View!Init
             PROVE  ViewInv
  OBVIOUS
<1>1. <<>> \in Rows /\ None \notin Rows /\ None \notin Conversations
  BY NoneIsNoRows
<1>2. ViewTypes
  BY <1>1, SafetyAssumption DEF View!Init, ViewTypes, View!NoLoad, View!NoChange
<1> QED
  BY <1>1, <1>2, SafetyAssumption
  DEF View!Init, ViewInv, Asked, Absent, Fresh, Settled, Watched, View!NoLoad, View!Turns

(* Selecting a conversation, however it came about: a load starts if the   *)
(* cache has nothing or something invalidated.                             *)
LEMMA ShowKeeps ==
    ASSUME ViewInv, NEW c \in Conversations, View!Show(c),
           \/ stored' = stored /\ stored[c] # None
           \/ stored[c] = None /\ stored' = [stored EXCEPT ![c] = <<>>],
           change' \in {change, View!NoChange}, UNCHANGED <<gone, ask, asks, missed>>
    PROVE  ViewInv'
<1> USE NoneIsNoRows
<1>1. /\ selected' = c /\ data' = data /\ stale' = stale
      /\ load' = IF load[c].at = "idle" /\ (data[c] = None \/ c \in stale)
                 THEN [load EXCEPT ![c].at = "sent"] ELSE load
      /\ failing' = IF data[c] = None THEN failing \ {c} ELSE failing
  BY DEF View!Show, View!Load
<1>2. /\ stored' \in [Conversations -> Rows \cup {None}]
      /\ stored'[c] # None
      /\ \A e \in Conversations : e # c => stored'[e] = stored[e]
      /\ \A e \in Conversations : stored[e] # None => stored'[e] = stored[e]
  BY DEF ViewInv, ViewTypes
<1>3. /\ \A e \in Conversations : e # c => load'[e] = load[e]
      /\ load'[c].rows = load[c].rows
      /\ load'[c].at = IF load[c].at = "idle" /\ (data[c] = None \/ c \in stale)
                       THEN "sent" ELSE load[c].at
      /\ load' \in [Conversations -> [at : {"idle", "sent", "read"}, rows : Rows]]
  <2>1. CASE load[c].at = "idle" /\ (data[c] = None \/ c \in stale)
    BY <1>1, <2>1 DEF ViewInv, ViewTypes
  <2>2. CASE ~ (load[c].at = "idle" /\ (data[c] = None \/ c \in stale))
    BY <1>1, <2>2 DEF ViewInv, ViewTypes
  <2> QED
    BY <2>1, <2>2
<1>4. ViewTypes'
  BY <1>1, <1>2, <1>3 DEF ViewInv, ViewTypes, View!NoChange
<1>5. \A t \in View!Turns : Asked(t)'
  BY DEF ViewInv, Asked
<1>6. \A e \in Conversations : Absent(e)'
  BY <1>1, <1>2, <1>3 DEF ViewInv, Absent
<1>7. \A e \in Conversations : Fresh(e)'
  BY <1>1, <1>2, <1>3 DEF ViewInv, ViewTypes, Absent, Fresh, Settled
<1>8. Watched'
  BY <1>1, <1>3 DEF ViewInv, ViewTypes, Watched
<1> QED
  BY <1>4, <1>5, <1>6, <1>7, <1>8 DEF ViewInv

(* A question of the selected conversation: from here on it is not         *)
(* settled.                                                                *)
LEMMA AskKeeps ==
    ASSUME ViewInv, selected # None, View!Ask(selected),
           UNCHANGED <<stored, gone, selected, data, stale, failing, load, change, missed>>
    PROVE  ViewInv'
<1> USE NoneIsNoRows
<1> DEFINE n == asks + 1
<1>1. /\ asks' = n /\ n \in View!Turns /\ selected \in Conversations
      /\ ask' = [ask EXCEPT ![n] = [of |-> selected, here |-> "pending", there |-> "none"]]
  BY SafetyAssumption DEF ViewInv, ViewTypes, View!Ask, View!Turns
<1>2. \A t \in View!Turns : t # n => ask'[t] = ask[t]
  BY <1>1 DEF ViewInv, ViewTypes
<1>3. ask'[n] = [of |-> selected, here |-> "pending", there |-> "none"]
  BY <1>1 DEF ViewInv, ViewTypes
<1>4. ViewTypes'
  BY <1>1, SafetyAssumption DEF ViewInv, ViewTypes, View!Turns
<1>5. \A t \in View!Turns : Asked(t)'
  BY <1>1, <1>2, <1>3, SafetyAssumption DEF ViewInv, ViewTypes, Asked, View!Turns
<1>6. \A c \in Conversations : Settled(c)' => Settled(c)
  <2>1. ask[n].here = "unused"
    BY <1>1, SafetyAssumption DEF ViewInv, ViewTypes, Asked, View!Turns
  <2> QED
    BY <1>1, <1>2, <2>1 DEF Settled
<1> QED
  BY <1>4, <1>5, <1>6 DEF ViewInv, Absent, Fresh, Watched

(* Every handler, effect and continuation of the page keeps the invariant. *)
LEMMA ViewStep ==
    ASSUME ViewInv, [View!Next]_View!vars
    PROVE  ViewInv'
<1> USE NoneIsNoRows DEF View!asking, View!cache, View!linking
<1>1. ASSUME NEW c \in Conversations, View!Select(c)
      PROVE  ViewInv'
  BY <1>1, ShowKeeps DEF View!Select, View!Exists
<1>2. ASSUME NEW c \in Conversations, View!LinkCreated(c)
      PROVE  ViewInv'
  <2>1. stored[c] = None /\ stored' = [stored EXCEPT ![c] = <<>>]
        /\ UNCHANGED <<gone, ask, asks, change, missed>>
    BY <1>2 DEF View!LinkCreated
  <2>2. CASE View!Show(c)
    BY <2>1, <2>2, ShowKeeps
  <2>3. CASE UNCHANGED <<selected, stream, data, stale, failing, load>>
    <3>1. ViewTypes'
      BY <2>1, <2>3 DEF ViewInv, ViewTypes
    <3>2. \A e \in Conversations : (Absent(e) /\ Fresh(e))'
      BY <2>1, <2>3 DEF ViewInv, ViewTypes, Absent, Fresh, Settled
    <3> QED
      BY <2>1, <2>3, <3>1, <3>2 DEF ViewInv, Asked, Watched
  <2> QED
    BY <1>2, <2>2, <2>3 DEF View!LinkCreated
<1>3. CASE View!Created
  <2>1. /\ change.kind = "create" /\ View!Show(change.of) /\ change' = View!NoChange
        /\ UNCHANGED <<stored, gone, ask, asks, missed>>
    BY <1>3 DEF View!Created
  <2>2. change.of \in Conversations /\ stored[change.of] # None
    BY <2>1 DEF ViewInv, ViewTypes
  <2> QED
    BY <2>1, <2>2, ShowKeeps
<1>4. CASE View!Send \/ View!PickSuggestion
  BY <1>4, AskKeeps DEF View!Send, View!PickSuggestion
<1>5. CASE View!ConsumeQuestion
  <2>1. CASE View!Ask(selected)
    BY <1>5, <2>1, AskKeeps DEF View!ConsumeQuestion
  <2>2. CASE UNCHANGED <<ask, asks, stream>>
    BY <1>5, <2>2 DEF View!ConsumeQuestion, ViewInv, ViewTypes, Asked, Absent, Fresh,
                       Settled, Watched
  <2> QED
    BY <1>5, <2>1, <2>2 DEF View!ConsumeQuestion
<1>6. ASSUME NEW t \in View!Turns, View!StoreQuestion(t) \/ View!StoreAnswer(t)
      PROVE  ViewInv'
  <2> DEFINE c == ask[t].of
  <2>1. PICK what \in {"question", "answer"}, how \in {"asked", "answered"} :
          /\ ask[t].here # "unused" \/ ask[t].there = "asked"
          /\ ask[t].there # "answered"
          /\ stored[c] # None /\ c \notin gone
          /\ stored' = [stored EXCEPT ![c] = Append(@, <<t, what>>)]
          /\ ask' = [ask EXCEPT ![t].there = how]
          /\ UNCHANGED <<gone, asks, selected, data, stale, failing, load, change, missed>>
    BY <1>6 DEF View!StoreQuestion, View!StoreAnswer, View!Exists
  <2>0. ask[t].here # "unused" /\ c \in Conversations /\ stored[c] \in Rows
    <3>1. ask[t].here # "unused"
      BY <2>1 DEF ViewInv, Asked
    <3> QED
      BY <2>1, <3>1 DEF ViewInv, ViewTypes, Asked
  <2>2. /\ ask'[t].of = ask[t].of /\ ask'[t].here = ask[t].here /\ ask'[t].there = how
        /\ \A u \in View!Turns : u # t => ask'[u] = ask[u]
    BY <2>1 DEF ViewInv, ViewTypes
  <2>3. ~Settled(c)
    BY <2>0, <2>1 DEF ViewInv, ViewTypes, Asked, Settled
  <2>4. /\ Append(stored[c], <<t, what>>) \in Rows
        /\ stored'[c] # None
        /\ \A e \in Conversations : e # c => stored'[e] = stored[e]
    <3>1. Append(stored[c], <<t, what>>) \in Rows
      BY <2>0 DEF Rows
    <3> QED
      BY <2>0, <2>1, <3>1 DEF ViewInv, ViewTypes
  <2>5. ViewTypes'
    <3>1. stored' \in [Conversations -> Rows \cup {None}]
      BY <2>0, <2>1, <2>4 DEF ViewInv, ViewTypes
    <3>2. ask' \in [View!Turns -> [of : Conversations \cup {None},
                                   here : {"unused", "pending", "answered", "failed"},
                                   there : {"none", "asked", "answered"}]]
      BY <2>1 DEF ViewInv, ViewTypes
    <3> QED
      BY <2>1, <2>4, <3>1, <3>2 DEF ViewInv, ViewTypes
  <2>6. \A u \in View!Turns : Asked(u)'
    BY <2>0, <2>1, <2>2 DEF ViewInv, Asked
  <2>7. \A e \in Conversations : Absent(e)'
    BY <2>0, <2>1, <2>4 DEF ViewInv, Absent
  <2>8. \A e \in Conversations : Settled(e)' => Settled(e) /\ e # c
    <3>1. /\ missed' = missed /\ gone' = gone
          /\ \A u \in View!Turns : ask'[u].of = ask[u].of /\ ask'[u].here = ask[u].here
      BY <2>1, <2>2
    <3>2. stored[c] # None /\ \A e \in Conversations : e # c => stored'[e] = stored[e]
      BY <2>1, <2>4
    <3>3. \A e \in Conversations : Settled(e)' => Settled(e)
      BY <3>1, <3>2 DEF Settled
    <3> QED
      BY <2>3, <3>3
  <2>9. \A e \in Conversations : Fresh(e)'
    BY <2>1, <2>4, <2>8 DEF ViewInv, Fresh
  <2> QED
    BY <2>1, <2>5, <2>6, <2>7, <2>9 DEF ViewInv, Watched
<1>7. ASSUME NEW t \in View!Turns, View!AnswerArrives(t)
      PROVE  ViewInv'
  <2>2. PICK c \in Conversations : c = ask[t].of
    BY <1>7 DEF View!AnswerArrives, ViewInv, ViewTypes, Asked
  <2>1. /\ ask[t].here = "pending" /\ ask[t].there = "answered"
        /\ ask' = [ask EXCEPT ![t].here = "answered"]
        /\ stale' = stale \cup {c}
        /\ load' = IF c = selected THEN View!Reload(c) ELSE load
        /\ missed' = IF load[c].at # "idle" /\ (c # selected \/ data[c] = None)
                     THEN missed \cup ({c} \ gone) ELSE missed
        /\ UNCHANGED <<stored, gone, asks, selected, data, failing, change>>
    BY <1>7, <2>2 DEF View!AnswerArrives
  <2>3. /\ ask'[t].of = c /\ ask'[t].here = "answered" /\ ask'[t].there = "answered"
        /\ \A u \in View!Turns : u # t => ask'[u] = ask[u]
    BY <2>1, <2>2 DEF ViewInv, ViewTypes
  <2>4. /\ load' \in [Conversations -> [at : {"idle", "sent", "read"}, rows : Rows]]
        /\ \A e \in Conversations : e # c => load'[e] = load[e]
        /\ \/ load'[c] = load[c] /\ (c # selected \/ (load[c].at # "idle" /\ data[c] = None))
           \/ load'[c].at = "sent" /\ c = selected
    <3>1. CASE c # selected
      <4>1. load' = load
        BY <2>1, <3>1
      <4> QED
        BY <2>2, <3>1, <4>1 DEF ViewInv, ViewTypes
    <3>2. CASE c = selected /\ data[c] = None /\ load[c].at # "idle"
      <4>1. load' = load
        BY <2>1, <3>2 DEF View!Reload
      <4> QED
        BY <2>2, <3>2, <4>1 DEF ViewInv, ViewTypes
    <3>3. CASE c = selected /\ ~ (data[c] = None /\ load[c].at # "idle")
      <4>1. load' = [load EXCEPT ![c] = [View!NoLoad EXCEPT !.at = "sent"]]
        BY <2>1, <3>3 DEF View!Reload
      <4> QED
        BY <2>2, <3>3, <4>1 DEF View!NoLoad, ViewInv, ViewTypes
    <3> QED
      BY <3>1, <3>2, <3>3
  <2>5. missed \subseteq missed' /\ missed' \subseteq Conversations
        /\ (load'[c].at = "read" => c \in missed' \cup gone)
    BY <2>1, <2>2, <2>4 DEF ViewInv, ViewTypes
  <2>6. ViewTypes'
    <3>1. ask' \in [View!Turns -> [of : Conversations \cup {None},
                                   here : {"unused", "pending", "answered", "failed"},
                                   there : {"none", "asked", "answered"}]]
      BY <2>1 DEF ViewInv, ViewTypes
    <3> QED
      BY <2>1, <2>2, <2>4, <2>5, <3>1 DEF ViewInv, ViewTypes
  <2>7. \A u \in View!Turns : Asked(u)'
    BY <2>1, <2>2, <2>3, <2>5 DEF ViewInv, Asked
  <2>8. \A e \in Conversations : Absent(e)'
    BY <2>1, <2>2, <2>4 DEF ViewInv, Absent
  <2>9. \A e \in Conversations : Fresh(e)'
    <3>1. ASSUME NEW e \in Conversations, e # c
          PROVE  Fresh(e)'
      <4>1. Settled(e)' => Settled(e)
        BY <2>1, <2>2, <2>3, <2>5, <3>1 DEF Settled
      <4> QED
        BY <2>1, <2>2, <2>4, <3>1, <4>1 DEF ViewInv, Fresh
    <3>2. Fresh(c)'
      BY <2>1, <2>5 DEF Fresh, Settled
    <3> QED
      BY <2>2, <3>1, <3>2
  <2>10. Watched'
    <3>1. CASE selected = c
      BY <2>1, <2>4, <3>1 DEF Watched
    <3>2. CASE selected # c
      BY <2>1, <2>2, <2>4, <3>2 DEF ViewInv, ViewTypes, Watched
    <3> QED
      BY <3>1, <3>2
  <2> QED
    BY <2>6, <2>7, <2>8, <2>9, <2>10 DEF ViewInv
<1>8. ASSUME NEW t \in View!Turns, View!AskFails(t)
      PROVE  ViewInv'
  <2>1. /\ ask[t].here = "pending" /\ ask' = [ask EXCEPT ![t].here = "failed"]
        /\ missed' = missed \cup ({ask[t].of} \ gone)
        /\ UNCHANGED <<stored, gone, asks, selected, data, stale, failing, load, change>>
    BY <1>8 DEF View!AskFails
  <2>2. ask[t].of \in Conversations
    BY <2>1 DEF ViewInv, ViewTypes, Asked
  <2>3. /\ ask'[t].of = ask[t].of /\ ask'[t].here = "failed" /\ ask'[t].there = ask[t].there
        /\ \A u \in View!Turns : u # t => ask'[u] = ask[u]
    BY <2>1 DEF ViewInv, ViewTypes
  <2>4. ViewTypes'
    <3>1. ask' \in [View!Turns -> [of : Conversations \cup {None},
                                   here : {"unused", "pending", "answered", "failed"},
                                   there : {"none", "asked", "answered"}]]
      BY <2>1 DEF ViewInv, ViewTypes
    <3> QED
      BY <2>1, <2>2, <3>1 DEF ViewInv, ViewTypes
  <2>5. \A u \in View!Turns : Asked(u)'
    BY <2>1, <2>2, <2>3 DEF ViewInv, Asked
  <2>6. \A e \in Conversations : Settled(e)' => Settled(e)
    BY <2>1, <2>2, <2>3 DEF Settled
  <2> QED
    BY <2>1, <2>4, <2>5, <2>6 DEF ViewInv, Absent, Fresh, Watched
<1>9. ASSUME NEW c \in Conversations,
             View!ReadMessages(c) \/ View!MessagesArrive(c) \/ View!LoadFails(c)
      PROVE  ViewInv'
  <2>1. UNCHANGED <<stored, gone, ask, asks, selected, change, missed>>
    BY <1>9 DEF View!ReadMessages, View!MessagesArrive, View!LoadFails
  <2>2. \A e \in Conversations : Settled(e)' <=> Settled(e)
    BY <2>1 DEF Settled
  <2>3. \A t \in View!Turns : Asked(t)'
    BY <2>1 DEF ViewInv, Asked
  <2>4. CASE View!ReadMessages(c)
    <3>1. /\ load[c].at = "sent" /\ stored[c] \in Rows
          /\ load' = [load EXCEPT ![c] = [at |-> "read", rows |-> stored[c]]]
          /\ UNCHANGED <<data, stale, failing>>
      BY <2>4 DEF View!ReadMessages, View!Exists, ViewInv, ViewTypes
    <3>2. load'[c] = [at |-> "read", rows |-> stored[c]]
          /\ \A e \in Conversations : e # c => load'[e] = load[e]
      BY <3>1 DEF ViewInv, ViewTypes
    <3>3. ViewTypes'
      BY <2>1, <3>1 DEF ViewInv, ViewTypes
    <3>4. \A e \in Conversations : (Absent(e) /\ Fresh(e))'
      BY <2>1, <2>2, <3>1, <3>2 DEF ViewInv, Absent, Fresh
    <3> QED
      BY <2>1, <2>3, <3>1, <3>2, <3>3, <3>4 DEF ViewInv, ViewTypes, Watched
  <2>5. CASE View!MessagesArrive(c)
    <3>1. /\ load[c].at = "read" /\ data' = [data EXCEPT ![c] = load[c].rows]
          /\ stale' = stale \ {c} /\ failing' = failing \ {c}
          /\ load' = [load EXCEPT ![c] = View!NoLoad]
      BY <2>5 DEF View!MessagesArrive
    <3>2. /\ load'[c] = View!NoLoad /\ data'[c] = load[c].rows /\ data'[c] \in Rows
          /\ \A e \in Conversations : e # c => load'[e] = load[e] /\ data'[e] = data[e]
      BY <3>1 DEF ViewInv, ViewTypes
    <3>3. ViewTypes'
      BY <2>1, <3>1, <3>2 DEF ViewInv, ViewTypes, View!NoLoad
    <3>4. \A e \in Conversations : (Absent(e) /\ Fresh(e))'
      BY <2>1, <2>2, <3>1, <3>2 DEF ViewInv, Absent, Fresh, View!NoLoad
    <3> QED
      BY <2>1, <2>3, <3>1, <3>2, <3>3, <3>4 DEF ViewInv, ViewTypes, Watched
  <2>6. CASE View!LoadFails(c)
    <3>1. /\ load[c].at # "idle" /\ data' = data
          /\ stale' = stale \cup {c} /\ failing' = failing \cup {c}
          /\ load' = [load EXCEPT ![c] = View!NoLoad]
      BY <2>6 DEF View!LoadFails
    <3>2. /\ load'[c] = View!NoLoad
          /\ \A e \in Conversations : e # c => load'[e] = load[e]
      BY <3>1 DEF ViewInv, ViewTypes
    <3>3. ViewTypes'
      BY <2>1, <3>1, <3>2 DEF ViewInv, ViewTypes, View!NoLoad
    <3>4. \A e \in Conversations : (Absent(e) /\ Fresh(e))'
      BY <2>1, <2>2, <3>1, <3>2 DEF ViewInv, Absent, Fresh, View!NoLoad
    <3> QED
      BY <2>1, <2>3, <3>1, <3>2, <3>3, <3>4 DEF ViewInv, ViewTypes, Watched
  <2> QED
    BY <1>9, <2>4, <2>5, <2>6
<1>10. ASSUME NEW c \in Conversations, View!Create(c)
       PROVE  ViewInv'
  <2>1. /\ stored[c] = None /\ stored' = [stored EXCEPT ![c] = <<>>]
        /\ change' = [kind |-> "create", of |-> c]
        /\ UNCHANGED <<gone, ask, asks, selected, data, stale, failing, load, missed>>
    BY <1>10 DEF View!Create
  <2>2. stored'[c] = <<>> /\ \A e \in Conversations : e # c => stored'[e] = stored[e]
    BY <2>1 DEF ViewInv, ViewTypes
  <2>3. ViewTypes'
    BY <2>1, <2>2 DEF ViewInv, ViewTypes
  <2>4. \A e \in Conversations : (Absent(e) /\ Fresh(e))'
    BY <2>1, <2>2 DEF ViewInv, Absent, Fresh, Settled
  <2> QED
    BY <2>1, <2>3, <2>4 DEF ViewInv, Asked, Watched
<1>11. ASSUME NEW c \in Conversations, View!Delete(c)
       PROVE  ViewInv'
  <2>1. /\ gone' = gone \cup {c} /\ change' = [kind |-> "delete", of |-> c]
        /\ missed' = missed \ {c}
        /\ UNCHANGED <<stored, ask, asks, selected, data, stale, failing, load>>
    BY <1>11 DEF View!Delete
  <2>2. ViewTypes'
    BY <2>1 DEF ViewInv, ViewTypes
  <2>3. \A e \in Conversations : Settled(e)' => Settled(e)
    BY <2>1 DEF Settled
  <2>4. \A t \in View!Turns : Asked(t)'
    BY <2>1 DEF ViewInv, Asked
  <2> QED
    BY <2>1, <2>2, <2>3, <2>4 DEF ViewInv, Absent, Fresh, Watched
<1>12. CASE View!Deleted
  <2> DEFINE c == change.of
  <2>1. /\ change.kind = "delete" /\ data' = [data EXCEPT ![c] = None]
        /\ stale' = stale \ {c} /\ failing' = failing \ {c}
        /\ load' = [load EXCEPT ![c] = View!NoLoad] /\ change' = View!NoChange
        /\ selected' = IF c = selected THEN None ELSE selected
        /\ UNCHANGED <<stored, gone, ask, asks, missed>>
    BY <1>12 DEF View!Deleted
  <2>2. c \in gone /\ c \in Conversations
    BY <2>1 DEF ViewInv, ViewTypes
  <2>3. /\ load'[c] = View!NoLoad /\ data'[c] = None
        /\ \A e \in Conversations : e # c => load'[e] = load[e] /\ data'[e] = data[e]
    BY <2>1, <2>2 DEF ViewInv, ViewTypes
  <2>4. ViewTypes'
    BY <2>1, <2>2 DEF ViewInv, ViewTypes, View!NoLoad, View!NoChange
  <2>5. \A e \in Conversations : (Absent(e) /\ Fresh(e))'
    BY <2>1, <2>2, <2>3 DEF ViewInv, ViewTypes, Absent, Fresh, Settled, View!NoLoad
  <2> QED
    BY <2>1, <2>3, <2>4, <2>5 DEF ViewInv, ViewTypes, Asked, Watched
<1>13. CASE View!StreamEnds \/ View!ChangeFails \/ View!Render \/ View!LinkFails
            \/ UNCHANGED View!vars
  <2>1. /\ change' \in {change, View!NoChange}
        /\ UNCHANGED <<stored, gone, ask, asks, selected, data, stale, failing, load, missed>>
    BY <1>13 DEF View!StreamEnds, View!ChangeFails, View!Render, View!LinkFails, View!vars
  <2>2. ViewTypes'
    BY <2>1 DEF ViewInv, ViewTypes, View!NoChange
  <2> QED
    BY <2>1, <2>2 DEF ViewInv, Asked, Absent, Fresh, Settled, Watched
<1> QED
  BY <1>1, <1>2, <1>3, <1>4, <1>5, <1>6, <1>7, <1>8, <1>9, <1>10, <1>11, <1>12, <1>13
  DEF View!Next

(***************************************************************************)
(* Once the questions of the selected conversation are answered and its    *)
(* messages loaded, the page shows what the backend has (ShownIsStored),   *)
(* but for the conversations the model names: a load that failed, a        *)
(* question that failed here, an answer that found a load it could not     *)
(* restart. For any conversations and number of questions, however loads,  *)
(* answers, deletions and selections interleave (features/chat/hooks,      *)
(* ChatPage.tsx).                                                          *)
(***************************************************************************)
THEOREM PageShowsWhatIsStored == SafetySpec => []ShownIsStored
<1>1. ViewInv => ShownIsStored
  BY NoneIsNoRows DEF ViewInv, ViewTypes, Absent, Fresh, Settled, Watched, ShownIsStored,
     View!ShownIsStored
<1>2. ViewInv /\ [SafetyNext]_allVars => ViewInv'
  <2> SUFFICES ASSUME ViewInv, [SafetyNext]_allVars
               PROVE  ViewInv'
    OBVIOUS
  <2>1. [View!Next]_View!vars
    BY DEF SafetyNext, Administer, Limit, Cut, Chat, allVars, viewVars, View!vars,
       View!asking, View!cache, View!linking
  <2> QED
    BY <2>1, ViewStep
<1> QED
  BY <1>1, <1>2, ViewInit, PTL DEF SafetySpec, SafetyInit

-----------------------------------------------------------------------------
(***************************************************************************)
(* The rate limiter. The bucket forgets calls; the invariant says what may *)
(* be forgotten, and that calls which are a budget apart are a window      *)
(* apart.                                                                  *)
(***************************************************************************)
(* A call let through, and how many of them have left the bucket.          *)
Grant == [stamp : Nat, at : Nat]
Left == Len(granted) - Len(bucket)

(* Types; the bucket never exceeds the budget, nor what was let through.   *)
RateTypes ==
    /\ now \in Nat
    /\ stamp \in [Callers -> Nat]
    /\ bucket \in Seq(Nat)
    /\ granted \in Seq(Grant)
    /\ Len(bucket) <= MaxCalls /\ Len(bucket) <= Len(granted)

(* The bucket is the tail of what was let through.                         *)
Bucketed == \A j \in 1..Len(bucket) : bucket[j] = granted[Left + j].stamp

(* What has left the bucket is a window older than the last call.          *)
Outdated ==
    Rate!InOrder => \A i \in 1..Left : granted[i].stamp + Window <= granted[Len(granted)].stamp

(* Calls a budget apart in order are a window apart in time.               *)
Spaced ==
    Rate!InOrder => \A i \in 1..Len(granted) : \A j \in 1..Len(granted) :
        i + MaxCalls <= j => granted[i].stamp + Window <= granted[j].stamp

(* The inductive invariant.                                                *)
RateInv == RateTypes /\ Bucketed /\ Outdated /\ Spaced

(* A set of natural numbers has a smallest one.                            *)
LEMMA Smallest ==
    ASSUME NEW T \in SUBSET Nat, T # {}
    PROVE  \E n \in T : \A m \in T : n <= m
<1>1. PICK x \in T : \A y \in T : ~ (<<y, x>> \in OpToRel(<, Nat))
  BY NatLessThanWellFounded, WFMin
<1>2. \A m \in T : m < x => <<m, x>> \in OpToRel(<, Nat)
  BY DEF OpToRel
<1>3. \A m \in T : ~ (m < x)
  BY <1>1, <1>2
<1> QED
  BY <1>3

(* The loop that drops events from the head: all it drops are out of the   *)
(* window, whether the list is sorted or not.                              *)
LEMMA ExpiredIs ==
    ASSUME NEW reading \in Nat, NEW events \in Seq(Nat)
    PROVE  LET n == Rate!Expired(reading, events)
           IN  /\ n \in 0..Len(events)
               /\ \A i \in 1..n : events[i] + Window <= reading
<1> DEFINE P(n) == /\ \A i \in 1..n : events[i] + Window <= reading
                   /\ n < Len(events) => events[n + 1] + Window > reading
           T == {n \in 0..Len(events) : n < Len(events) => events[n + 1] + Window > reading}
<1>1. Len(events) \in T /\ T \in SUBSET Nat
  OBVIOUS
<1>2. PICK n \in T : \A m \in T : n <= m
  <2> HIDE DEF T
  <2> QED
    BY <1>1, Smallest
<1>3. \A i \in 1..n : events[i] + Window <= reading
  <2> SUFFICES ASSUME NEW i \in 1..n
               PROVE  events[i] + Window <= reading
    OBVIOUS
  <2>1. i - 1 \in 0..Len(events) /\ (i - 1) + 1 = i /\ i - 1 < n /\ i - 1 < Len(events)
    BY <1>1, <1>2
  <2>3. i - 1 \notin T
    <3> HIDE DEF T
    <3> QED
      BY <1>1, <1>2, <2>1
  <2>2. events[i] \in Nat /\ Window \in Nat
    BY SafetyAssumption
  <2> QED
    BY <2>1, <2>2, <2>3
<1>4. n \in 0..Len(events) /\ P(n)
  BY <1>2, <1>3
<1>5. Rate!Expired(reading, events) = CHOOSE m \in 0..Len(events) : P(m)
  BY DEF Rate!Expired
<1> HIDE DEF P, T
<1>6. LET m == CHOOSE m \in 0..Len(events) : P(m)
      IN  m \in 0..Len(events) /\ P(m)
  BY <1>4
<1> QED
  BY <1>5, <1>6 DEF P

(* What it leaves is the list without that many events.                    *)
LEMMA RemainingIs ==
    ASSUME NEW reading \in Nat, NEW events \in Seq(Nat)
    PROVE  \E n \in 0..Len(events) :
              /\ \A i \in 1..n : events[i] + Window <= reading
              /\ Rate!Remaining(reading, events) \in Seq(Nat)
              /\ Len(Rate!Remaining(reading, events)) = Len(events) - n
              /\ \A j \in 1..(Len(events) - n) :
                    Rate!Remaining(reading, events)[j] = events[n + j]
<1> DEFINE n == Rate!Expired(reading, events)
<1>1. n \in 0..Len(events) /\ \A i \in 1..n : events[i] + Window <= reading
  BY ExpiredIs
<1>2. Rate!Remaining(reading, events) = SubSeq(events, n + 1, Len(events))
  BY DEF Rate!Remaining
<1> HIDE DEF n
<1>3. /\ SubSeq(events, n + 1, Len(events)) \in Seq(Nat)
      /\ Len(SubSeq(events, n + 1, Len(events))) = Len(events) - n
      /\ \A j \in 1..(Len(events) - n) : SubSeq(events, n + 1, Len(events))[j] = events[n + j]
  BY <1>1
<1> QED
  BY <1>1, <1>2, <1>3

(* An empty bucket, nothing let through.                                   *)
LEMMA RateInit == Rate!Init => RateInv
  BY SafetyAssumption DEF Rate!Init, RateInv, RateTypes, Bucketed, Outdated, Spaced, Left

(* A call let through: whatever it drops, and what was dropped before, is  *)
(* a window older than its reading, provided that readings are in order.   *)
LEMMA AllowKeeps ==
    ASSUME RateInv, NEW c \in Callers, Rate!Allow(c)
    PROVE  RateInv'
<1>0. PICK s, N, B, L : s = stamp[c] /\ N = Len(granted) /\ B = Len(bucket) /\ L = N - B
  OBVIOUS
<1>1. PICK n \in 0..Len(bucket), left \in Seq(Nat) :
        /\ \A i \in 1..n : bucket[i] + Window <= s
        /\ n <= B /\ Len(left) = B - n
        /\ \A j \in 1..(B - n) : left[j] = bucket[n + j]
        /\ left = Rate!Remaining(s, bucket)
  <2>1. s \in Nat /\ bucket \in Seq(Nat)
    BY <1>0 DEF RateInv, RateTypes
  <2>2. PICK n \in 0..Len(bucket) :
          /\ \A i \in 1..n : bucket[i] + Window <= s
          /\ Rate!Remaining(s, bucket) \in Seq(Nat)
          /\ Len(Rate!Remaining(s, bucket)) = Len(bucket) - n
          /\ \A j \in 1..(Len(bucket) - n) : Rate!Remaining(s, bucket)[j] = bucket[n + j]
    BY <2>1, RemainingIs
  <2>3. n <= B
    BY <1>0, <2>1
  <2> QED
    BY <1>0, <2>2, <2>3
<1>2. /\ Len(left) < MaxCalls
      /\ bucket' = Append(left, s)
      /\ granted' = Append(granted, [stamp |-> s, at |-> now])
      /\ stamp' = [stamp EXCEPT ![c] = 0] /\ now' = now
  BY <1>0, <1>1 DEF Rate!Allow, Rate!Allowed, Rate!Answered
<1>3. /\ s \in Nat /\ now \in Nat /\ N \in Nat /\ B \in Nat /\ B <= N /\ B <= MaxCalls
      /\ MaxCalls \in Nat /\ Window \in Nat /\ n \in Nat
  BY <1>0, SafetyAssumption DEF RateInv, RateTypes
<1>4. /\ granted' \in Seq(Grant) /\ Len(granted') = N + 1
      /\ \A i \in 1..N : granted'[i] = granted[i]
      /\ granted'[N + 1] = [stamp |-> s, at |-> now]
  <2>1. [stamp |-> s, at |-> now] \in Grant
    BY <1>3 DEF Grant
  <2> QED
    BY <1>0, <1>2, <1>3, <2>1 DEF RateInv, RateTypes
<1>5. /\ bucket' \in Seq(Nat) /\ Len(bucket') = B - n + 1
      /\ \A j \in 1..(B - n) : bucket'[j] = bucket[n + j]
      /\ bucket'[B - n + 1] = s
  <2>1. B = Len(bucket) /\ B - n \in Nat
    BY <1>0, <1>1, <1>3
  <2>2. Len(left) = B - n
    BY <1>1
  <2> QED
    BY <1>1, <1>2, <1>3, <2>1, <2>2
<1>6. RateTypes'
  <2>1. now' \in Nat /\ stamp' \in [Callers -> Nat]
    BY <1>0, <1>2, <1>3 DEF RateInv, RateTypes
  <2>2. Len(bucket') <= Len(granted')
    <3>1. B - n + 1 <= N + 1
      BY <1>3
    <3> QED
      BY <1>4, <1>5, <3>1
  <2>3. Len(bucket') <= MaxCalls
    <3>1. Len(left) = B - n
      BY <1>1
    <3>2. B - n < MaxCalls
      BY <1>2, <3>1
    <3>3. B - n + 1 <= MaxCalls
      BY <1>3, <3>2
    <3> QED
      BY <1>5, <3>3
  <2> QED
    BY <1>4, <1>5, <2>1, <2>2, <2>3 DEF RateTypes
<1>7. /\ \A i \in 1..N : granted'[i].stamp = granted[i].stamp /\ granted[i].stamp \in Nat
      /\ granted'[N + 1].stamp = s
  <2>1. \A i \in 1..N : granted[i] \in Grant
    BY <1>0 DEF RateInv, RateTypes
  <2> QED
    <3>1. \A i \in 1..N : granted'[i].stamp = granted[i].stamp
      BY <1>4
    <3>2. \A i \in 1..N : granted[i].stamp \in Nat
      BY <2>1 DEF Grant
    <3>3. granted'[N + 1].stamp = s
      BY <1>4
    <3> QED
      BY <3>1, <3>2, <3>3
<1>8. Left' = L + n /\ Left = L /\ L \in Nat /\ L = N - B
  BY <1>0, <1>3, <1>4, <1>5 DEF Left
<1>9. Bucketed'
  <2> SUFFICES ASSUME NEW j \in 1..(B - n + 1)
               PROVE  bucket'[j] = granted'[L + n + j].stamp
    BY <1>4, <1>5, <1>8 DEF Bucketed
  <2>1. CASE j = B - n + 1
    <3>1. L + n + j = N + 1
      BY <1>3, <1>8, <2>1
    <3>2. bucket'[j] = s
      BY <1>5, <2>1
    <3>3. granted'[L + n + j].stamp = s
      BY <1>7, <3>1
    <3> QED
      BY <3>2, <3>3
  <2>2. CASE j \in 1..(B - n)
    <3>1. n + j \in 1..B /\ L + (n + j) \in 1..N
      BY <1>3, <1>8, <2>2
    <3>2. bucket[n + j] = granted[L + (n + j)].stamp
      BY <1>0, <1>8, <3>1 DEF RateInv, Bucketed
    <3>3. bucket'[j] = bucket[n + j]
      BY <1>5, <2>2
    <3>4. granted'[L + (n + j)].stamp = granted[L + (n + j)].stamp
      BY <1>7, <3>1
    <3>5. L + n + j = L + (n + j)
      BY <1>3, <1>8, <2>2
    <3> QED
      BY <3>2, <3>3, <3>4, <3>5
  <2>3. B - n \in Nat
    BY <1>3, <1>5
  <2>4. j = B - n + 1 \/ j \in 1..(B - n)
    BY <2>3
  <2> QED
    BY <2>1, <2>2, <2>4
<1>10. ASSUME Rate!InOrder'
       PROVE  /\ Rate!InOrder
              /\ N > 0 => granted[N].stamp <= s
  <2>1. \A i \in 1..N : granted'[i].stamp <= granted'[i + 1].stamp
    BY <1>3, <1>4, <1>10 DEF Rate!InOrder
  <2>2. ASSUME NEW i \in 1..(N - 1)
        PROVE  granted[i].stamp <= granted[i + 1].stamp
    <3>1. i \in 1..N /\ i + 1 \in 1..N
      BY <1>3
    <3>2. granted'[i].stamp <= granted'[i + 1].stamp
      BY <2>1, <3>1
    <3> QED
      BY <1>7, <3>1, <3>2
  <2>3. Rate!InOrder
    BY <1>0, <2>2 DEF Rate!InOrder
  <2>4. ASSUME N > 0
        PROVE  granted[N].stamp <= s
    <3>1. N \in 1..N
      BY <1>3, <2>4
    <3>2. granted'[N].stamp <= granted'[N + 1].stamp
      BY <2>1, <3>1
    <3> QED
      BY <1>7, <3>1, <3>2
  <2> QED
    BY <2>3, <2>4
<1>11. ASSUME Rate!InOrder'
       PROVE  \A i \in 1..(L + n) : granted[i].stamp + Window <= s
  <2> SUFFICES ASSUME NEW i \in 1..(L + n)
               PROVE  granted[i].stamp + Window <= s
    OBVIOUS
  <2>1. CASE i <= L
    <3>1. /\ granted[i].stamp + Window <= granted[N].stamp /\ granted[N].stamp <= s
          /\ i \in 1..N /\ N \in 1..N
      BY <1>0, <1>3, <1>8, <1>10, <1>11, <2>1 DEF RateInv, Outdated
    <3> QED
      BY <1>3, <1>7, <3>1
  <2>2. CASE i > L
    <3>1. i - L \in 1..n /\ i - L \in 1..B /\ L + (i - L) = i
      BY <1>1, <1>3, <1>8, <2>2
    <3>2. bucket[i - L] = granted[i].stamp
      BY <1>0, <1>8, <3>1 DEF RateInv, Bucketed
    <3> QED
      BY <1>1, <3>1, <3>2
  <2> QED
    BY <1>3, <1>8, <2>1, <2>2
<1>12. Outdated'
  <2> SUFFICES ASSUME Rate!InOrder', NEW i \in 1..(L + n)
               PROVE  granted'[i].stamp + Window <= granted'[N + 1].stamp
    BY <1>4, <1>8 DEF Outdated
  <2>1. i \in 1..N
    BY <1>1, <1>3, <1>8
  <2> QED
    BY <1>7, <1>11, <2>1
<1>13. Spaced'
  <2> SUFFICES ASSUME Rate!InOrder', NEW i \in 1..(N + 1), NEW j \in 1..(N + 1),
                      i + MaxCalls <= j
               PROVE  granted'[i].stamp + Window <= granted'[j].stamp
    BY <1>4 DEF Spaced
  <2>1. CASE j \in 1..N
    <3>1. i \in 1..N
      BY <1>3, <2>1
    <3> QED
      BY <1>0, <1>7, <1>10, <2>1, <3>1 DEF RateInv, Spaced
  <2>2. CASE j = N + 1
    <3>1. i \in 1..(L + n) /\ i \in 1..N
      BY <1>1, <1>2, <1>3, <1>8, <2>2
    <3> QED
      BY <1>7, <1>11, <2>2, <3>1
  <2> QED
    BY <1>3, <2>1, <2>2
<1> QED
  BY <1>6, <1>9, <1>12, <1>13 DEF RateInv

(* Every step of the clock and of the callers keeps the invariant.         *)
LEMMA RateStep ==
    ASSUME RateInv, [Rate!Next]_Rate!vars
    PROVE  RateInv'
<1>1. ASSUME UNCHANGED <<bucket, granted>>, now' \in Nat, stamp' \in [Callers -> Nat]
      PROVE  RateInv'
  BY <1>1 DEF RateInv, RateTypes, Bucketed, Outdated, Spaced, Left, Rate!InOrder
<1>2. CASE Rate!Tick
  BY <1>1, <1>2 DEF Rate!Tick, RateInv, RateTypes
<1>3. ASSUME NEW c \in Callers, Rate!ReadClock(c)
      PROVE  RateInv'
  BY <1>1, <1>3 DEF Rate!ReadClock, RateInv, RateTypes
<1>4. ASSUME NEW c \in Callers, Rate!Allow(c)
      PROVE  RateInv'
  BY <1>4, AllowKeeps
<1>5. ASSUME NEW c \in Callers, Rate!Deny(c)
      PROVE  RateInv'
  <2>1. /\ bucket' = Rate!Remaining(stamp[c], bucket) /\ ~ (Len(bucket') < MaxCalls)
        /\ stamp' = [stamp EXCEPT ![c] = 0] /\ UNCHANGED <<now, granted>>
    BY <1>5 DEF Rate!Deny, Rate!Allowed, Rate!Answered
  <2>0. stamp[c] \in Nat /\ bucket \in Seq(Nat)
    BY DEF RateInv, RateTypes
  <2>2. PICK n \in 0..Len(bucket) :
          /\ bucket' \in Seq(Nat) /\ Len(bucket') = Len(bucket) - n
          /\ \A j \in 1..(Len(bucket) - n) : bucket'[j] = bucket[n + j]
    BY <2>0, <2>1, RemainingIs
  <2>3. n = 0
    BY <2>1, <2>2, SafetyAssumption DEF RateInv, RateTypes
  <2>4. bucket' = bucket
    <3>1. Len(bucket') = Len(bucket) /\ \A j \in 1..Len(bucket) : bucket'[j] = bucket[j]
      BY <2>0, <2>2, <2>3
    <3> QED
      BY <2>0, <2>2, <3>1, SeqEqual
  <2> QED
    BY <1>1, <2>1, <2>4 DEF RateInv, RateTypes
<1>6. CASE UNCHANGED Rate!vars
  BY <1>1, <1>6 DEF Rate!vars, RateInv, RateTypes
<1> QED
  BY <1>2, <1>3, <1>4, <1>5, <1>6 DEF Rate!Next

(* The invariant, in every reachable state.                                *)
LEMMA RateSafety == SafetySpec => []RateInv
<1>1. RateInv /\ [SafetyNext]_allVars => RateInv'
  <2> SUFFICES ASSUME RateInv, [SafetyNext]_allVars
               PROVE  RateInv'
    OBVIOUS
  <2>1. [Rate!Next]_Rate!vars
    BY DEF SafetyNext, Administer, Limit, Cut, Chat, allVars, rateVars, Rate!vars
  <2> QED
    BY <2>1, RateStep
<1> QED
  BY <1>1, RateInit, PTL DEF SafetySpec, SafetyInit

(* Positions less than a budget apart are no more than the budget.         *)
LEMMA NarrowIsSmall ==
    ASSUME NEW S \in SUBSET Nat, \A i, j \in S : i < j + MaxCalls
    PROVE  Cardinality(S) <= MaxCalls
<1>1. CASE S = {}
  BY <1>1, SafetyAssumption, FS_EmptySet
<1>2. CASE S # {}
  <2>1. PICK m \in S : \A j \in S : m <= j
    BY <1>2, Smallest
  <2> DEFINE I == m..(m + MaxCalls - 1)
  <2>2. m \in Nat /\ MaxCalls \in Nat /\ m \in Int /\ m + MaxCalls - 1 \in Int
    BY SafetyAssumption
  <2>3. S \subseteq I
    BY <2>1, <2>2
  <2>4. IsFiniteSet(I) /\ Cardinality(I) = MaxCalls
    <3>1. IsFiniteSet(I) /\ Cardinality(I) = IF m > m + MaxCalls - 1 THEN 0
                                             ELSE (m + MaxCalls - 1) - m + 1
      BY <2>2, FS_Interval
    <3> QED
      BY <2>2, <3>1
  <2> HIDE DEF I
  <2>5. Cardinality(S) <= Cardinality(I)
    BY <2>3, <2>4, FS_Subset
  <2> QED
    BY <2>4, <2>5
<1> QED
  BY <1>1, <1>2

(***************************************************************************)
(* No window of time holds more calls than the budget (Budget), for any    *)
(* budget, window and number of callers, as long as callers reach the lock *)
(* in the order of their readings (InMemoryRateLimiter.is_allowed).        *)
(***************************************************************************)
THEOREM WindowsHoldBudget == SafetySpec => []Budget
<1>1. RateInv => Budget
  <2> SUFFICES ASSUME RateInv, Rate!InOrder, NEW t \in 1..MaxTime
               PROVE  Rate!Cardinality(Rate!InWindow(t)) <= MaxCalls
    BY DEF Budget, Rate!Budget
  <2> DEFINE S == Rate!InWindow(t)
  <2>1. \A i \in S : /\ i \in 1..Len(granted) /\ granted[i].stamp \in Nat
                     /\ granted[i].stamp <= t /\ granted[i].stamp + Window > t
    <3>1. \A i \in 1..Len(granted) : granted[i] \in Grant
      BY DEF RateInv, RateTypes
    <3> QED
      BY <3>1 DEF Rate!InWindow, Grant
  <2>2. S \in SUBSET Nat
    BY DEF Rate!InWindow
  <2> HIDE DEF S
  <2>3. ASSUME NEW i \in S, NEW j \in S
        PROVE  i < j + MaxCalls
    <3> SUFFICES ASSUME j + MaxCalls <= i
                 PROVE  FALSE
      BY <2>2, SafetyAssumption
    <3>1. granted[j].stamp + Window <= granted[i].stamp
      BY <2>1 DEF RateInv, Spaced
    <3> QED
      BY <2>1, <3>1, SafetyAssumption
  <2>4. Cardinality(S) <= MaxCalls
    BY <2>2, <2>3, NarrowIsSmall
  <2>5. Rate!Cardinality(S) = Cardinality(S)
    BY DEF Rate!Cardinality, Cardinality
  <2> QED
    BY <2>4, <2>5 DEF S
<1> QED
  BY <1>1, RateSafety, PTL

-----------------------------------------------------------------------------
(***************************************************************************)
(* Semantic chunking, for any blocks and thresholds: no text is lost, and  *)
(* headings stay with theirs.  The loops of the code are recursive         *)
(* functions over the parts of a block and over the blocks of a group.     *)
(* That such a function exists, and what it keeps, is shown by induction   *)
(* on the numbers up to a bound: the least number for which it fails is    *)
(* not 0 and not one more than a number for which it holds.                *)
(***************************************************************************)

(* Induction, for the numbers up to a bound.                               *)
LEMMA UpTo ==
    ASSUME NEW n \in Nat, NEW T, 0 \in T,
           \A k \in 0..n : k \in T /\ k + 1 <= n => k + 1 \in T
    PROVE  \A k \in 0..n : k \in T
<1> SUFFICES ASSUME (0..n) \ T # {}
             PROVE  FALSE
  OBVIOUS
<1>1. PICK k \in (0..n) \ T : \A m \in (0..n) \ T : k <= m
  <2> (0..n) \ T \in SUBSET Nat
    OBVIOUS
  <2> QED
    BY Smallest
<1>2. k # 0 /\ k - 1 \in 0..n /\ k - 1 \in T
  BY <1>1
<1> QED
  BY <1>1, <1>2

(* Induction over sequences that grow at their end.                        *)
LEMMA SeqInduction ==
    ASSUME NEW S, NEW T, <<>> \in T,
           \A s \in Seq(S), e \in S : s \in T => Append(s, e) \in T
    PROVE  \A s \in Seq(S) : s \in T
<1> SUFFICES ASSUME NEW s \in Seq(S)
             PROVE  s \in T
  OBVIOUS
<1> DEFINE n == Len(s)
           K == {k \in 0..n : \A r \in Seq(S) : Len(r) = k => r \in T}
<1>1. n \in Nat
  BY LenProperties
<1>2. 0 \in K
  BY <1>1, EmptySeq
<1>3. ASSUME NEW k \in 0..n, k \in K, k + 1 <= n
      PROVE  k + 1 \in K
  <2> SUFFICES ASSUME NEW r \in Seq(S), Len(r) = k + 1
               PROVE  r \in T
    BY <1>1, <1>3
  <2>1. r # <<>>
    BY EmptySeq
  <2>2. PICK q \in Seq(S), e \in S : r = Append(q, e)
    BY <2>1, SequenceEmptyOrAppend
  <2>3. Len(q) \in Nat /\ Len(r) = Len(q) + 1
    BY <2>2, AppendProperties, LenProperties
  <2>4. Len(q) = k
    BY <1>1, <2>3
  <2> QED
    BY <1>3, <2>2, <2>4
<1>4. \A k \in 0..n : k \in K
  <2> HIDE DEF n, K
  <2> QED
    BY <1>1, <1>2, <1>3, UpTo
<1> QED
  BY <1>1, <1>4

(* What FlattenSeq computes, one sequence after the other.                 *)
Flattening(seqs, f) ==
    f = [i \in 1..Len(seqs) |-> IF i = 1 THEN seqs[i] ELSE f[i - 1] \o seqs[i]]

(* The definition of FlattenSeq names a function that satisfies its        *)
(* equation: there is one.                                                 *)
LEMMA FlattenIs ==
    ASSUME NEW S, NEW seqs \in Seq(S)
    PROVE  \E f : /\ Flattening(seqs, f)
                  /\ Chunking!FlattenSeq(seqs) = IF Len(seqs) = 0 THEN seqs ELSE f[Len(seqs)]
<1> DEFINE n == Len(seqs)
           F(f, k) == f = [i \in 1..k |-> IF i = 1 THEN seqs[i] ELSE f[i - 1] \o seqs[i]]
           T == {k \in 0..n : \E f : F(f, k)}
<1>0. n \in Nat
  BY LenProperties
<1>1. 0 \in T
  <2>1. F([i \in {} |-> 0], 0)
    OBVIOUS
  <2>2. \E f : F(f, 0)
    BY <2>1
  <2>3. 0 \in 0..n
    BY <1>0
  <2> QED
    BY <2>2, <2>3, Zenon
<1>2. ASSUME NEW k \in 0..n, k \in T, k + 1 <= n
      PROVE  k + 1 \in T
  <2>1. PICK f : F(f, k)
    BY <1>2
  <2> DEFINE g == [i \in 1..(k + 1) |-> IF i = 1 THEN seqs[i] ELSE f[i - 1] \o seqs[i]]
  <2>2. \A i \in 1..k : f[i] = IF i = 1 THEN seqs[i] ELSE f[i - 1] \o seqs[i]
    BY <2>1
  <2>3. \A i \in 1..(k + 1) : g[i] = IF i = 1 THEN seqs[i] ELSE f[i - 1] \o seqs[i]
    OBVIOUS
  <2>4. \A i \in 1..k : g[i] = f[i]
    <3> HIDE DEF g
    <3>1. \A j \in 0..k : j \in 0..(k + 1)
      OBVIOUS
    <3> QED
      BY <2>2, <2>3, <3>1
  <2>5. \A i \in 1..(k + 1) : i # 1 => i - 1 \in 1..k
    BY <1>0
  <2>6. \A i \in 1..(k + 1) : i # 1 => f[i - 1] = g[i - 1]
    <3> HIDE DEF g
    <3> QED
      BY <2>4, <2>5
  <2>7. g = [i \in 1..(k + 1) |-> IF i = 1 THEN seqs[i] ELSE g[i - 1] \o seqs[i]]
    BY <2>6
  <2>8. \E h : F(h, k + 1)
    BY <2>7
  <2>9. k + 1 \in 0..n
    BY <1>0, <1>2
  <2> QED
    BY <2>8, <2>9
<1>3. \A k \in 0..n : k \in T
  <2> HIDE DEF n, F, T
  <2> QED
    BY <1>0, <1>1, <1>2, UpTo
<1>4. \E f : F(f, n)
  <2>1. n \in 0..n
    BY <1>0
  <2>2. n \in T
    BY <1>3, <2>1
  <2> QED
    BY <2>2, Zenon
<1> DEFINE h == CHOOSE f_1 : F(f_1, n)
<1>5. F(h, n)
  BY <1>4
<1>6. Flattening(seqs, h)
  BY <1>5 DEF Flattening
<1>7. Chunking!FlattenSeq(seqs) = IF n = 0 THEN seqs ELSE h[n]
  BY DEF Chunking!FlattenSeq
<1> QED
  BY <1>6, <1>7

(* FlattenSeq adds the last sequence at the end.                           *)
LEMMA FlattenAppend ==
    ASSUME NEW S, NEW seqs \in Seq(Seq(S)), NEW s \in Seq(S)
    PROVE  Chunking!FlattenSeq(Append(seqs, s)) = Chunking!FlattenSeq(seqs) \o s
<1> DEFINE more == Append(seqs, s)
           n == Len(seqs)
<1>1. n \in Nat /\ more \in Seq(Seq(S)) /\ Len(more) = n + 1
  BY LenProperties, AppendProperties
<1>2. (\A i \in 1..n : more[i] = seqs[i]) /\ more[n + 1] = s
  BY AppendProperties
<1>3. PICK f : /\ Flattening(seqs, f)
               /\ Chunking!FlattenSeq(seqs) = IF n = 0 THEN seqs ELSE f[n]
  BY FlattenIs
<1>4. PICK g : /\ Flattening(more, g)
               /\ Chunking!FlattenSeq(more) = IF n + 1 = 0 THEN more ELSE g[n + 1]
  BY <1>1, FlattenIs
<1>5. \A i \in 1..n : f[i] = IF i = 1 THEN seqs[i] ELSE f[i - 1] \o seqs[i]
  BY <1>3 DEF Flattening
<1>6. \A i \in 1..(n + 1) : g[i] = IF i = 1 THEN more[i] ELSE g[i - 1] \o more[i]
  BY <1>1, <1>4 DEF Flattening
<1> HIDE DEF more, n
<1>7. ASSUME n > 0
      PROVE  g[n] = f[n]
  <2> DEFINE T == {k \in 0..n : k > 0 => g[k] = f[k]}
  <2>1. 0 \in T
    BY <1>1
  <2>2. ASSUME NEW k \in 0..n, k \in T, k + 1 <= n
        PROVE  k + 1 \in T
    <3>1. k + 1 \in 1..n /\ k + 1 \in 1..(n + 1) /\ k + 1 - 1 = k /\ (k + 1 = 1 <=> k = 0)
      BY <1>1, <2>2
    <3>2. more[k + 1] = seqs[k + 1]
      BY <1>2, <3>1
    <3>3. k # 0 => g[k] = f[k]
      BY <2>2
    <3>4. f[k + 1] = IF k = 0 THEN seqs[k + 1] ELSE f[k] \o seqs[k + 1]
      BY <1>5, <3>1
    <3>5. g[k + 1] = IF k = 0 THEN more[k + 1] ELSE g[k] \o more[k + 1]
      BY <1>6, <3>1
    <3>6. g[k + 1] = f[k + 1]
      BY <3>2, <3>3, <3>4, <3>5
    <3> QED
      BY <2>2, <3>6
  <2>3. \A k \in 0..n : k \in T
    <3> HIDE DEF T
    <3> QED
      BY <1>1, <2>1, <2>2, UpTo
  <2> QED
    BY <1>1, <1>7, <2>3
<1>8. CASE n = 0
  <2>1. g[n + 1] = s
    BY <1>1, <1>2, <1>6, <1>8
  <2>2. seqs = <<>>
    BY <1>8, EmptySeq DEF n
  <2>3. <<>> \o s = s
    BY ConcatEmptySeq
  <2> QED
    BY <1>1, <1>3, <1>4, <1>8, <2>1, <2>2, <2>3 DEF more
<1>9. CASE n # 0
  <2>1. g[n + 1] = g[n] \o s
    <3>1. n + 1 \in 1..(n + 1) /\ n + 1 # 1 /\ (n + 1) - 1 = n
      BY <1>1, <1>9
    <3> QED
      BY <1>2, <1>6, <3>1
  <2>2. g[n] = f[n]
    BY <1>1, <1>7, <1>9
  <2> QED
    BY <1>1, <1>3, <1>4, <1>9, <2>1, <2>2 DEF more
<1> QED
  BY <1>8, <1>9

(* FlattenSeq of nothing is nothing.                                       *)
LEMMA FlattenEmpty == Chunking!FlattenSeq(<<>>) = <<>>
  BY DEF Chunking!FlattenSeq

(* FlattenSeq of sequences over a set is a sequence over the set.          *)
LEMMA FlattenType ==
    ASSUME NEW S, NEW seqs \in Seq(Seq(S))
    PROVE  Chunking!FlattenSeq(seqs) \in Seq(S)
<1> DEFINE T == {t \in Seq(Seq(S)) : Chunking!FlattenSeq(t) \in Seq(S)}
<1>1. <<>> \in T
  BY FlattenEmpty, EmptySeq
<1>2. ASSUME NEW t \in Seq(Seq(S)), NEW e \in Seq(S), t \in T
      PROVE  Append(t, e) \in T
  <2>1. Append(t, e) \in Seq(Seq(S))
    BY AppendProperties
  <2>2. Chunking!FlattenSeq(t) \o e \in Seq(S)
    BY <1>2, ConcatProperties
  <2> QED
    BY <2>1, <2>2, FlattenAppend
<1>3. \A t \in Seq(Seq(S)) : t \in T
  <2> HIDE DEF T
  <2> QED
    BY <1>1, <1>2, SeqInduction
<1> QED
  BY <1>3

(* Concatenation and Append.                                               *)
LEMMA ConcatAppend ==
    ASSUME NEW S, NEW s \in Seq(S), NEW t \in Seq(S), NEW e \in S
    PROVE  s \o Append(t, e) = Append(s \o t, e)
<1>1. <<e>> \in Seq(S)
  OBVIOUS
<1>2. s \o (t \o <<e>>) = (s \o t) \o <<e>>
  <2>1. \A a, b, c \in Seq(S) : (a \o b) \o c = a \o (b \o c)
    BY ConcatAssociative, SMTT(20)
  <2> QED
    BY <1>1, <2>1
<1>3. s \o t \in Seq(S)
  BY ConcatProperties
<1> QED
  BY <1>2, <1>3, AppendIsConcat

(* FlattenSeq of two concatenated lists is the two flattened lists.        *)
LEMMA FlattenConcat ==
    ASSUME NEW S, NEW s \in Seq(Seq(S)), NEW r \in Seq(Seq(S))
    PROVE  Chunking!FlattenSeq(s \o r) = Chunking!FlattenSeq(s) \o Chunking!FlattenSeq(r)
<1> DEFINE F(t) == Chunking!FlattenSeq(t)
           T == {t \in Seq(Seq(S)) : F(s \o t) = F(s) \o F(t)}
<1>1. <<>> \in T
  BY FlattenEmpty, FlattenType, EmptySeq, ConcatEmptySeq
<1>2. ASSUME NEW t \in Seq(Seq(S)), NEW e \in Seq(S), t \in T
      PROVE  Append(t, e) \in T
  <2>1. Append(t, e) \in Seq(Seq(S)) /\ s \o t \in Seq(Seq(S))
    BY AppendProperties, ConcatProperties
  <2>2. F(s \o Append(t, e)) = F(s \o t) \o e
    <3>1. s \o Append(t, e) = Append(s \o t, e)
      BY ConcatAppend
    <3> QED
      BY <2>1, <3>1, FlattenAppend
  <2>3. F(s \o t) = F(s) \o F(t)
    BY <1>2
  <2>4. F(Append(t, e)) = F(t) \o e
    BY FlattenAppend
  <2>5. (F(s) \o F(t)) \o e = F(s) \o (F(t) \o e)
    <3>1. F(s) \in Seq(S) /\ F(t) \in Seq(S)
      BY FlattenType
    <3>2. \A a, b, c \in Seq(S) : (a \o b) \o c = a \o (b \o c)
      BY ConcatAssociative, SMTT(20)
    <3> HIDE DEF F
    <3> QED
      BY <3>1, <3>2
  <2> QED
    BY <2>1, <2>2, <2>3, <2>4, <2>5
<1>3. \A t \in Seq(Seq(S)) : t \in T
  <2> HIDE DEF T
  <2> QED
    BY <1>1, <1>2, SeqInduction
<1> QED
  BY <1>3

(* Functions on an initial segment are sequences, and when one is another  *)
(* with an element at the end.                                             *)
LEMMA IsSeq ==
    ASSUME NEW S, NEW n \in Nat, NEW t \in [1..n -> S]
    PROVE  t \in Seq(S) /\ Len(t) = n
<1>1. t \in Seq(S)
  BY SeqDef
<1> QED
  BY <1>1

(* A function that extends a sequence by one element is the sequence with  *)
(* the element at its end.                                                 *)
LEMMA IsAppend ==
    ASSUME NEW S, NEW s \in Seq(S), NEW e \in S,
           NEW t \in [1..(Len(s) + 1) -> S],
           t[Len(s) + 1] = e, \A k \in 1..Len(s) : t[k] = s[k]
    PROVE  t = Append(s, e)
<1>1. Len(s) \in Nat
  BY LenProperties
<1>2. t \in Seq(S) /\ Len(t) = Len(s) + 1
  BY <1>1, IsSeq
<1>3. /\ Append(s, e) \in Seq(S) /\ Len(Append(s, e)) = Len(s) + 1
      /\ \A k \in 1..Len(s) : Append(s, e)[k] = s[k]
      /\ Append(s, e)[Len(s) + 1] = e
  BY AppendProperties
<1>4. \A k \in 1..(Len(s) + 1) : k = Len(s) + 1 \/ k \in 1..Len(s)
  BY <1>1
<1> QED
  BY <1>2, <1>3, <1>4, SeqEqual

-----------------------------------------------------------------------------
(* Pieces of blocks, and the places of the parts: block and number.        *)
Pieces == [block : Nat, first : Nat, last : Nat]
Places == Nat \X Nat

(* The parts of a piece, of a chunk and of some chunks.                    *)
LEMMA PartsOfPiece ==
    ASSUME NEW p \in Pieces
    PROVE  Chunking!Parts(p) \in Seq(Places)
<1> DEFINE n == p.last - p.first + 1
           P == [k \in 1..n |-> <<p.block, p.first + k - 1>>]
<1>1. n \in Int /\ p.first \in Nat /\ p.block \in Nat
  BY DEF Pieces
<1>2. \A k \in 1..n : p.first + k - 1 \in Nat
  BY <1>1
<1>3. \A k \in 1..n : <<p.block, p.first + k - 1>> \in Places
  BY <1>1, <1>2 DEF Places
<1>4. PICK m \in Nat : 1..n = 1..m
  <2>1. CASE n \in Nat
    BY <2>1
  <2>2. CASE n \notin Nat
    <3>1. 1..n = 1..0
      BY <1>1, <2>2
    <3> QED
      BY <3>1
  <2> QED
    BY <2>1, <2>2
<1>5. P \in [1..m -> Places]
  BY <1>3, <1>4
<1>6. P \in Seq(Places)
  <2> HIDE DEF P
  <2> QED
    BY <1>4, <1>5, IsSeq
<1> QED
  BY <1>6 DEF Chunking!Parts

(* What follows a piece in its block makes one piece with it.              *)
Joined(p, q, r) ==
    /\ q.block = p.block /\ r.block = p.block
    /\ r.first = p.first /\ r.last = q.last
    /\ q.first = p.last + 1 /\ p.first <= q.first /\ p.last <= q.last

(* Two pieces of one block that meet hold what the piece they make up      *)
(* holds.                                                                  *)
LEMMA PartsJoin ==
    ASSUME NEW p \in Pieces, NEW q \in Pieces, NEW r \in Pieces, Joined(p, q, r)
    PROVE  Chunking!Parts(p) \o Chunking!Parts(q) = Chunking!Parts(r)
<1> DEFINE i == p.block
           a == p.first
           b == p.last
           c == q.last
           P == Chunking!Parts(p)
           Q == Chunking!Parts(q)
           R == Chunking!Parts(r)
<1>1. i \in Nat /\ a \in Nat /\ b \in Nat /\ c \in Nat /\ a <= b + 1 /\ b <= c
  BY DEF Joined, Pieces
<1>2. /\ P = [k \in 1..(b - a + 1) |-> <<i, a + k - 1>>]
      /\ Q = [k \in 1..(c - (b + 1) + 1) |-> <<i, b + 1 + k - 1>>]
      /\ R = [k \in 1..(c - a + 1) |-> <<i, a + k - 1>>]
  BY DEF Chunking!Parts, Joined
<1>3. P \in Seq(Places) /\ Q \in Seq(Places) /\ R \in Seq(Places)
  BY PartsOfPiece
<1> HIDE DEF i, a, b, c, P, Q, R
<1>4. Len(P) = b - a + 1 /\ Len(Q) = c - b /\ Len(R) = c - a + 1
  <2>1. b - a + 1 \in Nat /\ c - (b + 1) + 1 \in Nat /\ c - a + 1 \in Nat
    BY <1>1
  <2>2. /\ DOMAIN P = 1..(b - a + 1) /\ DOMAIN Q = 1..(c - (b + 1) + 1)
        /\ DOMAIN R = 1..(c - a + 1)
    BY <1>2
  <2>3. Len(P) = b - a + 1 /\ Len(Q) = c - (b + 1) + 1 /\ Len(R) = c - a + 1
    BY <1>3, <2>1, <2>2, LenProperties
  <2> QED
    BY <1>1, <2>3
<1>5. Len(P \o Q) = Len(R) /\ P \o Q \in Seq(Places)
  <2>1. P \o Q \in Seq(Places) /\ Len(P \o Q) = Len(P) + Len(Q)
    BY <1>3, ConcatProperties
  <2>2. Len(P) + Len(Q) = Len(R)
    BY <1>1, <1>4
  <2> QED
    BY <2>1, <2>2
<1>6. ASSUME NEW k \in 1..Len(P \o Q)
      PROVE  (P \o Q)[k] = R[k]
  <2>1. k \in 1..(c - a + 1) /\ k \in Nat
    BY <1>1, <1>4, <1>5
  <2>2. (P \o Q)[k] = IF k <= b - a + 1 THEN P[k] ELSE Q[k - (b - a + 1)]
    <3>1. k \in 1..(Len(P) + Len(Q))
      BY <1>1, <1>4, <2>1
    <3>2. (P \o Q)[k] = IF k <= Len(P) THEN P[k] ELSE Q[k - Len(P)]
      BY <1>3, <3>1, ConcatProperties
    <3> QED
      BY <1>4, <3>2
  <2>3. R[k] = <<i, a + k - 1>>
    BY <1>2, <2>1
  <2>4. CASE k <= b - a + 1
    <3>1. k \in 1..(b - a + 1)
      BY <1>1, <2>1, <2>4
    <3> QED
      BY <1>2, <2>2, <2>3, <2>4, <3>1
  <2>5. CASE ~ (k <= b - a + 1)
    <3>1. k - (b - a + 1) \in 1..(c - (b + 1) + 1)
      BY <1>1, <2>1, <2>5
    <3>2. Q[k - (b - a + 1)] = <<i, b + 1 + (k - (b - a + 1)) - 1>>
      BY <1>2, <3>1
    <3>3. b + 1 + (k - (b - a + 1)) - 1 = a + k - 1
      BY <1>1, <2>1
    <3>4. (P \o Q)[k] = Q[k - (b - a + 1)]
      BY <2>2, <2>5
    <3> QED
      BY <2>3, <3>2, <3>3, <3>4
  <2> QED
    BY <2>4, <2>5
<1>7. P \o Q = R
  BY <1>3, <1>5, <1>6, SeqEqual
<1> QED
  BY <1>7 DEF P, Q, R

(* The parts of a chunk are a sequence of places in the document.          *)
LEMMA AllPartsType ==
    ASSUME NEW ps \in Seq(Pieces)
    PROVE  Chunking!AllParts(ps) \in Seq(Places)
<1> DEFINE q == [k \in DOMAIN ps |-> Chunking!Parts(ps[k])]
<1>1. Len(ps) \in Nat /\ DOMAIN ps = 1..Len(ps) /\ \A k \in 1..Len(ps) : ps[k] \in Pieces
  BY LenProperties, ElementOfSeq
<1>2. q \in [1..Len(ps) -> Seq(Places)]
  BY <1>1, PartsOfPiece
<1>3. q \in Seq(Seq(Places))
  BY <1>1, <1>2, SeqDef
<1> QED
  BY <1>3, FlattenType DEF Chunking!AllParts

(* An empty chunk has no parts.                                            *)
LEMMA AllPartsEmpty == Chunking!AllParts(<<>>) = <<>>
<1>1. [k \in DOMAIN <<>> |-> Chunking!Parts(<<>>[k])] = <<>>
  OBVIOUS
<1> QED
  BY <1>1, FlattenEmpty DEF Chunking!AllParts

(* One piece more adds its parts at the end.                               *)
LEMMA AllPartsAppend ==
    ASSUME NEW ps \in Seq(Pieces), NEW p \in Pieces
    PROVE  Chunking!AllParts(Append(ps, p)) = Chunking!AllParts(ps) \o Chunking!Parts(p)
<1> DEFINE f(s) == [k \in DOMAIN s |-> Chunking!Parts(s[k])]
           more == Append(ps, p)
<1>1. /\ Len(ps) \in Nat /\ DOMAIN ps = 1..Len(ps) 
      /\ \A k \in 1..Len(ps) : ps[k] \in Pieces
  BY LenProperties, ElementOfSeq
<1>2. /\ more \in Seq(Pieces) /\ Len(more) = Len(ps) + 1 /\ DOMAIN more = 1..(Len(ps) + 1)
      /\ \A k \in 1..Len(ps) : more[k] = ps[k]
      /\ more[Len(ps) + 1] = p
  BY AppendProperties, LenProperties
<1>3. f(ps) \in Seq(Seq(Places)) /\ Len(f(ps)) = Len(ps)
  <2>1. f(ps) \in [1..Len(ps) -> Seq(Places)]
    BY <1>1, PartsOfPiece
  <2> HIDE DEF f
  <2> QED
    BY <1>1, <2>1, IsSeq
<1>4. Chunking!Parts(p) \in Seq(Places)
  BY PartsOfPiece
<1>5. f(more) = Append(f(ps), Chunking!Parts(p))
  <2>1. \A k \in 1..(Len(ps) + 1) : more[k] \in Pieces
    BY <1>2, ElementOfSeq
  <2>2. f(more) \in [1..(Len(ps) + 1) -> Seq(Places)]
    BY <1>2, <2>1, PartsOfPiece
  <2>3. f(more)[Len(ps) + 1] = Chunking!Parts(p)
    BY <1>1, <1>2
  <2>4. \A k \in 1..Len(ps) : f(more)[k] = f(ps)[k]
    BY <1>1, <1>2
  <2> HIDE DEF f
  <2> QED
    BY <1>3, <1>4, <2>2, <2>3, <2>4, IsAppend
<1> QED
  BY <1>3, <1>4, <1>5, FlattenAppend DEF Chunking!AllParts

(* The parts of two chunks in one are those of the first, then those of    *)
(* the second.                                                             *)
LEMMA AllPartsConcat ==
    ASSUME NEW ps \in Seq(Pieces), NEW qs \in Seq(Pieces)
    PROVE  Chunking!AllParts(ps \o qs) = Chunking!AllParts(ps) \o Chunking!AllParts(qs)
<1> DEFINE A(s) == Chunking!AllParts(s)
           T == {s \in Seq(Pieces) : A(ps \o s) = A(ps) \o A(s)}
<1>1. <<>> \in T
  BY AllPartsEmpty, AllPartsType, EmptySeq, ConcatEmptySeq
<1>2. ASSUME NEW s \in Seq(Pieces), NEW e \in Pieces, s \in T
      PROVE  Append(s, e) \in T
  <2>1. Append(s, e) \in Seq(Pieces) /\ ps \o s \in Seq(Pieces)
    BY AppendProperties, ConcatProperties
  <2>2. A(ps \o Append(s, e)) = A(ps \o s) \o Chunking!Parts(e)
    <3>1. ps \o Append(s, e) = Append(ps \o s, e)
      BY ConcatAppend
    <3> QED
      BY <2>1, <3>1, AllPartsAppend
  <2>3. A(ps \o s) = A(ps) \o A(s)
    BY <1>2
  <2>4. A(Append(s, e)) = A(s) \o Chunking!Parts(e)
    BY AllPartsAppend
  <2>5. (A(ps) \o A(s)) \o Chunking!Parts(e) = A(ps) \o (A(s) \o Chunking!Parts(e))
    <3>1. Chunking!Parts(e) \in Seq(Places)
      BY PartsOfPiece
    <3>2. A(ps) \in Seq(Places) /\ A(s) \in Seq(Places)
      BY AllPartsType
    <3>3. \A a, b, c \in Seq(Places) : (a \o b) \o c = a \o (b \o c)
      BY ConcatAssociative, SMTT(20)
    <3> HIDE DEF A
    <3> QED
      BY <3>1, <3>2, <3>3
  <2> QED
    BY <2>1, <2>2, <2>3, <2>4, <2>5
<1>3. \A s \in Seq(Pieces) : s \in T
  <2> HIDE DEF T
  <2> QED
    BY <1>1, <1>2, SeqInduction
<1> QED
  BY <1>3

(* The parts of some chunks, in order.                                     *)
Text(chunks) == Chunking!AllParts(Chunking!FlattenSeq(chunks))

(* The text of some chunks is a sequence of places, empty for no chunk,    *)
(* and a chunk more adds its parts at the end.                             *)
LEMMA TextIs ==
    ASSUME NEW cs \in Seq(Seq(Pieces)), NEW ds \in Seq(Seq(Pieces)), NEW c \in Seq(Pieces)
    PROVE  /\ Text(cs) \in Seq(Places)
           /\ Text(<<>>) = <<>>
           /\ Text(Append(cs, c)) = Text(cs) \o Chunking!AllParts(c)
           /\ Text(cs \o ds) = Text(cs) \o Text(ds)
<1>1. Chunking!FlattenSeq(cs) \in Seq(Pieces) /\ Chunking!FlattenSeq(ds) \in Seq(Pieces)
  BY FlattenType
<1>2. Text(cs) \in Seq(Places) /\ Text(<<>>) = <<>>
  BY <1>1, AllPartsType, FlattenEmpty, AllPartsEmpty DEF Text
<1>3. Text(Append(cs, c)) = Text(cs) \o Chunking!AllParts(c)
  <2>1. Chunking!FlattenSeq(Append(cs, c)) = Chunking!FlattenSeq(cs) \o c
    BY FlattenAppend
  <2> QED
    BY <1>1, <2>1, AllPartsConcat DEF Text
<1>4. Text(cs \o ds) = Text(cs) \o Text(ds)
  <2>1. Chunking!FlattenSeq(cs \o ds) = Chunking!FlattenSeq(cs) \o Chunking!FlattenSeq(ds)
    BY FlattenConcat
  <2> QED
    BY <1>1, <2>1, AllPartsConcat DEF Text
<1> QED
  BY <1>2, <1>3, <1>4

(* A chunk of one piece has the piece's parts.                             *)
LEMMA AllPartsOne ==
    ASSUME NEW p \in Pieces
    PROVE  Chunking!AllParts(<<p>>) = Chunking!Parts(p)
<1>1. <<p>> = Append(<<>>, p) /\ <<>> \in Seq(Pieces)
  OBVIOUS
<1>2. <<>> \o Chunking!Parts(p) = Chunking!Parts(p)
  BY PartsOfPiece, ConcatEmptySeq
<1> QED
  BY <1>1, <1>2, AllPartsAppend, AllPartsEmpty

-----------------------------------------------------------------------------
(* The document is made of the blocks there are. A list of positions       *)
(* stands for the whole blocks there.                                      *)
DocType == doc \in Seq(Blocks)
Wholes(g) == [k \in DOMAIN g |-> Chunking!Whole(g[k])]
Positions == 1..Len(doc)

(* A block of the document is a piece.                                     *)
LEMMA WholeType ==
    ASSUME DocType, NEW i \in Positions
    PROVE  /\ doc[i].parts \in Seq(Nat) /\ Len(doc[i].parts) \in Nat
           /\ i \in Nat /\ Chunking!Whole(i) \in Pieces
<1>1. doc[i] \in Blocks
  BY ElementOfSeq DEF DocType, Positions
<1>2. doc[i].parts \in Seq(Nat)
  BY <1>1, SafetyAssumption
<1>3. Len(doc[i].parts) \in Nat
  BY <1>2, LenProperties
<1>4. i \in Nat
  BY LenProperties DEF DocType, Positions
<1> QED
  BY <1>2, <1>3, <1>4 DEF Chunking!Whole, Chunking!Piece, Pieces

(* Positions of the document give pieces.                                  *)
LEMMA WholesType ==
    ASSUME DocType, NEW g \in Seq(Positions)
    PROVE  Wholes(g) \in Seq(Pieces) /\ Len(Wholes(g)) = Len(g)
<1>1. Len(g) \in Nat /\ DOMAIN g = 1..Len(g) /\ \A k \in 1..Len(g) : g[k] \in Positions
  BY LenProperties, ElementOfSeq
<1>2. Wholes(g) \in [1..Len(g) -> Pieces]
  BY <1>1, WholeType DEF Wholes
<1> QED
  BY <1>1, <1>2, IsSeq

(* A position more is a piece more.                                        *)
LEMMA WholesAppend ==
    ASSUME DocType, NEW g \in Seq(Positions), NEW i \in Positions
    PROVE  Wholes(Append(g, i)) = Append(Wholes(g), Chunking!Whole(i))
<1> DEFINE more == Append(g, i)
<1>1. /\ Len(g) \in Nat /\ DOMAIN g = 1..Len(g)
      /\ more \in Seq(Positions) /\ Len(more) = Len(g) + 1 /\ DOMAIN more = 1..(Len(g) + 1)
      /\ \A k \in 1..Len(g) : more[k] = g[k]
      /\ more[Len(g) + 1] = i
  BY AppendProperties, LenProperties
<1>2. Wholes(g) \in Seq(Pieces) /\ Len(Wholes(g)) = Len(g) /\ Chunking!Whole(i) \in Pieces
  BY WholesType, WholeType
<1>3. \A k \in 1..(Len(g) + 1) : more[k] \in Positions
  BY <1>1, ElementOfSeq
<1> HIDE DEF more
<1>4. Wholes(more) \in [1..(Len(g) + 1) -> Pieces]
  BY <1>1, <1>3, WholeType DEF Wholes
<1>5. Wholes(more)[Len(g) + 1] = Chunking!Whole(i)
  BY <1>1 DEF Wholes
<1>6. \A k \in 1..Len(g) : Wholes(more)[k] = Wholes(g)[k]
  BY <1>1 DEF Wholes
<1>7. Wholes(more) = Append(Wholes(g), Chunking!Whole(i))
  BY <1>2, <1>4, <1>5, <1>6, IsAppend
<1> QED
  BY <1>7 DEF more

(* The batches of one block: those done end where the open one begins.     *)
BatchOK(i, acc, j) ==
    /\ acc = [done |-> acc.done, first |-> acc.first, size |-> acc.size]
    /\ acc.done \in Seq(Seq(Pieces))
    /\ acc.first \in 1..(j + 1)
    /\ Text(acc.done) = Chunking!Parts(Chunking!Piece(i, 1, acc.first - 1))

(* One row or item more keeps that.                                        *)
LEMMA AddPartKeeps ==
    ASSUME NEW i \in Nat, NEW j \in Nat, j > 0, NEW acc, BatchOK(i, acc, j - 1)
    PROVE  BatchOK(i, Chunking!AddPart(i, acc, j), j)
<1> DEFINE next == Chunking!AddPart(i, acc, j)
           p == Chunking!Piece(i, acc.first, j - 1)
<1>1. acc.first \in Nat /\ 1 <= acc.first /\ acc.first <= j
  BY DEF BatchOK
<1>2. acc.done \in Seq(Seq(Pieces))
  BY DEF BatchOK
<1>3. CASE next = [acc EXCEPT !.size = @ + (doc[i].parts[j] + Chunking!Gap)]
  <2>1. next = [done |-> acc.done, first |-> acc.first,
                size |-> acc.size + (doc[i].parts[j] + Chunking!Gap)]
    BY <1>3 DEF BatchOK
  <2> HIDE DEF next
  <2>2. next.done = acc.done /\ next.first = acc.first
    BY <2>1
  <2>3. next = [done |-> next.done, first |-> next.first, size |-> next.size]
    BY <2>1
  <2>4. BatchOK(i, next, j)
    BY <1>1, <2>2, <2>3 DEF BatchOK
  <2> QED
    BY <2>4 DEF next
<1>4. CASE /\ j > acc.first
           /\ next = [done |-> Append(acc.done, <<p>>), first |-> j,
                      size |-> Chunking!Header(i) + (doc[i].parts[j] + Chunking!Gap)]
  <2>1. p \in Pieces
    BY <1>1 DEF Pieces, Chunking!Piece
  <2>2. <<p>> \in Seq(Pieces)
    BY <2>1
  <2>3. Append(acc.done, <<p>>) \in Seq(Seq(Pieces))
    BY <1>2, <2>2, AppendProperties
  <2>4. Text(Append(acc.done, <<p>>)) = Text(acc.done) \o Chunking!Parts(p)
    <3> HIDE DEF p
    <3> QED
      BY <1>2, <2>1, <2>2, TextIs, AllPartsOne
  <2>5. Chunking!Parts(Chunking!Piece(i, 1, acc.first - 1)) \o Chunking!Parts(p)
          = Chunking!Parts(Chunking!Piece(i, 1, j - 1))
    <3> DEFINE q == Chunking!Piece(i, 1, acc.first - 1)
               r == Chunking!Piece(i, 1, j - 1)
    <3>1. q \in Pieces /\ p \in Pieces /\ r \in Pieces /\ Joined(q, p, r)
      BY <1>1 DEF Joined, Chunking!Piece, Pieces
    <3> HIDE DEF p, q, r
    <3>2. Chunking!Parts(q) \o Chunking!Parts(p) = Chunking!Parts(r)
      BY <3>1, PartsJoin
    <3> QED
      BY <3>2 DEF q, r
  <2>6. Text(acc.done) = Chunking!Parts(Chunking!Piece(i, 1, acc.first - 1))
    BY DEF BatchOK
  <2>7. next.done = Append(acc.done, <<p>>) /\ next.first = j
    BY <1>4
  <2>8. next = [done |-> next.done, first |-> next.first, size |-> next.size]
    BY <1>4
  <2> HIDE DEF next, p
  <2>9. next.first \in 1..(j + 1) /\ next.first - 1 = j - 1 /\ next.done \in Seq(Seq(Pieces))
    BY <2>3, <2>7
  <2>10. Text(next.done) = Chunking!Parts(Chunking!Piece(i, 1, next.first - 1))
    BY <2>4, <2>5, <2>6, <2>7, <2>9
  <2>11. BatchOK(i, next, j)
    BY <2>8, <2>9, <2>10 DEF BatchOK
  <2> QED
    BY <2>11 DEF next
<1> QED
  BY <1>3, <1>4 DEF Chunking!AddPart

(* The recursion of SplitUnits has a solution.                             *)
Batches(i, batch) ==
    LET n == Len(doc[i].parts)
    IN  /\ batch[0] = [done |-> <<>>, first |-> 1, size |-> Chunking!Header(i)]
        /\ \A j \in 0..n : j # 0 => batch[j] = Chunking!AddPart(i, batch[j - 1], j)
        /\ Chunking!SplitUnits(i) =
             IF Chunking!Size(doc[i]) <= Absolute
               THEN <<<<Chunking!Whole(i)>>>>
               ELSE Append(batch[n].done, <<Chunking!Piece(i, batch[n].first, n)>>)

(* There is such a function for every block of a document.                 *)
LEMMA BatchesExist ==
    ASSUME NEW i, Len(doc[i].parts) \in Nat
    PROVE  \E batch : Batches(i, batch)
<1> DEFINE n == Len(doc[i].parts)
           s0 == [done |-> <<>>, first |-> 1, size |-> Chunking!Header(i)]
           F(f, k) == f = [j \in 0..k |-> IF j = 0 THEN s0
                                           ELSE Chunking!AddPart(i, f[j - 1], j)]
           batch == CHOOSE f : F(f, n)
<1>0. n \in Nat
  OBVIOUS
<1>1. F(batch, n)
  <2> DEFINE T == {k \in 0..n : \E f : F(f, k)}
  <2>1. 0 \in T
    <3>1. F([j \in 0..0 |-> s0], 0)
      OBVIOUS
    <3>2. \E f : F(f, 0)
      BY <3>1
    <3>3. 0 \in 0..n
      BY <1>0
    <3> QED
      BY <3>2, <3>3, Zenon
  <2>2. ASSUME NEW k \in 0..n, k \in T, k + 1 <= n
        PROVE  k + 1 \in T
    <3>1. PICK f : F(f, k)
      BY <2>2
    <3> DEFINE g == [j \in 0..(k + 1) |-> IF j = 0 THEN s0
                                           ELSE Chunking!AddPart(i, f[j - 1], j)]
    <3> HIDE DEF s0
    <3>2. \A j \in 0..k : f[j] = IF j = 0 THEN s0 ELSE Chunking!AddPart(i, f[j - 1], j)
      BY <3>1
    <3>3. \A j \in 0..(k + 1) : g[j] = IF j = 0 THEN s0 ELSE Chunking!AddPart(i, f[j - 1], j)
      OBVIOUS
    <3>4. \A j \in 0..k : g[j] = f[j]
      <4> HIDE DEF g
      <4> QED
        BY <1>0, <3>2, <3>3
    <3>5. \A j \in 0..(k + 1) : j # 0 => j - 1 \in 0..k
      BY <1>0
    <3>6. \A j \in 0..(k + 1) : j # 0 => f[j - 1] = g[j - 1]
      <4> HIDE DEF g
      <4> QED
        BY <3>4, <3>5
    <3>7. g = [j \in 0..(k + 1) |-> IF j = 0 THEN s0 ELSE Chunking!AddPart(i, g[j - 1], j)]
      BY <3>6
    <3>8. \E h : F(h, k + 1)
      BY <3>7
    <3>9. k + 1 \in 0..n
      BY <1>0, <2>2
    <3> QED
      BY <3>8, <3>9
  <2>3. \A k \in 0..n : k \in T
    <3> HIDE DEF n, F, T
    <3> QED
      BY <1>0, <2>1, <2>2, UpTo
  <2>4. n \in 0..n
    BY <1>0
  <2>5. n \in T
    BY <2>3, <2>4
  <2>6. \E f : F(f, n)
    BY <2>5, Zenon
  <2> QED
    BY <2>6
<1>2. Chunking!SplitUnits(i) =
        IF Chunking!Size(doc[i]) <= Absolute
          THEN <<<<Chunking!Whole(i)>>>>
          ELSE Append(batch[n].done, <<Chunking!Piece(i, batch[n].first, n)>>)
  BY DEF Chunking!SplitUnits
<1> HIDE DEF batch, n, s0
<1>3. batch[0] = s0 /\ \A j \in 0..n : j # 0 => batch[j] = Chunking!AddPart(i, batch[j - 1], j)
  <2>1. \A j \in 0..n : batch[j] = IF j = 0 THEN s0 ELSE Chunking!AddPart(i, batch[j - 1], j)
    BY <1>1
  <2>2. 0 \in 0..n
    BY <1>0
  <2> QED
    BY <2>1, <2>2
<1>4. Batches(i, batch)
  BY <1>2, <1>3 DEF Batches, n, s0
<1> QED
  BY <1>4

(* A block split at its rows or items keeps all of them.                   *)
LEMMA UnitsKeep ==
    ASSUME DocType, NEW i \in Positions
    PROVE  /\ Chunking!SplitUnits(i) \in Seq(Seq(Pieces))
           /\ Text(Chunking!SplitUnits(i)) = Chunking!Parts(Chunking!Whole(i))
<1> DEFINE n == Len(doc[i].parts)
           s0 == [done |-> <<>>, first |-> 1, size |-> Chunking!Header(i)]
<1>0. n \in Nat /\ i \in Nat /\ Chunking!Whole(i) \in Pieces
  BY WholeType
<1>1. PICK batch : Batches(i, batch)
  BY <1>0, BatchesExist
<1>2. Chunking!SplitUnits(i) =
        IF Chunking!Size(doc[i]) <= Absolute
          THEN <<<<Chunking!Whole(i)>>>>
          ELSE Append(batch[n].done, <<Chunking!Piece(i, batch[n].first, n)>>)
  BY <1>1 DEF Batches
<1>3. batch[0] = s0 /\ \A j \in 0..n : j # 0 => batch[j] = Chunking!AddPart(i, batch[j - 1], j)
  BY <1>1 DEF Batches
<1> HIDE DEF n, s0
<1>4. BatchOK(i, batch[n], n)
  <2> DEFINE T == {j \in 0..n : BatchOK(i, batch[j], j)}
  <2>1. 0 \in T
    <3>1. batch[0] = s0
      BY <1>3
    <3>2. s0.done = <<>> /\ s0.first = 1 /\ s0 = [done |-> s0.done, first |-> s0.first, size |-> s0.size]
      BY DEF s0
    <3>3. Chunking!Parts(Chunking!Piece(i, 1, 0)) = <<>>
      BY DEF Chunking!Parts, Chunking!Piece
    <3>4. Text(<<>>) = <<>>
      BY FlattenEmpty, AllPartsEmpty DEF Text
    <3>5. BatchOK(i, s0, 0)
      BY <3>2, <3>3, <3>4 DEF BatchOK
    <3> QED
      BY <1>0, <3>1, <3>5
  <2>2. ASSUME NEW j \in 0..n, j \in T, j + 1 <= n
        PROVE  j + 1 \in T
    <3>1. BatchOK(i, batch[j], j + 1 - 1)
      BY <1>0, <2>2
    <3>2. j + 1 \in 0..n /\ j + 1 # 0 /\ j + 1 > 0 /\ j + 1 \in Nat /\ j + 1 - 1 = j
      BY <1>0, <2>2
    <3>3. batch[j + 1] = Chunking!AddPart(i, batch[j], j + 1)
      BY <1>3, <3>2
    <3>4. BatchOK(i, batch[j + 1], j + 1)
      BY <1>0, <3>1, <3>2, <3>3, AddPartKeeps
    <3> QED
      BY <3>2, <3>4
  <2>3. \A j \in 0..n : j \in T
    <3> HIDE DEF T
    <3> QED
      BY <1>0, <2>1, <2>2, UpTo
  <2> QED
    BY <1>0, <2>3
<1>5. CASE Chunking!Size(doc[i]) <= Absolute
  <2> DEFINE w == Chunking!Whole(i)
  <2> HIDE DEF w
  <2>1. w \in Pieces
    BY <1>0 DEF w
  <2>2. <<w>> \in Seq(Pieces) /\ <<<<w>>>> \in Seq(Seq(Pieces)) /\ <<>> \in Seq(Seq(Pieces))
    BY <2>1
  <2>3. <<<<w>>>> = Append(<<>>, <<w>>)
    OBVIOUS
  <2>4. Text(Append(<<>>, <<w>>)) = <<>> \o Chunking!AllParts(<<w>>)
    BY <2>2, TextIs
  <2>5. Text(<<<<w>>>>) = Chunking!Parts(w)
    BY <2>1, <2>3, <2>4, AllPartsOne, PartsOfPiece, ConcatEmptySeq
  <2> QED
    BY <1>2, <1>5, <2>2, <2>5 DEF w
<1>6. CASE ~ (Chunking!Size(doc[i]) <= Absolute)
  <2> DEFINE done == batch[n].done
             first == batch[n].first
             p == Chunking!Piece(i, first, n)
  <2>1. done \in Seq(Seq(Pieces)) /\ first \in Nat /\ 1 <= first /\ first <= n + 1
        /\ Text(done) = Chunking!Parts(Chunking!Piece(i, 1, first - 1))
    BY <1>0, <1>4 DEF BatchOK
  <2> HIDE DEF done, first
  <2>2. p \in Pieces
    BY <1>0, <2>1 DEF Pieces, Chunking!Piece
  <2>3. <<p>> \in Seq(Pieces)
    BY <2>2
  <2>4. Chunking!Parts(Chunking!Piece(i, 1, first - 1)) \o Chunking!Parts(p)
          = Chunking!Parts(Chunking!Piece(i, 1, n))
    <3> DEFINE q == Chunking!Piece(i, 1, first - 1)
               r == Chunking!Piece(i, 1, n)
    <3>1. q \in Pieces /\ p \in Pieces /\ r \in Pieces /\ Joined(q, p, r)
      BY <1>0, <2>1 DEF Joined, Chunking!Piece, Pieces
    <3> HIDE DEF p, q, r
    <3>2. Chunking!Parts(q) \o Chunking!Parts(p) = Chunking!Parts(r)
      BY <3>1, PartsJoin
    <3> QED
      BY <3>2 DEF q, r
  <2>5. Chunking!Piece(i, 1, n) = Chunking!Whole(i)
    BY DEF Chunking!Whole, n
  <2> HIDE DEF p
  <2>6. Append(done, <<p>>) \in Seq(Seq(Pieces))
    BY <2>1, <2>3, AppendProperties
  <2>7. Text(Append(done, <<p>>)) = Text(done) \o Chunking!Parts(p)
    BY <2>1, <2>2, <2>3, TextIs, AllPartsOne
  <2>8. Chunking!SplitUnits(i) = Append(done, <<p>>)
    BY <1>2, <1>6 DEF done, first, p
  <2> QED
    BY <2>1, <2>4, <2>5, <2>6, <2>7, <2>8
<1> QED
  BY <1>5, <1>6

(* The chunks of one group: those done and the open one hold its blocks so *)
(* far.                                                                    *)
MergeOK(acc, h) ==
    /\ acc = [done |-> acc.done, open |-> acc.open, size |-> acc.size]
    /\ acc.done \in Seq(Seq(Pieces)) /\ acc.open \in Seq(Pieces)
    /\ Text(acc.done) \o Chunking!AllParts(acc.open) = Chunking!AllParts(Wholes(h))

(* Closing the open chunk changes no text.                                 *)
LEMMA FlushKeeps ==
    ASSUME NEW acc, NEW h, MergeOK(acc, h)
    PROVE  /\ Chunking!Flush(acc) \in Seq(Seq(Pieces))
           /\ Text(Chunking!Flush(acc)) = Chunking!AllParts(Wholes(h))
<1>1. acc.done \in Seq(Seq(Pieces)) /\ acc.open \in Seq(Pieces)
  BY DEF MergeOK
<1>2. CASE acc.open = <<>>
  <2>1. Chunking!Flush(acc) = acc.done
    BY <1>2 DEF Chunking!Flush
  <2>2. Text(acc.done) \o <<>> = Text(acc.done)
    BY <1>1, TextIs, ConcatEmptySeq
  <2> QED
    BY <1>1, <1>2, <2>1, <2>2, AllPartsEmpty DEF MergeOK
<1>3. CASE acc.open # <<>>
  <2>1. Chunking!Flush(acc) = Append(acc.done, acc.open)
    BY <1>3 DEF Chunking!Flush
  <2>2. Append(acc.done, acc.open) \in Seq(Seq(Pieces))
    BY <1>1, AppendProperties
  <2>3. Text(Append(acc.done, acc.open)) = Text(acc.done) \o Chunking!AllParts(acc.open)
    BY <1>1, TextIs
  <2> QED
    BY <2>1, <2>2, <2>3 DEF MergeOK
<1> QED
  BY <1>2, <1>3

(* One block more keeps that, split or whole.                              *)
LEMMA AddBlockKeeps ==
    ASSUME DocType, NEW h \in Seq(Positions), NEW i \in Positions, NEW acc, MergeOK(acc, h)
    PROVE  MergeOK(Chunking!AddBlock(acc, i), Append(h, i))
<1> DEFINE next == Chunking!AddBlock(acc, i)
           w == Chunking!Whole(i)
           all == Chunking!AllParts(Wholes(h))
<1>1. w \in Pieces
  BY WholeType
<1>2. acc.done \in Seq(Seq(Pieces)) /\ acc.open \in Seq(Pieces)
  BY DEF MergeOK
<1>3. Chunking!Parts(w) \in Seq(Places) /\ all \in Seq(Places)
  BY <1>1, PartsOfPiece, WholesType, AllPartsType
<1>4. Chunking!AllParts(Wholes(Append(h, i))) = all \o Chunking!Parts(w)
  BY <1>1, WholesType, WholesAppend, AllPartsAppend
<1>5. Chunking!Flush(acc) \in Seq(Seq(Pieces)) /\ Text(Chunking!Flush(acc)) = all
  BY FlushKeeps
<1>6. CASE next = [done |-> Chunking!Flush(acc) \o Chunking!SplitUnits(i),
                   open |-> <<>>, size |-> 0]
  <2> DEFINE done == Chunking!Flush(acc) \o Chunking!SplitUnits(i)
  <2>1. next = [done |-> next.done, open |-> next.open, size |-> next.size]
        /\ next.done = done /\ next.open = <<>>
    BY <1>6
  <2>2. /\ Chunking!SplitUnits(i) \in Seq(Seq(Pieces))
        /\ Text(Chunking!SplitUnits(i)) = Chunking!Parts(w)
    BY UnitsKeep
  <2>3. done \in Seq(Seq(Pieces)) /\ Text(done) = all \o Chunking!Parts(w)
    <3>1. done \in Seq(Seq(Pieces))
      BY <1>5, <2>2, ConcatProperties
    <3>2. Text(done) = Text(Chunking!Flush(acc)) \o Text(Chunking!SplitUnits(i))
      BY <1>1, <1>5, <2>2, TextIs, EmptySeq
    <3> QED
      BY <1>5, <2>2, <3>1, <3>2
  <2>4. all \o Chunking!Parts(w) \in Seq(Places)
    BY <1>3, ConcatProperties
  <2> HIDE DEF next, done, w, all
  <2>5. Text(done) \o <<>> = Text(done)
    BY <2>3, <2>4, ConcatEmptySeq
  <2>6. MergeOK(next, Append(h, i))
    BY <1>4, <2>1, <2>3, <2>5, AllPartsEmpty, EmptySeq DEF MergeOK
  <2> QED
    BY <2>6 DEF next
<1>7. CASE next = [done |-> Chunking!Flush(acc), open |-> <<w>>, size |-> Chunking!Size(doc[i])]
  <2>1. next = [done |-> next.done, open |-> next.open, size |-> next.size]
        /\ next.done = Chunking!Flush(acc) /\ next.open = <<w>>
    BY <1>7
  <2>2. Chunking!AllParts(<<w>>) = Chunking!Parts(w)
    BY <1>1, AllPartsOne
  <2>3. <<w>> \in Seq(Pieces)
    BY <1>1
  <2> HIDE DEF next, w, all
  <2>4. MergeOK(next, Append(h, i))
    BY <1>4, <1>5, <2>1, <2>2, <2>3 DEF MergeOK
  <2> QED
    BY <2>4 DEF next
<1>8. CASE next = [acc EXCEPT !.open = Append(@, w), !.size = @ + Chunking!Size(doc[i])]
  <2>1. next = [done |-> acc.done, open |-> Append(acc.open, w),
                size |-> acc.size + Chunking!Size(doc[i])]
    BY <1>8 DEF MergeOK
  <2>2. Append(acc.open, w) \in Seq(Pieces)
        /\ Chunking!AllParts(Append(acc.open, w)) = Chunking!AllParts(acc.open) \o Chunking!Parts(w)
    BY <1>1, <1>2, AppendProperties, AllPartsAppend
  <2>3. Text(acc.done) \in Seq(Places) /\ Chunking!AllParts(acc.open) \in Seq(Places)
    BY <1>2, TextIs, AllPartsType
  <2> HIDE DEF next, w, all
  <2>4. (Text(acc.done) \o Chunking!AllParts(acc.open)) \o Chunking!Parts(w)
          = Text(acc.done) \o (Chunking!AllParts(acc.open) \o Chunking!Parts(w))
    <3>1. \A a, b, c \in Seq(Places) : (a \o b) \o c = a \o (b \o c)
      BY ConcatAssociative, SMTT(20)
    <3> QED
      BY <1>3, <2>3, <3>1
  <2>5. Text(acc.done) \o Chunking!AllParts(acc.open) = all
    BY DEF MergeOK, all
  <2>6. next = [done |-> next.done, open |-> next.open, size |-> next.size]
        /\ next.done = acc.done /\ next.open = Append(acc.open, w)
    BY <2>1
  <2>7. MergeOK(next, Append(h, i))
    BY <1>2, <1>4, <2>2, <2>4, <2>5, <2>6 DEF MergeOK
  <2> QED
    BY <2>7 DEF next
<1> QED
  BY <1>6, <1>7, <1>8 DEF Chunking!AddBlock

(* The first blocks of a group.                                            *)
First(g, k) == [m \in 1..k |-> g[m]]

(* The next block comes at their end.                                      *)
LEMMA FirstAppend ==
    ASSUME NEW S, NEW g \in Seq(S), NEW k \in Nat, k <= Len(g)
    PROVE  /\ First(g, k) \in Seq(S)
           /\ k + 1 <= Len(g) => First(g, k + 1) = Append(First(g, k), g[k + 1])
           /\ First(g, Len(g)) = g
<1>1. Len(g) \in Nat /\ g \in [1..Len(g) -> S] /\ \A m \in 1..Len(g) : g[m] \in S
  BY LenProperties, ElementOfSeq
<1>2. First(g, k) \in [1..k -> S]
  BY <1>1 DEF First
<1>3. First(g, k) \in Seq(S) /\ Len(First(g, k)) = k
  BY <1>2, IsSeq
<1>4. ASSUME k + 1 <= Len(g)
      PROVE  First(g, k + 1) = Append(First(g, k), g[k + 1])
  <2>1. First(g, k + 1) \in [1..(k + 1) -> S] /\ g[k + 1] \in S
    BY <1>1, <1>4 DEF First
  <2>2. First(g, k + 1)[k + 1] = g[k + 1]
    BY <1>1 DEF First
  <2>3. \A m \in 1..k : First(g, k + 1)[m] = First(g, k)[m]
    BY <1>1 DEF First
  <2> QED
    BY <1>3, <2>1, <2>2, <2>3, IsAppend
<1>5. First(g, Len(g)) = g
  BY <1>1 DEF First
<1> QED
  BY <1>3, <1>4, <1>5

(* The recursion of SplitMixed has a solution.                             *)
Merges(g, merge) ==
    LET n == Len(g)
    IN  /\ merge[0] = [done |-> <<>>, open |-> <<>>, size |-> 0]
        /\ \A j \in 0..n : j # 0 => merge[j] = Chunking!AddBlock(merge[j - 1], g[j])
        /\ Chunking!SplitMixed(g) =
             IF n = 1 \/ Chunking!Sizes(g) + (n - 1) * Chunking!Gap <= Absolute
               THEN <<Wholes(g)>> ELSE Chunking!Flush(merge[n])

(* There is such a function for every group.                               *)
LEMMA MergesExist ==
    ASSUME NEW g, Len(g) \in Nat
    PROVE  \E merge : Merges(g, merge)
<1> DEFINE n == Len(g)
           s0 == [done |-> <<>>, open |-> <<>>, size |-> 0]
           F(f, k) == f = [j \in 0..k |-> IF j = 0 THEN s0
                                           ELSE Chunking!AddBlock(f[j - 1], g[j])]
           merge == CHOOSE f : F(f, n)
<1>0. n \in Nat
  OBVIOUS
<1>1. F(merge, n)
  <2> DEFINE T == {k \in 0..n : \E f : F(f, k)}
  <2>1. 0 \in T
    <3>1. F([j \in 0..0 |-> s0], 0)
      OBVIOUS
    <3>2. \E f : F(f, 0)
      BY <3>1
    <3>3. 0 \in 0..n
      BY <1>0
    <3> QED
      BY <3>2, <3>3, Zenon
  <2>2. ASSUME NEW k \in 0..n, k \in T, k + 1 <= n
        PROVE  k + 1 \in T
    <3>1. PICK f : F(f, k)
      BY <2>2
    <3> DEFINE h == [j \in 0..(k + 1) |-> IF j = 0 THEN s0
                                           ELSE Chunking!AddBlock(f[j - 1], g[j])]
    <3> HIDE DEF s0
    <3>2. \A j \in 0..k : f[j] = IF j = 0 THEN s0 ELSE Chunking!AddBlock(f[j - 1], g[j])
      BY <3>1
    <3>3. \A j \in 0..(k + 1) : h[j] = IF j = 0 THEN s0 ELSE Chunking!AddBlock(f[j - 1], g[j])
      OBVIOUS
    <3>4. \A j \in 0..k : h[j] = f[j]
      <4> HIDE DEF h
      <4> QED
        BY <1>0, <3>2, <3>3
    <3>5. \A j \in 0..(k + 1) : j # 0 => j - 1 \in 0..k
      BY <1>0
    <3>6. \A j \in 0..(k + 1) : j # 0 => f[j - 1] = h[j - 1]
      <4> HIDE DEF h
      <4> QED
        BY <3>4, <3>5
    <3>7. h = [j \in 0..(k + 1) |-> IF j = 0 THEN s0 ELSE Chunking!AddBlock(h[j - 1], g[j])]
      BY <3>6
    <3>8. \E f_1 : F(f_1, k + 1)
      BY <3>7
    <3>9. k + 1 \in 0..n
      BY <1>0, <2>2
    <3> QED
      BY <3>8, <3>9
  <2>3. \A k \in 0..n : k \in T
    <3> HIDE DEF n, F, T
    <3> QED
      BY <1>0, <2>1, <2>2, UpTo
  <2>4. n \in 0..n
    BY <1>0
  <2>5. n \in T
    BY <2>3, <2>4
  <2>6. \E f : F(f, n)
    BY <2>5, Zenon
  <2> QED
    BY <2>6
<1>2. Chunking!SplitMixed(g) =
        IF n = 1 \/ Chunking!Sizes(g) + (n - 1) * Chunking!Gap <= Absolute
          THEN <<Wholes(g)>> ELSE Chunking!Flush(merge[n])
  BY DEF Chunking!SplitMixed, Wholes
<1> HIDE DEF merge, n, s0
<1>3. merge[0] = s0 /\ \A j \in 0..n : j # 0 => merge[j] = Chunking!AddBlock(merge[j - 1], g[j])
  <2>1. \A j \in 0..n : merge[j] = IF j = 0 THEN s0 ELSE Chunking!AddBlock(merge[j - 1], g[j])
    BY <1>1
  <2>2. 0 \in 0..n
    BY <1>0
  <2> QED
    BY <2>1, <2>2
<1>4. Merges(g, merge)
  BY <1>2, <1>3 DEF Merges, n, s0
<1> QED
  BY <1>4

(* A mixed group, split or not, keeps its text.                            *)
LEMMA MixedKeep ==
    ASSUME DocType, NEW g \in Seq(Positions)
    PROVE  /\ Chunking!SplitMixed(g) \in Seq(Seq(Pieces))
           /\ Text(Chunking!SplitMixed(g)) = Chunking!AllParts(Wholes(g))
<1> DEFINE n == Len(g)
           s0 == [done |-> <<>>, open |-> <<>>, size |-> 0]
<1>0. n \in Nat
  BY LenProperties
<1>1. PICK merge : Merges(g, merge)
  BY <1>0, MergesExist
<1>2. Chunking!SplitMixed(g) =
        IF n = 1 \/ Chunking!Sizes(g) + (n - 1) * Chunking!Gap <= Absolute
          THEN <<Wholes(g)>> ELSE Chunking!Flush(merge[n])
  BY <1>1 DEF Merges
<1>3. merge[0] = s0 /\ \A j \in 0..n : j # 0 => merge[j] = Chunking!AddBlock(merge[j - 1], g[j])
  BY <1>1 DEF Merges
<1> HIDE DEF n, s0
<1>4. MergeOK(merge[n], First(g, n))
  <2> DEFINE T == {j \in 0..n : MergeOK(merge[j], First(g, j))}
  <2>1. 0 \in T
    <3>1. First(g, 0) = <<>> /\ Wholes(<<>>) = <<>>
      BY DEF First, Wholes
    <3>2. Text(<<>>) = <<>>
      BY FlattenEmpty, AllPartsEmpty DEF Text
    <3>3. MergeOK(s0, First(g, 0))
      <4>1. /\ s0 = [done |-> s0.done, open |-> s0.open, size |-> s0.size]
            /\ s0.done = <<>> /\ s0.open = <<>>
        BY DEF s0
      <4>2. <<>> \o <<>> = <<>> /\ <<>> \in Seq(Seq(Pieces)) /\ <<>> \in Seq(Pieces)
        OBVIOUS
      <4> QED
        BY <3>1, <3>2, <4>1, <4>2, AllPartsEmpty DEF MergeOK
    <3> QED
      BY <1>0, <1>3, <3>3
  <2>2. ASSUME NEW j \in 0..n, j \in T, j + 1 <= n
        PROVE  j + 1 \in T
    <3>1. MergeOK(merge[j], First(g, j))
      BY <2>2
    <3>2. j + 1 \in 0..n /\ j + 1 # 0 /\ j \in Nat /\ j + 1 \in 1..n /\ j + 1 - 1 = j
      BY <1>0, <2>2
    <3>3. First(g, j) \in Seq(Positions) /\ First(g, j + 1) = Append(First(g, j), g[j + 1])
      BY <1>0, <2>2, <3>2, FirstAppend DEF n
    <3>4. g[j + 1] \in Positions
      BY <3>2, ElementOfSeq DEF n
    <3>5. merge[j + 1] = Chunking!AddBlock(merge[j], g[j + 1])
      BY <1>3, <3>2
    <3>6. MergeOK(merge[j + 1], First(g, j + 1))
      BY <3>1, <3>3, <3>4, <3>5, AddBlockKeeps
    <3> QED
      BY <3>2, <3>6
  <2>3. \A j \in 0..n : j \in T
    <3> HIDE DEF T
    <3> QED
      BY <1>0, <2>1, <2>2, UpTo
  <2> QED
    BY <1>0, <2>3
<1>5. MergeOK(merge[n], g)
  BY <1>0, <1>4, FirstAppend DEF n
<1>6. Chunking!Flush(merge[n]) \in Seq(Seq(Pieces))
      /\ Text(Chunking!Flush(merge[n])) = Chunking!AllParts(Wholes(g))
  BY <1>5, FlushKeeps
<1>7. <<Wholes(g)>> \in Seq(Seq(Pieces)) /\ Text(<<Wholes(g)>>) = Chunking!AllParts(Wholes(g))
  <2> DEFINE w == Wholes(g)
  <2>1. w \in Seq(Pieces)
    BY WholesType
  <2> HIDE DEF w
  <2>2. <<w>> \in Seq(Seq(Pieces)) /\ <<>> \in Seq(Seq(Pieces)) /\ <<w>> = Append(<<>>, w)
    BY <2>1
  <2>3. Text(Append(<<>>, w)) = <<>> \o Chunking!AllParts(w)
    BY <2>1, <2>2, TextIs
  <2>4. <<>> \o Chunking!AllParts(w) = Chunking!AllParts(w)
    BY <2>1, AllPartsType, ConcatEmptySeq
  <2> QED
    BY <2>2, <2>3, <2>4 DEF w
<1> QED
  BY <1>2, <1>6, <1>7

(* So does every group.                                                    *)
LEMMA GroupKeeps ==
    ASSUME DocType, NEW g \in Seq(Positions)
    PROVE  /\ Chunking!ExpandGroup(g) \in Seq(Seq(Pieces))
           /\ Text(Chunking!ExpandGroup(g)) = Chunking!AllParts(Wholes(g))
<1>1. CASE ~ (Len(g) = 1 /\ Chunking!Splits(g[1]))
  BY <1>1, MixedKeep DEF Chunking!ExpandGroup
<1>2. CASE Len(g) = 1 /\ Chunking!Splits(g[1])
  <2>1. g[1] \in Positions
    <3>1. 1 \in 1..Len(g)
      BY <1>2
    <3> QED
      BY <3>1, ElementOfSeq
  <2>2. Wholes(g) = <<Chunking!Whole(g[1])>>
    <3>1. DOMAIN g = 1..1
      BY <1>2, LenProperties
    <3> QED
      BY <3>1 DEF Wholes
  <2>3. Chunking!AllParts(<<Chunking!Whole(g[1])>>) = Chunking!Parts(Chunking!Whole(g[1]))
    BY <2>1, WholeType, AllPartsOne
  <2>4. Chunking!ExpandGroup(g) = Chunking!SplitUnits(g[1])
    BY <1>2 DEF Chunking!ExpandGroup
  <2> QED
    BY <2>1, <2>2, <2>3, <2>4, UnitsKeep
<1> QED
  BY <1>1, <1>2

(* The text of two lists of positions is the text of the first, then of    *)
(* the second.                                                             *)
LEMMA WholesConcat ==
    ASSUME DocType, NEW h \in Seq(Positions), NEW g \in Seq(Positions)
    PROVE  Chunking!AllParts(Wholes(h \o g))
             = Chunking!AllParts(Wholes(h)) \o Chunking!AllParts(Wholes(g))
<1> DEFINE A(x) == Chunking!AllParts(Wholes(x))
           T == {x \in Seq(Positions) : A(h \o x) = A(h) \o A(x)}
<1>0. \A x \in Seq(Positions) : A(x) \in Seq(Places)
  BY WholesType, AllPartsType
<1>1. <<>> \in T
  <2>1. Wholes(<<>>) = <<>>
    BY DEF Wholes
  <2>2. A(<<>>) = <<>> /\ h \o <<>> = h /\ <<>> \in Seq(Positions)
    BY <2>1, AllPartsEmpty, ConcatEmptySeq
  <2>3. A(h) \o <<>> = A(h)
    BY <1>0, ConcatEmptySeq
  <2> QED
    BY <2>2, <2>3
<1>2. ASSUME NEW x \in Seq(Positions), NEW i \in Positions, x \in T
      PROVE  Append(x, i) \in T
  <2> DEFINE w == Chunking!Whole(i)
  <2>1. Append(x, i) \in Seq(Positions) /\ h \o x \in Seq(Positions)
    BY AppendProperties, ConcatProperties
  <2>2. h \o Append(x, i) = Append(h \o x, i)
    BY ConcatAppend
  <2>3. w \in Pieces
    BY WholeType
  <2>4. A(Append(h \o x, i)) = A(h \o x) \o Chunking!Parts(w)
    BY <2>1, <2>3, WholesType, WholesAppend, AllPartsAppend
  <2>5. A(Append(x, i)) = A(x) \o Chunking!Parts(w)
    BY <2>3, WholesType, WholesAppend, AllPartsAppend
  <2>6. A(h \o x) = A(h) \o A(x)
    BY <1>2
  <2>7. (A(h) \o A(x)) \o Chunking!Parts(w) = A(h) \o (A(x) \o Chunking!Parts(w))
    <3>1. Chunking!Parts(w) \in Seq(Places)
      BY <2>3, PartsOfPiece
    <3>2. A(h) \in Seq(Places) /\ A(x) \in Seq(Places)
      BY <1>0
    <3> DEFINE a == A(h)
               b == A(x)
               c == Chunking!Parts(w)
    <3>3. a \in Seq(Places) /\ b \in Seq(Places) /\ c \in Seq(Places)
      BY <3>1, <3>2
    <3> HIDE DEF a, b, c, A, w, T
    <3>4. \A s, t, u \in Seq(Places) : (s \o t) \o u = s \o (t \o u)
      BY ConcatAssociative, SMTT(20)
    <3>5. (a \o b) \o c = a \o (b \o c)
      BY <3>3, <3>4
    <3> QED
      BY <3>5 DEF a, b, c
  <2> QED
    BY <2>1, <2>2, <2>4, <2>5, <2>6, <2>7
<1>3. \A x \in Seq(Positions) : x \in T
  <2> HIDE DEF T
  <2> QED
    BY <1>1, <1>2, SeqInduction
<1> QED
  BY <1>3

(* Expanding the groups keeps the text of the positions they hold.         *)
LEMMA ExpandKeeps ==
    ASSUME DocType, NEW gs \in Seq(Seq(Positions))
    PROVE  /\ Chunking!Expand(gs) \in Seq(Seq(Pieces))
           /\ Text(Chunking!Expand(gs))
                = Chunking!AllParts(Wholes(Chunking!FlattenSeq(gs)))
<1> DEFINE X(x) == [k \in DOMAIN x |-> Chunking!ExpandGroup(x[k])]
           E(x) == Chunking!Expand(x)
           O(x) == Chunking!AllParts(Wholes(Chunking!FlattenSeq(x)))
           T == {x \in Seq(Seq(Positions)) : Text(E(x)) = O(x)}
<1>0. \A x \in Seq(Seq(Positions)) : X(x) \in Seq(Seq(Seq(Pieces))) /\ Len(X(x)) = Len(x)
  <2> TAKE x \in Seq(Seq(Positions))
  <2>1. Len(x) \in Nat /\ DOMAIN x = 1..Len(x) /\ \A k \in 1..Len(x) : x[k] \in Seq(Positions)
    BY LenProperties, ElementOfSeq
  <2>2. X(x) \in [1..Len(x) -> Seq(Seq(Pieces))]
    BY <2>1, GroupKeeps
  <2> HIDE DEF X
  <2> QED
    BY <2>1, <2>2, IsSeq
<1>1. \A x \in Seq(Seq(Positions)) : E(x) = Chunking!FlattenSeq(X(x)) /\ E(x) \in Seq(Seq(Pieces))
  BY <1>0, FlattenType DEF Chunking!Expand
<1>2. <<>> \in T
  <2>1. X(<<>>) = <<>> /\ <<>> \in Seq(Seq(Positions)) /\ Wholes(<<>>) = <<>>
    BY DEF Wholes
  <2>2. E(<<>>) = <<>> /\ O(<<>>) = <<>> /\ Text(<<>>) = <<>>
    BY <1>1, <2>1, FlattenEmpty, AllPartsEmpty DEF Text
  <2> QED
    BY <2>1, <2>2
<1>3. ASSUME NEW x \in Seq(Seq(Positions)), NEW g \in Seq(Positions), x \in T
      PROVE  Append(x, g) \in T
  <2> DEFINE more == Append(x, g)
  <2>1. /\ Len(x) \in Nat /\ DOMAIN x = 1..Len(x)
        /\ more \in Seq(Seq(Positions)) /\ Len(more) = Len(x) + 1
        /\ DOMAIN more = 1..(Len(x) + 1)
        /\ \A k \in 1..Len(x) : more[k] = x[k]
        /\ more[Len(x) + 1] = g
    BY AppendProperties, LenProperties
  <2> HIDE DEF more
  <2>2. X(more) = Append(X(x), Chunking!ExpandGroup(g))
    <3>1. Chunking!ExpandGroup(g) \in Seq(Seq(Pieces))
      BY GroupKeeps
    <3>2. \A k \in 1..(Len(x) + 1) : more[k] \in Seq(Positions)
      BY <2>1, ElementOfSeq
    <3>3. X(more) \in [1..(Len(x) + 1) -> Seq(Seq(Pieces))]
      BY <2>1, <3>2, GroupKeeps
    <3>4. X(more)[Len(x) + 1] = Chunking!ExpandGroup(g)
      BY <2>1
    <3>5. \A k \in 1..Len(x) : X(more)[k] = X(x)[k]
      BY <2>1
    <3>6. X(x) \in Seq(Seq(Seq(Pieces))) /\ Len(X(x)) = Len(x)
      BY <1>0
    <3> HIDE DEF X
    <3> QED
      BY <3>1, <3>3, <3>4, <3>5, <3>6, IsAppend
  <2>3. E(more) = E(x) \o Chunking!ExpandGroup(g)
    <3>1. X(x) \in Seq(Seq(Seq(Pieces))) /\ Chunking!ExpandGroup(g) \in Seq(Seq(Pieces))
      BY <1>0, GroupKeeps
    <3> HIDE DEF X, E
    <3> QED
      BY <1>1, <2>1, <2>2, <3>1, FlattenAppend
  <2>4. Text(E(more)) = Text(E(x)) \o Chunking!AllParts(Wholes(g))
    <3>1. E(x) \in Seq(Seq(Pieces)) /\ Chunking!ExpandGroup(g) \in Seq(Seq(Pieces))
      BY <1>1, GroupKeeps
    <3> HIDE DEF E
    <3>2. Text(E(x) \o Chunking!ExpandGroup(g)) = Text(E(x)) \o Text(Chunking!ExpandGroup(g))
      BY <3>1, TextIs, EmptySeq
    <3> QED
      BY <2>3, <3>2, GroupKeeps
  <2>5. O(more) = O(x) \o Chunking!AllParts(Wholes(g))
    <3>1. Chunking!FlattenSeq(more) = Chunking!FlattenSeq(x) \o g
      BY FlattenAppend DEF more
    <3>2. Chunking!FlattenSeq(x) \in Seq(Positions)
      BY FlattenType
    <3> QED
      BY <3>1, <3>2, WholesConcat
  <2>6. Text(E(x)) = O(x)
    BY <1>3
  <2> HIDE DEF E, O
  <2>7. Text(E(more)) = O(more)
    BY <2>4, <2>5, <2>6
  <2> QED
    BY <2>1, <2>7 DEF more
<1>4. \A x \in Seq(Seq(Positions)) : x \in T
  <2> HIDE DEF T
  <2> QED
    BY <1>2, <1>3, SeqInduction
<1> QED
  BY <1>1, <1>4

-----------------------------------------------------------------------------
(* The groups and the open one hold every position, in order.              *)
ReadSoFar == [i \in Positions |-> i]
Grouped ==
    /\ groups \in Seq(Seq(Positions)) /\ current \in Seq(Positions)
    /\ Chunking!FlattenSeq(groups) \o current = ReadSoFar

ChunkInv == DocType /\ Grouped

(* With the open group closed, the groups hold every position, in order.   *)
LEMMA FlushedIs ==
    ASSUME ChunkInv
    PROVE  /\ Chunking!Flushed \in Seq(Seq(Positions))
           /\ Chunking!FlattenSeq(Chunking!Flushed) = ReadSoFar
<1>1. /\ groups \in Seq(Seq(Positions)) /\ current \in Seq(Positions)
      /\ Chunking!FlattenSeq(groups) \o current = ReadSoFar
  BY DEF ChunkInv, Grouped
<1>2. CASE current = <<>>
  <2>1. Chunking!FlattenSeq(groups) \o <<>> = Chunking!FlattenSeq(groups)
    BY <1>1, FlattenType, ConcatEmptySeq
  <2> QED
    BY <1>1, <1>2, <2>1 DEF Chunking!Flushed
<1>3. CASE current # <<>>
  <2>1. Append(groups, current) \in Seq(Seq(Positions))
    BY <1>1, AppendProperties
  <2>2. Chunking!FlattenSeq(Append(groups, current)) = Chunking!FlattenSeq(groups) \o current
    BY <1>1, FlattenAppend
  <2> QED
    BY <1>1, <1>3, <2>1, <2>2 DEF Chunking!Flushed
<1> QED
  BY <1>2, <1>3

(* At first nothing is read.                                               *)
LEMMA ChunkInit == Chunking!Init => ChunkInv
<1> SUFFICES ASSUME Chunking!Init
             PROVE  ChunkInv
  OBVIOUS
<1>1. doc = <<>> /\ groups = <<>> /\ current = <<>>
  BY DEF Chunking!Init
<1>2. DocType /\ Positions = {}
  BY <1>1 DEF DocType, Positions
<1>3. ReadSoFar = <<>>
  BY <1>2 DEF ReadSoFar
<1>4. groups \in Seq(Seq(Positions)) /\ current \in Seq(Positions)
  BY <1>1, EmptySeq
<1>5. <<>> \o <<>> = <<>>
  OBVIOUS
<1> QED
  BY <1>1, <1>2, <1>3, <1>4, <1>5, FlattenEmpty DEF ChunkInv, Grouped

(* Each rule of _group_blocks puts the block it reads behind what was      *)
(* read.                                                                   *)
LEMMA ChunkStep == ChunkInv /\ [Chunking!Next]_chunkVars => ChunkInv'
<1> SUFFICES ASSUME ChunkInv, [Chunking!Next]_chunkVars
             PROVE  ChunkInv'
  OBVIOUS
<1>1. CASE UNCHANGED chunkVars
  BY <1>1 DEF chunkVars, ChunkInv, DocType, Grouped, ReadSoFar, Positions
<1>2. ASSUME NEW b \in Blocks, Chunking!Read(b)
      PROVE  ChunkInv'
  <2> DEFINE P == Len(doc) + 1
             before == Positions
             after == 1..P
             flushed == Chunking!Flushed
  <2>1. doc' = Append(doc, b) /\ doc \in Seq(Blocks)
    BY <1>2 DEF Chunking!Read, ChunkInv, DocType
  <2>2. Len(doc) \in Nat /\ doc' \in Seq(Blocks) /\ Len(doc') = P
    BY <2>1, AppendProperties, LenProperties
  <2>3. DocType' /\ Positions' = after /\ ReadSoFar' = [i \in after |-> i]
    BY <2>2 DEF DocType, Positions, ReadSoFar
  <2>4. before \subseteq after /\ P \in after
    BY <2>2 DEF Positions
  <2>5. ReadSoFar \in Seq(before) /\ Len(ReadSoFar) = Len(doc)
    <3>1. ReadSoFar \in [1..Len(doc) -> before]
      BY DEF ReadSoFar, Positions
    <3> QED
      BY <2>2, <3>1, IsSeq
  <2>6. ReadSoFar' = Append(ReadSoFar, P)
    <3>1. ReadSoFar \in Seq(after)
      BY <2>4, <2>5, SeqMonotonic
    <3> DEFINE t == [i \in after |-> i]
    <3>2. t \in [1..(Len(ReadSoFar) + 1) -> after]
      BY <2>5
    <3>3. t[Len(ReadSoFar) + 1] = P
      BY <2>4, <2>5
    <3>4. \A k \in 1..Len(ReadSoFar) : t[k] = ReadSoFar[k]
      BY <2>2, <2>5 DEF ReadSoFar, Positions
    <3> HIDE DEF t, P, after
    <3>5. t = Append(ReadSoFar, P)
      BY <2>4, <3>1, <3>2, <3>3, <3>4, IsAppend
    <3> QED
      BY <2>3, <3>5 DEF t
  <2>7. /\ groups \in Seq(Seq(after)) /\ current \in Seq(after) /\ flushed \in Seq(Seq(after))
        /\ ReadSoFar \in Seq(after)
    <3>1. \A s \in Seq(before) : s \in Seq(after)
      BY <2>4, SeqMonotonic
    <3>2. Seq(before) \subseteq Seq(after)
      BY <3>1
    <3> QED
      BY <2>5, <3>2, FlushedIs, SeqMonotonic DEF ChunkInv, Grouped
  <2>8. /\ Chunking!FlattenSeq(groups) \o current = ReadSoFar
        /\ Chunking!FlattenSeq(flushed) = ReadSoFar
    BY FlushedIs DEF ChunkInv, Grouped
  <2>9. <<P>> \in Seq(after) /\ <<>> \in Seq(after)
    BY <2>4
  <2>10. ReadSoFar \o <<P>> = Append(ReadSoFar, P)
    BY <2>4, <2>7, AppendIsConcat
  <2>11. \/ groups' = flushed /\ current' = <<P>>
         \/ groups' = groups /\ current' = Append(current, P)
         \/ groups' = Append(flushed, <<P>>) /\ current' = <<>>
    BY <1>2 DEF Chunking!Read, Chunking!Heading, Chunking!Body, Chunking!Following,
                Chunking!Open, Chunking!Join, Chunking!Alone, Chunking!Position
  <2> HIDE DEF P, after, before, flushed
  <2>12. CASE groups' = flushed /\ current' = <<P>>
    BY <2>3, <2>6, <2>7, <2>8, <2>9, <2>10, <2>12 DEF ChunkInv, Grouped
  <2>13. CASE groups' = groups /\ current' = Append(current, P)
    <3>1. current' \in Seq(after)
      BY <2>4, <2>7, <2>13, AppendProperties
    <3>2. Chunking!FlattenSeq(groups) \in Seq(after)
      BY <2>7, FlattenType
    <3>3. Chunking!FlattenSeq(groups) \o Append(current, P) = Append(ReadSoFar, P)
      <4> DEFINE f == Chunking!FlattenSeq(groups)
      <4>1. f \in Seq(after) /\ current \in Seq(after) /\ P \in after
        BY <2>4, <2>7, <3>2
      <4>2. f \o current = ReadSoFar
        BY <2>8
      <4> HIDE DEF f
      <4>3. f \o Append(current, P) = Append(f \o current, P)
        BY <4>1, ConcatAppend
      <4> QED
        BY <4>2, <4>3 DEF f
    <3> QED
      BY <2>3, <2>6, <2>7, <2>13, <3>1, <3>3 DEF ChunkInv, Grouped
  <2>14. CASE groups' = Append(flushed, <<P>>) /\ current' = <<>>
    <3>1. groups' \in Seq(Seq(after))
      BY <2>7, <2>9, <2>14, AppendProperties
    <3>2. Chunking!FlattenSeq(Append(flushed, <<P>>)) = Append(ReadSoFar, P)
      BY <2>7, <2>8, <2>9, <2>10, FlattenAppend
    <3>3. Append(ReadSoFar, P) \o <<>> = Append(ReadSoFar, P)
      <4>1. Append(ReadSoFar, P) \in Seq(after)
        BY <2>4, <2>7, AppendProperties
      <4> QED
        BY <4>1, ConcatEmptySeq
    <3> QED
      BY <2>3, <2>6, <2>9, <2>14, <3>1, <3>2, <3>3 DEF ChunkInv, Grouped
  <2> QED
    BY <2>11, <2>12, <2>13, <2>14
<1> QED
  BY <1>1, <1>2 DEF Chunking!Next

(***************************************************************************)
(* Every paragraph, row and item of a document is in one chunk, and the    *)
(* chunks are in reading order (NothingLost), whatever the blocks and the  *)
(* thresholds (assemble_semantic_chunks).                                  *)
(***************************************************************************)
THEOREM ChunksHoldTheDocument == SafetySpec => []NothingLost
<1>1. ChunkInv => NothingLost
  <2> SUFFICES ASSUME ChunkInv
               PROVE  NothingLost
    OBVIOUS
  <2>1. DocType /\ Chunking!Flushed \in Seq(Seq(Positions))
        /\ Chunking!FlattenSeq(Chunking!Flushed) = ReadSoFar
    BY FlushedIs DEF ChunkInv
  <2>2. Text(Chunking!Expand(Chunking!Flushed)) = Chunking!AllParts(Wholes(ReadSoFar))
    BY <2>1, ExpandKeeps
  <2>3. Wholes(ReadSoFar) = [i \in DOMAIN doc |-> Chunking!Whole(i)]
    <3>1. DOMAIN doc = Positions
      BY <2>1, LenProperties DEF DocType, Positions
    <3> QED
      BY <3>1 DEF Wholes, ReadSoFar
  <2> QED
    BY <2>2, <2>3 DEF NothingLost, Chunking!NothingLost, Chunking!Chunks, Text
<1>2. ChunkInv /\ [SafetyNext]_allVars => ChunkInv'
  <2> SUFFICES ASSUME ChunkInv, [SafetyNext]_allVars
               PROVE  ChunkInv'
    OBVIOUS
  <2>1. [Chunking!Next]_chunkVars
    BY DEF SafetyNext, Administer, Limit, Cut, Chat, allVars
  <2> QED
    BY <2>1, ChunkStep
<1> QED
  BY <1>1, <1>2, ChunkInit, PTL DEF SafetySpec, SafetyInit

-----------------------------------------------------------------------------
(* Lengths are numbers.                                                    *)
LEMMA SumIsNat ==
    ASSUME NEW s \in Seq(Nat)
    PROVE  Chunking!Sum(s) \in Nat
<1> DEFINE n == Len(s)
           F(f, k) == f = [j \in 0..k |-> IF j = 0 THEN 0 ELSE f[j - 1] + s[j]]
           T == {k \in 0..n : \E f \in [0..k -> Nat] : F(f, k)}
           sum == CHOOSE f : F(f, n)
<1>0. n \in Nat /\ \A j \in 1..n : s[j] \in Nat
  BY LenProperties, ElementOfSeq
<1>1. 0 \in T
  <2>1. [j \in 0..0 |-> 0] \in [0..0 -> Nat] /\ F([j \in 0..0 |-> 0], 0)
    OBVIOUS
  <2>2. \E f \in [0..0 -> Nat] : F(f, 0)
    BY <2>1
  <2>3. 0 \in 0..n
    BY <1>0
  <2> QED
    BY <2>2, <2>3, Zenon
<1>2. ASSUME NEW k \in 0..n, k \in T, k + 1 <= n
      PROVE  k + 1 \in T
  <2>1. PICK f \in [0..k -> Nat] : F(f, k)
    BY <1>2
  <2> DEFINE g == [j \in 0..(k + 1) |-> IF j = 0 THEN 0 ELSE f[j - 1] + s[j]]
  <2>2. \A j \in 0..k : f[j] = IF j = 0 THEN 0 ELSE f[j - 1] + s[j]
    BY <2>1
  <2>3. \A j \in 0..(k + 1) : g[j] = IF j = 0 THEN 0 ELSE f[j - 1] + s[j]
    OBVIOUS
  <2>4. \A j \in 0..(k + 1) : j # 0 => j - 1 \in 0..k /\ j \in 1..n
    BY <1>0, <1>2
  <2>5. g \in [0..(k + 1) -> Nat]
    <3>1. \A j \in 0..(k + 1) : j # 0 => f[j - 1] \in Nat /\ s[j] \in Nat
      BY <1>0, <2>1, <2>4
    <3>2. \A j \in 0..(k + 1) : j # 0 => f[j - 1] + s[j] \in Nat
      BY <3>1
    <3> QED
      BY <3>2
  <2>6. \A j \in 0..k : g[j] = f[j]
    <3> HIDE DEF g
    <3>1. \A j \in 0..k : j \in 0..(k + 1)
      OBVIOUS
    <3> QED
      BY <2>2, <2>3, <3>1
  <2>7. \A j \in 0..(k + 1) : j # 0 => f[j - 1] = g[j - 1]
    <3> HIDE DEF g
    <3> QED
      BY <2>4, <2>6
  <2>8. g = [j \in 0..(k + 1) |-> IF j = 0 THEN 0 ELSE g[j - 1] + s[j]]
    BY <2>7
  <2>9. \E h \in [0..(k + 1) -> Nat] : F(h, k + 1)
    BY <2>5, <2>8
  <2>10. k + 1 \in 0..n
    BY <1>0, <1>2
  <2> QED
    BY <2>9, <2>10, Zenon
<1>3. \A k \in 0..n : k \in T
  <2> HIDE DEF n, F, T
  <2> QED
    BY <1>0, <1>1, <1>2, UpTo
<1>4. PICK f \in [0..n -> Nat] : F(f, n)
  <2>1. n \in 0..n
    BY <1>0
  <2>2. n \in T
    BY <1>3, <2>1
  <2>3. \E f \in [0..n -> Nat] : F(f, n)
    BY <2>2, Zenon
  <2> QED
    BY <2>3
<1>5. F(sum, n)
  BY <1>4
<1>6. Chunking!Sum(s) = sum[n]
  BY DEF Chunking!Sum
<1> HIDE DEF sum, n
<1>7. \A j \in 0..n : sum[j] = IF j = 0 THEN 0 ELSE sum[j - 1] + s[j]
  BY <1>5
<1>8. \A j \in 0..n : sum[j] \in Nat
  <2> DEFINE U == {j \in 0..n : sum[j] \in Nat}
  <2>1. 0 \in U
    BY <1>0, <1>7
  <2>2. ASSUME NEW j \in 0..n, j \in U, j + 1 <= n
        PROVE  j + 1 \in U
    <3>1. j + 1 \in 0..n /\ j + 1 \in 1..n /\ j + 1 # 0 /\ (j + 1) - 1 = j
      BY <1>0, <2>2
    <3>2. sum[j + 1] = sum[j] + s[j + 1]
      BY <1>7, <3>1
    <3>3. sum[j] \in Nat /\ s[j + 1] \in Nat
      BY <1>0, <2>2, <3>1
    <3> QED
      BY <3>1, <3>2, <3>3
  <2>3. \A j \in 0..n : j \in U
    <3> HIDE DEF U
    <3> QED
      BY <1>0, <2>1, <2>2, UpTo
  <2> QED
    BY <2>3
<1> QED
  BY <1>0, <1>6, <1>8

(* The length of a block is a number, also in a document that has grown.   *)
LEMMA SizeIs ==
    ASSUME NEW b \in Blocks
    PROVE  Chunking!Size(b) \in Int /\ Chunking!Size(b) + Chunking!Gap >= 0
<1>1. b.parts \in Seq(Nat)
  BY SafetyAssumption
<1>2. Len(b.parts) \in Nat /\ Chunking!Sum(b.parts) \in Nat
  BY <1>1, LenProperties, SumIsNat
<1>3. CASE b.kind = "table"
  BY <1>2, <1>3 DEF Chunking!Size, Chunking!Gap
<1>4. CASE b.kind # "table"
  BY <1>2, <1>4 DEF Chunking!Size, Chunking!Gap
<1> QED
  BY <1>3, <1>4

-----------------------------------------------------------------------------
(* A heading is with its text, or the two are too large; of the last block *)
(* nothing is said, or nothing yet.                                        *)
Apart(d, i) ==
    \/ d[i + 1].kind = "heading"
    \/ Chunking!Size(d[i]) + Chunking!Size(d[i + 1]) + Chunking!Gap > Preferred
Firm(d, i) == d[i].kind = "heading" => i < Len(d) /\ Apart(d, i)
Kept(i) == i < Len(doc) => Firm(doc, i)

(* Chunks that keep headings with their text.                              *)
Good == {c \in Seq(Pieces) : Len(c) = 1 => Kept(c[1].block)}

(* A chunk of a split table or list holds no heading.                      *)
LEMMA UnitsGood ==
    ASSUME DocType, NEW i \in Positions, doc[i].kind # "heading"
    PROVE  Chunking!SplitUnits(i) \in Seq(Good)
<1> DEFINE n == Len(doc[i].parts)
           s0 == [done |-> <<>>, first |-> 1, size |-> Chunking!Header(i)]
<1>0. n \in Nat /\ i \in Nat /\ Chunking!Whole(i) \in Pieces
  BY WholeType
<1>1. PICK batch : Batches(i, batch)
  BY <1>0, BatchesExist
<1>2. Chunking!SplitUnits(i) =
        IF Chunking!Size(doc[i]) <= Absolute
          THEN <<<<Chunking!Whole(i)>>>>
          ELSE Append(batch[n].done, <<Chunking!Piece(i, batch[n].first, n)>>)
  BY <1>1 DEF Batches
<1>3. batch[0] = s0 /\ \A j \in 0..n : j # 0 => batch[j] = Chunking!AddPart(i, batch[j - 1], j)
  BY <1>1 DEF Batches
<1>4. \A p \in Pieces : p.block = i => <<p>> \in Good
  BY DEF Good, Kept, Firm
<1> DEFINE OK(acc) == /\ acc = [done |-> acc.done, first |-> acc.first, size |-> acc.size]
                      /\ acc.done \in Seq(Good) /\ acc.first \in Nat
           T == {j \in 0..n : OK(batch[j])}
<1> HIDE DEF n
<1>5. 0 \in T
  <2>1. s0 = [done |-> s0.done, first |-> s0.first, size |-> s0.size]
        /\ s0.done \in Seq(Good) /\ s0.first \in Nat
    OBVIOUS
  <2> HIDE DEF s0
  <2> QED
    BY <1>0, <1>3, <2>1
<1>6. ASSUME NEW j \in 0..n, j \in T, j + 1 <= n
      PROVE  j + 1 \in T
  <2> DEFINE acc == batch[j]
             next == Chunking!AddPart(i, acc, j + 1)
             p == Chunking!Piece(i, acc.first, (j + 1) - 1)
  <2>1. j + 1 \in 0..n /\ j + 1 # 0 /\ (j + 1) - 1 = j /\ j \in Nat
    BY <1>0, <1>6
  <2>2. batch[j + 1] = next
    BY <1>3, <2>1
  <2>3. OK(acc)
    BY <1>6
  <2>4. p \in Pieces /\ p.block = i
    BY <1>0, <2>1, <2>3 DEF Chunking!Piece, Pieces
  <2>5. CASE next = [acc EXCEPT !.size = @ + (doc[i].parts[j + 1] + Chunking!Gap)]
    <3>1. next = [done |-> acc.done, first |-> acc.first,
                  size |-> acc.size + (doc[i].parts[j + 1] + Chunking!Gap)]
      BY <2>3, <2>5
    <3> HIDE DEF next
    <3>2. next = [done |-> next.done, first |-> next.first, size |-> next.size]
          /\ next.done = acc.done /\ next.first = acc.first
      BY <3>1
    <3>3. OK(next)
      BY <2>3, <3>2
    <3> QED
      BY <2>1, <2>2, <3>3
  <2>6. CASE next = [done |-> Append(acc.done, <<p>>), first |-> j + 1,
                     size |-> Chunking!Header(i) + (doc[i].parts[j + 1] + Chunking!Gap)]
    <3>1. <<p>> \in Good
      BY <1>4, <2>4
    <3> HIDE DEF p
    <3>2. Append(acc.done, <<p>>) \in Seq(Good)
      BY <2>3, <3>1, AppendProperties
    <3>3. next = [done |-> next.done, first |-> next.first, size |-> next.size]
          /\ next.done = Append(acc.done, <<p>>) /\ next.first = j + 1
      BY <2>6
    <3> HIDE DEF next
    <3>4. OK(next)
      BY <2>1, <3>2, <3>3
    <3> QED
      BY <2>1, <2>2, <3>4
  <2> QED
    BY <2>5, <2>6 DEF Chunking!AddPart
<1>7. \A j \in 0..n : j \in T
  <2> HIDE DEF T
  <2> QED
    BY <1>0, <1>5, <1>6, UpTo
<1>8. batch[n].done \in Seq(Good) /\ batch[n].first \in Nat
  <2>1. n \in T
    BY <1>0, <1>7
  <2> QED
    BY <2>1
<1>9. <<Chunking!Piece(i, batch[n].first, n)>> \in Good
  <2>1. /\ Chunking!Piece(i, batch[n].first, n) \in Pieces
        /\ Chunking!Piece(i, batch[n].first, n).block = i
    BY <1>0, <1>8 DEF Chunking!Piece, Pieces
  <2> QED
    BY <1>4, <2>1
<1>10. <<Chunking!Whole(i)>> \in Good
  <2>1. Chunking!Whole(i).block = i
    BY DEF Chunking!Whole, Chunking!Piece
  <2> QED
    BY <1>0, <1>4, <2>1
<1>11. <<<<Chunking!Whole(i)>>>> \in Seq(Good)
  BY <1>10
<1>12. Append(batch[n].done, <<Chunking!Piece(i, batch[n].first, n)>>) \in Seq(Good)
  BY <1>8, <1>9, AppendProperties
<1> QED
  BY <1>2, <1>11, <1>12

(* Groups whose blocks follow each other, with a heading only at their     *)
(* front.                                                                  *)
InARow(d, g) ==
    \A k \in 1..(Len(g) - 1) : g[k + 1] = g[k] + 1 /\ d[g[k + 1]].kind # "heading"
Tidy == {g \in Seq(Positions) : InARow(doc, g) /\ (Len(g) = 1 => Kept(g[1]))}

MergeGood(acc, g, k) ==
    /\ acc = [done |-> acc.done, open |-> acc.open, size |-> acc.size]
    /\ acc.done \in Seq(Good) /\ acc.open \in Seq(Pieces)
    /\ acc.open = <<>> => acc.size = 0
    /\ Len(acc.open) = 1 =>
          /\ k > 0 /\ acc.open[1].block = g[k]
          /\ doc[g[k]].kind = "heading" => acc.size = Chunking!Size(doc[g[k]])

(* Closing the open chunk leaves no heading alone, unless it must be.      *)
LEMMA FlushGood ==
    ASSUME NEW acc, NEW g, NEW k, MergeGood(acc, g, k),
           Len(acc.open) = 1 => Kept(g[k])
    PROVE  Chunking!Flush(acc) \in Seq(Good)
<1>1. CASE acc.open = <<>>
  BY <1>1 DEF MergeGood, Chunking!Flush
<1>2. CASE acc.open # <<>>
  <2>1. acc.open \in Good
    BY DEF MergeGood, Good
  <2>2. acc.done \in Seq(Good)
    BY DEF MergeGood
  <2> QED
    BY <1>2, <2>1, <2>2, AppendProperties DEF Chunking!Flush
<1> QED
  BY <1>1, <1>2

(* One block more: a heading that is closed alone did not fit with the     *)
(* block after it.                                                         *)
LEMMA AddBlockGood ==
    ASSUME DocType, NEW g \in Seq(Positions), InARow(doc, g), NEW k \in Nat, k + 1 <= Len(g),
           NEW acc, MergeGood(acc, g, k)
    PROVE  MergeGood(Chunking!AddBlock(acc, g[k + 1]), g, k + 1)
<1> DEFINE i == g[k + 1]
           w == Chunking!Whole(i)
           next == Chunking!AddBlock(acc, i)
<1>1. Len(g) \in Nat /\ k + 1 \in 1..Len(g) /\ i \in Positions /\ k + 1 \in Nat
  BY LenProperties, ElementOfSeq
<1>2. w \in Pieces /\ w.block = i /\ doc[i] \in Blocks
  BY <1>1, WholeType, ElementOfSeq DEF Chunking!Whole, Chunking!Piece, DocType, Positions
<1>3. Chunking!Size(doc[i]) \in Int
  BY <1>2, SizeIs
<1>4. ASSUME Len(acc.open) = 1,
             \/ Chunking!Splits(i) /\ Chunking!Size(doc[i]) > Absolute
             \/ acc.size + Chunking!Size(doc[i]) + Chunking!Gap > Preferred
      PROVE  Kept(g[k])
  <2> SUFFICES ASSUME doc[g[k]].kind = "heading"
               PROVE  Apart(doc, g[k])
    BY DEF Kept, Firm
  <2>1. k > 0 /\ acc.size = Chunking!Size(doc[g[k]])
    BY <1>4 DEF MergeGood
  <2>2. k \in 1..(Len(g) - 1) /\ k \in 1..Len(g)
    BY <1>1, <2>1
  <2>3. i = g[k] + 1
    BY <2>2 DEF InARow
  <2>4. doc[g[k]] \in Blocks
    <3>1. g[k] \in Positions
      BY <2>2, ElementOfSeq
    <3> QED
      BY <3>1, ElementOfSeq DEF Positions, DocType
  <2>5. Chunking!Size(doc[g[k]]) \in Int /\ Chunking!Size(doc[g[k]]) + Chunking!Gap >= 0
    BY <2>4, SizeIs
  <2>6. Chunking!Size(doc[g[k]]) + Chunking!Size(doc[i]) + Chunking!Gap > Preferred
    <3>1. CASE Chunking!Size(doc[i]) > Absolute
      BY <1>3, <2>5, <3>1, SafetyAssumption DEF Chunking!Gap
    <3>2. CASE acc.size + Chunking!Size(doc[i]) + Chunking!Gap > Preferred
      BY <2>1, <3>2
    <3> QED
      BY <1>4, <3>1, <3>2
  <2> QED
    BY <2>3, <2>6 DEF Apart
<1>5. CASE /\ Chunking!Splits(i) /\ Chunking!Size(doc[i]) > Absolute
           /\ next = [done |-> Chunking!Flush(acc) \o Chunking!SplitUnits(i),
                      open |-> <<>>, size |-> 0]
  <2>1. Chunking!Flush(acc) \in Seq(Good)
    BY <1>4, <1>5, FlushGood
  <2>2. doc[i].kind # "heading"
    BY <1>5 DEF Chunking!Splits, Chunking!Kind
  <2>3. Chunking!SplitUnits(i) \in Seq(Good)
    BY <1>1, <2>2, UnitsGood
  <2> DEFINE done == Chunking!Flush(acc) \o Chunking!SplitUnits(i)
  <2>4. done \in Seq(Good)
    BY <2>1, <2>3, ConcatProperties
  <2>5. next = [done |-> next.done, open |-> next.open, size |-> next.size]
        /\ next.done = done /\ next.open = <<>> /\ next.size = 0
    BY <1>5
  <2> HIDE DEF next, done
  <2>6. MergeGood(next, g, k + 1)
    BY <2>4, <2>5, EmptySeq DEF MergeGood
  <2> QED
    BY <2>6 DEF next
<1>6. CASE /\ acc.size + Chunking!Size(doc[i]) + Chunking!Gap > Preferred
           /\ next = [done |-> Chunking!Flush(acc), open |-> <<w>>,
                      size |-> Chunking!Size(doc[i])]
  <2>1. Chunking!Flush(acc) \in Seq(Good)
    BY <1>4, <1>6, FlushGood
  <2>2. next = [done |-> next.done, open |-> next.open, size |-> next.size]
        /\ next.done = Chunking!Flush(acc) /\ next.open = <<w>>
        /\ next.size = Chunking!Size(doc[i])
    BY <1>6
  <2>3. <<w>> \in Seq(Pieces) /\ <<w>> # <<>> /\ <<w>>[1] = w
    BY <1>2
  <2> HIDE DEF next, w
  <2>4. MergeGood(next, g, k + 1)
    BY <1>1, <1>2, <2>1, <2>2, <2>3 DEF MergeGood
  <2> QED
    BY <2>4 DEF next
<1>7. CASE next = [acc EXCEPT !.open = Append(@, w), !.size = @ + Chunking!Size(doc[i])]
  <2>1. next = [done |-> acc.done, open |-> Append(acc.open, w),
                size |-> acc.size + Chunking!Size(doc[i])]
    BY <1>7 DEF MergeGood
  <2>2. acc.open \in Seq(Pieces) /\ acc.done \in Seq(Good)
    BY DEF MergeGood
  <2>3. /\ Append(acc.open, w) \in Seq(Pieces) /\ Append(acc.open, w) # <<>>
        /\ Len(Append(acc.open, w)) = Len(acc.open) + 1
        /\ Append(acc.open, w)[Len(acc.open) + 1] = w
    BY <1>2, <2>2, AppendProperties
  <2>4. next = [done |-> next.done, open |-> next.open, size |-> next.size]
        /\ next.done = acc.done /\ next.open = Append(acc.open, w)
        /\ next.size = acc.size + Chunking!Size(doc[i])
    BY <2>1
  <2>5. Len(acc.open) \in Nat /\ (Len(acc.open) = 0 => acc.open = <<>>)
    BY <2>2, LenProperties, EmptySeq
  <2> HIDE DEF next, w
  <2>6. ASSUME Len(next.open) = 1
        PROVE  next.open[1].block = i /\ next.size = Chunking!Size(doc[i])
    <3>1. Len(acc.open) = 0
      BY <2>3, <2>4, <2>5, <2>6
    <3>2. acc.size = 0
      BY <2>5, <3>1 DEF MergeGood
    <3> QED
      BY <1>2, <1>3, <2>3, <2>4, <3>1, <3>2
  <2>7. MergeGood(next, g, k + 1)
    BY <1>1, <2>2, <2>3, <2>4, <2>6 DEF MergeGood
  <2> QED
    BY <2>7 DEF next
<1> QED
  BY <1>5, <1>6, <1>7 DEF Chunking!AddBlock

(* So splitting a mixed group cuts no heading off that fits with its text. *)
LEMMA MixedGood ==
    ASSUME DocType, NEW g \in Tidy
    PROVE  Chunking!SplitMixed(g) \in Seq(Good)
<1> DEFINE n == Len(g)
           s0 == [done |-> <<>>, open |-> <<>>, size |-> 0]
<1>0. n \in Nat /\ g \in Seq(Positions) /\ InARow(doc, g) /\ (n = 1 => Kept(g[1]))
  BY LenProperties DEF Tidy
<1>1. PICK merge : Merges(g, merge)
  BY <1>0, MergesExist
<1>2. Chunking!SplitMixed(g) =
        IF n = 1 \/ Chunking!Sizes(g) + (n - 1) * Chunking!Gap <= Absolute
          THEN <<Wholes(g)>> ELSE Chunking!Flush(merge[n])
  BY <1>1 DEF Merges
<1>3. merge[0] = s0 /\ \A j \in 0..n : j # 0 => merge[j] = Chunking!AddBlock(merge[j - 1], g[j])
  BY <1>1 DEF Merges
<1> HIDE DEF s0
<1>4. MergeGood(merge[n], g, n)
  <2> DEFINE T == {j \in 0..n : MergeGood(merge[j], g, j)}
  <2>1. 0 \in T
    <3>1. /\ s0 = [done |-> s0.done, open |-> s0.open, size |-> s0.size]
          /\ s0.done = <<>> /\ s0.open = <<>> /\ s0.size = 0
      BY DEF s0
    <3>2. MergeGood(s0, g, 0)
      BY <3>1, EmptySeq DEF MergeGood
    <3> QED
      BY <1>0, <1>3, <3>2
  <2>2. ASSUME NEW j \in 0..n, j \in T, j + 1 <= n
        PROVE  j + 1 \in T
    <3>1. j + 1 \in 0..n /\ j + 1 # 0 /\ j \in Nat /\ (j + 1) - 1 = j
      BY <1>0, <2>2
    <3>2. merge[j + 1] = Chunking!AddBlock(merge[j], g[j + 1])
      BY <1>3, <3>1
    <3>3. MergeGood(merge[j], g, j)
      BY <2>2
    <3>4. MergeGood(Chunking!AddBlock(merge[j], g[j + 1]), g, j + 1)
      BY <1>0, <2>2, <3>1, <3>3, AddBlockGood
    <3> QED
      BY <3>1, <3>2, <3>4
  <2>3. \A j \in 0..n : j \in T
    <3> HIDE DEF n, T
    <3> QED
      BY <1>0, <2>1, <2>2, UpTo
  <2> QED
    BY <1>0, <2>3
<1>5. CASE n = 1 \/ Chunking!Sizes(g) + (n - 1) * Chunking!Gap <= Absolute
  <2> DEFINE c == Wholes(g)
  <2>1. c \in Seq(Pieces) /\ Len(c) = n
    BY <1>0, WholesType
  <2>2. ASSUME Len(c) = 1
        PROVE  Kept(c[1].block)
    <3>1. DOMAIN g = 1..1
      BY <1>0, <2>1, <2>2, LenProperties
    <3>2. c[1].block = g[1]
      BY <3>1 DEF Wholes, Chunking!Whole, Chunking!Piece
    <3> QED
      BY <1>0, <2>1, <2>2, <3>2
  <2>3. c \in Good
    BY <2>1, <2>2 DEF Good
  <2>4. <<c>> \in Seq(Good)
    BY <2>3
  <2> QED
    BY <1>2, <1>5, <2>4
<1>6. CASE ~ (n = 1 \/ Chunking!Sizes(g) + (n - 1) * Chunking!Gap <= Absolute)
  <2>1. ASSUME Len(merge[n].open) = 1
        PROVE  Kept(g[n])
    <3>1. n > 0
      BY <1>4, <2>1 DEF MergeGood
    <3>2. n # 1
      BY <1>6
    <3>9. n \in Nat /\ n > 0
      BY <1>0, <3>1
    <3> HIDE DEF n
    <3>3. n - 1 \in 1..(n - 1) /\ (n - 1) + 1 = n
      BY <3>2, <3>9
    <3>4. doc[g[n]].kind # "heading"
      BY <1>0, <3>3 DEF InARow, n
    <3> QED
      BY <3>4 DEF Kept, Firm
  <2>2. Chunking!Flush(merge[n]) \in Seq(Good)
    BY <1>4, <2>1, FlushGood
  <2> QED
    BY <1>2, <1>6, <2>2
<1> QED
  BY <1>5, <1>6

(* Nor does expanding any group.                                           *)
LEMMA GroupGood ==
    ASSUME DocType, NEW g \in Tidy
    PROVE  Chunking!ExpandGroup(g) \in Seq(Good)
<1>1. CASE ~ (Len(g) = 1 /\ Chunking!Splits(g[1]))
  BY <1>1, MixedGood DEF Chunking!ExpandGroup
<1>2. CASE Len(g) = 1 /\ Chunking!Splits(g[1])
  <2>1. g[1] \in Positions
    BY <1>2, ElementOfSeq DEF Tidy
  <2>2. doc[g[1]].kind # "heading"
    BY <1>2 DEF Chunking!Splits, Chunking!Kind
  <2>3. Chunking!ExpandGroup(g) = Chunking!SplitUnits(g[1])
    BY <1>2 DEF Chunking!ExpandGroup
  <2> QED
    BY <2>1, <2>2, <2>3, UnitsGood
<1> QED
  BY <1>1, <1>2

(* Nor expanding all of them.                                              *)
LEMMA ExpandGood ==
    ASSUME DocType, NEW gs \in Seq(Tidy)
    PROVE  Chunking!Expand(gs) \in Seq(Good)
<1> DEFINE x == [k \in DOMAIN gs |-> Chunking!ExpandGroup(gs[k])]
<1>1. Len(gs) \in Nat /\ DOMAIN gs = 1..Len(gs) /\ \A k \in 1..Len(gs) : gs[k] \in Tidy
  BY LenProperties, ElementOfSeq
<1>2. x \in [1..Len(gs) -> Seq(Good)]
  BY <1>1, GroupGood
<1>3. x \in Seq(Seq(Good))
  <2> HIDE DEF x
  <2> QED
    BY <1>1, <1>2, IsSeq
<1> QED
  BY <1>3, FlattenType DEF Chunking!Expand

(* Closed groups, whatever is read after them.                             *)
Closed(d) == {g \in Seq(1..Len(d)) : InARow(d, g) /\ (Len(g) = 1 => Firm(d, g[1]))}

TidySoFar ==
    /\ groups \in Seq(Closed(doc))
    /\ current # <<>> => current[Len(current)] = Len(doc)
    /\ InARow(doc, current)
    /\ awaiting \in BOOLEAN
    /\ awaiting => /\ Len(current) = 1 /\ doc[current[1]].kind = "heading"
                   /\ size = Chunking!Size(doc[current[1]])
    /\ ~awaiting /\ Len(current) = 1 => doc[current[1]].kind # "heading"

TidyInv == ChunkInv /\ TidySoFar

(* With the open group closed, every group is in reading order, and one    *)
(* that is a heading alone stands before text too large for it, unless it  *)
(* ends the document.                                                      *)
LEMMA FlushedTidy ==
    ASSUME TidyInv
    PROVE  Chunking!Flushed \in Seq(Tidy)
<1>1. DocType /\ groups \in Seq(Closed(doc)) /\ current \in Seq(Positions) /\ InARow(doc, current)
  BY DEF TidyInv, ChunkInv, Grouped, TidySoFar
<1>2. groups \in Seq(Tidy)
  <2>1. Closed(doc) \subseteq Tidy
    BY DEF Closed, Tidy, Kept, Positions
  <2> QED
    BY <1>1, <2>1, SeqMonotonic
<1>3. CASE current = <<>>
  BY <1>2, <1>3 DEF Chunking!Flushed
<1>4. CASE current # <<>>
  <2>1. Len(current) = 1 => current[1] = Len(doc)
    BY <1>4 DEF TidyInv, TidySoFar
  <2>2. Len(current) = 1 => Kept(current[1])
    <3>1. ~ (Len(doc) < Len(doc))
      BY <1>1, LenProperties DEF DocType
    <3> QED
      BY <2>1, <3>1 DEF Kept
  <2>3. current \in Tidy
    BY <1>1, <2>2 DEF Tidy
  <2> QED
    BY <1>2, <1>4, <2>3, AppendProperties DEF Chunking!Flushed
<1> QED
  BY <1>3, <1>4

(* At first there is no group.                                             *)
LEMMA TidyInit == Chunking!Init => TidyInv
<1> SUFFICES ASSUME Chunking!Init
             PROVE  TidyInv
  OBVIOUS
<1>1. groups = <<>> /\ current = <<>> /\ awaiting = FALSE
  BY DEF Chunking!Init
<1>2. Len(current) = 0 /\ groups \in Seq(Closed(doc))
  BY <1>1, EmptySeq
<1>3. InARow(doc, current)
  BY <1>2 DEF InARow
<1>4. current # <<>> => current[Len(current)] = Len(doc)
  BY <1>1
<1>5. awaiting = FALSE /\ Len(current) # 1
  BY <1>1, <1>2
<1>6. TidySoFar
  BY <1>2, <1>3, <1>4, <1>5 DEF TidySoFar
<1> QED
  BY <1>6, ChunkInit DEF TidyInv

(* Each rule of _group_blocks keeps the groups in reading order and a      *)
(* heading with the text after it, where the two fit.                      *)
LEMMA TidyStep == TidyInv /\ [Chunking!Next]_chunkVars => TidyInv'
<1> SUFFICES ASSUME TidyInv, [Chunking!Next]_chunkVars
             PROVE  TidyInv'
  OBVIOUS
<1>0. ChunkInv'
  BY ChunkStep DEF TidyInv
<1>1. CASE UNCHANGED chunkVars
  <2>1. TidySoFar'
    BY <1>1 DEF chunkVars, TidyInv, TidySoFar
  <2> QED
    BY <1>0, <2>1 DEF TidyInv
<1>2. ASSUME NEW b \in Blocks, Chunking!Read(b)
      PROVE  TidyInv'
  <2> DEFINE P == Len(doc) + 1
             flushed == Chunking!Flushed
  <2>1. /\ doc \in Seq(Blocks) /\ groups \in Seq(Closed(doc))
        /\ current \in Seq(Positions) /\ InARow(doc, current) /\ awaiting \in BOOLEAN
        /\ Len(doc) \in Nat /\ Len(current) \in Nat
    BY LenProperties DEF TidyInv, ChunkInv, Grouped, TidySoFar, DocType
  <2>2. doc' = Append(doc, b)
    BY <1>2 DEF Chunking!Read
  <2>3. /\ Len(doc') = P /\ doc'[P] = b /\ \A i \in Positions : doc'[i] = doc[i]
        /\ P \in 1..P /\ P \in Nat /\ Positions \subseteq 1..P
    <3>1. Len(doc') = P /\ doc'[P] = b /\ \A i \in Positions : doc'[i] = doc[i]
      BY <2>1, <2>2, AppendProperties DEF Positions
    <3> QED
      BY <2>1, <3>1 DEF Positions
  <2>4. \A g \in Seq(Positions) : g \in Seq(1..P)
    BY <2>3, SeqMonotonic
  <2>5. \A g \in Seq(Positions) : InARow(doc, g) => InARow(doc', g)
    <3> SUFFICES ASSUME NEW g \in Seq(Positions), InARow(doc, g)
                 PROVE  InARow(doc', g)
      OBVIOUS
    <3>1. Len(g) \in Nat /\ \A k \in 1..Len(g) : g[k] \in Positions
      BY LenProperties, ElementOfSeq
    <3>2. \A k \in 1..(Len(g) - 1) : k + 1 \in 1..Len(g)
      BY <3>1
    <3> QED
      BY <2>3, <3>1, <3>2 DEF InARow
  <2>6. \A i \in Positions : Firm(doc, i) => Firm(doc', i)
    <3> SUFFICES ASSUME NEW i \in Positions, Firm(doc, i), doc'[i].kind = "heading"
                 PROVE  i < Len(doc') /\ Apart(doc', i)
      BY DEF Firm
    <3>1. doc'[i] = doc[i]
      BY <2>3
    <3>2. i < Len(doc) /\ Apart(doc, i)
      BY <3>1 DEF Firm
    <3>3. i + 1 \in Positions /\ i < Len(doc')
      BY <2>1, <2>3, <3>2 DEF Positions
    <3>4. doc'[i + 1] = doc[i + 1]
      BY <2>3, <3>3
    <3> QED
      BY <3>1, <3>2, <3>3, <3>4 DEF Apart
  <2>7. Closed(doc) \subseteq Closed(doc')
    <3> SUFFICES ASSUME NEW g \in Closed(doc)
                 PROVE  g \in Closed(doc')
      OBVIOUS
    <3>1. g \in Seq(Positions) /\ InARow(doc, g) /\ (Len(g) = 1 => Firm(doc, g[1]))
      BY DEF Closed, Positions
    <3>2. Len(g) = 1 => g[1] \in Positions
      BY <3>1, ElementOfSeq
    <3> QED
      BY <2>3, <2>4, <2>5, <2>6, <3>1, <3>2 DEF Closed
  <2>8. groups \in Seq(Closed(doc'))
    BY <2>1, <2>7, SeqMonotonic
  <2>9. ASSUME awaiting => \/ b.kind = "heading"
                           \/ size + Chunking!Size(b) > Preferred
        PROVE  flushed \in Seq(Closed(doc'))
    <3>1. CASE current = <<>>
      BY <2>8, <3>1 DEF Chunking!Flushed
    <3>2. CASE current # <<>>
      <4>1. ASSUME Len(current) = 1
            PROVE  Firm(doc', current[1])
        <5> DEFINE i == current[1]
        <5>1. i = Len(doc) /\ i \in Positions
          BY <2>1, <3>2, <4>1, ElementOfSeq DEF TidyInv, TidySoFar
        <5>2. doc'[i] = doc[i] /\ i + 1 = P /\ i < Len(doc')
          BY <2>1, <2>3, <5>1
        <5>3. CASE ~awaiting
          <6>1. doc[i].kind # "heading"
            BY <4>1, <5>3 DEF TidyInv, TidySoFar
          <6> QED
            BY <5>2, <6>1 DEF Firm
        <5>4. CASE awaiting /\ b.kind = "heading"
          BY <2>3, <5>2, <5>4 DEF Firm, Apart
        <5>5. CASE awaiting /\ size + Chunking!Size(b) > Preferred
          <6>1. size = Chunking!Size(doc[i])
            BY <5>5 DEF TidyInv, TidySoFar
          <6>2. doc[i] \in Blocks
            BY <2>1, <5>1, ElementOfSeq DEF Positions
          <6>3. Chunking!Size(b) \in Int /\ Chunking!Size(doc[i]) \in Int
            BY <6>2, SizeIs
          <6>4. Chunking!Size(doc[i]) + Chunking!Size(b) + Chunking!Gap > Preferred
            BY <5>5, <6>1, <6>3, SafetyAssumption DEF Chunking!Gap
          <6>5. doc'[i + 1] = b
            BY <2>3, <5>2
          <6> QED
            BY <5>2, <6>4, <6>5 DEF Firm, Apart
        <5> QED
          BY <2>9, <5>3, <5>4, <5>5
      <4>2. current \in Closed(doc')
        BY <2>1, <2>3, <2>4, <2>5, <4>1 DEF Closed
      <4>3. Append(groups, current) \in Seq(Closed(doc'))
        BY <2>8, <4>2, AppendProperties
      <4> QED
        BY <3>2, <4>3 DEF Chunking!Flushed
    <3> QED
      BY <3>1, <3>2
  <2> HIDE DEF P, flushed
  <2>10. ASSUME groups' = flushed, current' = <<P>>, size' = Chunking!Size(b),
                awaiting' \in BOOLEAN, awaiting' <=> b.kind = "heading",
                awaiting => b.kind = "heading"
         PROVE  TidySoFar'
    <3>1. groups' \in Seq(Closed(doc'))
      BY <2>9, <2>10
    <3>2. Len(current') = 1 /\ current'[1] = P /\ current'[Len(current')] = Len(doc')
      BY <2>3, <2>10
    <3>3. InARow(doc', current')
      BY <3>2 DEF InARow
    <3>4. doc'[current'[1]] = b
      BY <2>3, <3>2
    <3> QED
      BY <2>10, <3>1, <3>2, <3>3, <3>4 DEF TidySoFar
  <2>11. ASSUME groups' = groups, current' = Append(current, P), awaiting' = FALSE,
                b.kind # "heading"
         PROVE  TidySoFar'
    <3>1. /\ Len(current') = Len(current) + 1 /\ current'[Len(current) + 1] = P
          /\ \A k \in 1..Len(current) : current'[k] = current[k] /\ current[k] \in Positions
      <4>1. current \in Seq(1..P)
        BY <2>1, <2>4
      <4>2. /\ Len(current') = Len(current) + 1 /\ current'[Len(current) + 1] = P
            /\ \A k \in 1..Len(current) : current'[k] = current[k]
        BY <2>3, <2>11, <4>1, AppendProperties
      <4> QED
        BY <2>1, <4>2, ElementOfSeq
    <3>2. current'[Len(current')] = Len(doc')
      BY <2>3, <3>1
    <3>3. InARow(doc', current')
      <4> SUFFICES ASSUME NEW k \in 1..(Len(current') - 1)
                   PROVE  /\ current'[k + 1] = current'[k] + 1
                          /\ doc'[current'[k + 1]].kind # "heading"
        BY DEF InARow
      <4>1. k \in 1..Len(current) /\ k \in Nat
        BY <2>1, <3>1
      <4>2. CASE k = Len(current)
        <5>1. current # <<>>
          BY <4>1, <4>2
        <5>2. current[k] = Len(doc)
          BY <4>2, <5>1 DEF TidyInv, TidySoFar
        <5>3. current'[k] = Len(doc) /\ current'[k + 1] = P
          BY <3>1, <4>1, <4>2, <5>2
        <5> QED
          BY <2>3, <2>11, <5>3 DEF P
      <4>3. CASE k # Len(current)
        <5>1. k \in 1..(Len(current) - 1) /\ k + 1 \in 1..Len(current)
          BY <2>1, <4>1, <4>3
        <5>2. current[k + 1] = current[k] + 1 /\ doc[current[k + 1]].kind # "heading"
          BY <2>1, <5>1 DEF InARow
        <5>3. current'[k + 1] = current[k + 1] /\ current'[k] = current[k]
              /\ current[k + 1] \in Positions
          BY <3>1, <4>1, <5>1
        <5>4. doc'[current[k + 1]] = doc[current[k + 1]]
          BY <2>3, <5>3
        <5> QED
          BY <5>2, <5>3, <5>4
      <4> QED
        BY <4>2, <4>3
    <3>4. Len(current') = 1 => current'[1] = P
      BY <2>1, <3>1
    <3> QED
      BY <2>3, <2>8, <2>11, <3>2, <3>3, <3>4 DEF TidySoFar
  <2>12. ASSUME groups' = Append(flushed, <<P>>), current' = <<>>, awaiting' = FALSE,
                b.kind # "heading",
                awaiting => size + Chunking!Size(b) > Preferred
         PROVE  TidySoFar'
    <3>1. flushed \in Seq(Closed(doc'))
      BY <2>9, <2>12
    <3> DEFINE g == <<P>>
    <3>2. g \in Seq(1..P) /\ Len(g) = 1 /\ g[1] = P
      BY <2>3
    <3> HIDE DEF g
    <3>3. InARow(doc', g) /\ Firm(doc', g[1])
      BY <2>3, <2>12, <3>2 DEF InARow, Firm
    <3>4. g \in Closed(doc')
      BY <2>3, <3>2, <3>3 DEF Closed
    <3>5. groups' \in Seq(Closed(doc'))
      BY <2>12, <3>1, <3>4, AppendProperties DEF g
    <3>6. Len(current') = 0
      BY <2>12
    <3>7. InARow(doc', current')
      BY <3>6 DEF InARow
    <3>8. current' # <<>> => current'[Len(current')] = Len(doc')
      BY <2>12
    <3>9. awaiting' = FALSE /\ Len(current') # 1
      BY <2>12, <3>6
    <3> QED
      BY <3>5, <3>7, <3>8, <3>9 DEF TidySoFar
  <2>13. ASSUME Chunking!Heading(b)
         PROVE  TidySoFar'
    BY <2>10, <2>13 DEF Chunking!Heading, Chunking!Open, Chunking!Position, P, flushed
  <2>14. ASSUME Chunking!Body(b)
         PROVE  TidySoFar'
    <3>1. /\ awaiting /\ b.kind # "heading" /\ awaiting' = FALSE
          /\ \/ size + Chunking!Size(b) > Preferred /\ Chunking!Alone
             \/ Chunking!Join(b)
      BY <2>14 DEF Chunking!Body
    <3> QED
      BY <2>11, <2>12, <3>1 DEF Chunking!Join, Chunking!Alone, Chunking!Position, P, flushed
  <2>15. ASSUME Chunking!Following(b)
         PROVE  TidySoFar'
    <3>1. /\ ~awaiting /\ b.kind # "heading" /\ awaiting' = FALSE
          /\ Chunking!Join(b) \/ Chunking!Alone \/ Chunking!Open(b)
      BY <2>15 DEF Chunking!Following
    <3>2. CASE Chunking!Join(b)
      BY <2>11, <3>1, <3>2 DEF Chunking!Join, Chunking!Position, P
    <3>3. CASE Chunking!Alone
      BY <2>12, <3>1, <3>3 DEF Chunking!Alone, Chunking!Position, P, flushed
    <3>4. CASE Chunking!Open(b)
      BY <2>10, <3>1, <3>4 DEF Chunking!Open, Chunking!Position, P, flushed
    <3> QED
      BY <3>1, <3>2, <3>3, <3>4
  <2>16. TidySoFar'
    BY <1>2, <2>13, <2>14, <2>15 DEF Chunking!Read
  <2> QED
    BY <1>0, <2>16 DEF TidyInv
<1> QED
  BY <1>1, <1>2 DEF Chunking!Next

(***************************************************************************)
(* A heading is cut off from the text after it only where the two are too  *)
(* large together (HeadingKeepsText), for any blocks and any thresholds in *)
(* increasing order (_group_blocks, _split_oversized_mixed_group).         *)
(***************************************************************************)
THEOREM HeadingsKeepTheirText == SafetySpec => []HeadingKeepsText
<1>1. TidyInv => HeadingKeepsText
  <2> SUFFICES ASSUME TidyInv, NEW chunk \in Chunking!Range(Chunking!Chunks)
               PROVE  Len(chunk) = 1 => Kept(chunk[1].block)
    BY DEF HeadingKeepsText, Chunking!HeadingKeepsText, Chunking!Kind, Kept, Firm, Apart
  <2>1. Chunking!Chunks \in Seq(Good)
    BY FlushedTidy, ExpandGood DEF Chunking!Chunks, TidyInv, ChunkInv
  <2>2. PICK k \in DOMAIN Chunking!Chunks : chunk = Chunking!Chunks[k]
    BY DEF Chunking!Range
  <2>3. chunk \in Good
    BY <2>1, <2>2, LenProperties, ElementOfSeq
  <2> QED
    BY <2>3 DEF Good
<1>2. TidyInv /\ [SafetyNext]_allVars => TidyInv'
  <2> SUFFICES ASSUME TidyInv, [SafetyNext]_allVars
               PROVE  TidyInv'
    OBVIOUS
  <2>1. [Chunking!Next]_chunkVars
    BY DEF SafetyNext, Administer, Limit, Cut, Chat, allVars
  <2> QED
    BY <2>1, TidyStep
<1> QED
  BY <1>1, <1>2, TidyInit, PTL DEF SafetySpec, SafetyInit
=============================================================================
