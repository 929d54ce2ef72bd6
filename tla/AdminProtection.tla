-------------------------- MODULE AdminProtection --------------------------
(***************************************************************************)
(* User administration: enabling and disabling accounts (user_service.py), *)
(* giving and taking the Admin role (role_service.py), and the guard that  *)
(* refuses to disable or demote "the last administrative account".         *)
(*                                                                         *)
(* Each request has a database session of its own.  It authenticates its   *)
(* caller, loads the user it is about, counts the administrators, and      *)
(* commits its change: four moments between which other requests commit.   *)
(* The session's identity map keeps the user as first loaded, and gives    *)
(* that same object to every later query of the session.  The e-mail, the  *)
(* names and the roles other than Admin are left out: they grant no        *)
(* permission over users (role_permissions.py).                            *)
(***************************************************************************)
EXTENDS Naturals, FiniteSets

CONSTANTS
    Users,      \* the accounts there are or may come to be
    Supers,     \* those with is_superuser, which no request ever changes
    Requests,   \* threads that serve administration requests
    None        \* no user

ASSUME UsersAssumption == /\ IsFiniteSet(Users)
                          /\ Supers \subseteq Users
                          /\ None \notin Users

VARIABLES
    known,      \* the users that have a row
    active,     \* those whose is_active is set
    admins,     \* those that hold the Admin role
    disabled,   \* those with a "user.disabled" event in the audit log
    request     \* what each thread is doing

rows == <<known, active, admins>>
vars == <<known, active, admins, disabled, request>>

(***************************************************************************)
(* PUT users/{id} with is_active false and true, DELETE users/{id}, POST   *)
(* users/{id}/roles with Admin, DELETE users/{id}/roles/Admin, and POST    *)
(* users with the Admin role or another one.                               *)
(***************************************************************************)
Kinds == {"disable", "enable", "delete", "promote", "demote",
          "create admin", "create other"}

Creations == {"create admin", "create other"}

Idle == [point |-> "idle", kind |-> "enable", caller |-> None, user |-> None,
         isActive |-> FALSE, isAdmin |-> FALSE]

At(t, point, kinds) == /\ request[t].point = point
                       /\ request[t].kind \in kinds

Answer(t) == request' = [request EXCEPT ![t] = Idle]

-----------------------------------------------------------------------------
(***************************************************************************)
(* is_administrative_user, of the row u as the session of request r sees   *)
(* it: the roles of the user it has loaded are those it loaded, and its    *)
(* caller was found to hold Admin.                                         *)
(***************************************************************************)
HoldsAdmin(r, u) == \/ u = r.user /\ r.isAdmin
                    \/ u # r.user /\ (u = r.caller \/ u \in admins)

IsAdministrative(r, u) == u \in Supers \/ HoldsAdmin(r, u)

\* as if the disabled accounts were counted as well
AllAdmins(r) == {u \in known : IsAdministrative(r, u)}

\* count_active_admins
ActiveAdmins(r) == {u \in active : IsAdministrative(r, u)}

\* ensure_not_last_admin raises
IsLastAdmin(r) == /\ IsAdministrative(r, r.user)
                  /\ r.isActive
                  /\ Cardinality(ActiveAdmins(r)) <= 1

-----------------------------------------------------------------------------
Init == /\ known \in SUBSET Users
        /\ Supers \subseteq known
        /\ active = known
        /\ admins \in (SUBSET known) \ {{}}
        /\ Supers \subseteq admins
        /\ disabled = {}
        /\ request = [t \in Requests |-> Idle]

(***************************************************************************)
(* get_current_user and require_permission: only the Admin role grants a   *)
(* permission over users.  An unknown user is answered with 404.           *)
(***************************************************************************)
Authorize(t) ==
    /\ request[t] = Idle
    /\ \E kind \in Kinds, caller \in active \cap admins, user \in Users :
          /\ user \in known <=> kind \notin Creations
          /\ request' = [request EXCEPT ![t] =
                [Idle EXCEPT !.point = "load", !.kind = kind,
                             !.caller = caller, !.user = user]]
    /\ UNCHANGED <<rows, disabled>>

(***************************************************************************)
(* get_user.  The caller's own row is already in the session, as it was    *)
(* when the request was authorized.                                        *)
(***************************************************************************)
Load(t) ==
    /\ At(t, "load", Kinds \ Creations)
    /\ LET r == request[t]
       IN  request' = [request EXCEPT ![t] =
              [r EXCEPT !.point = "check",
                        !.isActive = r.user = r.caller \/ r.user \in active,
                        !.isAdmin = r.user = r.caller \/ r.user \in admins]]
    /\ UNCHANGED <<rows, disabled>>

(***************************************************************************)
(* When update_user, soft_delete_user and remove_role_from_user refuse.    *)
(* Taking Admin from a superuser is not guarded.                           *)
(***************************************************************************)
MustKeep(r) ==
    \/ r.kind = "disable" /\ r.isActive /\ IsLastAdmin(r)
    \/ r.kind = "delete" /\ IsLastAdmin(r)
    \/ r.kind = "demote" /\ r.isAdmin /\ r.user \notin Supers /\ IsLastAdmin(r)

\* The guard of the change, and LastAdminError.
CheckPasses(t) ==
    /\ At(t, "check", Kinds)
    /\ ~MustKeep(request[t])
    /\ request' = [request EXCEPT ![t].point = "write"]
    /\ UNCHANGED <<rows, disabled>>

CheckRefuses(t) ==
    /\ At(t, "check", Kinds)
    /\ MustKeep(request[t])
    /\ Answer(t)
    /\ UNCHANGED <<rows, disabled>>

-----------------------------------------------------------------------------
(***************************************************************************)
(* The commit.  The session writes an attribute only when its value is not *)
(* the one loaded, whatever the row holds by now.                          *)
(***************************************************************************)
WriteDisabled(t) ==
    /\ At(t, "write", {"disable", "delete"})
    /\ active' = IF request[t].isActive THEN active \ {request[t].user} ELSE active
    /\ request' = [request EXCEPT ![t].point = "audit", ![t].isActive = FALSE]
    /\ UNCHANGED <<known, admins, disabled>>

WriteEnabled(t) ==
    /\ At(t, "write", {"enable"})
    /\ active' = IF request[t].isActive THEN active ELSE active \cup {request[t].user}
    /\ Answer(t)
    /\ UNCHANGED <<known, admins, disabled>>

WritePromoted(t) ==
    /\ At(t, "write", {"promote"})
    /\ admins' = IF request[t].isAdmin THEN admins ELSE admins \cup {request[t].user}
    /\ Answer(t)
    /\ UNCHANGED <<known, active, disabled>>

WriteDemoted(t) ==
    /\ At(t, "write", {"demote"})
    /\ admins' = IF request[t].isAdmin THEN admins \ {request[t].user} ELSE admins
    /\ Answer(t)
    /\ UNCHANGED <<known, active, disabled>>

\* as if the row were added after the role
\* create_user_with_role; the unique e-mail refuses a second insertion
WriteCreated(t) ==
    /\ At(t, "load", Creations)
    /\ LET u == request[t].user
       IN  /\ u \notin known
           /\ known' = known \cup {u}
           /\ active' = active \cup {u}
           /\ admins' = IF request[t].kind = "create admin" THEN admins \cup {u} ELSE admins
    /\ Answer(t)
    /\ UNCHANGED disabled

CreateRefused(t) ==
    /\ At(t, "load", Creations)
    /\ request[t].user \in known
    /\ Answer(t)
    /\ UNCHANGED <<rows, disabled>>

(***************************************************************************)
(* The endpoint's audit event.  update_user_endpoint compares `existing`   *)
(* with `user` after the change; the identity map made them one object.    *)
(***************************************************************************)
WasDisabled(existing, user) == existing.isActive /\ ~user.isActive

Recorded(r) == r.kind = "delete" \/ WasDisabled(r, r)

Audit(t) ==
    /\ At(t, "audit", {"disable", "delete"})
    /\ disabled' = IF Recorded(request[t]) THEN disabled \cup {request[t].user} ELSE disabled
    /\ Answer(t)
    /\ UNCHANGED rows

\* POST auth/register: anyone may open an account, always as Employee.
Register ==
    /\ \E u \in Users \ known : /\ known' = known \cup {u}
                                /\ active' = active \cup {u}
    /\ UNCHANGED <<admins, disabled, request>>

Next == \/ \E t \in Requests :
              \/ Authorize(t) \/ Load(t) \/ CheckPasses(t) \/ CheckRefuses(t)
              \/ WriteDisabled(t) \/ WriteEnabled(t) \/ WritePromoted(t)
              \/ WriteDemoted(t) \/ WriteCreated(t) \/ CreateRefused(t) \/ Audit(t)
        \/ Register

Spec == Init /\ [][Next]_vars

-----------------------------------------------------------------------------
TypeOK ==
    /\ known \in SUBSET Users
    /\ active \in SUBSET known
    /\ admins \in SUBSET known
    /\ disabled \in SUBSET known
    /\ request \in [Requests ->
          [point : {"idle", "load", "check", "write", "audit"}, kind : Kinds,
           caller : Users \cup {None}, user : Users \cup {None},
           isActive : BOOLEAN, isAdmin : BOOLEAN]]

(***************************************************************************)
(* "Cannot demote/disable the last administrative account": whatever the   *)
(* requests do, some active user is administrative in the sense of         *)
(* is_administrative_user.                                                 *)
(***************************************************************************)
AdministratorRemains == active \cap (admins \cup Supers) # {}

(***************************************************************************)
(* The lockout the guard is there to prevent: some active user holds the   *)
(* Admin role, without which require_permission refuses every request that *)
(* could give it to anyone.                                                *)
(***************************************************************************)
NoLockout == active \cap admins # {}

(***************************************************************************)
(* Once nothing runs, each user that was disabled has a "user.disabled"    *)
(* event in the audit log.                                                 *)
(***************************************************************************)
DisablingIsAudited ==
    (\A t \in Requests : request[t] = Idle) => known \ active \subseteq disabled
=============================================================================
