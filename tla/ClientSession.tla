--------------------------- MODULE ClientSession ---------------------------
(***************************************************************************)
(* The session the browser keeps: two tokens in localStorage, the user the *)
(* React context shows, and the axios interceptors that refresh an expired *)
(* access token and repeat the calls it failed                             *)
(* (frontend/src/services/api.ts, contexts/AuthContext.tsx), against the   *)
(* answers of backend/app/services/auth_service.py.                        *)
(*                                                                         *)
(* JavaScript runs a handler up to its next await without interruption; a  *)
(* step is one such piece. Sessions are numbered by login, and 0 is null.  *)
(* An access token is good until the clock ticks.                          *)
(***************************************************************************)
EXTENDS Naturals

CONSTANTS
    Calls,       \* calls that may be under way at once
    MaxLogins,   \* sessions
    MaxTicks     \* expiries of access tokens

VARIABLES
    access,      \* localStorage: the access token
    refresh,     \* localStorage: the session of the refresh token
    shown,       \* AuthContext.user: the session whose user is signed in
    signing,     \* whether a login has been submitted
    call,        \* the calls of apiClient
    refresher,   \* isRefreshing: the call that refreshes and the session
    waiting,     \* refreshQueue: calls that wait for the new token
    logins, clock,
    ended,       \* sessions whose refresh token is refused from now on
    crossed,     \* history: whether a session was cleared while an answer
                 \* that changes the session was under way
    excused      \* history: calls that had a reason to fail

storage == <<access, refresh>>
world == <<logins, clock, ended>>
vars == <<storage, shown, signing, call, refresher, waiting, world, crossed, excused>>

NoToken == [of |-> 0, at |-> 0]
Token(s) == [of |-> s, at |-> clock]
Nobody == [call |-> "none", of |-> 0]
Idle == [at |-> "idle", purpose |-> "page", token |-> NoToken, retried |-> FALSE]
Failed == [Idle EXCEPT !.at = "failed"]
Under == {"sent", "waiting", "refreshing"}
Pending == {c \in Calls : call[c].at \in Under}
Refreshing == refresher # Nobody

TypeOK ==
    /\ access \in [of : 0..MaxLogins, at : 0..MaxTicks]
    /\ refresh \in 0..MaxLogins /\ shown \in 0..MaxLogins
    /\ waiting \subseteq Calls /\ excused \subseteq Calls
    /\ \A c \in Calls : call[c].at \in Under \cup {"idle", "failed"}

-----------------------------------------------------------------------------
(***************************************************************************)
(* Mutants: a plausible slip in the definition each is named after.        *)
(***************************************************************************)

(* A 401 that comes during a refresh is passed on.                         *)
JoinRejects(c) ==
    /\ call' = [call EXCEPT ![c] = Failed]
    /\ UNCHANGED <<storage, shown, signing, refresher, waiting, crossed, excused>>

(* Only the access token is removed.                                       *)
ClearedHalf == access' = NoToken /\ UNCHANGED refresh /\ shown' = 0

(* The queue is left alone when the refresh fails.                         *)
RefreshFailsAlone ==
    /\ Refreshing
    /\ call' = [call EXCEPT ![refresher.call] = Failed]
    /\ refresher' = Nobody
    /\ access' = NoToken /\ refresh' = 0 /\ shown' = 0
    /\ excused' = excused \cup Pending
    /\ UNCHANGED <<signing, waiting, world, crossed>>

-----------------------------------------------------------------------------
Sent(purpose, token) ==
    [at |-> "sent", purpose |-> purpose, token |-> token, retried |-> FALSE]

(* A page that was loaded with tokens asks who the user is.                *)
Loaded == [c \in Calls |->
    IF access # NoToken /\ c = CHOOSE d \in Calls : TRUE THEN Sent("me", access) ELSE Idle]

Init ==
    /\ clock = 0 /\ ended = {}
    /\ logins \in {0, 1}
    /\ access = [of |-> logins, at |-> 0] /\ refresh = logins
    /\ shown = 0 /\ signing = FALSE
    /\ call = Loaded
    /\ refresher = Nobody /\ waiting = {}
    /\ crossed = FALSE /\ excused = {}

(* authStorage.clearTokens and setUser(null).                              *)
Cleared == access' = NoToken /\ refresh' = 0 /\ shown' = 0

(* What clearing leaves under way. A refresh, or an answer that sets or    *)
(* clears the user, then belongs to a session that is over.                *)
Crossed(others) ==
    crossed' = (crossed \/ Refreshing \/ \E c \in others : call[c].purpose # "page")
Crosses(others) == Crossed(others) /\ excused' = excused \cup others

-----------------------------------------------------------------------------
(* A protected page calls the backend; the interceptor attaches the token. *)
Start(c) ==
    /\ shown # 0
    /\ c \notin Pending
    /\ call' = [call EXCEPT ![c] = Sent("page", access)]
    /\ excused' = excused \ {c}
    /\ UNCHANGED <<storage, shown, signing, refresher, waiting, world, crossed>>

(* login, of a visitor nobody is asked about.                              *)
SubmitLogin ==
    /\ shown = 0 /\ ~signing /\ logins < MaxLogins
    /\ \A c \in Pending : call[c].purpose # "me"
    /\ signing' = TRUE
    /\ UNCHANGED <<storage, shown, call, refresher, waiting, world, crossed, excused>>

LoginRefused ==
    /\ signing
    /\ signing' = FALSE
    /\ UNCHANGED <<storage, shown, call, refresher, waiting, world, crossed, excused>>

LoginAnswers(c) ==
    /\ signing
    /\ c \notin Pending
    /\ signing' = FALSE
    /\ logins' = logins + 1
    /\ access' = Token(logins + 1) /\ refresh' = logins + 1
    /\ call' = [call EXCEPT ![c] = Sent("me", access')]
    /\ excused' = excused \ {c}
    /\ UNCHANGED <<shown, refresher, waiting, clock, ended, crossed>>

(* logout tells the backend first, if there is a token.                    *)
Logout(c) ==
    /\ shown # 0
    /\ c \notin Pending
    /\ IF access = NoToken
       THEN Cleared /\ Crosses(Pending) /\ UNCHANGED call
       ELSE /\ call' = [call EXCEPT ![c] = Sent("logout", access)]
            /\ excused' = excused \ {c}
            /\ UNCHANGED <<storage, shown, crossed>>
    /\ UNCHANGED <<signing, refresher, waiting, world>>

(* The page is loaded again: what was under way is forgotten.              *)
Reload ==
    /\ call' = Loaded
    /\ shown' = 0 /\ signing' = FALSE
    /\ refresher' = Nobody /\ waiting' = {}
    /\ excused' = {}
    /\ UNCHANGED <<storage, world, crossed>>

-----------------------------------------------------------------------------
(* get_authenticated_user accepts the token.                               *)
Answer(c) ==
    /\ call[c].at = "sent"
    /\ call[c].token # NoToken /\ call[c].token.at = clock
    /\ call' = [call EXCEPT ![c] = Idle]
    /\ CASE call[c].purpose = "page" -> UNCHANGED <<storage, shown, crossed, excused>>
         [] call[c].purpose = "me" ->
                shown' = call[c].token.of /\ UNCHANGED <<storage, crossed, excused>>
         [] call[c].purpose = "logout" -> Cleared /\ Crosses(Pending \ {c})
    /\ UNCHANGED <<signing, refresher, waiting, world>>

(* The network fails, 30 seconds pass, the account is inactive (403), the  *)
(* backend has an error: any answer but a 401. AuthContext clears the      *)
(* session when it cannot get the user, and after a logout in any case.    *)
Break(c) ==
    /\ call[c].at = "sent"
    /\ call' = [call EXCEPT ![c] = Failed]
    /\ IF call[c].purpose = "page"
       THEN UNCHANGED <<storage, shown, crossed>>
       ELSE Cleared /\ Crossed(Pending \ {c})
    /\ excused' = excused \cup (IF call[c].purpose = "page" THEN {c} ELSE Pending)
    /\ UNCHANGED <<signing, refresher, waiting, world>>

(* The response interceptor, when the token is missing or has expired: a   *)
(* call repeated already, or one with no refresh token, ends the session.  *)
GiveUp(c) ==
    /\ call' = [call EXCEPT ![c] = Failed]
    /\ Cleared /\ Crosses(Pending \ {c})
    /\ UNCHANGED <<signing, refresher, waiting>>

Join(c) ==
    /\ waiting' = waiting \cup {c}
    /\ call' = [call EXCEPT ![c].at = "waiting"]
    /\ UNCHANGED <<storage, shown, signing, refresher, crossed, excused>>

Begin(c) ==
    /\ refresher' = [call |-> c, of |-> refresh]
    /\ call' = [call EXCEPT ![c].at = "refreshing", ![c].retried = TRUE]
    /\ UNCHANGED <<storage, shown, signing, waiting, crossed, excused>>

Deny(c) ==
    /\ call[c].at = "sent"
    /\ call[c].token = NoToken \/ call[c].token.at < clock
    /\ \/ call[c].retried /\ GiveUp(c)
       \/ ~call[c].retried /\ Refreshing /\ Join(c)
       \/ ~call[c].retried /\ ~Refreshing /\ refresh = 0 /\ GiveUp(c)
       \/ ~call[c].retried /\ ~Refreshing /\ refresh # 0 /\ Begin(c)
    /\ UNCHANGED world

-----------------------------------------------------------------------------
Resumed == waiting \cup {refresher.call}

(* refresh_access_token issues a token: it is stored, and the calls that   *)
(* wait for it are sent again.                                             *)
RefreshAnswers ==
    /\ Refreshing /\ refresher.of \notin ended
    /\ access' = Token(refresher.of)
    /\ call' = [c \in Calls |->
            IF c \in Resumed THEN [call[c] EXCEPT !.at = "sent", !.token = access']
                             ELSE call[c]]
    /\ refresher' = Nobody /\ waiting' = {}
    /\ UNCHANGED <<refresh, shown, signing, world, crossed, excused>>

(* It refuses, or the request fails: all are rejected, the session ends.   *)
RefreshFails ==
    /\ Refreshing
    /\ call' = [c \in Calls |->
            IF c \in Resumed THEN Failed ELSE call[c]]
    /\ refresher' = Nobody /\ waiting' = {}
    /\ Cleared
    /\ crossed' = (crossed \/ \E c \in Pending \ Resumed : call[c].purpose # "page")
    /\ excused' = excused \cup Pending
    /\ UNCHANGED <<signing, world>>

-----------------------------------------------------------------------------
(* Access tokens expire. A call repeated with one that just has is not     *)
(* repeated again.                                                         *)
Tick ==
    /\ clock < MaxTicks
    /\ clock' = clock + 1
    /\ excused' = excused \cup {c \in Pending : call[c].retried /\ call[c].at = "sent"}
    /\ UNCHANGED <<storage, shown, signing, call, refresher, waiting, logins, ended, crossed>>

(* A refresh token expires, or the account is disabled.                    *)
EndSession(s) ==
    /\ s \in 1..logins /\ s \notin ended
    /\ ended' = ended \cup {s}
    /\ UNCHANGED <<storage, shown, signing, call, refresher, waiting, logins, clock,
                   crossed, excused>>

Settle(c) == Answer(c) \/ Break(c) \/ Deny(c)
Refresh == RefreshAnswers \/ RefreshFails

Next ==
    \/ \E c \in Calls : Start(c) \/ LoginAnswers(c) \/ Logout(c) \/ Settle(c)
    \/ SubmitLogin \/ LoginRefused \/ Reload
    \/ Refresh
    \/ Tick
    \/ \E s \in 1..MaxLogins : EndSession(s)

Spec == Init /\ [][Next]_vars

(* A request is answered or times out after 30 seconds.                    *)
FairSpec == Spec /\ WF_vars(Refresh) /\ \A c \in Calls : WF_vars(Settle(c))

-----------------------------------------------------------------------------
(* The two tokens and the user shown are of one login, unless one of the   *)
(* answers that change them came after the session they belong to.         *)
OneLogin ==
    ~crossed => access.of = refresh /\ shown \in {0, refresh}

(* "Response interceptor attempts a single token refresh on 401, then      *)
(* retries": a call fails only if the network or the refresh failed, the   *)
(* session was cleared meanwhile or the new token expired at once.         *)
RefusedForAReason ==
    ~crossed => \A c \in Calls : call[c].at = "failed" => c \in excused

(* Whatever the tokens do, no call is left waiting; only a visitor who     *)
(* reloads the page for ever may keep it from ending.                      *)
CallsEnd ==
    []<><<Reload>>_vars \/ \A c \in Calls : c \in Pending ~> c \notin Pending

(* "client discards tokens locally": without the exception of OneLogin.    *)
AlwaysOneLogin == access.of = refresh /\ shown \in {0, refresh}
=============================================================================
