-------------------------- MODULE ConversationChat --------------------------
(***************************************************************************)
(* Conversations and their turns: asking a question, renaming, deleting,   *)
(* importing a guest's history, and the title a conversation is given      *)
(* after its first answer (backend/app/services/conversation_service.py    *)
(* and conversation_chat_service.py over PostgreSQL, READ COMMITTED).      *)
(*                                                                         *)
(* An ask is long: the answer is generated between two transactions, and   *)
(* other requests of the same user run meanwhile. A step below ends where  *)
(* the code commits. Column defaults use now(), which PostgreSQL fixes at  *)
(* the START of a transaction: a row is stamped with the time its          *)
(* transaction began, which the model draws from one growing clock.        *)
(***************************************************************************)
EXTENDS Naturals, FiniteSets

CONSTANTS
    Requests,        \* threads that serve requests
    Conversations,   \* conversations of one user
    None,            \* no value
    Window,          \* DEFAULT_CONTEXT_WINDOW, 10 in the code
    Imported,        \* turns of the guest history that may be imported
    MaxOps,          \* bound: requests ever begun
    MaxRestarts      \* bound: crashes of the process

ASSUME ConstantsAssumption ==
    /\ Window \in Nat \ {0}
    /\ Imported \in Nat
    /\ MaxOps \in Nat
    /\ MaxRestarts \in Nat
    /\ None \notin Conversations \cup Nat

Turns  == 1..MaxOps          \* an ask is numbered by the request it is
Stamps == Nat                \* transactions are numbered as they begin
Titles == {"unset", "user", "imported", "auto"}

Message == [conv : Conversations, kind : {"question", "answer", "import"},
            turn : Nat, stamp : Stamps]

AskPoints == {"asked", "stored", "touched", "generating", "answered", "titling", "titled"}
Points == {"idle", "renaming", "deleting"} \cup AskPoints

Work   == [conv : Conversations \cup {None}, turn : Nat, began : Stamps]
NoWork == [conv |-> None, turn |-> 0, began |-> 0]

VARIABLES
    phase,      \* each conversation: "absent", "open" or "deleted"
    title,      \* who gave its title
    created,    \* its created_at
    updated,    \* its updated_at
    messages,   \* the rows of the messages table
    at,         \* where each request stands
    work,       \* its locals: conversation, turn, start of its transaction
    context,    \* the prior messages its answer is generated from
    now,        \* the clock transactions are stamped with
    ops,        \* requests begun so far
    restarts,   \* crashes so far
    earlier,    \* history: what an ask found stored when it began
    broken      \* history: turns cut short by an error or a crash

convVars == <<phase, title, created, updated>>
bounds == <<ops, restarts>>
history == <<earlier, broken>>
vars == <<convVars, messages, at, work, context, now, bounds, history>>

-----------------------------------------------------------------------------
Open(c) == phase[c] = "open"
Of(c) == {m \in messages : m.conv = c}
MessageOf(c, kind, turn, stamp) ==
    [conv |-> c, kind |-> kind, turn |-> turn, stamp |-> stamp]

Goto(r, p) == at' = [at EXCEPT ![r] = p]
Tick == now' = now + 1

(* The request returns, or raises: either way its session is closed.       *)
Finish(r) ==
    /\ Goto(r, "idle")
    /\ work' = [work EXCEPT ![r] = NoWork]
    /\ context' = [context EXCEPT ![r] = {}]

(* A turn whose request raises before its answer is stored.                *)
Break(r) ==
    /\ Finish(r)
    /\ broken' = broken \cup {work[r].turn}

(* ORDER BY created_at DESC LIMIT n: the newest n; ties in any order.      *)
Newest(ms, n) ==
    {s \in SUBSET ms :
        /\ Cardinality(s) = (IF Cardinality(ms) < n THEN Cardinality(ms) ELSE n)
        /\ \A m \in s, k \in ms \ s : m.stamp >= k.stamp}

-----------------------------------------------------------------------------
(***************************************************************************)
(* Mutants: what a plausible slip would make of the action named after.    *)
(***************************************************************************)
(* The question is only flushed: the answer shares its transaction.        *)
ReadContextSameTransaction(r) ==
    /\ at[r] = "touched"
    /\ Open(work[r].conv)
    /\ \E recent \in Newest(Of(work[r].conv), Window) :
           context' = [context EXCEPT ![r] = {m \in recent : m.turn # work[r].turn}]
    /\ Goto(r, "generating")
    /\ UNCHANGED <<convVars, messages, work, now, bounds, history>>

(* The stored question is left in its own context.                         *)
ReadContextWithQuestion(r) ==
    /\ at[r] = "touched"
    /\ Open(work[r].conv)
    /\ Tick
    /\ work' = [work EXCEPT ![r].began = now + 1]
    /\ \E recent \in Newest(Of(work[r].conv), Window) :
           context' = [context EXCEPT ![r] = recent]
    /\ Goto(r, "generating")
    /\ UNCHANGED <<convVars, messages, bounds, history>>

(* The answer is dropped when the conversation changed meanwhile.          *)
StoreAnswerIfUntouched(r) ==
    /\ at[r] = "generating"
    /\ \/ /\ updated[work[r].conv] <= work[r].began
          /\ messages' = messages \cup
                 {MessageOf(work[r].conv, "answer", work[r].turn, work[r].began)}
          /\ Goto(r, "answered")
          /\ UNCHANGED <<work, context>>
       \/ /\ updated[work[r].conv] > work[r].began
          /\ Finish(r)
          /\ UNCHANGED messages
    /\ UNCHANGED <<convVars, now, bounds, history>>

(* UPDATE without WHERE title IS NULL.                                     *)
SetTitleAlways(r) ==
    /\ at[r] = "titled"
    /\ IF Open(work[r].conv)
       THEN /\ title' = [title EXCEPT ![work[r].conv] = "auto"]
            /\ updated' = [updated EXCEPT ![work[r].conv] = work[r].began]
       ELSE UNCHANGED <<title, updated>>
    /\ Finish(r)
    /\ UNCHANGED <<phase, created, messages, now, bounds, history>>

(* Only the first question of a conversation is given a title.             *)
ReadTitleOfFirst(r) ==
    /\ at[r] = "titling"
    /\ Tick
    /\ IF /\ Open(work[r].conv)
          /\ title[work[r].conv] = "unset"
          /\ Cardinality(Of(work[r].conv)) = 2
       THEN /\ Goto(r, "titled")
            /\ work' = [work EXCEPT ![r].began = now + 1]
            /\ UNCHANGED context
       ELSE Finish(r)
    /\ UNCHANGED <<convVars, messages, bounds, history>>

-----------------------------------------------------------------------------
Init ==
    /\ phase = [c \in Conversations |-> "absent"]
    /\ title = [c \in Conversations |-> "unset"]
    /\ created = [c \in Conversations |-> 0]
    /\ updated = [c \in Conversations |-> 0]
    /\ messages = {}
    /\ at = [r \in Requests |-> "idle"]
    /\ work = [r \in Requests |-> NoWork]
    /\ context = [r \in Requests |-> {}]
    /\ now = 0
    /\ ops = 0
    /\ restarts = 0
    /\ earlier = [t \in Turns |-> {}]
    /\ broken = {}

(* A request arrives at an idle thread.                                    *)
Begin(r) ==
    /\ at[r] = "idle"
    /\ ops < MaxOps
    /\ ops' = ops + 1
    /\ Tick
    /\ UNCHANGED restarts

(* The row a create or an import inserts: both columns are now().          *)
Insert(c, t) ==
    /\ phase[c] = "absent"
    /\ phase' = [phase EXCEPT ![c] = "open"]
    /\ title' = [title EXCEPT ![c] = t]
    /\ created' = [created EXCEPT ![c] = now + 1]
    /\ updated' = [updated EXCEPT ![c] = now + 1]

(* create_conversation: one transaction; a blank title is stored as NULL.  *)
Create(r, c) ==
    /\ Begin(r)
    /\ \E t \in {"unset", "user"} : Insert(c, t)
    /\ UNCHANGED <<messages, at, work, context, history>>

(* import_guest_conversation: the conversation and all its turns in one    *)
(* transaction, so all rows carry the same created_at.                     *)
ImportGuest(r, c) ==
    /\ Begin(r)
    /\ Imported > 0
    /\ Insert(c, "imported")
    /\ messages' = messages \cup
           {MessageOf(c, "import", i, now + 1) : i \in 1..Imported}
    /\ UNCHANGED <<at, work, context, history>>

-----------------------------------------------------------------------------
(* ask: authentication and the lookup of the caller's documents open the   *)
(* transaction the question will be stored in.                             *)
Ask(r, c) ==
    /\ Begin(r)
    /\ phase[c] # "absent"
    /\ work' = [work EXCEPT ![r] = [conv |-> c, turn |-> ops + 1, began |-> now + 1]]
    /\ earlier' = [earlier EXCEPT ![ops + 1] = Of(c)]
    /\ Goto(r, "asked")
    /\ UNCHANGED <<convVars, messages, context, broken>>

(* add_user_message: owner lookup, INSERT, commit; 404 when it is gone.    *)
StoreQuestion(r) ==
    /\ at[r] = "asked"
    /\ IF Open(work[r].conv)
       THEN /\ messages' = messages \cup
                   {MessageOf(work[r].conv, "question", work[r].turn, work[r].began)}
            /\ Goto(r, "stored")
            /\ UNCHANGED <<work, context, broken>>
       ELSE /\ Break(r)
            /\ UNCHANGED messages
    /\ UNCHANGED <<convVars, now, bounds, earlier>>

(* touch, a transaction of its own: an UPDATE that may find no row.        *)
Touch(r, from, to) ==
    /\ at[r] = from
    /\ Tick
    /\ updated' = IF Open(work[r].conv)
                  THEN [updated EXCEPT ![work[r].conv] = now + 1]
                  ELSE updated
    /\ Goto(r, to)
    /\ UNCHANGED <<phase, title, created, messages, work, context, bounds, history>>

TouchQuestion(r) == Touch(r, "stored", "touched")

(* _build_context_after_user_message: this owner lookup opens the          *)
(* transaction that the answer will be stored in.                          *)
ReadContext(r) ==
    /\ at[r] = "touched"
    /\ Open(work[r].conv)
    /\ Tick
    /\ work' = [work EXCEPT ![r].began = now + 1]
    /\ \E recent \in Newest(Of(work[r].conv), Window) :
           context' = [context EXCEPT ![r] =
                          recent \ {MessageOf(work[r].conv, "question",
                                              work[r].turn, work[r].began)}]
    /\ Goto(r, "generating")
    /\ UNCHANGED <<convVars, messages, bounds, history>>

(* The lookup finds no conversation, or the answer cannot be generated:    *)
(* the exception ends the request and the question stays unanswered.       *)
ContextFails(r) ==
    /\ at[r] = "touched"
    /\ ~Open(work[r].conv)
    /\ Break(r)
    /\ UNCHANGED <<convVars, messages, now, bounds, earlier>>

GenerationFails(r) ==
    /\ at[r] = "generating"
    /\ Break(r)
    /\ UNCHANGED <<convVars, messages, now, bounds, earlier>>

(* add_assistant_message: a fresh owner lookup, then the INSERT. When the  *)
(* conversation was deleted meanwhile the lookup, or the foreign key,      *)
(* refuses it.                                                             *)
StoreAnswer(r) ==
    /\ at[r] = "generating"
    /\ IF Open(work[r].conv)
       THEN /\ messages' = messages \cup
                   {MessageOf(work[r].conv, "answer", work[r].turn, work[r].began)}
            /\ Goto(r, "answered")
            /\ UNCHANGED <<work, context, broken>>
       ELSE /\ Break(r)
            /\ UNCHANGED messages
    /\ UNCHANGED <<convVars, now, bounds, earlier>>

TouchAnswer(r) == Touch(r, "answered", "titling")

(* _maybe_generate_title: a conversation with a title is left alone, and   *)
(* one that is gone raises, which is swallowed. The object read here stays *)
(* in the session, so the check of set_auto_generated_title sees it again. *)
ReadTitle(r) ==
    /\ at[r] = "titling"
    /\ Tick
    /\ IF Open(work[r].conv) /\ title[work[r].conv] = "unset"
       THEN /\ Goto(r, "titled")
            /\ work' = [work EXCEPT ![r].began = now + 1]
            /\ UNCHANGED context
       ELSE Finish(r)
    /\ UNCHANGED <<convVars, messages, bounds, history>>

(* set_title_if_unset, after the title was generated: UPDATE ... WHERE     *)
(* title IS NULL decides.                                                  *)
SetTitle(r) ==
    /\ at[r] = "titled"
    /\ IF Open(work[r].conv) /\ title[work[r].conv] = "unset"
       THEN /\ title' = [title EXCEPT ![work[r].conv] = "auto"]
            /\ updated' = [updated EXCEPT ![work[r].conv] = work[r].began]
       ELSE UNCHANGED <<title, updated>>
    /\ Finish(r)
    /\ UNCHANGED <<phase, created, messages, now, bounds, history>>

-----------------------------------------------------------------------------
(* rename_conversation and delete_conversation: owner lookup ...           *)
Load(r, c, point) ==
    /\ Begin(r)
    /\ Open(c)
    /\ work' = [work EXCEPT ![r] = [conv |-> c, turn |-> 0, began |-> now + 1]]
    /\ Goto(r, point)
    /\ UNCHANGED <<convVars, messages, context, history>>

RenameLoad(r, c) == Load(r, c, "renaming")
DeleteLoad(r, c) == Load(r, c, "deleting")

(* ... then an UPDATE by primary key, stamped with its transaction's start *)
RenameWrite(r) ==
    /\ at[r] = "renaming"
    /\ IF Open(work[r].conv)
       THEN /\ title' = [title EXCEPT ![work[r].conv] = "user"]
            /\ updated' = [updated EXCEPT ![work[r].conv] = work[r].began]
       ELSE UNCHANGED <<title, updated>>
    /\ Finish(r)
    /\ UNCHANGED <<phase, created, messages, now, bounds, history>>

(* ... or the DELETE, which cascades to the messages.                      *)
DeleteWrite(r) ==
    /\ at[r] = "deleting"
    /\ phase' = [phase EXCEPT ![work[r].conv] = "deleted"]
    /\ messages' = messages \ Of(work[r].conv)
    /\ Finish(r)
    /\ UNCHANGED <<title, created, updated, now, bounds, history>>

(* The process dies: open transactions roll back, requests vanish.         *)
Crash ==
    /\ restarts < MaxRestarts
    /\ restarts' = restarts + 1
    /\ broken' = broken \cup {work[r].turn : r \in {s \in Requests : at[s] \in AskPoints}}
    /\ at' = [r \in Requests |-> "idle"]
    /\ work' = [r \in Requests |-> NoWork]
    /\ context' = [r \in Requests |-> {}]
    /\ UNCHANGED <<convVars, messages, now, ops, earlier>>

-----------------------------------------------------------------------------
Arrive(r) == \E c \in Conversations :
    \/ Create(r, c) \/ ImportGuest(r, c) \/ Ask(r, c)
    \/ RenameLoad(r, c) \/ DeleteLoad(r, c)

Continue(r) ==
    \/ StoreQuestion(r) \/ TouchQuestion(r) \/ ReadContext(r) \/ ContextFails(r)
    \/ GenerationFails(r) \/ StoreAnswer(r) \/ TouchAnswer(r)
    \/ ReadTitle(r) \/ SetTitle(r) \/ RenameWrite(r) \/ DeleteWrite(r)

Next == Crash \/ \E r \in Requests : Arrive(r) \/ Continue(r)

Spec == Init /\ [][Next]_vars

(* A request that was begun runs on: its thread is scheduled, and the      *)
(* language model answers or times out.                                    *)
FairSpec == Spec /\ \A r \in Requests : WF_vars(Continue(r))

-----------------------------------------------------------------------------
(* Every variable keeps its type.                                          *)
TypeOK ==
    /\ phase \in [Conversations -> {"absent", "open", "deleted"}]
    /\ title \in [Conversations -> Titles]
    /\ created \in [Conversations -> Stamps]
    /\ updated \in [Conversations -> Stamps]
    /\ messages \subseteq Message
    /\ at \in [Requests -> Points]
    /\ work \in [Requests -> Work]
    /\ context \in [Requests -> SUBSET Message]
    /\ now \in Stamps /\ ops \in 0..MaxOps /\ restarts \in 0..MaxRestarts
    /\ earlier \in [Turns -> SUBSET Message]
    /\ broken \subseteq Turns

(* Sorting by created_at reproduces the turns, although rows are stamped   *)
(* before they are written and asks overlap: an answer comes strictly      *)
(* after its question, and both come after all that was stored when the    *)
(* ask began.                                                              *)
TurnOrder == \A m \in messages :
    /\ m.kind = "answer" =>
          \E q \in Of(m.conv) : q.kind = "question" /\ q.turn = m.turn /\ q.stamp < m.stamp
    /\ m.kind \in {"question", "answer"} => \A e \in earlier[m.turn] : e.stamp < m.stamp

(* No question is left without an answer, however asks, renames and        *)
(* deletes interleave, unless its request is still running or was cut      *)
(* short by an error or a crash.                                           *)
UnansweredExplained == \A q \in messages : q.kind = "question" =>
    \/ \E m \in Of(q.conv) : m.kind = "answer" /\ m.turn = q.turn
    \/ \E r \in Requests : at[r] \in AskPoints /\ work[r].turn = q.turn
    \/ q.turn \in broken

(* A deletion that overlaps an ask leaves no message behind, whichever of  *)
(* the two writes last.                                                    *)
NoOrphanMessage == \A m \in messages : Open(m.conv)

(* The context of an answer: never the question itself, nothing the same   *)
(* turn wrote, and all that was stored when the ask began unless the       *)
(* window is full of newer messages.                                       *)
ContextIsEarlier == \A r \in Requests : at[r] = "generating" =>
    /\ \A m \in context[r] : m.stamp < work[r].began /\
           ~(m.turn = work[r].turn /\ m.kind # "import")
    /\ \/ earlier[work[r].turn] \subseteq context[r]
       \/ Cardinality(context[r]) >= Window - 1

(* A title the user chose is never replaced by a generated one, although   *)
(* the generator read the conversation before the rename.                  *)
UserTitleKept ==
    [][\A c \in Conversations : title[c] = "user" => title'[c] # "auto"]_vars

(* Once a turn was answered the conversation gets a title, whoever else    *)
(* asks, unless it is deleted or the request dies.                         *)
TitledInTheEnd == \A c \in Conversations, t \in Turns :
    (\E m \in messages : m.conv = c /\ m.kind = "answer" /\ m.turn = t)
        ~> (title[c] # "unset" \/ ~Open(c) \/ t \in broken)

(* What the API says of the list of conversations, which is sorted by      *)
(* created_at: "ordered by most recent activity first".                    *)
ListedByActivity == \A c, d \in Conversations :
    Open(c) /\ Open(d) /\ created[c] > created[d] => updated[c] >= updated[d]

(* What touch says of updated_at: it "reflects the latest interaction".    *)
UpdatedOnlyGrows == [][\A c \in Conversations : updated'[c] >= updated[c]]_vars
=============================================================================
