------------------------------ MODULE ChatView ------------------------------
(***************************************************************************)
(* The chat page of the browser: which conversation is selected, what the  *)
(* cache of queries holds of it, the answer being typed out, and the       *)
(* question a dashboard hands over (frontend/src/pages/ChatPage.tsx,       *)
(* features/chat/components, features/chat/hooks), beside a backend that   *)
(* stores questions and answers (ConversationChat has its details).        *)
(*                                                                         *)
(* A step is a handler, an effect or the continuation after an await. The  *)
(* cache is TanStack Query: a query is loaded when its conversation is     *)
(* selected and it has no data or stale data; invalidating it reloads it   *)
(* only while it is selected, and an earlier load goes on unless there are *)
(* data already.                                                           *)
(***************************************************************************)
EXTENDS Naturals, Sequences

CONSTANTS
    Conversations,  \* those there are and those that may be created
    None,           \* null, undefined
    MaxAsks         \* questions asked

VARIABLES
    stored,     \* the messages the backend has, None before the conversation
    gone,       \* conversations deleted
    ask,        \* each question: where it stands here and in the backend
    asks,       \* questions asked so far
    selected,   \* the conversation in the address bar
    stream,     \* activeStream
    data,       \* cached messages
    stale,      \* cached queries that have been invalidated
    failing,    \* queries whose last load failed
    load,       \* the load under way for each conversation
    change,     \* a conversation being created or deleted
    link,       \* the question of the dashboard
    cancelled,  \* the flag of the effect that handles it
    pendingQuestion,
    missed      \* history: conversations whose cache may be behind

asking == <<ask, asks>>
cache == <<data, stale, failing, load>>
linking == <<link, cancelled, pendingQuestion>>
vars == <<stored, gone, asking, selected, stream, cache, change, linking, missed>>

Turns == 1..MaxAsks
Exists(c) == stored[c] # None /\ c \notin gone
NoLoad == [at |-> "idle", rows |-> <<>>]
NoChange == [kind |-> "none", of |-> None]

TypeOK ==
    /\ selected \in Conversations \cup {None}
    /\ \A t \in Turns : ask[t].here \in {"unused", "pending", "answered", "failed"}
    /\ \A c \in Conversations : load[c].at \in {"idle", "sent", "read"}
    /\ stale \subseteq Conversations /\ missed \subseteq Conversations

(* useMutation reports the latest of its calls only.                       *)
Sending == asks > 0 /\ ask[asks].here = "pending"

-----------------------------------------------------------------------------
(***************************************************************************)
(* Mutants: a plausible slip in the definition each is named after.        *)
(***************************************************************************)

(* A load under way is taken for the one asked for.                        *)
ReloadUnlessBusy(c) == IF load[c].at = "idle" THEN [load EXCEPT ![c].at = "sent"] ELSE load

-----------------------------------------------------------------------------
Init ==
    /\ stored \in [Conversations -> {None, <<>>}] /\ gone = {}
    /\ ask = [t \in Turns |-> [of |-> None, here |-> "unused", there |-> "none"]]
    /\ asks = 0
    /\ selected = None /\ stream = None
    /\ data = [c \in Conversations |-> None]
    /\ stale = {} /\ failing = {}
    /\ load = [c \in Conversations |-> NoLoad]
    /\ change = NoChange
    /\ link \in {"none", "creating"} /\ cancelled = FALSE /\ pendingQuestion = FALSE
    /\ missed = {}

(* useConversationMessages for the conversation selected now.              *)
Load(c) ==
    /\ load' = IF load[c].at = "idle" /\ (data[c] = None \/ c \in stale)
               THEN [load EXCEPT ![c].at = "sent"] ELSE load
    /\ UNCHANGED <<data, stale>>
    /\ failing' = IF data[c] = None THEN failing \ {c} ELSE failing

(* What invalidating the selected query loads: a first load goes on.       *)
Reload(c) ==
    IF data[c] = None /\ load[c].at # "idle" THEN load
    ELSE [load EXCEPT ![c] = [NoLoad EXCEPT !.at = "sent"]]

(* Another conversation is shown; the effect drops the stream.             *)
Show(c) == selected' = c /\ stream' = None /\ Load(c)

(* Each render of ChatPage makes a new createConversation, so the effect   *)
(* that depends on it is cleaned up and run again.                         *)
Rendered == cancelled' = (link = "creating" \/ cancelled)

-----------------------------------------------------------------------------
Select(c) ==
    /\ c # selected /\ Exists(c)
    /\ Show(c)
    /\ Rendered
    /\ UNCHANGED <<stored, gone, asking, change, link, pendingQuestion, missed>>

(* sendQuestion.                                                           *)
Ask(c) ==
    /\ asks < MaxAsks
    /\ asks' = asks + 1
    /\ ask' = [ask EXCEPT ![asks + 1] = [of |-> c, here |-> "pending", there |-> "none"]]
    /\ stream' = None

(* The composer waits for the latest question.                             *)
Send ==
    /\ selected # None /\ ~Sending
    /\ Ask(selected)
    /\ UNCHANGED <<stored, gone, selected, cache, change, linking, missed>>

(* The suggestions of an empty conversation do not.                        *)
PickSuggestion ==
    /\ selected # None /\ data[selected] = <<>> /\ selected \notin failing
    /\ stream = None /\ ~pendingQuestion
    /\ Ask(selected)
    /\ UNCHANGED <<stored, gone, selected, cache, change, linking, missed>>

(* The backend stores the question, later its answer, or refuses.          *)
StoreQuestion(t) ==
    /\ ask[t].here # "unused" /\ ask[t].there = "none"
    /\ Exists(ask[t].of)
    /\ stored' = [stored EXCEPT ![ask[t].of] = Append(@, <<t, "question">>)]
    /\ ask' = [ask EXCEPT ![t].there = "asked"]
    /\ UNCHANGED <<gone, asks, selected, stream, cache, change, linking, missed>>

StoreAnswer(t) ==
    /\ ask[t].there = "asked"
    /\ Exists(ask[t].of)
    /\ stored' = [stored EXCEPT ![ask[t].of] = Append(@, <<t, "answer">>)]
    /\ ask' = [ask EXCEPT ![t].there = "answered"]
    /\ UNCHANGED <<gone, asks, selected, stream, cache, change, linking, missed>>

(* The continuation of sendQuestion and onSuccess of useAskQuestion, in    *)
(* whichever conversation is selected by now.                              *)
AnswerArrives(t) ==
    LET c == ask[t].of
    IN  /\ ask[t].here = "pending" /\ ask[t].there = "answered"
        /\ ask' = [ask EXCEPT ![t].here = "answered"]
        /\ stream' = t
        /\ stale' = stale \cup {c}
        /\ load' = IF c = selected THEN Reload(c) ELSE load
        /\ missed' = IF load[c].at # "idle" /\ (c # selected \/ data[c] = None)
                     THEN missed \cup ({c} \ gone) ELSE missed
        /\ UNCHANGED <<stored, gone, asks, selected, data, failing, change, linking>>

(* An error, or 30 seconds without an answer: nothing is invalidated,      *)
(* though the backend may have stored the question or yet do so.           *)
AskFails(t) ==
    /\ ask[t].here = "pending"
    /\ ask' = [ask EXCEPT ![t].here = "failed"]
    /\ missed' = missed \cup ({ask[t].of} \ gone)
    /\ UNCHANGED <<stored, gone, asks, selected, stream, cache, change, linking>>

(* StreamingMessage has typed out the answer.                              *)
StreamEnds ==
    /\ stream # None /\ selected # None
    /\ stream' = None
    /\ UNCHANGED <<stored, gone, asking, selected, cache, change, linking, missed>>

-----------------------------------------------------------------------------
ReadMessages(c) ==
    /\ load[c].at = "sent" /\ Exists(c)
    /\ load' = [load EXCEPT ![c] = [at |-> "read", rows |-> stored[c]]]
    /\ UNCHANGED <<stored, gone, asking, selected, stream, data, stale, failing, change,
                   linking, missed>>

MessagesArrive(c) ==
    /\ load[c].at = "read"
    /\ data' = [data EXCEPT ![c] = load[c].rows]
    /\ stale' = stale \ {c} /\ failing' = failing \ {c}
    /\ load' = [load EXCEPT ![c] = NoLoad]
    /\ UNCHANGED <<stored, gone, asking, selected, stream, change, linking, missed>>

(* The second try has failed, too. Data there are are stale then.          *)
LoadFails(c) ==
    /\ load[c].at # "idle"
    /\ load' = [load EXCEPT ![c] = NoLoad]
    /\ failing' = failing \cup {c} /\ stale' = stale \cup {c}
    /\ UNCHANGED <<stored, gone, asking, selected, stream, data, change, linking, missed>>

-----------------------------------------------------------------------------
(* handleCreateConversation; the button waits for its mutation.            *)
Create(c) ==
    /\ change = NoChange /\ link # "creating" /\ stored[c] = None
    /\ stored' = [stored EXCEPT ![c] = <<>>]
    /\ change' = [kind |-> "create", of |-> c]
    /\ UNCHANGED <<gone, asking, selected, stream, cache, linking, missed>>

Created ==
    /\ change.kind = "create"
    /\ Show(change.of)
    /\ change' = NoChange
    /\ Rendered
    /\ UNCHANGED <<stored, gone, asking, link, pendingQuestion, missed>>

(* handleDeleteConfirm, behind a dialog.                                   *)
Delete(c) ==
    /\ change = NoChange /\ Exists(c)
    /\ gone' = gone \cup {c}
    /\ change' = [kind |-> "delete", of |-> c]
    /\ missed' = missed \ {c}
    /\ Rendered
    /\ UNCHANGED <<stored, asking, selected, stream, cache, link, pendingQuestion>>

Deleted ==
    LET c == change.of
    IN  /\ change.kind = "delete"
        /\ data' = [data EXCEPT ![c] = None]
        /\ stale' = stale \ {c} /\ failing' = failing \ {c}
        /\ load' = [load EXCEPT ![c] = NoLoad]
        /\ IF c = selected THEN selected' = None /\ stream' = None
                           ELSE UNCHANGED <<selected, stream>>
        /\ change' = NoChange
        /\ Rendered
        /\ UNCHANGED <<stored, gone, asking, link, pendingQuestion, missed>>

(* The request fails, or its answer is lost.                               *)
ChangeFails ==
    /\ change # NoChange
    /\ change' = NoChange
    /\ Rendered
    /\ UNCHANGED <<stored, gone, asking, selected, stream, cache, link, pendingQuestion,
                   missed>>

-----------------------------------------------------------------------------
(* The effect of ChatPage that hands a dashboard's question over has asked *)
(* for a conversation; that its request is under way is rendered, too.     *)
Render ==
    /\ link = "creating" /\ ~cancelled
    /\ Rendered
    /\ UNCHANGED <<stored, gone, asking, selected, stream, cache, change, link,
                   pendingQuestion, missed>>

LinkCreated(c) ==
    /\ link = "creating" /\ stored[c] = None
    /\ stored' = [stored EXCEPT ![c] = <<>>]
    /\ cancelled' = FALSE
    /\ IF cancelled
       THEN link' = "dropped" /\ UNCHANGED <<pendingQuestion, selected, stream, cache>>
       ELSE link' = "none" /\ pendingQuestion' = TRUE /\ Show(c)
    /\ UNCHANGED <<gone, asking, change, missed>>

(* The effect is free to run again, and the render of the error runs it.   *)
LinkFails ==
    /\ link = "creating"
    /\ cancelled' = FALSE
    /\ UNCHANGED <<stored, gone, asking, selected, stream, cache, change, link,
                   pendingQuestion, missed>>

(* The effect of ChatArea, once the messages are there.                    *)
ConsumeQuestion ==
    /\ pendingQuestion /\ selected # None /\ ~Sending
    /\ data[selected] # None /\ selected \notin failing
    /\ pendingQuestion' = FALSE
    /\ IF data[selected] # <<>> \/ stream # None THEN UNCHANGED <<asking, stream>>
                                               ELSE Ask(selected)
    /\ UNCHANGED <<stored, gone, selected, cache, change, link, cancelled, missed>>

Next ==
    \/ \E c \in Conversations :
           \/ Select(c) \/ Create(c) \/ Delete(c) \/ LinkCreated(c)
           \/ ReadMessages(c) \/ MessagesArrive(c) \/ LoadFails(c)
    \/ \E t \in Turns : StoreQuestion(t) \/ StoreAnswer(t) \/ AnswerArrives(t) \/ AskFails(t)
    \/ Send \/ PickSuggestion \/ StreamEnds
    \/ Created \/ Deleted \/ ChangeFails
    \/ Render \/ LinkFails \/ ConsumeQuestion

Spec == Init /\ [][Next]_vars

-----------------------------------------------------------------------------
(* Once the questions of the selected conversation are answered and its    *)
(* messages loaded, what is shown is what the backend has. missed holds    *)
(* the exceptions: a question that failed here, and an answer that found a *)
(* load under way that it could not restart.                               *)
ShownIsStored ==
    \/ selected \in missed \cup failing \cup gone \cup {None}
    \/ load[selected].at # "idle"
    \/ \E t \in Turns : ask[t].of = selected /\ ask[t].here = "pending"
    \/ data[selected] = stored[selected]

(* "hand the question to ChatArea once": a conversation that was created   *)
(* for a dashboard's question gets the question.                           *)
QuestionIsHandedOver == link # "dropped"

(* The answer typed out is one of the conversation shown.                  *)
StreamIsOfShown == stream # None /\ selected # None => ask[stream].of = selected

(* ShownIsStored without its exceptions.                                   *)
AlwaysShownIsStored ==
    selected \notin failing \cup gone \cup {None} =>
        \/ load[selected].at # "idle"
        \/ \E t \in Turns : ask[t].of = selected /\ ask[t].here = "pending"
        \/ data[selected] = stored[selected]
=============================================================================
