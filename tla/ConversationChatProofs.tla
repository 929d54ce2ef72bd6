----------------------- MODULE ConversationChatProofs -----------------------
(***************************************************************************)
(* The turns of a conversation, for any number of requests, conversations  *)
(* and crashes and any window: whichever requests overlap, the rows sort   *)
(* into turns, no question is left unanswered without a reason, a context  *)
(* is what was said before, and the user's title stays.                    *)
(***************************************************************************)
EXTENDS ConversationChat, FiniteSetTheorems, TLAPS

(* The rows one ask has written.                                           *)
TurnOf(t) == {m \in messages : m.turn = t /\ m.kind # "import"}

Waiting == {"stored", "touched", "generating"}
Past == {"answered", "titling", "titled"}

(* Rows belong to conversations that are there; they are stamped with      *)
(* transactions that have begun.                                           *)
Placed ==
    /\ NoOrphanMessage
    /\ IsFiniteSet(messages)
    /\ \A m \in messages : m.stamp <= now /\ (m.kind # "import" => m.turn \in Turns /\ m.turn <= ops)

(* What an ask under way has written so far, and what it relies on. Its    *)
(* conversation may be deleted under it, never created again.              *)
Asking(r) ==
    LET c == work[r].conv
        t == work[r].turn
    IN  /\ c \in Conversations /\ phase[c] # "absent"
        /\ t \in Turns /\ t <= ops
        /\ work[r].began <= now
        /\ \A e \in earlier[t] : e.stamp < work[r].began
        /\ Open(c) => earlier[t] \subseteq Of(c)
        /\ \A m \in TurnOf(t) : m.conv = c
        /\ at[r] = "asked" => TurnOf(t) = {}
        /\ at[r] \in {"stored", "touched"} =>
              TurnOf(t) \subseteq {MessageOf(c, "question", t, work[r].began)}
        /\ at[r] = "generating" =>
              \A m \in TurnOf(t) : m.kind = "question" /\ m.stamp < work[r].began
        /\ at[r] \in Waiting /\ Open(c) => \E m \in TurnOf(t) : m.kind = "question"
        /\ at[r] \in Past /\ Open(c) => \E m \in TurnOf(t) : m.kind = "answer"

Asks ==
    /\ \A r \in Requests : at[r] \in AskPoints => Asking(r)
    /\ \A r \in Requests : at[r] \in {"renaming", "deleting"} => work[r].conv \in Conversations
    /\ \A r, s \in Requests :
          at[r] \in AskPoints /\ at[s] \in AskPoints /\ r # s => work[r].turn # work[s].turn

(* What the answer of a request under way is generated from.               *)
Heard(r) ==
    /\ \A m \in context[r] : m.stamp < work[r].began /\
           ~(m.turn = work[r].turn /\ m.kind # "import")
    /\ \/ earlier[work[r].turn] \subseteq context[r]
       \/ Cardinality(context[r]) >= Window - 1

Inv == TypeOK /\ Placed /\ Asks /\ TurnOrder /\ UnansweredExplained /\ ContextIsEarlier

-----------------------------------------------------------------------------
LEMMA Initially == Init => Inv
<1> SUFFICES ASSUME Init PROVE Inv
  OBVIOUS
<1> USE ConstantsAssumption DEF Init
<1>1. TypeOK
  <2>1. NoWork \in Work /\ work \in [Requests -> {NoWork}]
    BY DEF NoWork, Work, Stamps
  <2> QED
    BY <2>1 DEF TypeOK, Titles, Stamps, Points, AskPoints, Message
<1>2. Placed
  BY FS_EmptySet DEF Placed, NoOrphanMessage
<1>3. Asks /\ ContextIsEarlier
  BY DEF Asks, AskPoints, ContextIsEarlier
<1>4. TurnOrder /\ UnansweredExplained
  BY DEF TurnOrder, UnansweredExplained
<1> QED
  BY <1>1, <1>2, <1>3, <1>4 DEF Inv

(***************************************************************************)
(* Types.                                                                  *)
(***************************************************************************)
LEMMA FinishTypes ==
    ASSUME TypeOK, NEW r \in Requests, Finish(r)
    PROVE  /\ at' \in [Requests -> Points] /\ at' = [at EXCEPT ![r] = "idle"]
           /\ work' \in [Requests -> Work] /\ work' = [work EXCEPT ![r] = NoWork]
           /\ context' = [context EXCEPT ![r] = {}]
           /\ context' \in [Requests -> SUBSET Message]
<1>1. NoWork \in Work /\ "idle" \in Points
  BY DEF NoWork, Work, Stamps, Points
<1> QED
  BY <1>1 DEF TypeOK, Finish, Goto

LEMMA InsertTypes ==
    ASSUME TypeOK, NEW r \in Requests, Begin(r), NEW c \in Conversations, NEW t \in Titles, Insert(c, t)
    PROVE  /\ phase' \in [Conversations -> {"absent", "open", "deleted"}]
           /\ title' \in [Conversations -> Titles]
           /\ created' \in [Conversations -> Stamps] /\ updated' \in [Conversations -> Stamps]
           /\ now' \in Stamps /\ ops' \in 0..MaxOps /\ restarts' = restarts
BY ConstantsAssumption DEF TypeOK, Begin, Insert, Tick, Stamps

LEMMA TypeStep == ASSUME Inv, Next PROVE TypeOK'
<1> USE ConstantsAssumption DEF Stamps, history, bounds, convVars, Inv
<1>0. /\ at \in [Requests -> Points] /\ work \in [Requests -> Work] /\ now \in Nat /\ ops \in 0..MaxOps
      /\ messages \subseteq Message /\ context \in [Requests -> SUBSET Message]
  BY DEF Inv, TypeOK
<1>1. ASSUME NEW r \in Requests, NEW c \in Conversations, Create(r, c) PROVE TypeOK'
  <2>1. PICK t \in {"unset", "user"} : Insert(c, t)
    BY <1>1 DEF Create
  <2> QED
    BY <1>1, <2>1, InsertTypes DEF Create, TypeOK, Titles
<1>2. ASSUME NEW r \in Requests, NEW c \in Conversations, ImportGuest(r, c) PROVE TypeOK'
  <2>1. \A i \in 1..Imported : MessageOf(c, "import", i, now + 1) \in Message
    BY <1>0 DEF MessageOf, Message
  <2>2. messages' \subseteq Message
    BY <1>0, <1>2, <2>1 DEF ImportGuest
  <2> QED
    BY <1>2, <2>2, InsertTypes DEF ImportGuest, TypeOK, Titles
<1>3. ASSUME NEW r \in Requests, NEW c \in Conversations, Ask(r, c) PROVE TypeOK'
  <2>1. [conv |-> c, turn |-> ops + 1, began |-> now + 1] \in Work /\ "asked" \in Points
    BY <1>0 DEF Work, Points, AskPoints
  <2>2. now' \in Nat /\ ops' \in 0..MaxOps /\ restarts' = restarts
    BY <1>0, <1>3 DEF Ask, Begin, Tick
  <2>3. earlier' \in [Turns -> SUBSET Message]
    BY <1>0, <1>3 DEF Ask, TypeOK, Of
  <2> QED
    BY <1>0, <1>3, <2>1, <2>2, <2>3 DEF Ask, Goto, TypeOK
<1>4. ASSUME NEW r \in Requests, NEW c \in Conversations, NEW p \in Points, Load(r, c, p) PROVE TypeOK'
  <2>1. [conv |-> c, turn |-> 0, began |-> now + 1] \in Work
    BY <1>0 DEF Work
  <2>2. now' \in Nat /\ ops' \in 0..MaxOps /\ restarts' = restarts
    BY <1>0, <1>4 DEF Load, Begin, Tick
  <2> QED
    BY <1>0, <1>4, <2>1, <2>2 DEF Load, Goto, TypeOK
<1>5. ASSUME NEW r \in Requests, NEW t \in Turns, Finish(r), broken' \subseteq broken \cup {t},
             messages' \subseteq messages,
             phase' \in [Conversations -> {"absent", "open", "deleted"}],
             title' \in [Conversations -> Titles], updated' \in [Conversations -> Stamps],
             now' \in Nat, UNCHANGED <<created, bounds, earlier>>
      PROVE  TypeOK'
  BY <1>5, FinishTypes DEF TypeOK
<1>6. ASSUME NEW r \in Requests, at[r] \in AskPoints \cup {"renaming", "deleting"}
      PROVE  /\ work[r].conv \in Conversations /\ work[r].began \in Nat /\ work[r].turn \in Nat
             /\ at[r] \in AskPoints => work[r].turn \in Turns
  BY <1>0, <1>6 DEF Asks, Asking, Work
<1>7. ASSUME NEW r \in Requests, StoreQuestion(r) \/ StoreAnswer(r), Open(work[r].conv)
      PROVE  TypeOK'
  <2>1. \A k \in {"question", "answer"} :
            MessageOf(work[r].conv, k, work[r].turn, work[r].began) \in Message
    BY <1>6, <1>7 DEF StoreQuestion, StoreAnswer, AskPoints, MessageOf, Message
  <2> QED
    BY <1>0, <1>7, <2>1 DEF StoreQuestion, StoreAnswer, Goto, TypeOK, Points, AskPoints
<1>8. ASSUME NEW r \in Requests, Break(r), at[r] \in AskPoints, UNCHANGED <<convVars, messages, now, bounds, earlier>>
      PROVE  TypeOK'
  BY <1>5, <1>6, <1>8 DEF Break, TypeOK
<1>9. ASSUME NEW r \in Requests, TouchQuestion(r) \/ TouchAnswer(r) PROVE TypeOK'
  BY <1>0, <1>6, <1>9 DEF TouchQuestion, TouchAnswer, Touch, Goto, Tick, TypeOK, Points, AskPoints
<1>10. ASSUME NEW r \in Requests, ReadContext(r) PROVE TypeOK'
  <2>1. [work[r] EXCEPT !.began = now + 1] \in Work /\ "generating" \in Points
    BY <1>0 DEF Work, Points, AskPoints
  <2>2. context' \in [Requests -> SUBSET Message]
    BY <1>0, <1>10 DEF ReadContext, Newest, Of, TypeOK
  <2> QED
    BY <1>0, <1>10, <2>1, <2>2 DEF ReadContext, Goto, Tick, TypeOK
<1>11. ASSUME NEW r \in Requests, ReadTitle(r) PROVE TypeOK'
  <2>1. [work[r] EXCEPT !.began = now + 1] \in Work /\ "titled" \in Points
    BY <1>0 DEF Work, Points, AskPoints
  <2>2. CASE Finish(r)
    BY <1>5, <1>6, <1>11, <2>2 DEF ReadTitle, Tick, AskPoints, TypeOK
  <2>3. CASE ~ Finish(r)
    BY <1>0, <1>11, <2>1, <2>3 DEF ReadTitle, Goto, Tick, TypeOK
  <2> QED
    BY <2>2, <2>3
<1>12. ASSUME NEW r \in Requests, SetTitle(r) \/ RenameWrite(r) PROVE TypeOK'
  <2>1. title' \in [Conversations -> Titles] /\ updated' \in [Conversations -> Stamps]
    BY <1>6, <1>12 DEF SetTitle, RenameWrite, TypeOK, Titles, AskPoints
  <2> QED
    BY <1>12, <2>1, FinishTypes DEF SetTitle, RenameWrite, TypeOK
<1>13. ASSUME NEW r \in Requests, DeleteWrite(r) PROVE TypeOK'
  BY <1>6, <1>13, FinishTypes DEF DeleteWrite, TypeOK
<1>14. ASSUME Crash PROVE TypeOK'
  <2>1. at' \in [Requests -> {"idle"}] /\ work' \in [Requests -> {NoWork}] /\ NoWork \in Work
    BY <1>14 DEF Crash, NoWork, Work
  <2>2. broken' \subseteq Turns
    BY <1>6, <1>14 DEF Crash, TypeOK
  <2> QED
    BY <1>14, <2>1, <2>2 DEF Crash, TypeOK, Points
<1> USE DEF Points, AskPoints
<1>15. ASSUME NEW r \in Requests, Continue(r) PROVE TypeOK'
  <2>1. CASE StoreQuestion(r) \/ StoreAnswer(r)
    BY <1>7, <1>8, <2>1 DEF StoreQuestion, StoreAnswer
  <2>2. CASE ContextFails(r) \/ GenerationFails(r)
    BY <1>8, <2>2 DEF ContextFails, GenerationFails
  <2> QED
    BY <1>9, <1>10, <1>11, <1>12, <1>13, <1>15, <2>1, <2>2 DEF Continue
<1> QED
  BY <1>1, <1>2, <1>3, <1>4, <1>14, <1>15 DEF Next, Arrive, RenameLoad, DeleteLoad

(***************************************************************************)
(* A step of one request. What it does to the stores, and what it has to   *)
(* show for itself; the other requests then lose nothing they rely on.     *)
(***************************************************************************)
OthersStand(r) ==
    \A s \in Requests \ {r} : at'[s] = at[s] /\ work'[s] = work[s] /\ context'[s] = context[s]

StoresGrow(r) ==
    /\ now <= now' /\ ops <= ops' /\ broken \subseteq broken'
    /\ \A t \in Turns : t <= ops => earlier'[t] = earlier[t]
    /\ \A c \in Conversations : phase[c] # "absent" => phase'[c] \in {phase[c], "deleted"}
    /\ \A c \in Conversations : Open(c)' => Of(c) \subseteq Of(c)'
    /\ \A m \in messages' \ messages : m.kind # "import" =>
          at[r] \in AskPoints /\ m.turn = work[r].turn /\ at'[r] \in AskPoints

GoesOn(r) ==
    /\ at'[r] \in AskPoints =>
          /\ Asking(r)'
          /\ IF at[r] \in AskPoints THEN work'[r].turn = work[r].turn ELSE work'[r].turn > ops
    /\ at'[r] \in {"renaming", "deleting"} => work'[r].conv \in Conversations
    /\ at[r] \in AskPoints /\ at'[r] \notin AskPoints => work[r].turn \in broken' \/ at[r] \in Past
    /\ at'[r] = "generating" => Heard(r)'

LEMMA OtherAsks ==
    ASSUME Inv, TypeOK', NEW r \in Requests, OthersStand(r), StoresGrow(r),
           NEW s \in Requests \ {r}, at[s] \in AskPoints
    PROVE  Asking(s)'
<1>0. PICK c, t : c = work[s].conv /\ t = work[s].turn
  OBVIOUS
<1>1. Asking(s) /\ at'[s] = at[s] /\ work'[s] = work[s]
  BY DEF Inv, Asks, OthersStand
<1>2. c \in Conversations /\ t \in Turns /\ t <= ops /\ phase[c] # "absent"
  BY <1>0, <1>1 DEF Asking
<1>3. TurnOf(t)' \subseteq TurnOf(t)
  BY <1>0, <1>2 DEF Inv, Asks, StoresGrow, TurnOf
<1>4. Open(c)' => Open(c) /\ TurnOf(t)' = TurnOf(t) /\ Of(c) \subseteq Of(c)'
  <2> SUFFICES ASSUME Open(c)' PROVE Open(c) /\ TurnOf(t)' = TurnOf(t) /\ Of(c) \subseteq Of(c)'
    OBVIOUS
  <2>1. Open(c) /\ Of(c) \subseteq Of(c)'
    BY <1>2 DEF StoresGrow, Open
  <2>2. TurnOf(t) \subseteq Of(c)
    BY <1>0, <1>1 DEF Asking, TurnOf, Of
  <2> QED
    BY <1>3, <2>1, <2>2 DEF TurnOf, Of
<1>5. /\ earlier'[t] = earlier[t] /\ phase'[c] # "absent"
      /\ t <= ops' /\ work[s].began <= now'
  <2>1. /\ ops \in Nat /\ ops' \in Nat /\ now \in Nat /\ now' \in Nat
        /\ t \in Nat /\ work[s].began \in Nat
    BY <1>0 DEF Inv, TypeOK, Stamps, Work
  <2> QED
    BY <1>0, <1>1, <1>2, <2>1 DEF Asking, StoresGrow
<1>6. /\ \A e \in earlier[t] : e.stamp < work[s].began
      /\ Open(c) => earlier[t] \subseteq Of(c)
      /\ \A m \in TurnOf(t) : m.conv = c
      /\ at[s] = "asked" => TurnOf(t) = {}
      /\ at[s] \in {"stored", "touched"} =>
              TurnOf(t) \subseteq {MessageOf(c, "question", t, work[s].began)}
      /\ at[s] = "generating" =>
              \A m \in TurnOf(t) : m.kind = "question" /\ m.stamp < work[s].began
      /\ at[s] \in Waiting /\ Open(c) => \E m \in TurnOf(t) : m.kind = "question"
      /\ at[s] \in Past /\ Open(c) => \E m \in TurnOf(t) : m.kind = "answer"
  BY <1>0, <1>1 DEF Asking
<1>7. /\ \A e \in earlier'[t] : e.stamp < work[s].began
      /\ Open(c)' => earlier'[t] \subseteq Of(c)'
      /\ \A m \in TurnOf(t)' : m.conv = c
      /\ at[s] = "asked" => TurnOf(t)' = {}
      /\ at[s] \in {"stored", "touched"} =>
              TurnOf(t)' \subseteq {MessageOf(c, "question", t, work[s].began)}
      /\ at[s] = "generating" =>
              \A m \in TurnOf(t)' : m.kind = "question" /\ m.stamp < work[s].began
      /\ at[s] \in Waiting /\ Open(c)' => \E m \in TurnOf(t)' : m.kind = "question"
      /\ at[s] \in Past /\ Open(c)' => \E m \in TurnOf(t)' : m.kind = "answer"
  BY <1>3, <1>4, <1>5, <1>6
<1> QED
  BY <1>0, <1>1, <1>2, <1>5, <1>7 DEF Asking, TurnOf, Of, Open

LEMMA Step ==
    ASSUME Inv, TypeOK', Placed', TurnOrder',
           NEW r \in Requests, OthersStand(r), StoresGrow(r), GoesOn(r)
    PROVE  Inv'
<1>1. Asks'
  <2>1. \A s \in Requests : at'[s] \in AskPoints => Asking(s)'
    BY OtherAsks DEF GoesOn, OthersStand
  <2>2. \A s \in Requests : at'[s] \in {"renaming", "deleting"} => work'[s].conv \in Conversations
    BY DEF GoesOn, OthersStand, Inv, Asks
  <2>3. \A s \in Requests \ {r} :
            at'[s] \in AskPoints /\ at'[r] \in AskPoints => work'[r].turn # work'[s].turn
    <3> SUFFICES ASSUME NEW s \in Requests \ {r}, at'[s] \in AskPoints, at'[r] \in AskPoints
                 PROVE  work'[r].turn # work'[s].turn
      OBVIOUS
    <3>1. at[s] \in AskPoints /\ work'[s] = work[s] /\ work[s].turn <= ops
      BY DEF OthersStand, Inv, Asks, Asking
    <3>2. work[s].turn \in Nat /\ work'[r].turn \in Nat /\ ops \in Nat
      BY DEF Inv, TypeOK, Work
    <3> QED
      BY <3>1, <3>2 DEF GoesOn, Inv, Asks
  <2> QED
    BY <2>1, <2>2, <2>3 DEF Asks, OthersStand, Inv
<1>2. UnansweredExplained'
  <2> SUFFICES ASSUME NEW q \in messages', q.kind = "question"
               PROVE  \/ \E m \in Of(q.conv)' : m.kind = "answer" /\ m.turn = q.turn
                      \/ \E s \in Requests : at'[s] \in AskPoints /\ work'[s].turn = q.turn
                      \/ q.turn \in broken'
    BY DEF UnansweredExplained, Of
  <2>1. CASE q \notin messages
    BY <2>1 DEF StoresGrow, GoesOn
  <2>2. CASE q \in messages
    <3>1. Of(q.conv) \subseteq Of(q.conv)'
      BY DEF Placed, NoOrphanMessage, StoresGrow, TypeOK, Message
    <3>2. ASSUME NEW s \in Requests, at[s] \in AskPoints, work[s].turn = q.turn, s # r
          PROVE  at'[s] \in AskPoints /\ work'[s].turn = q.turn
      BY <3>2 DEF OthersStand
    <3>3. ASSUME at[r] \in AskPoints, work[r].turn = q.turn, at'[r] \notin AskPoints, q.turn \notin broken'
          PROVE  \E m \in Of(q.conv) : m.kind = "answer" /\ m.turn = q.turn
      <4>1. Asking(r) /\ at[r] \in Past /\ q \in TurnOf(work[r].turn)
        BY <2>2, <3>3 DEF GoesOn, Inv, Asks, TurnOf
      <4>2. q.conv = work[r].conv /\ Open(work[r].conv)
        BY <2>2, <4>1 DEF Asking, Inv, Placed, NoOrphanMessage
      <4> QED
        BY <3>3, <4>1, <4>2 DEF Asking, TurnOf, Of
    <3>4. ASSUME at[r] \in AskPoints, work[r].turn = q.turn, at'[r] \in AskPoints
          PROVE  work'[r].turn = q.turn
      BY <3>4 DEF GoesOn
    <3>5. \/ \E m \in Of(q.conv) : m.kind = "answer" /\ m.turn = q.turn
          \/ \E s \in Requests : at[s] \in AskPoints /\ work[s].turn = q.turn
          \/ q.turn \in broken
      BY <2>2 DEF Inv, UnansweredExplained
    <3> QED
      BY <3>1, <3>2, <3>3, <3>4, <3>5 DEF StoresGrow
  <2> QED
    BY <2>1, <2>2
<1>3. ContextIsEarlier'
  <2>1. ASSUME NEW s \in Requests \ {r}, at'[s] = "generating" PROVE Heard(s)'
    <3>1. /\ at[s] = "generating" /\ work'[s] = work[s] /\ context'[s] = context[s]
          /\ work[s].turn \in Turns /\ work[s].turn <= ops
      BY <2>1 DEF OthersStand, AskPoints, Inv, Asks, Asking
    <3>2. Heard(s)
      BY <3>1 DEF Inv, ContextIsEarlier, Heard
    <3> QED
      BY <3>1, <3>2 DEF Heard, StoresGrow
  <2>2. \A s \in Requests : at'[s] = "generating" => Heard(s)'
    BY <2>1 DEF GoesOn
  <2> QED
    BY <2>2 DEF ContextIsEarlier, Heard
<1> QED
  BY <1>1, <1>2, <1>3 DEF Inv

(* A step that stores no message and deletes no conversation.              *)
LEMMA QuietStep ==
    ASSUME Inv, TypeOK', NEW r \in Requests, OthersStand(r), GoesOn(r),
           messages' = messages, now <= now', ops <= ops', broken \subseteq broken',
           \A t \in Turns : t <= ops => earlier'[t] = earlier[t],
           \A c \in Conversations : phase[c] # "absent" => phase'[c] = phase[c]
    PROVE  Inv'
<1>1. /\ now \in Nat /\ now' \in Nat /\ ops \in Nat /\ ops' \in Nat /\ messages \subseteq Message
      /\ \A m \in messages : m.conv \in Conversations /\ m.stamp \in Nat /\ m.turn \in Nat
  BY DEF Inv, TypeOK, Stamps, Message
<1>2. Placed'
  BY <1>1 DEF Inv, Placed, NoOrphanMessage, Open
<1>3. TurnOrder'
  <2>1. \A m \in messages : m.kind \in {"question", "answer"} => earlier'[m.turn] = earlier[m.turn]
    <3> SUFFICES ASSUME NEW m \in messages, m.kind \in {"question", "answer"}
                 PROVE  earlier'[m.turn] = earlier[m.turn]
      OBVIOUS
    <3>1. m.turn \in Turns /\ m.turn <= ops
      BY <1>1 DEF Inv, Placed, TurnOrder, Message
    <3> QED
      BY <3>1
  <2> QED
    BY <2>1 DEF Inv, TurnOrder, Of
<1>4. StoresGrow(r)
  BY DEF StoresGrow, Of, Open
<1> QED
  BY <1>2, <1>3, <1>4, Step

(* A request that ends, or does not ask.                                   *)
LEMMA Ended ==
    ASSUME Inv, NEW r \in Requests, Finish(r),
           at[r] \in AskPoints => work[r].turn \in broken' \/ at[r] \in Past
    PROVE  OthersStand(r) /\ GoesOn(r)
<1>1. TypeOK
  BY DEF Inv
<1>2. at'[r] = "idle" /\ \A s \in Requests \ {r} : at'[s] = at[s] /\ work'[s] = work[s]
  BY <1>1, FinishTypes DEF TypeOK
<1>3. \A s \in Requests \ {r} : context'[s] = context[s]
  BY <1>1, FinishTypes DEF TypeOK
<1> QED
  BY <1>2, <1>3 DEF OthersStand, GoesOn, AskPoints

LEMMA NotAsking ==
    ASSUME Inv, NEW r \in Requests, UNCHANGED <<at, work, context>>, at[r] = "idle"
    PROVE  OthersStand(r) /\ GoesOn(r)
BY DEF OthersStand, GoesOn, AskPoints

-----------------------------------------------------------------------------
LEMMA CreateKeeps ==
    ASSUME Inv, TypeOK', NEW r \in Requests, NEW c \in Conversations, Create(r, c) PROVE Inv'
<1>1. /\ now' = now + 1 /\ ops' = ops + 1 /\ now \in Nat /\ ops \in Nat /\ at[r] = "idle"
      /\ \A d \in Conversations : phase[d] # "absent" => phase'[d] = phase[d]
  BY DEF Create, Begin, Tick, Insert, Inv, TypeOK, Stamps
<1>2. OthersStand(r) /\ GoesOn(r)
  BY <1>1, NotAsking DEF Create
<1> QED
  BY <1>1, <1>2, QuietStep DEF Create, history

LEMMA ImportKeeps ==
    ASSUME Inv, TypeOK', NEW r \in Requests, NEW c \in Conversations, ImportGuest(r, c) PROVE Inv'
<1>0. PICK turns : turns = {MessageOf(c, "import", i, now + 1) : i \in 1..Imported}
  OBVIOUS
<1>1. /\ now' = now + 1 /\ ops' = ops + 1 /\ now \in Nat /\ ops \in Nat /\ at[r] = "idle"
      /\ phase[c] = "absent" /\ phase' = [phase EXCEPT ![c] = "open"]
      /\ messages' = messages \cup turns /\ phase \in [Conversations -> {"absent", "open", "deleted"}]
      /\ messages \subseteq Message /\ earlier' = earlier /\ broken' = broken
  BY <1>0 DEF ImportGuest, Begin, Tick, Insert, Inv, TypeOK, Stamps, history
<1>2. OthersStand(r) /\ GoesOn(r)
  BY <1>1, NotAsking DEF ImportGuest
<1>3. \A m \in turns : m.kind = "import" /\ m.conv = c /\ m.stamp = now + 1
  BY <1>0 DEF MessageOf
<1>4. IsFiniteSet(turns)
  <2>1. IsFiniteSet(1..Imported)
    BY FS_Interval, ConstantsAssumption
  <2>2. [i \in 1..Imported |-> MessageOf(c, "import", i, now + 1)] \in Surjection(1..Imported, turns)
    BY <1>0 DEF Surjection
  <2> QED
    BY <2>1, <2>2, FS_Surjection
<1>5. Placed'
  <2>1. IsFiniteSet(messages')
    BY <1>1, <1>4, FS_Union DEF Inv, Placed
  <2>2. NoOrphanMessage'
    BY <1>1, <1>3 DEF Inv, Placed, NoOrphanMessage, Open
  <2>3. \A m \in messages : m.stamp \in Nat /\ m.turn \in Nat
    BY <1>1 DEF Message, Stamps
  <2> QED
    BY <1>1, <1>3, <2>1, <2>2, <2>3 DEF Inv, Placed
<1>6. TurnOrder'
  BY <1>1, <1>3 DEF Inv, TurnOrder, Of
<1>7. StoresGrow(r)
  BY <1>1, <1>3 DEF StoresGrow, Of, Open
<1> QED
  BY <1>2, <1>5, <1>6, <1>7, Step

LEMMA AskKeeps ==
    ASSUME Inv, TypeOK', NEW r \in Requests, NEW c \in Conversations, Ask(r, c) PROVE Inv'
<1>1. /\ now' = now + 1 /\ ops' = ops + 1 /\ now \in Nat /\ ops \in Nat /\ at[r] = "idle"
      /\ ops + 1 \in Turns /\ at' = [at EXCEPT ![r] = "asked"] /\ at'[r] = "asked"
      /\ work'[r] = [conv |-> c, turn |-> ops + 1, began |-> now + 1]
      /\ earlier'[ops + 1] = Of(c) /\ phase[c] # "absent"
      /\ messages \subseteq Message
  BY DEF Ask, Begin, Tick, Goto, Inv, TypeOK, Stamps, Turns
<1>2. OthersStand(r)
  BY DEF Ask, Goto, OthersStand, Inv, TypeOK
<1>3. \A t \in Turns : t <= ops => earlier'[t] = earlier[t]
  BY <1>1 DEF Ask, Inv, TypeOK, Turns
<1>4. \A m \in messages : m.stamp < now + 1 /\ (m.kind # "import" => m.turn # ops + 1)
  BY <1>1 DEF Inv, Placed, Message, Stamps, Turns
<1>5. Asking(r)'
  <2>0. PICK n : n = ops + 1
    OBVIOUS
  <2>1. TurnOf(n)' = {}
    BY <1>4, <2>0 DEF TurnOf, Ask
  <2> QED
    BY <1>1, <1>4, <2>0, <2>1 DEF Asking, Ask, convVars, Of, Open, TurnOf, Waiting, Past
<1>6. GoesOn(r)
  BY <1>1, <1>5 DEF GoesOn, AskPoints
<1> QED
  BY <1>1, <1>2, <1>3, <1>6, QuietStep DEF Ask, convVars

LEMMA LoadKeeps ==
    ASSUME Inv, TypeOK', NEW r \in Requests, NEW c \in Conversations,
           NEW p \in {"renaming", "deleting"}, Load(r, c, p)
    PROVE  Inv'
<1>1. /\ now' = now + 1 /\ ops' = ops + 1 /\ now \in Nat /\ ops \in Nat /\ at[r] = "idle"
      /\ at'[r] = p /\ work'[r].conv = c
  BY DEF Load, Begin, Tick, Goto, Inv, TypeOK, Stamps
<1>2. OthersStand(r)
  BY DEF Load, Goto, OthersStand, Inv, TypeOK
<1>3. GoesOn(r)
  BY <1>1 DEF GoesOn, AskPoints
<1> QED
  BY <1>1, <1>2, <1>3, QuietStep DEF Load, convVars, history

-----------------------------------------------------------------------------
(* The rows of an ask, added by its own request to an open conversation.   *)
LEMMA AddMessage ==
    ASSUME Inv, TypeOK', NEW r \in Requests, Asking(r), Open(work[r].conv),
           NEW kind \in {"question", "answer"}, NEW p \in AskPoints,
           messages' = messages \cup {MessageOf(work[r].conv, kind, work[r].turn, work[r].began)},
           Goto(r, p), at[r] \in AskPoints, p # "generating",
           UNCHANGED <<convVars, work, context, now, bounds, history>>,
           kind = "answer" => \A m \in TurnOf(work[r].turn) : m.kind = "question" /\ m.stamp < work[r].began,
           kind = "answer" => \E m \in TurnOf(work[r].turn) : m.kind = "question",
           Asking(r)'
    PROVE  Inv'
<1>0. PICK new : new = MessageOf(work[r].conv, kind, work[r].turn, work[r].began)
  OBVIOUS
<1>1. /\ new.conv = work[r].conv /\ new.kind = kind /\ new.turn = work[r].turn
      /\ new.stamp = work[r].began /\ new.kind # "import" /\ messages' = messages \cup {new}
  BY <1>0 DEF MessageOf
<1>2. /\ new.turn \in Turns /\ new.turn <= ops /\ new.stamp <= now /\ Open(new.conv)
      /\ \A e \in earlier[new.turn] : e.stamp < new.stamp
  BY <1>1 DEF Asking
<1>3. Placed'
  <2>1. IsFiniteSet(messages')
    BY <1>1, FS_AddElement DEF Inv, Placed
  <2>2. NoOrphanMessage'
    BY <1>1, <1>2 DEF Inv, Placed, NoOrphanMessage, Open, convVars
  <2> QED
    BY <1>1, <1>2, <2>1, <2>2 DEF Inv, Placed, bounds
<1>4. TurnOrder'
  <2>1. \A c : Of(c) \subseteq Of(c)'
    BY <1>1 DEF Of
  <2>2. \A m \in messages :
           /\ m.kind = "answer" =>
                 \E q \in Of(m.conv)' : q.kind = "question" /\ q.turn = m.turn /\ q.stamp < m.stamp
           /\ m.kind \in {"question", "answer"} => \A e \in earlier[m.turn] : e.stamp < m.stamp
    BY <2>1 DEF Inv, TurnOrder
  <2>3. kind = "answer" =>
           \E q \in Of(new.conv)' : q.kind = "question" /\ q.turn = new.turn /\ q.stamp < new.stamp
    BY <1>1 DEF Asking, TurnOf, Of
  <2> QED
    BY <1>1, <1>2, <2>2, <2>3 DEF TurnOrder, Of, history
<1>5. OthersStand(r) /\ at'[r] = p
  BY DEF Goto, OthersStand, Inv, TypeOK
<1>6. StoresGrow(r)
  BY <1>1, <1>5 DEF StoresGrow, Of, Open, convVars, bounds, history, Inv, TypeOK, Stamps
<1>7. GoesOn(r)
  BY <1>5 DEF GoesOn, AskPoints
<1> QED
  BY <1>3, <1>4, <1>5, <1>6, <1>7, Step

LEMMA StoreQuestionKeeps ==
    ASSUME Inv, TypeOK', NEW r \in Requests, StoreQuestion(r) PROVE Inv'
<1>1. Asking(r) /\ at[r] = "asked" /\ at[r] \in AskPoints
  BY DEF StoreQuestion, Inv, Asks, AskPoints
<1>2. CASE Open(work[r].conv)
  <2>0. PICK t, new : /\ t = work[r].turn
                      /\ new = MessageOf(work[r].conv, "question", work[r].turn, work[r].began)
    OBVIOUS
  <2>1. /\ messages' = messages \cup {new} /\ Goto(r, "stored") /\ at'[r] = "stored"
        /\ UNCHANGED <<convVars, work, context, now, bounds, history>>
    BY <1>2, <2>0 DEF StoreQuestion, Goto, Inv, TypeOK, history
  <2>2. /\ new.conv = work[r].conv /\ new.kind = "question" /\ new.turn = t
        /\ new.stamp = work[r].began
    BY <2>0 DEF MessageOf
  <2>3. TurnOf(t)' = {new}
    BY <1>1, <2>0, <2>1, <2>2 DEF Asking, TurnOf
  <2>4. Asking(r)'
    BY <1>1, <2>0, <2>1, <2>2, <2>3
       DEF Asking, convVars, bounds, history, Of, Open, Waiting, Past, TurnOf
  <2> QED
    BY <1>1, <1>2, <2>0, <2>1, <2>4, AddMessage DEF AskPoints
<1>3. CASE ~ Open(work[r].conv)
  <2>1. Finish(r) /\ broken' = broken \cup {work[r].turn}
    BY <1>3 DEF StoreQuestion, Break
  <2>2. OthersStand(r) /\ GoesOn(r)
    BY <2>1, Ended
  <2> QED
    BY <1>3, <2>1, <2>2, QuietStep DEF StoreQuestion, convVars, bounds, Inv, TypeOK, Stamps
<1> QED
  BY <1>2, <1>3

LEMMA StoreAnswerKeeps ==
    ASSUME Inv, TypeOK', NEW r \in Requests, StoreAnswer(r) PROVE Inv'
<1>1. Asking(r) /\ at[r] = "generating" /\ at[r] \in AskPoints
  BY DEF StoreAnswer, Inv, Asks, AskPoints
<1>2. CASE Open(work[r].conv)
  <2>0. PICK t, new : /\ t = work[r].turn
                      /\ new = MessageOf(work[r].conv, "answer", work[r].turn, work[r].began)
    OBVIOUS
  <2>1. /\ messages' = messages \cup {new} /\ Goto(r, "answered") /\ at'[r] = "answered"
        /\ UNCHANGED <<convVars, work, context, now, bounds, history>>
    BY <1>2, <2>0 DEF StoreAnswer, Goto, Inv, TypeOK, history
  <2>2. /\ new.conv = work[r].conv /\ new.kind = "answer" /\ new.turn = t
        /\ new.stamp = work[r].began
    BY <2>0 DEF MessageOf
  <2>3. TurnOf(t)' = TurnOf(t) \cup {new}
    BY <1>1, <2>0, <2>1, <2>2 DEF TurnOf
  <2>4. Asking(r)'
    BY <1>1, <2>0, <2>1, <2>2, <2>3
       DEF Asking, convVars, bounds, history, Of, Open, Waiting, Past, TurnOf
  <2>5. /\ \A m \in TurnOf(work[r].turn) : m.kind = "question" /\ m.stamp < work[r].began
        /\ \E m \in TurnOf(work[r].turn) : m.kind = "question"
    BY <1>1, <1>2 DEF Asking, Waiting
  <2> QED
    BY <1>1, <1>2, <2>0, <2>1, <2>4, <2>5, AddMessage DEF AskPoints
<1>3. CASE ~ Open(work[r].conv)
  <2>1. Finish(r) /\ broken' = broken \cup {work[r].turn}
    BY <1>3 DEF StoreAnswer, Break
  <2>2. OthersStand(r) /\ GoesOn(r)
    BY <2>1, Ended
  <2> QED
    BY <1>3, <2>1, <2>2, QuietStep DEF StoreAnswer, convVars, bounds, Inv, TypeOK, Stamps
<1> QED
  BY <1>2, <1>3

-----------------------------------------------------------------------------
LEMMA TouchKeeps ==
    ASSUME Inv, TypeOK', NEW r \in Requests, TouchQuestion(r) \/ TouchAnswer(r) PROVE Inv'
<1>1. /\ at'[r] = IF at[r] = "stored" THEN "touched" ELSE "titling"
      /\ at[r] \in {"stored", "answered"} /\ now' = now + 1 /\ now \in Nat /\ ops \in Nat
  BY DEF TouchQuestion, TouchAnswer, Touch, Goto, Tick, Inv, TypeOK, Stamps
<1>2. UNCHANGED <<phase, messages, work, context, bounds, history>> /\ OthersStand(r)
  BY DEF TouchQuestion, TouchAnswer, Touch, Goto, OthersStand, Inv, TypeOK
<1>3. Asking(r) /\ work[r].began \in Nat
  BY <1>1 DEF Inv, Asks, AskPoints, TypeOK, Work, Stamps
<1>4. Asking(r)'
  <2>1. PICK t : t = work[r].turn /\ t = work'[r].turn
    BY <1>2
  <2>2. TurnOf(t)' = TurnOf(t)
    BY <1>2 DEF TurnOf
  <2> QED
    BY <1>1, <1>2, <1>3, <2>1, <2>2 DEF Asking, bounds, history, Of, Open, Waiting, Past
<1>5. GoesOn(r)
  BY <1>1, <1>2, <1>4 DEF GoesOn, AskPoints
<1> QED
  BY <1>1, <1>2, <1>5, QuietStep DEF bounds, history

(***************************************************************************)
(* The newest Window messages, less the question: all that was stored when *)
(* the ask began, or Window - 1 messages and more.                         *)
(***************************************************************************)
LEMMA ContextIsFull ==
    ASSUME NEW ms, IsFiniteSet(ms), NEW recent \in Newest(ms, Window), NEW old \in SUBSET ms,
           NEW q, q \notin old
    PROVE  \/ old \subseteq recent \ {q}
           \/ Cardinality(recent \ {q}) >= Window - 1
<1>1. recent \in SUBSET ms /\ IsFiniteSet(recent) /\ Window \in Nat \ {0}
  BY FS_Subset, ConstantsAssumption DEF Newest
<1>2. Cardinality(ms) \in Nat /\ Cardinality(recent) \in Nat
  BY <1>1, FS_CardinalityType
<1>3. CASE Cardinality(ms) < Window
  <2>1. recent = ms
    BY <1>1, <1>3, FS_Subset DEF Newest
  <2> QED
    BY <2>1
<1>4. CASE ~ (Cardinality(ms) < Window)
  <2>1. Cardinality(recent) = Window
    BY <1>4 DEF Newest
  <2> QED
    <3>1. Cardinality(recent \ {q}) \in {Window, Window - 1}
      BY <1>1, <2>1, FS_RemoveElement
    <3> QED
      BY <1>1, <3>1
<1> QED
  BY <1>3, <1>4

LEMMA ReadContextKeeps ==
    ASSUME Inv, TypeOK', NEW r \in Requests, ReadContext(r) PROVE Inv'
<1>0. PICK c, t, q : /\ c = work[r].conv /\ t = work[r].turn
                     /\ q = MessageOf(work[r].conv, "question", work[r].turn, work[r].began)
  OBVIOUS
<1>1. /\ at[r] = "touched" /\ at'[r] = "generating" /\ Open(c)
      /\ now' = now + 1 /\ now \in Nat /\ ops \in Nat
      /\ work'[r] = [work[r] EXCEPT !.began = now + 1]
      /\ work'[r].conv = c /\ work'[r].turn = t /\ work'[r].began = now + 1
      /\ work[r] \in Work /\ work[r].began \in Nat /\ messages \subseteq Message
  BY <1>0 DEF ReadContext, Goto, Tick, Inv, TypeOK, Stamps, Work
<1>2. UNCHANGED <<convVars, messages, bounds, history>> /\ OthersStand(r)
  BY DEF ReadContext, Goto, OthersStand, Inv, TypeOK
<1>3. Asking(r)
  BY <1>1 DEF Inv, Asks, AskPoints
<1>4. \A m \in messages : m.stamp < now + 1
  BY <1>1 DEF Inv, Placed, Message, Stamps
<1>5. TurnOf(t) \subseteq {q} /\ q.kind = "question" /\ TurnOf(t)' = TurnOf(t)
  BY <1>0, <1>1, <1>2, <1>3 DEF Asking, MessageOf, TurnOf
<1>6. \A e \in earlier[t] : e \in Message /\ e.stamp < work[r].began
  BY <1>0, <1>3 DEF Asking, Inv, TypeOK
<1>7. Asking(r)'
  <2>1. \A e \in earlier[t] : e.stamp < now + 1
    BY <1>0, <1>1, <1>3, <1>4 DEF Asking, Of
  <2>2. \A m \in TurnOf(t) : m.kind = "question" /\ m.stamp < now + 1
    BY <1>4, <1>5 DEF TurnOf
  <2> QED
    BY <1>0, <1>1, <1>2, <1>3, <1>5, <2>1, <2>2
       DEF Asking, convVars, bounds, history, Of, Open, Waiting, Past
<1>8. Heard(r)'
  <2>1. PICK recent \in Newest(Of(c), Window) : context'[r] = recent \ {q}
    BY <1>0 DEF ReadContext, Inv, TypeOK
  <2>2. recent \subseteq Of(c)
    BY DEF Newest
  <2>3. \A m \in recent \ {q} : m.stamp < now + 1 /\ ~ (m.turn = t /\ m.kind # "import")
    BY <1>4, <1>5, <2>2 DEF Of, TurnOf
  <2>4. IsFiniteSet(Of(c))
    BY FS_Subset DEF Of, Inv, Placed
  <2>5. earlier[t] \subseteq Of(c) /\ q \notin earlier[t]
    BY <1>0, <1>1, <1>3, <1>6 DEF Asking, MessageOf, Message, Stamps
  <2>6. earlier[t] \subseteq recent \ {q} \/ Cardinality(recent \ {q}) >= Window - 1
    BY <2>4, <2>5, ContextIsFull
  <2> QED
    BY <1>1, <1>2, <2>1, <2>3, <2>6 DEF Heard, history
<1>9. GoesOn(r)
  BY <1>0, <1>1, <1>7, <1>8 DEF GoesOn, AskPoints
<1> QED
  BY <1>1, <1>2, <1>9, QuietStep DEF convVars, bounds, history

LEMMA BreakKeeps ==
    ASSUME Inv, TypeOK', NEW r \in Requests, ContextFails(r) \/ GenerationFails(r) PROVE Inv'
<1>1. /\ Finish(r) /\ broken' = broken \cup {work[r].turn}
      /\ UNCHANGED <<convVars, messages, now, bounds, earlier>>
  BY DEF ContextFails, GenerationFails, Break
<1>2. OthersStand(r) /\ GoesOn(r)
  BY <1>1, Ended
<1> QED
  BY <1>1, <1>2, QuietStep DEF convVars, bounds, Inv, TypeOK, Stamps

LEMMA ReadTitleKeeps ==
    ASSUME Inv, TypeOK', NEW r \in Requests, ReadTitle(r) PROVE Inv'
<1>1. /\ at[r] = "titling" /\ at[r] \in Past /\ now' = now + 1 /\ now \in Nat /\ ops \in Nat
      /\ UNCHANGED <<convVars, messages, bounds, history>>
  BY DEF ReadTitle, Past, Tick, Inv, TypeOK, Stamps
<1>2. CASE Finish(r)
  <2>1. OthersStand(r) /\ GoesOn(r)
    BY <1>1, <1>2, Ended
  <2> QED
    BY <1>1, <2>1, QuietStep DEF convVars, bounds, history
<1>3. CASE ~ Finish(r)
  <2>0. PICK c, t : c = work[r].conv /\ t = work[r].turn
    OBVIOUS
  <2>1. /\ at'[r] = "titled" /\ work'[r].began = now + 1
        /\ work'[r].conv = c /\ work'[r].turn = t /\ work[r].began \in Nat
    BY <1>3, <2>0 DEF ReadTitle, Goto, Inv, TypeOK, Work, Stamps
  <2>2. OthersStand(r)
    BY <1>3 DEF ReadTitle, Goto, OthersStand, Inv, TypeOK
  <2>3. Asking(r)
    BY <1>1 DEF Inv, Asks, AskPoints
  <2>4. \A e \in earlier[t] : e.stamp < now + 1
    <3>1. \A e \in earlier[t] : e \in Message /\ e.stamp < work[r].began /\ work[r].began <= now
      BY <2>0, <2>3 DEF Asking, Inv, TypeOK
    <3> QED
      BY <1>1, <2>1, <3>1 DEF Message, Stamps
  <2>5. TurnOf(t)' = TurnOf(t)
    BY <1>1 DEF TurnOf
  <2>6. Asking(r)'
    BY <1>1, <2>0, <2>1, <2>3, <2>4, <2>5
       DEF Asking, convVars, bounds, history, Of, Open, Waiting, Past
  <2>7. GoesOn(r)
    BY <1>1, <2>0, <2>1, <2>6 DEF GoesOn, AskPoints
  <2> QED
    BY <1>1, <2>2, <2>7, QuietStep DEF convVars, bounds, history
<1> QED
  BY <1>2, <1>3

LEMMA TitleKeeps ==
    ASSUME Inv, TypeOK', NEW r \in Requests, SetTitle(r) \/ RenameWrite(r) PROVE Inv'
<1>1. /\ at[r] \in {"titled", "renaming"} /\ Finish(r)
      /\ UNCHANGED <<phase, messages, now, bounds, history>>
  BY DEF SetTitle, RenameWrite
<1>2. OthersStand(r) /\ GoesOn(r)
  BY <1>1, Ended DEF AskPoints, Past
<1> QED
  BY <1>1, <1>2, QuietStep DEF bounds, history, Inv, TypeOK, Stamps

LEMMA DeleteKeeps ==
    ASSUME Inv, TypeOK', NEW r \in Requests, DeleteWrite(r) PROVE Inv'
<1>0. PICK c : c = work[r].conv
  OBVIOUS
<1>1. /\ at[r] = "deleting" /\ Finish(r) /\ c \in Conversations
      /\ phase' = [phase EXCEPT ![c] = "deleted"]
      /\ messages' = messages \ Of(c) /\ UNCHANGED <<now, ops, history>>
  BY <1>0 DEF DeleteWrite, bounds, Inv, Asks
<1>2. OthersStand(r) /\ GoesOn(r)
  BY <1>1, Ended DEF AskPoints
<1>3. \A d \in Conversations : d # c => Of(d)' = Of(d) /\ phase'[d] = phase[d]
  BY <1>1 DEF Of, Inv, TypeOK
<1>4. phase'[c] = "deleted"
  BY <1>1 DEF Inv, TypeOK
<1>5. \A m \in messages' : m \in messages /\ m.conv # c /\ m.conv \in Conversations
  BY <1>1 DEF Of, Inv, TypeOK, Message
<1>6. Placed'
  <2>1. IsFiniteSet(messages')
    BY <1>5, FS_Subset DEF Inv, Placed
  <2>2. NoOrphanMessage'
    BY <1>3, <1>5 DEF Inv, Placed, NoOrphanMessage, Open
  <2> QED
    BY <1>1, <1>5, <2>1, <2>2 DEF Inv, Placed
<1>7. TurnOrder'
  BY <1>1, <1>3, <1>5 DEF Inv, TurnOrder, history
<1>8. StoresGrow(r)
  BY <1>1, <1>3, <1>4, <1>5 DEF StoresGrow, Open, history, Inv, TypeOK, Stamps
<1> QED
  BY <1>2, <1>6, <1>7, <1>8, Step

LEMMA CrashKeeps == ASSUME Inv, TypeOK', Crash PROVE Inv'
<1>1. /\ \A r \in Requests : at'[r] = "idle"
      /\ UNCHANGED <<convVars, messages, now, ops, earlier>>
  BY DEF Crash
<1>2. Placed' /\ TurnOrder'
  BY <1>1 DEF Inv, Placed, NoOrphanMessage, TurnOrder, Of, Open, convVars
<1>3. Asks' /\ ContextIsEarlier'
  BY <1>1 DEF Asks, ContextIsEarlier, AskPoints
<1>4. UnansweredExplained'
  BY <1>1 DEF Crash, Inv, UnansweredExplained, Of
<1> QED
  BY <1>2, <1>3, <1>4 DEF Inv

LEMMA Inductive == Inv /\ [Next]_vars => Inv'
<1> SUFFICES ASSUME Inv, [Next]_vars PROVE Inv'
  OBVIOUS
<1>1. CASE UNCHANGED vars
  BY <1>1 DEF vars, convVars, bounds, history, Inv, TypeOK, Placed, NoOrphanMessage, Open, Asks,
              Asking, TurnOf, Of, TurnOrder, UnansweredExplained, ContextIsEarlier
<1>2. CASE Next
  <2>1. TypeOK'
    BY <1>2, TypeStep
  <2>2. ASSUME NEW r \in Requests, Arrive(r) PROVE Inv'
    BY <2>1, <2>2, CreateKeeps, ImportKeeps, AskKeeps, LoadKeeps DEF Arrive, RenameLoad, DeleteLoad
  <2>3. ASSUME NEW r \in Requests, Continue(r) PROVE Inv'
    BY <2>1, <2>3, StoreQuestionKeeps, TouchKeeps, ReadContextKeeps, BreakKeeps, StoreAnswerKeeps,
       ReadTitleKeeps, TitleKeeps, DeleteKeeps DEF Continue
  <2> QED
    BY <1>2, <2>1, <2>2, <2>3, CrashKeeps DEF Next
<1> QED
  BY <1>1, <1>2

-----------------------------------------------------------------------------
(***************************************************************************)
(* Every ask under way has written exactly its own rows, to a conversation *)
(* that is not created again, and knows nothing of what came later.        *)
(***************************************************************************)
THEOREM Invariance == Spec => []Inv
  BY Initially, Inductive, PTL DEF Spec

(***************************************************************************)
(* Sorted by created_at, messages form turns, however asks overlap         *)
(* (add_user_message, add_assistant_message).                              *)
(***************************************************************************)
THEOREM TurnsSort == Spec => []TurnOrder
<1>1. Inv => TurnOrder
  BY DEF Inv
<1> QED
  BY <1>1, Invariance, PTL

(***************************************************************************)
(* A question without an answer has a request still at it, or one that was *)
(* cut short (ConversationChatService.ask_question).                       *)
(***************************************************************************)
THEOREM NoneSilentlyUnanswered == Spec => []UnansweredExplained
<1>1. Inv => UnansweredExplained
  BY DEF Inv
<1> QED
  BY <1>1, Invariance, PTL

(***************************************************************************)
(* An answer is generated from what was said before its question           *)
(* (_build_context_after_user_message), for any window.                    *)
(***************************************************************************)
THEOREM ContextsAreEarlier == Spec => []ContextIsEarlier
<1>1. Inv => ContextIsEarlier
  BY DEF Inv
<1> QED
  BY <1>1, Invariance, PTL

(***************************************************************************)
(* A deletion leaves no message behind (conversation_repository.delete and *)
(* the lookups of the asks it overlaps).                                   *)
(***************************************************************************)
THEOREM NothingOrphaned == Spec => []NoOrphanMessage
<1>1. Inv => NoOrphanMessage
  BY DEF Inv, Placed
<1> QED
  BY <1>1, Invariance, PTL

(***************************************************************************)
(* The generated title never replaces the user's (set_title_if_unset).     *)
(***************************************************************************)
THEOREM TitlesAreKept == Spec => UserTitleKept
<1>1. Inv /\ [Next]_vars => \A c \in Conversations : title[c] = "user" => title'[c] # "auto"
  <2> SUFFICES ASSUME Inv, [Next]_vars, NEW c \in Conversations, title[c] = "user"
               PROVE  title'[c] # "auto"
    OBVIOUS
  <2>1. title \in [Conversations -> Titles]
    BY DEF Inv, TypeOK
  <2>2. CASE UNCHANGED vars \/ Crash
    BY <2>2 DEF vars, convVars, Crash
  <2>3. ASSUME NEW r \in Requests, Arrive(r) PROVE title'[c] # "auto"
    BY <2>1, <2>3
       DEF Arrive, Create, ImportGuest, Insert, Ask, RenameLoad, DeleteLoad, Load, convVars
  <2>4. ASSUME NEW r \in Requests, Continue(r) PROVE title'[c] # "auto"
    <3>1. CASE SetTitle(r) \/ RenameWrite(r)
      BY <2>1, <3>1 DEF SetTitle, RenameWrite
    <3>2. CASE title' = title
      BY <3>2
    <3> QED
      BY <2>4, <3>1, <3>2
         DEF Continue, StoreQuestion, TouchQuestion, TouchAnswer, Touch, ReadContext, ContextFails,
             GenerationFails, StoreAnswer, ReadTitle, DeleteWrite, convVars
  <2> QED
    BY <2>2, <2>3, <2>4 DEF Next
<1> QED
  BY <1>1, Invariance, PTL DEF Spec, UserTitleKept
=============================================================================
