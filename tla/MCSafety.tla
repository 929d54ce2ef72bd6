------------------------------ MODULE MCSafety ------------------------------
(***************************************************************************)
(* AdminProtection, RateLimiter, SemanticChunking and ChatView for TLC.    *)
(* The four share no state, so each behaviour moves one of them, chosen at *)
(* the start, and the run explores the sum of their state spaces, not the  *)
(* product.                                                                *)
(***************************************************************************)
EXTENDS AdminProtection, Sequences, TLC

CONSTANTS
    Callers, MaxCalls, Window, MaxTime,
    Blocks, MaxBlocks, Least, Preferred, Soft, Absolute, MaxMerge, TableHead,
    Conversations, MaxAsks

VARIABLES
    part,
    now, stamp, bucket, granted,
    doc, groups, current, size, awaiting,
    stored, gone, ask, asks, selected, stream, data, stale, failing, load, change,
    link, cancelled, pendingQuestion, missed

rateVars == <<now, stamp, bucket, granted>>
chunkVars == <<doc, groups, current, size, awaiting>>
viewVars == <<stored, gone, ask, asks, selected, stream, data, stale, failing, load, change,
              link, cancelled, pendingQuestion, missed>>
allVars == <<part, vars, rateVars, chunkVars, viewVars>>

(* Blocks on both sides of every threshold: joined, kept apart, too large  *)
(* for one chunk whole and, for a row, in any case.                        *)
Block(kind, parts) == [kind |-> kind, parts |-> parts]
MCBlocks ==
    {Block("heading", <<40>>), Block("list", <<100, 100>>), Block("list", <<900, 400, 1000>>)}
        \cup {Block("paragraph", <<n>>) : n \in {60, 700, 1400, 1900}}
        \cup {Block("table", parts) :
                parts \in {<<500, 500>>, <<700, 700, 500, 100>>, <<1900, 100>>}}

Rate == INSTANCE RateLimiter
Chunking == INSTANCE SemanticChunking
View == INSTANCE ChatView

ASSUME SafetyAssumption ==
    /\ MaxCalls \in Nat /\ Window \in Nat /\ MaxTime \in Nat
    /\ MaxAsks \in Nat
    /\ \A b \in Blocks : b.parts \in Seq(Nat)
    /\ Preferred \in Nat /\ Absolute \in Nat /\ Preferred <= Absolute
    /\ None \notin Conversations
    /\ None \notin Seq((1..MaxAsks) \X {"question", "answer"})

Administer(A) == part = "users" /\ A /\ UNCHANGED <<part, rateVars, chunkVars, viewVars>>
Limit(A) == part = "rate" /\ A /\ UNCHANGED <<part, vars, chunkVars, viewVars>>
Cut(A) == part = "chunks" /\ A /\ UNCHANGED <<part, vars, rateVars, viewVars>>
Chat(A) == part = "view" /\ A /\ UNCHANGED <<part, vars, rateVars, chunkVars>>

(* Only the part that moves has its choice of initial states.              *)
SafetyInit ==
    /\ part \in {"users", "rate", "chunks", "view"}
    /\ Init /\ (part # "users" => known = Users /\ active = Users /\ admins = Users)
    /\ Rate!Init /\ Chunking!Init
    /\ View!Init /\ (part # "view" => link = "none" /\ \A c \in Conversations : stored[c] = <<>>)
SafetyNext ==
    Administer(Next) \/ Limit(Rate!Next) \/ Cut(Chunking!Next) \/ Chat(View!Next)
SafetySpec == SafetyInit /\ [][SafetyNext]_allVars

(* Conversations are interchangeable.                                      *)
Symmetry == Permutations(Conversations)

(* RateLimiter: no window holds more calls than the budget.                *)
Budget == Rate!Budget
(* SemanticChunking: every part of every block is in one chunk, in order.  *)
NothingLost == Chunking!NothingLost
(* SemanticChunking: headings stay with their text.                        *)
HeadingKeepsText == Chunking!HeadingKeepsText
(* ChatView: what is shown is what is stored.                              *)
ShownIsStored == View!ShownIsStored
=============================================================================
