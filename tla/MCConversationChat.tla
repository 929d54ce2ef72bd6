------------------------ MODULE MCConversationChat ------------------------
(* ConversationChat for TLC. Requests are interchangeable; symmetry is     *)
(* used by no run that checks a temporal property.                         *)
EXTENDS ConversationChat, TLC

Symmetry == Permutations(Requests)
===========================================================================
