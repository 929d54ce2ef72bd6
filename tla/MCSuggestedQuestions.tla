----------------------- MODULE MCSuggestedQuestions -----------------------
(* SuggestedQuestions for TLC.                                             *)
EXTENDS SuggestedQuestions

CONSTANTS d1, d2, n1, n2

(* The second document comes under a name of its own or the first one's.   *)
MCNamesOf == [d \in Docs |-> IF d = d1 THEN {n1} ELSE {n1, n2}]
===========================================================================
