------------------------ MODULE MCQuestionAnswering ------------------------
(* QuestionAnswering for TLC: "handbook" is the name of two documents, one *)
(* of the asker's own; "budget" is public but of a category the role does  *)
(* not include.                                                            *)
EXTENDS QuestionAnswering, TLC

CONSTANTS a1, a2, d1, d2, d3

Topics  == "handbook" :> "general" @@ "budget" :> "finance"
Roles   == [a \in {a1, a2} |-> {"general"}]
Titles  == d1 :> "handbook" @@ d2 :> "handbook" @@ d3 :> "budget"
Owners  == d1 :> a1 @@ d2 :> a2 @@ d3 :> "nobody"
Levels  == d1 :> "restricted" @@ d2 :> "restricted" @@ d3 :> "public"
NoRoles == [d \in {d1, d2, d3} |-> {}]
=============================================================================
