------------------------- MODULE MCKnowledgePipeline -------------------------
(* KnowledgePipeline for TLC.                                              *)
EXTENDS KnowledgePipeline, TLC

CONSTANTS d1, d2, d3, group

(* d2 is a newer version of d1, a duplicate to the detector. d3 shares a   *)
(* collection with d1 and no label.                                        *)
MCLabelsOf == [d \in Docs |-> IF d \in {d1, d2} THEN {group} ELSE {}]
Both(d, e) == {<<d, e>>, <<e, d>>} \cap (Docs \X Docs)
MCRelated == Both(d1, d2) \cup Both(d1, d3)
MCSimilar == Both(d1, d2)
MCNewer == {<<d2, d1>>} \cap (Docs \X Docs)
=============================================================================
