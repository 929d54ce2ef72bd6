------------------------ MODULE MCDocumentLifecycle ------------------------
(* Instances of DocumentLifecycle for TLC.                                 *)
EXTENDS DocumentLifecycle, TLC

(* Requests, names and contents are interchangeable in every safety run.   *)
Symmetry == Permutations(Requests) \cup Permutations(Names) \cup Permutations(Sums)

=============================================================================
