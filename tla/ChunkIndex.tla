----------------------------- MODULE ChunkIndex -----------------------------
(***************************************************************************)
(* What the VectorStore interface promises: a set of indexed documents,    *)
(* each added or removed as a whole and without touching the others        *)
(* (backend/app/ingestion/vector_store/base.py). DenseIndex implements it. *)
(***************************************************************************)
CONSTANT Docs

VARIABLE indexed    \* documents whose chunks are in the store

Init == indexed = {}

Add(d) == indexed' = indexed \cup {d}
Remove(d) == indexed' = indexed \ {d}

Next == \E d \in Docs : Add(d) \/ Remove(d)

Spec == Init /\ [][Next]_indexed

=============================================================================
