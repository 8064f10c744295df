--------------------------- MODULE MCIdempotency ---------------------------
(* Model-checking instances of Idempotency; the .cfg files give the sizes. *)
EXTENDS Idempotency, TLC

\* Goroutines, keys and ids are interchangeable.
Symmetry == Permutations(Request) \cup Permutations(Key) \cup Permutations(TodoID)
=============================================================================
