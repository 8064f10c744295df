--------------------------- MODULE MCCachedTodos ---------------------------
(* Model-checking instances of CachedTodos; the .cfg files give the sizes. *)
EXTENDS CachedTodos, TLC

\* Goroutines, ids, titles and users are interchangeable.
Symmetry == Permutations(Worker) \cup Permutations(TodoID)
                \cup Permutations(Title) \cup Permutations(User)
=============================================================================
