----------------------------- MODULE MCAccounts -----------------------------
(* Model-checking instances of Accounts; the .cfg files give the sizes. *)
EXTENDS Accounts, TLC

\* Goroutines, ids, names and addresses are interchangeable.
Symmetry ==
    Permutations(Worker) \cup Permutations(UserID)
        \cup Permutations(Username) \cup Permutations(Email) \cup Permutations(Password)
=============================================================================
