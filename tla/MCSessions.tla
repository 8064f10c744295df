---------------------------- MODULE MCSessions -----------------------------
(* Model-checking instances of Sessions; the .cfg files give the sizes. *)
EXTENDS Sessions
=============================================================================
