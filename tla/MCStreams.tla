----------------------------- MODULE MCStreams -----------------------------
(* Model-checking instances of Streams; the .cfg files give the sizes. *)
EXTENDS Streams
=============================================================================
