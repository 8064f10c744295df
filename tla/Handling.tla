------------------------------ MODULE Handling ------------------------------
(***************************************************************************)
(* What the HTTP and the gRPC handlers have in common: the strings of a    *)
(* request, by what the code asks of them.                                 *)
(***************************************************************************)
EXTENDS Naturals, Sequences

\* A string by the text between its surrounding spaces, "" when there is none, and
\* whether there are such spaces.
Typed(S) == [text : S \cup {""}, padded : BOOLEAN]

\* The empty string.
Empty == [text |-> "", padded |-> FALSE]

\* strings.TrimSpace
TrimSpace(s) == [s EXCEPT !.padded = FALSE]
=============================================================================
