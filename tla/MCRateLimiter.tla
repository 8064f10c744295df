--------------------------- MODULE MCRateLimiter ---------------------------
(* Model-checking instances of RateLimiter; the .cfg files give the sizes. *)
EXTENDS RateLimiter
=============================================================================
