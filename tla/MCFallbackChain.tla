--------------------------- MODULE MCFallbackChain ---------------------------
(* Model-checking instance of FallbackChain: two calls that overlap. *)
EXTENDS FallbackChain

CONSTANTS c1, c2

TwoCalls == {c1, c2}
===============================================================================
