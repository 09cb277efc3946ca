---------------------------- MODULE MCQueryService ----------------------------
(* Model-checking instance of QueryService: a few interchangeable requests. *)
EXTENDS QueryService, TLC

CONSTANTS r1, r2, none

TwoRequests == {r1, r2}

AnyAsk == {"plain", "stream"} \X {"execute", "explain"}

EitherTrail == {"table", "log"}
TableOnly == {"table"}

(* Requests are interchangeable: sound for the invariants only. *)
Symmetry == Permutations(Requests)
===============================================================================
