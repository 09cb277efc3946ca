------------------------------ MODULE MCLifespan ------------------------------
(* Model-checking instance of Lifespan: two probes that overlap, and an index
   that may hold the vectors of the configured model, of another one, of both
   or of none. *)
EXTENDS Lifespan, TLC

CONSTANTS p1, p2, p3

TwoProbers == {p1, p2}
ThreeProbers == {p1, p2, p3}
OneModel == {"configured"}
TwoModels == {"configured", "other"}

(* Probes are interchangeable: sound for invariants. *)
Symmetry == Permutations(Probers)
===============================================================================
