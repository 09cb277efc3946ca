-------------------------- MODULE MCSharedConnection ---------------------------
(* Model-checking instance of SharedConnection. *)
EXTENDS SharedConnection, TLC

CONSTANTS b1, b2, b3, b4, w1, w2

TwoBlocks == {b1, b2}
FourBlocks == {b1, b2, b3, b4}
OneWriter == {w1}
TwoWriters == {w1, w2}

(* Blocks, and rows, are interchangeable. *)
Symmetry == Permutations(Blocks) \cup Permutations(Writers)
===============================================================================
