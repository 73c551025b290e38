--------------------------- MODULE MCMediaAssets ---------------------------
(* Two requests, two assets and the retention cleanup around one story. *)
EXTENDS MediaAssets, TLC

CONSTANTS w1, w2, a1, a2

MCWorkers == {w1, w2}
MCAssets == {a1, a2}
Symmetry == Permutations(MCWorkers) \cup Permutations(MCAssets)
============================================================================
