---------------------------- MODULE MCVideoBatch ----------------------------
(***************************************************************************)
(* The instances of VideoBatch that TLC checks. Stories, batches and tasks *)
(* are interchangeable, so the safety runs use their permutations.         *)
(***************************************************************************)
EXTENDS VideoBatch, TLC

Symmetry ==
    Permutations(Stories) \cup Permutations(Batches) \cup Permutations(Tasks)

=============================================================================
