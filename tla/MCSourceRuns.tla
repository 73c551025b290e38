---------------------------- MODULE MCSourceRuns ----------------------------
(***************************************************************************)
(* The instances of SourceRuns that TLC checks. Runs and callers are       *)
(* interchangeable.                                                        *)
(***************************************************************************)
EXTENDS SourceRuns, TLC

Symmetry == Permutations(Runs) \cup Permutations(Callers)

=============================================================================
