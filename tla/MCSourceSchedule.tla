-------------------------- MODULE MCSourceSchedule --------------------------
(***************************************************************************)
(* The instances of SourceSchedule that TLC checks. Runs and clients are   *)
(* interchangeable.                                                        *)
(***************************************************************************)
EXTENDS SourceSchedule, TLC

Symmetry == Permutations(Runs) \cup Permutations(Clients)

=============================================================================
