-------------------------- MODULE MCStoryWorkflow --------------------------
(***************************************************************************)
(* The instances of StoryWorkflow that TLC checks. Tasks and script texts  *)
(* are interchangeable, so the safety runs use their permutations.         *)
(***************************************************************************)
EXTENDS StoryWorkflow, TLC

Symmetry == Permutations(Tasks) \cup Permutations(Texts)

=============================================================================
