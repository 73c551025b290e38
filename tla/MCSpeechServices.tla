--------------------------- MODULE MCSpeechServices ---------------------------
(***************************************************************************)
(* Transcription, speech and voice roles, as one state                      *)
(* machine: the initial state chooses the one a behaviour is about, and    *)
(* only that one moves.  They keep no state in common, so the states are   *)
(* the sum of theirs, not the product, and every behaviour is one of them. *)
(***************************************************************************)
EXTENDS SourceTranscription, Speech, VoiceRoles, TLC

\* Speech: two segments with the same voice, or with two.
CONSTANTS runtime1, runtime2
TwoPlans == {<<runtime1, runtime2>>, <<runtime2, runtime2>>}

VARIABLE focus  \* what this behaviour is about

ServicesInit ==
    /\ focus \in {"transcription", "speech", "voices"}
    /\ Init /\ SpeechInit /\ VoicesInit

ServicesNext ==
    \/ focus = "transcription" /\ Next
       /\ UNCHANGED <<focus, speechVars, voiceVars>>
    \/ focus = "speech" /\ SpeechNext
       /\ UNCHANGED <<focus, vars, voiceVars>>
    \/ focus = "voices" /\ VoicesNext
       /\ UNCHANGED <<focus, vars, speechVars>>

ServicesSpec ==
    ServicesInit /\ [][ServicesNext]_<<focus, vars, speechVars, voiceVars>>

\* Workers, servers and roles have the same names in the instance.
Symmetry == Permutations(Workers)

=============================================================================
