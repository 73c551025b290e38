-------------------------- MODULE StoryPublication --------------------------
(***************************************************************************)
(* What the editorial pipeline promises its editors, without statuses,     *)
(* locks, versions or crashes: a story says one script at a time, speaks   *)
(* only wordings an editor approved, is published only with audio of its   *)
(* current wording, and once withdrawn never changes again.                *)
(***************************************************************************)
EXTENDS Naturals

CONSTANTS Stories, Texts, NoText

VARIABLES
    script,    \* story -> the script it has
    audio,     \* story -> the script its audio speaks
    approved,  \* story -> the scripts an editor approved for synthesis
    stage      \* story -> "editing", "published" or "withdrawn"

publication == <<script, audio, approved, stage>>

Nothing == [rev |-> 0, text |-> NoText]

Init ==
    /\ script = [s \in Stories |-> Nothing]
    /\ audio = [s \in Stories |-> Nothing]
    /\ approved = [s \in Stories |-> {}]
    /\ stage = [s \in Stories |-> "editing"]

\* A first draft or a revision: a new revision, and no audio.
Write(s) ==
    /\ stage[s] = "editing"
    /\ \E text \in Texts :
          script' = [script EXCEPT ![s] = [rev |-> @.rev + 1, text |-> text]]
    /\ audio' = [audio EXCEPT ![s] = Nothing]
    /\ UNCHANGED <<approved, stage>>

Approve(s) ==
    /\ stage[s] = "editing"
    /\ script[s] # Nothing
    /\ approved' = [approved EXCEPT ![s] = @ \cup {script[s]}]
    /\ UNCHANGED <<script, audio, stage>>

Voice(s) ==
    /\ stage[s] = "editing"
    /\ script[s] \in approved[s]
    /\ audio' = [audio EXCEPT ![s] = script[s]]
    /\ UNCHANGED <<script, approved, stage>>

Publish(s) ==
    /\ stage[s] = "editing"
    /\ script[s] # Nothing
    /\ audio[s] = script[s]
    /\ stage' = [stage EXCEPT ![s] = "published"]
    /\ UNCHANGED <<script, audio, approved>>

Unpublish(s) ==
    /\ stage[s] = "published"
    /\ stage' = [stage EXCEPT ![s] = "editing"]
    /\ UNCHANGED <<script, audio, approved>>

Withdraw(s) ==
    /\ stage[s] # "withdrawn"
    /\ stage' = [stage EXCEPT ![s] = "withdrawn"]
    /\ UNCHANGED <<script, audio, approved>>

Next ==
    \E s \in Stories :
        \/ Write(s) \/ Approve(s) \/ Voice(s)
        \/ Publish(s) \/ Unpublish(s) \/ Withdraw(s)

Spec == Init /\ [][Next]_publication

(* Whatever is published speaks its own script, and an editor approved it.    *)
PublishedIsApproved ==
    \A s \in Stories :
        stage[s] = "published" => audio[s] = script[s] /\ script[s] \in approved[s]

=============================================================================
