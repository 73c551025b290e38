----------------------------- MODULE VoiceRoles -----------------------------
(***************************************************************************)
(* Voice roles and the scripts that name their speakers: operators create, *)
(* replace and disable roles, and a role's voice must not change under a   *)
(* script that is written and not yet rendered (operations/roles.py,       *)
(* infrastructure/role_profiles.py, the role guard of repositories.py).    *)
(***************************************************************************)
EXTENDS Naturals, FiniteSets

CONSTANTS
    Roles,           \* identities of role profiles
    Editors,         \* requests that change roles
    Scripts,         \* scripts of stories and narrations of batches
    SpeakerIds,        \* speaker_id values
    DefaultSpeaker,  \* the speaker with the deployment's own voice
    Voices,          \* complete voice configurations
    Silent,          \* a role without TTS
    MaxRoleVersion   \* bound: versions of a role

ASSUME SpeakerAssumption == DefaultSpeaker \in SpeakerIds
ASSUME VoiceAssumption == Silent \notin Voices

VARIABLES
    role,     \* role -> its row
    script,   \* script -> how far it is, its speaker and the voice of its audio
    edit      \* editor -> where it is, what it writes and what it looked past

voiceVars == <<role, script, edit>>

\* voice stands for the selection fields of a role. What a disabled role says
\* is never looked at, so that one disabled role stands for all.
NoRole == [speaker |-> DefaultSpeaker, voice |-> Silent, enabled |-> FALSE, version |-> 0]
Selection(p) == [speaker |-> p.speaker, voice |-> p.voice, enabled |-> p.enabled]
RoleFields == [speaker : SpeakerIds, voice : Voices \cup {Silent}, enabled : {TRUE}]
              \cup {Selection(NoRole)}
NoScript == [status |-> "none", speaker |-> DefaultSpeaker, heard |-> Silent]
NoEdit == [pc |-> "idle"]

VoicesInit ==
    /\ role = [r \in Roles |-> NoRole]
    /\ script = [x \in Scripts |-> NoScript]
    /\ edit = [e \in Editors |-> NoEdit]

IsVoice(p) == p.enabled /\ p.voice # Silent

\* resolve_voice: the one enabled role of the speaker, if it can speak.
Resolved(sp) ==
    {role[r].voice : r \in {q \in Roles : role[q].enabled /\ role[q].speaker = sp}} \ {Silent}

-----------------------------------------------------------------------------
(* The scripts *)

Live == {"written", "spoken"}
Uses(sp) == {x \in Scripts : script[x].status \in Live /\ script[x].speaker = sp}

\* Whoever has asked the guard already does not see the script.
Written(x, new) ==
    /\ script' = [script EXCEPT ![x] = new]
    /\ edit' = [e \in Editors |->
           IF edit[e].pc # "idle" /\ new.speaker \notin edit[e].ask
           THEN [edit[e] EXCEPT !.missed = @ \cup {x}] ELSE edit[e]]

\* The first review approves only a narrator that can speak.
ApproveFirst(x) ==
    /\ script[x].status = "none"
    /\ \E sp \in SpeakerIds :
          /\ Resolved(sp) # {}
          /\ script' = [script EXCEPT ![x] = [NoScript EXCEPT !.status = "ordered", !.speaker = sp]]
    /\ UNCHANGED <<role, edit>>

WriteScript(x) ==
    /\ script[x].status = "ordered"
    /\ Written(x, [script[x] EXCEPT !.status = "written"])
    /\ UNCHANGED role

\* A batch takes over the speakers of finished stories, unchecked.
CreateBatch(x) ==
    /\ script[x].status = "none"
    /\ \E y \in Scripts :
          /\ script[y].status = "done"
          /\ Written(x, [NoScript EXCEPT !.status = "written", !.speaker = script[y].speaker])
    /\ UNCHANGED role

\* _resolve_segment_voice_plans: the default speaker falls back to the
\* deployment's voice, any other one without a voice fails the synthesis.
SpeakScript(x) ==
    /\ script[x].status = "written"
    /\ \E v \in Resolved(script[x].speaker) \cup
                (IF Resolved(script[x].speaker) = {} /\ script[x].speaker = DefaultSpeaker
                 THEN {Silent} ELSE {}) :
          script' = [script EXCEPT ![x].status = "spoken", ![x].heard = v]
    /\ UNCHANGED <<role, edit>>

\* The second review, or the end of the batch.
FinishScript(x) ==
    /\ script[x].status = "spoken"
    /\ script' = [script EXCEPT ![x].status = "done"]
    /\ UNCHANGED <<role, edit>>

RequestChanges(x) ==
    /\ script[x].status = "spoken"
    /\ script' = [script EXCEPT ![x].status = "written", ![x].heard = Silent]
    /\ UNCHANGED <<role, edit>>

-----------------------------------------------------------------------------
(* The edits *)

\* Fault: a voice that comes into being is not asked for.
SpeakersLosingVoice(old, new) ==
    IF IsVoice(old) /\ old # new THEN {old.speaker} ELSE {}
\* _ensure_voice_contract_is_mutable and, for a role that is created,
\* _ensure_new_voice_contract_is_not_live: whose scripts the guard asks for.
SpeakersAsked(old, new) ==
    (IF IsVoice(old) /\ old # new THEN {old.speaker} ELSE {}) \cup
    (IF IsVoice(new) /\ (~IsVoice(old) \/ new.speaker # old.speaker)
     THEN {new.speaker} ELSE {})

\* create, or replace of the version the operator has seen, or delete, which
\* only disables: the row is read and the edit is validated.
BeginEdit(e, r) ==
    /\ edit[e].pc = "idle" /\ role[r].version < MaxRoleVersion
    /\ \E new \in RoleFields :
          LET asked == SpeakersAsked(Selection(role[r]), new) IN
          edit' = [edit EXCEPT ![e] =
              [pc |-> IF asked = {} THEN "saving" ELSE "asking", of |-> r,
               from |-> role[r].version, to |-> new, ask |-> asked, missed |-> {}]]
    /\ UNCHANGED <<role, script>>

\* has_live_script_reference for one speaker; a guard that cannot tell refuses.
AskGuard(e) ==
    /\ edit[e].pc = "asking"
    /\ \E sp \in edit[e].ask :
          LET left == edit[e].ask \ {sp} IN
          edit' = [edit EXCEPT ![e] =
              IF Uses(sp) # {} THEN NoEdit
              ELSE [edit[e] EXCEPT !.ask = left,
                                   !.pc = IF left = {} THEN "saving" ELSE "asking"]]
    /\ UNCHANGED <<role, script>>

GuardFails(e) ==
    /\ edit[e].pc = "asking"
    /\ edit' = [edit EXCEPT ![e] = NoEdit]
    /\ UNCHANGED <<role, script>>

\* The unique index on the speakers of enabled roles.
SpeakerIsFree(r, p) ==
    p.enabled => \A q \in Roles \ {r} : ~(role[q].enabled /\ role[q].speaker = p.speaker)

SaveRole(e) ==
    /\ edit[e].pc = "saving"
    /\ LET r == edit[e].of
           to == edit[e].to
           saved == role[r].version = edit[e].from /\ SpeakerIsFree(r, to) IN
       role' = IF ~saved THEN role
               ELSE [role EXCEPT ![r] =
                        [speaker |-> to.speaker, voice |-> to.voice,
                         enabled |-> to.enabled, version |-> @.version + 1]]
    /\ edit' = [edit EXCEPT ![e] = NoEdit]
    /\ UNCHANGED script

-----------------------------------------------------------------------------
VoicesNext ==
    \/ \E x \in Scripts :
          \/ ApproveFirst(x) \/ WriteScript(x) \/ CreateBatch(x) \/ SpeakScript(x)
          \/ FinishScript(x) \/ RequestChanges(x)
    \/ \E e \in Editors : AskGuard(e) \/ GuardFails(e) \/ SaveRole(e)
    \/ \E e \in Editors, r \in Roles : BeginEdit(e, r)

VoicesSpec == VoicesInit /\ [][VoicesNext]_voiceVars

-----------------------------------------------------------------------------
(* The voice of a speaker stands still under a written script that is not yet *)
(* rendered, whichever role an edit takes it from or gives it to. The only    *)
(* exception is a script written after the edit had asked for its speaker,    *)
(* since the guard and the save are two transactions (RoleProfileService,     *)
(* has_live_script_reference, the unique index of role_profiles).             *)
VoiceStands ==
    [][\A x \in Scripts :
          LET sp == script[x].speaker IN
          script[x].status \in Live /\ Resolved(sp)' # Resolved(sp) =>
              \E e \in Editors : edit[e].pc = "saving" /\ x \in edit[e].missed]_voiceVars

=============================================================================
