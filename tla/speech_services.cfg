\* Transcription, speech and voice roles, one of them per behaviour.
CONSTANTS
    \* SourceTranscription
    None = None
    Keys = {k1}
    Workers = {n1, n2}
    Calls = {a1}
    MaxPending = 2
    MaxEvidence = 3
    MaxAttempts = 2
    \* Speech
    Syntheses = {y1}
    Servers = {n1, n2}
    runtime1 = runtime1
    runtime2 = runtime2
    Runtimes = {runtime1, runtime2}
    Reference = reference
    NoServer = noServer
    Plans <- TwoPlans
    MaxContent = 1
    MaxCancels = 2
    \* VoiceRoles
    Roles = {n1, n2}
    Editors = {e1, e2}
    Scripts = {x1}
    SpeakerIds = {sp1, sp2}
    DefaultSpeaker = sp1
    Voices = {v1}
    Silent = silent
    MaxRoleVersion = 2
SPECIFICATION ServicesSpec
SYMMETRY Symmetry
CHECK_DEADLOCK FALSE
INVARIANTS
    ApprovedAsHeard
    OneChildWorks
    ProvenanceIsTrue
    StoppedIsGone
PROPERTIES
    VerdictStands
    VoiceStands
