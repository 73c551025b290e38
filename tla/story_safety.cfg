\* One story through two revisions, two calls at a time.
CONSTANTS
    Stories = {s1}
    NoStory = NoStory
    Tasks = {t1, t2}
    Texts = {x, y}
    NoText = NoText
    MaxVersion = 12
SPECIFICATION Spec
SYMMETRY Symmetry
CHECK_DEADLOCK FALSE
INVARIANTS
    ScriptGate
    AudioSpeaksScript
    FinalGate
    AuditIsHistory
PROPERTIES
    KeepsPromise
