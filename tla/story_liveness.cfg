\* One story up to its second synthesis; the bound only limits new requests,
\* so it never stops a call that has started.
CONSTANTS
    Stories = {s1}
    NoStory = NoStory
    Tasks = {t1, t2}
    Texts = {x}
    NoText = NoText
    MaxVersion = 8
SPECIFICATION FairSpec
CHECK_DEADLOCK FALSE
PROPERTIES
    WorkIsRecovered
