SPECIFICATION Spec
CONSTANTS
    w1 = w1
    w2 = w2
    a1 = a1
    a2 = a2
    Workers <- MCWorkers
    Assets <- MCAssets
    Contents = {c1}
    MaxVersion = 3
    MaxLifecycle = 3
    MaxCancels = 2
    NoOne = NoOne
    NoAsset = NoAsset

CHECK_DEADLOCK FALSE
PROPERTY
    ArchivedStoryIsReclaimed
