\* Collections, items, programmes, templates and renders and uses of the model, one of them per behaviour.
CONSTANTS
    \* SourceCollection
    jina = jina
    drission = drission
    Scrapy = Scrapy
    Callers = {c1, c2}
    OAuthSources = {reddit}
    KeySources = {guardian}
    PageSources = {pikabu}
    Layers <- FetcherChain
    Slots = 1
    Interval = 2
    MaxCandidates = 2
    RunCap = 2
    MaxListed = 3
    MaxStops = 1
    NoSource = NoSource
    \* SourceItems
    Resources = {r1, r2}
    MaxMedia = 2
    MaxBlocks = 3
    Topics = {"politics", "sports", "nature"}
    \* ProgramPlan
    Stories = {t1, t2}
    Speakers = {"anna", "boris"}
    MaxSegments = 2
    MaxScenes = 7
    \* VideoTemplates
    host = host
    split = split
    bare = bare
    Operators = {o1, o2}
    Modules = {host}
    Variants = {split, bare}
    ModuleOf <- VariantModules
    Defaults <- ModuleDefaults
    Template = template
    MaxVersion = 3
    NoKey = NoKey
    \* VideoRendering
    Segments = {g1, g2}
    Audio = audio
    Profiles = {douyin, bilibili}
    HostSlots = 2
    MaxRuns = 3
    MaxRenders = 3
    MaxFaults = 3
    \* LanguageModel
    MaxCues = 4
    Lengths = {1, 2, 5}
    Frame = 1
    MaxCharacters = 5
    MaxBatch = 3
    Retries = 1
SPECIFICATION ProductionSpec
CHECK_DEADLOCK FALSE
INVARIANTS
    
    SayingItemIsNormalized
    UnclearedIsNotPublished
    StoriesStayWhole
    HostIsThereOnce
    CompileFailsForAReason
    FrozenTemplateIsWhole
    OutputsAreOfTheApproved
    HostVideosAreOfThisRun
    CaptionsAreWhole
PROPERTIES
    CadenceHolds
