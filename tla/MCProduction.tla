----------------------------- MODULE MCProduction -----------------------------
(***************************************************************************)
(* Collections, items, programmes, templates, renders and uses of the      *)
(* language model, as one state machine: the initial state chooses the one *)
(* a behaviour is about, and only that one moves.  They keep no state in   *)
(* common, so the states are the sum of theirs, not the product, and every *)
(* behaviour is one of them.                                               *)
(***************************************************************************)
EXTENDS SourceCollection, SourceItems, ProgramPlan, VideoTemplates, VideoRendering,
        LanguageModel, TLC

\* Collections: the chain of page fetchers that build_container makes.
CONSTANTS jina, drission
FetcherChain == <<jina, drission, Scrapy>>

\* Templates: a module with its default variant and another one.
CONSTANTS host, split, bare
VariantModules == (split :> host) @@ (bare :> host)
ModuleDefaults == host :> split

VARIABLE focus  \* what this behaviour is about

\* Items, programs and requests have many initial states; the other behaviours have one.
OneItem ==
    /\ RawItem(PlainItem("dazhong"))
    /\ doc = raw /\ verdict = "raw"

OneProgram ==
    /\ given = [length |-> [s \in Stories |-> 1], bareHost |-> FALSE,
                media |-> [images |-> {}, screenshots |-> {}, videos |-> {}, broll |-> {}],
                voice |-> [s \in OwnSegments([t \in Stories |-> 1]) |->
                              CHOOSE v \in Speakers : TRUE]]
    /\ program = [order |-> <<>>] /\ plan = <<>> /\ stage = "directing"

OneRequest ==
    /\ request = [kind |-> "script", lengths |-> <<1>>, same |-> TRUE]
    /\ asked = <<>> /\ left = <<>> /\ heard = <<>> /\ tries = 0 /\ ended = "no"

ProductionInit ==
    /\ focus \in {"collection", "items", "program", "templates", "rendering", "model"}
    /\ CollectionInit /\ TemplateInit /\ RenderingInit
    /\ IF focus = "items" THEN ItemInit ELSE OneItem
    /\ IF focus = "program" THEN ProgramInit ELSE OneProgram
    /\ IF focus = "model" THEN ModelInit ELSE OneRequest

ProductionNext ==
    \/ focus = "collection" /\ CollectionNext
       /\ UNCHANGED <<focus, itemVars, programVars, templateVars, renderingVars, modelVars>>
    \/ focus = "items" /\ ItemNext
       /\ UNCHANGED <<focus, collectionVars, programVars, templateVars, renderingVars, modelVars>>
    \/ focus = "program" /\ ProgramNext
       /\ UNCHANGED <<focus, collectionVars, itemVars, templateVars, renderingVars, modelVars>>
    \/ focus = "templates" /\ TemplateNext
       /\ UNCHANGED <<focus, collectionVars, itemVars, programVars, renderingVars, modelVars>>
    \/ focus = "rendering" /\ RenderingNext
       /\ UNCHANGED <<focus, collectionVars, itemVars, programVars, templateVars, modelVars>>
    \/ focus = "model" /\ ModelNext
       /\ UNCHANGED <<focus, collectionVars, itemVars, programVars, templateVars, renderingVars>>

ProductionSpec ==
    ProductionInit
    /\ [][ProductionNext]_<<focus, collectionVars, itemVars, programVars, templateVars,
                            renderingVars, modelVars>>

=============================================================================
