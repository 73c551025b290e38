-------------------------- MODULE ProductionProofs --------------------------
(***************************************************************************)
(* What the parts of the production guarantee for every number of callers, *)
(* stories, variants, segments, profiles and cues: the collection of a     *)
(* source, its items, the template of a batch, its render and a use of the *)
(* language model. The parts keep no state in common, so each has an       *)
(* invariant and theorems of its own.                                      *)
(***************************************************************************)
EXTENDS SourceCollection, SourceItems, VideoTemplates, VideoRendering, LanguageModel,
        ProgramPlan, WellFoundedInduction, SequenceTheorems, FiniteSetTheorems, TLAPS

-----------------------------------------------------------------------------
(* VideoTemplates: what a batch keeps of the template *)

\* What was resolved, or is kept, has every default variant.
TemplatesAreWhole ==
    /\ resolving # {} => ValidTemplate(resolving)
    /\ FrozenTemplateIsWhole

\* A template that is effective resolves to one with its default variants.
LEMMA EffectiveIsWhole ==
    ASSUME Effective(Template)
    PROVE  ValidTemplate({v \in Variants : Effective(v)})
<1> SUFFICES ASSUME NEW m \in Modules
             PROVE  Effective(Defaults[m])
  BY TemplateShape DEF ValidTemplate
<1>1. /\ Defaults[m] \in Variants /\ ModuleOf[Defaults[m]] = m
      /\ Defaults[m] # Template /\ m # Template /\ m \notin Variants
  BY TemplateShape
<1>2. policy[m].enabled /\ policy[Defaults[m]].enabled
  BY DEF Effective, Dependencies
<1>3. Dependencies(Defaults[m]) = {m} /\ Dependencies(m) = {}
  BY <1>1 DEF Dependencies
<1> QED
  BY <1>2, <1>3 DEF Effective

\* Policies may change while a batch is made: what it keeps has every default
\* variant it names, and can be read again.
THEOREM FrozenTemplateIsWholeAlways == TemplateSpec => []FrozenTemplateIsWhole
<1>1. TemplateInit => TemplatesAreWhole
  BY DEF TemplateInit, TemplatesAreWhole, FrozenTemplateIsWhole
<1>2. TemplatesAreWhole /\ [TemplateNext]_templateVars => TemplatesAreWhole'
  <2> SUFFICES ASSUME TemplatesAreWhole, [TemplateNext]_templateVars
               PROVE  TemplatesAreWhole'
    OBVIOUS
  <2> USE DEF TemplatesAreWhole, FrozenTemplateIsWhole, ValidTemplate
  <2>1. CASE \E o \in Operators : ChangeChecked(o) \/ ChangeRead(o) \/ ChangeWritten(o)
    BY <2>1 DEF ChangeChecked, ChangeRead, ChangeWritten
  <2>2. CASE TemplateResolved
    <3>1. /\ resolving' = {v \in Variants : Effective(v)} /\ Effective(Template)
          /\ UNCHANGED frozen
      BY <2>2 DEF TemplateResolved
    <3> QED
      BY <3>1, EffectiveIsWhole
  <2>3. CASE BatchCreated
    BY <2>3 DEF BatchCreated
  <2>4. CASE BatchRefused
    BY <2>4 DEF BatchRefused
  <2>5. CASE UNCHANGED templateVars
    BY <2>5 DEF templateVars
  <2> QED
    BY <2>1, <2>2, <2>3, <2>4, <2>5 DEF TemplateNext
<1>3. TemplatesAreWhole => FrozenTemplateIsWhole
  BY DEF TemplatesAreWhole
<1> QED
  BY <1>1, <1>2, <1>3, PTL DEF TemplateSpec

-----------------------------------------------------------------------------
(* VideoRendering: the host videos and the render of one batch *)

\* The functions from a part of D to S.
Partial(D, S) == UNION {[E -> S] : E \in SUBSET D}

\* Where such a function is defined, and its values.
LEMMA PartialFacts ==
    ASSUME NEW D, NEW S, NEW f \in Partial(D, S)
    PROVE  DOMAIN f \subseteq D /\ \A x \in DOMAIN f : f[x] \in S
BY DEF Partial

\* The function without entries.
LEMMA PartialEmpty ==
    ASSUME NEW D, NEW S
    PROVE  <<>> \in Partial(D, S) /\ DOMAIN <<>> = {}
<1>1. DOMAIN <<>> = {} /\ <<>> \in [{} -> S]
  OBVIOUS
<1> QED
  BY <1>1 DEF Partial

\* One entry more.
LEMMA PartialMore ==
    ASSUME NEW D, NEW S, NEW f \in Partial(D, S), NEW x \in D, NEW v \in S
    PROVE  [y \in DOMAIN f \cup {x} |-> IF y = x THEN v ELSE f[y]] \in Partial(D, S)
<1> DEFINE E == DOMAIN f \cup {x}
           g == [y \in E |-> IF y = x THEN v ELSE f[y]]
<1>1. E \in SUBSET D /\ \A y \in DOMAIN f : f[y] \in S
  BY PartialFacts
<1>2. g \in [E -> S]
  BY <1>1
<1> HIDE DEF g, E
<1>3. g \in Partial(D, S)
  BY <1>1, <1>2 DEF Partial
<1> QED
  BY <1>3 DEF g, E

\* Some entries less.
LEMMA PartialLess ==
    ASSUME NEW D, NEW S, NEW f \in Partial(D, S), NEW E \in SUBSET DOMAIN f
    PROVE  [y \in E |-> f[y]] \in Partial(D, S)
<1>1. E \in SUBSET D /\ \A y \in E : f[y] \in S
  BY PartialFacts
<1>2. [y \in E |-> f[y]] \in [E -> S]
  BY <1>1
<1> QED
  BY <1>1, <1>2 DEF Partial

\* Another value for an entry.
LEMMA PartialChanged ==
    ASSUME NEW D, NEW S, NEW f \in Partial(D, S), NEW x \in DOMAIN f, NEW v \in S
    PROVE  /\ [f EXCEPT ![x] = v] \in Partial(D, S)
           /\ DOMAIN [f EXCEPT ![x] = v] = DOMAIN f
           /\ [f EXCEPT ![x] = v][x] = v
           /\ \A y \in DOMAIN f \ {x} : [f EXCEPT ![x] = v][y] = f[y]
<1>1. PICK E \in SUBSET D : f \in [E -> S]
  BY DEF Partial
<1>2. [f EXCEPT ![x] = v] \in [E -> S]
  BY <1>1
<1> QED
  BY <1>1, <1>2 DEF Partial

BatchStatus == {"pending_tts", "processing", "timeline", "ready", "rendering", "failed",
                "rendered"}
Stagings == Partial(Inputs, Nat)
OutputSets == Partial(Profiles, Stagings)
Attempts == [staged : Stagings, outputs : OutputSets]

RenderingTypes ==
    /\ status \in BatchStatus
    /\ run \in Nat
    /\ todo \in [Segments -> {"waiting", "working", "done"}]
    /\ preparing \in {"no", "running", "stopping", "leaving"}
    /\ workers \in SUBSET (Segments \X Nat)
    /\ disk \in [Inputs -> Nat]
    /\ approved \in [Inputs -> Nat]
    /\ attempts \in Partial(Nat, Attempts)
    /\ started \in Nat
    /\ job \in {"none", "staging", "rendering", "failing"}
    /\ artifact \in Nat
    /\ boot \in {"up", "down", "cleaning"}
    /\ recovered \in BOOLEAN

\* The workers alive are of the present synthesis, and only while it is
\* prepared; what is done was made by it, or has been damaged since.
HostsOK ==
    /\ preparing # "no" => status = "processing" /\ boot = "up"
    /\ preparing = "no" => workers = {}
    /\ \A w \in workers : w[2] = run
    /\ preparing = "running" =>
          /\ \A w \in workers : todo[w[1]] = "working"
          /\ \A s \in Segments : todo[s] = "done" => disk[s] \in {0, run}

\* What has been staged is what was approved, and so are the outputs.
Faithful(a) ==
    /\ \A i \in DOMAIN a.staged : a.staged[i] = approved[i]
    /\ \A p \in DOMAIN a.outputs : a.outputs[p] = approved

JobsOK ==
    /\ job # "none" => status = "rendering" /\ boot = "up" /\ started \in DOMAIN attempts
    /\ job \in {"staging", "rendering"} => Faithful(Attempt)
    /\ job = "rendering" => DOMAIN Attempt.staged = Inputs
    /\ boot = "cleaning" /\ recovered => status = "failed"

RenderingInv ==
    RenderingTypes /\ HostsOK /\ JobsOK /\ OutputsAreOfTheApproved /\ HostVideosAreOfThisRun

\* The audio and the segments are the inputs, and are told apart.
LEMMA InputFacts == Audio \in Inputs /\ Segments \subseteq Inputs /\ Audio \notin Segments
BY AudioIsNoSegment DEF Inputs

\* The invariant holds at first.
LEMMA RenderingStarts == RenderingInit => RenderingInv
<1> SUFFICES ASSUME RenderingInit PROVE RenderingInv
  OBVIOUS
<1> USE DEF RenderingInit
<1>1. attempts \in Partial(Nat, Attempts)
  BY PartialEmpty
<1>2. RenderingTypes
  BY <1>1, InputFacts DEF RenderingTypes, BatchStatus
<1> QED
  BY <1>2 DEF RenderingInv, HostsOK, JobsOK, OutputsAreOfTheApproved, HostVideosAreOfThisRun

\* A synthesis prepares the host videos: only the files, the segments and
\* their workers change, and the attempts do not.
LEMMA HostStep ==
    ASSUME RenderingInv,
           \/ SynthesizeNarration
           \/ \E s \in Segments : HostStarts(s)
           \/ \E w \in workers : HostCommitted(w) \/ HostFails(w) \/ HostStopped(w)
           \/ PrepareCancelled \/ PrepareEnds \/ SnapshotFails \/ SnapshotCancelled
           \/ PrepareDone
    PROVE  RenderingInv'
<1> USE DEF RenderingInv, renderVars, bootVars, hostVars
<1>0. /\ UNCHANGED <<attempts, started, job, artifact, boot, recovered>>
      /\ job = "none" /\ status # "rendered" /\ status' # "rendered"
      /\ status \in {"pending_tts", "processing"} /\ ~(boot = "cleaning" /\ recovered)
  BY DEF SynthesizeNarration, HostStarts, HostCommitted, HostFails, HostStopped,
         PrepareCancelled, PrepareEnds, SnapshotFails, SnapshotCancelled, HostsPrepared,
         PrepareDone, HostsOK, JobsOK, RenderingTypes
<1>1. JobsOK' /\ OutputsAreOfTheApproved'
  BY <1>0 DEF JobsOK, OutputsAreOfTheApproved
<1>2. CASE SynthesizeNarration
  <2> USE <1>2 DEF SynthesizeNarration
  <2>1. preparing = "no" /\ workers = {}
    BY DEF HostsOK
  <2>2. RenderingTypes'
    BY InputFacts DEF RenderingTypes, BatchStatus
  <2>3. HostsOK' /\ HostVideosAreOfThisRun'
    BY <2>1, <2>2 DEF HostsOK, HostVideosAreOfThisRun, RenderingTypes
  <2> QED
    BY <1>1, <2>2, <2>3
<1>3. CASE \E s \in Segments : HostStarts(s)
  <2>1. PICK s \in Segments : HostStarts(s)
    BY <1>3
  <2> USE <2>1 DEF HostStarts
  <2>2. RenderingTypes'
    BY DEF RenderingTypes
  <2>3. HostsOK' /\ HostVideosAreOfThisRun'
    BY <2>2 DEF HostsOK, HostVideosAreOfThisRun, RenderingTypes
  <2> QED
    BY <1>1, <2>2, <2>3
<1>4. CASE \E w \in workers : HostCommitted(w)
  <2>1. PICK w \in workers : HostCommitted(w)
    BY <1>4
  <2> USE <2>1 DEF HostCommitted
  <2>2. w[1] \in Segments /\ w[2] = run /\ w = <<w[1], run>> /\ preparing # "no"
    BY DEF HostsOK, RenderingTypes
  <2>3. RenderingTypes'
    BY <2>2, InputFacts DEF RenderingTypes
  <2>4. \A u \in workers' : u \in workers /\ u[1] # w[1] /\ u[1] \in Segments
    BY <2>2 DEF HostsOK, RenderingTypes
  <2>5. HostsOK'
    BY <2>2, <2>3, <2>4, InputFacts DEF HostsOK, RenderingTypes
  <2>6. HostVideosAreOfThisRun'
    BY <1>0 DEF HostVideosAreOfThisRun
  <2> QED
    BY <1>1, <2>3, <2>5, <2>6
<1>5. CASE \E w \in workers : HostFails(w) \/ HostStopped(w)
  <2>2. RenderingTypes' /\ HostsOK'
    BY <1>5 DEF HostFails, HostStopped, RenderingTypes, HostsOK
  <2>3. HostVideosAreOfThisRun'
    BY <1>5 DEF HostFails, HostStopped, HostVideosAreOfThisRun
  <2> QED
    BY <1>1, <2>2, <2>3
<1>6. CASE PrepareEnds
  <2> USE <1>6 DEF PrepareEnds
  <2>1. RenderingTypes'
    BY DEF RenderingTypes, BatchStatus
  <2>2. HostsOK' /\ HostVideosAreOfThisRun'
    BY DEF HostsOK, HostVideosAreOfThisRun, SegmentsEnded
  <2> QED
    BY <1>1, <2>1, <2>2
<1>7. CASE PrepareDone
  <2> USE <1>7 DEF PrepareDone, HostsPrepared
  <2>1. RenderingTypes'
    BY DEF RenderingTypes, BatchStatus
  <2>2. workers = {}
    BY DEF HostsOK, RenderingTypes
  <2>3. HostsOK' /\ HostVideosAreOfThisRun'
    BY <2>2 DEF HostsOK, HostVideosAreOfThisRun
  <2> QED
    BY <1>1, <2>1, <2>3
<1>8. CASE PrepareCancelled
  <2> USE <1>8 DEF PrepareCancelled
  <2>1. RenderingTypes'
    BY DEF RenderingTypes
  <2>2. HostsOK' /\ HostVideosAreOfThisRun'
    BY DEF HostsOK, HostVideosAreOfThisRun
  <2> QED
    BY <1>1, <2>1, <2>2
<1>9. CASE SnapshotFails \/ SnapshotCancelled
  <2> USE <1>9 DEF SnapshotFails, SnapshotCancelled, HostsPrepared
  <2>1. RenderingTypes'
    BY DEF RenderingTypes, BatchStatus
  <2>2. workers = {}
    BY DEF HostsOK, RenderingTypes
  <2>3. HostsOK' /\ HostVideosAreOfThisRun'
    BY <1>0, <2>2 DEF HostsOK, HostVideosAreOfThisRun
  <2> QED
    BY <1>1, <2>1, <2>3
<1> QED
  BY <1>2, <1>3, <1>4, <1>5, <1>6, <1>7, <1>8, <1>9

\* The timeline is approved or the narration revised, a file changes, and the
\* program restarts.
LEMMA OutsideStep ==
    ASSUME RenderingInv,
           \/ TimelineApproved \/ NarrationRevised \/ Restart \/ Recover
           \/ \E i \in Inputs : FileChanges(i)
    PROVE  RenderingInv'
<1> USE DEF RenderingInv, renderVars, bootVars, hostVars
<1>1. CASE TimelineApproved \/ NarrationRevised
  <2>1. /\ status = "timeline" /\ boot = "up" /\ status' \in {"ready", "pending_tts"}
        /\ UNCHANGED <<run, todo, preparing, workers, disk, attempts, started, job, artifact,
                       boot, recovered>>
        /\ UNCHANGED approved \/ status' = "pending_tts"
    BY <1>1 DEF TimelineApproved, NarrationRevised
  <2>2. approved' \in [Inputs -> Nat]
    BY <1>1 DEF TimelineApproved, NarrationRevised, RenderingTypes
  <2>3. RenderingTypes'
    BY <2>1, <2>2 DEF RenderingTypes, BatchStatus
  <2>4. HostsOK' /\ JobsOK' /\ OutputsAreOfTheApproved' /\ HostVideosAreOfThisRun'
    BY <2>1 DEF HostsOK, JobsOK, OutputsAreOfTheApproved, HostVideosAreOfThisRun
  <2> QED
    BY <2>3, <2>4
<1>2. CASE Restart
  <2> USE <1>2 DEF Restart
  <2>1. RenderingTypes' /\ HostsOK' /\ JobsOK'
    BY DEF RenderingTypes, HostsOK, JobsOK
  <2>2. OutputsAreOfTheApproved' /\ HostVideosAreOfThisRun'
    BY DEF OutputsAreOfTheApproved, HostVideosAreOfThisRun
  <2> QED
    BY <2>1, <2>2
<1>3. CASE Recover
  <2> USE <1>3 DEF Recover
  <2>1. /\ status' \in BatchStatus /\ status' # "rendering" /\ recovered' \in BOOLEAN
        /\ recovered' => status' = "failed"
        /\ status' = "rendered" => status = "rendered"
        /\ status' \in {"timeline", "ready", "rendering", "failed", "rendered"} =>
              status \in {"timeline", "ready", "rendering", "failed", "rendered"}
    BY DEF RenderingTypes, BatchStatus
  <2>2. RenderingTypes' /\ HostsOK' /\ JobsOK'
    BY <2>1 DEF RenderingTypes, HostsOK, JobsOK
  <2>3. OutputsAreOfTheApproved' /\ HostVideosAreOfThisRun'
    BY <2>1 DEF OutputsAreOfTheApproved, HostVideosAreOfThisRun
  <2> QED
    BY <2>2, <2>3
<1>4. CASE \E i \in Inputs : FileChanges(i)
  <2>1. PICK i \in Inputs : FileChanges(i)
    BY <1>4
  <2> USE <2>1 DEF FileChanges
  <2>2. RenderingTypes'
    BY DEF RenderingTypes
  <2>3. HostsOK'
    BY InputFacts DEF HostsOK, RenderingTypes
  <2>4. JobsOK'
    BY DEF JobsOK, Faithful, Attempt
  <2>5. OutputsAreOfTheApproved' /\ HostVideosAreOfThisRun'
    BY DEF OutputsAreOfTheApproved, HostVideosAreOfThisRun
  <2> QED
    BY <2>2, <2>3, <2>4, <2>5
<1> QED
  BY <1>1, <1>2, <1>3, <1>4

\* While a render is under way its attempt exists and nothing is prepared.
LEMMA RenderUnderway ==
    ASSUME RenderingInv, job # "none"
    PROVE  /\ status = "rendering" /\ boot = "up" /\ preparing = "no" /\ workers = {}
           /\ started \in DOMAIN attempts /\ Attempt \in Attempts
<1>1. /\ status = "rendering" /\ boot = "up" /\ started \in DOMAIN attempts
  BY DEF RenderingInv, JobsOK
<1>2. preparing = "no" /\ workers = {}
  BY <1>1 DEF RenderingInv, HostsOK
<1>3. attempts[started] \in Attempts
  BY <1>1, PartialFacts DEF RenderingInv, RenderingTypes
<1> QED
  BY <1>1, <1>2, <1>3 DEF Attempt

\* The render goes on with an attempt that is still faithful to the snapshot.
Renders(a) ==
    /\ attempts' = [attempts EXCEPT ![started] = a]
    /\ a \in Attempts /\ Faithful(a)
    /\ job = job' /\ (job = "rendering" => DOMAIN a.staged = Inputs)
    /\ UNCHANGED <<status, run, todo, preparing, workers, disk, approved, started, artifact,
                   boot, recovered>>

\* It preserves the invariant.
LEMMA RendersStep ==
    ASSUME RenderingInv, job # "none", NEW a, Renders(a)
    PROVE  RenderingInv'
<1> USE DEF Renders
<1>1. /\ status = "rendering" /\ boot = "up" /\ started \in DOMAIN attempts
  BY RenderUnderway
<1>2. /\ attempts' \in Partial(Nat, Attempts) /\ DOMAIN attempts' = DOMAIN attempts
      /\ attempts'[started] = a
  BY <1>1, PartialChanged DEF RenderingInv, RenderingTypes
<1>3. RenderingTypes'
  BY <1>2 DEF RenderingInv, RenderingTypes
<1>4. HostsOK' /\ OutputsAreOfTheApproved' /\ HostVideosAreOfThisRun'
  BY <1>1 DEF RenderingInv, HostsOK, OutputsAreOfTheApproved, HostVideosAreOfThisRun
<1>5. JobsOK'
  BY <1>1, <1>2 DEF RenderingInv, JobsOK, Faithful, Attempt
<1> QED
  BY <1>3, <1>4, <1>5 DEF RenderingInv

\* A render starts.
LEMMA RenderStartsStep ==
    ASSUME RenderingInv, RenderStarts
    PROVE  RenderingInv'
<1> USE DEF renderVars, bootVars, hostVars
<1> DEFINE n == started + 1
           blank == [staged |-> <<>>, outputs |-> <<>>]
           table == [k \in DOMAIN attempts \cup {n} |->
                        IF k = n THEN blank ELSE attempts[k]]
<1>1. /\ status \in {"ready", "failed"} /\ boot = "up" /\ status' = "rendering"
      /\ started' = n /\ job' = "staging" /\ attempts' = table
      /\ UNCHANGED <<run, todo, preparing, workers, disk, approved, artifact, boot, recovered>>
  BY DEF RenderStarts
<1>2. blank \in Attempts /\ blank.staged = <<>> /\ blank.outputs = <<>>
  BY PartialEmpty DEF Attempts, Stagings, OutputSets
<1>3. n \in Nat
  BY DEF RenderingInv, RenderingTypes
<1> HIDE DEF blank, n
<1>4. table \in Partial(Nat, Attempts)
  BY <1>2, <1>3, PartialMore DEF RenderingInv, RenderingTypes
<1>5. n \in DOMAIN table /\ table[n] = blank
  OBVIOUS
<1> HIDE DEF table
<1>6. RenderingTypes'
  BY <1>1, <1>3, <1>4 DEF RenderingInv, RenderingTypes, BatchStatus
<1>7. HostsOK' /\ OutputsAreOfTheApproved' /\ HostVideosAreOfThisRun'
  BY <1>1 DEF RenderingInv, HostsOK, OutputsAreOfTheApproved, HostVideosAreOfThisRun
<1>8. Attempt' = blank
  BY <1>1, <1>5 DEF Attempt
<1>9. JobsOK'
  BY <1>1, <1>2, <1>5, <1>8, PartialEmpty DEF JobsOK, Faithful
<1> QED
  BY <1>6, <1>7, <1>9 DEF RenderingInv

\* The render ends, well or not, or is about to: the attempts stay, or the one
\* that failed goes.
LEMMA RenderEndsStep ==
    ASSUME RenderingInv, RenderFails \/ RenderCleaned \/ RenderCommitted
    PROVE  RenderingInv'
<1> USE DEF renderVars, bootVars, hostVars
<1>0. /\ job # "none" /\ status = "rendering" /\ boot = "up" /\ preparing = "no"
      /\ workers = {} /\ started \in DOMAIN attempts /\ Attempt \in Attempts
  BY RenderUnderway DEF RenderFails, RenderCleaned, RenderCommitted
<1>1. CASE RenderFails
  <2>1. RenderingTypes' /\ HostsOK' /\ JobsOK'
    BY <1>0, <1>1 DEF RenderFails, RenderingInv, RenderingTypes, HostsOK, JobsOK
  <2>2. OutputsAreOfTheApproved' /\ HostVideosAreOfThisRun'
    BY <1>0, <1>1 DEF RenderFails, RenderingInv, OutputsAreOfTheApproved,
                      HostVideosAreOfThisRun
  <2> QED
    BY <2>1, <2>2 DEF RenderingInv
<1>2. CASE RenderCleaned
  <2>1. /\ job' = "none" /\ status' = "failed"
        /\ attempts' = [n \in DOMAIN attempts \ {started} |-> attempts[n]]
        /\ UNCHANGED <<run, todo, preparing, workers, disk, approved, started, artifact,
                       boot, recovered>>
    BY <1>2 DEF RenderCleaned, Without
  <2>2. attempts' \in Partial(Nat, Attempts)
    BY <2>1, PartialLess DEF RenderingInv, RenderingTypes
  <2>3. RenderingTypes'
    BY <2>1, <2>2 DEF RenderingInv, RenderingTypes, BatchStatus
  <2>4. HostsOK' /\ JobsOK' /\ OutputsAreOfTheApproved' /\ HostVideosAreOfThisRun'
    BY <1>0, <2>1 DEF RenderingInv, HostsOK, JobsOK, OutputsAreOfTheApproved,
                      HostVideosAreOfThisRun
  <2> QED
    BY <2>3, <2>4 DEF RenderingInv
<1>3. CASE RenderCommitted
  <2>1. /\ job = "rendering" /\ DOMAIN Attempt.outputs = Profiles
        /\ job' = "none" /\ status' = "rendered" /\ artifact' = started
        /\ UNCHANGED <<run, todo, preparing, workers, disk, approved, attempts, started,
                       boot, recovered>>
    BY <1>3 DEF RenderCommitted
  <2>2. RenderingTypes'
    BY <2>1 DEF RenderingInv, RenderingTypes, BatchStatus
  <2>3. HostsOK' /\ JobsOK' /\ HostVideosAreOfThisRun'
    BY <1>0, <2>1 DEF RenderingInv, HostsOK, JobsOK, HostVideosAreOfThisRun
  <2>4. OutputsAreOfTheApproved'
    BY <1>0, <2>1 DEF RenderingInv, JobsOK, Faithful, Attempt, OutputsAreOfTheApproved
  <2> QED
    BY <2>2, <2>3, <2>4 DEF RenderingInv
<1> QED
  BY <1>1, <1>2, <1>3

\* An input is staged, or found to have changed.
LEMMA InputStagedStep ==
    ASSUME RenderingInv, InputStaged
    PROVE  RenderingInv'
<1> USE DEF renderVars, bootVars, hostVars
<1>0. /\ job = "staging" /\ status = "rendering" /\ boot = "up"
      /\ started \in DOMAIN attempts /\ Attempt \in Attempts
  BY RenderUnderway DEF InputStaged
<1>1. UNCHANGED <<status, run, todo, preparing, workers, disk, approved, started, artifact,
                  boot, recovered>>
  BY DEF InputStaged
<1>2. CASE job' = "failing" /\ UNCHANGED attempts
  <2>1. RenderFails
    BY <1>0, <1>1, <1>2 DEF RenderFails
  <2> QED
    BY <2>1, RenderEndsStep
<1>3. CASE \E i \in Inputs : /\ CopyIsApproved(i) /\ UNCHANGED job
                             /\ attempts' = [attempts EXCEPT ![started].staged =
                                  [k \in DOMAIN @ \cup {i} |->
                                      IF k = i THEN disk[i] ELSE @[k]]]
  <2>1. PICK i \in Inputs : /\ CopyIsApproved(i) /\ UNCHANGED job
                            /\ attempts' = [attempts EXCEPT ![started].staged =
                                 [k \in DOMAIN @ \cup {i} |->
                                     IF k = i THEN disk[i] ELSE @[k]]]
    BY <1>3
  <2> DEFINE old == Attempt.staged
             new == [k \in DOMAIN old \cup {i} |-> IF k = i THEN disk[i] ELSE old[k]]
             a   == [Attempt EXCEPT !.staged = new]
  <2>2. attempts' = [attempts EXCEPT ![started] = a]
    BY <2>1 DEF Attempt
  <2>3. old \in Stagings /\ disk[i] \in Nat /\ disk[i] = approved[i]
    BY <1>0, <2>1 DEF Attempts, CopyIsApproved, RenderingInv, RenderingTypes
  <2>4. new \in Stagings
    BY <2>3, PartialMore DEF Stagings
  <2>5. Faithful(Attempt)
    BY <1>0 DEF RenderingInv, JobsOK
  <2>6. \A k \in DOMAIN new : new[k] = approved[k]
    BY <2>3, <2>5 DEF Faithful
  <2> HIDE DEF new, old
  <2>7. a \in Attempts /\ a.staged = new /\ a.outputs = Attempt.outputs
    BY <1>0, <2>4 DEF Attempts
  <2> HIDE DEF a
  <2>8. Faithful(a)
    BY <2>5, <2>6, <2>7 DEF Faithful
  <2>9. Renders(a)
    BY <1>0, <1>1, <2>1, <2>2, <2>7, <2>8 DEF Renders
  <2> QED
    BY <1>0, <2>9, RendersStep
<1> QED
  BY <1>2, <1>3 DEF InputStaged

\* A profile is rendered from what is staged.
LEMMA ProfileRenderedStep ==
    ASSUME RenderingInv, ProfileRendered
    PROVE  RenderingInv'
<1> USE DEF renderVars, bootVars, hostVars
<1>0. /\ job = "rendering" /\ status = "rendering" /\ boot = "up"
      /\ started \in DOMAIN attempts /\ Attempt \in Attempts
      /\ Faithful(Attempt) /\ DOMAIN Attempt.staged = Inputs
  BY RenderUnderway DEF ProfileRendered, RenderingInv, JobsOK
<1>1. UNCHANGED <<status, run, todo, preparing, workers, disk, approved, started, artifact,
                  boot, recovered, job>>
  BY DEF ProfileRendered
<1>2. PICK p \in Profiles :
          attempts' = [attempts EXCEPT ![started].outputs =
                          [q \in DOMAIN @ \cup {p} |->
                              IF q = p THEN Attempt.staged ELSE @[q]]]
  BY DEF ProfileRendered
<1>3. Attempt.staged = approved
  <2>1. Attempt.staged \in [Inputs -> Nat]
    BY <1>0 DEF Attempts, Stagings, Partial
  <2>2. approved \in [Inputs -> Nat]
    BY DEF RenderingInv, RenderingTypes
  <2> QED
    BY <1>0, <2>1, <2>2 DEF Faithful
<1> DEFINE old == Attempt.outputs
           new == [q \in DOMAIN old \cup {p} |-> IF q = p THEN Attempt.staged ELSE old[q]]
           a   == [Attempt EXCEPT !.outputs = new]
<1>4. attempts' = [attempts EXCEPT ![started] = a]
  BY <1>2 DEF Attempt
<1>5. old \in OutputSets /\ Attempt.staged \in Stagings
  BY <1>0 DEF Attempts
<1>6. new \in OutputSets
  BY <1>5, PartialMore DEF OutputSets
<1>7. \A q \in DOMAIN new : new[q] = approved
  BY <1>0, <1>3 DEF Faithful
<1> HIDE DEF new, old
<1>8. a \in Attempts /\ a.outputs = new /\ a.staged = Attempt.staged
  BY <1>0, <1>6 DEF Attempts
<1> HIDE DEF a
<1>9. Renders(a)
  BY <1>0, <1>1, <1>4, <1>7, <1>8 DEF Renders, Faithful
<1> QED
  BY <1>0, <1>9, RendersStep

\* Everything is staged, and the attempts that nobody finished are removed.
LEMMA StagingDoneStep ==
    ASSUME RenderingInv, StagingDone \/ CleanUp
    PROVE  RenderingInv'
<1> USE DEF renderVars, bootVars, hostVars
<1>1. CASE StagingDone
  <2>1. RenderingTypes' /\ HostsOK' /\ JobsOK'
    BY <1>1 DEF StagingDone, RenderingInv, RenderingTypes, HostsOK, JobsOK, Faithful, Attempt
  <2>2. OutputsAreOfTheApproved' /\ HostVideosAreOfThisRun'
    BY <1>1 DEF StagingDone, RenderingInv, OutputsAreOfTheApproved, HostVideosAreOfThisRun
  <2> QED
    BY <2>1, <2>2 DEF RenderingInv
<1>2. CASE CleanUp
  <2>1. /\ boot = "cleaning" /\ boot' = "up"
        /\ attempts' = [n \in KeptAttempts |-> attempts[n]]
        /\ UNCHANGED <<status, run, todo, preparing, workers, disk, approved, started, job,
                       artifact, recovered>>
    BY <1>2 DEF CleanUp
  <2>2. /\ KeptAttempts \subseteq DOMAIN attempts
        /\ status = "rendered" => KeptAttempts = DOMAIN attempts
    BY <2>1 DEF KeptAttempts, RenderingInv, RenderingTypes, JobsOK
  <2>3. attempts' \in Partial(Nat, Attempts)
    BY <2>1, <2>2, PartialLess DEF RenderingInv, RenderingTypes
  <2>4. RenderingTypes'
    BY <2>1, <2>3 DEF RenderingInv, RenderingTypes
  <2>5. HostsOK' /\ JobsOK' /\ HostVideosAreOfThisRun'
    BY <2>1 DEF RenderingInv, HostsOK, JobsOK, HostVideosAreOfThisRun
  <2>6. OutputsAreOfTheApproved'
    BY <2>1, <2>2 DEF RenderingInv, OutputsAreOfTheApproved
  <2> QED
    BY <2>4, <2>5, <2>6 DEF RenderingInv
<1> QED
  BY <1>1, <1>2

\* Workers belong to the synthesis under way, and staged files to the snapshot:
\* the invariant of the renderers holds in every reachable state.
THEOREM RenderingInvariance == RenderingSpec => []RenderingInv
<1>1. RenderingInv /\ [RenderingNext]_renderingVars => RenderingInv'
  <2> SUFFICES ASSUME RenderingInv, [RenderingNext]_renderingVars
               PROVE  RenderingInv'
    OBVIOUS
  <2>1. CASE UNCHANGED renderingVars
    <3>1. /\ RenderingTypes' /\ HostsOK' /\ JobsOK'
      BY <2>1 DEF renderingVars, RenderingInv, RenderingTypes, HostsOK, JobsOK, Faithful, Attempt
    <3>2. OutputsAreOfTheApproved' /\ HostVideosAreOfThisRun'
      BY <2>1 DEF renderingVars, RenderingInv, OutputsAreOfTheApproved, HostVideosAreOfThisRun
    <3> QED
      BY <3>1, <3>2 DEF RenderingInv
  <2>2. CASE RenderingNext
    BY <2>2, HostStep, OutsideStep, RenderStartsStep, RenderEndsStep, InputStagedStep,
       ProfileRenderedStep, StagingDoneStep DEF RenderingNext, RenderCancelled
  <2> QED
    BY <2>1, <2>2
<1> QED
  BY <1>1, RenderingStarts, PTL DEF RenderingSpec

\* A rendered batch has every profile, and each was made from exactly the bytes
\* its reviewers approved.
THEOREM OutputsAreOfTheApprovedAlways == RenderingSpec => []OutputsAreOfTheApproved
<1>1. RenderingInv => OutputsAreOfTheApproved
  BY DEF RenderingInv
<1> QED
  BY <1>1, RenderingInvariance, PTL

\* No snapshot holds a host video of an earlier synthesis.
THEOREM HostVideosAreOfThisRunAlways == RenderingSpec => []HostVideosAreOfThisRun
<1>1. RenderingInv => HostVideosAreOfThisRun
  BY DEF RenderingInv
<1> QED
  BY <1>1, RenderingInvariance, PTL

-----------------------------------------------------------------------------
(* SourceCollection: the evidence of a run and the cadence of a source *)

CallSteps == {"idle", "cooling", "queued", "starting", "listing", "fetching", "finished",
              "raised"}
Outcomes == {"none", "disabled", "unconfigured", "unauthorized", "failed", "partial",
             "succeeded", "stopped_captcha", "stopped_access_challenge"}
MaybeSource == Sources \cup {NoSource}
PageKinds == {"discover", "item"}
Codes == {"disabled", "unconfigured", "unauthorized", "invalid_collection_limit",
          "oauth_unreachable", "oauth_rejected", "oauth_contract_invalid",
          "api_unreachable", "api_http_error", "api_contract_invalid",
          "item_contract_invalid", "source_returned_no_items", "story_links_not_found",
          "public_page_fetch_failed", "public_page_url_rejected",
          "public_page_host_rejected", "captcha_detected", "access_challenge_detected"}
Call == [source : MaybeSource, step : CallSteps, page : PageKinds, layer : Nat, left : Nat,
         items : Nat, failures : Nat, errors : SUBSET Codes, outcome : Outcomes,
         mapped : BOOLEAN]

\* What is lost when a collection raises.
LostFairly(r) ==
    IF r.source \in PageSources THEN r.items = 0
    ELSE r.items > RunCap \/ r.failures > RunCap

\* What a collection has found fits what is still to come, and what it has found
\* is lost only when that is too much, or nothing. A page collection has found
\* nothing before a page reached the mapper.
CallOK(r) ==
    /\ r.step = "idle" <=> r.source = NoSource
    /\ r.step \notin {"finished", "raised"} => r.outcome = "none"
    /\ r.step \notin {"fetching", "finished", "raised"} =>
          r.items = 0 /\ r.failures = 0 /\ r.errors = {}
    /\ r.step = "listing" => r.source \notin PageSources
    /\ r.step = "fetching" =>
          /\ r.source \in PageSources
          /\ r.page = "item" /\ r.items > 0 => r.mapped
          /\ r.errors = {} => r.failures = 0
          /\ IF r.page = "discover" THEN r.items = 0 /\ r.failures = 0
             ELSE r.left > 0 /\ r.items + r.failures + r.left <= MaxCandidates
    /\ r.step = "raised" => LostFairly(r)

Working(r) == r.step \notin {"idle", "cooling", "queued"}

\* One caller has the lock of a source; one that waits for a slot has waited
\* long enough; nobody collected the source since its last completion.
CollectionInv ==
    /\ collection \in [Callers -> Call]
    /\ \A c \in Callers : CallOK(collection[c])
    /\ since \in [Sources -> Nat] /\ quiet \in [Sources -> Nat]
    /\ \A c, d \in Callers : c # d /\ collection[c].source # NoSource =>
                                collection[c].source # collection[d].source
    /\ \A c \in Callers : collection[c].step = "queued" =>
                             since[collection[c].source] >= Interval
    /\ \A s \in Sources : ~Collected(s) => quiet[s] >= since[s]

\* A source is being collected when a caller works on it.
LEMMA CollectedFacts ==
    ASSUME NEW s
    PROVE  Collected(s) <=> \E c \in Callers : Working(collection[c]) /\ collection[c].source = s
BY DEF Collected, OnNetwork, Working

\* A caller at rest.
LEMMA NoCallFacts ==
    /\ NoCall \in Call /\ CallOK(NoCall) /\ ~Working(NoCall) /\ NoCall.step = "idle"
    /\ NoCall.source = NoSource
BY DEF NoCall, Call, CallSteps, PageKinds, Outcomes, MaybeSource, CallOK, Working, LostFairly

\* The run that is built.
LEMMA RunOfFacts ==
    ASSUME NEW r \in Call, NEW outcome \in Outcomes
    PROVE  LET f == RunOf(r, outcome)
           IN  /\ f \in Call /\ f.step = "finished" /\ f.source = r.source
               /\ f.items = r.items /\ f.failures = r.failures /\ f.errors = r.errors
               /\ outcome # "none" => f.outcome = outcome
               /\ outcome = "none" =>
                     f.outcome = IF r.items = 0 THEN "failed"
                                 ELSE IF r.errors # {} THEN "partial" ELSE "succeeded"
<1> DEFINE o == IF outcome # "none" THEN outcome
                ELSE IF r.items = 0 THEN "failed"
                ELSE IF r.errors # {} THEN "partial" ELSE "succeeded"
           r1 == [r EXCEPT !.step = "finished"]
           r2 == [r1 EXCEPT !.outcome = o]
<1>1. /\ outcome # "none" => o = outcome
      /\ outcome = "none" => o = IF r.items = 0 THEN "failed"
                                 ELSE IF r.errors # {} THEN "partial" ELSE "succeeded"
  OBVIOUS
<1>2. RunOf(r, outcome) = r2
  BY DEF RunOf, Call
<1>3. o \in Outcomes
  BY <1>1 DEF Outcomes
<1> HIDE DEF o
<1>4. /\ r1 \in Call /\ r1.step = "finished" /\ r1.source = r.source
      /\ r1.items = r.items /\ r1.failures = r.failures /\ r1.errors = r.errors
  BY DEF Call, CallSteps
<1> HIDE DEF r1
<1>5. /\ r2 \in Call /\ r2.step = r1.step /\ r2.source = r1.source
      /\ r2.items = r1.items /\ r2.failures = r1.failures /\ r2.errors = r1.errors
      /\ r2.outcome = o
  BY <1>3, <1>4 DEF Call
<1> HIDE DEF r2
<1> QED
  BY <1>1, <1>2, <1>4, <1>5

\* A run that is refused raises with what had been found.
LEMMA RaisedFacts ==
    ASSUME NEW r \in Call
    PROVE  LET f == Raised(r)
           IN  /\ f \in Call /\ f.step = "raised" /\ f.source = r.source
               /\ f.items = r.items /\ f.failures = r.failures
BY DEF Raised, Call, CallSteps

\* What recording an error makes of a run.
LEMMA WithErrorFacts ==
    ASSUME NEW r \in Call, NEW code \in Codes
    PROVE  LET e == WithError(r, code)
           IN  /\ e \in Call /\ e.step = r.step /\ e.source = r.source /\ e.page = r.page
               /\ e.left = r.left /\ e.items = r.items /\ e.outcome = r.outcome
               /\ e.mapped = r.mapped /\ e.failures = r.failures + 1
               /\ e.errors = r.errors \cup {code} /\ e.errors # {} /\ code \in e.errors
<1> DEFINE r1 == [r EXCEPT !.errors = r.errors \cup {code}]
           r2 == [r1 EXCEPT !.failures = r.failures + 1]
<1>1. WithError(r, code) = r2
  BY DEF WithError, Call
<1>2. r.errors \cup {code} \in SUBSET Codes /\ r.failures + 1 \in Nat
  BY DEF Call
<1>3. /\ r1 \in Call /\ r1.step = r.step /\ r1.source = r.source /\ r1.page = r.page
      /\ r1.left = r.left /\ r1.items = r.items /\ r1.outcome = r.outcome
      /\ r1.mapped = r.mapped /\ r1.errors = r.errors \cup {code}
  BY <1>2 DEF Call
<1> HIDE DEF r1
<1>4. /\ r2 \in Call /\ r2.step = r1.step /\ r2.source = r1.source /\ r2.page = r1.page
      /\ r2.left = r1.left /\ r2.items = r1.items /\ r2.outcome = r1.outcome
      /\ r2.mapped = r1.mapped /\ r2.errors = r1.errors /\ r2.failures = r.failures + 1
  BY <1>2, <1>3 DEF Call
<1> HIDE DEF r2
<1> QED
  BY <1>1, <1>3, <1>4

\* A record that has finished and is good: the end of a collection.
Good(r, f) ==
    f \in Call /\ CallOK(f) /\ Working(f) /\ f.source = r.source /\ f.step # "queued"

\* The end of a collection with a run that its model accepts.
LEMMA AcceptedIsGood ==
    ASSUME NEW r \in Call, NEW outcome \in Outcomes, r.source # NoSource,
           ValidRun(RunOf(r, outcome))
    PROVE  Good(r, Finished(r, outcome))
<1> DEFINE f == RunOf(r, outcome)
<1>1. f \in Call /\ f.step = "finished" /\ f.source = r.source
  BY RunOfFacts
<1>2. Finished(r, outcome) = f
  BY DEF Finished
<1> HIDE DEF f
<1>3. CallOK(f) /\ Working(f)
  BY <1>1 DEF CallOK, Working
<1> QED
  BY <1>1, <1>2, <1>3 DEF Good

\* A run that ends with an error, whatever it has found.
LEMMA ErrorIsGood ==
    ASSUME NEW r \in Call, NEW code \in Codes, r.items <= RunCap, r.failures < RunCap,
           r.source # NoSource
    PROVE  Good(r, Finished(WithError(r, code), "none"))
<1> DEFINE e == WithError(r, code)
           f == RunOf(e, "none")
<1>1. /\ e \in Call /\ e.source = r.source /\ e.items = r.items /\ e.errors # {}
      /\ e.failures = r.failures + 1
  BY WithErrorFacts
<1> HIDE DEF e
<1>2. /\ f \in Call /\ f.items = e.items /\ f.errors = e.errors /\ f.failures = e.failures
      /\ f.outcome = IF e.items = 0 THEN "failed"
                     ELSE IF e.errors # {} THEN "partial" ELSE "succeeded"
  BY <1>1, RunOfFacts DEF Outcomes
<1> HIDE DEF f
<1>3. e.items \in Nat /\ e.failures <= RunCap
  BY <1>1, LimitAssumption DEF Call
<1>4. ValidRun(f)
  BY <1>1, <1>2, <1>3 DEF ValidRun
<1>5. Good(e, Finished(e, "none"))
  BY <1>1, <1>4, AcceptedIsGood DEF f, Outcomes
<1> QED
  BY <1>1, <1>5 DEF Good, e

\* A run that names why it stopped.
LEMMA StopIsGood ==
    ASSUME NEW r \in Call, NEW code \in Codes, NEW outcome \in Outcomes,
           r.items <= RunCap, r.failures < RunCap, r.source # NoSource,
           \/ outcome \in {"disabled", "unconfigured", "unauthorized"} /\ r.items = 0
           \/ outcome = "stopped_captcha" /\ code = "captcha_detected"
           \/ outcome = "stopped_access_challenge" /\ code = "access_challenge_detected"
    PROVE  Good(r, Finished(WithError(r, code), outcome))
<1> DEFINE e == WithError(r, code)
           f == RunOf(e, outcome)
<1>1. /\ e \in Call /\ e.source = r.source /\ e.items = r.items /\ e.errors # {}
      /\ code \in e.errors /\ e.failures = r.failures + 1
  BY WithErrorFacts
<1> HIDE DEF e
<1>2. /\ f \in Call /\ f.items = e.items /\ f.errors = e.errors /\ f.failures = e.failures
      /\ f.outcome = outcome
  BY <1>1, RunOfFacts
<1> HIDE DEF f
<1>3. e.failures <= RunCap
  BY <1>1, LimitAssumption DEF Call
<1>4. ValidRun(f)
  BY <1>1, <1>2, <1>3 DEF ValidRun
<1>5. Good(e, Finished(e, outcome))
  BY <1>1, <1>4, AcceptedIsGood DEF f
<1> QED
  BY <1>1, <1>5 DEF Good, e

\* A run that ends with what it has found, when it may hold that.
LEMMA EndIsGood ==
    ASSUME NEW r \in Call, r.items <= RunCap, r.failures <= RunCap, r.source # NoSource,
           r.errors = {} => r.failures = 0
    PROVE  Good(r, FinishedWithItems(r))
<1>1. CASE r.items = 0 /\ r.errors = {}
  <2>1. FinishedWithItems(r) = Finished(WithError(r, "source_returned_no_items"), "none")
    BY <1>1 DEF FinishedWithItems
  <2>2. "source_returned_no_items" \in Codes
    BY DEF Codes
  <2>3. r.failures < RunCap
    BY <1>1, LimitAssumption
  <2> QED
    BY <2>1, <2>2, <2>3, ErrorIsGood
<1>2. CASE ~(r.items = 0 /\ r.errors = {})
  <2> DEFINE f == RunOf(r, "none")
  <2>1. FinishedWithItems(r) = Finished(r, "none")
    BY <1>2 DEF FinishedWithItems
  <2>2. /\ f.items = r.items /\ f.errors = r.errors /\ f.failures = r.failures
        /\ f.outcome = IF r.items = 0 THEN "failed"
                       ELSE IF r.errors # {} THEN "partial" ELSE "succeeded"
    BY RunOfFacts DEF Outcomes
  <2> HIDE DEF f
  <2>3. r.items \in Nat
    BY DEF Call
  <2>4. ValidRun(f)
    BY <1>2, <2>2, <2>3 DEF ValidRun
  <2> QED
    BY <2>1, <2>4, AcceptedIsGood DEF f, Outcomes
<1> QED
  BY <1>1, <1>2

\* A listing that is more than a run may hold is lost.
LEMMA TooMuchIsGood ==
    ASSUME NEW r \in Call, r.items > RunCap \/ r.failures > RunCap,
           r.source # NoSource, r.source \notin PageSources
    PROVE  Good(r, FinishedWithItems(r))
<1>1. r.items \in Nat /\ r.failures \in Nat /\ RunCap \in Nat
  BY LimitAssumption DEF Call
<1> DEFINE e == IF r.items = 0 /\ r.errors = {}
                THEN WithError(r, "source_returned_no_items") ELSE r
           f == RunOf(e, "none")
<1>2. "source_returned_no_items" \in Codes
  BY DEF Codes
<1>3. /\ e \in Call /\ e.source = r.source /\ e.items = r.items
      /\ e.failures \in {r.failures, r.failures + 1}
  BY <1>2, WithErrorFacts
<1>4. FinishedWithItems(r) = Finished(e, "none")
  BY DEF FinishedWithItems
<1> HIDE DEF e
<1>5. e.items > RunCap \/ e.failures > RunCap
  BY <1>1, <1>3
<1>6. /\ f \in Call /\ f.items = e.items /\ f.failures = e.failures /\ f.source = e.source
  BY <1>3, RunOfFacts DEF Outcomes
<1> HIDE DEF f
<1>7. ~ValidRun(f)
  <2>1. e.items \in Nat /\ e.failures \in Nat
    BY <1>3 DEF Call
  <2> QED
    BY <1>1, <1>5, <1>6, <2>1 DEF ValidRun
<1>8. Finished(e, "none") = Raised(e)
  BY <1>7 DEF Finished, f
<1> DEFINE g == Raised(e)
<1>9. /\ g \in Call /\ g.step = "raised" /\ g.source = r.source /\ g.items = e.items
      /\ g.failures = e.failures
  BY <1>3, RaisedFacts
<1> HIDE DEF g
<1>10. CallOK(g) /\ Working(g)
  BY <1>5, <1>9 DEF CallOK, LostFairly, Working
<1>11. Good(r, g)
  BY <1>9, <1>10 DEF Good
<1> QED
  BY <1>4, <1>8, <1>11 DEF g

\* The next page of a run: there is room for what it may still find.
LEMMA PageIsGood ==
    ASSUME NEW r \in Call, NEW page \in PageKinds, NEW rest \in Nat,
           r.source # NoSource, r.source \in PageSources, r.outcome = "none",
           r.items > 0 => r.mapped, r.errors = {} => r.failures = 0,
           IF page = "discover" THEN r.items = 0 /\ r.failures = 0
           ELSE rest > 0 /\ r.items + r.failures + rest <= MaxCandidates
    PROVE  Good(r, Page(r, page, rest))
<1> DEFINE r1 == [r EXCEPT !.step = "fetching", !.page = page]
           r2 == [r1 EXCEPT !.left = rest, !.layer = 1]
<1>1. Page(r, page, rest) = r2
  BY DEF Page, Call
<1>2. /\ r1 \in Call /\ r1.step = "fetching" /\ r1.page = page /\ r1.source = r.source
      /\ r1.items = r.items /\ r1.outcome = r.outcome /\ r1.failures = r.failures
      /\ r1.mapped = r.mapped /\ r1.errors = r.errors
  BY DEF Call, CallSteps
<1> HIDE DEF r1
<1>3. /\ r2 \in Call /\ r2.step = "fetching" /\ r2.page = page /\ r2.source = r.source
      /\ r2.items = r.items /\ r2.outcome = r.outcome /\ r2.left = rest
      /\ r2.failures = r.failures /\ r2.mapped = r.mapped /\ r2.errors = r.errors
  BY <1>2 DEF Call
<1> HIDE DEF r2
<1>4. CallOK(r2) /\ Working(r2)
  BY <1>3 DEF CallOK, Working
<1> QED
  BY <1>1, <1>3, <1>4 DEF Good

\* When a story page is done with there is another, or the run ends.
LEMMA NextIsGood ==
    ASSUME NEW r \in Call, r.source # NoSource, r.source \in PageSources, r.outcome = "none",
           r.page = "item", r.items > 0 => r.mapped, r.errors = {} => r.failures = 0,
           r.items + r.failures <= MaxCandidates,
           r.left > 1 => r.items + r.failures + r.left <= MaxCandidates + 1
    PROVE  Good(r, NextPage(r))
<1>1. r.left \in Nat /\ r.items \in Nat /\ r.failures \in Nat
  BY DEF Call
<1>2. CASE r.left > 1
  <2>1. NextPage(r) = Page(r, "item", r.left - 1)
    BY <1>2 DEF NextPage
  <2>2. /\ r.left - 1 \in Nat /\ r.left - 1 > 0
        /\ r.items + r.failures + (r.left - 1) <= MaxCandidates
    BY <1>1, <1>2, LimitAssumption
  <2>3. "item" \in PageKinds /\ "item" # "discover"
    BY DEF PageKinds
  <2> DEFINE rest == r.left - 1
  <2> HIDE DEF rest
  <2>4. rest \in Nat /\ rest > 0 /\ r.items + r.failures + rest <= MaxCandidates
    BY <2>2 DEF rest
  <2>5. Good(r, Page(r, "item", rest))
    BY <2>3, <2>4, PageIsGood
  <2> QED
    BY <2>1, <2>5 DEF rest
<1>3. CASE ~(r.left > 1)
  <2>1. NextPage(r) = FinishedWithItems(r)
    BY <1>3 DEF NextPage
  <2>2. r.items <= RunCap /\ r.failures <= RunCap
    BY <1>1, LimitAssumption
  <2> QED
    BY <2>1, <2>2, EndIsGood
<1> QED
  BY <1>2, <1>3

\* A story page that fails ends only itself.
LEMMA ItemFailsIsGood ==
    ASSUME NEW r \in Call, CallOK(r), r.step = "fetching", r.page = "item", NEW code \in Codes
    PROVE  Good(r, NextPage(WithError(r, code)))
<1> DEFINE e == WithError(r, code)
<1>1. /\ r.left \in Nat /\ r.items \in Nat /\ r.failures \in Nat
      /\ r.source # NoSource /\ r.source \in PageSources /\ r.outcome = "none"
      /\ r.items > 0 => r.mapped
      /\ r.left > 0 /\ r.items + r.failures + r.left <= MaxCandidates
  BY DEF Call, CallOK
<1>2. /\ e \in Call /\ e.source = r.source /\ e.page = r.page /\ e.left = r.left
      /\ e.items = r.items /\ e.outcome = r.outcome /\ e.mapped = r.mapped
      /\ e.failures = r.failures + 1 /\ e.errors # {}
  BY WithErrorFacts
<1> HIDE DEF e
<1>3. /\ e.items + e.failures <= MaxCandidates
      /\ e.left > 1 => e.items + e.failures + e.left <= MaxCandidates + 1
  BY <1>1, <1>2, LimitAssumption
<1>4. Good(e, NextPage(e))
  BY <1>1, <1>2, <1>3, NextIsGood
<1> QED
  BY <1>2, <1>4 DEF Good, e

\* A page that fails ends the discovery, or only itself.
LEMMA PageFailsIsGood ==
    ASSUME NEW r \in Call, CallOK(r), r.step = "fetching", NEW code \in Codes
    PROVE  Good(r, PageFails(r, code))
<1>1. r.page \in PageKinds
  BY DEF Call
<1>2. r.source # NoSource
  BY DEF CallOK
<1>3. CASE r.page = "discover"
  <2>1. PageFails(r, code) = Finished(WithError(r, code), "none")
    BY <1>3 DEF PageFails
  <2>2. r.items <= RunCap /\ r.failures < RunCap
    BY <1>3, LimitAssumption DEF CallOK
  <2> QED
    BY <2>1, <2>2, <1>2, ErrorIsGood
<1>4. CASE r.page = "item"
  <2>1. PageFails(r, code) = NextPage(WithError(r, code))
    BY <1>4 DEF PageFails
  <2> QED
    BY <1>4, <2>1, ItemFailsIsGood
<1> QED
  BY <1>1, <1>3, <1>4 DEF PageKinds

\* A page collection that has found nothing has nothing to lose.
LEMMA RaisedIsGood ==
    ASSUME NEW r \in Call, r.source \in PageSources, r.source # NoSource, r.items = 0
    PROVE  Good(r, Raised(r))
<1> DEFINE f == Raised(r)
<1>1. f \in Call /\ f.step = "raised" /\ f.source = r.source /\ f.items = r.items
  BY RaisedFacts
<1> HIDE DEF f
<1>2. CallOK(f) /\ Working(f)
  BY <1>1 DEF CallOK, LostFairly, Working
<1> QED
  BY <1>1, <1>2 DEF Good, f

-----------------------------------------------------------------------------
(* SourceCollection: one caller moves *)

\* A step of a collection: it keeps its source, and a delegate that runs goes
\* on running.
Moves(c, r) ==
    /\ collection' = [collection EXCEPT ![c] = r]
    /\ since' = since
    /\ r \in Call /\ CallOK(r) /\ r.step # "idle" /\ r.source = collection[c].source
    /\ Working(collection[c]) => Working(r)
    /\ r.step = "queued" => since[r.source] >= Interval

\* The collection of a caller ends, and its source remembers it.
Leaves(c) ==
    /\ collection' = [collection EXCEPT ![c] = NoCall]
    /\ since' = Completion(c)

\* A step of a collection keeps the invariant.
LEMMA MoveKeeps ==
    ASSUME CollectionInv, NEW c \in Callers, NEW r, Moves(c, r), quiet' = Quiet(quiet)
    PROVE  CollectionInv'
<1> USE DEF CollectionInv
<1>1. /\ r \in Call /\ CallOK(r) /\ r.source = collection[c].source /\ r.step # "idle"
      /\ r.step = "queued" => since[r.source] >= Interval
      /\ Working(collection[c]) => Working(r)
      /\ since' = since
  BY DEF Moves
<1>2. /\ collection' \in [Callers -> Call]
      /\ collection'[c] = r
      /\ \A d \in Callers : d # c => collection'[d] = collection[d]
  BY <1>1 DEF Moves
<1>3. \A d \in Callers : CallOK(collection'[d])
  BY <1>1, <1>2
<1>4. \A d \in Callers : collection'[d].source = collection[d].source
  BY <1>1, <1>2
<1>5. \A d \in Callers : collection'[d].step = "queued" =>
                            since'[collection'[d].source] >= Interval
  BY <1>1, <1>2
<1>6. \A s \in Sources : Collected(s) => Collected(s)'
  <2> SUFFICES ASSUME NEW s \in Sources, Collected(s)
               PROVE  Collected(s)'
    OBVIOUS
  <2>1. PICK d \in Callers : Working(collection[d]) /\ collection[d].source = s
    BY CollectedFacts
  <2>2. Working(collection'[d]) /\ collection'[d].source = s
    BY <2>1, <1>1, <1>2
  <2> QED
    BY <2>2 DEF Collected, OnNetwork, Working
<1>7. \A s \in Sources : quiet'[s] = IF Collected(s) THEN 0 ELSE quiet[s]
  BY DEF Quiet
<1>8. quiet' \in [Sources -> Nat]
  BY DEF Quiet
<1>9. \A s \in Sources : ~Collected(s)' => quiet'[s] >= since'[s]
  BY <1>1, <1>6, <1>7
<1>10. \A d, e \in Callers : d # e /\ collection'[d].source # NoSource =>
                                collection'[d].source # collection'[e].source
  BY <1>4
<1>11. since' \in [Sources -> Nat]
  BY <1>1
<1> QED
  BY <1>2, <1>3, <1>5, <1>8, <1>9, <1>10, <1>11

\* The end of a collection keeps the invariant.
LEMMA LeaveKeeps ==
    ASSUME CollectionInv, NEW c \in Callers, Leaves(c), quiet' = Quiet(quiet)
    PROVE  CollectionInv'
<1> USE DEF CollectionInv
<1>1. NoCall \in Call /\ CallOK(NoCall) /\ NoCall.step = "idle" /\ NoCall.source = NoSource
  BY NoCallFacts
<1>2. /\ collection' \in [Callers -> Call]
      /\ collection'[c] = NoCall
      /\ \A d \in Callers : d # c => collection'[d] = collection[d]
  BY <1>1 DEF Leaves
<1>3. \A d \in Callers : CallOK(collection'[d])
  BY <1>1, <1>2
<1>4. /\ Working(collection[c]) => since' = [since EXCEPT ![collection[c].source] = 0]
      /\ ~Working(collection[c]) => since' = since
  BY DEF Leaves, Completion, OnNetwork, Working
<1>5. since' \in [Sources -> Nat]
  BY <1>4
<1>6. \A s \in Sources : since'[s] <= since[s]
  BY <1>4
<1>7. \A s \in Sources : s # collection[c].source => since'[s] = since[s]
  BY <1>4
<1>8. \A d \in Callers : collection[d].source \in MaybeSource
  BY DEF Call
<1>9. ASSUME NEW d \in Callers, collection'[d].step = "queued"
      PROVE  since'[collection'[d].source] >= Interval
  <2>1. d # c /\ collection'[d] = collection[d]
    BY <1>1, <1>2, <1>9
  <2>2. collection[d].source # NoSource /\ collection[d].source \in Sources
    BY <1>8, <1>9, <2>1 DEF CallOK, MaybeSource
  <2>3. collection[d].source # collection[c].source
    BY <2>1, <2>2
  <2> QED
    BY <1>7, <1>9, <2>1, <2>2, <2>3
<1>10. \A d, e \in Callers : d # e /\ collection'[d].source # NoSource =>
                                collection'[d].source # collection'[e].source
  BY <1>1, <1>2
<1>11. \A s \in Sources : quiet'[s] = IF Collected(s) THEN 0 ELSE quiet[s]
  BY DEF Quiet
<1>12. quiet' \in [Sources -> Nat]
  BY DEF Quiet
<1>13. ASSUME NEW s \in Sources, ~Collected(s)'
       PROVE  quiet'[s] >= since'[s]
  <2>1. CASE Collected(s)
    <3>1. PICK d \in Callers : Working(collection[d]) /\ collection[d].source = s
      BY <2>1, CollectedFacts
    <3>2. d = c
      <4> SUFFICES ASSUME d # c
                   PROVE  FALSE
        OBVIOUS
      <4>1. Working(collection'[d]) /\ collection'[d].source = s
        BY <1>2, <3>1
      <4> QED
        BY <1>13, <4>1 DEF Collected, OnNetwork, Working
    <3>3. since'[s] = 0
      BY <1>4, <3>1, <3>2
    <3> QED
      BY <1>11, <2>1, <3>3
  <2>2. CASE ~Collected(s)
    BY <1>5, <1>6, <1>11, <1>12, <2>2
  <2> QED
    BY <2>1, <2>2
<1> QED
  BY <1>2, <1>3, <1>5, <1>9, <1>10, <1>12, <1>13

\* What the invariant says of one caller.
LEMMA CallerFacts ==
    ASSUME CollectionInv, NEW c \in Callers
    PROVE  /\ collection[c] \in Call /\ CallOK(collection[c])
           /\ collection[c].step # "idle" => /\ collection[c].source # NoSource
                                             /\ collection[c].source \in Sources
           /\ collection[c].step \notin {"finished", "raised"} => collection[c].outcome = "none"
           /\ collection[c].step \in {"starting", "listing"} =>
                 collection[c].items = 0 /\ collection[c].failures = 0
BY DEF CollectionInv, CallOK, Call, MaybeSource

\* A caller that replaces its record by a good one moves.
LEMMA GoodMoves ==
    ASSUME CollectionInv, NEW c \in Callers, NEW r, Good(collection[c], r),
           collection[c].step # "idle", Update(c, r), since' = since
    PROVE  Moves(c, r)
BY DEF Good, Moves, Update, Working

\* The next step of a collection that has found nothing yet.
LEMMA StepMoves ==
    ASSUME CollectionInv, NEW c \in Callers, NEW step \in CallSteps,
           step \notin {"idle", "fetching", "finished", "raised"},
           collection[c].step \in {"cooling", "queued", "starting"},
           step = "listing" => collection[c].source \notin PageSources,
           Working(collection[c]) => step \notin {"cooling", "queued"},
           step = "queued" => since[collection[c].source] >= Interval,
           Update(c, [collection[c] EXCEPT !.step = step]), since' = since
    PROVE  Moves(c, [collection[c] EXCEPT !.step = step])
<1> DEFINE r == [collection[c] EXCEPT !.step = step]
<1>1. collection[c] \in Call /\ CallOK(collection[c])
  BY CallerFacts
<1>2. /\ r \in Call /\ r.step = step /\ r.source = collection[c].source
      /\ r.items = collection[c].items /\ r.errors = collection[c].errors
      /\ r.outcome = collection[c].outcome /\ r.failures = collection[c].failures
  BY <1>1 DEF Call
<1>3. collection' = [collection EXCEPT ![c] = r]
  BY DEF Update
<1> HIDE DEF r
<1>4. CallOK(r)
  BY <1>1, <1>2 DEF CallOK
<1>5. Working(collection[c]) => Working(r)
  BY <1>2 DEF Working
<1>6. Moves(c, r)
  BY <1>1, <1>2, <1>3, <1>4, <1>5 DEF Moves
<1> QED
  BY <1>6 DEF r

\* A collection begins on a source nobody has the lock of.
LEMMA BeginKeeps ==
    ASSUME CollectionInv, NEW c \in Callers, CollectBegins(c), quiet' = Quiet(quiet)
    PROVE  CollectionInv'
<1> USE DEF CollectionInv
<1>1. PICK s \in Sources : /\ ~Locked(s)
                           /\ Update(c, [NoCall EXCEPT !.source = s, !.step = "cooling"])
  BY DEF CollectBegins
<1> DEFINE r == [NoCall EXCEPT !.source = s, !.step = "cooling"]
<1>2. s \in MaybeSource /\ s # NoSource
  BY CadenceAssumption DEF MaybeSource
<1>3. /\ r \in Call /\ r.source = s /\ r.step = "cooling" /\ r.items = 0 /\ r.errors = {}
      /\ r.outcome = "none" /\ r.failures = 0
  BY <1>2 DEF NoCall, Call, CallSteps, PageKinds, Outcomes
<1>4. collection' = [collection EXCEPT ![c] = r] /\ since' = since
  BY <1>1 DEF Update, CollectBegins
<1> HIDE DEF r
<1>5. CallOK(r) /\ ~Working(r)
  BY <1>2, <1>3 DEF CallOK, Working
<1>6. /\ collection' \in [Callers -> Call]
      /\ collection'[c] = r
      /\ \A d \in Callers : d # c => collection'[d] = collection[d]
  BY <1>3, <1>4
<1>7. collection[c].step = "idle"
  BY DEF CollectBegins, AtStep
<1>8. \A d \in Callers : CallOK(collection'[d])
  BY <1>5, <1>6
<1>9. \A d \in Callers : collection[d].source # s
  BY <1>1 DEF Locked
<1>10. \A d, e \in Callers : d # e /\ collection'[d].source # NoSource =>
                                collection'[d].source # collection'[e].source
  BY <1>3, <1>6, <1>9
<1>11. \A d \in Callers : collection'[d].step = "queued" =>
                             since'[collection'[d].source] >= Interval
  BY <1>3, <1>4, <1>6
<1>12. \A x \in Sources : Collected(x) => Collected(x)'
  <2> SUFFICES ASSUME NEW x \in Sources, Collected(x)
               PROVE  Collected(x)'
    OBVIOUS
  <2>1. PICK d \in Callers : Working(collection[d]) /\ collection[d].source = x
    BY CollectedFacts
  <2>2. d # c
    BY <1>7, <2>1 DEF Working
  <2>3. Working(collection'[d]) /\ collection'[d].source = x
    BY <1>6, <2>1, <2>2
  <2> QED
    BY <2>3 DEF Collected, OnNetwork, Working
<1>13. \A x \in Sources : quiet'[x] = IF Collected(x) THEN 0 ELSE quiet[x]
  BY DEF Quiet
<1>14. quiet' \in [Sources -> Nat]
  BY DEF Quiet
<1>15. \A x \in Sources : ~Collected(x)' => quiet'[x] >= since'[x]
  BY <1>4, <1>12, <1>13
<1>16. since' \in [Sources -> Nat]
  BY <1>4
<1> QED
  BY <1>6, <1>8, <1>10, <1>11, <1>14, <1>15, <1>16

\* Time passes: no wait becomes shorter, and no silence.
LEMMA TickKeeps ==
    ASSUME CollectionInv, Tick
    PROVE  CollectionInv'
<1> USE DEF CollectionInv
<1>0. Interval \in Nat
  BY CadenceAssumption
<1>1. /\ since' = Older(since) /\ quiet' = Quiet(Older(quiet)) /\ collection' = collection
  BY DEF Tick
<1>2. /\ Older(since) \in [Sources -> Nat] /\ Older(quiet) \in [Sources -> Nat]
  BY <1>0 DEF Older
<1>3. \A s \in Sources : since[s] >= Interval => Older(since)[s] >= Interval
  BY <1>0 DEF Older
<1>4. \A s \in Sources : quiet[s] >= since[s] => Older(quiet)[s] >= Older(since)[s]
  BY <1>0 DEF Older
<1>5. \A s \in Sources : quiet'[s] = IF Collected(s) THEN 0 ELSE Older(quiet)[s]
  BY <1>1 DEF Quiet
<1>6. quiet' \in [Sources -> Nat]
  BY <1>1, <1>2 DEF Quiet
<1>7. \A s \in Sources : Collected(s)' <=> Collected(s)
  BY <1>1 DEF Collected, OnNetwork
<1>8. \A s \in Sources : ~Collected(s)' => quiet'[s] >= since'[s]
  BY <1>1, <1>4, <1>5, <1>7
<1>9. \A c \in Callers : collection[c].step = "queued" => collection[c].source \in Sources
  BY CallerFacts
<1>10. \A c \in Callers : collection'[c].step = "queued" =>
                             since'[collection'[c].source] >= Interval
  BY <1>1, <1>3, <1>9
<1> QED
  BY <1>1, <1>2, <1>6, <1>8, <1>10

\* The steps of a collector before the pages: every one of them is a move.
LEMMA CollectorMoves ==
    ASSUME CollectionInv, NEW c \in Callers,
           \/ CooldownEnds(c) \/ SlotTaken(c) \/ Unready(c) \/ LimitRejected(c)
           \/ TokenFound(c) \/ TokenRequested(c) \/ KeyUsed(c)
           \/ ListingFails(c) \/ ListingMapped(c)
    PROVE  \E r : Moves(c, r)
<1> USE DEF AtStep
<1> DEFINE m == collection[c]
<1>1. /\ m \in Call /\ CallOK(m)
      /\ m.step # "idle" => m.source # NoSource
      /\ m.step \notin {"finished", "raised"} => m.outcome = "none"
      /\ m.step \in {"starting", "listing"} => m.items = 0 /\ m.failures = 0
  BY CallerFacts
<1>2. ASSUME m.step \in {"starting", "listing"}
      PROVE  m.items <= RunCap /\ m.failures < RunCap /\ m.source # NoSource
  BY <1>1, <1>2, LimitAssumption
<1>3. ASSUME NEW code \in Codes, m.step \in {"starting", "listing"}, since' = since,
             Update(c, Finished(WithError(m, code), "none"))
      PROVE  \E r : Moves(c, r)
  <2>1. Good(m, Finished(WithError(m, code), "none"))
    BY <1>1, <1>2, <1>3, ErrorIsGood
  <2> QED
    BY <1>1, <1>3, <2>1, GoodMoves
<1>4. CASE CooldownEnds(c)
  <2>1. "queued" \in CallSteps
    BY DEF CallSteps
  <2>2. /\ m.step = "cooling" /\ since[m.source] >= Interval /\ since' = since
        /\ Update(c, [m EXCEPT !.step = "queued"])
    BY <1>4 DEF CooldownEnds
  <2>3. ~Working(m)
    BY <2>2 DEF Working
  <2>4. Moves(c, [m EXCEPT !.step = "queued"])
    BY <2>1, <2>2, <2>3, StepMoves
  <2> QED
    BY <2>4
<1>5. CASE SlotTaken(c)
  <2>1. "starting" \in CallSteps
    BY DEF CallSteps
  <2>2. m.step = "queued" /\ since' = since /\ Update(c, [m EXCEPT !.step = "starting"])
    BY <1>5 DEF SlotTaken
  <2>3. Moves(c, [m EXCEPT !.step = "starting"])
    BY <2>1, <2>2, StepMoves
  <2> QED
    BY <2>3
<1>6. CASE Unready(c)
  <2>1. PICK state \in {"disabled", "unconfigured", "unauthorized"} :
            Update(c, Finished(WithError(m, state), state))
    BY <1>6 DEF Unready
  <2>2. m.step = "starting" /\ since' = since
    BY <1>6 DEF Unready
  <2>3. state \in Codes /\ state \in Outcomes
    BY DEF Codes, Outcomes
  <2>4. Good(m, Finished(WithError(m, state), state))
    BY <1>1, <1>2, <2>2, <2>3, StopIsGood
  <2> QED
    BY <2>1, <2>2, <2>4, GoodMoves
<1>7. CASE LimitRejected(c)
  <2>1. "invalid_collection_limit" \in Codes
    BY DEF Codes
  <2> QED
    BY <1>3, <1>7, <2>1 DEF LimitRejected
<1>8. CASE TokenFound(c) \/ KeyUsed(c)
  <2>1. "listing" \in CallSteps
    BY DEF CallSteps
  <2>2. /\ m.step = "starting" /\ since' = since /\ Update(c, [m EXCEPT !.step = "listing"])
        /\ m.source \notin PageSources
    BY <1>8, KindAssumption DEF TokenFound, KeyUsed
  <2>3. Moves(c, [m EXCEPT !.step = "listing"])
    BY <2>1, <2>2, StepMoves
  <2> QED
    BY <2>3
<1>9. CASE TokenRequested(c)
  <2>1. m.step = "starting" /\ since' = since /\ m.source \notin PageSources
    BY <1>9, KindAssumption DEF TokenRequested
  <2>2. CASE Update(c, [m EXCEPT !.step = "listing"])
    <3>1. "listing" \in CallSteps
      BY DEF CallSteps
    <3>2. Moves(c, [m EXCEPT !.step = "listing"])
      BY <2>1, <2>2, <3>1, StepMoves
    <3> QED
      BY <3>2
  <2>3. CASE \E code \in {"oauth_unreachable", "oauth_rejected", "oauth_contract_invalid"} :
                Update(c, Finished(WithError(m, code), "none"))
    <3>1. PICK code \in {"oauth_unreachable", "oauth_rejected", "oauth_contract_invalid"} :
              Update(c, Finished(WithError(m, code), "none"))
      BY <2>3
    <3>2. code \in Codes
      BY DEF Codes
    <3> QED
      BY <1>3, <2>1, <3>1, <3>2
  <2> QED
    BY <1>9, <2>2, <2>3 DEF TokenRequested
<1>10. CASE ListingFails(c)
  <2>1. PICK code \in {"api_unreachable", "api_http_error", "api_contract_invalid"} :
            Update(c, Finished(WithError(m, code), "none"))
    BY <1>10 DEF ListingFails
  <2>2. code \in Codes
    BY DEF Codes
  <2> QED
    BY <1>3, <1>10, <2>1, <2>2 DEF ListingFails
<1>11. CASE ListingMapped(c)
  <2>1. m.step = "listing" /\ since' = since /\ m.source \notin PageSources
    BY <1>1, <1>11 DEF ListingMapped, CallOK
  <2>2. PICK good \in 0..MaxListed, bad \in 0..MaxListed :
          Update(c, FinishedWithItems(
              [m EXCEPT !.items = good, !.failures = bad,
                        !.errors = IF bad > 0 THEN {"item_contract_invalid"} ELSE {}]))
    BY <1>11 DEF ListingMapped
  <2> DEFINE codes == IF bad > 0 THEN {"item_contract_invalid"} ELSE {}
             r1 == [m EXCEPT !.items = good]
             r2 == [r1 EXCEPT !.failures = bad]
             r3 == [r2 EXCEPT !.errors = codes]
  <2>3. good \in Nat /\ bad \in Nat
    BY <2>2, LimitAssumption
  <2>4. codes \in SUBSET Codes /\ (codes = {} => bad = 0)
    BY <2>3 DEF Codes
  <2>5. Update(c, FinishedWithItems(r3))
    BY <1>1, <2>2 DEF Call
  <2> HIDE DEF codes
  <2>6. r1 \in Call /\ r1.items = good /\ r1.source = m.source
    BY <1>1, <2>3 DEF Call
  <2> HIDE DEF r1
  <2>7. r2 \in Call /\ r2.items = good /\ r2.source = m.source /\ r2.failures = bad
    BY <2>3, <2>6 DEF Call
  <2> HIDE DEF r2
  <2>8. /\ r3 \in Call /\ r3.items = good /\ r3.source = m.source /\ r3.failures = bad
        /\ r3.errors = codes
    BY <2>4, <2>7 DEF Call
  <2> HIDE DEF r3
  <2>9. Good(r3, FinishedWithItems(r3))
    <3>1. CASE good <= RunCap /\ bad <= RunCap
      BY <1>2, <2>1, <2>4, <2>8, <3>1, EndIsGood
    <3>2. CASE ~(good <= RunCap /\ bad <= RunCap)
      <4>1. r3.items > RunCap \/ r3.failures > RunCap
        BY <2>3, <2>8, <3>2, LimitAssumption
      <4> QED
        BY <1>2, <2>1, <2>8, <4>1, TooMuchIsGood
    <3> QED
      BY <3>1, <3>2
  <2>10. Good(m, FinishedWithItems(r3))
    BY <2>8, <2>9 DEF Good
  <2> QED
    BY <2>1, <2>5, <2>10, GoodMoves
<1> QED
  BY <1>4, <1>5, <1>6, <1>7, <1>8, <1>9, <1>10, <1>11

\* The steps of a page collector: every one of them is a move.
LEMMA PageMoves ==
    ASSUME CollectionInv, NEW c \in Callers, Pages(c)
    PROVE  \E r : Moves(c, r)
<1> USE DEF AtStep
<1> DEFINE m == collection[c]
<1>1. /\ m \in Call /\ CallOK(m)
      /\ m.step # "idle" => m.source # NoSource
      /\ m.step \notin {"finished", "raised"} => m.outcome = "none"
      /\ m.step \in {"starting", "listing"} => m.items = 0 /\ m.failures = 0
  BY CallerFacts
<1>2. /\ m.items \in Nat /\ m.left \in Nat /\ m.page \in PageKinds /\ m.layer \in Nat
      /\ m.failures \in Nat
  BY <1>1 DEF Call
<1>3. m.step \in {"starting", "fetching"} =>
          m.items <= RunCap /\ m.failures < RunCap /\ m.source # NoSource
  BY <1>1, <1>2, LimitAssumption DEF CallOK, PageKinds
<1>4. ASSUME m.step \in {"starting", "fetching"}, since' = since, NEW r, Good(m, r),
             Update(c, r)
      PROVE  \E s : Moves(c, s)
  <2>1. Moves(c, r)
    BY <1>4, GoodMoves
  <2> QED
    BY <2>1
<1>5. ASSUME NEW code \in Codes, m.step = "fetching", since' = since,
             Update(c, PageFails(m, code))
      PROVE  \E r : Moves(c, r)
  <2>1. Good(m, PageFails(m, code))
    BY <1>1, <1>5, PageFailsIsGood
  <2> QED
    BY <1>4, <1>5, <2>1
<1>6. CASE DiscoverBegins(c)
  <2>1. /\ m.step = "starting" /\ since' = since /\ m.source \in PageSources
        /\ Update(c, Page(m, "item", 1)) \/ Update(c, Page(m, "discover", 0))
    BY <1>6 DEF DiscoverBegins
  <2>2. Good(m, Page(m, "item", 1)) /\ Good(m, Page(m, "discover", 0))
    BY <1>1, <2>1, LimitAssumption, PageIsGood DEF PageKinds
  <2> QED
    BY <1>4, <2>1, <2>2
<1>7. CASE LayerFails(c)
  <2> DEFINE r == [m EXCEPT !.layer = m.layer + 1]
  <2>1. m.step = "fetching" /\ since' = since /\ Update(c, r)
    BY <1>7 DEF LayerFails
  <2>2. /\ r \in Call /\ r.step = m.step /\ r.source = m.source /\ r.page = m.page
        /\ r.left = m.left /\ r.items = m.items /\ r.outcome = m.outcome
        /\ r.failures = m.failures /\ r.mapped = m.mapped /\ r.errors = m.errors
    BY <1>1, <1>2 DEF Call
  <2> HIDE DEF r
  <2>3. CallOK(r) /\ Working(r) /\ r.step # "queued"
    BY <1>1, <2>1, <2>2 DEF CallOK, Working
  <2>4. Good(m, r)
    BY <2>2, <2>3 DEF Good
  <2> QED
    BY <1>4, <2>1, <2>4
<1>8. CASE EveryLayerFailed(c) \/ AccessRefused(c)
  <2>1. m.step = "fetching" /\ since' = since
    BY <1>8 DEF EveryLayerFailed, AccessRefused
  <2>2. \/ Update(c, Finished(WithError(m, "access_challenge_detected"),
                              "stopped_access_challenge"))
        \/ Update(c, PageFails(m, "public_page_fetch_failed"))
    BY <1>8 DEF EveryLayerFailed, AccessRefused
  <2>3. /\ "access_challenge_detected" \in Codes /\ "public_page_fetch_failed" \in Codes
        /\ "stopped_access_challenge" \in Outcomes
    BY DEF Codes, Outcomes
  <2>4. Good(m, Finished(WithError(m, "access_challenge_detected"),
                         "stopped_access_challenge"))
    BY <1>1, <1>3, <2>1, <2>3, StopIsGood
  <2> QED
    BY <1>4, <1>5, <2>1, <2>2, <2>3, <2>4
<1>9. CASE PolicyRejects(c) \/ HostRejected(c)
  <2>1. "public_page_url_rejected" \in Codes /\ "public_page_host_rejected" \in Codes
    BY DEF Codes
  <2> QED
    BY <1>5, <1>9, <2>1 DEF PolicyRejects, HostRejected
<1>10. CASE CaptchaDetected(c)
  <2>1. m.step = "fetching" /\ since' = since /\ Update(c, CaptchaStops(m))
    BY <1>10 DEF CaptchaDetected
  <2>2. "captcha_detected" \in Codes /\ "stopped_captcha" \in Outcomes
    BY DEF Codes, Outcomes
  <2>3. Good(m, CaptchaStops(m))
    BY <1>1, <1>3, <2>1, <2>2, StopIsGood DEF CaptchaStops
  <2> QED
    BY <1>4, <2>1, <2>3
<1>11. CASE IndexRead(c)
  <2>1. PICK n \in 0..MaxCandidates :
            Update(c, IF n = 0 THEN PageFails(m, "story_links_not_found")
                      ELSE Page(m, "item", n))
    BY <1>11 DEF IndexRead
  <2>2. m.step = "fetching" /\ since' = since /\ m.page = "discover"
    BY <1>11 DEF IndexRead
  <2>3. CASE n = 0
    <3>1. "story_links_not_found" \in Codes
      BY DEF Codes
    <3> QED
      BY <1>5, <2>1, <2>2, <2>3, <3>1
  <2>4. CASE n # 0
    <3>1. Update(c, Page(m, "item", n))
      BY <2>1, <2>4
    <3>2. /\ n \in Nat /\ n > 0 /\ n <= MaxCandidates /\ m.items = 0 /\ m.failures = 0
          /\ m.source \in PageSources
      BY <1>1, <2>2, <2>4, LimitAssumption DEF CallOK
    <3>3. "item" \in PageKinds /\ "item" # "discover"
      BY DEF PageKinds
    <3>4. m.source # NoSource /\ m.outcome = "none" /\ m.items + m.failures + n <= MaxCandidates
      BY <1>1, <2>2, <3>2
    <3>5. Good(m, Page(m, "item", n))
      BY <1>1, <3>2, <3>3, <3>4, PageIsGood
    <3> QED
      BY <1>4, <2>2, <3>1, <3>5
  <2> QED
    BY <2>3, <2>4
<1>12. CASE StoryRead(c)
  <2> DEFINE r == [m EXCEPT !.mapped = TRUE]
             one == [r EXCEPT !.items = r.items + 1]
             bad == WithError(r, "item_contract_invalid")
  <2>1. /\ m.step = "fetching" /\ since' = since /\ m.page = "item"
        /\ m.outcome = "none" /\ m.source # NoSource /\ m.source \in PageSources
        /\ m.left > 0 /\ m.items + m.failures + m.left <= MaxCandidates
    BY <1>1, <1>12 DEF StoryRead, CallOK
  <2>2. Update(c, NextPage(one)) \/ Update(c, NextPage(bad))
    BY <1>12 DEF StoryRead
  <2>3. /\ r \in Call /\ r.items = m.items /\ r.page = "item" /\ r.left = m.left /\ r.mapped
        /\ r.source = m.source /\ r.outcome = "none" /\ r.failures = m.failures
        /\ r.step = m.step /\ r.errors = m.errors
    BY <1>1, <2>1 DEF Call
  <2> HIDE DEF r
  <2>4. /\ one \in Call /\ one.items = m.items + 1 /\ one.page = "item" /\ one.left = m.left
        /\ one.source = m.source /\ one.outcome = "none" /\ one.failures = m.failures
        /\ one.mapped /\ one.errors = r.errors
    BY <1>2, <2>3 DEF Call
  <2>5. "item_contract_invalid" \in Codes
    BY DEF Codes
  <2>6. CallOK(r)
    BY <1>1, <2>1, <2>3 DEF CallOK
  <2>7. Good(r, NextPage(bad))
    BY <2>1, <2>3, <2>5, <2>6, ItemFailsIsGood
  <2> HIDE DEF one, bad
  <2>8. Good(one, NextPage(one))
    <3>1. /\ one.items + one.failures <= MaxCandidates
          /\ one.left > 1 => one.items + one.failures + one.left <= MaxCandidates + 1
      BY <1>2, <2>1, <2>4, LimitAssumption
    <3>2. one.errors = {} => one.failures = 0
      BY <1>1, <2>1, <2>3, <2>4 DEF CallOK
    <3> QED
      BY <2>1, <2>4, <3>1, <3>2, NextIsGood
  <2>9. Good(m, NextPage(one)) /\ Good(m, NextPage(bad))
    BY <2>3, <2>4, <2>7, <2>8 DEF Good
  <2> QED
    BY <1>4, <2>1, <2>2, <2>9
<1>13. CASE AddressRefused(c)
  <2>1. /\ m.step = "fetching" /\ since' = since /\ m.source # NoSource
        /\ m.source \in PageSources /\ m.page \in PageKinds
    BY <1>1, <1>2, <1>13 DEF AddressRefused, CallOK
  <2>2. CASE m.page = "item" /\ m.mapped
    <3>1. "item_contract_invalid" \in Codes
      BY DEF Codes
    <3>2. Update(c, NextPage(WithError(m, "item_contract_invalid")))
      BY <1>13, <2>2 DEF AddressRefused
    <3>3. Good(m, NextPage(WithError(m, "item_contract_invalid")))
      BY <1>1, <2>1, <2>2, <3>1, ItemFailsIsGood
    <3> QED
      BY <1>4, <2>1, <3>2, <3>3
  <2>3. CASE ~(m.page = "item" /\ m.mapped)
    <3>1. Update(c, Raised(m))
      BY <1>13, <2>3 DEF AddressRefused
    <3>2. m.items = 0
      BY <1>1, <1>2, <2>1, <2>3 DEF CallOK, PageKinds
    <3>3. Good(m, Raised(m))
      BY <1>1, <2>1, <3>2, RaisedIsGood
    <3> QED
      BY <1>4, <2>1, <3>1, <3>3
  <2> QED
    BY <2>2, <2>3
<1>14. CASE LinkIsMalformed(c)
  <2>1. /\ m.step = "fetching" /\ since' = since /\ m.source # NoSource
        /\ m.source \in PageSources /\ m.items = 0 /\ Update(c, Raised(m))
    BY <1>1, <1>14 DEF LinkIsMalformed, CallOK
  <2>2. Good(m, Raised(m))
    BY <1>1, <2>1, RaisedIsGood
  <2> QED
    BY <1>4, <2>1, <2>2
<1> QED
  BY <1>6, <1>7, <1>8, <1>9, <1>10, <1>11, <1>12, <1>13, <1>14 DEF Pages

\* The invariant holds from the start and every step keeps it.
THEOREM CollectionInvariance == CollectionSpec => []CollectionInv
<1>1. CollectionInit => CollectionInv
  <2> SUFFICES ASSUME CollectionInit
               PROVE  CollectionInv
    OBVIOUS
  <2>1. /\ collection = [c \in Callers |-> NoCall]
        /\ since = [s \in Sources |-> Interval] /\ quiet = since
    BY DEF CollectionInit
  <2>2. NoCall \in Call /\ CallOK(NoCall) /\ NoCall.step = "idle" /\ NoCall.source = NoSource
    BY NoCallFacts
  <2> QED
    BY <2>1, <2>2, CadenceAssumption DEF CollectionInv
<1>2. CollectionInv /\ [CollectionNext]_collectionVars => CollectionInv'
  <2> SUFFICES ASSUME CollectionInv, [CollectionNext]_collectionVars
               PROVE  CollectionInv'
    OBVIOUS
  <2>1. CASE Tick
    BY <2>1, TickKeeps
  <2>2. CASE Steps /\ quiet' = Quiet(quiet)
    <3>1. ASSUME NEW c \in Callers, CollectBegins(c)
          PROVE  CollectionInv'
      BY <2>2, <3>1, BeginKeeps
    <3>2. ASSUME NEW c \in Callers,
                 CollectReturns(c) \/ CollectRaises(c) \/ CollectIsCancelled(c)
          PROVE  CollectionInv'
      <4>1. Leaves(c)
        BY <3>2 DEF CollectReturns, CollectRaises, CollectIsCancelled, Leaves, Update
      <4> QED
        BY <2>2, <4>1, LeaveKeeps
    <3>3. ASSUME NEW c \in Callers,
                 \/ CooldownEnds(c) \/ SlotTaken(c) \/ Unready(c) \/ LimitRejected(c)
                 \/ TokenFound(c) \/ TokenRequested(c) \/ KeyUsed(c)
                 \/ ListingFails(c) \/ ListingMapped(c)
          PROVE  CollectionInv'
      <4>1. PICK r : Moves(c, r)
        BY <3>3, CollectorMoves
      <4> QED
        BY <2>2, <4>1, MoveKeeps
    <3>4. ASSUME NEW c \in Callers, Pages(c)
          PROVE  CollectionInv'
      <4>1. PICK r : Moves(c, r)
        BY <3>4, PageMoves
      <4> QED
        BY <2>2, <4>1, MoveKeeps
    <3>5. CASE TokenEnds \/ RevokedTokenExpires
      <4>1. since' = since /\ collection' = collection
        BY <3>5 DEF TokenEnds, RevokedTokenExpires
      <4>2. \A s : Collected(s)' <=> Collected(s)
        BY <4>1 DEF Collected, OnNetwork
      <4>3. /\ quiet \in [Sources -> Nat]
            /\ \A s \in Sources : ~Collected(s) => quiet[s] >= since[s]
        BY DEF CollectionInv
      <4>4. \A s \in Sources : quiet'[s] = IF Collected(s) THEN 0 ELSE quiet[s]
        BY <2>2 DEF Quiet
      <4>5. quiet' \in [Sources -> Nat]
        BY <2>2, <4>3 DEF Quiet
      <4> QED
        BY <4>1, <4>2, <4>3, <4>4, <4>5 DEF CollectionInv
    <3> QED
      BY <2>2, <3>1, <3>2, <3>3, <3>4, <3>5 DEF Steps
  <2>3. CASE UNCHANGED collectionVars
    BY <2>3 DEF CollectionInv, collectionVars, Collected, OnNetwork
  <2> QED
    BY <2>1, <2>2, <2>3 DEF CollectionNext
<1> QED
  BY <1>1, <1>2, PTL DEF CollectionSpec

\* Whatever a provider answers, and whichever pages and layers fail, what a
\* collection has found is lost only when it is more than a run may hold.
THEOREM FoundIsRecordedAlways == CollectionSpec => []FoundIsRecorded
<1>1. CollectionInv => FoundIsRecorded
  BY DEF CollectionInv, FoundIsRecorded, AtStep, CallOK, LostFairly
<1> QED
  BY <1>1, CollectionInvariance, PTL

\* However many callers ask, and however their collections end, a source is
\* asked again only when it has been left alone for the interval.
THEOREM CadenceHoldsAlways == CollectionSpec => CadenceHolds
<1>1. ASSUME CollectionInv, NEW c \in Callers, AtStep(c, "queued")
      PROVE  quiet[collection[c].source] >= Interval /\ ~Collected(collection[c].source)
  <2> DEFINE s == collection[c].source
  <2>1. s \in Sources /\ s # NoSource
    BY <1>1, CallerFacts DEF AtStep
  <2>2. since[s] >= Interval
    BY <1>1 DEF CollectionInv, AtStep
  <2>3. ~Collected(s)
    <3> SUFFICES ASSUME Collected(s)
                 PROVE  FALSE
      OBVIOUS
    <3>1. PICK d \in Callers : Working(collection[d]) /\ collection[d].source = s
      BY CollectedFacts
    <3>2. d # c
      BY <1>1, <3>1 DEF AtStep, Working
    <3> QED
      BY <1>1, <2>1, <3>1, <3>2 DEF CollectionInv
  <2>4. quiet[s] >= since[s] /\ quiet[s] \in Nat /\ since[s] \in Nat
    BY <1>1, <2>1, <2>3 DEF CollectionInv
  <2> QED
    BY <2>2, <2>3, <2>4, CadenceAssumption
<1>2. CollectionInv /\ [CollectionNext]_collectionVars =>
         [\A c \in Callers : AtStep(c, "queued") /\ OnNetwork(c)' =>
            quiet[collection[c].source] >= Interval /\ ~Collected(collection[c].source)]_collectionVars
  BY <1>1
<1> QED
  BY <1>2, CollectionInvariance, PTL DEF CollectionSpec, CadenceHolds

-----------------------------------------------------------------------------
(* LanguageModel: a transcript is cut into prompts, and every cue comes back *)

\* A set that holds 0 and with every number the next holds all.
LEMMA Induction ==
    ASSUME NEW S, 0 \in S, \A n \in Nat : n \in S => n + 1 \in S
    PROVE  \A n \in Nat : n \in S
<1> DEFINE R == OpToRel(<, Nat)
           T == Nat \ S
<1>1. R = {p \in Nat \X Nat : p[1] < p[2]}
  BY DEF OpToRel
<1>2. IsWellFoundedOn(R, Nat)
  BY NatLessThanWellFounded
<1> SUFFICES ASSUME T # {} PROVE FALSE
  OBVIOUS
<1> HIDE DEF R
<1>3. PICK x \in T : \A y \in T : ~ (<<y, x>> \in R)
  BY <1>2, WFMin
<1>4. x \in Nat /\ x # 0
  OBVIOUS
<1>5. x - 1 \in Nat /\ x - 1 \in T
  BY <1>4
<1>6. <<x - 1, x>> \in R
  BY <1>1, <1>4, <1>5
<1> QED
  BY <1>3, <1>5, <1>6


\* The cues after a up to b; a run of prompts that holds those after f up to t.
Between(a, b) == [i \in 1..(b - a) |-> a + i]
Bounds(prompts, f, t, e) ==
    /\ e[0] = f /\ e[Len(prompts)] = t
    /\ \A j \in 1..Len(prompts) : e[j - 1] <= e[j] /\ prompts[j] = Between(e[j - 1], e[j])
Run(prompts, f, t) == \E e \in [0..Len(prompts) -> Nat] : Bounds(prompts, f, t, e)

Prompts == Seq(Seq(Nat))
Cut == [prompts : Prompts, open : Seq(Nat), rejected : BOOLEAN]
NoCut == [prompts |-> <<>>, open |-> <<>>, rejected |-> FALSE]

\* The first n cues have been cut: into prompts that fit and one still open.
CutOK(cut, n) ==
    /\ cut \in Cut
    /\ cut.rejected => \E i \in 1..n : TooLong(<<i>>)
    /\ ~cut.rejected =>
          /\ \A j \in 1..Len(cut.prompts) : Fits(cut.prompts[j])
          /\ cut.open # <<>> => Fits(cut.open)
          /\ n > 0 => cut.open # <<>>
          /\ \E m \in 0..n : Run(cut.prompts, 0, m) /\ cut.open = Between(m, n)

\* Intervals are sequences of cues, and are put together at their ends.
LEMMA BetweenFacts ==
    ASSUME NEW a \in Nat, NEW b \in Nat, a <= b
    PROVE  /\ Between(a, b) \in Seq(Nat) /\ Len(Between(a, b)) = b - a
           /\ Between(a, a) = <<>>
           /\ Append(Between(a, b), b + 1) = Between(a, b + 1)
           /\ Between(b, b + 1) = <<b + 1>>
           /\ \A c \in Nat : b <= c => Between(a, b) \o Between(b, c) = Between(a, c)
<1>1. Between(a, b) \in Seq(Nat) /\ Len(Between(a, b)) = b - a
  BY DEF Between
<1>2. Between(a, a) = <<>>
  BY DEF Between
<1>3. Append(Between(a, b), b + 1) = Between(a, b + 1)
  BY <1>1 DEF Between
<1>4. Between(b, b + 1) = <<b + 1>>
  BY DEF Between
<1>5. ASSUME NEW c \in Nat, b <= c
      PROVE  Between(a, b) \o Between(b, c) = Between(a, c)
  <2>1. /\ Between(b, c) \in Seq(Nat) /\ Len(Between(b, c)) = c - b
        /\ Between(a, c) \in Seq(Nat) /\ Len(Between(a, c)) = c - a
    BY <1>5 DEF Between
  <2> DEFINE s == Between(a, b) \o Between(b, c)
  <2>2. /\ s \in Seq(Nat) /\ Len(s) = Len(Between(a, b)) + Len(Between(b, c))
        /\ \A i \in 1..(Len(Between(a, b)) + Len(Between(b, c))) :
              s[i] = IF i <= Len(Between(a, b)) THEN Between(a, b)[i]
                     ELSE Between(b, c)[i - Len(Between(a, b))]
    BY <1>1, <2>1, ConcatProperties
  <2> HIDE DEF s
  <2>3. ASSUME NEW i \in 1..(c - a)
        PROVE  s[i] = Between(a, c)[i]
    <3>1. Between(a, c)[i] = a + i
      BY DEF Between
    <3>2. s[i] = IF i <= b - a THEN Between(a, b)[i] ELSE Between(b, c)[i - (b - a)]
      BY <1>1, <2>1, <2>2
    <3>3. CASE i <= b - a
      BY <3>1, <3>2, <3>3 DEF Between
    <3>4. CASE i > b - a
      <4>1. i - (b - a) \in 1..(c - b)
        BY <1>5, <3>4
      <4>2. Between(b, c)[i - (b - a)] = b + (i - (b - a))
        BY <4>1 DEF Between
      <4> QED
        BY <3>1, <3>2, <3>4, <4>2
    <3> QED
      BY <3>3, <3>4
  <2>4. Len(s) = c - a
    BY <1>1, <2>1, <2>2
  <2>5. s = Between(a, c)
    BY <2>1, <2>2, <2>3, <2>4, SeqEqual
  <2> QED
    BY <2>5 DEF s
<1> QED
  BY <1>1, <1>2, <1>3, <1>4, <1>5

\* A run of prompts begins with none and goes on with the cues that follow.
LEMMA RunFacts ==
    ASSUME NEW f \in Nat
    PROVE  /\ Run(<<>>, f, f)
           /\ \A t : Run(<<>>, f, t) => t = f
           /\ \A p \in Prompts, m \in Nat, n \in Nat :
                 Run(p, f, m) /\ m <= n => Run(Append(p, Between(m, n)), f, n)
<1>1. Run(<<>>, f, f)
  <2>1. [i \in 0..0 |-> f] \in [0..Len(<<>>) -> Nat] /\ Bounds(<<>>, f, f, [i \in 0..0 |-> f])
    BY DEF Bounds
  <2> QED
    BY <2>1 DEF Run
<1>2. \A t : Run(<<>>, f, t) => t = f
  BY DEF Run, Bounds
<1>3. ASSUME NEW p \in Prompts, NEW m \in Nat, NEW n \in Nat, Run(p, f, m), m <= n
      PROVE  Run(Append(p, Between(m, n)), f, n)
  <2>1. PICK e \in [0..Len(p) -> Nat] : Bounds(p, f, m, e)
    BY <1>3 DEF Run
  <2> DEFINE q == Append(p, Between(m, n))
             d == [j \in 0..(Len(p) + 1) |-> IF j = Len(p) + 1 THEN n ELSE e[j]]
  <2>2. Between(m, n) \in Seq(Nat)
    BY <1>3, BetweenFacts
  <2>3. /\ Len(p) \in Nat /\ Len(q) = Len(p) + 1 /\ q[Len(p) + 1] = Between(m, n)
        /\ \A j \in 1..Len(p) : q[j] = p[j]
    BY <2>2 DEF Prompts
  <2>4. d \in [0..Len(q) -> Nat]
    BY <2>3
  <2>5. \A j \in 0..Len(p) : d[j] = e[j]
    BY <2>3
  <2>6. d[Len(q)] = n /\ d[0] = f
    BY <2>1, <2>3 DEF Bounds
  <2>7. \A j \in 1..Len(p) : d[j - 1] <= d[j] /\ q[j] = Between(d[j - 1], d[j])
    <3> SUFFICES ASSUME NEW j \in 1..Len(p)
                 PROVE  d[j - 1] <= d[j] /\ q[j] = Between(d[j - 1], d[j])
      OBVIOUS
    <3>1. j - 1 \in 0..Len(p) /\ j \in 0..Len(p)
      BY <2>3
    <3>2. d[j - 1] = e[j - 1] /\ d[j] = e[j]
      BY <2>5, <3>1
    <3>3. e[j - 1] <= e[j] /\ p[j] = Between(e[j - 1], e[j])
      BY <2>1 DEF Bounds
    <3> HIDE DEF q, d
    <3> QED
      BY <2>3, <3>2, <3>3
  <2>8. d[Len(p)] = m /\ d[Len(p) + 1] = n
    BY <2>1, <2>3 DEF Bounds
  <2> HIDE DEF q, d
  <2>9. \A j \in 1..Len(q) : d[j - 1] <= d[j] /\ q[j] = Between(d[j - 1], d[j])
    <3> SUFFICES ASSUME NEW j \in 1..Len(q)
                 PROVE  d[j - 1] <= d[j] /\ q[j] = Between(d[j - 1], d[j])
      OBVIOUS
    <3>1. CASE j \in 1..Len(p)
      BY <2>7, <3>1
    <3>2. CASE j = Len(p) + 1
      <4>1. j - 1 = Len(p)
        BY <2>3, <3>2
      <4> QED
        BY <1>3, <2>3, <2>8, <3>2, <4>1
    <3> QED
      BY <2>3, <3>1, <3>2
  <2>10. Bounds(q, f, n, d)
    BY <2>6, <2>9 DEF Bounds
  <2>11. Run(q, f, n)
    BY <2>4, <2>10 DEF Run
  <2> QED
    BY <2>11 DEF q
<1> QED
  BY <1>1, <1>2, <1>3

\* Its first prompt is taken off: what is left begins where that ended.
LEMMA RunTail ==
    ASSUME NEW p \in Prompts, p # <<>>, NEW f \in Nat, NEW t, Run(p, f, t)
    PROVE  \E m \in Nat : f <= m /\ Head(p) = Between(f, m) /\ Run(Tail(p), m, t)
<1>1. PICK e \in [0..Len(p) -> Nat] : Bounds(p, f, t, e)
  BY DEF Run
<1> DEFINE q == Tail(p)
           d == [j \in 0..(Len(p) - 1) |-> e[j + 1]]
<1>2. /\ Len(p) \in Nat /\ Len(p) >= 1 /\ Len(q) = Len(p) - 1 /\ Head(p) = p[1]
      /\ \A j \in 1..Len(q) : q[j] = p[j + 1]
  BY DEF Prompts
<1>3. d \in [0..Len(q) -> Nat]
  BY <1>2
<1>4. \A j \in 0..Len(q) : d[j] = e[j + 1]
  BY <1>2
<1>5. e[1] \in Nat /\ f <= e[1] /\ Head(p) = Between(f, e[1])
  <2>1. 1 \in 1..Len(p) /\ 1 \in 0..Len(p)
    BY <1>2
  <2>2. e[1 - 1] <= e[1] /\ p[1] = Between(e[1 - 1], e[1]) /\ e[0] = f
    BY <1>1, <2>1 DEF Bounds
  <2> QED
    BY <1>2, <2>1, <2>2
<1> HIDE DEF q, d
<1>6. d[0] = e[1] /\ d[Len(q)] = t
  <2>1. 0 \in 0..Len(q) /\ Len(q) \in 0..Len(q) /\ Len(q) + 1 = Len(p)
    BY <1>2
  <2> QED
    BY <1>1, <1>4, <2>1 DEF Bounds
<1>7. ASSUME NEW j \in 1..Len(q)
      PROVE  d[j - 1] <= d[j] /\ q[j] = Between(d[j - 1], d[j])
  <2>1. j + 1 \in 1..Len(p) /\ j - 1 \in 0..Len(q) /\ j \in 0..Len(q)
    BY <1>2
  <2>2. (j + 1) - 1 = j /\ (j - 1) + 1 = j
    BY <1>2
  <2>3. e[(j + 1) - 1] <= e[j + 1] /\ p[j + 1] = Between(e[(j + 1) - 1], e[j + 1])
    BY <1>1, <2>1 DEF Bounds
  <2>4. d[j - 1] = e[j] /\ d[j] = e[j + 1]
    BY <1>4, <2>1, <2>2
  <2> QED
    BY <1>2, <2>2, <2>3, <2>4
<1>8. Bounds(q, e[1], t, d)
  BY <1>6, <1>7 DEF Bounds
<1>9. Run(q, e[1], t)
  BY <1>3, <1>8 DEF Run
<1> QED
  BY <1>5, <1>9 DEF q

\* One more cue is cut.
LEMMA AddKeeps ==
    ASSUME NEW cut, NEW n \in Nat, CutOK(cut, n)
    PROVE  CutOK(Add(cut, n + 1), n + 1)
<1> DEFINE cue == n + 1
           grown == Append(cut.open, cue)
<1>1. cut \in Cut /\ cue \in Nat /\ cue \in 1..(n + 1) /\ cue > 0
  BY DEF CutOK
<1>2. cut.open \in Seq(Nat) /\ cut.prompts \in Prompts /\ cut.rejected \in BOOLEAN
  BY <1>1 DEF Cut
<1>3. CASE cut.rejected
  <2>1. Add(cut, cue) = cut
    BY <1>3 DEF Add
  <2> QED
    BY <1>3, <2>1 DEF CutOK
<1>4. CASE ~cut.rejected
  <2>1. PICK m \in 0..n : Run(cut.prompts, 0, m) /\ cut.open = Between(m, n)
    BY <1>4 DEF CutOK
  <2>2. m \in Nat /\ m <= n /\ m \in 0..(n + 1)
    BY <2>1
  <2>3. grown = Between(m, n + 1) /\ grown # <<>> /\ grown \in Seq(Nat)
    <3>1. Append(Between(m, n), n + 1) = Between(m, n + 1)
      BY <2>2, BetweenFacts
    <3>2. m <= n + 1 /\ n + 1 \in Nat
      BY <2>2
    <3>3. Between(m, n + 1) \in Seq(Nat) /\ Len(Between(m, n + 1)) = (n + 1) - m
      BY <2>2, <3>2, BetweenFacts
    <3>4. (n + 1) - m > 0
      BY <2>2
    <3>5. Between(m, n + 1) # <<>>
      BY <3>3, <3>4
    <3> QED
      BY <2>1, <3>1, <3>3, <3>5
  <2>4. /\ \A j \in 1..Len(cut.prompts) : Fits(cut.prompts[j])
        /\ cut.open # <<>> => Fits(cut.open)
    BY <1>4 DEF CutOK
  <2> HIDE DEF grown
  <2>5. CASE Fits(grown)
    <3> DEFINE r == [cut EXCEPT !.open = grown]
    <3>1. Add(cut, cue) = r
      BY <1>4, <2>5 DEF Add, grown
    <3>2. /\ r \in Cut /\ r.open = grown /\ r.prompts = cut.prompts /\ ~r.rejected
      BY <1>1, <1>4, <2>3 DEF Cut
    <3> HIDE DEF r
    <3> QED
      BY <2>1, <2>2, <2>3, <2>4, <2>5, <3>1, <3>2 DEF CutOK
  <2>6. CASE ~Fits(grown) /\ TooLong(<<cue>>)
    <3> DEFINE r == [cut EXCEPT !.rejected = TRUE]
    <3>1. Add(cut, cue) = r
      BY <1>4, <2>6 DEF Add, grown
    <3>2. r \in Cut /\ r.rejected
      BY <1>1 DEF Cut
    <3> HIDE DEF r
    <3> QED
      BY <1>1, <2>6, <3>1, <3>2 DEF CutOK
  <2>7. CASE ~Fits(grown) /\ ~TooLong(<<cue>>)
    <3>1. Fits(<<cue>>)
      BY <2>7, BatchAssumption DEF Fits
    <3>2. cut.open # <<>>
      <4> SUFFICES ASSUME cut.open = <<>>
                   PROVE  FALSE
        OBVIOUS
      <4>1. grown = <<cue>>
        BY DEF grown
      <4> QED
        BY <2>7, <3>1, <4>1
    <3> DEFINE p == Append(cut.prompts, cut.open)
               r1 == [cut EXCEPT !.prompts = p]
               r == [r1 EXCEPT !.open = <<cue>>]
    <3>3. Add(cut, cue) = r
      BY <1>1, <1>4, <2>7 DEF Add, grown, Cut
    <3>4. p \in Prompts /\ Len(p) = Len(cut.prompts) + 1 /\ p[Len(p)] = cut.open
          /\ \A j \in 1..Len(cut.prompts) : p[j] = cut.prompts[j]
      BY <1>2 DEF Prompts
    <3>5. Run(p, 0, n)
      BY <1>2, <2>1, <2>2, RunFacts
    <3>6. Len(cut.prompts) \in Nat
      BY <1>2 DEF Prompts
    <3> HIDE DEF p
    <3>7. \A j \in 1..Len(p) : Fits(p[j])
      BY <2>4, <3>2, <3>4, <3>6
    <3>8. r1 \in Cut /\ r1.prompts = p /\ r1.rejected = cut.rejected
      BY <1>1, <3>4 DEF Cut
    <3> HIDE DEF r1
    <3>9. <<cue>> \in Seq(Nat) /\ <<cue>> # <<>> /\ <<cue>> = Between(n, n + 1)
      BY <1>1, BetweenFacts
    <3>10. r \in Cut /\ r.prompts = p /\ ~r.rejected /\ r.open = <<cue>>
      BY <1>4, <3>8, <3>9 DEF Cut
    <3> HIDE DEF r
    <3>11. n \in 0..(n + 1)
      OBVIOUS
    <3> HIDE DEF cue
    <3>12. CutOK(r, n + 1)
      BY <3>1, <3>5, <3>7, <3>9, <3>10, <3>11 DEF CutOK
    <3> QED
      BY <3>3, <3>12 DEF cue
  <2> QED
    BY <2>5, <2>6, <2>7
<1> QED
  BY <1>2, <1>3, <1>4

\* The fold over the cues, as a function on the sets of places it goes through.
CutsAll(g, places) ==
    g = [s \in SUBSET places |->
            IF s = {} THEN NoCut ELSE Add(g[s \ {Max(s)}], Cues[Max(s)])]

\* The largest of some places, and those before it.
LEMMA LargestFacts ==
    ASSUME NEW n \in Nat
    PROVE  /\ \A s \in SUBSET (1..(n + 1)) : n + 1 \in s => Max(s) = n + 1
           /\ (1..(n + 1)) \ {n + 1} = 1..n
           /\ n + 1 \in 1..(n + 1)
<1>1. ASSUME NEW s \in SUBSET (1..(n + 1)), n + 1 \in s
      PROVE  Max(s) = n + 1
  <2>1. \A y \in s : y \in Int /\ n + 1 >= y
    OBVIOUS
  <2>2. \E x \in s : \A y \in s : x >= y
    BY <1>1, <2>1
  <2>3. PICK x : x = Max(s)
    OBVIOUS
  <2>4. x \in s /\ \A y \in s : x >= y
    BY <2>2, <2>3 DEF Max
  <2>5. x \in Int /\ n + 1 >= x /\ x >= n + 1
    BY <1>1, <2>1, <2>4
  <2>6. x = n + 1
    BY <2>5
  <2> QED
    BY <2>3, <2>6
<1> QED
  BY <1>1

\* There is one for every number of cues.
LEMMA FoldExists == \A n \in Nat : \E g : CutsAll(g, 1..n)
<1> DEFINE S == {n \in Nat : \E g : CutsAll(g, 1..n)}
<1>1. 0 \in S
  <2>1. SUBSET (1..0) = {{}}
    OBVIOUS
  <2>2. CutsAll([s \in {{}} |-> NoCut], 1..0)
    BY <2>1 DEF CutsAll
  <2> QED
    BY <2>2
<1>2. ASSUME NEW n \in Nat, n \in S
      PROVE  n + 1 \in S
  <2>1. PICK g : CutsAll(g, 1..n)
    BY <1>2
  <2> DEFINE h == [s \in SUBSET (1..(n + 1)) |->
                      IF n + 1 \in s THEN Add(g[s \ {n + 1}], Cues[n + 1]) ELSE g[s]]
             Value(s) == IF s = {} THEN NoCut ELSE Add(h[s \ {Max(s)}], Cues[Max(s)])
  <2>2. ASSUME NEW s \in SUBSET (1..(n + 1))
        PROVE  h[s] = Value(s)
    <3>1. CASE n + 1 \in s
      <4>1. Max(s) = n + 1
        BY <3>1, LargestFacts
      <4>2. s \ {n + 1} \in SUBSET (1..n) /\ s \ {n + 1} \in SUBSET (1..(n + 1))
        BY <2>2
      <4>3. h[s \ {n + 1}] = g[s \ {n + 1}]
        BY <4>2
      <4>4. h[s] = Add(g[s \ {n + 1}], Cues[n + 1])
        BY <3>1
      <4> HIDE DEF h
      <4> QED
        BY <3>1, <4>1, <4>3, <4>4
    <3>2. CASE n + 1 \notin s
      <4>1. s \in SUBSET (1..n)
        BY <3>2
      <4>2. h[s] = g[s]
        BY <3>2
      <4>3. g[s] = IF s = {} THEN NoCut ELSE Add(g[s \ {Max(s)}], Cues[Max(s)])
        BY <2>1, <4>1 DEF CutsAll
      <4>4. s \ {Max(s)} \in SUBSET (1..(n + 1)) /\ n + 1 \notin s \ {Max(s)}
        BY <3>2
      <4>5. h[s \ {Max(s)}] = g[s \ {Max(s)}]
        BY <4>4
      <4> HIDE DEF h
      <4> QED
        BY <4>2, <4>3, <4>5
    <3> QED
      BY <3>1, <3>2
  <2>3. h = [s \in SUBSET (1..(n + 1)) |-> h[s]]
    OBVIOUS
  <2> HIDE DEF h
  <2>4. h = [s \in SUBSET (1..(n + 1)) |-> Value(s)]
    BY <2>2, <2>3
  <2>5. CutsAll(h, 1..(n + 1))
    BY <2>4 DEF CutsAll
  <2> QED
    BY <2>5
<1> HIDE DEF S
<1>3. \A n \in Nat : n \in S
  BY <1>1, <1>2, Induction
<1> QED
  BY <1>3 DEF S

\* All cues have been cut when the fold is done.
LEMMA FoldCuts ==
    ASSUME NEW N \in Nat, DOMAIN Cues = 1..N, \A i \in 1..N : Cues[i] = i
    PROVE  CutOK(FoldLeft(Add, NoCut, Cues), N)
<1> DEFINE Step(g) == [s \in SUBSET (DOMAIN Cues) |->
                          IF s = {} THEN NoCut ELSE Add(g[s \ {Max(s)}], Cues[Max(s)])]
           iter == CHOOSE g : g = Step(g)
<1>1. FoldLeft(Add, NoCut, Cues) = iter[DOMAIN Cues]
  BY DEF FoldLeft, MapThenFoldSet
<1>2. \E g : g = Step(g)
  <2>1. \E g : CutsAll(g, DOMAIN Cues)
    BY FoldExists
  <2> QED
    BY <2>1 DEF CutsAll
<1>3. iter = Step(iter)
  BY <1>2
<1> HIDE DEF iter
<1> DEFINE S == {n \in Nat : n <= N => CutOK(iter[1..n], n)}
<1>4. 0 \in S
  <2>1. 1..0 = {} /\ {} \in SUBSET (DOMAIN Cues)
    OBVIOUS
  <2>2. iter[{}] = NoCut
    BY <1>3, <2>1
  <2>3. NoCut \in Cut
    BY DEF NoCut, Cut, Prompts
  <2>4. <<>> = Between(0, 0) /\ Run(<<>>, 0, 0)
    BY BetweenFacts, RunFacts
  <2>5. CutOK(NoCut, 0)
    BY <2>3, <2>4 DEF CutOK, NoCut
  <2> QED
    BY <2>1, <2>2, <2>5
<1>5. ASSUME NEW n \in Nat, n \in S
      PROVE  n + 1 \in S
  <2> SUFFICES ASSUME n + 1 <= N
               PROVE  CutOK(iter[1..(n + 1)], n + 1)
    OBVIOUS
  <2>1. CutOK(iter[1..n], n)
    BY <1>5
  <2>2. Max(1..(n + 1)) = n + 1
    BY LargestFacts
  <2>3. (1..(n + 1)) \ {n + 1} = 1..n /\ 1..(n + 1) # {}
    BY LargestFacts
  <2>4. 1..(n + 1) \in SUBSET (DOMAIN Cues) /\ Cues[n + 1] = n + 1
    OBVIOUS
  <2> DEFINE places == 1..(n + 1)
  <2> HIDE DEF S
  <2>5. iter[places] = Add(iter[places \ {Max(places)}], Cues[Max(places)])
    <3>1. places \in SUBSET (DOMAIN Cues) /\ places # {}
      BY <2>3, <2>4
    <3> HIDE DEF places
    <3>2. Step(iter)[places] = Add(iter[places \ {Max(places)}], Cues[Max(places)])
      BY <3>1
    <3> QED
      BY <1>3, <3>2
  <2>6. iter[1..(n + 1)] = Add(iter[1..n], n + 1)
    BY <2>2, <2>3, <2>4, <2>5
  <2> QED
    BY <2>1, <2>6, AddKeeps
<1> HIDE DEF S
<1>6. N \in S
  BY <1>4, <1>5, Induction
<1>7. CutOK(iter[1..N], N)
  BY <1>6 DEF S
<1> QED
  BY <1>1, <1>7

\* A prompt is as long in the next state when the request stands.
LEMMA PromptsStay ==
    ASSUME request' = request
    PROVE  /\ \A x : Fits(x)' <=> Fits(x)
           /\ \A x : TooLong(x)' <=> TooLong(x)
BY DEF Fits, TooLong, PromptLength, FoldLeft, MapThenFoldSet

\* The request is for the captions of n cues.
ForCues(n) ==
    /\ request.kind = "captions"
    /\ DOMAIN request.lengths = 1..n
    /\ request.lengths # <<>> => n > 0

\* The cues are numbered; all of them are in the prompts, or one fits none.
LEMMA ChunksFacts ==
    ASSUME NEW n \in Nat, n > 0, ForCues(n)
    PROVE  /\ Cues = Between(0, n)
           /\ Chunks.rejected => \E i \in 1..n : TooLong(<<i>>)
           /\ ~Chunks.rejected =>
                 /\ Chunks.prompts \in Prompts /\ Chunks.prompts # <<>>
                 /\ \A j \in 1..Len(Chunks.prompts) : Fits(Chunks.prompts[j])
                 /\ Run(Chunks.prompts, 0, n)
<1> DEFINE cut == FoldLeft(Add, NoCut, Cues)
           p == Append(cut.prompts, cut.open)
<1>1. DOMAIN Cues = 1..n /\ (\A i \in 1..n : Cues[i] = i) /\ Cues = Between(0, n)
  BY DEF Cues, ForCues, Between
<1>2. CutOK(cut, n)
  BY <1>1, FoldCuts
<1>3. Chunks = [cut EXCEPT !.prompts = IF cut.open = <<>> THEN cut.prompts ELSE p]
  BY DEF Chunks, NoCut
<1> HIDE DEF cut
<1>4. cut \in Cut /\ cut.prompts \in Prompts /\ cut.open \in Seq(Nat)
  BY <1>2 DEF CutOK, Cut
<1>5. Chunks.rejected = cut.rejected
  BY <1>3, <1>4 DEF Cut
<1>6. cut.rejected => \E i \in 1..n : TooLong(<<i>>)
  BY <1>2 DEF CutOK
<1>7. ASSUME ~cut.rejected
      PROVE  /\ Chunks.prompts \in Prompts /\ Chunks.prompts # <<>>
             /\ \A j \in 1..Len(Chunks.prompts) : Fits(Chunks.prompts[j])
             /\ Run(Chunks.prompts, 0, n)
  <2>1. /\ \A j \in 1..Len(cut.prompts) : Fits(cut.prompts[j])
        /\ cut.open # <<>> /\ Fits(cut.open)
    BY <1>2, <1>7 DEF CutOK
  <2>2. PICK m \in 0..n : Run(cut.prompts, 0, m) /\ cut.open = Between(m, n)
    BY <1>2, <1>7 DEF CutOK
  <2>3. m \in Nat /\ m <= n
    BY <2>2
  <2>4. Chunks.prompts = p
    BY <1>3, <1>4, <2>1 DEF Cut
  <2>5. /\ p \in Prompts /\ Len(p) = Len(cut.prompts) + 1 /\ p[Len(p)] = cut.open
        /\ \A j \in 1..Len(cut.prompts) : p[j] = cut.prompts[j]
        /\ Len(cut.prompts) \in Nat
    BY <1>4 DEF Prompts
  <2>6. Run(p, 0, n)
    BY <1>4, <2>2, <2>3, RunFacts
  <2> HIDE DEF p
  <2>7. \A j \in 1..Len(p) : Fits(p[j])
    BY <2>1, <2>5
  <2>8. p # <<>>
    BY <2>5
  <2> QED
    BY <2>4, <2>5, <2>6, <2>7, <2>8
<1> QED
  BY <1>1, <1>5, <1>6, <1>7

\* What was asked and what is still to be asked fits; while it is asked, the
\* cues heard and those of the prompts left are all the cues in their order.
CaptionsOK(n) ==
    /\ ForCues(n)
    /\ asked \in Prompts /\ \A j \in 1..Len(asked) : Fits(asked[j])
    /\ left \in Prompts /\ \A j \in 1..Len(left) : Fits(left[j])
    /\ ended = "no" => heard = <<>>
    /\ ended = "asking" =>
          left # <<>> /\ \E h \in Nat : heard = Between(0, h) /\ Run(left, h, n)
    /\ ended = "too long" => \E i \in 1..n : TooLong(<<i>>)
    /\ ended = "done" => heard = Cues
    /\ ended # "incomplete"

CaptionsAreCut == request.kind = "captions" => \E n \in Nat : CaptionsOK(n)

\* It is what is promised of them.
LEMMA CutIsWhole == CaptionsAreCut => CaptionsAreWhole
<1> SUFFICES ASSUME request.kind = "captions", NEW n \in Nat, CaptionsOK(n)
             PROVE  CaptionsAreWhole
  BY DEF CaptionsAreCut, CaptionsAreWhole
<1>1. Range(Cues) = 1..n
  BY DEF Range, Cues, CaptionsOK, ForCues
<1> DEFINE both == asked \o left
<1>2. /\ asked \in Prompts /\ left \in Prompts
      /\ \A j \in 1..Len(asked) : Fits(asked[j])
      /\ \A j \in 1..Len(left) : Fits(left[j])
  BY DEF CaptionsOK
<1>3. /\ Len(both) = Len(asked) + Len(left) /\ DOMAIN both = 1..(Len(asked) + Len(left))
      /\ Len(asked) \in Nat /\ Len(left) \in Nat
      /\ \A j \in 1..(Len(asked) + Len(left)) :
            both[j] = IF j <= Len(asked) THEN asked[j] ELSE left[j - Len(asked)]
  BY <1>2, ConcatProperties DEF Prompts
<1> HIDE DEF both
<1>4. ASSUME NEW j \in DOMAIN both
      PROVE  Fits(both[j])
  <2>1. j \in 1..(Len(asked) + Len(left))
    BY <1>3
  <2>2. CASE j <= Len(asked)
    <3>1. j \in 1..Len(asked) /\ both[j] = asked[j]
      BY <1>3, <2>1, <2>2
    <3> QED
      BY <1>2, <3>1
  <2>3. CASE ~(j <= Len(asked))
    <3>1. j - Len(asked) \in 1..Len(left) /\ both[j] = left[j - Len(asked)]
      BY <1>3, <2>1, <2>3
    <3> QED
      BY <1>2, <3>1
  <2> QED
    BY <2>2, <2>3
<1> QED
  BY <1>1, <1>4 DEF CaptionsAreWhole, CaptionsOK, both

\* A request begins with nothing asked.
LEMMA CaptionsBegin == ModelInit => CaptionsAreCut
<1> SUFFICES ASSUME ModelInit, request.kind = "captions"
             PROVE  \E n \in Nat : CaptionsOK(n)
  BY DEF CaptionsAreCut
<1>1. PICK count \in 0..MaxCues, same \in BOOLEAN :
         \E lengths \in [1..count -> Lengths] :
            request = [kind |-> "captions", lengths |-> lengths, same |-> same]
  BY DEF ModelInit
<1>2. PICK lengths \in [1..count -> Lengths] :
         request = [kind |-> "captions", lengths |-> lengths, same |-> same]
  BY <1>1
<1>3. count \in Nat
  BY CuesAssumption
<1>4. ForCues(count)
  <2>1. request.kind = "captions" /\ request.lengths = lengths /\ DOMAIN lengths = 1..count
    BY <1>2
  <2>2. count = 0 => lengths = <<>>
    BY <1>3
  <2> QED
    BY <1>3, <2>1, <2>2 DEF ForCues
<1>5. asked = <<>> /\ left = <<>> /\ heard = <<>> /\ ended = "no" /\ <<>> \in Prompts
  BY DEF ModelInit, Prompts
<1> QED
  BY <1>3, <1>4, <1>5 DEF CaptionsOK

\* The prompt at the head is answered: what was asked and is left still fits.
LEMMA AnsweredFits ==
    ASSUME NEW n \in Nat, CaptionsOK(n), left # <<>>, Answered
    PROVE  /\ ForCues(n)'
           /\ asked' \in Prompts /\ \A j \in 1..Len(asked') : Fits(asked'[j])
           /\ left' \in Prompts /\ \A j \in 1..Len(left') : Fits(left'[j])
           /\ left' = Tail(left) /\ Head(left) \in Seq(Nat)
<1>1. /\ asked \in Prompts /\ \A j \in 1..Len(asked) : Fits(asked[j])
      /\ left \in Prompts /\ \A j \in 1..Len(left) : Fits(left[j])
  BY DEF CaptionsOK
<1>2. /\ left' = Tail(left) /\ asked' = Append(asked, Head(left)) /\ request' = request
  BY DEF Answered
<1>3. /\ Len(left) \in Nat /\ Len(left) >= 1 /\ Head(left) = left[1] /\ Head(left) \in Seq(Nat)
      /\ Tail(left) \in Prompts /\ Len(Tail(left)) = Len(left) - 1
      /\ \A j \in 1..Len(Tail(left)) : Tail(left)[j] = left[j + 1]
  BY <1>1 DEF Prompts
<1>4. Fits(Head(left))
  BY <1>1, <1>3
<1>5. /\ Append(asked, Head(left)) \in Prompts
      /\ Len(Append(asked, Head(left))) = Len(asked) + 1 /\ Len(asked) \in Nat
      /\ Append(asked, Head(left))[Len(asked) + 1] = Head(left)
      /\ \A j \in 1..Len(asked) : Append(asked, Head(left))[j] = asked[j]
  BY <1>1, <1>3 DEF Prompts
<1>6. \A j \in 1..Len(asked') : Fits(asked'[j])
  <2> SUFFICES ASSUME NEW j \in 1..Len(asked')
               PROVE  Fits(asked'[j])
    OBVIOUS
  <2>1. j \in 1..Len(asked) \/ j = Len(asked) + 1
    BY <1>2, <1>5
  <2> QED
    BY <1>1, <1>2, <1>4, <1>5, <2>1
<1>7. \A j \in 1..Len(left') : Fits(left'[j])
  <2> SUFFICES ASSUME NEW j \in 1..Len(left')
               PROVE  Fits(left'[j])
    OBVIOUS
  <2>1. j + 1 \in 1..Len(left) /\ left'[j] = left[j + 1]
    BY <1>2, <1>3
  <2> QED
    BY <1>1, <2>1
<1>8. ForCues(n)'
  BY <1>2 DEF ForCues, CaptionsOK
<1> QED
  BY <1>2, <1>3, <1>5, <1>6, <1>7, <1>8

\* A step that says what is asked next, what is heard and how it ended keeps it.
LEMMA CaptionsGoOn ==
    ASSUME NEW n \in Nat, request' = request, ForCues(n)',
           asked' \in Prompts, \A j \in 1..Len(asked') : Fits(asked'[j]),
           left' \in Prompts, \A j \in 1..Len(left') : Fits(left'[j]),
           ended' # "no", ended' # "incomplete",
           ended' = "asking" =>
              left' # <<>> /\ \E h \in Nat : heard' = Between(0, h) /\ Run(left', h, n),
           ended' = "too long" => \E i \in 1..n : TooLong(<<i>>),
           ended' = "done" => heard' = Cues
    PROVE  CaptionsOK(n)'
<1>1. Cues' = Cues
  BY DEF Cues
<1>2. \A j \in 1..Len(asked') : Fits(asked[j])'
  BY PromptsStay
<1>3. \A j \in 1..Len(left') : Fits(left[j])'
  BY PromptsStay
<1>4. ended' = "too long" => \E i \in 1..n : TooLong(<<i>>)'
  BY PromptsStay
<1> QED
  BY <1>1, <1>2, <1>3, <1>4 DEF CaptionsOK

\* Nothing is asked, heard or ended.
LEMMA CaptionsStay ==
    ASSUME NEW n \in Nat, CaptionsOK(n), UNCHANGED <<request, asked, left, heard, ended>>
    PROVE  CaptionsOK(n)'
<1>1. Cues' = Cues /\ ForCues(n)'
  BY DEF Cues, CaptionsOK, ForCues
<1>2. \A j \in 1..Len(asked') : Fits(asked[j])'
  BY PromptsStay DEF CaptionsOK
<1>3. \A j \in 1..Len(left') : Fits(left[j])'
  BY PromptsStay DEF CaptionsOK
<1>4. ended' = "too long" => \E i \in 1..n : TooLong(<<i>>)'
  BY PromptsStay DEF CaptionsOK
<1> QED
  BY <1>1, <1>2, <1>3, <1>4 DEF CaptionsOK

\* A prompt is answered and the answer is not one of its captions: the request
\* ends.
LEMMA AnswerEnds ==
    ASSUME NEW n \in Nat, CaptionsOK(n), left # <<>>, Answered,
           ended' \notin {"no", "asking", "too long", "done", "incomplete"}
    PROVE  CaptionsOK(n)'
BY AnsweredFits, CaptionsGoOn DEF Answered

\* A transcript is cut and asked for, or rejected.
LEMMA CaptionsAsked ==
    ASSUME NEW n \in Nat, CaptionsOK(n), AskForCaptions
    PROVE  CaptionsOK(n)'
<1>1. /\ ended = "no" /\ heard = <<>> /\ request' = request /\ ForCues(n) /\ ForCues(n)'
      /\ asked' = asked /\ heard' = heard
  BY DEF AskForCaptions, Ends, Asks, CaptionsOK, ForCues
<1>2. /\ asked \in Prompts /\ \A j \in 1..Len(asked) : Fits(asked[j])
      /\ left \in Prompts /\ \A j \in 1..Len(left) : Fits(left[j])
  BY DEF CaptionsOK
<1>3. CASE request.lengths = <<>> /\ Ends("nothing given")
  BY <1>1, <1>2, <1>3, CaptionsGoOn DEF Ends
<1>4. CASE /\ request.lengths # <<>>
           /\ IF Chunks.rejected THEN Ends("too long") ELSE Asks(Chunks.prompts)
  <2>1. n > 0
    BY <1>1, <1>4 DEF ForCues
  <2>2. CASE Chunks.rejected
    <3>1. ended' = "too long" /\ left' = left
      BY <1>4, <2>2 DEF Ends
    <3>2. \E i \in 1..n : TooLong(<<i>>)
      BY <1>1, <2>1, <2>2, ChunksFacts
    <3> QED
      BY <1>1, <1>2, <3>1, <3>2, CaptionsGoOn
  <2>3. CASE ~Chunks.rejected
    <3>1. ended' = "asking" /\ left' = Chunks.prompts
      BY <1>4, <2>3 DEF Asks
    <3>2. /\ left' \in Prompts /\ left' # <<>> /\ Run(left', 0, n)
          /\ \A j \in 1..Len(left') : Fits(left'[j])
      BY <1>1, <2>1, <2>3, <3>1, ChunksFacts
    <3>3. 0 \in Nat /\ heard' = Between(0, 0)
      BY <1>1, BetweenFacts
    <3> QED
      BY <1>1, <1>2, <3>1, <3>2, <3>3, CaptionsGoOn
  <2> QED
    BY <2>2, <2>3
<1> QED
  BY <1>3, <1>4 DEF AskForCaptions

\* Captions asked for come back, or others.
LEMMA CaptionsCome ==
    ASSUME NEW n \in Nat, CaptionsOK(n), CaptionsAnswered
    PROVE  CaptionsOK(n)'
<1>1. ended = "asking" /\ Answered /\ request' = request
  BY DEF CaptionsAnswered, Answered
<1>2. PICK h \in Nat : heard = Between(0, h) /\ Run(left, h, n)
  BY <1>1 DEF CaptionsOK
<1>3. left \in Prompts /\ left # <<>>
  BY <1>1 DEF CaptionsOK
<1>4. /\ ForCues(n)'
      /\ asked' \in Prompts /\ \A j \in 1..Len(asked') : Fits(asked'[j])
      /\ left' \in Prompts /\ \A j \in 1..Len(left') : Fits(left'[j])
      /\ left' = Tail(left)
  BY <1>1, <1>3, AnsweredFits
<1>5. CASE ended' = "changed"
  BY <1>1, <1>3, <1>5, AnswerEnds
<1>6. CASE /\ heard' = heard \o Head(left)
           /\ ended' = IF left' # <<>> THEN "asking"
                       ELSE IF heard' = Cues THEN "done" ELSE "incomplete"
  <2>1. PICK m \in Nat : h <= m /\ Head(left) = Between(h, m) /\ Run(Tail(left), m, n)
    BY <1>2, <1>3, RunTail
  <2>2. heard' = Between(0, m)
    <3>1. 0 <= h /\ 0 \in Nat
      BY <1>2
    <3>2. Between(0, h) \o Between(h, m) = Between(0, m)
      BY <2>1, <3>1, BetweenFacts
    <3> QED
      BY <1>2, <1>6, <2>1, <3>2
  <2>3. CASE left' # <<>>
    BY <1>1, <1>4, <1>6, <2>1, <2>2, <2>3, CaptionsGoOn
  <2>4. CASE left' = <<>>
    <3>1. m = n
      <4>1. Run(<<>>, m, n)
        BY <1>4, <2>1, <2>4
      <4> QED
        BY <4>1, RunFacts
    <3>2. Cues = Between(0, n)
      <4>1. DOMAIN request.lengths = 1..n
        BY DEF CaptionsOK, ForCues
      <4> QED
        BY <4>1 DEF Cues, Between
    <3>3. ended' = "done" /\ heard' = Cues
      BY <1>6, <2>2, <2>4, <3>1, <3>2
    <3> QED
      BY <1>1, <1>4, <3>3, CaptionsGoOn
  <2> QED
    BY <2>3, <2>4
<1> QED
  BY <1>5, <1>6 DEF CaptionsAnswered

\* No step of a request loses a cue.
LEMMA CaptionsKeep ==
    ASSUME CaptionsAreCut, [ModelNext]_modelVars
    PROVE  CaptionsAreCut'
<1> SUFFICES ASSUME request'.kind = "captions"
             PROVE  \E n \in Nat : CaptionsOK(n)'
  BY DEF CaptionsAreCut
<1>1. request' = request
  BY DEF ModelNext, modelVars, AskForScript, AskForTranslation, KeepCaptions, AskForCaptions,
         UnusableAnswer, ProviderFails, TranslationAnswered, ScriptAnswered, CaptionsAnswered,
         Ends, Asks, Answered
<1>2. PICK n \in Nat : CaptionsOK(n)
  BY <1>1 DEF CaptionsAreCut
<1>3. /\ request.kind = "captions" /\ ForCues(n)' /\ ForCues(n)
      /\ asked \in Prompts /\ \A j \in 1..Len(asked) : Fits(asked[j])
      /\ left \in Prompts /\ \A j \in 1..Len(left) : Fits(left[j])
      /\ ended = "asking" => left # <<>>
  BY <1>1, <1>2 DEF CaptionsOK, ForCues
<1>4. CASE KeepCaptions
  BY <1>1, <1>3, <1>4, CaptionsGoOn DEF KeepCaptions
<1>5. CASE AskForCaptions
  BY <1>2, <1>5, CaptionsAsked
<1>6. CASE UnusableAnswer
  <2>1. CASE Answered /\ ended' = "malformed"
    BY <1>2, <1>3, <1>6, <2>1, AnswerEnds DEF UnusableAnswer
  <2>2. CASE UNCHANGED <<request, asked, left, heard, ended>>
    BY <1>2, <2>2, CaptionsStay
  <2> QED
    BY <1>6, <2>1, <2>2 DEF UnusableAnswer
<1>7. CASE ProviderFails
  BY <1>2, <1>3, <1>7, AnswerEnds DEF ProviderFails
<1>8. CASE CaptionsAnswered
  BY <1>2, <1>8, CaptionsCome
<1>9. CASE UNCHANGED modelVars
  BY <1>2, <1>9, CaptionsStay DEF modelVars
<1>10. ~AskForScript /\ ~AskForTranslation /\ ~TranslationAnswered /\ ~ScriptAnswered
  BY <1>3 DEF AskForScript, AskForTranslation, TranslationAnswered, ScriptAnswered
<1> QED
  BY <1>2, <1>4, <1>5, <1>6, <1>7, <1>8, <1>9, <1>10 DEF ModelNext

\* Cutting a transcript into prompts never costs a caption: every prompt fits,
\* only a cue too long for any prompt rejects the transcript, and whoever answers
\* as asked has translated every cue, once and in order, for every transcript.
THEOREM CaptionsAreWholeAlways == ModelSpec => []CaptionsAreWhole
<1>1. ModelSpec => []CaptionsAreCut
  BY CaptionsBegin, CaptionsKeep, PTL DEF ModelSpec
<1> QED
  BY <1>1, CutIsWhole, PTL

-----------------------------------------------------------------------------
(* ProgramPlan: what FlattenSeq puts together *)

\* What FlattenSeq has put together after each of the sequences.
Flattens(f, ss, n) == f = [i \in 1..n |-> IF i = 1 THEN ss[i] ELSE f[i - 1] \o ss[i]]

\* At every place.
LEMMA FlattensAt ==
    ASSUME NEW f, NEW ss, NEW n, Flattens(f, ss, n), NEW i \in 1..n
    PROVE  f[i] = IF i = 1 THEN ss[i] ELSE f[i - 1] \o ss[i]
<1> DEFINE Value(j) == IF j = 1 THEN ss[j] ELSE f[j - 1] \o ss[j]
<1>1. f = [j \in 1..n |-> Value(j)]
  BY DEF Flattens
<1> HIDE DEF Value
<1>2. f[i] = Value(i)
  BY <1>1
<1> QED
  BY <1>2 DEF Value

\* It can be put together, for any number of them.
LEMMA FlattenExists == ASSUME NEW ss PROVE \A n \in Nat : \E f : Flattens(f, ss, n)
<1> DEFINE S == {n \in Nat : \E f : Flattens(f, ss, n)}
<1>1. 0 \in S
  <2>1. Flattens(<<>>, ss, 0)
    BY DEF Flattens
  <2> QED
    BY <2>1
<1>2. ASSUME NEW n \in Nat, n \in S
      PROVE  n + 1 \in S
  <2>1. PICK f : Flattens(f, ss, n)
    BY <1>2
  <2> DEFINE h == [i \in 1..(n + 1) |->
                      IF i = 1 THEN ss[i] ELSE f[i - 1] \o ss[i]]
  <2>2. ASSUME NEW i \in 1..n
        PROVE  h[i] = f[i]
    <3>1. f[i] = IF i = 1 THEN ss[i] ELSE f[i - 1] \o ss[i]
      BY <2>1, FlattensAt
    <3>2. i \in 1..(n + 1)
      OBVIOUS
    <3>3. h[i] = IF i = 1 THEN ss[i] ELSE f[i - 1] \o ss[i]
      BY <3>2
    <3> HIDE DEF h
    <3> QED
      BY <3>1, <3>3
  <2>3. ASSUME NEW i \in 1..(n + 1), i # 1
        PROVE  h[i - 1] = f[i - 1]
    <3>1. i - 1 \in 1..n
      BY <2>3
    <3> QED
      BY <2>2, <3>1
  <2>4. ASSUME NEW i \in 1..(n + 1)
        PROVE  h[i] = IF i = 1 THEN ss[i] ELSE h[i - 1] \o ss[i]
    <3>1. h[i] = IF i = 1 THEN ss[i] ELSE f[i - 1] \o ss[i]
      OBVIOUS
    <3> HIDE DEF h
    <3> QED
      BY <2>3, <3>1
  <2>5. h = [i \in 1..(n + 1) |-> h[i]]
    OBVIOUS
  <2> HIDE DEF h
  <2>6. h = [i \in 1..(n + 1) |-> IF i = 1 THEN ss[i] ELSE h[i - 1] \o ss[i]]
    BY <2>4, <2>5
  <2>7. Flattens(h, ss, n + 1)
    BY <2>6 DEF Flattens
  <2> QED
    BY <2>7
<1> HIDE DEF S
<1>3. \A n \in Nat : n \in S
  BY <1>1, <1>2, Induction
<1> QED
  BY <1>3 DEF S

\* FlattenSeq goes from one sequence to the next.
LEMMA FlattenUnfolds ==
    ASSUME NEW ss, Len(ss) \in Nat, Len(ss) > 0
    PROVE  \E f : /\ FlattenSeq(ss) = f[Len(ss)] /\ f[1] = ss[1]
                  /\ \A i \in 1..Len(ss) : i > 1 => f[i] = f[i - 1] \o ss[i]
<1> DEFINE f == CHOOSE f : f = [i \in 1..Len(ss) |-> IF i = 1 THEN ss[i] ELSE f[i - 1] \o ss[i]]
<1>1. FlattenSeq(ss) = f[Len(ss)]
  BY DEF FlattenSeq
<1>2. \E g : Flattens(g, ss, Len(ss))
  BY FlattenExists
<1>3. Flattens(f, ss, Len(ss))
  BY <1>2 DEF Flattens
<1> HIDE DEF f
<1>4. \A i \in 1..Len(ss) : f[i] = IF i = 1 THEN ss[i] ELSE f[i - 1] \o ss[i]
  BY <1>3, FlattensAt
<1>5. f[1] = ss[1] /\ \A i \in 1..Len(ss) : i > 1 => f[i] = f[i - 1] \o ss[i]
  <2> DEFINE n == Len(ss)
  <2>1. 1 \in 1..n
    OBVIOUS
  <2>2. f[1] = ss[1]
    BY <1>4, <2>1
  <2>3. ASSUME NEW i \in 1..n, i > 1
        PROVE  f[i] = f[i - 1] \o ss[i]
    <3>1. i # 1
      BY <2>3
    <3>2. f[i] = IF i = 1 THEN ss[i] ELSE f[i - 1] \o ss[i]
      BY <1>4
    <3> QED
      BY <3>1, <3>2
  <2> QED
    BY <2>2, <2>3
<1> QED
  BY <1>1, <1>5

\* Sequences put together are a sequence.
LEMMA FlattenType ==
    ASSUME NEW S, NEW ss \in Seq(Seq(S))
    PROVE  FlattenSeq(ss) \in Seq(S)
<1>1. Len(ss) \in Nat /\ \A i \in 1..Len(ss) : ss[i] \in Seq(S)
  OBVIOUS
<1>2. CASE Len(ss) = 0
  <2>1. FlattenSeq(ss) = ss /\ ss = <<>>
    BY <1>2 DEF FlattenSeq
  <2> QED
    BY <2>1
<1>3. CASE Len(ss) > 0
  <2>1. PICK f : /\ FlattenSeq(ss) = f[Len(ss)] /\ f[1] = ss[1]
                 /\ \A i \in 1..Len(ss) : i > 1 => f[i] = f[i - 1] \o ss[i]
    BY <1>1, <1>3, FlattenUnfolds
  <2> DEFINE T == {n \in Nat : n + 1 <= Len(ss) => f[n + 1] \in Seq(S)}
  <2>2. 0 \in T
    BY <1>1, <1>3, <2>1
  <2>3. ASSUME NEW n \in Nat, n \in T
        PROVE  n + 1 \in T
    <3> SUFFICES ASSUME (n + 1) + 1 <= Len(ss)
                 PROVE  f[(n + 1) + 1] \in Seq(S)
      OBVIOUS
    <3>1. (n + 1) + 1 \in 1..Len(ss) /\ ((n + 1) + 1) - 1 = n + 1 /\ (n + 1) + 1 > 1
      BY <1>1
    <3>2. f[(n + 1) + 1] = f[n + 1] \o ss[(n + 1) + 1]
      BY <2>1, <3>1
    <3>3. f[n + 1] \in Seq(S) /\ ss[(n + 1) + 1] \in Seq(S)
      BY <1>1, <2>3, <3>1
    <3> QED
      BY <3>2, <3>3
  <2> HIDE DEF T
  <2>4. \A n \in Nat : n \in T
    BY <2>2, <2>3, Induction
  <2> DEFINE last == Len(ss) - 1
  <2>5. last \in Nat /\ last + 1 = Len(ss)
    BY <1>1, <1>3
  <2> HIDE DEF last
  <2>6. last \in T
    BY <2>4, <2>5
  <2>7. f[last + 1] \in Seq(S)
    BY <1>1, <2>5, <2>6 DEF T
  <2> QED
    BY <2>1, <2>5, <2>7
<1> QED
  BY <1>1, <1>2, <1>3

-----------------------------------------------------------------------------
(* ProgramPlan: where the hosts enter and leave *)

\* A host enters and leaves exactly where its neighbours do not show it.
MovesOK(scenes, n) ==
    /\ DOMAIN scenes = 1..n
    /\ \A i \in 1..n : Visible(scenes[i]) =>
          /\ scenes[i].enter <=> \/ i = 1 \/ ~Visible(scenes[i - 1])
                                 \/ scenes[i - 1].speaker # scenes[i].speaker
          /\ scenes[i].exit <=> \/ i = n \/ ~Visible(scenes[i + 1])
                                \/ scenes[i + 1].speaker # scenes[i].speaker

\* Some of the first n places has no other of them after it.
LEMMA LastPlace ==
    ASSUME NEW n \in Nat, NEW T \in SUBSET (1..n), T # {}
    PROVE  \E j \in T : \A k \in T : k <= j
<1> DEFINE HasLast(t) == \E j \in t : \A k \in t : k <= j
           S == {m \in Nat : \A t \in SUBSET (1..m) : t # {} => HasLast(t)}
<1>1. 0 \in S
  <2>1. 1..0 = {}
    OBVIOUS
  <2> QED
    BY <2>1
<1>2. ASSUME NEW m \in Nat, m \in S
      PROVE  m + 1 \in S
  <2> SUFFICES ASSUME NEW t \in SUBSET (1..(m + 1)), t # {}
               PROVE  HasLast(t)
    OBVIOUS
  <2>1. CASE m + 1 \in t
    <3>1. \A k \in t : k <= m + 1
      OBVIOUS
    <3> QED
      BY <2>1, <3>1
  <2>2. CASE m + 1 \notin t
    <3>1. t \in SUBSET (1..m)
      BY <2>2
    <3> QED
      BY <1>2, <3>1
  <2> QED
    BY <2>1, <2>2
<1> HIDE DEF S
<1>3. n \in S
  BY <1>1, <1>2, Induction
<1> QED
  BY <1>3 DEF S

\* A visible scene shows the host that entered last, and only that one stays.
LEMMA HostEntersOnce ==
    ASSUME NEW n \in Nat, MovesOK(plan, n), NEW i \in 1..n, Visible(plan[i])
    PROVE  LET before == {j \in 1..(i - 1) : plan[j].exit \/ plan[j].enter \/ ~Visible(plan[j])}
               last   == IF before = {} THEN 0 ELSE CHOOSE j \in before : \A k \in before : k <= j
               onStage == last > 0 /\ Visible(plan[last]) /\ plan[last].enter /\ ~plan[last].exit
           IN  /\ plan[i].enter <=> ~onStage
               /\ onStage => plan[last].speaker = plan[i].speaker
<1> DEFINE before == {j \in 1..(i - 1) : plan[j].exit \/ plan[j].enter \/ ~Visible(plan[j])}
           last   == IF before = {} THEN 0 ELSE CHOOSE j \in before : \A k \in before : k <= j
           onStage == last > 0 /\ Visible(plan[last]) /\ plan[last].enter /\ ~plan[last].exit
           Enters(j) == \/ j = 1 \/ ~Visible(plan[j - 1])
                        \/ plan[j - 1].speaker # plan[j].speaker
           Exits(j) == \/ j = n \/ ~Visible(plan[j + 1])
                        \/ plan[j + 1].speaker # plan[j].speaker
<1>0. \A j \in 1..n : Visible(plan[j]) =>
         (plan[j].enter <=> Enters(j)) /\ (plan[j].exit <=> Exits(j))
  BY DEF MovesOK
<1>1. \A j \in 1..(i - 1) : j \notin before =>
         Visible(plan[j]) /\ ~plan[j].enter /\ ~plan[j].exit
  OBVIOUS
<1>2. before \in SUBSET (1..(i - 1)) /\ i - 1 \in Nat
  OBVIOUS
<1>3. \A j \in before : plan[j].exit \/ plan[j].enter \/ ~Visible(plan[j])
  OBVIOUS
<1> HIDE DEF before
<1>4. CASE before = {}
  <2>1. last = 0 /\ ~onStage
    BY <1>4
  <2>2. i = 1
    <3> SUFFICES ASSUME i # 1
                 PROVE  FALSE
      OBVIOUS
    <3>1. 1 \in 1..(i - 1) /\ 1 \in 1..n
      OBVIOUS
    <3>2. Visible(plan[1]) /\ ~plan[1].enter
      BY <1>1, <1>4, <3>1
    <3> QED
      BY <1>0, <3>1, <3>2
  <2>3. plan[i].enter
    BY <1>0, <2>2
  <2> HIDE DEF last, onStage
  <2> QED
    BY <2>1, <2>3 DEF before, last, onStage
<1>5. CASE before # {}
  <2>1. \E j \in before : \A k \in before : k <= j
    BY <1>2, <1>5, LastPlace
  <2>2. last \in before /\ \A k \in before : k <= last
    <3>1. last = CHOOSE j \in before : \A k \in before : k <= j
      BY <1>5
    <3> QED
      BY <2>1, <3>1
  <2> HIDE DEF last
  <2>3. last \in Nat /\ last >= 1 /\ last < i /\ last \in 1..n /\ i <= n
    BY <1>2, <2>2
  <2>4. ASSUME NEW k \in 1..n, last < k, k < i
        PROVE  Visible(plan[k]) /\ ~plan[k].enter /\ ~plan[k].exit
    <3>1. k \in 1..(i - 1)
      BY <2>4
    <3>2. k \notin before
      BY <2>2, <2>3, <2>4
    <3> QED
      BY <1>1, <3>1, <3>2
  \* Who is visible and does not leave is still there in the next scene.
  <2>5. ASSUME NEW k \in 1..n, k < i, Visible(plan[k]), ~plan[k].exit
        PROVE  Visible(plan[k + 1]) /\ plan[k + 1].speaker = plan[k].speaker
    BY <1>0, <2>5
  <2>6. ASSUME plan[i].enter, onStage
        PROVE  FALSE
    <3>1. i - 1 \in 1..n /\ i - 1 < i /\ (i - 1) + 1 = i /\ i # 1
      BY <2>3
    <3>2. Visible(plan[i - 1]) /\ ~plan[i - 1].exit
      <4>1. CASE last = i - 1
        BY <2>6, <4>1
      <4>2. CASE last # i - 1
        <5>1. last < i - 1
          BY <2>3, <4>2
        <5> QED
          BY <2>4, <3>1, <5>1
      <4> QED
        BY <4>1, <4>2
    <3>3. plan[i].speaker = plan[i - 1].speaker
      <4> DEFINE k == i - 1
      <4>1. k \in 1..n /\ k < i /\ k + 1 = i /\ Visible(plan[k]) /\ ~plan[k].exit
        BY <3>1, <3>2
      <4> HIDE DEF k
      <4>2. plan[k + 1].speaker = plan[k].speaker
        BY <2>5, <4>1
      <4> QED
        BY <4>1, <4>2 DEF k
    <3> QED
      BY <1>0, <2>6, <3>1, <3>2, <3>3
  <2>7. ASSUME ~plan[i].enter
        PROVE  onStage /\ plan[last].speaker = plan[i].speaker
    <3> DEFINE next == last + 1
    <3>1. next \in 1..n /\ next - 1 = last /\ next # 1 /\ last # n /\ last > 0
      BY <2>3
    <3>2. Visible(plan[next]) /\ ~plan[next].enter
      <4>1. CASE next = i
        BY <2>7, <4>1
      <4>2. CASE next # i
        <5>1. last < next /\ next < i
          BY <2>3, <4>2
        <5> HIDE DEF next
        <5> QED
          BY <2>4, <3>1, <5>1
      <4> QED
        BY <4>1, <4>2
    <3>3. Visible(plan[last]) /\ plan[last].speaker = plan[next].speaker
      <4>1. ~Enters(next)
        BY <1>0, <3>1, <3>2
      <4> HIDE DEF next
      <4> QED
        BY <3>1, <4>1
    <3>4. ~plan[last].exit
      <4>1. ~Exits(last)
        BY <3>1, <3>2, <3>3
      <4> QED
        BY <1>0, <2>3, <3>3, <4>1
    <3>5. plan[last].enter
      BY <1>3, <2>2, <3>3, <3>4
    <3>6. onStage
      BY <3>1, <3>3, <3>4, <3>5
    <3> HIDE DEF onStage
    <3> DEFINE S == {m \in Nat : next + m <= i => plan[next + m].speaker = plan[next].speaker}
    <3>7. 0 \in S
      BY <3>1
    <3>8. ASSUME NEW m \in Nat, m \in S
          PROVE  m + 1 \in S
      <4> SUFFICES ASSUME next + (m + 1) <= i
                   PROVE  plan[next + (m + 1)].speaker = plan[next].speaker
        OBVIOUS
      <4> DEFINE k == next + m
      <4>1. k \in 1..n /\ last < k /\ k < i /\ k + 1 = next + (m + 1)
        BY <2>3, <3>1
      <4>2. plan[k].speaker = plan[next].speaker
        BY <3>8, <4>1
      <4> HIDE DEF k, next
      <4>3. Visible(plan[k]) /\ ~plan[k].exit
        BY <2>4, <4>1
      <4>4. plan[k + 1].speaker = plan[k].speaker
        BY <2>5, <4>1, <4>3
      <4> QED
        BY <4>1, <4>2, <4>4
    <3> HIDE DEF S
    <3>9. \A m \in Nat : m \in S
      BY <3>7, <3>8, Induction
    <3> DEFINE m == i - next
    <3>10. m \in Nat /\ next + m = i
      BY <2>3, <3>1
    <3> HIDE DEF m, next
    <3>11. plan[i].speaker = plan[next].speaker
      BY <3>9, <3>10 DEF S
    <3> QED
      BY <3>3, <3>6, <3>11
  <2> HIDE DEF onStage
  <2>8. /\ plan[i].enter <=> ~onStage
        /\ onStage => plan[last].speaker = plan[i].speaker
    BY <1>0, <2>6, <2>7
  <2> QED
    BY <2>8 DEF before, last, onStage
<1> QED
  BY <1>4, <1>5

-----------------------------------------------------------------------------
(* ProgramPlan: the scenes of the stories *)

\* FlattenSeq, beginning with nothing.
LEMMA FlattenPrefixes ==
    ASSUME NEW S, NEW ss \in Seq(Seq(S))
    PROVE  \E f : /\ f[0] = <<>> /\ FlattenSeq(ss) = f[Len(ss)]
                  /\ \A i \in 1..Len(ss) : f[i] = f[i - 1] \o ss[i]
<1>1. Len(ss) \in Nat /\ \A i \in 1..Len(ss) : ss[i] \in Seq(S)
  OBVIOUS
<1>2. CASE Len(ss) = 0
  <2> DEFINE f == [i \in {0} |-> <<>>]
  <2>1. FlattenSeq(ss) = ss /\ ss = <<>>
    BY <1>2 DEF FlattenSeq
  <2>2. f[0] = <<>> /\ FlattenSeq(ss) = f[Len(ss)] /\ 1..Len(ss) = {}
    BY <1>2, <2>1
  <2> HIDE DEF f
  <2> QED
    BY <2>2
<1>3. CASE Len(ss) > 0
  <2>1. PICK g : /\ FlattenSeq(ss) = g[Len(ss)] /\ g[1] = ss[1]
                 /\ \A i \in 1..Len(ss) : i > 1 => g[i] = g[i - 1] \o ss[i]
    BY <1>1, <1>3, FlattenUnfolds
  <2> DEFINE n == Len(ss)
             f == [i \in 0..n |-> IF i = 0 THEN <<>> ELSE g[i]]
  <2>2. f[0] = <<>> /\ f[n] = g[n] /\ \A i \in 1..n : f[i] = g[i]
    BY <1>1, <1>3
  <2>3. ASSUME NEW i \in 1..n
        PROVE  f[i] = f[i - 1] \o ss[i]
    <3>1. CASE i = 1
      <4>1. f[1] = ss[1] /\ f[1 - 1] = <<>> /\ ss[1] \in Seq(S)
        BY <1>1, <2>1, <2>2, <3>1
      <4>2. <<>> \o ss[1] = ss[1]
        BY <4>1
      <4> HIDE DEF f
      <4> QED
        BY <3>1, <4>1, <4>2
    <3>2. CASE i > 1
      <4>1. i - 1 \in 1..n
        BY <1>1, <3>2
      <4>2. f[i] = g[i] /\ f[i - 1] = g[i - 1]
        BY <2>2, <4>1
      <4> HIDE DEF f
      <4> QED
        BY <2>1, <3>2, <4>2
    <3>3. i = 1 \/ i > 1
      BY <1>1
    <3> HIDE DEF f
    <3> QED
      BY <3>1, <3>2, <3>3
  <2> HIDE DEF f
  <2> QED
    BY <2>1, <2>2, <2>3
<1>4. Len(ss) = 0 \/ Len(ss) > 0
  BY <1>1
<1> QED
  BY <1>2, <1>3, <1>4

Told == {"host_evidence", "evidence_fullscreen"}
AllScenes == {Narration(m, g[1], g) : m \in Told, g \in Stories \X Nat}
             \cup {Clip(m, x) : m \in {"source_video", "broll_video"}, x \in Stories}

\* A scene shows its own story.
LEMMA SceneFacts ==
    /\ \A m \in Told, x \in Stories, n \in Nat :
          /\ Narration(m, x, <<x, n>>) \in AllScenes
          /\ Narration(m, x, <<x, n>>).story = x
          /\ Narration(m, x, <<x, n>>).segment = <<x, n>>
          /\ Narration(m, x, <<x, n>>).module = m
    /\ \A m \in {"source_video", "broll_video"}, x \in Stories :
          /\ Clip(m, x) \in AllScenes
          /\ Clip(m, x).story = x /\ Clip(m, x).segment = <<>> /\ Clip(m, x).module = m
    /\ \A x \in AllScenes :
          /\ x = [module |-> x.module, story |-> x.story, segment |-> x.segment,
                  speaker |-> x.speaker, visual |-> x.visual, enter |-> FALSE, exit |-> FALSE]
          /\ x.visual # <<>> => x.visual = <<x.story>> \/ x.visual = x.segment
<1>1. ASSUME NEW m \in Told, NEW x \in Stories, NEW n \in Nat
      PROVE  /\ Narration(m, x, <<x, n>>) \in AllScenes
             /\ Narration(m, x, <<x, n>>).story = x
             /\ Narration(m, x, <<x, n>>).segment = <<x, n>>
             /\ Narration(m, x, <<x, n>>).module = m
  <2> DEFINE g == <<x, n>>
  <2>1. g \in Stories \X Nat /\ g[1] = x
    OBVIOUS
  <2> HIDE DEF g
  <2>2. Narration(m, x, g) \in AllScenes
    <3>1. Narration(m, g[1], g) \in {Narration(q, h[1], h) : q \in Told, h \in Stories \X Nat}
      BY <2>1
    <3> QED
      BY <2>1, <3>1 DEF AllScenes
  <2>3. Narration(m, x, g).story = x /\ Narration(m, x, g).segment = g /\ Narration(m, x, g).module = m
    BY DEF Narration
  <2> QED
    BY <2>2, <2>3 DEF g
<1>2. ASSUME NEW m \in {"source_video", "broll_video"}, NEW x \in Stories
      PROVE  /\ Clip(m, x) \in AllScenes
             /\ Clip(m, x).story = x /\ Clip(m, x).segment = <<>> /\ Clip(m, x).module = m
  <2>1. Clip(m, x) \in AllScenes
    BY DEF AllScenes
  <2>2. Clip(m, x).story = x /\ Clip(m, x).segment = <<>> /\ Clip(m, x).module = m
    BY DEF Clip
  <2> QED
    BY <2>1, <2>2
<1>3. ASSUME NEW x \in AllScenes
      PROVE  /\ x = [module |-> x.module, story |-> x.story, segment |-> x.segment,
                     speaker |-> x.speaker, visual |-> x.visual, enter |-> FALSE, exit |-> FALSE]
             /\ x.visual # <<>> => x.visual = <<x.story>> \/ x.visual = x.segment
  <2>1. CASE \E m \in Told, g \in Stories \X Nat : x = Narration(m, g[1], g)
    <3>1. PICK m \in Told, g \in Stories \X Nat : x = Narration(m, g[1], g)
      BY <2>1
    <3>2. /\ x = [module |-> x.module, story |-> x.story, segment |-> x.segment,
                  speaker |-> x.speaker, visual |-> x.visual, enter |-> FALSE, exit |-> FALSE]
          /\ x.story = g[1] /\ x.segment = g /\ x.visual = SceneVisual(g[1], g)
      BY <3>1 DEF Narration
    <3>3. SceneVisual(g[1], g) \in {<<>>, <<g[1]>>, g}
      BY DEF SceneVisual
    <3> QED
      BY <3>2, <3>3
  <2>2. CASE \E m \in {"source_video", "broll_video"}, y \in Stories : x = Clip(m, y)
    BY <2>2 DEF Clip
  <2> QED
    BY <2>1, <2>2 DEF AllScenes
<1> QED
  BY <1>1, <1>2, <1>3

\* The first n segments of a story are told, with their b-roll.
TellsSegments(s, story, n) ==
    /\ s \in Seq(AllScenes)
    /\ \A k \in 1..Len(s) :
          /\ s[k].story = story /\ s[k].module # "source_video"
          /\ s[k].segment # <<>> => \E j \in 1..n : s[k].segment = <<story, j>>
    /\ \A j \in 1..n : \E k \in 1..Len(s) : s[k].segment = <<story, j>>

\* A whole story is told, then its video is shown and the bridge spoken.
TellsStory(s, story) ==
    /\ s \in Seq(AllScenes)
    /\ \A k \in 1..Len(s) :
          /\ s[k].story = story
          /\ s[k].module = "source_video" => story \in given.media.videos
    /\ \A j \in 1..given.length[story] : \E k \in 1..Len(s) : s[k].segment = <<story, j>>
    /\ \A k, l \in 1..Len(s) :
          s[k].segment # <<>> /\ s[l].module = "source_video" => (k > l <=> s[k].segment[2] = 0)

\* The first n stories of the order are told, one after the other.
TellsStories(s, n) ==
    /\ s \in Seq(AllScenes)
    /\ \A k \in 1..Len(s) :
          /\ \E m \in 1..n : s[k].story = program.order[m]
          /\ s[k].module = "source_video" => s[k].story \in given.media.videos
    /\ \A i, j \in 1..Len(s) :
          i < j /\ s[i].story = s[j].story => \A k \in i..j : s[k].story = s[i].story
    /\ \A m \in 1..n : \A j \in 1..given.length[program.order[m]] :
          \E k \in 1..Len(s) : s[k].segment = <<program.order[m], j>>
    /\ \A k, l \in 1..Len(s) :
          s[k].story = s[l].story /\ s[k].segment # <<>> /\ s[l].module = "source_video" =>
             (k > l <=> s[k].segment[2] = 0)

\* What comes first and what comes after, place by place.
LEMMA Joined ==
    ASSUME NEW S, NEW s \in Seq(S), NEW t \in Seq(S)
    PROVE  /\ s \o t \in Seq(S) /\ Len(s \o t) = Len(s) + Len(t)
           /\ Len(s) \in Nat /\ Len(t) \in Nat
           /\ \A k \in 1..Len(s) : k \in 1..Len(s \o t) /\ (s \o t)[k] = s[k]
           /\ \A k \in 1..Len(t) :
                 Len(s) + k \in 1..Len(s \o t) /\ (s \o t)[Len(s) + k] = t[k]
           /\ \A k \in 1..Len(s \o t) : k > Len(s) =>
                 k - Len(s) \in 1..Len(t) /\ (s \o t)[k] = t[k - Len(s)]
<1> DEFINE u == s \o t
<1>1. /\ u \in Seq(S) /\ Len(u) = Len(s) + Len(t)
      /\ \A i \in 1..(Len(s) + Len(t)) : u[i] = IF i <= Len(s) THEN s[i] ELSE t[i - Len(s)]
  BY ConcatProperties
<1>2. Len(s) \in Nat /\ Len(t) \in Nat
  OBVIOUS
<1> HIDE DEF u
<1>3. \A k \in 1..Len(s) : k \in 1..Len(u) /\ u[k] = s[k]
  BY <1>1, <1>2
<1>4. ASSUME NEW k \in 1..Len(t)
      PROVE  Len(s) + k \in 1..Len(u) /\ u[Len(s) + k] = t[k]
  <2>1. Len(s) + k \in 1..(Len(s) + Len(t)) /\ ~(Len(s) + k <= Len(s)) /\ (Len(s) + k) - Len(s) = k
    BY <1>2
  <2> QED
    BY <1>1, <2>1
<1>5. ASSUME NEW k \in 1..Len(u), k > Len(s)
      PROVE  k - Len(s) \in 1..Len(t) /\ u[k] = t[k - Len(s)]
  <2>1. k \in 1..(Len(s) + Len(t)) /\ ~(k <= Len(s)) /\ k - Len(s) \in 1..Len(t)
    BY <1>1, <1>2, <1>5
  <2> QED
    BY <1>1, <2>1
<1>6. QED
  BY <1>1, <1>2, <1>3, <1>4, <1>5 DEF u

\* What the direction and the scripts are.
Directed ==
    /\ given.length \in [Stories -> 1..MaxSegments]
    /\ program.order \in Orders
    /\ program.module \in [Stories -> Told]
    /\ program.videos \subseteq given.media.videos

\* One and another are two.
LEMMA PairFacts == ASSUME NEW a, NEW b PROVE <<a>> \o <<b>> = <<a, b>>
<1> DEFINE S == {a, b}
           t == <<a>> \o <<b>>
<1>1. <<a>> \in Seq(S) /\ <<b>> \in Seq(S) /\ <<a, b>> \in Seq(S)
  OBVIOUS
<1>2. /\ t \in Seq(S) /\ Len(t) = 2
      /\ \A i \in 1..2 : t[i] = IF i <= 1 THEN a ELSE <<b>>[i - 1]
  BY <1>1, ConcatProperties
<1>3. t[1] = a /\ t[2] = b
  <2>1. 2 - 1 = 1 /\ 1 \in 1..2 /\ 2 \in 1..2 /\ <<b>>[1] = b
    OBVIOUS
  <2> HIDE DEF t
  <2> QED
    BY <1>2, <2>1
<1> HIDE DEF t
<1>4. \A i \in 1..2 : t[i] = <<a, b>>[i]
  BY <1>3
<1>5. t = <<a, b>>
  BY <1>1, <1>2, <1>4, SeqEqual
<1> QED
  BY <1>5 DEF t

\* A segment is told, and its b-roll shown.
LEMMA SegmentIsTold ==
    ASSUME Directed, NEW x \in Stories, NEW j \in Nat
    PROVE  LET w == WithBroll(x, <<x, j>>) IN
           /\ w \in Seq(AllScenes)
           /\ \A k \in 1..Len(w) :
                 /\ w[k].story = x /\ w[k].module # "source_video"
                 /\ w[k].segment # <<>> => w[k].segment = <<x, j>>
           /\ \E k \in 1..Len(w) : w[k].segment = <<x, j>>
<1> DEFINE N == Narration(program.module[x], x, <<x, j>>)
           C == Clip("broll_video", x)
           w == WithBroll(x, <<x, j>>)
<1>1. program.module[x] \in Told
  BY DEF Directed
<1>2. /\ N \in AllScenes /\ N.story = x /\ N.segment = <<x, j>> /\ N.module # "source_video"
      /\ C \in AllScenes /\ C.story = x /\ C.segment = <<>> /\ C.module # "source_video"
  BY <1>1, SceneFacts DEF Told
<1>3. w = <<N>> \o (IF <<x, j>> \in program.broll THEN <<C>> ELSE <<>>)
  BY DEF WithBroll
<1> HIDE DEF N, C, w
<1>4. CASE <<x, j>> \in program.broll
  <2>1. w = <<N, C>>
    <3>1. w = <<N>> \o <<C>>
      BY <1>3, <1>4, Zenon
    <3> QED
      BY <3>1, PairFacts
  <2>2. w \in Seq(AllScenes) /\ Len(w) = 2 /\ w[1] = N /\ w[2] = C
    BY <1>2, <2>1
  <2>3. 1..Len(w) = {1, 2}
    BY <2>2
  <2> QED
    BY <1>2, <2>2, <2>3 DEF w
<1>5. CASE <<x, j>> \notin program.broll
  <2>1. w = <<N>>
    BY <1>3, <1>5
  <2>2. w \in Seq(AllScenes) /\ Len(w) = 1 /\ w[1] = N
    BY <1>2, <2>1
  <2>3. 1..Len(w) = {1}
    BY <2>2
  <2> QED
    BY <1>2, <2>2, <2>3 DEF w
<1> QED
  BY <1>4, <1>5

\* After n segments one more is told.
LEMMA SegmentsGoOn ==
    ASSUME Directed, NEW x \in Stories, NEW n \in Nat, NEW s, TellsSegments(s, x, n)
    PROVE  TellsSegments(s \o WithBroll(x, <<x, n + 1>>), x, n + 1)
<1> DEFINE w == WithBroll(x, <<x, n + 1>>)
           t == s \o w
<1>1. /\ w \in Seq(AllScenes)
      /\ \A k \in 1..Len(w) :
            /\ w[k].story = x /\ w[k].module # "source_video"
            /\ w[k].segment # <<>> => w[k].segment = <<x, n + 1>>
      /\ \E k \in 1..Len(w) : w[k].segment = <<x, n + 1>>
  <2> DEFINE m == n + 1
  <2>1. m \in Nat
    OBVIOUS
  <2> HIDE DEF m
  <2>2. LET v == WithBroll(x, <<x, m>>) IN
        /\ v \in Seq(AllScenes)
        /\ \A k \in 1..Len(v) :
              /\ v[k].story = x /\ v[k].module # "source_video"
              /\ v[k].segment # <<>> => v[k].segment = <<x, m>>
        /\ \E k \in 1..Len(v) : v[k].segment = <<x, m>>
    BY <2>1, SegmentIsTold
  <2> QED
    BY <2>2, Zenon DEF m
<1>2. s \in Seq(AllScenes)
  BY DEF TellsSegments
<1> HIDE DEF w
<1>3. /\ t \in Seq(AllScenes) /\ Len(s) \in Nat
      /\ \A k \in 1..Len(s) : k \in 1..Len(t) /\ t[k] = s[k]
      /\ \A k \in 1..Len(w) : Len(s) + k \in 1..Len(t) /\ t[Len(s) + k] = w[k]
      /\ \A k \in 1..Len(t) : k > Len(s) => k - Len(s) \in 1..Len(w) /\ t[k] = w[k - Len(s)]
  BY <1>1, <1>2, Joined
<1>4. Len(t) \in Nat
  BY <1>3
<1> HIDE DEF t
<1>5. ASSUME NEW k \in 1..Len(t)
      PROVE  /\ t[k].story = x /\ t[k].module # "source_video"
             /\ t[k].segment # <<>> => \E j \in 1..(n + 1) : t[k].segment = <<x, j>>
  <2>1. CASE k > Len(s)
    <3> DEFINE i == k - Len(s)
    <3>1. n + 1 \in 1..(n + 1)
      OBVIOUS
    <3>2. i \in 1..Len(w) /\ t[k] = w[i]
      BY <1>3, <2>1
    <3> HIDE DEF i
    <3>3. /\ w[i].story = x /\ w[i].module # "source_video"
          /\ w[i].segment # <<>> => w[i].segment = <<x, n + 1>>
      BY <1>1, <3>2
    <3> QED
      BY <3>1, <3>2, <3>3
  <2>2. CASE ~(k > Len(s))
    <3>1. k \in 1..Len(s) /\ t[k] = s[k]
      BY <1>3, <1>4, <2>2
    <3>2. \A j \in 1..n : j \in 1..(n + 1)
      OBVIOUS
    <3> QED
      BY <3>1, <3>2 DEF TellsSegments
  <2> QED
    BY <2>1, <2>2
<1>6. ASSUME NEW j \in 1..(n + 1)
      PROVE  \E k \in 1..Len(t) : t[k].segment = <<x, j>>
  <2>1. CASE j = n + 1
    <3>1. PICK k \in 1..Len(w) : w[k].segment = <<x, n + 1>>
      BY <1>1
    <3>2. Len(s) + k \in 1..Len(t) /\ t[Len(s) + k] = w[k]
      BY <1>3
    <3> QED
      BY <2>1, <3>1, <3>2
  <2>2. CASE j # n + 1
    <3>1. j \in 1..n
      BY <2>2
    <3>2. PICK k \in 1..Len(s) : s[k].segment = <<x, j>>
      BY <3>1 DEF TellsSegments
    <3> QED
      BY <1>3, <3>2
  <2> QED
    BY <2>1, <2>2
<1>7. TellsSegments(t, x, n + 1)
  BY <1>3, <1>5, <1>6 DEF TellsSegments
<1> QED
  BY <1>7 DEF t, w

\* So all of them are.
LEMMA SegmentsAreTold ==
    ASSUME Directed, NEW x \in Stories
    PROVE  TellsSegments(FlattenSeq([j \in 1..given.length[x] |-> WithBroll(x, <<x, j>>)]),
                         x, given.length[x])
<1> DEFINE n == given.length[x]
           ss == [j \in 1..n |-> WithBroll(x, <<x, j>>)]
<1>1. n \in Nat
  BY ProgramAssumption DEF Directed
<1> HIDE DEF n
<1>2. ss \in Seq(Seq(AllScenes)) /\ Len(ss) = n
  <2>1. ASSUME NEW j \in 1..n
        PROVE  WithBroll(x, <<x, j>>) \in Seq(AllScenes)
    BY SegmentIsTold
  <2> QED
    BY <1>1, <2>1
<1>3. \A j \in 1..n : ss[j] = WithBroll(x, <<x, j>>)
  OBVIOUS
<1> HIDE DEF ss
<1>4. PICK f : /\ f[0] = <<>> /\ FlattenSeq(ss) = f[n]
               /\ \A i \in 1..n : f[i] = f[i - 1] \o ss[i]
  BY <1>2, FlattenPrefixes
<1> DEFINE S == {m \in Nat : m <= n => TellsSegments(f[m], x, m)}
<1>5. 0 \in S
  <2>1. <<>> \in Seq(AllScenes) /\ Len(<<>>) = 0 /\ 1..0 = {}
    OBVIOUS
  <2>2. TellsSegments(<<>>, x, 0)
    BY <2>1 DEF TellsSegments
  <2> QED
    BY <1>4, <2>2
<1>6. ASSUME NEW m \in Nat, m \in S
      PROVE  m + 1 \in S
  <2> SUFFICES ASSUME m + 1 <= n
               PROVE  TellsSegments(f[m + 1], x, m + 1)
    OBVIOUS
  <2>1. m + 1 \in 1..n /\ (m + 1) - 1 = m
    BY <1>1
  <2>2. TellsSegments(f[m], x, m)
    BY <1>1, <1>6
  <2> HIDE DEF S
  <2>3. f[m + 1] = f[m] \o WithBroll(x, <<x, m + 1>>)
    BY <1>3, <1>4, <2>1
  <2> QED
    BY <2>2, <2>3, SegmentsGoOn
<1> HIDE DEF S
<1>7. n \in S
  BY <1>1, <1>5, <1>6, Induction
<1>8. TellsSegments(f[n], x, n)
  BY <1>1, <1>7 DEF S
<1> QED
  BY <1>4, <1>8 DEF n, ss

\* One more at the end.
LEMMA Appended ==
    ASSUME NEW S, NEW s \in Seq(S), NEW c \in S
    PROVE  /\ s \o <<c>> \in Seq(S) /\ Len(s \o <<c>>) = Len(s) + 1 /\ Len(s) \in Nat
           /\ \A k \in 1..Len(s) : k \in 1..Len(s \o <<c>>) /\ (s \o <<c>>)[k] = s[k]
           /\ Len(s) + 1 \in 1..Len(s \o <<c>>) /\ (s \o <<c>>)[Len(s) + 1] = c
<1> DEFINE d == <<c>>
<1>1. d \in Seq(S) /\ Len(d) = 1 /\ d[1] = c /\ 1 \in 1..Len(d)
  OBVIOUS
<1> HIDE DEF d
<1> DEFINE u == s \o d
<1>2. /\ u \in Seq(S) /\ Len(u) = Len(s) + Len(d) /\ Len(s) \in Nat
      /\ \A i \in 1..(Len(s) + Len(d)) : u[i] = IF i <= Len(s) THEN s[i] ELSE d[i - Len(s)]
  BY <1>1, ConcatProperties
<1> HIDE DEF u
<1>3. Len(u) = Len(s) + 1 /\ \A k \in 1..Len(s) : k \in 1..Len(u) /\ u[k] = s[k]
  BY <1>1, <1>2
<1>4. Len(s) + 1 \in 1..Len(u) /\ u[Len(s) + 1] = c
  <2>1. /\ Len(s) + 1 \in 1..(Len(s) + Len(d)) /\ ~(Len(s) + 1 <= Len(s))
        /\ (Len(s) + 1) - Len(s) = 1
    BY <1>1, <1>2
  <2> QED
    BY <1>1, <1>2, <1>3, <2>1
<1> QED
  BY <1>2, <1>3, <1>4 DEF u, d

\* A video after segments, or the bridge at the end, leaves a story whole.
LEMMA StoryGoesOn ==
    ASSUME NEW x, NEW s, TellsStory(s, x), NEW c \in AllScenes, c.story = x,
           c.module = "source_video" => x \in given.media.videos,
           \/ /\ c.module = "source_video" /\ c.segment = <<>>
              /\ \A k \in 1..Len(s) : s[k].segment # <<>> => s[k].segment[2] # 0
           \/ c.module # "source_video" /\ c.segment[2] = 0
    PROVE  TellsStory(s \o <<c>>, x)
<1> DEFINE t == s \o <<c>>
           n == Len(s)
<1>1. /\ s \in Seq(AllScenes)
      /\ \A k \in 1..n :
            /\ s[k].story = x
            /\ s[k].module = "source_video" => x \in given.media.videos
      /\ \A j \in 1..given.length[x] : \E k \in 1..n : s[k].segment = <<x, j>>
      /\ \A k, l \in 1..n :
            s[k].segment # <<>> /\ s[l].module = "source_video" => (k > l <=> s[k].segment[2] = 0)
  BY DEF TellsStory
<1>2. /\ t \in Seq(AllScenes) /\ Len(t) = n + 1 /\ n \in Nat
      /\ (\A k \in 1..n : k \in 1..Len(t) /\ t[k] = s[k])
      /\ n + 1 \in 1..Len(t) /\ t[n + 1] = c
  BY <1>1, Appended
<1> HIDE DEF t, n
<1>3. ASSUME NEW k \in 1..Len(t)
      PROVE  (k \in 1..n /\ t[k] = s[k]) \/ (k = n + 1 /\ t[k] = c)
  <2>1. k \in 1..n \/ k = n + 1
    BY <1>2
  <2> QED
    BY <1>2, <2>1
<1>4. ASSUME NEW k \in 1..Len(t)
      PROVE  /\ t[k].story = x
             /\ t[k].module = "source_video" => x \in given.media.videos
  BY <1>1, <1>3
<1>5. ASSUME NEW j \in 1..given.length[x]
      PROVE  \E k \in 1..Len(t) : t[k].segment = <<x, j>>
  <2>1. PICK k \in 1..n : s[k].segment = <<x, j>>
    BY <1>1
  <2> QED
    BY <1>2, <2>1
<1>6. ASSUME NEW k \in 1..Len(t), NEW l \in 1..Len(t), t[k].segment # <<>>,
             t[l].module = "source_video"
      PROVE  k > l <=> t[k].segment[2] = 0
  <2>1. CASE k \in 1..n /\ l \in 1..n
    BY <1>1, <1>2, <1>6, <2>1
  <2>2. CASE k = n + 1 /\ l \in 1..n
    <3>1. t[k] = c /\ k > l
      BY <1>2, <2>2
    <3>2. c.segment[2] = 0
      BY <1>6, <3>1
    <3> QED
      BY <3>1, <3>2
  <2>3. CASE k \in 1..n /\ l = n + 1
    <3>1. t[l] = c /\ ~(k > l) /\ t[k] = s[k]
      BY <1>2, <2>3
    <3>2. s[k].segment[2] # 0
      BY <1>6, <2>3, <3>1 DEF n
    <3> QED
      BY <3>1, <3>2
  <2>4. CASE k = n + 1 /\ l = n + 1
    <3>1. t[k] = c /\ t[l] = c /\ ~(k > l)
      BY <1>2, <2>4
    <3> QED
      BY <1>6, <3>1
  <2> QED
    BY <1>3, <2>1, <2>2, <2>3, <2>4
<1>7. TellsStory(t, x)
  BY <1>2, <1>4, <1>5, <1>6 DEF TellsStory
<1> QED
  BY <1>7 DEF t

\* The scenes of a story tell it whole.
LEMMA StoryIsTold ==
    ASSUME Directed, NEW i \in DOMAIN program.order
    PROVE  TellsStory(StoryScenes(i), program.order[i])
<1> DEFINE x == program.order[i]
           A == FlattenSeq([j \in 1..given.length[x] |-> WithBroll(x, <<x, j>>)])
           V == Clip("source_video", x)
           B == Narration("host_evidence", x, BridgeOf(x))
           told == A \o (IF x \in program.videos THEN <<V>> ELSE <<>>)
           all == told \o (IF i < Len(program.order) THEN <<B>> ELSE <<>>)
<1>1. StoryScenes(i) = all
  BY DEF StoryScenes
<1>2. x \in Stories
  BY DEF Directed, Orders
<1> HIDE DEF x
<1>3. /\ V \in AllScenes /\ V.story = x /\ V.segment = <<>> /\ V.module = "source_video"
      /\ B \in AllScenes /\ B.story = x /\ B.segment[2] = 0 /\ B.module # "source_video"
  BY <1>2, SceneFacts DEF Told, BridgeOf
<1>4. TellsSegments(A, x, given.length[x])
  BY <1>2, SegmentsAreTold
<1> HIDE DEF A, V, B
<1>5. TellsStory(A, x) /\ \A k \in 1..Len(A) : A[k].segment # <<>> => A[k].segment[2] # 0
  <2>1. ASSUME NEW k \in 1..Len(A), A[k].segment # <<>>
        PROVE  A[k].segment[2] # 0
    <3>1. PICK j \in 1..given.length[x] : A[k].segment = <<x, j>>
      BY <1>4, <2>1 DEF TellsSegments
    <3>2. <<x, j>>[2] = j /\ j # 0
      OBVIOUS
    <3> QED
      BY <3>1, <3>2
  <2> QED
    BY <1>4, <2>1 DEF TellsSegments, TellsStory
<1>6. A \in Seq(AllScenes) /\ A \o <<>> = A
  <2>1. A \in Seq(AllScenes)
    BY <1>4 DEF TellsSegments
  <2> QED
    BY <2>1
<1>7. TellsStory(told, x)
  <2>1. CASE x \in program.videos
    <3>1. told = A \o <<V>>
      BY <2>1
    <3>2. x \in given.media.videos
      BY <2>1 DEF Directed
    <3> QED
      BY <1>3, <1>5, <3>1, <3>2, StoryGoesOn
  <2>2. CASE x \notin program.videos
    BY <1>5, <1>6, <2>2
  <2> QED
    BY <2>1, <2>2
<1> HIDE DEF told
<1>8. told \in Seq(AllScenes) /\ told \o <<>> = told
  <2>1. told \in Seq(AllScenes)
    BY <1>7 DEF TellsStory
  <2> QED
    BY <2>1
<1>9. TellsStory(all, x)
  <2>1. CASE i < Len(program.order)
    <3>1. all = told \o <<B>>
      BY <2>1
    <3> QED
      BY <1>3, <1>7, <3>1, StoryGoesOn
  <2>2. CASE ~(i < Len(program.order))
    BY <1>7, <1>8, <2>2
  <2> QED
    BY <2>1, <2>2
<1> QED
  BY <1>1, <1>9 DEF x

\* An order has every story once.
LEMMA OrderFacts ==
    ASSUME Directed
    PROVE  LET n == Cardinality(Stories) IN
           /\ n \in Nat /\ DOMAIN program.order = 1..n /\ Len(program.order) = n
           /\ \A m \in 1..n : program.order[m] \in Stories
           /\ \A x \in Stories : \E m \in 1..n : program.order[m] = x
           /\ \A l, m \in 1..n : l # m => program.order[l] # program.order[m]
<1> DEFINE n == Cardinality(Stories)
           o == program.order
<1>1. n \in Nat
  BY ProgramAssumption, FS_CardinalityType
<1>2. o \in [1..n -> Stories] /\ \A x \in Stories : \E m \in 1..n : o[m] = x
  BY DEF Directed, Orders, Range
<1>3. IsFiniteSet(1..n) /\ Cardinality(1..n) = n
  BY <1>1, FS_Interval
<1>4. o \in Surjection(1..n, Stories)
  BY <1>2 DEF Surjection
<1>5. o \in Injection(1..n, Stories)
  BY <1>3, <1>4, FS_SurjSameCardinalityImpliesInj
<1>6. \A l, m \in 1..n : l # m => o[l] # o[m]
  BY <1>5 DEF Injection, IsInjective
<1>7. DOMAIN o = 1..n /\ Len(o) = n
  BY <1>1, <1>2
<1> QED
  BY <1>1, <1>2, <1>6, <1>7

\* After n stories the next is told.
LEMMA StoriesGoOn ==
    ASSUME Directed, NEW n \in Nat, n + 1 \in 1..Cardinality(Stories),
           NEW s, TellsStories(s, n), NEW b, TellsStory(b, program.order[n + 1])
    PROVE  TellsStories(s \o b, n + 1)
<1> DEFINE t == s \o b
           L == Len(s)
           x == program.order[n + 1]
<1>1. /\ s \in Seq(AllScenes)
      /\ \A k \in 1..L :
            /\ \E m \in 1..n : s[k].story = program.order[m]
            /\ s[k].module = "source_video" => s[k].story \in given.media.videos
      /\ \A i, j \in 1..L :
            i < j /\ s[i].story = s[j].story => \A k \in i..j : s[k].story = s[i].story
      /\ \A m \in 1..n : \A j \in 1..given.length[program.order[m]] :
            \E k \in 1..L : s[k].segment = <<program.order[m], j>>
      /\ \A k, l \in 1..L :
            s[k].story = s[l].story /\ s[k].segment # <<>> /\ s[l].module = "source_video" =>
               (k > l <=> s[k].segment[2] = 0)
  BY DEF TellsStories
<1>2. /\ b \in Seq(AllScenes)
      /\ \A k \in 1..Len(b) :
            /\ b[k].story = x
            /\ b[k].module = "source_video" => x \in given.media.videos
      /\ \A j \in 1..given.length[x] : \E k \in 1..Len(b) : b[k].segment = <<x, j>>
      /\ \A k, l \in 1..Len(b) :
            b[k].segment # <<>> /\ b[l].module = "source_video" => (k > l <=> b[k].segment[2] = 0)
  BY DEF TellsStory
<1>3. /\ t \in Seq(AllScenes) /\ L \in Nat /\ Len(t) = L + Len(b) /\ Len(b) \in Nat
      /\ \A k \in 1..L : k \in 1..Len(t) /\ t[k] = s[k]
      /\ \A k \in 1..Len(b) : L + k \in 1..Len(t) /\ t[L + k] = b[k]
      /\ \A k \in 1..Len(t) : k > L => k - L \in 1..Len(b) /\ t[k] = b[k - L]
  BY <1>1, <1>2, Joined
<1>4. \A m \in 1..n : program.order[m] # x
  <2>1. \A m \in 1..n : m \in 1..Cardinality(Stories) /\ m # n + 1
    BY OrderFacts
  <2> QED
    BY <2>1, OrderFacts
<1> HIDE DEF t, L, x
\* What was there before, and what is new.
<1>5. ASSUME NEW k \in 1..Len(t), ~(k > L)
      PROVE  k \in 1..L /\ t[k] = s[k] /\ t[k].story # x
  <2>1. k \in 1..L /\ t[k] = s[k]
    BY <1>3, <1>5
  <2> QED
    BY <1>1, <1>4, <2>1
<1>6. ASSUME NEW k \in 1..Len(t), k > L
      PROVE  k - L \in 1..Len(b) /\ t[k] = b[k - L] /\ t[k].story = x
  <2> DEFINE i == k - L
  <2>1. i \in 1..Len(b) /\ t[k] = b[i]
    BY <1>3, <1>6
  <2> HIDE DEF i
  <2>2. b[i].story = x
    BY <1>2, <2>1
  <2> QED
    BY <2>1, <2>2 DEF i
<1>7. ASSUME NEW k \in 1..Len(t)
      PROVE  /\ \E m \in 1..(n + 1) : t[k].story = program.order[m]
             /\ t[k].module = "source_video" => t[k].story \in given.media.videos
  <2>1. CASE k > L
    <3> DEFINE i == k - L
    <3>1. i \in 1..Len(b) /\ t[k] = b[i] /\ t[k].story = x
      BY <1>6, <2>1
    <3> HIDE DEF i
    <3>2. n + 1 \in 1..(n + 1)
      OBVIOUS
    <3> QED
      BY <1>2, <3>1, <3>2 DEF x
  <2>2. CASE ~(k > L)
    <3>1. k \in 1..L /\ t[k] = s[k]
      BY <1>5, <2>2
    <3>2. \A m \in 1..n : m \in 1..(n + 1)
      OBVIOUS
    <3> QED
      BY <1>1, <3>1, <3>2
  <2> QED
    BY <2>1, <2>2
<1>8. ASSUME NEW i \in 1..Len(t), NEW j \in 1..Len(t), i < j, t[i].story = t[j].story,
             NEW k \in i..j
      PROVE  t[k].story = t[i].story
  <2>1. k \in 1..Len(t) /\ i <= k /\ k <= j
    BY <1>3
  <2>2. CASE i > L
    <3>1. k > L
      BY <1>3, <2>1, <2>2
    <3> QED
      BY <1>6, <2>1, <2>2, <3>1
  <2>3. CASE ~(i > L)
    <3>1. ~(j > L)
      BY <1>5, <1>6, <1>8, <2>3
    <3>2. ~(k > L)
      BY <1>3, <2>1, <3>1
    <3>3. /\ i \in 1..L /\ t[i] = s[i] /\ j \in 1..L /\ t[j] = s[j]
          /\ k \in 1..L /\ t[k] = s[k]
      BY <1>5, <2>1, <2>3, <3>1, <3>2
    <3>4. s[i].story = s[j].story
      BY <1>8, <3>3
    <3> QED
      BY <1>1, <1>8, <3>3, <3>4
  <2> QED
    BY <2>2, <2>3
<1>9. ASSUME NEW m \in 1..(n + 1), NEW j \in 1..given.length[program.order[m]]
      PROVE  \E k \in 1..Len(t) : t[k].segment = <<program.order[m], j>>
  <2>1. CASE m = n + 1
    <3>1. PICK k \in 1..Len(b) : b[k].segment = <<x, j>>
      BY <1>2, <2>1 DEF x
    <3>2. L + k \in 1..Len(t) /\ t[L + k] = b[k]
      BY <1>3
    <3> QED
      BY <2>1, <3>1, <3>2 DEF x
  <2>2. CASE m # n + 1
    <3>1. m \in 1..n
      BY <2>2
    <3>2. PICK k \in 1..L : s[k].segment = <<program.order[m], j>>
      BY <1>1, <3>1
    <3> QED
      BY <1>3, <3>2
  <2> QED
    BY <2>1, <2>2
<1>10. ASSUME NEW k \in 1..Len(t), NEW l \in 1..Len(t), t[k].story = t[l].story,
              t[k].segment # <<>>, t[l].module = "source_video"
       PROVE  k > l <=> t[k].segment[2] = 0
  <2>1. CASE k > L
    <3>1. l > L
      BY <1>5, <1>6, <1>10, <2>1
    <3> DEFINE i == k - L
               j == l - L
    <3>2. /\ i \in 1..Len(b) /\ t[k] = b[i] /\ j \in 1..Len(b) /\ t[l] = b[j]
          /\ (k > l <=> i > j)
      BY <1>3, <1>6, <2>1, <3>1
    <3> HIDE DEF i, j
    <3>3. i > j <=> b[i].segment[2] = 0
      BY <1>2, <1>10, <3>2
    <3> QED
      BY <3>2, <3>3
  <2>2. CASE ~(k > L)
    <3>1. ~(l > L)
      BY <1>5, <1>6, <1>10, <2>2
    <3>2. k \in 1..L /\ t[k] = s[k] /\ l \in 1..L /\ t[l] = s[l]
      BY <1>5, <2>2, <3>1
    <3>3. s[k].story = s[l].story /\ s[k].segment # <<>> /\ s[l].module = "source_video"
      BY <1>10, <3>2
    <3>4. k > l <=> s[k].segment[2] = 0
      BY <1>1, <3>2, <3>3
    <3> QED
      BY <3>2, <3>4
  <2> QED
    BY <2>1, <2>2
<1>11. TellsStories(t, n + 1)
  BY <1>3, <1>7, <1>8, <1>9, <1>10 DEF TellsStories
<1> QED
  BY <1>11 DEF t

\* The scenes of a programme tell its stories.
LEMMA ProgramIsTold ==
    ASSUME Directed
    PROVE  TellsStories(SceneSpecs, Cardinality(Stories))
<1> DEFINE n == Cardinality(Stories)
           ss == [i \in DOMAIN program.order |-> StoryScenes(i)]
<1>1. n \in Nat /\ DOMAIN program.order = 1..n
  BY OrderFacts
<1>2. \A i \in 1..n : TellsStory(StoryScenes(i), program.order[i])
  BY <1>1, StoryIsTold
<1> HIDE DEF n
<1>3. ss \in Seq(Seq(AllScenes)) /\ Len(ss) = n /\ \A i \in 1..n : ss[i] = StoryScenes(i)
  <2>1. \A i \in 1..n : StoryScenes(i) \in Seq(AllScenes)
    BY <1>2 DEF TellsStory
  <2> QED
    BY <1>1, <2>1
<1> HIDE DEF ss
<1>4. PICK f : /\ f[0] = <<>> /\ FlattenSeq(ss) = f[n]
               /\ \A i \in 1..n : f[i] = f[i - 1] \o ss[i]
  BY <1>3, FlattenPrefixes
<1> DEFINE S == {m \in Nat : m <= n => TellsStories(f[m], m)}
<1>5. 0 \in S
  <2>1. <<>> \in Seq(AllScenes) /\ Len(<<>>) = 0 /\ 1..0 = {}
    OBVIOUS
  <2>2. TellsStories(<<>>, 0)
    BY <2>1 DEF TellsStories
  <2> QED
    BY <1>4, <2>2
<1>6. ASSUME NEW m \in Nat, m \in S
      PROVE  m + 1 \in S
  <2> SUFFICES ASSUME m + 1 <= n
               PROVE  TellsStories(f[m + 1], m + 1)
    OBVIOUS
  <2>1. m + 1 \in 1..n /\ (m + 1) - 1 = m
    BY <1>1
  <2>2. TellsStories(f[m], m)
    BY <1>1, <1>6
  <2> HIDE DEF S
  <2>3. f[m + 1] = f[m] \o StoryScenes(m + 1)
    BY <1>3, <1>4, <2>1
  <2> QED
    BY <1>2, <2>1, <2>2, <2>3, StoriesGoOn DEF n
<1> HIDE DEF S
<1>7. n \in S
  BY <1>1, <1>5, <1>6, Induction
<1>8. TellsStories(f[n], n)
  BY <1>1, <1>7 DEF S
<1> QED
  BY <1>4, <1>8 DEF n, ss, SceneSpecs

\* A scene has these fields, and no host moves in it yet.
SceneFields(x) ==
    x = [module |-> x.module, story |-> x.story, segment |-> x.segment,
         speaker |-> x.speaker, visual |-> x.visual, enter |-> FALSE, exit |-> FALSE]

\* A scene in which a host moves is otherwise the same.
LEMMA MovedScene ==
    ASSUME NEW x, SceneFields(x), NEW a \in BOOLEAN, NEW b \in BOOLEAN
    PROVE  LET y == [x EXCEPT !.enter = a, !.exit = b] IN
           /\ y.module = x.module /\ y.story = x.story /\ y.segment = x.segment
           /\ y.speaker = x.speaker /\ y.visual = x.visual
           /\ y.enter = a /\ y.exit = b
BY DEF SceneFields

\* The second pass moves the hosts and leaves the rest of the scenes alone.
LEMMA HostMovesFacts ==
    ASSUME NEW s \in Seq(AllScenes)
    PROVE  LET p == HostMoves(s) IN
           /\ MovesOK(p, Len(s))
           /\ \A i \in 1..Len(s) :
                 /\ p[i].module = s[i].module /\ p[i].story = s[i].story
                 /\ p[i].segment = s[i].segment /\ p[i].visual = s[i].visual
                 /\ p[i].speaker = s[i].speaker /\ (~Visible(s[i]) => p[i] = s[i])
<1> DEFINE n == Len(s)
           p == HostMoves(s)
           Enters(i) == \/ i = 1 \/ ~Visible(s[i - 1])
                        \/ s[i - 1].speaker # s[i].speaker
           Exits(i) == \/ i = n \/ ~Visible(s[i + 1])
                        \/ s[i + 1].speaker # s[i].speaker
           Scene(i) == IF ~Visible(s[i]) THEN s[i]
                       ELSE [s[i] EXCEPT !.enter = Enters(i), !.exit = Exits(i)]
<1>1. DOMAIN s = 1..n /\ n \in Nat /\ \A i \in 1..n : s[i] \in AllScenes
  OBVIOUS
<1>2. p = [i \in 1..n |-> Scene(i)]
  BY <1>1 DEF HostMoves
<1>3. \A i : Enters(i) \in BOOLEAN /\ Exits(i) \in BOOLEAN
  OBVIOUS
<1> HIDE DEF p
<1>4. ASSUME NEW i \in 1..n
      PROVE  /\ p[i].module = s[i].module /\ p[i].story = s[i].story
             /\ p[i].segment = s[i].segment /\ p[i].visual = s[i].visual
             /\ p[i].speaker = s[i].speaker
             /\ Visible(s[i]) => p[i].enter = Enters(i) /\ p[i].exit = Exits(i)
             /\ ~Visible(s[i]) => p[i] = s[i]
  <2>1. CASE ~Visible(s[i])
    <3> HIDE DEF Enters, Exits
    <3>1. Scene(i) = s[i]
      BY <2>1
    <3> HIDE DEF Scene
    <3> QED
      BY <1>2, <2>1, <3>1
  <2>2. CASE Visible(s[i])
    <3> DEFINE a == Enters(i)
               b == Exits(i)
               y == [s[i] EXCEPT !.enter = a, !.exit = b]
    <3>1. a \in BOOLEAN /\ b \in BOOLEAN
      BY <1>3
    <3> HIDE DEF a, b
    <3>2. /\ y.module = s[i].module /\ y.story = s[i].story /\ y.segment = s[i].segment
          /\ y.speaker = s[i].speaker /\ y.visual = s[i].visual
          /\ y.enter = a /\ y.exit = b
      <4>1. SceneFields(s[i])
        BY <1>1, SceneFacts DEF SceneFields
      <4> QED
        BY <3>1, <4>1, MovedScene
    <3>3. Scene(i) = y
      BY <2>2 DEF a, b
    <3> HIDE DEF Scene, y
    <3>4. p[i] = y
      BY <1>2, <3>3
    <3> HIDE DEF Enters, Exits
    <3> QED
      BY <2>2, <3>2, <3>4 DEF a, b
  <2> QED
    BY <2>1, <2>2
<1>5. \A i \in 1..n : Visible(p[i]) <=> Visible(s[i])
  BY <1>4 DEF Visible
<1>6. DOMAIN p = 1..n
  BY <1>2
<1>7. ASSUME NEW i \in 1..n, Visible(p[i])
      PROVE  /\ p[i].enter <=> \/ i = 1 \/ ~Visible(p[i - 1])
                               \/ p[i - 1].speaker # p[i].speaker
             /\ p[i].exit <=> \/ i = n \/ ~Visible(p[i + 1])
                              \/ p[i + 1].speaker # p[i].speaker
  <2>1. p[i].enter = Enters(i) /\ p[i].exit = Exits(i) /\ p[i].speaker = s[i].speaker
    BY <1>4, <1>5, <1>7
  <2>2. i # 1 => /\ Visible(p[i - 1]) <=> Visible(s[i - 1])
                 /\ p[i - 1].speaker = s[i - 1].speaker
    <3> DEFINE j == i - 1
    <3> SUFFICES ASSUME i # 1 PROVE (Visible(p[j]) <=> Visible(s[j])) /\ p[j].speaker = s[j].speaker
      OBVIOUS
    <3>1. j \in 1..n
      <4>1. n \in Nat
        BY <1>1
      <4> HIDE DEF n
      <4> QED
        BY <4>1
    <3> HIDE DEF j
    <3> QED
      BY <1>4, <1>5, <3>1
  <2>3. i # n => /\ Visible(p[i + 1]) <=> Visible(s[i + 1])
                 /\ p[i + 1].speaker = s[i + 1].speaker
    <3> DEFINE j == i + 1
    <3> SUFFICES ASSUME i # n PROVE (Visible(p[j]) <=> Visible(s[j])) /\ p[j].speaker = s[j].speaker
      OBVIOUS
    <3>1. j \in 1..n
      <4>1. n \in Nat
        BY <1>1
      <4> HIDE DEF n
      <4> QED
        BY <4>1
    <3> HIDE DEF j
    <3> QED
      BY <1>4, <1>5, <3>1
  <2>4. p[i].enter <=> Enters(i)
    BY <1>3, <2>1
  <2>5. p[i].exit <=> Exits(i)
    BY <1>3, <2>1
  <2> QED
    BY <2>1, <2>2, <2>3, <2>4, <2>5
<1>8. MovesOK(p, n)
  BY <1>6, <1>7 DEF MovesOK
<1> QED
  BY <1>4, <1>8 DEF p

\* What StoriesStayWhole asks of the scenes s.
Whole(s) ==
    /\ \A i, j \in DOMAIN s :
          i < j /\ s[i].story = s[j].story =>
             \A k \in i..j : s[k].story = s[i].story
    /\ \A story \in Stories : \A n \in 1..given.length[story] :
          \E i \in DOMAIN s : s[i].segment = <<story, n>>
    /\ \A i, j \in DOMAIN s :
          /\ s[i].story = s[j].story
          /\ s[i].segment # <<>> /\ s[j].module = "source_video"
          => (i > j <=> s[i].segment[2] = 0)
    /\ \A i \in DOMAIN s :
          /\ s[i].module = "source_video" => s[i].story \in given.media.videos
          /\ s[i].visual # <<>> =>
             s[i].visual = <<s[i].story>> \/ s[i].visual = s[i].segment

\* The scenes of a programme are whole, and stay so when the hosts move.
LEMMA ProgramIsWhole ==
    ASSUME Directed
    PROVE  Whole(HostMoves(SceneSpecs)) /\ \E n \in Nat : MovesOK(HostMoves(SceneSpecs), n)
<1> DEFINE s == SceneSpecs
           p == HostMoves(s)
           c == Cardinality(Stories)
<1>1. TellsStories(s, c)
  BY ProgramIsTold
<1> HIDE DEF s, c
<1>2. /\ s \in Seq(AllScenes)
      /\ \A k \in 1..Len(s) : s[k].module = "source_video" => s[k].story \in given.media.videos
      /\ \A i, j \in 1..Len(s) :
            i < j /\ s[i].story = s[j].story => \A k \in i..j : s[k].story = s[i].story
      /\ \A m \in 1..c : \A j \in 1..given.length[program.order[m]] :
            \E k \in 1..Len(s) : s[k].segment = <<program.order[m], j>>
      /\ \A k, l \in 1..Len(s) :
            s[k].story = s[l].story /\ s[k].segment # <<>> /\ s[l].module = "source_video" =>
               (k > l <=> s[k].segment[2] = 0)
  BY <1>1 DEF TellsStories
<1>3. /\ MovesOK(p, Len(s))
      /\ \A i \in 1..Len(s) :
            /\ p[i].module = s[i].module /\ p[i].story = s[i].story
            /\ p[i].segment = s[i].segment /\ p[i].visual = s[i].visual
  BY <1>2, HostMovesFacts
<1> HIDE DEF p
<1>4. DOMAIN p = 1..Len(s) /\ Len(s) \in Nat
  BY <1>2, <1>3 DEF MovesOK
<1>5. ASSUME NEW i \in 1..Len(s), NEW j \in 1..Len(s), i < j, p[i].story = p[j].story,
             NEW k \in i..j
      PROVE  p[k].story = p[i].story
  <2>1. k \in 1..Len(s)
    BY <1>4
  <2> QED
    BY <1>2, <1>3, <1>5, <2>1
<1>6. ASSUME NEW story \in Stories, NEW n \in 1..given.length[story]
      PROVE  \E i \in 1..Len(s) : p[i].segment = <<story, n>>
  <2>1. PICK m \in 1..c : program.order[m] = story
    BY OrderFacts DEF c
  <2>2. PICK i \in 1..Len(s) : s[i].segment = <<story, n>>
    BY <1>2, <2>1
  <2> QED
    BY <1>3, <2>2
<1>7. ASSUME NEW i \in 1..Len(s), NEW j \in 1..Len(s), p[i].story = p[j].story,
             p[i].segment # <<>>, p[j].module = "source_video"
      PROVE  i > j <=> p[i].segment[2] = 0
  <2>1. s[i].story = s[j].story /\ s[i].segment # <<>> /\ s[j].module = "source_video"
    BY <1>3, <1>7
  <2>2. i > j <=> s[i].segment[2] = 0
    BY <1>2, <2>1
  <2> QED
    BY <1>3, <2>2
<1>8. ASSUME NEW i \in 1..Len(s)
      PROVE  /\ p[i].module = "source_video" => p[i].story \in given.media.videos
             /\ p[i].visual # <<>> =>
                p[i].visual = <<p[i].story>> \/ p[i].visual = p[i].segment
  <2>1. s[i] \in AllScenes
    BY <1>2
  <2>2. s[i].visual # <<>> => s[i].visual = <<s[i].story>> \/ s[i].visual = s[i].segment
    BY <2>1, SceneFacts
  <2>3. s[i].module = "source_video" => s[i].story \in given.media.videos
    BY <1>2
  <2> QED
    BY <1>3, <2>2, <2>3
<1>9. Whole(p)
  BY <1>4, <1>5, <1>6, <1>7, <1>8 DEF Whole
<1> QED
  BY <1>3, <1>4, <1>9 DEF p, s

-----------------------------------------------------------------------------
(* ProgramPlan: what every step keeps *)

\* What a batch is made of, what its direction may say, and what was compiled.
ProgramInv ==
    /\ given.length \in [Stories -> 1..MaxSegments]
    /\ stage \in {"reviewing", "compiled", "failed"} => Directed
    /\ stage = "reviewing" =>
          program = [order |-> program.order, module |-> program.module,
                     videos |-> program.videos, broll |-> program.broll,
                     voice |-> program.voice]
    /\ stage = "compiled" => Whole(plan) /\ \E n \in Nat : MovesOK(plan, n)

\* A batch begins without a direction.
LEMMA ProgramInitInv == ASSUME ProgramInit PROVE ProgramInv
<1>1. PICK length \in [Stories -> 1..MaxSegments], voice \in Castings, bareHost \in BOOLEAN :
         \E media \in Pictures(length) \cup Videos(length) :
            given = [length |-> length, media |-> media, bareHost |-> bareHost,
                     voice |-> [s \in OwnSegments(length) |-> voice[s[1]]]]
  BY DEF ProgramInit
<1>2. PICK media \in Pictures(length) \cup Videos(length) :
         given = [length |-> length, media |-> media, bareHost |-> bareHost,
                  voice |-> [s \in OwnSegments(length) |-> voice[s[1]]]]
  BY <1>1
<1>3. given.length = length
  BY <1>2
<1>4. stage = "directing"
  BY DEF ProgramInit
<1> QED
  BY <1>3, <1>4 DEF ProgramInv

\* An accepted answer directs the programme.
LEMMA DirectKeeps == ASSUME ProgramInv, Direct PROVE ProgramInv'
<1>1. stage = "directing" /\ given' = given /\ plan' = plan
  BY DEF Direct
<1>2. PICK good \in Answers : \E answer \in {good} \cup OneWrong(good) :
         IF Accepted(answer)
         THEN /\ program' = [order |-> answer.order, module |-> answer.module,
                             videos |-> SelectedVideos(answer),
                             broll |-> SelectedBroll(answer),
                             voice |-> [s \in DOMAIN given.voice
                                              \cup Range(Narrated(given.length, answer.order)) |->
                                           IF s[2] = 0 THEN answer.speaker
                                           ELSE given.voice[s]]]
              /\ stage' = "reviewing"
         ELSE stage' = "refused" /\ UNCHANGED program
  BY DEF Direct
<1>3. PICK answer \in {good} \cup OneWrong(good) :
         IF Accepted(answer)
         THEN /\ program' = [order |-> answer.order, module |-> answer.module,
                             videos |-> SelectedVideos(answer),
                             broll |-> SelectedBroll(answer),
                             voice |-> [s \in DOMAIN given.voice
                                              \cup Range(Narrated(given.length, answer.order)) |->
                                           IF s[2] = 0 THEN answer.speaker
                                           ELSE given.voice[s]]]
              /\ stage' = "reviewing"
         ELSE stage' = "refused" /\ UNCHANGED program
  BY <1>2
<1>4. CASE ~Accepted(answer)
  <2>1. stage' = "refused"
    BY <1>3, <1>4
  <2> QED
    BY <1>1, <2>1 DEF ProgramInv
<1>5. CASE Accepted(answer)
  <2> DEFINE voices == [s \in DOMAIN given.voice
                               \cup Range(Narrated(given.length, answer.order)) |->
                            IF s[2] = 0 THEN answer.speaker ELSE given.voice[s]]
  <2>1. /\ program' = [order |-> answer.order, module |-> answer.module,
                       videos |-> SelectedVideos(answer), broll |-> SelectedBroll(answer),
                       voice |-> voices]
        /\ stage' = "reviewing"
    BY <1>3, <1>5
  <2> HIDE DEF voices
  <2>2. good.module \in [Stories -> Told]
    BY DEF Answers, GoodAnswers, Told
  <2>3. good = [order |-> good.order, listed |-> good.listed, edges |-> good.edges,
                module |-> good.module, after |-> good.after, speaker |-> good.speaker]
    BY DEF Answers
  <2>4. answer.module = good.module
    BY <2>3 DEF OneWrong
  <2>5. answer.order \in Orders /\ SelectedVideos(answer) \subseteq given.media.videos
    BY <1>5 DEF Accepted, SelectedVideos
  <2>6. /\ program'.order = answer.order /\ program'.module = answer.module
        /\ program'.videos = SelectedVideos(answer)
        /\ program' = [order |-> program'.order, module |-> program'.module,
                       videos |-> program'.videos, broll |-> program'.broll,
                       voice |-> program'.voice]
    BY <2>1
  <2>7. Orders' = Orders /\ Told' = Told
    BY DEF Told
  <2>8. Directed'
    BY <1>1, <2>2, <2>4, <2>5, <2>6, <2>7 DEF Directed, ProgramInv
  <2> QED
    BY <1>1, <2>1, <2>6, <2>8 DEF ProgramInv
<1> QED
  BY <1>4, <1>5

\* A reviewer changes a voice.
LEMMA ReviseKeeps == ASSUME ProgramInv, Revise PROVE ProgramInv'
<1>1. stage = "reviewing" /\ given' = given /\ plan' = plan /\ stage' = stage
  BY DEF Revise
<1>2. PICK segment \in DOMAIN program.voice, speaker \in Speakers :
         program' = [program EXCEPT !.voice[segment] = speaker]
  BY DEF Revise
<1>3. program = [order |-> program.order, module |-> program.module,
                 videos |-> program.videos, broll |-> program.broll,
                 voice |-> program.voice]
  BY <1>1 DEF ProgramInv
<1>4. /\ program'.order = program.order /\ program'.module = program.module
      /\ program'.videos = program.videos
      /\ program' = [order |-> program'.order, module |-> program'.module,
                     videos |-> program'.videos, broll |-> program'.broll,
                     voice |-> program'.voice]
  BY <1>2, <1>3
<1>5. Directed'
  <2>1. Directed
    BY <1>1 DEF ProgramInv
  <2>2. Orders' = Orders /\ Told' = Told
    BY DEF Told
  <2> QED
    BY <1>1, <1>4, <2>1, <2>2 DEF Directed
<1> QED
  BY <1>1, <1>4, <1>5 DEF ProgramInv

\* Whole scenes that become the plan are a whole plan.
LEMMA WholeStays ==
    ASSUME NEW p, Whole(p), given' = given, plan' = p
    PROVE  Whole(plan)'
<1>1. \A i, j \in DOMAIN p :
         i < j /\ p[i].story = p[j].story =>
            \A k \in i..j : p[k].story = p[i].story
  BY DEF Whole
<1>2. \A story \in Stories : \A n \in 1..given'.length[story] :
         \E i \in DOMAIN p : p[i].segment = <<story, n>>
  BY DEF Whole
<1>3. \A i, j \in DOMAIN p :
         /\ p[i].story = p[j].story
         /\ p[i].segment # <<>> /\ p[j].module = "source_video"
         => (i > j <=> p[i].segment[2] = 0)
  BY DEF Whole
<1>4. \A i \in DOMAIN p :
         /\ p[i].module = "source_video" => p[i].story \in given'.media.videos
         /\ p[i].visual # <<>> =>
            p[i].visual = <<p[i].story>> \/ p[i].visual = p[i].segment
  BY DEF Whole
<1>5. \A i, j \in DOMAIN plan' :
         i < j /\ plan'[i].story = plan'[j].story =>
            \A k \in i..j : plan'[k].story = plan'[i].story
  BY <1>1
<1>6. \A story \in Stories : \A n \in 1..given'.length[story] :
         \E i \in DOMAIN plan' : plan'[i].segment = <<story, n>>
  BY <1>2
<1>7. \A i, j \in DOMAIN plan' :
         /\ plan'[i].story = plan'[j].story
         /\ plan'[i].segment # <<>> /\ plan'[j].module = "source_video"
         => (i > j <=> plan'[i].segment[2] = 0)
  BY <1>3
<1>8. \A i \in DOMAIN plan' :
         /\ plan'[i].module = "source_video" => plan'[i].story \in given'.media.videos
         /\ plan'[i].visual # <<>> =>
            plan'[i].visual = <<plan'[i].story>> \/ plan'[i].visual = plan'[i].segment
  BY <1>4
<1> QED
  BY <1>5, <1>6, <1>7, <1>8, Zenon DEF Whole

\* The plan is the scenes, with the hosts moved.
LEMMA CompileKeeps == ASSUME ProgramInv, Compile PROVE ProgramInv'
<1>1. stage = "reviewing" /\ given' = given /\ program' = program
  BY DEF Compile
<1>2. Directed
  BY <1>1 DEF ProgramInv
<1>3. Directed'
  <2>1. Orders' = Orders /\ Told' = Told
    BY DEF Told
  <2> QED
    BY <1>1, <1>2, <2>1 DEF Directed
<1>4. stage' = "failed" \/ (stage' = "compiled" /\ plan' = HostMoves(SceneSpecs))
  BY DEF Compile
<1>5. CASE stage' = "failed"
  BY <1>1, <1>3, <1>5 DEF ProgramInv
<1>6. CASE stage' = "compiled" /\ plan' = HostMoves(SceneSpecs)
  <2> DEFINE p == HostMoves(SceneSpecs)
  <2>1. Whole(p) /\ \E n \in Nat : MovesOK(p, n)
    BY <1>2, ProgramIsWhole
  <2>2. plan' = p
    BY <1>6
  <2> HIDE DEF p
  <2>3. Whole(plan)'
    BY <1>1, <2>1, <2>2, WholeStays
  <2>4. (\E n \in Nat : MovesOK(plan, n))'
    BY <2>1, <2>2 DEF MovesOK, Visible
  <2> QED
    BY <1>1, <1>3, <1>6, <2>3, <2>4 DEF ProgramInv
<1> QED
  BY <1>4, <1>5, <1>6

\* Every step keeps it.
LEMMA ProgramNextInv == ASSUME ProgramInv, [ProgramNext]_programVars PROVE ProgramInv'
<1>1. CASE UNCHANGED programVars
  <2>1. given' = given /\ program' = program /\ plan' = plan /\ stage' = stage
    BY <1>1 DEF programVars
  <2>2. Directed => Directed'
    BY <2>1 DEF Directed, Orders, Told
  <2>3. Whole(plan) => Whole(plan)'
    BY <2>1, WholeStays
  <2>4. (\E n \in Nat : MovesOK(plan, n)) => (\E n \in Nat : MovesOK(plan, n))'
    BY <2>1 DEF MovesOK, Visible
  <2> QED
    BY <2>1, <2>2, <2>3, <2>4 DEF ProgramInv
<1> QED
  BY <1>1, DirectKeeps, ReviseKeeps, CompileKeeps DEF ProgramNext

\* It holds always.
LEMMA ProgramInvAlways == ProgramSpec => []ProgramInv
<1>1. ProgramInit => ProgramInv
  BY ProgramInitInv
<1>2. ProgramInv /\ [ProgramNext]_programVars => ProgramInv'
  BY ProgramNextInv
<1> QED
  BY <1>1, <1>2, PTL DEF ProgramSpec

\* A programme _build_episode_plan compiled tells every story once and whole, in
\* order, then its video, then the bridge, and shows no other story's pictures.
THEOREM StoriesStayWholeAlways == ProgramSpec => []StoriesStayWhole
<1>1. ProgramInv => StoriesStayWhole
  BY DEF ProgramInv, Whole, StoriesStayWhole
<1> QED
  BY <1>1, ProgramInvAlways, PTL

\* The hosts that the second pass of _build_episode_plan moves enter once, and
\* leave before another enters or a video plays.
THEOREM HostIsThereOnceAlways == ProgramSpec => []HostIsThereOnce
<1>1. ASSUME ProgramInv PROVE HostIsThereOnce
  <2> SUFFICES ASSUME stage = "compiled" PROVE HostIsThereOnce
    BY DEF HostIsThereOnce
  <2>1. PICK n \in Nat : MovesOK(plan, n)
    BY <1>1 DEF ProgramInv
  <2>2. DOMAIN plan = 1..n
    BY <2>1 DEF MovesOK
  <2> QED
    BY <2>1, <2>2, HostEntersOnce DEF HostIsThereOnce
<1> QED
  BY <1>1, ProgramInvAlways, PTL

-----------------------------------------------------------------------------
(* What sequences put together keep of their parts *)

\* What holds of nothing and of any two parts put together holds of all of them.
LEMMA FlattenClosed ==
    ASSUME NEW S, NEW C \in SUBSET Seq(S), <<>> \in C,
           \A a, b \in C : a \o b \in C, NEW ss \in Seq(C)
    PROVE  FlattenSeq(ss) \in C
<1>1. Len(ss) \in Nat /\ \A i \in 1..Len(ss) : ss[i] \in C
  OBVIOUS
<1>2. ss \in Seq(Seq(S))
  BY SeqMonotonic
<1>3. PICK f : /\ f[0] = <<>> /\ FlattenSeq(ss) = f[Len(ss)]
               /\ \A i \in 1..Len(ss) : f[i] = f[i - 1] \o ss[i]
  BY <1>2, FlattenPrefixes
<1> DEFINE T == {n \in Nat : n <= Len(ss) => f[n] \in C}
<1>4. 0 \in T
  BY <1>3
<1>5. ASSUME NEW n \in Nat, n \in T
      PROVE  n + 1 \in T
  <2> SUFFICES ASSUME n + 1 <= Len(ss) PROVE f[n + 1] \in C
    OBVIOUS
  <2>1. n + 1 \in 1..Len(ss) /\ (n + 1) - 1 = n /\ f[n] \in C
    BY <1>1, <1>5
  <2>2. f[n + 1] = f[n] \o ss[n + 1]
    BY <1>3, <2>1
  <2> QED
    BY <1>1, <2>1, <2>2
<1> HIDE DEF T
<1>6. Len(ss) \in T
  BY <1>1, <1>4, <1>5, Induction
<1> QED
  BY <1>1, <1>3, <1>6 DEF T

\* The members of two sequences.
LEMMA RangeJoined ==
    ASSUME NEW S, NEW a \in Seq(S), NEW b \in Seq(S)
    PROVE  Range(a \o b) = Range(a) \cup Range(b)
<1> DEFINE c == a \o b
<1>1. /\ DOMAIN a = 1..Len(a) /\ DOMAIN b = 1..Len(b)
      /\ Len(a) \in Nat /\ Len(b) \in Nat
  OBVIOUS
<1>2. /\ c \in Seq(S) /\ Len(c) = Len(a) + Len(b)
      /\ \A k \in 1..Len(a) : k \in 1..Len(c) /\ c[k] = a[k]
      /\ \A k \in 1..Len(b) : Len(a) + k \in 1..Len(c) /\ c[Len(a) + k] = b[k]
      /\ \A k \in 1..Len(c) : k > Len(a) => k - Len(a) \in 1..Len(b) /\ c[k] = b[k - Len(a)]
  BY Joined
<1>3. DOMAIN c = 1..Len(c)
  BY <1>2
<1> HIDE DEF c
<1>4. ASSUME NEW k \in 1..Len(c)
      PROVE  c[k] \in Range(a) \cup Range(b)
  <2>1. CASE k > Len(a)
    <3> DEFINE j == k - Len(a)
    <3>1. j \in 1..Len(b) /\ c[k] = b[j]
      BY <1>2, <2>1
    <3> HIDE DEF j
    <3> QED
      BY <1>1, <3>1 DEF Range
  <2>2. CASE ~(k > Len(a))
    <3>1. k \in 1..Len(a)
      BY <1>1, <1>2, <2>2
    <3> QED
      BY <1>1, <1>2, <3>1 DEF Range
  <2> QED
    BY <2>1, <2>2
<1>5. Range(c) \subseteq Range(a) \cup Range(b)
  BY <1>3, <1>4 DEF Range
<1>6. Range(a) \subseteq Range(c)
  BY <1>1, <1>2, <1>3 DEF Range
<1>7. Range(b) \subseteq Range(c)
  <2> SUFFICES ASSUME NEW k \in 1..Len(b) PROVE b[k] \in Range(c)
    BY <1>1 DEF Range
  <2> DEFINE j == Len(a) + k
  <2>1. j \in DOMAIN c /\ c[j] = b[k]
    BY <1>2, <1>3
  <2> HIDE DEF j
  <2> QED
    BY <2>1 DEF Range
<1> QED
  BY <1>5, <1>6, <1>7 DEF c

\* The members of all of them.
LEMMA RangeFlattened ==
    ASSUME NEW S, NEW ss \in Seq(Seq(S))
    PROVE  Range(FlattenSeq(ss)) = UNION {Range(ss[i]) : i \in 1..Len(ss)}
<1> DEFINE n == Len(ss)
           Upto(m) == UNION {Range(ss[i]) : i \in 1..m}
<1>1. n \in Nat /\ \A i \in 1..n : ss[i] \in Seq(S)
  OBVIOUS
<1>2. PICK f : /\ f[0] = <<>> /\ FlattenSeq(ss) = f[n]
               /\ \A i \in 1..n : f[i] = f[i - 1] \o ss[i]
  BY FlattenPrefixes
<1> HIDE DEF n
<1> DEFINE T == {m \in Nat : m <= n => f[m] \in Seq(S) /\ Range(f[m]) = Upto(m)}
<1>3. 0 \in T
  <2>1. Range(<<>>) = {} /\ Upto(0) = {} /\ <<>> \in Seq(S)
    BY DEF Range
  <2> HIDE DEF Upto
  <2> QED
    BY <1>2, <2>1
<1>4. ASSUME NEW m \in Nat, m \in T
      PROVE  m + 1 \in T
  <2> SUFFICES ASSUME m + 1 <= n
               PROVE  f[m + 1] \in Seq(S) /\ Range(f[m + 1]) = Upto(m + 1)
    OBVIOUS
  <2>1. m + 1 \in 1..n /\ (m + 1) - 1 = m /\ m <= n
    BY <1>1
  <2>2. f[m] \in Seq(S) /\ Range(f[m]) = Upto(m)
    BY <1>4, <2>1
  <2>3. f[m + 1] = f[m] \o ss[m + 1] /\ ss[m + 1] \in Seq(S)
    BY <1>1, <1>2, <2>1
  <2>4. Range(f[m + 1]) = Range(f[m]) \cup Range(ss[m + 1]) /\ f[m + 1] \in Seq(S)
    BY <2>2, <2>3, RangeJoined
  <2>5. Upto(m + 1) = Upto(m) \cup Range(ss[m + 1])
    <3>1. 1..(m + 1) = (1..m) \cup {m + 1}
      OBVIOUS
    <3> QED
      BY <3>1
  <2> QED
    BY <2>2, <2>4, <2>5
<1> HIDE DEF T
<1>5. n \in T
  BY <1>1, <1>3, <1>4, Induction
<1>6. Range(f[n]) = Upto(n)
  BY <1>1, <1>5 DEF T
<1> QED
  BY <1>2, <1>6 DEF n

\* Three sequences, put together either way.
LEMMA Regrouped ==
    ASSUME NEW S, NEW x \in Seq(S), NEW y \in Seq(S), NEW z \in Seq(S)
    PROVE  (x \o y) \o z = x \o (y \o z) /\ y \o z \in Seq(S)
BY ConcatAssociative, ConcatProperties

\* Putting together first some and then the others comes to the same.
LEMMA FlattenJoined ==
    ASSUME NEW S, NEW a \in Seq(Seq(S)), NEW b \in Seq(Seq(S))
    PROVE  FlattenSeq(a \o b) = FlattenSeq(a) \o FlattenSeq(b)
<1> DEFINE c == a \o b
           n == Len(a)
           m == Len(b)
<1>1. /\ c \in Seq(Seq(S)) /\ Len(c) = n + m /\ n \in Nat /\ m \in Nat
      /\ \A k \in 1..n : k \in 1..Len(c) /\ c[k] = a[k]
      /\ \A k \in 1..m : n + k \in 1..Len(c) /\ c[n + k] = b[k]
  BY Joined
<1>2. PICK f : /\ f[0] = <<>> /\ FlattenSeq(a) = f[n]
               /\ \A i \in 1..n : f[i] = f[i - 1] \o a[i]
  BY FlattenPrefixes
<1>3. PICK g : /\ g[0] = <<>> /\ FlattenSeq(b) = g[m]
               /\ \A i \in 1..m : g[i] = g[i - 1] \o b[i]
  BY FlattenPrefixes
<1>4. PICK h : /\ h[0] = <<>> /\ FlattenSeq(c) = h[Len(c)]
               /\ \A i \in 1..Len(c) : h[i] = h[i - 1] \o c[i]
  BY <1>1, FlattenPrefixes
<1>5. f[n] \in Seq(S)
  BY <1>2, FlattenType
<1>6. \A i \in 1..m : b[i] \in Seq(S)
  OBVIOUS
<1> HIDE DEF c, n, m
<1> DEFINE T == {i \in Nat : i <= n => h[i] = f[i]}
<1>7. 0 \in T
  BY <1>2, <1>4
<1>8. ASSUME NEW i \in Nat, i \in T
      PROVE  i + 1 \in T
  <2> SUFFICES ASSUME i + 1 <= n PROVE h[i + 1] = f[i + 1]
    OBVIOUS
  <2>1. i + 1 \in 1..n /\ (i + 1) - 1 = i /\ i <= n
    BY <1>1
  <2>2. h[i + 1] = h[i] \o c[i + 1] /\ f[i + 1] = f[i] \o a[i + 1] /\ c[i + 1] = a[i + 1]
    BY <1>1, <1>2, <1>4, <2>1
  <2> QED
    BY <1>8, <2>1, <2>2
<1> HIDE DEF T
<1>9. n \in T
  BY <1>1, <1>7, <1>8, Induction
<1>10. h[n] = f[n]
  BY <1>1, <1>9 DEF T
<1> DEFINE U == {i \in Nat : i <= m => g[i] \in Seq(S) /\ h[n + i] = f[n] \o g[i]}
<1>11. 0 \in U
  <2>1. n + 0 = n /\ f[n] \o <<>> = f[n] /\ <<>> \in Seq(S)
    BY <1>1, <1>5
  <2> QED
    BY <1>3, <1>10, <2>1
<1>12. ASSUME NEW i \in Nat, i \in U
       PROVE  i + 1 \in U
  <2> DEFINE j == i + 1
             k == n + j
             x == f[n]
             y == g[i]
             z == b[j]
  <2>1. /\ j \in Nat /\ j - 1 = i /\ k - 1 = n + i
        /\ j <= m => j \in 1..m /\ i <= m
    BY <1>1
  <2>2. i <= m => y \in Seq(S) /\ h[n + i] = x \o y
    BY <1>12
  <2>3. j \in 1..m => k \in 1..Len(c) /\ c[k] = z
    BY <1>1
  <2> HIDE DEF U, j, k
  <2>4. CASE j <= m
    <3>1. j \in 1..m /\ i <= m /\ z \in Seq(S) /\ x \in Seq(S) /\ y \in Seq(S)
      BY <1>5, <1>6, <2>1, <2>2, <2>4
    <3>2. g[j] = y \o z
      BY <1>3, <2>1, <3>1
    <3>3. h[k] = h[k - 1] \o z
      BY <1>4, <2>3, <3>1
    <3>4. h[k] = (x \o y) \o z
      BY <2>1, <2>2, <3>1, <3>3
    <3> HIDE DEF x, y, z
    <3>5. (x \o y) \o z = x \o (y \o z) /\ y \o z \in Seq(S)
      <4>1. x \in Seq(S) /\ y \in Seq(S) /\ z \in Seq(S)
        BY <3>1
      <4> QED
        BY <4>1, Regrouped, SMTT(30)
    <3>6. g[j] \in Seq(S) /\ h[k] = x \o g[j]
      BY <3>2, <3>4, <3>5
    <3>7. j \in U
      BY <2>1, <3>6 DEF U, k, x
    <3> QED
      BY <3>7 DEF j
  <2>5. CASE ~(j <= m)
    <3>1. j \in U
      BY <2>1, <2>5 DEF U
    <3> QED
      BY <3>1 DEF j
  <2> QED
    BY <2>4, <2>5
<1> HIDE DEF U
<1>13. m \in U
  BY <1>1, <1>11, <1>12, Induction
<1>14. h[n + m] = f[n] \o g[m]
  <2>1. m <= m
    BY <1>1
  <2> QED
    BY <1>13, <2>1 DEF U
<1>15. FlattenSeq(c) = FlattenSeq(a) \o FlattenSeq(b)
  BY <1>1, <1>2, <1>3, <1>4, <1>14
<1> QED
  BY <1>15 DEF c

\* One at a time is all of it.
LEMMA FlattenSingles ==
    ASSUME NEW S, NEW e \in Seq(S)
    PROVE  FlattenSeq([i \in 1..Len(e) |-> <<e[i]>>]) = e
<1> DEFINE n == Len(e)
           ss == [i \in 1..n |-> <<e[i]>>]
<1>1. n \in Nat /\ \A i \in 1..n : e[i] \in S
  OBVIOUS
<1> HIDE DEF n
<1>2. ss \in Seq(Seq(S)) /\ Len(ss) = n /\ \A i \in 1..n : ss[i] = <<e[i]>>
  BY <1>1
<1> HIDE DEF ss
<1>3. PICK f : /\ f[0] = <<>> /\ FlattenSeq(ss) = f[n]
               /\ \A i \in 1..n : f[i] = f[i - 1] \o ss[i]
  BY <1>2, FlattenPrefixes
<1> DEFINE T == {m \in Nat : m <= n => f[m] = SubSeq(e, 1, m)}
<1>4. 0 \in T
  <2>1. SubSeq(e, 1, 0) = <<>>
    BY SubSeqEmpty
  <2> QED
    BY <1>3, <2>1
<1>5. ASSUME NEW m \in Nat, m \in T
      PROVE  m + 1 \in T
  <2> SUFFICES ASSUME m + 1 <= n PROVE f[m + 1] = SubSeq(e, 1, m + 1)
    OBVIOUS
  <2> DEFINE k == m + 1
  <2>1. k \in 1..n /\ k - 1 = m /\ m <= n /\ 1 \in 1..n
    BY <1>1
  <2>2. f[m] = SubSeq(e, 1, m)
    BY <1>5, <2>1
  <2> HIDE DEF k
  <2>3. f[k] = f[m] \o <<e[k]>>
    BY <1>2, <1>3, <2>1
  <2>4. SubSeq(e, 1, k) = SubSeq(e, 1, k - 1) \o <<e[k]>>
    <3>1. k \in 1..Len(e) /\ 1 \in 1..Len(e) /\ k \in Nat
      BY <2>1 DEF n
    <3> QED
      BY <3>1, SubSeqRecursiveSecond
  <2> QED
    BY <2>1, <2>2, <2>3, <2>4 DEF k
<1> HIDE DEF T
<1>6. n \in T
  BY <1>1, <1>4, <1>5, Induction
<1>7. f[n] = SubSeq(e, 1, n)
  BY <1>1, <1>6 DEF T
<1>8. SubSeq(e, 1, n) = e
  BY SubSeqFull DEF n
<1> QED
  BY <1>3, <1>7, <1>8 DEF ss, n

\* Nothing is in a sequence twice.
Once(s) == \A i, j \in DOMAIN s : s[i] = s[j] => i = j

\* Nor in two that have nothing in common, put together.
LEMMA OnceJoined ==
    ASSUME NEW S, NEW a \in Seq(S), NEW b \in Seq(S), Once(a), Once(b),
           Range(a) \cap Range(b) = {}
    PROVE  Once(a \o b)
<1> DEFINE c == a \o b
<1>1. /\ DOMAIN a = 1..Len(a) /\ DOMAIN b = 1..Len(b)
      /\ Len(a) \in Nat /\ Len(b) \in Nat
  OBVIOUS
<1>2. /\ c \in Seq(S) /\ Len(c) = Len(a) + Len(b)
      /\ \A k \in 1..Len(a) : k \in 1..Len(c) /\ c[k] = a[k]
      /\ \A k \in 1..Len(c) : k > Len(a) => k - Len(a) \in 1..Len(b) /\ c[k] = b[k - Len(a)]
  BY Joined
<1>3. DOMAIN c = 1..Len(c)
  BY <1>2
<1> HIDE DEF c
<1>4. \A i, j \in 1..Len(a) : a[i] = a[j] => i = j
  BY <1>1 DEF Once
<1>5. \A i, j \in 1..Len(b) : b[i] = b[j] => i = j
  BY <1>1 DEF Once
<1>6. \A i \in 1..Len(a), j \in 1..Len(b) : a[i] # b[j]
  BY <1>1 DEF Range
<1>7. ASSUME NEW i \in 1..Len(c)
      PROVE  \/ i \in 1..Len(a) /\ c[i] = a[i]
             \/ i > Len(a) /\ \E k \in 1..Len(b) : k = i - Len(a) /\ c[i] = b[k]
  <2>1. CASE i > Len(a)
    BY <1>2, <2>1
  <2>2. CASE ~(i > Len(a))
    <3>1. i \in 1..Len(a)
      BY <1>1, <1>2, <2>2
    <3> QED
      BY <1>2, <3>1
  <2> QED
    BY <2>1, <2>2
<1>8. ASSUME NEW i \in 1..Len(c), NEW j \in 1..Len(c), c[i] = c[j]
      PROVE  i = j
  <2>1. CASE i \in 1..Len(a) /\ c[i] = a[i] /\ j \in 1..Len(a) /\ c[j] = a[j]
    BY <1>4, <1>8, <2>1
  <2>2. CASE /\ i \in 1..Len(a) /\ c[i] = a[i]
             /\ \E k \in 1..Len(b) : k = j - Len(a) /\ c[j] = b[k]
    BY <1>6, <1>8, <2>2
  <2>3. CASE /\ j \in 1..Len(a) /\ c[j] = a[j]
             /\ \E k \in 1..Len(b) : k = i - Len(a) /\ c[i] = b[k]
    BY <1>6, <1>8, <2>3
  <2>4. CASE /\ \E k \in 1..Len(b) : k = i - Len(a) /\ c[i] = b[k]
             /\ \E k \in 1..Len(b) : k = j - Len(a) /\ c[j] = b[k]
    <3>1. PICK k \in 1..Len(b) : k = i - Len(a) /\ c[i] = b[k]
      BY <2>4
    <3>2. PICK l \in 1..Len(b) : l = j - Len(a) /\ c[j] = b[l]
      BY <2>4
    <3>3. k = l
      BY <1>5, <1>8, <3>1, <3>2
    <3> QED
      BY <1>1, <1>2, <3>1, <3>2, <3>3
  <2> QED
    BY <1>7, <2>1, <2>2, <2>3, <2>4
<1> QED
  BY <1>3, <1>8 DEF Once, c

\* Nor in any number of them, when no two have anything in common.
LEMMA OnceFlattened ==
    ASSUME NEW S, NEW ss \in Seq(Seq(S)), \A i \in 1..Len(ss) : Once(ss[i]),
           \A i, j \in 1..Len(ss) : i # j => Range(ss[i]) \cap Range(ss[j]) = {}
    PROVE  Once(FlattenSeq(ss))
<1> DEFINE n == Len(ss)
           Upto(m) == UNION {Range(ss[i]) : i \in 1..m}
<1>1. n \in Nat /\ \A i \in 1..n : ss[i] \in Seq(S) /\ Once(ss[i])
  OBVIOUS
<1>2. PICK f : /\ f[0] = <<>> /\ FlattenSeq(ss) = f[n]
               /\ \A i \in 1..n : f[i] = f[i - 1] \o ss[i]
  BY FlattenPrefixes
<1>3. \A i, j \in 1..n : i # j => Range(ss[i]) \cap Range(ss[j]) = {}
  OBVIOUS
<1> HIDE DEF n
<1> DEFINE T == {m \in Nat : m <= n => f[m] \in Seq(S) /\ Once(f[m]) /\ Range(f[m]) = Upto(m)}
<1>4. 0 \in T
  <2>1. Range(<<>>) = {} /\ Upto(0) = {} /\ <<>> \in Seq(S) /\ Once(<<>>)
    BY DEF Range, Once
  <2> HIDE DEF Upto
  <2> QED
    BY <1>2, <2>1
<1>5. ASSUME NEW m \in Nat, m \in T
      PROVE  m + 1 \in T
  <2> SUFFICES ASSUME m + 1 <= n
               PROVE  f[m + 1] \in Seq(S) /\ Once(f[m + 1]) /\ Range(f[m + 1]) = Upto(m + 1)
    OBVIOUS
  <2>1. m + 1 \in 1..n /\ (m + 1) - 1 = m /\ m <= n
    BY <1>1
  <2>2. f[m] \in Seq(S) /\ Once(f[m]) /\ Range(f[m]) = Upto(m)
    BY <1>5, <2>1
  <2>3. f[m + 1] = f[m] \o ss[m + 1] /\ ss[m + 1] \in Seq(S) /\ Once(ss[m + 1])
    BY <1>1, <1>2, <2>1
  <2>4. Range(f[m + 1]) = Range(f[m]) \cup Range(ss[m + 1]) /\ f[m + 1] \in Seq(S)
    <3>1. f[m] \o ss[m + 1] \in Seq(S)
      BY <2>2, <2>3, Joined
    <3> QED
      BY <2>2, <2>3, <3>1, RangeJoined
  <2>5. Upto(m + 1) = Upto(m) \cup Range(ss[m + 1])
    <3>1. 1..(m + 1) = (1..m) \cup {m + 1}
      OBVIOUS
    <3> QED
      BY <3>1
  <2>6. Range(f[m]) \cap Range(ss[m + 1]) = {}
    <3>1. ASSUME NEW i \in 1..m PROVE Range(ss[i]) \cap Range(ss[m + 1]) = {}
      <4>1. i \in 1..n /\ i # m + 1
        BY <1>1, <2>1
      <4> QED
        BY <1>3, <2>1, <4>1
    <3> QED
      BY <2>2, <3>1
  <2>7. Once(f[m + 1])
    <3> DEFINE a == f[m]
               b == ss[m + 1]
    <3>1. a \in Seq(S) /\ b \in Seq(S) /\ Once(a) /\ Once(b) /\ Range(a) \cap Range(b) = {}
      BY <2>2, <2>3, <2>6
    <3> HIDE DEF a, b
    <3>2. Once(a \o b)
      BY <3>1, OnceJoined
    <3> QED
      BY <2>3, <3>2 DEF a, b
  <2> QED
    BY <2>2, <2>4, <2>5, <2>7
<1> HIDE DEF T
<1>6. n \in T
  BY <1>1, <1>4, <1>5, Induction
<1> QED
  BY <1>1, <1>2, <1>6 DEF T

\* It has as many members as it is long.
LEMMA OnceCounts ==
    ASSUME NEW S, NEW s \in Seq(S), Once(s)
    PROVE  IsFiniteSet(Range(s)) /\ Cardinality(Range(s)) = Len(s)
<1>1. Len(s) \in Nat /\ DOMAIN s = 1..Len(s)
  OBVIOUS
<1>2. s \in Bijection(1..Len(s), Range(s))
  <2>1. s \in [1..Len(s) -> Range(s)]
    <3>1. \A i \in 1..Len(s) : s[i] \in Range(s)
      BY <1>1 DEF Range
    <3> QED
      BY <3>1
  <2>2. \A t \in Range(s) : \E i \in 1..Len(s) : s[i] = t
    BY <1>1 DEF Range
  <2>3. \A i, j \in 1..Len(s) : s[i] = s[j] => i = j
    BY <1>1 DEF Once
  <2> QED
    BY <2>1, <2>2, <2>3 DEF Bijection, Injection, Surjection, IsInjective
<1>3. ExistsBijection(1..Len(s), Range(s))
  BY <1>2 DEF ExistsBijection
<1>4. IsFiniteSet(1..Len(s)) /\ Cardinality(1..Len(s)) = Len(s)
  BY <1>1, FS_Interval
<1> QED
  BY <1>3, <1>4, FS_Bijection

-----------------------------------------------------------------------------
(* ProgramPlan: what the scenes narrate *)

\* A segment or a bridge.
Spoken == Stories \X Nat

\* What one scene narrates.
Says(scene) == IF scene.segment = <<>> THEN <<>> ELSE <<scene.segment>>

\* What a scene narrates is nothing or one segment.
LEMMA SceneNarrates ==
    /\ \A x \in AllScenes : Says(x) \in Seq(Spoken)
    /\ \A m \in Told, g \in Spoken : Says(Narration(m, g[1], g)) = <<g>>
    /\ \A m \in {"source_video", "broll_video"}, x \in Stories : Says(Clip(m, x)) = <<>>
<1>1. ASSUME NEW m \in Told, NEW g \in Spoken
      PROVE  Says(Narration(m, g[1], g)) = <<g>>
  <2>1. Narration(m, g[1], g).segment = g
    BY DEF Narration
  <2>2. g # <<>>
    <3>1. PICK x \in Stories, n \in Nat : g = <<x, n>>
      BY DEF Spoken
    <3> QED
      BY <3>1
  <2> QED
    BY <2>1, <2>2 DEF Says
<1>2. ASSUME NEW m \in {"source_video", "broll_video"}, NEW x \in Stories
      PROVE  Says(Clip(m, x)) = <<>>
  BY DEF Clip, Says
<1>3. ASSUME NEW x \in AllScenes
      PROVE  Says(x) \in Seq(Spoken)
  <2>1. CASE \E m \in Told, g \in Stories \X Nat : x = Narration(m, g[1], g)
    <3>1. PICK m \in Told, g \in Spoken : x = Narration(m, g[1], g)
      BY <2>1 DEF Spoken
    <3>2. <<g>> \in Seq(Spoken)
      OBVIOUS
    <3> QED
      BY <1>1, <3>1, <3>2
  <2>2. CASE \E m \in {"source_video", "broll_video"}, y \in Stories : x = Clip(m, y)
    <3>1. <<>> \in Seq(Spoken)
      OBVIOUS
    <3> QED
      BY <1>2, <2>2, <3>1
  <2> QED
    BY <2>1, <2>2 DEF AllScenes
<1> QED
  BY <1>1, <1>2, <1>3

\* What scenes narrate, one after the other.
LEMMA NarratingParts ==
    ASSUME NEW s \in Seq(AllScenes)
    PROVE  LET t == [i \in 1..Len(s) |-> Says(s[i])] IN
           /\ t \in Seq(Seq(Spoken)) /\ Len(t) = Len(s)
           /\ Narrating(s) = FlattenSeq(t) /\ Narrating(s) \in Seq(Spoken)
<1> DEFINE n == Len(s)
           t == [i \in 1..n |-> Says(s[i])]
<1>1. n \in Nat /\ DOMAIN s = 1..n /\ \A i \in 1..n : s[i] \in AllScenes
  OBVIOUS
<1>2. Narrating(s) = FlattenSeq(t)
  BY <1>1 DEF Narrating, Says
<1> HIDE DEF n
<1>3. \A i \in 1..n : Says(s[i]) \in Seq(Spoken)
  BY <1>1, SceneNarrates
<1>4. t \in Seq(Seq(Spoken)) /\ Len(t) = n
  BY <1>1, <1>3
<1> HIDE DEF t
<1>5. FlattenSeq(t) \in Seq(Spoken)
  BY <1>4, FlattenType
<1> QED
  BY <1>2, <1>4, <1>5 DEF t, n

\* Nothing narrates nothing, and one scene what it says.
LEMMA NarratingOne ==
    /\ Narrating(<<>>) = <<>>
    /\ \A x \in AllScenes : Narrating(<<x>>) = Says(x)
<1>1. Narrating(<<>>) = <<>>
  <2> DEFINE t == [i \in 1..Len(<<>>) |-> Says(<<>>[i])]
  <2>1. <<>> \in Seq(AllScenes) /\ Len(<<>>) = 0
    OBVIOUS
  <2>2. t \in Seq(Seq(Spoken)) /\ Len(t) = 0 /\ Narrating(<<>>) = FlattenSeq(t)
    BY <2>1, NarratingParts
  <2> HIDE DEF t
  <2>3. PICK f : f[0] = <<>> /\ FlattenSeq(t) = f[Len(t)]
    BY <2>2, FlattenPrefixes
  <2> QED
    BY <2>2, <2>3
<1>2. ASSUME NEW x \in AllScenes
      PROVE  Narrating(<<x>>) = Says(x)
  <2> DEFINE s == <<x>>
             t == [i \in 1..Len(s) |-> Says(s[i])]
  <2>1. s \in Seq(AllScenes) /\ Len(s) = 1 /\ s[1] = x
    OBVIOUS
  <2> HIDE DEF s
  <2>2. t \in Seq(Seq(Spoken)) /\ Len(t) = 1 /\ Narrating(s) = FlattenSeq(t)
    BY <2>1, NarratingParts
  <2>3. t[1] = Says(x)
    BY <2>1
  <2> HIDE DEF t
  <2>4. PICK f : /\ f[0] = <<>> /\ FlattenSeq(t) = f[Len(t)]
                 /\ \A i \in 1..Len(t) : f[i] = f[i - 1] \o t[i]
    BY <2>2, FlattenPrefixes
  <2>5. f[1] = f[1 - 1] \o t[1]
    BY <2>2, <2>4
  <2>6. Says(x) \in Seq(Spoken)
    BY SceneNarrates
  <2>7. <<>> \o Says(x) = Says(x)
    BY <2>6
  <2>8. f[1] = Says(x)
    <3>1. f[1 - 1] = <<>>
      BY <2>4
    <3> QED
      BY <2>3, <2>5, <2>7, <3>1
  <2>9. FlattenSeq(t) = f[1]
    BY <2>2, <2>4
  <2> QED
    BY <2>2, <2>8, <2>9 DEF s
<1> QED
  BY <1>1, <1>2

\* What two sequences of scenes narrate.
LEMMA NarratingJoined ==
    ASSUME NEW s \in Seq(AllScenes), NEW t \in Seq(AllScenes)
    PROVE  Narrating(s \o t) = Narrating(s) \o Narrating(t)
<1> DEFINE u == s \o t
           a == [i \in 1..Len(s) |-> Says(s[i])]
           b == [i \in 1..Len(t) |-> Says(t[i])]
           c == [i \in 1..Len(u) |-> Says(u[i])]
           d == a \o b
<1>1. /\ u \in Seq(AllScenes) /\ Len(u) = Len(s) + Len(t)
      /\ Len(s) \in Nat /\ Len(t) \in Nat
      /\ \A k \in 1..Len(s) : k \in 1..Len(u) /\ u[k] = s[k]
      /\ \A k \in 1..Len(u) : k > Len(s) => k - Len(s) \in 1..Len(t) /\ u[k] = t[k - Len(s)]
  BY Joined
<1> HIDE DEF u
<1>2. a \in Seq(Seq(Spoken)) /\ Len(a) = Len(s) /\ Narrating(s) = FlattenSeq(a)
  BY NarratingParts
<1>3. b \in Seq(Seq(Spoken)) /\ Len(b) = Len(t) /\ Narrating(t) = FlattenSeq(b)
  BY NarratingParts
<1>4. c \in Seq(Seq(Spoken)) /\ Len(c) = Len(u) /\ Narrating(u) = FlattenSeq(c)
  BY <1>1, NarratingParts
<1>5. /\ \A k \in 1..Len(s) : a[k] = Says(s[k])
      /\ \A k \in 1..Len(t) : b[k] = Says(t[k])
      /\ \A k \in 1..Len(u) : c[k] = Says(u[k])
  OBVIOUS
<1> HIDE DEF a, b, c
<1>6. /\ d \in Seq(Seq(Spoken)) /\ Len(d) = Len(a) + Len(b)
      /\ \A k \in 1..Len(a) : k \in 1..Len(d) /\ d[k] = a[k]
      /\ \A k \in 1..Len(d) : k > Len(a) => k - Len(a) \in 1..Len(b) /\ d[k] = b[k - Len(a)]
  <2> DEFINE S == Seq(Spoken)
  <2>1. a \in Seq(S) /\ b \in Seq(S)
    BY <1>2, <1>3
  <2> HIDE DEF S
  <2>2. /\ d \in Seq(S) /\ Len(d) = Len(a) + Len(b)
        /\ \A k \in 1..Len(a) : k \in 1..Len(d) /\ d[k] = a[k]
        /\ \A k \in 1..Len(d) : k > Len(a) => k - Len(a) \in 1..Len(b) /\ d[k] = b[k - Len(a)]
    BY <2>1, Joined
  <2> QED
    BY <2>2 DEF S
<1>7. FlattenSeq(d) = FlattenSeq(a) \o FlattenSeq(b)
  BY <1>2, <1>3, FlattenJoined
<1> HIDE DEF d
<1>8. ASSUME NEW k \in 1..Len(u)
      PROVE  c[k] = d[k]
  <2>1. k \in Nat /\ k \in 1..Len(d)
    BY <1>1, <1>2, <1>3, <1>6
  <2>2. CASE k > Len(s)
    <3> DEFINE j == k - Len(s)
    <3>1. j \in 1..Len(t) /\ u[k] = t[j]
      BY <1>1, <2>2
    <3>2. d[k] = b[j]
      BY <1>2, <1>6, <2>1, <2>2
    <3> HIDE DEF j
    <3> QED
      BY <1>5, <3>1, <3>2
  <2>3. CASE ~(k > Len(s))
    <3>1. k \in 1..Len(s)
      BY <1>1, <2>3
    <3> QED
      BY <1>1, <1>2, <1>5, <1>6, <3>1
  <2> QED
    BY <2>2, <2>3
<1>9. c = d
  <2>1. Len(c) = Len(d) /\ \A k \in 1..Len(c) : c[k] = d[k]
    BY <1>1, <1>2, <1>3, <1>4, <1>6, <1>8
  <2> QED
    BY <1>4, <1>6, <2>1, SeqEqual
<1> QED
  BY <1>2, <1>3, <1>4, <1>7, <1>9 DEF u

\* What any number of them narrate.
LEMMA NarratingFlattened ==
    ASSUME NEW ss \in Seq(Seq(AllScenes))
    PROVE  Narrating(FlattenSeq(ss)) = FlattenSeq([i \in 1..Len(ss) |-> Narrating(ss[i])])
<1> DEFINE n == Len(ss)
           tt == [i \in 1..n |-> Narrating(ss[i])]
<1>1. n \in Nat /\ \A i \in 1..n : ss[i] \in Seq(AllScenes)
  OBVIOUS
<1>2. PICK f : /\ f[0] = <<>> /\ FlattenSeq(ss) = f[n]
               /\ \A i \in 1..n : f[i] = f[i - 1] \o ss[i]
  BY FlattenPrefixes
<1> HIDE DEF n
<1>3. \A i \in 1..n : Narrating(ss[i]) \in Seq(Spoken)
  BY <1>1, NarratingParts
<1>4. tt \in Seq(Seq(Spoken)) /\ Len(tt) = n /\ \A i \in 1..n : tt[i] = Narrating(ss[i])
  BY <1>1, <1>3
<1> HIDE DEF tt
<1>5. PICK g : /\ g[0] = <<>> /\ FlattenSeq(tt) = g[n]
               /\ \A i \in 1..n : g[i] = g[i - 1] \o tt[i]
  BY <1>4, FlattenPrefixes
<1> DEFINE T == {m \in Nat : m <= n => f[m] \in Seq(AllScenes) /\ Narrating(f[m]) = g[m]}
<1>6. 0 \in T
  <2>1. <<>> \in Seq(AllScenes) /\ Narrating(<<>>) = <<>>
    BY NarratingOne
  <2> QED
    BY <1>2, <1>5, <2>1
<1>7. ASSUME NEW m \in Nat, m \in T
      PROVE  m + 1 \in T
  <2> DEFINE k == m + 1
             x == f[m]
             y == ss[k]
  <2>1. /\ k \in Nat /\ k - 1 = m
        /\ k <= n => k \in 1..n /\ m <= n
    BY <1>1
  <2>2. m <= n => x \in Seq(AllScenes) /\ Narrating(x) = g[m]
    BY <1>7
  <2> HIDE DEF T, k
  <2>3. CASE k <= n
    <3>1. x \in Seq(AllScenes) /\ Narrating(x) = g[m] /\ y \in Seq(AllScenes)
      BY <1>1, <2>1, <2>2, <2>3
    <3>2. f[k] = x \o y
      BY <1>2, <2>1, <2>3
    <3>3. g[k] = g[m] \o Narrating(y)
      BY <1>4, <1>5, <2>1, <2>3
    <3> HIDE DEF x, y
    <3>4. x \o y \in Seq(AllScenes) /\ Narrating(x \o y) = Narrating(x) \o Narrating(y)
      BY <3>1, Joined, NarratingJoined
    <3>5. k \in T
      BY <2>1, <3>1, <3>2, <3>3, <3>4 DEF T
    <3> QED
      BY <3>5 DEF k
  <2>4. CASE ~(k <= n)
    <3>1. k \in T
      BY <2>1, <2>4 DEF T
    <3> QED
      BY <3>1 DEF k
  <2> QED
    BY <2>3, <2>4
<1> HIDE DEF T
<1>8. n \in T
  BY <1>1, <1>6, <1>7, Induction
<1>9. Narrating(f[n]) = g[n]
  <2>1. n <= n
    BY <1>1
  <2> QED
    BY <1>8, <2>1 DEF T
<1> QED
  BY <1>2, <1>5, <1>9 DEF tt, n

-----------------------------------------------------------------------------
(* ProgramPlan: which scenes there are *)

\* What the direction reserves: at most one b-roll.
Reserved ==
    /\ program.videos \subseteq Stories
    /\ \A a, b \in program.broll : a = b

\* The scene of a segment or a bridge.
SceneOf(g) == Narration(IF g[2] = 0 THEN "host_evidence" ELSE program.module[g[1]], g[1], g)

\* A b-roll follows the segment it belongs to.
Following ==
    {s \in Seq(AllScenes) : \A i \in 1..Len(s) :
        s[i].module = "broll_video" => i > 1 /\ s[i - 1].segment \in program.broll}

\* Also when scenes are put together.
LEMMA FollowingJoined == \A a, b \in Following : a \o b \in Following
<1> SUFFICES ASSUME NEW a \in Following, NEW b \in Following PROVE a \o b \in Following
  OBVIOUS
<1> DEFINE c == a \o b
<1>1. /\ a \in Seq(AllScenes) /\ b \in Seq(AllScenes)
      /\ \A i \in 1..Len(a) : a[i].module = "broll_video" => i > 1 /\ a[i - 1].segment \in program.broll
      /\ \A i \in 1..Len(b) : b[i].module = "broll_video" => i > 1 /\ b[i - 1].segment \in program.broll
  BY DEF Following
<1>2. /\ c \in Seq(AllScenes) /\ Len(c) = Len(a) + Len(b)
      /\ Len(a) \in Nat /\ Len(b) \in Nat
      /\ \A k \in 1..Len(a) : k \in 1..Len(c) /\ c[k] = a[k]
      /\ \A k \in 1..Len(b) : Len(a) + k \in 1..Len(c) /\ c[Len(a) + k] = b[k]
      /\ \A k \in 1..Len(c) : k > Len(a) => k - Len(a) \in 1..Len(b) /\ c[k] = b[k - Len(a)]
  BY <1>1, Joined
<1> HIDE DEF c
<1>3. ASSUME NEW i \in 1..Len(c), c[i].module = "broll_video"
      PROVE  i > 1 /\ c[i - 1].segment \in program.broll
  <2>1. CASE i > Len(a)
    <3> DEFINE k == i - Len(a)
               l == k - 1
    <3>1. k \in 1..Len(b) /\ c[i] = b[k] /\ k \in Nat
      BY <1>2, <2>1
    <3>2. k > 1 /\ b[l].segment \in program.broll
      <4> HIDE DEF k
      <4> QED
        BY <1>1, <1>3, <3>1
    <3>3. l \in 1..Len(b) /\ Len(a) + l = i - 1 /\ i > 1
      BY <1>2, <3>1, <3>2
    <3> HIDE DEF l
    <3>4. c[Len(a) + l] = b[l]
      BY <1>2, <3>3
    <3> QED
      BY <3>2, <3>3, <3>4
  <2>2. CASE ~(i > Len(a))
    <3> DEFINE l == i - 1
    <3>1. i \in 1..Len(a) /\ c[i] = a[i]
      BY <1>2, <2>2
    <3>2. i > 1 /\ a[l].segment \in program.broll
      BY <1>1, <1>3, <3>1
    <3>3. l \in 1..Len(a)
      BY <1>2, <3>1, <3>2
    <3> HIDE DEF l
    <3> QED
      BY <1>2, <3>2, <3>3 DEF l
  <2> QED
    BY <2>1, <2>2
<1> QED
  BY <1>2, <1>3 DEF Following, c

\* A single scene that is no b-roll, and none.
LEMMA FollowingOne ==
    /\ <<>> \in Following
    /\ \A x \in AllScenes : x.module # "broll_video" => <<x>> \in Following
<1>1. <<>> \in Following
  <2>1. <<>> \in Seq(AllScenes) /\ Len(<<>>) = 0
    OBVIOUS
  <2> QED
    BY <2>1 DEF Following
<1>2. ASSUME NEW x \in AllScenes, x.module # "broll_video"
      PROVE  <<x>> \in Following
  <2>1. <<x>> \in Seq(AllScenes) /\ Len(<<x>>) = 1 /\ <<x>>[1] = x
    OBVIOUS
  <2> QED
    BY <1>2, <2>1 DEF Following
<1> QED
  BY <1>1, <1>2

\* The only member of one, the two of two, and none of none.
LEMMA RangeSmall ==
    /\ Range(<<>>) = {} /\ Once(<<>>)
    /\ \A x : Range(<<x>>) = {x} /\ Once(<<x>>)
    /\ \A x, y : Range(<<x, y>>) = {x, y} /\ (x # y => Once(<<x, y>>))
<1>1. Range(<<>>) = {} /\ Once(<<>>)
  BY DEF Range, Once
<1>2. ASSUME NEW x PROVE Range(<<x>>) = {x} /\ Once(<<x>>)
  <2>1. DOMAIN <<x>> = {1} /\ <<x>>[1] = x
    OBVIOUS
  <2> QED
    BY <2>1 DEF Range, Once
<1>3. ASSUME NEW x, NEW y PROVE Range(<<x, y>>) = {x, y} /\ (x # y => Once(<<x, y>>))
  <2> DEFINE s == <<x, y>>
  <2>1. DOMAIN s = {1, 2} /\ s[1] = x /\ s[2] = y
    OBVIOUS
  <2> HIDE DEF s
  <2>2. Range(s) = {x, y} /\ (x # y => Once(s))
    BY <2>1 DEF Range, Once
  <2> QED
    BY <2>2 DEF s
<1> QED
  BY <1>1, <1>2, <1>3

\* A segment and its scene.
LEMMA SceneOfFacts ==
    ASSUME Directed, NEW g \in Spoken
    PROVE  /\ SceneOf(g) \in AllScenes /\ Says(SceneOf(g)) = <<g>>
           /\ SceneOf(g).segment = g /\ SceneOf(g).story = g[1]
           /\ SceneOf(g).module \in Told
<1> DEFINE m == IF g[2] = 0 THEN "host_evidence" ELSE program.module[g[1]]
<1>1. m \in Told
  BY DEF Directed, Told, Spoken
<1>2. PICK x \in Stories, n \in Nat : g = <<x, n>>
  BY DEF Spoken
<1> HIDE DEF m
<1>3. Narration(m, x, g) \in AllScenes /\ Narration(m, x, g).story = x
      /\ Narration(m, x, g).segment = g /\ Narration(m, x, g).module = m
  BY <1>1, <1>2, SceneFacts
<1>4. SceneOf(g) = Narration(m, x, g) /\ g[1] = x
  BY <1>2 DEF SceneOf, m
<1>5. Says(Narration(m, g[1], g)) = <<g>>
  BY <1>1, SceneNarrates
<1> QED
  BY <1>1, <1>3, <1>4, <1>5

\* The scenes of a segment.
LEMMA SegmentScenes ==
    ASSUME Directed, NEW x \in Stories, NEW j \in Nat, j # 0
    PROVE  LET g == <<x, j>>
               w == WithBroll(x, g)
           IN  /\ w \in Following /\ w \in Seq(AllScenes) /\ Once(w) /\ Narrating(w) = <<g>>
               /\ Range(w) = IF g \in program.broll THEN {SceneOf(g), Clip("broll_video", x)}
                             ELSE {SceneOf(g)}
<1> DEFINE g == <<x, j>>
           w == WithBroll(x, g)
           a == SceneOf(g)
           b == Clip("broll_video", x)
<1>1. g \in Spoken /\ g[1] = x /\ g[2] = j /\ g # <<>>
  BY DEF Spoken
<1>2. w = <<a>> \o (IF g \in program.broll THEN <<b>> ELSE <<>>)
  BY <1>1 DEF WithBroll, SceneOf
<1> HIDE DEF g, w
<1>3. a \in AllScenes /\ Says(a) = <<g>> /\ a.segment = g /\ a.module # "broll_video"
  BY <1>1, SceneOfFacts DEF Told
<1>4. b \in AllScenes /\ Says(b) = <<>> /\ b.segment = <<>> /\ b.module = "broll_video"
  BY SceneFacts, SceneNarrates
<1> HIDE DEF a, b
<1>5. a # b
  BY <1>1, <1>3, <1>4
<1>6. <<a>> \in Seq(AllScenes) /\ <<b>> \in Seq(AllScenes) /\ <<>> \in Seq(AllScenes)
  BY <1>3, <1>4
<1>7. CASE g \in program.broll
  <2>1. w = <<a, b>> /\ w = <<a>> \o <<b>>
    BY <1>2, <1>7, PairFacts
  <2>2. Narrating(w) = <<g>> \o <<>>
    BY <1>3, <1>4, <1>6, <2>1, NarratingJoined, NarratingOne
  <2>3. <<g>> \o <<>> = <<g>>
    OBVIOUS
  <2>4. w \in Seq(AllScenes) /\ Len(w) = 2 /\ w[1] = a /\ w[2] = b
    BY <1>3, <1>4, <2>1
  <2>5. w \in Following
    <3>1. ASSUME NEW i \in 1..Len(w), w[i].module = "broll_video"
          PROVE  i > 1 /\ w[i - 1].segment \in program.broll
      <4>1. i = 1 \/ i = 2
        BY <2>4
      <4>2. i = 2
        BY <1>3, <2>4, <3>1, <4>1
      <4> QED
        BY <1>3, <1>7, <2>4, <4>2
    <3> QED
      BY <2>4, <3>1 DEF Following
  <2>6. Range(w) = {a, b} /\ Once(w)
    BY <1>5, <2>1, RangeSmall
  <2> QED
    BY <1>7, <2>2, <2>3, <2>4, <2>5, <2>6 DEF a, b, w, g
<1>8. CASE g \notin program.broll
  <2>1. w = <<a>>
    <3>1. <<a>> \o <<>> = <<a>>
      BY <1>6
    <3> QED
      BY <1>2, <1>8, <3>1
  <2>2. Narrating(w) = <<g>> /\ w \in Following
    BY <1>3, <2>1, NarratingOne, FollowingOne
  <2>3. Range(w) = {a} /\ Once(w)
    BY <2>1, RangeSmall
  <2> QED
    BY <1>6, <1>8, <2>1, <2>2, <2>3 DEF a, b, w, g
<1> QED
  BY <1>7, <1>8

\* A scene of a story: of one of its segments or its bridge, or a video.
OfStory(s, x) ==
    \/ \E j \in 0..given.length[x] : s = SceneOf(<<x, j>>)
    \/ \E j \in 1..given.length[x] : <<x, j>> \in program.broll /\ s = Clip("broll_video", x)
    \/ x \in program.videos /\ s = Clip("source_video", x)

\* The segments of a story.
LEMMA SegmentsFacts ==
    ASSUME Directed, NEW x \in Stories
    PROVE  LET e == SegmentsOf(given.length, x) IN
           /\ given.length[x] \in Nat /\ given.length[x] > 0
           /\ e \in Seq(Spoken) /\ Len(e) = given.length[x]
           /\ \A j \in 1..given.length[x] : e[j] = <<x, j>> /\ <<x, j>> \in Range(e)
           /\ \A g \in Range(e) : \E j \in 1..given.length[x] : g = <<x, j>>
<1> DEFINE n == given.length[x]
           e == SegmentsOf(given.length, x)
<1>1. n \in Nat /\ n > 0
  BY ProgramAssumption DEF Directed
<1>2. e = [i \in 1..n |-> <<x, i>>]
  BY DEF SegmentsOf
<1> HIDE DEF n, e
<1>3. \A i \in 1..n : <<x, i>> \in Spoken
  BY <1>1 DEF Spoken
<1>4. e \in Seq(Spoken) /\ Len(e) = n /\ DOMAIN e = 1..n
  BY <1>1, <1>2, <1>3
<1>5. \A j \in 1..n : e[j] = <<x, j>>
  BY <1>2
<1>6. /\ \A j \in 1..n : <<x, j>> \in Range(e)
      /\ \A g \in Range(e) : \E j \in 1..n : g = <<x, j>>
  BY <1>4, <1>5 DEF Range
<1> QED
  BY <1>1, <1>4, <1>5, <1>6 DEF n, e

\* The scenes of the segments of a story.
LEMMA SegmentsScenes ==
    ASSUME Directed, Reserved, NEW x \in Stories
    PROVE  LET b == FlattenSeq([j \in 1..given.length[x] |-> WithBroll(x, <<x, j>>)]) IN
           /\ b \in Following /\ b \in Seq(AllScenes) /\ Once(b)
           /\ Narrating(b) = SegmentsOf(given.length, x)
           /\ \A s \in Range(b) :
                 \/ \E j \in 1..given.length[x] : s = SceneOf(<<x, j>>)
                 \/ /\ \E j \in 1..given.length[x] : <<x, j>> \in program.broll
                    /\ s = Clip("broll_video", x)
<1> DEFINE n == given.length[x]
           e == SegmentsOf(given.length, x)
           ss == [j \in 1..n |-> WithBroll(x, <<x, j>>)]
           b == FlattenSeq(ss)
           Scenes(j) == IF <<x, j>> \in program.broll
                        THEN {SceneOf(<<x, j>>), Clip("broll_video", x)}
                        ELSE {SceneOf(<<x, j>>)}
<1>1. /\ n \in Nat /\ e \in Seq(Spoken) /\ Len(e) = n
      /\ \A j \in 1..n : e[j] = <<x, j>>
  BY SegmentsFacts
<1> HIDE DEF n, e
<1>2. ASSUME NEW j \in 1..n
      PROVE  /\ WithBroll(x, <<x, j>>) \in Following /\ WithBroll(x, <<x, j>>) \in Seq(AllScenes)
             /\ Once(WithBroll(x, <<x, j>>)) /\ Narrating(WithBroll(x, <<x, j>>)) = <<<<x, j>>>>
             /\ Range(WithBroll(x, <<x, j>>)) = Scenes(j)
  <2>1. j \in Nat /\ j # 0
    BY <1>1
  <2> QED
    BY <2>1, SegmentScenes
<1>3. /\ ss \in Seq(Seq(AllScenes)) /\ ss \in Seq(Following) /\ Len(ss) = n
      /\ \A j \in 1..n : ss[j] = WithBroll(x, <<x, j>>)
  <2> DEFINE W(j) == WithBroll(x, <<x, j>>)
  <2>1. \A j \in 1..n : W(j) \in Seq(AllScenes) /\ W(j) \in Following
    BY <1>2
  <2>2. ss = [j \in 1..n |-> W(j)]
    OBVIOUS
  <2> HIDE DEF W, ss
  <2>3. Len(ss) = n /\ (\A j \in 1..n : ss[j] = W(j))
    BY <1>1, <2>2
  <2>4. ss \in Seq(Seq(AllScenes))
    BY <1>1, <2>1, <2>2
  <2>5. ss \in Seq(Following)
    BY <1>1, <2>1, <2>2
  <2> QED
    BY <2>3, <2>4, <2>5 DEF W
<1> HIDE DEF ss
<1>4. b \in Following
  <2>1. Following \subseteq Seq(AllScenes) /\ <<>> \in Following
    BY FollowingOne DEF Following
  <2> QED
    BY <1>3, <2>1, FollowingJoined, FlattenClosed
<1>5. b \in Seq(AllScenes)
  BY <1>4 DEF Following
<1>6. Narrating(b) = e
  <2> DEFINE t == [i \in 1..Len(ss) |-> Narrating(ss[i])]
             u == [i \in 1..Len(e) |-> <<e[i]>>]
  <2>1. Narrating(b) = FlattenSeq(t)
    BY <1>3, NarratingFlattened
  <2>2. FlattenSeq(u) = e
    BY <1>1, FlattenSingles
  <2>3. t = u
    <3>1. \A i \in 1..n : Narrating(ss[i]) = <<e[i]>>
      BY <1>1, <1>2, <1>3
    <3> QED
      BY <1>1, <1>3, <3>1
  <2> QED
    BY <2>1, <2>2, <2>3
<1>7. Range(b) = UNION {Range(ss[i]) : i \in 1..Len(ss)}
  BY <1>3, RangeFlattened
<1>8. ASSUME NEW i \in 1..n, NEW j \in 1..n, i # j
      PROVE  Scenes(i) \cap Scenes(j) = {}
  <2> DEFINE g == <<x, i>>
             h == <<x, j>>
             v == Clip("broll_video", x)
  <2>1. g \in Spoken /\ h \in Spoken /\ g # h /\ g # <<>> /\ h # <<>>
    BY <1>1, <1>8 DEF Spoken
  <2>2. g \notin program.broll \/ h \notin program.broll
    BY <2>1 DEF Reserved
  <2>3. Scenes(i) \subseteq {SceneOf(g), v} /\ (g \notin program.broll => Scenes(i) = {SceneOf(g)})
    OBVIOUS
  <2>4. Scenes(j) \subseteq {SceneOf(h), v} /\ (h \notin program.broll => Scenes(j) = {SceneOf(h)})
    OBVIOUS
  <2> HIDE DEF g, h, v, Scenes
  <2>5. SceneOf(g).segment = g /\ SceneOf(h).segment = h
    BY <2>1, SceneOfFacts
  <2>6. v.segment = <<>>
    BY SceneFacts DEF v
  <2>7. SceneOf(g) # SceneOf(h) /\ SceneOf(g) # v /\ SceneOf(h) # v
    BY <2>1, <2>5, <2>6
  <2> QED
    BY <2>2, <2>3, <2>4, <2>7
<1>9. Once(b)
  <2>1. \A i \in 1..Len(ss) : Once(ss[i])
    BY <1>2, <1>3
  <2>2. \A i, j \in 1..Len(ss) : i # j => Range(ss[i]) \cap Range(ss[j]) = {}
    <3> HIDE DEF Scenes
    <3>1. \A j \in 1..n : Range(ss[j]) = Scenes(j)
      BY <1>2, <1>3
    <3>2. \A i, j \in 1..n : i # j => Scenes(i) \cap Scenes(j) = {}
      BY <1>8
    <3> QED
      BY <1>3, <3>1, <3>2
  <2> QED
    BY <1>3, <2>1, <2>2, OnceFlattened
<1>10. ASSUME NEW s \in Range(b)
       PROVE  \/ \E j \in 1..n : s = SceneOf(<<x, j>>)
              \/ (\E j \in 1..n : <<x, j>> \in program.broll) /\ s = Clip("broll_video", x)
  <2>1. PICK i \in 1..n : s \in Range(ss[i])
    BY <1>3, <1>7
  <2>2. s \in Scenes(i)
    BY <1>2, <1>3, <2>1
  <2> QED
    BY <2>2
<1> QED
  BY <1>4, <1>5, <1>6, <1>9, <1>10 DEF ss, n, e

\* What is narrated of the i-th story.
Narrates(i) ==
    SegmentsOf(given.length, program.order[i])
        \o (IF i < Len(program.order) THEN <<BridgeOf(program.order[i])>> ELSE <<>>)

\* The scenes of a story.
LEMMA StoryScenesFacts ==
    ASSUME Directed, Reserved, NEW i \in 1..Cardinality(Stories)
    PROVE  LET x == program.order[i]
               t == StoryScenes(i)
           IN  /\ t \in Following /\ t \in Seq(AllScenes) /\ Once(t)
               /\ Narrating(t) = Narrates(i) /\ Narrates(i) \in Seq(Spoken)
               /\ \A s \in Range(t) : s.story = x /\ OfStory(s, x)
               /\ x \in program.videos => Clip("source_video", x) \in Range(t)
<1> DEFINE x == program.order[i]
           t == StoryScenes(i)
           b == FlattenSeq([j \in 1..given.length[x] |-> WithBroll(x, <<x, j>>)])
           e == SegmentsOf(given.length, x)
           v == Clip("source_video", x)
           q == BridgeOf(x)
           c == SceneOf(q)
           hasVideo == x \in program.videos
           hasBridge == i < Len(program.order)
           V == IF hasVideo THEN <<v>> ELSE <<>>
           B == IF hasBridge THEN <<c>> ELSE <<>>
<1>1. x \in Stories
  BY OrderFacts
<1>2. q \in Spoken /\ q[1] = x /\ q[2] = 0 /\ q # <<>>
  BY <1>1 DEF Spoken, BridgeOf
<1>3. c = Narration("host_evidence", x, q)
  BY <1>2 DEF SceneOf
<1>4. t = (b \o V) \o B
  BY <1>3 DEF StoryScenes
<1>5. /\ b \in Following /\ b \in Seq(AllScenes) /\ Once(b) /\ Narrating(b) = e
      /\ \A s \in Range(b) :
            \/ \E j \in 1..given.length[x] : s = SceneOf(<<x, j>>)
            \/ (\E j \in 1..given.length[x] : <<x, j>> \in program.broll) /\ s = Clip("broll_video", x)
  BY <1>1, SegmentsScenes
<1>6. e \in Seq(Spoken) /\ given.length[x] \in Nat
  BY <1>1, SegmentsFacts
<1>7. v \in AllScenes /\ v.segment = <<>> /\ v.module = "source_video" /\ v.story = x /\ Says(v) = <<>>
  BY <1>1, SceneFacts, SceneNarrates
<1>8. c \in AllScenes /\ Says(c) = <<q>> /\ c.segment = q /\ c.story = x /\ c.module \in Told
  BY <1>2, SceneOfFacts
<1>9. Narrates(i) = e \o (IF hasBridge THEN <<q>> ELSE <<>>)
  BY DEF Narrates
<1> HIDE DEF x, t, b, e, v, q, c, hasVideo, hasBridge
<1>10. /\ V \in Following /\ V \in Seq(AllScenes) /\ Once(V) /\ Narrating(V) = <<>>
       /\ Range(V) \subseteq {v} /\ (hasVideo => v \in Range(V)) /\ (Range(V) # {} => hasVideo)
  <2>1. <<v>> \in Seq(AllScenes) /\ <<>> \in Seq(AllScenes)
    BY <1>7
  <2>2. CASE hasVideo
    BY <1>7, <2>1, <2>2, FollowingOne, RangeSmall, NarratingOne
  <2>3. CASE ~hasVideo
    BY <2>1, <2>3, FollowingOne, RangeSmall, NarratingOne
  <2> QED
    BY <2>2, <2>3
<1>11. /\ B \in Following /\ B \in Seq(AllScenes) /\ Once(B)
       /\ Narrating(B) = IF hasBridge THEN <<q>> ELSE <<>>
       /\ Range(B) \subseteq {c} /\ (Range(B) # {} => hasBridge)
  <2>1. <<c>> \in Seq(AllScenes) /\ <<>> \in Seq(AllScenes) /\ c.module # "broll_video"
    BY <1>8 DEF Told
  <2>2. CASE hasBridge
    BY <1>8, <2>1, <2>2, FollowingOne, RangeSmall, NarratingOne
  <2>3. CASE ~hasBridge
    BY <2>1, <2>3, FollowingOne, RangeSmall, NarratingOne
  <2> QED
    BY <2>2, <2>3
<1> HIDE DEF V, B
<1>12. ASSUME NEW s \in Range(b)
       PROVE  s # v /\ s # c /\ s.story = x
  <2>1. CASE \E j \in 1..given.length[x] : s = SceneOf(<<x, j>>)
    <3>1. PICK j \in 1..given.length[x] : s = SceneOf(<<x, j>>)
      BY <2>1
    <3> DEFINE g == <<x, j>>
    <3>2. g \in Spoken /\ g # <<>> /\ g[1] = x /\ g[2] = j /\ j # 0
      BY <1>1, <1>6 DEF Spoken
    <3> HIDE DEF g
    <3>3. SceneOf(g).segment = g /\ SceneOf(g).story = g[1]
      BY <3>2, SceneOfFacts
    <3>4. g # q
      BY <1>2, <3>2
    <3>5. s = SceneOf(g)
      BY <3>1 DEF g
    <3> QED
      BY <1>7, <1>8, <3>2, <3>3, <3>4, <3>5
  <2>2. CASE s = Clip("broll_video", x)
    <3>1. s.module = "broll_video" /\ s.story = x
      BY <1>1, <2>2, SceneFacts
    <3> QED
      BY <1>7, <1>8, <3>1 DEF Told
  <2> QED
    BY <1>5, <2>1, <2>2
<1>13. v # c
  BY <1>7, <1>8 DEF Told
<1> DEFINE d == b \o V
<1>14. d \in Following /\ d \in Seq(AllScenes) /\ Range(d) = Range(b) \cup Range(V)
       /\ Narrating(d) = Narrating(b) \o Narrating(V)
  <2>1. b \in Following /\ V \in Following /\ b \in Seq(AllScenes) /\ V \in Seq(AllScenes)
    BY <1>5, <1>10
  <2>2. d \in Following
    BY <2>1, FollowingJoined
  <2>3. d \in Seq(AllScenes)
    BY <2>2 DEF Following
  <2>4. Range(d) = Range(b) \cup Range(V)
    BY <2>1, RangeJoined
  <2>5. Narrating(d) = Narrating(b) \o Narrating(V)
    BY <2>1, NarratingJoined
  <2> QED
    BY <2>2, <2>3, <2>4, <2>5
<1>15. Once(d)
  <2>1. Range(b) \cap Range(V) = {}
    BY <1>10, <1>12
  <2> QED
    BY <1>5, <1>10, <2>1, OnceJoined
<1> HIDE DEF d
<1>16. t = d \o B
  BY <1>4 DEF d
<1>17. t \in Following /\ t \in Seq(AllScenes) /\ Range(t) = Range(d) \cup Range(B)
       /\ Narrating(t) = Narrating(d) \o Narrating(B)
  <2>1. d \in Following /\ B \in Following /\ d \in Seq(AllScenes) /\ B \in Seq(AllScenes)
    BY <1>11, <1>14
  <2>2. t \in Following
    BY <1>16, <2>1, FollowingJoined
  <2>3. t \in Seq(AllScenes)
    BY <2>2 DEF Following
  <2>4. Range(t) = Range(d) \cup Range(B)
    BY <1>16, <2>1, RangeJoined
  <2>5. Narrating(t) = Narrating(d) \o Narrating(B)
    BY <1>16, <2>1, NarratingJoined
  <2> QED
    BY <2>2, <2>3, <2>4, <2>5
<1>18. Once(t)
  <2>1. Range(d) \cap Range(B) = {}
    BY <1>10, <1>11, <1>12, <1>13, <1>14
  <2> QED
    BY <1>11, <1>14, <1>15, <1>16, <2>1, OnceJoined
<1>19. Narrating(t) = Narrates(i) /\ Narrates(i) \in Seq(Spoken)
  <2>1. e \o <<>> = e
    BY <1>6
  <2>2. Narrating(d) = e
    BY <1>5, <1>10, <1>14, <2>1
  <2>3. Narrating(t) = Narrates(i)
    BY <1>9, <1>11, <1>17, <2>2
  <2> QED
    BY <1>17, <2>3, NarratingParts
<1>20. ASSUME NEW s \in Range(t)
       PROVE  s.story = x /\ OfStory(s, x)
  <2>1. CASE s \in Range(b)
    <3>1. s.story = x
      BY <1>12, <2>1
    <3>2. OfStory(s, x)
      <4>1. CASE \E j \in 1..given.length[x] : s = SceneOf(<<x, j>>)
        <5>1. 1..given.length[x] \subseteq 0..given.length[x]
          BY <1>6
        <5> QED
          BY <4>1, <5>1 DEF OfStory
      <4>2. CASE /\ \E j \in 1..given.length[x] : <<x, j>> \in program.broll
                 /\ s = Clip("broll_video", x)
        BY <4>2 DEF OfStory
      <4> QED
        BY <1>5, <2>1, <4>1, <4>2
    <3> QED
      BY <3>1, <3>2
  <2>2. CASE s \in Range(V)
    BY <1>7, <1>10, <2>2 DEF OfStory, v, hasVideo
  <2>3. CASE s \in Range(B)
    <3>1. s = c /\ 0 \in 0..given.length[x] /\ c = SceneOf(<<x, 0>>)
      BY <1>6, <1>11, <2>3 DEF c, q, BridgeOf
    <3> QED
      BY <1>8, <3>1 DEF OfStory
  <2> QED
    BY <1>14, <1>17, <2>1, <2>2, <2>3
<1>21. hasVideo => v \in Range(t)
  BY <1>10, <1>14, <1>17
<1> QED
  BY <1>17, <1>18, <1>19, <1>20, <1>21 DEF x, t, v, hasVideo

\* What a programme narrates.
LEMMA NarratedFacts ==
    ASSUME NEW length \in [Stories -> 1..MaxSegments], NEW order \in Orders
    PROVE  LET n == Cardinality(Stories)
               T(i) == SegmentsOf(length, order[i])
                           \o (IF i < Len(order) THEN <<BridgeOf(order[i])>> ELSE <<>>)
               R == Narrated(length, order)
           IN  /\ R = FlattenSeq([i \in 1..n |-> T(i)]) /\ R \in Seq(Spoken)
               /\ \A x \in Stories : \A j \in 1..length[x] : <<x, j>> \in Range(R)
               /\ \A g \in Range(R) : g \in Spoken /\ g[2] \in 0..length[g[1]]
<1> DEFINE n == Cardinality(Stories)
           E(i) == SegmentsOf(length, order[i])
           B(i) == IF i < Len(order) THEN <<BridgeOf(order[i])>> ELSE <<>>
           T(i) == E(i) \o B(i)
           tt == [i \in 1..n |-> T(i)]
<1>1. n \in Nat
  BY ProgramAssumption, FS_CardinalityType
<1>2. /\ DOMAIN order = 1..n /\ \A i \in 1..n : order[i] \in Stories
      /\ \A x \in Stories : \E i \in 1..n : order[i] = x
  BY DEF Orders, Range
<1> HIDE DEF n
<1>3. Narrated(length, order) = FlattenSeq(tt)
  BY <1>2 DEF Narrated
<1>4. ASSUME NEW i \in 1..n
      PROVE  /\ T(i) \in Seq(Spoken)
             /\ \A j \in 1..length[order[i]] : <<order[i], j>> \in Range(T(i))
             /\ \A g \in Range(T(i)) : g \in Spoken /\ g[2] \in 0..length[g[1]]
  <2> DEFINE x == order[i]
             m == length[x]
             e == E(i)
             b == B(i)
  <2>1. x \in Stories /\ m \in Nat
    BY <1>2, ProgramAssumption
  <2>2. e = [j \in 1..m |-> <<x, j>>]
    BY DEF SegmentsOf
  <2>3. b \in {<<>>, <<<<x, 0>>>>}
    BY DEF BridgeOf
  <2> HIDE DEF x, m, e, b
  <2>4. \A j \in 0..m : <<x, j>> \in Spoken
    BY <2>1 DEF Spoken
  <2>5. e \in Seq(Spoken) /\ DOMAIN e = 1..m /\ \A j \in 1..m : e[j] = <<x, j>>
    <3>1. \A j \in 1..m : <<x, j>> \in Spoken
      BY <2>1, <2>4
    <3> QED
      BY <2>1, <2>2, <3>1
  <2>6. Range(e) = {<<x, j>> : j \in 1..m}
    BY <2>5 DEF Range
  <2>7. b \in Seq(Spoken) /\ Range(b) \subseteq {<<x, 0>>}
    <3>1. <<x, 0>> \in Spoken
      BY <2>1, <2>4
    <3>2. <<<<x, 0>>>> \in Seq(Spoken) /\ <<>> \in Seq(Spoken)
      BY <3>1
    <3>3. Range(<<>>) = {} /\ Range(<<<<x, 0>>>>) = {<<x, 0>>}
      BY RangeSmall
    <3> QED
      BY <2>3, <3>2, <3>3
  <2>8. e \o b \in Seq(Spoken) /\ Range(e \o b) = Range(e) \cup Range(b)
    BY <2>5, <2>7, Joined, RangeJoined
  <2>9. ASSUME NEW g \in Range(e \o b)
        PROVE  g \in Spoken /\ g[2] \in 0..length[g[1]]
    <3>1. PICK j \in 0..m : g = <<x, j>>
      BY <2>1, <2>6, <2>7, <2>8
    <3> QED
      BY <2>4, <3>1 DEF m
  <2>10. \A j \in 1..m : <<x, j>> \in Range(e \o b)
    BY <2>6, <2>8
  <2> QED
    BY <2>8, <2>9, <2>10 DEF x, m, e, b
<1> HIDE DEF T
<1>5. tt \in Seq(Seq(Spoken)) /\ Len(tt) = n /\ \A i \in 1..n : tt[i] = T(i)
  BY <1>1, <1>4
<1> HIDE DEF tt
<1>6. FlattenSeq(tt) \in Seq(Spoken)
  BY <1>5, FlattenType
<1>7. Range(FlattenSeq(tt)) = UNION {Range(tt[i]) : i \in 1..Len(tt)}
  BY <1>5, RangeFlattened
<1>8. ASSUME NEW x \in Stories, NEW j \in 1..length[x]
      PROVE  <<x, j>> \in Range(FlattenSeq(tt))
  <2>1. PICK i \in 1..n : order[i] = x
    BY <1>2
  <2>2. <<x, j>> \in Range(tt[i])
    BY <1>4, <1>5, <2>1
  <2> QED
    BY <1>5, <1>7, <2>2
<1>9. ASSUME NEW g \in Range(FlattenSeq(tt))
      PROVE  g \in Spoken /\ g[2] \in 0..length[g[1]]
  <2>1. PICK i \in 1..n : g \in Range(tt[i])
    BY <1>5, <1>7
  <2> QED
    BY <1>4, <1>5, <2>1
<1> QED
  BY <1>3, <1>6, <1>8, <1>9 DEF tt, T, n

\* A segment of a scene is among what the scenes narrate.
LEMMA SceneIsNarrated ==
    ASSUME NEW s \in Seq(AllScenes), NEW i \in 1..Len(s), s[i].segment # <<>>
    PROVE  s[i].segment \in Range(Narrating(s))
<1> DEFINE t == [j \in 1..Len(s) |-> Says(s[j])]
           g == s[i].segment
<1>1. t \in Seq(Seq(Spoken)) /\ Len(t) = Len(s) /\ Narrating(s) = FlattenSeq(t)
  BY NarratingParts
<1>2. t[i] = <<g>>
  BY DEF Says
<1> HIDE DEF t, g
<1>3. Range(FlattenSeq(t)) = UNION {Range(t[j]) : j \in 1..Len(t)}
  BY <1>1, RangeFlattened
<1>4. Range(<<g>>) = {g}
  BY RangeSmall
<1> QED
  BY <1>1, <1>2, <1>3, <1>4 DEF g

\* The scenes of a programme.
LEMMA ProgramScenes ==
    ASSUME Directed, Reserved
    PROVE  LET s == SceneSpecs IN
           /\ s \in Following /\ s \in Seq(AllScenes) /\ Once(s)
           /\ Narrating(s) = Narrated(given.length, program.order)
           /\ \A i \in 1..Len(s) : \E x \in Stories : OfStory(s[i], x)
           /\ \A x \in program.videos : \E i \in 1..Len(s) : s[i] = Clip("source_video", x)
<1> DEFINE n == Cardinality(Stories)
           ss == [i \in 1..n |-> StoryScenes(i)]
           s == FlattenSeq(ss)
<1>1. /\ n \in Nat /\ DOMAIN program.order = 1..n /\ Len(program.order) = n
      /\ \A m \in 1..n : program.order[m] \in Stories
      /\ \A x \in Stories : \E m \in 1..n : program.order[m] = x
      /\ \A l, m \in 1..n : l # m => program.order[l] # program.order[m]
  BY OrderFacts
<1>2. ASSUME NEW i \in 1..n
      PROVE  /\ StoryScenes(i) \in Following /\ StoryScenes(i) \in Seq(AllScenes)
             /\ Once(StoryScenes(i)) /\ Narrating(StoryScenes(i)) = Narrates(i)
             /\ \A t \in Range(StoryScenes(i)) : t.story = program.order[i] /\ OfStory(t, program.order[i])
             /\ program.order[i] \in program.videos =>
                   Clip("source_video", program.order[i]) \in Range(StoryScenes(i))
  BY StoryScenesFacts
<1>3. SceneSpecs = s
  BY <1>1 DEF SceneSpecs
<1> HIDE DEF n
<1>4. ss \in Seq(Seq(AllScenes)) /\ ss \in Seq(Following) /\ Len(ss) = n
      /\ \A i \in 1..n : ss[i] = StoryScenes(i)
  <2>1. \A i \in 1..n : StoryScenes(i) \in Seq(AllScenes) /\ StoryScenes(i) \in Following
    BY <1>2
  <2> QED
    BY <1>1, <2>1
<1> HIDE DEF ss
<1>5. s \in Following /\ s \in Seq(AllScenes)
  <2>1. Following \subseteq Seq(AllScenes) /\ <<>> \in Following
    BY FollowingOne DEF Following
  <2>2. s \in Following
    BY <1>4, <2>1, FollowingJoined, FlattenClosed
  <2> QED
    BY <2>1, <2>2
<1>6. Narrating(s) = Narrated(given.length, program.order)
  <2> DEFINE t == [i \in 1..Len(ss) |-> Narrating(ss[i])]
             u == [i \in 1..n |-> Narrates(i)]
  <2>1. Narrating(s) = FlattenSeq(t)
    BY <1>4, NarratingFlattened
  <2>2. Narrated(given.length, program.order) = FlattenSeq(u)
    BY NarratedFacts DEF Directed, Narrates, n
  <2>3. t = u
    <3>1. \A i \in 1..n : Narrating(ss[i]) = Narrates(i)
      BY <1>2, <1>4
    <3> QED
      BY <1>4, <3>1
  <2> QED
    BY <2>1, <2>2, <2>3
<1>7. Range(s) = UNION {Range(ss[i]) : i \in 1..Len(ss)}
  BY <1>4, RangeFlattened
<1>8. Once(s)
  <2>1. \A i \in 1..Len(ss) : Once(ss[i])
    BY <1>2, <1>4
  <2>2. ASSUME NEW i \in 1..n, NEW j \in 1..n, i # j
        PROVE  Range(ss[i]) \cap Range(ss[j]) = {}
    <3>1. \A t \in Range(ss[i]) : t.story = program.order[i]
      BY <1>2, <1>4
    <3>2. \A t \in Range(ss[j]) : t.story = program.order[j]
      BY <1>2, <1>4
    <3>3. program.order[i] # program.order[j]
      BY <1>1, <2>2
    <3> QED
      BY <3>1, <3>2, <3>3
  <2>3. \A i, j \in 1..Len(ss) : i # j => Range(ss[i]) \cap Range(ss[j]) = {}
    BY <1>4, <2>2
  <2> QED
    BY <1>4, <2>1, <2>3, OnceFlattened
<1>9. DOMAIN s = 1..Len(s)
  BY <1>5
<1>10. ASSUME NEW k \in 1..Len(s)
       PROVE  \E x \in Stories : OfStory(s[k], x)
  <2>1. s[k] \in Range(s)
    BY <1>9 DEF Range
  <2>2. PICK i \in 1..n : s[k] \in Range(ss[i])
    BY <1>4, <1>7, <2>1
  <2>3. OfStory(s[k], program.order[i])
    BY <1>2, <1>4, <2>2
  <2> QED
    BY <1>1, <2>3
<1>11. ASSUME NEW x \in program.videos
       PROVE  \E i \in 1..Len(s) : s[i] = Clip("source_video", x)
  <2>1. PICK m \in 1..n : program.order[m] = x
    BY <1>1 DEF Reserved
  <2>2. Clip("source_video", x) \in Range(ss[m])
    BY <1>2, <1>4, <2>1
  <2>3. Clip("source_video", x) \in Range(s)
    BY <1>4, <1>7, <2>2
  <2> QED
    BY <1>9, <2>3 DEF Range
<1> QED
  BY <1>3, <1>5, <1>6, <1>8, <1>10, <1>11

\* A set has no fewer members than what they are mapped to.
LEMMA ImageCounts ==
    ASSUME NEW f, NEW S, IsFiniteSet(S), DOMAIN f = S, f = [x \in S |-> f[x]]
    PROVE  IsFiniteSet({f[x] : x \in S}) /\ Cardinality({f[x] : x \in S}) <= Cardinality(S)
<1> DEFINE T == {f[x] : x \in S}
<1>1. f \in Surjection(S, T)
  <2>1. f \in [S -> T]
    OBVIOUS
  <2> QED
    BY <2>1 DEF Surjection
<1> QED
  BY <1>1, FS_Surjection

\* What is reserved, and what is narrated, can be counted.
LEMMA ReservedIsCounted ==
    ASSUME Directed, Reserved
    PROVE  /\ Len(Narrated(given.length, program.order)) \in Nat
           /\ IsFiniteSet(program.videos) /\ Cardinality(program.videos) \in Nat
           /\ IsFiniteSet(program.broll) /\ Cardinality(program.broll) \in Nat
<1>1. Len(Narrated(given.length, program.order)) \in Nat
  <2>1. Narrated(given.length, program.order) \in Seq(Spoken)
    BY NarratedFacts DEF Directed
  <2> QED
    BY <2>1
<1>2. IsFiniteSet(program.videos)
  BY ProgramAssumption, FS_Subset DEF Reserved
<1>3. IsFiniteSet(program.broll)
  <2>1. CASE program.broll = {}
    BY <2>1, FS_EmptySet
  <2>2. CASE program.broll # {}
    <3>1. PICK b : b \in program.broll
      BY <2>2
    <3>2. program.broll = {b}
      BY <3>1 DEF Reserved
    <3> QED
      BY <3>2, FS_Singleton
  <2> QED
    BY <2>1, <2>2
<1> QED
  BY <1>1, <1>2, <1>3, FS_CardinalityType

\* No more scenes than segments, bridges and videos.
LEMMA ScenesAreCounted ==
    ASSUME Directed, Reserved
    PROVE  /\ Len(SceneSpecs) \in Nat /\ Len(SceneSpecs) > 0
           /\ Len(SceneSpecs) <= Len(Narrated(given.length, program.order))
                                   + Cardinality(program.videos) + Cardinality(program.broll)
<1> DEFINE s == SceneSpecs
           R == Narrated(given.length, program.order)
           G == Range(R)
           V == program.videos
           B == program.broll
           A1 == {SceneOf(g) : g \in G}
           A2 == {Clip("source_video", x) : x \in V}
           A3 == {Clip("broll_video", b[1]) : b \in B}
<1>1. /\ s \in Seq(AllScenes) /\ Once(s) /\ Narrating(s) = R
      /\ \A i \in 1..Len(s) : \E x \in Stories : OfStory(s[i], x)
  BY ProgramScenes
<1>2. /\ R \in Seq(Spoken)
      /\ \A x \in Stories : \A j \in 1..given.length[x] : <<x, j>> \in G
  BY NarratedFacts DEF Directed
<1> HIDE DEF s, R
<1>3. IsFiniteSet(G) /\ Cardinality(G) <= Len(R) /\ Cardinality(G) \in Nat /\ Len(R) \in Nat
  <2> DEFINE D == 1..Len(R)
  <2>1. Len(R) \in Nat /\ DOMAIN R = 1..Len(R)
    BY <1>2
  <2>2. IsFiniteSet(D) /\ Cardinality(D) = Len(R)
    <3> DEFINE m == Len(R)
    <3>1. m \in Nat
      BY <2>1
    <3> HIDE DEF m
    <3>2. IsFiniteSet(1..m) /\ Cardinality(1..m) = m
      BY <3>1, FS_Interval
    <3> QED
      BY <3>2 DEF m
  <2>3. G = {R[i] : i \in D}
    BY <2>1 DEF Range
  <2> HIDE DEF D
  <2>4. DOMAIN R = D /\ R = [i \in D |-> R[i]]
    BY <1>2, <2>1 DEF D
  <2>5. IsFiniteSet({R[i] : i \in D}) /\ Cardinality({R[i] : i \in D}) <= Cardinality(D)
    BY <2>2, <2>4, ImageCounts
  <2> QED
    BY <2>1, <2>2, <2>3, <2>5, FS_CardinalityType
<1>4. IsFiniteSet(V)
  BY ReservedIsCounted
<1>5. IsFiniteSet(B)
  BY ReservedIsCounted
<1> HIDE DEF G, V, B
<1>6. IsFiniteSet(A1) /\ Cardinality(A1) <= Cardinality(G)
  <2> DEFINE f == [g \in G |-> SceneOf(g)]
  <2>1. DOMAIN f = G /\ f = [g \in G |-> f[g]] /\ A1 = {f[g] : g \in G}
    OBVIOUS
  <2> HIDE DEF f, A1
  <2> QED
    BY <1>3, <2>1, ImageCounts
<1>7. IsFiniteSet(A2) /\ Cardinality(A2) <= Cardinality(V)
  <2> DEFINE f == [x \in V |-> Clip("source_video", x)]
  <2>1. DOMAIN f = V /\ f = [x \in V |-> f[x]] /\ A2 = {f[x] : x \in V}
    OBVIOUS
  <2> HIDE DEF f, A2
  <2> QED
    BY <1>4, <2>1, ImageCounts
<1>8. IsFiniteSet(A3) /\ Cardinality(A3) <= Cardinality(B)
  <2> DEFINE f == [b \in B |-> Clip("broll_video", b[1])]
  <2>1. DOMAIN f = B /\ f = [b \in B |-> f[b]] /\ A3 = {f[b] : b \in B}
    OBVIOUS
  <2> HIDE DEF f, A3
  <2> QED
    BY <1>5, <2>1, ImageCounts
<1>9. ASSUME NEW i \in 1..Len(s)
      PROVE  s[i] \in (A1 \cup A2) \cup A3
  <2>1. PICK x \in Stories : OfStory(s[i], x)
    BY <1>1
  <2>2. CASE \E j \in 0..given.length[x] : s[i] = SceneOf(<<x, j>>)
    <3>1. PICK j \in 0..given.length[x] : s[i] = SceneOf(<<x, j>>)
      BY <2>2
    <3> DEFINE g == <<x, j>>
    <3>2. given.length[x] \in Nat
      BY SegmentsFacts
    <3>3. g \in Spoken /\ g # <<>>
      BY <3>2 DEF Spoken
    <3> HIDE DEF g
    <3>4. s[i].segment = g
      BY <3>1, <3>3, SceneOfFacts DEF g
    <3>5. g \in G
      BY <1>1, <3>3, <3>4, SceneIsNarrated DEF G
    <3> QED
      BY <3>1, <3>5 DEF g
  <2>3. CASE \E j \in 1..given.length[x] : <<x, j>> \in program.broll /\ s[i] = Clip("broll_video", x)
    <3>1. PICK j \in 1..given.length[x] : <<x, j>> \in program.broll /\ s[i] = Clip("broll_video", x)
      BY <2>3
    <3> DEFINE b == <<x, j>>
    <3>2. b \in B /\ b[1] = x
      BY <3>1 DEF B
    <3> HIDE DEF b
    <3>3. Clip("broll_video", b[1]) \in A3
      BY <3>2
    <3> QED
      BY <3>1, <3>2, <3>3
  <2>4. CASE x \in program.videos /\ s[i] = Clip("source_video", x)
    BY <2>4 DEF V
  <2> QED
    BY <2>1, <2>2, <2>3, <2>4 DEF OfStory
<1> HIDE DEF A1, A2, A3
<1>10. IsFiniteSet(Range(s)) /\ Cardinality(Range(s)) = Len(s)
  BY <1>1, OnceCounts
<1>11. Range(s) \subseteq (A1 \cup A2) \cup A3
  BY <1>1, <1>9 DEF Range
<1>12. /\ IsFiniteSet(A1 \cup A2) /\ IsFiniteSet((A1 \cup A2) \cup A3)
       /\ Cardinality((A1 \cup A2) \cup A3) <= Cardinality(A1) + Cardinality(A2) + Cardinality(A3)
  <2>1. /\ IsFiniteSet(A1 \cup A2)
        /\ Cardinality(A1 \cup A2) = Cardinality(A1) + Cardinality(A2) - Cardinality(A1 \cap A2)
    BY <1>6, <1>7, FS_Union
  <2> DEFINE U == A1 \cup A2
  <2> HIDE DEF U
  <2>2. /\ IsFiniteSet(U \cup A3)
        /\ Cardinality(U \cup A3) = Cardinality(U) + Cardinality(A3) - Cardinality(U \cap A3)
    BY <1>8, <2>1, FS_Union DEF U
  <2>3. IsFiniteSet(A1 \cap A2) /\ IsFiniteSet(U \cap A3)
    BY <1>6, <1>8, FS_Intersection
  <2>4. /\ Cardinality(A1) \in Nat /\ Cardinality(A2) \in Nat /\ Cardinality(A3) \in Nat
        /\ Cardinality(A1 \cap A2) \in Nat /\ Cardinality(U \cap A3) \in Nat
    BY <1>6, <1>7, <1>8, <2>3, FS_CardinalityType
  <2> QED
    BY <2>1, <2>2, <2>4 DEF U
<1>13. Cardinality(Range(s)) <= Cardinality((A1 \cup A2) \cup A3)
  BY <1>11, <1>12, FS_Subset
<1>14. /\ Cardinality(V) \in Nat /\ Cardinality(B) \in Nat /\ Cardinality(A1) \in Nat
       /\ Cardinality(A2) \in Nat /\ Cardinality(A3) \in Nat
       /\ Cardinality((A1 \cup A2) \cup A3) \in Nat
  BY <1>4, <1>5, <1>6, <1>7, <1>8, <1>12, FS_CardinalityType
<1>15. Len(s) \in Nat
  BY <1>1
<1>16. Len(s) <= Len(R) + Cardinality(V) + Cardinality(B)
  BY <1>3, <1>6, <1>7, <1>8, <1>10, <1>12, <1>13, <1>14, <1>15
<1>17. Len(s) # 0
  <2> SUFFICES ASSUME Len(s) = 0 PROVE FALSE
    OBVIOUS
  <2>1. s = <<>>
    BY <1>1
  <2>2. R = <<>>
    BY <1>1, <2>1, NarratingOne
  <2>3. G = {}
    BY <2>2, RangeSmall DEF G
  <2>4. PICK x \in Stories : TRUE
    BY ProgramAssumption
  <2>5. 1 \in 1..given.length[x]
    BY <2>4, SegmentsFacts
  <2> QED
    BY <1>2, <2>3, <2>5 DEF G
<1> QED
  BY <1>15, <1>16, <1>17 DEF s, R, V, B

\* Every segment has a voice of the show.
VoicesOK ==
    \A g \in Range(Narrated(given.length, program.order)) :
        g \in DOMAIN program.voice /\ program.voice[g] \in Speakers

\* What a scene is, if it is not of more scenes than a plan holds.
LEMMA SceneIsValid ==
    ASSUME Directed, Reserved, VoicesOK, NEW i \in 1..Len(SceneSpecs)
    PROVE  LET s == SceneSpecs[i] IN
           /\ s \in AllScenes /\ ValidScene(s)
           /\ s.segment # <<>> => s.speaker = program.voice[s.segment]
           /\ s.module = "source_video" => s.story \in program.videos
           /\ \/ HasVariant(s) \/ ~given.bareHost
              \/ /\ program.module[s.story] = "evidence_fullscreen"
                 /\ s.story \in Stories /\ s.story \notin given.media.screenshots
                 /\ \E j \in 1..given.length[s.story] : <<s.story, j>> \notin given.media.images
<1> DEFINE s == SceneSpecs[i]
<1>1. /\ SceneSpecs \in Seq(AllScenes)
      /\ Narrating(SceneSpecs) = Narrated(given.length, program.order)
      /\ \E x \in Stories : OfStory(s, x)
  BY ProgramScenes
<1>2. PICK x \in Stories : OfStory(s, x)
  BY <1>1
<1>3. s.segment # <<>> => s.segment \in Range(Narrated(given.length, program.order))
  BY <1>1, SceneIsNarrated
<1>4. s \in AllScenes
  BY <1>1
<1>5. CASE \E j \in 0..given.length[x] : s = SceneOf(<<x, j>>)
  <2>1. PICK j \in 0..given.length[x] : s = SceneOf(<<x, j>>)
    BY <1>5
  <2> DEFINE g == <<x, j>>
             m == IF j = 0 THEN "host_evidence" ELSE program.module[x]
  <2>2. given.length[x] \in Nat
    BY SegmentsFacts
  <2>3. g \in Spoken /\ g # <<>> /\ g[1] = x /\ g[2] = j /\ j \in Nat
    BY <2>2 DEF Spoken
  <2>4. m \in Told
    BY DEF Directed, Told
  <2>5. s = SceneOf(g)
    BY <2>1
  <2> HIDE DEF s, g
  <2>6. s = Narration(m, x, g)
    BY <2>3, <2>5 DEF SceneOf
  <2>7. /\ s.module = m /\ s.story = x /\ s.segment = g /\ s.speaker = program.voice[g]
        /\ s.visual = SceneVisual(x, g)
    BY <2>6 DEF Narration
  <2>8. program.voice[g] \in Speakers /\ program.voice[g] # "none"
    BY <1>3, <2>3, <2>7, ProgramAssumption DEF VoicesOK
  <2>9. ValidScene(s) /\ s.module # "source_video"
    BY <2>3, <2>4, <2>7, <2>8 DEF ValidScene, Told
  <2>10. CASE s.visual # <<>>
    BY <1>4, <2>7, <2>9, <2>10 DEF HasVariant, s
  <2>11. CASE s.visual = <<>>
    <3>1. <<x>> # <<>>
      OBVIOUS
    <3>2. g \notin given.media.images /\ x \notin given.media.screenshots
      BY <2>3, <2>7, <2>11, <3>1 DEF SceneVisual
    <3>3. CASE m = "host_evidence"
      BY <1>4, <2>7, <2>9, <3>3 DEF HasVariant, s
    <3>4. CASE m # "host_evidence"
      <4>1. program.module[x] = "evidence_fullscreen" /\ j \in 1..given.length[x]
        BY <2>2, <2>4, <3>4 DEF Told
      <4> QED
        BY <1>4, <2>7, <2>9, <3>2, <4>1 DEF g, s
    <3> QED
      BY <3>3, <3>4
  <2> QED
    BY <2>10, <2>11
<1>6. CASE s = Clip("broll_video", x)
  BY <1>4, <1>6 DEF Clip, ValidScene, HasVariant
<1>7. CASE x \in program.videos /\ s = Clip("source_video", x)
  BY <1>4, <1>7 DEF Clip, ValidScene, HasVariant
<1> QED
  BY <1>2, <1>5, <1>6, <1>7 DEF OfStory

\* With the hosts moved the scenes are what EpisodePlan accepts, unless too many.
LEMMA PlanIsValid ==
    ASSUME Directed, Reserved, VoicesOK,
           Len(Narrated(given.length, program.order)) + Cardinality(program.videos)
              + Cardinality(program.broll) <= MaxScenes
    PROVE  ValidPlan(HostMoves(SceneSpecs))
<1> DEFINE s == SceneSpecs
           n == Len(s)
           p == HostMoves(s)
           R == Narrated(given.length, program.order)
<1>1. /\ s \in Following /\ s \in Seq(AllScenes) /\ Narrating(s) = R
      /\ \A x \in program.videos : \E i \in 1..n : s[i] = Clip("source_video", x)
  BY ProgramScenes
<1>2. n \in Nat /\ n > 0 /\ n <= MaxScenes
  <2> DEFINE k == Len(R) + Cardinality(program.videos) + Cardinality(program.broll)
  <2>1. n \in Nat /\ n > 0 /\ n <= k
    BY ScenesAreCounted
  <2>2. k <= MaxScenes
    OBVIOUS
  <2>3. k \in Int
    BY ReservedIsCounted
  <2> HIDE DEF n, k
  <2> QED
    BY <2>1, <2>2, <2>3, ProgramAssumption
<1>3. /\ DOMAIN p = 1..n
      /\ \A i \in 1..n :
            /\ p[i].module = s[i].module /\ p[i].story = s[i].story
            /\ p[i].segment = s[i].segment /\ p[i].visual = s[i].visual
            /\ p[i].speaker = s[i].speaker /\ (~Visible(s[i]) => p[i] = s[i])
  BY <1>1, HostMovesFacts DEF MovesOK
<1>4. p = [i \in 1..n |-> p[i]]
  <2>1. DOMAIN s = 1..n
    BY <1>1
  <2> QED
    BY <2>1 DEF HostMoves
<1>5. \A i \in 1..n :
         /\ s[i] \in AllScenes /\ ValidScene(s[i])
         /\ s[i].segment # <<>> => s[i].speaker = program.voice[s[i].segment]
         /\ s[i].module = "source_video" => s[i].story \in program.videos
  BY SceneIsValid
<1>6. \A i \in 1..n : s[i].module = "broll_video" => i > 1 /\ s[i - 1].segment \in program.broll
  BY <1>1 DEF Following
<1>7. DOMAIN s = 1..n
  BY <1>1
<1>8. Narrating(p) = R
  <2> DEFINE a == [i \in DOMAIN p |-> IF p[i].segment = <<>> THEN <<>> ELSE <<p[i].segment>>]
             b == [i \in DOMAIN s |-> IF s[i].segment = <<>> THEN <<>> ELSE <<s[i].segment>>]
  <2>1. Narrating(p) = FlattenSeq(a) /\ Narrating(s) = FlattenSeq(b)
    BY DEF Narrating
  <2> HIDE DEF p, s, n
  <2>2. a = b
    BY <1>3, <1>7
  <2> QED
    BY <1>1, <2>1, <2>2
<1> HIDE DEF s, n, p, R
<1>9. Len(p) = n
  BY <1>2, <1>4
<1>10. ASSUME NEW i \in 1..n
       PROVE  /\ p[i].module = "evidence_fullscreen" => ~p[i].enter /\ ~p[i].exit
              /\ ValidScene(p[i])
              /\ p[i].segment # <<>> => p[i].speaker = program.voice[p[i].segment]
              /\ p[i].module = "broll_video" => i > 1 /\ p[i - 1].segment \in program.broll
  <2>1. /\ p[i].module = s[i].module /\ p[i].story = s[i].story
        /\ p[i].segment = s[i].segment /\ p[i].visual = s[i].visual
        /\ p[i].speaker = s[i].speaker /\ (~Visible(s[i]) => p[i] = s[i])
    BY <1>3
  <2>2. /\ s[i] \in AllScenes /\ ValidScene(s[i])
        /\ s[i].segment # <<>> => s[i].speaker = program.voice[s[i].segment]
    BY <1>5
  <2>3. ~s[i].enter /\ ~s[i].exit
    BY <2>2, SceneFacts
  <2>4. p[i].module = "evidence_fullscreen" => ~p[i].enter /\ ~p[i].exit
    BY <2>1, <2>3 DEF Visible
  <2>5. ValidScene(p[i])
    BY <2>1, <2>2 DEF ValidScene
  <2>6. ASSUME p[i].module = "broll_video" PROVE i > 1 /\ p[i - 1].segment \in program.broll
    <3> DEFINE j == i - 1
    <3>1. i > 1 /\ s[j].segment \in program.broll
      BY <1>6, <2>1, <2>6
    <3>2. j \in 1..n
      BY <1>2, <3>1
    <3> HIDE DEF j
    <3>3. p[j].segment \in program.broll
      BY <1>3, <3>1, <3>2
    <3> QED
      BY <3>1, <3>3 DEF j
  <2> QED
    BY <2>1, <2>2, <2>4, <2>5, <2>6
<1> DEFINE K == {i \in DOMAIN p : p[i].module = "source_video"}
<1>11. \A i \in K : p[i].story \in program.videos
  BY <1>3, <1>5
<1>12. ASSUME NEW x \in program.videos
       PROVE  \E i \in K : p[i].story = x
  <2>1. PICK i \in 1..n : s[i] = Clip("source_video", x)
    BY <1>1
  <2>2. x \in Stories
    BY DEF Reserved
  <2>3. s[i].module = "source_video" /\ s[i].story = x
    BY <2>1, <2>2, SceneFacts
  <2> QED
    BY <1>3, <2>3
<1>13. /\ K = {} <=> program.videos = {}
       /\ {p[i].story : i \in K} = program.videos
  <2> HIDE DEF K
  <2> QED
    BY <1>11, <1>12
<1>14. ValidPlan(p)
  <2>1. Len(p) \in 1..MaxScenes
    BY <1>2, <1>9, ProgramAssumption
  <2> QED
    BY <1>3, <1>8, <1>10, <1>13, <2>1 DEF ValidPlan, R
<1> QED
  BY <1>14 DEF p, s

\* Why a programme does not compile.
Reason ==
    \/ \E story \in Stories : program.module[story] = "evidence_fullscreen"
          /\ story \notin given.media.screenshots
          /\ \E n \in 1..given.length[story] : <<story, n>> \notin given.media.images
    \/ ~given.bareHost
    \/ /\ given.media.images = {} /\ given.media.screenshots = {}
       /\ given.media.broll = {} /\ program.videos = {}
    \/ Len(Narrated(given.length, program.order)) + Cardinality(program.videos)
          + Cardinality(program.broll) > MaxScenes

\* What is reserved is left out only if there is none.
BrollOK == program.broll = {} => given.media.broll = {}

\* Without a reason every scene has a variant and the plan is accepted.
LEMMA FailureHasAReason ==
    ASSUME Directed, Reserved, VoicesOK, BrollOK,
           LET scenes == HostMoves(SceneSpecs)
           IN  ~(HasPictures /\ (\A i \in DOMAIN scenes : HasVariant(scenes[i])) /\ ValidPlan(scenes))
    PROVE  Reason
<1> DEFINE s == SceneSpecs
           p == HostMoves(s)
<1>1. CASE ~HasPictures
  BY <1>1 DEF HasPictures, BrollOK, Reason
<1>2. CASE ~ValidPlan(p)
  <2> DEFINE k == Len(Narrated(given.length, program.order)) + Cardinality(program.videos)
                    + Cardinality(program.broll)
  <2>1. ~(k <= MaxScenes)
    BY <1>2, PlanIsValid
  <2>2. k \in Int
    BY ReservedIsCounted
  <2> HIDE DEF k
  <2>3. k > MaxScenes
    BY <2>1, <2>2, ProgramAssumption
  <2> QED
    BY <2>3 DEF Reason, k
<1>3. CASE \E i \in DOMAIN p : ~HasVariant(p[i])
  <2>1. s \in Seq(AllScenes)
    BY ProgramScenes
  <2>2. /\ DOMAIN p = 1..Len(s)
        /\ \A i \in 1..Len(s) : p[i].module = s[i].module /\ p[i].visual = s[i].visual
    BY <2>1, HostMovesFacts DEF MovesOK
  <2>3. PICK i \in 1..Len(s) : ~HasVariant(p[i])
    BY <1>3, <2>2
  <2>4. ~HasVariant(s[i])
    <3> HIDE DEF p, s
    <3> QED
      BY <2>2, <2>3 DEF HasVariant
  <2>5. \/ ~given.bareHost
        \/ /\ program.module[s[i].story] = "evidence_fullscreen"
           /\ s[i].story \in Stories /\ s[i].story \notin given.media.screenshots
           /\ \E j \in 1..given.length[s[i].story] : <<s[i].story, j>> \notin given.media.images
    BY <2>3, <2>4, SceneIsValid
  <2> HIDE DEF s
  <2> QED
    BY <2>5 DEF Reason
<1> QED
  BY <1>1, <1>2, <1>3

\* Some of the first n places has no other of them before it.
LEMMA FirstPlace ==
    ASSUME NEW S \in SUBSET Nat, S # {}
    PROVE  \E k \in S : \A j \in S : k <= j
<1> DEFINE T == {n \in Nat : (\E k \in S : k <= n) => \E k \in S : \A j \in S : k <= j}
<1>1. 0 \in T
  <2> SUFFICES ASSUME NEW k \in S, k <= 0 PROVE \A j \in S : k <= j
    OBVIOUS
  <2> QED
    OBVIOUS
<1>2. ASSUME NEW n \in Nat, n \in T
      PROVE  n + 1 \in T
  <2> SUFFICES ASSUME NEW k \in S, k <= n + 1 PROVE \E l \in S : \A j \in S : l <= j
    OBVIOUS
  <2>1. CASE \E l \in S : l <= n
    BY <1>2, <2>1
  <2>2. CASE ~\E l \in S : l <= n
    <3>1. \A j \in S : k <= j
      BY <2>2
    <3> QED
      BY <3>1
  <2> QED
    BY <2>1, <2>2
<1>3. PICK k : k \in S
  OBVIOUS
<1> HIDE DEF T
<1>4. k \in T
  BY <1>1, <1>2, <1>3, Induction
<1> QED
  BY <1>3, <1>4 DEF T

\* What the direction reserves of the b-roll: one, if there is any.
LEMMA BrollIsSelected ==
    ASSUME NEW answer, given.length \in [Stories -> 1..MaxSegments], answer.order \in Orders,
           given.media.broll \subseteq OwnSegments(given.length)
    PROVE  /\ \A a, b \in SelectedBroll(answer) : a = b
           /\ SelectedBroll(answer) = {} => given.media.broll = {}
<1> DEFINE R == Narrated(given.length, answer.order)
           known == {i \in DOMAIN R : R[i] \in given.media.broll}
           first == {k \in known : \A j \in known : k <= j}
<1>1. SelectedBroll(answer) = {R[i] : i \in first}
  BY DEF SelectedBroll
<1>2. R \in Seq(Spoken) /\ \A x \in Stories : \A j \in 1..given.length[x] : <<x, j>> \in Range(R)
  BY NarratedFacts
<1> HIDE DEF R
<1>3. known \subseteq Nat
  BY <1>2
<1>4. ASSUME NEW g \in given.media.broll
      PROVE  \E i \in known : R[i] = g
  <2>1. g \in Stories \X (1..MaxSegments) /\ g[2] <= given.length[g[1]]
    BY DEF OwnSegments, AllSegments
  <2>2. PICK x \in Stories, j \in 1..MaxSegments : g = <<x, j>>
    BY <2>1
  <2>3. j \in 1..given.length[x]
    BY <2>1, <2>2, ProgramAssumption
  <2>4. g \in Range(R)
    BY <1>2, <2>2, <2>3
  <2> QED
    BY <2>4 DEF Range
<1>5. \A i, j \in first : i = j
  BY <1>3
<1>6. known # {} => first # {}
  <2> HIDE DEF known
  <2> QED
    BY <1>3, FirstPlace
<1> HIDE DEF known, first
<1> QED
  BY <1>1, <1>4, <1>5, <1>6

\* What the batch has, what its direction reserves, and why it fails.
CompileInv ==
    /\ ProgramInv
    /\ given.media.videos \subseteq Stories
    /\ given.media.broll \subseteq OwnSegments(given.length)
    /\ given.voice \in [OwnSegments(given.length) -> Speakers]
    /\ stage = "reviewing" => Reserved /\ VoicesOK /\ BrollOK
    /\ CompileFailsForAReason

\* At first.
LEMMA CompileInitInv == ASSUME ProgramInit PROVE CompileInv
<1>1. PICK length \in [Stories -> 1..MaxSegments], voice \in Castings, bareHost \in BOOLEAN :
         \E media \in Pictures(length) \cup Videos(length) :
            given = [length |-> length, media |-> media, bareHost |-> bareHost,
                     voice |-> [s \in OwnSegments(length) |-> voice[s[1]]]]
  BY DEF ProgramInit
<1>2. PICK media \in Pictures(length) \cup Videos(length) :
         given = [length |-> length, media |-> media, bareHost |-> bareHost,
                  voice |-> [s \in OwnSegments(length) |-> voice[s[1]]]]
  BY <1>1
<1>3. /\ given.length = length /\ given.media = media
      /\ given.voice = [s \in OwnSegments(length) |-> voice[s[1]]]
  BY <1>2
<1>4. media.videos \subseteq Stories /\ media.broll \subseteq OwnSegments(length)
  BY DEF Pictures, Videos
<1>5. given.voice \in [OwnSegments(length) -> Speakers]
  <2>1. \A s \in OwnSegments(length) : s[1] \in Stories
    BY DEF OwnSegments, AllSegments
  <2>2. voice \in [Stories -> Speakers]
    BY DEF Castings
  <2> QED
    BY <1>3, <2>1, <2>2
<1>6. stage = "directing"
  BY DEF ProgramInit
<1>7. ProgramInv
  BY ProgramInitInv
<1> QED
  BY <1>3, <1>4, <1>5, <1>6, <1>7 DEF CompileInv, CompileFailsForAReason

\* A direction reserves what there is and casts the voices of the show.
LEMMA DirectReserves ==
    ASSUME CompileInv, Direct
    PROVE  stage' = "reviewing" => Reserved' /\ VoicesOK' /\ BrollOK'
<1> SUFFICES ASSUME stage' = "reviewing" PROVE Reserved' /\ VoicesOK' /\ BrollOK'
  OBVIOUS
<1>1. given' = given
  BY DEF Direct
<1>2. PICK answer :
         /\ Accepted(answer)
         /\ program' = [order |-> answer.order, module |-> answer.module,
                        videos |-> SelectedVideos(answer),
                        broll |-> SelectedBroll(answer),
                        voice |-> [s \in DOMAIN given.voice
                                         \cup Range(Narrated(given.length, answer.order)) |->
                                      IF s[2] = 0 THEN answer.speaker
                                      ELSE given.voice[s]]]
  BY DEF Direct
<1> DEFINE R == Narrated(given.length, answer.order)
           D == DOMAIN given.voice \cup Range(R)
           voices == [s \in D |-> IF s[2] = 0 THEN answer.speaker ELSE given.voice[s]]
<1>3. /\ given.length \in [Stories -> 1..MaxSegments]
      /\ given.media.videos \subseteq Stories
      /\ given.media.broll \subseteq OwnSegments(given.length)
      /\ given.voice \in [OwnSegments(given.length) -> Speakers]
  BY DEF CompileInv, ProgramInv
<1>4. answer.order \in Orders /\ answer.after \subseteq given.media.videos /\ answer.speaker \in Speakers
  BY <1>2, <1>3 DEF Accepted, Range
<1>5. /\ program'.order = answer.order /\ program'.videos = SelectedVideos(answer)
      /\ program'.broll = SelectedBroll(answer) /\ program'.voice = voices
  BY <1>2
<1>6. \A g \in Range(R) : g \in Spoken /\ g[2] \in 0..given.length[g[1]]
  BY <1>3, <1>4, NarratedFacts
<1>7. SelectedVideos(answer) \subseteq Stories
  BY <1>3, <1>4 DEF SelectedVideos
<1>8. /\ \A a, b \in SelectedBroll(answer) : a = b
      /\ SelectedBroll(answer) = {} => given.media.broll = {}
  BY <1>3, <1>4, BrollIsSelected
<1> HIDE DEF R
<1>9. ASSUME NEW g \in Range(R)
      PROVE  g \in DOMAIN voices /\ voices[g] \in Speakers
  <2>1. voices[g] = IF g[2] = 0 THEN answer.speaker ELSE given.voice[g]
    OBVIOUS
  <2>2. CASE g[2] = 0
    BY <1>4, <2>1, <2>2
  <2>3. CASE g[2] # 0
    <3>1. PICK x \in Stories, j \in Nat : g = <<x, j>>
      BY <1>6 DEF Spoken
    <3>2. j \in 1..given.length[x] /\ given.length[x] \in 1..MaxSegments
      BY <1>3, <1>6, <2>3, <3>1, ProgramAssumption
    <3>3. j \in 1..MaxSegments /\ j <= given.length[x]
      BY <3>2, ProgramAssumption
    <3>4. g \in OwnSegments(given.length)
      BY <3>1, <3>3 DEF OwnSegments, AllSegments
    <3> QED
      BY <1>3, <2>1, <2>3, <3>4
  <2> QED
    BY <2>2, <2>3
<1> HIDE DEF voices
<1>10. Reserved'
  BY <1>5, <1>7, <1>8 DEF Reserved
<1>11. VoicesOK'
  BY <1>1, <1>5, <1>9 DEF VoicesOK, R
<1>12. BrollOK'
  BY <1>1, <1>5, <1>8 DEF BrollOK
<1> QED
  BY <1>10, <1>11, <1>12

\* A revision gives a voice of the show.
LEMMA ReviseReserves ==
    ASSUME CompileInv, Revise
    PROVE  Reserved' /\ VoicesOK' /\ BrollOK'
<1>1. stage = "reviewing" /\ given' = given
  BY DEF Revise
<1>2. PICK segment \in DOMAIN program.voice, speaker \in Speakers :
         program' = [program EXCEPT !.voice[segment] = speaker]
  BY DEF Revise
<1>3. program = [order |-> program.order, module |-> program.module,
                 videos |-> program.videos, broll |-> program.broll,
                 voice |-> program.voice]
  BY <1>1 DEF CompileInv, ProgramInv
<1>4. Reserved /\ VoicesOK /\ BrollOK
  BY <1>1 DEF CompileInv
<1>5. /\ program'.order = program.order /\ program'.videos = program.videos
      /\ program'.broll = program.broll
      /\ program'.voice = [program.voice EXCEPT ![segment] = speaker]
  BY <1>2, <1>3
<1>6. \A g \in DOMAIN program.voice :
         program.voice[g] \in Speakers => /\ g \in DOMAIN program'.voice
                                          /\ program'.voice[g] \in Speakers
  BY <1>5
<1>7. Reserved'
  BY <1>4, <1>5 DEF Reserved
<1>8. VoicesOK'
  BY <1>1, <1>4, <1>5, <1>6 DEF VoicesOK
<1>9. BrollOK'
  BY <1>1, <1>4, <1>5 DEF BrollOK
<1> QED
  BY <1>7, <1>8, <1>9

\* A compilation fails for a reason.
LEMMA CompileHasAReason ==
    ASSUME CompileInv, Compile, stage' = "failed"
    PROVE  Reason
<1>1. stage = "reviewing"
  BY DEF Compile
<1>2. Directed /\ Reserved /\ VoicesOK /\ BrollOK
  BY <1>1 DEF CompileInv, ProgramInv
<1>3. LET scenes == HostMoves(SceneSpecs)
      IN  ~(HasPictures /\ (\A i \in DOMAIN scenes : HasVariant(scenes[i])) /\ ValidPlan(scenes))
  BY DEF Compile
<1> QED
  BY <1>2, <1>3, FailureHasAReason

\* Every step keeps it.
LEMMA CompileNextInv == ASSUME CompileInv, [ProgramNext]_programVars PROVE CompileInv'
<1>1. ProgramInv'
  BY ProgramNextInv DEF CompileInv
<1>2. given' = given
  BY DEF ProgramNext, programVars, Direct, Revise, Compile
<1>3. /\ given'.media.videos \subseteq Stories
      /\ given'.media.broll \subseteq OwnSegments(given'.length)
      /\ given'.voice \in [OwnSegments(given'.length) -> Speakers]
  BY <1>2 DEF CompileInv
<1>4. (stage = "reviewing")' => (Reserved /\ VoicesOK /\ BrollOK)'
  <2>1. CASE Direct
    BY <2>1, DirectReserves
  <2>2. CASE Revise
    BY <2>2, ReviseReserves
  <2>3. CASE Compile
    BY <2>3 DEF Compile
  <2>4. CASE UNCHANGED programVars
    BY <2>4 DEF programVars, CompileInv, Reserved, VoicesOK, BrollOK
  <2> QED
    BY <2>1, <2>2, <2>3, <2>4 DEF ProgramNext
<1>5. CompileFailsForAReason'
  <2> SUFFICES ASSUME stage' = "failed" PROVE Reason'
    BY DEF CompileFailsForAReason, Reason
  <2>1. program' = program /\ Reason
    <3>1. CASE Compile
      BY <3>1, CompileHasAReason DEF Compile
    <3>2. CASE UNCHANGED programVars
      BY <3>2 DEF programVars, CompileInv, CompileFailsForAReason, Reason
    <3>3. ~Direct /\ ~Revise
      BY DEF Direct, Revise
    <3> QED
      BY <3>1, <3>2, <3>3 DEF ProgramNext
  <2> QED
    BY <1>2, <2>1 DEF Reason
<1> QED
  BY <1>1, <1>3, <1>4, <1>5 DEF CompileInv

\* synthesize_narration of an approved batch fails only because its director asked
\* for evidence a story has no picture of, because the plain host scene is
\* disabled, because there is no picture at all, or because a plan is too long.
THEOREM CompileFailsForAReasonAlways == ProgramSpec => []CompileFailsForAReason
<1>1. ProgramInit => CompileInv
  BY CompileInitInv
<1>2. CompileInv /\ [ProgramNext]_programVars => CompileInv'
  BY CompileNextInv
<1>3. CompileInv => CompileFailsForAReason
  BY DEF CompileInv
<1> QED
  BY <1>1, <1>2, <1>3, PTL DEF ProgramSpec

-----------------------------------------------------------------------------
(* SourceItems: what normalization refuses *)

\* What a raw contract holds: blocks are media, or texts and quotes.
SoundBlocks(blocks) ==
    /\ blocks \in Seq(Range(blocks))
    /\ \A b \in Range(blocks) :
          IsMedia(b) \/ (b.kind \in {"text", "quote"} /\ b.text \in {"words", "marks"})
SoundItem(item) ==
    /\ item.title \in {"words", "marks"}
    /\ item.body \in {"words", "none", "empty", "marks"}
    /\ \A name \in DOMAIN item.names : item.names[name] \in {"words", "marks"}
    /\ SoundBlocks(item.blocks)
    /\ item.rights \in Declarations
SoundRaw ==
    /\ SoundItem(raw)
    /\ raw.body = "empty" => raw.source = "reddit"
    /\ raw.source # "pikabu" => Len(raw.blocks) <= MaxMedia

\* The blocks of a source are media, or texts and quotes.
LEMMA BlocksAreSound ==
    ASSUME NEW source, NEW n \in Nat, NEW blocks \in [1..n -> Blocks(source)]
    PROVE  SoundBlocks(blocks)
<1>1. \A b \in Blocks(source) :
         IsMedia(b) \/ (b.kind \in {"text", "quote"} /\ b.text \in {"words", "marks"})
  BY DEF Blocks, MediaKinds, TextKinds, IsMedia
<1>2. DOMAIN blocks = 1..n /\ \A i \in 1..n : blocks[i] \in Blocks(source)
  OBVIOUS
<1>3. \A i \in 1..n : blocks[i] \in Range(blocks)
  BY <1>2 DEF Range
<1>4. blocks \in [1..n -> Range(blocks)]
  BY <1>2, <1>3
<1>5. blocks \in Seq(Range(blocks))
  BY <1>4
<1> QED
  BY <1>1, <1>2, <1>5 DEF SoundBlocks, Range

\* One block is a sequence of them.
LEMMA BlockIsSound ==
    ASSUME NEW source, NEW block \in Blocks(source)
    PROVE  SoundBlocks(<<block>>)
<1>1. <<block>> \in [1..1 -> Blocks(source)]
  OBVIOUS
<1> QED
  BY <1>1, BlocksAreSound

\* A text that loses its marks is a sequence of words, or falls back on a title.
LEMMA ContentSays ==
    ASSUME SoundRaw, raw.title # "marks", raw.body = "marks" => raw.source = "reddit",
           \A i \in DOMAIN raw.blocks :
              ~(raw.blocks[i].kind = "quote" /\ raw.blocks[i].text = "marks")
    PROVE  /\ Content(raw) \in Seq({"words", "quoted", "none"})
           /\ Content(raw) # <<>>
<1> DEFINE W == {"words", "quoted", "none"}
           ps == [i \in DOMAIN raw.blocks |-> Paragraph(raw.blocks[i])]
           own == CASE raw.source = "pikabu" -> Paragraphs(raw.blocks)
                    [] raw.body = "empty" -> <<>>
                    [] OTHER -> Said(raw.body)
<1>1. DOMAIN raw.blocks = 1..Len(raw.blocks) /\ Len(raw.blocks) \in Nat
  BY DEF SoundRaw, SoundItem, SoundBlocks
<1>2. ASSUME NEW i \in 1..Len(raw.blocks)
      PROVE  Paragraph(raw.blocks[i]) \in Seq(W)
  <2>1. \/ IsMedia(raw.blocks[i])
        \/ raw.blocks[i].kind = "text" /\ raw.blocks[i].text \in {"words", "marks"}
        \/ raw.blocks[i].kind = "quote" /\ raw.blocks[i].text = "words"
    BY <1>1 DEF SoundRaw, SoundItem, SoundBlocks, Range
  <2>2. Paragraph(raw.blocks[i]) \in {<<>>, <<"words">>, <<"quoted">>}
    BY <2>1 DEF Paragraph, Said, Normal
  <2>3. <<>> \in Seq(W) /\ <<"words">> \in Seq(W) /\ <<"quoted">> \in Seq(W)
    <3>1. "words" \in W /\ "quoted" \in W
      OBVIOUS
    <3> HIDE DEF W
    <3> QED
      BY <3>1
  <2> HIDE DEF W
  <2> QED
    BY <2>2, <2>3
<1>3. ps \in Seq(Seq(W))
  BY <1>1, <1>2
<1>4. Paragraphs(raw.blocks) \in Seq(W)
  <2> HIDE DEF W
  <2>1. FlattenSeq(ps) \in Seq(W)
    BY <1>3, FlattenType
  <2> QED
    BY <2>1 DEF Paragraphs
<1>5. raw.title = "words" /\ Normal(raw.title) = "words"
  BY DEF SoundRaw, SoundItem, Normal
<1>6. Content(raw) = IF own = <<>> /\ raw.source \in {"reddit", "pikabu"} /\ Normal(raw.title) # ""
                     THEN <<Normal(raw.title)>> ELSE own
  BY DEF Content
<1>7. own \in Seq(W) /\ (own = <<>> => raw.source \in {"reddit", "pikabu"})
  <2>1. CASE raw.source = "pikabu"
    <3>1. raw.body # "empty"
      BY <2>1 DEF SoundRaw
    <3>2. own = Paragraphs(raw.blocks)
      BY <2>1, <3>1
    <3> HIDE DEF own, W
    <3> QED
      BY <1>4, <2>1, <3>2
  <2>2. CASE raw.source # "pikabu" /\ raw.body = "empty"
    <3>1. own = <<>> /\ raw.source = "reddit"
      BY <2>2 DEF SoundRaw
    <3>2. <<>> \in Seq(W)
      OBVIOUS
    <3> HIDE DEF own, W
    <3> QED
      BY <3>1, <3>2
  <2>3. CASE raw.source = "reddit" /\ raw.body = "marks"
    <3>1. own = <<>>
      BY <2>3 DEF Said, Normal
    <3>2. <<>> \in Seq(W)
      OBVIOUS
    <3> HIDE DEF own, W
    <3> QED
      BY <2>3, <3>1, <3>2
  <2>4. CASE raw.source # "pikabu" /\ raw.body \notin {"empty", "marks"}
    <3>1. raw.body \in W /\ raw.body \in {"words", "none"}
      BY <2>4 DEF SoundRaw, SoundItem
    <3>2. own = <<raw.body>>
      BY <2>4, <3>1 DEF Said, Normal
    <3> HIDE DEF own, W
    <3>3. <<raw.body>> \in Seq(W) /\ <<raw.body>> # <<>>
      BY <3>1
    <3> QED
      BY <3>2, <3>3
  <2> QED
    BY <2>1, <2>2, <2>3, <2>4
<1> HIDE DEF own
<1>8. CASE own = <<>>
  <2>1. Content(raw) = <<"words">>
    BY <1>5, <1>6, <1>7, <1>8
  <2> QED
    BY <2>1
<1>9. CASE own # <<>>
  <2>1. Content(raw) = own
    BY <1>6, <1>9
  <2> QED
    BY <1>7, <1>9, <2>1
<1> QED
  BY <1>8, <1>9

\* Duplicates apart, an item keeps as many media as there are different ones,
\* and no more than it came with.
LEMMA MediaFit ==
    ASSUME SoundBlocks(raw.blocks)
    PROVE  LET media == Extracted(raw.blocks) IN
           /\ Len(Deduplicated(media)) \in Nat /\ IsFiniteSet(Range(media))
           /\ Len(Deduplicated(media)) <= Cardinality(Range(media))
           /\ Cardinality(Range(media)) <= Len(raw.blocks)
<1> DEFINE n == Len(raw.blocks)
           Kept(b) == [kind |-> b.kind, address |-> Canonical(b.address)]
           M == {Kept(raw.blocks[i]) : i \in 1..n}
           es == [i \in DOMAIN raw.blocks |->
                     IF IsMedia(raw.blocks[i]) THEN <<Kept(raw.blocks[i])>> ELSE <<>>]
           media == Extracted(raw.blocks)
           keep == {i \in DOMAIN media : \A j \in 1..(i - 1) : media[j] # media[i]}
<1>1. DOMAIN raw.blocks = 1..n /\ n \in Nat
  BY DEF SoundBlocks
<1>2. media \in Seq(M)
  <2>1. FlattenSeq(es) = media
    BY DEF Extracted
  <2>2. \A i \in 1..n : Kept(raw.blocks[i]) \in M
    OBVIOUS
  <2> HIDE DEF M, Kept, media
  <2>3. es \in Seq(Seq(M))
    BY <1>1, <2>2
  <2> QED
    BY <2>1, <2>3, FlattenType
<1>3. IsFiniteSet(M) /\ Cardinality(M) <= n
  <2> DEFINE f == [i \in 1..n |-> Kept(raw.blocks[i])]
  <2>1. f \in Surjection(1..n, M)
    <3> HIDE DEF Kept
    <3> QED
      BY DEF Surjection
  <2>2. IsFiniteSet(1..n) /\ Cardinality(1..n) = n
    BY <1>1, FS_Interval
  <2> HIDE DEF f, M
  <2> QED
    BY <2>1, <2>2, FS_Surjection
<1> HIDE DEF M, media, n
<1>4. DOMAIN media = 1..Len(media) /\ Len(media) \in Nat /\ \A i \in 1..Len(media) : media[i] \in M
  BY <1>2
<1>5. Range(media) \subseteq M
  BY <1>4 DEF Range
<1>6. /\ IsFiniteSet(Range(media)) /\ Cardinality(Range(media)) <= n
      /\ Cardinality(Range(media)) \in Nat
  <2>1. IsFiniteSet(Range(media)) /\ Cardinality(Range(media)) <= Cardinality(M)
    BY <1>3, <1>5, FS_Subset
  <2>2. Cardinality(Range(media)) \in Nat /\ Cardinality(M) \in Nat
    BY <1>3, <2>1, FS_CardinalityType
  <2> QED
    BY <1>1, <1>3, <2>1, <2>2
<1>7. IsFiniteSet(keep) /\ Cardinality(keep) <= Cardinality(Range(media))
  <2> DEFINE f == [i \in keep |-> media[i]]
  <2>1. ASSUME NEW i \in keep, NEW j \in keep, media[i] = media[j]
        PROVE  i = j
    <3>1. i \in Nat /\ j \in Nat /\ i >= 1 /\ j >= 1
      BY <1>4
    <3>2. ~(i < j) /\ ~(j < i)
      BY <2>1, <3>1
    <3> QED
      BY <3>1, <3>2
  <2>2. \A i \in keep : media[i] \in Range(media)
    BY DEF Range
  <2> HIDE DEF keep
  <2>3. f \in Injection(keep, Range(media))
    BY <2>1, <2>2 DEF Injection, IsInjective
  <2> HIDE DEF f
  <2> QED
    BY <1>6, <2>3, FS_Injection
<1>8. Len(Deduplicated(media)) = Cardinality(keep) /\ Cardinality(keep) \in Nat
  <2>1. Cardinality(keep) \in Nat
    BY <1>7, FS_CardinalityType
  <2>2. Deduplicated(media) = [i \in 1..Cardinality(keep) |-> media[SetToSortSeq(keep, <)[i]]]
    BY DEF Deduplicated
  <2> DEFINE At(i) == media[SetToSortSeq(keep, <)[i]]
             k == Cardinality(keep)
  <2>3. Deduplicated(media) = [i \in 1..k |-> At(i)] /\ k \in Nat
    BY <2>1, <2>2
  <2> HIDE DEF At, k
  <2>4. Len(Deduplicated(media)) = k
    BY <2>3
  <2> QED
    BY <2>1, <2>4 DEF k
<1> QED
  BY <1>6, <1>7, <1>8 DEF media, n

\* A raw item that says something, with media that fit, makes a valid one.
LEMMA SayingItemIsValid ==
    ASSUME SoundRaw, raw.title # "marks", raw.body = "marks" => raw.source = "reddit",
           \A name \in DOMAIN raw.names : raw.names[name] # "marks",
           \A i \in DOMAIN raw.blocks :
              ~(raw.blocks[i].kind = "quote" /\ raw.blocks[i].text = "marks"),
           raw.source = "pikabu" => ~(Cardinality(Range(Extracted(raw.blocks))) > MaxMedia)
    PROVE  ValidItem(Normalized(raw))
<1> DEFINE item == Normalized(raw)
           media == Deduplicated(Extracted(raw.blocks))
           content == Content(raw)
<1>1. /\ item.title = Normal(raw.title) /\ item.content = content /\ item.digest = content
      /\ item.media = media
      /\ item.flags.kinds = {media[i].kind : i \in DOMAIN media}
      /\ item.flags.review = item.rights.review
  BY DEF Normalized, BuildFlags
<1>2. Normal(raw.title) = "words"
  BY DEF SoundRaw, SoundItem, Normal
<1>3. content \in Seq({"words", "quoted", "none"}) /\ content # <<>>
  BY ContentSays
<1> HIDE DEF content
<1>4. Stripped(content) = content
  <2>1. content[Len(content)] \in {"words", "quoted", "none"}
    BY <1>3
  <2> QED
    BY <2>1 DEF Stripped, Last
<1>5. Len(media) <= MaxMedia
  <2> DEFINE d == Cardinality(Range(Extracted(raw.blocks)))
             n == Len(raw.blocks)
  <2>1. SoundBlocks(raw.blocks)
    BY DEF SoundRaw, SoundItem
  <2>2. Len(media) \in Nat /\ Len(media) <= d /\ d <= n
    BY <2>1, MediaFit
  <2>3. raw.source # "pikabu" => n <= MaxMedia
    BY DEF SoundRaw
  <2>4. IsFiniteSet(Range(Extracted(raw.blocks)))
    BY <2>1, MediaFit
  <2>5. d \in Nat /\ n \in Nat /\ MaxMedia \in Nat
    BY <2>1, <2>4, MediaAssumption, FS_CardinalityType DEF SoundBlocks
  <2>6. d <= MaxMedia
    <3> HIDE DEF d, n
    <3>1. CASE raw.source = "pikabu"
      <4>1. ~(d > MaxMedia)
        BY <3>1 DEF d
      <4> QED
        BY <2>5, <4>1
    <3>2. CASE raw.source # "pikabu"
      BY <2>2, <2>3, <2>5, <3>2
    <3> QED
      BY <3>1, <3>2
  <2> HIDE DEF d, media
  <2> QED
    BY <2>2, <2>5, <2>6
<1>6. \A name \in DOMAIN item.names : item.names[name] # ""
  BY DEF Normalized, Normal, SoundRaw, SoundItem
<1> HIDE DEF item, media
<1>7. item.title # ""
  BY <1>1, <1>2
<1> QED
  BY <1>1, <1>3, <1>4, <1>5, <1>6, <1>7 DEF ValidItem, item

\* Items come from the raw contracts, and one that is refused lacked words or
\* had too many media.
RefusalsAreFair == SoundRaw /\ SayingItemIsNormalized

\* The one item that all others differ from in a part.
LEMMA PlainIsSound ==
    ASSUME NEW source
    PROVE  SoundItem(PlainItem(source))
<1>1. <<Plain>> \in Seq({Plain}) /\ Range(<<Plain>>) = {Plain}
  BY DEF Range
<1>2. IsMedia(Plain)
  BY DEF Plain, IsMedia
<1>3. SoundBlocks(<<Plain>>)
  BY <1>1, <1>2 DEF SoundBlocks
<1> QED
  BY <1>3 DEF SoundItem, PlainItem, PlainRights, Declarations

\* An item begins raw.
LEMMA RawItemsAreSound == ItemInit => RefusalsAreFair
<1> SUFFICES ASSUME ItemInit PROVE SoundRaw /\ verdict = "raw"
  BY DEF RefusalsAreFair, SayingItemIsNormalized
<1>1. MaxMedia \in Nat /\ MaxBlocks \in Nat
  BY MediaAssumption
<1>2. \E item : RawItem(item) /\ SoundItem(item)
  <2>1. PICK source \in {"dazhong", "reddit", "guardian", "pikabu"} :
          \/ \E n \in 0..MaxMedia : \E blocks \in [1..n -> Blocks(source)] :
                RawItem([PlainItem(source) EXCEPT !.blocks = blocks])
          \/ \E n \in 0..MaxBlocks : \E blocks \in [1..n -> PlainBlocks] :
                RawItem([PlainItem("pikabu") EXCEPT !.blocks = blocks])
          \/ \E title \in {"words", "marks"}, body \in {"words", "marks", "empty", "none"},
                block \in Blocks(source) :
                RawItem([PlainItem(source) EXCEPT !.title = title, !.body = body,
                                                  !.blocks = <<block>>])
          \/ \E address \in Addresses, names \in [Names(source) -> {"words", "marks"}] :
                RawItem([PlainItem(source) EXCEPT !.address = address, !.names = names])
          \/ \E rights \in Declarations, block \in Blocks(source) :
                RawItem([PlainItem(source) EXCEPT !.rights = rights, !.blocks = <<block>>])
          \/ \E fields \in SUBSET Fields(source) : \E topics \in [fields -> Topics] :
                RawItem([PlainItem(source) EXCEPT !.topics = topics])
    BY DEF ItemInit
  <2>2. SoundItem(PlainItem(source)) /\ SoundItem(PlainItem("pikabu"))
    BY PlainIsSound
  <2>3. CASE \E n \in 0..MaxMedia : \E blocks \in [1..n -> Blocks(source)] :
                RawItem([PlainItem(source) EXCEPT !.blocks = blocks])
    <3>1. PICK n, blocks :
             /\ n \in 0..MaxMedia
             /\ blocks \in [1..n -> Blocks(source)]
             /\ RawItem([PlainItem(source) EXCEPT !.blocks = blocks])
      BY <2>3
    <3>2. SoundBlocks(blocks)
      <4>1. n \in Nat
        BY <1>1, <3>1
      <4> QED
        BY <3>1, <4>1, BlocksAreSound
    <3>3. SoundItem([PlainItem(source) EXCEPT !.blocks = blocks])
      BY <2>2, <3>2 DEF SoundItem, PlainItem
    <3> QED
      BY <3>1, <3>3
  <2>4. CASE \E n \in 0..MaxBlocks : \E blocks \in [1..n -> PlainBlocks] :
                RawItem([PlainItem("pikabu") EXCEPT !.blocks = blocks])
    <3>1. PICK n, blocks :
             /\ n \in 0..MaxBlocks
             /\ blocks \in [1..n -> PlainBlocks]
             /\ RawItem([PlainItem("pikabu") EXCEPT !.blocks = blocks])
      BY <2>4
    <3>2. blocks \in [1..n -> Blocks("pikabu")]
      BY <3>1 DEF PlainBlocks
    <3>3. SoundBlocks(blocks)
      <4>1. n \in Nat
        BY <1>1, <3>1
      <4> QED
        BY <3>2, <4>1, BlocksAreSound
    <3>4. SoundItem([PlainItem("pikabu") EXCEPT !.blocks = blocks])
      BY <2>2, <3>3 DEF SoundItem, PlainItem
    <3> QED
      BY <3>1, <3>4
  <2>5. CASE \E title \in {"words", "marks"}, body \in {"words", "marks", "empty", "none"},
                block \in Blocks(source) :
                RawItem([PlainItem(source) EXCEPT !.title = title, !.body = body,
                                                  !.blocks = <<block>>])
    <3>1. PICK title \in {"words", "marks"}, body \in {"words", "marks", "empty", "none"},
               block \in Blocks(source) :
             RawItem([PlainItem(source) EXCEPT !.title = title, !.body = body,
                                               !.blocks = <<block>>])
      BY <2>5
    <3>2. SoundBlocks(<<block>>)
      BY BlockIsSound
    <3>3. SoundItem([PlainItem(source) EXCEPT !.title = title, !.body = body,
                                               !.blocks = <<block>>])
      BY <2>2, <3>2 DEF SoundItem, PlainItem
    <3> QED
      BY <3>1, <3>3
  <2>6. CASE \E address \in Addresses, names \in [Names(source) -> {"words", "marks"}] :
                RawItem([PlainItem(source) EXCEPT !.address = address, !.names = names])
    <3>1. PICK address \in Addresses, names \in [Names(source) -> {"words", "marks"}] :
             RawItem([PlainItem(source) EXCEPT !.address = address, !.names = names])
      BY <2>6
    <3>2. SoundItem([PlainItem(source) EXCEPT !.address = address, !.names = names])
      BY <2>2 DEF SoundItem, PlainItem
    <3> QED
      BY <3>1, <3>2
  <2>7. CASE \E rights \in Declarations, block \in Blocks(source) :
                RawItem([PlainItem(source) EXCEPT !.rights = rights, !.blocks = <<block>>])
    <3>1. PICK rights \in Declarations, block \in Blocks(source) :
             RawItem([PlainItem(source) EXCEPT !.rights = rights, !.blocks = <<block>>])
      BY <2>7
    <3>2. SoundBlocks(<<block>>)
      BY BlockIsSound
    <3>3. SoundItem([PlainItem(source) EXCEPT !.rights = rights, !.blocks = <<block>>])
      BY <2>2, <3>2 DEF SoundItem, PlainItem
    <3> QED
      BY <3>1, <3>3
  <2>8. CASE \E fields \in SUBSET Fields(source) : \E topics \in [fields -> Topics] :
                RawItem([PlainItem(source) EXCEPT !.topics = topics])
    <3>1. PICK topics : RawItem([PlainItem(source) EXCEPT !.topics = topics])
      BY <2>8
    <3>2. SoundItem([PlainItem(source) EXCEPT !.topics = topics])
      BY <2>2 DEF SoundItem, PlainItem
    <3> QED
      BY <3>1, <3>2
  <2> QED
    BY <2>1, <2>3, <2>4, <2>5, <2>6, <2>7, <2>8
<1>3. PICK item : RawItem(item) /\ SoundItem(item)
  BY <1>2
<1>4. /\ raw = item
      /\ item.body = "empty" => item.source = "reddit"
      /\ item.source # "pikabu" => Len(item.blocks) <= MaxMedia
  BY <1>3 DEF RawItem
<1> QED
  BY <1>3, <1>4 DEF SoundRaw, ItemInit

\* An item that says something and has addresses that can be made canonical is
\* never lost to normalization, whatever its media, its missing body and its
\* texts of marks are; only a Pikabu story can have more media than the
\* normalized item holds.
THEOREM SayingItemIsNormalizedAlways == ItemSpec => []SayingItemIsNormalized
<1>1. RefusalsAreFair /\ [ItemNext]_itemVars => RefusalsAreFair'
  <2> SUFFICES ASSUME RefusalsAreFair, [ItemNext]_itemVars
               PROVE  RefusalsAreFair'
    OBVIOUS
  <2>1. SoundRaw /\ SayingItemIsNormalized
    BY DEF RefusalsAreFair
  <2>2. raw' = raw
    BY DEF ItemNext, Normalize, Admit, itemVars
  <2>3. SoundRaw'
    BY <2>1, <2>2 DEF SoundRaw, SoundItem, SoundBlocks, IsMedia
  <2>4. SayingItemIsNormalized'
    <3>1. CASE verdict' = "refused" /\ Normalize
      <4>1. ~AddressesAreSound(raw) \/ ~ValidItem(Normalized(raw))
        BY <3>1 DEF Normalize
      <4>2. \/ raw.title = "marks"
            \/ \E name \in DOMAIN raw.names : raw.names[name] = "marks"
            \/ ~AddressesAreSound(raw)
            \/ raw.body = "marks" /\ raw.source # "reddit"
            \/ \E i \in DOMAIN raw.blocks :
                  raw.blocks[i].kind = "quote" /\ raw.blocks[i].text = "marks"
            \/ /\ raw.source = "pikabu"
               /\ Cardinality(Range(Extracted(raw.blocks))) > MaxMedia
        BY <2>1, <4>1, SayingItemIsValid
      <4> QED
        BY <2>2, <4>2
        DEF SayingItemIsNormalized, AddressesAreSound, Extracted, Canonical, IsMedia
    <3>2. CASE UNCHANGED itemVars
      <4>1. verdict' = verdict
        BY <3>2 DEF itemVars
      <4> QED
        BY <2>1, <2>2, <4>1
        DEF SayingItemIsNormalized, AddressesAreSound, Extracted, Canonical, IsMedia
    <3>3. CASE Admit
      <4>1. verdict' # "refused"
        BY <3>3 DEF Admit
      <4> QED
        BY <4>1 DEF SayingItemIsNormalized
    <3>4. CASE verdict' # "refused"
      BY <3>4 DEF SayingItemIsNormalized
    <3> QED
      BY <3>1, <3>2, <3>3, <3>4 DEF ItemNext
  <2> QED
    BY <2>3, <2>4 DEF RefusalsAreFair
<1>2. RefusalsAreFair => SayingItemIsNormalized
  BY DEF RefusalsAreFair
<1> QED
  BY <1>1, <1>2, RawItemsAreSound, PTL DEF ItemSpec

-----------------------------------------------------------------------------
(* SourceItems: the right to publish *)

\* The declaration of the source is one of those there are, and the item that
\* was made of it carries it.
RightsAreTraced ==
    /\ raw.rights \in Declarations
    /\ verdict \in {"normalized", "excluded", "stored"} =>
          doc.rights = BuildRights(raw.rights)

\* Media that a stored item may have published unseen were released by their
\* source, for republication and with a license that asks for no permission.
THEOREM UnclearedIsNotPublishedAlways == ItemSpec => []UnclearedIsNotPublished
<1>1. ItemInit => RightsAreTraced
  BY RawItemsAreSound DEF RefusalsAreFair, SoundRaw, SoundItem, RightsAreTraced, ItemInit
<1>2. RightsAreTraced /\ [ItemNext]_itemVars => RightsAreTraced'
  <2> SUFFICES ASSUME RightsAreTraced, [ItemNext]_itemVars
               PROVE  RightsAreTraced'
    OBVIOUS
  <2>1. CASE Normalize
    <3>1. Normalized(raw).rights = BuildRights(raw.rights)
      BY DEF Normalized
    <3>2. /\ UNCHANGED raw
          /\ \/ verdict' = "normalized" /\ doc' = Normalized(raw)
             \/ verdict' = "refused"
      BY <2>1 DEF Normalize
    <3> QED
      BY <3>1, <3>2 DEF RightsAreTraced, BuildRights
  <2>2. CASE Admit
    BY <2>2 DEF Admit, RightsAreTraced, BuildRights
  <2>3. CASE UNCHANGED itemVars
    BY <2>3 DEF itemVars, RightsAreTraced, BuildRights
  <2> QED
    BY <2>1, <2>2, <2>3 DEF ItemNext
<1>3. RightsAreTraced => UnclearedIsNotPublished
  BY DEF RightsAreTraced, UnclearedIsNotPublished, PublishEligible, BuildRights, Declarations
<1> QED
  BY <1>1, <1>2, <1>3, PTL DEF ItemSpec

=============================================================================
