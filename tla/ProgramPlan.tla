----------------------------- MODULE ProgramPlan -----------------------------
(* How reviewed stories become one programme: the direction a language model  *)
(* proposes and the adapter accepts (infrastructure/llm/openai_compatible.py, *)
(* direct_program), the media it reserves, the revision a reviewer makes, and *)
(* the episode plan compiled from them (application/video_batches.py), which  *)
(* the models of domain/video.py accept or refuse.                            *)
EXTENDS SequencesExt

CONSTANTS
    Stories,      \* the stories of the batch
    Speakers,     \* the voices of the show
    MaxSegments,  \* segments of a story
    MaxScenes     \* the scenes an episode plan accepts, 100 in the code

\* A batch has stories; a scene without words has no speaker.
ASSUME ProgramAssumption ==
    /\ IsFiniteSet(Stories) /\ Stories # {}
    /\ "none" \notin Speakers
    /\ MaxSegments \in Nat /\ MaxScenes \in Nat

VARIABLES
    given,   \* the stories' scripts, their approved media, the template
    program, \* the direction, or what the model answered
    plan,    \* the compiled scenes
    stage    \* "directing", "refused", "reviewing", "compiled" or "failed"

programVars == <<given, program, plan, stage>>

\* A segment is its story and its place in it, a bridge its story and 0.
AllSegments == Stories \X (1..MaxSegments)
Orders == {o \in [1..Cardinality(Stories) -> Stories] : Range(o) = Stories}
BridgeOf(story) == <<story, 0>>

----------------------------------------------------------------------------
(* VideoBatchStory and the asset libraries: what a batch is made of. *)

SegmentsOf(length, story) == [i \in 1..length[story] |-> <<story, i>>]
OwnSegments(length) == {s \in AllSegments : s[2] <= length[s[1]]}

\* Images are bound to a segment, screenshots to a story, and a story has at
\* most one approved video here; b-roll is bound to a segment.
Pictures(length) == [images : SUBSET OwnSegments(length), screenshots : SUBSET Stories,
                     videos : {{}}, broll : {{}}]
Videos(length) == [images : {OwnSegments(length)}, screenshots : {{}},
                   videos : SUBSET Stories,
                   broll : {b \in SUBSET OwnSegments(length) : Cardinality(b) <= 2}]

\* A voice for each story. Which one the first has makes no difference.
Castings == {f \in [Stories -> Speakers] :
                f[CHOOSE s \in Stories : TRUE] = CHOOSE v \in Speakers : TRUE}

ProgramInit ==
    /\ \E length \in [Stories -> 1..MaxSegments], voice \in Castings, bareHost \in BOOLEAN :
       \E media \in Pictures(length) \cup Videos(length) :
          given = [length |-> length, media |-> media, bareHost |-> bareHost,
                   voice |-> [s \in OwnSegments(length) |-> voice[s[1]]]]
    /\ program = [order |-> <<>>]
    /\ plan = <<>>
    /\ stage = "directing"

----------------------------------------------------------------------------
(* direct_program: the model's answer and what of it is accepted. *)

Adjacent(order) == [i \in 1..(Len(order) - 1) |-> <<order[i], order[i + 1]>>]

\* _ProgramDirectorOutput: an order, a direction per story, a bridge per pair;
\* at most one of them is not what was asked for.
GoodAnswers ==
    [order   : Orders,
     module  : [Stories -> {"host_evidence", "evidence_fullscreen"}],
     after   : SUBSET given.media.videos,
     speaker : Range(given.voice)]
Answers ==
    {[order |-> good.order, listed |-> good.order, edges |-> Adjacent(good.order),
      module |-> good.module, after |-> good.after, speaker |-> good.speaker] :
        good \in GoodAnswers}
OneWrong(answer) ==
    {[answer EXCEPT !.order = <<s>>] : s \in Stories}
        \cup {[answer EXCEPT !.listed = Reverse(answer.order)]}
        \cup {[answer EXCEPT !.edges = e] : e \in {<<>>, Adjacent(Reverse(answer.order))}}
        \cup {[answer EXCEPT !.after = after] : after \in SUBSET Stories}
        \cup {[answer EXCEPT !.speaker = speaker] : speaker \in Speakers \cup {"stranger"}}

Accepted(answer) ==
    /\ answer.order \in Orders
    /\ answer.listed = answer.order
    /\ answer.edges = Adjacent(answer.order)
    /\ answer.after \subseteq given.media.videos
    /\ answer.speaker \in Range(given.voice)

\* The compiled script: every story as it was reviewed, a bridge after each but
\* the last.
Narrated(length, order) ==
    FlattenSeq([i \in DOMAIN order |->
        SegmentsOf(length, order[i])
            \o (IF i < Len(order) THEN <<BridgeOf(order[i])>> ELSE <<>>)])

\* _select_directed_source_videos.
SelectedVideos(answer) == {s \in Range(answer.order) : s \in answer.after}

\* _select_broll_videos: at most one, the first in the order of the programme.
SelectedBroll(answer) ==
    LET segments == Narrated(given.length, answer.order)
        known    == {i \in DOMAIN segments : segments[i] \in given.media.broll}
    IN  {segments[i] : i \in {k \in known : \A j \in known : k <= j}}

\* create: the answer is refused, or the batch is stored with its direction and
\* its reservations.
Direct ==
    /\ stage = "directing"
    /\ \E good \in Answers : \E answer \in {good} \cup OneWrong(good) :
          IF Accepted(answer)
          THEN /\ program' = [order |-> answer.order, module |-> answer.module,
                              videos |-> SelectedVideos(answer),
                              broll |-> SelectedBroll(answer),
                              voice |-> [s \in DOMAIN given.voice
                                               \cup Range(Narrated(given.length, answer.order)) |->
                                            IF s[2] = 0 THEN answer.speaker
                                            ELSE given.voice[s]]]
               /\ stage' = "reviewing"
          ELSE stage' = "refused" /\ UNCHANGED program
    /\ UNCHANGED <<given, plan>>

\* submit_narration_review, REVISE: wording and voices change, the segments do
\* not.  Bound: one segment is given another voice.
Revise ==
    /\ stage = "reviewing"
    /\ \A segment \in DOMAIN given.voice : program.voice[segment] = given.voice[segment]
    /\ \E segment \in DOMAIN program.voice, speaker \in Speakers :
          program' = [program EXCEPT !.voice[segment] = speaker]
    /\ UNCHANGED <<given, plan, stage>>

----------------------------------------------------------------------------
(* _build_episode_plan. *)

\* _scene_visuals: the segment's image, otherwise the story's screenshot.
SceneVisual(story, segment) ==
    IF segment \in given.media.images THEN segment
    ELSE IF story \in given.media.screenshots THEN <<story>> ELSE <<>>

\* A scene of words. A visual is a segment's image or the screenshot of a story.
Narration(module, story, segment) ==
    [module |-> module, story |-> story, segment |-> segment,
     speaker |-> program.voice[segment], visual |-> SceneVisual(story, segment),
     enter |-> FALSE, exit |-> FALSE]

\* A scene of a video, original or b-roll.
Clip(module, story) ==
    [module |-> module, story |-> story, segment |-> <<>>, speaker |-> "none",
     visual |-> <<>>, enter |-> FALSE, exit |-> FALSE]

WithBroll(story, segment) ==
    <<Narration(program.module[story], story, segment)>>
        \o (IF segment \in program.broll THEN <<Clip("broll_video", story)>> ELSE <<>>)

\* Fault: the videos come after the bridge.
StoryScenesBridgeFirst(i) ==
    LET story == program.order[i]
    IN  FlattenSeq([j \in 1..given.length[story] |-> WithBroll(story, <<story, j>>)])
        \o (IF i < Len(program.order)
            THEN <<Narration("host_evidence", story, BridgeOf(story))>> ELSE <<>>)
        \o (IF story \in program.videos THEN <<Clip("source_video", story)>> ELSE <<>>)

\* The scenes of one story: its segments, each with its b-roll, its video, and
\* the bridge to the next.
StoryScenes(i) ==
    LET story == program.order[i]
    IN  FlattenSeq([j \in 1..given.length[story] |-> WithBroll(story, <<story, j>>)])
        \o (IF story \in program.videos THEN <<Clip("source_video", story)>> ELSE <<>>)
        \o (IF i < Len(program.order)
            THEN <<Narration("host_evidence", story, BridgeOf(story))>> ELSE <<>>)

SceneSpecs == FlattenSeq([i \in DOMAIN program.order |-> StoryScenes(i)])

Visible(scene) == scene.module = "host_evidence"

\* Fault: a video between two scenes does not send the host away.
HostMovesBySpeaker(scenes) ==
    [i \in DOMAIN scenes |->
        IF ~Visible(scenes[i]) THEN scenes[i]
        ELSE [scenes[i] EXCEPT
                !.enter = i = 1 \/ scenes[i - 1].speaker \notin {scenes[i].speaker, "none"},
                !.exit = \/ i = Len(scenes)
                         \/ scenes[i + 1].speaker \notin {scenes[i].speaker, "none"}]]

\* The second pass: a host enters and leaves where its neighbours do not show it.
HostMoves(scenes) ==
    [i \in DOMAIN scenes |->
        IF ~Visible(scenes[i]) THEN scenes[i]
        ELSE [scenes[i] EXCEPT
                !.enter = \/ i = 1 \/ ~Visible(scenes[i - 1])
                          \/ scenes[i - 1].speaker # scenes[i].speaker,
                !.exit = \/ i = Len(scenes) \/ ~Visible(scenes[i + 1])
                         \/ scenes[i + 1].speaker # scenes[i].speaker]]

\* Fault: the default variant or none.
HasDefaultVariant(scene) ==
    scene.module \in {"source_video", "broll_video"} \/ scene.visual # <<>>

\* _resolve_scene_variant on the registered template: evidence needs a picture,
\* and a host without one the variant that a policy may have disabled.
HasVariant(scene) ==
    \/ scene.module \in {"source_video", "broll_video"}
    \/ scene.visual # <<>>
    \/ scene.module = "host_evidence" /\ given.bareHost

\* require_visual_assets.
HasPictures ==
    \/ given.media.images # {} \/ given.media.screenshots # {}
    \/ program.videos # {} \/ program.broll # {}

\* The segments that scenes narrate.
Narrating(scenes) ==
    FlattenSeq([i \in DOMAIN scenes |->
        IF scenes[i].segment = <<>> THEN <<>> ELSE <<scenes[i].segment>>])

\* EpisodeScene: a video has neither words nor pictures, narration has a
\* segment and a speaker.
ValidScene(scene) ==
    IF scene.module \in {"source_video", "broll_video"}
    THEN scene.segment = <<>> /\ scene.speaker = "none" /\ scene.visual = <<>>
    ELSE scene.segment # <<>> /\ scene.speaker # "none"

\* EpisodePlan and RemotionVideoProps on what the compiler made.
ValidPlan(scenes) ==
    /\ Len(scenes) \in 1..MaxScenes
    /\ Narrating(scenes) = Narrated(given.length, program.order)
    /\ \A i \in DOMAIN scenes :
          /\ scenes[i].module = "evidence_fullscreen" => ~scenes[i].enter /\ ~scenes[i].exit
          /\ ValidScene(scenes[i])
          /\ scenes[i].segment # <<>> =>
                scenes[i].speaker = program.voice[scenes[i].segment]
          /\ scenes[i].module = "broll_video" =>
                i > 1 /\ scenes[i - 1].segment \in program.broll
    /\ {i \in DOMAIN scenes : scenes[i].module = "source_video"} = {} <=> program.videos = {}
    /\ {scenes[i].story : i \in {j \in DOMAIN scenes : scenes[j].module = "source_video"}}
          = program.videos

\* synthesize_narration, from the manifest to the snapshot of the inputs.
Compile ==
    /\ stage = "reviewing"
    /\ LET scenes == HostMoves(SceneSpecs)
       IN  IF HasPictures /\ (\A i \in DOMAIN scenes : HasVariant(scenes[i])) /\ ValidPlan(scenes)
           THEN plan' = scenes /\ stage' = "compiled"
           ELSE stage' = "failed" /\ UNCHANGED plan
    /\ UNCHANGED <<given, program>>

ProgramNext == Direct \/ Revise \/ Compile
ProgramSpec == ProgramInit /\ [][ProgramNext]_programVars

----------------------------------------------------------------------------

(* A compiled programme tells every story once and whole, as it was reviewed: *)
(* its segments in order, then its original video, then the bridge, with      *)
(* nothing of another story between, and shows no other story's pictures.     *)
StoriesStayWhole ==
    stage = "compiled" =>
        /\ \A i, j \in DOMAIN plan :
              i < j /\ plan[i].story = plan[j].story =>
                 \A k \in i..j : plan[k].story = plan[i].story
        /\ \A story \in Stories : \A n \in 1..given.length[story] :
              \E i \in DOMAIN plan : plan[i].segment = <<story, n>>
        /\ \A i, j \in DOMAIN plan :
              /\ plan[i].story = plan[j].story
              /\ plan[i].segment # <<>> /\ plan[j].module = "source_video"
              => (i > j <=> plan[i].segment[2] = 0)
        /\ \A i \in DOMAIN plan :
              /\ plan[i].module = "source_video" => plan[i].story \in given.media.videos
              /\ plan[i].visual # <<>> =>
                 plan[i].visual = <<plan[i].story>> \/ plan[i].visual = plan[i].segment

(* A host that is on screen has entered and leaves before another enters or a *)
(* video plays, and never enters twice.                                       *)
HostIsThereOnce ==
    stage = "compiled" =>
        \A i \in DOMAIN plan : Visible(plan[i]) =>
            LET before == {j \in 1..(i - 1) : plan[j].exit \/ plan[j].enter \/ ~Visible(plan[j])}
                last   == IF before = {} THEN 0 ELSE CHOOSE j \in before : \A k \in before : k <= j
                onStage == last > 0 /\ Visible(plan[last]) /\ plan[last].enter /\ ~plan[last].exit
            IN  /\ plan[i].enter <=> ~onStage
                /\ onStage => plan[last].speaker = plan[i].speaker

(* A batch whose narration was approved fails to compile only because its     *)
(* director asked for a full screen of evidence a story has no picture of,    *)
(* because the plain host scene it needs is disabled, because it shows no     *)
(* picture at all, or because its scenes are more than a plan holds: none of  *)
(* which the language model was told or the creation of the batch examined.   *)
CompileFailsForAReason ==
    stage = "failed" =>
        \/ \E story \in Stories : program.module[story] = "evidence_fullscreen"
              /\ story \notin given.media.screenshots
              /\ \E n \in 1..given.length[story] : <<story, n>> \notin given.media.images
        \/ ~given.bareHost
        \/ /\ given.media.images = {} /\ given.media.screenshots = {}
           /\ given.media.broll = {} /\ program.videos = {}
        \/ Len(Narrated(given.length, program.order)) + Cardinality(program.videos)
              + Cardinality(program.broll) > MaxScenes
=============================================================================
