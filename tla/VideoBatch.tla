----------------------------- MODULE VideoBatch -----------------------------
(***************************************************************************)
(* The video desk of one god-news process: batches that claim finished     *)
(* stories, direct them into one narration, and take it through narration  *)
(* review, local synthesis, timeline review and rendering                  *)
(* (application/video_batches.py, domain/video.py,                         *)
(* infrastructure/video_repository.py).                                    *)
(*                                                                         *)
(* Creating batches is serialised by the asset lifecycle lock; work on one *)
(* batch by a lock per batch. Synthesis gives its lock up while the speech *)
(* provider runs; rendering keeps it. Stories are edited meanwhile.        *)
(***************************************************************************)
EXTENDS Naturals, FiniteSets

CONSTANTS
    Stories,         \* source stories
    Batches,         \* batch identities, each used once
    NoBatch,         \* no batch: the batch of an idle task
    Tasks,           \* asyncio tasks that can run a call at the same time
    MaxVersion,      \* bound: a batch this old accepts no further request
    MaxRevision,     \* bound: a story in this revision is not edited again
    DatabaseFaults   \* whether the last write of a call may fail

ASSUME BatchesAssumption == NoBatch \notin Batches
ASSUME BoundsAssumption == MaxVersion \in Nat /\ MaxRevision \in Nat
ASSUME FaultsAssumption == DatabaseFaults \in BOOLEAN

VARIABLES
    story,   \* story -> its revision and whether it is DONE
    batch,   \* batch -> its durable row
    claims,  \* the claim rows: pairs of a story and the batch that holds it
    task     \* task -> the call it runs, its copy of the row, and its lock

vars == <<story, batch, claims, task>>
durable == <<batch, claims>>

Status ==
    {"PENDING_NARRATION_REVIEW", "PENDING_BATCH_TTS", "PROCESSING_BATCH_TTS",
     "PENDING_TIMELINE_REVIEW", "READY_TO_RENDER", "RENDERING", "RENDERED",
     "FAILED", "REJECTED", "CANCELLED"}

\* VIDEO_BATCH_TRANSITIONS. No status may follow itself.
Transitions ==
    {<<"PENDING_NARRATION_REVIEW", to>> :
        to \in {"PENDING_BATCH_TTS", "REJECTED", "CANCELLED"}}
    \cup {<<"PENDING_BATCH_TTS", to>> :
        to \in {"PENDING_NARRATION_REVIEW", "PROCESSING_BATCH_TTS", "REJECTED", "CANCELLED"}}
    \cup {<<"PROCESSING_BATCH_TTS", to>> :
        to \in {"PENDING_BATCH_TTS", "PENDING_TIMELINE_REVIEW"}}
    \cup {<<"PENDING_TIMELINE_REVIEW", to>> :
        to \in {"PENDING_NARRATION_REVIEW", "READY_TO_RENDER", "REJECTED", "CANCELLED"}}
    \cup {<<"READY_TO_RENDER", to>> : to \in {"RENDERING", "CANCELLED"}}
    \cup {<<"RENDERING", to>> : to \in {"RENDERED", "FAILED"}}
    \cup {<<"FAILED", to>> : to \in {"RENDERING", "CANCELLED"}}

\* A source snapshot holds the script revision and the revision its manifest
\* was built from, read one after the other.
Snapshot == [story : Stories, script : Nat, manifest : Nat]

\* A review names the narration revision or the render input it judged; the
\* row keeps the latest narration review, the one its validators look at.
Verdict == [decision : {"none", "approve", "revise", "reject"}, of : Nat]
NoVerdict == [decision |-> "none", of |-> 0]

\* script is the narration's revision and audio the revision that was spoken;
\* input stands for render_input_sha256, and artifact for the input that was
\* rendered. failed is narration_failure or last_failure, by status.
Row == [status    : Status \cup {"ABSENT", "DELETED"},
        version   : Nat,
        sources   : SUBSET Snapshot,
        script    : Nat,
        audio     : Nat,
        input     : Nat,
        narration : Verdict,
        timeline  : Verdict,
        artifact  : Nat,
        failed    : BOOLEAN]

Absent == [status |-> "ABSENT", version |-> 0, sources |-> {}, script |-> 0,
           audio |-> 0, input |-> 0, narration |-> NoVerdict,
           timeline |-> NoVerdict, artifact |-> 0, failed |-> FALSE]
Deleted == [Absent EXCEPT !.status = "DELETED"]

CreatePC == {"selected", "directing"}
PC == CreatePC \cup {"idle", "synthesizing", "rendering", "committing", "failing"}
Call == [pc : PC, batch : Batches \cup {NoBatch}, held : Row, locked : BOOLEAN]
IdleCall == [pc |-> "idle", batch |-> NoBatch, held |-> Absent, locked |-> FALSE]

(* Type correctness of the stories, rows, claims and calls in progress.       *)
TypeOK ==
    /\ story \in [Stories -> [rev : Nat, done : BOOLEAN]]
    /\ batch \in [Batches -> Row]
    /\ claims \in SUBSET (Stories \X Batches)
    /\ task \in [Tasks -> Call]

Init ==
    /\ story = [s \in Stories |-> [rev |-> 1, done |-> TRUE]]
    /\ batch = [b \in Batches |-> Absent]
    /\ claims = {}
    /\ task = [t \in Tasks |-> IdleCall]

-----------------------------------------------------------------------------
(* The row's validators and the repository *)

PreTts == {"PENDING_NARRATION_REVIEW", "PENDING_BATCH_TTS", "PROCESSING_BATCH_TTS"}
Renderable == {"READY_TO_RENDER", "RENDERING", "RENDERED", "FAILED"}
Released == {"RENDERED", "REJECTED", "CANCELLED"}

Generated(r) == r.audio # 0

\* VideoBatchStory: the manifest of a snapshot is of the snapshot's script.
ValidSources(r) == \A p \in r.sources : p.manifest = p.script

\* VideoBatch.validate_batch and its review and render evidence.
ValidMedia(r) ==
    /\ Generated(r) => r.audio = r.script /\ r.input # 0
    /\ ~Generated(r) => r.input = 0
    /\ r.timeline # NoVerdict => r.timeline.of = r.input
    /\ r.status \in PreTts => ~Generated(r) /\ r.timeline = NoVerdict
    /\ r.status \in Renderable \cup {"PENDING_TIMELINE_REVIEW"} => Generated(r)

ValidReviews(r) ==
    /\ r.status = "PENDING_NARRATION_REVIEW" => r.narration.decision # "approve"
    /\ r.status \in Renderable \cup {"PENDING_BATCH_TTS", "PROCESSING_BATCH_TTS",
                                     "PENDING_TIMELINE_REVIEW"} =>
          r.narration.decision = "approve"
    /\ r.status = "PENDING_TIMELINE_REVIEW" => r.timeline = NoVerdict
    /\ r.status \in Renderable => r.timeline.decision = "approve"
    /\ r.status = "REJECTED" =>
          \/ ~Generated(r) /\ r.timeline = NoVerdict /\ r.narration.decision = "reject"
          \/ Generated(r) /\ r.timeline.decision = "reject"

ValidOutcome(r) ==
    /\ r.status = "RENDERED" <=> r.artifact # 0
    /\ r.status = "FAILED" => r.failed
    /\ r.failed => r.status \in {"FAILED", "PENDING_BATCH_TTS"}

ValidBatch(r) ==
    ValidSources(r) /\ ValidMedia(r) /\ ValidReviews(r) /\ ValidOutcome(r)

Exists(b) == batch[b].status \in Status
SourceStories(r) == {p.story : p \in r.sources}
ClaimsOf(b) == {c \in claims : c[2] = b}

\* SqlAlchemyVideoBatchRepository.save with the expected version in
\* new.version: what it accepts, and its one transaction, in which the end of
\* a batch gives its stories back.
SaveAccepted(b, new) ==
    /\ Exists(b)
    /\ ValidBatch(new)
    /\ <<batch[b].status, new.status>> \in Transitions
    /\ batch[b].version = new.version
    /\ new.status = "RENDERED" =>
          Cardinality(ClaimsOf(b)) = Cardinality(SourceStories(new))

Saved(new) == [new EXCEPT !.version = @ + 1]

\* Fault: a rejected batch keeps its stories.
SaveKeepingRejected(b, new) ==
    /\ SaveAccepted(b, new)
    /\ batch' = [batch EXCEPT ![b] = Saved(new)]
    /\ claims' = IF new.status \in Released \ {"REJECTED"} THEN claims \ ClaimsOf(b)
                 ELSE claims

Save(b, new) ==
    /\ SaveAccepted(b, new)
    /\ batch' = [batch EXCEPT ![b] = Saved(new)]
    /\ claims' = IF new.status \in Released THEN claims \ ClaimsOf(b) ELSE claims

\* The write that ends a long call, which nobody retries.
LastSave(b, new) ==
    \/ Save(b, new)
    \/ DatabaseFaults /\ UNCHANGED durable

-----------------------------------------------------------------------------
(* Locks and calls *)

Free(b) == \A t \in Tasks : ~(task[t].locked /\ task[t].batch = b)
AssetLockFree == \A t \in Tasks : task[t].pc \notin CreatePC

\* A request that owns the batch's lock and carries its current version.
Request(b) == Exists(b) /\ Free(b) /\ batch[b].version < MaxVersion

At(t, pc) == task[t].pc = pc
Goto(t, pc, b, held, locked) ==
    task' = [task EXCEPT ![t] =
                [pc |-> pc, batch |-> b, held |-> held, locked |-> locked]]
EndCall(t) == task' = [task EXCEPT ![t] = IdleCall]

Update(r, status) == [r EXCEPT !.status = status, !.failed = FALSE]

\* The editors reopen and revise a finished story, and finish it again.
EditStory(s) ==
    /\ story[s].done
    /\ story[s].rev < MaxRevision
    /\ story' = [story EXCEPT ![s] = [rev |-> @.rev + 1, done |-> FALSE]]
    /\ UNCHANGED <<batch, claims, task>>

FinishStory(s) ==
    /\ ~story[s].done
    /\ story' = [story EXCEPT ![s].done = TRUE]
    /\ UNCHANGED <<batch, claims, task>>

-----------------------------------------------------------------------------
(* Creating a batch *)

\* _select_stories: finished stories that no unrendered batch claims.
Unavailable == {c[1] : c \in {d \in claims : batch[d[2]].status # "RENDERED"}}

Select(t, b) ==
    /\ At(t, "idle") /\ AssetLockFree
    /\ batch[b] = Absent
    /\ \E chosen \in SUBSET {s \in Stories \ Unavailable : story[s].done} \ {{}} :
          Goto(t, "selected", b,
               [Absent EXCEPT !.sources =
                   {[story |-> s, script |-> story[s].rev, manifest |-> 0] : s \in chosen}],
               FALSE)
    /\ UNCHANGED <<story, batch, claims>>

\* _build_batch_stories: every story is read again for its manifest, and the
\* call fails if one is no longer DONE or DONE in another revision.
ReadManifests(t) ==
    LET held == task[t].held
        sources == {[p EXCEPT !.manifest = story[p.story].rev] : p \in held.sources}
        created == [held EXCEPT !.status = "PENDING_NARRATION_REVIEW",
                                !.version = 1, !.script = 1, !.sources = sources]
    IN  /\ At(t, "selected")
        /\ IF ValidSources(created) /\ \A p \in sources : story[p.story].done
           THEN Goto(t, "directing", task[t].batch, created, FALSE)
           ELSE EndCall(t)
        /\ UNCHANGED <<story, batch, claims>>

\* The director has answered: row and claims are inserted together, claims of
\* rendered batches making way, or not at all.
Insert(t) ==
    LET b == task[t].batch
        wanted == SourceStories(task[t].held)
        stale == {c \in claims : c[1] \in wanted /\ batch[c[2]].status = "RENDERED"}
    IN  /\ At(t, "directing")
        /\ IF \E c \in claims \ stale : c[1] \in wanted
           THEN UNCHANGED durable
           ELSE /\ batch' = [batch EXCEPT ![b] = task[t].held]
                /\ claims' = (claims \ stale) \cup (wanted \X {b})
        /\ EndCall(t)
        /\ UNCHANGED story

\* An error or a cancellation before the insert leaves nothing behind.
CreateFails(t) ==
    /\ task[t].pc \in CreatePC
    /\ EndCall(t)
    /\ UNCHANGED <<story, batch, claims>>

-----------------------------------------------------------------------------
(* Narration review and synthesis *)

\* submit_narration_review, and the statuses it lets a decision through in.
NarrationReviewAllowed(r, decision) ==
    \/ r.status = "PENDING_NARRATION_REVIEW"
    \/ /\ decision = "revise"
       /\ r.status \in {"PENDING_BATCH_TTS", "PENDING_TIMELINE_REVIEW"}

Revised(r) ==
    [Update(r, "PENDING_NARRATION_REVIEW") EXCEPT
        !.script = r.script + 1, !.audio = 0, !.input = 0, !.timeline = NoVerdict,
        !.narration = [decision |-> "revise", of |-> r.script + 1]]

\* Fault: a revision does not go back to its reviewer.
ReviseInPlace(b) ==
    /\ Request(b)
    /\ NarrationReviewAllowed(batch[b], "revise")
    /\ batch' = [batch EXCEPT ![b].script = @ + 1, ![b].version = @ + 1]
    /\ UNCHANGED <<story, claims, task>>

ReviseNarration(b) ==
    /\ Request(b)
    /\ NarrationReviewAllowed(batch[b], "revise")
    /\ Save(b, Revised(batch[b]))
    /\ UNCHANGED <<story, task>>

JudgeNarration(b) ==
    /\ Request(b)
    /\ \E verdict \in {<<"approve", "PENDING_BATCH_TTS">>, <<"reject", "REJECTED">>} :
          /\ NarrationReviewAllowed(batch[b], verdict[1])
          /\ Save(b, [Update(batch[b], verdict[2]) EXCEPT
                         !.narration = [decision |-> verdict[1], of |-> batch[b].script]])
    /\ UNCHANGED <<story, task>>

\* synthesize_narration up to the release of the lock. A cancellation while
\* the save commits ends the call with the batch already processing.
Synthesize(t, b) ==
    LET running == Update(batch[b], "PROCESSING_BATCH_TTS")
    IN  /\ At(t, "idle")
        /\ Request(b)
        /\ batch[b].status = "PENDING_BATCH_TTS"
        /\ Save(b, running)
        /\ Goto(t, "synthesizing", b, Saved(running), FALSE) \/ UNCHANGED task
        /\ UNCHANGED story

\* The recheck of a synthesis that has taken its lock again.
Unchanged(t) ==
    LET r == batch[task[t].batch]
    IN  r.status = "PROCESSING_BATCH_TTS" /\ r.version = task[t].held.version

\* The media are ready: a new render input, named here by the version that
\* introduces it.
AcceptMedia(t) ==
    LET held == task[t].held
        b == task[t].batch
    IN  /\ At(t, "synthesizing") /\ Free(b)
        /\ IF Unchanged(t)
           THEN LastSave(b, [Update(held, "PENDING_TIMELINE_REVIEW") EXCEPT
                                !.audio = held.script, !.input = held.version + 1])
           ELSE UNCHANGED durable
        /\ EndCall(t)
        /\ UNCHANGED story

\* _record_narration_failure, for any exception of speech, host or assembly.
NarrationFails(t) ==
    LET b == task[t].batch
    IN  /\ At(t, "synthesizing") /\ Free(b)
        /\ IF Unchanged(t)
           THEN LastSave(b, [Update(task[t].held, "PENDING_BATCH_TTS") EXCEPT !.failed = TRUE])
           ELSE UNCHANGED durable
        /\ EndCall(t)
        /\ UNCHANGED story

-----------------------------------------------------------------------------
(* Timeline review and rendering *)

JudgeTimeline(b) ==
    /\ Request(b)
    /\ batch[b].status = "PENDING_TIMELINE_REVIEW"
    /\ \E verdict \in {<<"approve", "READY_TO_RENDER">>, <<"reject", "REJECTED">>} :
          Save(b, [Update(batch[b], verdict[2]) EXCEPT
                      !.timeline = [decision |-> verdict[1], of |-> batch[b].input]])
    /\ UNCHANGED <<story, task>>

\* Fault: the lock is not kept while the renderer runs, nor its status taken.
RenderTwice(t, b) ==
    /\ At(t, "idle")
    /\ Request(b)
    /\ batch[b].status \in {"READY_TO_RENDER", "FAILED"}
    /\ Goto(t, "rendering", b, batch[b], FALSE)
    /\ UNCHANGED <<story, batch, claims>>

\* render: the durable start, also of a retry. A cancellation while it commits
\* ends the call before the code that would record the failure.
Render(t, b) ==
    LET running == Update(batch[b], "RENDERING")
    IN  /\ At(t, "idle")
        /\ Request(b)
        /\ batch[b].status \in {"READY_TO_RENDER", "FAILED"}
        /\ Save(b, running)
        /\ Goto(t, "rendering", b, Saved(running), TRUE) \/ UNCHANGED task
        /\ UNCHANGED story

\* The renderer has produced the files; their evidence is not yet saved.
RenderSucceeds(t) ==
    /\ At(t, "rendering")
    /\ Goto(t, "committing", task[t].batch, task[t].held, TRUE)
    /\ UNCHANGED <<story, batch, claims>>

\* _save_render_commit, which finishes also when the call is cancelled.
CommitRender(t) ==
    LET held == task[t].held
    IN  /\ At(t, "committing")
        /\ LastSave(task[t].batch, [Update(held, "RENDERED") EXCEPT !.artifact = held.input])
        /\ EndCall(t)
        /\ UNCHANGED story

RenderFailure(r) == [Update(r, "FAILED") EXCEPT !.failed = TRUE]

\* An exception of the renderer, or the shielded write of a cancelled render.
RenderFails(t) ==
    /\ At(t, "rendering") \/ At(t, "failing")
    /\ LastSave(task[t].batch, RenderFailure(task[t].held))
    /\ EndCall(t)
    /\ UNCHANGED story

\* The task is cancelled. A synthesis just stops: CancelledError is no
\* Exception. A render turns to its shielded failure record; cancelled again,
\* or twice during its commit, it leaves the write behind without the lock.
CancelTask(t) ==
    /\ \/ /\ At(t, "synthesizing")
          /\ EndCall(t)
       \/ /\ At(t, "rendering")
          /\ Goto(t, "failing", task[t].batch, task[t].held, TRUE)
       \/ /\ At(t, "failing") \/ At(t, "committing")
          /\ task[t].locked
          /\ task' = [task EXCEPT ![t].locked = FALSE]
    /\ UNCHANGED <<story, batch, claims>>

-----------------------------------------------------------------------------
(* Cancelling, deleting, restarting *)

\* cancel, when it changes anything.
CancelBatch(b) ==
    /\ Request(b)
    /\ batch[b].status \notin Released \cup {"RENDERING", "PROCESSING_BATCH_TTS"}
    /\ Save(b, Update(batch[b], "CANCELLED"))
    /\ UNCHANGED <<story, task>>

DeleteBatch(b) ==
    /\ Exists(b) /\ Free(b)
    /\ batch[b].status \notin {"PROCESSING_BATCH_TTS", "RENDERING", "RENDERED"}
    /\ batch' = [batch EXCEPT ![b] = Deleted]
    /\ claims' = claims \ ClaimsOf(b)
    /\ UNCHANGED <<story, task>>

\* The process dies and starts again; before it takes requests,
\* recover_interrupted turns every RENDERING row into a retryable failure, in
\* one transaction. No other status is recovered.
Restart ==
    /\ task' = [t \in Tasks |-> IdleCall]
    /\ batch' = [b \in Batches |->
                    IF batch[b].status = "RENDERING"
                    THEN Saved(RenderFailure(batch[b])) ELSE batch[b]]
    /\ UNCHANGED <<story, claims>>

-----------------------------------------------------------------------------
Progress(t) ==
    \/ ReadManifests(t) \/ Insert(t) \/ CreateFails(t)
    \/ AcceptMedia(t) \/ NarrationFails(t)
    \/ RenderSucceeds(t) \/ CommitRender(t) \/ RenderFails(t)

StartsCall(t, b) == Select(t, b) \/ Synthesize(t, b) \/ Render(t, b)

ShortCall(b) ==
    \/ ReviseNarration(b) \/ JudgeNarration(b) \/ JudgeTimeline(b)
    \/ CancelBatch(b) \/ DeleteBatch(b)

Next ==
    \/ \E t \in Tasks : Progress(t) \/ CancelTask(t)
    \/ \E t \in Tasks, b \in Batches : StartsCall(t, b)
    \/ \E b \in Batches : ShortCall(b)
    \/ \E s \in Stories : EditStory(s) \/ FinishStory(s)
    \/ Restart

Spec == Init /\ [][Next]_vars

\* Providers and renderer time out, so a running call takes its next step; an
\* operator keeps cancelling what can be cancelled and the process is
\* restarted again and again.
Fairness ==
    /\ \A t \in Tasks : SF_vars(Progress(t))
    /\ \A b \in Batches : SF_vars(CancelBatch(b))
    /\ WF_vars(Restart)

FairSpec == Spec /\ Fairness

-----------------------------------------------------------------------------
(* Safety *)

(* The claim rows are exactly the stories of the batches that can still use   *)
(* them, and no two such batches share a story.                               *)
ClaimsAreExact ==
    /\ claims = UNION {SourceStories(batch[b]) \X {b} :
                          b \in {c \in Batches : Exists(c) /\ batch[c].status \notin Released}}
    /\ \A c, d \in claims : c[1] = d[1] => c = d

(* What is rendered, and what a renderer is working on, is the input a        *)
(* reviewer approved at the timeline gate, made of audio of the narration     *)
(* revision a reviewer approved at the narration gate.                        *)
ApprovedForRender(r) ==
    /\ r.narration = [decision |-> "approve", of |-> r.script]
    /\ r.audio = r.script
    /\ r.timeline = [decision |-> "approve", of |-> r.input]
    /\ r.artifact \in {0, r.input}

RenderedAsApproved ==
    /\ \A b \in Batches : batch[b].status \in Renderable => ApprovedForRender(batch[b])
    /\ \A t \in Tasks :
          task[t].pc \in {"rendering", "committing"} => ApprovedForRender(task[t].held)

(* A call that speaks or renders a batch is the only one that does, and its   *)
(* copy is the present row: no request, retry, restart or abandoned write     *)
(* gets between it and its result.                                            *)
WorkerOwnsBatch ==
    \A t \in Tasks :
        task[t].pc \in {"synthesizing", "rendering", "committing", "failing"} =>
            /\ batch[task[t].batch] = task[t].held
            /\ \A u \in Tasks \ {t} : task[u].batch # task[t].batch

-----------------------------------------------------------------------------
(* Liveness *)

(* The API mapping promises that a batch not yet rendered can give its        *)
(* stories back (docs/architecture/frontend-api-mapping.md:97): with an       *)
(* operator who keeps trying to cancel it, it is in the end released.         *)
UnrenderedIsReleasable ==
    \A b \in Batches :
        Exists(b) ~> \/ batch[b].status \in Released \cup {"DELETED"}
                     \/ batch[b].version >= MaxVersion

=============================================================================
