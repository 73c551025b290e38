--------------------------- MODULE StoryWorkflow ---------------------------
(***************************************************************************)
(* The editorial pipeline of one god-news process: the durable story rows  *)
(* with their reviews and audit rows (infrastructure/repositories.py), the *)
(* story state machine (domain/fsm.py) and the calls that move stories     *)
(* through it (application/workflow.py).                                   *)
(*                                                                         *)
(* A call holds the story's lock from its first read to its last write,    *)
(* with three exceptions the model keeps: a new story is written before    *)
(* its lock is taken (workflow.py:123-125), a cancelled synthesis that is  *)
(* cancelled again leaves its shielded write behind without the lock       *)
(* (workflow.py:687-697), and a crash drops every call at any point.       *)
(* A call that reads, decides and writes under the lock without waiting    *)
(* for a model or a speech provider is one step: every write is a          *)
(* compare-and-swap on the version it read, so what happens in between can *)
(* only have it refused.                                                   *)
(***************************************************************************)
EXTENDS Naturals, FiniteSets

CONSTANTS
    Stories,     \* stories, one per distinct source identity
    NoStory,     \* no story: the story of an idle task
    Tasks,       \* asyncio tasks that can run a call at the same time
    Texts,       \* what a script can say
    NoText,      \* no script
    MaxVersion   \* bound: a story this old accepts no further request

ASSUME StoriesAssumption == NoStory \notin Stories
ASSUME TextsAssumption == NoText \notin Texts
ASSUME MaxVersionAssumption == MaxVersion \in Nat

VARIABLES
    row,      \* story -> its durable row
    reviews,  \* story -> its recorded reviews
    audit,    \* story -> its recorded status changes
    task      \* task -> the call it runs, and the copy of the story it works on

vars == <<row, reviews, audit, task>>
durable == <<row, reviews, audit>>

Status ==
    {"FETCHED", "TRANSLATED", "PENDING_FIRST_REVIEW", "PROCESSING_SCRIPT",
     "SCRIPT_READY", "PENDING_TTS", "PROCESSING_TTS",
     "PENDING_SECOND_REVIEW", "DONE", "ARCHIVED"}

\* _TRANSITIONS of domain/fsm.py; every live status may also be archived.
Transitions ==
    {<<"FETCHED", "TRANSLATED">>,
     <<"TRANSLATED", "PENDING_FIRST_REVIEW">>,
     <<"PENDING_FIRST_REVIEW", "PROCESSING_SCRIPT">>,
     <<"PROCESSING_SCRIPT", "SCRIPT_READY">>,
     <<"SCRIPT_READY", "PENDING_TTS">>,
     <<"PENDING_TTS", "PROCESSING_TTS">>,
     <<"PROCESSING_TTS", "PENDING_TTS">>,
     <<"PROCESSING_TTS", "PENDING_SECOND_REVIEW">>,
     <<"PENDING_SECOND_REVIEW", "SCRIPT_READY">>,
     <<"PENDING_SECOND_REVIEW", "DONE">>,
     <<"DONE", "PENDING_SECOND_REVIEW">>}
        \cup ((Status \ {"ARCHIVED"}) \X {"ARCHIVED"})

\* A script is its revision and its wording; an audio bundle is named by the
\* script it speaks.
NoScript == [rev |-> 0, text |-> NoText]
Script == [rev : Nat, text : Texts \cup {NoText}]

Row == [status     : Status \cup {"ABSENT"},
        version    : Nat,
        translated : BOOLEAN,
        script     : Script,
        audio      : Script,
        failed     : BOOLEAN]

Absent == [status |-> "ABSENT", version |-> 0, translated |-> FALSE,
           script |-> NoScript, audio |-> NoScript, failed |-> FALSE]

Review == [stage    : {"first", "script", "second"},
           decision : {"approve", "request_changes"},
           version  : Nat,
           script   : Script]

AuditRow == [from : Status, to : Status, version : Nat]

\* Where a task is inside its call. A "created" task has written a new story
\* and waits for its lock; a "detached" one has lost its lock but not its
\* shielded write.
HoldingPC == {"translating", "queueing", "scripting", "synthesizing", "returning"}
PC == HoldingPC \cup {"idle", "created", "detached"}

Call == [pc : PC, story : Stories \cup {NoStory}, held : Row]
IdleCall == [pc |-> "idle", story |-> NoStory, held |-> Absent]

(* Type correctness of the rows, the evidence and the calls in progress.    *)
TypeOK ==
    /\ row \in [Stories -> Row]
    /\ reviews \in [Stories -> SUBSET Review]
    /\ audit \in [Stories -> SUBSET AuditRow]
    /\ task \in [Tasks -> Call]

Init ==
    /\ row = [s \in Stories |-> Absent]
    /\ reviews = [s \in Stories |-> {}]
    /\ audit = [s \in Stories |-> {}]
    /\ task = [t \in Tasks |-> IdleCall]

-----------------------------------------------------------------------------
(* The state machine and the repository *)

\* validate_story_invariants: which artifacts a row of each status may hold.
EarlyStatus == {"TRANSLATED", "PENDING_FIRST_REVIEW", "PROCESSING_SCRIPT"}
UnvoicedStatus == {"SCRIPT_READY", "PENDING_TTS", "PROCESSING_TTS"}
VoicedStatus == {"PENDING_SECOND_REVIEW", "DONE"}

ValidArtifacts(r) ==
    /\ r.status = "FETCHED" =>
          ~r.translated /\ r.script = NoScript /\ r.audio = NoScript
    /\ r.status \in EarlyStatus =>
          r.translated /\ r.script = NoScript /\ r.audio = NoScript
    /\ r.status \in UnvoicedStatus =>
          r.translated /\ r.script # NoScript /\ r.audio = NoScript
    /\ r.status \in VoicedStatus =>
          /\ r.translated /\ r.script # NoScript /\ r.audio # NoScript
          /\ r.audio.rev = r.script.rev

\* validate_transition_evidence: the move is in the table, and a move through
\* a human gate carries the review that opens it.
Gate(from, to) ==
    CASE <<from, to>> = <<"PENDING_FIRST_REVIEW", "PROCESSING_SCRIPT">> ->
            {<<"first", "approve">>}
      [] <<from, to>> = <<"SCRIPT_READY", "PENDING_TTS">> ->
            {<<"script", "approve">>}
      [] <<from, to>> = <<"PENDING_SECOND_REVIEW", "SCRIPT_READY">> ->
            {<<"second", "request_changes">>}
      [] <<from, to>> = <<"PENDING_SECOND_REVIEW", "DONE">> ->
            {<<"second", "approve">>}
      [] OTHER -> {}

Evidence(from, to, rs) ==
    /\ <<from, to>> \in Transitions
    /\ Gate(from, to) # {} =>
          \E r \in rs : <<r.stage, r.decision>> \in Gate(from, to)

\* transition_story: the status moves and the last failure is forgotten,
\* except that an archived story keeps it.
Move(r, to) ==
    [r EXCEPT !.status = to, !.failed = (to = "ARCHIVED" /\ @)]

Saved(new) == [new EXCEPT !.version = @ + 1]

\* Fault: the UPDATE does not compare the version.
SaveUnconditionally(s, new, rs) ==
    /\ ValidArtifacts(new)
    /\ new.status # row[s].status => Evidence(row[s].status, new.status, rs)
    /\ row' = [row EXCEPT ![s] = Saved(new)]
    /\ reviews' = [reviews EXCEPT ![s] = @ \cup rs]
    /\ audit' = IF new.status = row[s].status THEN audit
                ELSE [audit EXCEPT ![s] = @ \cup
                        {[from |-> row[s].status, to |-> new.status,
                          version |-> new.version + 1]}]

\* SqlAlchemyStoryRepository.save, with the expected version in new.version
\* and the review, if any, in rs: one transaction that is refused as a whole
\* or bumps the version and records the status change and the review.
Save(s, new, rs) ==
    /\ ValidArtifacts(new)
    /\ new.status # row[s].status => Evidence(row[s].status, new.status, rs)
    /\ row[s].version = new.version
    /\ row' = [row EXCEPT ![s] = Saved(new)]
    /\ reviews' = [reviews EXCEPT ![s] = @ \cup rs]
    /\ audit' = IF new.status = row[s].status THEN audit
                ELSE [audit EXCEPT ![s] = @ \cup
                        {[from |-> row[s].status, to |-> new.status,
                          version |-> new.version + 1]}]

\* _store_failure: the failure is written if the repository takes it, and
\* otherwise only logged.
StoreFailure(s, r) ==
    \/ Save(s, [r EXCEPT !.failed = TRUE], {})
    \/ UNCHANGED durable

\* _build_review: the evidence names the version and the script reviewed.
Reviewed(r, stage, decision) ==
    {[stage |-> stage, decision |-> decision,
      version |-> r.version, script |-> r.script]}

-----------------------------------------------------------------------------
(* Calls and the story lock *)

Free(s) == \A t \in Tasks : ~(task[t].pc \in HoldingPC /\ task[t].story = s)

\* A request on an existing story, at the moment it owns the lock and has
\* read the row. A request with a stale expected_story_version is refused
\* without a trace, so the requests modelled carry the current one.
Request(s) == Free(s) /\ row[s].version \in 1 .. MaxVersion - 1

At(t, pc) == task[t].pc = pc
Goto(t, pc, s, held) ==
    task' = [task EXCEPT ![t] = [pc |-> pc, story |-> s, held |-> held]]
EndCall(t) == task' = [task EXCEPT ![t] = IdleCall]

\* _ingest_document up to repository.create; a second story of the same
\* source is refused. The new story is visible before its lock is taken.
Create(t, s) ==
    LET fetched == [Absent EXCEPT !.status = "FETCHED", !.version = 1]
    IN  /\ At(t, "idle")
        /\ row[s] = Absent
        /\ row' = [row EXCEPT ![s] = fetched]
        /\ Goto(t, "created", s, fetched)
        /\ UNCHANGED <<reviews, audit>>

\* The creator gets the lock and translates the copy it created, which
\* another call may have overtaken.
BeginTranslate(t) ==
    /\ At(t, "created")
    /\ Free(task[t].story)
    /\ Goto(t, "translating", task[t].story, task[t].held)
    /\ UNCHANGED durable

\* Fault: a synthesis has no durable checkpoint to continue from.
ResumeWithoutSynthesis(t, s) ==
    /\ At(t, "idle")
    /\ Request(s)
    /\ \/ /\ row[s].status = "FETCHED"
          /\ Goto(t, "translating", s, row[s])
          /\ UNCHANGED durable
       \/ /\ row[s].status = "TRANSLATED"
          /\ Save(s, Move(row[s], "PENDING_FIRST_REVIEW"), {})
          /\ UNCHANGED task
       \/ /\ row[s].status = "PROCESSING_SCRIPT"
          /\ Goto(t, "scripting", s, row[s])
          /\ UNCHANGED durable

\* resume: continue from the checkpoint of an interrupted call.
Resume(t, s) ==
    /\ At(t, "idle")
    /\ Request(s)
    /\ \/ /\ row[s].status = "FETCHED"
          /\ Goto(t, "translating", s, row[s])
          /\ UNCHANGED durable
       \/ /\ row[s].status = "TRANSLATED"
          /\ Save(s, Move(row[s], "PENDING_FIRST_REVIEW"), {})
          /\ UNCHANGED task
       \/ /\ row[s].status = "PROCESSING_SCRIPT"
          /\ Goto(t, "scripting", s, row[s])
          /\ UNCHANGED durable
       \/ /\ row[s].status = "PROCESSING_TTS"
          /\ Goto(t, "synthesizing", s, row[s])
          /\ UNCHANGED durable

\* _translate: the provider answers and the translation is saved ...
Translated(t) ==
    LET s == task[t].story
        new == [Move(task[t].held, "TRANSLATED") EXCEPT !.translated = TRUE]
    IN  /\ At(t, "translating")
        /\ Save(s, new, {})
        /\ Goto(t, "queueing", s, Saved(new))

\* ... and then queued for its first review, by a second save.
QueueFirstReview(t) ==
    /\ At(t, "queueing")
    /\ Save(task[t].story, Move(task[t].held, "PENDING_FIRST_REVIEW"), {})
    /\ EndCall(t)

\* Any exception of _translate: the failure goes to the last checkpoint saved.
TranslationFails(t) ==
    /\ At(t, "translating") \/ At(t, "queueing")
    /\ StoreFailure(task[t].story, task[t].held)
    /\ EndCall(t)

\* submit_first_review: changes are recorded, or approval starts the script.
FirstReviewChanges(s) ==
    /\ Request(s)
    /\ row[s].status = "PENDING_FIRST_REVIEW"
    /\ Save(s, row[s], Reviewed(row[s], "first", "request_changes"))
    /\ UNCHANGED task

FirstReviewApproves(t, s) ==
    LET new == Move(row[s], "PROCESSING_SCRIPT")
    IN  /\ At(t, "idle")
        /\ Request(s)
        /\ row[s].status = "PENDING_FIRST_REVIEW"
        /\ Save(s, new, Reviewed(row[s], "first", "approve"))
        /\ Goto(t, "scripting", s, Saved(new))

\* _create_script: the provider answers with some draft, saved as revision 1.
ScriptGenerated(t) ==
    /\ At(t, "scripting")
    /\ \E text \in Texts :
          Save(task[t].story,
               [Move(task[t].held, "SCRIPT_READY") EXCEPT
                    !.script = [rev |-> 1, text |-> text]],
               {})
    /\ EndCall(t)

ScriptFails(t) ==
    /\ At(t, "scripting")
    /\ StoreFailure(task[t].story, task[t].held)
    /\ EndCall(t)

\* The script a reviewer hands in replaces the current one as its next
\* revision and drops the audio.
Revise(r, text) ==
    [r EXCEPT !.script = [rev |-> r.script.rev + 1, text |-> text],
              !.audio = NoScript, !.failed = FALSE]

\* submit_script_review with request_changes, without and with a new script.
ScriptReviewChanges(s) ==
    /\ Request(s)
    /\ row[s].status = "SCRIPT_READY"
    /\ \E new \in {row[s]} \cup {Revise(row[s], text) : text \in Texts} :
          Save(s, new, Reviewed(new, "script", "request_changes"))
    /\ UNCHANGED task

\* Fault: the approval of the old script lets a revised one through.
ScriptReviewRevisesAndApproves(s) ==
    /\ Request(s)
    /\ row[s].status = "SCRIPT_READY"
    /\ \E text \in Texts :
          Save(s, Move(Revise(row[s], text), "PENDING_TTS"),
               Reviewed(row[s], "script", "approve"))
    /\ UNCHANGED task

ScriptReviewApproves(s) ==
    /\ Request(s)
    /\ row[s].status = "SCRIPT_READY"
    /\ Save(s, Move(row[s], "PENDING_TTS"), Reviewed(row[s], "script", "approve"))
    /\ UNCHANGED task

\* synthesize: the durable start. A cancellation that arrives while it commits
\* ends the call before the code that would return the story to PENDING_TTS.
Synthesize(t, s) ==
    LET new == Move(row[s], "PROCESSING_TTS")
    IN  /\ At(t, "idle")
        /\ Request(s)
        /\ row[s].status = "PENDING_TTS"
        /\ Save(s, new, {})
        /\ Goto(t, "synthesizing", s, Saved(new)) \/ UNCHANGED task

\* _complete_tts_from_processing: the provider spoke the script of the copy.
\* A cancellation during the commit still runs the handler that would return
\* the story.
AudioReady(t) ==
    LET s == task[t].story
        held == task[t].held
    IN  /\ At(t, "synthesizing")
        /\ Save(s, [Move(held, "PENDING_SECOND_REVIEW") EXCEPT !.audio = held.script], {})
        /\ EndCall(t) \/ Goto(t, "returning", s, held)

\* _return_tts_to_pending after an exception, a wrong bundle or a refused save.
TtsFails(t) ==
    /\ At(t, "synthesizing")
    /\ StoreFailure(task[t].story, Move(task[t].held, "PENDING_TTS"))
    /\ EndCall(t)

\* The same write in the shielded inner task of a cancelled synthesis.
ReturnToPending(t) ==
    /\ At(t, "returning") \/ At(t, "detached")
    /\ StoreFailure(task[t].story, Move(task[t].held, "PENDING_TTS"))
    /\ EndCall(t)

\* CancelledError is no Exception: a cancelled translation or script writes
\* nothing. A cancelled synthesis returns the story; cancelled again it lets
\* go of the lock while its shielded write is still on its way.
Cancel(t) ==
    /\ \/ /\ task[t].pc \in {"created", "translating", "queueing", "scripting"}
          /\ EndCall(t)
       \/ /\ At(t, "synthesizing")
          /\ Goto(t, "returning", task[t].story, task[t].held)
       \/ /\ At(t, "returning")
          /\ Goto(t, "detached", task[t].story, task[t].held)
    /\ UNCHANGED durable

\* Fault: the revised script stays in the final review.
SecondReviewRevisesInPlace(s) ==
    /\ Request(s)
    /\ row[s].status = "PENDING_SECOND_REVIEW"
    /\ \E text \in Texts :
          Save(s, [row[s] EXCEPT !.script.text = text],
               Reviewed(row[s], "second", "request_changes"))
    /\ UNCHANGED task

\* submit_second_review with request_changes: recorded, or with a new script
\* that goes back through the script gate.
SecondReviewChanges(s) ==
    /\ Request(s)
    /\ row[s].status = "PENDING_SECOND_REVIEW"
    /\ \/ Save(s, row[s], Reviewed(row[s], "second", "request_changes"))
       \/ \E text \in Texts :
             LET revised == Revise(row[s], text)
             IN  Save(s, Move(revised, "SCRIPT_READY"),
                      Reviewed(revised, "second", "request_changes"))
    /\ UNCHANGED task

\* Fault: an approval already on record is accepted again.
SecondReviewReplays(s) ==
    /\ Request(s)
    /\ row[s].status = "PENDING_SECOND_REVIEW"
    /\ \E r \in reviews[s] \cup Reviewed(row[s], "second", "approve") :
          Save(s, Move(row[s], "DONE"), {r})
    /\ UNCHANGED task

SecondReviewApproves(s) ==
    /\ Request(s)
    /\ row[s].status = "PENDING_SECOND_REVIEW"
    /\ Save(s, Move(row[s], "DONE"), Reviewed(row[s], "second", "approve"))
    /\ UNCHANGED task

Archive(s) ==
    /\ Request(s)
    /\ row[s].status # "ARCHIVED"
    /\ Save(s, Move(row[s], "ARCHIVED"), {})
    /\ UNCHANGED task

Reopen(s) ==
    /\ Request(s)
    /\ row[s].status = "DONE"
    /\ Save(s, Move(row[s], "PENDING_SECOND_REVIEW"), {})
    /\ UNCHANGED task

\* Fault: an edit reaches the script.
UpdateWording(s) ==
    /\ Request(s)
    /\ row[s].status # "ARCHIVED"
    /\ \E text \in Texts :
          Save(s, IF row[s].script = NoScript THEN row[s]
                  ELSE [row[s] EXCEPT !.script.text = text], {})
    /\ UNCHANGED task

\* update: a title or preference edit; it moves the version and nothing else
\* the model keeps.
Update(s) ==
    /\ Request(s)
    /\ row[s].status # "ARCHIVED"
    /\ Save(s, row[s], {})
    /\ UNCHANGED task

\* The process dies and starts again: calls are gone, rows stay. Stories have
\* no recovery pass at start; resume and synthesize are the recovery.
Crash ==
    /\ \E t \in Tasks : ~At(t, "idle")
    /\ task' = [t \in Tasks |-> IdleCall]
    /\ UNCHANGED durable

-----------------------------------------------------------------------------
Progress(t) ==
    \/ Translated(t) \/ QueueFirstReview(t) \/ TranslationFails(t)
    \/ ScriptGenerated(t) \/ ScriptFails(t)
    \/ AudioReady(t) \/ TtsFails(t) \/ ReturnToPending(t)

StartsCall(t, s) ==
    Create(t, s) \/ Resume(t, s) \/ FirstReviewApproves(t, s) \/ Synthesize(t, s)

ShortCall(s) ==
    \/ FirstReviewChanges(s) \/ ScriptReviewChanges(s) \/ ScriptReviewApproves(s)
    \/ SecondReviewChanges(s) \/ SecondReviewApproves(s)
    \/ Archive(s) \/ Reopen(s) \/ Update(s)

Next ==
    \/ \E t \in Tasks : BeginTranslate(t) \/ Progress(t) \/ Cancel(t)
    \/ \E t \in Tasks, s \in Stories : StartsCall(t, s)
    \/ \E s \in Stories : ShortCall(s)
    \/ Crash

Spec == Init /\ [][Next]_vars

\* Provider calls time out, so a running call takes its next step; asyncio.Lock
\* is first come first served, so a waiting creator is not passed over for ever.
Fairness == \A t \in Tasks : WF_vars(Progress(t)) /\ SF_vars(BeginTranslate(t))

FairSpec == Spec /\ Fairness

\* An operator who keeps resuming what stands still, and providers and a
\* database that answer in the end when asked again and again.
Answered(t, s) ==
    /\ task[t].story = s
    /\ Translated(t) \/ QueueFirstReview(t) \/ ScriptGenerated(t) \/ AudioReady(t)

Persistence ==
    \A s \in Stories :
        /\ SF_vars(\E t \in Tasks : Resume(t, s))
        /\ SF_vars(\E t \in Tasks : Answered(t, s))

-----------------------------------------------------------------------------
(* Safety *)

Approved(s, stage, script) ==
    {r \in reviews[s] : r.stage = stage /\ r.decision = "approve" /\ r.script = script}

(* A story that waits for, runs or has passed synthesis carries a script an  *)
(* editor approved in exactly this wording, and so does every synthesis in   *)
(* flight, whichever restart, resume or stale copy it came from.            *)
ScriptGate ==
    /\ \A s \in Stories :
          row[s].status \in {"PENDING_TTS", "PROCESSING_TTS"} \cup VoicedStatus
             => Approved(s, "script", row[s].script) # {}
    /\ \A t \in Tasks :
          At(t, "synthesizing") => Approved(task[t].story, "script", task[t].held.script) # {}

(* The audio an editor hears at the final gate and the audio that is          *)
(* published speak the wording of the current script, although the code       *)
(* compares revisions and segment ids only.                                   *)
AudioSpeaksScript ==
    \A s \in Stories :
        row[s].status \in VoicedStatus => row[s].audio = row[s].script

(* A finished story was approved at its final review in its current wording,  *)
(* and after the last time it entered that review: reopening voids the        *)
(* earlier approval.                                                          *)
FinalGate ==
    \A s \in Stories :
        row[s].status = "DONE" =>
            \E r \in Approved(s, "second", row[s].script) :
                \A a \in audit[s] :
                    a.to = "PENDING_SECOND_REVIEW" => a.version <= r.version

(* The audit rows of a story, in version order, are one unbroken history from *)
(* FETCHED to its present status, whatever calls crashed or lost a race.      *)
AuditIsHistory ==
    \A s \in Stories :
        /\ \A a \in audit[s] :
              LET before == {b \in audit[s] : b.version < a.version}
              IN  IF before = {} THEN a.from = "FETCHED"
                  ELSE \E b \in before :
                          /\ \A c \in before : c.version <= b.version
                          /\ b.to = a.from
        /\ row[s].status \notin {"ABSENT", "FETCHED"} =>
              \E a \in audit[s] :
                 /\ \A b \in audit[s] : b.version <= a.version
                 /\ a.to = row[s].status

-----------------------------------------------------------------------------
(* What a step may never do *)

(* A revision number names one wording for ever: reviews and audio refer to   *)
(* scripts by revision only.                                                  *)
RevisionNamesWording ==
    [][\A s \in Stories :
          /\ row'[s].script.rev >= row[s].script.rev
          /\ row'[s].script.rev = row[s].script.rev => row'[s].script = row[s].script]_vars

(* Nothing revives or rewrites an archived story, also not a call that read   *)
(* it before it was archived.                                                 *)
ArchivedIsFinal ==
    [][\A s \in Stories :
          row[s].status = "ARCHIVED" =>
              row'[s] = row[s] /\ reviews'[s] = reviews[s] /\ audit'[s] = audit[s]]_vars

-----------------------------------------------------------------------------
(* Liveness *)

(* No story is left for ever in a status that waits for the machine, whatever *)
(* crashed or was cancelled there: resume finds a way on from each of them,   *)
(* as long as an operator persists.                                           *)
InMachineHands(s) ==
    row[s].status \in {"FETCHED", "TRANSLATED", "PROCESSING_SCRIPT", "PROCESSING_TTS"}

WorkIsRecovered ==
    Persistence => \A s \in Stories :
        InMachineHands(s) ~> ~InMachineHands(s) \/ row[s].version >= MaxVersion

-----------------------------------------------------------------------------
(* What the pipeline promises its editors *)

Publication == INSTANCE StoryPublication WITH
    script   <- [s \in Stories |-> row[s].script],
    audio    <- [s \in Stories |-> row[s].audio],
    approved <- [s \in Stories |->
                    {r.script : r \in {q \in reviews[s] :
                        q.stage = "script" /\ q.decision = "approve"}}],
    stage    <- [s \in Stories |->
                    CASE row[s].status = "DONE" -> "published"
                      [] row[s].status = "ARCHIVED" -> "withdrawn"
                      [] OTHER -> "editing"]

(* The workflow implements the promise: whatever calls interleave, fail or    *)
(* crash, audio is only ever made of a wording approved on record, and only   *)
(* audio of the current wording is published.                                 *)
KeepsPromise == Publication!Spec

=============================================================================
