# TLA+ models of god-news

god-news turns sources into reviewed, spoken and rendered news videos. One asyncio
process serves an HTTP API, runs background tasks and keeps its state in one SQL
database. Language models, a speech engine and a video renderer are slow external
providers. Nothing runs in parallel threads that matters here, but every `await` is a
point where another call runs, where the call may be cancelled, or where the process may
die, and the work between two editorial decisions takes minutes.

This directory holds the models of that code, the TLC runs that check them and the TLAPS
proofs about them. All paths below are relative to the repository; python modules are
under `src/god_news/`.

## The system

| Component | State it keeps | Operations | Talks to |
| --- | --- | --- | --- |
| Editorial workflow (`application/workflow.py`, `domain/fsm.py`, `infrastructure/repositories.py`) | a story row with status, version, translation, script, audio, last failure; review rows; transition rows; one in-memory lock per story | ingest, resume, first/script/second review, synthesize, archive, reopen, update | language model, speech engine, roles |
| Video batches (`application/video_batches.py`, `domain/video.py`, `infrastructure/video_repository.py`) | a batch row (JSON and version), claim rows story-batch, one lock per batch, the asset lifecycle lock | create, narration review, synthesize, timeline review, render, cancel, delete, recovery at start | finished stories, director, speech engine, renderer |
| Source runs (`application/source_runs.py`) | a run row per collection, tasks and operator cancellations in memory | start, start if idle, cancel, wait, close, recover | collectors, the workflow's ingestion |
| Source schedule (`application/source_schedule.py`) | one schedule row, the loop task, a wake event | enable, disable, tick, start, close | source runs |
| Collection (`sources/collectors/`, `infrastructure/fetchers/`) | lock and last completion per source, a semaphore of two, a cached OAuth token | collect | providers, page fetchers |
| Items (`sources/normalizers/`, `sources/admission.py`, `sources/text.py`) | none; each item becomes a canonical one, or is refused or excluded | normalize, admit | the workflow's ingestion |
| Transcription (`application/source_transcriptions.py`, `infrastructure/source_media_asr.py`) | a row per transcription, tasks and one recognition child | start, review, cancel, close, recover | speech recognition, caption translation |
| Roles (`operations/roles.py`) | role rows with versions | create, replace, disable, resolve | live scripts (a read) |
| Retention and dispatcher (`operations/retention.py`, `operations/scheduler.py`) | files, run history | cleanup, scheduled cleanup | protected paths of batches, assets and catalog |
| Speech runtime (`infrastructure/tts/gpt_sovits.py`) | at most one model server, a semaphore, a cache of file hashes | synthesize, close | roles |
| Visual assets, visual discovery, source media, media catalog (`application/visual_assets.py` and so on) | rows, files, the archive, the shared asset lifecycle lock | upload, delete, stage, reuse, approve, reject, acquire, archive, restore | stories, batches, retention |
| Language model (`infrastructure/llm/openai_compatible.py`) | none; the prompts of one use | translate, write a script, translate captions, direct a programme | provider |
| Programme (`application/video_batches.py`, `domain/video.py`) | the direction and the episode plan of a batch | direct, revise, compile | language model, approved media |
| Templates (`application/video_registry.py`) | a versioned policy per capability, an event log | switch, resolve for a batch | batches at creation |
| Renderers (`infrastructure/video_live2d.py`, `infrastructure/video_remotion.py`) | host videos and attempt directories on disk | prepare hosts, render, clean up | batches |
| Runtime control, editorial memory, API, console | none that the properties speak of | | |

What makes it hard:

* A call reads a row, waits minutes for a provider and writes. Writes are
  compare-and-swap on the version the call read, so everything depends on what happens
  to a refused write.
* `CancelledError` is no `Exception`: the failure handlers do not see it, and the places
  that must clean up do so in shielded tasks which a second cancellation leaves behind
  without their lock.
* Locks are per object and in memory; a restart drops them together with the calls. Some
  statuses are recovered at start (`container.py`, `start`), others by a person.
* Human gates must hold for the exact wording although most comparisons in the code are
  of revision numbers.
* Two services (stories and batches) share finished stories with no common lock.

What makes each component correct: for stories, that nothing passes a gate without an
approval of its present wording, that the audit rows are a history and that
interrupted work can be taken up again; for batches, that claims are
exact, that what is rendered is what was approved, that outcomes are final and that no
status is a dead end; for runs and transcriptions, that every row ends in a terminal
status that says truly what happened; for roles and retention, that what live work
refers to is not changed or deleted under it; for collections and items, that nothing
which says something is lost; for programmes, templates and renders, that what leaves the
system is whole and was approved, byte for byte. `PROJECT.json` lists the hazards one by
one, each at its line.

## Modules

| Module | Models |
| --- | --- |
| `StoryWorkflow` | the editorial workflow, its repository and state machine |
| `StoryPublication` | what that workflow promises: an abstract specification without statuses, versions, locks or crashes |
| `MCStoryWorkflow` | the instance for TLC |
| `StoryWorkflowProofs` | its inductive invariant, its history of statuses, the refinement, theorems and proofs |
| `VideoBatch` | batches, claims and the stories they are made of |
| `MCVideoBatch` | the instance for TLC |
| `VideoBatchProofs` | the inductive invariant of batches, theorems and proofs |
| `SourceRuns` | collection runs: their tasks, the requests that start and cancel them, closing and recovery |
| `SourceSchedule` | automatic collection, composed with `SourceRuns` (it extends that module and its steps) |
| `MCSourceRuns`, `MCSourceSchedule` | their instances for TLC |
| `SourceRunsProofs` | the inductive invariant of `SourceRuns`, theorems and proofs |
| `SourceScheduleProofs` | that `SourceSchedule` implements `SourceRuns`, and what the switch guarantees |
| `MediaAssets` | images, Commons assets and source videos of a story, the archive, retention and the dispatcher's claim |
| `MediaAssetsProofs` | its inductive invariant, theorems and proofs |
| `SourceTranscription` | transcriptions, their tasks and recognition children |
| `SourceTranscriptionProofs` | its inductive invariant, theorems and proofs |
| `Speech` | the speech engine: servers, hashes, provenance, cancellation |
| `VoiceRoles` | voice roles against the scripts that name speakers |
| `SpeechProofs` | the inductive invariants of `Speech` and of `VoiceRoles`, theorems and proofs |
| `SourceCollection` | the gateway that paces sources, the four collectors, the chain of page fetchers |
| `SourceItems` | normalization, admission and publishing rights of an item |
| `ProgramPlan` | the direction of a programme and its compilation into scenes |
| `VideoTemplates` | template policies and the template a batch freezes |
| `VideoRendering` | host videos, render inputs, attempts and outputs on disk |
| `LanguageModel` | one use of the language model: prompts, retries, failures |
| `MCMediaAssets` | its instance for TLC |
| `MCSpeechServices` | `SourceTranscription`, `Speech` and `VoiceRoles` side by side |
| `MCProduction` | `SourceCollection`, `SourceItems`, `ProgramPlan`, `VideoTemplates`, `VideoRendering` and `LanguageModel` side by side |
| `ProductionProofs` | invariants, theorems and proofs about the six machines of `MCProduction` |

`MCSpeechServices` and `MCProduction` put several machines that keep no common state into
one: `focus`, chosen in the initial state, says which of them moves. The states are the
sum of theirs and not the product, every behaviour is one of theirs, and constants with
the same kind of values share them. `SourceSchedule` with `SourceRuns`, and `StoryWorkflow`
with `StoryPublication`, are compositions and refinements in the proper sense.

### StoryWorkflow

`row`, `reviews` and `audit` are the three tables. A row keeps what the properties tell
apart: status, version, whether there is a translation, the script as a revision and a
wording, the audio as the script it speaks, and whether a failure is recorded. The code
stores only the revision in a review row; the wording there is what the reviewer had
before them, kept in the model so that a property can speak of it. An audit row carries
the version its move produced, which is the order the database keeps by time.

`task[t]` is a running call: where it waits (`pc`), its story, and `held`, the copy of
the row it works on. An action is a stretch of code between two points where another
call can interfere. A request that waits for no provider (`Archive`, `Update`, the
reviews that return at once) is one action: between its read and its write only a task
without the lock can move the row, and then its write is refused, which changes nothing.
`Save` is the transaction of `SqlAlchemyStoryRepository.save`: validators, transition
evidence, version comparison, audit row and review together. `StoreFailure` is
`_store_failure`: the record is written or, if the repository refuses it or the database
fails, only logged.

`Create` commits a story before its lock is taken and `BeginTranslate` takes it, possibly
after others. `Cancel` follows the handlers: a translation or a script generation just
ends; a synthesis goes to its shielded return; cancelled again it leaves that write
behind (`detached`). `Synthesize` and `AudioReady` have a second outcome, the
cancellation that arrives while their save commits. `Crash` drops all calls and keeps
the tables, and it changes nothing else, because no recovery of stories runs at start.

Not in this module: the wording of translations and titles, editorial memory (never
raises, fails open), whether the voice is enabled at the first approval (an approval
refused for it changes nothing), and the idempotency of review ids (a repeated
submission returns the row unchanged).

### VideoBatch

`story` is the part of the workflow that batches see: a revision, and whether it is
`DONE`. `batch` and `claims` are the two tables; `task` is as above, with `locked` for
the batch lock, because a synthesis works without it and a twice cancelled render loses
it. Revision numbers stand for scripts and `input` for the hash of the render input.
Creation has three steps, since stories are edited while it runs: `Select` (finished,
unclaimed stories), `ReadManifests` (each is read again and compared) and `Insert` (row
and claims in one transaction). `ValidBatch` is the pydantic validator of the row, which
`Save` runs on every write. `LastSave` is the write that ends a synthesis or a render
and has no handler of its own; it may fail when `DatabaseFaults` holds. `Restart` drops
the calls and runs `recover_interrupted_rendering`.

Deliberately left out: the order of stories in a batch, scenes, B-roll, templates and
the asset hashes beyond their being one input; the limit of 100 narration reviews.

### SourceRuns

`run` is the table; `known` stands for the story table, of which a run only learns
whether an item has a story. `job[r]` is the supervised task of a run: the await it is in
and the copy of the row it saves from. `call[c]` is a start or cancel request, `lock` is
`_task_lock` while it is held across an await, `asked` is `_operator_cancellations`.
Each run identity is used once, as the code draws a fresh one.

A worker takes one step per await: `Begin`, `Collected`, `TakeItem`, then the item is
filtered, or its story is created (`StoryCreated`, the durable effect) and translated
(`StoryTranslated`, the result in the row), or it is a duplicate, or it fails; then
`Finish`. `Interrupted` says what a cancellation does, which depends on the await it hits:
inside the `try` of `_execute` the handler `MarkCancelled` follows; before it, and inside
a handler, the task just ends. `Escapes` is an exception the loop over the items does not
catch, `WorkerFault` a failing database call anywhere. `StartIfIdle`, `Look` and
`SourceIsIdle` are the scheduler's start with its three queries. A cancel request waits
for the task (`CancelReads`) and marks a row that is still active itself (`CancelMarks`).
`Close`, `Closed`, `Crash`, `Restart`, `Recover` and `Open` are the life of the process.

`Closed` leaves rows active whose tasks were cancelled before their `try` or during a
handler; as after a crash, `Recover` fails them at the next start. Nothing in the code
promises more, and the rows say `interrupted_by_restart`, not `service_shutdown`.

Data left out: the collector's attempts and errors (a collection answers with a set of
items, possibly none), display fields, timestamps, the order of the items, the failure
codes of single items. An item is its duplicate identity, and whether the admission
policy excludes it is a constant.

### SourceSchedule

Adds `schedule` (the row: enabled, and whether the next tick is due), `ctl` (where the
loop and the operators' requests are), `control` (`_control_lock`), `wake` and `closing`.
Time is reduced to `BecomesDue` and `LoopTimesOut`. `Loop` is one of the `Callers` of
`SourceRuns`; a tick, be it the loop's or the one inside `enable`, starts runs through the
same actions that module has for it (`StartSource` is `StartIfIdle` and the scheduler's
part, `SourceRefused` is `StartRefused` and so on), and `RunsStep` are the steps of
`SourceRuns` that do not concern the scheduler. `LoopEnds` is a step of its own because
the loop reads the switch without the control lock: its decision can be out of date when
the task ends. A loop that ends by the switch is `dead`, one whose read of the switch raised
is `failed`. `CloseScheduler`, `CloseRuns` and `Stop` are `AppContainer.aclose`; `Opens`
is the end of `AppContainer.start`.

A failed loop changes the close: awaiting it raises, out of the scheduler and of the
container, so that `SourceRunService.aclose` is never called. The server has ended its
requests by then; it exits, and the runner of its event loop cancels every task that is
left and waits for them. `CloseAborts` is that: it needs the requests to have ended, and to
the tasks of the runs it is the same cancellation as `Close`. What differs, that the other
services of the container are not closed in their order either, is outside this module.

Left out: `last_started_run_ids`, which no decision reads, and with it the second save of
a tick; readiness and collection limits, which are configuration (every source of the
model is ready).

### MediaAssets

One story with one script segment and one source video. `rows` are the three asset
tables, `files` what is on disk (fresh, or past the retention window), `catalog` the
archive, `lock` the asset lifecycle lock that uploads, acquisitions, archiving and cleanups
share and the Commons operations do not take. Each request is a sequence of steps, the
file always before its row (`Written`, then `UploadCommits`, `AcquireCommits`,
`StageIsSaved`, `CloneIsSaved`) and a removed row before its file (`ReplacedIsRemoved`).
`RequestFails` is a failure or a cancellation at any of them with the cleanup the code
does there. A cleanup reads the protected paths, scans and deletes in a thread that its
cancellation does not stop. A reviewer reads the story, then its images, then approves
with the version read; `StoryMoves` is what the workflow may do meanwhile. `FilesAge`
assumes that no file ages past its window, which is days, during one scan or one request.

A source video is excepted from `NamedFilesExist`: an acquisition cancelled while its row
commits removes the file although the row is there, and the model shows it. No document
promises the contrary, and reading such a video fails cleanly.

### SourceTranscription

`row` per equivalence key, `at` where each task and request is with the copy it saves
from, `child` the recognition process, `engine` the adapter's semaphore. `Spawn`, `Feed`,
`ChildExits`, `TimesOut` and `ChildStops` are `run_json_worker`: a task that gives up waits
for its child to end and only then leaves the semaphore. `MarkReads` and `MarkSaves` are
`_mark_terminal`, whose save is tried twice. `MaxEvidence` is the limit of the failures and
reviews a row keeps (`HasRoom`).

### Speech and VoiceRoles

`Speech` follows one synthesis through the runtimes of its segments: stop the server,
snapshot the weights, spawn, attach, probe, hash the weights again (`Verified`), hash the
configuration, check the files, speak and check them again. A file is its content and its
stamp, so that the cache of hashes (`hashed`) can be wrong; `ReplaceFile` may keep the
stamp. `HashConfig` stands after the server runs and outside the handler that stops it: a
cancellation there leaves a server nobody knows of, and the model has that outcome.

`VoiceRoles` has the guard of a role edit (`AskGuard`, the live scripts) and its save
(`SaveRole`) as the two transactions they are. `VoiceStands` says exactly what is left:
only a script written in between may see its voice change.

### SourceCollection and SourceItems

A collection waits for its cooldown with the lock of its source, then for a slot, then
asks the network (`OnNetwork`); `since` is what the gateway remembers and `quiet` what
really happened. The collectors follow their code: Reddit's token and listing and Guardian's
listing, of which every result is mapped, also those beyond the limit that was asked for
(`ListingMapped`, up to `MaxListed` of either sort); and for Dazhong and Pikabu an index page
and a page per story through the chain of fetchers, with refused accesses, policy rejections
and captchas. The chain is the one `build_container` makes, Jina, Drission, Scrapy
(`FetcherChain`); only the worker of the last one tells a refused access from a failure
(`AccessRefused`).

`Finished` chooses the outcome of the run, and `ValidRun` is the validator of `models.py`
with its cap on items and errors (`RunCap`). A run that it refuses raises, as do three other
paths that leave a page collector: a link that `urljoin` or `urlsplit` cannot read
(`LinkIsMalformed`), and an address that `UrlSource` refuses (`AddressRefused`), in the
discovery or on a story page before any page has reached the mapper, where the handler reads
`started` unbound. `CollectRaises` is the end of all of them: the gateway
remembers the completion and what was found is lost. `FoundIsRecorded` says when that costs
something.

`SourceItems` takes every raw item of its bounded shape through its normalizer. A text is
words, or marks that normalization removes; an address is a resource with the details that
`canonicalize_http_url` drops, and is sound or not: credentials, a missing host or a host
that IDNA cannot encode are accepted by the raw contract and raise in the normalizer, which
refuses the item. Identity, language and publisher or subreddit are `names`; one that
normalizes to nothing refuses the item too. Media are deduplicated by their canonical
address. `MaxMedia` is the number of media a normalized item may have (200), which the raw
contracts of all sources stay below except Pikabu's, whose stories may have `MaxBlocks`
(500) blocks of any kind.

### ProgramPlan, VideoTemplates and VideoRendering

`ProgramPlan` starts from every combination of story lengths, voices, approved media and
template, lets the model answer (`Answers` are the good ones and each with one thing
wrong), keeps what `Accepted` accepts, lets a reviewer revise the voices and compiles
(`StoryScenes`, `WithBroll`, `HostMoves`). `ValidPlan` and `ValidScene` are the validators
of `domain/video.py`. `VideoTemplates` has versioned policies, their dependencies (a
variant needs its module, a module its template), and the template with the disabled
variants taken out that a batch keeps for good.

In `VideoRendering` the content of a file is the synthesis that wrote it, so that an old
host video can be told from a new one. `HostStarts` to `PrepareDone` is the parallel
preparation of host videos; a failure there returns the batch to the synthesis, a
cancellation leaves its status as it is, which no handler sees (`PrepareCancelled`,
`PrepareEnds`), and both wait for the workers they cancel. `InputStaged` is the copy and
verification of one input, `ProfileRendered` one output, `Recover` the recovery of a batch
that was rendering (and of no other), `CleanUp` the removal of its attempts after that.
`FileChanges` may hit any input at any time. A crash between the recovery and that removal
leaves attempt directories for ever, since the next start finds nothing to recover; so does
a cancellation while inputs are staged. Both only cost disk space.

### LanguageModel

`Chunks` cuts the cues of a transcript under the limit of cues (`MaxBatch`) and of
characters (`MaxCharacters`, with `Frame` for the prompt around the cues), as a fold of
`Add`. `Answered`, `UnusableAnswer` and `ProviderFails` are the loop of retries.
`KeepCaptions` is the transcript whose language is the target's already. Observed and left
without a property: `create_script` has no guard of its input's length, and a translation
that its model refuses is raised outside the loop of retries.

## Runs

| Run | Instance | Shows |
| --- | --- | --- |
| `story_safety` | 1 story, 2 calls, 2 wordings, versions up to 12 | gates, evidence, audit trail; `StoryWorkflow` implements `StoryPublication` |
| `story_liveness` | 1 story, 2 calls, 1 wording, versions up to 8 | interrupted work is taken up again |
| `batch_safety` | 2 batches, 2 stories, 2 calls, versions up to 10, failing last writes | rendered as approved, one worker, exact claims |
| `runs_safety` | 2 runs of 1 source side by side, 2 items of which 1 excluded, 2 requests, failing database | true reasons and reports, one ingestion per item, no overlap of scheduled runs |
| `sources_liveness` | 1 run with 1 item, 1 operator and the loop; starts and reads of the switch may fail | a cancel answers with a terminal row; runs and requests end; nothing starts after a stop; the loop stops and the container closes, also when the loop has failed |
| `assets_safety` | 2 requests, 2 assets, versions up to 3, 2 faults | images keep their files, archived ones stay, the final review saw what it approved |
| `speech_services` | 1 transcription, 2 tasks, 1 request, 2 attempts; 1 synthesis, 2 servers, 2 voices, 1 replaced file, 2 cancellations; 2 roles, 2 editors, 1 script | verdicts, one child at a time, true provenance, stopped servers are gone, voices stand still |
| `production` | see below | what enters and leaves: collections, items, programmes, templates, renders, prompts |
| `batch_release` | 1 batch, 2 calls, no failing last write | **violated**: an unrendered batch that cannot be released |
| `schedule_polled` | 1 run, 1 operator and the loop | **violated**: an enabled schedule without a loop |
| `assets_reclaim` | as `assets_safety` | **violated**: the image of an archived story outlives the cleanup |

`production` has 2 collections of 3 sources in 1 slot with the 3 layers, an interval of 2
ticks, 1 cancellation, a limit and a cap of 2 items and listings of up to 3 good and 3 bad
results; items with up to 2 media or, from Pikabu, 3 blocks; programmes of 2 stories with up to
2 segments, 2 voices and room for 7 scenes; a template with 1 module and 2 variants, 2
operators and policy versions up to 3; renders of 2 segments and 2 profiles with 3
syntheses, 3 attempts and 3 faults; transcripts of up to 4 cues.

Bounds. `MaxVersion` limits when a request is accepted; a call that has started always
runs to its end, so the bound never cuts a behaviour in the middle. A story needs seven
saves from creation to the final gate and four for each revision that goes back through
the script gate, so that 12 versions hold a publication, its reopening and a revision, or
two revisions with failures. One story is enough for the properties of `StoryWorkflow`:
each speaks of one story, no action reads another one, and locks are per story. Two calls
are needed (one that lost its lock, one that holds it) and enough: a third could only
wait. Batches interact through claims, so that `batch_safety` has two batches and two
stories; `MaxRevision` 2 lets a story change once between two reads. Deadlock is not
checked: a process without requests may stand still, and at the bounds it does.

The runs and the schedule are bounded by their run identities alone: no request starts a
run when all are used (`IdentityLeft`), everything else goes on. Two runs are enough for
what the properties relate (a run and an earlier or a concurrent one, a running tick and
a run started beside it), two requests for two cancellations of one run or a start
between the queries of another, and one source because sources meet only in the capacity.
Reports need two items with different outcomes. One operator is enough for the schedule:
the tick inside `enable` and the loop's tick are the same code, so a stop meets a tick in
every order. Runs and requests are interchangeable and the safety runs use that symmetry;
the liveness runs do not.

In `assets_safety` two requests and a cleanup meet on two assets: a replacement has an old
and a new file, and a third request could only be one more of the same kind behind the
lock. In `speech_services` a second attempt meets what the first left behind, so that two
attempts and two tasks are enough; two servers are one that must be gone and one that
starts; one script and two roles are the two sides of a voice that moves. In `production`
two collections of one source meet in its cooldown and two of different sources in the
slot; listings of 3 go beyond the limit and the cap. Items do not interact: each is normalized alone, so that one at a time with all
combinations of its fields is exhaustive for its shape. Seven scenes are one less than the
longest programme of the instance has, so that the limit (100 in the code) is met. Revisions
change the voice of the bridge and of one segment, which splits a story's voice anywhere
within its two segments. Lengths of
1, 2 and 5 characters against a limit of 5 with a frame of 1 give cues that fit together,
that fit alone, and that never fit, and 3 cues to a prompt make both limits bite within
four cues. One retry shows the second try and the failure after it.

Fairness. `StoryWorkflow`: a running call takes its next step (providers have timeouts
and locks are released on every path), and a creator waiting for an `asyncio.Lock` is
served in the end, since that lock is first come first served; the wait is interrupted
by other holders, hence strong fairness. `WorkIsRecovered` also needs a person: its
premise `Persistence` says that resume is called again and again on a story that stands
still and that the providers answer in the end, which is what the documentation asks of
operators. `VideoBatch`: running calls proceed (strong, because a synthesis waits for the
lock again); an operator keeps cancelling what can be cancelled; the process is restarted
now and then. The last two only make `UnrenderedIsReleasable` a fair question: it is
violated even with them. `SourceRuns` and `SourceSchedule`: tasks and requests whose await
has ended proceed, a request to cancel too, collectors and the language model answer
within their timeouts, recovery is part of the start and the start ends (`Recover`,
`Opens`); a tick, the end of an enable and the closing of the runs, which wait for the
control lock or the task lock, are served in the end (strong: the locks are first come
first served). Nothing promises that requests come, that the process closes or
that it is started again. The poll timeout has no fairness, so that stopping and closing
are shown not to depend on it. In `sources_liveness` starts and reads of the switch may fail, and the database
answers runs and cancellations: if those fail, a request may end without a row, and a row
may stay active until the next start. The other modules state safety only and need no fairness.

## Findings

* **A batch can be stuck in `PROCESSING_BATCH_TTS`** (`batch_release`). A synthesis that is
  cancelled or dies leaves that status behind. Cancel and delete refuse it ("wait for it
  to finish"), synthesize and the reviews refuse it, and the recovery at start looks at
  `RENDERING` only. Its stories remain claimed. `docs/architecture/frontend-api-mapping.md:97`
  says that unrendered batches can release their stories.
* **An enabled schedule can lose its loop** (`schedule_polled`). If a disable and an enable
  complete while the loop is between its read of the switch and its end, enable finds the
  task not done and starts none. The window is narrow. A failing read of the switch, which
  the loop does not catch, has the same effect. `docs/architecture/frontend-api-mapping.md:73`
  says the backend polls and only the operator switches it on and off.
* **The images of an archived story are not reclaimed** (`assets_reclaim`). The visual
  repository protects the images of stories that are not archived, but the media catalog
  protects every row of the three asset tables whatever the status of its story, and the
  cleanup respects both. `docs/architecture/visual-assets.md:60-62` says that archiving a
  story lets the retention window reclaim them.

Observed, without a run: a revision during the narration review is never saved. The service
lets `REVISE` through in `PENDING_NARRATION_REVIEW`, but the repository applies a
transition table without self loops to every write (`ReviseNarration` and `Save` of
`VideoBatch`). `docs/architecture/frontend-api-mapping.md:91` and the docstring of
`submit_narration_review` present revising there as one of the decisions. The write is
refused with an error and changes nothing.

Also observed: a raw Pikabu story may have 500 blocks (`sources/models.py:264`) and a
normalized item 200 media (`sources/models.py:415`), so that a story with more distinct
images than that is refused as a whole. The proof of `SayingItemIsNormalized` met this case,
and the property names it. The project's own collector of pages makes one text block of a
story, so that only raw items from elsewhere can come near.

And three exceptions that nothing catches where they arise. A Reddit or Guardian answer with
more results than a run holds (100, `sources/models.py:117-119`) loses the whole collection;
a story page whose address `UrlSource` refuses, before any page was read, ends in an
`UnboundLocalError` instead of an error of that page
(`sources/collectors/public_pages.py:182-192`); and a loop that failed once makes
`AppContainer.aclose` raise before the services after the scheduler are closed. The models
contain them, and the properties say what they leave intact.

## Proofs

TLC shows a property on the instances above; the theorems show it for every set of
stories, calls, runs, servers, assets and so on, and for every bound. Each module of proofs
has one inductive invariant per machine, a lemma per group of actions that the invariant is
kept, and the properties as consequences of it or of what a step may do under it. The
theorems a reader should know of are listed in `PROJECT.json`, with the property of a run
that each states. `TypeOK`, `RevisionNamesWording`, `ArchivedIsFinal`, `OutcomeIsFinal` and
the abstract invariant `PublishedIsApproved` are proved and no run checks them: the runs
keep to what is hardest.

Most invariants answer the same question: what does a call know that wakes up after minutes
with a copy of something? The copy is either the present row, or carries an older version
and will be refused; or something else (a lock, a status, a semaphore) kept everybody away.
None of the properties is inductive without that.

Assumptions. Only the named `ASSUME`s of the modules, which TLC evaluates on every run:
the value for "none" is none of the others (`NoStory`, `NoText`, `NoBatch`, `None`,
`NoAsset`, `NoOne`, `NoServer`, `NoSource`, `Silent`), bounds and revisions are natural
numbers, a prompt holds a cue and an item a medium at least (`BatchAssumption`,
`MediaAssumption`), the audio is no segment (`AudioIsNoSegment`), a batch has stories, which
are finitely many, as its model demands (`ProgramAssumption`), an interval is a natural number
(`CadenceAssumption`), a collection's limit is in 1..`RunCap` as every collector demands
(`LimitAssumption`), a source is collected from an interface or from pages
(`KindAssumption`), Scrapy is nowhere but at the end of the chain (`LayerAssumption`), and the registered defaults of a template are variants of the modules
they are the defaults of (`TemplateShape`, the registry's own table). One theorem has an
assumption of its own: `CancelsAreAnswered` assumes that the database answers the requests
to cancel, as its run does; where it fails, the request ends with that error instead.

### Stories (`StoryWorkflowProofs`)

`IInv` says: `TypeOK`; `RowOK` of every row (the validators hold, its audio and its
approval are of the present wording); and `CallOK` of every call (its copy has the status
its place in the code implies, a version no later than the row's, is equal to the row if
the versions are, and, for a synthesis, has an approved script). `SaveKeepsOrder` is the
central lemma: a save that preserves the gates keeps every row in order and makes every
other copy of that story out of date. `SaveStep` and `CallsCarryOn` lift it to whole steps,
then there is a lemma for each group of actions. Proved from it: `ScriptGate`,
`AudioSpeaksScript`, and through `StepWrites`, which says what any step does to any row,
`RevisionNamesWording` and `ArchivedIsFinal`.

`AuditIsHistory` and `FinalGate` speak of all audit rows at once. Their invariant puts the
versions of the audit rows below the version of the row and says of the newest one that it
leads to the row's status; a step adds at most one, above all others. `WorkflowKeepsPromise`
is the refinement: initial states map to initial states, and every step of `StoryWorkflow`
is, by what it does to the one row it writes, a step of `StoryPublication` or a stutter.

### Batches (`VideoBatchProofs`)

A durable row obeys its validators and its reviews name what it holds (`SoundRow`); claims
are exactly those of the unreleased batches (`ClaimsOK`); a call that works on a batch holds
exactly the present row, in the status its work implies, and no other call is at the same
batch (`CallIn`, `OneCallPerBatch`). The last is what replaces the batch lock, which a
synthesis does not keep and a cancelled render loses: the status alone keeps others away.
Proved: `ClaimsAreExact`, `RenderedAsApproved`, `WorkerOwnsBatch`.

### Runs and schedule (`SourceRunsProofs`, `SourceScheduleProofs`)

`IInv` says that a live task holds the present row in a status its await implies
(`WorkerOK`), that a request about to write has outlived the task and its copy is the
present row or older (`CancelOK`), that a task is being cancelled only for a request that
waits or a process that closes (`ReasonOK`), and that nothing runs while the process is not
up (`Offline`, `Locked`). `RowStep` is what any step may do to a row: it follows the order
of the statuses. Since that order and the order of the three queries agree, what a scheduled
start has looked past stays empty until it creates its run (`LookInv`), which is why the
queries need no transaction. For `IngestedOnce`, `IngestInv` adds that a run owns an item
from the creation of its story to the end of time; `Taking` shows that creating a story is
the only way to come to own one. For `ReportIsTrue`, `ReportInv` says of every row what it
has reported so far and what it still has to (`RowTrue`), and of the task which item it is
at (`WorkTrue`). For `CancelIsAnswered`, `AnswerInv` says that a request whose copy is out of
date when it comes to mark a row finds the row ended (`MarkOK`): after the task is gone,
only an end moves a row (`IdleRow`).

`ScheduleRunsAsRuns` shows that every step of the scheduler is a step of the runs or leaves
them alone, so that all of the above holds with the scheduler at work
(`RunsKeepTheirPromises`). `ScheduledOnlyWhileEnabled` rests on `SInv`: whoever has a
scheduled start under way is in a tick, a tick holds the control lock with the switch on,
and a stop needs that lock.

### Transcription, speech and voices (`SourceTranscriptionProofs`, `SpeechProofs`)

For transcriptions, `RowOK` ties cues and verdict to the last attempt, `PlaceOK` says that a
copy still needed is not ahead of the row and is the row while the versions agree, and
`ChildOK` that the semaphore is held from the spawn of a child to its end. Proved:
`ApprovedAsHeard`, `OneChildWorks`, `VerdictStands`.

For the speech engine, a hash in the cache may be stale but is never ahead of its file
(`FilesOK`), and neither is what a server has loaded (`StartsInOrder`) or a recording that
was read (`SpeaksInOrder`). So when the content hashed before the start and after it agree,
what was loaded in between agrees with both: that is `ProvenanceIsTrue`. `ServersKept` says
that a server a synthesis relies on is known to the engine until it has ended; with
`ServiceOK`, `StoppedIsGone` follows. For the voices, `EditIn` says that while the role an
edit has read is unchanged, a live script whose speaker must be asked for is still to be
asked for or was written too late to be seen; `VoiceStands` follows.

### Assets (`MediaAssetsProofs`)

The requests fall into those under the lifecycle lock and those without, and a cleanup may
lose the lock while its thread goes on. `JobIn` says what each request in flight remembers
that must still be true: the asset it creates has no row, and a file exactly when it has
written it (`CreatesIn`); what it is about to remove has lost its row (`DiscardsIn`); what it
has read of Commons rows stands (`ReadsIn`); nothing it would replace was archived meanwhile,
and a story approved meanwhile has another version (`UploadsIn`); images shown to a
reviewer are those of the story while it has that version (`ReviewsIn`). `Apart` keeps two
requests off the same asset, and `CleanupOK` says that what a cleanup has not protected and
can delete is needed by nobody: an old file without a row never comes to be named again.
Proved: `NamedFilesExist`, `FinalReviewSawTheImages`, `ArchivedStays`. This invariant, those of
`StoryWorkflow` and those of `SourceRuns` were also checked by TLC, on the instances of their
runs, before they were proved.

### Collections, items, templates and renders (`ProductionProofs`)

* `CollectionInv`: one caller has a source; a run in the making has no outcome yet, and its
  items and errors with the pages still to come are no more than a run holds (`CallOK`), so
  that the validator accepts whatever a page collection ends as (`NextIsGood`, `PageFailsIsGood`); a raised
  one has lost nothing, or more than a run holds, which is `FoundIsRecorded`. A
  source that nobody collects has been quiet for at least as long as the gateway remembers,
  and one that waits for a slot has waited out its interval (`CadenceHolds`).
* `UnclearedIsNotPublished`: nearly inductive; the rights of a normalized item are those
  built from the declaration it came with.
* `FrozenTemplateIsWhole`: what has been resolved is whole before it is kept. A template is
  effective only if its default variants are, which is why resolution cannot lose them.
* `RenderingInv`: workers alive belong to the present synthesis, and none is left when the
  snapshot is taken (`HostsOK`); what an attempt has staged, and every output, is what was
  approved (`Faithful`). `OutputsAreOfTheApproved` and `HostVideosAreOfThisRun` follow.

Three of the machines have their difficulty not in their steps, which are few, but in what
an operator computes from a sequence. Their facts hold for sequences of any length, by
induction. The induction principle of the library takes an operator, so that each induction
here is about a set of numbers instead (`Induction`, from `WFMin`), and a fold or a
`FlattenSeq` is first shown to have a value after each place (`FoldCuts`,
`FlattenPrefixes`).

* `CaptionsAreWhole`: `CutOK` says that the prompts closed so far and the open one are runs of
  consecutive cues, that each fits, and that together they are all cues met; `AddKeeps` is
  the step of the fold and `ChunksFacts` its result. Around it `CaptionsOK` says that the
  prompts asked and left are those of `Chunks`, and that the cues translated are those of the
  prompts answered.
* `StoriesStayWhole`: `TellsStories` says what the scenes of the first stories are; a story
  (`StoryIsTold`) and one more story (`StoriesGoOn`) keep it.
* `HostIsThereOnce`: `MovesOK` says when a host enters and leaves in terms of its neighbours;
  from the nearest scene before with a move, nothing changes up to the present one
  (`HostEntersOnce`).
* `CompileFailsForAReason`: the compiled plan passes all the validators of `EpisodePlan` unless
  one of four reasons holds. `ProgramScenes` describes the scenes: they narrate exactly the
  script (`NarratingFlattened`, narrating is a homomorphism), a b-roll follows its segment
  (`Following`), no scene is there twice (`OnceFlattened`), and each is of a segment, a bridge
  or a video; so they are no more than those (`ScenesAreCounted`). `CompileInv` keeps what the
  direction reserved, that there is one b-roll if there is any, and that every segment
  has a voice of the show, also after a revision.
* `SayingItemIsNormalized`: `SoundRaw` is what the raw contracts hold, of names and addresses
  too; a block that says
  something leaves a paragraph (`ContentSays`), and deduplication keeps as many media as
  there are different ones (`MediaFit`).

### Only model-checked

Every safety property that a run expects to hold is proved. Liveness stays with TLC:
`WorkIsRecovered`, `WorkEnds`, `LoopStops`, `ContainerCloses`. They need fairness and
`ENABLED`, which this prover does not treat.

## Not modelled

* Runtime control (one settings row that is read and written), editorial memory (fails open
  on every side) and the API, configuration and wiring, beyond the order of start and
  shutdown: no property could be violated by an order of their steps.
* The numerics of the Live2D worker, `live2d_control.py` and the Remotion compositions:
  what they draw is not a matter of states. `VideoRendering` keeps that they succeed, fail,
  are stopped or write late.
* HTML and JSON parsing, HTTP and the model's own answers, which are external; the modules
  enumerate what they can lead to.
* The quality scripts, benchmarks and the operator console, which keep no durable state.
* The `dsakiko` adapter, a stateless HTTP client; the health checks; the interval timer and
  the history of the operations dispatcher; lists and other reads.
* The bound of 100 narration reviews of a batch, out of reach beside its interleavings.

## Plan

The models are complete as far as the section on what is not modelled says, and every safety
property of a run is proved. What is left:

1. The step a liveness proof would start from: that the awaits of runs and schedules have
   measures which every fair step reduces.
2. The same for the recovery of stories: that every call that has begun ends, whatever the
   others do, after a bounded number of its own steps.
