---------------------------- MODULE VideoRendering ----------------------------
(* The local renderers behind one video batch: the host videos of its         *)
(* segments (infrastructure/video_live2d.py) and the final videos             *)
(* (infrastructure/video_remotion.py), with the calls VideoBatchService makes *)
(* to them, failures and cancellations of their processes, files that change  *)
(* on disk, and restarts of the application.  A file's content is the         *)
(* synthesis that wrote it; 0 is any other content, or no file.               *)
EXTENDS Naturals, FiniteSets

CONSTANTS
    Segments,     \* narration segments, each with a host video
    Audio,        \* the narration audio, the other input of a render
    Profiles,     \* output profiles
    HostSlots,    \* max_parallel_segments
    MaxRuns,      \* bound: syntheses
    MaxRenders,  \* bound: render attempts
    MaxFaults     \* bound: changed files, cancellations and restarts

ASSUME AudioIsNoSegment == Audio \notin Segments

VARIABLES
    status,    \* the batch's status
    run,       \* syntheses so far
    todo,      \* per segment: "waiting", "working" or "done"
    preparing, \* prepare of the host renderer: "no", "running", or how it ends:
               \* "stopping" after a failure, "leaving" after a cancellation
    workers,   \* host workers alive: a segment and the synthesis it belongs to
    disk,      \* per input: the content of the file
    approved,  \* per input: the content in the batch's snapshot
    attempts,  \* attempt directories: number to staged inputs and outputs
    started,   \* attempts so far
    job,       \* the render in progress: "none", "staging", "rendering" or "failing"
    artifact,  \* the attempt the rendered batch names, or 0
    boot,      \* "up", "down", or "cleaning" after the batches were recovered
    recovered, \* whether the batch was recovered from RENDERING
    faults     \* faults so far

renderingVars == <<status, run, todo, preparing, workers, disk, approved, attempts,
                   started, job, artifact, boot, recovered, faults>>
hostVars == <<run, todo, preparing, workers>>
renderVars == <<attempts, started, job, artifact>>
bootVars == <<boot, recovered>>

Inputs == Segments \cup {Audio}

RenderingInit ==
    /\ status = "pending_tts"
    /\ run = 0
    /\ todo = [s \in Segments |-> "waiting"]
    /\ preparing = "no"
    /\ workers = {}
    /\ disk = [i \in Inputs |-> 0]
    /\ approved = disk
    /\ attempts = <<>>
    /\ started = 0
    /\ job = "none"
    /\ artifact = 0
    /\ boot = "up"
    /\ recovered = FALSE
    /\ faults = 0

Fault == faults < MaxFaults /\ faults' = faults + 1
Without(f, x) == [y \in DOMAIN f \ {x} |-> f[y]]

----------------------------------------------------------------------------
(* synthesize_narration: the audio, then prepare of the host renderer. *)

SynthesizeNarration ==
    /\ boot = "up" /\ status = "pending_tts" /\ run < MaxRuns
    /\ status' = "processing"
    /\ run' = run + 1
    /\ disk' = [disk EXCEPT ![Audio] = run + 1]
    /\ todo' = [s \in Segments |-> "waiting"]
    /\ preparing' = "running"
    /\ UNCHANGED <<workers, approved, renderVars, bootVars, faults>>

\* _render_segment takes a slot and starts its worker.
HostStarts(s) ==
    /\ preparing = "running" /\ todo[s] = "waiting"
    /\ Cardinality({t \in Segments : todo[t] = "working"}) < HostSlots
    /\ todo' = [todo EXCEPT ![s] = "working"]
    /\ workers' = workers \cup {<<s, run>>}
    /\ UNCHANGED <<status, run, preparing, disk, approved, renderVars, bootVars, faults>>

\* What the worker made passes its checks and replaces the segment's file.
HostCommitted(w) ==
    /\ w \in workers
    /\ workers' = workers \ {w}
    /\ disk' = [disk EXCEPT ![w[1]] = w[2]]
    /\ todo' = IF w[2] = run /\ preparing = "running" THEN [todo EXCEPT ![w[1]] = "done"] ELSE todo
    /\ UNCHANGED <<status, run, preparing, approved, renderVars, bootVars, faults>>

\* The worker fails, times out or made something else: prepare cancels the
\* other segments.
HostFails(w) ==
    /\ w \in workers /\ w[2] = run /\ preparing = "running"
    /\ workers' = workers \ {w}
    /\ preparing' = "stopping"
    /\ UNCHANGED <<status, run, todo, disk, approved, renderVars, bootVars, faults>>

\* The call that synthesizes is cancelled while the hosts are prepared.
PrepareCancelled ==
    /\ preparing = "running" /\ Fault
    /\ preparing' = "leaving"
    /\ UNCHANGED <<status, run, todo, workers, disk, approved, renderVars, bootVars>>

\* A cancelled segment ends when its process tree has.
HostStopped(w) ==
    /\ w \in workers /\ preparing # "running"
    /\ workers' = workers \ {w}
    /\ UNCHANGED <<status, run, todo, preparing, disk, approved, renderVars, bootVars, faults>>

\* Fault: the cancelled segments are not waited for.
SegmentsCancelled == TRUE

\* The gather of the cancelled tasks.
SegmentsEnded == workers = {}

\* The batch's host directory is removed either way. A failure is recorded; a
\* cancellation is no Exception, and the batch stays as it is.
PrepareEnds ==
    /\ preparing \in {"stopping", "leaving"} /\ SegmentsEnded
    /\ preparing' = "no"
    /\ disk' = [i \in Inputs |-> IF i \in Segments THEN 0 ELSE disk[i]]
    /\ status' = IF preparing = "stopping" THEN "pending_tts" ELSE status
    /\ UNCHANGED <<run, todo, workers, approved, renderVars, bootVars, faults>>

HostsPrepared == preparing = "running" /\ \A s \in Segments : todo[s] = "done"

\* What follows the hosts fails, the media or the snapshot: the host videos of
\* this synthesis stay where they are.
SnapshotFails ==
    /\ HostsPrepared
    /\ preparing' = "no"
    /\ status' = "pending_tts"
    /\ UNCHANGED <<run, todo, workers, disk, approved, renderVars, bootVars, faults>>

SnapshotCancelled ==
    /\ HostsPrepared /\ Fault
    /\ preparing' = "no"
    /\ UNCHANGED <<status, run, todo, workers, disk, approved, renderVars, bootVars>>

\* The inputs are hashed into the snapshot the reviewers approve.
PrepareDone ==
    /\ HostsPrepared
    /\ preparing' = "no"
    /\ approved' = disk
    /\ status' = "timeline"
    /\ UNCHANGED <<run, todo, workers, disk, renderVars, bootVars, faults>>

\* submit_timeline_review, and a revision with its approval.
TimelineApproved ==
    /\ boot = "up" /\ status = "timeline"
    /\ status' = "ready"
    /\ UNCHANGED <<hostVars, disk, approved, renderVars, bootVars, faults>>

NarrationRevised ==
    /\ boot = "up" /\ status = "timeline"
    /\ status' = "pending_tts"
    /\ approved' = [i \in Inputs |-> 0]
    /\ UNCHANGED <<hostVars, disk, renderVars, bootVars, faults>>

----------------------------------------------------------------------------
(* render. *)

\* _verify_input_assets, and a new attempt directory.
RenderStarts ==
    /\ boot = "up" /\ status \in {"ready", "failed"} /\ started < MaxRenders
    /\ disk = approved
    /\ status' = "rendering"
    /\ started' = started + 1
    /\ attempts' = [n \in DOMAIN attempts \cup {started'} |->
                       IF n = started' THEN [staged |-> <<>>, outputs |-> <<>>]
                       ELSE attempts[n]]
    /\ job' = "staging"
    /\ UNCHANGED <<hostVars, disk, approved, artifact, bootVars, faults>>

\* Fault: what is copied is not compared with the snapshot.
CopiedUnchecked(i) == TRUE

\* _copy_verified_input: size and digest of the bytes that were copied.
CopyIsApproved(i) == disk[i] = approved[i]

Attempt == attempts[started]

\* _stage_verified_inputs, one input after the other.
InputStaged ==
    /\ job = "staging"
    /\ \E i \in Inputs \ DOMAIN Attempt.staged :
          IF CopyIsApproved(i)
          THEN /\ attempts' = [attempts EXCEPT ![started].staged =
                                  [k \in DOMAIN @ \cup {i} |->
                                      IF k = i THEN disk[i] ELSE @[k]]]
               /\ UNCHANGED job
          ELSE job' = "failing" /\ UNCHANGED attempts
    /\ UNCHANGED <<status, hostVars, disk, approved, started, artifact, bootVars, faults>>

StagingDone ==
    /\ job = "staging" /\ DOMAIN Attempt.staged = Inputs
    /\ job' = "rendering"
    /\ UNCHANGED <<status, hostVars, disk, approved, attempts, started, artifact, bootVars,
                   faults>>

\* _render_profile: the output has passed the probe and the quality gate.
ProfileRendered ==
    /\ job = "rendering"
    /\ \E p \in Profiles \ DOMAIN Attempt.outputs :
          attempts' = [attempts EXCEPT ![started].outputs =
                          [q \in DOMAIN @ \cup {p} |->
                              IF q = p THEN Attempt.staged ELSE @[q]]]
    /\ UNCHANGED <<status, hostVars, disk, approved, started, job, artifact, bootVars, faults>>

\* A worker that fails, times out, or whose output is not what was declared.
RenderFails ==
    /\ job \in {"staging", "rendering"}
    /\ job' = "failing"
    /\ UNCHANGED <<status, hostVars, disk, approved, attempts, started, artifact, bootVars>>

\* The caller is cancelled: the worker's process tree is ended first.
RenderCancelled == RenderFails /\ Fault

\* The attempt directory is removed and the batch fails, retryably.
RenderCleaned ==
    /\ job = "failing"
    /\ job' = "none"
    /\ attempts' = Without(attempts, started)
    /\ status' = "failed"
    /\ UNCHANGED <<hostVars, disk, approved, started, artifact, bootVars, faults>>

\* _save_render_commit, finished even when the caller is cancelled.
RenderCommitted ==
    /\ job = "rendering" /\ DOMAIN Attempt.outputs = Profiles
    /\ job' = "none"
    /\ status' = "rendered"
    /\ artifact' = started
    /\ UNCHANGED <<hostVars, disk, approved, attempts, started, bootVars, faults>>

----------------------------------------------------------------------------
(* The world: files that change, and restarts. *)

FileChanges(i) ==
    /\ Fault
    /\ disk[i] # 0
    /\ disk' = [disk EXCEPT ![i] = 0]
    /\ UNCHANGED <<status, hostVars, approved, renderVars, bootVars>>

\* The job objects end the workers with the application.
Restart ==
    /\ boot # "down" /\ Fault
    /\ boot' = "down"
    /\ recovered' = FALSE
    /\ preparing' = "no"
    /\ workers' = {}
    /\ job' = "none"
    /\ UNCHANGED <<status, run, todo, disk, approved, attempts, started, artifact>>

\* recover_interrupted_rendering: batches that were rendering, and no others.
Recover ==
    /\ boot = "down"
    /\ boot' = "cleaning"
    /\ recovered' = (status = "rendering")
    /\ status' = IF status = "rendering" THEN "failed" ELSE status
    /\ UNCHANGED <<hostVars, disk, approved, renderVars, faults>>

\* cleanup_interrupted: the attempts of a batch that was rendering go.
KeptAttempts == IF recovered THEN {} ELSE DOMAIN attempts

CleanUp ==
    /\ boot = "cleaning"
    /\ boot' = "up"
    /\ attempts' = [n \in KeptAttempts |-> attempts[n]]
    /\ UNCHANGED <<status, hostVars, disk, approved, started, job, artifact, recovered, faults>>

----------------------------------------------------------------------------

RenderingNext ==
    \/ SynthesizeNarration
    \/ \E s \in Segments : HostStarts(s)
    \/ \E w \in workers : HostCommitted(w) \/ HostFails(w) \/ HostStopped(w)
    \/ PrepareCancelled \/ PrepareEnds \/ SnapshotFails \/ SnapshotCancelled
    \/ PrepareDone \/ TimelineApproved \/ NarrationRevised
    \/ RenderStarts \/ InputStaged \/ StagingDone \/ ProfileRendered
    \/ (RenderFails /\ UNCHANGED faults) \/ RenderCancelled \/ RenderCleaned \/ RenderCommitted
    \/ \E i \in Inputs : FileChanges(i)
    \/ Restart \/ Recover \/ CleanUp

RenderingSpec == RenderingInit /\ [][RenderingNext]_renderingVars

----------------------------------------------------------------------------

(* Every profile of a rendered batch was made from the bytes its reviewers    *)
(* approved, all of them, although the files may have changed after they were *)
(* verified and between one profile and the next.                             *)
OutputsAreOfTheApproved ==
    status = "rendered" =>
        /\ artifact \in DOMAIN attempts
        /\ \A p \in Profiles :
              /\ p \in DOMAIN attempts[artifact].outputs
              /\ attempts[artifact].outputs[p] = approved

(* No snapshot holds a host video of an earlier synthesis: the workers of one *)
(* that failed have ended before its files are removed.                       *)
HostVideosAreOfThisRun ==
    status \in {"timeline", "ready", "rendering", "failed", "rendered"} =>
        \A s \in Segments : approved[s] \in {0, run}

=============================================================================
