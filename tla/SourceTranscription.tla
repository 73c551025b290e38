------------------------ MODULE SourceTranscription ------------------------
(***************************************************************************)
(* Local transcription of source videos: requests start, review and cancel *)
(* a transcription, one supervised task per transcription runs a one-shot  *)
(* speech recognition child and saves the result, the service closes, the  *)
(* process crashes and starts again (application/source_transcriptions.py, *)
(* domain/source_transcription.py, infrastructure/source_media_asr.py,     *)
(* infrastructure/processes.py, source_transcription_repository.py).       *)
(*                                                                         *)
(* The unique constraint makes the row of a (media, model, languages) key  *)
(* unique, so a row is named by its key.                                   *)
(***************************************************************************)
EXTENDS Naturals, FiniteSets

CONSTANTS
    Keys,         \* equivalence keys of transcriptions
    Workers,      \* identities of tasks
    Calls,        \* identities of requests
    None,         \* no task and no lock holder
    MaxPending,   \* max_pending
    MaxEvidence,  \* the limit of the failures and of the reviews of a row
    MaxAttempts   \* bound: attempts after which a start is no longer asked for

ASSUME NoneAssumption == None \notin Workers \cup Calls
ASSUME ActorAssumption == Workers \cap Calls = {}
ASSUME PendingAssumption == MaxPending \in Nat \ {0}
ASSUME EvidenceAssumption == MaxEvidence \in Nat \ {0}

VARIABLES
    row,       \* key -> its durable row
    at,        \* task or request -> where it is and the copy it works on
    child,     \* task -> the recognition process it started
    cancelled, \* tasks with a cancellation not yet delivered
    slot,      \* key -> _tasks
    asked,     \* _operator_cancellations
    lock,      \* holder of _task_lock
    engine,    \* holder of the adapter's semaphore
    gathered,  \* tasks that aclose waits for
    phase      \* phase of the process

vars == <<row, at, child, cancelled, slot, asked, lock, engine, gathered, phase>>

Active == {"QUEUED", "PROCESSING"}
Reviewable == {"PENDING_REVIEW", "APPROVED", "REJECTED"}
Stopped == {"FAILED", "CANCELLED"}
\* Fault: a transcript waiting for its review counts as unfinished.
TerminalWhenDecided == {"APPROVED", "REJECTED"} \cup Stopped
Terminal == Reviewable \cup Stopped
Code == {"none", "failed", "operator_cancelled", "service_shutdown", "service_restarted"}

\* heard is the attempt whose cues the row shows, 0 for none; approval is the
\* version the last review looked at and whether it approved.
NoReview == [version |-> 0, approve |-> FALSE]
Absent == [status |-> "ABSENT", version |-> 0, attempts |-> 0, heard |-> 0,
           failures |-> 0, why |-> "none", reviews |-> 0, last |-> NoReview]
Queued == [Absent EXCEPT !.status = "QUEUED", !.version = 1]

\* A place in the code; held is the copy of the row that is still needed there.
Idle == [pc |-> "idle", key |-> None, held |-> Absent, to |-> "FAILED",
         why |-> "none", tries |-> 0, task |-> None]

Place(a, pc) == [Idle EXCEPT !.pc = pc, !.key = at[a].key]
Handler(a, pc, to, why) ==
    [Place(a, pc) EXCEPT !.to = to, !.why = why, !.tries = 2]

Trying == {"queued", "claimed", "attaching", "hearing", "heard", "saved"}
Handling == {"marking", "ending", "marked"}
IsFree(w) == at[w].pc = "idle" /\ child[w] \in {"none", "orphan"}
Done(w) == at[w].pc \in {"idle", "done"}
Serving == phase \in {"up", "closing"}

(* Types of the rows, tasks, requests, children and locks. *)
TypeOK ==
    /\ \A k \in Keys :
        /\ row[k].status \in Active \cup Terminal \cup {"ABSENT"}
        /\ row[k].version \in Nat /\ row[k].attempts \in Nat
        /\ row[k].heard \in Nat /\ row[k].why \in Code
        /\ row[k].failures \in 0..MaxEvidence /\ row[k].reviews \in 0..MaxEvidence
    /\ \A w \in Workers : at[w].pc \in {"idle", "new", "stopping", "done"} \cup Trying \cup Handling
    /\ \A c \in Calls :
        at[c].pc \in {"idle", "found", "created", "waiting", "marking", "ending", "marked"}
    /\ child \in [Workers -> {"none", "spawned", "working", "stopping", "orphan"}]
    /\ cancelled \subseteq Workers
    /\ slot \in [Keys -> Workers \cup {None}]
    /\ asked \subseteq Keys
    /\ lock \in Calls \cup {None}
    /\ engine \in Workers \cup {None}
    /\ gathered \subseteq Workers
    /\ phase \in {"recovering", "up", "closing", "down"}

Init ==
    /\ row = [k \in Keys |-> Absent]
    /\ at = [a \in Workers \cup Calls |-> Idle]
    /\ child = [w \in Workers |-> "none"]
    /\ cancelled = {}
    /\ slot = [k \in Keys |-> None]
    /\ asked = {}
    /\ lock = None
    /\ engine = None
    /\ gathered = {}
    /\ phase = "recovering"

-----------------------------------------------------------------------------
(* The repository *)

\* The version the caller read is still the stored one.
Saved(k, old) == row[k].version = old.version

Save(k, old, new) ==
    IF Saved(k, old)
    THEN row' = [row EXCEPT ![k] = [new EXCEPT !.version = old.version + 1]]
    ELSE row' = row

\* evolve validates: an ended row needs room for the evidence of its end.
HasRoom(old) == old.failures < MaxEvidence

Stop(old, to, why) ==
    [old EXCEPT !.status = to, !.failures = @ + 1, !.why = why]

-----------------------------------------------------------------------------
(* Starting *)

TaskIsActive(k) == slot[k] # None /\ ~Done(slot[k])

QueueIsFull ==
    Cardinality({k \in Keys : TaskIsActive(k)}) >= MaxPending

\* start up to the answer of find_equivalent, which is read under the lock.
StartFinds(c, k) ==
    /\ Serving /\ at[c].pc = "idle" /\ lock = None
    /\ row[k].attempts < MaxAttempts
    /\ lock' = c
    /\ at' = [at EXCEPT ![c] = [Idle EXCEPT !.pc = "found", !.key = k, !.held = row[k]]]
    /\ UNCHANGED <<row, child, cancelled, slot, asked, engine, gathered, phase>>

Answer(c) ==
    /\ lock' = None
    /\ at' = [at EXCEPT ![c] = Idle]

\* _schedule_locked
ScheduleLocked(c, k) ==
    /\ lock' = None
    /\ IF TaskIsActive(k)
       THEN /\ at' = [at EXCEPT ![c] = Idle]
            /\ slot' = slot
       ELSE \E w \in Workers :
            /\ IsFree(w)
            /\ at' = [at EXCEPT ![c] = Idle,
                                ![w] = [Idle EXCEPT !.pc = "new", !.key = k]]
            /\ slot' = [slot EXCEPT ![k] = w]

StartAnswers(c) ==
    /\ at[c].pc = "found"
    /\ LET k == at[c].key
           status == at[c].held.status IN
        \/ /\ status \in {"PROCESSING", "PENDING_REVIEW", "APPROVED"}
           /\ Answer(c) /\ slot' = slot
        \/ /\ status = "QUEUED"
           /\ IF phase = "closing" \/ (~TaskIsActive(k) /\ QueueIsFull)
              THEN Answer(c) /\ slot' = slot
              ELSE ScheduleLocked(c, k)
        \/ /\ status \in {"ABSENT", "REJECTED"} \cup Stopped
           /\ phase = "closing" \/ QueueIsFull
           /\ Answer(c) /\ slot' = slot
    /\ UNCHANGED <<row, child, cancelled, asked, engine, gathered, phase>>

\* Fault: the cues of the last attempt stay.
RestartedAsIs(old) == [old EXCEPT !.status = "QUEUED"]
Restarted(old) == [old EXCEPT !.status = "QUEUED", !.heard = 0]

\* create_or_get, or the save that queues a finished transcription again.
StartQueues(c) ==
    /\ at[c].pc = "found"
    /\ phase = "up" /\ ~QueueIsFull
    /\ LET k == at[c].key
           old == at[c].held IN
        /\ old.status \in {"ABSENT", "REJECTED"} \cup Stopped
        /\ IF old.status = "ABSENT"
           THEN row' = [row EXCEPT ![k] = Queued]
           ELSE Save(k, old, Restarted(old))
        /\ IF Saved(k, old)
           THEN /\ at' = [at EXCEPT ![c] = Place(c, "created")]
                /\ lock' = lock
           ELSE Answer(c)
    /\ UNCHANGED <<child, cancelled, slot, asked, engine, gathered, phase>>

StartSchedules(c) ==
    /\ at[c].pc = "created"
    /\ ScheduleLocked(c, at[c].key)
    /\ UNCHANGED <<row, child, cancelled, asked, engine, gathered, phase>>

-----------------------------------------------------------------------------
(* The task *)

Go(w, pc) == at' = [at EXCEPT ![w].pc = pc]

\* An exception inside the try of _execute.
Fails(w) == at' = [at EXCEPT ![w] = Handler(w, "marking", "FAILED", "failed")]

Begin(w) ==
    /\ at[w].pc = "new" /\ w \notin cancelled
    /\ at' = [at EXCEPT ![w].pc = "queued", ![w].held = row[at[w].key]]
    /\ UNCHANGED <<row, child, cancelled, slot, asked, lock, engine, gathered, phase>>

Processing(old) == [old EXCEPT !.status = "PROCESSING", !.attempts = @ + 1]

\* evolve refuses a copy that still shows a result.
Claim(w) ==
    /\ at[w].pc = "queued" /\ w \notin cancelled
    /\ LET k == at[w].key
           old == at[w].held IN
        IF old.heard = 0 /\ Saved(k, old)
        THEN /\ Save(k, old, Processing(old))
             /\ at' = [at EXCEPT ![w].pc = "claimed", ![w].held = row'[k]]
        ELSE Fails(w) /\ row' = row
    /\ UNCHANGED <<child, cancelled, slot, asked, lock, engine, gathered, phase>>

\* The media is gone or changed, or the timing or the translation is refused.
WorkFails(w) ==
    /\ at[w].pc \in {"claimed", "heard"} /\ w \notin cancelled
    /\ Fails(w)
    /\ UNCHANGED <<row, child, cancelled, slot, asked, lock, engine, gathered, phase>>

\* run_json_worker: the child exists before its supervision does.
Spawn(w) ==
    /\ at[w].pc = "claimed" /\ w \notin cancelled
    /\ engine = None
    /\ engine' = w
    /\ child' = [child EXCEPT ![w] = "spawned"]
    /\ Go(w, "attaching")
    /\ UNCHANGED <<row, cancelled, slot, asked, lock, gathered, phase>>

Feed(w) ==
    /\ at[w].pc = "attaching" /\ w \notin cancelled
    /\ child' = [child EXCEPT ![w] = "working"]
    /\ Go(w, "hearing")
    /\ UNCHANGED <<row, cancelled, slot, asked, lock, engine, gathered, phase>>

\* The child exits, with a transcript or with an error.
ChildExits(w) ==
    /\ at[w].pc = "hearing" /\ w \notin cancelled
    /\ child' = [child EXCEPT ![w] = "none"]
    /\ engine' = None
    /\ Go(w, "heard") \/ Fails(w)
    /\ UNCHANGED <<row, cancelled, slot, asked, lock, gathered, phase>>

\* Fault: the child is forgotten instead of stopped.
TimesOutAlone(w) ==
    /\ at[w].pc = "hearing" /\ w \notin cancelled
    /\ Fails(w)
    /\ engine' = None
    /\ UNCHANGED <<row, child, cancelled, slot, asked, lock, gathered, phase>>

TimesOut(w) ==
    /\ at[w].pc = "hearing" /\ w \notin cancelled
    /\ child' = [child EXCEPT ![w] = "stopping"]
    /\ at' = [at EXCEPT ![w] = Handler(w, "stopping", "FAILED", "failed")]
    /\ UNCHANGED <<row, cancelled, slot, asked, lock, engine, gathered, phase>>

\* terminate_process_tree ends; who still waits for it gives the semaphore back.
ChildStops(w) ==
    /\ child[w] = "stopping"
    /\ child' = [child EXCEPT ![w] = "none"]
    /\ IF at[w].pc = "stopping"
       THEN /\ at' = [at EXCEPT ![w].pc = "marking"]
            /\ engine' = None
       ELSE UNCHANGED <<at, engine>>
    /\ UNCHANGED <<row, cancelled, slot, asked, lock, gathered, phase>>

Completed(old) == [old EXCEPT !.status = "PENDING_REVIEW", !.heard = old.attempts]

Complete(w) ==
    /\ at[w].pc = "heard" /\ w \notin cancelled
    /\ LET k == at[w].key
           old == at[w].held IN
        IF Saved(k, old)
        THEN Save(k, old, Completed(old)) /\ at' = [at EXCEPT ![w] = Place(w, "saved")]
        ELSE Fails(w) /\ row' = row
    /\ UNCHANGED <<child, cancelled, slot, asked, lock, engine, gathered, phase>>

\* The cancellation reaches the await the task is in. Before its first step the
\* task never enters _execute, in a handler the handler ends, during the
\* shielded stop of the child nobody waits for the child any longer.
Interrupted(w) ==
    /\ w \in cancelled /\ ~Done(w)
    /\ cancelled' = cancelled \ {w}
    /\ LET pc == at[w].pc
           why == IF at[w].key \in asked THEN "operator_cancelled" ELSE "service_shutdown"
           then == IF pc = "hearing" THEN "stopping" ELSE "marking" IN
        /\ at' = [at EXCEPT ![w] = IF pc \in {"new"} \cup Handling THEN Place(w, "done")
                                   ELSE Handler(w, then, "CANCELLED", why)]
        /\ child' = [child EXCEPT ![w] = CASE pc = "attaching" -> "orphan"
                                           [] pc = "hearing" -> "stopping"
                                           [] OTHER -> @]
        /\ engine' = IF pc \in {"attaching", "stopping"} THEN None ELSE engine
    /\ UNCHANGED <<row, slot, asked, lock, gathered, phase>>

Returns(w) ==
    /\ at[w].pc \in {"saved", "marked"} /\ w \notin cancelled
    /\ at' = [at EXCEPT ![w] = Place(w, "done")]
    /\ UNCHANGED <<row, child, cancelled, slot, asked, lock, engine, gathered, phase>>

\* _task_finished, which the event loop calls some time after the task is done.
TaskFinished(w) ==
    /\ at[w].pc = "done"
    /\ slot' = [slot EXCEPT ![at[w].key] = None]
    /\ asked' = asked \ {at[w].key}
    /\ cancelled' = cancelled \ {w}
    /\ gathered' = gathered \ {w}
    /\ at' = [a \in DOMAIN at |->
                 IF a = w THEN Idle
                 ELSE IF at[a].task = w THEN [at[a] EXCEPT !.task = None]
                 ELSE at[a]]
    /\ UNCHANGED <<row, child, lock, engine, phase>>

-----------------------------------------------------------------------------
(* _mark_terminal, of a task's handler or of a cancel request *)

Undisturbed(a) == a \in Workers => a \notin cancelled

\* What follows _mark_terminal, also when it raises.
Marked(a) == IF a \in Workers THEN Place(a, "done") ELSE Idle

MarkReads(a) ==
    /\ at[a].pc = "marking" /\ Undisturbed(a)
    /\ at' = [at EXCEPT ![a] =
                 IF row[at[a].key].status \in Terminal THEN Marked(a)
                 ELSE [at[a] EXCEPT !.pc = "ending", !.held = row[at[a].key]]]
    /\ UNCHANGED <<row, child, cancelled, slot, asked, lock, engine, gathered, phase>>

MarkSaves(a) ==
    /\ at[a].pc = "ending" /\ Undisturbed(a)
    /\ LET k == at[a].key
           old == at[a].held IN
        IF ~HasRoom(old)
        THEN row' = row /\ at' = [at EXCEPT ![a] = Marked(a)]
        ELSE /\ Save(k, old, Stop(old, at[a].to, at[a].why))
             /\ at' = [at EXCEPT ![a] =
                   IF Saved(k, old) THEN Place(a, "marked")
                   ELSE IF at[a].tries = 1 THEN Marked(a)
                   ELSE [at[a] EXCEPT !.pc = "marking", !.held = Absent, !.tries = 1]]
    /\ UNCHANGED <<child, cancelled, slot, asked, lock, engine, gathered, phase>>

-----------------------------------------------------------------------------
(* Cancelling and reviewing *)

CancelAsks(c, k) ==
    /\ Serving /\ at[c].pc = "idle" /\ lock = None
    /\ row[k].status # "ABSENT"
    /\ LET task == slot[k] IN
        /\ IF TaskIsActive(k)
           THEN asked' = asked \cup {k} /\ cancelled' = cancelled \cup {task}
           ELSE UNCHANGED <<asked, cancelled>>
        /\ at' = [at EXCEPT ![c] = [Idle EXCEPT !.pc = "waiting", !.key = k,
                                                !.task = task]]
    /\ UNCHANGED <<row, child, slot, lock, engine, gathered, phase>>

CancelContinues(c) ==
    /\ at[c].pc = "waiting"
    /\ at[c].task # None => Done(at[c].task)
    /\ at' = [at EXCEPT ![c] =
                 IF row[at[c].key].status \in Terminal THEN Idle
                 ELSE Handler(c, "marking", "CANCELLED", "operator_cancelled")]
    /\ UNCHANGED <<row, child, cancelled, slot, asked, lock, engine, gathered, phase>>

CancelAnswers(c) ==
    /\ at[c].pc = "marked"
    /\ at' = [at EXCEPT ![c] = Idle]
    /\ UNCHANGED <<row, child, cancelled, slot, asked, lock, engine, gathered, phase>>

Reviewed(old, approve) ==
    [old EXCEPT !.status = IF approve THEN "APPROVED" ELSE "REJECTED",
                !.reviews = @ + 1,
                !.last = [version |-> old.version, approve |-> approve]]

\* Between its read and its save a review can only lose the race, which
\* changes nothing.
Review(k) ==
    /\ Serving
    /\ row[k].status = "PENDING_REVIEW"
    /\ row[k].reviews < MaxEvidence
    /\ \E approve \in BOOLEAN : Save(k, row[k], Reviewed(row[k], approve))
    /\ UNCHANGED <<at, child, cancelled, slot, asked, lock, engine, gathered, phase>>

-----------------------------------------------------------------------------
(* The process *)

\* aclose: what it gathers are the tasks it has just cancelled.
Close ==
    /\ phase = "up" /\ lock = None
    /\ phase' = "closing"
    /\ gathered' = {slot[k] : k \in {j \in Keys : TaskIsActive(j)}}
    /\ cancelled' = cancelled \cup gathered'
    /\ UNCHANGED <<row, at, child, slot, asked, lock, engine>>

Forgotten ==
    /\ at' = [a \in Workers \cup Calls |-> Idle]
    /\ child' = [w \in Workers |-> "none"]
    /\ cancelled' = {}
    /\ slot' = [k \in Keys |-> None]
    /\ asked' = {}
    /\ lock' = None
    /\ engine' = None
    /\ gathered' = {}
    /\ UNCHANGED row

Closed ==
    /\ phase = "closing" /\ lock = None
    /\ gathered = {}
    /\ phase' = "down"
    /\ Forgotten

Crash ==
    /\ Serving
    /\ phase' = "down"
    /\ Forgotten

Start ==
    /\ phase = "down"
    /\ phase' = "recovering"
    /\ UNCHANGED <<row, at, child, cancelled, slot, asked, lock, engine, gathered>>

RecoverInterrupted(k) ==
    /\ phase = "recovering"
    /\ row[k].status \in Active
    /\ IF HasRoom(row[k])
       THEN /\ Save(k, row[k], Stop(row[k], "FAILED", "service_restarted"))
            /\ phase' = phase
       ELSE row' = row /\ phase' = "down"
    /\ UNCHANGED <<at, child, cancelled, slot, asked, lock, engine, gathered>>

Open ==
    /\ phase = "recovering"
    /\ \A k \in Keys : row[k].status \notin Active
    /\ phase' = "up"
    /\ UNCHANGED <<row, at, child, cancelled, slot, asked, lock, engine, gathered>>

-----------------------------------------------------------------------------
TaskStep(w) ==
    \/ Begin(w) \/ Claim(w) \/ WorkFails(w) \/ Spawn(w) \/ Feed(w)
    \/ ChildExits(w) \/ TimesOut(w) \/ ChildStops(w) \/ Complete(w)
    \/ Interrupted(w) \/ Returns(w) \/ TaskFinished(w)
    \/ MarkReads(w) \/ MarkSaves(w)

CallStep(c) ==
    \/ StartAnswers(c) \/ StartQueues(c) \/ StartSchedules(c)
    \/ CancelContinues(c) \/ CancelAnswers(c) \/ MarkReads(c) \/ MarkSaves(c)

Next ==
    \/ \E w \in Workers : TaskStep(w)
    \/ \E c \in Calls : CallStep(c)
    \/ \E c \in Calls, k \in Keys : StartFinds(c, k) \/ CancelAsks(c, k)
    \/ \E k \in Keys : Review(k) \/ RecoverInterrupted(k)
    \/ Close \/ Closed \/ Crash \/ Start \/ Open

Spec == Init /\ [][Next]_vars

-----------------------------------------------------------------------------
(* Cues and verdicts belong to the attempt they are shown with: a waiting or  *)
(* running transcription shows none, a reviewable one those of its last       *)
(* attempt, and an approved one was approved as it stands                     *)
(* (SourceMediaTranscription.validate_state, start, review).                  *)
ApprovedAsHeard ==
    \A k \in Keys :
        /\ row[k].status \in Active => row[k].heard = 0
        /\ row[k].status \in Reviewable => row[k].heard = row[k].attempts
        /\ row[k].status = "APPROVED" =>
               row[k].last = [version |-> row[k].version - 1, approve |-> TRUE]

(* Whatever is cancelled, closed or started again, a transcript that waits    *)
(* for its review is left by a review alone and an approved one never         *)
(* (_mark_terminal, recover_interrupted, start).                              *)
VerdictStands ==
    [][\A k \in Keys :
          /\ row[k].status = "APPROVED" => row'[k] = row[k]
          /\ row[k].status = "PENDING_REVIEW" /\ row'[k] # row[k] =>
                row'[k].status \in {"APPROVED", "REJECTED"}]_vars

(* A recognition child that has its request is awaited by the task that       *)
(* started it, under the semaphore, so that no two work at once; a task       *)
(* that gives up has told its child to stop (run_json_worker, transcribe).    *)
OneChildWorks ==
    \A w \in Workers : child[w] = "working" => at[w].pc = "hearing" /\ engine = w

=============================================================================
