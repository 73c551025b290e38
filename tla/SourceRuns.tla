----------------------------- MODULE SourceRuns -----------------------------
(***************************************************************************)
(* Collection runs: one supervised task per run collects the items of a    *)
(* source and hands each to the editorial workflow, while requests start   *)
(* and cancel runs, the process closes, crashes and starts again           *)
(* (application/source_runs.py, infrastructure/source_runs.py,             *)
(* sources/run_models.py).                                                 *)
(*                                                                         *)
(* A step of a worker is what one await of its coroutine brings about.     *)
(* Cancelling a task interrupts the await it is in, so a save in flight    *)
(* has happened before the request to cancel or does not happen at all.    *)
(***************************************************************************)
EXTENDS Naturals, FiniteSets

CONSTANTS
    Runs,            \* run identities, each used once
    Sources,         \* content sources
    Items,           \* source items, by the identity that duplicates share
    Excluded,        \* items the admission policy turns away
    Callers,         \* requests and the scheduler's loop
    None,            \* no item, source, run or lock holder
    MaxPending,      \* max_pending_runs
    DatabaseFaults   \* where database calls may fail

ASSUME NoneAssumption == None \notin Runs \cup Sources \cup Items \cup Callers
ASSUME ExcludedAssumption == Excluded \subseteq Items
ASSUME PendingAssumption == MaxPending \in Nat \ {0}
ASSUME FaultsAssumption == DatabaseFaults \subseteq {"start", "run", "cancel", "loop"}

VARIABLES
    run,      \* run -> its durable row
    known,    \* items that have a story: the durable story table
    job,      \* run -> its supervised task
    call,     \* caller -> the start or cancel request it is in
    lock,     \* holder of _task_lock
    asked,    \* _operator_cancellations
    service   \* phase of the process

vars == <<run, known, job, call, lock, asked, service>>

Active == {"QUEUED", "COLLECTING", "INGESTING"}
Terminal == {"COMPLETED", "FAILED", "CANCELLED"}
Outcome == {"INGESTED", "DUPLICATE", "FILTERED", "FAILED"}
Error ==
    {"none", "operator_cancelled", "service_shutdown", "source_run_internal_error",
     "no_items", "all_items_failed", "interrupted_by_restart"}

\* by is requested_by; found stands for items_discovered.
Row == [status  : Active \cup Terminal \cup {"ABSENT"},
        version : Nat,
        source  : Sources \cup {None},
        by      : {"operator", "schedule"},
        found   : SUBSET Items,
        results : SUBSET (Items \X Outcome),
        current : Items \cup {None},
        error   : Error]

Queued(s, by) ==
    [status |-> "QUEUED", version |-> 1, source |-> s, by |-> by, found |-> {},
     results |-> {}, current |-> None, error |-> "none"]
Absent == [Queued(None, "operator")
              EXCEPT !.status = "ABSENT", !.version = 0]

\* Where a worker awaits. A "created" one has not yet entered the try of
\* _execute, an "ending" one has saved its outcome; Handling are the handlers.
Working == {"begun", "collecting", "empty", "ingesting", "item", "story", "ending"}
Handling == {"cancelling", "failing"}
Job == [pc : {"none", "created"} \cup Working \cup Handling, held : Row]
NoJob == [pc |-> "none", held |-> Absent]

\* A request that looks for an active run asks for one status after another.
Call == [pc     : {"idle", "checking", "creating", "waiting", "marking"},
         source : Sources \cup {None},
         by     : {"operator", "schedule"},
         look   : Active,
         run    : Runs \cup {None},
         held   : Row]
IdleCall == [pc |-> "idle", source |-> None, by |-> "operator", look |-> "QUEUED",
             run |-> None, held |-> Absent]

Phase == {"recovering", "up", "closing", "down"}

(* Type correctness of the rows, tasks, requests and locks.                   *)
TypeOK ==
    /\ run \in [Runs -> Row]
    /\ known \in SUBSET Items
    /\ job \in [Runs -> Job]
    /\ call \in [Callers -> Call]
    /\ lock \in Callers \cup {None}
    /\ asked \in SUBSET Runs
    /\ service \in Phase

Init ==
    /\ run = [r \in Runs |-> Absent]
    /\ known = {}
    /\ job = [r \in Runs |-> NoJob]
    /\ call = [c \in Callers |-> IdleCall]
    /\ lock = None
    /\ asked = {}
    /\ service = "recovering"

IsActive(r) == run[r].status \in Active
Live(r) == job[r].pc # "none"
Serving == service \in {"up", "closing"}
Idle(c) == call[c].pc = "idle"

-----------------------------------------------------------------------------
(* The repository *)

Saved(row) == [row EXCEPT !.version = @ + 1]

Ended(row, status, error) ==
    [row EXCEPT !.status = status, !.current = None, !.error = error]

\* _task_finished: a task that is done leaves no trace in the service.
Forget == asked' = {r \in asked : job'[r].pc # "none"}

\* A worker saves its copy of the row; a version conflict is an exception.
Store(r, row, pc) ==
    /\ IF run[r].version = job[r].held.version
       THEN /\ run' = [run EXCEPT ![r] = Saved(row)]
            /\ job' = [job EXCEPT ![r] = [pc |-> pc, held |-> Saved(row)]]
       ELSE /\ run' = run
            /\ job' = [job EXCEPT ![r].pc = "failing"]

-----------------------------------------------------------------------------
(* Starting a run *)

HasCapacity ==
    /\ service = "up"
    /\ Cardinality({r \in Runs : Live(r)}) < MaxPending

\* Bound: no request starts a run when every identity is used.
IdentityLeft == \E r \in Runs : run[r].status = "ABSENT"

\* Fault: an operator's start does not wait for the lock.
StartUnlocked(c, s) ==
    /\ Idle(c) /\ Serving /\ IdentityLeft
    /\ HasCapacity
    /\ call' = [call EXCEPT ![c] = [IdleCall EXCEPT !.pc = "creating", !.source = s]]
    /\ UNCHANGED <<run, known, job, lock, asked, service>>

\* start: the lock, then the capacity check and the insert.
Start(c, s) ==
    /\ Idle(c) /\ Serving /\ lock = None /\ IdentityLeft
    /\ HasCapacity
    /\ call' = [call EXCEPT ![c] = [IdleCall EXCEPT !.pc = "creating", !.source = s]]
    /\ lock' = c
    /\ UNCHANGED <<run, known, job, asked, service>>

\* start_if_source_idle: the lock, then one query for each active status.
StartIfIdle(c, s) ==
    /\ Idle(c) /\ Serving /\ lock = None /\ IdentityLeft
    /\ call' = [call EXCEPT ![c] =
                   [IdleCall EXCEPT !.pc = "checking", !.source = s, !.by = "schedule"]]
    /\ lock' = c
    /\ UNCHANGED <<run, known, job, asked, service>>

Found(c) == \E r \in Runs : run[r].source = call[c].source /\ run[r].status = call[c].look

NextLook == [s \in {"QUEUED", "COLLECTING"} |->
                IF s = "QUEUED" THEN "COLLECTING" ELSE "INGESTING"]

Look(c) ==
    /\ call[c].pc = "checking" /\ ~Found(c)
    /\ call[c].look # "INGESTING"
    /\ call' = [call EXCEPT ![c].look = NextLook[@]]
    /\ UNCHANGED <<run, known, job, lock, asked, service>>

SourceIsIdle(c) ==
    /\ call[c].pc = "checking" /\ ~Found(c)
    /\ call[c].look = "INGESTING"
    /\ HasCapacity
    /\ call' = [call EXCEPT ![c].pc = "creating"]
    /\ UNCHANGED <<run, known, job, lock, asked, service>>

\* The source is busy, or there is no capacity left.
StartRefused(c) ==
    /\ call[c].pc = "checking"
    /\ Found(c) \/ (call[c].look = "INGESTING" /\ ~HasCapacity)
    /\ call' = [call EXCEPT ![c] = IdleCall]
    /\ lock' = None
    /\ UNCHANGED <<run, known, job, asked, service>>

\* The row exists, its task is registered, the lock is given up.
Create(c, r) ==
    /\ call[c].pc = "creating"
    /\ run[r].status = "ABSENT"
    /\ run' = [run EXCEPT ![r] = Queued(call[c].source, call[c].by)]
    /\ job' = [job EXCEPT ![r] = [NoJob EXCEPT !.pc = "created"]]
    /\ call' = [call EXCEPT ![c] = IdleCall]
    /\ lock' = None
    /\ UNCHANGED <<known, asked, service>>

StartFails(c) ==
    /\ "start" \in DatabaseFaults
    /\ call[c].pc \in {"checking", "creating"}
    /\ call' = [call EXCEPT ![c] = IdleCall]
    /\ lock' = None
    /\ UNCHANGED <<run, known, job, asked, service>>

-----------------------------------------------------------------------------
(* The worker of a run *)

Load(r) ==
    /\ job[r].pc = "created"
    /\ job' = [job EXCEPT ![r] = [pc |-> "begun", held |-> run[r]]]
    /\ UNCHANGED <<run, known, call, lock, asked, service>>

Begin(r) ==
    /\ job[r].pc = "begun"
    /\ Store(r, [job[r].held EXCEPT !.status = "COLLECTING"], "collecting")
    /\ UNCHANGED <<known, call, lock, asked, service>>

\* Collecting answers with items, or with none.
Collected(r, found) ==
    /\ job[r].pc = "collecting"
    /\ Store(r, [job[r].held EXCEPT !.status = "INGESTING", !.found = found],
                IF found = {} THEN "empty" ELSE "ingesting")
    /\ UNCHANGED <<known, call, lock, asked, service>>

NothingCollected(r) ==
    /\ job[r].pc = "empty"
    /\ Store(r, Ended(job[r].held, "FAILED", "no_items"), "ending")
    /\ UNCHANGED <<known, call, lock, asked, service>>

Left(row) == {i \in row.found : \A o \in Outcome : <<i, o>> \notin row.results}

TakeItem(r, i) ==
    /\ job[r].pc = "ingesting" /\ i \in Left(job[r].held)
    /\ Store(r, [job[r].held EXCEPT !.current = i], "item")
    /\ UNCHANGED <<known, call, lock, asked, service>>

Record(r, outcome) ==
    Store(r, [job[r].held EXCEPT !.results = @ \cup {<<job[r].held.current, outcome>>}],
             "ingesting")

Filter(r) ==
    /\ job[r].pc = "item" /\ job[r].held.current \in Excluded
    /\ Record(r, "FILTERED")
    /\ UNCHANGED <<known, call, lock, asked, service>>

\* Fault: the item is not looked up among the stories.
StoryCreatedAgain(r) ==
    /\ job[r].pc = "item"
    /\ job[r].held.current \notin Excluded
    /\ known' = known \cup {job[r].held.current}
    /\ job' = [job EXCEPT ![r].pc = "story"]
    /\ UNCHANGED <<run, call, lock, asked, service>>

\* The workflow's first durable effect: the story, unless the item has one.
StoryCreated(r) ==
    /\ job[r].pc = "item"
    /\ job[r].held.current \notin Excluded \cup known
    /\ known' = known \cup {job[r].held.current}
    /\ job' = [job EXCEPT ![r].pc = "story"]
    /\ UNCHANGED <<run, call, lock, asked, service>>

Duplicate(r) ==
    /\ job[r].pc = "item" /\ job[r].held.current \in known \ Excluded
    /\ Record(r, "DUPLICATE")
    /\ UNCHANGED <<known, call, lock, asked, service>>

StoryTranslated(r) ==
    /\ job[r].pc = "story"
    /\ Record(r, "INGESTED")
    /\ UNCHANGED <<known, call, lock, asked, service>>

\* The workflow raises, before it created a story or after.
IngestFails(r) ==
    /\ job[r].pc = "story" \/ (job[r].pc = "item" /\ job[r].held.current \notin Excluded)
    /\ Record(r, "FAILED")
    /\ UNCHANGED <<known, call, lock, asked, service>>

AllFailed(row) == \A i \in row.found : <<i, "FAILED">> \in row.results

\* Fault: one failed item fails the run.
FinishWithAnyFailure(r) ==
    /\ job[r].pc = "ingesting" /\ Left(job[r].held) = {}
    /\ Store(r, IF \E i \in Items : <<i, "FAILED">> \in job[r].held.results
                THEN Ended(job[r].held, "FAILED", "all_items_failed")
                ELSE Ended(job[r].held, "COMPLETED", "none"), "ending")
    /\ UNCHANGED <<known, call, lock, asked, service>>

Finish(r) ==
    /\ job[r].pc = "ingesting" /\ Left(job[r].held) = {}
    /\ Store(r, IF AllFailed(job[r].held)
                THEN Ended(job[r].held, "FAILED", "all_items_failed")
                ELSE Ended(job[r].held, "COMPLETED", "none"), "ending")
    /\ UNCHANGED <<known, call, lock, asked, service>>

Return(r) ==
    /\ job[r].pc = "ending"
    /\ job' = [job EXCEPT ![r] = NoJob]
    /\ Forget
    /\ UNCHANGED <<run, known, call, lock, service>>

\* The collector or the normalizer raises.
Escapes(r) ==
    /\ job[r].pc \in {"collecting", "ingesting"}
    /\ job' = [job EXCEPT ![r].pc = "failing"]
    /\ UNCHANGED <<run, known, call, lock, asked, service>>

\* _mark_cancelled and _mark_failed read the row again and keep a final one.
Marked(r, status, error) ==
    /\ run' = [run EXCEPT ![r] = IF @.status \in Terminal THEN @
                                 ELSE Saved(Ended(@, status, error))]
    /\ job' = [job EXCEPT ![r] = NoJob]
    /\ Forget

MarkCancelled(r) ==
    /\ job[r].pc = "cancelling"
    /\ Marked(r, "CANCELLED",
              IF r \in asked THEN "operator_cancelled" ELSE "service_shutdown")
    /\ UNCHANGED <<known, call, lock, service>>

\* Fault: an exception is logged and nothing else.
MarkFailedInLog(r) ==
    /\ job[r].pc = "failing"
    /\ job' = [job EXCEPT ![r] = NoJob]
    /\ Forget
    /\ UNCHANGED <<run, known, call, lock, service>>

MarkFailed(r) ==
    /\ job[r].pc = "failing"
    /\ Marked(r, "FAILED", "source_run_internal_error")
    /\ UNCHANGED <<known, call, lock, service>>

\* A database call of the worker fails: in the handlers, that is swallowed.
WorkerFault(r) ==
    /\ "run" \in DatabaseFaults
    /\ Live(r)
    /\ job' = [job EXCEPT ![r] = IF @.pc \in Working THEN [@ EXCEPT !.pc = "failing"]
                                 ELSE NoJob]
    /\ Forget
    /\ UNCHANGED <<run, known, call, lock, service>>

-----------------------------------------------------------------------------
(* Cancelling, closing and starting again *)

\* Only an await inside the try of _execute is answered by _mark_cancelled.
Interrupted(j) == IF j.pc \in Working THEN [j EXCEPT !.pc = "cancelling"] ELSE NoJob

\* Fault: nobody remembers that it was an operator who asked.
RequestCancelUnrecorded(c, r) ==
    /\ Idle(c) /\ Serving /\ lock = None
    /\ run[r].status # "ABSENT"
    /\ job' = [job EXCEPT ![r] = Interrupted(@)]
    /\ Forget
    /\ call' = [call EXCEPT ![c] = [IdleCall EXCEPT !.pc = "waiting", !.run = r]]
    /\ UNCHANGED <<run, known, lock, service>>

RequestCancel(c, r) ==
    /\ Idle(c) /\ Serving /\ lock = None
    /\ run[r].status # "ABSENT"
    /\ job' = [job EXCEPT ![r] = Interrupted(@)]
    /\ asked' = {q \in asked \cup {r} : job'[q].pc # "none"}
    /\ call' = [call EXCEPT ![c] = [IdleCall EXCEPT !.pc = "waiting", !.run = r]]
    /\ UNCHANGED <<run, known, lock, service>>

\* Fault: the request does not wait for the task.
CancelReadsAtOnce(c) ==
    /\ call[c].pc = "waiting"
    /\ call' = [call EXCEPT ![c] =
                   IF ~Live(call[c].run) /\ IsActive(call[c].run)
                   THEN [@ EXCEPT !.pc = "marking", !.held = run[call[c].run]]
                   ELSE IdleCall]
    /\ UNCHANGED <<run, known, job, lock, asked, service>>

\* The task is done; a row it left active is cancelled by the request itself.
CancelReads(c) ==
    /\ call[c].pc = "waiting"
    /\ ~Live(call[c].run)
    /\ call' = [call EXCEPT ![c] =
                   IF IsActive(call[c].run)
                   THEN [@ EXCEPT !.pc = "marking", !.held = run[call[c].run]]
                   ELSE IdleCall]
    /\ UNCHANGED <<run, known, job, lock, asked, service>>

\* A conflict means that another request marked it first.
CancelMarks(c) ==
    /\ call[c].pc = "marking"
    /\ run' = [run EXCEPT ![call[c].run] =
                  IF @.version = call[c].held.version
                  THEN Saved(Ended(call[c].held, "CANCELLED", "operator_cancelled"))
                  ELSE @]
    /\ call' = [call EXCEPT ![c] = IdleCall]
    /\ UNCHANGED <<known, job, lock, asked, service>>

CancelFails(c) ==
    /\ "cancel" \in DatabaseFaults
    /\ call[c].pc = "marking" \/ (call[c].pc = "waiting" /\ ~Live(call[c].run))
    /\ call' = [call EXCEPT ![c] = IdleCall]
    /\ UNCHANGED <<run, known, job, lock, asked, service>>

\* aclose: cancel every task, then wait for all of them.
Close ==
    /\ service = "up" /\ lock = None
    /\ service' = "closing"
    /\ job' = [r \in Runs |-> Interrupted(job[r])]
    /\ Forget
    /\ UNCHANGED <<run, known, call, lock>>

Exit ==
    /\ job' = [r \in Runs |-> NoJob]
    /\ call' = [c \in Callers |-> IdleCall]
    /\ lock' = None
    /\ asked' = {}
    /\ service' = "down"
    /\ UNCHANGED <<run, known>>

Closed ==
    /\ service = "closing"
    /\ \A r \in Runs : ~Live(r)
    /\ Exit

Crash ==
    /\ service # "down"
    /\ Exit

Restart ==
    /\ service = "down"
    /\ service' = "recovering"
    /\ UNCHANGED <<run, known, job, call, lock, asked>>

\* recover_interrupted runs before anything is served.
Recover(r) ==
    /\ service = "recovering" /\ IsActive(r)
    /\ run' = [run EXCEPT ![r] = Saved(Ended(@, "FAILED", "interrupted_by_restart"))]
    /\ UNCHANGED <<known, job, call, lock, asked, service>>

Open ==
    /\ service = "recovering"
    /\ \A r \in Runs : ~IsActive(r)
    /\ service' = "up"
    /\ UNCHANGED <<run, known, job, call, lock, asked>>

-----------------------------------------------------------------------------

WorkerStep(r) ==
    \/ Load(r)
    \/ Begin(r)
    \/ \E found \in SUBSET Items : Collected(r, found)
    \/ NothingCollected(r)
    \/ \E i \in Items : TakeItem(r, i)
    \/ Filter(r)
    \/ StoryCreated(r)
    \/ Duplicate(r)
    \/ StoryTranslated(r)
    \/ IngestFails(r)
    \/ Finish(r)
    \/ Return(r)
    \/ Escapes(r)
    \/ MarkCancelled(r)
    \/ MarkFailed(r)

StartStep(c) ==
    \/ Look(c)
    \/ SourceIsIdle(c)
    \/ StartRefused(c)
    \/ \E r \in Runs : Create(c, r)
    \/ StartFails(c)

CancelStep(c) ==
    \/ CancelReads(c)
    \/ CancelMarks(c)
    \/ CancelFails(c)

Request(c) ==
    \/ \E s \in Sources : Start(c, s)
    \/ \E r \in Runs : RequestCancel(c, r)

RecoveryStep ==
    \/ \E r \in Runs : Recover(r)
    \/ Open

Next ==
    \/ \E r \in Runs : WorkerStep(r) \/ WorkerFault(r)
    \/ \E c \in Callers : StartStep(c) \/ CancelStep(c) \/ Request(c)
    \/ \E c \in Callers, s \in Sources : StartIfIdle(c, s)
    \/ Close
    \/ Closed
    \/ Crash
    \/ Restart
    \/ RecoveryStep

Spec == Init /\ [][Next]_vars

-----------------------------------------------------------------------------
(* Properties *)

(* A row that says how a run ended never changes again: not by a cancellation
   that meets the run's last save, a second cancellation or a recovery
   (_mark_cancelled, _mark_failed, cancel).                                   *)
OutcomeIsFinal ==
    [][\A r \in Runs : run[r].status \in Terminal => run'[r] = run[r]]_vars

(* What a row reports is what happened: an item has one result, a completed
   run has one for every item, and a run fails for its items only when every
   one of them failed (_execute_locked, validate_lifecycle).                  *)
ReportIsTrue ==
    \A r \in Runs :
        LET row == run[r] IN
        /\ \A x, y \in row.results : x[1] = y[1] => x = y
        /\ \A x \in row.results :
              /\ x[1] \in row.found
              /\ x[2] \in {"INGESTED", "DUPLICATE"} => x[1] \in known
        /\ row.status = "COMPLETED" => Left(row) = {} /\ ~AllFailed(row)
        /\ row.error = "all_items_failed" => AllFailed(row)
        /\ row.status \in Terminal => row.current = None

(* Of all the runs, at any time and after any restart, at most one claims to
   have ingested an item (DuplicateStoryError, source_runs.py:325).           *)
IngestedOnce ==
    \A q, r \in Runs, i \in Items :
        <<i, "INGESTED">> \in run[q].results \cap run[r].results => q = r

(* A cancelled row says why: for an operator, whose request is still there, or
   because the process is closing (_operator_cancellations, line 225).        *)
ReasonIsTrue ==
    [][\A r \in Runs :
          run'[r].status = "CANCELLED" /\ run[r].status # "CANCELLED" =>
              \/ /\ run'[r].error = "operator_cancelled"
                 /\ \E c \in Callers : call[c].run = r /\ call[c].pc \in {"waiting", "marking"}
              \/ /\ run'[r].error = "service_shutdown"
                 /\ service = "closing"]_vars

(* A scheduled run starts only while no run of its source is active, although
   the check takes three queries and runs go on meanwhile
   (start_if_source_idle, _has_active_run).                                   *)
ScheduledNeverOverlaps ==
    [][\A r \in Runs :
          run[r].status = "ABSENT" /\ run'[r].status # "ABSENT" /\ run'[r].by = "schedule" =>
              \A q \in Runs : run[q].source = run'[r].source => ~IsActive(q)]_vars

(* A cancel request is answered with a terminal row ("return the persisted
   terminal snapshot", cancel), as long as the database answers.              *)
CancelIsAnswered ==
    [][\A c \in Callers :
          call[c].pc \in {"waiting", "marking"} /\ call'[c].pc = "idle" /\ service' # "down" =>
              run'[call[c].run].status \in Terminal]_vars

(* Every run ends, unless the process does, and every request returns: a start
   that holds the task lock, and a cancellation that waits behind a shield for
   the task to end (_execute, cancel).                                        *)
WorkEnds ==
    /\ \A r \in Runs : IsActive(r) ~> (~IsActive(r) \/ service = "down")
    /\ \A c \in Callers : ~Idle(c) ~> Idle(c)

=============================================================================
