--------------------------- MODULE SourceSchedule ---------------------------
(***************************************************************************)
(* Automatic collection: a durable switch, a polling loop that lives while *)
(* the switch is on, and ticks that ask SourceRuns for a run of each       *)
(* source (application/source_schedule.py,                                 *)
(* infrastructure/source_schedule.py, container.py).                       *)
(*                                                                         *)
(* The loop reads the switch without the control lock that the operator's  *)
(* requests hold. Time is reduced to whether the next tick is due.         *)
(***************************************************************************)
EXTENDS SourceRuns

CONSTANT Loop   \* the caller that is the scheduler's loop

ASSUME LoopAssumption == Loop \in Callers

VARIABLES
    schedule,   \* the durable row: enabled, and next_run_at in the past
    ctl,        \* caller -> where it is in the scheduler, sources left to start
    control,    \* holder of _control_lock
    wake,       \* the event _wake
    closing     \* the scheduler's _closing

scheduler == <<schedule, ctl, control, wake, closing>>
allVars == <<vars, scheduler>>

Clients == Callers \ {Loop}

At(pc) == [pc |-> pc, todo |-> {}]
Quiet == [c \in Callers |-> At(IF c = Loop THEN "dead" ELSE "idle")]

\* There is no loop, or its task is done: "dead" if it returned, "failed" if it
\* left with an exception.
LoopDone == ctl[Loop].pc \in {"dead", "failed"}

ScheduleInit ==
    /\ Init
    /\ \E on \in BOOLEAN : schedule = [enabled |-> on, due |-> on]
    /\ ctl = Quiet
    /\ control = None
    /\ wake = FALSE
    /\ closing = FALSE

\* A client runs one request at a time, to the scheduler or to the runs.
Ready(c) == c \in Clients /\ ctl[c].pc = "idle" /\ Idle(c)

-----------------------------------------------------------------------------
(* The operator's requests *)

Enable(c) ==
    /\ Ready(c) /\ Serving /\ control = None
    /\ schedule' = IF schedule.enabled THEN schedule ELSE [enabled |-> TRUE, due |-> TRUE]
    /\ ctl' = [ctl EXCEPT ![c] = At("due")]
    /\ UNCHANGED <<vars, control, wake, closing>>

\* The end of enable, whether its tick succeeded or not.
EnsureLoop(c) ==
    /\ ctl[c].pc = "ensuring" /\ control = None
    /\ ctl' = [ctl EXCEPT ![c] = At("idle"),
                          ![Loop] = IF LoopDone /\ ~closing THEN At("top") ELSE @]
    /\ wake' = TRUE
    /\ UNCHANGED <<vars, schedule, control, closing>>

\* Fault: the tick in progress is not waited for.
DisableUnlocked(c) ==
    /\ Ready(c) /\ Serving
    /\ schedule' = [enabled |-> FALSE, due |-> FALSE]
    /\ ctl' = [ctl EXCEPT ![c] = At("stopping")]
    /\ UNCHANGED <<vars, control, wake, closing>>

Disable(c) ==
    /\ Ready(c) /\ Serving /\ control = None
    /\ schedule' = [enabled |-> FALSE, due |-> FALSE]
    /\ ctl' = [ctl EXCEPT ![c] = At("stopping")]
    /\ control' = c
    /\ UNCHANGED <<vars, wake, closing>>

\* Fault: stopping does not wake the loop.
LetLoopSleep(c) ==
    /\ ctl[c].pc = "stopping"
    /\ ctl' = [ctl EXCEPT ![c] = At("idle")]
    /\ control' = None
    /\ UNCHANGED <<vars, schedule, wake, closing>>

WakeLoop(c) ==
    /\ ctl[c].pc = "stopping"
    /\ wake' = TRUE
    /\ ctl' = [ctl EXCEPT ![c] = At("idle")]
    /\ control' = None
    /\ UNCHANGED <<vars, schedule, closing>>

-----------------------------------------------------------------------------
(* A tick: run_due, of enable or of the loop *)

After(c) == At(IF c = Loop THEN "check" ELSE "ensuring")

\* The next tick is put off before any run is started.
RunDue(c) ==
    /\ ctl[c].pc = "due" /\ control = None
    /\ IF schedule.due
       THEN /\ schedule' = [schedule EXCEPT !.due = FALSE]
            /\ control' = c
            /\ ctl' = [ctl EXCEPT ![c] = [pc |-> "ticking", todo |-> Sources]]
       ELSE /\ ctl' = [ctl EXCEPT ![c] = After(c)]
            /\ UNCHANGED <<schedule, control>>
    /\ UNCHANGED <<vars, wake, closing>>

Ticking(c) == ctl[c].pc = "ticking"

StartSource(c, s) ==
    /\ Ticking(c) /\ s \in ctl[c].todo
    /\ StartIfIdle(c, s)
    /\ ctl' = [ctl EXCEPT ![c].todo = @ \ {s}]
    /\ UNCHANGED <<schedule, control, wake, closing>>

\* A busy source is passed over; without capacity the tick stops.
SourceRefused(c) ==
    /\ Ticking(c)
    /\ StartRefused(c)
    /\ ctl' = [ctl EXCEPT ![c].todo = IF Found(c) THEN @ ELSE {}]
    /\ UNCHANGED <<schedule, control, wake, closing>>

EndTick(c) ==
    /\ Ticking(c) /\ Idle(c)
    /\ ctl[c].todo = {} \/ ~IdentityLeft
    /\ ctl' = [ctl EXCEPT ![c] = After(c)]
    /\ control' = None
    /\ UNCHANGED <<vars, schedule, wake, closing>>

\* An exception leaves the tick: logged by the loop, raised by enable.
TickFails(c) ==
    /\ Ticking(c)
    /\ StartFails(c)
    /\ ctl' = [ctl EXCEPT ![c] = After(c)]
    /\ control' = None
    /\ UNCHANGED <<schedule, wake, closing>>

-----------------------------------------------------------------------------
(* The loop *)

Go(pc) == ctl' = [ctl EXCEPT ![Loop] = At(pc)]

LoopTop ==
    /\ ctl[Loop].pc = "top"
    /\ IF closing THEN Go("dead") /\ wake' = wake
                  ELSE Go("load") /\ wake' = FALSE
    /\ UNCHANGED <<vars, schedule, control, closing>>

\* What the loop has read may be stale by the time it acts on it.
LoopLoads ==
    /\ ctl[Loop].pc = "load"
    /\ Go(IF schedule.enabled THEN "due" ELSE "ending")
    /\ UNCHANGED <<vars, schedule, control, wake, closing>>

LoopChecks ==
    /\ ctl[Loop].pc = "check"
    /\ Go(IF closing THEN "dead" ELSE IF schedule.enabled THEN "waiting" ELSE "ending")
    /\ UNCHANGED <<vars, schedule, control, wake, closing>>

LoopEnds ==
    /\ ctl[Loop].pc = "ending"
    /\ Go("dead")
    /\ UNCHANGED <<vars, schedule, control, wake, closing>>

LoopWakes ==
    /\ ctl[Loop].pc = "waiting" /\ wake
    /\ Go("top")
    /\ UNCHANGED <<vars, schedule, control, wake, closing>>

LoopTimesOut ==
    /\ ctl[Loop].pc = "waiting"
    /\ Go("top")
    /\ UNCHANGED <<vars, schedule, control, wake, closing>>

\* A read of the switch that fails is not caught: the loop is gone, and its
\* exception waits for who awaits its task.
LoopFault ==
    /\ "loop" \in DatabaseFaults
    /\ ctl[Loop].pc \in {"load", "check"}
    /\ Go("failed")
    /\ UNCHANGED <<vars, schedule, control, wake, closing>>

\* The collection interval has passed.
BecomesDue ==
    /\ schedule.enabled /\ ~schedule.due
    /\ schedule' = [schedule EXCEPT !.due = TRUE]
    /\ UNCHANGED <<vars, ctl, control, wake, closing>>

-----------------------------------------------------------------------------
(* The container: the scheduler closes before the runs and opens after them *)

\* Fault: closing does not wake the loop.
CloseSilently ==
    /\ service = "up" /\ ~closing /\ control = None
    /\ closing' = TRUE
    /\ UNCHANGED <<vars, schedule, ctl, control, wake>>

CloseScheduler ==
    /\ service = "up" /\ ~closing /\ control = None
    /\ closing' = TRUE
    /\ wake' = TRUE
    /\ UNCHANGED <<vars, schedule, ctl, control>>

\* aclose of the runs, once the scheduler's has seen its loop return.
CloseRuns ==
    /\ closing /\ ctl[Loop].pc = "dead"
    /\ Close
    /\ UNCHANGED scheduler

\* Awaiting a failed loop raises, out of the scheduler and of the container, so
\* that the runs are never told to close. The server, whose requests have ended,
\* exits, and its event loop cancels the tasks that are left and waits for them:
\* to the tasks of the runs that is the same.
CloseAborts ==
    /\ closing /\ ctl[Loop].pc = "failed"
    /\ \A c \in Clients : ctl[c].pc = "idle" /\ Idle(c)
    /\ Close
    /\ UNCHANGED scheduler

Stop ==
    /\ Closed \/ Crash
    /\ ctl' = Quiet
    /\ control' = None
    /\ wake' = FALSE
    /\ closing' = FALSE
    /\ UNCHANGED schedule

Opens ==
    /\ Open
    /\ ctl' = [ctl EXCEPT ![Loop] = At(IF schedule.enabled THEN "top" ELSE "dead")]
    /\ UNCHANGED <<schedule, control, wake, closing>>

-----------------------------------------------------------------------------

\* What goes on in SourceRuns by itself.
RunsStep ==
    /\ \/ \E r \in Runs : WorkerStep(r) \/ WorkerFault(r) \/ Recover(r)
       \/ \E c \in Callers : CancelStep(c)
       \/ \E c \in Callers : Look(c) \/ SourceIsIdle(c) \/ \E r \in Runs : Create(c, r)
       \/ \E c \in Callers : ~Ticking(c) /\ StartFails(c)
       \/ \E c \in Callers : Ready(c) /\ Request(c)
       \/ Restart
    /\ UNCHANGED scheduler

TickStep(c) ==
    \/ RunDue(c)
    \/ \E s \in Sources : StartSource(c, s)
    \/ SourceRefused(c)
    \/ EndTick(c)
    \/ TickFails(c)

LoopStep == LoopTop \/ LoopLoads \/ LoopChecks \/ LoopEnds \/ LoopWakes

ScheduleNext ==
    \/ RunsStep
    \/ \E c \in Clients : Enable(c) \/ EnsureLoop(c) \/ Disable(c) \/ WakeLoop(c)
    \/ \E c \in Callers : TickStep(c)
    \/ LoopStep
    \/ LoopTimesOut
    \/ LoopFault
    \/ BecomesDue
    \/ CloseScheduler
    \/ CloseRuns
    \/ CloseAborts
    \/ Stop
    \/ Opens

ScheduleSpec == ScheduleInit /\ [][ScheduleNext]_allVars

\* The event loop resumes every task whose await has ended, collectors and the
\* language model answer within their timeouts, and aclose, or the exit that it
\* leaves to the event loop, goes on when it can.
\* Locks are first come first served: who waits for one is served in the end (SF).
\* Nothing promises that requests come or that a process starts again, and the
\* poll interval is left out: stopping may not depend on it.
ScheduleFairness ==
    /\ \A c \in Clients : SF_allVars(EnsureLoop(c)) /\ WF_allVars(WakeLoop(c))
    /\ \A c \in Callers : SF_allVars(TickStep(c))
    /\ \A c \in Callers : WF_allVars(StartStep(c) /\ UNCHANGED scheduler)
    /\ \A c \in Callers : WF_allVars(CancelStep(c) /\ UNCHANGED scheduler)
    /\ \A r \in Runs : WF_allVars(WorkerStep(r) /\ UNCHANGED scheduler)
    /\ \A r \in Runs : WF_allVars(Recover(r) /\ UNCHANGED scheduler)
    /\ WF_allVars(Opens)
    /\ WF_allVars(LoopStep)
    /\ SF_allVars(CloseRuns)
    /\ SF_allVars(CloseAborts)
    /\ WF_allVars(Closed /\ Stop)

FairScheduleSpec == ScheduleSpec /\ ScheduleFairness

-----------------------------------------------------------------------------
(* Properties *)

(* A scheduled run starts only while the switch is on: stopping waits for a
   tick in progress, and once it has answered nothing starts any more
   (disable, run_due under _control_lock).                                    *)
ScheduledOnlyWhileEnabled ==
    [][\A r \in Runs :
          run[r].status = "ABSENT" /\ run'[r].status # "ABSENT" /\ run'[r].by = "schedule" =>
              schedule.enabled]_allVars

(* Switched off, the loop ends without waiting for the poll interval, unless it
   is switched on again.                                                      *)
LoopStops ==
    ~schedule.enabled ~> (schedule.enabled \/ LoopDone)

(* Closing the scheduler ends with the process, whatever the loop, a tick or a
   request is doing: through the close of the runs, or, when the loop failed
   before, through an exit that takes their tasks along (AppContainer.aclose). *)
ContainerCloses == closing ~> ~closing

(* The switch is the operator's intent, and while it is on the backend polls
   (docs/architecture/frontend-api-mapping.md:73): with no request in progress
   an enabled schedule has a loop.                                            *)
EnabledIsPolled ==
    service = "up" /\ ~closing /\ schedule.enabled /\ (\A c \in Clients : ctl[c].pc = "idle") =>
        ~LoopDone

=============================================================================
