------------------------- MODULE SourceScheduleProofs -------------------------
(***************************************************************************)
(* What SourceSchedule guarantees: the scheduler adds no behaviour to the  *)
(* runs, so that all they promise holds under it, and it starts runs only  *)
(* while it is switched on, although a tick asks for its runs one by one   *)
(* and its loop reads the switch without the lock.                         *)
(***************************************************************************)
EXTENDS SourceSchedule, SourceRunsProofs

Places ==
    {"idle", "due", "ticking", "ensuring", "stopping",
     "dead", "failed", "top", "load", "check", "waiting", "ending"}
Place == [pc : Places, todo : SUBSET Sources]
Switch == [enabled : BOOLEAN, due : BOOLEAN]

ScheduleTypes == schedule \in Switch /\ ctl \in [Callers -> Place]

\* A start that a schedule asked for, and that has not been answered yet.
Starting(c) == call[c].pc \in {"checking", "creating"} /\ call[c].by = "schedule"

\* A tick, and a stop, hold the control lock; a tick ends before the switch can
\* be turned off, and its starts end before it does.
TickOK(c) ==
    /\ ctl[c].pc \in {"ticking", "stopping"} => control = c
    /\ ctl[c].pc = "ticking" => schedule.enabled
    /\ Starting(c) => ctl[c].pc = "ticking"

SInv ==
    /\ ScheduleTypes
    /\ schedule.due => schedule.enabled
    /\ \A c \in Callers : TickOK(c)

-----------------------------------------------------------------------------
(* The runs under the scheduler *)

\* A step of the scheduler is a step of the runs, or leaves them alone.
LEMMA StepsAreRunSteps == ScheduleNext => [Next]_vars
<1>1. RunsStep => Next
  BY DEF RunsStep, Next, StartStep, RecoveryStep
<1>2. ASSUME NEW c \in Clients, Enable(c) \/ EnsureLoop(c) \/ Disable(c) \/ WakeLoop(c)
      PROVE  UNCHANGED vars
  BY <1>2 DEF Enable, EnsureLoop, Disable, WakeLoop
<1>3. ASSUME NEW c \in Callers, TickStep(c) PROVE [Next]_vars
  <2>1. CASE RunDue(c) \/ EndTick(c)
    BY <2>1 DEF RunDue, EndTick
  <2>2. CASE \E s \in Sources : StartSource(c, s)
    BY <2>2 DEF StartSource, Next
  <2>3. CASE SourceRefused(c) \/ TickFails(c)
    BY <2>3 DEF SourceRefused, TickFails, Next, StartStep
  <2>4. QED
    BY <1>3, <2>1, <2>2, <2>3 DEF TickStep
<1>4. LoopStep \/ LoopTimesOut \/ LoopFault \/ BecomesDue \/ CloseScheduler => UNCHANGED vars
  BY DEF LoopStep, LoopTop, LoopLoads, LoopChecks, LoopEnds, LoopWakes, LoopTimesOut, LoopFault,
     BecomesDue, CloseScheduler
<1>5. CloseRuns \/ CloseAborts \/ Stop \/ Opens => Next
  BY DEF CloseRuns, CloseAborts, Stop, Opens, Next, RecoveryStep
<1>6. QED
  BY <1>1, <1>2, <1>3, <1>4, <1>5 DEF ScheduleNext

(* The scheduler implements the runs: it only asks for what any request may
   ask for, so every theorem about SourceRuns holds under it.                 *)
THEOREM ScheduleRunsAsRuns == ScheduleSpec => Spec
<1>1. ScheduleInit => Init
  BY DEF ScheduleInit
<1>2. [ScheduleNext]_allVars => [Next]_vars
  BY StepsAreRunSteps DEF allVars
<1>3. QED
  BY <1>1, <1>2, PTL DEF ScheduleSpec, Spec

(* With the scheduler at work, too, no item is ingested twice, reports are
   true, outcomes are final and a row gives the true reason of its end.       *)
THEOREM RunsKeepTheirPromises ==
    ScheduleSpec => /\ []IngestedOnce /\ []ReportIsTrue
                    /\ OutcomeIsFinal /\ ReasonIsTrue /\ ScheduledNeverOverlaps
BY ScheduleRunsAsRuns, ItemsIngestedOnce, ReportsAreTrue, OutcomesAreFinal, ReasonsAreTrue,
   SchedulesNeverOverlap

-----------------------------------------------------------------------------
(* The switch *)

\* The places of the loop and of the requests, and where they rest.
LEMMA PlaceFacts ==
    /\ \A p \in Places : At(p) \in Place /\ At(p).pc = p
    /\ \A c \in Callers : Quiet[c] \in Place /\ Quiet[c].pc \in {"dead", "idle"}
BY DEF At, Quiet, Place, Places

\* Nothing has begun.
LEMMA ScheduleInitially == ScheduleInit => SInv
<1> SUFFICES ASSUME ScheduleInit PROVE SInv
  OBVIOUS
<1>1. schedule \in Switch /\ (schedule.due => schedule.enabled)
  BY DEF ScheduleInit, Switch
<1>2. ctl = Quiet /\ Quiet \in [Callers -> Place]
  BY PlaceFacts DEF ScheduleInit, Quiet
<1>3. \A c \in Callers : ~Starting(c)
  BY DEF ScheduleInit, Init, IdleCall, Starting
<1>4. QED
  BY <1>1, <1>2, <1>3, PlaceFacts DEF SInv, ScheduleTypes, TickOK

\* A caller moves to a place that is not a new tick or stop; when it leaves a
\* tick it has no start under way.
Move(c, p) ==
    /\ ctl' = [ctl EXCEPT ![c] = p] /\ schedule' = schedule
    /\ p.pc \in {"ticking", "stopping"} => p.pc = ctl[c].pc
    /\ \/ control' = control
       \/ control' = None /\ control = c /\ p.pc \notin {"ticking", "stopping"}
    /\ \/ call' = call /\ (Starting(c) => p.pc = "ticking")
       \/ call' = [call EXCEPT ![c] = IdleCall]

\* Such a move keeps the invariant.
LEMMA MoveKeeps ==
    ASSUME IInv, SInv, NEW c \in Callers, NEW p \in Place, Move(c, p)
    PROVE  SInv'
<1>1. ctl' \in [Callers -> Place] /\ ctl \in [Callers -> Place]
  BY DEF SInv, ScheduleTypes, Move
<1>2. \A d \in Callers : Starting(d)' => Starting(d) /\ (d = c => p.pc = "ticking")
  BY DEF Starting, IdleCall, Move, IInv, TypeOK
<1>3. ASSUME NEW d \in Callers PROVE TickOK(d)'
  <2>1. CASE d = c
    BY <1>1, <1>2, <2>1 DEF SInv, TickOK, Move
  <2>2. CASE d # c
    <3>1. ctl'[d] = ctl[d] /\ (Starting(d)' => Starting(d)) /\ TickOK(d)
      BY <1>1, <1>2, <2>2 DEF SInv, Move
    <3>2. ctl[d].pc \in {"ticking", "stopping"} => control' = d
      BY <2>2, <3>1 DEF TickOK, Move
    <3>3. QED
      BY <3>1, <3>2 DEF TickOK, Move
  <2>3. QED
    BY <2>1, <2>2
<1>4. QED
  BY <1>1, <1>3 DEF SInv, ScheduleTypes, Move

\* Requests come and go without the scheduler: none of them is a scheduled start.
LEMMA CallsKeep ==
    ASSUME SInv, UNCHANGED scheduler,
           \A d \in Callers : Starting(d)' => Starting(d)
    PROVE  SInv'
<1>1. schedule' = schedule /\ ctl' = ctl /\ control' = control
  BY DEF scheduler
<1>2. \A d \in Callers : TickOK(d)'
  BY <1>1 DEF SInv, TickOK
<1>3. QED
  BY <1>1, <1>2 DEF SInv, ScheduleTypes

\* No start of a schedule appears but by StartIfIdle.
LEMMA NoNewStart ==
    ASSUME IInv, RunsStep \/ Close \/ Open, NEW d \in Callers, Starting(d)'
    PROVE  Starting(d)
<1>1. call \in [Callers -> Call] /\ IdleCall.pc = "idle" /\ IdleCall.by = "operator"
  BY DEF IInv, TypeOK, IdleCall
<1>2. ASSUME call' = call PROVE Starting(d)
  BY <1>2 DEF Starting
<1>3. ASSUME NEW r \in Runs, WorkerStep(r) \/ WorkerFault(r) \/ Recover(r) PROVE call' = call
  BY <1>3 DEF WorkerStep, WorkerFault, Recover, Load, Begin, Collected, NothingCollected,
     TakeItem, Filter, StoryCreated, Duplicate, StoryTranslated, IngestFails, Finish, Return,
     Escapes, MarkCancelled, MarkFailed
<1>4. ASSUME NEW c \in Callers, call' = [call EXCEPT ![c] = IdleCall] PROVE Starting(d)
  BY <1>1, <1>4 DEF Starting
<1>5. ASSUME NEW c \in Callers, CancelStep(c) PROVE Starting(d)
  <2>1. CASE CancelReads(c)
    <3>1. d # c => call'[d] = call[d]
      BY <1>1, <2>1 DEF CancelReads
    <3>2. call'[c].pc \in {"marking", "idle"}
      BY <1>1, <2>1 DEF CancelReads, Call
    <3>3. QED
      BY <3>1, <3>2 DEF Starting
  <2>2. CASE CancelMarks(c) \/ CancelFails(c)
    BY <1>4, <2>2 DEF CancelMarks, CancelFails
  <2>3. QED
    BY <1>5, <2>1, <2>2 DEF CancelStep
<1>6. ASSUME NEW c \in Callers,
             Look(c) \/ SourceIsIdle(c) \/ StartFails(c) \/ \E r \in Runs : Create(c, r)
      PROVE  Starting(d)
  <2>1. CASE Look(c)
    <3>1. call' = [call EXCEPT ![c].look = NextLook[call[c].look]]
      BY <2>1 DEF Look
    <3>2. QED
      BY <1>1, <3>1 DEF Starting, Call
  <2>2. CASE SourceIsIdle(c)
    <3>1. call' = [call EXCEPT ![c].pc = "creating"] /\ call[c].pc = "checking"
      BY <2>2 DEF SourceIsIdle
    <3>2. QED
      BY <1>1, <3>1 DEF Starting, Call
  <2>3. CASE StartFails(c) \/ \E r \in Runs : Create(c, r)
    BY <1>4, <2>3 DEF StartFails, Create
  <2>4. QED
    BY <1>6, <2>1, <2>2, <2>3
<1>7. ASSUME NEW c \in Callers, Request(c) PROVE Starting(d)
  <2>1. ASSUME NEW s \in Sources, Start(c, s) PROVE Starting(d)
    <3>1. d # c => call'[d] = call[d]
      BY <1>1, <2>1 DEF Start
    <3>2. call'[c].by = "operator"
      BY <1>1, <2>1 DEF Start, IdleCall
    <3>3. QED
      BY <3>1, <3>2 DEF Starting
  <2>2. ASSUME NEW r \in Runs, RequestCancel(c, r) PROVE Starting(d)
    <3>1. d # c => call'[d] = call[d]
      BY <1>1, <2>2 DEF RequestCancel
    <3>2. call'[c].by = "operator"
      BY <1>1, <2>2 DEF RequestCancel, IdleCall
    <3>3. QED
      BY <3>1, <3>2 DEF Starting
  <2>3. QED
    BY <1>7, <2>1, <2>2 DEF Request
<1>8. CASE Restart \/ Close \/ Open
  BY <1>2, <1>8 DEF Restart, Close, Open
<1>9. QED
  BY <1>2, <1>3, <1>5, <1>6, <1>7, <1>8 DEF RunsStep

\* The operator's requests: turning off waits for the tick in progress.
LEMMA OperatorKeeps ==
    ASSUME IInv, SInv, NEW c \in Clients,
           Enable(c) \/ EnsureLoop(c) \/ Disable(c) \/ WakeLoop(c)
    PROVE  SInv'
<1>1. /\ c \in Callers /\ c # Loop /\ Loop \in Callers /\ None \notin Callers
      /\ ctl \in [Callers -> Place] /\ schedule \in Switch /\ call \in [Callers -> Call]
  BY LoopAssumption, NoneAssumption DEF Clients, SInv, ScheduleTypes, IInv, TypeOK
<1>2. call' = call
  BY DEF Enable, EnsureLoop, Disable, WakeLoop, vars
<1>3. \A d \in Callers : Starting(d)' <=> Starting(d)
  BY <1>2 DEF Starting
<1>4. CASE Enable(c)
  <2>1. /\ control = None /\ control' = control
        /\ schedule' \in Switch /\ schedule'.enabled /\ ctl[c].pc = "idle"
        /\ ctl' = [ctl EXCEPT ![c] = At("due")]
    <3>1. schedule' = IF schedule.enabled THEN schedule ELSE [enabled |-> TRUE, due |-> TRUE]
      BY <1>4 DEF Enable
    <3>2. schedule' \in Switch /\ schedule'.enabled
      BY <1>1, <3>1 DEF Switch
    <3>3. QED
      BY <1>4, <3>2 DEF Enable, Ready
  <2>2. At("due") \in Place /\ At("due").pc = "due"
    BY PlaceFacts DEF Places
  <2>3. ctl' \in [Callers -> Place]
    BY <1>1, <2>1, <2>2
  <2>4. ASSUME NEW d \in Callers PROVE TickOK(d)'
    <3>1. ctl'[d].pc \in {"ticking", "stopping"} => ctl'[d] = ctl[d]
      BY <1>1, <2>1, <2>2
    <3>2. Starting(d)' => ctl'[d].pc = "ticking"
      BY <1>1, <1>3, <2>1 DEF SInv, TickOK
    <3>3. QED
      BY <2>1, <3>1, <3>2 DEF SInv, TickOK
  <2>5. QED
    BY <2>1, <2>3, <2>4 DEF SInv, ScheduleTypes
<1>5. CASE EnsureLoop(c)
  <2>1. /\ control' = control /\ schedule' = schedule
        /\ ctl[c].pc = "ensuring"
        /\ DOMAIN ctl' = Callers
        /\ ctl'[c] = At("idle")
        /\ ctl'[Loop] = ctl[Loop] \/ (LoopDone /\ ctl'[Loop] = At("top"))
        /\ \A d \in Callers \ {c, Loop} : ctl'[d] = ctl[d]
    <3>1. ctl' = [ctl EXCEPT ![c] = At("idle"),
                             ![Loop] = IF LoopDone /\ ~closing THEN At("top")
                                       ELSE ctl[Loop]]
      BY <1>1, <1>5 DEF EnsureLoop
    <3>2. DOMAIN ctl' = Callers
          /\ ctl'[c] = At("idle")
          /\ \A d \in Callers \ {c, Loop} : ctl'[d] = ctl[d]
      BY <1>1, <3>1
    <3>3. ctl'[Loop] = IF LoopDone /\ ~closing THEN At("top") ELSE ctl[Loop]
      BY <1>1, <3>1
    <3>4. QED
      BY <1>5, <3>2, <3>3 DEF EnsureLoop
  <2>2. /\ At("idle") \in Place /\ At("idle").pc = "idle"
        /\ At("top") \in Place /\ At("top").pc = "top"
    BY PlaceFacts DEF Places
  <2>3. /\ ctl'[Loop] \in Place
        /\ ctl'[Loop] = ctl[Loop] \/ (LoopDone /\ ctl'[Loop].pc = "top")
    BY <1>1, <2>1, <2>2
  <2>4. ctl' \in [Callers -> Place]
    <3>1. \A d \in Callers : ctl'[d] \in Place
      BY <1>1, <2>1, <2>2, <2>3
    <3>2. ctl' = [d \in Callers |-> ctl'[d]]
      BY <1>5 DEF EnsureLoop, SInv, ScheduleTypes
    <3>3. QED
      BY <3>1, <3>2
  <2>5. ASSUME NEW d \in Callers PROVE TickOK(d)'
    <3>1. \/ ctl'[d] = ctl[d]
          \/ ctl'[d].pc \notin {"ticking", "stopping"} /\ ctl[d].pc # "ticking"
      BY <1>1, <2>1, <2>2, <2>3 DEF LoopDone
    <3>2. QED
      BY <1>3, <2>1, <3>1 DEF SInv, TickOK
  <2>6. QED
    BY <2>1, <2>4, <2>5 DEF SInv, ScheduleTypes
<1>6. CASE Disable(c)
  <2>1. /\ control = None /\ control' = c /\ ctl[c].pc = "idle"
        /\ schedule' = [enabled |-> FALSE, due |-> FALSE]
        /\ ctl' = [ctl EXCEPT ![c] = At("stopping")]
    BY <1>6 DEF Disable, Ready
  <2>2. At("stopping") \in Place /\ At("stopping").pc = "stopping"
    BY PlaceFacts DEF Places
  <2>3. ctl' \in [Callers -> Place] /\ schedule' \in Switch
    BY <1>1, <2>1, <2>2 DEF Switch
  <2>4. ASSUME NEW d \in Callers PROVE TickOK(d)'
    <3>1. ctl[d].pc \notin {"ticking", "stopping"} /\ ~Starting(d)
      BY <1>1, <2>1 DEF SInv, TickOK
    <3>2. d = c => ctl'[d].pc = "stopping"
      BY <1>1, <2>1, <2>2
    <3>3. d # c => ctl'[d] = ctl[d]
      BY <1>1, <2>1
    <3>4. QED
      BY <1>3, <2>1, <3>1, <3>2, <3>3 DEF TickOK
  <2>5. QED
    BY <2>1, <2>3, <2>4 DEF SInv, ScheduleTypes
<1>7. CASE WakeLoop(c)
  <2>1. /\ ctl[c].pc = "stopping" /\ control = c /\ control' = None /\ schedule' = schedule
        /\ ctl' = [ctl EXCEPT ![c] = At("idle")]
    BY <1>1, <1>7 DEF WakeLoop, SInv, TickOK
  <2>2. At("idle") \in Place /\ At("idle").pc = "idle"
    BY PlaceFacts DEF Places
  <2>3. ~Starting(c)
    BY <1>1, <2>1 DEF SInv, TickOK
  <2> DEFINE p == At("idle")
  <2>4. p \in Place /\ p.pc = "idle" /\ ctl' = [ctl EXCEPT ![c] = p]
    BY <2>1, <2>2
  <2> HIDE DEF p
  <2>5. Move(c, p)
    BY <1>2, <2>1, <2>3, <2>4 DEF Move
  <2>6. QED
    BY <1>1, <2>4, <2>5, MoveKeeps
<1>8. QED
  BY <1>4, <1>5, <1>6, <1>7

-----------------------------------------------------------------------------
(* The tick and the loop *)

\* Where a caller goes from a tick or a stop is a place outside both.
LEMMA AfterFacts ==
    ASSUME NEW c \in Callers
    PROVE  After(c) \in Place /\ After(c).pc \in {"check", "ensuring"}
BY PlaceFacts DEF After, Places

\* The tick takes the lock and holds it until it is through with its starts.
LEMMA TickKeeps ==
    ASSUME IInv, SInv, NEW c \in Callers, TickStep(c)
    PROVE  SInv'
<1>1. /\ None \notin Callers /\ ctl \in [Callers -> Place] /\ schedule \in Switch
      /\ call \in [Callers -> Call] /\ ctl[c] \in Place /\ TickOK(c)
  BY NoneAssumption DEF SInv, ScheduleTypes, IInv, TypeOK
<1>2. CASE RunDue(c) /\ schedule.due
  <2> DEFINE p == [pc |-> "ticking", todo |-> Sources]
             new == [schedule EXCEPT !.due = FALSE]
  <2>1. p \in Place /\ p.pc = "ticking"
    BY DEF Place, Places
  <2>2. new \in Switch /\ new.enabled /\ ~new.due
    BY <1>1, <1>2 DEF Switch, SInv
  <2>3. /\ control = None /\ control' = c /\ schedule' = new /\ call' = call
        /\ ctl' = [ctl EXCEPT ![c] = p]
    BY <1>2 DEF RunDue, vars
  <2> HIDE DEF p, new
  <2>4. ctl' \in [Callers -> Place]
    BY <1>1, <2>1, <2>3
  <2>5. ASSUME NEW d \in Callers PROVE TickOK(d)'
    <3>1. ctl[d].pc \notin {"ticking", "stopping"} /\ ~Starting(d)
      BY <1>1, <2>3 DEF SInv, TickOK
    <3>2. ~Starting(d)'
      BY <2>3, <3>1 DEF Starting
    <3>3. d = c => ctl'[d].pc = "ticking"
      BY <1>1, <2>1, <2>3
    <3>4. d # c => ctl'[d] = ctl[d]
      BY <1>1, <2>3
    <3>5. QED
      BY <2>2, <2>3, <3>1, <3>2, <3>3, <3>4 DEF TickOK
  <2>6. QED
    BY <2>2, <2>3, <2>4, <2>5 DEF SInv, ScheduleTypes
<1>3. CASE (RunDue(c) /\ ~schedule.due) \/ EndTick(c)
  <2> DEFINE p == After(c)
  <2>1. p \in Place /\ p.pc \notin {"ticking", "stopping"}
    BY AfterFacts
  <2>2. /\ schedule' = schedule /\ call' = call /\ ctl' = [ctl EXCEPT ![c] = p]
    BY <1>3 DEF RunDue, EndTick, vars
  <2>3. ~Starting(c)
    BY <1>1, <1>3 DEF RunDue, EndTick, TickOK, Starting, Idle
  <2>4. control' = control \/ (control' = None /\ control = c)
    <3>1. CASE RunDue(c) /\ ~schedule.due
      BY <1>1, <3>1 DEF RunDue, Switch
    <3>2. CASE EndTick(c)
      BY <1>1, <3>2 DEF EndTick, TickOK, Ticking
    <3>3. QED
      BY <1>3, <3>1, <3>2
  <2> HIDE DEF p
  <2>5. Move(c, p)
    BY <2>1, <2>2, <2>3, <2>4 DEF Move
  <2>6. QED
    BY <2>1, <2>5, MoveKeeps
<1>4. ASSUME NEW s \in Sources, StartSource(c, s) PROVE SInv'
  <2> DEFINE p == [ctl[c] EXCEPT !.todo = ctl[c].todo \ {s}]
  <2>1. p \in Place /\ p.pc = ctl[c].pc
    BY <1>1 DEF Place
  <2>2. /\ schedule' = schedule /\ control' = control /\ ctl' = [ctl EXCEPT ![c] = p]
        /\ ctl[c].pc = "ticking"
    BY <1>1, <1>4 DEF StartSource, Ticking
  <2> HIDE DEF p
  <2>3. ctl' \in [Callers -> Place] /\ \A d \in Callers : ctl'[d].pc = ctl[d].pc
    BY <1>1, <2>1, <2>2
  <2>4. \A d \in Callers : Starting(d)' => Starting(d) \/ d = c
    BY <1>1, <1>4 DEF StartSource, StartIfIdle, Starting
  <2>5. ASSUME NEW d \in Callers PROVE TickOK(d)'
    BY <2>2, <2>3, <2>4 DEF SInv, TickOK
  <2>6. QED
    BY <2>2, <2>3, <2>5 DEF SInv, ScheduleTypes
<1>5. CASE SourceRefused(c)
  <2> DEFINE todo == IF Found(c) THEN ctl[c].todo ELSE {}
             p == [ctl[c] EXCEPT !.todo = todo]
  <2>1. todo \in SUBSET Sources
    BY <1>1 DEF Place
  <2>2. /\ schedule' = schedule /\ control' = control /\ ctl' = [ctl EXCEPT ![c] = p]
        /\ ctl[c].pc = "ticking" /\ call' = [call EXCEPT ![c] = IdleCall]
    BY <1>1, <1>5 DEF SourceRefused, StartRefused, Ticking
  <2> HIDE DEF todo
  <2>3. p \in Place /\ p.pc = ctl[c].pc
    BY <1>1, <2>1 DEF Place
  <2> HIDE DEF p
  <2>4. Move(c, p)
    BY <2>2, <2>3 DEF Move
  <2>5. QED
    BY <2>3, <2>4, MoveKeeps
<1>6. CASE TickFails(c)
  <2> DEFINE p == After(c)
  <2>1. p \in Place /\ p.pc \notin {"ticking", "stopping"}
    BY AfterFacts
  <2>2. /\ schedule' = schedule /\ call' = [call EXCEPT ![c] = IdleCall]
        /\ ctl' = [ctl EXCEPT ![c] = p] /\ control' = None /\ control = c
    BY <1>1, <1>6 DEF TickFails, StartFails, TickOK, Ticking
  <2> HIDE DEF p
  <2>3. Move(c, p)
    BY <2>1, <2>2 DEF Move
  <2>4. QED
    BY <2>1, <2>3, MoveKeeps
<1>7. QED
  BY <1>2, <1>3, <1>4, <1>5, <1>6 DEF TickStep

\* The loop moves about without the lock, but never inside a tick.
LEMMA LoopKeeps ==
    ASSUME IInv, SInv, LoopStep \/ LoopTimesOut \/ LoopFault
    PROVE  SInv'
<1>1. Loop \in Callers /\ call \in [Callers -> Call] /\ TickOK(Loop)
  BY LoopAssumption DEF IInv, TypeOK, SInv
<1>2. /\ schedule' = schedule /\ control' = control /\ call' = call
      /\ ctl[Loop].pc \in {"top", "load", "check", "ending", "waiting"}
  BY DEF LoopStep, LoopTop, LoopLoads, LoopChecks, LoopEnds, LoopWakes, LoopTimesOut,
     LoopFault, vars
<1>3. PICK pc \in {"dead", "failed", "load", "due", "ending", "waiting", "top"} :
          ctl' = [ctl EXCEPT ![Loop] = At(pc)]
  BY DEF LoopStep, LoopTop, LoopLoads, LoopChecks, LoopEnds, LoopWakes, LoopTimesOut,
     LoopFault, Go
<1> DEFINE p == At(pc)
<1>4. p \in Place /\ p.pc \notin {"ticking", "stopping"}
  BY PlaceFacts DEF Places
<1>5. ctl' = [ctl EXCEPT ![Loop] = p] /\ ~Starting(Loop)
  BY <1>1, <1>2, <1>3 DEF TickOK
<1> HIDE DEF p
<1>6. Move(Loop, p)
  BY <1>2, <1>4, <1>5 DEF Move
<1>7. QED
  BY <1>1, <1>4, <1>6, MoveKeeps

\* The process ends or opens: no caller is starting a run.
LEMMA ContainerKeeps ==
    ASSUME IInv, SInv, Stop \/ Opens
    PROVE  SInv'
<1>1. /\ ctl \in [Callers -> Place] /\ schedule \in Switch /\ Loop \in Callers
      /\ call \in [Callers -> Call]
  BY LoopAssumption DEF SInv, ScheduleTypes, IInv, TypeOK
<1>2. CASE Stop
  <2>1. ctl' = Quiet /\ schedule' = schedule /\ call' = [d \in Callers |-> IdleCall]
    BY <1>2 DEF Stop, Closed, Crash, Exit
  <2>2. ctl' \in [Callers -> Place] /\ \A d \in Callers : ctl'[d].pc \in {"dead", "idle"}
    BY <2>1, PlaceFacts DEF Quiet
  <2>3. \A d \in Callers : ~Starting(d)'
    BY <2>1 DEF Starting, IdleCall
  <2>4. QED
    BY <2>1, <2>2, <2>3 DEF SInv, ScheduleTypes, TickOK
<1>3. CASE Opens
  <2> DEFINE p == At(IF schedule.enabled THEN "top" ELSE "dead")
  <2>1. p \in Place /\ p.pc \in {"top", "dead"}
    BY PlaceFacts DEF Places
  <2>2. /\ schedule' = schedule /\ control' = control /\ call' = call
        /\ ctl' = [ctl EXCEPT ![Loop] = p]
    BY <1>3 DEF Opens, Open
  <2>3. ~Starting(Loop)
    BY <1>1, <1>3 DEF Opens, Open, IInv, Offline, Starting, IdleCall
  <2> HIDE DEF p
  <2>4. Move(Loop, p)
    BY <2>1, <2>2, <2>3 DEF Move
  <2>5. QED
    BY <1>1, <2>1, <2>4, MoveKeeps
<1>4. QED
  BY <1>2, <1>3

\* The scheduler's invariant after any step.
LEMMA ScheduleKeeps ==
    ASSUME IInv, SInv, ScheduleNext
    PROVE  SInv'
<1>1. CASE RunsStep
  <2>1. UNCHANGED scheduler
    BY <1>1 DEF RunsStep
  <2>2. \A d \in Callers : Starting(d)' => Starting(d)
    BY <1>1, NoNewStart
  <2>3. QED
    BY <2>1, <2>2, CallsKeep
<1>2. CASE CloseRuns \/ CloseAborts
  <2>1. UNCHANGED scheduler /\ Close
    BY <1>2 DEF CloseRuns, CloseAborts
  <2>2. \A d \in Callers : Starting(d)' => Starting(d)
    BY <2>1, NoNewStart
  <2>3. QED
    BY <2>1, <2>2, CallsKeep
<1>3. CASE BecomesDue \/ CloseScheduler
  <2> DEFINE new == [schedule EXCEPT !.due = TRUE]
  <2>1. ctl' = ctl /\ control' = control /\ call' = call
    BY <1>3 DEF BecomesDue, CloseScheduler, vars
  <2>2. schedule' = schedule \/ (schedule' = new /\ schedule.enabled)
    <3>1. CASE BecomesDue
      BY <3>1 DEF BecomesDue
    <3>2. CASE CloseScheduler
      BY <3>2 DEF CloseScheduler
    <3>3. QED
      BY <1>3, <3>1, <3>2
  <2>3. schedule' \in Switch /\ schedule'.enabled = schedule.enabled
        /\ (schedule'.due => schedule'.enabled)
    BY <2>2 DEF SInv, ScheduleTypes, Switch
  <2>4. \A d \in Callers : TickOK(d)'
    BY <2>1, <2>3 DEF SInv, TickOK, Starting
  <2>5. QED
    BY <2>1, <2>3, <2>4 DEF SInv, ScheduleTypes
<1>4. QED
  BY <1>1, <1>2, <1>3, OperatorKeeps, TickKeeps, LoopKeeps, ContainerKeeps DEF ScheduleNext

\* The invariant holds, on top of that of the runs.
LEMMA ScheduleInvariance == ScheduleSpec => [](IInv /\ SInv)
<1>1. ScheduleSpec => []IInv
  BY ScheduleRunsAsRuns, Invariance, PTL
<1>2. IInv /\ SInv /\ [ScheduleNext]_allVars => SInv'
  <2>1. ASSUME SInv, UNCHANGED allVars PROVE SInv'
    <3>1. schedule' = schedule /\ ctl' = ctl /\ control' = control /\ call' = call
      BY <2>1 DEF allVars, scheduler, vars
    <3>2. QED
      BY <2>1, <3>1 DEF SInv, ScheduleTypes, TickOK, Starting
  <2>2. QED
    BY <2>1, ScheduleKeeps
<1>3. QED
  BY <1>1, <1>2, ScheduleInitially, PTL DEF ScheduleSpec

(* Once an operator has turned collection off, no run starts on a schedule any
   more, although a tick may have been asking for one.                        *)
THEOREM SchedulesStartWhileEnabled == ScheduleSpec => ScheduledOnlyWhileEnabled
<1>1. ASSUME IInv, SInv, [ScheduleNext]_allVars, NEW r \in Runs,
             run[r].status = "ABSENT", run'[r].status # "ABSENT", run'[r].by = "schedule"
      PROVE  schedule.enabled
  <2>1. Next
    BY <1>1, StepsAreRunSteps DEF allVars, vars
  <2>2. PICK c \in Callers : Create(c, r)
    BY <1>1, <2>1, RowSteps DEF RowStep, Progress, Active
  <2>3. run'[r] = Queued(call[c].source, call[c].by) /\ call[c].pc = "creating"
    BY <1>1, <2>2 DEF Create, IInv, TypeOK
  <2>4. Starting(c)
    BY <1>1, <2>3 DEF Starting, Queued
  <2>5. QED
    BY <1>1, <2>4 DEF SInv, TickOK
<1>2. IInv /\ SInv /\ [ScheduleNext]_allVars =>
          [\A r \in Runs :
              run[r].status = "ABSENT" /\ run'[r].status # "ABSENT"
                  /\ run'[r].by = "schedule" => schedule.enabled]_allVars
  BY <1>1
<1>3. QED
  BY <1>2, ScheduleInvariance, PTL DEF ScheduleSpec, ScheduledOnlyWhileEnabled

=============================================================================
