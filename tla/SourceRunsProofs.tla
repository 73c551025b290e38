-------------------------- MODULE SourceRunsProofs --------------------------
(***************************************************************************)
(* What SourceRuns guarantees for any number of runs, items, sources and   *)
(* requests, with a database that may fail. Everything rests on who may    *)
(* write a row: its task while there is one, which then holds the present  *)
(* row, and after that the requests that cancel it.                        *)
(***************************************************************************)
EXTENDS SourceRuns, TLAPS

\* What a row says while its worker is at an await.
StatusAt(pc) ==
    CASE pc = "begun" -> {"QUEUED"}
      [] pc = "collecting" -> {"COLLECTING"}
      [] pc = "ending" -> Terminal
      [] OTHER -> {"INGESTING"}

\* The worker of a run holds its present row.
WorkerOK(r) ==
    /\ job[r].pc # "none" => run[r].status # "ABSENT"
    /\ job[r].pc = "created" => run[r].status = "QUEUED"
    /\ job[r].pc \in Working => job[r].held = run[r] /\ run[r].status \in StatusAt(job[r].pc)
    /\ job[r].pc \in {"item", "story"} => run[r].current \in Items

\* A request that is about to write a row has outlived its worker; its copy is
\* the present row, or older than it.
CancelOK(c) ==
    /\ call[c].pc \in {"waiting", "marking"} =>
          call[c].run \in Runs /\ run[call[c].run].status # "ABSENT"
    /\ call[c].pc = "marking" =>
          /\ job[call[c].run].pc = "none"
          /\ call[c].held.status \in Active
          /\ call[c].held.version <= run[call[c].run].version
          /\ call[c].held.version = run[call[c].run].version => call[c].held = run[call[c].run]

\* A task that is being cancelled was asked to by a request that still waits,
\* or by the process closing.
ReasonOK(r) ==
    /\ r \in asked => /\ job[r].pc = "cancelling"
                      /\ \E c \in Callers : call[c].pc = "waiting" /\ call[c].run = r
    /\ job[r].pc = "cancelling" => r \in asked \/ service = "closing"

\* Nothing runs outside the process's life.
Offline ==
    service \in {"recovering", "down"} =>
        /\ lock = None
        /\ \A r \in Runs : job[r] = NoJob
        /\ \A c \in Callers : call[c] = IdleCall

Locked == \A c \in Callers : call[c].pc \in {"checking", "creating"} => lock = c

IInv ==
    /\ TypeOK
    /\ Offline
    /\ Locked
    /\ \A r \in Runs : WorkerOK(r) /\ ReasonOK(r)
    /\ \A c \in Callers : CancelOK(c)

\* A scheduled start that has looked past a status has found no run in it, and
\* none has come to it since.
Passed(look) ==
    CASE look = "QUEUED" -> {}
      [] look = "COLLECTING" -> {"QUEUED"}
      [] look = "INGESTING" -> {"QUEUED", "COLLECTING"}

LookOK(c) ==
    /\ call[c].pc = "checking" =>
          \A r \in Runs : run[r].source = call[c].source =>
                              run[r].status \notin Passed(call[c].look)
    /\ call[c].pc = "creating" /\ call[c].by = "schedule" =>
          \A r \in Runs : run[r].source = call[c].source => run[r].status \notin Active

LookInv == IInv /\ \A c \in Callers : LookOK(c)

\* An item that some run is ingesting or has ingested belongs to that run.
Owns(r, i) ==
    \/ <<i, "INGESTED">> \in run[r].results
    \/ job[r].pc = "story" /\ run[r].current = i

IngestInv ==
    /\ IInv
    /\ \A r \in Runs, i \in Items : Owns(r, i) => i \in known
    /\ \A q, r \in Runs, i \in Items : Owns(q, i) /\ Owns(r, i) => q = r

-----------------------------------------------------------------------------
(* Types of the helpers *)

\* A run that does not exist yet has a well-typed row, and no job or request
\* is one too.
LEMMA NothingTypes == Absent \in Row /\ NoJob \in Job /\ IdleCall \in Call
<1>1. Absent \in Row
  BY DEF Absent, Queued, Row, Active, Terminal, Error
<1>2. QED
  BY <1>1 DEF NoJob, Job, IdleCall, Call, Active

\* A save gives the row its next version and changes nothing else.
LEMMA SavedFacts ==
    ASSUME NEW row \in Row
    PROVE  /\ Saved(row) \in Row
           /\ Saved(row).version = row.version + 1
           /\ Saved(row).status = row.status
           /\ Saved(row).source = row.source
           /\ Saved(row).current = row.current
           /\ Saved(row).results = row.results
           /\ Saved(row).error = row.error
BY DEF Saved, Row

\* Ending a run sets its status and error and clears the current item.
LEMMA EndedFacts ==
    ASSUME NEW row \in Row, NEW status \in Terminal, NEW error \in Error
    PROVE  /\ Ended(row, status, error) \in Row
           /\ Ended(row, status, error).version = row.version
           /\ Ended(row, status, error).status = status
           /\ Ended(row, status, error).source = row.source
           /\ Ended(row, status, error).results = row.results
           /\ Ended(row, status, error).error = error
BY DEF Ended, Row

-----------------------------------------------------------------------------
(* The invariant *)

(* Before the process first starts, nothing runs.                             *)
THEOREM Initially == Init => IInv
<1> SUFFICES ASSUME Init PROVE IInv
  OBVIOUS
<1>1. TypeOK
  BY NothingTypes DEF Init, TypeOK, Phase
<1>2. QED
  BY <1>1 DEF Init, IInv, Offline, Locked, WorkerOK, ReasonOK, CancelOK, NoJob, IdleCall, Working

\* Requests to start a run, up to its creation, touch requests and the lock.
LEMMA StartingKeeps ==
    ASSUME IInv,
           \/ \E c \in Callers, s \in Sources : Start(c, s) \/ StartIfIdle(c, s)
           \/ \E c \in Callers : \/ Look(c) \/ SourceIsIdle(c)
                                 \/ StartRefused(c) \/ StartFails(c)
    PROVE  IInv'
<1>1. PICK c \in Callers :
          /\ call' = [call EXCEPT ![c] = call'[c]]
          /\ call'[c] \in Call
          /\ call'[c].pc \in {"idle", "checking", "creating"}
          /\ call[c].pc \in {"idle", "checking", "creating"}
          /\ call'[c].pc # "idle" => lock' = c
          /\ lock' \in {c, None}
          /\ lock \in {c, None}
          /\ service \in {"up", "closing"} \/ call[c].pc # "idle"
          /\ UNCHANGED <<run, known, job, asked, service>>
  <2>1. ASSUME NEW c \in Callers, NEW s \in Sources, Start(c, s) \/ StartIfIdle(c, s)
        PROVE  /\ call' = [call EXCEPT ![c] = call'[c]]
               /\ call'[c] \in Call
               /\ call'[c].pc \in {"checking", "creating"}
               /\ call[c].pc = "idle"
               /\ lock' = c /\ lock = None
               /\ service \in {"up", "closing"}
               /\ UNCHANGED <<run, known, job, asked, service>>
    <3>1. IdleCall \in Call
      BY NothingTypes
    <3>2. /\ [IdleCall EXCEPT !.pc = "creating", !.source = s] \in Call
          /\ [IdleCall EXCEPT !.pc = "creating", !.source = s].pc = "creating"
      BY <3>1 DEF Call
    <3>3. /\ [IdleCall EXCEPT !.pc = "checking", !.source = s, !.by = "schedule"] \in Call
          /\ [IdleCall EXCEPT !.pc = "checking", !.source = s, !.by = "schedule"].pc = "checking"
      BY <3>1 DEF Call
    <3>4. \/ call' = [call EXCEPT ![c] = [IdleCall EXCEPT !.pc = "creating", !.source = s]]
          \/ call' = [call EXCEPT ![c] =
                        [IdleCall EXCEPT !.pc = "checking", !.source = s, !.by = "schedule"]]
      BY <2>1 DEF Start, StartIfIdle
    <3>5. c \in DOMAIN call
      BY DEF IInv, TypeOK
    <3>6. call' = [call EXCEPT ![c] = call'[c]] /\ call'[c] \in Call
          /\ call'[c].pc \in {"checking", "creating"}
      BY <3>2, <3>3, <3>4, <3>5
    <3>7. QED
      BY <2>1, <3>6 DEF Start, StartIfIdle, Idle, Serving
  <2>2. ASSUME NEW c \in Callers,
               Look(c) \/ SourceIsIdle(c) \/ StartRefused(c) \/ StartFails(c)
        PROVE  /\ call' = [call EXCEPT ![c] = call'[c]]
               /\ call'[c] \in Call
               /\ call'[c].pc \in {"idle", "checking", "creating"}
               /\ call[c].pc \in {"checking", "creating"}
               /\ call'[c].pc # "idle" => lock' = c
               /\ lock' \in {c, None} /\ lock = c
               /\ UNCHANGED <<run, known, job, asked, service>>
    BY <2>2, NothingTypes DEF Look, SourceIsIdle, StartRefused, StartFails, IInv, TypeOK,
       Locked, Call, IdleCall, NextLook, Active
  <2>3. QED
    BY <2>1, <2>2
<1>2. TypeOK'
  BY <1>1 DEF IInv, TypeOK
<1>3. Offline'
  BY <1>1 DEF IInv, Offline, IdleCall, TypeOK
<1>4. Locked'
  BY <1>1, NoneAssumption DEF IInv, Locked, TypeOK
<1>5. ASSUME NEW r \in Runs PROVE WorkerOK(r)'
  BY <1>1 DEF IInv, WorkerOK, StatusAt
<1>6. ASSUME NEW r \in Runs PROVE ReasonOK(r)'
  BY <1>1 DEF IInv, ReasonOK, TypeOK
<1>7. ASSUME NEW d \in Callers PROVE CancelOK(d)'
  BY <1>1 DEF IInv, CancelOK, TypeOK
<1>8. QED
  BY <1>2, <1>3, <1>4, <1>5, <1>6, <1>7 DEF IInv

\* The row is inserted and its task registered.
LEMMA CreateKeeps ==
    ASSUME IInv, NEW c \in Callers, NEW r \in Runs, Create(c, r)
    PROVE  IInv'
<1>1. /\ call[c].pc = "creating" /\ call[c] \in Call
      /\ lock = c
      /\ service \notin {"recovering", "down"}
      /\ job[r].pc = "none"
      /\ r \notin asked
  <2>1. job[r].pc = "none"
    BY DEF Create, IInv, WorkerOK
  <2>2. QED
    BY <2>1 DEF Create, IInv, TypeOK, Locked, Offline, IdleCall, ReasonOK
<1>2. DEFINE new == Queued(call[c].source, call[c].by)
<1>3. new \in Row /\ new.status = "QUEUED" /\ new.version = 1
  BY <1>1 DEF Queued, Row, Call, Active, Terminal, Error
<1>4. [NoJob EXCEPT !.pc = "created"] \in Job /\ [NoJob EXCEPT !.pc = "created"].pc = "created"
  BY NothingTypes DEF Job
<1>5. run' = [run EXCEPT ![r] = new]
  BY DEF Create
<1>6. job' = [job EXCEPT ![r] = [NoJob EXCEPT !.pc = "created"]]
  BY DEF Create
<1> HIDE DEF new
<1>7. TypeOK'
  BY <1>3, <1>4, <1>5, <1>6, NothingTypes DEF Create, IInv, TypeOK
<1>8. Offline' /\ Locked'
  BY <1>1, NothingTypes DEF Create, IInv, Offline, Locked, TypeOK, IdleCall
<1>9. ASSUME NEW q \in Runs PROVE WorkerOK(q)'
  BY <1>3, <1>4, <1>5, <1>6 DEF IInv, TypeOK, WorkerOK, Working, StatusAt
<1>10. ASSUME NEW q \in Runs PROVE ReasonOK(q)'
  <2>1. ASSUME NEW d \in Callers, call[d].pc = "waiting" PROVE call'[d] = call[d]
    BY <1>1, <2>1 DEF Create, IInv, TypeOK
  <2>2. job'[q].pc = "cancelling" => job[q].pc = "cancelling"
    BY <1>4, <1>6 DEF IInv, TypeOK
  <2>3. q \in asked => job'[q] = job[q]
    BY <1>1, <1>6 DEF IInv, TypeOK
  <2>4. asked' = asked /\ service' = service
    BY DEF Create
  <2>5. ReasonOK(q)
    BY DEF IInv
  <2>6. q \in asked =>
          \E d \in Callers : call'[d].pc = "waiting" /\ call'[d].run = q
    BY <2>1, <2>5 DEF ReasonOK
  <2>7. QED
    BY <2>2, <2>3, <2>4, <2>5, <2>6 DEF ReasonOK
<1>11. ASSUME NEW d \in Callers PROVE CancelOK(d)'
  <2>1. d = c \/ call'[d] = call[d]
    BY DEF Create, IInv, TypeOK
  <2>2. CASE d = c
    BY <2>2 DEF Create, IInv, TypeOK, CancelOK, IdleCall
  <2>3. CASE call'[d] = call[d]
    <3>1. call[d].pc \in {"waiting", "marking"} => call[d].run # r
      BY DEF IInv, CancelOK, Create
    <3>2. QED
      BY <1>5, <1>6, <2>3, <3>1 DEF IInv, CancelOK, TypeOK
  <2>4. QED
    BY <2>1, <2>2, <2>3
<1>12. QED
  BY <1>7, <1>8, <1>9, <1>10, <1>11 DEF IInv

\* A worker's save: it holds the present row, so there is no conflict, and no
\* request writes the row at the same time.
LEMMA StoreFacts ==
    ASSUME IInv, NEW r \in Runs, job[r].pc \in Working, NEW row \in Row, NEW pc \in Working,
           row.version = job[r].held.version, Store(r, row, pc)
    PROVE  /\ run' = [run EXCEPT ![r] = Saved(row)]
           /\ job' = [job EXCEPT ![r] = [pc |-> pc, held |-> Saved(row)]]
           /\ service \notin {"recovering", "down"}
           /\ r \notin asked
BY DEF IInv, WorkerOK, ReasonOK, Store, Offline, NoJob, Working

\* Such a save keeps the invariant.
LEMMA StoreKeeps ==
    ASSUME IInv, NEW r \in Runs, job[r].pc \in Working, NEW row \in Row, NEW pc \in Working,
           row.version = job[r].held.version,
           row.status \in StatusAt(pc),
           pc \in {"item", "story"} => row.current \in Items,
           Store(r, row, pc),
           UNCHANGED <<known, call, lock, asked, service>>
    PROVE  IInv'
<1> DEFINE new == Saved(row)
<1>1. /\ run' = [run EXCEPT ![r] = new]
      /\ job' = [job EXCEPT ![r] = [pc |-> pc, held |-> new]]
      /\ service \notin {"recovering", "down"}
      /\ r \notin asked
  BY StoreFacts
<1>2. new \in Row /\ new.status = row.status /\ new.current = row.current
  BY SavedFacts
<1>3. [pc |-> pc, held |-> new] \in Job
  BY <1>2 DEF Job
<1> HIDE DEF new
<1>4. TypeOK'
  BY <1>1, <1>2, <1>3 DEF IInv, TypeOK
<1>5. Offline' /\ Locked'
  BY <1>1 DEF IInv, Offline, Locked
<1>6. ASSUME NEW q \in Runs PROVE WorkerOK(q)'
  <2>1. CASE q = r
    <3>1. job'[q] = [pc |-> pc, held |-> new] /\ run'[q] = new
      BY <1>1, <2>1 DEF IInv, TypeOK
    <3>2. new.status # "ABSENT"
      BY <1>2 DEF StatusAt, Terminal
    <3>3. QED
      BY <1>2, <3>1, <3>2 DEF WorkerOK, Working
  <2>2. CASE q # r
    BY <1>1, <2>2 DEF IInv, TypeOK, WorkerOK
  <2>3. QED
    BY <2>1, <2>2
<1>7. ASSUME NEW q \in Runs PROVE ReasonOK(q)'
  BY <1>1 DEF IInv, TypeOK, ReasonOK, Working
<1>8. ASSUME NEW d \in Callers PROVE CancelOK(d)'
  <2>1. call[d].pc = "marking" => call[d].run # r
    BY DEF IInv, CancelOK, Working
  <2>2. new.status # "ABSENT"
    BY <1>2 DEF StatusAt, Terminal
  <2>3. QED
    BY <1>1, <1>2, <2>1, <2>2 DEF IInv, TypeOK, CancelOK
<1>9. QED
  BY <1>4, <1>5, <1>6, <1>7, <1>8 DEF IInv

\* A task that moves on, or ends, without a write. One that is asked to cancel
\* has nowhere to go but its end.
LEMMA JobKeeps ==
    ASSUME IInv, NEW r \in Runs, NEW j \in Job,
           job[r].pc # "none",
           j.pc # "none" =>
               /\ j.held = run[r] \/ j.pc \in Handling
               /\ j.pc \in Working => run[r].status \in StatusAt(j.pc)
               /\ j.pc \in {"item", "story"} => run[r].current \in Items
           /\ j.pc \notin {"created", "cancelling"},
           j.pc = "none" => j = NoJob,
           job' = [job EXCEPT ![r] = j],
           asked' = IF j.pc = "none" THEN asked \ {r} ELSE asked,
           job[r].pc = "cancelling" => j.pc = "none",
           known' \in SUBSET Items,
           UNCHANGED <<run, call, lock, service>>
    PROVE  IInv'
<1>1. TypeOK'
  BY DEF IInv, TypeOK
<1>2. service \notin {"recovering", "down"}
  BY DEF IInv, Offline, NoJob
<1>3. Offline' /\ Locked'
  BY <1>2 DEF IInv, Offline, Locked
<1>4. ASSUME NEW q \in Runs PROVE WorkerOK(q)'
  BY DEF IInv, TypeOK, WorkerOK, Working, Handling, StatusAt
<1>5. ASSUME NEW q \in Runs PROVE ReasonOK(q)'
  <2>1. ReasonOK(q)
    BY DEF IInv
  <2>2. q \in asked' => q \in asked /\ job'[q] = job[q]
    BY <2>1 DEF IInv, TypeOK, ReasonOK
  <2>3. job'[q].pc = "cancelling" => job[q].pc = "cancelling" /\ (q \in asked => q \in asked')
    BY DEF IInv, TypeOK
  <2>4. QED
    BY <2>1, <2>2, <2>3 DEF ReasonOK
<1>6. ASSUME NEW d \in Callers PROVE CancelOK(d)'
  BY DEF IInv, TypeOK, CancelOK
<1>7. QED
  BY <1>1, <1>3, <1>4, <1>5, <1>6 DEF IInv

\* What is forgotten when one task changes.
LEMMA ForgetFacts ==
    ASSUME IInv, NEW r \in Runs, NEW j \in Job, job' = [job EXCEPT ![r] = j], Forget
    PROVE  asked' = IF j.pc = "none" THEN asked \ {r} ELSE asked
<1>1. \A q \in Runs : q # r => job'[q] = job[q]
  BY DEF IInv, TypeOK
<1>2. job'[r] = j
  BY DEF IInv, TypeOK
<1>3. \A q \in asked : q \in Runs /\ job[q].pc = "cancelling"
  BY DEF IInv, TypeOK, ReasonOK
<1>4. CASE j.pc = "none"
  BY <1>1, <1>2, <1>3, <1>4 DEF Forget
<1>5. CASE j.pc # "none"
  BY <1>1, <1>2, <1>3, <1>5 DEF Forget
<1>6. QED
  BY <1>4, <1>5

\* The end of a run in the handlers of _execute.
LEMMA MarkedKeeps ==
    ASSUME IInv, NEW r \in Runs, job[r].pc \in Handling,
           NEW status \in Terminal, NEW error \in Error,
           Marked(r, status, error),
           UNCHANGED <<known, call, lock, service>>
    PROVE  IInv'
<1> DEFINE new == IF run[r].status \in Terminal THEN run[r]
                  ELSE Saved(Ended(run[r], status, error))
<1>1. run[r] \in Row /\ run[r].status # "ABSENT"
  BY DEF IInv, TypeOK, WorkerOK, Handling
<1>2. new \in Row /\ new.status \in Terminal
  BY <1>1, SavedFacts, EndedFacts
<1>3. run' = [run EXCEPT ![r] = new] /\ job' = [job EXCEPT ![r] = NoJob]
  BY DEF Marked
<1>4. asked' = asked \ {r}
  BY <1>3, ForgetFacts, NothingTypes DEF Marked, NoJob
<1>5. service \notin {"recovering", "down"}
  BY DEF IInv, Offline, NoJob, Handling
<1> HIDE DEF new
<1>6. TypeOK'
  BY <1>2, <1>3, <1>4, NothingTypes DEF IInv, TypeOK
<1>7. Offline' /\ Locked'
  BY <1>5 DEF IInv, Offline, Locked
<1>8. ASSUME NEW q \in Runs PROVE WorkerOK(q)'
  BY <1>2, <1>3 DEF IInv, TypeOK, WorkerOK, Working, NoJob
<1>9. ASSUME NEW q \in Runs PROVE ReasonOK(q)'
  BY <1>3, <1>4 DEF IInv, TypeOK, ReasonOK, NoJob
<1>10. ASSUME NEW d \in Callers PROVE CancelOK(d)'
  <2>1. call[d].pc = "marking" => call[d].run # r
    BY DEF IInv, CancelOK, Handling
  <2>2. QED
    BY <1>2, <1>3, <2>1 DEF IInv, TypeOK, CancelOK, Terminal
<1>11. QED
  BY <1>6, <1>7, <1>8, <1>9, <1>10 DEF IInv

\* Every step of a worker keeps the invariant.
LEMMA WorkerKeeps ==
    ASSUME IInv, NEW r \in Runs, WorkerStep(r) \/ WorkerFault(r)
    PROVE  IInv'
<1> DEFINE held == job[r].held
<1>1. /\ run[r] \in Row /\ job[r] \in Job /\ known \in SUBSET Items
      /\ job[r].pc \in Working => held = run[r] /\ held \in Row
                                 /\ held.status \in StatusAt(job[r].pc)
      /\ job[r].pc \in {"item", "story"} => held.current \in Items
  BY DEF IInv, TypeOK, WorkerOK, Working
<1>2. ASSUME job[r].pc \in {"item", "story"}, NEW outcome \in Outcome, Record(r, outcome),
             UNCHANGED <<known, call, lock, asked, service>>
      PROVE  IInv'
  <2> DEFINE row == [held EXCEPT !.results = @ \cup {<<held.current, outcome>>}]
  <2>1. row \in Row /\ row.version = held.version /\ row.status = "INGESTING"
    BY <1>1, <1>2 DEF Row, Working, StatusAt
  <2>2. Store(r, row, "ingesting")
    BY <1>2 DEF Record
  <2> HIDE DEF row
  <2>3. QED
    BY <1>2, <2>1, <2>2, StoreKeeps DEF Working, StatusAt
<1>3. ASSUME Load(r) PROVE IInv'
  <2>1. run[r].status = "QUEUED"
    BY <1>3 DEF IInv, WorkerOK, Load
  <2>2. [pc |-> "begun", held |-> run[r]] \in Job
    BY <1>1 DEF Job, Working
  <2>3. QED
    BY <1>3, <1>1, <2>1, <2>2, JobKeeps DEF Load, Working, Handling, StatusAt
<1>4. ASSUME Begin(r) PROVE IInv'
  <2> DEFINE row == [held EXCEPT !.status = "COLLECTING"]
  <2>1. row \in Row /\ row.version = held.version /\ row.status = "COLLECTING"
    BY <1>1, <1>4 DEF Begin, Row, Working, Active
  <2>2. Store(r, row, "collecting")
    BY <1>4 DEF Begin
  <2> HIDE DEF row
  <2>3. QED
    BY <1>4, <2>1, <2>2, StoreKeeps DEF Begin, Working, StatusAt
<1>5. ASSUME NEW found \in SUBSET Items, Collected(r, found) PROVE IInv'
  <2> DEFINE row == [held EXCEPT !.status = "INGESTING", !.found = found]
             pc == IF found = {} THEN "empty" ELSE "ingesting"
  <2>1. row \in Row /\ row.version = held.version /\ row.status = "INGESTING"
    BY <1>1, <1>5 DEF Collected, Row, Working, Active
  <2>2. Store(r, row, pc) /\ pc \in {"empty", "ingesting"}
    BY <1>5 DEF Collected
  <2> HIDE DEF row, pc
  <2>3. QED
    BY <1>5, <2>1, <2>2, StoreKeeps DEF Collected, Working, StatusAt
<1>6. ASSUME NothingCollected(r) PROVE IInv'
  <2> DEFINE row == Ended(held, "FAILED", "no_items")
  <2>1. row \in Row /\ row.version = held.version /\ row.status = "FAILED"
    BY <1>1, <1>6, EndedFacts DEF NothingCollected, Working, Terminal, Error
  <2>2. Store(r, row, "ending")
    BY <1>6 DEF NothingCollected
  <2> HIDE DEF row
  <2>3. QED
    BY <1>6, <2>1, <2>2, StoreKeeps DEF NothingCollected, Working, StatusAt, Terminal
<1>7. ASSUME NEW i \in Items, TakeItem(r, i) PROVE IInv'
  <2> DEFINE row == [held EXCEPT !.current = i]
  <2>1. row \in Row /\ row.version = held.version /\ row.status = "INGESTING" /\ row.current = i
    BY <1>1, <1>7 DEF TakeItem, Row, Working, StatusAt
  <2>2. Store(r, row, "item")
    BY <1>7 DEF TakeItem
  <2> HIDE DEF row
  <2>3. QED
    BY <1>7, <2>1, <2>2, StoreKeeps DEF TakeItem, Working, StatusAt
<1>8. ASSUME Filter(r) \/ Duplicate(r) \/ StoryTranslated(r) \/ IngestFails(r) PROVE IInv'
  BY <1>2, <1>8 DEF Filter, Duplicate, StoryTranslated, IngestFails, Outcome
<1>9. ASSUME StoryCreated(r) PROVE IInv'
  <2>1. held = run[r] /\ run[r].status = "INGESTING" /\ run[r].current \in Items
    BY <1>1, <1>9 DEF StoryCreated, Working, StatusAt
  <2> DEFINE j == [job[r] EXCEPT !.pc = "story"]
  <2>2. j \in Job /\ j.pc = "story" /\ j.held = held
    BY <1>1 DEF Job, Working
  <2>3. known' \in SUBSET Items
    BY <1>1, <1>9, <2>1 DEF StoryCreated
  <2>4. job' = [job EXCEPT ![r] = j]
    BY <1>9 DEF StoryCreated
  <2> HIDE DEF j
  <2>5. QED
    BY <1>9, <2>1, <2>2, <2>3, <2>4, JobKeeps DEF StoryCreated, Working, Handling, StatusAt
<1>10. ASSUME Finish(r) PROVE IInv'
  <2> DEFINE row == IF AllFailed(held) THEN Ended(held, "FAILED", "all_items_failed")
                    ELSE Ended(held, "COMPLETED", "none")
  <2>1. row \in Row /\ row.version = held.version /\ row.status \in Terminal
    BY <1>1, <1>10, EndedFacts DEF Finish, Working, Terminal, Error
  <2>2. Store(r, row, "ending")
    BY <1>10 DEF Finish
  <2> HIDE DEF row
  <2>3. QED
    BY <1>10, <2>1, <2>2, StoreKeeps DEF Finish, Working, StatusAt
<1>11. ASSUME Return(r) PROVE IInv'
  <2>1. job' = [job EXCEPT ![r] = NoJob] /\ NoJob \in Job /\ NoJob.pc = "none"
    BY <1>11, NothingTypes DEF Return, NoJob
  <2>2. asked' = asked \ {r}
    BY <1>11, <2>1, ForgetFacts DEF Return
  <2>3. QED
    BY <1>1, <1>11, <2>1, <2>2, JobKeeps DEF Return
<1>12. ASSUME Escapes(r) PROVE IInv'
  <2> DEFINE j == [job[r] EXCEPT !.pc = "failing"]
  <2>1. j \in Job /\ j.pc = "failing"
    BY <1>1 DEF Job, Handling
  <2>2. job' = [job EXCEPT ![r] = j]
    BY <1>12 DEF Escapes
  <2> HIDE DEF j
  <2>3. QED
    BY <1>1, <1>12, <2>1, <2>2, JobKeeps DEF Escapes, Working, Handling
<1>13. ASSUME MarkCancelled(r) \/ MarkFailed(r) PROVE IInv'
  BY <1>13, MarkedKeeps DEF MarkCancelled, MarkFailed, Handling, Terminal, Error
<1>14. ASSUME WorkerFault(r) PROVE IInv'
  <2> DEFINE j == IF job[r].pc \in Working THEN [job[r] EXCEPT !.pc = "failing"] ELSE NoJob
  <2>1. j \in Job /\ j.pc \in {"failing", "none"} /\ (j.pc = "none" => j = NoJob)
    BY <1>1, NothingTypes DEF Job, Handling, NoJob
  <2>2. job' = [job EXCEPT ![r] = j]
    BY <1>14 DEF WorkerFault
  <2>3. job[r].pc = "cancelling" => j.pc = "none"
    BY DEF Working, NoJob
  <2> HIDE DEF j
  <2>4. asked' = IF j.pc = "none" THEN asked \ {r} ELSE asked
    BY <1>14, <2>1, <2>2, ForgetFacts DEF WorkerFault
  <2>5. QED
    BY <1>1, <1>14, <2>1, <2>2, <2>3, <2>4, JobKeeps DEF WorkerFault, Live, Working, Handling
<1>15. QED
  BY <1>3, <1>4, <1>5, <1>6, <1>7, <1>8, <1>9, <1>10, <1>11, <1>12, <1>13, <1>14
     DEF WorkerStep

\* What interrupting a task makes of it.
LEMMA InterruptedFacts ==
    ASSUME NEW j \in Job
    PROVE  /\ Interrupted(j) \in Job
           /\ j.pc \in Working => Interrupted(j).pc = "cancelling"
           /\ j.pc \notin Working => Interrupted(j) = NoJob
<1>1. CASE j.pc \in Working
  <2>1. [j EXCEPT !.pc = "cancelling"] \in Job
    BY DEF Job, Handling
  <2>2. QED
    BY <1>1, <2>1 DEF Interrupted, Job
<1>2. CASE j.pc \notin Working
  BY <1>2, NothingTypes DEF Interrupted
<1>3. QED
  BY <1>1, <1>2

\* Asking a task to cancel.
LEMMA RequestCancelKeeps ==
    ASSUME IInv, NEW c \in Callers, NEW r \in Runs, RequestCancel(c, r)
    PROVE  IInv'
<1> DEFINE j == Interrupted(job[r])
           new == [IdleCall EXCEPT !.pc = "waiting", !.run = r]
<1>1. job[r] \in Job /\ call[c] \in Call /\ call[c].pc = "idle"
  BY DEF IInv, TypeOK, RequestCancel, Idle
<1>2. /\ j \in Job /\ j.pc \in {"cancelling", "none"}
      /\ j.pc = "none" => j = NoJob
      /\ j.pc = "cancelling" => job[r].pc \in Working
  BY <1>1, InterruptedFacts DEF NoJob
<1>3. new \in Call /\ new.pc = "waiting" /\ new.run = r
  BY NothingTypes DEF Call
<1>4. /\ job' = [job EXCEPT ![r] = j]
      /\ call' = [call EXCEPT ![c] = new]
      /\ asked' = {q \in asked \cup {r} : job'[q].pc # "none"}
      /\ run[r].status # "ABSENT"
      /\ service \notin {"recovering", "down"}
      /\ UNCHANGED <<run, known, lock, service>>
  BY DEF RequestCancel, Serving
<1> HIDE DEF j, new
<1>5. TypeOK'
  BY <1>2, <1>3, <1>4 DEF IInv, TypeOK
<1>6. Offline' /\ Locked'
  BY <1>3, <1>4 DEF IInv, TypeOK, Offline, Locked
<1>7. ASSUME NEW q \in Runs PROVE WorkerOK(q)'
  BY <1>2, <1>4 DEF IInv, TypeOK, WorkerOK, Working
<1>8. ASSUME NEW q \in Runs PROVE ReasonOK(q)'
  <2>1. CASE q = r
    <3>1. job'[q] = j /\ call'[c] = new
      BY <1>4, <2>1 DEF IInv, TypeOK
    <3>2. q \in asked' <=> j.pc # "none"
      BY <1>4, <2>1, <3>1
    <3>3. \E d \in Callers : call'[d].pc = "waiting" /\ call'[d].run = q
      BY <1>3, <2>1, <3>1
    <3>4. QED
      BY <1>2, <3>1, <3>2, <3>3 DEF ReasonOK
  <2>2. CASE q # r
    <3>1. job'[q] = job[q]
      BY <1>4, <2>2 DEF IInv, TypeOK
    <3>2. q \in asked' <=> q \in asked
      BY <1>4, <2>2, <3>1 DEF IInv, ReasonOK
    <3>3. ASSUME NEW d \in Callers, call[d].pc = "waiting" PROVE call'[d] = call[d]
      BY <1>1, <1>4, <3>3 DEF IInv, TypeOK
    <3>4. q \in asked =>
            \E d \in Callers : call'[d].pc = "waiting" /\ call'[d].run = q
      BY <3>3 DEF IInv, ReasonOK
    <3>5. QED
      BY <1>4, <3>1, <3>2, <3>4 DEF IInv, ReasonOK
  <2>3. QED
    BY <2>1, <2>2
<1>9. ASSUME NEW d \in Callers PROVE CancelOK(d)'
  <2>1. CASE d = c
    BY <1>3, <1>4, <2>1 DEF IInv, TypeOK, CancelOK
  <2>2. CASE d # c
    <3>1. call'[d] = call[d]
      BY <1>4, <2>2 DEF IInv, TypeOK
    <3>2. call[d].pc = "marking" => job'[call[d].run].pc = "none"
      BY <1>2, <1>4 DEF IInv, TypeOK, CancelOK, Working, NoJob
    <3>3. QED
      BY <1>4, <3>1, <3>2 DEF IInv, CancelOK
  <2>3. QED
    BY <2>1, <2>2
<1>10. QED
  BY <1>5, <1>6, <1>7, <1>8, <1>9 DEF IInv

\* A request whose task has ended, and that is answered or goes on to write.
LEMMA CancelKeeps ==
    ASSUME IInv, NEW c \in Callers, CancelStep(c)
    PROVE  IInv'
<1> DEFINE r == call[c].run
<1>1. /\ call[c].pc \in {"waiting", "marking"}
      /\ call[c] \in Call
      /\ r \in Runs /\ run[r] \in Row /\ run[r].status # "ABSENT"
      /\ job[r].pc = "none"
      /\ r \notin asked
  <2>1. call[c].pc \in {"waiting", "marking"}
    BY DEF CancelStep, CancelReads, CancelMarks, CancelFails
  <2>2. r \in Runs
    BY <2>1 DEF IInv, CancelOK
  <2>3. job[r].pc = "none"
    BY <2>1 DEF CancelStep, CancelReads, CancelMarks, CancelFails, Live, IInv, CancelOK
  <2>4. QED
    BY <2>1, <2>2, <2>3 DEF IInv, TypeOK, CancelOK, ReasonOK
<1>2. service \notin {"recovering", "down"}
  BY <1>1, NothingTypes DEF IInv, Offline, IdleCall
<1>3. PICK new \in Call, row \in Row :
          /\ call' = [call EXCEPT ![c] = new]
          /\ run' = [run EXCEPT ![r] = row]
          /\ UNCHANGED <<known, job, lock, asked, service>>
          /\ \/ new = IdleCall
             \/ /\ row = run[r] /\ row.status \in Active
                /\ new = [call[c] EXCEPT !.pc = "marking", !.held = row]
          /\ row = run[r] \/ (row.version = run[r].version + 1 /\ row.status = "CANCELLED")
  <2>1. CASE CancelReads(c) \/ CancelFails(c)
    <3>1. run' = [run EXCEPT ![r] = run[r]]
      BY <2>1 DEF CancelReads, CancelFails, IInv, TypeOK
    <3>2. [call[c] EXCEPT !.pc = "marking", !.held = run[r]] \in Call
      BY <1>1 DEF Call
    <3>3. UNCHANGED <<known, job, lock, asked, service>>
      BY <2>1 DEF CancelReads, CancelFails
    <3>4. CASE /\ IsActive(r)
               /\ call' = [call EXCEPT ![c] = [call[c] EXCEPT !.pc = "marking", !.held = run[r]]]
      BY <1>1, <3>1, <3>2, <3>3, <3>4 DEF IsActive
    <3>5. CASE call' = [call EXCEPT ![c] = IdleCall]
      BY <1>1, <3>1, <3>3, <3>5, NothingTypes
    <3>6. QED
      BY <2>1, <3>4, <3>5 DEF CancelReads, CancelFails
  <2>2. CASE CancelMarks(c)
    <3> DEFINE held == call[c].held
               row == IF run[r].version = held.version
                      THEN Saved(Ended(held, "CANCELLED", "operator_cancelled")) ELSE run[r]
    <3>1. held \in Row
      BY <1>1 DEF Call
    <3>2. row \in Row /\ (row = run[r] \/ (row.version = run[r].version + 1
                                          /\ row.status = "CANCELLED"))
      BY <1>1, <3>1, SavedFacts, EndedFacts DEF Terminal, Error
    <3>3. run' = [run EXCEPT ![r] = row] /\ call' = [call EXCEPT ![c] = IdleCall]
          /\ UNCHANGED <<known, job, lock, asked, service>>
      BY <2>2 DEF CancelMarks
    <3> HIDE DEF row
    <3>4. QED
      BY <3>2, <3>3, NothingTypes
  <2>3. QED
    BY <2>1, <2>2 DEF CancelStep
<1>4. IdleCall.pc = "idle"
  BY DEF IdleCall
<1>5. /\ new.pc \in {"idle", "marking"}
      /\ new.pc = "marking" => /\ new.run = r /\ new.held = row
                               /\ row = run[r] /\ row.status \in Active
  BY <1>1, <1>3, <1>4 DEF Call
<1> HIDE DEF r
<1>6. TypeOK'
  BY <1>1, <1>3 DEF IInv, TypeOK
<1>7. Offline' /\ Locked'
  BY <1>2, <1>3, <1>5 DEF IInv, TypeOK, Offline, Locked
<1>8. ASSUME NEW q \in Runs PROVE WorkerOK(q)'
  BY <1>1, <1>3 DEF IInv, TypeOK, WorkerOK, Working
<1>9. ASSUME NEW q \in Runs PROVE ReasonOK(q)'
  <2>1. ReasonOK(q)
    BY DEF IInv
  <2>2. ASSUME q \in asked, NEW d \in Callers, call[d].pc = "waiting", call[d].run = q
        PROVE  call'[d] = call[d]
    BY <1>1, <1>3, <2>2 DEF IInv, TypeOK, r
  <2>3. q \in asked => \E d \in Callers : call'[d].pc = "waiting" /\ call'[d].run = q
    BY <2>1, <2>2 DEF ReasonOK
  <2>4. QED
    BY <1>3, <2>1, <2>3 DEF ReasonOK
<1>10. ASSUME NEW d \in Callers PROVE CancelOK(d)'
  <2>1. CASE d = c
    <3>1. call'[d] = new
      BY <1>3, <2>1 DEF IInv, TypeOK
    <3>2. run'[r] = row /\ job' = job
      BY <1>1, <1>3 DEF IInv, TypeOK
    <3>3. row.version \in Nat
      BY DEF Row
    <3>4. QED
      BY <1>1, <1>5, <3>1, <3>2, <3>3 DEF CancelOK
  <2>2. CASE d # c
    <3>1. call'[d] = call[d] /\ job' = job
      BY <1>3, <2>2 DEF IInv, TypeOK
    <3>2. call[d] \in Call /\ call[d].held \in Row
      BY DEF IInv, TypeOK, Call
    <3>3. CASE call[d].run = r
      <4>1. run'[call[d].run] = row
        BY <1>1, <1>3, <3>3 DEF IInv, TypeOK
      <4>2. CancelOK(d)
        BY DEF IInv
      <4>3. call[d].held.version \in Nat /\ run[r].version \in Nat /\ row.version \in Nat
        BY <1>1, <3>2 DEF Row
      <4>4. row.status # "ABSENT"
        BY <1>1, <1>3
      <4>5. QED
        BY <1>1, <1>3, <3>1, <3>3, <4>1, <4>2, <4>3, <4>4 DEF CancelOK
    <3>4. CASE call[d].run # r
      BY <1>3, <3>1, <3>4 DEF IInv, TypeOK, CancelOK
    <3>5. QED
      BY <3>3, <3>4
  <2>3. QED
    BY <2>1, <2>2
<1>11. QED
  BY <1>6, <1>7, <1>8, <1>9, <1>10 DEF IInv

\* Closing, ending, starting again and recovering.
LEMMA ProcessKeeps ==
    ASSUME IInv, Close \/ Closed \/ Crash \/ Restart \/ RecoveryStep
    PROVE  IInv'
<1>1. CASE Close
  <2>1. job' = [r \in Runs |-> Interrupted(job[r])]
    BY <1>1 DEF Close
  <2>2. \A r \in Runs : /\ job[r] \in Job /\ job'[r] \in Job
                        /\ job[r].pc \in Working => job'[r].pc = "cancelling"
                        /\ job[r].pc \notin Working => job'[r] = NoJob
    BY <2>1, InterruptedFacts DEF IInv, TypeOK
  <2>3. asked' = {}
    BY <1>1, <2>2 DEF Close, Forget, IInv, TypeOK, ReasonOK, Working, NoJob
  <2>4. UNCHANGED <<run, known, call, lock>> /\ service' = "closing"
    BY <1>1 DEF Close
  <2>5. TypeOK'
    <3>1. job' \in [Runs -> Job]
      BY <2>1, <2>2
    <3>2. QED
      BY <2>3, <2>4, <3>1 DEF IInv, TypeOK, Phase
  <2>6. Offline' /\ Locked'
    BY <2>4 DEF IInv, Offline, Locked
  <2>7. ASSUME NEW r \in Runs PROVE WorkerOK(r)' /\ ReasonOK(r)'
    BY <2>2, <2>3, <2>4 DEF IInv, WorkerOK, ReasonOK, Working, NoJob
  <2>8. ASSUME NEW c \in Callers PROVE CancelOK(c)'
    BY <2>2, <2>4 DEF IInv, CancelOK, Working, NoJob
  <2>9. QED
    BY <2>5, <2>6, <2>7, <2>8 DEF IInv
<1>2. CASE Exit
  <2>1. TypeOK'
    BY <1>2, NothingTypes DEF Exit, IInv, TypeOK, Phase
  <2>2. Offline' /\ Locked'
    BY <1>2 DEF Exit, Offline, Locked, IdleCall
  <2>3. ASSUME NEW r \in Runs PROVE WorkerOK(r)' /\ ReasonOK(r)'
    BY <1>2 DEF Exit, WorkerOK, ReasonOK, NoJob, Working
  <2>4. ASSUME NEW c \in Callers PROVE CancelOK(c)'
    BY <1>2 DEF Exit, CancelOK, IdleCall
  <2>5. QED
    BY <2>1, <2>2, <2>3, <2>4 DEF IInv
<1>3. CASE Restart \/ Open
  <2>1. /\ UNCHANGED <<run, known, job, call, lock, asked>> /\ service' \in {"recovering", "up"}
        /\ service \in {"recovering", "down"}
    BY <1>3 DEF Restart, Open
  <2>2. TypeOK' /\ Locked' /\ Offline'
    BY <2>1 DEF IInv, TypeOK, Phase, Locked, Offline
  <2>3. ASSUME NEW r \in Runs PROVE WorkerOK(r)' /\ ReasonOK(r)'
    BY <2>1 DEF IInv, WorkerOK, ReasonOK, StatusAt
  <2>4. ASSUME NEW c \in Callers PROVE CancelOK(c)'
    BY <2>1 DEF IInv, CancelOK
  <2>5. QED
    BY <2>2, <2>3, <2>4 DEF IInv
<1>4. ASSUME NEW r \in Runs, Recover(r) PROVE IInv'
  <2> DEFINE new == Saved(Ended(run[r], "FAILED", "interrupted_by_restart"))
  <2>1. run[r] \in Row /\ new \in Row
    BY SavedFacts, EndedFacts DEF IInv, TypeOK, Terminal, Error
  <2>2. /\ run' = [run EXCEPT ![r] = new] /\ service = "recovering"
        /\ UNCHANGED <<known, job, call, lock, asked, service>>
    BY <1>4 DEF Recover
  <2> HIDE DEF new
  <2>3. /\ \A q \in Runs : job[q].pc = "none" /\ job'[q].pc = "none"
        /\ \A c \in Callers : call'[c].pc = "idle"
    BY <2>2 DEF IInv, Offline, NoJob, IdleCall
  <2>4. TypeOK' /\ Offline' /\ Locked'
    BY <2>1, <2>2 DEF IInv, TypeOK, Offline, Locked
  <2>5. ASSUME NEW q \in Runs PROVE WorkerOK(q)' /\ ReasonOK(q)'
    BY <2>2, <2>3 DEF IInv, WorkerOK, ReasonOK, Working
  <2>6. ASSUME NEW c \in Callers PROVE CancelOK(c)'
    BY <2>3 DEF CancelOK
  <2>7. QED
    BY <2>4, <2>5, <2>6 DEF IInv
<1>5. QED
  BY <1>1, <1>2, <1>3, <1>4 DEF Closed, Crash, RecoveryStep

\* Every step keeps the invariant.
LEMMA NextKeeps == IInv /\ Next => IInv'
<1> SUFFICES ASSUME IInv, Next PROVE IInv'
  OBVIOUS
<1>1. ASSUME NEW c \in Callers, StartStep(c) PROVE IInv'
  BY <1>1, StartingKeeps, CreateKeeps DEF StartStep
<1>2. ASSUME NEW c \in Callers, Request(c) PROVE IInv'
  BY <1>2, StartingKeeps, RequestCancelKeeps DEF Request
<1>3. ASSUME NEW c \in Callers, NEW s \in Sources, StartIfIdle(c, s) PROVE IInv'
  BY <1>3, StartingKeeps
<1>4. QED
  BY <1>1, <1>2, <1>3, WorkerKeeps, CancelKeeps, ProcessKeeps DEF Next

\* So does a step that changes nothing.
LEMMA UnchangedKeeps == IInv /\ UNCHANGED vars => IInv'
<1> SUFFICES ASSUME IInv, UNCHANGED vars PROVE IInv'
  OBVIOUS
<1>1. UNCHANGED <<run, known, job, call, lock, asked, service>>
  BY DEF vars
<1>2. TypeOK' /\ Offline' /\ Locked'
  BY <1>1 DEF IInv, TypeOK, Offline, Locked
<1>3. ASSUME NEW r \in Runs PROVE WorkerOK(r)' /\ ReasonOK(r)'
  BY <1>1 DEF IInv, WorkerOK, ReasonOK, StatusAt
<1>4. ASSUME NEW c \in Callers PROVE CancelOK(c)'
  BY <1>1 DEF IInv, CancelOK
<1>5. QED
  BY <1>2, <1>3, <1>4 DEF IInv

(* Who may write a row, and why tasks are cancelled, holds of every behaviour. *)
THEOREM Invariance == Spec => []IInv
<1>1. QED
  BY Initially, NextKeeps, UnchangedKeeps, PTL DEF Spec

(* Rows, tasks, requests and locks keep their types.                          *)
THEOREM TypeCorrectness == Spec => []TypeOK
<1>1. IInv => TypeOK
  BY DEF IInv
<1>2. QED
  BY <1>1, Invariance, PTL

-----------------------------------------------------------------------------
(* What a step may do to a row *)

Progress ==
    {<<"QUEUED", "COLLECTING">>, <<"COLLECTING", "INGESTING">>, <<"INGESTING", "INGESTING">>}
    \cup Active \X Terminal

Reason(r) ==
    \/ /\ run'[r].error = "operator_cancelled"
       /\ \E c \in Callers : call[c].run = r /\ call[c].pc \in {"waiting", "marking"}
    \/ /\ run'[r].error = "service_shutdown"
       /\ service = "closing"

RowStep(r) ==
    \/ run'[r] = run[r]
    \/ \E c \in Callers : Create(c, r)
    \/ /\ <<run[r].status, run'[r].status>> \in Progress
       /\ run'[r].source = run[r].source
       /\ run'[r].status = "CANCELLED" => Reason(r)

\* A worker's save moves its row forward.
LEMMA StoreStep ==
    ASSUME IInv, NEW q \in Runs, job[q].pc \in Working, NEW row \in Row, NEW pc \in Working,
           row.version = job[q].held.version, row.source = run[q].source,
           <<run[q].status, row.status>> \in Progress, row.status # "CANCELLED",
           Store(q, row, pc), NEW r \in Runs
    PROVE  RowStep(r)
<1>1. run' = [run EXCEPT ![q] = Saved(row)]
  BY StoreFacts
<1>2. Saved(row).status = row.status /\ Saved(row).source = row.source
  BY SavedFacts
<1>3. r = q => run'[r] = Saved(row)
  BY <1>1 DEF IInv, TypeOK
<1>4. r # q => run'[r] = run[r]
  BY <1>1 DEF IInv, TypeOK
<1>5. QED
  BY <1>2, <1>3, <1>4 DEF RowStep

\* The rows of a worker's step.
LEMMA WorkerRows ==
    ASSUME IInv, NEW q \in Runs, WorkerStep(q) \/ WorkerFault(q), NEW r \in Runs
    PROVE  RowStep(r)
<1> DEFINE held == job[q].held
<1>1. /\ run[q] \in Row /\ run \in [Runs -> Row]
      /\ job[q].pc \in Working => held = run[q] /\ held \in Row
                                 /\ held.status \in StatusAt(job[q].pc)
      /\ job[q].pc \in {"item", "story"} => held.current \in Items
  BY DEF IInv, TypeOK, WorkerOK, Working
<1>2. ASSUME job[q].pc \in {"item", "story"}, NEW outcome \in Outcome, Record(q, outcome)
      PROVE  RowStep(r)
  <2> DEFINE row == [held EXCEPT !.results = @ \cup {<<held.current, outcome>>}]
  <2>1. row \in Row /\ row.version = held.version /\ row.status = "INGESTING"
        /\ row.source = run[q].source /\ run[q].status = "INGESTING"
    BY <1>1, <1>2 DEF Row, Working, StatusAt
  <2>2. Store(q, row, "ingesting")
    BY <1>2 DEF Record
  <2> HIDE DEF row
  <2>3. QED
    BY <1>2, <2>1, <2>2, StoreStep DEF Working, Progress
<1>3. ASSUME Begin(q) PROVE RowStep(r)
  <2> DEFINE row == [held EXCEPT !.status = "COLLECTING"]
  <2>1. row \in Row /\ row.version = held.version /\ row.status = "COLLECTING"
        /\ row.source = run[q].source /\ run[q].status = "QUEUED"
    BY <1>1, <1>3 DEF Begin, Row, Working, Active, StatusAt
  <2>2. Store(q, row, "collecting") /\ job[q].pc = "begun"
    BY <1>3 DEF Begin
  <2> HIDE DEF row
  <2>3. QED
    BY <2>1, <2>2, StoreStep DEF Working, Progress
<1>4. ASSUME NEW found \in SUBSET Items, Collected(q, found) PROVE RowStep(r)
  <2> DEFINE row == [held EXCEPT !.status = "INGESTING", !.found = found]
             pc == IF found = {} THEN "empty" ELSE "ingesting"
  <2>1. row \in Row /\ row.version = held.version /\ row.status = "INGESTING"
        /\ row.source = run[q].source /\ run[q].status = "COLLECTING"
    BY <1>1, <1>4 DEF Collected, Row, Working, Active, StatusAt
  <2>2. Store(q, row, pc) /\ pc \in Working /\ job[q].pc = "collecting"
    BY <1>4 DEF Collected, Working
  <2> HIDE DEF row, pc
  <2>3. QED
    BY <2>1, <2>2, StoreStep DEF Working, Progress
<1>5. ASSUME NothingCollected(q) PROVE RowStep(r)
  <2> DEFINE row == Ended(held, "FAILED", "no_items")
  <2>1. row \in Row /\ row.version = held.version /\ row.status = "FAILED"
        /\ row.source = run[q].source /\ run[q].status = "INGESTING"
    BY <1>1, <1>5, EndedFacts DEF NothingCollected, Working, Terminal, Error, StatusAt
  <2>2. Store(q, row, "ending") /\ job[q].pc = "empty"
    BY <1>5 DEF NothingCollected
  <2> HIDE DEF row
  <2>3. QED
    BY <2>1, <2>2, StoreStep DEF Working, Progress, Active, Terminal
<1>6. ASSUME NEW i \in Items, TakeItem(q, i) PROVE RowStep(r)
  <2> DEFINE row == [held EXCEPT !.current = i]
  <2>1. row \in Row /\ row.version = held.version /\ row.status = "INGESTING"
        /\ row.source = run[q].source /\ run[q].status = "INGESTING"
    BY <1>1, <1>6 DEF TakeItem, Row, Working, StatusAt
  <2>2. Store(q, row, "item") /\ job[q].pc = "ingesting"
    BY <1>6 DEF TakeItem
  <2> HIDE DEF row
  <2>3. QED
    BY <2>1, <2>2, StoreStep DEF Working, Progress
<1>7. ASSUME Filter(q) \/ Duplicate(q) \/ StoryTranslated(q) \/ IngestFails(q)
      PROVE  RowStep(r)
  BY <1>2, <1>7 DEF Filter, Duplicate, StoryTranslated, IngestFails, Outcome
<1>8. ASSUME Finish(q) PROVE RowStep(r)
  <2> DEFINE row == IF AllFailed(held) THEN Ended(held, "FAILED", "all_items_failed")
                    ELSE Ended(held, "COMPLETED", "none")
  <2>1. row \in Row /\ row.version = held.version /\ row.status \in {"FAILED", "COMPLETED"}
        /\ row.source = run[q].source /\ run[q].status = "INGESTING"
    BY <1>1, <1>8, EndedFacts DEF Finish, Working, Terminal, Error, StatusAt
  <2>2. Store(q, row, "ending") /\ job[q].pc = "ingesting"
    BY <1>8 DEF Finish
  <2> HIDE DEF row
  <2>3. QED
    BY <2>1, <2>2, StoreStep DEF Working, Progress, Active, Terminal
<1>9. ASSUME Load(q) \/ StoryCreated(q) \/ Return(q) \/ Escapes(q) \/ WorkerFault(q)
      PROVE  RowStep(r)
  BY <1>9 DEF Load, StoryCreated, Return, Escapes, WorkerFault, RowStep
<1>10. ASSUME MarkCancelled(q) \/ MarkFailed(q) PROVE RowStep(r)
  <2>1. run[q].status # "ABSENT"
    BY <1>10 DEF MarkCancelled, MarkFailed, IInv, WorkerOK
  <2>2. CASE r # q \/ run[q].status \in Terminal
    BY <1>1, <1>10, <2>2 DEF MarkCancelled, MarkFailed, Marked, RowStep
  <2>3. CASE r = q /\ run[q].status \notin Terminal
    <3>1. run[q].status \in Active
      BY <1>1, <2>1, <2>3 DEF Row
    <3>2. CASE MarkCancelled(q)
      <4> DEFINE error == IF q \in asked THEN "operator_cancelled" ELSE "service_shutdown"
      <4>1. run'[q] = Saved(Ended(run[q], "CANCELLED", error))
        BY <1>1, <2>3, <3>2 DEF MarkCancelled, Marked
      <4>2. /\ run'[q].status = "CANCELLED" /\ run'[q].source = run[q].source
            /\ run'[q].error = error
        BY <1>1, <4>1, SavedFacts, EndedFacts DEF Terminal, Error
      <4>3. Reason(q)
        BY <3>2, <4>2 DEF MarkCancelled, IInv, ReasonOK, Reason
      <4>4. QED
        BY <2>3, <3>1, <4>2, <4>3 DEF RowStep, Progress, Terminal
    <3>3. CASE MarkFailed(q)
      <4>1. run'[q] = Saved(Ended(run[q], "FAILED", "source_run_internal_error"))
        BY <1>1, <2>3, <3>3 DEF MarkFailed, Marked
      <4>2. run'[q].status = "FAILED" /\ run'[q].source = run[q].source
        BY <1>1, <4>1, SavedFacts, EndedFacts DEF Terminal, Error
      <4>3. QED
        BY <2>3, <3>1, <4>2 DEF RowStep, Progress, Terminal
    <3>4. QED
      BY <1>10, <3>2, <3>3
  <2>4. QED
    BY <2>2, <2>3
<1>11. QED
  BY <1>3, <1>4, <1>5, <1>6, <1>7, <1>8, <1>9, <1>10 DEF WorkerStep

\* The rows of any step.
LEMMA RowSteps ==
    ASSUME IInv, Next, NEW r \in Runs
    PROVE  RowStep(r)
<1>1. run \in [Runs -> Row]
  BY DEF IInv, TypeOK
<1>2. ASSUME run' = run PROVE RowStep(r)
  BY <1>2 DEF RowStep
<1>3. ASSUME NEW c \in Callers, StartStep(c) PROVE RowStep(r)
  <2>1. ASSUME NEW q \in Runs, Create(c, q) PROVE RowStep(r)
    BY <1>1, <2>1 DEF Create, RowStep
  <2>2. QED
    BY <1>2, <1>3, <2>1 DEF StartStep, Look, SourceIsIdle, StartRefused, StartFails
<1>4. ASSUME NEW c \in Callers, CancelMarks(c) PROVE RowStep(r)
  <2> DEFINE q == call[c].run
             held == call[c].held
  <2>1. CASE r # q \/ run[q].version # held.version
    BY <1>1, <1>4, <2>1 DEF CancelMarks, RowStep
  <2>2. CASE r = q /\ run[q].version = held.version
    <3>1. held = run[q] /\ run[q].status \in Active /\ run[q] \in Row
      BY <1>1, <1>4, <2>2 DEF CancelMarks, IInv, CancelOK
    <3>2. run'[q] = Saved(Ended(run[q], "CANCELLED", "operator_cancelled"))
      BY <1>1, <1>4, <2>2, <3>1 DEF CancelMarks
    <3>3. /\ run'[q].status = "CANCELLED" /\ run'[q].source = run[q].source
          /\ run'[q].error = "operator_cancelled"
      BY <3>1, <3>2, SavedFacts, EndedFacts DEF Terminal, Error
    <3>4. Reason(q)
      BY <1>4, <3>3 DEF CancelMarks, Reason
    <3>5. QED
      BY <2>2, <3>1, <3>3, <3>4 DEF RowStep, Progress, Terminal
  <2>3. QED
    BY <2>1, <2>2
<1>5. ASSUME NEW c \in Callers, CancelStep(c) PROVE RowStep(r)
  BY <1>2, <1>4, <1>5 DEF CancelStep, CancelReads, CancelFails
<1>6. ASSUME NEW q \in Runs, Recover(q) PROVE RowStep(r)
  <2>1. CASE r # q
    BY <1>1, <1>6, <2>1 DEF Recover, RowStep
  <2>2. CASE r = q
    <3>1. run'[q] = Saved(Ended(run[q], "FAILED", "interrupted_by_restart"))
          /\ run[q].status \in Active /\ run[q] \in Row
      BY <1>1, <1>6 DEF Recover, IsActive
    <3>2. run'[q].status = "FAILED" /\ run'[q].source = run[q].source
      BY <3>1, SavedFacts, EndedFacts DEF Terminal, Error
    <3>3. QED
      BY <2>2, <3>1, <3>2 DEF RowStep, Progress, Terminal
  <2>3. QED
    BY <2>1, <2>2
<1>7. ASSUME NEW c \in Callers,
             Request(c) \/ \E s \in Sources : StartIfIdle(c, s)
      PROVE  RowStep(r)
  BY <1>2, <1>7 DEF Request, Start, RequestCancel, StartIfIdle
<1>8. CASE Close \/ Closed \/ Crash \/ Restart \/ Open
  BY <1>2, <1>8 DEF Close, Closed, Crash, Exit, Restart, Open
<1>9. QED
  BY <1>3, <1>5, <1>6, <1>7, <1>8, WorkerRows DEF Next, RecoveryStep

(* Whatever runs, requests and failures there are, the outcome of a run is
   written once.                                                              *)
THEOREM OutcomesAreFinal == Spec => OutcomeIsFinal
<1>1. ASSUME IInv, [Next]_vars, NEW r \in Runs, run[r].status \in Terminal
      PROVE  run'[r] = run[r]
  <2>1. CASE UNCHANGED vars
    BY <2>1 DEF vars
  <2>2. CASE Next
    BY <1>1, <2>2, RowSteps DEF RowStep, Create, Progress, Active, Terminal
  <2>3. QED
    BY <1>1, <2>1, <2>2
<1>2. IInv /\ [Next]_vars =>
          [\A r \in Runs : run[r].status \in Terminal => run'[r] = run[r]]_vars
  BY <1>1
<1>3. QED
  BY <1>2, Invariance, PTL DEF Spec, OutcomeIsFinal

(* A cancelled row never blames an operator who did not ask, or a shutdown that
   did not happen.                                                            *)
THEOREM ReasonsAreTrue == Spec => ReasonIsTrue
<1>1. ASSUME IInv, [Next]_vars, NEW r \in Runs,
             run'[r].status = "CANCELLED", run[r].status # "CANCELLED"
      PROVE  Reason(r)
  <2>1. CASE UNCHANGED vars
    BY <1>1, <2>1 DEF vars
  <2>2. CASE Next
    <3>1. RowStep(r)
      BY <1>1, <2>2, RowSteps
    <3>2. CASE \E c \in Callers : Create(c, r)
      <4>1. run'[r].status = "QUEUED"
        BY <1>1, <3>2 DEF Create, Queued, IInv, TypeOK
      <4>2. QED
        BY <1>1, <4>1
    <3>3. QED
      BY <1>1, <3>1, <3>2 DEF RowStep
  <2>3. QED
    BY <1>1, <2>1, <2>2
<1>2. IInv /\ [Next]_vars =>
          [\A r \in Runs :
              run'[r].status = "CANCELLED" /\ run[r].status # "CANCELLED" =>
                  \/ /\ run'[r].error = "operator_cancelled"
                     /\ \E c \in Callers :
                           call[c].run = r /\ call[c].pc \in {"waiting", "marking"}
                  \/ /\ run'[r].error = "service_shutdown"
                     /\ service = "closing"]_vars
  BY <1>1 DEF Reason
<1>3. QED
  BY <1>2, Invariance, PTL DEF Spec, ReasonIsTrue

-----------------------------------------------------------------------------
(* The three queries of a scheduled start *)

\* While a caller holds the lock, nobody else creates a run.
LEMMA OnlyHolderCreates ==
    ASSUME IInv, NEW c \in Callers, call[c].pc = "checking",
           NEW d \in Callers, NEW r \in Runs, Create(d, r)
    PROVE  FALSE
BY DEF IInv, Locked, Create

\* What the caller has looked past stays empty, whatever the workers do.
LEMMA PassedStays ==
    ASSUME IInv, Next, NEW c \in Callers, LookOK(c), NEW r \in Runs,
           call[c].pc = "checking", run'[r].source = call[c].source,
           NEW look \in Active, Passed(look) \subseteq Passed(call[c].look)
    PROVE  run'[r].status \notin Passed(look)
<1>1. RowStep(r)
  BY RowSteps
<1>2. call[c].look \in Active
  BY DEF IInv, TypeOK, Call
<1>3. CASE run'[r] = run[r]
  BY <1>3 DEF LookOK
<1>4. CASE \E d \in Callers : Create(d, r)
  BY <1>4, OnlyHolderCreates
<1>5. CASE /\ <<run[r].status, run'[r].status>> \in Progress
           /\ run'[r].source = run[r].source
  <2>1. run[r].status \notin Passed(call[c].look)
    BY <1>5 DEF LookOK
  <2>2. QED
    BY <1>2, <1>5, <2>1 DEF Passed, Progress, Active, Terminal
<1>6. QED
  BY <1>1, <1>3, <1>4, <1>5 DEF RowStep

\* A request that goes on looking, or stays where it is.
LEMMA LookStep ==
    ASSUME IInv, Next, NEW c \in Callers
    PROVE  \/ call'[c] = call[c]
           \/ Look(c)
           \/ SourceIsIdle(c)
           \/ call'[c].pc \in {"idle", "waiting", "marking"}
           \/ call'[c].pc = "checking" /\ call'[c].look = "QUEUED"
           \/ call'[c].pc = "creating" /\ call'[c].by = "operator"
<1>1. call \in [Callers -> Call]
  BY DEF IInv, TypeOK
<1>2. IdleCall.pc = "idle" /\ IdleCall \in Call /\ IdleCall.look = "QUEUED"
      /\ IdleCall.by = "operator"
  BY NothingTypes DEF IdleCall
<1>3. ASSUME NEW d \in Callers, NEW s \in Sources, Start(d, s)
      PROVE  \/ call'[c] = call[c]
             \/ call'[c].pc = "creating" /\ call'[c].by = "operator"
  <2>1. [IdleCall EXCEPT !.pc = "creating", !.source = s].pc = "creating"
        /\ [IdleCall EXCEPT !.pc = "creating", !.source = s].by = "operator"
    BY <1>2 DEF Call
  <2>2. QED
    BY <1>1, <1>3, <2>1 DEF Start
<1>4. ASSUME NEW d \in Callers, NEW s \in Sources, StartIfIdle(d, s)
      PROVE  \/ call'[c] = call[c]
             \/ call'[c].pc = "checking" /\ call'[c].look = "QUEUED"
  <2> DEFINE new == [IdleCall EXCEPT !.pc = "checking", !.source = s, !.by = "schedule"]
  <2>1. new.pc = "checking" /\ new.look = "QUEUED"
    BY <1>2 DEF Call
  <2>2. call' = [call EXCEPT ![d] = new]
    BY <1>4 DEF StartIfIdle
  <2> HIDE DEF new
  <2>3. QED
    BY <1>1, <2>1, <2>2
<1>5. ASSUME NEW d \in Callers, NEW r \in Runs, RequestCancel(d, r)
      PROVE  call'[c] = call[c] \/ call'[c].pc = "waiting"
  <2>1. [IdleCall EXCEPT !.pc = "waiting", !.run = r].pc = "waiting"
    BY <1>2 DEF Call
  <2>2. QED
    BY <1>1, <1>5, <2>1 DEF RequestCancel
<1>6. ASSUME NEW d \in Callers, StartStep(d)
      PROVE  \/ call'[c] = call[c] \/ Look(c) \/ SourceIsIdle(c)
             \/ call'[c].pc = "idle"
  <2>1. CASE d = c
    BY <1>1, <1>2, <1>6, <2>1 DEF StartStep, StartRefused, Create, StartFails
  <2>2. CASE d # c
    BY <1>1, <1>6, <2>2 DEF StartStep, Look, SourceIsIdle, StartRefused, Create, StartFails
  <2>3. QED
    BY <2>1, <2>2
<1>7. ASSUME NEW d \in Callers, CancelStep(d)
      PROVE  call'[c] = call[c] \/ call'[c].pc \in {"idle", "marking"}
  <2>1. [call[d] EXCEPT !.pc = "marking", !.held = run[call[d].run]].pc = "marking"
    BY <1>1 DEF Call
  <2>2. QED
    BY <1>1, <1>2, <1>7, <2>1 DEF CancelStep, CancelReads, CancelMarks, CancelFails
<1>8. ASSUME Closed \/ Crash PROVE call'[c].pc = "idle"
  BY <1>2, <1>8 DEF Closed, Crash, Exit
<1>9. ASSUME NEW r \in Runs, WorkerStep(r) \/ WorkerFault(r) PROVE call'[c] = call[c]
  BY <1>9 DEF WorkerStep, WorkerFault, Load, Begin, Collected, NothingCollected, TakeItem,
     Filter, StoryCreated, Duplicate, StoryTranslated, IngestFails, Finish, Return, Escapes,
     MarkCancelled, MarkFailed
<1>10. ASSUME Close \/ Restart \/ RecoveryStep PROVE call'[c] = call[c]
  BY <1>10 DEF Close, Restart, RecoveryStep, Recover, Open
<1>11. QED
  BY <1>3, <1>4, <1>5, <1>6, <1>7, <1>8, <1>9, <1>10 DEF Next, Request

\* What a scheduled start has found stays true until it creates its run.
LEMMA LookKeeps ==
    ASSUME LookInv, Next, NEW c \in Callers
    PROVE  LookOK(c)'
<1>1. IInv /\ LookOK(c) /\ call[c] \in Call
  BY DEF LookInv, IInv, TypeOK
<1>2. CASE call'[c] = call[c]
  <2>1. CASE call[c].pc = "checking"
    BY <1>1, <1>2, <2>1, PassedStays DEF LookOK, Call
  <2>2. CASE call[c].pc = "creating" /\ call[c].by = "schedule"
    <3>1. ASSUME NEW r \in Runs, run'[r].source = call[c].source
          PROVE  run'[r].status \notin Active
      <4>1. RowStep(r)
        BY <1>1, RowSteps
      <4>2. CASE \E d \in Callers : Create(d, r)
        <5>1. Create(c, r)
          BY <1>1, <2>2, <4>2 DEF IInv, Locked, Create
        <5>2. call'[c] = IdleCall
          BY <1>1, <5>1 DEF Create, IInv, TypeOK
        <5>3. QED
          BY <1>2, <2>2, <5>2 DEF IdleCall
      <4>3. CASE /\ <<run[r].status, run'[r].status>> \in Progress
                 /\ run'[r].source = run[r].source
        BY <1>1, <2>2, <3>1, <4>3 DEF LookOK, Progress, Active
      <4>4. CASE run'[r] = run[r]
        BY <1>1, <2>2, <3>1, <4>4 DEF LookOK
      <4>5. QED
        BY <4>1, <4>2, <4>3, <4>4 DEF RowStep
    <3>2. QED
      BY <1>2, <2>2, <3>1 DEF LookOK
  <2>3. QED
    BY <1>2, <2>1, <2>2 DEF LookOK
<1>3. CASE Look(c)
  <2>1. /\ call[c].pc = "checking" /\ call[c].look \in {"QUEUED", "COLLECTING"}
        /\ call'[c] = [call[c] EXCEPT !.look = NextLook[call[c].look]]
        /\ run' = run
    BY <1>1, <1>3 DEF Look, IInv, TypeOK, Call, Active
  <2>2. /\ call'[c].pc = "checking" /\ call'[c].source = call[c].source
        /\ call'[c].look = NextLook[call[c].look]
    BY <1>1, <2>1 DEF Call
  <2>3. Passed(call'[c].look) = Passed(call[c].look) \cup {call[c].look}
    BY <2>1, <2>2 DEF Passed, NextLook
  <2>4. \A r \in Runs : run[r].source = call[c].source => run[r].status # call[c].look
    BY <1>3 DEF Look, Found
  <2>5. QED
    BY <1>1, <2>1, <2>2, <2>3, <2>4 DEF LookOK
<1>4. CASE SourceIsIdle(c)
  <2>1. /\ call[c].pc = "checking" /\ call[c].look = "INGESTING"
        /\ call'[c] = [call[c] EXCEPT !.pc = "creating"]
        /\ run' = run
    BY <1>1, <1>4 DEF SourceIsIdle, IInv, TypeOK
  <2>2. call'[c].pc = "creating" /\ call'[c].source = call[c].source
    BY <1>1, <2>1 DEF Call
  <2>3. \A r \in Runs : run[r].source = call[c].source => run[r].status # call[c].look
    BY <1>4 DEF SourceIsIdle, Found
  <2>4. QED
    BY <1>1, <2>1, <2>2, <2>3 DEF LookOK, Passed, Active
<1>5. CASE call'[c].pc = "checking" /\ call'[c].look = "QUEUED"
  BY <1>5 DEF LookOK, Passed
<1>6. CASE \/ call'[c].pc \in {"idle", "waiting", "marking"}
           \/ call'[c].pc = "creating" /\ call'[c].by = "operator"
  BY <1>6 DEF LookOK
<1>7. QED
  BY <1>1, <1>2, <1>3, <1>4, <1>5, <1>6, LookStep

\* The findings of scheduled starts hold of every behaviour.
LEMMA LookInvariance == Spec => []LookInv
<1>1. Init => LookInv
  BY Initially DEF Init, LookInv, LookOK, IdleCall
<1>2. LookInv /\ [Next]_vars => LookInv'
  <2> SUFFICES ASSUME LookInv, [Next]_vars PROVE LookInv'
    OBVIOUS
  <2>1. CASE Next
    BY <2>1, NextKeeps, LookKeeps DEF LookInv
  <2>2. CASE UNCHANGED vars
    <3>1. run' = run /\ call' = call
      BY <2>2 DEF vars
    <3>2. ASSUME NEW c \in Callers PROVE LookOK(c)'
      BY <3>1 DEF LookInv, LookOK
    <3>3. QED
      BY <2>2, <3>2, UnchangedKeeps DEF LookInv
  <2>3. QED
    BY <2>1, <2>2
<1>3. QED
  BY <1>1, <1>2, PTL DEF Spec

(* The scheduler never starts a run of a source that has one, whoever else
   starts, works on and cancels runs during its three queries.                *)
THEOREM SchedulesNeverOverlap == Spec => ScheduledNeverOverlaps
<1>1. ASSUME LookInv, [Next]_vars, NEW r \in Runs, run[r].status = "ABSENT",
             run'[r].status # "ABSENT", run'[r].by = "schedule",
             NEW q \in Runs, run[q].source = run'[r].source
      PROVE  ~IsActive(q)
  <2>1. Next
    BY <1>1 DEF vars
  <2>2. PICK c \in Callers : Create(c, r)
    BY <1>1, <2>1, RowSteps DEF LookInv, RowStep, Progress, Active
  <2>3. run'[r] = Queued(call[c].source, call[c].by)
    BY <1>1, <2>2 DEF Create, LookInv, IInv, TypeOK
  <2>4. run'[r].source = call[c].source /\ call[c].by = "schedule"
    BY <1>1, <2>3 DEF Queued
  <2>5. QED
    BY <1>1, <2>2, <2>4 DEF LookInv, LookOK, Create, IsActive
<1>2. LookInv /\ [Next]_vars =>
          [\A r \in Runs :
              run[r].status = "ABSENT" /\ run'[r].status # "ABSENT"
                  /\ run'[r].by = "schedule" =>
                  \A q \in Runs : run[q].source = run'[r].source => ~IsActive(q)]_vars
  BY <1>1
<1>3. QED
  BY <1>2, LookInvariance, PTL DEF Spec, ScheduledNeverOverlaps

-----------------------------------------------------------------------------
(* Who ingested an item *)

\* A step that makes the run the owner of nothing it did not own.
Takes(q, i) == Owns(q, i)' /\ ~Owns(q, i)

\* A worker's save: only the one that reports a story it has created may add
\* an ingested item.
LEMMA StoreTakes ==
    ASSUME IInv, NEW r \in Runs, job[r].pc \in Working, NEW row \in Row, NEW pc \in Working,
           row.version = job[r].held.version, pc # "story",
           NEW new \in SUBSET (Items \X Outcome), row.results = run[r].results \cup new,
           \A x \in new : x[2] = "INGESTED" => job[r].pc = "story" /\ x[1] = run[r].current,
           Store(r, row, pc), NEW q \in Runs, NEW i \in Items
    PROVE  ~Takes(q, i)
<1>1. run \in [Runs -> Row] /\ job \in [Runs -> Job]
  BY DEF IInv, TypeOK
<1>2. /\ run' = [run EXCEPT ![r] = Saved(row)]
      /\ job' = [job EXCEPT ![r] = [pc |-> pc, held |-> Saved(row)]]
  BY StoreFacts
<1>3. CASE q # r
  BY <1>1, <1>2, <1>3 DEF Takes, Owns
<1>4. CASE q = r
  <2>1. run'[r].results = run[r].results \cup new /\ job'[r].pc = pc
    BY <1>1, <1>2, SavedFacts
  <2>2. <<i, "INGESTED">> \in new => job[r].pc = "story" /\ run[r].current = i
    OBVIOUS
  <2>3. QED
    BY <1>4, <2>1, <2>2 DEF Takes, Owns
<1>5. QED
  BY <1>3, <1>4

\* A worker comes to own an item only by creating its story.
LEMMA WorkerTakes ==
    ASSUME IInv, NEW r \in Runs, WorkerStep(r) \/ WorkerFault(r),
           NEW q \in Runs, NEW i \in Items, Takes(q, i)
    PROVE  StoryCreated(r) /\ q = r /\ i = run[r].current
<1> DEFINE held == job[r].held
<1>1. /\ run[r] \in Row /\ run \in [Runs -> Row] /\ job \in [Runs -> Job]
      /\ job[r].pc \in Working => held = run[r] /\ held \in Row
      /\ job[r].pc \in {"item", "story"} => held.current \in Items
  BY DEF IInv, TypeOK, WorkerOK, Working
<1>2. ASSUME job[r].pc \in {"item", "story"}, NEW outcome \in Outcome, Record(r, outcome),
             outcome = "INGESTED" => job[r].pc = "story"
      PROVE  FALSE
  <2> DEFINE new == {<<held.current, outcome>>}
             row == [held EXCEPT !.results = @ \cup new]
  <2>1. row \in Row /\ row.version = held.version /\ row.results = run[r].results \cup new
        /\ held.current = run[r].current
    BY <1>1, <1>2 DEF Row, Working
  <2>2. Store(r, row, "ingesting")
    BY <1>2 DEF Record
  <2>3. /\ new \in SUBSET (Items \X Outcome)
        /\ \A x \in new : x[2] = "INGESTED" => job[r].pc = "story" /\ x[1] = run[r].current
    BY <1>1, <1>2, <2>1
  <2> HIDE DEF row, new
  <2>4. QED
    BY <1>2, <2>1, <2>2, <2>3, StoreTakes DEF Working
<1>3. ASSUME NEW row \in Row, NEW pc \in Working, pc # "story", job[r].pc \in Working,
             row.version = held.version, row.results = held.results, Store(r, row, pc)
      PROVE  FALSE
  <2>1. {} \in SUBSET (Items \X Outcome) /\ row.results = run[r].results \cup {}
    BY <1>1, <1>3
  <2>2. QED
    BY <1>3, <2>1, StoreTakes
<1>4. ASSUME Begin(r) PROVE FALSE
  <2> DEFINE row == [held EXCEPT !.status = "COLLECTING"]
  <2>1. row \in Row /\ row.version = held.version /\ row.results = held.results
    BY <1>1, <1>4 DEF Begin, Row, Working, Active
  <2>2. Store(r, row, "collecting")
    BY <1>4 DEF Begin
  <2> HIDE DEF row
  <2>3. QED
    BY <1>3, <1>4, <2>1, <2>2 DEF Begin, Working
<1>5. ASSUME NEW found \in SUBSET Items, Collected(r, found) PROVE FALSE
  <2> DEFINE row == [held EXCEPT !.status = "INGESTING", !.found = found]
             pc == IF found = {} THEN "empty" ELSE "ingesting"
  <2>1. row \in Row /\ row.version = held.version /\ row.results = held.results
    BY <1>1, <1>5 DEF Collected, Row, Working, Active
  <2>2. Store(r, row, pc) /\ pc \in {"empty", "ingesting"}
    BY <1>5 DEF Collected
  <2> HIDE DEF row, pc
  <2>3. QED
    BY <1>3, <1>5, <2>1, <2>2 DEF Collected, Working
<1>6. ASSUME NothingCollected(r) \/ Finish(r) PROVE FALSE
  <2>1. PICK status \in Terminal, error \in Error :
            Store(r, Ended(held, status, error), "ending")
    BY <1>6 DEF NothingCollected, Finish, Terminal, Error
  <2> DEFINE row == Ended(held, status, error)
  <2>2. row \in Row /\ row.version = held.version /\ row.results = held.results
    BY <1>1, <1>6, EndedFacts DEF NothingCollected, Finish, Working
  <2>3. Store(r, row, "ending")
    BY <2>1
  <2> HIDE DEF row
  <2>4. QED
    BY <1>3, <1>6, <2>2, <2>3 DEF NothingCollected, Finish, Working
<1>7. ASSUME NEW j \in Items, TakeItem(r, j) PROVE FALSE
  <2> DEFINE row == [held EXCEPT !.current = j]
  <2>1. row \in Row /\ row.version = held.version /\ row.results = held.results
    BY <1>1, <1>7 DEF TakeItem, Row, Working
  <2>2. Store(r, row, "item")
    BY <1>7 DEF TakeItem
  <2> HIDE DEF row
  <2>3. QED
    BY <1>3, <1>7, <2>1, <2>2 DEF TakeItem, Working
<1>8. ASSUME Filter(r) \/ Duplicate(r) \/ StoryTranslated(r) \/ IngestFails(r) PROVE FALSE
  BY <1>2, <1>8 DEF Filter, Duplicate, StoryTranslated, IngestFails, Outcome
<1>9. ASSUME Load(r) \/ Return(r) \/ Escapes(r) \/ WorkerFault(r) PROVE FALSE
  <2>1. run' = run /\ (job'[q].pc = "story" => job[q].pc = "story")
    BY <1>1, <1>9 DEF Load, Return, Escapes, WorkerFault, NoJob, Job
  <2>2. QED
    BY <2>1 DEF Takes, Owns
<1>10. ASSUME MarkCancelled(r) \/ MarkFailed(r) PROVE FALSE
  <2>1. PICK status \in Terminal, error \in Error : Marked(r, status, error)
    BY <1>10 DEF MarkCancelled, MarkFailed, Terminal, Error
  <2>2. CASE q # r
    BY <1>1, <2>1, <2>2 DEF Marked, Takes, Owns
  <2>3. CASE q = r
    <3>1. run'[r].results = run[r].results
      BY <1>1, <2>1, SavedFacts, EndedFacts DEF Marked
    <3>2. job'[r].pc # "story"
      BY <1>1, <2>1 DEF Marked, NoJob
    <3>3. QED
      BY <2>3, <3>1, <3>2 DEF Takes, Owns
  <2>4. QED
    BY <2>2, <2>3
<1>11. ASSUME StoryCreated(r) PROVE q = r /\ i = run[r].current
  <2>1. run' = run /\ job' = [job EXCEPT ![r].pc = "story"]
    BY <1>11 DEF StoryCreated
  <2>2. q # r => job'[q] = job[q]
    BY <1>1, <2>1
  <2>3. QED
    BY <2>1, <2>2 DEF Takes, Owns
<1>12. QED
  BY <1>4, <1>5, <1>6, <1>7, <1>8, <1>9, <1>10, <1>11 DEF WorkerStep

\* So does any step: requests, recovery and the process own nothing new.
LEMMA Taking ==
    ASSUME IInv, Next, NEW q \in Runs, NEW i \in Items, Takes(q, i)
    PROVE  StoryCreated(q) /\ i = run[q].current
<1>1. run \in [Runs -> Row] /\ job \in [Runs -> Job]
  BY DEF IInv, TypeOK
<1>2. ASSUME run'[q].results \subseteq run[q].results,
             job'[q].pc = "story" => job[q].pc = "story" /\ run'[q].current = run[q].current
      PROVE  FALSE
  BY <1>2 DEF Takes, Owns
<1>3. ASSUME NEW c \in Callers, StartStep(c) PROVE FALSE
  <2>1. ASSUME NEW r \in Runs, Create(c, r) PROVE FALSE
    <3>1. CASE q # r
      BY <1>1, <1>2, <2>1, <3>1 DEF Create
    <3>2. CASE q = r
      <4>1. run'[q].results = {}
        BY <1>1, <2>1, <3>2 DEF Create, Queued
      <4>2. job'[q].pc = "created"
        BY <1>1, <2>1, <3>2 DEF Create, NoJob
      <4>3. QED
        BY <1>2, <4>1, <4>2
    <3>3. QED
      BY <3>1, <3>2
  <2>2. QED
    BY <1>2, <1>3, <2>1 DEF StartStep, Look, SourceIsIdle, StartRefused, StartFails
<1>4. ASSUME NEW c \in Callers, CancelMarks(c) PROVE FALSE
  <2> DEFINE r == call[c].run
             held == call[c].held
  <2>1. CASE q # r \/ run[r].version # held.version
    BY <1>1, <1>2, <1>4, <2>1 DEF CancelMarks
  <2>2. CASE q = r /\ run[r].version = held.version
    <3>1. held = run[q] /\ run[q] \in Row /\ job[q].pc = "none" /\ job' = job
      BY <1>1, <1>4, <2>2 DEF CancelMarks, IInv, CancelOK
    <3>2. run'[q] = Saved(Ended(run[q], "CANCELLED", "operator_cancelled"))
      BY <1>1, <1>4, <2>2, <3>1 DEF CancelMarks
    <3>3. run'[q].results = run[q].results
      BY <3>1, <3>2, SavedFacts, EndedFacts DEF Terminal, Error
    <3>4. QED
      BY <1>2, <3>1, <3>3
  <2>3. QED
    BY <2>1, <2>2
<1>5. ASSUME NEW c \in Callers, CancelStep(c) PROVE FALSE
  BY <1>2, <1>4, <1>5 DEF CancelStep, CancelReads, CancelFails
<1>6. ASSUME NEW r \in Runs, Recover(r) PROVE FALSE
  <2>1. job' = job /\ job[q].pc = "none"
    BY <1>6 DEF Recover, IInv, Offline, NoJob
  <2>2. q # r => run'[q] = run[q]
    BY <1>1, <1>6 DEF Recover
  <2>3. q = r => run'[q].results = run[q].results
    BY <1>1, <1>6, SavedFacts, EndedFacts DEF Recover, Terminal, Error
  <2>4. QED
    BY <1>2, <2>1, <2>2, <2>3
<1>7. ASSUME NEW c \in Callers, Request(c) \/ \E s \in Sources : StartIfIdle(c, s)
      PROVE  FALSE
  <2>1. ASSUME NEW r \in Runs, RequestCancel(c, r) PROVE FALSE
    <3>1. Interrupted(job[r]).pc # "story"
      BY <1>1, InterruptedFacts DEF NoJob, Working
    <3>2. run' = run /\ job' = [job EXCEPT ![r] = Interrupted(job[r])]
      BY <2>1 DEF RequestCancel
    <3>3. job'[q].pc = "story" => job[q].pc = "story"
      BY <1>1, <3>1, <3>2
    <3>4. QED
      BY <1>2, <3>2, <3>3
  <2>2. QED
    BY <1>2, <1>7, <2>1 DEF Request, Start, StartIfIdle
<1>8. CASE Close \/ Closed \/ Crash
  <2>1. job'[q].pc # "story" /\ run' = run
    BY <1>1, <1>8, InterruptedFacts DEF Close, Closed, Crash, Exit, NoJob, Working
  <2>2. QED
    BY <1>2, <2>1
<1>9. CASE Restart \/ Open
  BY <1>2, <1>9 DEF Restart, Open
<1>10. ASSUME NEW r \in Runs, WorkerStep(r) \/ WorkerFault(r)
       PROVE  StoryCreated(q) /\ i = run[q].current
  BY <1>10, WorkerTakes
<1>11. QED
  BY <1>3, <1>5, <1>6, <1>7, <1>8, <1>9, <1>10 DEF Next, RecoveryStep

\* Stories are never taken back.
LEMMA StoriesStay == Next => known \subseteq known'
BY DEF Next, WorkerStep, WorkerFault, Load, Begin, Collected, NothingCollected, TakeItem,
   Filter, StoryCreated, Duplicate, StoryTranslated, IngestFails, Finish, Return, Escapes,
   MarkCancelled, MarkFailed, StartStep, Look, SourceIsIdle, StartRefused, Create, StartFails,
   CancelStep, CancelReads, CancelMarks, CancelFails, Request, Start, RequestCancel,
   StartIfIdle, Close, Closed, Crash, Exit, Restart, RecoveryStep, Recover, Open

(* Whatever overlaps, is cancelled, crashes and starts again, no item is
   reported as ingested by two runs.                                          *)
THEOREM ItemsIngestedOnce == Spec => []IngestedOnce
<1>1. Init => IngestInv
  <2>1. Absent.results = {} /\ NoJob.pc = "none"
    BY DEF Absent, Queued, NoJob
  <2>2. ASSUME Init, NEW q \in Runs, NEW i \in Items PROVE ~Owns(q, i)
    BY <2>1, <2>2 DEF Init, Owns
  <2>3. QED
    BY <2>2, Initially DEF IngestInv
<1>2. ASSUME IngestInv, Next PROVE IngestInv'
  <2>1. IInv /\ IInv'
    BY <1>2, NextKeeps DEF IngestInv
  <2>2. ASSUME NEW q \in Runs, NEW i \in Items, Takes(q, i)
        PROVE  i \notin known /\ i \in known'
    <3>1. StoryCreated(q) /\ i = run[q].current
      BY <1>2, <2>1, <2>2, Taking
    <3>2. job[q].held = run[q]
      BY <2>1, <3>1 DEF IInv, WorkerOK, StoryCreated, Working
    <3>3. QED
      BY <3>1, <3>2 DEF StoryCreated
  <2>3. ASSUME NEW q \in Runs, NEW i \in Items, Owns(q, i)' PROVE i \in known'
    BY <1>2, <2>2, <2>3, StoriesStay DEF IngestInv, Takes
  <2>4. ASSUME NEW q \in Runs, NEW r \in Runs, NEW i \in Items, Owns(q, i)', Owns(r, i)'
        PROVE  q = r
    <3>1. CASE ~Takes(q, i) /\ ~Takes(r, i)
      BY <1>2, <2>4, <3>1 DEF IngestInv, Takes
    <3>2. CASE Takes(q, i) /\ ~Takes(r, i)
      BY <1>2, <2>2, <2>4, <3>2 DEF IngestInv, Takes
    <3>3. CASE ~Takes(q, i) /\ Takes(r, i)
      BY <1>2, <2>2, <2>4, <3>3 DEF IngestInv, Takes
    <3>4. CASE Takes(q, i) /\ Takes(r, i)
      <4>1. StoryCreated(q) /\ StoryCreated(r)
        BY <1>2, <2>1, <3>4, Taking
      <4>2. /\ job' = [job EXCEPT ![q].pc = "story"] /\ job' = [job EXCEPT ![r].pc = "story"]
            /\ job[q].pc = "item" /\ job \in [Runs -> Job]
        BY <2>1, <4>1 DEF StoryCreated, IInv, TypeOK
      <4>3. QED
        BY <4>2 DEF Job
    <3>5. QED
      BY <3>1, <3>2, <3>3, <3>4
  <2>5. QED
    BY <2>1, <2>3, <2>4 DEF IngestInv
<1>3. ASSUME IngestInv, UNCHANGED vars PROVE IngestInv'
  <2>1. run' = run /\ known' = known /\ job' = job
    BY <1>3 DEF vars
  <2>2. IInv'
    BY <1>3, UnchangedKeeps DEF IngestInv
  <2>3. ASSUME NEW q \in Runs, NEW i \in Items PROVE Owns(q, i)' <=> Owns(q, i)
    BY <2>1 DEF Owns
  <2>4. QED
    BY <1>3, <2>1, <2>2, <2>3 DEF IngestInv
<1>4. IngestInv => IngestedOnce
  BY DEF IngestInv, IngestedOnce, Owns
<1>5. QED
  BY <1>1, <1>2, <1>3, <1>4, PTL DEF Spec

-----------------------------------------------------------------------------
(* What a row reports *)

\* A row is true of the stories there are: besides what ReportIsTrue says, one
\* that is not ended has no error yet, and one that is not ingesting no result.
RowTrue(row, stories) ==
    /\ \A x, y \in row.results : x[1] = y[1] => x = y
    /\ \A x \in row.results :
          /\ x[1] \in row.found
          /\ x[2] \in {"INGESTED", "DUPLICATE"} => x[1] \in stories
    /\ row.status \in {"ABSENT", "QUEUED", "COLLECTING"} => row.results = {}
    /\ row.status \notin Terminal => row.error = "none"
    /\ row.status = "COMPLETED" => Left(row) = {} /\ ~AllFailed(row)
    /\ row.error = "all_items_failed" => AllFailed(row)
    /\ row.status \in Terminal => row.current = None

\* The item a worker has in hand has no result yet; its story exists once the
\* workflow has created it.
WorkTrue(r) ==
    /\ job[r].pc \in {"item", "story"} => run[r].current \in Left(run[r])
    /\ job[r].pc = "story" => run[r].current \in known

Reports(r) == RowTrue(run[r], known) /\ WorkTrue(r)

ReportInv == IInv /\ \A r \in Runs : Reports(r)

\* Stories that are added take nothing from what a row says.
LEMMA RowTrueGrows ==
    ASSUME NEW row, NEW a, NEW b, a \subseteq b, RowTrue(row, a)
    PROVE  RowTrue(row, b)
BY DEF RowTrue

\* Neither does a save.
LEMMA RowTrueSaved ==
    ASSUME NEW row \in Row, NEW stories, RowTrue(row, stories)
    PROVE  RowTrue(Saved(row), stories) /\ Left(Saved(row)) = Left(row)
<1>1. Saved(row).found = row.found
  BY DEF Saved, Row
<1>2. Left(Saved(row)) = Left(row) /\ (AllFailed(Saved(row)) <=> AllFailed(row))
  BY <1>1, SavedFacts DEF Left, AllFailed
<1>3. QED
  BY <1>1, <1>2, SavedFacts DEF RowTrue

\* A run that is cut short says so, and keeps its results.
LEMMA RowTrueEnds ==
    ASSUME NEW row \in Row, NEW stories, RowTrue(row, stories), row.status \in Active,
           NEW status \in {"CANCELLED", "FAILED"}, NEW error \in Error,
           error # "all_items_failed"
    PROVE  RowTrue(Saved(Ended(row, status, error)), stories)
<1> DEFINE new == Ended(row, status, error)
<1>1. /\ new \in Row /\ new.status = status /\ new.error = error
      /\ new.results = row.results /\ new.found = row.found /\ new.current = None
  BY DEF Ended, Row, Terminal
<1> HIDE DEF new
<1>2. RowTrue(new, stories)
  BY <1>1 DEF RowTrue, Terminal
<1>3. QED
  BY <1>1, <1>2, RowTrueSaved DEF new

\* A worker saves a row that is true, with the item it takes still to do.
LEMMA StoreReports ==
    ASSUME ReportInv, NEW r \in Runs, job[r].pc \in Working, NEW row \in Row,
           NEW pc \in Working, row.version = job[r].held.version,
           RowTrue(row, known), pc # "story", pc = "item" => row.current \in Left(row),
           Store(r, row, pc), known' = known, NEW q \in Runs
    PROVE  Reports(q)'
<1>1. run \in [Runs -> Row] /\ job \in [Runs -> Job] /\ IInv /\ Reports(q)
  BY DEF ReportInv, IInv, TypeOK
<1>2. /\ run' = [run EXCEPT ![r] = Saved(row)]
      /\ job' = [job EXCEPT ![r] = [pc |-> pc, held |-> Saved(row)]]
  BY <1>1, StoreFacts
<1>3. CASE q # r
  BY <1>1, <1>2, <1>3 DEF Reports, WorkTrue
<1>4. CASE q = r
  <2>1. run'[q] = Saved(row) /\ job'[q].pc = pc
    BY <1>1, <1>2, <1>4
  <2>2. RowTrue(Saved(row), known) /\ Left(Saved(row)) = Left(row)
        /\ Saved(row).current = row.current
    BY RowTrueSaved, SavedFacts
  <2>3. QED
    BY <2>1, <2>2 DEF Reports, WorkTrue
<1>5. QED
  BY <1>3, <1>4

\* A result for the item in hand: it is the item's only one.
LEMMA RecordReports ==
    ASSUME ReportInv, NEW r \in Runs, job[r].pc \in {"item", "story"}, NEW outcome \in Outcome,
           outcome \in {"INGESTED", "DUPLICATE"} => run[r].current \in known,
           Record(r, outcome), known' = known, NEW q \in Runs
    PROVE  Reports(q)'
<1> DEFINE held == job[r].held
           row == [held EXCEPT !.results = @ \cup {<<held.current, outcome>>}]
<1>1. /\ held = run[r] /\ held \in Row /\ held.current \in Items
      /\ held.status = "INGESTING" /\ IInv
  BY DEF ReportInv, IInv, TypeOK, WorkerOK, Working, StatusAt
<1>2. RowTrue(held, known) /\ held.current \in Left(held)
  BY <1>1 DEF ReportInv, Reports, WorkTrue
<1>3. /\ row \in Row /\ row.version = held.version /\ row.status = "INGESTING"
      /\ row.results = held.results \cup {<<held.current, outcome>>}
      /\ row.found = held.found /\ row.error = held.error /\ row.current = held.current
  BY <1>1 DEF Row
<1>4. Store(r, row, "ingesting")
  BY DEF Record
<1> HIDE DEF row
<1>5. \A x \in held.results : x[1] # held.current
  <2>1. \A x \in held.results : x \in Items \X Outcome
    BY <1>1 DEF Row
  <2>2. \A x \in held.results : x = <<x[1], x[2]>> /\ x[2] \in Outcome
    BY <2>1
  <2>3. \A o \in Outcome : <<held.current, o>> \notin held.results
    BY <1>2 DEF Left
  <2>4. QED
    BY <2>2, <2>3
<1>6. RowTrue(row, known)
  <2>1. \A x, y \in row.results : x[1] = y[1] => x = y
    BY <1>2, <1>3, <1>5 DEF RowTrue
  <2>2. \A x \in row.results :
           x[1] \in row.found /\ (x[2] \in {"INGESTED", "DUPLICATE"} => x[1] \in known)
    BY <1>1, <1>2, <1>3 DEF RowTrue, Left
  <2>3. QED
    BY <1>1, <1>2, <1>3, <2>1, <2>2 DEF RowTrue, Terminal
<1>7. QED
  BY <1>3, <1>4, <1>6, StoreReports DEF Working

\* The reports after a worker's step.
LEMMA WorkerReports ==
    ASSUME ReportInv, NEW r \in Runs, WorkerStep(r) \/ WorkerFault(r), NEW q \in Runs
    PROVE  Reports(q)'
<1> DEFINE held == job[r].held
<1>1. /\ run[r] \in Row /\ run \in [Runs -> Row] /\ job \in [Runs -> Job] /\ IInv
      /\ job[r].pc \in Working => held = run[r] /\ held \in Row
                                 /\ held.status \in StatusAt(job[r].pc)
      /\ \A p \in Runs : RowTrue(run[p], known) /\ WorkTrue(p)
  BY DEF ReportInv, Reports, IInv, TypeOK, WorkerOK, Working
<1>2. ASSUME Begin(r) PROVE Reports(q)'
  <2> DEFINE row == [held EXCEPT !.status = "COLLECTING"]
  <2>1. job[r].pc = "begun" /\ Store(r, row, "collecting") /\ known' = known
    BY <1>2 DEF Begin
  <2>2. /\ row \in Row /\ row.version = held.version /\ row.status = "COLLECTING"
        /\ row.results = held.results /\ row.found = held.found /\ row.error = held.error
        /\ held.status = "QUEUED" /\ held = run[r]
    BY <1>1, <2>1 DEF Row, Working, Active, StatusAt
  <2> HIDE DEF row
  <2>3. RowTrue(row, known)
    BY <1>1, <2>2 DEF RowTrue, Terminal
  <2>4. QED
    BY <2>1, <2>2, <2>3, StoreReports DEF Working
<1>3. ASSUME NEW found \in SUBSET Items, Collected(r, found) PROVE Reports(q)'
  <2> DEFINE row == [held EXCEPT !.status = "INGESTING", !.found = found]
             pc == IF found = {} THEN "empty" ELSE "ingesting"
  <2>1. job[r].pc = "collecting" /\ Store(r, row, pc) /\ known' = known
        /\ pc \in {"empty", "ingesting"}
    BY <1>3 DEF Collected
  <2>2. /\ row \in Row /\ row.version = held.version /\ row.status = "INGESTING"
        /\ row.results = held.results /\ row.error = held.error
        /\ held.status = "COLLECTING" /\ held = run[r]
    BY <1>1, <2>1 DEF Row, Working, Active, StatusAt
  <2> HIDE DEF row, pc
  <2>3. RowTrue(row, known)
    BY <1>1, <2>2 DEF RowTrue, Terminal
  <2>4. QED
    BY <2>1, <2>2, <2>3, StoreReports DEF Working
<1>4. ASSUME NEW status \in {"FAILED", "COMPLETED"}, NEW error \in Error,
             job[r].pc \in {"empty", "ingesting"},
             Store(r, Ended(held, status, error), "ending"), known' = known,
             status = "COMPLETED" => Left(held) = {} /\ ~AllFailed(held),
             error = "all_items_failed" => AllFailed(held)
      PROVE  Reports(q)'
  <2> DEFINE row == Ended(held, status, error)
  <2>1. held = run[r] /\ held \in Row
    BY <1>1, <1>4 DEF Working
  <2>2. /\ row \in Row /\ row.version = held.version /\ row.status = status
        /\ row.results = held.results /\ row.found = held.found /\ row.error = error
        /\ row.current = None
    BY <2>1 DEF Ended, Row, Terminal
  <2>3. Store(r, row, "ending")
    BY <1>4
  <2> HIDE DEF row
  <2>4. Left(row) = Left(held) /\ (AllFailed(row) <=> AllFailed(held))
    BY <2>2 DEF Left, AllFailed
  <2>5. RowTrue(row, known)
    BY <1>1, <1>4, <2>1, <2>2, <2>4 DEF RowTrue, Terminal
  <2>6. QED
    BY <1>4, <2>2, <2>3, <2>5, StoreReports DEF Working
<1>5. ASSUME NothingCollected(r) PROVE Reports(q)'
  BY <1>4, <1>5 DEF NothingCollected, Error
<1>6. ASSUME Finish(r) PROVE Reports(q)'
  <2>1. CASE AllFailed(held)
    BY <1>4, <1>6, <2>1 DEF Finish, Error
  <2>2. CASE ~AllFailed(held)
    BY <1>4, <1>6, <2>2 DEF Finish, Error
  <2>3. QED
    BY <2>1, <2>2
<1>7. ASSUME NEW i \in Items, TakeItem(r, i) PROVE Reports(q)'
  <2> DEFINE row == [held EXCEPT !.current = i]
  <2>1. /\ job[r].pc = "ingesting" /\ i \in Left(held)
        /\ Store(r, row, "item") /\ known' = known
    BY <1>7 DEF TakeItem
  <2>2. /\ row \in Row /\ row.version = held.version /\ row.status = "INGESTING"
        /\ row.results = held.results /\ row.found = held.found /\ row.error = held.error
        /\ row.current = i /\ held.status = "INGESTING" /\ held = run[r]
    BY <1>1, <2>1 DEF Row, Working, StatusAt
  <2> HIDE DEF row
  <2>3. RowTrue(row, known) /\ i \in Left(row)
    BY <1>1, <2>1, <2>2 DEF RowTrue, Terminal, Left
  <2>4. QED
    BY <2>1, <2>2, <2>3, StoreReports DEF Working
<1>8. ASSUME Filter(r) \/ Duplicate(r) \/ StoryTranslated(r) \/ IngestFails(r)
      PROVE  Reports(q)'
  <2>1. job[r].pc = "item" \/ job[r].pc = "story"
    BY <1>8 DEF Filter, Duplicate, StoryTranslated, IngestFails
  <2>2. held = run[r] /\ (job[r].pc = "story" => run[r].current \in known)
    BY <1>1, <2>1 DEF Working, WorkTrue
  <2>3. QED
    BY <1>8, <2>1, <2>2, RecordReports
       DEF Filter, Duplicate, StoryTranslated, IngestFails, Outcome
<1>9. ASSUME Load(r) \/ Return(r) \/ Escapes(r) \/ WorkerFault(r) PROVE Reports(q)'
  <2>1. /\ run' = run /\ known' = known
        /\ job'[q].pc \in {"item", "story"} => job'[q].pc = job[q].pc
    BY <1>1, <1>9 DEF Load, Return, Escapes, WorkerFault, NoJob, Job
  <2>2. QED
    BY <1>1, <2>1 DEF Reports, WorkTrue
<1>10. ASSUME StoryCreated(r) PROVE Reports(q)'
  <2>1. /\ run' = run /\ job' = [job EXCEPT ![r].pc = "story"] /\ job[r].pc = "item"
        /\ known' = known \cup {held.current}
    BY <1>10 DEF StoryCreated
  <2>2. held = run[r]
    BY <1>1, <2>1 DEF Working
  <2>3. RowTrue(run'[q], known')
    BY <1>1, <2>1, RowTrueGrows
  <2>4. WorkTrue(q)'
    <3>1. CASE q = r
      BY <1>1, <2>1, <2>2, <3>1 DEF WorkTrue
    <3>2. CASE q # r
      <4>1. job'[q] = job[q]
        BY <1>1, <2>1, <3>2
      <4>2. QED
        BY <1>1, <2>1, <4>1 DEF WorkTrue
    <3>3. QED
      BY <3>1, <3>2
  <2>5. QED
    BY <2>3, <2>4 DEF Reports
<1>11. ASSUME MarkCancelled(r) \/ MarkFailed(r) PROVE Reports(q)'
  <2>1. PICK status \in {"CANCELLED", "FAILED"}, error \in Error :
            Marked(r, status, error) /\ error # "all_items_failed"
    BY <1>11 DEF MarkCancelled, MarkFailed, Error
  <2>2. known' = known /\ run[r].status # "ABSENT"
    BY <1>1, <1>11 DEF MarkCancelled, MarkFailed, IInv, WorkerOK
  <2>3. CASE q # r
    BY <1>1, <2>1, <2>2, <2>3 DEF Marked, Reports, WorkTrue
  <2>4. CASE q = r
    <3>1. run'[r] = run[r] \/ /\ run[r].status \in Active
                              /\ run'[r] = Saved(Ended(run[r], status, error))
      BY <1>1, <2>1, <2>2 DEF Marked, Row
    <3>2. RowTrue(run'[r], known)
      BY <1>1, <2>1, <3>1, RowTrueEnds
    <3>3. job'[r].pc = "none"
      BY <1>1, <2>1 DEF Marked, NoJob
    <3>4. QED
      BY <2>2, <2>4, <3>2, <3>3 DEF Reports, WorkTrue
  <2>5. QED
    BY <2>3, <2>4
<1>12. QED
  BY <1>2, <1>3, <1>5, <1>6, <1>7, <1>8, <1>9, <1>10, <1>11 DEF WorkerStep

\* The reports after any step.
LEMMA StepReports ==
    ASSUME ReportInv, Next, NEW q \in Runs
    PROVE  Reports(q)'
<1>1. run \in [Runs -> Row] /\ job \in [Runs -> Job] /\ IInv
      /\ \A p \in Runs : RowTrue(run[p], known) /\ WorkTrue(p)
  BY DEF ReportInv, Reports, IInv, TypeOK
<1>2. ASSUME run'[q] = run[q], known' = known,
             job'[q].pc \in {"item", "story"} => job'[q].pc = job[q].pc
      PROVE  Reports(q)'
  BY <1>1, <1>2 DEF Reports, WorkTrue
<1>3. ASSUME NEW c \in Callers, StartStep(c) PROVE Reports(q)'
  <2>1. ASSUME NEW r \in Runs, Create(c, r) PROVE Reports(q)'
    <3>1. known' = known
      BY <2>1 DEF Create
    <3>2. CASE q # r
      BY <1>1, <2>1, <3>1, <3>2 DEF Create, Reports, WorkTrue
    <3>3. CASE q = r
      <4>1. /\ run'[q].results = {} /\ run'[q].status = "QUEUED" /\ run'[q].error = "none"
            /\ job'[q].pc = "created"
        BY <1>1, <2>1, <3>3 DEF Create, Queued, NoJob
      <4>2. QED
        BY <3>1, <4>1 DEF Reports, WorkTrue, RowTrue, Terminal
    <3>4. QED
      BY <3>2, <3>3
  <2>2. QED
    BY <1>2, <1>3, <2>1 DEF StartStep, Look, SourceIsIdle, StartRefused, StartFails
<1>4. ASSUME NEW c \in Callers, CancelMarks(c) PROVE Reports(q)'
  <2> DEFINE r == call[c].run
             held == call[c].held
  <2>1. known' = known /\ job' = job
    BY <1>4 DEF CancelMarks
  <2>2. CASE q # r \/ run[r].version # held.version
    BY <1>1, <1>2, <1>4, <2>1, <2>2 DEF CancelMarks
  <2>3. CASE q = r /\ run[r].version = held.version
    <3>1. held = run[q] /\ run[q] \in Row /\ job[q].pc = "none" /\ run[q].status \in Active
      BY <1>1, <1>4, <2>3 DEF CancelMarks, IInv, CancelOK
    <3>2. run'[q] = Saved(Ended(run[q], "CANCELLED", "operator_cancelled"))
      BY <1>1, <1>4, <2>3, <3>1 DEF CancelMarks
    <3>3. RowTrue(run'[q], known)
      BY <1>1, <3>1, <3>2, RowTrueEnds DEF Error
    <3>4. QED
      BY <2>1, <3>1, <3>3 DEF Reports, WorkTrue
  <2>4. QED
    BY <2>2, <2>3
<1>5. ASSUME NEW c \in Callers, CancelStep(c) PROVE Reports(q)'
  BY <1>2, <1>4, <1>5 DEF CancelStep, CancelReads, CancelFails
<1>6. ASSUME NEW r \in Runs, Recover(r) PROVE Reports(q)'
  <2>1. job' = job /\ job[q].pc = "none" /\ known' = known /\ run[r].status \in Active
    BY <1>1, <1>6 DEF Recover, IsActive, IInv, Offline, NoJob
  <2>2. CASE q # r
    BY <1>1, <1>2, <1>6, <2>1, <2>2 DEF Recover
  <2>3. CASE q = r
    <3>1. run'[q] = Saved(Ended(run[q], "FAILED", "interrupted_by_restart"))
      BY <1>1, <1>6, <2>3 DEF Recover
    <3>2. RowTrue(run'[q], known)
      BY <1>1, <2>1, <2>3, <3>1, RowTrueEnds DEF Error
    <3>3. QED
      BY <2>1, <3>2 DEF Reports, WorkTrue
  <2>4. QED
    BY <2>2, <2>3
<1>7. ASSUME NEW c \in Callers, Request(c) \/ \E s \in Sources : StartIfIdle(c, s)
      PROVE  Reports(q)'
  <2>1. ASSUME NEW r \in Runs, RequestCancel(c, r) PROVE Reports(q)'
    <3>1. Interrupted(job[r]).pc \notin {"item", "story"}
      BY <1>1, InterruptedFacts DEF NoJob, Working
    <3>2. run' = run /\ known' = known /\ job' = [job EXCEPT ![r] = Interrupted(job[r])]
      BY <2>1 DEF RequestCancel
    <3>3. job'[q].pc \in {"item", "story"} => job'[q].pc = job[q].pc
      BY <1>1, <3>1, <3>2
    <3>4. QED
      BY <1>2, <3>2, <3>3
  <2>2. QED
    BY <1>2, <1>7, <2>1 DEF Request, Start, StartIfIdle
<1>8. CASE Close \/ Closed \/ Crash
  <2>1. job'[q].pc \notin {"item", "story"} /\ run' = run /\ known' = known
    BY <1>1, <1>8, InterruptedFacts DEF Close, Closed, Crash, Exit, NoJob, Working
  <2>2. QED
    BY <1>2, <2>1
<1>9. CASE Restart \/ Open
  BY <1>2, <1>9 DEF Restart, Open
<1>10. QED
  BY <1>3, <1>5, <1>6, <1>7, <1>8, <1>9, WorkerReports DEF Next, RecoveryStep

(* What the rows report is true of what happened, whatever overlaps, fails, is
   cancelled, crashes and starts again.                                       *)
THEOREM ReportsAreTrue == Spec => []ReportIsTrue
<1>1. Init => ReportInv
  <2>1. /\ Absent.results = {} /\ Absent.status = "ABSENT" /\ Absent.error = "none"
        /\ NoJob.pc = "none"
    BY DEF Absent, Queued, NoJob
  <2>2. ASSUME Init, NEW q \in Runs PROVE Reports(q)
    BY <2>1, <2>2 DEF Init, Reports, RowTrue, WorkTrue, Terminal
  <2>3. QED
    BY <2>2, Initially DEF ReportInv
<1>2. ASSUME ReportInv, [Next]_vars PROVE ReportInv'
  <2>1. CASE Next
    BY <1>2, <2>1, NextKeeps, StepReports DEF ReportInv
  <2>2. CASE UNCHANGED vars
    <3>1. run' = run /\ known' = known /\ job' = job
      BY <2>2 DEF vars
    <3>2. IInv'
      BY <1>2, <2>2, UnchangedKeeps DEF ReportInv
    <3>3. QED
      BY <1>2, <3>1, <3>2 DEF ReportInv, Reports, WorkTrue
  <2>3. QED
    BY <1>2, <2>1, <2>2
<1>3. ReportInv => ReportIsTrue
  BY DEF ReportInv, Reports, RowTrue, ReportIsTrue
<1>4. QED
  BY <1>1, <1>2, <1>3, PTL DEF Spec

-----------------------------------------------------------------------------
(* What a cancel request is answered with *)

\* A request that finds its copy out of date finds an ended row.
MarkOK(c) ==
    call[c].pc = "marking" /\ call[c].held.version # run[call[c].run].version =>
        run[call[c].run].status \in Terminal

AnswerInv == IInv /\ \A c \in Callers : MarkOK(c)

\* Nobody moves the row of a run without a task, except to its end.
LEMMA IdleRow ==
    ASSUME IInv, Next, NEW r \in Runs, job[r].pc = "none", run[r].status # "ABSENT"
    PROVE  run'[r] = run[r] \/ run'[r].status \in Terminal
<1>1. run \in [Runs -> Row]
  BY DEF IInv, TypeOK
<1>2. ASSUME NEW q \in Runs, WorkerStep(q) \/ WorkerFault(q)
      PROVE  run'[r] = run[r]
  <2>1. q # r
    BY <1>2 DEF WorkerStep, WorkerFault, Load, Begin, Collected, NothingCollected, TakeItem,
       Filter, StoryCreated, Duplicate, StoryTranslated, IngestFails, Finish, Return, Escapes,
       MarkCancelled, MarkFailed, Live
  <2>2. \A row \in {run[q]} : run' = [run EXCEPT ![q] = row] => run'[r] = run[r]
    BY <1>1, <2>1
  <2>3. ASSUME NEW row, NEW pc, Store(q, row, pc) PROVE run'[r] = run[r]
    BY <1>1, <2>1, <2>3 DEF Store
  <2>4. ASSUME NEW status, NEW error, Marked(q, status, error) PROVE run'[r] = run[r]
    BY <1>1, <2>1, <2>4 DEF Marked
  <2>5. CASE run' = run
    BY <2>5
  <2>6. CASE WorkerFault(q) \/ Load(q) \/ StoryCreated(q) \/ Return(q) \/ Escapes(q)
    BY <2>5, <2>6 DEF WorkerFault, Load, StoryCreated, Return, Escapes
  <2>7. CASE Begin(q) \/ NothingCollected(q) \/ Finish(q)
    BY <2>3, <2>7 DEF Begin, NothingCollected, Finish
  <2>8. CASE Filter(q) \/ Duplicate(q) \/ StoryTranslated(q) \/ IngestFails(q)
    BY <2>3, <2>8 DEF Filter, Duplicate, StoryTranslated, IngestFails, Record
  <2>9. CASE \E found \in SUBSET Items : Collected(q, found)
    BY <2>3, <2>9 DEF Collected
  <2>10. CASE \E i \in Items : TakeItem(q, i)
    BY <2>3, <2>10 DEF TakeItem
  <2>11. CASE MarkCancelled(q) \/ MarkFailed(q)
    BY <2>4, <2>11 DEF MarkCancelled, MarkFailed
  <2>12. QED
    BY <1>2, <2>6, <2>7, <2>8, <2>9, <2>10, <2>11 DEF WorkerStep
<1>3. ASSUME NEW c \in Callers, StartStep(c) PROVE run'[r] = run[r]
  BY <1>1, <1>3 DEF StartStep, Look, SourceIsIdle, StartRefused, Create, StartFails
<1>4. ASSUME NEW c \in Callers, CancelStep(c)
      PROVE  run'[r] = run[r] \/ run'[r].status \in Terminal
  <2>1. CASE CancelMarks(c) /\ call[c].run = r /\ run[r].version = call[c].held.version
    <3>1. call[c].held = run[r] /\ run[r] \in Row
      BY <1>1, <2>1 DEF CancelMarks, IInv, CancelOK
    <3>2. run'[r] = Saved(Ended(run[r], "CANCELLED", "operator_cancelled"))
      BY <1>1, <2>1, <3>1 DEF CancelMarks
    <3>3. QED
      BY <3>1, <3>2, SavedFacts, EndedFacts DEF Terminal, Error
  <2>2. CASE CancelMarks(c) /\ ~(call[c].run = r /\ run[r].version = call[c].held.version)
    BY <1>1, <2>2 DEF CancelMarks
  <2>3. QED
    BY <1>4, <2>1, <2>2 DEF CancelStep, CancelReads, CancelFails
<1>5. ASSUME NEW q \in Runs, Recover(q) PROVE run'[r] = run[r] \/ run'[r].status \in Terminal
  <2>1. q = r => run'[r] = Saved(Ended(run[r], "FAILED", "interrupted_by_restart"))
    BY <1>1, <1>5 DEF Recover
  <2>2. q # r => run'[r] = run[r]
    BY <1>1, <1>5 DEF Recover
  <2>3. QED
    BY <1>1, <2>1, <2>2, SavedFacts, EndedFacts DEF Terminal, Error
<1>6. ASSUME NEW c \in Callers, Request(c) \/ \E s \in Sources : StartIfIdle(c, s)
      PROVE  run' = run
  BY <1>6 DEF Request, Start, RequestCancel, StartIfIdle
<1>7. CASE Close \/ Closed \/ Crash \/ Restart \/ Open
  BY <1>7 DEF Close, Closed, Crash, Exit, Restart, Open
<1>8. QED
  BY <1>2, <1>3, <1>4, <1>5, <1>6, <1>7 DEF Next, RecoveryStep

\* What a step does to a request that is cancelling: it waits on, it is answered
\* with the row it finds, it reads an active row, it marks, it fails, or the
\* process is gone.
LEMMA CancelMoves ==
    ASSUME IInv, Next, NEW c \in Callers, call[c].pc \in {"waiting", "marking"}
    PROVE  \/ call'[c] = call[c]
           \/ CancelReads(c) \/ CancelMarks(c) \/ CancelFails(c)
           \/ service' = "down" /\ call'[c] = IdleCall
<1>1. call \in [Callers -> Call]
  BY DEF IInv, TypeOK
<1>2. ASSUME NEW r \in Runs, WorkerStep(r) \/ WorkerFault(r) \/ Recover(r) PROVE call' = call
  BY <1>2 DEF WorkerStep, WorkerFault, Recover, Load, Begin, Collected, NothingCollected,
     TakeItem, Filter, StoryCreated, Duplicate, StoryTranslated, IngestFails, Finish, Return,
     Escapes, MarkCancelled, MarkFailed
<1>3. ASSUME NEW d \in Callers, StartStep(d) PROVE call'[c] = call[c]
  BY <1>1, <1>3 DEF StartStep, Look, SourceIsIdle, StartRefused, Create, StartFails
<1>4. ASSUME NEW d \in Callers, Request(d) \/ \E s \in Sources : StartIfIdle(d, s)
      PROVE  call'[c] = call[c]
  BY <1>1, <1>4 DEF Request, Start, RequestCancel, StartIfIdle, Idle
<1>5. ASSUME NEW d \in Callers, CancelStep(d), d # c PROVE call'[c] = call[c]
  BY <1>1, <1>5 DEF CancelStep, CancelReads, CancelMarks, CancelFails
<1>6. CASE CancelStep(c)
  BY <1>6 DEF CancelStep
<1>7. CASE Close \/ Restart \/ Open
  BY <1>7 DEF Close, Restart, Open
<1>8. CASE Closed \/ Crash
  BY <1>8 DEF Closed, Crash, Exit
<1>9. QED
  BY <1>2, <1>3, <1>4, <1>5, <1>6, <1>7, <1>8 DEF Next, RecoveryStep

\* A request marks only after it has waited.
LEMMA OnlyWaitersMark ==
    ASSUME IInv, Next, NEW c \in Callers, call[c].pc \notin {"waiting", "marking"}
    PROVE  call'[c].pc # "marking"
<1>1. call \in [Callers -> Call] /\ IdleCall.pc = "idle"
  BY DEF IInv, TypeOK, IdleCall
<1>2. ASSUME NEW r \in Runs, WorkerStep(r) \/ WorkerFault(r) \/ Recover(r) PROVE call' = call
  BY <1>2 DEF WorkerStep, WorkerFault, Recover, Load, Begin, Collected, NothingCollected,
     TakeItem, Filter, StoryCreated, Duplicate, StoryTranslated, IngestFails, Finish, Return,
     Escapes, MarkCancelled, MarkFailed
<1>3. ASSUME NEW d \in Callers, NEW new, call' = [call EXCEPT ![d] = new], new.pc # "marking"
      PROVE  call'[c].pc # "marking"
  BY <1>1, <1>3
<1>4. ASSUME NEW d \in Callers, StartStep(d) PROVE call'[c].pc # "marking"
  <2>1. CASE Look(d)
    <3>1. call' = [call EXCEPT ![d].look = NextLook[call[d].look]]
      BY <2>1 DEF Look
    <3>2. QED
      BY <1>1, <3>1 DEF Call
  <2>2. CASE SourceIsIdle(d)
    <3>1. call' = [call EXCEPT ![d].pc = "creating"]
      BY <2>2 DEF SourceIsIdle
    <3>2. QED
      BY <1>1, <3>1 DEF Call
  <2>3. CASE StartRefused(d) \/ (\E r \in Runs : Create(d, r)) \/ StartFails(d)
    BY <1>1, <1>3, <2>3 DEF StartRefused, Create, StartFails
  <2>4. QED
    BY <1>4, <2>1, <2>2, <2>3 DEF StartStep
<1>5. ASSUME NEW d \in Callers, Request(d) \/ \E s \in Sources : StartIfIdle(d, s)
      PROVE  call'[c].pc # "marking"
  <2>1. ASSUME NEW s \in Sources, Start(d, s) PROVE call'[c].pc # "marking"
    BY <1>1, <2>1 DEF Start, IdleCall
  <2>2. ASSUME NEW r \in Runs, RequestCancel(d, r) PROVE call'[c].pc # "marking"
    BY <1>1, <2>2 DEF RequestCancel, IdleCall
  <2>3. ASSUME NEW s \in Sources, StartIfIdle(d, s) PROVE call'[c].pc # "marking"
    BY <1>1, <2>3 DEF StartIfIdle, IdleCall
  <2>4. QED
    BY <1>5, <2>1, <2>2, <2>3 DEF Request
<1>6. ASSUME NEW d \in Callers, CancelStep(d) PROVE call'[c].pc # "marking"
  <2>1. d # c
    BY <1>6 DEF CancelStep, CancelReads, CancelMarks, CancelFails
  <2>2. call'[c] = call[c]
    BY <1>1, <1>6, <2>1 DEF CancelStep, CancelReads, CancelMarks, CancelFails
  <2>3. QED
    BY <2>2
<1>7. CASE Close \/ Restart \/ Open
  BY <1>7 DEF Close, Restart, Open
<1>8. CASE Closed \/ Crash
  BY <1>1, <1>8 DEF Closed, Crash, Exit
<1>9. QED
  BY <1>2, <1>4, <1>5, <1>6, <1>7, <1>8 DEF Next, RecoveryStep

\* An out-of-date copy stays one of an ended row.
LEMMA AnswerKeeps ==
    ASSUME AnswerInv, Next
    PROVE  AnswerInv'
<1>1. IInv /\ IInv' /\ run \in [Runs -> Row] /\ run' \in [Runs -> Row]
  BY NextKeeps DEF AnswerInv, IInv, TypeOK
<1>2. ASSUME NEW c \in Callers, call'[c].pc = "marking",
             call'[c].held.version # run'[call'[c].run].version
      PROVE  run'[call'[c].run].status \in Terminal
  <2>1. call'[c] = call[c] \/ CancelReads(c)
    <3>1. CASE call[c].pc \in {"waiting", "marking"}
      <4>1. CancelMarks(c) \/ CancelFails(c) \/ call'[c] = IdleCall => call'[c].pc = "idle"
        BY <1>1 DEF CancelMarks, CancelFails, IdleCall, IInv, TypeOK
      <4>2. QED
        BY <1>1, <1>2, <3>1, <4>1, CancelMoves
    <3>2. CASE call[c].pc \notin {"waiting", "marking"}
      BY <1>1, <1>2, <3>2, OnlyWaitersMark
    <3>3. QED
      BY <3>1, <3>2
  <2>2. CASE CancelReads(c)
    <3>1. call'[c].held = run[call[c].run] /\ call'[c].run = call[c].run /\ run' = run
      BY <1>1, <1>2, <2>2 DEF CancelReads, IdleCall, IInv, TypeOK, Call
    <3>2. QED
      BY <1>2, <3>1
  <2>3. CASE call'[c] = call[c]
    <3> DEFINE r == call[c].run
    <3>1. r \in Runs /\ job[r].pc = "none" /\ run[r].status # "ABSENT"
      BY <1>1, <1>2, <2>3 DEF IInv, CancelOK
    <3>2. run'[r] = run[r] \/ run'[r].status \in Terminal
      BY <1>1, <3>1, IdleRow
    <3>3. run'[r] = run[r] => run[r].status \in Terminal
      BY <1>2, <2>3 DEF AnswerInv, MarkOK
    <3>4. QED
      BY <2>3, <3>2, <3>3
  <2>4. QED
    BY <2>1, <2>2, <2>3
<1>3. QED
  BY <1>1, <1>2 DEF AnswerInv, MarkOK

\* What answers rest on holds in every reachable state.
LEMMA AnswerInvariance == Spec => []AnswerInv
<1>1. Init => AnswerInv
  BY Initially DEF AnswerInv, MarkOK, Init, IdleCall
<1>2. AnswerInv /\ [Next]_vars => AnswerInv'
  <2>1. ASSUME AnswerInv, UNCHANGED vars PROVE AnswerInv'
    <3>1. run' = run /\ call' = call
      BY <2>1 DEF vars
    <3>2. QED
      BY <2>1, <3>1, UnchangedKeeps DEF AnswerInv, MarkOK
  <2>2. QED
    BY <2>1, AnswerKeeps
<1>3. QED
  BY <1>1, <1>2, PTL DEF Spec

(* As long as the requests' own database calls succeed, a cancellation is
   answered with an ended row, whoever ended it.                              *)
THEOREM CancelsAreAnswered ==
    ASSUME "cancel" \notin DatabaseFaults
    PROVE  Spec => CancelIsAnswered
<1>1. ASSUME AnswerInv, [Next]_vars, NEW c \in Callers, call[c].pc \in {"waiting", "marking"},
             call'[c].pc = "idle", service' # "down"
      PROVE  run'[call[c].run].status \in Terminal
  <2> DEFINE r == call[c].run
  <2>1. /\ IInv /\ run \in [Runs -> Row] /\ call \in [Callers -> Call]
        /\ r \in Runs /\ run[r] \in Row /\ run[r].status # "ABSENT"
    BY <1>1 DEF AnswerInv, IInv, TypeOK, CancelOK
  <2>2. Next
    BY <1>1 DEF vars
  <2>3. CancelReads(c) \/ CancelMarks(c)
    BY <1>1, <2>1, <2>2, CancelMoves DEF CancelFails
  <2>4. CASE CancelReads(c)
    <3>1. run' = run /\ ~IsActive(r)
      BY <1>1, <2>1, <2>4 DEF CancelReads
    <3>2. QED
      BY <2>1, <3>1 DEF IsActive, Row
  <2>5. CASE CancelMarks(c)
    <3>1. CASE run[r].version = call[c].held.version
      <4>1. call[c].held = run[r]
        BY <2>1, <2>5, <3>1 DEF CancelMarks, IInv, CancelOK
      <4>2. run'[r] = Saved(Ended(run[r], "CANCELLED", "operator_cancelled"))
        BY <2>1, <2>5, <3>1, <4>1 DEF CancelMarks
      <4>3. QED
        BY <2>1, <4>2, SavedFacts, EndedFacts DEF Terminal, Error
    <3>2. CASE run[r].version # call[c].held.version
      <4>1. run'[r] = run[r]
        BY <2>1, <2>5, <3>2 DEF CancelMarks
      <4>2. run[r].status \in Terminal
        BY <1>1, <2>5, <3>2 DEF CancelMarks, AnswerInv, MarkOK
      <4>3. QED
        BY <4>1, <4>2
    <3>3. QED
      BY <3>1, <3>2
  <2>6. QED
    BY <2>3, <2>4, <2>5
<1>2. AnswerInv /\ [Next]_vars =>
          [\A c \in Callers :
              call[c].pc \in {"waiting", "marking"} /\ call'[c].pc = "idle"
                  /\ service' # "down" =>
                  run'[call[c].run].status \in Terminal]_vars
  BY <1>1
<1>3. QED
  BY <1>2, AnswerInvariance, PTL DEF Spec, CancelIsAnswered

=============================================================================
