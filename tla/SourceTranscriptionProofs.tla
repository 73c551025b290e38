---------------------- MODULE SourceTranscriptionProofs ----------------------
(***************************************************************************)
(* What SourceTranscription guarantees for every number of transcriptions, *)
(* tasks, requests, attempts and crashes. The properties rest on one       *)
(* inductive invariant: a row shows the cues and the verdict of its last   *)
(* attempt, a copy of a row that is still needed is not ahead of the row   *)
(* and is the row itself while their versions agree, and the semaphore is  *)
(* held by the task whose child is attached, works or is being stopped.    *)
(***************************************************************************)
EXTENDS SourceTranscription, TLAPS

Actors == Workers \cup Calls
WorkerWhere == {"idle", "new", "stopping", "done"} \cup Trying \cup Handling
CallWhere == {"idle", "found", "created", "waiting", "marking", "ending", "marked"}
Where == WorkerWhere \cup CallWhere

Verdict == [version : Nat, approve : BOOLEAN]
Status == Active \cup Terminal \cup {"ABSENT"}
Evidence == 0..MaxEvidence
Row == [status : Status, version : Nat, attempts : Nat, heard : Nat, failures : Evidence,
        why : Code, reviews : Evidence, last : Verdict]
PlaceRecord == [pc : Where, key : Keys \cup {None}, held : Row, to : Stopped,
                why : Code, tries : Nat, task : Workers \cup {None}]

\* What a row shows belongs to its last attempt.
RowOK(r) ==
    /\ r.status = "ABSENT" => r = Absent
    /\ r.status # "ABSENT" => r.version >= 1
    /\ r.status \in Active => r.heard = 0
    /\ r.status = "PROCESSING" => r.attempts >= 1
    /\ r.status \in Reviewable => r.heard = r.attempts /\ r.attempts >= 1
    /\ r.status = "APPROVED" => r.last = [version |-> r.version - 1, approve |-> TRUE]

RowsOK == row \in [Keys -> Row] /\ \A k \in Keys : RowOK(row[k])

Working == {"claimed", "attaching", "hearing", "heard"}
Holding == {"found", "queued", "ending"} \cup Working

\* A place beside the rows: its copy, if it is still needed, is not ahead of
\* the row and is the row itself while the versions agree.
PlaceOK(p, rows) ==
    /\ RowOK(p.held)
    /\ p.pc # "idle" => p.key \in Keys
    /\ p.pc \notin {"idle", "found"} => rows[p.key].status # "ABSENT"
    /\ p.pc \in Holding =>
          /\ p.held.version <= rows[p.key].version
          /\ p.held.version = rows[p.key].version => p.held = rows[p.key]
    /\ p.pc = "found" /\ p.held.status = "ABSENT" => rows[p.key].status = "ABSENT"
    /\ p.pc \in Working => p.held.status = "PROCESSING"
    /\ p.pc = "ending" => p.held.status \notin Terminal

PlacesOK ==
    /\ at \in [Actors -> PlaceRecord]
    /\ \A w \in Workers : at[w].pc \in WorkerWhere
    /\ \A c \in Calls : at[c].pc \in CallWhere
    /\ \A a \in Actors : PlaceOK(at[a], row)

ProcessTypes ==
    /\ child \in [Workers -> {"none", "spawned", "working", "stopping", "orphan"}]
    /\ cancelled \subseteq Workers
    /\ slot \in [Keys -> Workers \cup {None}]
    /\ asked \subseteq Keys
    /\ lock \in Calls \cup {None}
    /\ engine \in Workers \cup {None}
    /\ gathered \subseteq Workers
    /\ phase \in {"recovering", "up", "closing", "down"}

\* A request between its read and its save, or its scheduling, has the lock.
LockOK == \A c \in Calls : at[c].pc \in {"found", "created"} => lock = c

\* The semaphore is held from the spawn of the child until it has ended.
ChildOK ==
    \A w \in Workers :
        /\ at[w].pc \in {"attaching", "hearing", "stopping"} => engine = w
        /\ child[w] = "working" => at[w].pc = "hearing"

IInv == RowsOK /\ PlacesOK /\ ProcessTypes /\ LockOK /\ ChildOK

\* A row is stored under the next version; an approved row is never replaced
\* and one that waits for its review only by a review.
Advances(k, new) ==
    /\ row' = [row EXCEPT ![k] = new]
    /\ new.version = row[k].version + 1
    /\ RowOK(new)
    /\ new.status # "ABSENT"
    /\ row[k].status # "APPROVED"
    /\ row[k].status = "PENDING_REVIEW" => new.status \in {"APPROVED", "REJECTED"}

RowStep == row' = row \/ \E k \in Keys, new \in Row : Advances(k, new)

-----------------------------------------------------------------------------
(* Types of the helpers *)

\* The row of a transcription nobody has asked for is well typed and in order.
LEMMA AbsentFacts == Absent \in Row /\ RowOK(Absent)
BY EvidenceAssumption DEF Absent, Row, Status, Evidence, Verdict, NoReview, RowOK, Terminal, Active,
   Reviewable, Stopped, Code

\* So is the row of a new request.
LEMMA QueuedFacts ==
    Queued \in Row /\ RowOK(Queued) /\ Queued.status = "QUEUED" /\ Queued.version = 1
<1>1. Absent \in Row /\ Absent.heard = 0
  BY AbsentFacts DEF Absent
<1>2. Queued = [Absent EXCEPT !.status = "QUEUED", !.version = 1]
  BY DEF Queued
<1>3. /\ Queued \in Row /\ Queued.status = "QUEUED"
      /\ Queued.version = 1 /\ Queued.heard = 0
  BY <1>1, <1>2 DEF Row, Status, Active
<1> QED
  BY <1>3 DEF RowOK, Active, Reviewable

\* Nobody is anywhere: the place of an idle task or request.
LEMMA IdleFacts ==
    /\ Idle \in PlaceRecord
    /\ Idle.pc = "idle" /\ Idle.held = Absent
    /\ \A rows : PlaceOK(Idle, rows)
<1>1. Idle \in PlaceRecord /\ Idle.pc = "idle" /\ Idle.held = Absent
  BY AbsentFacts DEF Idle, PlaceRecord, Where, WorkerWhere, Stopped, Code
<1> QED
  BY <1>1, AbsentFacts DEF PlaceOK, Holding, Working

\* A place without a copy.
LEMMA PlaceFacts ==
    ASSUME PlacesOK, NEW a \in Actors, NEW pc \in Where
    PROVE  /\ Place(a, pc) \in PlaceRecord
           /\ Place(a, pc).pc = pc
           /\ Place(a, pc).key = at[a].key
           /\ Place(a, pc).held = Absent
BY IdleFacts DEF PlacesOK, Place, PlaceRecord

\* A place of a handler, without a copy.
LEMMA HandlerFacts ==
    ASSUME PlacesOK, NEW a \in Actors, NEW pc \in Where, NEW to \in Stopped, NEW why \in Code
    PROVE  /\ Handler(a, pc, to, why) \in PlaceRecord
           /\ Handler(a, pc, to, why).pc = pc
           /\ Handler(a, pc, to, why).key = at[a].key
           /\ Handler(a, pc, to, why).held = Absent
<1>1. Place(a, pc) \in PlaceRecord /\ Place(a, pc).pc = pc
      /\ Place(a, pc).key = at[a].key /\ Place(a, pc).held = Absent
  BY PlaceFacts
<1> QED
  BY <1>1 DEF Handler, PlaceRecord

\* A place without a copy is in order when its transcription exists.
LEMMA CopylessPlace ==
    ASSUME NEW p \in PlaceRecord, NEW rows, p.pc \notin Holding \cup {"idle"},
           p.held = Absent, p.key \in Keys, rows[p.key].status # "ABSENT"
    PROVE  PlaceOK(p, rows)
BY AbsentFacts DEF PlaceOK, Holding, Working

-----------------------------------------------------------------------------
(* How rows and places carry the invariant over a step *)

\* A stored row leaves every other place in order. Only a request that found
\* no transcription relies on there being none.
LEMMA AdvanceFacts ==
    ASSUME IInv, NEW k \in Keys, NEW new \in Row, Advances(k, new)
    PROVE  /\ RowsOK'
           /\ \A a \in Actors : row[k].status # "ABSENT" \/ at[a].pc # "found" =>
                                    PlaceOK(at[a], row')
<1> USE DEF IInv, RowsOK
<1>1. RowsOK'
  BY DEF Advances
<1>2. ASSUME NEW a \in Actors, row[k].status # "ABSENT" \/ at[a].pc # "found"
      PROVE  PlaceOK(at[a], row')
  <2>1. at[a] \in PlaceRecord /\ at[a].held \in Row /\ PlaceOK(at[a], row)
    BY DEF PlacesOK, PlaceRecord
  <2>2. CASE at[a].key # k
    <3>1. at[a].key \in Keys => row'[at[a].key] = row[at[a].key]
      BY <2>2 DEF Advances
    <3> QED
      BY <2>1, <3>1 DEF PlaceOK, Holding, Working
  <2>3. CASE at[a].key = k
    <3>1. row'[k] = new /\ new.version = row[k].version + 1 /\ new.status # "ABSENT"
      BY DEF Advances
    <3>2. row[k].version \in Nat /\ at[a].held.version \in Nat
      BY <2>1 DEF Row
    <3> QED
      BY <1>2, <2>1, <2>3, <3>1, <3>2 DEF PlaceOK, Holding, Working
  <2> QED
    BY <2>2, <2>3
<1> QED
  BY <1>1, <1>2

\* One task or request moves, everybody else stays in order.
LEMMA OneMoves ==
    ASSUME IInv, NEW a \in Actors, NEW p \in PlaceRecord,
           at' = [at EXCEPT ![a] = p],
           a \in Workers => p.pc \in WorkerWhere,
           a \in Calls => p.pc \in CallWhere,
           PlaceOK(p, row'),
           \A b \in Actors \ {a} : PlaceOK(at[b], row')
    PROVE  PlacesOK'
BY DEF IInv, PlacesOK, Actors

\* One task or request moves while the rows stay.
LEMMA OneMovesAlone ==
    ASSUME IInv, NEW a \in Actors, NEW p \in PlaceRecord, row' = row,
           at' = [at EXCEPT ![a] = p],
           a \in Workers => p.pc \in WorkerWhere,
           a \in Calls => p.pc \in CallWhere,
           PlaceOK(p, row)
    PROVE  RowsOK' /\ PlacesOK' /\ RowStep
<1>1. \A b \in Actors \ {a} : PlaceOK(at[b], row')
  BY DEF IInv, PlacesOK
<1> QED
  BY <1>1, OneMoves DEF IInv, RowsOK, RowStep

\* Nobody moves and the rows stay.
LEMMA NobodyMoves ==
    ASSUME IInv, UNCHANGED <<row, at>>
    PROVE  RowsOK' /\ PlacesOK' /\ RowStep
BY DEF IInv, RowsOK, PlacesOK, RowStep

\* The invariant gives the types.
LEMMA TypesOfInvariant == IInv => TypeOK
<1> SUFFICES ASSUME IInv PROVE TypeOK
  OBVIOUS
<1>1. \A k \in Keys :
        /\ row[k].status \in Active \cup Terminal \cup {"ABSENT"}
        /\ row[k].version \in Nat /\ row[k].attempts \in Nat
        /\ row[k].heard \in Nat /\ row[k].why \in Code
        /\ row[k].failures \in 0..MaxEvidence /\ row[k].reviews \in 0..MaxEvidence
  BY DEF IInv, RowsOK, Row, Status, Evidence
<1>2. /\ \A w \in Workers : at[w].pc \in {"idle", "new", "stopping", "done"} \cup Trying \cup Handling
      /\ \A c \in Calls : at[c].pc \in {"idle", "found", "created", "waiting", "marking", "ending", "marked"}
  BY DEF IInv, PlacesOK, WorkerWhere, CallWhere
<1> QED
  BY <1>1, <1>2 DEF IInv, ProcessTypes, TypeOK

-----------------------------------------------------------------------------
(* What a step writes into a row *)

\* A copy is the row when their versions agree; saving over it is an advance
\* when the new row is in order and no verdict is lost.
LEMMA SaveFacts ==
    ASSUME IInv, NEW a \in Actors, at[a].pc \in Holding,
           NEW new \in Row,
           RowOK([new EXCEPT !.version = at[a].held.version + 1]),
           new.status # "ABSENT",
           at[a].held.status \notin {"APPROVED", "PENDING_REVIEW"},
           Save(at[a].key, at[a].held, new)
    PROVE  LET k == at[a].key
               stored == [new EXCEPT !.version = at[a].held.version + 1] IN
           /\ k \in Keys
           /\ Saved(k, at[a].held) =>
                 /\ row[k] = at[a].held /\ stored \in Row
                 /\ Advances(k, stored)
           /\ ~Saved(k, at[a].held) => row' = row
           /\ RowStep
<1> DEFINE k == at[a].key
           old == at[a].held
           stored == [new EXCEPT !.version = old.version + 1]
<1>1. at[a] \in PlaceRecord /\ PlaceOK(at[a], row) /\ old \in Row
  BY DEF IInv, PlacesOK, PlaceRecord
<1>2. k \in Keys
  BY <1>1 DEF PlaceOK, Holding, Working
<1>3. row[k] \in Row
  BY <1>2 DEF IInv, RowsOK
<1>4. stored \in Row /\ stored.status = new.status /\ stored.version = old.version + 1
  BY <1>1 DEF Row
<1>5. ASSUME Saved(k, old) PROVE row[k] = old /\ Advances(k, stored)
  <2>1. row[k] = old
    BY <1>1, <1>5 DEF Saved, PlaceOK
  <2>2. row' = [row EXCEPT ![k] = stored]
    BY <1>5 DEF Save
  <2> QED
    BY <1>4, <2>1, <2>2 DEF Advances
<1>6. ~Saved(k, old) => row' = row
  BY DEF Save
<1> QED
  BY <1>2, <1>4, <1>5, <1>6 DEF RowStep

\* Claiming: a copy without a result goes to PROCESSING with one attempt more.
LEMMA ProcessingFacts ==
    ASSUME NEW r \in Row, RowOK(r), r.heard = 0
    PROVE  /\ Processing(r) \in Row
           /\ Processing(r).status = "PROCESSING"
           /\ r.status \notin {"APPROVED", "PENDING_REVIEW"}
           /\ LET new == [Processing(r) EXCEPT !.version = r.version + 1] IN
                RowOK(new) /\ new.status = "PROCESSING"
<1> DEFINE p == Processing(r)
           new == [p EXCEPT !.version = r.version + 1]
<1>1. p = [r EXCEPT !.status = "PROCESSING", !.attempts = r.attempts + 1]
  BY DEF Processing
<1>2. /\ p \in Row /\ p.status = "PROCESSING" /\ p.heard = 0
      /\ p.attempts = r.attempts + 1
  <2>1. "PROCESSING" \in Status
    BY DEF Status, Active
  <2>2. [r EXCEPT !.status = "PROCESSING", !.attempts = r.attempts + 1] \in Row
    <3>1. [r EXCEPT !.status = "PROCESSING"] \in Row
      BY <2>1 DEF Row
    <3>2. r.attempts + 1 \in Nat
      BY DEF Row
    <3> QED
      BY <3>1, <3>2 DEF Row
  <2>3. p \in Row
    BY <1>1, <2>2
  <2> QED
    BY <1>1, <2>3 DEF Row
<1> HIDE DEF p
<1>3. /\ new \in Row /\ new.status = "PROCESSING" /\ new.heard = 0
      /\ new.attempts = r.attempts + 1 /\ new.version = r.version + 1
  BY <1>2 DEF Row
<1>4. RowOK(new) /\ r.attempts \in Nat /\ r.version \in Nat
  BY <1>3 DEF RowOK, Active, Reviewable, Row
<1>5. r.status \notin {"APPROVED", "PENDING_REVIEW"}
  BY <1>4 DEF RowOK, Reviewable
<1> QED
  BY <1>2, <1>3, <1>4, <1>5 DEF p

\* Completing: the transcript of the attempt waits for its review.
LEMMA CompletedFacts ==
    ASSUME NEW r \in Row, RowOK(r), r.status = "PROCESSING"
    PROVE  /\ Completed(r) \in Row
           /\ Completed(r).status = "PENDING_REVIEW"
           /\ LET new == [Completed(r) EXCEPT !.version = r.version + 1] IN
                RowOK(new) /\ new.status = "PENDING_REVIEW"
<1> DEFINE p == Completed(r)
           new == [p EXCEPT !.version = r.version + 1]
<1>1. p = [r EXCEPT !.status = "PENDING_REVIEW", !.heard = r.attempts]
  BY DEF Completed
<1>2. /\ p \in Row /\ p.status = "PENDING_REVIEW" /\ p.heard = r.attempts
      /\ p.attempts = r.attempts
  BY <1>1 DEF Row, Status, Terminal, Reviewable
<1> HIDE DEF p
<1>3. /\ new \in Row /\ new.status = "PENDING_REVIEW" /\ new.heard = r.attempts
      /\ new.attempts = r.attempts /\ new.version = r.version + 1
  BY <1>2 DEF Row
<1>4. RowOK(new)
  BY <1>3 DEF RowOK, Active, Reviewable, Row
<1> QED
  BY <1>2, <1>3, <1>4 DEF p

\* Ending a row that is not finished, when there is room for its evidence.
LEMMA StopFacts ==
    ASSUME NEW r \in Row, RowOK(r), r.status \notin Terminal, HasRoom(r),
           NEW to \in Stopped, NEW why \in Code
    PROVE  /\ Stop(r, to, why) \in Row
           /\ Stop(r, to, why).status = to
           /\ LET new == [Stop(r, to, why) EXCEPT !.version = r.version + 1] IN
                RowOK(new) /\ new.status = to
<1> DEFINE p == Stop(r, to, why)
           new == [p EXCEPT !.version = r.version + 1]
<1>1. p = [r EXCEPT !.status = to, !.failures = r.failures + 1, !.why = why]
  BY DEF Stop
<1>2. r.failures + 1 \in Evidence
  BY EvidenceAssumption DEF Evidence, HasRoom, Row
<1>3. p \in Row /\ p.status = to
  BY <1>1, <1>2 DEF Row, Status, Terminal
<1> HIDE DEF p
<1>4. new \in Row /\ new.status = to /\ new.version = r.version + 1
  BY <1>3 DEF Row
<1>5. RowOK(new)
  BY <1>4 DEF RowOK, Stopped, Active, Reviewable, Row
<1> QED
  BY <1>3, <1>4, <1>5 DEF p

\* Starting again: the result of the last attempt is taken off the row.
LEMMA RestartedFacts ==
    ASSUME NEW r \in Row
    PROVE  /\ Restarted(r) \in Row
           /\ Restarted(r).status = "QUEUED"
           /\ LET new == [Restarted(r) EXCEPT !.version = r.version + 1] IN
                RowOK(new) /\ new.status = "QUEUED"
<1> DEFINE p == Restarted(r)
           new == [p EXCEPT !.version = r.version + 1]
<1>1. p = [r EXCEPT !.status = "QUEUED", !.heard = 0]
  BY DEF Restarted
<1>2. p \in Row /\ p.status = "QUEUED" /\ p.heard = 0
  <2>1. "QUEUED" \in Status
    BY DEF Status, Active
  <2>2. [r EXCEPT !.status = "QUEUED", !.heard = 0] \in Row
    BY <2>1 DEF Row
  <2>3. p \in Row
    BY <1>1, <2>2
  <2> QED
    BY <1>1, <2>3 DEF Row
<1> HIDE DEF p
<1>3. new \in Row /\ new.status = "QUEUED" /\ new.heard = 0 /\ new.version = r.version + 1
  BY <1>2 DEF Row
<1>4. RowOK(new)
  BY <1>3 DEF RowOK, Active, Reviewable, Row
<1> QED
  BY <1>2, <1>3, <1>4 DEF p

\* Reviewing: the verdict names the version it looked at, which the stored row
\* is one ahead of.
LEMMA ReviewedFacts ==
    ASSUME NEW r \in Row, RowOK(r), r.status = "PENDING_REVIEW",
           r.reviews < MaxEvidence, NEW approve \in BOOLEAN
    PROVE  LET new == [Reviewed(r, approve) EXCEPT !.version = r.version + 1] IN
             /\ new \in Row /\ RowOK(new) /\ new.version = r.version + 1
             /\ new.status \in {"APPROVED", "REJECTED"}
<1> DEFINE p == Reviewed(r, approve)
           new == [p EXCEPT !.version = r.version + 1]
           verdict == [version |-> r.version, approve |-> approve]
<1>1. p = [r EXCEPT !.status = IF approve THEN "APPROVED" ELSE "REJECTED",
                    !.reviews = r.reviews + 1, !.last = verdict]
  BY DEF Reviewed
<1>2. r.reviews + 1 \in Evidence /\ verdict \in Verdict
  BY EvidenceAssumption DEF Evidence, Row, Verdict
<1>3. /\ p \in Row /\ p.status = (IF approve THEN "APPROVED" ELSE "REJECTED")
      /\ p.heard = r.heard /\ p.attempts = r.attempts /\ p.last = verdict
  BY <1>1, <1>2 DEF Row, Status, Terminal, Reviewable
<1> HIDE DEF p
<1>4. /\ new \in Row /\ new.status = (IF approve THEN "APPROVED" ELSE "REJECTED")
      /\ new.version = r.version + 1
      /\ new.heard = r.heard /\ new.attempts = r.attempts /\ new.last = verdict
  BY <1>3 DEF Row
<1>5. r.heard = r.attempts /\ r.attempts >= 1 /\ r.version \in Nat
  BY DEF RowOK, Reviewable, Row
<1>6. new.status = "APPROVED" => new.last = [version |-> new.version - 1, approve |-> TRUE]
  <2> SUFFICES ASSUME new.status = "APPROVED"
               PROVE  new.last = [version |-> new.version - 1, approve |-> TRUE]
    OBVIOUS
  <2>1. approve = TRUE
    BY <1>4
  <2>2. new.version - 1 = r.version
    BY <1>4, <1>5
  <2> QED
    BY <1>4, <2>1, <2>2
<1>7. RowOK(new)
  BY <1>4, <1>5, <1>6 DEF RowOK, Active, Reviewable
<1> QED
  BY <1>4, <1>7 DEF p

-----------------------------------------------------------------------------
(* The steps of a task *)

\* A task that moves, and writes at most the row of an existing transcription,
\* leaves rows, places and the lock in order.
LEMMA TaskMoves ==
    ASSUME IInv, NEW w \in Workers, NEW p \in PlaceRecord,
           at' = [at EXCEPT ![w] = p], p.pc \in WorkerWhere, PlaceOK(p, row'),
           UNCHANGED lock,
           \/ row' = row
           \/ \E k \in Keys, new \in Row : Advances(k, new) /\ row[k].status # "ABSENT"
    PROVE  RowsOK' /\ PlacesOK' /\ LockOK' /\ RowStep
<1>1. RowsOK' /\ RowStep /\ \A b \in Actors : PlaceOK(at[b], row')
  <2>1. CASE row' = row
    BY <2>1 DEF IInv, RowsOK, PlacesOK, RowStep
  <2>2. CASE row' # row
    BY <2>2, AdvanceFacts DEF RowStep
  <2> QED
    BY <2>1, <2>2
<1>2. w \in Actors /\ w \notin Calls
  BY ActorAssumption DEF Actors
<1>3. PlacesOK'
  BY <1>1, <1>2, OneMoves
<1>4. LockOK'
  BY <1>2 DEF IInv, LockOK, PlacesOK, Actors
<1> QED
  BY <1>1, <1>3, <1>4

\* Failing: the task goes to the handler of its exception.
LEMMA FailsFacts ==
    ASSUME IInv, NEW w \in Workers, Fails(w), row' = row, UNCHANGED lock,
           at[w].pc \notin {"idle", "found"}
    PROVE  /\ RowsOK' /\ PlacesOK' /\ LockOK' /\ RowStep
           /\ at'[w].pc = "marking" /\ \A v \in Workers \ {w} : at'[v] = at[v]
<1> DEFINE p == Handler(w, "marking", "FAILED", "failed")
<1>1. w \in Actors /\ PlacesOK /\ PlaceOK(at[w], row)
  BY DEF Actors, IInv, PlacesOK
<1>2. "marking" \in Where /\ "marking" \in WorkerWhere /\ "FAILED" \in Stopped /\ "failed" \in Code
  BY DEF Where, WorkerWhere, Handling, Stopped, Code
<1>3. p \in PlaceRecord /\ p.pc = "marking" /\ p.key = at[w].key /\ p.held = Absent
  BY <1>1, <1>2, HandlerFacts
<1>4. PlaceOK(p, row')
  <2>1. p.key \in Keys /\ row'[p.key].status # "ABSENT"
    BY <1>1, <1>3 DEF PlaceOK
  <2>2. p.pc \notin Holding \cup {"idle"}
    BY <1>3 DEF Holding, Working
  <2> QED
    BY <1>3, <2>1, <2>2, CopylessPlace
<1>5. at' = [at EXCEPT ![w] = p]
  BY DEF Fails
<1> HIDE DEF p
<1>6. at'[w] = p /\ \A v \in Workers \ {w} : at'[v] = at[v]
  BY <1>1, <1>5 DEF PlacesOK
<1> QED
  BY <1>2, <1>3, <1>4, <1>5, <1>6, TaskMoves

\* A task leaves its place for another one without a copy.
LEMMA GoesFacts ==
    ASSUME IInv, NEW w \in Workers, NEW p \in PlaceRecord,
           at[w].pc \notin {"idle", "found"},
           p.pc \in WorkerWhere \ (Holding \cup {"idle"}),
           p.key = at[w].key, p.held = Absent,
           at' = [at EXCEPT ![w] = p], row' = row, UNCHANGED lock
    PROVE  RowsOK' /\ PlacesOK' /\ LockOK' /\ RowStep
<1>1. PlaceOK(at[w], row)
  BY DEF Actors, IInv, PlacesOK
<1>2. p.key \in Keys /\ row'[p.key].status # "ABSENT"
  BY <1>1 DEF PlaceOK
<1>3. PlaceOK(p, row')
  BY <1>2, CopylessPlace
<1> QED
  BY <1>3, TaskMoves

\* A task goes on with the copy it has.
LEMMA GoFacts ==
    ASSUME IInv, NEW w \in Workers, NEW pc \in Working, at[w].pc \in Working,
           Go(w, pc), row' = row, UNCHANGED lock
    PROVE  /\ RowsOK' /\ PlacesOK' /\ LockOK' /\ RowStep
           /\ at'[w].pc = pc /\ \A v \in Workers \ {w} : at'[v] = at[v]
<1> DEFINE p == [at[w] EXCEPT !.pc = pc]
<1>1. w \in Actors /\ at[w] \in PlaceRecord /\ PlaceOK(at[w], row)
  BY DEF Actors, IInv, PlacesOK
<1>2. pc \in Where /\ pc \in WorkerWhere
  BY DEF Working, Where, WorkerWhere, Trying
<1>3. p \in PlaceRecord /\ p.pc = pc /\ p.key = at[w].key /\ p.held = at[w].held
  BY <1>1, <1>2 DEF PlaceRecord
<1>4. PlaceOK(p, row')
  BY <1>1, <1>3 DEF PlaceOK, Holding, Working
<1>5. at' = [at EXCEPT ![w] = p]
  BY DEF Go
<1> HIDE DEF p
<1>6. at'[w] = p /\ \A v \in Workers \ {w} : at'[v] = at[v]
  BY <1>1, <1>5 DEF IInv, PlacesOK
<1> QED
  BY <1>2, <1>3, <1>4, <1>5, <1>6, TaskMoves

\* _execute reads its row.
LEMMA BeginKeeps == ASSUME IInv, NEW w \in Workers, Begin(w) PROVE IInv' /\ RowStep
<1> DEFINE k == at[w].key
           p == [at[w] EXCEPT !.pc = "queued", !.held = row[k]]
<1>1. w \in Actors /\ at[w] \in PlaceRecord /\ PlaceOK(at[w], row) /\ at[w].pc = "new"
  BY DEF Begin, Actors, IInv, PlacesOK
<1>2. k \in Keys /\ row[k].status # "ABSENT" /\ row[k] \in Row /\ RowOK(row[k])
  BY <1>1 DEF PlaceOK, IInv, RowsOK
<1>3. "queued" \in Where /\ "queued" \in WorkerWhere
  BY DEF Where, WorkerWhere, Trying
<1>4. p \in PlaceRecord /\ p.pc = "queued" /\ p.key = k /\ p.held = row[k]
  BY <1>1, <1>2, <1>3 DEF PlaceRecord
<1>5. at' = [at EXCEPT ![w] = p] /\ row' = row
  BY DEF Begin
<1> HIDE DEF p
<1>6. PlaceOK(p, row')
  <2>1. row[k].version \in Nat
    BY <1>2 DEF Row
  <2> QED
    BY <1>2, <1>4, <1>5, <2>1 DEF PlaceOK, Holding, Working
<1>7. RowsOK' /\ PlacesOK' /\ LockOK' /\ RowStep
  BY <1>3, <1>4, <1>5, <1>6, TaskMoves DEF Begin
<1>8. ChildOK'
  BY <1>1, <1>4, <1>5 DEF Begin, IInv, ChildOK, PlacesOK, Actors
<1>9. ProcessTypes'
  BY DEF Begin, IInv, ProcessTypes
<1> QED
  BY <1>7, <1>8, <1>9 DEF IInv

\* The task claims its row, or fails.
LEMMA ClaimKeeps == ASSUME IInv, NEW w \in Workers, Claim(w) PROVE IInv' /\ RowStep
<1> DEFINE k == at[w].key
           old == at[w].held
           p == [at[w] EXCEPT !.pc = "claimed", !.held = row'[k]]
<1>1. w \in Actors /\ at[w] \in PlaceRecord /\ PlaceOK(at[w], row) /\ at[w].pc = "queued"
  BY DEF Claim, Actors, IInv, PlacesOK
<1>2. k \in Keys /\ row[k].status # "ABSENT" /\ old \in Row /\ RowOK(old)
  BY <1>1 DEF PlaceOK, PlaceRecord
<1>3. ProcessTypes' /\ UNCHANGED <<lock, child, engine>>
  BY DEF Claim, IInv, ProcessTypes
<1>4. CASE old.heard = 0 /\ Saved(k, old)
  <2>1. Save(k, old, Processing(old)) /\ at' = [at EXCEPT ![w].pc = "claimed", ![w].held = row'[k]]
    BY <1>4 DEF Claim
  <2> DEFINE stored == [Processing(old) EXCEPT !.version = old.version + 1]
  <2>2. /\ Processing(old) \in Row /\ Processing(old).status = "PROCESSING"
        /\ old.status \notin {"APPROVED", "PENDING_REVIEW"}
        /\ RowOK(stored) /\ stored.status = "PROCESSING"
    BY <1>2, <1>4, ProcessingFacts
  <2>3. at[w].pc \in Holding
    BY <1>1 DEF Holding
  <2>4. stored \in Row /\ Advances(k, stored)
    BY <1>1, <1>4, <2>1, <2>2, <2>3, SaveFacts
  <2>5. row'[k] = stored
    BY <1>2, <2>4 DEF Advances, IInv, RowsOK
  <2>6. "claimed" \in Where /\ "claimed" \in WorkerWhere
    BY DEF Where, WorkerWhere, Trying
  <2> HIDE DEF stored
  <2>7. p \in PlaceRecord /\ p.pc = "claimed" /\ p.key = k /\ p.held = stored
    BY <1>1, <2>4, <2>5, <2>6 DEF PlaceRecord
  <2>8. at' = [at EXCEPT ![w] = p]
    BY <2>1
  <2> HIDE DEF p
  <2>9. PlaceOK(p, row')
    <3>1. stored.version \in Nat
      BY <2>4 DEF Row
    <3> QED
      BY <1>2, <2>2, <2>5, <2>7, <3>1 DEF PlaceOK, Holding, Working
  <2>10. RowsOK' /\ PlacesOK' /\ LockOK' /\ RowStep
    BY <1>2, <1>3, <2>4, <2>6, <2>7, <2>8, <2>9, TaskMoves
  <2>11. ChildOK'
    BY <1>1, <1>3, <2>7, <2>8 DEF IInv, ChildOK, PlacesOK, Actors
  <2> QED
    BY <1>3, <2>10, <2>11 DEF IInv
<1>5. CASE ~(old.heard = 0 /\ Saved(k, old))
  <2>1. Fails(w) /\ row' = row
    BY <1>5 DEF Claim
  <2>2. RowsOK' /\ PlacesOK' /\ LockOK' /\ RowStep
        /\ at'[w].pc = "marking" /\ \A v \in Workers \ {w} : at'[v] = at[v]
    BY <1>1, <1>3, <2>1, FailsFacts
  <2>3. ChildOK'
    BY <1>1, <1>3, <2>2 DEF IInv, ChildOK
  <2> QED
    BY <1>3, <2>2, <2>3 DEF IInv
<1> QED
  BY <1>4, <1>5

\* The work on the media fails.
LEMMA WorkFailsKeeps == ASSUME IInv, NEW w \in Workers, WorkFails(w) PROVE IInv' /\ RowStep
<1>1. Fails(w) /\ row' = row /\ UNCHANGED <<lock, child, engine>> /\ at[w].pc \notin {"idle", "found"}
  BY DEF WorkFails
<1>2. /\ RowsOK' /\ PlacesOK' /\ LockOK' /\ RowStep
      /\ at'[w].pc = "marking" /\ \A v \in Workers \ {w} : at'[v] = at[v]
  BY <1>1, FailsFacts
<1>3. at[w].pc # "hearing"
  BY DEF WorkFails
<1>4. ChildOK'
  BY <1>1, <1>2, <1>3 DEF IInv, ChildOK
<1>5. ProcessTypes'
  BY DEF WorkFails, IInv, ProcessTypes
<1> QED
  BY <1>2, <1>4, <1>5 DEF IInv

\* The child is spawned under the semaphore.
LEMMA SpawnKeeps == ASSUME IInv, NEW w \in Workers, Spawn(w) PROVE IInv' /\ RowStep
<1>1. Go(w, "attaching") /\ row' = row /\ UNCHANGED lock
      /\ at[w].pc \in Working /\ "attaching" \in Working
  BY DEF Spawn, Working
<1>2. /\ RowsOK' /\ PlacesOK' /\ LockOK' /\ RowStep
      /\ at'[w].pc = "attaching" /\ \A v \in Workers \ {w} : at'[v] = at[v]
  BY <1>1, GoFacts
<1>3. ProcessTypes'
  BY DEF Spawn, IInv, ProcessTypes
<1>4. ChildOK'
  <2>1. /\ engine = None /\ engine' = w
        /\ child'[w] = "spawned" /\ \A v \in Workers \ {w} : child'[v] = child[v]
    BY DEF Spawn, IInv, ProcessTypes
  <2>2. \A v \in Workers : at[v].pc \notin {"attaching", "hearing", "stopping"}
    BY <2>1, NoneAssumption DEF IInv, ChildOK
  <2> QED
    BY <1>2, <2>1, <2>2 DEF IInv, ChildOK
<1> QED
  BY <1>2, <1>3, <1>4 DEF IInv

\* The child gets its request.
LEMMA FeedKeeps == ASSUME IInv, NEW w \in Workers, Feed(w) PROVE IInv' /\ RowStep
<1>1. Go(w, "hearing") /\ row' = row /\ UNCHANGED <<lock, engine>>
      /\ at[w].pc \in Working /\ "hearing" \in Working
  BY DEF Feed, Working
<1>2. /\ RowsOK' /\ PlacesOK' /\ LockOK' /\ RowStep
      /\ at'[w].pc = "hearing" /\ \A v \in Workers \ {w} : at'[v] = at[v]
  BY <1>1, GoFacts
<1>3. ProcessTypes'
  BY DEF Feed, IInv, ProcessTypes
<1>4. ChildOK'
  <2>1. /\ at[w].pc = "attaching"
        /\ child'[w] = "working" /\ \A v \in Workers \ {w} : child'[v] = child[v]
    BY DEF Feed, IInv, ProcessTypes
  <2> QED
    BY <1>1, <1>2, <2>1 DEF IInv, ChildOK
<1> QED
  BY <1>2, <1>3, <1>4 DEF IInv

\* Only the task that has the semaphore gives it back.
LEMMA EngineReleased ==
    ASSUME IInv, NEW w \in Workers, at[w].pc \in {"attaching", "hearing", "stopping"},
           at'[w].pc \notin {"attaching", "hearing", "stopping"},
           child'[w] # "working",
           \A v \in Workers \ {w} : at'[v] = at[v] /\ child'[v] = child[v]
    PROVE  ChildOK'
<1>1. \A v \in Workers \ {w} : at[v].pc \notin {"attaching", "hearing", "stopping"}
  BY DEF IInv, ChildOK
<1> QED
  BY <1>1 DEF IInv, ChildOK

\* The child exits.
LEMMA ChildExitsKeeps == ASSUME IInv, NEW w \in Workers, ChildExits(w) PROVE IInv' /\ RowStep
<1>1. /\ at[w].pc = "hearing" /\ row' = row /\ UNCHANGED lock
      /\ at[w].pc \in Working /\ "heard" \in Working
  BY DEF ChildExits, Working
<1>2. /\ RowsOK' /\ PlacesOK' /\ LockOK' /\ RowStep
      /\ at'[w].pc \in {"heard", "marking"} /\ \A v \in Workers \ {w} : at'[v] = at[v]
  <2>1. CASE Go(w, "heard")
    BY <1>1, <2>1, GoFacts
  <2>2. CASE Fails(w)
    BY <1>1, <2>2, FailsFacts
  <2> QED
    BY <2>1, <2>2 DEF ChildExits
<1>3. ProcessTypes'
  BY DEF ChildExits, IInv, ProcessTypes
<1>4. ChildOK'
  <2>1. child'[w] = "none" /\ \A v \in Workers \ {w} : child'[v] = child[v]
    BY DEF ChildExits, IInv, ProcessTypes
  <2> QED
    BY <1>1, <1>2, <2>1, EngineReleased
<1> QED
  BY <1>2, <1>3, <1>4 DEF IInv

\* The deadline passes while the child works.
LEMMA TimesOutKeeps == ASSUME IInv, NEW w \in Workers, TimesOut(w) PROVE IInv' /\ RowStep
<1> DEFINE p == Handler(w, "stopping", "FAILED", "failed")
<1>1. w \in Actors /\ PlacesOK /\ at[w].pc = "hearing"
  BY DEF Actors, IInv, TimesOut
<1>2. "stopping" \in Where /\ "stopping" \in WorkerWhere \ (Holding \cup {"idle"})
      /\ "FAILED" \in Stopped /\ "failed" \in Code
  BY DEF Where, WorkerWhere, Holding, Working, Stopped, Code
<1>3. p \in PlaceRecord /\ p.pc = "stopping" /\ p.key = at[w].key /\ p.held = Absent
  BY <1>1, <1>2, HandlerFacts
<1>4. at' = [at EXCEPT ![w] = p] /\ row' = row /\ UNCHANGED <<lock, engine>>
  BY DEF TimesOut
<1> HIDE DEF p
<1>5. RowsOK' /\ PlacesOK' /\ LockOK' /\ RowStep
  BY <1>1, <1>2, <1>3, <1>4, GoesFacts
<1>6. ProcessTypes'
  BY DEF TimesOut, IInv, ProcessTypes
<1>7. ChildOK'
  <2>1. at'[w].pc = "stopping" /\ \A v \in Workers \ {w} : at'[v] = at[v]
    BY <1>1, <1>3, <1>4 DEF PlacesOK
  <2>2. child'[w] = "stopping" /\ \A v \in Workers \ {w} : child'[v] = child[v]
    BY DEF TimesOut, IInv, ProcessTypes
  <2> QED
    BY <1>1, <1>4, <2>1, <2>2 DEF IInv, ChildOK
<1> QED
  BY <1>5, <1>6, <1>7 DEF IInv

\* The child has ended.
LEMMA ChildStopsKeeps == ASSUME IInv, NEW w \in Workers, ChildStops(w) PROVE IInv' /\ RowStep
<1>1. w \in Actors /\ at[w] \in PlaceRecord /\ PlaceOK(at[w], row) /\ row' = row /\ UNCHANGED lock
  BY DEF Actors, IInv, PlacesOK, ChildStops
<1>2. child'[w] = "none" /\ \A v \in Workers \ {w} : child'[v] = child[v]
  BY DEF ChildStops, IInv, ProcessTypes
<1>3. ProcessTypes'
  BY DEF ChildStops, IInv, ProcessTypes
<1>4. CASE at[w].pc = "stopping"
  <2> DEFINE p == [at[w] EXCEPT !.pc = "marking"]
  <2>1. "marking" \in Where /\ "marking" \in WorkerWhere
    BY DEF Where, WorkerWhere, Handling
  <2>2. p \in PlaceRecord /\ p.pc = "marking" /\ p.key = at[w].key /\ p.held = at[w].held
    BY <1>1, <2>1 DEF PlaceRecord
  <2>3. at' = [at EXCEPT ![w] = p]
    BY <1>4 DEF ChildStops
  <2> HIDE DEF p
  <2>4. PlaceOK(p, row')
    BY <1>1, <1>4, <2>2 DEF PlaceOK, Holding, Working
  <2>5. RowsOK' /\ PlacesOK' /\ LockOK' /\ RowStep
    BY <1>1, <2>1, <2>2, <2>3, <2>4, TaskMoves
  <2>6. at'[w].pc = "marking" /\ \A v \in Workers \ {w} : at'[v] = at[v]
    BY <1>1, <2>2, <2>3 DEF IInv, PlacesOK
  <2>7. ChildOK'
    BY <1>2, <1>4, <2>6, EngineReleased
  <2> QED
    BY <1>3, <2>5, <2>7 DEF IInv
<1>5. CASE at[w].pc # "stopping"
  <2>1. UNCHANGED <<at, engine>>
    BY <1>5 DEF ChildStops
  <2>2. RowsOK' /\ PlacesOK' /\ RowStep
    BY <1>1, <2>1, NobodyMoves
  <2>3. LockOK' /\ ChildOK'
    BY <1>1, <1>2, <2>1 DEF IInv, LockOK, ChildOK
  <2> QED
    BY <1>3, <2>2, <2>3 DEF IInv
<1> QED
  BY <1>4, <1>5

\* The transcript is saved, or the task fails.
LEMMA CompleteKeeps == ASSUME IInv, NEW w \in Workers, Complete(w) PROVE IInv' /\ RowStep
<1> DEFINE k == at[w].key
           old == at[w].held
           p == Place(w, "saved")
<1>1. w \in Actors /\ at[w] \in PlaceRecord /\ PlaceOK(at[w], row) /\ at[w].pc = "heard" /\ PlacesOK
  BY DEF Complete, Actors, IInv, PlacesOK
<1>2. /\ k \in Keys /\ row[k].status # "ABSENT" /\ old \in Row /\ RowOK(old)
      /\ old.status = "PROCESSING"
  BY <1>1 DEF PlaceOK, PlaceRecord, Working
<1>3. ProcessTypes' /\ UNCHANGED <<lock, child, engine>>
  BY DEF Complete, IInv, ProcessTypes
<1>4. CASE Saved(k, old)
  <2>1. Save(k, old, Completed(old)) /\ at' = [at EXCEPT ![w] = p]
    BY <1>4 DEF Complete
  <2> DEFINE stored == [Completed(old) EXCEPT !.version = old.version + 1]
  <2>2. /\ Completed(old) \in Row /\ Completed(old).status = "PENDING_REVIEW"
        /\ RowOK(stored) /\ stored.status = "PENDING_REVIEW"
    BY <1>2, CompletedFacts
  <2>3. at[w].pc \in Holding
    BY <1>1 DEF Holding, Working
  <2>4. stored \in Row /\ Advances(k, stored)
    BY <1>1, <1>2, <1>4, <2>1, <2>2, <2>3, SaveFacts
  <2>5. row'[k] = stored
    BY <1>2, <2>4 DEF Advances, IInv, RowsOK
  <2>6. "saved" \in Where /\ "saved" \in WorkerWhere
    BY DEF Where, WorkerWhere, Trying
  <2> HIDE DEF stored
  <2>7. p \in PlaceRecord /\ p.pc = "saved" /\ p.key = k /\ p.held = Absent
    BY <1>1, <2>6, PlaceFacts
  <2> HIDE DEF p
  <2>8. PlaceOK(p, row')
    <3>1. p.pc \notin Holding \cup {"idle"}
      BY <2>7 DEF Holding, Working
    <3> QED
      BY <1>2, <2>2, <2>5, <2>7, <3>1, CopylessPlace
  <2>9. RowsOK' /\ PlacesOK' /\ LockOK' /\ RowStep
    BY <1>2, <1>3, <2>1, <2>4, <2>6, <2>7, <2>8, TaskMoves
  <2>10. ChildOK'
    BY <1>1, <1>3, <2>1, <2>7 DEF IInv, ChildOK, PlacesOK
  <2> QED
    BY <1>3, <2>9, <2>10 DEF IInv
<1>5. CASE ~Saved(k, old)
  <2>1. Fails(w) /\ row' = row
    BY <1>5 DEF Complete
  <2>2. RowsOK' /\ PlacesOK' /\ LockOK' /\ RowStep
        /\ at'[w].pc = "marking" /\ \A v \in Workers \ {w} : at'[v] = at[v]
    BY <1>1, <1>3, <2>1, FailsFacts
  <2>3. ChildOK'
    BY <1>1, <1>3, <2>2 DEF IInv, ChildOK
  <2> QED
    BY <1>3, <2>2, <2>3 DEF IInv
<1> QED
  BY <1>4, <1>5

\* The cancellation reaches a task.
LEMMA InterruptedKeeps == ASSUME IInv, NEW w \in Workers, Interrupted(w) PROVE IInv' /\ RowStep
<1> DEFINE pc == at[w].pc
           why == IF at[w].key \in asked THEN "operator_cancelled" ELSE "service_shutdown"
           then == IF pc = "hearing" THEN "stopping" ELSE "marking"
           p == IF pc \in {"new"} \cup Handling THEN Place(w, "done")
                ELSE Handler(w, then, "CANCELLED", why)
<1>1. /\ w \in Actors /\ PlacesOK /\ pc \in WorkerWhere /\ pc \notin {"idle", "found"}
      /\ row' = row /\ UNCHANGED lock
  BY DEF Interrupted, Done, Actors, IInv, PlacesOK, WorkerWhere, Trying, Handling
<1>2. /\ {"done", "stopping", "marking"} \subseteq WorkerWhere \ (Holding \cup {"idle"})
      /\ {"done", "stopping", "marking"} \subseteq Where
      /\ "CANCELLED" \in Stopped /\ why \in Code
  BY DEF Where, WorkerWhere, Holding, Working, Handling, Stopped, Code
<1>3. then \in {"stopping", "marking"} /\ then \in Where
  BY <1>2
<1> HIDE DEF why
<1>4. /\ p \in PlaceRecord /\ p.key = at[w].key /\ p.held = Absent
      /\ p.pc = IF pc \in {"new"} \cup Handling THEN "done" ELSE then
  BY <1>1, <1>2, <1>3, PlaceFacts, HandlerFacts
<1>5. at' = [at EXCEPT ![w] = p]
  BY DEF Interrupted, why
<1> HIDE DEF p
<1>6. RowsOK' /\ PlacesOK' /\ LockOK' /\ RowStep
  BY <1>1, <1>2, <1>3, <1>4, <1>5, GoesFacts
<1>7. at'[w].pc = p.pc /\ \A v \in Workers \ {w} : at'[v] = at[v]
  BY <1>1, <1>5 DEF PlacesOK
<1>8. /\ child'[w] = CASE pc = "attaching" -> "orphan"
                       [] pc = "hearing" -> "stopping"
                       [] OTHER -> child[w]
      /\ \A v \in Workers \ {w} : child'[v] = child[v]
  BY DEF Interrupted, IInv, ProcessTypes
<1>9. engine' = IF pc \in {"attaching", "stopping"} THEN None ELSE engine
  BY DEF Interrupted
<1>10. ProcessTypes'
  <2>1. child'[w] \in {"none", "spawned", "working", "stopping", "orphan"}
    BY <1>8 DEF IInv, ProcessTypes
  <2>2. child' = [child EXCEPT ![w] = child'[w]]
    BY DEF Interrupted, IInv, ProcessTypes
  <2> QED
    BY <1>9, <2>1, <2>2 DEF Interrupted, IInv, ProcessTypes
<1>11. ChildOK'
  <2>1. CASE pc \in {"attaching", "stopping"}
    <3>1. at'[w].pc \notin {"attaching", "hearing", "stopping"}
      BY <1>3, <1>4, <1>7, <2>1
    <3>2. child'[w] # "working"
      BY <1>8, <2>1 DEF IInv, ChildOK
    <3> QED
      BY <1>7, <1>8, <2>1, <3>1, <3>2, EngineReleased
  <2>2. CASE pc = "hearing"
    <3>1. at'[w].pc = "stopping"
      BY <1>4, <1>7, <2>2 DEF Handling
    <3> QED
      BY <1>7, <1>8, <1>9, <2>2, <3>1 DEF IInv, ChildOK
  <2>3. CASE pc \notin {"attaching", "hearing", "stopping"}
    <3>1. at'[w].pc \in {"done", "marking"}
      BY <1>4, <1>7, <2>3
    <3> QED
      BY <1>7, <1>8, <1>9, <2>3, <3>1 DEF IInv, ChildOK
  <2> QED
    BY <2>1, <2>2, <2>3
<1> QED
  BY <1>6, <1>10, <1>11 DEF IInv

\* The task is over.
LEMMA ReturnsKeeps == ASSUME IInv, NEW w \in Workers, Returns(w) PROVE IInv' /\ RowStep
<1> DEFINE p == Place(w, "done")
<1>1. /\ w \in Actors /\ PlacesOK /\ at[w].pc \in {"saved", "marked"}
      /\ row' = row /\ UNCHANGED <<lock, child, engine>>
  BY DEF Actors, IInv, Returns
<1>2. "done" \in Where /\ "done" \in WorkerWhere \ (Holding \cup {"idle"})
  BY DEF Where, WorkerWhere, Holding, Working
<1>3. p \in PlaceRecord /\ p.pc = "done" /\ p.key = at[w].key /\ p.held = Absent
  BY <1>1, <1>2, PlaceFacts
<1>4. at' = [at EXCEPT ![w] = p]
  BY DEF Returns
<1> HIDE DEF p
<1>5. RowsOK' /\ PlacesOK' /\ LockOK' /\ RowStep
  BY <1>1, <1>2, <1>3, <1>4, GoesFacts
<1>6. ChildOK'
  BY <1>1, <1>3, <1>4 DEF IInv, ChildOK, PlacesOK
<1>7. ProcessTypes'
  BY DEF Returns, IInv, ProcessTypes
<1> QED
  BY <1>5, <1>6, <1>7 DEF IInv

\* The event loop forgets a task that is over.
LEMMA TaskFinishedKeeps == ASSUME IInv, NEW w \in Workers, TaskFinished(w) PROVE IInv' /\ RowStep
<1>1. row' = row /\ UNCHANGED <<lock, child, engine>> /\ at[w].pc = "done" /\ w \in Actors
  BY DEF TaskFinished, Actors
<1>2. at \in [Actors -> PlaceRecord]
  BY DEF IInv, PlacesOK
<1>3. ASSUME NEW a \in Actors
      PROVE  /\ at'[a] \in PlaceRecord
             /\ at'[a] = Idle \/ /\ at'[a].pc = at[a].pc
                                 /\ at'[a].key = at[a].key
                                 /\ at'[a].held = at[a].held
             /\ a = w => at'[a] = Idle
             /\ a # w => at'[a].pc = at[a].pc
  <2>1. at'[a] = IF a = w THEN Idle
                 ELSE IF at[a].task = w THEN [at[a] EXCEPT !.task = None]
                 ELSE at[a]
    BY <1>2 DEF TaskFinished
  <2>2. at[a] \in PlaceRecord
    BY <1>2
  <2> QED
    BY <2>1, <2>2, IdleFacts DEF PlaceRecord
<1>4. at' \in [Actors -> PlaceRecord]
  <2>1. at' = [a \in Actors |-> at'[a]]
    BY <1>2 DEF TaskFinished
  <2> QED
    BY <1>3, <2>1
<1>5. PlacesOK'
  <2>1. \A v \in Workers : at'[v].pc \in WorkerWhere
    BY <1>3, IdleFacts DEF IInv, PlacesOK, Actors, WorkerWhere
  <2>2. \A c \in Calls : at'[c].pc \in CallWhere
    BY <1>3, IdleFacts DEF IInv, PlacesOK, Actors, CallWhere
  <2>3. ASSUME NEW a \in Actors PROVE PlaceOK(at'[a], row')
    <3>1. PlaceOK(at[a], row)
      BY DEF IInv, PlacesOK
    <3>2. CASE at'[a] = Idle
      BY <3>2, IdleFacts
    <3>3. CASE at'[a] # Idle
      BY <1>1, <1>3, <3>1, <3>3 DEF PlaceOK
    <3> QED
      BY <3>2, <3>3
  <2> QED
    BY <1>4, <2>1, <2>2, <2>3 DEF PlacesOK
<1>6. RowsOK' /\ RowStep
  BY <1>1 DEF IInv, RowsOK, RowStep
<1>7. \A c \in Calls : at'[c].pc = at[c].pc
  BY <1>3, ActorAssumption DEF Actors
<1>8. LockOK'
  BY <1>1, <1>7 DEF IInv, LockOK
<1>9. ChildOK'
  BY <1>1, <1>3, IdleFacts DEF IInv, ChildOK, Actors
<1>10. ProcessTypes'
  <2>1. slot' \in [Keys -> Workers \cup {None}]
    BY DEF TaskFinished, IInv, ProcessTypes
  <2> QED
    BY <2>1 DEF TaskFinished, IInv, ProcessTypes
<1> QED
  BY <1>5, <1>6, <1>8, <1>9, <1>10 DEF IInv

-----------------------------------------------------------------------------
(* _mark_terminal *)

\* After _mark_terminal a task is done and a request answered.
LEMMA MarkedFacts ==
    ASSUME IInv, NEW a \in Actors, at[a].pc \notin {"idle", "found"}
    PROVE  /\ Marked(a) \in PlaceRecord
           /\ PlaceOK(Marked(a), row)
           /\ a \in Workers => Marked(a).pc = "done"
           /\ a \in Calls => Marked(a).pc = "idle"
<1>1. PlacesOK /\ PlaceOK(at[a], row)
  BY DEF IInv, PlacesOK
<1>2. CASE a \in Workers
  <2>1. "done" \in Where /\ "done" \notin Holding \cup {"idle"}
    BY DEF Where, WorkerWhere, Holding, Working
  <2>2. /\ Place(a, "done") \in PlaceRecord /\ Place(a, "done").pc = "done"
        /\ Place(a, "done").key = at[a].key /\ Place(a, "done").held = Absent
    BY <1>1, <2>1, PlaceFacts
  <2>3. PlaceOK(Place(a, "done"), row)
    <3>1. at[a].key \in Keys /\ row[at[a].key].status # "ABSENT"
      BY <1>1 DEF PlaceOK
    <3> QED
      BY <2>1, <2>2, <3>1, CopylessPlace
  <2> QED
    BY <1>2, <2>2, <2>3, ActorAssumption DEF Marked
<1>3. CASE a \notin Workers
  BY <1>3, IdleFacts DEF Marked
<1> QED
  BY <1>2, <1>3

\* Whoever marks a row leaves the lock, the children and the semaphore alone.
LEMMA MarkMoves ==
    ASSUME IInv, NEW a \in Actors, NEW p \in PlaceRecord,
           at[a].pc \in {"marking", "ending"}, at' = [at EXCEPT ![a] = p],
           p.pc \in {"done", "marking", "ending", "marked", "idle"},
           a \in Calls => p.pc # "done",
           PlaceOK(p, row'), UNCHANGED <<lock, child, engine>>,
           \/ row' = row
           \/ \E k \in Keys, new \in Row : Advances(k, new) /\ row[k].status # "ABSENT"
    PROVE  RowsOK' /\ PlacesOK' /\ LockOK' /\ ChildOK' /\ RowStep
<1>1. RowsOK' /\ RowStep /\ \A b \in Actors : PlaceOK(at[b], row')
  <2>1. CASE row' = row
    BY <2>1 DEF IInv, RowsOK, PlacesOK, RowStep
  <2>2. CASE row' # row
    BY <2>2, AdvanceFacts DEF RowStep
  <2> QED
    BY <2>1, <2>2
<1>2. at'[a] = p /\ \A b \in Actors \ {a} : at'[b] = at[b]
  BY DEF IInv, PlacesOK
<1>3. (a \in Workers => p.pc \in WorkerWhere) /\ (a \in Calls => p.pc \in CallWhere)
  BY DEF WorkerWhere, CallWhere, Handling
<1>4. PlacesOK'
  BY <1>1, <1>3, OneMoves
<1>5. LockOK'
  BY <1>2 DEF IInv, LockOK, Actors
<1>6. ChildOK'
  BY <1>2 DEF IInv, ChildOK, Actors
<1> QED
  BY <1>1, <1>4, <1>5, <1>6

\* _mark_terminal reads the row.
LEMMA MarkReadsKeeps == ASSUME IInv, NEW a \in Actors, MarkReads(a) PROVE IInv' /\ RowStep
<1> DEFINE k == at[a].key
           p == [at[a] EXCEPT !.pc = "ending", !.held = row[k]]
<1>1. /\ at[a] \in PlaceRecord /\ PlaceOK(at[a], row) /\ at[a].pc = "marking"
      /\ row' = row /\ UNCHANGED <<lock, child, engine>>
  BY DEF MarkReads, IInv, PlacesOK
<1>2. k \in Keys /\ row[k] \in Row /\ RowOK(row[k]) /\ row[k].status # "ABSENT"
  BY <1>1 DEF PlaceOK, IInv, RowsOK
<1>3. ProcessTypes'
  BY DEF MarkReads, IInv, ProcessTypes
<1>4. CASE row[k].status \in Terminal
  <2>1. at' = [at EXCEPT ![a] = Marked(a)]
    BY <1>4 DEF MarkReads
  <2>2. Marked(a) \in PlaceRecord /\ PlaceOK(Marked(a), row')
        /\ Marked(a).pc \in {"done", "idle"} /\ (a \in Calls => Marked(a).pc = "idle")
    BY <1>1, MarkedFacts DEF Actors
  <2> QED
    BY <1>1, <1>3, <2>1, <2>2, MarkMoves DEF IInv
<1>5. CASE row[k].status \notin Terminal
  <2>1. at' = [at EXCEPT ![a] = p]
    BY <1>5 DEF MarkReads
  <2>2. p \in PlaceRecord /\ p.pc = "ending" /\ p.key = k /\ p.held = row[k]
    <3>1. "ending" \in Where
      BY DEF Where, WorkerWhere, Handling
    <3> QED
      BY <1>1, <1>2, <3>1 DEF PlaceRecord
  <2> HIDE DEF p
  <2>3. PlaceOK(p, row')
    <3>1. row[k].version \in Nat
      BY <1>2 DEF Row
    <3> QED
      BY <1>1, <1>2, <1>5, <2>2, <3>1 DEF PlaceOK, Holding, Working
  <2> QED
    BY <1>1, <1>3, <2>1, <2>2, <2>3, MarkMoves DEF IInv
<1> QED
  BY <1>4, <1>5

\* _mark_terminal saves, tries again or gives up.
LEMMA MarkSavesKeeps == ASSUME IInv, NEW a \in Actors, MarkSaves(a) PROVE IInv' /\ RowStep
<1> DEFINE k == at[a].key
           old == at[a].held
           to == at[a].to
           why == at[a].why
           saved == Place(a, "marked")
           again == [at[a] EXCEPT !.pc = "marking", !.held = Absent, !.tries = 1]
<1>1. /\ at[a] \in PlaceRecord /\ PlaceOK(at[a], row) /\ at[a].pc = "ending" /\ PlacesOK
      /\ UNCHANGED <<lock, child, engine>>
  BY DEF MarkSaves, IInv, PlacesOK
<1>2. /\ k \in Keys /\ row[k].status # "ABSENT" /\ old \in Row /\ RowOK(old)
      /\ old.status \notin Terminal /\ to \in Stopped /\ why \in Code
  BY <1>1 DEF PlaceOK, PlaceRecord
<1>3. ProcessTypes'
  BY DEF MarkSaves, IInv, ProcessTypes
<1>4. Marked(a) \in PlaceRecord /\ PlaceOK(Marked(a), row)
      /\ Marked(a).pc \in {"done", "idle"} /\ (a \in Calls => Marked(a).pc = "idle")
  BY <1>1, MarkedFacts DEF Actors
<1>5. CASE ~HasRoom(old)
  <2>1. row' = row /\ at' = [at EXCEPT ![a] = Marked(a)]
    BY <1>5 DEF MarkSaves
  <2> QED
    BY <1>1, <1>3, <1>4, <2>1, MarkMoves DEF IInv
<1>6. CASE HasRoom(old)
  <2> DEFINE stored == [Stop(old, to, why) EXCEPT !.version = old.version + 1]
  <2>1. Save(k, old, Stop(old, to, why))
    BY <1>6 DEF MarkSaves
  <2>2. /\ Stop(old, to, why) \in Row /\ Stop(old, to, why).status = to
        /\ RowOK(stored) /\ stored.status = to
    BY <1>2, <1>6, StopFacts
  <2>3. to # "ABSENT"
    BY <1>2 DEF Stopped
  <2>4. at[a].pc \in Holding /\ old.status \notin {"APPROVED", "PENDING_REVIEW"}
    BY <1>1, <1>2 DEF Holding, Terminal, Reviewable
  <2>5. /\ Saved(k, old) => stored \in Row /\ Advances(k, stored)
        /\ ~Saved(k, old) => row' = row
    BY <2>1, <2>2, <2>3, <2>4, SaveFacts
  <2>6. CASE Saved(k, old)
    <3>1. at' = [at EXCEPT ![a] = saved]
      BY <1>6, <2>6 DEF MarkSaves
    <3>2. row'[k] = stored
      BY <1>2, <2>5, <2>6 DEF Advances, IInv, RowsOK
    <3>3. "marked" \in Where /\ "marked" \notin Holding \cup {"idle"}
      BY DEF Where, CallWhere, Holding, Working
    <3>4. saved \in PlaceRecord /\ saved.pc = "marked" /\ saved.key = k /\ saved.held = Absent
      BY <1>1, <3>3, PlaceFacts
    <3> HIDE DEF saved, stored
    <3>5. PlaceOK(saved, row')
      BY <1>2, <2>2, <2>3, <3>2, <3>3, <3>4, CopylessPlace
    <3> QED
      BY <1>1, <1>2, <1>3, <2>5, <2>6, <3>1, <3>4, <3>5, MarkMoves DEF IInv
  <2>7. CASE ~Saved(k, old)
    <3>1. row' = row
      BY <2>5, <2>7
    <3>2. CASE at[a].tries = 1
      <4>1. at' = [at EXCEPT ![a] = Marked(a)]
        BY <1>6, <2>7, <3>2 DEF MarkSaves
      <4> QED
        BY <1>1, <1>3, <1>4, <3>1, <4>1, MarkMoves DEF IInv
    <3>3. CASE at[a].tries # 1
      <4>1. at' = [at EXCEPT ![a] = again]
        BY <1>6, <2>7, <3>3 DEF MarkSaves
      <4>2. "marking" \in Where /\ "marking" \notin Holding \cup {"idle"}
        BY DEF Where, CallWhere, Holding, Working
      <4>3. again \in PlaceRecord /\ again.pc = "marking" /\ again.key = k /\ again.held = Absent
        BY <1>1, <4>2, AbsentFacts DEF PlaceRecord
      <4> HIDE DEF again
      <4>4. PlaceOK(again, row')
        BY <1>2, <3>1, <4>2, <4>3, CopylessPlace
      <4> QED
        BY <1>1, <1>3, <3>1, <4>1, <4>3, <4>4, MarkMoves DEF IInv
    <3> QED
      BY <3>2, <3>3
  <2> QED
    BY <2>6, <2>7
<1> QED
  BY <1>5, <1>6

-----------------------------------------------------------------------------
(* Requests *)

\* A request moves while rows, children and the semaphore stay.
LEMMA CallMoves ==
    ASSUME IInv, NEW c \in Calls, NEW p \in PlaceRecord,
           at' = [at EXCEPT ![c] = p], p.pc \in CallWhere, PlaceOK(p, row),
           UNCHANGED <<row, child, engine>>,
           p.pc \in {"found", "created"} => lock' = c,
           lock' = lock \/ lock \in {None, c}
    PROVE  RowsOK' /\ PlacesOK' /\ LockOK' /\ ChildOK' /\ RowStep
<1>1. c \in Actors /\ c \notin Workers
  BY ActorAssumption DEF Actors
<1>2. at'[c] = p /\ \A b \in Actors \ {c} : at'[b] = at[b]
  BY <1>1 DEF IInv, PlacesOK
<1>3. RowsOK' /\ PlacesOK' /\ RowStep
  BY <1>1, OneMovesAlone
<1>4. LockOK'
  <2> SUFFICES ASSUME NEW d \in Calls, d # c, at'[d].pc \in {"found", "created"}
               PROVE  lock' = d
    BY <1>2 DEF LockOK
  <2>1. lock = d /\ d # None
    BY <1>2, NoneAssumption DEF IInv, LockOK, Actors
  <2> QED
    BY <2>1
<1>5. ChildOK'
  BY <1>1, <1>2 DEF IInv, ChildOK, Actors
<1> QED
  BY <1>3, <1>4, <1>5

\* A request is answered, under the lock or without it.
LEMMA CallAnswered ==
    ASSUME IInv, NEW c \in Calls, at' = [at EXCEPT ![c] = Idle],
           UNCHANGED <<row, child, engine>>, lock' = lock \/ lock \in {None, c}
    PROVE  RowsOK' /\ PlacesOK' /\ LockOK' /\ ChildOK' /\ RowStep
<1>1. Idle \in PlaceRecord /\ Idle.pc = "idle" /\ PlaceOK(Idle, row) /\ Idle.pc \in CallWhere
  BY IdleFacts DEF CallWhere
<1> QED
  BY <1>1, CallMoves

\* start finds the row of its key.
LEMMA StartFindsKeeps ==
    ASSUME IInv, NEW c \in Calls, NEW k \in Keys, StartFinds(c, k) PROVE IInv' /\ RowStep
<1> DEFINE p == [Idle EXCEPT !.pc = "found", !.key = k, !.held = row[k]]
<1>1. row[k] \in Row /\ RowOK(row[k]) /\ row[k].version \in Nat
  BY DEF IInv, RowsOK, Row
<1>2. p \in PlaceRecord /\ p.pc = "found" /\ p.key = k /\ p.held = row[k]
  <2>1. "found" \in Where
    BY DEF Where, CallWhere
  <2> QED
    BY <1>1, <2>1, IdleFacts DEF PlaceRecord
<1>3. at' = [at EXCEPT ![c] = p]
  BY DEF StartFinds
<1> HIDE DEF p
<1>4. PlaceOK(p, row) /\ p.pc \in CallWhere
  BY <1>1, <1>2 DEF PlaceOK, Holding, Working, CallWhere
<1>5. RowsOK' /\ PlacesOK' /\ LockOK' /\ ChildOK' /\ RowStep
  BY <1>2, <1>3, <1>4, CallMoves DEF StartFinds
<1>6. ProcessTypes'
  BY DEF StartFinds, IInv, ProcessTypes
<1> QED
  BY <1>5, <1>6 DEF IInv

\* _schedule_locked, of a request with the lock for an existing transcription.
LEMMA ScheduleKeeps ==
    ASSUME IInv, NEW c \in Calls, NEW k \in Keys, at[c].pc \in {"found", "created"},
           row[k].status # "ABSENT", ScheduleLocked(c, k),
           UNCHANGED <<row, child, cancelled, asked, engine, gathered, phase>>
    PROVE  IInv' /\ RowStep
<1>1. lock = c
  BY DEF IInv, LockOK
<1>2. lock' = None
  BY DEF ScheduleLocked
<1>3. CASE TaskIsActive(k)
  <2>1. at' = [at EXCEPT ![c] = Idle] /\ slot' = slot
    BY <1>3 DEF ScheduleLocked
  <2>2. RowsOK' /\ PlacesOK' /\ LockOK' /\ ChildOK' /\ RowStep
    BY <1>1, <2>1, CallAnswered
  <2>3. ProcessTypes'
    BY <1>2, <2>1 DEF IInv, ProcessTypes
  <2> QED
    BY <2>2, <2>3 DEF IInv
<1>4. CASE ~TaskIsActive(k)
  <2> DEFINE p == [Idle EXCEPT !.pc = "new", !.key = k]
  <2>1. PICK w \in Workers : /\ IsFree(w)
                             /\ at' = [at EXCEPT ![c] = Idle, ![w] = p]
                             /\ slot' = [slot EXCEPT ![k] = w]
    BY <1>4 DEF ScheduleLocked
  <2>2. c \in Actors /\ w \in Actors /\ w # c
    BY ActorAssumption DEF Actors
  <2>3. "new" \in Where /\ "new" \in WorkerWhere /\ "new" \notin Holding \cup {"idle"}
    BY DEF Where, WorkerWhere, Holding, Working
  <2>4. p \in PlaceRecord /\ p.pc = "new" /\ p.key = k /\ p.held = Absent
    BY <2>3, IdleFacts DEF PlaceRecord
  <2> HIDE DEF p
  <2>5. PlaceOK(p, row')
    BY <2>3, <2>4, CopylessPlace
  <2>6. /\ at' \in [Actors -> PlaceRecord]
        /\ at'[c] = Idle /\ at'[w] = p
        /\ \A b \in Actors \ {c, w} : at'[b] = at[b]
    BY <2>1, <2>2, <2>4, IdleFacts DEF IInv, PlacesOK
  <2>7. PlacesOK'
    <3>1. \A v \in Workers : at'[v].pc \in WorkerWhere
      BY <2>2, <2>3, <2>4, <2>6, IdleFacts DEF IInv, PlacesOK, Actors, WorkerWhere
    <3>2. \A d \in Calls : at'[d].pc \in CallWhere
      BY <2>2, <2>6, IdleFacts, ActorAssumption DEF IInv, PlacesOK, Actors, CallWhere
    <3>3. \A b \in Actors : PlaceOK(at'[b], row')
      BY <2>2, <2>5, <2>6, IdleFacts DEF IInv, PlacesOK
    <3> QED
      BY <2>6, <3>1, <3>2, <3>3 DEF PlacesOK
  <2>8. RowsOK' /\ RowStep
    BY DEF IInv, RowsOK, RowStep
  <2>9. LockOK'
    <3> SUFFICES ASSUME NEW d \in Calls, at'[d].pc \in {"found", "created"} PROVE FALSE
      BY DEF LockOK
    <3>1. d # c
      BY <2>6, IdleFacts
    <3>2. at'[d] = at[d]
      BY <2>2, <2>6, <3>1, ActorAssumption DEF Actors
    <3> QED
      BY <1>1, <3>1, <3>2 DEF IInv, LockOK
  <2>10. ChildOK'
    <3>1. at[w].pc = "idle"
      BY <2>1 DEF IsFree
    <3> QED
      BY <2>2, <2>4, <2>6, <3>1, ActorAssumption DEF IInv, ChildOK, Actors, IsFree
  <2>11. ProcessTypes'
    BY <1>2, <2>1 DEF IInv, ProcessTypes
  <2> QED
    BY <2>7, <2>8, <2>9, <2>10, <2>11 DEF IInv
<1> QED
  BY <1>3, <1>4

\* start answers with what it found.
LEMMA StartAnswersKeeps ==
    ASSUME IInv, NEW c \in Calls, StartAnswers(c) PROVE IInv' /\ RowStep
<1> DEFINE k == at[c].key
<1>1. at[c] \in PlaceRecord /\ PlaceOK(at[c], row) /\ at[c].pc = "found" /\ lock = c
  BY DEF StartAnswers, IInv, PlacesOK, Actors, LockOK
<1>2. k \in Keys /\ row[k] \in Row /\ RowOK(row[k]) /\ at[c].held \in Row /\ RowOK(at[c].held)
  BY <1>1 DEF PlaceOK, PlaceRecord, IInv, RowsOK
<1>3. UNCHANGED <<row, child, cancelled, asked, engine, gathered, phase>>
  BY DEF StartAnswers
<1>4. CASE Answer(c) /\ slot' = slot
  <2>1. RowsOK' /\ PlacesOK' /\ LockOK' /\ ChildOK' /\ RowStep
    BY <1>1, <1>3, <1>4, CallAnswered DEF Answer
  <2>2. ProcessTypes'
    BY <1>3, <1>4 DEF Answer, IInv, ProcessTypes
  <2> QED
    BY <2>1, <2>2 DEF IInv
<1>5. CASE at[c].held.status = "QUEUED" /\ ScheduleLocked(c, k)
  <2>1. row[k].status # "ABSENT"
    <3>1. at[c].held.version >= 1 /\ at[c].held.version <= row[k].version
      BY <1>1, <1>2, <1>5 DEF PlaceOK, Holding, RowOK
    <3>2. row[k].version # 0
      BY <1>2, <3>1 DEF Row
    <3> QED
      BY <1>2, <3>2 DEF RowOK, Absent
  <2> QED
    BY <1>1, <1>2, <1>3, <1>5, <2>1, ScheduleKeeps
<1> QED
  BY <1>4, <1>5 DEF StartAnswers

\* start queues a new transcription, or a finished one again.
LEMMA StartQueuesKeeps ==
    ASSUME IInv, NEW c \in Calls, StartQueues(c) PROVE IInv' /\ RowStep
<1> DEFINE k == at[c].key
           old == at[c].held
           p == Place(c, "created")
<1>1. /\ c \in Actors /\ at[c] \in PlaceRecord /\ PlaceOK(at[c], row)
      /\ at[c].pc = "found" /\ lock = c /\ PlacesOK
  BY DEF StartQueues, IInv, PlacesOK, Actors, LockOK
<1>2. /\ k \in Keys /\ row[k] \in Row /\ RowOK(row[k]) /\ old \in Row /\ RowOK(old)
      /\ old.status \in {"ABSENT", "REJECTED"} \cup Stopped
  BY <1>1 DEF PlaceOK, PlaceRecord, IInv, RowsOK, StartQueues
<1>3. UNCHANGED <<child, cancelled, slot, asked, engine, gathered, phase>>
  BY DEF StartQueues
<1>4. "created" \in Where /\ "created" \in CallWhere /\ "created" \notin Holding \cup {"idle"}
  BY DEF Where, CallWhere, Holding, Working
<1>5. p \in PlaceRecord /\ p.pc = "created" /\ p.key = k /\ p.held = Absent
  BY <1>1, <1>4, PlaceFacts
<1> HIDE DEF p
<1>6. CASE Saved(k, old)
  <2>1. at' = [at EXCEPT ![c] = p] /\ lock' = lock
    BY <1>6 DEF StartQueues, p
  <2>2. \E new \in Row : Advances(k, new)
    <3>1. CASE old.status = "ABSENT"
      <4>1. row' = [row EXCEPT ![k] = Queued]
        BY <3>1 DEF StartQueues
      <4>2. row[k] = Absent
        BY <1>1, <1>2, <3>1 DEF PlaceOK, RowOK
      <4>3. row[k].status = "ABSENT" /\ row[k].version = 0
        BY <4>2 DEF Absent
      <4>4. Advances(k, Queued)
        BY <4>1, <4>3, QueuedFacts DEF Advances
      <4> QED
        BY <4>4, QueuedFacts
    <3>2. CASE old.status # "ABSENT"
      <4> DEFINE stored == [Restarted(old) EXCEPT !.version = old.version + 1]
      <4>1. Save(k, old, Restarted(old))
        BY <3>2 DEF StartQueues
      <4>2. /\ Restarted(old) \in Row /\ Restarted(old).status = "QUEUED"
            /\ RowOK(stored)
        BY <1>2, RestartedFacts
      <4>3. at[c].pc \in Holding /\ old.status \notin {"APPROVED", "PENDING_REVIEW"}
        BY <1>1, <1>2 DEF Holding, Stopped
      <4>4. stored \in Row /\ Advances(k, stored)
        BY <1>1, <1>6, <4>1, <4>2, <4>3, SaveFacts
      <4> QED
        BY <4>4
    <3> QED
      BY <3>1, <3>2
  <2>3. PICK new \in Row : Advances(k, new)
    BY <2>2
  <2>4. row'[k] = new /\ new.status # "ABSENT"
    BY <1>2, <2>3 DEF Advances, IInv, RowsOK
  <2>5. \A b \in Actors \ {c} : at[b].pc # "found"
    <3>1. \A b \in Calls \ {c} : at[b].pc # "found"
      BY <1>1 DEF IInv, LockOK
    <3>2. \A w \in Workers : at[w].pc # "found"
      BY DEF IInv, PlacesOK, WorkerWhere, Trying, Handling
    <3> QED
      BY <3>1, <3>2 DEF Actors
  <2>6. RowsOK' /\ RowStep /\ \A b \in Actors \ {c} : PlaceOK(at[b], row')
    BY <1>2, <2>3, <2>5, AdvanceFacts DEF RowStep
  <2>7. PlaceOK(p, row')
    BY <1>2, <1>4, <1>5, <2>4, CopylessPlace
  <2>8. PlacesOK'
    BY <1>1, <1>4, <1>5, <2>1, <2>6, <2>7, ActorAssumption, OneMoves
  <2>9. at'[c] = p /\ c \notin Workers /\ \A b \in Actors \ {c} : at'[b] = at[b]
    BY <1>1, <2>1, ActorAssumption DEF PlacesOK
  <2>10. LockOK' /\ ChildOK'
    BY <1>1, <1>3, <2>1, <2>9 DEF IInv, LockOK, ChildOK, Actors
  <2>11. ProcessTypes'
    BY <1>3, <2>1 DEF IInv, ProcessTypes
  <2> QED
    BY <2>6, <2>8, <2>10, <2>11 DEF IInv
<1>7. CASE ~Saved(k, old)
  <2>1. Answer(c)
    BY <1>7 DEF StartQueues
  <2>2. old.status # "ABSENT"
    BY <1>1, <1>2, <1>7 DEF PlaceOK, RowOK, Saved
  <2>3. row' = row
    BY <1>7, <2>2 DEF StartQueues, Save
  <2>4. RowsOK' /\ PlacesOK' /\ LockOK' /\ ChildOK' /\ RowStep
    BY <1>1, <1>3, <2>1, <2>3, CallAnswered DEF Answer
  <2>5. ProcessTypes'
    BY <1>3, <2>1 DEF Answer, IInv, ProcessTypes
  <2> QED
    BY <2>4, <2>5 DEF IInv
<1> QED
  BY <1>6, <1>7

\* start schedules what it has queued.
LEMMA StartSchedulesKeeps ==
    ASSUME IInv, NEW c \in Calls, StartSchedules(c) PROVE IInv' /\ RowStep
<1>1. PlaceOK(at[c], row) /\ at[c].pc = "created"
  BY DEF StartSchedules, IInv, PlacesOK, Actors
<1>2. at[c].key \in Keys /\ row[at[c].key].status # "ABSENT"
  BY <1>1 DEF PlaceOK
<1> QED
  BY <1>1, <1>2, ScheduleKeeps DEF StartSchedules

\* cancel asks the task to stop.
LEMMA CancelAsksKeeps ==
    ASSUME IInv, NEW c \in Calls, NEW k \in Keys, CancelAsks(c, k) PROVE IInv' /\ RowStep
<1> DEFINE p == [Idle EXCEPT !.pc = "waiting", !.key = k, !.task = slot[k]]
<1>1. slot[k] \in Workers \cup {None} /\ row[k].status # "ABSENT"
  BY DEF CancelAsks, IInv, ProcessTypes
<1>2. "waiting" \in Where /\ "waiting" \in CallWhere /\ "waiting" \notin Holding \cup {"idle"}
  BY DEF Where, CallWhere, Holding, Working
<1>3. p \in PlaceRecord /\ p.pc = "waiting" /\ p.key = k /\ p.held = Absent
  BY <1>1, <1>2, IdleFacts DEF PlaceRecord
<1>4. at' = [at EXCEPT ![c] = p]
  BY DEF CancelAsks
<1> HIDE DEF p
<1>5. PlaceOK(p, row)
  BY <1>1, <1>2, <1>3, CopylessPlace
<1>6. RowsOK' /\ PlacesOK' /\ LockOK' /\ ChildOK' /\ RowStep
  <2>1. UNCHANGED <<row, child, lock, engine>>
    BY DEF CancelAsks
  <2>2. p.pc \in CallWhere /\ p.pc \notin {"found", "created"}
    BY <1>2, <1>3
  <2> QED
    BY <1>3, <1>4, <1>5, <2>1, <2>2, CallMoves
<1>7. ProcessTypes'
  <2>1. TaskIsActive(k) => slot[k] \in Workers
    BY <1>1 DEF TaskIsActive
  <2>2. asked' \subseteq Keys /\ cancelled' \subseteq Workers
    BY <2>1 DEF CancelAsks, IInv, ProcessTypes
  <2> QED
    BY <2>2 DEF CancelAsks, IInv, ProcessTypes
<1> QED
  BY <1>6, <1>7 DEF IInv

\* cancel goes on when the task is over.
LEMMA CancelContinuesKeeps ==
    ASSUME IInv, NEW c \in Calls, CancelContinues(c) PROVE IInv' /\ RowStep
<1> DEFINE p == Handler(c, "marking", "CANCELLED", "operator_cancelled")
<1>1. /\ c \in Actors /\ PlacesOK /\ PlaceOK(at[c], row) /\ at[c].pc = "waiting"
      /\ UNCHANGED <<row, child, cancelled, slot, asked, lock, engine, gathered, phase>>
  BY DEF CancelContinues, IInv, PlacesOK, Actors
<1>2. ProcessTypes'
  BY <1>1 DEF IInv, ProcessTypes
<1>3. CASE at' = [at EXCEPT ![c] = Idle]
  BY <1>1, <1>2, <1>3, CallAnswered DEF IInv
<1>4. CASE at' = [at EXCEPT ![c] = p]
  <2>1. "marking" \in Where /\ "marking" \in CallWhere /\ "marking" \notin Holding \cup {"idle"}
        /\ "CANCELLED" \in Stopped /\ "operator_cancelled" \in Code
    BY DEF Where, CallWhere, Holding, Working, Stopped, Code
  <2>2. p \in PlaceRecord /\ p.pc = "marking" /\ p.key = at[c].key /\ p.held = Absent
    BY <1>1, <2>1, HandlerFacts
  <2> HIDE DEF p
  <2>3. at[c].key \in Keys /\ row[at[c].key].status # "ABSENT"
    BY <1>1 DEF PlaceOK
  <2>4. PlaceOK(p, row)
    BY <2>1, <2>2, <2>3, CopylessPlace
  <2> QED
    BY <1>1, <1>2, <1>4, <2>1, <2>2, <2>4, CallMoves DEF IInv
<1> QED
  BY <1>3, <1>4 DEF CancelContinues

\* cancel answers.
LEMMA CancelAnswersKeeps ==
    ASSUME IInv, NEW c \in Calls, CancelAnswers(c) PROVE IInv' /\ RowStep
<1>1. ProcessTypes'
  BY DEF CancelAnswers, IInv, ProcessTypes
<1> QED
  BY <1>1, CallAnswered DEF IInv, CancelAnswers

-----------------------------------------------------------------------------
(* Reviews and the process *)

\* A step that stores one existing row and moves nobody.
LEMMA RowAloneKeeps ==
    ASSUME IInv, NEW k \in Keys, NEW new \in Row, Advances(k, new), row[k].status # "ABSENT",
           UNCHANGED <<at, child, lock, engine>>, ProcessTypes'
    PROVE  IInv' /\ RowStep
<1>1. RowsOK' /\ RowStep /\ \A a \in Actors : PlaceOK(at[a], row')
  BY AdvanceFacts DEF RowStep
<1>2. PlacesOK' /\ LockOK' /\ ChildOK'
  BY <1>1 DEF IInv, PlacesOK, LockOK, ChildOK
<1> QED
  BY <1>1, <1>2 DEF IInv

\* A review decides a transcript that waits for it.
LEMMA ReviewKeeps == ASSUME IInv, NEW k \in Keys, Review(k) PROVE IInv' /\ RowStep
<1>1. row[k] \in Row /\ RowOK(row[k]) /\ row[k].status = "PENDING_REVIEW"
      /\ row[k].reviews < MaxEvidence
  BY DEF Review, IInv, RowsOK
<1>2. PICK approve \in BOOLEAN : Save(k, row[k], Reviewed(row[k], approve))
  BY DEF Review
<1> DEFINE stored == [Reviewed(row[k], approve) EXCEPT !.version = row[k].version + 1]
<1>3. /\ stored \in Row /\ RowOK(stored) /\ stored.version = row[k].version + 1
      /\ stored.status \in {"APPROVED", "REJECTED"}
  BY <1>1, ReviewedFacts
<1>4. row' = [row EXCEPT ![k] = stored]
  BY <1>2 DEF Save, Saved
<1> HIDE DEF stored
<1>5. Advances(k, stored)
  BY <1>1, <1>3, <1>4 DEF Advances
<1>6. ProcessTypes'
  BY DEF Review, IInv, ProcessTypes
<1> QED
  BY <1>1, <1>3, <1>5, <1>6, RowAloneKeeps DEF Review

\* Recovery ends what the last process left unfinished.
LEMMA RecoverKeeps == ASSUME IInv, NEW k \in Keys, RecoverInterrupted(k) PROVE IInv' /\ RowStep
<1>1. /\ row[k] \in Row /\ RowOK(row[k]) /\ row[k].status \in Active
      /\ UNCHANGED <<at, child, cancelled, slot, asked, lock, engine, gathered>>
  BY DEF RecoverInterrupted, IInv, RowsOK
<1>2. ProcessTypes'
  BY DEF RecoverInterrupted, IInv, ProcessTypes
<1>3. CASE HasRoom(row[k])
  <2> DEFINE stored == [Stop(row[k], "FAILED", "service_restarted") EXCEPT !.version = row[k].version + 1]
  <2>1. row[k].status \notin Terminal /\ "FAILED" \in Stopped /\ "service_restarted" \in Code
    BY <1>1 DEF Active, Terminal, Reviewable, Stopped, Code
  <2>2. /\ Stop(row[k], "FAILED", "service_restarted") \in Row
        /\ RowOK(stored) /\ stored.status = "FAILED"
    BY <1>1, <1>3, <2>1, StopFacts
  <2>3. row' = [row EXCEPT ![k] = stored]
    BY <1>3 DEF RecoverInterrupted, Save, Saved
  <2>4. stored \in Row /\ stored.version = row[k].version + 1
    BY <1>1, <2>2 DEF Row
  <2> HIDE DEF stored
  <2>5. Advances(k, stored)
    BY <1>1, <2>2, <2>3, <2>4 DEF Advances, Active
  <2>6. row[k].status # "ABSENT"
    BY <1>1 DEF Active
  <2> QED
    BY <1>1, <1>2, <2>4, <2>5, <2>6, RowAloneKeeps
<1>4. CASE ~HasRoom(row[k])
  <2>1. row' = row
    BY <1>4 DEF RecoverInterrupted
  <2>2. RowsOK' /\ PlacesOK' /\ RowStep
    BY <1>1, <2>1, NobodyMoves
  <2>3. LockOK' /\ ChildOK'
    BY <1>1 DEF IInv, LockOK, ChildOK
  <2> QED
    BY <1>2, <2>2, <2>3 DEF IInv
<1> QED
  BY <1>3, <1>4

\* A dead process has forgotten everything but the rows.
LEMMA ForgottenKeeps ==
    ASSUME IInv, Forgotten, phase' = "down" PROVE IInv' /\ RowStep
<1>1. RowsOK' /\ RowStep
  BY DEF Forgotten, IInv, RowsOK, RowStep
<1>2. PlacesOK'
  BY IdleFacts DEF Forgotten, PlacesOK, Actors, WorkerWhere, CallWhere
<1>3. LockOK' /\ ChildOK'
  BY IdleFacts DEF Forgotten, LockOK, ChildOK
<1>4. ProcessTypes'
  BY DEF Forgotten, ProcessTypes
<1> QED
  BY <1>1, <1>2, <1>3, <1>4 DEF IInv

\* Closing cancels the tasks.
LEMMA CloseKeeps == ASSUME IInv, Close PROVE IInv' /\ RowStep
<1>1. RowsOK' /\ PlacesOK' /\ RowStep
  BY NobodyMoves DEF Close
<1>2. LockOK' /\ ChildOK'
  BY DEF Close, IInv, LockOK, ChildOK
<1>3. gathered' \subseteq Workers
  BY DEF Close, TaskIsActive, IInv, ProcessTypes
<1>4. ProcessTypes'
  BY <1>3 DEF Close, IInv, ProcessTypes
<1> QED
  BY <1>1, <1>2, <1>4 DEF IInv

\* A new process starts, and opens once everything is recovered.
LEMMA PhaseKeeps == ASSUME IInv, Start \/ Open PROVE IInv' /\ RowStep
<1>1. RowsOK' /\ PlacesOK' /\ RowStep
  BY NobodyMoves DEF Start, Open
<1>2. LockOK' /\ ChildOK' /\ ProcessTypes'
  BY DEF Start, Open, IInv, LockOK, ChildOK, ProcessTypes
<1> QED
  BY <1>1, <1>2 DEF IInv

-----------------------------------------------------------------------------
(* The theorems *)

\* The invariant holds initially.
LEMMA InitEstablishes == Init => IInv
<1> SUFFICES ASSUME Init PROVE IInv
  OBVIOUS
<1>1. RowsOK
  BY AbsentFacts DEF Init, RowsOK
<1>2. PlacesOK
  BY IdleFacts DEF Init, PlacesOK, Actors, WorkerWhere, CallWhere
<1>3. ProcessTypes /\ LockOK /\ ChildOK
  BY IdleFacts DEF Init, ProcessTypes, LockOK, ChildOK
<1> QED
  BY <1>1, <1>2, <1>3 DEF IInv

\* Every step keeps the invariant and advances at most one row.
LEMMA StepKeeps == IInv /\ [Next]_vars => IInv' /\ RowStep
<1> SUFFICES ASSUME IInv, [Next]_vars PROVE IInv' /\ RowStep
  OBVIOUS
<1>1. ASSUME NEW w \in Workers, TaskStep(w) PROVE IInv' /\ RowStep
  BY <1>1, BeginKeeps, ClaimKeeps, WorkFailsKeeps, SpawnKeeps, FeedKeeps, ChildExitsKeeps,
     TimesOutKeeps, ChildStopsKeeps, CompleteKeeps, InterruptedKeeps, ReturnsKeeps,
     TaskFinishedKeeps, MarkReadsKeeps, MarkSavesKeeps DEF TaskStep, Actors
<1>2. ASSUME NEW c \in Calls, CallStep(c) PROVE IInv' /\ RowStep
  BY <1>2, StartAnswersKeeps, StartQueuesKeeps, StartSchedulesKeeps, CancelContinuesKeeps,
     CancelAnswersKeeps, MarkReadsKeeps, MarkSavesKeeps DEF CallStep, Actors
<1>3. ASSUME NEW c \in Calls, NEW k \in Keys, StartFinds(c, k) \/ CancelAsks(c, k)
      PROVE  IInv' /\ RowStep
  BY <1>3, StartFindsKeeps, CancelAsksKeeps
<1>4. ASSUME NEW k \in Keys, Review(k) \/ RecoverInterrupted(k) PROVE IInv' /\ RowStep
  BY <1>4, ReviewKeeps, RecoverKeeps
<1>5. CASE Close
  BY <1>5, CloseKeeps
<1>6. CASE Closed \/ Crash
  BY <1>6, ForgottenKeeps DEF Closed, Crash
<1>7. CASE Start \/ Open
  BY <1>7, PhaseKeeps
<1>8. CASE UNCHANGED vars
  <2>1. RowsOK' /\ PlacesOK' /\ RowStep
    BY <1>8, NobodyMoves DEF vars
  <2>2. LockOK' /\ ChildOK' /\ ProcessTypes'
    BY <1>8 DEF vars, IInv, LockOK, ChildOK, ProcessTypes
  <2> QED
    BY <2>1, <2>2 DEF IInv
<1> QED
  BY <1>1, <1>2, <1>3, <1>4, <1>5, <1>6, <1>7, <1>8 DEF Next

\* The inductive invariant holds in every reachable state.
THEOREM Invariance == Spec => []IInv
<1> QED
  BY InitEstablishes, StepKeeps, PTL DEF Spec

\* Rows, tasks, requests, children and locks always have their types.
THEOREM TypeCorrectness == Spec => []TypeOK
<1> QED
  BY Invariance, TypesOfInvariant, PTL

\* Cues and verdicts always belong to the attempt they are shown with,
\* whatever is cancelled, closed, killed or started again meanwhile.
THEOREM ApprovedAsHeardAlways == Spec => []ApprovedAsHeard
<1>1. IInv => ApprovedAsHeard
  BY DEF IInv, RowsOK, RowOK, ApprovedAsHeard
<1> QED
  BY <1>1, Invariance, PTL

\* A recognition child that has its request is always awaited by its task,
\* under the semaphore: never do two of them work at once.
THEOREM OneChildWorksAlways == Spec => []OneChildWorks
<1>1. IInv => OneChildWorks
  BY DEF IInv, ChildOK, OneChildWorks
<1> QED
  BY <1>1, Invariance, PTL

\* An approved transcript is never replaced, and one that waits for its review
\* is left by a review alone.
THEOREM VerdictStandsAlways == Spec => VerdictStands
<1>1. IInv /\ [Next]_vars =>
        [\A k \in Keys :
            /\ row[k].status = "APPROVED" => row'[k] = row[k]
            /\ row[k].status = "PENDING_REVIEW" /\ row'[k] # row[k] =>
                  row'[k].status \in {"APPROVED", "REJECTED"}]_vars
  <2> SUFFICES ASSUME IInv, [Next]_vars, NEW k \in Keys
               PROVE  /\ row[k].status = "APPROVED" => row'[k] = row[k]
                      /\ row[k].status = "PENDING_REVIEW" /\ row'[k] # row[k] =>
                            row'[k].status \in {"APPROVED", "REJECTED"}
    OBVIOUS
  <2>1. RowStep
    BY StepKeeps
  <2>2. CASE row' = row
    BY <2>2
  <2>3. ASSUME NEW j \in Keys, NEW new \in Row, Advances(j, new)
        PROVE  /\ row[k].status = "APPROVED" => row'[k] = row[k]
               /\ row[k].status = "PENDING_REVIEW" /\ row'[k] # row[k] =>
                     row'[k].status \in {"APPROVED", "REJECTED"}
    BY <2>3 DEF Advances, IInv, RowsOK
  <2> QED
    BY <2>1, <2>2, <2>3 DEF RowStep
<1> QED
  BY <1>1, Invariance, PTL DEF Spec, VerdictStands

=============================================================================
