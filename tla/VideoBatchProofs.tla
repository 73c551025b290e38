-------------------------- MODULE VideoBatchProofs --------------------------
(***************************************************************************)
(* What VideoBatch guarantees for every number of stories, batches, tasks  *)
(* and versions. The safety properties rest on one inductive invariant: a  *)
(* durable row obeys the validators and its reviews name what it holds, a  *)
(* call that works on a batch holds exactly the present row, and a batch   *)
(* in the making has no row yet.                                           *)
(***************************************************************************)
EXTENDS VideoBatch, TLAPS

RenderPC == {"rendering", "committing", "failing"}
WorkPC == RenderPC \cup {"synthesizing"}

\* The review and the artifact of a row are of what the row now holds.
EvidenceIsCurrent(r) ==
    /\ r.narration.decision = "approve" => r.narration.of = r.script
    /\ r.artifact \in {0, r.input}

SoundRow(r) == ValidBatch(r) /\ EvidenceIsCurrent(r)

RowOK(b) == IF Exists(b) THEN SoundRow(batch[b]) ELSE batch[b] \in {Absent, Deleted}

Unreleased(b) == Exists(b) /\ batch[b].status \notin Released

\* The claims of every batch are its own business.
ClaimsOK ==
    /\ \A c \in claims : Unreleased(c[2]) /\ c[1] \in SourceStories(batch[c[2]])
    /\ \A b \in Batches : Unreleased(b) => SourceStories(batch[b]) \X {b} \subseteq claims
    /\ \A c, d \in claims : c[1] = d[1] => c = d

\* The status of a batch on which a call speaks or renders.
WorkStatus(pc) == IF pc = "synthesizing" THEN "PROCESSING_BATCH_TTS" ELSE "RENDERING"

\* Nothing has been reviewed, spoken or rendered yet.
Blank(r) ==
    /\ r.audio = 0 /\ r.input = 0 /\ r.artifact = 0 /\ r.failed = FALSE
    /\ r.narration = NoVerdict /\ r.timeline = NoVerdict

CallIn(rows, c) ==
    /\ c.pc = "idle" => c.batch = NoBatch
    /\ c.pc # "idle" => c.batch \in Batches
    /\ c.pc \in CreatePC => rows[c.batch] = Absent
    /\ c.pc = "selected" => Blank(c.held)
    /\ c.pc = "directing" => c.held.status = "PENDING_NARRATION_REVIEW" /\ SoundRow(c.held)
    /\ c.pc \in WorkPC => rows[c.batch] = c.held /\ c.held.status = WorkStatus(c.pc)

CallOK(c) == CallIn(batch, c)

OneCallPerBatch ==
    \A t, u \in Tasks : t # u /\ task[t].pc # "idle" => task[t].batch # task[u].batch

IInv ==
    /\ TypeOK
    /\ \A b \in Batches : RowOK(b)
    /\ ClaimsOK
    /\ \A t \in Tasks : CallOK(task[t])
    /\ OneCallPerBatch

-----------------------------------------------------------------------------
(* Types of the helpers *)

\* The table of the state machine speaks of statuses only.
LEMMA TransitionTypes == Transitions \subseteq Status \X Status
BY DEF Transitions, Status

\* A batch that does not exist, or no longer, has a well-typed row.
LEMMA AbsentType == Absent \in Row /\ Deleted \in Row
BY DEF Absent, Deleted, Row, Verdict, NoVerdict

\* An idle task runs a well-typed call.
LEMMA IdleCallType == IdleCall \in Call
BY AbsentType DEF IdleCall, Call, PC

\* What moving a row to another status keeps of it.
LEMMA UpdateFacts ==
    ASSUME NEW r \in Row, NEW to \in Status
    PROVE  /\ Update(r, to) \in Row
           /\ Update(r, to).status = to
           /\ Update(r, to).failed = FALSE
           /\ Update(r, to).version = r.version
           /\ Update(r, to).sources = r.sources
           /\ Update(r, to).script = r.script
           /\ Update(r, to).audio = r.audio
           /\ Update(r, to).input = r.input
           /\ Update(r, to).narration = r.narration
           /\ Update(r, to).timeline = r.timeline
           /\ Update(r, to).artifact = r.artifact
BY DEF Update, Row

\* What a save does to the row it stores: the next version, and nothing else.
LEMMA SavedFacts ==
    ASSUME NEW r \in Row
    PROVE  /\ Saved(r) \in Row
           /\ Saved(r).status = r.status
           /\ Saved(r).version = r.version + 1
           /\ Saved(r).sources = r.sources
           /\ SoundRow(r) => SoundRow(Saved(r))
<1>1. Saved(r) = [r EXCEPT !.version = r.version + 1]
  BY DEF Saved
<1>2. Saved(r) \in Row
  BY <1>1 DEF Row
<1>3. /\ Saved(r).status = r.status
      /\ Saved(r).version = r.version + 1
      /\ Saved(r).sources = r.sources
      /\ Saved(r).script = r.script
      /\ Saved(r).audio = r.audio
      /\ Saved(r).input = r.input
      /\ Saved(r).narration = r.narration
      /\ Saved(r).timeline = r.timeline
      /\ Saved(r).artifact = r.artifact
      /\ Saved(r).failed = r.failed
  BY <1>1 DEF Row
<1>4. SoundRow(r) => SoundRow(Saved(r))
  BY <1>3 DEF SoundRow, EvidenceIsCurrent, ValidBatch, ValidSources, ValidMedia,
              ValidReviews, ValidOutcome, Generated
<1> QED
  BY <1>2, <1>3, <1>4

\* What recording a failed rendering keeps of the row.
LEMMA FailureFacts ==
    ASSUME NEW r \in Row
    PROVE  /\ RenderFailure(r) \in Row
           /\ RenderFailure(r).sources = r.sources
           /\ EvidenceIsCurrent(r) => EvidenceIsCurrent(RenderFailure(r))
           /\ SoundRow(r) /\ r.status = "RENDERING" =>
                 SoundRow(RenderFailure(r)) /\ RenderFailure(r).status = "FAILED"
<1> DEFINE new == Update(r, "FAILED")
<1>1. /\ new \in Row
      /\ new.status = "FAILED"
      /\ new.version = r.version
      /\ new.sources = r.sources
      /\ new.script = r.script
      /\ new.audio = r.audio
      /\ new.input = r.input
      /\ new.narration = r.narration
      /\ new.timeline = r.timeline
      /\ new.artifact = r.artifact
  <2>1. "FAILED" \in Status
    BY DEF Status
  <2> QED
    BY <2>1, UpdateFacts
<1> HIDE DEF new
<1>2. RenderFailure(r) = [new EXCEPT !.failed = TRUE]
  BY DEF RenderFailure, new
<1>3. RenderFailure(r) \in Row
  BY <1>1, <1>2 DEF Row
<1>4. /\ RenderFailure(r).status = "FAILED"
      /\ RenderFailure(r).failed = TRUE
      /\ RenderFailure(r).sources = r.sources
      /\ RenderFailure(r).script = r.script
      /\ RenderFailure(r).audio = r.audio
      /\ RenderFailure(r).input = r.input
      /\ RenderFailure(r).narration = r.narration
      /\ RenderFailure(r).timeline = r.timeline
      /\ RenderFailure(r).artifact = r.artifact
  BY <1>1, <1>2 DEF Row
<1> QED
  BY <1>3, <1>4 DEF SoundRow, EvidenceIsCurrent, ValidBatch, ValidSources, ValidMedia,
     ValidReviews, ValidOutcome, Generated, PreTts, Renderable

\* Moving a task to a new place keeps the calls well typed.
LEMMA GotoType ==
    ASSUME TypeOK, NEW t \in Tasks, NEW pc \in PC, NEW b \in Batches,
           NEW held \in Row, NEW locked \in BOOLEAN,
           Goto(t, pc, b, held, locked)
    PROVE  task' \in [Tasks -> Call]
BY DEF TypeOK, Goto, Call

\* Ending a call keeps the calls well typed.
LEMMA EndCallType ==
    ASSUME TypeOK, NEW t \in Tasks, EndCall(t)
    PROVE  task' \in [Tasks -> Call]
BY IdleCallType DEF TypeOK, EndCall

-----------------------------------------------------------------------------
(* What one accepted save does to the durable state *)

\* A save stores a valid row of the same sources under the next version and
\* takes it along one edge of the state machine. The row it replaces was
\* unreleased, as released batches are final.
LEMMA SaveFacts ==
    ASSUME IInv, NEW b \in Batches, NEW new \in Row, Save(b, new)
    PROVE  /\ batch' \in [Batches -> Row]
           /\ batch'[b] = Saved(new)
           /\ \A z \in Batches \ {b} : batch'[z] = batch[z]
           /\ new.status \in Status
           /\ Unreleased(b)
           /\ ValidBatch(new)
<1> USE DEF IInv, TypeOK
<1>1. <<batch[b].status, new.status>> \in Transitions /\ ValidBatch(new) /\ Exists(b)
  BY DEF Save, SaveAccepted
<1>2. new.status \in Status
  BY <1>1, TransitionTypes
<1>3. batch[b].status \notin Released
  BY <1>1 DEF Transitions, Released
<1>4. Saved(new) \in Row
  BY SavedFacts
<1> QED
  BY <1>1, <1>2, <1>3, <1>4 DEF Save, Unreleased

\* A save of a row with current evidence keeps rows and claims in order.
LEMMA SaveKeepsOrder ==
    ASSUME IInv, NEW b \in Batches, NEW new \in Row, Save(b, new),
           EvidenceIsCurrent(new), new.sources = batch[b].sources
    PROVE  /\ claims' \in SUBSET (Stories \X Batches)
           /\ \A z \in Batches : RowOK(z)'
           /\ ClaimsOK'
<1> USE DEF IInv, TypeOK
<1>1. /\ batch'[b] = Saved(new)
      /\ \A z \in Batches \ {b} : batch'[z] = batch[z]
      /\ new.status \in Status
      /\ Unreleased(b)
      /\ ValidBatch(new)
  BY SaveFacts
<1>2. claims' = IF new.status \in Released THEN claims \ ClaimsOf(b) ELSE claims
  BY DEF Save
<1>3. claims' \in SUBSET (Stories \X Batches)
  BY <1>2
<1>4. \A z \in Batches : RowOK(z)'
  <2>1. RowOK(b)'
    BY <1>1, SavedFacts DEF RowOK, SoundRow, Exists
  <2>2. \A z \in Batches \ {b} : RowOK(z)'
    BY <1>1 DEF RowOK, Exists
  <2> QED
    BY <2>1, <2>2
<1>5. ClaimsOK'
  <2>1. batch'[b].status = new.status /\ batch'[b].sources = batch[b].sources
    BY <1>1, SavedFacts
  <2>2. \A z \in Batches : SourceStories(batch'[z]) = SourceStories(batch[z])
    BY <1>1, <2>1 DEF SourceStories
  <2>3. \A z \in Batches \ {b} : Unreleased(z)' = Unreleased(z)
    BY <1>1 DEF Unreleased, Exists
  <2>4. Unreleased(b)' = (new.status \notin Released)
    BY <1>1, <2>1 DEF Unreleased, Exists
  <2>5. CASE new.status \in Released
    <3>1. \A c \in claims' : c \in claims /\ c[2] # b
      BY <1>2, <2>5 DEF ClaimsOf
    <3>2. \A c \in claims : c[2] # b => c \in claims'
      BY <1>2, <2>5 DEF ClaimsOf
    <3> QED
      BY <2>2, <2>3, <2>4, <2>5, <3>1, <3>2 DEF ClaimsOK
  <2>6. CASE new.status \notin Released
    <3>1. claims' = claims
      BY <1>2, <2>6
    <3>2. \A z \in Batches : Unreleased(z)' = Unreleased(z)
      BY <1>1, <2>3, <2>4, <2>6
    <3> QED
      BY <2>2, <3>1, <3>2 DEF ClaimsOK
  <2> QED
    BY <2>5, <2>6
<1> QED
  BY <1>3, <1>4, <1>5

-----------------------------------------------------------------------------
(* How calls carry the invariant over a step *)

\* The durable state stays in order over a step that changes no batch but b.
OnlyTouches(b) ==
    /\ story' \in [Stories -> [rev : Nat, done : BOOLEAN]]
    /\ batch' \in [Batches -> Row]
    /\ claims' \in SUBSET (Stories \X Batches)
    /\ \A z \in Batches : RowOK(z)'
    /\ ClaimsOK'
    /\ \A z \in Batches \ {b} : batch'[z] = batch[z]

NobodyElseOn(b, t) == \A u \in Tasks \ {t} : task[u].batch # b
NobodyOn(b) == \A u \in Tasks : task[u].batch # b

\* A call on another batch stays in order.
LEMMA OthersStayOK ==
    ASSUME IInv, NEW b \in Batches, OnlyTouches(b), NEW c \in Call, CallOK(c), c.batch # b
    PROVE  CallOK(c)'
<1>1. CASE c.pc = "idle"
  BY <1>1 DEF CallOK, CallIn, CreatePC, WorkPC, RenderPC
<1>2. CASE c.pc # "idle"
  <2>1. c.batch \in Batches \ {b}
    BY <1>2 DEF CallOK, CallIn
  <2>2. batch'[c.batch] = batch[c.batch]
    BY <2>1 DEF OnlyTouches
  <2> QED
    BY <2>2 DEF CallOK, CallIn
<1> QED
  BY <1>1, <1>2

\* A step that changes at most batch b keeps the invariant if nobody runs a
\* call on b, if the call that does ends, or if it goes on in order and alone.
LEMMA CallsCarryOn ==
    ASSUME IInv, NEW b \in Batches, OnlyTouches(b)
    PROVE  /\ NobodyOn(b) /\ UNCHANGED task => IInv'
           /\ \A t \in Tasks : NobodyElseOn(b, t) /\ EndCall(t) => IInv'
           /\ \A t \in Tasks, pc \in PC, held \in Row, locked \in BOOLEAN :
                 /\ NobodyElseOn(b, t)
                 /\ Goto(t, pc, b, held, locked)
                 /\ CallIn(batch', [pc |-> pc, batch |-> b, held |-> held, locked |-> locked])
                 => IInv'
<1>1. /\ task \in [Tasks -> Call]
      /\ \A u \in Tasks : CallOK(task[u])
      /\ OneCallPerBatch
  BY DEF IInv, TypeOK
<1>2. ASSUME task' \in [Tasks -> Call], \A u \in Tasks : CallOK(task[u])', OneCallPerBatch'
      PROVE  IInv'
  BY <1>2 DEF IInv, TypeOK, OnlyTouches
<1>3. ASSUME NobodyOn(b), UNCHANGED task PROVE IInv'
  <2>1. \A u \in Tasks : CallOK(task[u])'
    BY <1>1, <1>3, OthersStayOK DEF NobodyOn, CallOK
  <2>2. OneCallPerBatch'
    BY <1>1, <1>3 DEF OneCallPerBatch
  <2> QED
    BY <1>1, <1>2, <1>3, <2>1, <2>2
<1>4. ASSUME NEW t \in Tasks, NobodyElseOn(b, t), EndCall(t) PROVE IInv'
  <2>1. task' \in [Tasks -> Call]
    BY <1>4, EndCallType DEF IInv
  <2>2. task'[t] = IdleCall /\ \A u \in Tasks \ {t} : task'[u] = task[u]
    BY <1>1, <1>4 DEF EndCall
  <2>3. \A u \in Tasks : CallOK(task[u])'
    <3>1. \A u \in Tasks \ {t} : CallOK(task[u])'
      BY <1>1, <1>4, <2>2, OthersStayOK DEF NobodyElseOn, CallOK
    <3>2. CallOK(task[t])'
      BY <2>2 DEF CallOK, CallIn, IdleCall, CreatePC, WorkPC, RenderPC
    <3> QED
      BY <3>1, <3>2
  <2>4. OneCallPerBatch'
    <3>1. IdleCall.pc = "idle" /\ IdleCall.batch = NoBatch
      BY DEF IdleCall
    <3>2. \A u \in Tasks \ {t} : task[u].pc # "idle" => task[u].batch # NoBatch
      BY <1>1, BatchesAssumption DEF CallOK, CallIn
    <3> QED
      BY <1>1, <2>2, <3>1, <3>2 DEF OneCallPerBatch
  <2> QED
    BY <1>2, <2>1, <2>3, <2>4
<1>5. ASSUME NEW t \in Tasks, NEW pc \in PC, NEW held \in Row, NEW locked \in BOOLEAN,
             NobodyElseOn(b, t), Goto(t, pc, b, held, locked),
             CallIn(batch', [pc |-> pc, batch |-> b, held |-> held, locked |-> locked])
      PROVE  IInv'
  <2> DEFINE next == [pc |-> pc, batch |-> b, held |-> held, locked |-> locked]
  <2>1. task' \in [Tasks -> Call]
    BY <1>5, GotoType DEF IInv
  <2>2. task'[t] = next /\ \A u \in Tasks \ {t} : task'[u] = task[u]
    BY <1>1, <1>5 DEF Goto
  <2>3. next.batch = b
    OBVIOUS
  <2>4. \A u \in Tasks : CallOK(task[u])'
    <3>1. \A u \in Tasks \ {t} : CallOK(task[u])'
      BY <1>1, <1>5, <2>2, OthersStayOK DEF NobodyElseOn, CallOK
    <3>2. CallOK(task[t])'
      BY <1>5, <2>2 DEF CallOK
    <3> QED
      BY <3>1, <3>2
  <2> HIDE DEF next
  <2>5. OneCallPerBatch'
    BY <1>1, <1>5, <2>2, <2>3 DEF OneCallPerBatch, NobodyElseOn
  <2> QED
    BY <1>2, <2>1, <2>4, <2>5
<1> QED
  BY <1>3, <1>4, <1>5

\* A call that runs on a batch is alone on it.
LEMMA Alone ==
    ASSUME IInv, NEW t \in Tasks, task[t].pc # "idle"
    PROVE  NobodyElseOn(task[t].batch, t)
BY DEF IInv, OneCallPerBatch, NobodyElseOn

\* Nobody works on a batch in a status that requests accept.
LEMMA Unworked ==
    ASSUME IInv, NEW b \in Batches,
           batch[b].status \notin {"ABSENT", "PROCESSING_BATCH_TTS", "RENDERING"}
    PROVE  NobodyOn(b)
<1> SUFFICES ASSUME NEW u \in Tasks, task[u].batch = b PROVE FALSE
  BY DEF NobodyOn
<1>1. task[u] \in Call /\ CallOK(task[u])
  BY DEF IInv, TypeOK
<1>2. CASE task[u].pc = "idle"
  BY <1>1, <1>2, BatchesAssumption DEF CallOK, CallIn
<1>3. CASE task[u].pc \in CreatePC
  BY <1>1, <1>3 DEF CallOK, CallIn, Absent
<1>4. CASE task[u].pc \in WorkPC
  BY <1>1, <1>4 DEF CallOK, CallIn, WorkStatus
<1> QED
  BY <1>1, <1>2, <1>3, <1>4 DEF Call, PC, CreatePC, WorkPC, RenderPC

\* An accepted save touches its batch alone, and keeps it in order.
LEMMA SaveTouches ==
    ASSUME IInv, NEW b \in Batches, NEW new \in Row, Save(b, new),
           EvidenceIsCurrent(new), new.sources = batch[b].sources,
           UNCHANGED story
    PROVE  OnlyTouches(b)
BY SaveFacts, SaveKeepsOrder DEF OnlyTouches, IInv, TypeOK

\* So does a step that leaves the durable state alone.
LEMMA StutterTouches ==
    ASSUME IInv, NEW b, UNCHANGED <<story, batch, claims>>
    PROVE  OnlyTouches(b)
<1>1. \A z \in Batches : RowOK(z)' = RowOK(z)
  BY DEF RowOK, Exists
<1>2. ClaimsOK' = ClaimsOK
  BY DEF ClaimsOK, Unreleased, Exists, SourceStories
<1> QED
  BY <1>1, <1>2 DEF OnlyTouches, IInv, TypeOK

\* The last write of a call either happens or leaves everything as it was.
LEMMA LastSaveTouches ==
    ASSUME IInv, NEW b \in Batches, NEW new \in Row, LastSave(b, new),
           EvidenceIsCurrent(new), new.sources = batch[b].sources,
           UNCHANGED story
    PROVE  OnlyTouches(b)
BY SaveTouches, StutterTouches DEF LastSave, durable

-----------------------------------------------------------------------------
(* The steps of running calls *)

\* What the invariant says of a call that is not idle.
LEMMA RunningCall ==
    ASSUME IInv, NEW t \in Tasks, task[t].pc # "idle"
    PROVE  /\ task[t].batch \in Batches
           /\ task[t].held \in Row
           /\ task[t].locked \in BOOLEAN
           /\ CallOK(task[t])
           /\ NobodyElseOn(task[t].batch, t)
BY Alone DEF IInv, TypeOK, Call, CallOK, CallIn

\* What it says of a call that works on a batch: its copy is the durable row,
\* which is sound.
LEMMA WorkingCall ==
    ASSUME IInv, NEW t \in Tasks, task[t].pc \in WorkPC
    PROVE  /\ batch[task[t].batch] = task[t].held
           /\ task[t].held.status = WorkStatus(task[t].pc)
           /\ SoundRow(task[t].held)
<1>1. task[t].pc # "idle"
  BY DEF WorkPC, RenderPC
<1>2. task[t].batch \in Batches /\ CallOK(task[t])
  BY <1>1, RunningCall
<1>3. batch[task[t].batch] = task[t].held /\ task[t].held.status = WorkStatus(task[t].pc)
  BY <1>2 DEF CallOK, CallIn
<1>4. SoundRow(task[t].held)
  BY <1>2, <1>3 DEF IInv, RowOK, Exists, WorkStatus, Status
<1> QED
  BY <1>3, <1>4

\* A call that ends keeps the invariant when the durable state stays in order
\* and changes in its own batch only.
LEMMA EndingCall ==
    ASSUME IInv, NEW t \in Tasks, task[t].pc # "idle",
           OnlyTouches(task[t].batch), EndCall(t)
    PROVE  IInv'
BY RunningCall, CallsCarryOn

\* The row of a new batch is sound once its manifests are of its scripts.
LEMMA ReadManifestsStep ==
    ASSUME IInv, NEW t \in Tasks, ReadManifests(t)
    PROVE  IInv'
<1> DEFINE held == task[t].held
           sources == {[p EXCEPT !.manifest = story[p.story].rev] : p \in held.sources}
           created == [held EXCEPT !.status = "PENDING_NARRATION_REVIEW",
                                   !.version = 1, !.script = 1, !.sources = sources]
<1>1. task[t].pc = "selected"
  BY DEF ReadManifests, At
<1>2. /\ task[t].batch \in Batches
      /\ held \in Row
      /\ CallOK(task[t])
      /\ NobodyElseOn(task[t].batch, t)
  BY <1>1, RunningCall
<1>3. OnlyTouches(task[t].batch)
  BY StutterTouches DEF ReadManifests
<1>4. CASE EndCall(t)
  BY <1>1, <1>3, <1>4, EndingCall
<1>5. CASE ValidSources(created) /\ Goto(t, "directing", task[t].batch, created, FALSE)
  <2>1. sources \in SUBSET Snapshot
    <3>1. ASSUME NEW p \in held.sources
          PROVE  [p EXCEPT !.manifest = story[p.story].rev] \in Snapshot
      <4>1. p \in Snapshot /\ story[p.story].rev \in Nat
        BY <1>2 DEF Row, Snapshot, IInv, TypeOK
      <4> QED
        BY <4>1 DEF Snapshot
    <3> QED
      BY <3>1
  <2> HIDE DEF sources
  <2>2. created \in Row
    BY <1>2, <2>1 DEF Row, Status
  <2>3. Blank(held)
    BY <1>1, <1>2 DEF CallOK, CallIn
  <2>4. /\ created.status = "PENDING_NARRATION_REVIEW"
        /\ created.audio = held.audio /\ created.input = held.input
        /\ created.narration = held.narration /\ created.timeline = held.timeline
        /\ created.artifact = held.artifact /\ created.failed = held.failed
    BY <1>2 DEF Row
  <2> HIDE DEF created
  <2>5. SoundRow(created)
    BY <1>5, <2>3, <2>4 DEF Blank, SoundRow, EvidenceIsCurrent, ValidBatch, ValidMedia,
       ValidReviews, ValidOutcome, Generated, PreTts, Renderable, NoVerdict
  <2>6. batch'[task[t].batch] = Absent
    BY <1>1, <1>2 DEF ReadManifests, CallOK, CallIn, CreatePC
  <2>7. CallIn(batch', [pc |-> "directing", batch |-> task[t].batch,
                        held |-> created, locked |-> FALSE])
    BY <1>2, <2>4, <2>5, <2>6 DEF CallIn, WorkPC, RenderPC
  <2> QED
    BY <1>2, <1>3, <1>5, <2>2, <2>7, CallsCarryOn DEF PC, CreatePC
<1> QED
  BY <1>4, <1>5 DEF ReadManifests

\* A batch is inserted with all its claims, none of which anybody holds: the
\* claims of rendered batches, which would make way, are gone already.
LEMMA InsertStep ==
    ASSUME IInv, NEW t \in Tasks, Insert(t)
    PROVE  IInv'
<1> DEFINE held == task[t].held
           wanted == SourceStories(held)
           stale == {c \in claims : c[1] \in wanted /\ batch[c[2]].status = "RENDERED"}
<1>1. task[t].pc = "directing" /\ EndCall(t) /\ UNCHANGED story
  BY DEF Insert, At
<1>2. task[t].batch \in Batches
  BY <1>1, RunningCall
<1>3. PICK b \in Batches : b = task[t].batch
  BY <1>2
<1>4. /\ held \in Row
      /\ batch[b] = Absent
      /\ held.status = "PENDING_NARRATION_REVIEW"
      /\ SoundRow(held)
  BY <1>1, <1>3, RunningCall DEF CallOK, CallIn, CreatePC
<1>5. CASE UNCHANGED durable
  BY <1>1, <1>5, StutterTouches, EndingCall DEF durable
<1>6. CASE /\ ~ \E c \in claims \ stale : c[1] \in wanted
           /\ batch' = [batch EXCEPT ![b] = held]
           /\ claims' = (claims \ stale) \cup (wanted \X {b})
  <2>1. stale = {}
    BY DEF IInv, ClaimsOK, Unreleased, Released
  <2>2. claims' = claims \cup (wanted \X {b}) /\ \A c \in claims : c[1] \notin wanted
    BY <1>6, <2>1
  <2>3. wanted \subseteq Stories
    BY <1>4 DEF SourceStories, Row, Snapshot
  <2> HIDE DEF wanted, stale
  <2>4. batch'[b] = held /\ \A z \in Batches \ {b} : batch'[z] = batch[z]
    BY <1>4, <1>6 DEF IInv, TypeOK
  <2>5. batch' \in [Batches -> Row] /\ claims' \in SUBSET (Stories \X Batches)
    BY <1>4, <1>6, <2>2, <2>3 DEF IInv, TypeOK
  <2>6. \A z \in Batches : RowOK(z)'
    BY <1>4, <2>4 DEF IInv, RowOK, Exists, Status
  <2>7. ClaimsOK'
    <3>1. Unreleased(b)' /\ ~Unreleased(b)
      BY <1>4, <2>4 DEF Unreleased, Exists, Status, Released, Absent
    <3>2. \A z \in Batches \ {b} : Unreleased(z)' = Unreleased(z)
      BY <2>4 DEF Unreleased, Exists
    <3>3. SourceStories(batch[b])' = wanted
      BY <2>4 DEF wanted
    <3>4. \A z \in Batches \ {b} : SourceStories(batch[z])' = SourceStories(batch[z])
      BY <2>4 DEF SourceStories
    <3>5. claims \in SUBSET (Stories \X Batches) /\ ClaimsOK
      BY DEF IInv, TypeOK
    <3>6. \A c \in claims' : Unreleased(c[2])' /\ c[1] \in SourceStories(batch[c[2]])'
      <4>1. ASSUME NEW c \in claims
            PROVE  Unreleased(c[2])' /\ c[1] \in SourceStories(batch[c[2]])'
        <5>1. c[2] \in Batches \ {b}
          BY <3>1, <3>5 DEF ClaimsOK
        <5> QED
          BY <3>2, <3>4, <3>5, <5>1 DEF ClaimsOK
      <4>2. \A c \in wanted \X {b} : c[1] \in wanted /\ c[2] = b
        OBVIOUS
      <4> QED
        BY <2>2, <3>1, <3>3, <4>1, <4>2
    <3>7. \A z \in Batches : Unreleased(z)' => SourceStories(batch[z])' \X {z} \subseteq claims'
      BY <2>2, <3>2, <3>3, <3>4, <3>5 DEF ClaimsOK
    <3>8. \A c, d \in claims' : c[1] = d[1] => c = d
      <4>1. \A c, d \in wanted \X {b} : c[1] = d[1] => c = d
        OBVIOUS
      <4> QED
        BY <2>2, <3>5, <4>1 DEF ClaimsOK
    <3> QED
      BY <3>6, <3>7, <3>8 DEF ClaimsOK
  <2>8. OnlyTouches(b)
    BY <1>1, <2>4, <2>5, <2>6, <2>7 DEF OnlyTouches, IInv, TypeOK
  <2> QED
    BY <1>1, <1>3, <2>8, EndingCall
<1> QED
  BY <1>5, <1>6, <1>3 DEF Insert

\* The end of a synthesis: the media belong to the narration that is held,
\* and are followed by no review yet.
LEMMA SynthesisEnds ==
    ASSUME IInv, NEW t \in Tasks, AcceptMedia(t) \/ NarrationFails(t)
    PROVE  IInv'
<1> DEFINE held == task[t].held
           spoken == [Update(held, "PENDING_TIMELINE_REVIEW") EXCEPT
                         !.audio = held.script, !.input = held.version + 1]
           silent == [Update(held, "PENDING_BATCH_TTS") EXCEPT !.failed = TRUE]
<1>1. task[t].pc = "synthesizing" /\ EndCall(t) /\ UNCHANGED story
  BY DEF AcceptMedia, NarrationFails, At
<1>2. task[t].batch \in Batches /\ held \in Row
  BY <1>1, RunningCall
<1>3. held = batch[task[t].batch] /\ SoundRow(held) /\ held.status = "PROCESSING_BATCH_TTS"
  BY <1>1, WorkingCall DEF WorkPC, RenderPC, WorkStatus
<1>4. held.artifact = 0
  BY <1>2, <1>3 DEF SoundRow, ValidBatch, ValidOutcome, Row
<1> HIDE DEF held
<1>5. /\ spoken \in Row
      /\ EvidenceIsCurrent(spoken)
      /\ spoken.sources = held.sources
  <2>1. "PENDING_TIMELINE_REVIEW" \in Status
    BY DEF Status
  <2>2. held.script \in Nat /\ held.version + 1 \in Nat
    BY <1>2 DEF Row
  <2> DEFINE new == Update(held, "PENDING_TIMELINE_REVIEW")
  <2>3. /\ new \in Row
        /\ new.script = held.script /\ new.sources = held.sources
        /\ new.narration = held.narration /\ new.artifact = held.artifact
    BY <1>2, <2>1, UpdateFacts
  <2> HIDE DEF new
  <2>4. /\ [new EXCEPT !.audio = held.script, !.input = held.version + 1] \in Row
        /\ EvidenceIsCurrent([new EXCEPT !.audio = held.script, !.input = held.version + 1])
        /\ [new EXCEPT !.audio = held.script, !.input = held.version + 1].sources = held.sources
    BY <1>3, <1>4, <2>2, <2>3 DEF Row, EvidenceIsCurrent, SoundRow
  <2> QED
    BY <2>4 DEF new
<1>6. /\ silent \in Row
      /\ EvidenceIsCurrent(silent)
      /\ silent.sources = held.sources
  <2>1. "PENDING_BATCH_TTS" \in Status
    BY DEF Status
  <2> DEFINE new == Update(held, "PENDING_BATCH_TTS")
  <2>2. /\ new \in Row
        /\ new.script = held.script /\ new.sources = held.sources
        /\ new.narration = held.narration /\ new.artifact = held.artifact
    BY <1>2, <2>1, UpdateFacts
  <2> HIDE DEF new
  <2>3. /\ [new EXCEPT !.failed = TRUE] \in Row
        /\ EvidenceIsCurrent([new EXCEPT !.failed = TRUE])
        /\ [new EXCEPT !.failed = TRUE].sources = held.sources
    BY <1>3, <1>4, <2>2 DEF Row, EvidenceIsCurrent, SoundRow
  <2> QED
    BY <2>3 DEF new
<1> HIDE DEF spoken, silent
<1>7. \/ UNCHANGED durable
      \/ LastSave(task[t].batch, spoken)
      \/ LastSave(task[t].batch, silent)
  BY DEF AcceptMedia, NarrationFails, spoken, silent, held
<1>8. OnlyTouches(task[t].batch)
  <2>1. CASE UNCHANGED durable
    BY <1>1, <2>1, StutterTouches DEF durable
  <2>2. CASE LastSave(task[t].batch, spoken)
    BY <1>1, <1>2, <1>3, <1>5, <2>2, LastSaveTouches
  <2>3. CASE LastSave(task[t].batch, silent)
    BY <1>1, <1>2, <1>3, <1>6, <2>3, LastSaveTouches
  <2> QED
    BY <1>7, <2>1, <2>2, <2>3
<1> QED
  BY <1>1, <1>8, EndingCall

\* The end of a rendering: the artifact is of the input that is held.
LEMMA RenderEnds ==
    ASSUME IInv, NEW t \in Tasks, CommitRender(t) \/ RenderFails(t)
    PROVE  IInv'
<1> DEFINE held == task[t].held
           rendered == [Update(held, "RENDERED") EXCEPT !.artifact = held.input]
<1>1. task[t].pc \in RenderPC /\ EndCall(t) /\ UNCHANGED story
  BY DEF CommitRender, RenderFails, At, RenderPC
<1>2. task[t].batch \in Batches /\ held \in Row
  BY <1>1, RunningCall DEF RenderPC
<1>3. held = batch[task[t].batch] /\ SoundRow(held) /\ held.status = "RENDERING"
  BY <1>1, WorkingCall DEF WorkPC, RenderPC, WorkStatus
<1> HIDE DEF held
<1>4. /\ rendered \in Row
      /\ EvidenceIsCurrent(rendered)
      /\ rendered.sources = held.sources
  <2>1. "RENDERED" \in Status
    BY DEF Status
  <2> DEFINE new == Update(held, "RENDERED")
  <2>2. /\ new \in Row
        /\ new.script = held.script /\ new.sources = held.sources /\ new.input = held.input
        /\ new.narration = held.narration
    BY <1>2, <2>1, UpdateFacts
  <2> HIDE DEF new
  <2>3. /\ [new EXCEPT !.artifact = held.input] \in Row
        /\ EvidenceIsCurrent([new EXCEPT !.artifact = held.input])
        /\ [new EXCEPT !.artifact = held.input].sources = held.sources
    BY <1>2, <1>3, <2>2 DEF Row, EvidenceIsCurrent, SoundRow
  <2> QED
    BY <2>3 DEF new
<1>5. /\ RenderFailure(held) \in Row
      /\ EvidenceIsCurrent(RenderFailure(held))
      /\ RenderFailure(held).sources = held.sources
  BY <1>2, <1>3, FailureFacts DEF SoundRow
<1> HIDE DEF rendered
<1>6. \/ LastSave(task[t].batch, rendered)
      \/ LastSave(task[t].batch, RenderFailure(held))
  BY DEF CommitRender, RenderFails, rendered, held
<1>7. OnlyTouches(task[t].batch)
  BY <1>1, <1>2, <1>3, <1>4, <1>5, <1>6, LastSaveTouches
<1> QED
  BY <1>1, <1>7, EndingCall DEF RenderPC

\* A rendering that goes on still holds the present row.
LEMMA RenderMoves ==
    ASSUME IInv, NEW t \in Tasks, RenderSucceeds(t) \/ CancelTask(t)
    PROVE  IInv'
<1>1. task[t].pc \in WorkPC /\ UNCHANGED <<story, batch, claims>>
  BY DEF RenderSucceeds, CancelTask, At, WorkPC, RenderPC
<1>2. /\ task[t].pc # "idle"
      /\ task[t].batch \in Batches
      /\ task[t].held \in Row
      /\ NobodyElseOn(task[t].batch, t)
  BY <1>1, RunningCall DEF WorkPC, RenderPC
<1>3. OnlyTouches(task[t].batch)
  BY <1>1, StutterTouches
<1>4. CASE EndCall(t)
  BY <1>2, <1>3, <1>4, EndingCall
<1>5. ASSUME task[t].pc \in RenderPC, NEW pc \in RenderPC, NEW locked \in BOOLEAN,
             Goto(t, pc, task[t].batch, task[t].held, locked)
      PROVE  IInv'
  <2>1. batch[task[t].batch] = task[t].held /\ task[t].held.status = "RENDERING"
    BY <1>5, WorkingCall DEF WorkPC, RenderPC, WorkStatus
  <2>2. CallIn(batch', [pc |-> pc, batch |-> task[t].batch,
                        held |-> task[t].held, locked |-> locked])
    BY <1>1, <1>2, <2>1 DEF CallIn, WorkPC, RenderPC, CreatePC, WorkStatus
  <2> QED
    BY <1>2, <1>3, <1>5, <2>2, CallsCarryOn DEF PC, RenderPC
<1>6. CASE task[t].pc \in RenderPC /\ task' = [task EXCEPT ![t].locked = FALSE]
  <2>1. task \in [Tasks -> Call]
    BY DEF IInv, TypeOK
  <2>2. /\ task'[t] \in Call
        /\ task'[t].pc = task[t].pc /\ task'[t].batch = task[t].batch
        /\ task'[t].held = task[t].held /\ task'[t].locked = FALSE
    BY <1>6, <2>1 DEF Call
  <2>3. task'[t] = [pc |-> task[t].pc, batch |-> task[t].batch,
                    held |-> task[t].held, locked |-> FALSE]
    BY <2>2 DEF Call
  <2>4. Goto(t, task[t].pc, task[t].batch, task[t].held, FALSE)
    BY <1>6, <2>1, <2>3 DEF Goto
  <2> QED
    BY <1>5, <1>6, <2>4
<1> QED
  BY <1>4, <1>5, <1>6 DEF RenderSucceeds, CancelTask, At, RenderPC

\* Every step of a running call keeps the invariant.
LEMMA ProgressStep ==
    ASSUME IInv, NEW t \in Tasks, Progress(t) \/ CancelTask(t)
    PROVE  IInv'
<1>1. CASE CreateFails(t)
  <2>1. task[t].pc # "idle" /\ EndCall(t) /\ UNCHANGED <<story, batch, claims>>
    BY <1>1 DEF CreateFails, CreatePC
  <2> QED
    BY <2>1, StutterTouches, EndingCall
<1> QED
  BY <1>1, ReadManifestsStep, InsertStep, SynthesisEnds, RenderEnds, RenderMoves
     DEF Progress

-----------------------------------------------------------------------------
(* The steps that requests begin *)

\* A row that exists is well typed and sound.
LEMMA DurableRow ==
    ASSUME IInv, NEW b \in Batches, Exists(b)
    PROVE  batch[b] \in Row /\ SoundRow(batch[b])
BY DEF IInv, TypeOK, RowOK

\* Select takes a batch identity nobody has used, while nobody else creates.
LEMMA SelectStep ==
    ASSUME IInv, NEW t \in Tasks, NEW b \in Batches, Select(t, b)
    PROVE  IInv'
<1>1. /\ batch[b] = Absent
      /\ AssetLockFree
      /\ UNCHANGED <<story, batch, claims>>
  BY DEF Select
<1>2. PICK chosen \in SUBSET Stories :
        Goto(t, "selected", b,
             [Absent EXCEPT !.sources =
                 {[story |-> s, script |-> story[s].rev, manifest |-> 0] : s \in chosen}],
             FALSE)
  BY DEF Select
<1> DEFINE sources == {[story |-> s, script |-> story[s].rev, manifest |-> 0] : s \in chosen}
           held == [Absent EXCEPT !.sources = sources]
<1>3. sources \in SUBSET Snapshot
  BY DEF IInv, TypeOK, Snapshot
<1>4. Goto(t, "selected", b, held, FALSE)
  BY <1>2
<1> HIDE DEF sources
<1>5. held \in Row /\ Blank(held)
  BY <1>3, AbsentType DEF Absent, Row, Blank
<1> HIDE DEF held
<1>6. NobodyElseOn(b, t)
  <2> SUFFICES ASSUME NEW u \in Tasks \ {t}, task[u].batch = b PROVE FALSE
    BY DEF NobodyElseOn
  <2>1. task[u] \in Call /\ CallOK(task[u])
    BY DEF IInv, TypeOK
  <2>2. task[u].pc # "idle"
    BY <2>1, BatchesAssumption DEF CallOK, CallIn
  <2>3. task[u].pc \in WorkPC
    BY <1>1, <2>1, <2>2 DEF AssetLockFree, Call, PC, WorkPC, RenderPC
  <2> QED
    BY <1>1, <2>1, <2>3 DEF CallOK, CallIn, WorkStatus, Absent
<1>7. OnlyTouches(b)
  BY <1>1, StutterTouches
<1>8. CallIn(batch', [pc |-> "selected", batch |-> b, held |-> held, locked |-> FALSE])
  BY <1>1, <1>5 DEF CallIn, CreatePC, WorkPC, RenderPC
<1> QED
  BY <1>4, <1>5, <1>6, <1>7, <1>8, CallsCarryOn DEF PC, CreatePC

\* A call that starts to speak or render goes on with the row it has saved,
\* or leaves the batch to nobody.
LEMMA WorkStarts ==
    ASSUME IInv, NEW t \in Tasks, NEW b \in Batches, Synthesize(t, b) \/ Render(t, b)
    PROVE  IInv'
<1>1. Exists(b) /\ UNCHANGED story
  BY DEF Synthesize, Render, Request
<1>2. batch[b] \in Row /\ SoundRow(batch[b])
  BY <1>1, DurableRow
<1>3. NobodyOn(b)
  BY Unworked DEF Synthesize, Render
<1>4. ASSUME NEW pc \in {"synthesizing", "rendering"}, NEW locked \in BOOLEAN,
             Save(b, Update(batch[b], WorkStatus(pc))),
             \/ Goto(t, pc, b, Saved(Update(batch[b], WorkStatus(pc))), locked)
             \/ UNCHANGED task
      PROVE  IInv'
  <2> DEFINE running == Update(batch[b], WorkStatus(pc))
  <2>1. WorkStatus(pc) \in Status
    BY DEF WorkStatus, Status
  <2>2. /\ running \in Row
        /\ running.status = WorkStatus(pc)
        /\ running.sources = batch[b].sources
        /\ EvidenceIsCurrent(running)
    BY <1>2, <2>1, UpdateFacts DEF EvidenceIsCurrent, SoundRow
  <2> HIDE DEF running
  <2>3. Save(b, running)
    BY <1>4 DEF running
  <2>4. OnlyTouches(b)
    BY <1>1, <2>2, <2>3, SaveTouches
  <2>5. CASE UNCHANGED task
    BY <1>3, <2>4, <2>5, CallsCarryOn
  <2>6. CASE Goto(t, pc, b, Saved(running), locked)
    <3>1. /\ Saved(running) \in Row
          /\ Saved(running).status = WorkStatus(pc)
          /\ batch'[b] = Saved(running)
      BY <2>2, <2>3, SavedFacts, SaveFacts
    <3>2. CallIn(batch', [pc |-> pc, batch |-> b, held |-> Saved(running), locked |-> locked])
      BY <3>1 DEF CallIn, CreatePC, WorkPC, RenderPC
    <3>3. NobodyElseOn(b, t)
      BY <1>3 DEF NobodyOn, NobodyElseOn
    <3> QED
      BY <2>4, <2>6, <3>1, <3>2, <3>3, CallsCarryOn DEF PC
  <2> QED
    BY <1>4, <2>5, <2>6 DEF running
<1>5. CASE Synthesize(t, b)
  BY <1>4, <1>5 DEF Synthesize, WorkStatus
<1>6. CASE Render(t, b)
  BY <1>4, <1>6 DEF Render, WorkStatus
<1> QED
  BY <1>5, <1>6

\* A save by a request that runs no call keeps the invariant.
LEMMA RequestSaves ==
    ASSUME IInv, NEW b \in Batches, NEW new \in Row, Save(b, new),
           EvidenceIsCurrent(new), new.sources = batch[b].sources,
           batch[b].status \notin {"PROCESSING_BATCH_TTS", "RENDERING"},
           UNCHANGED <<story, task>>
    PROVE  IInv'
<1>1. Exists(b)
  BY SaveFacts DEF Unreleased
<1>2. NobodyOn(b)
  BY <1>1, Unworked DEF Exists, Status
<1>3. OnlyTouches(b)
  BY SaveTouches
<1> QED
  BY <1>2, <1>3, CallsCarryOn

\* Reviews name what they judge: the narration revision or the render input
\* that the row holds when it is saved.
LEMMA ReviewStep ==
    ASSUME IInv, NEW b \in Batches,
           ReviseNarration(b) \/ JudgeNarration(b) \/ JudgeTimeline(b)
    PROVE  IInv'
<1> DEFINE r == batch[b]
<1>1. /\ Exists(b) /\ UNCHANGED <<story, task>>
      /\ r.status \in {"PENDING_NARRATION_REVIEW", "PENDING_BATCH_TTS", "PENDING_TIMELINE_REVIEW"}
  BY DEF ReviseNarration, JudgeNarration, JudgeTimeline, Request, NarrationReviewAllowed
<1>2. r \in Row /\ SoundRow(r)
  BY <1>1, DurableRow
<1>3. r.artifact = 0
  BY <1>1, <1>2 DEF SoundRow, ValidBatch, ValidOutcome, Row
<1>4. r.script \in Nat /\ r.input \in Nat /\ EvidenceIsCurrent(r)
  BY <1>2 DEF Row, SoundRow
<1>5. CASE ReviseNarration(b)
  <2> DEFINE new == Update(r, "PENDING_NARRATION_REVIEW")
             script == r.script + 1
             revised == [new EXCEPT !.script = script, !.audio = 0, !.input = 0,
                                    !.timeline = NoVerdict,
                                    !.narration = [decision |-> "revise", of |-> script]]
  <2>1. /\ new \in Row
        /\ new.sources = r.sources
        /\ new.artifact = 0
    BY <1>2, <1>3, UpdateFacts DEF Status
  <2>2. script \in Nat
    BY <1>4
  <2>3. Save(b, revised)
    BY <1>5 DEF ReviseNarration, Revised
  <2> HIDE DEF new, script
  <2>4. revised \in Row /\ revised.sources = r.sources /\ EvidenceIsCurrent(revised)
    BY <2>1, <2>2 DEF Row, Verdict, NoVerdict, EvidenceIsCurrent
  <2> HIDE DEF revised
  <2> QED
    BY <1>1, <2>3, <2>4, RequestSaves
<1>6. CASE JudgeNarration(b)
  <2>1. PICK decision \in {"approve", "reject"}, to \in {"PENDING_BATCH_TTS", "REJECTED"} :
          Save(b, [Update(r, to) EXCEPT !.narration = [decision |-> decision, of |-> r.script]])
    BY <1>6 DEF JudgeNarration
  <2> DEFINE new == Update(r, to)
             judged == [new EXCEPT !.narration = [decision |-> decision, of |-> r.script]]
  <2>2. /\ new \in Row
        /\ new.sources = r.sources
        /\ new.script = r.script
        /\ new.artifact = 0
    <3>1. to \in Status
      BY DEF Status
    <3> QED
      BY <1>2, <1>3, <3>1, UpdateFacts
  <2>3. Save(b, judged)
    BY <2>1
  <2> HIDE DEF new
  <2>4. judged \in Row /\ judged.sources = r.sources /\ EvidenceIsCurrent(judged)
    BY <1>4, <2>2 DEF Row, Verdict, EvidenceIsCurrent
  <2> HIDE DEF judged
  <2> QED
    BY <1>1, <2>3, <2>4, RequestSaves
<1>7. CASE JudgeTimeline(b)
  <2>1. PICK decision \in {"approve", "reject"}, to \in {"READY_TO_RENDER", "REJECTED"} :
          Save(b, [Update(r, to) EXCEPT !.timeline = [decision |-> decision, of |-> r.input]])
    BY <1>7 DEF JudgeTimeline
  <2> DEFINE new == Update(r, to)
             judged == [new EXCEPT !.timeline = [decision |-> decision, of |-> r.input]]
  <2>2. /\ new \in Row
        /\ new.sources = r.sources
        /\ new.script = r.script
        /\ new.narration = r.narration
        /\ new.artifact = 0
    <3>1. to \in Status
      BY DEF Status
    <3> QED
      BY <1>2, <1>3, <3>1, UpdateFacts
  <2>3. Save(b, judged)
    BY <2>1
  <2> HIDE DEF new
  <2>4. judged \in Row /\ judged.sources = r.sources /\ EvidenceIsCurrent(judged)
    BY <1>4, <2>2 DEF Row, Verdict, EvidenceIsCurrent
  <2> HIDE DEF judged
  <2> QED
    BY <1>1, <2>3, <2>4, RequestSaves
<1> QED
  BY <1>5, <1>6, <1>7

\* Cancelling a batch keeps its evidence.
LEMMA CancelStep ==
    ASSUME IInv, NEW b \in Batches, CancelBatch(b)
    PROVE  IInv'
<1>1. Exists(b) /\ UNCHANGED <<story, task>>
  BY DEF CancelBatch, Request
<1>2. batch[b] \in Row /\ EvidenceIsCurrent(batch[b])
  BY <1>1, DurableRow DEF SoundRow
<1> DEFINE new == Update(batch[b], "CANCELLED")
<1>3. new \in Row /\ new.sources = batch[b].sources /\ EvidenceIsCurrent(new)
  BY <1>2, UpdateFacts DEF Status, EvidenceIsCurrent
<1>4. Save(b, new) /\ batch[b].status \notin {"PROCESSING_BATCH_TTS", "RENDERING"}
  BY DEF CancelBatch
<1> HIDE DEF new
<1> QED
  BY <1>1, <1>3, <1>4, RequestSaves

\* Deleting a batch takes its claims with it.
LEMMA DeleteStep ==
    ASSUME IInv, NEW b \in Batches, DeleteBatch(b)
    PROVE  IInv'
<1>1. /\ Exists(b)
      /\ batch[b].status \notin {"PROCESSING_BATCH_TTS", "RENDERING"}
      /\ batch' = [batch EXCEPT ![b] = Deleted]
      /\ claims' = claims \ ClaimsOf(b)
      /\ UNCHANGED <<story, task>>
  BY DEF DeleteBatch
<1>2. /\ batch'[b] = Deleted
      /\ \A z \in Batches \ {b} : batch'[z] = batch[z]
      /\ batch' \in [Batches -> Row]
      /\ claims' \in SUBSET (Stories \X Batches)
  BY <1>1, AbsentType DEF IInv, TypeOK
<1>3. ~Exists(b)'
  BY <1>2 DEF Exists, Deleted, Absent, Status
<1>4. \A z \in Batches : RowOK(z)'
  BY <1>2, <1>3 DEF IInv, RowOK, Exists
<1>5. ClaimsOK'
  <2>1. claims \in SUBSET (Stories \X Batches) /\ ClaimsOK
    BY DEF IInv, TypeOK
  <2>2. \A z \in Batches \ {b} : /\ Unreleased(z)' = Unreleased(z)
                                 /\ SourceStories(batch[z])' = SourceStories(batch[z])
    BY <1>2 DEF Unreleased, Exists, SourceStories
  <2>3. \A c : c \in claims' <=> c \in claims /\ c[2] # b
    BY <1>1 DEF ClaimsOf
  <2>4. ~Unreleased(b)'
    BY <1>3 DEF Unreleased
  <2> QED
    BY <2>1, <2>2, <2>3, <2>4 DEF ClaimsOK
<1>6. OnlyTouches(b)
  BY <1>1, <1>2, <1>4, <1>5 DEF OnlyTouches, IInv, TypeOK
<1>7. NobodyOn(b)
  BY <1>1, Unworked DEF Exists, Status
<1> QED
  BY <1>1, <1>6, <1>7, CallsCarryOn

\* A restart ends every call, so the failures it records disturb nobody.
LEMMA RestartStep ==
    ASSUME IInv, Restart
    PROVE  IInv'
<1>1. \A b \in Batches : batch'[b] = IF batch[b].status = "RENDERING"
                                     THEN Saved(RenderFailure(batch[b])) ELSE batch[b]
  BY DEF Restart
<1>2. ASSUME NEW b \in Batches
      PROVE  /\ batch'[b] \in Row
             /\ RowOK(b)'
             /\ Unreleased(b)' = Unreleased(b)
             /\ SourceStories(batch[b])' = SourceStories(batch[b])
  <2>1. CASE batch[b].status = "RENDERING"
    <3>1. Exists(b) /\ Unreleased(b)
      BY <2>1 DEF Exists, Unreleased, Status, Released
    <3>2. batch[b] \in Row /\ SoundRow(batch[b])
      BY <3>1, DurableRow
    <3>3. /\ RenderFailure(batch[b]) \in Row
          /\ SoundRow(RenderFailure(batch[b]))
          /\ RenderFailure(batch[b]).status = "FAILED"
          /\ RenderFailure(batch[b]).sources = batch[b].sources
      BY <2>1, <3>2, FailureFacts
    <3>4. /\ batch'[b] \in Row
          /\ SoundRow(batch'[b])
          /\ batch'[b].status = "FAILED"
          /\ batch'[b].sources = batch[b].sources
      BY <1>1, <2>1, <3>3, SavedFacts
    <3> QED
      BY <3>1, <3>4 DEF RowOK, Exists, Unreleased, Status, Released, SourceStories
  <2>2. CASE batch[b].status # "RENDERING"
    <3>1. batch'[b] = batch[b]
      BY <1>1, <2>2
    <3> QED
      BY <3>1 DEF RowOK, Exists, Unreleased, SourceStories, IInv, TypeOK
  <2> QED
    BY <2>1, <2>2
<1>3. batch' \in [Batches -> Row]
  BY <1>2 DEF Restart
<1>4. ClaimsOK'
  <2>1. UNCHANGED claims /\ claims \in SUBSET (Stories \X Batches) /\ ClaimsOK
    BY DEF Restart, IInv, TypeOK
  <2> QED
    BY <1>2, <2>1 DEF ClaimsOK
<1>5. task' \in [Tasks -> Call] /\ \A t \in Tasks : task'[t] = IdleCall
  BY IdleCallType DEF Restart
<1>6. \A t \in Tasks : CallOK(task[t])'
  BY <1>5 DEF CallOK, CallIn, IdleCall, CreatePC, WorkPC, RenderPC
<1>7. OneCallPerBatch'
  BY <1>5 DEF OneCallPerBatch, IdleCall
<1> QED
  BY <1>2, <1>3, <1>4, <1>5, <1>6, <1>7 DEF Restart, IInv, TypeOK

\* The editors only change the stories.
LEMMA EditStep ==
    ASSUME IInv, NEW s \in Stories, EditStory(s) \/ FinishStory(s)
    PROVE  IInv'
<1>1. story' \in [Stories -> [rev : Nat, done : BOOLEAN]]
  <2>1. story \in [Stories -> [rev : Nat, done : BOOLEAN]]
    BY DEF IInv, TypeOK
  <2>2. story[s] \in [rev : Nat, done : BOOLEAN]
    BY <2>1
  <2>3. CASE EditStory(s)
    BY <2>1, <2>2, <2>3 DEF EditStory
  <2>4. CASE FinishStory(s)
    BY <2>1, <2>2, <2>4 DEF FinishStory
  <2> QED
    BY <2>3, <2>4
<1>2. UNCHANGED <<batch, claims, task>>
  BY DEF EditStory, FinishStory
<1> QED
  BY <1>1, <1>2 DEF IInv, TypeOK, RowOK, Exists, ClaimsOK, Unreleased, SourceStories,
                    CallOK, OneCallPerBatch

-----------------------------------------------------------------------------
(* The inductive invariant *)

\* Nothing is claimed, stored or under way at first.
LEMMA InitInvariant == Init => IInv
<1> SUFFICES ASSUME Init PROVE IInv
  OBVIOUS
<1>1. TypeOK
  BY AbsentType, IdleCallType DEF Init, TypeOK
<1>2. \A b \in Batches : batch[b] = Absent /\ ~Exists(b)
  BY DEF Init, Exists, Absent, Status
<1>3. (\A b \in Batches : RowOK(b)) /\ ClaimsOK
  BY <1>2 DEF Init, RowOK, ClaimsOK, Unreleased
<1>4. (\A t \in Tasks : CallOK(task[t])) /\ OneCallPerBatch
  BY DEF Init, IdleCall, CallOK, CallIn, CreatePC, WorkPC, RenderPC, OneCallPerBatch
<1> QED
  BY <1>1, <1>3, <1>4 DEF IInv

\* Every step keeps the invariant.
LEMMA NextInvariant == IInv /\ [Next]_vars => IInv'
<1> SUFFICES ASSUME IInv, [Next]_vars PROVE IInv'
  OBVIOUS
<1>1. ASSUME NEW t \in Tasks, Progress(t) \/ CancelTask(t) PROVE IInv'
  BY <1>1, ProgressStep
<1>2. ASSUME NEW t \in Tasks, NEW b \in Batches, StartsCall(t, b) PROVE IInv'
  BY <1>2, SelectStep, WorkStarts DEF StartsCall
<1>3. ASSUME NEW b \in Batches, ShortCall(b) PROVE IInv'
  BY <1>3, ReviewStep, CancelStep, DeleteStep DEF ShortCall
<1>4. ASSUME NEW s \in Stories, EditStory(s) \/ FinishStory(s) PROVE IInv'
  BY <1>4, EditStep
<1>5. CASE Restart
  BY <1>5, RestartStep
<1>6. CASE UNCHANGED vars
  BY <1>6 DEF vars, IInv, TypeOK, RowOK, Exists, ClaimsOK, Unreleased, SourceStories,
              CallOK, OneCallPerBatch
<1> QED
  BY <1>1, <1>2, <1>3, <1>4, <1>5, <1>6 DEF Next

-----------------------------------------------------------------------------
(* What every reachable state satisfies *)

(* The inductive invariant holds throughout.                                  *)
THEOREM Invariance == Spec => []IInv
BY InitInvariant, NextInvariant, PTL DEF Spec

(* Stories, rows, claims and calls keep their types.                          *)
THEOREM TypeCorrectness == Spec => []TypeOK
<1>1. IInv => TypeOK
  BY DEF IInv
<1> QED
  BY <1>1, Invariance, PTL

(* The claim rows are exactly the stories of the unreleased batches, and no   *)
(* two of these share a story.                                                *)
THEOREM ClaimsAreExactAlways == Spec => []ClaimsAreExact
<1>1. IInv => ClaimsAreExact
  <2> SUFFICES ASSUME IInv PROVE ClaimsAreExact
    OBVIOUS
  <2>1. claims \in SUBSET (Stories \X Batches) /\ ClaimsOK
    BY DEF IInv, TypeOK
  <2> DEFINE held == {c \in Batches : Exists(c) /\ batch[c].status \notin Released}
             owed == UNION {SourceStories(batch[b]) \X {b} : b \in held}
  <2>2. \A b \in Batches : b \in held <=> Unreleased(b)
    BY DEF Unreleased
  <2>3. claims \subseteq owed
    <3> SUFFICES ASSUME NEW c \in claims PROVE c \in owed
      OBVIOUS
    <3>1. /\ c[2] \in held
          /\ c \in SourceStories(batch[c[2]]) \X {c[2]}
      BY <2>1, <2>2 DEF ClaimsOK
    <3> QED
      BY <3>1
  <2>4. owed \subseteq claims
    BY <2>1, <2>2 DEF ClaimsOK
  <2> QED
    BY <2>1, <2>3, <2>4 DEF ClaimsAreExact, ClaimsOK
<1> QED
  BY <1>1, Invariance, PTL

(* What is rendered, and what a renderer works on, passed both review gates   *)
(* as it is.                                                                  *)
THEOREM RenderedAsApprovedAlways == Spec => []RenderedAsApproved
<1>1. ASSUME NEW r \in Row, SoundRow(r), r.status \in Renderable
      PROVE  ApprovedForRender(r)
  <2>1. r.narration \in Verdict /\ r.timeline \in Verdict
    BY DEF Row
  <2>2. r.narration.decision = "approve" /\ r.timeline.decision = "approve"
    BY <1>1 DEF SoundRow, ValidBatch, ValidReviews
  <2>3. r.timeline # NoVerdict
    BY <2>2 DEF NoVerdict
  <2>4. r.narration.of = r.script /\ r.timeline.of = r.input /\ r.audio = r.script
    BY <1>1, <2>2, <2>3 DEF SoundRow, EvidenceIsCurrent, ValidBatch, ValidMedia
  <2>5. \A v \in Verdict : v = [decision |-> v.decision, of |-> v.of]
    BY DEF Verdict
  <2> QED
    BY <1>1, <2>1, <2>2, <2>4, <2>5 DEF ApprovedForRender, SoundRow, EvidenceIsCurrent
<1>2. ASSUME IInv, NEW b \in Batches, batch[b].status \in Renderable
      PROVE  ApprovedForRender(batch[b])
  <2>1. Exists(b)
    BY <1>2 DEF Exists, Renderable, Status
  <2> QED
    BY <1>1, <1>2, <2>1, DurableRow
<1>3. ASSUME IInv, NEW t \in Tasks, task[t].pc \in {"rendering", "committing"}
      PROVE  ApprovedForRender(task[t].held)
  <2>1. task[t].held \in Row
    BY <1>3, RunningCall
  <2>2. SoundRow(task[t].held) /\ task[t].held.status = "RENDERING"
    BY <1>3, WorkingCall DEF WorkPC, RenderPC, WorkStatus
  <2> QED
    BY <1>1, <2>1, <2>2 DEF Renderable
<1>4. IInv => RenderedAsApproved
  BY <1>2, <1>3 DEF RenderedAsApproved
<1> QED
  BY <1>4, Invariance, PTL

(* A call that speaks or renders a batch is the only one that does, and holds *)
(* the present row.                                                           *)
THEOREM WorkerOwnsBatchAlways == Spec => []WorkerOwnsBatch
<1>1. IInv => WorkerOwnsBatch
  <2> SUFFICES ASSUME IInv, NEW t \in Tasks, task[t].pc \in WorkPC
               PROVE  /\ batch[task[t].batch] = task[t].held
                      /\ NobodyElseOn(task[t].batch, t)
    BY DEF WorkerOwnsBatch, NobodyElseOn, WorkPC, RenderPC
  <2>1. task[t].pc # "idle"
    BY DEF WorkPC, RenderPC
  <2> QED
    BY <2>1, WorkingCall, Alone
<1> QED
  BY <1>1, Invariance, PTL

=============================================================================
