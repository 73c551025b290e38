------------------------ MODULE StoryWorkflowProofs ------------------------
(***************************************************************************)
(* What StoryWorkflow guarantees for every number of stories, calls, texts *)
(* and versions. The safety properties rest on one inductive invariant:    *)
(* a call's copy of a story is either the present row or out of date, and  *)
(* then its version is too, so that no write of it is accepted.            *)
(***************************************************************************)
EXTENDS StoryWorkflow, TLAPS

Gated == {"PENDING_TTS", "PROCESSING_TTS"} \cup VoicedStatus
SynthesisPC == {"synthesizing", "returning", "detached"}

HasApproval(s, script) == Approved(s, "script", script) # {}

\* A durable row obeys the validators, and its gates were opened for its
\* present wording.
RowOK(s) ==
    /\ ValidArtifacts(row[s])
    /\ row[s].status \in VoicedStatus => row[s].audio = row[s].script
    /\ row[s].status \in Gated => HasApproval(s, row[s].script)

\* The status of a story when a call of each kind copied it.
CopiedStatus(pc) ==
    CASE pc \in {"created", "translating"} -> "FETCHED"
      [] pc = "queueing" -> "TRANSLATED"
      [] pc = "scripting" -> "PROCESSING_SCRIPT"
      [] OTHER -> "PROCESSING_TTS"

\* The copy a call works on is the present row or older than it.
CallOK(c) ==
    c.pc # "idle" =>
        /\ c.story \in Stories
        /\ c.held.status = CopiedStatus(c.pc)
        /\ c.held.version \in 1 .. row[c.story].version
        /\ c.held.version = row[c.story].version => c.held = row[c.story]
        /\ c.pc \in SynthesisPC => HasApproval(c.story, c.held.script)

IInv ==
    /\ TypeOK
    /\ \A s \in Stories : RowOK(s)
    /\ \A t \in Tasks : CallOK(task[t])

-----------------------------------------------------------------------------
(* Types of the helpers *)

\* The table of the state machine speaks of statuses only.
LEMMA TransitionTypes == Transitions \subseteq Status \X Status
BY DEF Transitions, Status

\* A story that does not exist yet has a well-typed row.
LEMMA AbsentType == Absent \in Row
BY DEF Absent, Row, Script, NoScript

\* An idle task runs a well-typed call.
LEMMA IdleCallType == IdleCall \in Call
BY AbsentType DEF IdleCall, Call, PC, HoldingPC

\* Moving and saving a row keeps its type and changes what they say.
LEMMA MoveFacts ==
    ASSUME NEW r \in Row, NEW to \in Status
    PROVE  /\ Move(r, to) \in Row
           /\ Move(r, to).status = to
           /\ Move(r, to).version = r.version
           /\ Move(r, to).translated = r.translated
           /\ Move(r, to).script = r.script
           /\ Move(r, to).audio = r.audio
BY DEF Move, Row

\* What a save does to the row it stores: the next version, and nothing else.
LEMMA SavedFacts ==
    ASSUME NEW r \in Row
    PROVE  /\ Saved(r) \in Row
           /\ Saved(r).status = r.status
           /\ Saved(r).version = r.version + 1
           /\ Saved(r).translated = r.translated
           /\ Saved(r).script = r.script
           /\ Saved(r).audio = r.audio
           /\ Saved(r).failed = r.failed
BY DEF Saved, Row

\* A revision is the next one, and leaves the row without audio.
LEMMA ReviseFacts ==
    ASSUME NEW r \in Row, NEW text \in Texts
    PROVE  /\ Revise(r, text) \in Row
           /\ Revise(r, text).status = r.status
           /\ Revise(r, text).version = r.version
           /\ Revise(r, text).translated = r.translated
           /\ Revise(r, text).script = [rev |-> r.script.rev + 1, text |-> text]
           /\ Revise(r, text).audio = NoScript
<1>1. r.script \in Script
  BY DEF Row
<1>2. [rev |-> r.script.rev + 1, text |-> text] \in Script
  BY <1>1 DEF Script
<1>3. NoScript \in Script
  BY DEF NoScript, Script
<1> QED
  BY <1>2, <1>3 DEF Revise, Row

\* The evidence built by _build_review is well typed.
LEMMA ReviewedType ==
    ASSUME NEW r \in Row,
           NEW stage \in {"first", "script", "second"},
           NEW decision \in {"approve", "request_changes"}
    PROVE  Reviewed(r, stage, decision) \in SUBSET Review
BY DEF Reviewed, Review, Row

\* Moving a task to a new place keeps the calls well typed.
LEMMA GotoType ==
    ASSUME TypeOK, NEW t \in Tasks, NEW pc \in PC,
           NEW s \in Stories \cup {NoStory}, NEW held \in Row,
           Goto(t, pc, s, held)
    PROVE  task' \in [Tasks -> Call]
BY DEF TypeOK, Goto, Call

\* Ending a call keeps the calls well typed.
LEMMA EndCallType ==
    ASSUME TypeOK, NEW t \in Tasks, EndCall(t)
    PROVE  task' \in [Tasks -> Call]
BY IdleCallType DEF TypeOK, EndCall

\* What a save does to the types of the durable state.
LEMMA SaveType ==
    ASSUME TypeOK, NEW s \in Stories, NEW new \in Row, NEW rs \in SUBSET Review,
           Save(s, new, rs)
    PROVE  /\ row' \in [Stories -> Row]
           /\ reviews' \in [Stories -> SUBSET Review]
           /\ audit' \in [Stories -> SUBSET AuditRow]
<1>1. row' \in [Stories -> Row]
  BY SavedFacts DEF Save, TypeOK
<1>2. reviews' \in [Stories -> SUBSET Review]
  BY DEF Save, TypeOK
<1>3. audit' \in [Stories -> SUBSET AuditRow]
  <2>1. CASE new.status = row[s].status
    BY <2>1 DEF Save, TypeOK
  <2>2. CASE new.status # row[s].status
    <3>1. <<row[s].status, new.status>> \in Transitions
      BY <2>2 DEF Save, Evidence
    <3>2. row[s].status \in Status /\ new.status \in Status
      BY <3>1, TransitionTypes
    <3>3. new.version + 1 \in Nat
      BY DEF Row
    <3>4. [from |-> row[s].status, to |-> new.status, version |-> new.version + 1] \in AuditRow
      BY <3>2, <3>3 DEF AuditRow
    <3> QED
      BY <2>2, <3>4 DEF Save, TypeOK
  <2> QED
    BY <2>1, <2>2
<1> QED
  BY <1>1, <1>2, <1>3

-----------------------------------------------------------------------------
(* What one accepted save does to the invariant *)

\* A save of a valid row whose gates are open keeps every row in order, and
\* leaves every other call's copy in order: that of the same story is now out
\* of date.
LEMMA SaveKeepsOrder ==
    ASSUME IInv, NEW s \in Stories, NEW new \in Row, NEW rs \in SUBSET Review,
           Save(s, new, rs),
           new.status \in VoicedStatus => new.audio = new.script,
           new.status \in Gated =>
              \E r \in reviews[s] \cup rs :
                 r.stage = "script" /\ r.decision = "approve" /\ r.script = new.script
    PROVE  /\ \A z \in Stories : RowOK(z)'
           /\ \A c \in Call : CallOK(c) => CallOK(c)'
<1> USE DEF IInv, TypeOK
<1>1. row'[s] = Saved(new) /\ reviews'[s] = reviews[s] \cup rs
  BY DEF Save
<1>2. \A z \in Stories \ {s} : row'[z] = row[z] /\ reviews'[z] = reviews[z]
  BY DEF Save
<1>3. ASSUME NEW z \in Stories, NEW script, HasApproval(z, script)
      PROVE  HasApproval(z, script)'
  BY <1>1, <1>2, <1>3 DEF HasApproval, Approved
<1>4. \A z \in Stories : RowOK(z)'
  <2>1. RowOK(s)'
    <3>1. ValidArtifacts(row[s])'
      BY <1>1, SavedFacts DEF Save, ValidArtifacts
    <3>2. row'[s].status \in VoicedStatus => row'[s].audio = row'[s].script
      BY <1>1, SavedFacts
    <3>3. row'[s].status \in Gated => HasApproval(s, row[s].script)'
      BY <1>1, SavedFacts DEF HasApproval, Approved
    <3> QED
      BY <3>1, <3>2, <3>3 DEF RowOK
  <2>2. ASSUME NEW z \in Stories \ {s}
        PROVE  RowOK(z)'
    BY <1>2, <1>3 DEF RowOK, ValidArtifacts
  <2> QED
    BY <2>1, <2>2
<1>5. ASSUME NEW c \in Call, CallOK(c), c.pc # "idle"
      PROVE  CallOK(c)'
  <2>1. c.story \in Stories
    BY <1>5 DEF CallOK
  <2>2. CASE c.story = s
    <3>1. row'[s].version = row[s].version + 1
      BY <1>1, SavedFacts DEF Save
    <3>2. row[s].version \in Nat /\ c.held.version \in 1 .. row[s].version
      BY <1>5, <2>2 DEF CallOK, Row
    <3>3. c.held.version \in 1 .. row'[s].version /\ c.held.version # row'[s].version
      BY <3>1, <3>2
    <3> QED
      BY <1>3, <1>5, <2>2, <3>3 DEF CallOK
  <2>3. CASE c.story # s
    BY <1>2, <1>3, <1>5, <2>1, <2>3 DEF CallOK
  <2> QED
    BY <2>2, <2>3
<1>6. \A c \in Call : CallOK(c) => CallOK(c)'
  BY <1>5 DEF CallOK
<1> QED
  BY <1>4, <1>6

-----------------------------------------------------------------------------
(* How calls carry the invariant over a step *)

\* A step that leaves the durable state alone leaves every row and every call
\* in order.
LEMMA StutterKeepsOrder ==
    ASSUME IInv, UNCHANGED durable
    PROVE  /\ row' \in [Stories -> Row]
           /\ reviews' \in [Stories -> SUBSET Review]
           /\ audit' \in [Stories -> SUBSET AuditRow]
           /\ \A z \in Stories : RowOK(z)'
           /\ \A c \in Call : CallOK(c) => CallOK(c)'
BY DEF IInv, TypeOK, durable, RowOK, CallOK, HasApproval, Approved, ValidArtifacts

\* A step in which durable state and calls stay in order keeps the invariant,
\* whether it leaves the calls alone, ends one, or moves one on.
LEMMA CallsCarryOn ==
    ASSUME IInv,
           row' \in [Stories -> Row],
           reviews' \in [Stories -> SUBSET Review],
           audit' \in [Stories -> SUBSET AuditRow],
           \A z \in Stories : RowOK(z)',
           \A c \in Call : CallOK(c) => CallOK(c)'
    PROVE  /\ UNCHANGED task => IInv'
           /\ \A t \in Tasks : EndCall(t) => IInv'
           /\ \A t \in Tasks, pc \in PC, s \in Stories, held \in Row :
                 /\ Goto(t, pc, s, held)
                 /\ CallOK([pc |-> pc, story |-> s, held |-> held])'
                 => IInv'
<1>1. task \in [Tasks -> Call] /\ \A u \in Tasks : CallOK(task[u])
  BY DEF IInv, TypeOK
<1>2. ASSUME task' \in [Tasks -> Call], \A u \in Tasks : CallOK(task[u])'
      PROVE  IInv'
  BY <1>2 DEF IInv, TypeOK
<1>3. ASSUME UNCHANGED task PROVE IInv'
  <2>1. \A u \in Tasks : CallOK(task[u])'
    BY <1>1, <1>3 DEF CallOK
  <2> QED
    BY <1>1, <1>2, <1>3, <2>1
<1>4. ASSUME NEW t \in Tasks, EndCall(t) PROVE IInv'
  <2>1. task' \in [Tasks -> Call]
    BY <1>4, EndCallType DEF IInv
  <2>2. \A u \in Tasks : task'[u] = task[u] \/ task'[u] = IdleCall
    BY <1>1, <1>4 DEF EndCall
  <2>3. \A u \in Tasks : CallOK(task[u])'
    BY <1>1, <2>2 DEF CallOK, IdleCall
  <2> QED
    BY <1>2, <2>1, <2>3
<1>5. ASSUME NEW t \in Tasks, NEW pc \in PC, NEW s \in Stories, NEW held \in Row,
             Goto(t, pc, s, held),
             CallOK([pc |-> pc, story |-> s, held |-> held])'
      PROVE  IInv'
  <2>1. task' \in [Tasks -> Call]
    BY <1>5, GotoType DEF IInv
  <2>2. \A u \in Tasks : task'[u] = task[u]
                        \/ task'[u] = [pc |-> pc, story |-> s, held |-> held]
    BY <1>1, <1>5 DEF Goto
  <2>3. ASSUME NEW u \in Tasks PROVE CallOK(task[u])'
    <3>1. CASE task'[u] = task[u]
      BY <1>1, <3>1 DEF CallOK
    <3>2. CASE task'[u] = [pc |-> pc, story |-> s, held |-> held]
      BY <1>5, <3>2 DEF CallOK
    <3> QED
      BY <2>2, <3>1, <3>2
  <2> QED
    BY <1>2, <2>1, <2>3
<1> QED
  BY <1>3, <1>4, <1>5

\* The same for a step that is an accepted save.
LEMMA SaveStep ==
    ASSUME IInv, NEW s \in Stories, NEW new \in Row, NEW rs \in SUBSET Review,
           Save(s, new, rs),
           new.status \in VoicedStatus => new.audio = new.script,
           new.status \in Gated =>
              \E r \in reviews[s] \cup rs :
                 r.stage = "script" /\ r.decision = "approve" /\ r.script = new.script
    PROVE  /\ UNCHANGED task => IInv'
           /\ \A t \in Tasks : EndCall(t) => IInv'
           /\ \A t \in Tasks, pc \in PC, held \in Row :
                 /\ Goto(t, pc, s, held)
                 /\ CallOK([pc |-> pc, story |-> s, held |-> held])'
                 => IInv'
<1>1. TypeOK
  BY DEF IInv
<1>2. /\ row' \in [Stories -> Row]
      /\ reviews' \in [Stories -> SUBSET Review]
      /\ audit' \in [Stories -> SUBSET AuditRow]
  BY <1>1, SaveType
<1>3. /\ \A z \in Stories : RowOK(z)'
      /\ \A c \in Call : CallOK(c) => CallOK(c)'
  BY SaveKeepsOrder
<1> QED
  BY <1>2, <1>3, CallsCarryOn

\* A call that goes on with the row it has just saved is in order.
LEMMA FreshCopy ==
    ASSUME IInv, NEW s \in Stories, NEW new \in Row, NEW rs \in SUBSET Review,
           Save(s, new, rs), NEW pc \in PC,
           new.status = CopiedStatus(pc),
           pc \in SynthesisPC =>
              \E r \in reviews[s] \cup rs :
                 r.stage = "script" /\ r.decision = "approve" /\ r.script = new.script
    PROVE  CallOK([pc |-> pc, story |-> s, held |-> Saved(new)])'
<1>1. row'[s] = Saved(new) /\ reviews'[s] = reviews[s] \cup rs
  BY DEF Save, IInv, TypeOK
<1>2. new.version \in Nat
  BY DEF Row
<1> QED
  BY <1>1, <1>2, SavedFacts DEF CallOK, HasApproval, Approved

-----------------------------------------------------------------------------
(* The steps of running calls *)

\* What the invariant says of a call that is not idle.
LEMMA RunningCall ==
    ASSUME IInv, NEW t \in Tasks, task[t].pc # "idle"
    PROVE  /\ task[t].story \in Stories
           /\ task[t].held \in Row
           /\ task[t].held.status = CopiedStatus(task[t].pc)
           /\ task[t].held.version \in 1 .. row[task[t].story].version
           /\ task[t].held.version = row[task[t].story].version
                 => task[t].held = row[task[t].story]
           /\ task[t].pc \in SynthesisPC => HasApproval(task[t].story, task[t].held.script)
BY DEF IInv, TypeOK, Call, CallOK

\* A failure record keeps the status of the copy, so it opens no gate.
LEMMA StoreFailureStep ==
    ASSUME IInv, NEW t \in Tasks, NEW s \in Stories, NEW r \in Row,
           StoreFailure(s, r), EndCall(t),
           r.status \notin VoicedStatus,
           r.status \in Gated => HasApproval(s, r.script)
    PROVE  IInv'
<1>1. CASE UNCHANGED durable
  BY <1>1, StutterKeepsOrder, CallsCarryOn
<1>2. CASE Save(s, [r EXCEPT !.failed = TRUE], {})
  <2> DEFINE new == [r EXCEPT !.failed = TRUE]
  <2>1. new \in Row /\ new.status = r.status /\ new.script = r.script
    BY DEF Row
  <2>2. Save(s, new, {})
    BY <1>2
  <2> HIDE DEF new
  <2>3. new.status \in Gated =>
           \E q \in reviews[s] \cup {} :
              q.stage = "script" /\ q.decision = "approve" /\ q.script = new.script
    BY <2>1 DEF HasApproval, Approved
  <2> QED
    BY <2>1, <2>2, <2>3, SaveStep
<1> QED
  BY <1>1, <1>2 DEF StoreFailure

\* Every step a running call takes by itself keeps the invariant, whatever
\* copy of its story it works on.
LEMMA ProgressStep ==
    ASSUME IInv, NEW t \in Tasks, Progress(t)
    PROVE  IInv'
<1>0. task[t].pc # "idle"
  BY DEF Progress, Translated, QueueFirstReview, TranslationFails, ScriptGenerated,
         ScriptFails, AudioReady, TtsFails, ReturnToPending, At
<1> PICK s \in Stories, held \in Row, pc \in PC :
           task[t].story = s /\ task[t].held = held /\ task[t].pc = pc
  BY <1>0, RunningCall DEF IInv, TypeOK, Call
<1> DEFINE ApprovedHere(script, rs) ==
              \E r \in reviews[s] \cup rs :
                 r.stage = "script" /\ r.decision = "approve" /\ r.script = script
<1>1. CASE Translated(t)
  <2> DEFINE moved == Move(held, "TRANSLATED")
             new == [moved EXCEPT !.translated = TRUE]
  <2>1. moved \in Row /\ moved.status = "TRANSLATED"
    BY MoveFacts DEF Status
  <2>2. new \in Row /\ new.status = "TRANSLATED"
    BY <2>1 DEF Row
  <2>3. Save(s, new, {}) /\ Goto(t, "queueing", s, Saved(new))
    BY <1>1 DEF Translated
  <2> HIDE DEF new
  <2>4. CallOK([pc |-> "queueing", story |-> s, held |-> Saved(new)])'
    BY <2>2, <2>3, FreshCopy DEF CopiedStatus, PC, HoldingPC, SynthesisPC
  <2>5. Saved(new) \in Row
    BY <2>2, SavedFacts
  <2> QED
    BY <2>2, <2>3, <2>4, <2>5, SaveStep DEF PC, HoldingPC, VoicedStatus, Gated
<1>2. CASE QueueFirstReview(t)
  <2> DEFINE new == Move(held, "PENDING_FIRST_REVIEW")
  <2>1. new \in Row /\ new.status = "PENDING_FIRST_REVIEW"
    BY MoveFacts DEF Status
  <2>2. Save(s, new, {}) /\ EndCall(t)
    BY <1>2 DEF QueueFirstReview
  <2> HIDE DEF new
  <2> QED
    BY <2>1, <2>2, SaveStep DEF VoicedStatus, Gated
<1>3. CASE TranslationFails(t) \/ ScriptFails(t)
  <2>1. held.status \in {"FETCHED", "TRANSLATED", "PROCESSING_SCRIPT"}
    BY <1>0, <1>3, RunningCall DEF TranslationFails, ScriptFails, At, CopiedStatus
  <2> QED
    BY <1>3, <2>1, StoreFailureStep
       DEF TranslationFails, ScriptFails, VoicedStatus, Gated
<1>4. CASE ScriptGenerated(t)
  <2>1. PICK text \in Texts :
           Save(s, [Move(held, "SCRIPT_READY") EXCEPT !.script = [rev |-> 1, text |-> text]], {})
    BY <1>4 DEF ScriptGenerated
  <2> DEFINE moved == Move(held, "SCRIPT_READY")
             new == [moved EXCEPT !.script = [rev |-> 1, text |-> text]]
  <2>2. moved \in Row /\ moved.status = "SCRIPT_READY"
    BY MoveFacts DEF Status
  <2>3. new \in Row /\ new.status = "SCRIPT_READY"
    BY <2>2 DEF Row, Script
  <2>4. Save(s, new, {}) /\ EndCall(t)
    BY <1>4, <2>1 DEF ScriptGenerated
  <2> HIDE DEF new
  <2> QED
    BY <2>3, <2>4, SaveStep DEF VoicedStatus, Gated
<1>5. CASE AudioReady(t)
  <2>1. HasApproval(s, held.script)
    BY <1>0, <1>5, RunningCall DEF AudioReady, At, SynthesisPC
  <2> DEFINE moved == Move(held, "PENDING_SECOND_REVIEW")
             new == [moved EXCEPT !.audio = held.script]
  <2>2. /\ moved \in Row /\ moved.status = "PENDING_SECOND_REVIEW"
        /\ moved.script = held.script
    BY MoveFacts DEF Status
  <2>3. /\ new \in Row /\ new.status = "PENDING_SECOND_REVIEW"
        /\ new.script = held.script /\ new.audio = held.script
    BY <2>2 DEF Row
  <2>4. Save(s, new, {}) /\ (EndCall(t) \/ Goto(t, "returning", s, held))
    BY <1>5 DEF AudioReady
  <2> HIDE DEF new
  <2>5. ApprovedHere(new.script, {})
    BY <2>1, <2>3 DEF HasApproval, Approved
  <2>6. CASE EndCall(t)
    BY <2>3, <2>4, <2>5, <2>6, SaveStep
  <2>7. CASE Goto(t, "returning", s, held)
    <3> DEFINE call == [pc |-> "returning", story |-> s, held |-> held]
    <3>1. call \in Call
      BY DEF Call, PC, HoldingPC
    <3>2. CallOK(call)
      BY <1>0, <1>5, <2>1, RunningCall
         DEF CallOK, CopiedStatus, AudioReady, At
    <3>3. CallOK(call)'
      BY <2>3, <2>4, <2>5, <3>1, <3>2, SaveKeepsOrder
    <3> QED
      BY <2>3, <2>4, <2>5, <2>7, <3>3, SaveStep DEF PC, HoldingPC
  <2> QED
    BY <2>4, <2>6, <2>7
<1>6. CASE TtsFails(t) \/ ReturnToPending(t)
  <2>1. HasApproval(s, held.script)
    BY <1>0, <1>6, RunningCall DEF TtsFails, ReturnToPending, At, SynthesisPC
  <2>2. /\ Move(held, "PENDING_TTS") \in Row
        /\ Move(held, "PENDING_TTS").status = "PENDING_TTS"
        /\ Move(held, "PENDING_TTS").script = held.script
    BY MoveFacts DEF Status
  <2> QED
    BY <1>6, <2>1, <2>2, StoreFailureStep DEF TtsFails, ReturnToPending, VoicedStatus
<1> QED
  BY <1>1, <1>2, <1>3, <1>4, <1>5, <1>6 DEF Progress

-----------------------------------------------------------------------------
(* The steps of requests *)

\* A request's save of a row that keeps the script, the audio and, where the
\* new status is behind the script gate, has the old one behind it too.
LEMMA SameScriptSave ==
    ASSUME IInv, NEW s \in Stories, NEW new \in Row, NEW rs \in SUBSET Review,
           Save(s, new, rs), UNCHANGED task,
           new.script = row[s].script,
           new.status \in VoicedStatus => row[s].status \in VoicedStatus /\ new.audio = row[s].audio,
           new.status \in Gated => row[s].status \in Gated
    PROVE  IInv'
<1>1. RowOK(s)
  BY DEF IInv
<1>2. new.status \in VoicedStatus => new.audio = new.script
  BY <1>1 DEF RowOK
<1>3. new.status \in Gated =>
         \E r \in reviews[s] \cup rs :
            r.stage = "script" /\ r.decision = "approve" /\ r.script = new.script
  BY <1>1 DEF RowOK, HasApproval, Approved
<1> QED
  BY <1>2, <1>3, SaveStep

\* A save that leaves the gates, as revising or archiving does.
LEMMA UngatedSave ==
    ASSUME IInv, NEW s \in Stories, NEW new \in Row, NEW rs \in SUBSET Review,
           Save(s, new, rs), UNCHANGED task, new.status \notin Gated
    PROVE  IInv'
BY SaveStep DEF Gated

\* Every review, archive, reopen and update keeps the invariant.
LEMMA ShortCallStep ==
    ASSUME IInv, NEW s \in Stories, ShortCall(s)
    PROVE  IInv'
<1> DEFINE r == row[s]
<1> PICK q \in Row : q = r
  BY DEF IInv, TypeOK
<1>1. CASE FirstReviewChanges(s) \/ Update(s)
  <2>1. PICK rs \in SUBSET Review : Save(s, q, rs)
    BY <1>1, ReviewedType DEF FirstReviewChanges, Update
  <2> QED
    BY <1>1, <2>1, SameScriptSave DEF FirstReviewChanges, Update
<1>2. CASE ScriptReviewChanges(s)
  <2>1. PICK new \in {q} \cup {Revise(q, text) : text \in Texts} :
           Save(s, new, Reviewed(new, "script", "request_changes"))
    BY <1>2 DEF ScriptReviewChanges
  <2>2. new \in Row /\ new.status = "SCRIPT_READY"
    <3>1. q.status = "SCRIPT_READY"
      BY <1>2 DEF ScriptReviewChanges
    <3>2. \A text \in Texts : Revise(q, text) \in Row /\ Revise(q, text).status = q.status
      BY ReviseFacts
    <3> QED
      BY <2>1, <3>1, <3>2
  <2>3. Reviewed(new, "script", "request_changes") \in SUBSET Review
    BY <2>2, ReviewedType
  <2> QED
    BY <1>2, <2>1, <2>2, <2>3, UngatedSave DEF ScriptReviewChanges, Gated, VoicedStatus
<1>3. CASE ScriptReviewApproves(s)
  <2> DEFINE new == Move(q, "PENDING_TTS")
             rs == Reviewed(q, "script", "approve")
  <2>1. new \in Row /\ new.status = "PENDING_TTS" /\ new.script = q.script
    BY MoveFacts DEF Status
  <2>2. rs \in SUBSET Review
    BY ReviewedType
  <2>3. \E z \in rs : z.stage = "script" /\ z.decision = "approve" /\ z.script = q.script
    BY DEF Reviewed
  <2>4. Save(s, new, rs) /\ UNCHANGED task
    BY <1>3 DEF ScriptReviewApproves
  <2> HIDE DEF new, rs
  <2> QED
    BY <2>1, <2>2, <2>3, <2>4, SaveStep DEF VoicedStatus
<1>4. CASE SecondReviewChanges(s)
  <2>1. CASE Save(s, q, Reviewed(q, "second", "request_changes"))
    BY <1>4, <2>1, ReviewedType, SameScriptSave DEF SecondReviewChanges
  <2>2. CASE \E text \in Texts :
               Save(s, Move(Revise(q, text), "SCRIPT_READY"),
                    Reviewed(Revise(q, text), "second", "request_changes"))
    <3>1. PICK text \in Texts :
             Save(s, Move(Revise(q, text), "SCRIPT_READY"),
                  Reviewed(Revise(q, text), "second", "request_changes"))
      BY <2>2
    <3>2. Revise(q, text) \in Row
      BY ReviseFacts
    <3> DEFINE new == Move(Revise(q, text), "SCRIPT_READY")
               rs == Reviewed(Revise(q, text), "second", "request_changes")
    <3>3. new \in Row /\ new.status = "SCRIPT_READY"
      BY <3>2, MoveFacts DEF Status
    <3>4. rs \in SUBSET Review
      BY <3>2, ReviewedType
    <3>5. Save(s, new, rs) /\ UNCHANGED task
      BY <1>4, <3>1 DEF SecondReviewChanges
    <3> HIDE DEF new, rs
    <3> QED
      BY <3>3, <3>4, <3>5, UngatedSave DEF Gated, VoicedStatus
  <2> QED
    BY <1>4, <2>1, <2>2 DEF SecondReviewChanges
<1>5. CASE SecondReviewApproves(s) \/ Reopen(s)
  <2>1. PICK to \in VoicedStatus, rs \in SUBSET Review : Save(s, Move(q, to), rs)
    BY <1>5, ReviewedType DEF SecondReviewApproves, Reopen, VoicedStatus
  <2> DEFINE new == Move(q, to)
  <2>2. new \in Row /\ new.status = to /\ new.script = q.script /\ new.audio = q.audio
    BY MoveFacts DEF Status, VoicedStatus
  <2>3. q.status \in VoicedStatus /\ UNCHANGED task
    BY <1>5 DEF SecondReviewApproves, Reopen, VoicedStatus
  <2>4. Save(s, new, rs)
    BY <2>1
  <2> HIDE DEF new
  <2> QED
    BY <2>2, <2>3, <2>4, SameScriptSave DEF Gated
<1>6. CASE Archive(s)
  <2> DEFINE new == Move(q, "ARCHIVED")
  <2>1. new \in Row /\ new.status = "ARCHIVED"
    BY MoveFacts DEF Status
  <2>2. Save(s, new, {}) /\ UNCHANGED task
    BY <1>6 DEF Archive
  <2> HIDE DEF new
  <2> QED
    BY <2>1, <2>2, UngatedSave DEF Gated, VoicedStatus
<1> QED
  BY <1>1, <1>2, <1>3, <1>4, <1>5, <1>6 DEF ShortCall

\* Every request that starts a call keeps the invariant: ingesting a story,
\* resuming one, the first approval and the start of a synthesis.
LEMMA StartsCallStep ==
    ASSUME IInv, NEW t \in Tasks, NEW s \in Stories, StartsCall(t, s)
    PROVE  IInv'
<1> PICK q \in Row : q = row[s]
  BY DEF IInv, TypeOK
<1>1. CASE Create(t, s)
  <2> DEFINE fetched == [Absent EXCEPT !.status = "FETCHED", !.version = 1]
  <2>1. /\ fetched \in Row /\ fetched.status = "FETCHED" /\ fetched.version = 1
        /\ ~fetched.translated /\ fetched.script = NoScript /\ fetched.audio = NoScript
    BY AbsentType DEF Row, Status, Absent
  <2>2. /\ q = Absent /\ row' = [row EXCEPT ![s] = fetched]
        /\ Goto(t, "created", s, fetched) /\ UNCHANGED <<reviews, audit>>
    BY <1>1 DEF Create
  <2> HIDE DEF fetched
  <2>3. /\ row' \in [Stories -> Row]
        /\ reviews' \in [Stories -> SUBSET Review]
        /\ audit' \in [Stories -> SUBSET AuditRow]
    BY <2>1, <2>2 DEF IInv, TypeOK
  <2>4. row'[s] = fetched /\ \A z \in Stories \ {s} : row'[z] = row[z]
    BY <2>2 DEF IInv, TypeOK
  <2>5. \A z \in Stories : RowOK(z)'
    <3>1. RowOK(s)'
      BY <2>1, <2>4
         DEF RowOK, ValidArtifacts, Gated, VoicedStatus, EarlyStatus, UnvoicedStatus
    <3>2. \A z \in Stories \ {s} : RowOK(z)'
      BY <2>2, <2>4 DEF IInv, RowOK, ValidArtifacts, HasApproval, Approved
    <3> QED
      BY <3>1, <3>2
  <2>6. ASSUME NEW c \in Call, CallOK(c) PROVE CallOK(c)'
    <3>1. row[s].version = 0
      BY <2>2 DEF Absent
    <3>2. c.pc # "idle" => c.story # s
      BY <2>6, <3>1 DEF CallOK
    <3> QED
      BY <2>2, <2>4, <2>6, <3>2 DEF CallOK, HasApproval, Approved
  <2>7. CallOK([pc |-> "created", story |-> s, held |-> fetched])'
    BY <2>1, <2>4 DEF CallOK, CopiedStatus, SynthesisPC
  <2> QED
    BY <2>1, <2>2, <2>3, <2>5, <2>6, <2>7, CallsCarryOn DEF PC
<1>2. CASE Resume(t, s)
  <2>1. q.version \in 1 .. q.version
    BY <1>2 DEF Resume, Request, Row
  <2>2. CASE Save(s, Move(q, "PENDING_FIRST_REVIEW"), {}) /\ UNCHANGED task
    <3> DEFINE new == Move(q, "PENDING_FIRST_REVIEW")
    <3>1. new \in Row /\ new.status = "PENDING_FIRST_REVIEW"
      BY MoveFacts DEF Status
    <3>2. Save(s, new, {})
      BY <2>2
    <3> HIDE DEF new
    <3> QED
      BY <2>2, <3>1, <3>2, UngatedSave DEF Gated, VoicedStatus
  <2>3. ASSUME NEW pc \in HoldingPC, Goto(t, pc, s, q), UNCHANGED durable,
               q.status = CopiedStatus(pc)
        PROVE  IInv'
    <3> DEFINE call == [pc |-> pc, story |-> s, held |-> q]
    <3>1. call \in Call
      BY DEF Call, PC
    <3>2. pc \in SynthesisPC => q.status \in Gated
      BY <2>3 DEF SynthesisPC, CopiedStatus, Gated
    <3>3. CallOK(call)
      BY <2>1, <2>3, <3>2 DEF CallOK, IInv, RowOK
    <3>4. CallOK(call)'
      BY <2>3, <3>1, <3>3, StutterKeepsOrder
    <3> QED
      BY <2>3, <3>4, StutterKeepsOrder, CallsCarryOn DEF PC
  <2>4. \/ /\ q.status = "FETCHED"
           /\ Goto(t, "translating", s, q) /\ UNCHANGED durable
        \/ Save(s, Move(q, "PENDING_FIRST_REVIEW"), {}) /\ UNCHANGED task
        \/ /\ q.status = "PROCESSING_SCRIPT"
           /\ Goto(t, "scripting", s, q) /\ UNCHANGED durable
        \/ /\ q.status = "PROCESSING_TTS"
           /\ Goto(t, "synthesizing", s, q) /\ UNCHANGED durable
    BY <1>2 DEF Resume
  <2> QED
    BY <2>2, <2>3, <2>4 DEF HoldingPC, CopiedStatus
<1>3. CASE FirstReviewApproves(t, s)
  <2> DEFINE new == Move(q, "PROCESSING_SCRIPT")
             rs == Reviewed(q, "first", "approve")
  <2>1. new \in Row /\ new.status = "PROCESSING_SCRIPT" /\ rs \in SUBSET Review
    BY MoveFacts, ReviewedType DEF Status
  <2>2. Save(s, new, rs) /\ Goto(t, "scripting", s, Saved(new))
    BY <1>3 DEF FirstReviewApproves
  <2> HIDE DEF new, rs
  <2>3. CallOK([pc |-> "scripting", story |-> s, held |-> Saved(new)])'
    BY <2>1, <2>2, FreshCopy DEF CopiedStatus, PC, HoldingPC, SynthesisPC
  <2>4. Saved(new) \in Row
    BY <2>1, SavedFacts
  <2> QED
    BY <2>1, <2>2, <2>3, <2>4, SaveStep DEF PC, HoldingPC, Gated, VoicedStatus
<1>4. CASE Synthesize(t, s)
  <2> DEFINE new == Move(q, "PROCESSING_TTS")
  <2>1. new \in Row /\ new.status = "PROCESSING_TTS" /\ new.script = q.script
    BY MoveFacts DEF Status
  <2>2. /\ Save(s, new, {})
        /\ Goto(t, "synthesizing", s, Saved(new)) \/ UNCHANGED task
        /\ q.status = "PENDING_TTS"
    BY <1>4 DEF Synthesize
  <2> HIDE DEF new
  <2>3. \E r \in reviews[s] \cup {} :
           r.stage = "script" /\ r.decision = "approve" /\ r.script = new.script
    BY <2>1, <2>2 DEF IInv, RowOK, Gated, HasApproval, Approved
  <2>4. CallOK([pc |-> "synthesizing", story |-> s, held |-> Saved(new)])'
    BY <2>1, <2>2, <2>3, FreshCopy DEF CopiedStatus, PC, HoldingPC
  <2>5. Saved(new) \in Row
    BY <2>1, SavedFacts
  <2> QED
    BY <2>1, <2>2, <2>3, <2>4, <2>5, SaveStep DEF PC, HoldingPC, VoicedStatus
<1> QED
  BY <1>1, <1>2, <1>3, <1>4 DEF StartsCall

-----------------------------------------------------------------------------
(* The theorems *)

\* The invariant holds of an empty database and idle tasks.
LEMMA InitInvariant == Init => IInv
<1> SUFFICES ASSUME Init PROVE IInv
  OBVIOUS
<1>1. TypeOK
  BY AbsentType, IdleCallType DEF Init, TypeOK
<1>2. \A s \in Stories : RowOK(s)
  BY DEF Init, RowOK, ValidArtifacts, Absent, Gated, VoicedStatus, EarlyStatus,
         UnvoicedStatus
<1>3. \A t \in Tasks : CallOK(task[t])
  BY DEF Init, CallOK, IdleCall
<1> QED
  BY <1>1, <1>2, <1>3 DEF IInv

\* Every step of the pipeline, crashes and cancellations included, keeps the
\* invariant.
LEMMA NextInvariant == IInv /\ [Next]_vars => IInv'
<1> SUFFICES ASSUME IInv, [Next]_vars PROVE IInv'
  OBVIOUS
<1>1. CASE UNCHANGED vars
  BY <1>1, StutterKeepsOrder, CallsCarryOn DEF vars, durable
<1>2. ASSUME NEW t \in Tasks, BeginTranslate(t) PROVE IInv'
  <2> PICK s \in Stories, held \in Row :
             task[t].story = s /\ task[t].held = held /\ CallOK(task[t])
    BY <1>2, RunningCall DEF BeginTranslate, At, IInv
  <2> DEFINE call == [pc |-> "translating", story |-> s, held |-> held]
  <2>1. Goto(t, "translating", s, held) /\ UNCHANGED durable /\ task[t].pc = "created"
    BY <1>2 DEF BeginTranslate, At
  <2>2. call \in Call
    BY DEF Call, PC, HoldingPC
  <2>3. CallOK(call)
    BY <2>1 DEF CallOK, CopiedStatus, SynthesisPC
  <2>4. CallOK(call)'
    BY <2>1, <2>2, <2>3, StutterKeepsOrder
  <2> QED
    BY <2>1, <2>4, StutterKeepsOrder, CallsCarryOn DEF PC, HoldingPC
<1>3. ASSUME NEW t \in Tasks, Cancel(t) PROVE IInv'
  <2>1. CASE EndCall(t)
    BY <1>3, <2>1, StutterKeepsOrder, CallsCarryOn DEF Cancel
  <2>2. CASE ~EndCall(t)
    <3>1. task[t].pc \in SynthesisPC
      BY <1>3, <2>2 DEF Cancel, At, SynthesisPC
    <3> PICK s \in Stories, held \in Row :
               task[t].story = s /\ task[t].held = held /\ CallOK(task[t])
      BY <3>1, RunningCall DEF SynthesisPC, IInv
    <3>2. PICK pc \in {"returning", "detached"} : Goto(t, pc, s, held)
      BY <1>3, <2>2 DEF Cancel
    <3> DEFINE call == [pc |-> pc, story |-> s, held |-> held]
    <3>3. call \in Call /\ pc \in PC
      BY DEF Call, PC, HoldingPC
    <3>4. CallOK(call)
      BY <3>1 DEF CallOK, CopiedStatus, SynthesisPC
    <3>5. UNCHANGED durable
      BY <1>3 DEF Cancel
    <3>6. CallOK(call)'
      BY <3>3, <3>4, <3>5, StutterKeepsOrder
    <3> QED
      BY <3>2, <3>3, <3>5, <3>6, StutterKeepsOrder, CallsCarryOn
  <2> QED
    BY <2>1, <2>2
<1>4. CASE Crash
  <2>1. task' \in [Tasks -> Call]
    BY <1>4, IdleCallType DEF Crash
  <2>2. \A t \in Tasks : CallOK(task[t])'
    BY <1>4 DEF Crash, CallOK, IdleCall
  <2> QED
    BY <1>4, <2>1, <2>2, StutterKeepsOrder DEF Crash, IInv, TypeOK
<1> QED
  BY <1>1, <1>2, <1>3, <1>4, ProgressStep, StartsCallStep, ShortCallStep DEF Next

(* In every reachable state rows obey the validators, their gates were opened *)
(* for their present wording, and every call's copy is the present row or     *)
(* out of date with its version.                                              *)
THEOREM Invariance == Spec => []IInv
BY InitInvariant, NextInvariant, PTL DEF Spec

(* Rows, evidence and calls are always of their types.                        *)
THEOREM TypeCorrectness == Spec => []TypeOK
<1>1. IInv => TypeOK
  BY DEF IInv
<1> QED
  BY <1>1, Invariance, PTL

(* No story gets past the script gate, and nothing is spoken, without an      *)
(* approval of its present wording on record: for any number of stories,      *)
(* concurrent calls and revisions.                                            *)
THEOREM ScriptGateHolds == Spec => []ScriptGate
<1>1. IInv => ScriptGate
  BY DEF IInv, RowOK, CallOK, ScriptGate, Gated, SynthesisPC, HasApproval, At
<1> QED
  BY <1>1, Invariance, PTL

(* Stories at or past the final gate have audio of their present wording.     *)
THEOREM AudioIsCurrent == Spec => []AudioSpeaksScript
<1>1. IInv => AudioSpeaksScript
  BY DEF IInv, RowOK, AudioSpeaksScript
<1> QED
  BY <1>1, Invariance, PTL

-----------------------------------------------------------------------------
(* What a step may write *)

Editing == Status \ {"DONE", "ARCHIVED"}

ScriptApprovals(rs) ==
    {r.script : r \in {q \in rs : q.stage = "script" /\ q.decision = "approve"}}

SameArtifacts(old, new) == new.script = old.script /\ new.audio = old.audio

\* What a write can mean to the editors of a story, given the row it replaces,
\* the row it stores and the reviews it records.
Keeps(old, new, rs) ==
    /\ SameArtifacts(old, new)
    /\ ScriptApprovals(rs) = {}
    /\ new.status = old.status \/ (old.status \in Editing /\ new.status \in Editing)

Rewrites(old, new, rs) ==
    /\ new.script.rev = old.script.rev + 1
    /\ new.script.text \in Texts
    /\ new.audio = NoScript
    /\ ScriptApprovals(rs) = {}
    /\ old.status \in Editing /\ new.status \in Editing

Approves(old, new, rs) ==
    /\ SameArtifacts(old, new)
    /\ ScriptApprovals(rs) = {old.script}
    /\ old.status = "SCRIPT_READY" /\ new.status = "PENDING_TTS"

Voices(old, new, rs) ==
    /\ new.script = old.script
    /\ new.audio = old.script
    /\ ScriptApprovals(rs) = {}
    /\ old.status = "PROCESSING_TTS" /\ new.status = "PENDING_SECOND_REVIEW"

Publishes(old, new, rs) ==
    /\ SameArtifacts(old, new)
    /\ rs = Reviewed(old, "second", "approve")
    /\ old.status = "PENDING_SECOND_REVIEW" /\ new.status = "DONE"

Unpublishes(old, new, rs) ==
    /\ SameArtifacts(old, new)
    /\ ScriptApprovals(rs) = {}
    /\ old.status = "DONE" /\ new.status = "PENDING_SECOND_REVIEW"

Withdraws(old, new, rs) ==
    /\ SameArtifacts(old, new)
    /\ ScriptApprovals(rs) = {}
    /\ new.status = "ARCHIVED"

Effect(old, new, rs) ==
    \/ Keeps(old, new, rs) \/ Rewrites(old, new, rs)
    \/ Approves(old, new, rs) \/ Voices(old, new, rs)
    \/ Publishes(old, new, rs) \/ Unpublishes(old, new, rs) \/ Withdraws(old, new, rs)

\* A write of a live story s, with one of these meanings.
Writes(s) ==
    \E new \in Row, rs \in SUBSET Review :
        /\ Save(s, new, rs)
        /\ row[s].status # "ARCHIVED"
        /\ Effect(row[s], new, rs)

\* A new story appears.
Creates(s) ==
    /\ row[s] = Absent
    /\ row' = [row EXCEPT ![s] = [Absent EXCEPT !.status = "FETCHED", !.version = 1]]
    /\ UNCHANGED <<reviews, audit>>

\* Only an approval of a script records one.
LEMMA ReviewedApprovals ==
    ASSUME NEW r \in Row,
           NEW stage \in {"first", "script", "second"},
           NEW decision \in {"approve", "request_changes"}
    PROVE  ScriptApprovals(Reviewed(r, stage, decision)) =
              IF stage = "script" /\ decision = "approve" THEN {r.script} ELSE {}
<1> DEFINE x == [stage |-> stage, decision |-> decision, version |-> r.version, script |-> r.script]
<1>1. x.stage = stage /\ x.decision = decision /\ x.script = r.script
  OBVIOUS
<1> HIDE DEF x
<1>2. Reviewed(r, stage, decision) = {x}
  BY DEF Reviewed, x
<1>3. CASE stage = "script" /\ decision = "approve"
  <2>1. {q \in {x} : q.stage = "script" /\ q.decision = "approve"} = {x}
    BY <1>1, <1>3
  <2> QED
    BY <1>1, <1>2, <1>3, <2>1 DEF ScriptApprovals
<1>4. CASE ~(stage = "script" /\ decision = "approve")
  <2>1. {q \in {x} : q.stage = "script" /\ q.decision = "approve"} = {}
    BY <1>1, <1>4
  <2> QED
    BY <1>2, <1>4, <2>1 DEF ScriptApprovals
<1> QED
  BY <1>3, <1>4

\* A save that records no review approves nothing.
LEMMA NoApprovals == ScriptApprovals({}) = {}
BY DEF ScriptApprovals

\* Only a copy that is the present row is ever written.
LEMMA ProgressWrites ==
    ASSUME IInv, NEW t \in Tasks, Progress(t)
    PROVE  UNCHANGED durable \/ \E s \in Stories : Writes(s)
<1>0. task[t].pc # "idle"
  BY DEF Progress, Translated, QueueFirstReview, TranslationFails, ScriptGenerated,
         ScriptFails, AudioReady, TtsFails, ReturnToPending, At
<1> PICK s \in Stories, held \in Row :
           task[t].story = s /\ task[t].held = held
  BY <1>0, RunningCall
<1>1. /\ held.version = row[s].version => held = row[s] /\ row[s].status # "ARCHIVED"
      /\ held.status = CopiedStatus(task[t].pc)
  BY <1>0, RunningCall DEF CopiedStatus
<1>2. ASSUME NEW new \in Row, Save(s, new, {}), new.version = held.version,
             held = row[s] => Effect(held, new, {})
      PROVE  Writes(s)
  <2>1. held = row[s] /\ row[s].status # "ARCHIVED"
    BY <1>1, <1>2 DEF Save
  <2> QED
    BY <1>2, <2>1 DEF Writes
<1>3. ASSUME NEW r \in Row, StoreFailure(s, r), r.version = held.version,
             SameArtifacts(held, r), held.status \in Editing, r.status \in Editing
      PROVE  UNCHANGED durable \/ Writes(s)
  <2> DEFINE new == [r EXCEPT !.failed = TRUE]
  <2>1. /\ new \in Row /\ new.version = r.version /\ new.status = r.status
        /\ new.script = r.script /\ new.audio = r.audio
    BY DEF Row
  <2>2. UNCHANGED durable \/ Save(s, new, {})
    BY <1>3 DEF StoreFailure
  <2> HIDE DEF new
  <2>3. Effect(held, new, {})
    BY <1>3, <2>1, NoApprovals DEF Effect, Keeps, SameArtifacts
  <2> QED
    BY <1>2, <1>3, <2>1, <2>2, <2>3
<1>4. CASE Translated(t)
  <2> DEFINE moved == Move(held, "TRANSLATED")
             new == [moved EXCEPT !.translated = TRUE]
  <2>1. /\ moved \in Row /\ moved.version = held.version /\ moved.status = "TRANSLATED"
        /\ moved.script = held.script /\ moved.audio = held.audio
    BY MoveFacts DEF Status
  <2>2. /\ new \in Row /\ new.version = held.version /\ new.status = "TRANSLATED"
        /\ new.script = held.script /\ new.audio = held.audio
    BY <2>1 DEF Row
  <2>3. Save(s, new, {})
    BY <1>4 DEF Translated
  <2>4. held.status = "FETCHED"
    BY <1>1, <1>4 DEF Translated, At, CopiedStatus
  <2> HIDE DEF new
  <2>5. Effect(held, new, {})
    BY <2>2, <2>4, NoApprovals DEF Effect, Keeps, SameArtifacts, Editing, Status
  <2> QED
    BY <1>2, <2>2, <2>3, <2>5
<1>5. CASE QueueFirstReview(t)
  <2> DEFINE new == Move(held, "PENDING_FIRST_REVIEW")
  <2>1. /\ new \in Row /\ new.version = held.version /\ new.status = "PENDING_FIRST_REVIEW"
        /\ new.script = held.script /\ new.audio = held.audio
    BY MoveFacts DEF Status
  <2>2. Save(s, new, {})
    BY <1>5 DEF QueueFirstReview
  <2>3. held.status = "TRANSLATED"
    BY <1>1, <1>5 DEF QueueFirstReview, At, CopiedStatus
  <2> HIDE DEF new
  <2>4. Effect(held, new, {})
    BY <2>1, <2>3, NoApprovals DEF Effect, Keeps, SameArtifacts, Editing, Status
  <2> QED
    BY <1>2, <2>1, <2>2, <2>4
<1>6. CASE TranslationFails(t) \/ ScriptFails(t)
  <2>1. held.status \in {"FETCHED", "TRANSLATED", "PROCESSING_SCRIPT"}
    BY <1>1, <1>6 DEF TranslationFails, ScriptFails, At, CopiedStatus
  <2>2. held.status \in Editing
    BY <2>1 DEF Editing, Status
  <2>3. StoreFailure(s, held)
    BY <1>6 DEF TranslationFails, ScriptFails
  <2> QED
    BY <1>3, <2>2, <2>3 DEF SameArtifacts
<1>7. CASE ScriptGenerated(t)
  <2>1. PICK text \in Texts :
           Save(s, [Move(held, "SCRIPT_READY") EXCEPT !.script = [rev |-> 1, text |-> text]], {})
    BY <1>7 DEF ScriptGenerated
  <2> DEFINE moved == Move(held, "SCRIPT_READY")
             new == [moved EXCEPT !.script = [rev |-> 1, text |-> text]]
  <2>2. /\ moved \in Row /\ moved.version = held.version /\ moved.status = "SCRIPT_READY"
        /\ moved.audio = held.audio
    BY MoveFacts DEF Status
  <2>3. /\ new \in Row /\ new.version = held.version /\ new.status = "SCRIPT_READY"
        /\ new.script.rev = 1 /\ new.script.text = text /\ new.audio = held.audio
    BY <2>2 DEF Row, Script
  <2>4. Save(s, new, {})
    BY <2>1
  <2>5. held.status = "PROCESSING_SCRIPT"
    BY <1>1, <1>7 DEF ScriptGenerated, At, CopiedStatus
  <2> HIDE DEF new
  <2>6. held = row[s] => held.script = NoScript /\ held.audio = NoScript
    BY <2>5 DEF IInv, RowOK, ValidArtifacts, EarlyStatus
  <2>7. held = row[s] => Effect(held, new, {})
    BY <2>3, <2>5, <2>6, NoApprovals DEF Effect, Rewrites, Editing, Status, NoScript
  <2> QED
    BY <1>2, <2>3, <2>4, <2>7
<1>8. CASE AudioReady(t)
  <2> DEFINE moved == Move(held, "PENDING_SECOND_REVIEW")
             new == [moved EXCEPT !.audio = held.script]
  <2>1. /\ moved \in Row /\ moved.version = held.version /\ moved.script = held.script
        /\ moved.status = "PENDING_SECOND_REVIEW"
    BY MoveFacts DEF Status
  <2>2. /\ new \in Row /\ new.version = held.version /\ new.script = held.script
        /\ new.status = "PENDING_SECOND_REVIEW" /\ new.audio = held.script
    BY <2>1 DEF Row
  <2>3. Save(s, new, {})
    BY <1>8 DEF AudioReady
  <2>4. held.status = "PROCESSING_TTS"
    BY <1>1, <1>8 DEF AudioReady, At, CopiedStatus
  <2> HIDE DEF new
  <2>5. Effect(held, new, {})
    BY <2>2, <2>4, NoApprovals DEF Effect, Voices
  <2> QED
    BY <1>2, <2>2, <2>3, <2>5
<1>9. CASE TtsFails(t) \/ ReturnToPending(t)
  <2> DEFINE r == Move(held, "PENDING_TTS")
  <2>1. /\ r \in Row /\ r.version = held.version /\ r.status = "PENDING_TTS"
        /\ SameArtifacts(held, r)
    BY MoveFacts DEF Status, SameArtifacts
  <2>2. StoreFailure(s, r)
    BY <1>9 DEF TtsFails, ReturnToPending
  <2>3. held.status = "PROCESSING_TTS"
    BY <1>1, <1>9 DEF TtsFails, ReturnToPending, At, CopiedStatus
  <2> HIDE DEF r
  <2>4. held.status \in Editing /\ r.status \in Editing
    BY <2>1, <2>3 DEF Editing, Status
  <2> QED
    BY <1>3, <2>1, <2>2, <2>4
<1> QED
  BY <1>4, <1>5, <1>6, <1>7, <1>8, <1>9 DEF Progress

\* A request changes only its own story, and builds on the row it read.
LEMMA RequestWrites ==
    ASSUME IInv, NEW s \in Stories,
           ShortCall(s) \/ \E t \in Tasks : StartsCall(t, s) /\ ~Create(t, s)
    PROVE  UNCHANGED durable \/ Writes(s)
<1> PICK q \in Row : q = row[s]
  BY DEF IInv, TypeOK
<1>1. \A to \in Status : /\ Move(q, to) \in Row
                         /\ Move(q, to).status = to
                         /\ SameArtifacts(q, Move(q, to))
  BY MoveFacts DEF SameArtifacts
<1>2. \A text \in Texts : /\ Revise(q, text) \in Row
                          /\ Revise(q, text).status = q.status
                          /\ Revise(q, text).script.rev = q.script.rev + 1
                          /\ Revise(q, text).script.text = text
                          /\ Revise(q, text).audio = NoScript
  <2> TAKE text \in Texts
  <2>1. /\ Revise(q, text) \in Row
        /\ Revise(q, text).status = q.status
        /\ Revise(q, text).script = [rev |-> q.script.rev + 1, text |-> text]
        /\ Revise(q, text).audio = NoScript
    BY ReviseFacts
  <2> QED
    BY <2>1
<1>3. ASSUME NEW to \in Status, NEW rs \in SUBSET Review, Save(s, Move(q, to), rs),
             q.status # "ARCHIVED", Effect(q, Move(q, to), rs)
      PROVE  Writes(s)
  BY <1>1, <1>3 DEF Writes
<1>4. ASSUME NEW rs \in SUBSET Review, Save(s, q, rs), q.status # "ARCHIVED",
             ScriptApprovals(rs) = {}
      PROVE  Writes(s)
  BY <1>4 DEF Writes, Effect, Keeps, SameArtifacts
<1>5. CASE FirstReviewChanges(s) \/ Update(s)
  <2>1. CASE FirstReviewChanges(s)
    BY <1>4, <2>1, ReviewedType, ReviewedApprovals DEF FirstReviewChanges
  <2>2. CASE Update(s)
    BY <1>4, <2>2, NoApprovals DEF Update
  <2> QED
    BY <1>5, <2>1, <2>2
<1>6. CASE ScriptReviewChanges(s)
  <2>1. PICK new \in {q} \cup {Revise(q, text) : text \in Texts} :
           Save(s, new, Reviewed(new, "script", "request_changes"))
    BY <1>6 DEF ScriptReviewChanges
  <2> DEFINE rs == Reviewed(new, "script", "request_changes")
  <2>2. new \in Row
    BY <1>2, <2>1
  <2>3. rs \in SUBSET Review /\ ScriptApprovals(rs) = {}
    BY <2>2, ReviewedType, ReviewedApprovals
  <2>4. q.status = "SCRIPT_READY"
    BY <1>6 DEF ScriptReviewChanges
  <2> HIDE DEF rs
  <2>5. Effect(q, new, rs)
    <3>1. CASE new = q
      BY <2>3, <3>1 DEF Effect, Keeps, SameArtifacts
    <3>2. CASE \E text \in Texts : new = Revise(q, text)
      BY <1>2, <2>3, <2>4, <3>2 DEF Effect, Rewrites, Editing, Status
    <3> QED
      BY <2>1, <3>1, <3>2
  <2> QED
    BY <2>1, <2>2, <2>3, <2>4, <2>5 DEF Writes, rs
<1>7. CASE ScriptReviewApproves(s)
  <2> DEFINE rs == Reviewed(q, "script", "approve")
  <2>1. rs \in SUBSET Review /\ ScriptApprovals(rs) = {q.script}
    BY ReviewedType, ReviewedApprovals
  <2>2. q.status = "SCRIPT_READY" /\ Save(s, Move(q, "PENDING_TTS"), rs)
    BY <1>7 DEF ScriptReviewApproves
  <2> HIDE DEF rs
  <2> QED
    BY <1>1, <1>3, <2>1, <2>2 DEF Effect, Approves, Status
<1>8. CASE SecondReviewChanges(s)
  <2>0. q.status = "PENDING_SECOND_REVIEW"
    BY <1>8 DEF SecondReviewChanges
  <2>1. CASE Save(s, q, Reviewed(q, "second", "request_changes"))
    BY <1>4, <2>0, <2>1, ReviewedType, ReviewedApprovals
  <2>2. ASSUME NEW text \in Texts,
               Save(s, Move(Revise(q, text), "SCRIPT_READY"),
                    Reviewed(Revise(q, text), "second", "request_changes"))
        PROVE  Writes(s)
    <3> DEFINE revised == Revise(q, text)
               new == Move(revised, "SCRIPT_READY")
               rs == Reviewed(revised, "second", "request_changes")
    <3>1. /\ revised \in Row
          /\ revised.script.rev = q.script.rev + 1
          /\ revised.script.text = text
          /\ revised.audio = NoScript
      BY <1>2
    <3>2. rs \in SUBSET Review /\ ScriptApprovals(rs) = {}
      BY <3>1, ReviewedType, ReviewedApprovals
    <3> HIDE DEF revised
    <3>3. /\ new \in Row /\ new.status = "SCRIPT_READY"
          /\ new.script = revised.script /\ new.audio = revised.audio
      BY <3>1, MoveFacts DEF Status
    <3>4. Save(s, new, rs)
      BY <2>2 DEF revised
    <3> HIDE DEF new, rs
    <3>5. Effect(q, new, rs)
      BY <2>0, <3>1, <3>2, <3>3 DEF Effect, Rewrites, Editing, Status
    <3> QED
      BY <2>0, <3>2, <3>3, <3>4, <3>5 DEF Writes
  <2> QED
    BY <1>8, <2>1, <2>2 DEF SecondReviewChanges
<1>9. CASE SecondReviewApproves(s)
  <2>1. /\ q.status = "PENDING_SECOND_REVIEW"
        /\ Save(s, Move(q, "DONE"), Reviewed(q, "second", "approve"))
    BY <1>9 DEF SecondReviewApproves
  <2>2. Effect(q, Move(q, "DONE"), Reviewed(q, "second", "approve"))
    BY <1>1, <2>1 DEF Effect, Publishes, Status
  <2> QED
    BY <1>3, <2>1, <2>2, ReviewedType DEF Status
<1>10. CASE Archive(s)
  BY <1>1, <1>3, <1>10, NoApprovals DEF Archive, Effect, Withdraws, Status
<1>11. CASE Reopen(s)
  BY <1>1, <1>3, <1>11, NoApprovals DEF Reopen, Effect, Unpublishes, Status
<1>12. ASSUME NEW from \in Editing, NEW to \in Editing, NEW rs \in SUBSET Review,
              q.status = from, Save(s, Move(q, to), rs), ScriptApprovals(rs) = {}
       PROVE  Writes(s)
  BY <1>1, <1>3, <1>12 DEF Effect, Keeps, Editing
<1>13. ASSUME NEW t \in Tasks, Resume(t, s) \/ FirstReviewApproves(t, s) \/ Synthesize(t, s)
       PROVE  UNCHANGED durable \/ Writes(s)
  <2>1. CASE Resume(t, s)
    BY <1>12, <2>1, NoApprovals DEF Resume, Editing, Status
  <2>2. CASE FirstReviewApproves(t, s)
    BY <1>12, <2>2, ReviewedType, ReviewedApprovals DEF FirstReviewApproves, Editing, Status
  <2>3. CASE Synthesize(t, s)
    BY <1>12, <2>3, NoApprovals DEF Synthesize, Editing, Status
  <2> QED
    BY <1>13, <2>1, <2>2, <2>3
<1> QED
  BY <1>5, <1>6, <1>7, <1>8, <1>9, <1>10, <1>11, <1>13 DEF ShortCall, StartsCall

\* Every step leaves the durable state alone, creates one story or writes one.
LEMMA StepKinds ==
    ASSUME IInv, [Next]_vars
    PROVE  UNCHANGED durable \/ \E s \in Stories : Creates(s) \/ Writes(s)
<1>1. CASE UNCHANGED vars
  BY <1>1 DEF vars, durable
<1>2. CASE Crash \/ \E t \in Tasks : BeginTranslate(t) \/ Cancel(t)
  BY <1>2 DEF Crash, BeginTranslate, Cancel
<1>3. CASE \E t \in Tasks : Progress(t)
  BY <1>3, ProgressWrites
<1>4. ASSUME NEW t \in Tasks, NEW z \in Stories, StartsCall(t, z)
      PROVE  UNCHANGED durable \/ Creates(z) \/ Writes(z)
  <2>1. CASE Create(t, z)
    BY <2>1 DEF Create, Creates
  <2>2. CASE ~Create(t, z)
    BY <1>4, <2>2, RequestWrites
  <2> QED
    BY <2>1, <2>2
<1>5. ASSUME NEW z \in Stories, ShortCall(z)
      PROVE  UNCHANGED durable \/ Writes(z)
  BY <1>5, RequestWrites
<1> QED
  BY <1>1, <1>2, <1>3, <1>4, <1>5 DEF Next

\* What every step does to every story.
LEMMA StepWrites ==
    ASSUME IInv, [Next]_vars, NEW s \in Stories
    PROVE  \/ row'[s] = row[s] /\ reviews'[s] = reviews[s] /\ audit'[s] = audit[s]
           \/ Creates(s)
           \/ Writes(s)
<1>1. ASSUME NEW z \in Stories, Creates(z) \/ Writes(z)
      PROVE  \/ row'[s] = row[s] /\ reviews'[s] = reviews[s] /\ audit'[s] = audit[s]
             \/ Creates(s)
             \/ Writes(s)
  BY <1>1 DEF Creates, Writes, Save, IInv, TypeOK
<1>2. UNCHANGED durable => row'[s] = row[s] /\ reviews'[s] = reviews[s] /\ audit'[s] = audit[s]
  BY DEF durable
<1> QED
  BY <1>1, <1>2, StepKinds

\* What a new story looks like.
LEMMA CreatesFacts ==
    ASSUME IInv, NEW s \in Stories, Creates(s)
    PROVE  /\ row[s] = Absent
           /\ row'[s].status = "FETCHED" /\ row'[s].version = 1
           /\ row'[s].script = NoScript /\ row'[s].audio = NoScript
           /\ reviews'[s] = reviews[s] /\ audit'[s] = audit[s]
BY DEF Creates, Absent, IInv, TypeOK

\* What a write of a story stores.
LEMMA WritesFacts ==
    ASSUME IInv, NEW s \in Stories, Writes(s)
    PROVE  \E new \in Row, rs \in SUBSET Review :
              /\ Save(s, new, rs)
              /\ Effect(row[s], new, rs)
              /\ row[s].status # "ARCHIVED"
              /\ new.version = row[s].version
              /\ row'[s].status = new.status /\ row'[s].version = new.version + 1
              /\ row'[s].script = new.script /\ row'[s].audio = new.audio
              /\ reviews'[s] = reviews[s] \cup rs
<1>1. PICK new \in Row, rs \in SUBSET Review :
         Save(s, new, rs) /\ Effect(row[s], new, rs) /\ row[s].status # "ARCHIVED"
  BY DEF Writes
<1>2. /\ new.version = row[s].version
      /\ row'[s] = Saved(new)
      /\ reviews'[s] = reviews[s] \cup rs
  BY <1>1 DEF Save, IInv, TypeOK
<1> QED
  BY <1>1, <1>2, SavedFacts

-----------------------------------------------------------------------------
(* What a step may never do *)

(* A revision names one wording for ever.                                     *)
THEOREM RevisionsAreFaithful == Spec => RevisionNamesWording
<1> DEFINE Step == \A s \in Stories :
                      /\ row'[s].script.rev >= row[s].script.rev
                      /\ row'[s].script.rev = row[s].script.rev => row'[s].script = row[s].script
<1>1. IInv /\ [Next]_vars => Step
  <2> SUFFICES ASSUME IInv, [Next]_vars, NEW s \in Stories
               PROVE  /\ row'[s].script.rev >= row[s].script.rev
                      /\ row'[s].script.rev = row[s].script.rev => row'[s].script = row[s].script
    OBVIOUS
  <2>1. row[s].script.rev \in Nat
    BY DEF IInv, TypeOK, Row, Script
  <2>2. CASE Writes(s)
    <3>1. PICK new \in Row, rs \in SUBSET Review :
             Effect(row[s], new, rs) /\ row'[s].script = new.script
      BY <2>2, WritesFacts
    <3> QED
      BY <2>1, <3>1 DEF Effect, SameArtifacts, Keeps, Rewrites, Approves, Voices,
                        Publishes, Unpublishes, Withdraws
  <2>3. CASE Creates(s)
    BY <2>1, <2>3, CreatesFacts DEF Absent
  <2>4. CASE row'[s] = row[s]
    BY <2>1, <2>4
  <2> QED
    BY <2>2, <2>3, <2>4, StepWrites
<1> QED
  BY <1>1, Invariance, PTL DEF Spec, RevisionNamesWording

(* Nothing writes to an archived story, whatever copies of it calls still     *)
(* hold.                                                                      *)
THEOREM ArchivingIsFinal == Spec => ArchivedIsFinal
<1> DEFINE Step == \A s \in Stories :
                      row[s].status = "ARCHIVED" =>
                          row'[s] = row[s] /\ reviews'[s] = reviews[s] /\ audit'[s] = audit[s]
<1>1. IInv /\ [Next]_vars => Step
  BY StepWrites, CreatesFacts DEF Writes, Absent
<1> QED
  BY <1>1, Invariance, PTL DEF Spec, ArchivedIsFinal

-----------------------------------------------------------------------------
(* The history of a story *)

\* The rest of the history goes by these: audit rows are no newer than their
\* story, and a story that has not moved yet has none.
HistoryOK(s) ==
    /\ \A a \in audit[s] : a.version <= row[s].version
    /\ row[s].status \in {"ABSENT", "FETCHED"} => audit[s] = {}

\* AuditIsHistory and FinalGate of one story.
Chained(s) ==
    /\ \A a \in audit[s] :
          LET before == {b \in audit[s] : b.version < a.version}
          IN  IF before = {} THEN a.from = "FETCHED"
              ELSE \E b \in before :
                      /\ \A c \in before : c.version <= b.version
                      /\ b.to = a.from
    /\ row[s].status \notin {"ABSENT", "FETCHED"} =>
          \E a \in audit[s] :
             /\ \A b \in audit[s] : b.version <= a.version
             /\ a.to = row[s].status

FinallyApproved(s) ==
    row[s].status = "DONE" =>
        \E r \in Approved(s, "second", row[s].script) :
            \A a \in audit[s] :
                a.to = "PENDING_SECOND_REVIEW" => a.version <= r.version

HInv ==
    /\ IInv
    /\ \A s \in Stories : HistoryOK(s) /\ Chained(s) /\ FinallyApproved(s)

\* A write that keeps the status adds nothing to the history, and one that
\* changes it adds one entry that is newer than all others.
LEMMA WritesHistory ==
    ASSUME HInv, NEW s \in Stories, NEW new \in Row, NEW rs \in SUBSET Review,
           Save(s, new, rs)
    PROVE  /\ new.status = row[s].status => audit'[s] = audit[s]
           /\ new.status # row[s].status =>
                 \E e \in AuditRow :
                    /\ audit'[s] = audit[s] \cup {e}
                    /\ e.from = row[s].status /\ e.to = new.status
                    /\ e.version = row[s].version + 1
                    /\ \A a \in audit[s] : a.version < e.version
                    /\ row[s].status # "ABSENT" /\ new.status \notin {"ABSENT", "FETCHED"}
<1>1. audit \in [Stories -> SUBSET AuditRow] /\ row \in [Stories -> Row]
  BY DEF HInv, IInv, TypeOK
<1>2. new.status = row[s].status => audit'[s] = audit[s]
  BY DEF Save
<1>3. ASSUME new.status # row[s].status
      PROVE  \E e \in AuditRow :
                /\ audit'[s] = audit[s] \cup {e}
                /\ e.from = row[s].status /\ e.to = new.status
                /\ e.version = row[s].version + 1
                /\ \A a \in audit[s] : a.version < e.version
                /\ row[s].status # "ABSENT" /\ new.status \notin {"ABSENT", "FETCHED"}
  <2> DEFINE e == [from |-> row[s].status, to |-> new.status, version |-> new.version + 1]
  <2>1. <<row[s].status, new.status>> \in Transitions
    BY <1>3 DEF Save, Evidence
  <2>2. row[s].status \in Status /\ new.status \in Status \ {"FETCHED"}
    BY <2>1 DEF Transitions, Status
  <2>3. new.version = row[s].version /\ new.version \in Nat
    BY DEF Save, Row
  <2>4. e \in AuditRow
    BY <2>2, <2>3 DEF AuditRow
  <2>5. audit'[s] = audit[s] \cup {e}
    BY <1>1, <1>3 DEF Save
  <2>6. \A a \in audit[s] : a.version \in Nat /\ a.version <= row[s].version
    BY <1>1 DEF HInv, HistoryOK, AuditRow
  <2>7. e.from = row[s].status /\ e.to = new.status /\ e.version = row[s].version + 1
    BY <2>3
  <2> HIDE DEF e
  <2>8. \A a \in audit[s] : a.version < e.version
    BY <2>3, <2>6, <2>7
  <2> QED
    BY <2>2, <2>4, <2>5, <2>7, <2>8 DEF Status
<1> QED
  BY <1>2, <1>3

\* A write keeps the history of its story whole.
LEMMA WriteKeepsHistory ==
    ASSUME HInv, NEW s \in Stories, Writes(s)
    PROVE  HistoryOK(s)' /\ Chained(s)' /\ FinallyApproved(s)'
<1>1. PICK new \in Row, rs \in SUBSET Review :
         /\ Save(s, new, rs)
         /\ Effect(row[s], new, rs)
         /\ new.version = row[s].version
         /\ row'[s].status = new.status /\ row'[s].version = new.version + 1
         /\ row'[s].script = new.script
         /\ reviews'[s] = reviews[s] \cup rs
  BY WritesFacts DEF HInv
<1>2. /\ row[s].version \in Nat
      /\ \A a \in audit[s] : a.version \in Nat
  BY DEF HInv, IInv, TypeOK, Row, AuditRow
<1>3. HistoryOK(s) /\ Chained(s) /\ FinallyApproved(s)
  BY DEF HInv
<1>4. CASE new.status = row[s].status
  <2>1. audit'[s] = audit[s]
    BY <1>1, <1>4, WritesHistory
  <2>2. HistoryOK(s)'
    BY <1>1, <1>2, <1>3, <1>4, <2>1 DEF HistoryOK
  <2>3. Chained(s)'
    BY <1>1, <1>3, <1>4, <2>1 DEF Chained
  <2>4. new.status = "DONE" => new.script = row[s].script
    BY <1>1, <1>4 DEF Effect, SameArtifacts, Keeps, Rewrites, Approves, Voices,
                      Publishes, Unpublishes, Withdraws, Editing
  <2>5. FinallyApproved(s)'
    BY <1>1, <1>3, <1>4, <2>1, <2>4 DEF FinallyApproved, Approved
  <2> QED
    BY <2>2, <2>3, <2>5
<1>5. CASE new.status # row[s].status
  <2>1. PICK e \in AuditRow :
           /\ audit'[s] = audit[s] \cup {e}
           /\ e.from = row[s].status /\ e.to = new.status
           /\ e.version = row[s].version + 1
           /\ \A a \in audit[s] : a.version < e.version
           /\ row[s].status # "ABSENT" /\ new.status \notin {"ABSENT", "FETCHED"}
    BY <1>1, <1>5, WritesHistory
  <2>2. HistoryOK(s)'
    BY <1>1, <1>2, <1>3, <2>1 DEF HistoryOK
  <2>3. Chained(s)'
    <3>1. ASSUME NEW a \in audit[s]
          PROVE  {b \in audit'[s] : b.version < a.version} = {b \in audit[s] : b.version < a.version}
      <4>1. ~(e.version < a.version)
        BY <1>2, <2>1
      <4> QED
        BY <2>1, <4>1
    <3>2. {b \in audit'[s] : b.version < e.version} = audit[s]
      BY <1>2, <2>1
    <3>3. IF audit[s] = {} THEN e.from = "FETCHED"
          ELSE \E b \in audit[s] :
                  (\A c \in audit[s] : c.version <= b.version) /\ b.to = e.from
      BY <1>3, <2>1 DEF HistoryOK, Chained
    <3>4. \A b \in audit'[s] : b.version <= e.version
      BY <1>2, <2>1
    <3> QED
      BY <1>1, <1>3, <2>1, <3>1, <3>2, <3>3, <3>4 DEF Chained
  <2>4. FinallyApproved(s)'
    <3> SUFFICES ASSUME new.status = "DONE" PROVE FinallyApproved(s)'
      BY <1>1 DEF FinallyApproved
    <3>1. new.script = row[s].script /\ rs = Reviewed(row[s], "second", "approve")
      BY <1>1, <1>5 DEF Effect, SameArtifacts, Keeps, Rewrites, Approves, Voices,
                        Publishes, Unpublishes, Withdraws, Editing
    <3> DEFINE r == [stage |-> "second", decision |-> "approve",
                     version |-> row[s].version, script |-> row[s].script]
    <3>2. r \in reviews'[s]
      BY <1>1, <3>1 DEF Reviewed
    <3>3. r \in Approved(s, "second", row[s].script)'
      BY <1>1, <3>1, <3>2 DEF Approved
    <3>4. \A a \in audit'[s] : a.to = "PENDING_SECOND_REVIEW" => a.version <= r.version
      BY <1>3, <2>1 DEF HistoryOK
    <3> QED
      BY <3>3, <3>4 DEF FinallyApproved
  <2> QED
    BY <2>2, <2>3, <2>4
<1> QED
  BY <1>4, <1>5

\* History, like the invariant it rests on, survives every step.
LEMMA HistoryInvariant == Spec => []HInv
<1>1. Init => HInv
  BY InitInvariant DEF Init, HInv, HistoryOK, Chained, FinallyApproved, Absent
<1>2. HInv /\ [Next]_vars => HInv'
  <2> SUFFICES ASSUME HInv, [Next]_vars PROVE HInv'
    OBVIOUS
  <2>1. IInv'
    BY NextInvariant DEF HInv
  <2>2. ASSUME NEW s \in Stories
        PROVE  HistoryOK(s)' /\ Chained(s)' /\ FinallyApproved(s)'
    <3>1. CASE row'[s] = row[s] /\ reviews'[s] = reviews[s] /\ audit'[s] = audit[s]
      BY <3>1 DEF HInv, HistoryOK, Chained, FinallyApproved, Approved
    <3>2. CASE Creates(s)
      BY <3>2, CreatesFacts DEF HInv, HistoryOK, Chained, FinallyApproved, Absent
    <3>3. CASE Writes(s)
      BY <3>3, WriteKeepsHistory
    <3> QED
      BY <3>1, <3>2, <3>3, StepWrites DEF HInv
  <2> QED
    BY <2>1, <2>2 DEF HInv
<1> QED
  BY <1>1, <1>2, PTL DEF Spec

(* The audit rows of a story are one unbroken history of its status.          *)
THEOREM AuditIsHistoryAlways == Spec => []AuditIsHistory
<1>1. HInv => AuditIsHistory
  BY DEF HInv, Chained, AuditIsHistory
<1> QED
  BY <1>1, HistoryInvariant, PTL

(* A finished story was approved in its present wording after it last entered *)
(* its final review.                                                          *)
THEOREM FinalGateHolds == Spec => []FinalGate
<1>1. HInv => FinalGate
  BY DEF HInv, FinallyApproved, FinalGate
<1> QED
  BY <1>1, HistoryInvariant, PTL

-----------------------------------------------------------------------------
(* The workflow implements StoryPublication *)

\* What the editors see of the stories: the refinement mapping of Publication.
StageOf(status) ==
    CASE status = "DONE" -> "published"
      [] status = "ARCHIVED" -> "withdrawn"
      [] OTHER -> "editing"

SeenScript == [s \in Stories |-> row[s].script]
SeenAudio == [s \in Stories |-> row[s].audio]
SeenApproved == [s \in Stories |-> ScriptApprovals(reviews[s])]
SeenStage == [s \in Stories |-> StageOf(row[s].status)]
Seen == <<SeenScript, SeenAudio, SeenApproved, SeenStage>>

\* A write of a story shows in that story only, field by field.
LEMMA WriteIsSeen ==
    ASSUME IInv, NEW s \in Stories, NEW new \in Row, NEW rs \in SUBSET Review,
           Save(s, new, rs)
    PROVE  /\ SeenScript' = [SeenScript EXCEPT ![s] = new.script]
           /\ SeenAudio' = [SeenAudio EXCEPT ![s] = new.audio]
           /\ SeenApproved' = [SeenApproved EXCEPT ![s] = @ \cup ScriptApprovals(rs)]
           /\ SeenStage' = [SeenStage EXCEPT ![s] = StageOf(new.status)]
<1>1. /\ row'[s].script = new.script /\ row'[s].audio = new.audio
      /\ row'[s].status = new.status
      /\ reviews'[s] = reviews[s] \cup rs
  BY SavedFacts DEF Save, IInv, TypeOK
<1>2. \A z \in Stories \ {s} : row'[z] = row[z] /\ reviews'[z] = reviews[z]
  BY DEF Save, IInv, TypeOK
<1>3. ScriptApprovals(reviews[s] \cup rs) = ScriptApprovals(reviews[s]) \cup ScriptApprovals(rs)
  BY DEF ScriptApprovals
<1>4. SeenScript' = [SeenScript EXCEPT ![s] = new.script]
  BY <1>1, <1>2 DEF SeenScript
<1>5. SeenAudio' = [SeenAudio EXCEPT ![s] = new.audio]
  BY <1>1, <1>2 DEF SeenAudio
<1>6. SeenApproved' = [SeenApproved EXCEPT ![s] = @ \cup ScriptApprovals(rs)]
  BY <1>1, <1>2, <1>3 DEF SeenApproved
<1>7. SeenStage' = [SeenStage EXCEPT ![s] = StageOf(new.status)]
  BY <1>1, <1>2 DEF SeenStage
<1> QED
  BY <1>4, <1>5, <1>6, <1>7

\* Every write is one step of the publication, or none.
LEMMA WriteRefines ==
    ASSUME IInv, NEW s \in Stories, Writes(s)
    PROVE  Publication!Next \/ UNCHANGED Seen
<1>0. /\ SeenScript = [z \in Stories |-> SeenScript[z]]
      /\ SeenAudio = [z \in Stories |-> SeenAudio[z]]
      /\ SeenApproved = [z \in Stories |-> SeenApproved[z]]
      /\ SeenStage = [z \in Stories |-> SeenStage[z]]
  BY DEF SeenScript, SeenAudio, SeenApproved, SeenStage
<1>1. PICK new \in Row, rs \in SUBSET Review :
         /\ Save(s, new, rs)
         /\ Effect(row[s], new, rs)
         /\ row[s].status # "ARCHIVED"
  BY DEF Writes
<1> PICK old \in Row : old = row[s]
  BY DEF IInv, TypeOK
<1>2. /\ SeenScript' = [SeenScript EXCEPT ![s] = new.script]
      /\ SeenAudio' = [SeenAudio EXCEPT ![s] = new.audio]
      /\ SeenApproved' = [SeenApproved EXCEPT ![s] = @ \cup ScriptApprovals(rs)]
      /\ SeenStage' = [SeenStage EXCEPT ![s] = StageOf(new.status)]
  BY <1>1, WriteIsSeen
<1>3. /\ SeenScript[s] = old.script /\ SeenAudio[s] = old.audio
      /\ SeenApproved[s] = ScriptApprovals(reviews[s])
      /\ SeenStage[s] = StageOf(old.status)
  BY DEF SeenScript, SeenAudio, SeenApproved, SeenStage
<1>4. RowOK(s)
  BY DEF IInv
<1>5. /\ new.script = old.script => UNCHANGED SeenScript
      /\ new.audio = old.audio => UNCHANGED SeenAudio
      /\ ScriptApprovals(rs) = {} => UNCHANGED SeenApproved
      /\ StageOf(new.status) = StageOf(old.status) => UNCHANGED SeenStage
  BY <1>0, <1>2, <1>3
<1>6. CASE Keeps(old, new, rs)
  <2>1. StageOf(new.status) = StageOf(old.status)
    BY <1>6 DEF Keeps, StageOf, Editing
  <2> QED
    BY <1>5, <1>6, <2>1 DEF Keeps, SameArtifacts, Seen
<1>7. CASE Rewrites(old, new, rs)
  <2>1. StageOf(old.status) = "editing" /\ StageOf(new.status) = "editing"
    BY <1>7 DEF Rewrites, StageOf, Editing
  <2>2. new.script = [rev |-> old.script.rev + 1, text |-> new.script.text]
    BY <1>7 DEF Rewrites, Row, Script
  <2>3. Publication!Write(s)
    BY <1>2, <1>3, <1>5, <1>7, <2>1, <2>2 DEF Rewrites, Publication!Write, Publication!Nothing, NoScript,
       SeenScript, SeenAudio, SeenApproved, SeenStage, ScriptApprovals, StageOf
  <2> QED
    BY <2>3 DEF Publication!Next
<1>8. CASE Approves(old, new, rs)
  <2>1. StageOf(old.status) = "editing" /\ StageOf(new.status) = "editing"
    BY <1>8 DEF Approves, StageOf
  <2>2. old.script # NoScript
    BY <1>4, <1>8 DEF Approves, RowOK, ValidArtifacts, UnvoicedStatus
  <2>3. Publication!Approve(s)
    BY <1>2, <1>3, <1>5, <1>8, <2>1, <2>2 DEF Approves, SameArtifacts, Publication!Approve, Publication!Nothing, NoScript,
       SeenScript, SeenAudio, SeenApproved, SeenStage, ScriptApprovals, StageOf
  <2> QED
    BY <2>3 DEF Publication!Next
<1>9. CASE Voices(old, new, rs)
  <2>1. StageOf(old.status) = "editing" /\ StageOf(new.status) = "editing"
    BY <1>9 DEF Voices, StageOf
  <2>2. old.script \in ScriptApprovals(reviews[s])
    BY <1>4, <1>9 DEF Voices, RowOK, Gated, HasApproval, Approved, ScriptApprovals
  <2>3. Publication!Voice(s)
    BY <1>2, <1>3, <1>5, <1>9, <2>1, <2>2 DEF Voices, Publication!Voice,
       SeenScript, SeenAudio, SeenApproved, SeenStage, ScriptApprovals, StageOf
  <2> QED
    BY <2>3 DEF Publication!Next
<1>10. CASE Publishes(old, new, rs)
  <2>1. StageOf(old.status) = "editing" /\ StageOf(new.status) = "published"
    BY <1>10 DEF Publishes, StageOf
  <2>2. old.script # NoScript /\ old.audio = old.script
    BY <1>4, <1>10 DEF Publishes, RowOK, ValidArtifacts, VoicedStatus
  <2>3. ScriptApprovals(rs) = {}
    BY <1>10, ReviewedApprovals DEF Publishes
  <2>4. Publication!Publish(s)
    BY <1>2, <1>3, <1>5, <1>10, <2>1, <2>2, <2>3 DEF Publishes, SameArtifacts,
       Publication!Publish, Publication!Nothing, NoScript,
       SeenScript, SeenAudio, SeenApproved, SeenStage, ScriptApprovals, StageOf
  <2> QED
    BY <2>4 DEF Publication!Next
<1>11. CASE Unpublishes(old, new, rs)
  <2>1. StageOf(old.status) = "published" /\ StageOf(new.status) = "editing"
    BY <1>11 DEF Unpublishes, StageOf
  <2>2. Publication!Unpublish(s)
    BY <1>2, <1>3, <1>5, <1>11, <2>1 DEF Unpublishes, SameArtifacts, Publication!Unpublish,
       SeenScript, SeenAudio, SeenApproved, SeenStage, ScriptApprovals, StageOf
  <2> QED
    BY <2>2 DEF Publication!Next
<1>12. CASE Withdraws(old, new, rs)
  <2>1. StageOf(old.status) # "withdrawn" /\ StageOf(new.status) = "withdrawn"
    BY <1>1, <1>12 DEF Withdraws, StageOf
  <2>2. Publication!Withdraw(s)
    BY <1>2, <1>3, <1>5, <1>12, <2>1 DEF Withdraws, SameArtifacts, Publication!Withdraw,
       SeenScript, SeenAudio, SeenApproved, SeenStage, ScriptApprovals, StageOf
  <2> QED
    BY <2>2 DEF Publication!Next
<1> QED
  BY <1>1, <1>6, <1>7, <1>8, <1>9, <1>10, <1>11, <1>12 DEF Effect

\* A story that appears is still nothing to its editors.
LEMMA CreateRefines ==
    ASSUME IInv, NEW s \in Stories, Creates(s)
    PROVE  UNCHANGED Seen
<1>1. /\ row'[s].script = row[s].script /\ row'[s].audio = row[s].audio
      /\ StageOf(row'[s].status) = StageOf(row[s].status)
  BY CreatesFacts DEF Absent, StageOf
<1>2. \A z \in Stories \ {s} : row'[z] = row[z]
  BY DEF Creates, IInv, TypeOK
<1>3. UNCHANGED reviews
  BY DEF Creates
<1> QED
  BY <1>1, <1>2, <1>3 DEF Seen, SeenScript, SeenAudio, SeenApproved, SeenStage

(* The workflow, with its statuses, locks, versions, cancellations and        *)
(* crashes, implements what StoryPublication promises: every step writes,     *)
(* approves, voices, publishes, reopens or withdraws one story by its rules,  *)
(* or shows the editors nothing.                                              *)
THEOREM WorkflowKeepsPromise == Spec => KeepsPromise
<1>1. Init => Publication!Init
  BY DEF Init, Absent, NoScript, Publication!Init, Publication!Nothing
<1>2. IInv /\ [Next]_vars => [Publication!Next]_(Publication!publication)
  <2> SUFFICES ASSUME IInv, [Next]_vars
               PROVE  Publication!Next \/ UNCHANGED Publication!publication
    OBVIOUS
  <2>1. UNCHANGED Seen => UNCHANGED Publication!publication
    BY DEF Seen, SeenScript, SeenAudio, SeenApproved, SeenStage, ScriptApprovals, StageOf,
           Publication!publication
  <2>2. UNCHANGED durable => UNCHANGED Seen
    BY DEF durable, Seen, SeenScript, SeenAudio, SeenApproved, SeenStage
  <2> QED
    BY <2>1, <2>2, StepKinds, CreateRefines, WriteRefines
<1> QED
  BY <1>1, <1>2, Invariance, PTL DEF Spec, KeepsPromise, Publication!Spec

(* Whatever is published speaks its own script, and an editor approved it.    *)
THEOREM PublishedIsApprovedAlways == Spec => []Publication!PublishedIsApproved
<1>1. IInv => Publication!PublishedIsApproved
  <2> SUFFICES ASSUME IInv, NEW s \in Stories, row[s].status = "DONE"
               PROVE  /\ row[s].audio = row[s].script
                      /\ row[s].script \in ScriptApprovals(reviews[s])
    BY DEF Publication!PublishedIsApproved, ScriptApprovals
  <2> QED
    BY DEF IInv, RowOK, VoicedStatus, Gated, HasApproval, Approved, ScriptApprovals
<1> QED
  BY <1>1, Invariance, PTL

=============================================================================
