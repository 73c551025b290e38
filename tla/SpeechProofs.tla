---------------------------- MODULE SpeechProofs ----------------------------
(***************************************************************************)
(* What Speech guarantees for every number of syntheses, servers, voices,  *)
(* replaced files and cancellations. A cached hash may be stale, but it is *)
(* never ahead of its file, and neither is what a server has loaded or a   *)
(* recording it has read: with the content hashed once before and once     *)
(* after, the three agree. A server the engine has attached is known to it *)
(* until it has ended.                                                     *)
(*                                                                         *)
(* The last part is about VoiceRoles: a live script whose speaker an edit  *)
(* must ask for is still to be asked for, or was written after the guard   *)
(* had answered.                                                           *)
(***************************************************************************)
EXTENDS Speech, VoiceRoles, TLAPS

State == {"unused", "loading", "ready", "ended"}
Phase == {"up", "closing", "closed"}
Process == [state : State, runtime : Files, loaded : Nat]
Content == [content : Nat, stamp : Nat]
ClipRecord == [weights : Nat, recording : Nat, by : Servers, heard : Nat]
Where == {"idle", "waiting"} \cup InEngine
ServerOrNone == Servers \cup {NoServer}
CallRecord == [pc : Where, plan : Seq(Runtimes), current : ServerOrNone, runtime : Files,
               starting : ServerOrNone, weights : Content, recording : Content,
               heard : Nat, spoken : Seq(ClipRecord), cancels : Nat]

\* What is known of a server; ps, on and fs are the processes, the servers
\* the engine knows and the files.
Used(ps, s) == s \in Servers /\ ps[s].state # "unused"
Loaded(ps, s) == s \in Servers /\ ps[s].state \in {"ready", "ended"}
Lives(ps, s) == ps[s].state \in {"loading", "ready"}
Kept(ps, on, s) == s \in on \/ ~Lives(ps, s)

Started == {"attaching", "probing", "verifying", "hashing", "aborting"}
Serves == {"checking", "speaking", "rechecking"}
Chosen == Starting \cup Serves \cup {"switching", "killing"}

\* The server that speaks has loaded the noted weights of the wanted voice.
Attached(r, ps) ==
    /\ Loaded(ps, r.current)
    /\ ps[r.current].runtime = r.runtime
    /\ ps[r.current].loaded = r.weights.content

\* The weights noted before the start are no newer than what the server that
\* starts has loaded, and that is no newer than the file.
StartsInOrder(r, ps, fs) ==
    LET wanted == r.plan[Len(r.spoken) + 1]
        server == ps[r.starting] IN
    /\ r.pc \in Started => Used(ps, r.starting) /\ server.runtime = wanted
    /\ r.pc \in {"spawning", "attaching", "probing", "verifying"} =>
          r.weights.content <= fs[wanted].content
    /\ r.pc \in {"attaching", "probing"} /\ server.state = "ready" =>
          r.weights.content <= server.loaded /\ server.loaded <= fs[wanted].content
    /\ r.pc = "verifying" =>
          /\ Loaded(ps, r.starting)
          /\ r.weights.content <= server.loaded /\ server.loaded <= fs[wanted].content
    /\ r.pc = "hashing" => Loaded(ps, r.starting) /\ server.loaded = r.weights.content

ServersKept(r, ps, on) ==
    /\ r.current # NoServer => Used(ps, r.current) /\ Kept(ps, on, r.current)
    /\ r.pc \in Starting /\ r.current # NoServer => ~Lives(ps, r.current)
    /\ r.pc \in Started \ {"attaching"} => Kept(ps, on, r.starting)

SpeaksInOrder(r, ps, fs) ==
    /\ r.pc \in {"waiting", "planning"} => r.runtime = Reference
    /\ r.pc \in Serves => r.runtime = r.plan[Len(r.spoken) + 1]
    /\ r.pc \in Serves \cup {"choosing"} /\ r.runtime # Reference => Attached(r, ps)
    /\ r.pc = "speaking" => r.recording.content <= fs[Reference].content
    /\ r.pc = "rechecking" =>
          r.recording.content <= r.heard /\ r.heard <= fs[Reference].content

ClipIsTrue(clip, voice, ps) ==
    /\ Loaded(ps, clip.by)
    /\ ps[clip.by].runtime = voice
    /\ clip.weights = ps[clip.by].loaded
    /\ clip.recording = clip.heard

CallIn(r, ps, on, fs) ==
    /\ r.pc \in Chosen => Len(r.spoken) + 1 <= Len(r.plan)
    /\ StartsInOrder(r, ps, fs)
    /\ ServersKept(r, ps, on)
    /\ SpeaksInOrder(r, ps, fs)
    /\ \A i \in 1..Len(r.spoken) : ClipIsTrue(r.spoken[i], r.plan[i], ps)

FilesOK ==
    /\ file \in [Files -> Content]
    /\ \A f \in Files : \A n \in DOMAIN hashed[f] :
          hashed[f][n] \in Nat /\ hashed[f][n] <= file[f].content

ServersOK ==
    /\ process \in [Servers -> Process]
    /\ \A s \in active : Used(process, s)
    /\ stopping \subseteq active

CallsOK ==
    /\ call \in [Syntheses -> CallRecord]
    /\ \A c \in Syntheses : CallIn(call[c], process, active, file)

ServiceOK ==
    /\ service \in [phase : Phase, closing : SUBSET Servers]
    /\ \A s \in service.closing : Used(process, s) /\ Kept(process, active, s)
    /\ service.phase = "closed" => \A s \in service.closing : ~Lives(process, s)

IInv == FilesOK /\ ServersOK /\ CallsOK /\ ServiceOK

\* How files and servers move on, whatever step it is: files only grow, what
\* a server has loaded stays, and an ended server never lives again.
Evolves ==
    /\ \A f \in Files : file'[f].content >= file[f].content
    /\ \A s \in Servers :
          /\ Loaded(process, s) => /\ Loaded(process', s)
                                   /\ process'[s].loaded = process[s].loaded
          /\ Used(process, s) => /\ Used(process', s)
                                 /\ process'[s].runtime = process[s].runtime
          /\ process[s].state = "loading" /\ process'[s].state = "ready" =>
                process'[s].loaded = file'[process[s].runtime].content
          /\ Used(process, s) /\ ~Lives(process, s) => ~Lives(process', s)
          /\ Used(process, s) /\ Kept(process, active, s) => Kept(process', active', s)

-----------------------------------------------------------------------------
(* What the invariant rests on *)

\* A digest is a content the file has had, and never ahead of the file.
LEMMA DigestFacts ==
    ASSUME FilesOK, NEW f \in Files, NEW refresh
    PROVE  /\ Digest(f, refresh) \in Nat
           /\ Digest(f, refresh) <= file[f].content
           /\ refresh => Digest(f, refresh) = file[f].content
<1>1. file[f] \in Content
  BY DEF FilesOK
<1>2. file[f].content \in Nat
  BY <1>1 DEF Content
<1> QED
  BY <1>2 DEF FilesOK, Digest

\* A snapshot of a file is never ahead of it, and a refreshed one is the file.
LEMMA SnapshotFacts ==
    ASSUME FilesOK, NEW f \in Files, NEW refresh
    PROVE  /\ SnapshotFile(f, refresh) \in Content
           /\ SnapshotFile(f, refresh).content <= file[f].content
           /\ refresh => SnapshotFile(f, refresh).content = file[f].content
<1>1. file[f].stamp \in Nat
  BY DEF FilesOK, Content
<1>2. Digest(f, refresh) \in Nat /\ Digest(f, refresh) <= file[f].content
      /\ (refresh => Digest(f, refresh) = file[f].content)
  BY DigestFacts
<1> QED
  BY <1>1, <1>2 DEF SnapshotFile, Content

\* Hashing files leaves only digests behind.
LEMMA HashKeeps ==
    ASSUME FilesOK, UNCHANGED file, NEW read, NEW refreshed, Hash(read, refreshed)
    PROVE  FilesOK'
<1> SUFFICES ASSUME NEW f \in Files, NEW n \in DOMAIN hashed'[f]
             PROVE  hashed'[f][n] \in Nat /\ hashed'[f][n] <= file[f].content
  BY DEF FilesOK
<1>1. hashed'[f] = IF f \in read \cup refreshed
                   THEN [m \in DOMAIN hashed[f] \cup {file[f].stamp} |->
                           IF m = file[f].stamp THEN Digest(f, f \in refreshed) ELSE hashed[f][m]]
                   ELSE hashed[f]
  BY DEF Hash
<1>2. Digest(f, f \in refreshed) \in Nat /\ Digest(f, f \in refreshed) <= file[f].content
  BY DigestFacts
<1> QED
  BY <1>1, <1>2 DEF FilesOK

\* A call whose record does not move stays in order while files and servers do.
LEMMA CarryOver ==
    ASSUME FilesOK, FilesOK', ServersOK, ServersOK', Evolves,
           NEW r \in CallRecord, CallIn(r, process, active, file)
    PROVE  CallIn(r, process', active', file')
<1> DEFINE k == Len(r.spoken) + 1
           wanted == r.plan[k]
<1>1. r.plan \in Seq(Runtimes) /\ r.spoken \in Seq(ClipRecord) /\ r.weights.content \in Nat
      /\ r.recording.content \in Nat /\ r.heard \in Nat
  BY DEF CallRecord, Content
<1>2. r.pc \in Chosen => wanted \in Files
  BY <1>1 DEF CallIn, Files
<1>3. \A f \in Files : file[f].content \in Nat /\ file'[f].content \in Nat
                       /\ file[f].content <= file'[f].content
  BY DEF FilesOK, Content, Evolves
<1>4. StartsInOrder(r, process', file')
  <2>1. Started \subseteq Chosen /\ {"spawning", "attaching", "probing", "verifying"} \subseteq Chosen
    BY DEF Started, Chosen, Starting
  <2>2. \A s \in Servers : process[s].loaded \in Nat /\ process'[s].loaded \in Nat
                           /\ process[s].state \in State /\ process'[s].state \in State
    BY DEF ServersOK, Process
  <2>3. r.pc \in Started => Used(process', r.starting) /\ process'[r.starting].runtime = wanted
    BY DEF CallIn, StartsInOrder, Evolves, Used
  <2>4. r.pc \in {"spawning", "attaching", "probing", "verifying"} =>
          r.weights.content <= file'[wanted].content
    <3> SUFFICES ASSUME r.pc \in {"spawning", "attaching", "probing", "verifying"}
                 PROVE  r.weights.content <= file'[wanted].content
      OBVIOUS
    <3>1. wanted \in Files
      BY <1>2, <2>1
    <3>2. r.weights.content <= file[wanted].content
      BY DEF CallIn, StartsInOrder
    <3>3. file[wanted].content <= file'[wanted].content
          /\ file[wanted].content \in Nat /\ file'[wanted].content \in Nat
      BY <1>3, <3>1
    <3> HIDE DEF wanted
    <3> QED
      BY <1>1, <3>2, <3>3
  <2>5. ASSUME r.pc \in {"attaching", "probing"}, process'[r.starting].state = "ready"
        PROVE  /\ r.weights.content <= process'[r.starting].loaded
               /\ process'[r.starting].loaded <= file'[wanted].content
    <3> DEFINE s == r.starting
    <3>1. s \in Servers /\ process[s].state # "unused" /\ process[s].runtime = wanted
      BY <2>5 DEF CallIn, StartsInOrder, Started, Used
    <3>2. wanted \in Files
      BY <1>2, <2>1, <2>5
    <3>3. CASE process[s].state = "loading"
      <4>1. process'[s].loaded = file'[wanted].content
        BY <2>5, <3>1, <3>3 DEF Evolves
      <4> QED
        BY <1>3, <2>4, <2>5, <3>2, <4>1
    <3>4. CASE process[s].state = "ready"
      <4>1. /\ r.weights.content <= process[s].loaded
            /\ process[s].loaded <= file[wanted].content
        BY <2>5, <3>4 DEF CallIn, StartsInOrder
      <4>2. process'[s].loaded = process[s].loaded
        BY <3>1, <3>4 DEF Evolves, Loaded
      <4> QED
        BY <1>3, <2>2, <3>1, <3>2, <4>1, <4>2
    <3>5. CASE process[s].state = "ended"
      BY <2>5, <3>1, <3>5 DEF Evolves, Used, Lives
    <3> QED
      BY <2>2, <3>1, <3>3, <3>4, <3>5 DEF State
  <2>6. ASSUME r.pc = "verifying"
        PROVE  /\ Loaded(process', r.starting)
               /\ r.weights.content <= process'[r.starting].loaded
               /\ process'[r.starting].loaded <= file'[wanted].content
    <3>1. /\ Loaded(process, r.starting)
          /\ r.weights.content <= process[r.starting].loaded
          /\ process[r.starting].loaded <= file[wanted].content
      BY <2>6 DEF CallIn, StartsInOrder
    <3>2. Loaded(process', r.starting) /\ process'[r.starting].loaded = process[r.starting].loaded
      BY <3>1 DEF Evolves, Loaded
    <3>3. wanted \in Files /\ r.starting \in Servers
      BY <1>2, <2>1, <2>6, <3>1 DEF Loaded
    <3> QED
      BY <1>3, <2>2, <3>1, <3>2, <3>3
  <2>7. r.pc = "hashing" =>
          Loaded(process', r.starting) /\ process'[r.starting].loaded = r.weights.content
    BY DEF CallIn, StartsInOrder, Evolves, Loaded
  <2> QED
    BY <2>3, <2>4, <2>5, <2>6, <2>7 DEF StartsInOrder
<1>5. ServersKept(r, process', active')
  BY DEF CallIn, ServersKept, StartsInOrder, Evolves, Used
<1>6. SpeaksInOrder(r, process', file')
  <2>1. Reference \in Files
    BY DEF Files
  <2> QED
    BY <1>1, <1>3, <2>1 DEF CallIn, SpeaksInOrder, Attached, Evolves, Loaded, Used
<1>7. \A i \in 1..Len(r.spoken) : ClipIsTrue(r.spoken[i], r.plan[i], process')
  BY DEF CallIn, ClipIsTrue, Evolves, Loaded, Used
<1> QED
  BY <1>4, <1>5, <1>6, <1>7 DEF CallIn

\* Without a change of files or servers everything stays as it is known.
LEMMA QuietEvolves == ASSUME FilesOK, UNCHANGED <<file, process, active>> PROVE Evolves
<1>1. \A f \in Files : file[f].content >= file[f].content
  BY DEF FilesOK, Content
<1> QED
  BY <1>1 DEF Evolves

\* The step of one synthesis keeps the invariant when its new record is in
\* order with the files and servers after the step.
LEMMA CallMoves ==
    ASSUME IInv, Evolves, FilesOK', ServersOK', UNCHANGED service,
           NEW c \in Syntheses, NEW p \in CallRecord,
           call' = [call EXCEPT ![c] = p], CallIn(p, process', active', file')
    PROVE  IInv'
<1>1. \A d \in Syntheses : call[d] \in CallRecord /\ CallIn(call[d], process, active, file)
  BY DEF IInv, CallsOK
<1>2. \A d \in Syntheses : CallIn(call[d], process', active', file')
  BY <1>1, CarryOver DEF IInv
<1>3. CallsOK'
  BY <1>2 DEF IInv, CallsOK
<1>4. ServiceOK'
  BY DEF IInv, ServiceOK, Evolves, Used
<1> QED
  BY <1>3, <1>4 DEF IInv

\* The step of one synthesis that changes no file and no server.
LEMMA QuietStep ==
    ASSUME IInv, UNCHANGED <<file, process, active, service>>,
           stopping' \subseteq active,
           hashed' = hashed \/ \E read, refreshed : Hash(read, refreshed),
           NEW c \in Syntheses, NEW p \in CallRecord,
           call' = [call EXCEPT ![c] = p], CallIn(p, process, active, file)
    PROVE  IInv'
<1>1. FilesOK'
  <2>1. CASE hashed' = hashed
    BY <2>1 DEF IInv, FilesOK
  <2>2. ASSUME NEW read, NEW refreshed, Hash(read, refreshed) PROVE FilesOK'
    BY <2>2, HashKeeps DEF IInv
  <2> QED
    BY <2>1, <2>2
<1>2. ServersOK'
  BY DEF IInv, ServersOK
<1>3. Evolves
  BY QuietEvolves DEF IInv
<1> QED
  BY <1>1, <1>2, <1>3, CallMoves

\* Asking a server to stop changes no more than that.
LEMMA AskFacts ==
    ASSUME IInv, NEW s, AskToStop(s)
    PROVE  stopping' \subseteq active
BY DEF AskToStop, IInv, ServersOK

\* Moving a record to another place in the code.
LEMMA MovedFacts ==
    ASSUME NEW r \in CallRecord, NEW pc \in Where
    PROVE  LET p == [r EXCEPT !.pc = pc] IN
           /\ p \in CallRecord /\ p.pc = pc
           /\ p.plan = r.plan /\ p.current = r.current /\ p.runtime = r.runtime
           /\ p.starting = r.starting /\ p.weights = r.weights
           /\ p.recording = r.recording /\ p.heard = r.heard /\ p.spoken = r.spoken
BY DEF CallRecord

\* A synthesis that is not in the engine, or is about to leave it.
LEMMA RestingFacts ==
    /\ Resting \in CallRecord /\ Resting.pc = "idle" /\ Resting.current = NoServer
    /\ Resting.spoken = <<>>
    /\ \A ps, on, fs : CallIn(Resting, ps, on, fs)
<1>1. Resting \in CallRecord
  BY DEF Resting, CallRecord, Where, ServerOrNone, Files, Content
<1>2. Resting.pc = "idle" /\ Resting.current = NoServer /\ Resting.spoken = <<>>
  BY DEF Resting
<1>3. "idle" \notin Chosen \cup Starting \cup Started \cup Serves \cup {"choosing"}
  BY DEF Chosen, Starting, Started, Serves
<1>4. \A i \in 1..Len(Resting.spoken) : FALSE
  BY <1>2
<1>5. ASSUME NEW ps, NEW on, NEW fs PROVE CallIn(Resting, ps, on, fs)
  <2>1. StartsInOrder(Resting, ps, fs)
    BY <1>2, <1>3 DEF StartsInOrder
  <2>2. ServersKept(Resting, ps, on)
    BY <1>2, <1>3 DEF ServersKept
  <2>3. SpeaksInOrder(Resting, ps, fs)
    BY <1>2, <1>3 DEF SpeaksInOrder
  <2> QED
    BY <1>2, <1>3, <1>4, <2>1, <2>2, <2>3 DEF CallIn
<1> QED
  BY <1>1, <1>2, <1>5

\* On the way out of the engine, and before it, little is asked of a record:
\* its server is known and its clips are true.
LEMMA LeavingIsInOrder ==
    ASSUME NEW r \in CallRecord, NEW p \in CallRecord, NEW ps, NEW on, NEW fs,
           CallIn(r, ps, on, fs),
           p.pc \in {"planning", "ending", "killing"},
           p.pc = "planning" => r.pc = "waiting" /\ p.runtime = r.runtime,
           p.pc = "killing" => r.pc \in Chosen,
           p.plan = r.plan, p.spoken = r.spoken, p.current = r.current
    PROVE  CallIn(p, ps, on, fs)
<1>1. p.pc \notin Starting \cup Started \cup Serves \cup {"choosing"}
      /\ (p.pc \in Chosen => r.pc \in Chosen)
  BY DEF Chosen, Starting, Started, Serves
<1>2. StartsInOrder(p, ps, fs)
  BY <1>1 DEF StartsInOrder, Started
<1>3. ServersKept(p, ps, on)
  BY <1>1 DEF ServersKept, CallIn
<1>4. SpeaksInOrder(p, ps, fs)
  BY <1>1 DEF SpeaksInOrder, Serves, CallIn
<1> QED
  BY <1>1, <1>2, <1>3, <1>4 DEF CallIn

\* What a record of a synthesis in the engine is known to be.
LEMMA RecordFacts ==
    ASSUME IInv, NEW c \in Syntheses
    PROVE  /\ call[c] \in CallRecord
           /\ CallIn(call[c], process, active, file)
           /\ call[c].plan \in Seq(Runtimes) /\ call[c].spoken \in Seq(ClipRecord)
           /\ Segment(c) = Len(call[c].spoken) + 1
           /\ call[c].pc \in Chosen => /\ Segment(c) \in 1..Len(call[c].plan)
                                       /\ call[c].plan[Segment(c)] \in Runtimes
                                       /\ call[c].plan[Segment(c)] \in Files
<1>1. call[c] \in CallRecord /\ CallIn(call[c], process, active, file)
  BY DEF IInv, CallsOK
<1>2. call[c].plan \in Seq(Runtimes) /\ call[c].spoken \in Seq(ClipRecord)
      /\ Segment(c) = Len(call[c].spoken) + 1
  BY <1>1 DEF CallRecord, Segment
<1>3. call[c].pc \in Chosen => Segment(c) \in 1..Len(call[c].plan)
  BY <1>1, <1>2 DEF CallIn
<1> QED
  BY <1>1, <1>2, <1>3 DEF Files

-----------------------------------------------------------------------------
(* The steps of a synthesis *)

\* A failure leads to the stop of the server that is loaded.
LEMMA FailKeeps ==
    ASSUME IInv, NEW c \in Syntheses, Fail(c), UNCHANGED <<file, process, active, service>>,
           hashed' = hashed \/ \E read, refreshed : Hash(read, refreshed)
    PROVE  IInv'
<1> DEFINE p == [call[c] EXCEPT !.pc = "ending"]
<1>1. call[c] \in CallRecord /\ CallIn(call[c], process, active, file)
  BY RecordFacts
<1>2. "ending" \in Where
  BY DEF Where, InEngine
<1>3. p \in CallRecord /\ p.pc = "ending" /\ p.plan = call[c].plan
      /\ p.spoken = call[c].spoken /\ p.current = call[c].current
  BY <1>1, <1>2, MovedFacts
<1>4. call' = [call EXCEPT ![c] = p]
  BY DEF Fail, MoveTo
<1> HIDE DEF p
<1>5. CallIn(p, process, active, file)
  BY <1>1, <1>3, LeavingIsInOrder
<1>6. stopping' \subseteq active
  BY AskFacts DEF Fail
<1> QED
  BY <1>3, <1>4, <1>5, <1>6, QuietStep

\* Two records that differ in their place alone.
SameBut(p, r) ==
    /\ p.plan = r.plan /\ p.current = r.current /\ p.runtime = r.runtime
    /\ p.starting = r.starting /\ p.weights = r.weights
    /\ p.recording = r.recording /\ p.heard = r.heard /\ p.spoken = r.spoken

\* A synthesis goes on to another place and keeps what it holds.
LEMMA MoveKeeps ==
    ASSUME IInv, NEW c \in Syntheses, NEW pc \in Where, MoveTo(c, pc),
           UNCHANGED <<file, process, active, service>>, stopping' \subseteq active,
           hashed' = hashed \/ \E read, refreshed : Hash(read, refreshed),
           \A p \in CallRecord : p.pc = pc /\ SameBut(p, call[c]) =>
               CallIn(p, process, active, file)
    PROVE  IInv'
<1> DEFINE p == [call[c] EXCEPT !.pc = pc]
<1>1. call[c] \in CallRecord
  BY RecordFacts
<1>2. p \in CallRecord /\ p.pc = pc /\ SameBut(p, call[c])
  BY <1>1, MovedFacts DEF SameBut
<1>3. call' = [call EXCEPT ![c] = p]
  BY DEF MoveTo
<1> HIDE DEF p
<1>4. CallIn(p, process, active, file)
  BY <1>2
<1> QED
  BY <1>2, <1>3, <1>4, QuietStep

\* The places of a synthesis that this proof tells apart.
LEMMA Places ==
    /\ InEngine \subseteq Where /\ "waiting" \in Where /\ "idle" \in Where
    /\ Starting = {"preparing", "spawning", "attaching", "probing", "verifying", "aborting", "hashing"}
    /\ InEngine = Starting \cup {"planning", "choosing", "switching", "checking", "speaking",
                                 "killing", "rechecking", "ending"}
    /\ Started = {"attaching", "probing", "verifying", "hashing", "aborting"}
    /\ Serves = {"checking", "speaking", "rechecking"}
    /\ Chosen = Starting \cup Serves \cup {"switching", "killing"}
BY DEF Where, InEngine, Starting, Started, Serves, Chosen

\* synthesize is called.
LEMMA SynthesizeKeeps == ASSUME IInv, NEW c \in Syntheses, Synthesize(c) PROVE IInv'
<1>1. PICK plan \in Plans :
        call' = [call EXCEPT ![c] = [Resting EXCEPT !.pc = "waiting", !.plan = plan]]
  BY DEF Synthesize
<1> DEFINE p == [Resting EXCEPT !.pc = "waiting", !.plan = plan]
<1>2. /\ p \in CallRecord /\ p.pc = "waiting" /\ p.spoken = <<>> /\ p.current = NoServer
      /\ p.runtime = Reference
  <2>1. plan \in Seq(Runtimes) /\ "waiting" \in Where
    BY PlanAssumption DEF Where
  <2> QED
    BY <2>1, RestingFacts DEF CallRecord, Resting
<1> HIDE DEF p
<1>3. CallIn(p, process, active, file)
  <2>1. p.pc \notin Chosen \cup Starting \cup Started \cup Serves \cup {"choosing"}
    BY <1>2, Places
  <2>2. StartsInOrder(p, process, file)
    BY <1>2, <2>1 DEF StartsInOrder
  <2>3. ServersKept(p, process, active)
    BY <1>2, <2>1 DEF ServersKept
  <2>4. SpeaksInOrder(p, process, file)
    BY <1>2, <2>1 DEF SpeaksInOrder
  <2> QED
    BY <1>2, <2>1, <2>2, <2>3, <2>4 DEF CallIn
<1>4. call' = [call EXCEPT ![c] = p]
  BY <1>1 DEF p
<1>5. stopping' \subseteq active
  BY DEF Synthesize, IInv, ServersOK
<1> QED
  BY <1>2, <1>3, <1>4, <1>5, QuietStep DEF Synthesize

\* The semaphore is taken.
LEMMA EnterKeeps == ASSUME IInv, NEW c \in Syntheses, Enter(c) PROVE IInv'
<1>1. stopping' \subseteq active /\ "planning" \in Where
  BY Places DEF Enter, IInv, ServersOK
<1>2. \A p \in CallRecord : p.pc = "planning" /\ SameBut(p, call[c]) =>
          CallIn(p, process, active, file)
  BY RecordFacts, LeavingIsInOrder DEF SameBut, Enter, At
<1> QED
  BY <1>1, <1>2, MoveKeeps DEF Enter

\* What starts, and what it waits for, is still nothing.
LEMMA BeforeStart ==
    ASSUME NEW p \in CallRecord, NEW ps, NEW fs, p.pc \notin Started \cup {"spawning"}
    PROVE  StartsInOrder(p, ps, fs)
BY Places DEF StartsInOrder

\* Nothing is spoken or chosen at this place.
LEMMA NotServing ==
    ASSUME NEW p \in CallRecord, NEW ps, NEW fs,
           p.pc \notin Serves \cup {"choosing", "waiting", "planning"}
    PROVE  SpeaksInOrder(p, ps, fs)
BY Places DEF SpeaksInOrder

\* The servers of a record that goes on to a place outside of the start.
LEMMA KeptElsewhere ==
    ASSUME NEW r \in CallRecord, NEW p \in CallRecord, NEW ps, NEW on, NEW fs,
           CallIn(r, ps, on, fs), p.current = r.current, p.pc \notin Starting
    PROVE  ServersKept(p, ps, on)
BY Places DEF CallIn, ServersKept

\* Clips stay true for whoever keeps the plan and the clips.
LEMMA ClipsStay ==
    ASSUME NEW r \in CallRecord, NEW p \in CallRecord, NEW ps, NEW on, NEW fs,
           CallIn(r, ps, on, fs), p.plan = r.plan, p.spoken = r.spoken,
           p.pc \in Chosen => r.pc \in Chosen,
           StartsInOrder(p, ps, fs), ServersKept(p, ps, on), SpeaksInOrder(p, ps, fs)
    PROVE  CallIn(p, ps, on, fs)
BY DEF CallIn

\* The plan is made.
LEMMA PlannedKeeps == ASSUME IInv, NEW c \in Syntheses, Planned(c) PROVE IInv'
<1>1. stopping' \subseteq active /\ "choosing" \in Where /\ call[c].pc = "planning"
  BY Places DEF Planned, At, IInv, ServersOK
<1>2. call[c] \in CallRecord /\ CallIn(call[c], process, active, file)
  BY RecordFacts
<1>3. ASSUME NEW p \in CallRecord, p.pc = "choosing", SameBut(p, call[c])
      PROVE  CallIn(p, process, active, file)
  <2>1. StartsInOrder(p, process, file)
    BY <1>3, BeforeStart, Places
  <2>2. ServersKept(p, process, active)
    BY <1>2, <1>3, KeptElsewhere, Places DEF SameBut
  <2>3. SpeaksInOrder(p, process, file)
    <3>1. p.runtime = Reference
      BY <1>1, <1>2, <1>3 DEF CallIn, SpeaksInOrder, SameBut
    <3> QED
      BY <1>3, <3>1, Places DEF SpeaksInOrder
  <2> QED
    BY <1>2, <1>3, <2>1, <2>2, <2>3, ClipsStay, Places DEF SameBut
<1> QED
  BY <1>1, <1>3, MoveKeeps DEF Planned

\* The loop over the plan takes its next segment.
LEMMA ChooseKeeps == ASSUME IInv, NEW c \in Syntheses, ChooseRuntime(c) PROVE IInv'
<1> DEFINE wanted == call[c].plan[Segment(c)]
<1>1. /\ call[c].pc = "choosing" /\ UNCHANGED <<file, hashed, process, active, service>>
      /\ stopping \subseteq active
  BY DEF ChooseRuntime, At, IInv, ServersOK
<1>2. /\ call[c] \in CallRecord /\ CallIn(call[c], process, active, file)
      /\ call[c].plan \in Seq(Runtimes) /\ Segment(c) = Len(call[c].spoken) + 1
      /\ call[c].spoken \in Seq(ClipRecord)
  BY RecordFacts
<1>3. CASE Fail(c)
  BY <1>1, <1>3, FailKeeps
<1>4. CASE Segment(c) <= Len(call[c].plan) /\ ~Fail(c)
  <2>1. Segment(c) \in 1..Len(call[c].plan)
    BY <1>2, <1>4
  <2>2. wanted \in Runtimes /\ wanted # Reference
    BY <1>2, <2>1, RuntimeAssumption
  <2>3. CASE wanted = call[c].runtime
    <3>1. MoveTo(c, "checking") /\ UNCHANGED stopping
      BY <1>4, <2>3 DEF ChooseRuntime
    <3>2. ASSUME NEW p \in CallRecord, p.pc = "checking", SameBut(p, call[c])
          PROVE  CallIn(p, process, active, file)
      <4>1. StartsInOrder(p, process, file)
        BY <3>2, BeforeStart, Places
      <4>2. ServersKept(p, process, active)
        BY <1>2, <3>2, KeptElsewhere, Places DEF SameBut
      <4>3. SpeaksInOrder(p, process, file)
        <5>1. Attached(call[c], process)
          BY <1>1, <1>2, <2>2, <2>3 DEF CallIn, SpeaksInOrder
        <5>2. Attached(p, process)
          BY <3>2, <5>1 DEF SameBut, Attached
        <5>3. p.runtime = p.plan[Len(p.spoken) + 1]
          BY <1>2, <2>3, <3>2 DEF SameBut
        <5> QED
          BY <3>2, <5>2, <5>3 DEF SpeaksInOrder, Serves
      <4>4. Len(p.spoken) + 1 <= Len(p.plan)
        BY <1>2, <1>4, <3>2 DEF SameBut
      <4>5. \A i \in 1..Len(p.spoken) : ClipIsTrue(p.spoken[i], p.plan[i], process)
        BY <1>2, <3>2 DEF SameBut, CallIn
      <4> QED
        BY <4>1, <4>2, <4>3, <4>4, <4>5 DEF CallIn
    <3>3. "checking" \in Where
      BY Places
    <3> QED
      BY <1>1, <3>1, <3>2, <3>3, MoveKeeps
  <2>4. CASE wanted # call[c].runtime
    <3> DEFINE pc == IF call[c].current = NoServer THEN "preparing" ELSE "switching"
    <3>1. MoveTo(c, pc) /\ AskToStop(call[c].current)
      BY <1>4, <2>4 DEF ChooseRuntime
    <3>2. stopping' \subseteq active
      BY <3>1, AskFacts
    <3>3. ASSUME NEW p \in CallRecord, p.pc = pc, SameBut(p, call[c])
          PROVE  CallIn(p, process, active, file)
      <4>1. StartsInOrder(p, process, file)
        BY <3>3, BeforeStart, Places
      <4>2. ServersKept(p, process, active)
        <5>1. p.pc \in Starting => p.current = NoServer
          BY <3>3, Places DEF SameBut
        <5>2. p.pc \notin Started
          BY <3>3, Places
        <5> QED
          BY <1>2, <3>3, <5>1, <5>2 DEF CallIn, ServersKept, SameBut
      <4>3. SpeaksInOrder(p, process, file)
        BY <3>3, NotServing, Places
      <4>4. Len(p.spoken) + 1 <= Len(p.plan)
        BY <1>2, <1>4, <3>3 DEF SameBut
      <4>5. \A i \in 1..Len(p.spoken) : ClipIsTrue(p.spoken[i], p.plan[i], process)
        BY <1>2, <3>3 DEF SameBut, CallIn
      <4> QED
        BY <4>1, <4>2, <4>3, <4>4, <4>5 DEF CallIn
    <3>4. pc \in Where
      BY Places
    <3> HIDE DEF pc
    <3> QED
      BY <1>1, <3>1, <3>2, <3>3, <3>4, MoveKeeps
  <2> QED
    BY <2>3, <2>4
<1> QED
  BY <1>3, <1>4 DEF ChooseRuntime

\* The server before has stopped.
LEMMA SwitchedKeeps == ASSUME IInv, NEW c \in Syntheses, Switched(c) PROVE IInv'
<1>1. /\ stopping' \subseteq active /\ "preparing" \in Where /\ call[c].pc = "switching"
      /\ call[c].current \notin active
  BY Places DEF Switched, At, HasStopped, IInv, ServersOK
<1>2. call[c] \in CallRecord /\ CallIn(call[c], process, active, file)
  BY RecordFacts
<1>3. ASSUME NEW p \in CallRecord, p.pc = "preparing", SameBut(p, call[c])
      PROVE  CallIn(p, process, active, file)
  <2>1. StartsInOrder(p, process, file)
    BY <1>3, BeforeStart, Places
  <2>2. ServersKept(p, process, active)
    <3>1. p.current # NoServer => ~Lives(process, p.current)
      BY <1>1, <1>2, <1>3 DEF CallIn, ServersKept, SameBut, Kept
    <3> QED
      BY <1>2, <1>3, <3>1, Places DEF CallIn, ServersKept, SameBut
  <2>3. SpeaksInOrder(p, process, file)
    BY <1>3, NotServing, Places
  <2> QED
    BY <1>1, <1>2, <1>3, <2>1, <2>2, <2>3, ClipsStay, Places DEF SameBut
<1> QED
  BY <1>1, <1>3, MoveKeeps DEF Switched

\* The weights are hashed, perhaps from the cache.
LEMMA PrepareKeeps == ASSUME IInv, NEW c \in Syntheses, Prepare(c) PROVE IInv'
<1> DEFINE f == call[c].plan[Segment(c)]
           snapshot == SnapshotFile(f, FALSE)
           p == [call[c] EXCEPT !.pc = "spawning", !.weights = snapshot]
<1>1. /\ call[c].pc = "preparing" /\ "spawning" \in Where /\ Hash({f}, {})
      /\ UNCHANGED <<file, process, active, stopping, service>> /\ stopping' \subseteq active
  BY Places DEF Prepare, At, IInv, ServersOK
<1>2. /\ call[c] \in CallRecord /\ CallIn(call[c], process, active, file)
      /\ f \in Files /\ Segment(c) = Len(call[c].spoken) + 1
  BY <1>1, RecordFacts, Places
<1>3. snapshot \in Content /\ snapshot.content <= file[f].content
  BY <1>2, SnapshotFacts DEF IInv
<1> HIDE DEF snapshot
<1>4. /\ p \in CallRecord /\ p.pc = "spawning" /\ p.weights = snapshot
      /\ p.plan = call[c].plan /\ p.spoken = call[c].spoken /\ p.current = call[c].current
  BY <1>1, <1>2, <1>3 DEF CallRecord
<1>5. call' = [call EXCEPT ![c] = p]
  BY DEF Prepare, snapshot
<1> HIDE DEF p
<1>6. CallIn(p, process, active, file)
  <2>1. StartsInOrder(p, process, file)
    BY <1>2, <1>3, <1>4, Places DEF StartsInOrder
  <2>2. ServersKept(p, process, active)
    BY <1>1, <1>2, <1>4, Places DEF CallIn, ServersKept
  <2>3. SpeaksInOrder(p, process, file)
    BY <1>4, NotServing, Places
  <2> QED
    BY <1>1, <1>2, <1>4, <2>1, <2>2, <2>3, ClipsStay, Places
<1> QED
  BY <1>1, <1>4, <1>5, <1>6, QuietStep

\* A server process is started for the wanted voice.
LEMMA SpawnServerKeeps == ASSUME IInv, NEW c \in Syntheses, SpawnServer(c) PROVE IInv'
<1> DEFINE f == call[c].plan[Segment(c)]
<1>1. PICK s \in Servers :
        /\ process[s] = NoProcess
        /\ process' = [process EXCEPT ![s] = [NoProcess EXCEPT !.state = "loading", !.runtime = f]]
        /\ call' = [call EXCEPT ![c] = [call[c] EXCEPT !.pc = "attaching", !.starting = s]]
  <2>1. \A s : [call EXCEPT ![c].pc = "attaching", ![c].starting = s]
                = [call EXCEPT ![c] = [call[c] EXCEPT !.pc = "attaching", !.starting = s]]
    BY RecordFacts DEF IInv, CallRecord
  <2> QED
    BY <2>1 DEF SpawnServer
<1>2. /\ call[c].pc = "spawning" /\ "attaching" \in Where
      /\ UNCHANGED <<file, hashed, active, stopping, service>>
  BY Places DEF SpawnServer, At
<1>3. /\ call[c] \in CallRecord /\ CallIn(call[c], process, active, file)
      /\ f \in Files /\ Segment(c) = Len(call[c].spoken) + 1
  BY <1>2, RecordFacts, Places
<1>4. process[s].state = "unused"
  BY <1>1 DEF NoProcess
<1>5. /\ process'[s].state = "loading" /\ process'[s].runtime = f
      /\ \A t \in Servers \ {s} : process'[t] = process[t]
  BY <1>1 DEF NoProcess, IInv, ServersOK
<1>6. ServersOK'
  <2>1. [NoProcess EXCEPT !.state = "loading", !.runtime = f] \in Process
    BY <1>3 DEF NoProcess, Process, State, Files
  <2>2. process' \in [Servers -> Process]
    BY <1>1, <2>1 DEF IInv, ServersOK
  <2>3. \A t \in active : Used(process', t)
    BY <1>4, <1>5 DEF IInv, ServersOK, Used
  <2> QED
    BY <1>2, <2>2, <2>3 DEF IInv, ServersOK
<1>7. FilesOK'
  BY <1>2 DEF IInv, FilesOK
<1>8. Evolves
  <2>1. \A g \in Files : file'[g].content >= file[g].content
    BY <1>2 DEF IInv, FilesOK, Content
  <2>2. \A t \in Servers \ {s} : process'[t] = process[t]
    BY <1>5
  <2> QED
    BY <1>2, <1>4, <1>5, <2>1, <2>2 DEF Evolves, Used, Loaded, Lives, Kept
<1> DEFINE p == [call[c] EXCEPT !.pc = "attaching", !.starting = s]
<1>9. /\ p \in CallRecord /\ p.pc = "attaching" /\ p.starting = s
      /\ p.weights = call[c].weights
      /\ p.plan = call[c].plan /\ p.spoken = call[c].spoken /\ p.current = call[c].current
  BY <1>2, <1>3 DEF CallRecord, ServerOrNone
<1>10. call' = [call EXCEPT ![c] = p]
  BY <1>1
<1> HIDE DEF p
<1>11. CallIn(call[c], process', active', file')
  BY <1>3, <1>6, <1>7, <1>8, CarryOver DEF IInv
<1>12. CallIn(p, process', active', file')
  <2>1. StartsInOrder(p, process', file')
    <3>1. call[c].weights.content <= file'[f].content
      BY <1>2, <1>3, <1>11 DEF CallIn, StartsInOrder
    <3>2. Used(process', s)
      BY <1>5 DEF Used
    <3> QED
      BY <1>3, <1>5, <1>9, <3>1, <3>2 DEF StartsInOrder
  <2>2. ServersKept(p, process', active')
    BY <1>2, <1>9, <1>11, Places DEF CallIn, ServersKept
  <2>3. SpeaksInOrder(p, process', file')
    BY <1>9, NotServing, Places
  <2> QED
    BY <1>2, <1>3, <1>9, <1>11, <2>1, <2>2, <2>3, ClipsStay, Places
<1> QED
  BY <1>2, <1>6, <1>7, <1>8, <1>9, <1>10, <1>12, CallMoves

\* The engine learns of its server.
LEMMA AttachKeeps == ASSUME IInv, NEW c \in Syntheses, Attach(c) PROVE IInv'
<1> DEFINE s == call[c].starting
           p == [call[c] EXCEPT !.pc = "probing"]
<1>1. /\ call[c].pc = "attaching" /\ "probing" \in Where
      /\ UNCHANGED <<file, hashed, process, stopping, service>>
      /\ active' = active \cup {s}
  BY Places DEF Attach, At
<1>2. call[c] \in CallRecord /\ CallIn(call[c], process, active, file)
  BY RecordFacts
<1>3. Used(process, s)
  BY <1>1, <1>2, Places DEF CallIn, StartsInOrder
<1>4. ServersOK'
  BY <1>1, <1>3 DEF IInv, ServersOK
<1>5. FilesOK'
  BY <1>1 DEF IInv, FilesOK
<1>6. Evolves
  <2>1. \A g \in Files : file'[g].content >= file[g].content
    BY <1>1 DEF IInv, FilesOK, Content
  <2> QED
    BY <1>1, <2>1 DEF Evolves, Kept
<1>7. p \in CallRecord /\ p.pc = "probing" /\ SameBut(p, call[c])
  BY <1>1, <1>2, MovedFacts DEF SameBut
<1>8. call' = [call EXCEPT ![c] = p]
  BY DEF Attach, MoveTo
<1> HIDE DEF p
<1>9. CallIn(call[c], process', active', file')
  BY <1>2, <1>4, <1>5, <1>6, CarryOver DEF IInv
<1>10. CallIn(p, process', active', file')
  <2>1. StartsInOrder(p, process', file')
    BY <1>1, <1>7, <1>9, Places DEF CallIn, StartsInOrder, SameBut
  <2>2. ServersKept(p, process', active')
    BY <1>1, <1>7, <1>9, Places DEF CallIn, ServersKept, SameBut, Kept
  <2>3. SpeaksInOrder(p, process', file')
    BY <1>7, NotServing, Places
  <2> QED
    BY <1>1, <1>2, <1>7, <1>9, <2>1, <2>2, <2>3, ClipsStay, Places DEF SameBut
<1> QED
  BY <1>1, <1>2, <1>4, <1>5, <1>6, <1>7, <1>8, <1>10, CallMoves

\* The server answers its probe.
LEMMA ProbedKeeps == ASSUME IInv, NEW c \in Syntheses, Probed(c) PROVE IInv'
<1>1. /\ stopping' \subseteq active /\ "verifying" \in Where /\ call[c].pc = "probing"
      /\ process[call[c].starting].state = "ready"
  BY Places DEF Probed, At, IInv, ServersOK
<1>2. call[c] \in CallRecord /\ CallIn(call[c], process, active, file)
  BY RecordFacts
<1>3. ASSUME NEW p \in CallRecord, p.pc = "verifying", SameBut(p, call[c])
      PROVE  CallIn(p, process, active, file)
  <2>1. StartsInOrder(p, process, file)
    BY <1>1, <1>2, <1>3, Places DEF CallIn, StartsInOrder, SameBut, Loaded, Used
  <2>2. ServersKept(p, process, active)
    BY <1>1, <1>2, <1>3, Places DEF CallIn, ServersKept, SameBut
  <2>3. SpeaksInOrder(p, process, file)
    BY <1>3, NotServing, Places
  <2> QED
    BY <1>1, <1>2, <1>3, <2>1, <2>2, <2>3, ClipsStay, Places DEF SameBut
<1> QED
  BY <1>1, <1>3, MoveKeeps DEF Probed

\* A start is aborted: the server it has attached is stopped.
LEMMA AbortKeeps ==
    ASSUME IInv, NEW c \in Syntheses, Abort(c), call[c].pc \in {"probing", "verifying"},
           UNCHANGED <<file, process, active, service>>,
           hashed' = hashed \/ \E read, refreshed : Hash(read, refreshed)
    PROVE  IInv'
<1>1. stopping' \subseteq active /\ "aborting" \in Where
  BY AskFacts, Places DEF Abort
<1>2. call[c] \in CallRecord /\ CallIn(call[c], process, active, file)
  BY RecordFacts
<1>3. ASSUME NEW p \in CallRecord, p.pc = "aborting", SameBut(p, call[c])
      PROVE  CallIn(p, process, active, file)
  <2>1. StartsInOrder(p, process, file)
    BY <1>2, <1>3, Places DEF CallIn, StartsInOrder, SameBut
  <2>2. ServersKept(p, process, active)
    BY <1>2, <1>3, Places DEF CallIn, ServersKept, SameBut
  <2>3. SpeaksInOrder(p, process, file)
    BY <1>3, NotServing, Places
  <2> QED
    BY <1>2, <1>3, <2>1, <2>2, <2>3, ClipsStay, Places DEF SameBut
<1> QED
  BY <1>1, <1>3, MoveKeeps DEF Abort

\* The weights are hashed again: if they are those noted before the start, the
\* server has loaded exactly these.
LEMMA VerifyKeeps == ASSUME IInv, NEW c \in Syntheses, VerifyWeights(c) PROVE IInv'
<1> DEFINE f == call[c].plan[Segment(c)]
<1>1. /\ call[c].pc = "verifying" /\ "hashing" \in Where /\ Hash({}, {f})
      /\ UNCHANGED <<file, process, active, service>>
  BY Places DEF VerifyWeights, At
<1>2. /\ call[c] \in CallRecord /\ CallIn(call[c], process, active, file)
      /\ f \in Files /\ Segment(c) = Len(call[c].spoken) + 1
  BY <1>1, RecordFacts, Places
<1>3. CASE Verified(f, call[c].weights)
  <2>1. MoveTo(c, "hashing") /\ stopping' \subseteq active
    BY <1>3 DEF VerifyWeights, IInv, ServersOK
  <2>2. call[c].weights.content = file[f].content
    BY <1>2, <1>3, SnapshotFacts DEF Verified, IInv
  <2>3. /\ Loaded(process, call[c].starting)
        /\ call[c].weights.content <= process[call[c].starting].loaded
        /\ process[call[c].starting].loaded <= file[f].content
    BY <1>1, <1>2 DEF CallIn, StartsInOrder
  <2>4. process[call[c].starting].loaded = call[c].weights.content
    <3>1. process[call[c].starting].loaded \in Nat /\ file[f].content \in Nat
      BY <1>2, <2>3 DEF IInv, ServersOK, FilesOK, Process, Content, Loaded
    <3> QED
      BY <2>2, <2>3, <3>1
  <2>5. ASSUME NEW p \in CallRecord, p.pc = "hashing", SameBut(p, call[c])
        PROVE  CallIn(p, process, active, file)
    <3>1. StartsInOrder(p, process, file)
      BY <1>1, <1>2, <2>3, <2>4, <2>5, Places DEF CallIn, StartsInOrder, SameBut
    <3>2. ServersKept(p, process, active)
      BY <1>1, <1>2, <2>5, Places DEF CallIn, ServersKept, SameBut
    <3>3. SpeaksInOrder(p, process, file)
      BY <2>5, NotServing, Places
    <3> QED
      BY <1>1, <1>2, <2>5, <3>1, <3>2, <3>3, ClipsStay, Places DEF SameBut
  <2> QED
    BY <1>1, <2>1, <2>5, MoveKeeps
<1>4. CASE ~Verified(f, call[c].weights)
  <2>1. Abort(c)
    BY <1>4 DEF VerifyWeights
  <2> QED
    BY <1>1, <2>1, AbortKeeps
<1> QED
  BY <1>3, <1>4

\* The configuration is hashed, and the server is the loaded one.
LEMMA HashConfigKeeps == ASSUME IInv, NEW c \in Syntheses, HashConfig(c) PROVE IInv'
<1> DEFINE f == call[c].plan[Segment(c)]
           p == [call[c] EXCEPT !.pc = "checking", !.current = call[c].starting,
                                !.starting = NoServer, !.runtime = f]
<1>1. /\ call[c].pc = "hashing" /\ "checking" \in Where /\ stopping' \subseteq active
      /\ UNCHANGED <<file, hashed, process, active, stopping, service>>
  BY Places DEF HashConfig, At, IInv, ServersOK
<1>2. /\ call[c] \in CallRecord /\ CallIn(call[c], process, active, file)
      /\ f \in Files /\ Segment(c) = Len(call[c].spoken) + 1
  BY <1>1, RecordFacts, Places
<1>3. call[c].starting \in ServerOrNone /\ NoServer \in ServerOrNone
  BY <1>2 DEF CallRecord, ServerOrNone
<1>4. /\ p \in CallRecord /\ p.pc = "checking" /\ p.current = call[c].starting /\ p.runtime = f
      /\ p.plan = call[c].plan /\ p.spoken = call[c].spoken /\ p.weights = call[c].weights
  BY <1>1, <1>2, <1>3 DEF CallRecord
<1>5. call' = [call EXCEPT ![c] = p]
  BY DEF HashConfig
<1> HIDE DEF p
<1>6. CallIn(p, process, active, file)
  <2>1. StartsInOrder(p, process, file)
    BY <1>4, BeforeStart, Places
  <2>2. ServersKept(p, process, active)
    BY <1>1, <1>2, <1>4, Places DEF CallIn, ServersKept, StartsInOrder
  <2>3. SpeaksInOrder(p, process, file)
    <3>1. Attached(p, process)
      BY <1>1, <1>2, <1>4, Places DEF CallIn, StartsInOrder, Attached
    <3> QED
      BY <1>2, <1>4, <3>1, Places DEF SpeaksInOrder
  <2> QED
    BY <1>1, <1>2, <1>4, <2>1, <2>2, <2>3, ClipsStay, Places
<1> QED
  BY <1>1, <1>4, <1>5, <1>6, QuietStep

\* Before a segment is spoken the files are checked and its recording noted.
LEMMA CheckKeeps == ASSUME IInv, NEW c \in Syntheses, CheckFiles(c) PROVE IInv'
<1> DEFINE snapshot == SnapshotFile(Reference, FALSE)
           p == [call[c] EXCEPT !.pc = "speaking", !.recording = snapshot]
<1>1. call[c].pc = "checking" /\ "speaking" \in Where
      /\ UNCHANGED <<file, process, active, service>>
  BY Places DEF CheckFiles, At
<1>2. call[c] \in CallRecord /\ CallIn(call[c], process, active, file)
  BY RecordFacts
<1>3. CASE Unchanged(call[c].runtime, call[c].weights)
  <2>1. /\ Hash({call[c].runtime, Reference}, {}) /\ stopping' \subseteq active
        /\ call' = [call EXCEPT ![c] = [call[c] EXCEPT !.pc = "speaking", !.recording = snapshot]]
    BY <1>3 DEF CheckFiles, IInv, ServersOK
  <2>2. snapshot \in Content /\ snapshot.content <= file[Reference].content
    BY SnapshotFacts DEF IInv, Files
  <2> HIDE DEF snapshot
  <2>3. /\ p \in CallRecord /\ p.pc = "speaking" /\ p.recording = snapshot
        /\ p.plan = call[c].plan /\ p.spoken = call[c].spoken /\ p.weights = call[c].weights
        /\ p.current = call[c].current /\ p.runtime = call[c].runtime
    BY <1>1, <1>2, <2>2 DEF CallRecord
  <2>4. call' = [call EXCEPT ![c] = p]
    BY <2>1
  <2> HIDE DEF p
  <2>5. CallIn(p, process, active, file)
    <3>1. StartsInOrder(p, process, file)
      BY <2>3, BeforeStart, Places
    <3>2. ServersKept(p, process, active)
      BY <1>2, <2>3, KeptElsewhere, Places
    <3>3. SpeaksInOrder(p, process, file)
      BY <1>1, <1>2, <2>2, <2>3, Places DEF CallIn, SpeaksInOrder, Attached
    <3> QED
      BY <1>1, <1>2, <2>3, <3>1, <3>2, <3>3, ClipsStay, Places
  <2> QED
    BY <1>1, <2>1, <2>3, <2>4, <2>5, QuietStep
<1>4. CASE ~Unchanged(call[c].runtime, call[c].weights)
  <2>1. Hash({call[c].runtime}, {}) /\ Fail(c)
    BY <1>4 DEF CheckFiles
  <2> QED
    BY <1>1, <2>1, FailKeeps
<1> QED
  BY <1>3, <1>4

\* The server reads the recording and answers.
LEMMA SpeakKeeps == ASSUME IInv, NEW c \in Syntheses, Speak(c) PROVE IInv'
<1> DEFINE now == file[Reference].content
           p == [call[c] EXCEPT !.pc = "rechecking", !.heard = now]
<1>1. /\ call[c].pc = "speaking" /\ "rechecking" \in Where /\ stopping' \subseteq active
      /\ UNCHANGED <<file, hashed, process, active, stopping, service>>
  BY Places DEF Speak, At, IInv, ServersOK
<1>2. call[c] \in CallRecord /\ CallIn(call[c], process, active, file)
  BY RecordFacts
<1>3. now \in Nat
  BY DEF IInv, FilesOK, Files, Content
<1>4. /\ p \in CallRecord /\ p.pc = "rechecking" /\ p.heard = now
      /\ p.plan = call[c].plan /\ p.spoken = call[c].spoken /\ p.weights = call[c].weights
      /\ p.current = call[c].current /\ p.runtime = call[c].runtime
      /\ p.recording = call[c].recording
  BY <1>1, <1>2, <1>3 DEF CallRecord
<1>5. call' = [call EXCEPT ![c] = p]
  BY DEF Speak
<1> HIDE DEF p
<1>6. CallIn(p, process, active, file)
  <2>1. StartsInOrder(p, process, file)
    BY <1>4, BeforeStart, Places
  <2>2. ServersKept(p, process, active)
    BY <1>2, <1>4, KeptElsewhere, Places
  <2>3. SpeaksInOrder(p, process, file)
    BY <1>1, <1>2, <1>3, <1>4, Places DEF CallIn, SpeaksInOrder, Attached
  <2> QED
    BY <1>1, <1>2, <1>4, <2>1, <2>2, <2>3, ClipsStay, Places
<1> QED
  BY <1>1, <1>4, <1>5, <1>6, QuietStep

\* The deadline of a segment passes.
LEMMA SpeakTimesOutKeeps == ASSUME IInv, NEW c \in Syntheses, SpeakTimesOut(c) PROVE IInv'
<1>1. stopping' \subseteq active /\ "killing" \in Where /\ call[c].pc = "speaking"
  BY Places DEF SpeakTimesOut, At, IInv, ServersOK
<1>2. call[c] \in CallRecord /\ CallIn(call[c], process, active, file)
  BY RecordFacts
<1>3. \A p \in CallRecord : p.pc = "killing" /\ SameBut(p, call[c]) =>
          CallIn(p, process, active, file)
  BY <1>1, <1>2, LeavingIsInOrder, Places DEF SameBut
<1> QED
  BY <1>1, <1>3, MoveKeeps DEF SpeakTimesOut

\* A server whose process has ended.
LEMMA EndedServer ==
    ASSUME IInv, UNCHANGED <<file, hashed, service>>, NEW s,
           s \in Servers => Used(process, s),
           process' = [process EXCEPT ![s].state = "ended"],
           active' \in {active, active \ {s}}, stopping' \subseteq active'
    PROVE  FilesOK' /\ ServersOK' /\ Evolves
<1>1. FilesOK'
  BY DEF IInv, FilesOK
<1>2. process \in [Servers -> Process] /\ \A t \in active : Used(process, t)
  BY DEF IInv, ServersOK
<1>3. process' \in [Servers -> Process]
  BY <1>2 DEF Process, State
<1>4. \A t \in Servers : /\ t # s => process'[t] = process[t]
                         /\ t = s => /\ process'[t].state = "ended"
                                     /\ process'[t].runtime = process[t].runtime
                                     /\ process'[t].loaded = process[t].loaded
  BY <1>2 DEF Process
<1>5. ServersOK'
  BY <1>2, <1>3, <1>4 DEF ServersOK, Used
<1>6. Evolves
  <2>1. \A g \in Files : file'[g].content >= file[g].content
    BY DEF IInv, FilesOK, Content
  <2>2. ASSUME NEW t \in Servers
        PROVE  /\ Loaded(process, t) => /\ Loaded(process', t)
                                        /\ process'[t].loaded = process[t].loaded
               /\ Used(process, t) => /\ Used(process', t)
                                      /\ process'[t].runtime = process[t].runtime
               /\ process[t].state = "loading" /\ process'[t].state = "ready" =>
                     process'[t].loaded = file'[process[t].runtime].content
               /\ Used(process, t) /\ ~Lives(process, t) => ~Lives(process', t)
               /\ Used(process, t) /\ Kept(process, active, t) => Kept(process', active', t)
    <3>1. CASE t = s
      BY <1>4, <3>1 DEF Loaded, Used, Lives, Kept
    <3>2. CASE t # s
      <4>1. process'[t] = process[t] /\ (t \in active => t \in active')
        BY <1>4, <3>2
      <4> QED
        BY <4>1 DEF Loaded, Used, Lives, Kept
    <3> QED
      BY <3>1, <3>2
  <2> QED
    BY <2>1, <2>2 DEF Evolves
<1> QED
  BY <1>1, <1>5, <1>6

\* The process is killed before the failure is raised.
LEMMA KilledKeeps == ASSUME IInv, NEW c \in Syntheses, Killed(c) PROVE IInv'
<1> DEFINE p == [call[c] EXCEPT !.pc = "ending"]
<1>1. /\ call[c].pc = "killing" /\ "ending" \in Where /\ Fail(c)
      /\ process' = [process EXCEPT ![call[c].current].state = "ended"]
      /\ UNCHANGED <<file, hashed, active, service>>
  BY Places DEF Killed, At
<1>2. call[c] \in CallRecord /\ CallIn(call[c], process, active, file)
  BY RecordFacts
<1>3. call[c].current \in Servers => Used(process, call[c].current)
  BY <1>2, ServerAssumption DEF CallIn, ServersKept
<1>4. stopping' \subseteq active
  BY <1>1, AskFacts DEF Fail
<1>5. FilesOK' /\ ServersOK' /\ Evolves
  BY <1>1, <1>3, <1>4, EndedServer
<1>6. p \in CallRecord /\ p.pc = "ending" /\ p.plan = call[c].plan
      /\ p.spoken = call[c].spoken /\ p.current = call[c].current
  BY <1>1, <1>2, MovedFacts
<1>7. call' = [call EXCEPT ![c] = p]
  BY <1>1 DEF Fail, MoveTo
<1> HIDE DEF p
<1>8. CallIn(call[c], process', active', file')
  BY <1>2, <1>5, CarryOver DEF IInv
<1>9. CallIn(p, process', active', file')
  BY <1>2, <1>6, <1>8, LeavingIsInOrder
<1> QED
  BY <1>1, <1>5, <1>6, <1>7, <1>9, CallMoves

\* Only a segment that was spoken from the noted files becomes a clip.
LEMMA RecheckKeeps == ASSUME IInv, NEW c \in Syntheses, RecheckFiles(c) PROVE IInv'
<1> DEFINE r == call[c]
           clip == Clip(c)
           p == [call[c] EXCEPT !.pc = "choosing", !.spoken = Append(call[c].spoken, clip)]
           read == IF Verified(Reference, r.recording) THEN {r.runtime} ELSE {}
<1>1. /\ r.pc = "rechecking" /\ "choosing" \in Where /\ Hash(read, {Reference})
      /\ UNCHANGED <<file, process, active, service>>
  BY Places DEF RecheckFiles, At
<1>2. /\ r \in CallRecord /\ CallIn(r, process, active, file)
      /\ r.plan \in Seq(Runtimes) /\ r.spoken \in Seq(ClipRecord)
      /\ Segment(c) = Len(r.spoken) + 1 /\ Segment(c) \in 1..Len(r.plan)
      /\ r.plan[Segment(c)] \in Runtimes
  BY <1>1, RecordFacts, Places
<1>3. CASE Verified(Reference, r.recording) /\ Unchanged(r.runtime, r.weights)
  <2>1. /\ stopping' \subseteq active
        /\ call' = [call EXCEPT ![c] = p]
    BY <1>3 DEF RecheckFiles, IInv, ServersOK
  <2>2. r.recording.content = file[Reference].content
    BY <1>3, SnapshotFacts DEF Verified, IInv, Files
  <2>3. r.recording.content = r.heard
    <3>1. r.recording.content <= r.heard /\ r.heard <= file[Reference].content
      BY <1>1, <1>2 DEF CallIn, SpeaksInOrder
    <3>2. r.heard \in Nat /\ r.recording.content \in Nat
      BY <1>2 DEF CallRecord, Content
    <3> QED
      BY <2>2, <3>1, <3>2
  <2>4. r.runtime = r.plan[Segment(c)] /\ r.runtime # Reference /\ Attached(r, process)
    BY <1>1, <1>2, RuntimeAssumption, Places DEF CallIn, SpeaksInOrder
  <2>5. clip = [weights |-> r.weights.content, recording |-> r.recording.content,
                by |-> r.current, heard |-> r.heard]
    BY DEF Clip
  <2>6. clip \in ClipRecord
    BY <1>2, <2>4, <2>5 DEF ClipRecord, CallRecord, Content, Attached, Loaded
  <2>7. ClipIsTrue(clip, r.plan[Segment(c)], process)
    BY <2>3, <2>4, <2>5 DEF ClipIsTrue, Attached
  <2> HIDE DEF clip
  <2>8. Append(r.spoken, clip) \in Seq(ClipRecord)
    BY <1>2, <2>6
  <2>9. /\ p \in CallRecord /\ p.pc = "choosing" /\ p.spoken = Append(r.spoken, clip)
        /\ p.plan = r.plan /\ p.weights = r.weights
        /\ p.current = r.current /\ p.runtime = r.runtime
    BY <1>1, <1>2, <2>8 DEF CallRecord
  <2> HIDE DEF p, r
  <2>10. CallIn(p, process, active, file)
    <3>1. StartsInOrder(p, process, file)
      BY <2>9, BeforeStart, Places
    <3>2. ServersKept(p, process, active)
      BY <1>2, <2>9, KeptElsewhere, Places
    <3>3. SpeaksInOrder(p, process, file)
      BY <2>4, <2>9, Places DEF SpeaksInOrder, Attached
    <3>4. p.pc \notin Chosen
      BY <2>9, Places
    <3>5. ASSUME NEW i \in 1..Len(p.spoken) PROVE ClipIsTrue(p.spoken[i], p.plan[i], process)
      <4>1. CASE i \in 1..Len(r.spoken)
        <5>1. p.spoken[i] = r.spoken[i]
          BY <1>2, <2>6, <2>9, <4>1
        <5> QED
          BY <1>2, <2>9, <4>1, <5>1 DEF CallIn
      <4>2. CASE i \notin 1..Len(r.spoken)
        <5>1. i = Segment(c) /\ p.spoken[i] = clip
          BY <1>2, <2>6, <2>9, <3>5, <4>2
        <5> QED
          BY <2>7, <2>9, <5>1
      <4> QED
        BY <4>1, <4>2
    <3> QED
      BY <3>1, <3>2, <3>3, <3>4, <3>5 DEF CallIn
  <2> QED
    BY <1>1, <2>1, <2>9, <2>10, QuietStep
<1>4. CASE ~(Verified(Reference, r.recording) /\ Unchanged(r.runtime, r.weights))
  <2>1. Fail(c)
    BY <1>4 DEF RecheckFiles
  <2> QED
    BY <1>1, <2>1, FailKeeps
<1> QED
  BY <1>3, <1>4

\* A synthesis leaves the engine.
LEMMA RestKeeps ==
    ASSUME IInv, NEW c \in Syntheses, call' = [call EXCEPT ![c] = Resting],
           UNCHANGED <<file, hashed, process, active, stopping, service>>
    PROVE  IInv'
<1>1. stopping' \subseteq active
  BY DEF IInv, ServersOK
<1> QED
  BY <1>1, RestingFacts, QuietStep

\* A file, the configuration or the voices are in error.
LEMMA PreparationFailsKeeps ==
    ASSUME IInv, NEW c \in Syntheses, PreparationFails(c) PROVE IInv'
<1>1. UNCHANGED <<file, hashed, process, active, service>>
  BY DEF PreparationFails
<1>2. CASE call[c].pc = "planning"
  BY <1>1, <1>2, RestKeeps DEF PreparationFails
<1>3. CASE call[c].pc # "planning"
  BY <1>1, <1>3, FailKeeps DEF PreparationFails
<1> QED
  BY <1>2, <1>3

\* A cancellation reaches the await a synthesis is in.
LEMMA CancelKeeps == ASSUME IInv, NEW c \in Syntheses, Cancel(c) PROVE IInv'
<1> DEFINE r == call[c]
           counted == [call[c] EXCEPT !.cancels = @ + 1]
           aborting == [counted EXCEPT !.pc = "aborting"]
           ending == [counted EXCEPT !.pc = "ending"]
<1>1. UNCHANGED <<file, hashed, process, active, service>>
  BY DEF Cancel
<1>2. r \in CallRecord /\ CallIn(r, process, active, file) /\ stopping \subseteq active
  BY RecordFacts DEF IInv, ServersOK
<1>3. counted \in CallRecord /\ SameBut(counted, r)
  <2>1. r.cancels + 1 \in Nat
    BY <1>2 DEF CallRecord
  <2> DEFINE n == r.cancels + 1
  <2>2. counted = [r EXCEPT !.cancels = n]
    OBVIOUS
  <2> HIDE DEF n
  <2> QED
    BY <1>2, <2>1, <2>2 DEF n, CallRecord, SameBut
<1>4. CASE call' = [call EXCEPT ![c] = Resting] /\ UNCHANGED stopping
  BY <1>1, <1>4, RestKeeps
<1>5. CASE /\ r.pc \in {"probing", "verifying"}
           /\ call' = [call EXCEPT ![c] = aborting]
           /\ AskToStop(r.starting)
  <2>1. stopping' \subseteq active /\ "aborting" \in Where
    BY <1>5, AskFacts, Places
  <2> HIDE DEF counted
  <2>2. aborting \in CallRecord /\ aborting.pc = "aborting" /\ SameBut(aborting, r)
    BY <1>3, <2>1, MovedFacts DEF SameBut
  <2> HIDE DEF aborting, r
  <2>3. CallIn(aborting, process, active, file)
    <3>1. StartsInOrder(aborting, process, file)
      BY <1>2, <1>5, <2>2, Places DEF CallIn, StartsInOrder, SameBut
    <3>2. ServersKept(aborting, process, active)
      BY <1>2, <1>5, <2>2, Places DEF CallIn, ServersKept, SameBut
    <3>3. SpeaksInOrder(aborting, process, file)
      BY <2>2, NotServing, Places
    <3> QED
      BY <1>2, <1>5, <2>2, <3>1, <3>2, <3>3, ClipsStay, Places DEF SameBut
  <2> QED
    BY <1>1, <1>5, <2>1, <2>2, <2>3, QuietStep
<1>6. CASE call' = [call EXCEPT ![c] = ending] /\ AskToStop(r.current)
  <2>1. stopping' \subseteq active /\ "ending" \in Where
    BY <1>6, AskFacts, Places
  <2> HIDE DEF counted
  <2>2. ending \in CallRecord /\ ending.pc = "ending" /\ SameBut(ending, r)
    BY <1>3, <2>1, MovedFacts DEF SameBut
  <2> HIDE DEF ending, r
  <2>3. CallIn(ending, process, active, file)
    BY <1>2, <2>2, LeavingIsInOrder DEF SameBut
  <2> QED
    BY <1>1, <1>6, <2>1, <2>2, <2>3, QuietStep
<1> QED
  BY <1>4, <1>5, <1>6 DEF Cancel

-----------------------------------------------------------------------------
(* Files, servers and the engine *)

\* A step of nobody in particular carries every synthesis over.
LEMMA OutsideStep ==
    ASSUME IInv, Evolves, FilesOK', ServersOK', UNCHANGED <<call, service>>
    PROVE  IInv'
<1>1. \A d \in Syntheses : call[d] \in CallRecord /\ CallIn(call[d], process, active, file)
  BY DEF IInv, CallsOK
<1>2. \A d \in Syntheses : CallIn(call[d], process', active', file')
  BY <1>1, CarryOver DEF IInv
<1>3. CallsOK'
  BY <1>2 DEF IInv, CallsOK
<1>4. ServiceOK'
  BY DEF IInv, ServiceOK, Evolves, Used
<1> QED
  BY <1>3, <1>4 DEF IInv

\* A file is replaced, with or without a new time stamp.
LEMMA ReplaceKeeps == ASSUME IInv, NEW f \in Files, ReplaceFile(f) PROVE IInv'
<1>1. PICK kept \in BOOLEAN :
        file' = [file EXCEPT ![f].content = @ + 1, ![f].stamp = IF kept THEN @ ELSE @ + 1]
  BY DEF ReplaceFile
<1>2. UNCHANGED <<hashed, process, active, stopping, call, service>>
  BY DEF ReplaceFile
<1>3. file \in [Files -> Content] /\ file[f].content \in Nat /\ file[f].stamp \in Nat
  BY DEF IInv, FilesOK, Content
<1>4. file' \in [Files -> Content]
  <2> DEFINE stamp == IF kept THEN file[f].stamp ELSE file[f].stamp + 1
             new == [[file[f] EXCEPT !.content = @ + 1] EXCEPT !.stamp = stamp]
  <2>1. stamp \in Nat /\ file[f].content + 1 \in Nat
    BY <1>3
  <2>2. file' = [file EXCEPT ![f] = new]
    BY <1>1, <1>3
  <2> HIDE DEF stamp
  <2>3. new \in Content
    BY <1>3, <2>1 DEF Content
  <2> QED
    BY <1>3, <2>2, <2>3
<1>5. \A g \in Files : file[g].content \in Nat /\ file'[g].content >= file[g].content
  <2>1. file'[f].content = file[f].content + 1 /\ \A g \in Files \ {f} : file'[g] = file[g]
    BY <1>1, <1>3 DEF Content
  <2>2. \A g \in Files : file[g].content \in Nat
    BY <1>3 DEF Content
  <2> QED
    BY <1>3, <2>1, <2>2
<1>6. FilesOK'
  <2>1. \A g \in Files : file'[g].content \in Nat
    BY <1>4 DEF Content
  <2> QED
    BY <1>2, <1>4, <1>5, <2>1 DEF IInv, FilesOK
<1>7. ServersOK' /\ Evolves
  BY <1>2, <1>5 DEF IInv, ServersOK, Evolves
<1> QED
  BY <1>2, <1>6, <1>7, OutsideStep

\* A server that was asked to has stopped.
LEMMA StopKeeps == ASSUME IInv, NEW s \in Servers, StopServer(s) PROVE IInv'
<1>1. Used(process, s)
  BY DEF StopServer, IInv, ServersOK
<1>2. active' = active \ {s} /\ stopping' \subseteq active'
  BY DEF StopServer, IInv, ServersOK
<1>3. FilesOK' /\ ServersOK' /\ Evolves
  BY <1>1, <1>2, EndedServer DEF StopServer
<1> QED
  BY <1>3, OutsideStep DEF StopServer

\* A server dies.
LEMMA DieKeeps == ASSUME IInv, NEW s \in Servers, ServerDies(s) PROVE IInv'
<1>1. Used(process, s)
  BY DEF ServerDies, Alive, Used
<1>2. stopping' \subseteq active'
  BY DEF ServerDies, IInv, ServersOK
<1>3. FilesOK' /\ ServersOK' /\ Evolves
  BY <1>1, <1>2, EndedServer DEF ServerDies
<1> QED
  BY <1>3, OutsideStep DEF ServerDies

\* A server loads the weights it finds.
LEMMA LoadKeeps == ASSUME IInv, NEW s \in Servers, ServerLoads(s) PROVE IInv'
<1> DEFINE now == file[process[s].runtime].content
<1>1. /\ process[s].state = "loading" /\ process[s] \in Process
      /\ UNCHANGED <<file, hashed, active, stopping, call, service>>
      /\ process \in [Servers -> Process]
  BY DEF ServerLoads, IInv, ServersOK
<1>2. now \in Nat
  BY <1>1 DEF IInv, FilesOK, Process, Content
<1>3. process' = [process EXCEPT ![s].state = "ready", ![s].loaded = now]
  BY DEF ServerLoads
<1> HIDE DEF now
<1>4. /\ process' \in [Servers -> Process]
      /\ process'[s].state = "ready" /\ process'[s].loaded = now
      /\ process'[s].runtime = process[s].runtime
      /\ \A t \in Servers \ {s} : process'[t] = process[t]
  BY <1>1, <1>2, <1>3 DEF Process, State
<1>5. ServersOK'
  BY <1>1, <1>4 DEF IInv, ServersOK, Used
<1>6. FilesOK'
  BY <1>1 DEF IInv, FilesOK
<1>7. Evolves
  <2>1. \A g \in Files : file'[g].content >= file[g].content
    BY <1>1 DEF IInv, FilesOK, Content
  <2>2. process'[s].loaded = file'[process[s].runtime].content
    BY <1>1, <1>4 DEF now
  <2> QED
    BY <1>1, <1>4, <2>1, <2>2 DEF Evolves, Loaded, Used, Lives, Kept
<1> QED
  BY <1>1, <1>5, <1>6, <1>7, OutsideStep

\* aclose asks the servers it knows to stop.
LEMMA CloseKeeps == ASSUME IInv, CloseEngine PROVE IInv'
<1>1. UNCHANGED <<file, hashed, process, active, call>>
      /\ service' = [phase |-> "closing", closing |-> active]
      /\ stopping' = stopping \cup active
  BY DEF CloseEngine
<1>2. FilesOK' /\ ServersOK' /\ CallsOK'
  BY <1>1 DEF IInv, FilesOK, ServersOK, CallsOK
<1>3. active \subseteq Servers
  BY DEF IInv, ServersOK, Used
<1>4. ServiceOK'
  BY <1>1, <1>3 DEF IInv, ServersOK, ServiceOK, Phase, Kept
<1> QED
  BY <1>2, <1>4 DEF IInv

\* Closed: everything the engine waited for has stopped.
LEMMA ClosedKeeps == ASSUME IInv, EngineClosed PROVE IInv'
<1>1. UNCHANGED <<file, hashed, process, active, stopping, call>>
      /\ service' = [service EXCEPT !.phase = "closed"]
      /\ \A s \in service.closing : s \notin active
  BY DEF EngineClosed, HasStopped
<1>2. FilesOK' /\ ServersOK' /\ CallsOK'
  BY <1>1 DEF IInv, FilesOK, ServersOK, CallsOK
<1>3. service'.closing = service.closing /\ service' \in [phase : Phase, closing : SUBSET Servers]
  BY <1>1 DEF IInv, ServiceOK, Phase
<1>4. ServiceOK'
  BY <1>1, <1>3 DEF IInv, ServiceOK, Kept
<1> QED
  BY <1>2, <1>4 DEF IInv

-----------------------------------------------------------------------------
(* The theorems *)

\* The invariant holds initially.
LEMMA InitEstablishes == SpeechInit => IInv
<1> SUFFICES ASSUME SpeechInit PROVE IInv
  OBVIOUS
<1>1. FilesOK
  BY DEF SpeechInit, FilesOK, Content
<1>2. ServersOK
  BY DEF SpeechInit, ServersOK, Process, State, NoProcess, Files
<1>3. CallsOK
  BY RestingFacts DEF SpeechInit, CallsOK
<1>4. ServiceOK
  BY DEF SpeechInit, ServiceOK, Phase
<1> QED
  BY <1>1, <1>2, <1>3, <1>4 DEF IInv

\* Every step keeps the invariant.
LEMMA StepKeeps == IInv /\ [SpeechNext]_speechVars => IInv'
<1> SUFFICES ASSUME IInv, [SpeechNext]_speechVars PROVE IInv'
  OBVIOUS
<1>1. ASSUME NEW c \in Syntheses, SynthesisStep(c) PROVE IInv'
  <2>1. CASE StartupFails(c)
    BY <2>1, AbortKeeps DEF StartupFails, At
  <2>2. CASE Aborted(c)
    BY <2>2, FailKeeps DEF Aborted
  <2>3. CASE SpeakFails(c)
    BY <2>3, FailKeeps DEF SpeakFails
  <2>4. CASE Return(c)
    BY <2>4, RestKeeps DEF Return
  <2> QED
    BY <1>1, <2>1, <2>2, <2>3, <2>4, SynthesizeKeeps, EnterKeeps, PlannedKeeps, ChooseKeeps,
       SwitchedKeeps, PrepareKeeps, SpawnServerKeeps, AttachKeeps, ProbedKeeps, VerifyKeeps,
       HashConfigKeeps, CheckKeeps, SpeakKeeps, SpeakTimesOutKeeps, KilledKeeps, RecheckKeeps,
       PreparationFailsKeeps, CancelKeeps DEF SynthesisStep
<1>2. ASSUME NEW f \in Files, ReplaceFile(f) PROVE IInv'
  BY <1>2, ReplaceKeeps
<1>3. ASSUME NEW s \in Servers, StopServer(s) \/ ServerDies(s) \/ ServerLoads(s) PROVE IInv'
  BY <1>3, StopKeeps, DieKeeps, LoadKeeps
<1>4. CASE CloseEngine \/ EngineClosed
  BY <1>4, CloseKeeps, ClosedKeeps
<1>5. CASE UNCHANGED speechVars
  BY <1>5 DEF speechVars, IInv, FilesOK, ServersOK, CallsOK, ServiceOK
<1> QED
  BY <1>1, <1>2, <1>3, <1>4, <1>5 DEF SpeechNext

\* The inductive invariant holds in every reachable state.
THEOREM SpeechInvariance == SpeechSpec => []IInv
<1> QED
  BY InitEstablishes, StepKeeps, PTL DEF SpeechSpec

\* Every clip is noted with the very weights that spoke it and the very
\* recording that was read, whatever is replaced meanwhile.
THEOREM ProvenanceIsTrueAlways == SpeechSpec => []ProvenanceIsTrue
<1>1. IInv => ProvenanceIsTrue
  <2> SUFFICES ASSUME IInv, NEW c \in Syntheses, NEW k \in DOMAIN call[c].spoken
               PROVE  ClipIsTrue(call[c].spoken[k], call[c].plan[k], process)
    BY DEF ProvenanceIsTrue, ClipIsTrue
  <2>1. call[c].spoken \in Seq(ClipRecord) /\ CallIn(call[c], process, active, file)
    BY RecordFacts
  <2> QED
    BY <2>1 DEF CallIn
<1> QED
  BY <1>1, SpeechInvariance, PTL

\* A synthesis that starts a server has always seen the one before it end, and
\* a closed engine all of those it knew of.
THEOREM StoppedIsGoneAlways == SpeechSpec => []StoppedIsGone
<1>1. IInv => StoppedIsGone
  BY DEF IInv, CallsOK, CallIn, ServersKept, ServiceOK, StoppedIsGone, Alive, Lives
<1> QED
  BY <1>1, SpeechInvariance, PTL

-----------------------------------------------------------------------------
(* The voices *)

VoiceOrSilent == Voices \cup {Silent}
RoleRecord == [speaker : SpeakerIds, voice : VoiceOrSilent, enabled : BOOLEAN, version : Nat]
Fields == [speaker : SpeakerIds, voice : VoiceOrSilent, enabled : BOOLEAN]
Stage == {"none", "ordered", "written", "spoken", "done"}
Script == [status : Stage, speaker : SpeakerIds, heard : VoiceOrSilent]
EditRecord == [pc : {"asking", "saving"}, of : Roles, from : Nat, to : Fields,
               ask : SUBSET SpeakerIds, missed : SUBSET Scripts]

\* A live script that an edit must ask for, while the role is still the one it
\* has read, is still to be asked for or was written too late to be seen.
EditIn(p, roles, scripts) ==
    /\ p.from <= roles[p.of].version
    /\ roles[p.of].version = p.from =>
          \A x \in Scripts :
              /\ scripts[x].status \in Live
              /\ scripts[x].speaker \in SpeakersAsked(Selection(roles[p.of]), p.to)
              => scripts[x].speaker \in p.ask \/ x \in p.missed
    /\ p.pc = "saving" => p.ask = {}

VoicesInv ==
    /\ role \in [Roles -> RoleRecord]
    /\ script \in [Scripts -> Script]
    /\ edit \in [Editors -> {NoEdit} \cup EditRecord]
    /\ \A e \in Editors : edit[e].pc # "idle" => EditIn(edit[e], role, script)

VoiceStep ==
    \A x \in Scripts :
        LET sp == script[x].speaker IN
        script[x].status \in Live /\ Resolved(sp)' # Resolved(sp) =>
            \E e \in Editors : edit[e].pc = "saving" /\ x \in edit[e].missed

\* Who is not idle works on an edit.
LEMMA EditFacts ==
    ASSUME VoicesInv, NEW e \in Editors
    PROVE  (edit[e].pc # "idle" <=> edit[e] \in EditRecord) /\ NoEdit.pc = "idle"
BY DEF VoicesInv, NoEdit, EditRecord

\* The selection of a role that is edited is one of the fields.
LEMMA FieldsType ==
    /\ RoleFields \subseteq Fields
    /\ \A p \in RoleRecord : Selection(p) \in Fields
<1>1. \A p \in RoleRecord : Selection(p) \in Fields
  BY DEF Fields, Selection, RoleRecord
<1>2. Selection(NoRole) \in Fields
  BY SpeakerAssumption DEF Fields, Selection, NoRole, VoiceOrSilent
<1>3. [speaker : SpeakerIds, voice : VoiceOrSilent, enabled : {TRUE}] \subseteq Fields
  BY DEF Fields
<1> QED
  BY <1>1, <1>2, <1>3 DEF RoleFields, VoiceOrSilent

\* As long as the role stays, a step that makes no script live for an edit
\* behind its back leaves the edits in order.
LEMMA ScriptsOnly ==
    ASSUME VoicesInv, UNCHANGED <<role, edit>>,
           script' \in [Scripts -> Script],
           \A x \in Scripts : script'[x].status \in Live =>
               script[x].status \in Live /\ script'[x].speaker = script[x].speaker
    PROVE  VoicesInv'
<1>1. ASSUME NEW e \in Editors, edit[e].pc # "idle" PROVE EditIn(edit[e], role, script')
  <2>1. EditIn(edit[e], role, script)
    BY <1>1 DEF VoicesInv
  <2> QED
    BY <2>1 DEF EditIn
<1> QED
  BY <1>1 DEF VoicesInv

\* A script is written: whoever has asked for its speaker already misses it.
LEMMA WrittenKeeps ==
    ASSUME VoicesInv, UNCHANGED role, NEW x \in Scripts,
           NEW new \in Script,
           Written(x, new)
    PROVE  VoicesInv'
<1>1. script' = [script EXCEPT ![x] = new]
  BY DEF Written
<1>2. ASSUME NEW e \in Editors
      PROVE  /\ edit'[e] \in {NoEdit} \cup EditRecord
             /\ edit'[e].pc # "idle" => EditIn(edit'[e], role, script')
  <2>1. edit'[e] = IF edit[e].pc # "idle" /\ new.speaker \notin edit[e].ask
                   THEN [edit[e] EXCEPT !.missed = @ \cup {x}] ELSE edit[e]
    BY <1>2 DEF Written
  <2>2. CASE edit[e].pc = "idle"
    BY <2>1, <2>2 DEF VoicesInv
  <2>3. CASE edit[e].pc # "idle"
    <3>1. edit[e] \in EditRecord /\ EditIn(edit[e], role, script)
      BY <2>3, EditFacts DEF VoicesInv
    <3>2. CASE new.speaker \in edit[e].ask
      <4>1. edit'[e] = edit[e]
        BY <2>1, <3>2
      <4> QED
        BY <1>1, <3>1, <3>2, <4>1 DEF EditIn, VoicesInv
    <3>3. CASE new.speaker \notin edit[e].ask
      <4>1. edit'[e] = [edit[e] EXCEPT !.missed = edit[e].missed \cup {x}]
        BY <2>1, <2>3, <3>3
      <4>2. /\ edit'[e] \in EditRecord /\ edit'[e].missed = edit[e].missed \cup {x}
            /\ edit'[e].pc = edit[e].pc /\ edit'[e].of = edit[e].of
            /\ edit'[e].from = edit[e].from /\ edit'[e].to = edit[e].to
            /\ edit'[e].ask = edit[e].ask
        BY <3>1, <4>1 DEF EditRecord
      <4>3. EditIn(edit'[e], role, script')
        BY <1>1, <3>1, <4>2 DEF EditIn, VoicesInv
      <4> QED
        BY <4>2, <4>3
    <3> QED
      BY <3>2, <3>3
  <2> QED
    BY <2>2, <2>3
<1>3. edit' \in [Editors -> {NoEdit} \cup EditRecord]
  <2>1. edit' = [e \in Editors |-> edit'[e]]
    BY DEF Written
  <2> QED
    BY <1>2, <2>1
<1>4. script' \in [Scripts -> Script]
  BY <1>1 DEF VoicesInv
<1> QED
  BY <1>2, <1>3, <1>4 DEF VoicesInv

\* The steps of the scripts leave every edit in order.
LEMMA ScriptSteps ==
    ASSUME VoicesInv, NEW x \in Scripts,
           \/ ApproveFirst(x) \/ WriteScript(x) \/ CreateBatch(x) \/ SpeakScript(x)
           \/ FinishScript(x) \/ RequestChanges(x)
    PROVE  /\ VoicesInv' /\ role' = role
           /\ \A y \in Scripts : script[y].status \in Live =>
                                     script'[y].speaker = script[y].speaker
<1>1. script \in [Scripts -> Script] /\ script[x] \in Script
  BY DEF VoicesInv
<1>2. CASE ApproveFirst(x)
  <2>1. PICK sp \in SpeakerIds :
          script' = [script EXCEPT ![x] = [NoScript EXCEPT !.status = "ordered", !.speaker = sp]]
    BY <1>2 DEF ApproveFirst
  <2> DEFINE new == [NoScript EXCEPT !.status = "ordered", !.speaker = sp]
  <2>2. new \in Script /\ new.status = "ordered"
    BY SpeakerAssumption DEF NoScript, Script, Stage, VoiceOrSilent
  <2>3. script' = [script EXCEPT ![x] = new]
    BY <2>1
  <2> HIDE DEF new
  <2>4. script' \in [Scripts -> Script] /\ script[x].status = "none" /\ UNCHANGED <<role, edit>>
    BY <1>1, <1>2, <2>2, <2>3 DEF ApproveFirst
  <2> QED
    BY <1>1, <2>2, <2>3, <2>4, ScriptsOnly DEF Live
<1>3. CASE WriteScript(x)
  <2> DEFINE new == [script[x] EXCEPT !.status = "written"]
  <2>1. new \in Script
    BY <1>1 DEF Script, Stage
  <2>2. Written(x, new) /\ role' = role /\ script[x].status = "ordered"
    BY <1>3 DEF WriteScript
  <2> HIDE DEF new
  <2>3. VoicesInv'
    BY <2>1, <2>2, WrittenKeeps
  <2>4. script' = [script EXCEPT ![x] = new]
    BY <2>2 DEF Written
  <2> QED
    BY <1>1, <2>2, <2>3, <2>4 DEF Live
<1>4. CASE CreateBatch(x)
  <2>1. PICK y \in Scripts :
          Written(x, [NoScript EXCEPT !.status = "written", !.speaker = script[y].speaker])
    BY <1>4 DEF CreateBatch
  <2> DEFINE new == [NoScript EXCEPT !.status = "written", !.speaker = script[y].speaker]
  <2>2. new \in Script
    BY <1>1, SpeakerAssumption DEF NoScript, Script, Stage, VoiceOrSilent
  <2>3. Written(x, new) /\ role' = role /\ script[x].status = "none"
    BY <1>4, <2>1 DEF CreateBatch
  <2> HIDE DEF new
  <2>4. VoicesInv'
    BY <2>2, <2>3, WrittenKeeps
  <2>5. script' = [script EXCEPT ![x] = new]
    BY <2>3 DEF Written
  <2> QED
    BY <1>1, <2>3, <2>4, <2>5 DEF Live
<1>5. CASE SpeakScript(x)
  <2>1. PICK v \in Resolved(script[x].speaker) \cup
                     (IF Resolved(script[x].speaker) = {} /\ script[x].speaker = DefaultSpeaker
                      THEN {Silent} ELSE {}) :
          script' = [script EXCEPT ![x].status = "spoken", ![x].heard = v]
    BY <1>5 DEF SpeakScript
  <2>2. v \in VoiceOrSilent
    <3>1. \A q \in Roles : role[q].voice \in VoiceOrSilent
      BY DEF VoicesInv, RoleRecord
    <3> QED
      BY <2>1, <3>1 DEF Resolved, VoiceOrSilent
  <2> DEFINE new == [[script[x] EXCEPT !.status = "spoken"] EXCEPT !.heard = v]
  <2>3. new \in Script /\ new.speaker = script[x].speaker
    BY <1>1, <2>2 DEF Script, Stage
  <2>4. script' = [script EXCEPT ![x] = new]
    BY <1>1, <2>1
  <2> HIDE DEF new
  <2>5. script' \in [Scripts -> Script] /\ script[x].status = "written" /\ UNCHANGED <<role, edit>>
    BY <1>1, <1>5, <2>3, <2>4 DEF SpeakScript
  <2> QED
    BY <1>1, <2>3, <2>4, <2>5, ScriptsOnly DEF Live
<1>6. CASE FinishScript(x)
  <2> DEFINE new == [script[x] EXCEPT !.status = "done"]
  <2>1. new \in Script /\ new.speaker = script[x].speaker /\ new.status = "done"
    BY <1>1 DEF Script, Stage
  <2>2. script' = [script EXCEPT ![x] = new] /\ UNCHANGED <<role, edit>>
    BY <1>6 DEF FinishScript
  <2> HIDE DEF new
  <2>3. script' \in [Scripts -> Script]
    BY <1>1, <2>1, <2>2
  <2> QED
    BY <1>1, <2>1, <2>2, <2>3, ScriptsOnly DEF Live
<1>7. CASE RequestChanges(x)
  <2> DEFINE new == [[script[x] EXCEPT !.status = "written"] EXCEPT !.heard = Silent]
  <2>1. new \in Script /\ new.speaker = script[x].speaker
    BY <1>1 DEF Script, Stage, VoiceOrSilent
  <2>2. script' = [script EXCEPT ![x] = new] /\ UNCHANGED <<role, edit>>
        /\ script[x].status = "spoken"
    BY <1>1, <1>7 DEF RequestChanges
  <2> HIDE DEF new
  <2>3. script' \in [Scripts -> Script]
    BY <1>1, <2>1, <2>2
  <2> QED
    BY <1>1, <2>1, <2>2, <2>3, ScriptsOnly DEF Live
<1> QED
  BY <1>2, <1>3, <1>4, <1>5, <1>6, <1>7

\* An edit begins: it asks for every speaker whose voice it would change.
LEMMA BeginEditKeeps ==
    ASSUME VoicesInv, NEW e \in Editors, NEW r \in Roles, BeginEdit(e, r)
    PROVE  VoicesInv'
<1>1. PICK new \in RoleFields :
        edit' = [edit EXCEPT ![e] =
          [pc |-> IF SpeakersAsked(Selection(role[r]), new) = {} THEN "saving" ELSE "asking",
           of |-> r, from |-> role[r].version, to |-> new,
           ask |-> SpeakersAsked(Selection(role[r]), new), missed |-> {}]]
  BY DEF BeginEdit
<1> DEFINE asked == SpeakersAsked(Selection(role[r]), new)
           p == [pc |-> IF asked = {} THEN "saving" ELSE "asking", of |-> r,
                 from |-> role[r].version, to |-> new, ask |-> asked, missed |-> {}]
<1>2. /\ new \in Fields /\ role[r] \in RoleRecord /\ Selection(role[r]) \in Fields
      /\ UNCHANGED <<role, script>>
  BY FieldsType DEF BeginEdit, VoicesInv
<1>3. asked \subseteq SpeakerIds
  BY <1>2 DEF SpeakersAsked, Fields
<1>4. p \in EditRecord
  BY <1>2, <1>3 DEF EditRecord, RoleRecord
<1>5. EditIn(p, role, script)
  <2>1. role[r].version \in Nat
    BY <1>2 DEF RoleRecord
  <2> QED
    BY <2>1 DEF EditIn
<1> HIDE DEF p
<1>6. edit' = [edit EXCEPT ![e] = p]
  BY <1>1 DEF p
<1> QED
  BY <1>2, <1>4, <1>5, <1>6 DEF VoicesInv

\* The guard answers for one speaker: no live script, or no edit.
LEMMA AskGuardKeeps ==
    ASSUME VoicesInv, NEW e \in Editors, AskGuard(e)
    PROVE  VoicesInv'
<1>1. PICK sp \in edit[e].ask :
        edit' = [edit EXCEPT ![e] =
          IF Uses(sp) # {} THEN NoEdit
          ELSE [edit[e] EXCEPT !.ask = edit[e].ask \ {sp},
                               !.pc = IF edit[e].ask \ {sp} = {} THEN "saving" ELSE "asking"]]
  BY DEF AskGuard
<1>2. edit[e].pc = "asking" /\ UNCHANGED <<role, script>>
  BY DEF AskGuard
<1>3. edit[e] \in EditRecord /\ EditIn(edit[e], role, script)
  BY <1>2, EditFacts DEF VoicesInv
<1>4. CASE Uses(sp) # {}
  <2>1. edit' = [edit EXCEPT ![e] = NoEdit]
    BY <1>1, <1>4
  <2> QED
    BY <1>2, <2>1, EditFacts DEF VoicesInv
<1>5. CASE Uses(sp) = {}
  <2> DEFINE left == edit[e].ask \ {sp}
             pc == IF left = {} THEN "saving" ELSE "asking"
             p == [[edit[e] EXCEPT !.ask = left] EXCEPT !.pc = pc]
  <2>1. left \in SUBSET SpeakerIds /\ pc \in {"asking", "saving"}
    BY <1>2, <1>3 DEF EditRecord
  <2>2. pc = "saving" => left = {}
    BY <1>2
  <2>3. edit' = [edit EXCEPT ![e] = p]
    BY <1>1, <1>3, <1>5 DEF EditRecord
  <2> HIDE DEF pc
  <2>4. /\ p \in EditRecord /\ p.ask = left /\ p.pc = pc
        /\ p.of = edit[e].of /\ p.from = edit[e].from
        /\ p.to = edit[e].to /\ p.missed = edit[e].missed
    BY <1>3, <2>1 DEF EditRecord
  <2> HIDE DEF p
  <2>5. \A x \in Scripts : ~(script[x].status \in Live /\ script[x].speaker = sp)
    BY <1>5 DEF Uses
  <2>6. EditIn(p, role, script)
    BY <1>3, <2>2, <2>4, <2>5 DEF EditIn
  <2> QED
    BY <1>2, <2>3, <2>4, <2>6 DEF VoicesInv
<1> QED
  BY <1>4, <1>5

\* The guard cannot tell: no edit.
LEMMA GuardFailsKeeps == ASSUME VoicesInv, NEW e \in Editors, GuardFails(e) PROVE VoicesInv'
<1>1. edit' = [edit EXCEPT ![e] = NoEdit] /\ UNCHANGED <<role, script>>
  BY DEF GuardFails
<1> QED
  BY <1>1, EditFacts DEF VoicesInv

\* The edit is saved, unless it has lost the race or the speaker is taken. A
\* speaker whose voice changes was asked for.
LEMMA SaveRoleKeeps ==
    ASSUME VoicesInv, NEW e \in Editors, SaveRole(e)
    PROVE  VoicesInv' /\ VoiceStep
<1> DEFINE r == edit[e].of
           to == edit[e].to
           old == Selection(role[r])
           row == [speaker |-> to.speaker, voice |-> to.voice,
                   enabled |-> to.enabled, version |-> role[r].version + 1]
<1>1. /\ edit[e].pc = "saving" /\ script' = script
      /\ edit' = [edit EXCEPT ![e] = NoEdit]
  BY DEF SaveRole
<1>2. edit[e] \in EditRecord /\ EditIn(edit[e], role, script)
  BY <1>1, EditFacts DEF VoicesInv
<1>3. r \in Roles /\ to \in Fields /\ role[r] \in RoleRecord /\ role \in [Roles -> RoleRecord]
  BY <1>2 DEF EditRecord, VoicesInv
<1>4. CASE role' = role
  <2>1. VoicesInv'
    BY <1>1, <1>4, EditFacts DEF VoicesInv
  <2>2. VoiceStep
    BY <1>1, <1>4 DEF VoiceStep, Resolved
  <2> QED
    BY <2>1, <2>2
<1>5. CASE role' # role
  <2>1. role' = [role EXCEPT ![r] = row] /\ role[r].version = edit[e].from
    BY <1>3, <1>5 DEF SaveRole
  <2>2. row \in RoleRecord /\ row.version = role[r].version + 1
    BY <1>3 DEF RoleRecord, Fields
  <2>3. role' \in [Roles -> RoleRecord]
    BY <1>3, <2>1, <2>2
  <2>4. ASSUME NEW d \in Editors, edit[d].pc # "idle" PROVE EditIn(edit[d], role', script)
    <3>1. EditIn(edit[d], role, script) /\ edit[d] \in EditRecord
      BY <2>4, EditFacts DEF VoicesInv
    <3>2. edit[d].of \in Roles /\ edit[d].from \in Nat /\ role[edit[d].of].version \in Nat
      BY <1>3, <3>1 DEF EditRecord, RoleRecord
    <3>3. CASE edit[d].of = r
      <4>1. role'[edit[d].of].version = role[edit[d].of].version + 1
        BY <1>3, <2>1, <2>2, <3>3
      <4> QED
        BY <3>1, <3>2, <4>1 DEF EditIn
    <3>4. CASE edit[d].of # r
      <4>1. role'[edit[d].of] = role[edit[d].of]
        BY <1>3, <2>1, <3>2, <3>4
      <4> QED
        BY <3>1, <4>1 DEF EditIn
    <3> QED
      BY <3>3, <3>4
  <2>5. VoicesInv'
    <3>1. \A d \in Editors : edit'[d].pc # "idle" => edit'[d] = edit[d] /\ edit[d].pc # "idle"
      BY <1>1, EditFacts DEF VoicesInv
    <3>2. \A d \in Editors : edit'[d].pc # "idle" => EditIn(edit'[d], role', script')
      BY <1>1, <2>4, <3>1
    <3> QED
      BY <1>1, <2>3, <3>2 DEF VoicesInv
  <2>6. ASSUME NEW sp \in SpeakerIds, sp \notin SpeakersAsked(old, to)
        PROVE  \A v : (\E q \in Roles : role'[q].enabled /\ role'[q].speaker = sp
                                          /\ role'[q].voice = v /\ v # Silent)
                      <=> (\E q \in Roles : role[q].enabled /\ role[q].speaker = sp
                                          /\ role[q].voice = v /\ v # Silent)
    <3>1. role'[r] = row /\ \A q \in Roles \ {r} : role'[q] = role[q]
      BY <1>3, <2>1
    <3>2. /\ old.speaker = role[r].speaker /\ old.voice = role[r].voice
          /\ old.enabled = role[r].enabled
      BY DEF Selection
    <3>3. /\ row.speaker = to.speaker /\ row.voice = to.voice /\ row.enabled = to.enabled
      OBVIOUS
    <3>4. ~(IsVoice(old) /\ old # to /\ old.speaker = sp)
      BY <2>6 DEF SpeakersAsked
    <3>5. ~(IsVoice(to) /\ (~IsVoice(old) \/ to.speaker # old.speaker) /\ to.speaker = sp)
      BY <2>6 DEF SpeakersAsked
    <3>6. \A v : (role'[r].enabled /\ role'[r].speaker = sp /\ role'[r].voice = v /\ v # Silent)
                 <=> (role[r].enabled /\ role[r].speaker = sp /\ role[r].voice = v /\ v # Silent)
      <4> HIDE DEF old, to, row, r
      <4>1. CASE old = to
        BY <3>1, <3>2, <3>3, <4>1
      <4>2. CASE old # to
        <5>1. ~(old.enabled /\ old.voice # Silent /\ old.speaker = sp)
          BY <3>4, <4>2 DEF IsVoice
        <5>2. ~(to.enabled /\ to.voice # Silent /\ to.speaker = sp)
          BY <3>5, <5>1 DEF IsVoice
        <5> QED
          BY <3>1, <3>2, <3>3, <5>1, <5>2
      <4> QED
        BY <4>1, <4>2
    <3> QED
      BY <1>3, <3>1, <3>6
  <2>7. ASSUME NEW x \in Scripts, script[x].status \in Live,
               script[x].speaker \notin SpeakersAsked(old, to)
        PROVE  Resolved(script[x].speaker)' = Resolved(script[x].speaker)
    <3>1. script[x].speaker \in SpeakerIds
      BY DEF VoicesInv, Script
    <3>2. \A v : v \in Resolved(script[x].speaker)' <=> v \in Resolved(script[x].speaker)
      BY <1>1, <2>6, <2>7, <3>1 DEF Resolved
    <3> QED
      BY <3>2
  <2>8. \A x \in Scripts : /\ script[x].status \in Live
                           /\ script[x].speaker \in SpeakersAsked(old, to)
                           => x \in edit[e].missed
    BY <1>1, <1>2, <2>1 DEF EditIn
  <2>9. VoiceStep
    BY <1>1, <2>7, <2>8 DEF VoiceStep
  <2> QED
    BY <2>5, <2>9
<1> QED
  BY <1>4, <1>5

\* No role, no script and no edit.
LEMMA VoicesInitEstablishes == VoicesInit => VoicesInv
<1> SUFFICES ASSUME VoicesInit PROVE VoicesInv
  OBVIOUS
<1>1. NoRole \in RoleRecord
  BY SpeakerAssumption DEF NoRole, RoleRecord, VoiceOrSilent
<1>2. NoScript \in Script
  BY SpeakerAssumption DEF NoScript, Script, Stage, VoiceOrSilent
<1> QED
  BY <1>1, <1>2 DEF VoicesInit, VoicesInv, NoEdit

\* Every step keeps the edits in order and the voices of the live scripts.
LEMMA VoicesStepKeeps == VoicesInv /\ [VoicesNext]_voiceVars => VoicesInv' /\ VoiceStep
<1> SUFFICES ASSUME VoicesInv, [VoicesNext]_voiceVars PROVE VoicesInv' /\ VoiceStep
  OBVIOUS
<1>1. ASSUME role' = role, \A y \in Scripts : script[y].status \in Live =>
                                                 script'[y].speaker = script[y].speaker
      PROVE  VoiceStep
  BY <1>1 DEF VoiceStep, Resolved
<1>2. ASSUME NEW x \in Scripts,
             \/ ApproveFirst(x) \/ WriteScript(x) \/ CreateBatch(x) \/ SpeakScript(x)
             \/ FinishScript(x) \/ RequestChanges(x)
      PROVE  VoicesInv' /\ VoiceStep
  BY <1>1, <1>2, ScriptSteps
<1>3. ASSUME NEW e \in Editors, AskGuard(e) \/ GuardFails(e) \/ SaveRole(e)
      PROVE  VoicesInv' /\ VoiceStep
  <2>1. CASE AskGuard(e)
    BY <1>1, <2>1, AskGuardKeeps DEF AskGuard
  <2>2. CASE GuardFails(e)
    BY <1>1, <2>2, GuardFailsKeeps DEF GuardFails
  <2> QED
    BY <1>3, <2>1, <2>2, SaveRoleKeeps
<1>4. ASSUME NEW e \in Editors, NEW r \in Roles, BeginEdit(e, r) PROVE VoicesInv' /\ VoiceStep
  BY <1>1, <1>4, BeginEditKeeps DEF BeginEdit
<1>5. CASE UNCHANGED voiceVars
  BY <1>1, <1>5 DEF voiceVars, VoicesInv
<1> QED
  BY <1>2, <1>3, <1>4, <1>5 DEF VoicesNext

\* The voice of a speaker stands still under a live script, except for a script
\* written after the edit had asked for its speaker.
THEOREM VoiceStandsAlways == VoicesSpec => VoiceStands
<1>1. VoicesInv /\ [VoicesNext]_voiceVars => VoicesInv'
  BY VoicesStepKeeps
<1>2. VoicesInv /\ [VoicesNext]_voiceVars => [VoiceStep]_voiceVars
  BY VoicesStepKeeps
<1>3. [VoiceStep]_voiceVars =>
        [\A x \in Scripts :
            LET sp == script[x].speaker IN
            script[x].status \in Live /\ Resolved(sp)' # Resolved(sp) =>
                \E e \in Editors : edit[e].pc = "saving" /\ x \in edit[e].missed]_voiceVars
  BY DEF VoiceStep
<1> QED
  BY VoicesInitEstablishes, <1>1, <1>2, <1>3, PTL DEF VoicesSpec, VoiceStands

=============================================================================
