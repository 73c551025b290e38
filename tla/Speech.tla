------------------------------- MODULE Speech -------------------------------
(***************************************************************************)
(* The speech engine: one synthesis at a time starts a model server for    *)
(* each run of segments with the same weights, speaks the segments through *)
(* it and stops it, and notes for every clip which files spoke it, while   *)
(* an operator replaces files, calls are cancelled, servers die and the    *)
(* engine closes (infrastructure/tts/gpt_sovits.py, processes.py).         *)
(*                                                                         *)
(* The pair of weight files of a voice runtime is one file here, named by  *)
(* the runtime. A file is its content, which never comes back once         *)
(* replaced, and its stamp (size and mtime), which a replacement may keep. *)
(***************************************************************************)
EXTENDS Naturals, Sequences, FiniteSets, FiniteSetsExt

CONSTANTS
    Syntheses,    \* calls of synthesize
    Servers,      \* identities of server processes
    Runtimes,     \* voice runtimes, and their weight files
    Reference,    \* the reference recording
    NoServer,     \* no active runtime
    Plans,        \* the runtimes of the segments of a script, in order
    MaxContent,   \* bound: replacements of files
    MaxCancels    \* bound: cancellations of a call

ASSUME RuntimeAssumption == Reference \notin Runtimes
ASSUME ServerAssumption == NoServer \notin Servers
ASSUME PlanAssumption == Plans \subseteq Seq(Runtimes) \ {<<>>}
ASSUME SpeechBoundAssumption == MaxContent \in Nat /\ MaxCancels \in Nat

VARIABLES
    file,      \* file -> its content and stamp
    hashed,    \* _file_hash_cache: file and stamp -> content
    process,   \* server -> its process
    active,    \* _active
    stopping,  \* servers with a _stop_server under way
    call,      \* synthesis -> where it is
    service    \* "up", "closing", "closed", with the servers aclose waits for

speechVars == <<file, hashed, process, active, stopping, call, service>>

Files == Runtimes \cup {Reference}
NoProcess == [state |-> "unused", runtime |-> Reference, loaded |-> 0]
Alive(s) == process[s].state \in {"loading", "ready"}

\* spoken is what has been noted of each clip beside what really spoke it.
Resting == [pc |-> "idle", plan |-> <<>>, current |-> NoServer, runtime |-> Reference,
            starting |-> NoServer, weights |-> [content |-> 0, stamp |-> 0],
            recording |-> [content |-> 0, stamp |-> 0], heard |-> 0,
            spoken |-> <<>>, cancels |-> 0]

Starting == {"preparing", "spawning", "attaching", "probing", "verifying", "aborting",
             "hashing"}
InEngine == Starting \cup {"planning", "choosing", "switching", "checking", "speaking",
                           "killing", "rechecking", "ending"}

SpeechInit ==
    /\ file = [f \in Files |-> [content |-> 0, stamp |-> 0]]
    /\ hashed = [f \in Files |-> [n \in {} |-> 0]]
    /\ process = [s \in Servers |-> NoProcess]
    /\ active = {}
    /\ stopping = {}
    /\ call = [c \in Syntheses |-> Resting]
    /\ service = [phase |-> "up", closing |-> {}]

At(c, pc) == call[c].pc = pc /\ service.phase # "closed"
MoveTo(c, pc) == call' = [call EXCEPT ![c].pc = pc]
Segment(c) == Len(call[c].spoken) + 1

-----------------------------------------------------------------------------
(* Files and their hashes *)

\* An operator replaces a file, and may restore its modification time.
ReplaceFile(f) ==
    /\ MapThenSumSet(LAMBDA g : file[g].content, Files) < MaxContent
    /\ \E kept \in BOOLEAN :
          file' = [file EXCEPT ![f].content = @ + 1,
                               ![f].stamp = IF kept THEN @ ELSE @ + 1]
    /\ UNCHANGED <<hashed, process, active, stopping, call, service>>

\* _snapshot_file: the hash comes from the cache unless it is refreshed.
Digest(f, refresh) ==
    LET stamp == file[f].stamp IN
    IF ~refresh /\ stamp \in DOMAIN hashed[f] THEN hashed[f][stamp] ELSE file[f].content

SnapshotFile(f, refresh) ==
    [content |-> Digest(f, refresh), stamp |-> file[f].stamp]

\* The hashes that reading some files, and refreshing others, leaves behind.
Hash(read, refreshed) ==
    hashed' = [f \in Files |->
        IF f \in read \cup refreshed
        THEN [n \in DOMAIN hashed[f] \cup {file[f].stamp} |->
                 IF n = file[f].stamp THEN Digest(f, f \in refreshed) ELSE hashed[f][n]]
        ELSE hashed[f]]

\* _assert_snapshot_unchanged, with and without verify_content.
Unchanged(f, snapshot) == SnapshotFile(f, FALSE) = snapshot
\* Fault: the content is not hashed again.
VerifiedByStamp(f, snapshot) == Unchanged(f, snapshot)
Verified(f, snapshot) == SnapshotFile(f, TRUE) = snapshot

-----------------------------------------------------------------------------
(* Stopping a server *)

\* _stop_server under the server's lock: its second caller finds nothing left.
AskToStop(s) == stopping' = stopping \cup ({s} \cap active)
HasStopped(s) == s \notin active

\* Fault: the server is forgotten before its process has ended.
ForgetServer(s) ==
    /\ s \in stopping
    /\ active' = active \ {s}
    /\ stopping' = stopping \ {s}
    /\ UNCHANGED <<file, hashed, process, call, service>>

\* It exits, or its tree is terminated at the deadline.
StopServer(s) ==
    /\ s \in stopping /\ service.phase # "closed"
    /\ process' = [process EXCEPT ![s].state = "ended"]
    /\ active' = active \ {s}
    /\ stopping' = stopping \ {s}
    /\ UNCHANGED <<file, hashed, call, service>>

ServerDies(s) ==
    /\ Alive(s)
    /\ process' = [process EXCEPT ![s].state = "ended"]
    /\ UNCHANGED <<file, hashed, active, stopping, call, service>>

ServerLoads(s) ==
    /\ process[s].state = "loading"
    /\ process' = [process EXCEPT ![s].state = "ready",
                                  ![s].loaded = file[process[s].runtime].content]
    /\ UNCHANGED <<file, hashed, active, stopping, call, service>>

-----------------------------------------------------------------------------
(* A synthesis *)

Synthesize(c) ==
    /\ At(c, "idle")
    /\ \E plan \in Plans : call' = [call EXCEPT ![c] = [Resting EXCEPT !.pc = "waiting", !.plan = plan]]
    /\ UNCHANGED <<file, hashed, process, active, stopping, service>>

EngineFree == \A c \in Syntheses : call[c].pc \notin InEngine

\* The semaphore; then the voices of the speakers are resolved and validated.
Enter(c) ==
    /\ At(c, "waiting") /\ EngineFree
    /\ MoveTo(c, "planning")
    /\ UNCHANGED <<file, hashed, process, active, stopping, service>>

Planned(c) ==
    /\ At(c, "planning")
    /\ MoveTo(c, "choosing")
    /\ UNCHANGED <<file, hashed, process, active, stopping, service>>

\* A failure after which the finally of _generate_clips follows.
Fail(c) ==
    /\ MoveTo(c, "ending")
    /\ AskToStop(call[c].current)

\* The loop over the plan: the same weights stay loaded.
ChooseRuntime(c) ==
    /\ At(c, "choosing")
    /\ \/ /\ Segment(c) > Len(call[c].plan)
          /\ Fail(c)
       \/ /\ Segment(c) <= Len(call[c].plan)
          /\ LET wanted == call[c].plan[Segment(c)] IN
             IF wanted = call[c].runtime
             THEN MoveTo(c, "checking") /\ UNCHANGED stopping
             ELSE /\ MoveTo(c, IF call[c].current = NoServer THEN "preparing" ELSE "switching")
                  /\ AskToStop(call[c].current)
    /\ UNCHANGED <<file, hashed, process, active, service>>

Switched(c) ==
    /\ At(c, "switching") /\ HasStopped(call[c].current)
    /\ MoveTo(c, "preparing")
    /\ UNCHANGED <<file, hashed, process, active, stopping, service>>

\* The configuration is written and the weights are hashed.
Prepare(c) ==
    /\ At(c, "preparing")
    /\ LET f == call[c].plan[Segment(c)] IN
          /\ Hash({f}, {})
          /\ call' = [call EXCEPT ![c].pc = "spawning", ![c].weights = SnapshotFile(f, FALSE)]
    /\ UNCHANGED <<file, process, active, stopping, service>>

SpawnServer(c) ==
    /\ At(c, "spawning")
    /\ \E s \in Servers :
          /\ process[s] = NoProcess
          /\ process' = [process EXCEPT ![s] =
                [NoProcess EXCEPT !.state = "loading", !.runtime = call[c].plan[Segment(c)]]]
          /\ call' = [call EXCEPT ![c].pc = "attaching", ![c].starting = s]
    /\ UNCHANGED <<file, hashed, active, stopping, service>>

\* Only now does the engine know its server.
Attach(c) ==
    /\ At(c, "attaching")
    /\ active' = active \cup {call[c].starting}
    /\ MoveTo(c, "probing")
    /\ UNCHANGED <<file, hashed, process, stopping, service>>

Probed(c) ==
    /\ At(c, "probing") /\ process[call[c].starting].state = "ready"
    /\ MoveTo(c, "verifying")
    /\ UNCHANGED <<file, hashed, process, active, stopping, service>>

\* The deadline passes, the server exits or the weights have changed.
Abort(c) ==
    /\ MoveTo(c, "aborting")
    /\ AskToStop(call[c].starting)

StartupFails(c) ==
    /\ At(c, "probing")
    /\ Abort(c)
    /\ UNCHANGED <<file, hashed, process, active, service>>

VerifyWeights(c) ==
    /\ At(c, "verifying")
    /\ LET f == call[c].plan[Segment(c)] IN
          /\ Hash({}, {f})
          /\ IF Verified(f, call[c].weights)
             THEN MoveTo(c, "hashing") /\ UNCHANGED stopping
             ELSE Abort(c)
    /\ UNCHANGED <<file, process, active, service>>

Aborted(c) ==
    /\ At(c, "aborting") /\ HasStopped(call[c].starting)
    /\ Fail(c)
    /\ UNCHANGED <<file, hashed, process, active, service>>

\* The hash of the configuration, outside the handler that stops the server.
HashConfig(c) ==
    /\ At(c, "hashing")
    /\ call' = [call EXCEPT ![c].pc = "checking",
                            ![c].current = call[c].starting, ![c].starting = NoServer,
                            ![c].runtime = call[c].plan[Segment(c)]]
    /\ UNCHANGED <<file, hashed, process, active, stopping, service>>

CheckFiles(c) ==
    /\ At(c, "checking")
    /\ IF Unchanged(call[c].runtime, call[c].weights)
       THEN /\ Hash({call[c].runtime, Reference}, {})
            /\ call' = [call EXCEPT ![c].pc = "speaking",
                                    ![c].recording = SnapshotFile(Reference, FALSE)]
            /\ UNCHANGED stopping
       ELSE Hash({call[c].runtime}, {}) /\ Fail(c)
    /\ UNCHANGED <<file, process, active, service>>

\* The server reads the reference recording and answers.
Speak(c) ==
    /\ At(c, "speaking") /\ process[call[c].current].state = "ready"
    /\ call' = [call EXCEPT ![c].pc = "rechecking", ![c].heard = file[Reference].content]
    /\ UNCHANGED <<file, hashed, process, active, stopping, service>>

SpeakFails(c) ==
    /\ At(c, "speaking")
    /\ Fail(c)
    /\ UNCHANGED <<file, hashed, process, active, service>>

\* After a timeout the process is terminated before the failure is raised.
SpeakTimesOut(c) ==
    /\ At(c, "speaking")
    /\ MoveTo(c, "killing")
    /\ UNCHANGED <<file, hashed, process, active, stopping, service>>

Killed(c) ==
    /\ At(c, "killing")
    /\ process' = [process EXCEPT ![call[c].current].state = "ended"]
    /\ Fail(c)
    /\ UNCHANGED <<file, hashed, active, service>>

Clip(c) == [weights |-> call[c].weights.content, recording |-> call[c].recording.content,
            by |-> call[c].current, heard |-> call[c].heard]

RecheckFiles(c) ==
    /\ At(c, "rechecking")
    /\ Hash(IF Verified(Reference, call[c].recording) THEN {call[c].runtime} ELSE {}, {Reference})
    /\ IF /\ Verified(Reference, call[c].recording)
          /\ Unchanged(call[c].runtime, call[c].weights)
       THEN /\ call' = [call EXCEPT ![c].pc = "choosing",
                                    ![c].spoken = Append(@, Clip(c))]
            /\ UNCHANGED stopping
       ELSE Fail(c)
    /\ UNCHANGED <<file, process, active, service>>

\* The bundle is returned or the failure raised, and the semaphore released.
Return(c) ==
    /\ At(c, "ending") /\ HasStopped(call[c].current)
    /\ call' = [call EXCEPT ![c] = Resting]
    /\ UNCHANGED <<file, hashed, process, active, stopping, service>>

\* An error of a file, of the configuration or of the voices.
PreparationFails(c) ==
    /\ call[c].pc \in {"planning", "preparing", "spawning", "checking"} /\ service.phase # "closed"
    /\ IF call[c].pc = "planning"
       THEN call' = [call EXCEPT ![c] = Resting] /\ UNCHANGED stopping
       ELSE Fail(c)
    /\ UNCHANGED <<file, hashed, process, active, service>>

\* What a cancellation does depends on the await it reaches. Those that wait
\* for a shielded stop leave it to itself.
Cancel(c) ==
    /\ call[c].pc # "idle" /\ service.phase # "closed"
    /\ call[c].cancels < MaxCancels
    /\ LET pc == call[c].pc
           counted == [call[c] EXCEPT !.cancels = @ + 1] IN
       \/ /\ pc \in {"waiting", "planning", "ending"}
          /\ call' = [call EXCEPT ![c] = Resting]
          /\ UNCHANGED stopping
       \/ /\ pc \in {"probing", "verifying"}
          /\ call' = [call EXCEPT ![c] = [counted EXCEPT !.pc = "aborting"]]
          /\ AskToStop(call[c].starting)
       \/ /\ pc \in InEngine \ {"planning", "ending", "probing", "verifying"}
          /\ call' = [call EXCEPT ![c] = [counted EXCEPT !.pc = "ending"]]
          /\ AskToStop(call[c].current)
    /\ UNCHANGED <<file, hashed, process, active, service>>

-----------------------------------------------------------------------------
\* aclose stops the servers it knows of.
CloseEngine ==
    /\ service.phase = "up"
    /\ service' = [phase |-> "closing", closing |-> active]
    /\ stopping' = stopping \cup active
    /\ UNCHANGED <<file, hashed, process, active, call>>

EngineClosed ==
    /\ service.phase = "closing"
    /\ \A s \in service.closing : HasStopped(s)
    /\ service' = [service EXCEPT !.phase = "closed"]
    /\ UNCHANGED <<file, hashed, process, active, stopping, call>>

SynthesisStep(c) ==
    \/ Synthesize(c) \/ Enter(c) \/ Planned(c) \/ ChooseRuntime(c) \/ Switched(c)
    \/ Prepare(c) \/ SpawnServer(c) \/ Attach(c) \/ Probed(c) \/ StartupFails(c)
    \/ VerifyWeights(c) \/ Aborted(c) \/ HashConfig(c) \/ CheckFiles(c)
    \/ Speak(c) \/ SpeakFails(c) \/ SpeakTimesOut(c) \/ Killed(c)
    \/ RecheckFiles(c) \/ Return(c) \/ PreparationFails(c) \/ Cancel(c)

SpeechNext ==
    \/ \E c \in Syntheses : SynthesisStep(c)
    \/ \E f \in Files : ReplaceFile(f)
    \/ \E s \in Servers : StopServer(s) \/ ServerDies(s) \/ ServerLoads(s)
    \/ CloseEngine \/ EngineClosed

SpeechSpec == SpeechInit /\ [][SpeechNext]_speechVars

-----------------------------------------------------------------------------
(* Provenance is true: whatever is replaced meanwhile, with or without a new  *)
(* time stamp, a clip is noted with the very weights its server had loaded,   *)
(* which are those of its segment's voice, and with the recording that was    *)
(* read (_start_runtime, _assert_snapshot_unchanged, _file_hash_cache).       *)
ProvenanceIsTrue ==
    \A c \in Syntheses : \A k \in DOMAIN call[c].spoken :
        LET clip == call[c].spoken[k] IN
            /\ process[clip.by].runtime = call[c].plan[k]
            /\ clip.weights = process[clip.by].loaded
            /\ clip.recording = clip.heard

(* A stopped server is gone: a synthesis that starts a server has seen the    *)
(* one before it end, and once the engine has closed none of the servers it    *)
(* knew of runs, whoever else was stopping them (_stop_server, aclose).       *)
StoppedIsGone ==
    /\ \A c \in Syntheses :
          call[c].pc \in Starting /\ call[c].current # NoServer =>
              ~Alive(call[c].current)
    /\ service.phase = "closed" => \A s \in service.closing : ~Alive(s)

=============================================================================
