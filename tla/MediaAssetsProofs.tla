------------------------- MODULE MediaAssetsProofs -------------------------
(***************************************************************************)
(* What MediaAssets guarantees for every number of requests, assets and    *)
(* versions. Everything rests on one inductive invariant: what a request   *)
(* in flight remembers is still true of the story, the tables, the files   *)
(* and the catalog when it comes to use it, no matter what the other       *)
(* requests, the workflow and the cleanup did in between. The lock gives   *)
(* this for the requests that hold it; the Commons requests, the reviewer  *)
(* and a cleanup cancelled out of its lock are protected by what they do.  *)
(***************************************************************************)
EXTENDS MediaAssets, TLAPS

(* Types *)

Statuses == {"SCRIPT_READY", "PENDING_SECOND_REVIEW", "DONE", "ARCHIVED"}
Story == [version : Nat, revision : Nat, status : Statuses, seen : SUBSET Assets]
Presence == {"none", "fresh", "old"}
Entry == [archived : BOOLEAN, version : Nat]
Ops == {"none", "upload", "delete", "acquire", "stage", "reuse", "approve", "reject",
        "archive", "restore", "review"}
Steps == {"idle", "begun", "written", "discarding", "read"}
MaybeAsset == Assets \cup {NoAsset}
Operation == [op : Ops, step : Steps, asset : MaybeAsset, at : Nat, revision : Nat,
              shown : SUBSET Assets]
Run == [step : {"idle", "scanning", "deleting"}, protected : SUBSET Assets,
        doomed : SUBSET Assets, due : SUBSET Assets, cancelled : BOOLEAN]
MaybeRow == Row \cup {NoAsset}

TypeOK ==
    /\ story \in Story
    /\ rows \in [Assets -> MaybeRow]
    /\ files \in [Assets -> Presence]
    /\ catalog \in [Assets -> Entry]
    /\ lock \in Workers \cup {NoOne, Retention}
    /\ job \in [Workers -> Operation]
    /\ cleanup \in Run

(* The inductive invariant *)

\* The operations that run under the asset lifecycle lock.
Locking == {"upload", "delete", "acquire", "archive", "restore"}
\* A request that has chosen an id for an asset without a row.
Creates(c) ==
    c.op \in {"upload", "acquire", "stage", "reuse"} /\ c.step \in {"begun", "written"}
Discards(c) == c.step = "discarding"

CreatesIn(r, f, c) ==
    Creates(c) =>
        /\ c.asset \in Assets /\ r[c.asset] = NoAsset
        /\ c.step = "begun" => f[c.asset] = "none"
        /\ c.step = "written" => f[c.asset] = "fresh"

\* What is to be removed has lost its row and still has its file.
DiscardsIn(r, f, c) ==
    Discards(c) =>
        /\ c.op \in {"upload", "delete"}
        /\ \A a \in c.shown : r[a] = NoAsset /\ f[a] # "none"

Commons(r, a) == a \in Assets /\ r[a] # NoAsset /\ r[a].kind = "commons"

ReadsIn(r, c) ==
    /\ c.op \in {"approve", "reject"} => Commons(r, c.asset)
    /\ c.op = "reuse" => \A a \in c.shown : Commons(r, a)
    /\ c.op \in {"archive", "restore"} => \A a \in c.shown : r[a] # NoAsset

\* The uploads of a revision in a table.
Images(r, n) == {a \in Assets : r[a] # NoAsset /\ r[a].kind = "upload" /\ r[a].revision = n}

\* What the upload would replace was not archived meanwhile, and a story that
\* was approved meanwhile has another version.
UploadsIn(s, r, k, c) ==
    c.op = "upload" /\ Creates(c) =>
        /\ c.at <= s.version
        /\ c.at = s.version => s.status # "DONE"
        /\ \A a \in Images(r, c.revision) : ~k[a].archived

\* Images shown under a version are those of the story while it has the version.
ReviewsIn(s, r, c) ==
    c.op = "review" =>
        /\ c.at <= s.version
        /\ c.at = s.version => c.revision = s.revision
        /\ c.at = s.version /\ c.step = "read" => c.shown = Images(r, s.revision)

JobIn(s, r, f, k, c) ==
    /\ CreatesIn(r, f, c) /\ DiscardsIn(r, f, c) /\ ReadsIn(r, c)
    /\ UploadsIn(s, r, k, c) /\ ReviewsIn(s, r, c)

JobOK(c) == JobIn(story, rows, files, catalog, c)

Locked == \A w \in Workers : job[w].op \in Locking => lock = w

\* The asset a request creates is no other request's.
Disjoint(c, d) ==
    Creates(c) => d.asset # c.asset /\ (Discards(d) => c.asset \notin d.shown)
Apart == \A v, w \in Workers : v # w => Disjoint(job[v], job[w])

ArchivedIsNamed == \A a \in Assets : catalog[a].archived => rows[a] # NoAsset

\* No row and no request needs the file.
Unneeded(a) ==
    rows[a] = NoAsset /\ \A w \in Workers : Discards(job[w]) => a \notin job[w].shown
CleanupOK ==
    /\ cleanup.step = "scanning" =>
          \A a \in Assets : files[a] = "old" /\ a \notin cleanup.protected => Unneeded(a)
    /\ cleanup.step # "deleting" => cleanup.doomed = {}
    /\ \A a \in cleanup.doomed : files[a] = "old" /\ Unneeded(a)

IInv ==
    /\ TypeOK
    /\ \A w \in Workers : JobOK(job[w])
    /\ Locked
    /\ Apart
    /\ ArchivedIsNamed
    /\ CleanupOK
    /\ NamedFilesExist
    /\ FinalReviewSawTheImages

\* What a step leaves of the archived assets.
Stays ==
    \A a \in Assets : catalog[a].archived /\ files[a] # "none" =>
        rows'[a] # NoAsset /\ files'[a] # "none"

-----------------------------------------------------------------------------
(* Lemmas about the helpers *)

\* A request at rest is a well-typed job that no rule constrains.
LEMMA IdleFacts ==
    /\ Idle \in Operation
    /\ Idle.op = "none" /\ Idle.asset = NoAsset /\ ~Creates(Idle) /\ ~Discards(Idle)
    /\ \A s, r, f, k : JobIn(s, r, f, k, Idle)
BY DEF Idle, Operation, Ops, Steps, MaybeAsset, Creates, Discards, JobIn, CreatesIn,
       DiscardsIn, ReadsIn, UploadsIn, ReviewsIn

\* A retention run at rest is well typed.
LEMMA NoCleanupType == NoCleanup \in Run
BY DEF NoCleanup, Run

\* The repository's query and the set of images of the table are one.
LEMMA ImagesAreUploads == \A n : Uploads(n) = Images(rows, n)
BY DEF Uploads, Named, Images

\* A new table keeps what the jobs know of the old one.
KeepsRows(r, q) ==
    /\ \A a \in Assets : r[a] # NoAsset => q[a] # NoAsset /\ q[a].kind = r[a].kind
    /\ \A n : Images(q, n) = Images(r, n)

\* A job is not disturbed by a step that leaves its own asset, what it is to
\* remove and the rows it read alone.
LEMMA JobFrame ==
    ASSUME NEW s, NEW r, NEW f, NEW k, NEW q, NEW g, NEW c \in Operation,
           JobIn(s, r, f, k, c), KeepsRows(r, q),
           Creates(c) => q[c.asset] = r[c.asset] /\ g[c.asset] = f[c.asset],
           Discards(c) => \A a \in c.shown : q[a] = r[a] /\ g[a] # "none"
    PROVE  JobIn(s, q, g, k, c)
<1>1. CreatesIn(q, g, c)
  BY DEF JobIn, CreatesIn
<1>2. DiscardsIn(q, g, c)
  BY DEF JobIn, DiscardsIn
<1>3. ReadsIn(q, c)
  BY DEF JobIn, ReadsIn, Commons, KeepsRows, Operation
<1>4. UploadsIn(s, q, k, c) /\ ReviewsIn(s, q, c)
  BY DEF JobIn, UploadsIn, ReviewsIn, KeepsRows
<1> QED
  BY <1>1, <1>2, <1>3, <1>4 DEF JobIn

\* Who may hold the lock after a request of w: others keep what they need.
LEMMA ReleaseFacts ==
    ASSUME TypeOK, Locked, NEW w \in Workers
    PROVE  /\ Released(w) \in Workers \cup {NoOne, Retention}
           /\ \A v \in Workers \ {w} : job[v].op \in Locking => Released(w) = v
BY DEF TypeOK, Locked, Released

\* Nobody else works under a lock that w holds or that is free.
LEMMA LockExcludes ==
    ASSUME TypeOK, Locked, NEW w \in Workers, lock = w \/ lock = NoOne
    PROVE  \A v \in Workers \ {w} : job[v].op \notin Locking
BY HolderNames DEF TypeOK, Locked

-----------------------------------------------------------------------------
(* Steps that only move one request on *)

\* Request w goes on as j: nothing is stored, and j holds the lock if it needs
\* it, knows only what is true, and creates an asset of its own.
Moves(w, j) ==
    /\ job' = [job EXCEPT ![w] = j]
    /\ UNCHANGED <<story, rows, files, catalog, cleanup>>
    /\ lock' \in Workers \cup {NoOne, Retention}
    /\ j.op \in Locking => lock' = w
    /\ \A v \in Workers \ {w} : job[v].op \in Locking => lock' = v
    /\ j \in Operation /\ ~Discards(j) /\ JobOK(j)
    /\ \A v \in Workers \ {w} : Disjoint(j, job[v]) /\ Disjoint(job[v], j)

\* Such a step preserves the invariant.
LEMMA MoveStep ==
    ASSUME IInv, NEW w \in Workers, NEW j, Moves(w, j)
    PROVE  IInv' /\ Stays
<1> USE DEF IInv
<1>0. /\ job' = [job EXCEPT ![w] = j] /\ job' \in [Workers -> Operation]
      /\ UNCHANGED <<story, rows, files, catalog, cleanup>>
  BY DEF Moves, TypeOK
<1>1. TypeOK'
  BY <1>0 DEF TypeOK, Moves
<1>2. \A v \in Workers : JobOK(job[v])'
  BY <1>0 DEF Moves, JobOK, TypeOK
<1>3. Locked'
  BY <1>0 DEF Moves, Locked, TypeOK
<1>4. Apart'
  BY <1>0 DEF Moves, Apart, Disjoint, TypeOK
<1>5. ArchivedIsNamed'
  BY <1>0 DEF ArchivedIsNamed
<1>6. \A a : Unneeded(a) => Unneeded(a)'
  BY <1>0 DEF Moves, Unneeded, TypeOK
<1>7. CleanupOK'
  BY <1>0, <1>6 DEF CleanupOK
<1>8. NamedFilesExist' /\ FinalReviewSawTheImages'
  BY <1>0 DEF NamedFilesExist, FinalReviewSawTheImages, Uploads, Named
<1>9. Stays
  BY <1>0 DEF Stays, ArchivedIsNamed, TypeOK
<1> QED
  BY <1>1, <1>2, <1>3, <1>4, <1>5, <1>7, <1>8, <1>9

-----------------------------------------------------------------------------
(* Steps that end one request *)

\* The asset a request creates or, when the row is gone, is to remove.
Owns(w, a) ==
    \/ Creates(job[w]) /\ a = job[w].asset
    \/ Discards(job[w]) /\ a \in job[w].shown

\* Request w ends: the files in X, which nobody else needs, are gone, and in
\* the table q at most its own asset, no upload, has appeared.
Ends(w, X, q) ==
    /\ job' = Ended(w) /\ lock' = Released(w) /\ rows' = q
    /\ UNCHANGED <<story, catalog, cleanup>>
    /\ files' = [a \in Assets |-> IF a \in X THEN "none" ELSE files[a]]
    /\ \A a \in X : rows[a] = NoAsset /\ Owns(w, a)
    /\ q \in [Assets -> MaybeRow] /\ KeepsRows(rows, q)
    /\ \A a \in Assets : rows[a] = NoAsset /\ q[a] # NoAsset =>
          /\ Creates(job[w]) /\ a = job[w].asset /\ files[a] = "fresh"
          /\ q[a].kind # "source" => a \notin X

\* What a request that ends leaves of the files.
LEMMA EndedFiles ==
    ASSUME IInv, NEW w \in Workers, NEW X, NEW q, Ends(w, X, q)
    PROVE  /\ files' \in [Assets -> Presence]
           /\ \A a \in Assets : files'[a] # files[a] => Owns(w, a) /\ a \in X /\ files'[a] = "none"
           /\ \A a \in Assets : files'[a] = "old" => files[a] = "old"
BY DEF Ends, IInv, TypeOK, Presence

\* No other request owns what w owns.
LEMMA OwnersApart ==
    ASSUME IInv, NEW w \in Workers, NEW v \in Workers, v # w
    PROVE  /\ Creates(job[v]) => ~Owns(w, job[v].asset)
           /\ Discards(job[v]) => \A a \in job[v].shown : ~Owns(w, a)
<1>1. Discards(job[v]) => job[v].op \in Locking
  BY DEF IInv, JobOK, JobIn, DiscardsIn, Locking
<1>2. Discards(job[w]) => job[w].op \in Locking
  BY DEF IInv, JobOK, JobIn, DiscardsIn, Locking
<1>3. ~(Discards(job[v]) /\ Discards(job[w]))
  BY <1>1, <1>2 DEF IInv, Locked
<1>4. Disjoint(job[v], job[w]) /\ Disjoint(job[w], job[v])
  BY DEF IInv, Apart
<1> QED
  BY <1>3, <1>4 DEF Disjoint, Owns

\* Such a step preserves the invariant.
LEMMA EndStep ==
    ASSUME IInv, NEW w \in Workers, NEW X, NEW q, Ends(w, X, q)
    PROVE  IInv' /\ Stays
<1> USE DEF IInv
<1>0. /\ job' = [job EXCEPT ![w] = Idle] /\ job' \in [Workers -> Operation]
      /\ lock' = Released(w) /\ rows' = q /\ q \in [Assets -> MaybeRow]
      /\ UNCHANGED <<story, catalog, cleanup>>
  BY IdleFacts DEF Ends, Ended, TypeOK
<1>1. TypeOK'
  BY <1>0, EndedFiles, ReleaseFacts DEF TypeOK
<1>2. \A v \in Workers : JobOK(job[v])'
  <2> SUFFICES ASSUME NEW v \in Workers PROVE JobIn(story, q, files', catalog, job'[v])
    BY <1>0 DEF JobOK
  <2>1. CASE v = w
    BY <2>1, <1>0, IdleFacts DEF TypeOK
  <2>2. CASE v # w
    <3>1. job'[v] = job[v] /\ job[v] \in Operation /\ JobIn(story, rows, files, catalog, job[v])
      BY <2>2, <1>0 DEF TypeOK, JobOK
    <3>2. Creates(job[v]) => /\ q[job[v].asset] = rows[job[v].asset]
                             /\ files'[job[v].asset] = files[job[v].asset]
      BY <2>2, <3>1, OwnersApart, EndedFiles DEF Ends, Owns, JobIn, CreatesIn
    <3>3. Discards(job[v]) => \A a \in job[v].shown : q[a] = rows[a] /\ files'[a] # "none"
      BY <2>2, <3>1, OwnersApart, EndedFiles DEF Ends, Owns, JobIn, DiscardsIn, Operation
    <3> QED
      BY <3>1, <3>2, <3>3, JobFrame DEF Ends
  <2> QED
    BY <2>1, <2>2
<1>3. Locked'
  BY <1>0, ReleaseFacts, IdleFacts DEF Locked, TypeOK, Locking
<1>4. Apart'
  <2> SUFFICES ASSUME NEW v \in Workers, NEW u \in Workers, v # u
               PROVE  Disjoint(job'[v], job'[u])
    BY DEF Apart, Disjoint, Creates, Discards
  <2>1. CASE v = w
    BY <2>1, <1>0, IdleFacts DEF Disjoint, TypeOK
  <2>2. CASE v # w /\ u = w
    <3>1. job'[v] = job[v] /\ job'[u] = Idle
      BY <2>2, <1>0 DEF TypeOK
    <3>2. Creates(job[v]) => job[v].asset # NoAsset
      BY AssetNames DEF JobOK, JobIn, CreatesIn
    <3> QED
      BY <3>1, <3>2, IdleFacts DEF Disjoint
  <2>3. CASE v # w /\ u # w
    BY <2>3, <1>0 DEF Apart, Disjoint, TypeOK
  <2> QED
    BY <2>1, <2>2, <2>3
<1>5. ArchivedIsNamed'
  BY <1>0 DEF ArchivedIsNamed, Ends, KeepsRows
<1>6. \A a \in Assets : files'[a] = "old" /\ Unneeded(a) => Unneeded(a)'
  <2> SUFFICES ASSUME NEW a \in Assets, files'[a] = "old", Unneeded(a)
               PROVE  /\ q[a] = NoAsset
                      /\ \A v \in Workers : Discards(job'[v]) => a \notin job'[v].shown
    BY <1>0 DEF Unneeded, Discards
  <2>1. q[a] = NoAsset
    BY EndedFiles DEF Unneeded, Ends
  <2>2. \A v \in Workers : Discards(job'[v]) => a \notin job'[v].shown
    BY <1>0, IdleFacts DEF Unneeded, TypeOK
  <2> QED
    BY <2>1, <2>2
<1>7. CleanupOK'
  <2>1. \A a \in cleanup.doomed : a \in Assets /\ files'[a] = "old"
    <3> SUFFICES ASSUME NEW a \in cleanup.doomed
                 PROVE  a \in Assets /\ files'[a] = "old"
      OBVIOUS
    <3>1. a \in Assets /\ files[a] = "old" /\ Unneeded(a)
      BY DEF CleanupOK, TypeOK, Run
    <3>2. ~Owns(w, a)
      BY <3>1 DEF Unneeded, Owns, JobOK, JobIn, CreatesIn, Creates
    <3> QED
      BY <3>1, <3>2, EndedFiles
  <2>2. \A a \in Assets : files'[a] = "old" => files[a] = "old"
    BY EndedFiles
  <2> QED
    BY <2>1, <2>2, <1>0, <1>6 DEF CleanupOK
<1>8. NamedFilesExist'
  <2> SUFFICES ASSUME NEW a \in Assets, q[a] # NoAsset, q[a].kind # "source"
               PROVE  files'[a] # "none"
    BY <1>0 DEF NamedFilesExist, Named
  <2>1. CASE rows[a] # NoAsset
    <3>1. rows[a].kind = q[a].kind
      BY <2>1 DEF Ends, KeepsRows
    <3>2. files[a] # "none"
      BY <2>1, <3>1 DEF NamedFilesExist, Named
    <3>3. a \notin X
      BY <2>1 DEF Ends
    <3> QED
      BY <3>2, <3>3, EndedFiles
  <2>2. CASE rows[a] = NoAsset
    BY <2>2, EndedFiles DEF Ends
  <2> QED
    BY <2>1, <2>2
<1>9. FinalReviewSawTheImages'
  <2>1. \A n : Images(q, n) = Images(rows, n)
    BY DEF Ends, KeepsRows
  <2>2. \A n : Uploads(n)' = Images(q, n)
    BY <1>0 DEF Uploads, Named, Images
  <2> QED
    BY <2>1, <2>2, <1>0, ImagesAreUploads DEF FinalReviewSawTheImages
<1>10. Stays
  BY EndedFiles, <1>0 DEF Stays, ArchivedIsNamed, Ends, KeepsRows
<1> QED
  BY <1>1, <1>2, <1>3, <1>4, <1>5, <1>7, <1>8, <1>9, <1>10

-----------------------------------------------------------------------------
(* The requests begin *)

\* A job that begins with an id never used, with the id of a row or with none
\* is apart from every job there is.
LEMMA NewcomerApart ==
    ASSUME IInv, NEW v \in Workers, NEW j, ~Discards(j),
           Creates(j) => j.asset \in Assets /\ New(j.asset),
           j.asset = NoAsset \/ New(j.asset) \/ rows[j.asset] # NoAsset
    PROVE  Disjoint(j, job[v]) /\ Disjoint(job[v], j)
<1>1. New(j.asset) => job[v].asset # j.asset /\ files[j.asset] = "none"
  BY DEF New, InFlight
<1>2. Disjoint(j, job[v])
  BY <1>1 DEF Disjoint, IInv, JobOK, JobIn, DiscardsIn
<1>3. Creates(job[v]) => job[v].asset \in Assets /\ rows[job[v].asset] = NoAsset
  BY DEF IInv, JobOK, JobIn, CreatesIn
<1>4. Disjoint(job[v], j)
  BY <1>1, <1>3, AssetNames DEF Disjoint
<1> QED
  BY <1>2, <1>4

\* The job an operation begins with.
Begun(op, asset, at, revision, shown) ==
    [op |-> op, step |-> "begun", asset |-> asset, at |-> at, revision |-> revision,
     shown |-> shown]

\* What begins has a well-typed job that removes nothing.
LEMMA BegunFacts ==
    ASSUME NEW op \in Ops, NEW asset \in MaybeAsset, NEW at \in Nat, NEW revision \in Nat,
           NEW shown \in SUBSET Assets
    PROVE  LET j == Begun(op, asset, at, revision, shown)
           IN  /\ j \in Operation /\ ~Discards(j)
               /\ j.op = op /\ j.step = "begun" /\ j.asset = asset /\ j.at = at
               /\ j.revision = revision /\ j.shown = shown
               /\ Creates(j) <=> op \in {"upload", "acquire", "stage", "reuse"}
BY DEF Begun, Operation, Steps, Discards, Creates

\* A request under the lock.
LEMMA EnteredMoves ==
    ASSUME IInv, NEW w \in Workers, Enter(w)
    PROVE  /\ lock' \in Workers \cup {NoOne, Retention} /\ lock' = w
           /\ \A v \in Workers \ {w} : job[v].op \in Locking => lock' = v
BY LockExcludes DEF Enter, IInv, TypeOK

\* A request without the lock.
LEMMA UnlockedMoves ==
    ASSUME IInv, NEW w \in Workers, UNCHANGED lock
    PROVE  /\ lock' \in Workers \cup {NoOne, Retention}
           /\ \A v \in Workers \ {w} : job[v].op \in Locking => lock' = v
BY DEF IInv, TypeOK, Locked

\* An upload begins.
LEMMA UploadBeginsStep ==
    ASSUME IInv, NEW w \in Workers, UploadBegins(w)
    PROVE  IInv' /\ Stays
<1>1. PICK a \in Assets : /\ New(a)
                          /\ Begin(w, "upload", a, story.version, story.revision, {})
  BY DEF UploadBegins
<1> DEFINE j == Begun("upload", a, story.version, story.revision, {})
<1>2. /\ j \in Operation /\ ~Discards(j) /\ Creates(j)
      /\ j.op = "upload" /\ j.step = "begun" /\ j.asset = a /\ j.at = story.version
      /\ j.revision = story.revision /\ j.shown = {}
  BY BegunFacts DEF IInv, TypeOK, Story, Ops, MaybeAsset
<1>3. job' = [job EXCEPT ![w] = j] /\ UNCHANGED <<story, rows, files, catalog, cleanup>>
  BY <1>1 DEF UploadBegins, Begin, Begun
<1> HIDE DEF j
<1>4. JobOK(j)
  <2>1. CreatesIn(rows, files, j) /\ DiscardsIn(rows, files, j) /\ ReadsIn(rows, j)
    BY <1>1, <1>2 DEF CreatesIn, DiscardsIn, ReadsIn, New
  <2>2. story.version \in Nat
    BY DEF IInv, TypeOK, Story
  <2>3. UploadsIn(story, rows, catalog, j) /\ ReviewsIn(story, rows, j)
    BY <1>2, <2>2, ImagesAreUploads DEF UploadsIn, ReviewsIn, UploadBegins, Editable
  <2> QED
    BY <2>1, <2>3 DEF JobOK, JobIn
<1>5. \A v \in Workers : Disjoint(j, job[v]) /\ Disjoint(job[v], j)
  BY <1>1, <1>2, NewcomerApart
<1>6. Moves(w, j)
  BY <1>2, <1>3, <1>4, <1>5, EnteredMoves DEF Moves, UploadBegins
<1> QED
  BY <1>6, MoveStep

\* The acquisition of a video begins.
LEMMA AcquireBeginsStep ==
    ASSUME IInv, NEW w \in Workers, AcquireBegins(w)
    PROVE  IInv' /\ Stays
<1>1. PICK a \in Assets : New(a) /\ Begin(w, "acquire", a, 0, 0, {})
  BY DEF AcquireBegins
<1> DEFINE j == Begun("acquire", a, 0, 0, {})
<1>2. /\ j \in Operation /\ ~Discards(j) /\ Creates(j)
      /\ j.op = "acquire" /\ j.step = "begun" /\ j.asset = a
  BY BegunFacts DEF Ops, MaybeAsset
<1>3. job' = [job EXCEPT ![w] = j] /\ UNCHANGED <<story, rows, files, catalog, cleanup>>
  BY <1>1 DEF AcquireBegins, Begin, Begun
<1> HIDE DEF j
<1>4. JobOK(j)
  BY <1>1, <1>2 DEF JobOK, JobIn, CreatesIn, DiscardsIn, ReadsIn, UploadsIn, ReviewsIn, New
<1>5. \A v \in Workers : Disjoint(j, job[v]) /\ Disjoint(job[v], j)
  BY <1>1, <1>2, NewcomerApart
<1>6. Moves(w, j)
  BY <1>2, <1>3, <1>4, <1>5, EnteredMoves DEF Moves, AcquireBegins
<1> QED
  BY <1>6, MoveStep

\* A Commons original begins to be staged.
LEMMA StageBeginsStep ==
    ASSUME IInv, NEW w \in Workers, StageBegins(w)
    PROVE  IInv' /\ Stays
<1>1. PICK a \in Assets : New(a) /\ Begin(w, "stage", a, 0, story.revision, {})
  BY DEF StageBegins
<1> DEFINE j == Begun("stage", a, 0, story.revision, {})
<1>2. /\ j \in Operation /\ ~Discards(j) /\ Creates(j)
      /\ j.op = "stage" /\ j.step = "begun" /\ j.asset = a
  BY BegunFacts DEF Ops, MaybeAsset, IInv, TypeOK, Story
<1>3. /\ job' = [job EXCEPT ![w] = j]
      /\ UNCHANGED <<story, rows, files, catalog, cleanup, lock>>
  BY <1>1 DEF StageBegins, Begin, Begun
<1> HIDE DEF j
<1>4. JobOK(j)
  BY <1>1, <1>2 DEF JobOK, JobIn, CreatesIn, DiscardsIn, ReadsIn, UploadsIn, ReviewsIn, New
<1>5. \A v \in Workers : Disjoint(j, job[v]) /\ Disjoint(job[v], j)
  BY <1>1, <1>2, NewcomerApart
<1>6. Moves(w, j)
  BY <1>2, <1>3, <1>4, <1>5, UnlockedMoves DEF Moves, Locking
<1> QED
  BY <1>6, MoveStep

\* The reuse of an approved asset begins.
LEMMA ReuseBeginsStep ==
    ASSUME IInv, NEW w \in Workers, ReuseBegins(w)
    PROVE  IInv' /\ Stays
<1>1. PICK a \in Assets, from \in DiscoveryProtected :
          New(a) /\ Begin(w, "reuse", a, 0, story.revision, {from})
  BY DEF ReuseBegins
<1>0. Commons(rows, from)
  BY DEF DiscoveryProtected, Named, Commons
<1> DEFINE j == Begun("reuse", a, 0, story.revision, {from})
<1>2. /\ j \in Operation /\ ~Discards(j) /\ Creates(j)
      /\ j.op = "reuse" /\ j.step = "begun" /\ j.asset = a /\ j.shown = {from}
  BY <1>0, BegunFacts DEF Ops, MaybeAsset, IInv, TypeOK, Story, Commons
<1>3. /\ job' = [job EXCEPT ![w] = j]
      /\ UNCHANGED <<story, rows, files, catalog, cleanup, lock>>
  BY <1>1 DEF ReuseBegins, Begin, Begun
<1> HIDE DEF j
<1>4. JobOK(j)
  BY <1>0, <1>1, <1>2 DEF JobOK, JobIn, CreatesIn, DiscardsIn, ReadsIn, UploadsIn,
                          ReviewsIn, New
<1>5. \A v \in Workers : Disjoint(j, job[v]) /\ Disjoint(job[v], j)
  BY <1>1, <1>2, NewcomerApart
<1>6. Moves(w, j)
  BY <1>2, <1>3, <1>4, <1>5, UnlockedMoves DEF Moves, Locking
<1> QED
  BY <1>6, MoveStep

\* The review of a Commons asset begins, to approve or to reject it.
LEMMA ReviewBeginsStep ==
    ASSUME IInv, NEW w \in Workers, NEW verdict \in {"approve", "reject"},
           ReviewBegins(w, verdict)
    PROVE  IInv' /\ Stays
<1>1. PICK a \in Named : rows[a].kind = "commons" /\ Begin(w, verdict, a, 0, 0, {})
  BY DEF ReviewBegins
<1>0. Commons(rows, a) /\ verdict \in Ops
  BY <1>1 DEF Named, Commons, Ops
<1> DEFINE j == Begun(verdict, a, 0, 0, {})
<1>2. /\ j \in Operation /\ ~Discards(j) /\ ~Creates(j)
      /\ j.op = verdict /\ j.step = "begun" /\ j.asset = a
  BY <1>0, BegunFacts DEF MaybeAsset, Commons
<1>3. /\ job' = [job EXCEPT ![w] = j]
      /\ UNCHANGED <<story, rows, files, catalog, cleanup, lock>>
  BY <1>1 DEF ReviewBegins, Begin, Begun
<1> HIDE DEF j
<1>4. JobOK(j)
  BY <1>0, <1>2 DEF JobOK, JobIn, CreatesIn, DiscardsIn, ReadsIn, UploadsIn, ReviewsIn
<1>5. \A v \in Workers : Disjoint(j, job[v]) /\ Disjoint(job[v], j)
  BY <1>0, <1>2, NewcomerApart DEF Commons
<1>6. Moves(w, j)
  BY <1>2, <1>3, <1>4, <1>5, UnlockedMoves DEF Moves, Locking
<1> QED
  BY <1>6, MoveStep

\* An archival or a restoration begins.
LEMMA LifecycleBeginsStep ==
    ASSUME IInv, NEW w \in Workers, LifecycleBegins(w)
    PROVE  IInv' /\ Stays
<1>1. PICK a \in Named, archived \in BOOLEAN :
          Begin(w, IF archived THEN "archive" ELSE "restore", NoAsset, 0, 0,
                Changing(a, archived))
  BY DEF LifecycleBegins
<1> DEFINE op == IF archived THEN "archive" ELSE "restore"
           X == Changing(a, archived)
           j == Begun(op, NoAsset, 0, 0, X)
<1>0. /\ op \in {"archive", "restore"} /\ op \in Ops
      /\ X \in SUBSET Assets /\ \A b \in X : rows[b] # NoAsset
  BY DEF Changing, SameContent, Named, Ops
<1>3. job' = [job EXCEPT ![w] = j] /\ UNCHANGED <<story, rows, files, catalog, cleanup>>
  BY <1>1 DEF LifecycleBegins, Begin, Begun
<1> HIDE DEF op, X
<1>2. /\ j \in Operation /\ ~Discards(j) /\ ~Creates(j)
      /\ j.op = op /\ j.step = "begun" /\ j.asset = NoAsset /\ j.shown = X
  BY <1>0, BegunFacts DEF MaybeAsset
<1> HIDE DEF j
<1>4. JobOK(j)
  BY <1>0, <1>2 DEF JobOK, JobIn, CreatesIn, DiscardsIn, ReadsIn, UploadsIn, ReviewsIn
<1>5. \A v \in Workers : Disjoint(j, job[v]) /\ Disjoint(job[v], j)
  BY <1>2, NewcomerApart
<1>6. Moves(w, j)
  BY <1>2, <1>3, <1>4, <1>5, EnteredMoves DEF Moves, LifecycleBegins
<1> QED
  BY <1>6, MoveStep

\* A reviewer opens the story, then its images.
LEMMA ReviewerReadsStep ==
    ASSUME IInv, NEW w \in Workers, ReviewerReadsStory(w) \/ ReviewerReadsImages(w)
    PROVE  IInv' /\ Stays
<1>0. story.version \in Nat /\ story.revision \in Nat
  BY DEF IInv, TypeOK, Story
<1>1. CASE ReviewerReadsStory(w)
  <2> DEFINE j == Begun("review", NoAsset, story.version, story.revision, {})
  <2>2. /\ j \in Operation /\ ~Discards(j) /\ ~Creates(j)
        /\ j.op = "review" /\ j.step = "begun" /\ j.asset = NoAsset
        /\ j.at = story.version /\ j.revision = story.revision
    BY <1>0, BegunFacts DEF MaybeAsset, Ops
  <2>3. /\ job' = [job EXCEPT ![w] = j]
        /\ UNCHANGED <<story, rows, files, catalog, cleanup, lock>>
    BY <1>1 DEF ReviewerReadsStory, Begin, Begun
  <2> HIDE DEF j
  <2>4. JobOK(j)
    BY <1>0, <2>2 DEF JobOK, JobIn, CreatesIn, DiscardsIn, ReadsIn, UploadsIn, ReviewsIn
  <2>5. \A v \in Workers : Disjoint(j, job[v]) /\ Disjoint(job[v], j)
    BY <2>2, NewcomerApart
  <2>6. Moves(w, j)
    BY <2>2, <2>3, <2>4, <2>5, UnlockedMoves DEF Moves, Locking
  <2> QED
    BY <2>6, MoveStep
<1>2. CASE ReviewerReadsImages(w)
  <2> DEFINE X == Uploads(job[w].revision)
             j == [[job[w] EXCEPT !.step = "read"] EXCEPT !.shown = X]
  <2>1. job[w] \in Operation /\ job[w].op = "review" /\ JobOK(job[w])
    BY <1>2 DEF IInv, TypeOK, ReviewerReadsImages, At
  <2>2. X \in SUBSET Assets /\ X = Images(rows, job[w].revision)
    BY ImagesAreUploads DEF Uploads, Named
  <2>3. /\ job' = [job EXCEPT ![w] = j]
        /\ UNCHANGED <<story, rows, files, catalog, cleanup, lock>>
    BY <1>2, <2>1 DEF ReviewerReadsImages, Operation
  <2> HIDE DEF X
  <2>4. /\ j \in Operation /\ j.op = "review" /\ j.step = "read" /\ j.shown = X
        /\ j.asset = job[w].asset /\ j.at = job[w].at /\ j.revision = job[w].revision
    BY <2>1, <2>2 DEF Operation, Steps
  <2> HIDE DEF j
  <2>5. ~Discards(j) /\ ~Creates(j)
    BY <2>4 DEF Discards, Creates
  <2>6. JobOK(j)
    BY <2>1, <2>2, <2>4, <2>5 DEF JobOK, JobIn, CreatesIn, DiscardsIn, ReadsIn, UploadsIn,
                                  ReviewsIn
  <2>7. \A v \in Workers \ {w} : Disjoint(j, job[v]) /\ Disjoint(job[v], j)
    BY <2>4, <2>5 DEF Disjoint, IInv, Apart
  <2>8. Moves(w, j)
    BY <2>3, <2>4, <2>5, <2>6, <2>7, UnlockedMoves DEF Moves, Locking
  <2> QED
    BY <2>8, MoveStep
<1> QED
  BY <1>1, <1>2

-----------------------------------------------------------------------------
(* The requests end *)

\* A request ends and the table stays as it is.
EndsBare(w, X) ==
    /\ Return(w) /\ UNCHANGED <<story, catalog, cleanup, rows>>
    /\ files' = [a \in Assets |-> IF a \in X THEN "none" ELSE files[a]]
    /\ \A a \in X : rows[a] = NoAsset /\ Owns(w, a)

\* It preserves the invariant.
LEMMA EndWithoutRow ==
    ASSUME IInv, NEW w \in Workers, NEW X, EndsBare(w, X)
    PROVE  IInv' /\ Stays
<1>1. Ends(w, X, rows)
  BY DEF EndsBare, Ends, Return, KeepsRows, IInv, TypeOK
<1> QED
  BY <1>1, EndStep

\* A request ends and its own asset has got a row that is no upload.
EndsNamed(w, X, r) ==
    /\ Return(w) /\ UNCHANGED <<story, catalog, cleanup>>
    /\ Creates(job[w]) /\ job[w].step = "written"
    /\ r \in Row /\ r.kind # "upload"
    /\ rows' = [rows EXCEPT ![job[w].asset] = r]
    /\ files' = [a \in Assets |-> IF a \in X THEN "none" ELSE files[a]]
    /\ X \subseteq {job[w].asset} /\ (X # {} => r.kind = "source")

\* It preserves the invariant.
LEMMA EndWithRow ==
    ASSUME IInv, NEW w \in Workers, NEW X, NEW r, EndsNamed(w, X, r)
    PROVE  IInv' /\ Stays
<1> USE DEF EndsNamed
<1> DEFINE b == job[w].asset
<1>1. b \in Assets /\ rows[b] = NoAsset /\ files[b] = "fresh"
  BY DEF IInv, JobOK, JobIn, CreatesIn
<1>2. rows \in [Assets -> MaybeRow]
  BY DEF IInv, TypeOK
<1> DEFINE q == [rows EXCEPT ![b] = r]
<1>3. /\ q \in [Assets -> MaybeRow] /\ rows' = q
      /\ \A a \in Assets : q[a] = IF a = b THEN r ELSE rows[a]
  BY <1>1, <1>2 DEF MaybeRow
<1> HIDE DEF q
<1>4. KeepsRows(rows, q)
  BY <1>1, <1>3 DEF KeepsRows, Images
<1>5. \A a \in X : rows[a] = NoAsset /\ Owns(w, a)
  BY <1>1 DEF Owns
<1>6. \A a \in Assets : rows[a] = NoAsset /\ q[a] # NoAsset =>
          /\ Creates(job[w]) /\ a = job[w].asset /\ files[a] = "fresh"
          /\ q[a].kind # "source" => a \notin X
  BY <1>1, <1>3
<1>7. Ends(w, X, q)
  BY <1>3, <1>4, <1>5, <1>6 DEF Ends, Return
<1> QED
  BY <1>7, EndStep

\* The file of the request's own asset is removed, or none is.
LEMMA RemovalFacts ==
    ASSUME IInv, NEW b
    PROVE  /\ Removed(b) = [a \in Assets |-> IF a \in {b} THEN "none" ELSE files[a]]
           /\ files = [a \in Assets |-> IF a \in {} THEN "none" ELSE files[a]]
BY DEF IInv, TypeOK, Removed

\* An asset in the making has no row.
LEMMA WrittenFacts ==
    ASSUME IInv, NEW w \in Workers, job[w].op \in {"upload", "acquire", "stage", "reuse"},
           job[w].step = "written"
    PROVE  /\ Creates(job[w]) /\ job[w].asset \in Assets
           /\ \A a \in {job[w].asset} : rows[a] = NoAsset /\ Owns(w, a)
BY DEF IInv, JobOK, JobIn, CreatesIn, Creates, Owns

\* A stale upload removes its file.
LEMMA UploadIsStaleStep ==
    ASSUME IInv, NEW w \in Workers, UploadIsStale(w)
    PROVE  IInv' /\ Stays
<1>1. \A a \in {job[w].asset} : rows[a] = NoAsset /\ Owns(w, a)
  BY WrittenFacts DEF UploadIsStale, At
<1>2. EndsBare(w, {job[w].asset})
  BY <1>1, RemovalFacts DEF UploadIsStale, EndsBare
<1> QED
  BY <1>2, EndWithoutRow

\* The files that were replaced or deleted are removed.
LEMMA ReplacedIsRemovedStep ==
    ASSUME IInv, NEW w \in Workers, ReplacedIsRemoved(w)
    PROVE  IInv' /\ Stays
<1>1. \A a \in job[w].shown : rows[a] = NoAsset /\ Owns(w, a)
  BY DEF ReplacedIsRemoved, IInv, JobOK, JobIn, DiscardsIn, Discards, Owns
<1>2. EndsBare(w, job[w].shown)
  BY <1>1 DEF ReplacedIsRemoved, EndsBare
<1> QED
  BY <1>2, EndWithoutRow

\* A request fails or is cancelled.
LEMMA RequestFailsStep ==
    ASSUME IInv, NEW w \in Workers, RequestFails(w)
    PROVE  IInv' /\ Stays
<1>0. Return(w) /\ UNCHANGED <<story, catalog, cleanup, rows>>
  BY DEF RequestFails
<1>1. CASE UNCHANGED files
  <2>1. EndsBare(w, {})
    BY <1>0, <1>1, RemovalFacts DEF EndsBare
  <2> QED
    BY <2>1, EndWithoutRow
<1>2. CASE /\ job[w].op \in {"upload", "stage", "reuse"} /\ job[w].step = "written"
           /\ files' = Removed(job[w].asset)
  <2>1. \A a \in {job[w].asset} : rows[a] = NoAsset /\ Owns(w, a)
    BY <1>2, WrittenFacts
  <2>2. EndsBare(w, {job[w].asset})
    BY <1>0, <1>2, <2>1, RemovalFacts DEF EndsBare
  <2> QED
    BY <2>2, EndWithoutRow
<1> QED
  BY <1>1, <1>2 DEF RequestFails

\* The rows that operations other than an upload create.
LEMMA RowTypes ==
    ASSUME NEW c \in Contents, NEW n \in Nat
    PROVE  /\ SourceRow(c) \in Row /\ SourceRow(c).kind = "source"
           /\ [kind |-> "commons", revision |-> n, status |-> "STAGED", content |-> c] \in Row
           /\ [kind |-> "upload", revision |-> n, status |-> "APPROVED", content |-> c] \in Row
BY DEF SourceRow, Row, Kinds

\* A video is acquired.
LEMMA AcquireCommitsStep ==
    ASSUME IInv, NEW w \in Workers, AcquireCommits(w)
    PROVE  IInv' /\ Stays
<1>1. PICK c \in Contents : rows' = [rows EXCEPT ![job[w].asset] = SourceRow(c)]
  BY DEF AcquireCommits
<1>2. SourceRow(c) \in Row /\ SourceRow(c).kind = "source"
  BY RowTypes
<1>3. /\ Return(w) /\ UNCHANGED <<story, catalog, cleanup>> /\ Creates(job[w])
      /\ job[w].step = "written"
      /\ files' = [a \in Assets |-> IF a \in {} THEN "none" ELSE files[a]]
  BY RemovalFacts, WrittenFacts DEF AcquireCommits, At
<1>4. EndsNamed(w, {}, SourceRow(c))
  BY <1>1, <1>2, <1>3 DEF EndsNamed
<1> QED
  BY <1>4, EndWithRow

\* An acquisition fails: the file is removed, with or without the row.
LEMMA AcquireFailsStep ==
    ASSUME IInv, NEW w \in Workers, AcquireFails(w)
    PROVE  IInv' /\ Stays
<1>1. /\ Return(w) /\ UNCHANGED <<story, catalog, cleanup>> /\ Creates(job[w])
      /\ job[w].step = "written"
      /\ files' = [a \in Assets |-> IF a \in {job[w].asset} THEN "none" ELSE files[a]]
      /\ \A a \in {job[w].asset} : rows[a] = NoAsset /\ Owns(w, a)
  BY RemovalFacts, WrittenFacts DEF AcquireFails, At
<1>2. CASE UNCHANGED rows
  <2>1. EndsBare(w, {job[w].asset})
    BY <1>1, <1>2 DEF EndsBare
  <2> QED
    BY <2>1, EndWithoutRow
<1>3. CASE \E c \in Contents : rows' = [rows EXCEPT ![job[w].asset] = SourceRow(c)]
  <2>1. PICK c \in Contents : rows' = [rows EXCEPT ![job[w].asset] = SourceRow(c)]
    BY <1>3
  <2>2. SourceRow(c) \in Row /\ SourceRow(c).kind = "source"
    BY RowTypes
  <2>3. EndsNamed(w, {job[w].asset}, SourceRow(c))
    BY <1>1, <2>1, <2>2 DEF EndsNamed
  <2> QED
    BY <2>3, EndWithRow
<1> QED
  BY <1>2, <1>3 DEF AcquireFails

\* An asset appears on the Commons shelf.
LEMMA ShelveStep ==
    ASSUME IInv, NEW w \in Workers, NEW S \in SUBSET Contents,
           At(w, "stage", "written") \/ At(w, "reuse", "written"), Shelve(w, S)
    PROVE  IInv' /\ Stays
<1> DEFINE Commoner(c) == [kind |-> "commons", revision |-> job[w].revision,
                           status |-> "STAGED", content |-> c]
<1>1. PICK c \in S : rows' = [rows EXCEPT ![job[w].asset] = Commoner(c)]
  BY DEF Shelve
<1>2. Commoner(c) \in Row /\ Commoner(c).kind = "commons"
  BY RowTypes DEF IInv, TypeOK, Operation
<1>3. /\ Return(w) /\ UNCHANGED <<story, catalog, cleanup>> /\ Creates(job[w])
      /\ job[w].step = "written"
      /\ files' = [a \in Assets |-> IF a \in {} THEN "none" ELSE files[a]]
  BY RemovalFacts, WrittenFacts DEF Shelve, At
<1> HIDE DEF Commoner
<1>4. EndsNamed(w, {}, Commoner(c))
  BY <1>1, <1>2, <1>3 DEF EndsNamed
<1> QED
  BY <1>4, EndWithRow

\* A staged original and a clone are saved.
LEMMA CommonsIsSavedStep ==
    ASSUME IInv, NEW w \in Workers, StageIsSaved(w) \/ CloneIsSaved(w)
    PROVE  IInv' /\ Stays
<1>1. CASE StageIsSaved(w)
  BY <1>1, ShelveStep DEF StageIsSaved
<1>2. CASE CloneIsSaved(w)
  <2> DEFINE S == {rows[b].content : b \in job[w].shown}
  <2>1. \A b \in job[w].shown : Commons(rows, b)
    BY <1>2 DEF CloneIsSaved, At, IInv, JobOK, JobIn, ReadsIn
  <2>2. \A b \in job[w].shown : rows[b] \in Row
    BY <2>1 DEF Commons, IInv, TypeOK, MaybeRow
  <2>3. S \in SUBSET Contents
    BY <2>2 DEF Row
  <2> HIDE DEF S
  <2>4. Shelve(w, S) /\ At(w, "reuse", "written")
    BY <1>2 DEF CloneIsSaved, S
  <2> QED
    BY <2>3, <2>4, ShelveStep
<1> QED
  BY <1>1, <1>2

\* The verdict on a Commons asset is stored.
LEMMA SetStatusStep ==
    ASSUME IInv, NEW w \in Workers, SetStatus(w)
    PROVE  IInv' /\ Stays
<1> DEFINE b == job[w].asset
           x == IF job[w].op = "approve" THEN "APPROVED" ELSE "REJECTED"
           r == [rows[b] EXCEPT !.status = x]
           q == [rows EXCEPT ![b] = r]
<1>1. b \in Assets /\ rows[b] # NoAsset /\ rows[b].kind = "commons" /\ rows[b] \in Row
  BY DEF SetStatus, IInv, JobOK, JobIn, ReadsIn, Commons, TypeOK, MaybeRow
<1>2. /\ r \in Row /\ r.kind = "commons" /\ r.revision = rows[b].revision /\ r # NoAsset
  BY <1>1, AssetNames DEF Row
<1>3. rows' = q
  BY <1>1 DEF SetStatus
<1> HIDE DEF r
<1>4. q \in [Assets -> MaybeRow] /\ \A a \in Assets : q[a] = IF a = b THEN r ELSE rows[a]
  BY <1>1, <1>2 DEF MaybeRow, IInv, TypeOK
<1> HIDE DEF q
<1>5. KeepsRows(rows, q)
  BY <1>1, <1>2, <1>4 DEF KeepsRows, Images
<1>6. /\ job' = Ended(w) /\ lock' = Released(w)
      /\ UNCHANGED <<story, catalog, cleanup>>
      /\ files' = [a \in Assets |-> IF a \in {} THEN "none" ELSE files[a]]
  BY RemovalFacts DEF SetStatus, Return
<1>7. Ends(w, {}, q)
  BY <1>1, <1>3, <1>4, <1>5, <1>6 DEF Ends
<1> QED
  BY <1>7, EndStep

-----------------------------------------------------------------------------
(* Steps that write a file, the tables, the catalog or the story *)

\* The bytes of a new asset are in place.
LEMMA WrittenStep ==
    ASSUME IInv, NEW w \in Workers, Written(w),
           job[w].op \in {"upload", "acquire", "stage", "reuse"}, job[w].step = "begun"
    PROVE  IInv' /\ Stays
<1> DEFINE b == job[w].asset
           j == [job[w] EXCEPT !.step = "written"]
<1>1. /\ Creates(job[w]) /\ job[w] \in Operation /\ JobIn(story, rows, files, catalog, job[w])
      /\ b \in Assets /\ rows[b] = NoAsset /\ files[b] = "none"
  BY DEF Creates, IInv, TypeOK, JobOK, JobIn, CreatesIn
<1>2. /\ job' = [job EXCEPT ![w] = j] /\ files' = [files EXCEPT ![b] = "fresh"]
      /\ UNCHANGED <<story, rows, catalog, lock, cleanup>>
  BY DEF Written, Goto
<1>3. /\ j \in Operation /\ j.op = job[w].op /\ j.step = "written" /\ j.asset = b
      /\ j.at = job[w].at /\ j.revision = job[w].revision /\ j.shown = job[w].shown
  BY <1>1 DEF Operation, Steps
<1> HIDE DEF j
<1>4. Creates(j) /\ ~Discards(j)
  BY <1>3 DEF Creates, Discards
<1>5. /\ job'[w] = j /\ \A v \in Workers \ {w} : job'[v] = job[v]
      /\ job' \in [Workers -> Operation]
  BY <1>2, <1>3 DEF IInv, TypeOK
<1>6. /\ files'[b] = "fresh" /\ \A a \in Assets \ {b} : files'[a] = files[a]
      /\ files' \in [Assets -> Presence]
  BY <1>1, <1>2 DEF IInv, TypeOK, Presence
<1>7. \A v \in Workers \ {w} : /\ Disjoint(job[w], job[v]) /\ Disjoint(job[v], job[w])
                               /\ Disjoint(j, job[v]) /\ Disjoint(job[v], j)
  BY <1>1, <1>3, <1>4 DEF IInv, Apart, Disjoint
<1>8. TypeOK'
  BY <1>2, <1>5, <1>6 DEF IInv, TypeOK
<1>9. \A v \in Workers : JobOK(job[v])'
  <2> SUFFICES ASSUME NEW v \in Workers PROVE JobIn(story, rows, files', catalog, job'[v])
    BY <1>2 DEF JobOK
  <2>1. CASE v = w
    <3>1. CreatesIn(rows, files', j) /\ DiscardsIn(rows, files', j)
      BY <1>1, <1>3, <1>4, <1>6 DEF CreatesIn, DiscardsIn
    <3>2. ReadsIn(rows, j) /\ UploadsIn(story, rows, catalog, j) /\ ReviewsIn(story, rows, j)
      BY <1>1, <1>3 DEF JobIn, ReadsIn, UploadsIn, ReviewsIn
    <3> QED
      BY <2>1, <1>5, <3>1, <3>2 DEF JobIn
  <2>2. CASE v # w
    <3>1. /\ job'[v] = job[v] /\ job[v] \in Operation
          /\ JobIn(story, rows, files, catalog, job[v])
      BY <2>2, <1>5 DEF IInv, TypeOK, JobOK
    <3>2. Creates(job[v]) => files'[job[v].asset] = files[job[v].asset]
      BY <2>2, <3>1, <1>6, <1>7 DEF Disjoint, JobIn, CreatesIn
    <3>3. Discards(job[v]) => \A a \in job[v].shown : files'[a] # "none"
      BY <3>1, <1>6 DEF JobIn, DiscardsIn, Operation
    <3>4. KeepsRows(rows, rows)
      BY DEF KeepsRows
    <3> QED
      BY <3>1, <3>2, <3>3, <3>4, JobFrame
  <2> QED
    BY <2>1, <2>2
<1>10. Locked'
  BY <1>2, <1>3, <1>5 DEF IInv, Locked
<1>11. Apart'
  <2> SUFFICES ASSUME NEW v \in Workers, NEW u \in Workers, v # u
               PROVE  Disjoint(job'[v], job'[u])
    BY DEF Apart, Disjoint, Creates, Discards
  <2> QED
    BY <1>5, <1>7 DEF IInv, Apart
<1>12. ArchivedIsNamed' /\ FinalReviewSawTheImages'
  BY <1>2 DEF IInv, ArchivedIsNamed, FinalReviewSawTheImages, Uploads, Named
<1>13. \A a \in Assets : Unneeded(a) => Unneeded(a)'
  <2> SUFFICES ASSUME NEW a \in Assets, Unneeded(a)
               PROVE  \A v \in Workers : Discards(job'[v]) => a \notin job'[v].shown
    BY <1>2 DEF Unneeded, Discards
  <2> QED
    BY <1>4, <1>5 DEF Unneeded
<1>14. CleanupOK'
  <2>1. \A a \in cleanup.doomed : a \in Assets
    BY DEF IInv, TypeOK, Run
  <2> QED
    BY <1>1, <1>2, <1>6, <1>13, <2>1 DEF IInv, CleanupOK
<1>15. NamedFilesExist' /\ Stays
  BY <1>2, <1>6 DEF IInv, NamedFilesExist, Named, Stays, ArchivedIsNamed
<1> QED
  BY <1>8, <1>9, <1>10, <1>11, <1>12, <1>14, <1>15 DEF IInv

\* An upload or a deletion commits: under the lock, the images in R lose their
\* rows, to be removed by the job j, and the new image may get one.
Replaces(w, j, R, q) ==
    /\ job' = [job EXCEPT ![w] = j] /\ rows' = q
    /\ story' = [story EXCEPT !.version = story.version + 1] /\ story.status # "DONE"
    /\ lock' = w /\ (lock = w \/ lock = NoOne)
    /\ UNCHANGED <<files, catalog, cleanup>>
    /\ j \in Operation /\ j.step = "discarding" /\ j.op \in {"upload", "delete"}
    /\ j.shown = R /\ j.asset = job[w].asset
    /\ \A a \in R : /\ a \in Assets /\ rows[a] # NoAsset /\ rows[a].kind = "upload"
                    /\ ~catalog[a].archived /\ q[a] = NoAsset
    /\ q \in [Assets -> MaybeRow]
    /\ \A a \in Assets \ R :
          \/ q[a] = rows[a]
          \/ rows[a] = NoAsset /\ a = job[w].asset /\ Creates(job[w]) /\ files[a] = "fresh"

\* It preserves the invariant.
LEMMA ReplaceStep ==
    ASSUME IInv, NEW w \in Workers, NEW j, NEW R, NEW q, Replaces(w, j, R, q)
    PROVE  IInv' /\ Stays
<1> USE DEF Replaces
<1>1. /\ story'.version = story.version + 1 /\ story'.revision = story.revision
      /\ story'.status = story.status /\ story'.version \in Nat /\ story' \in Story
  BY DEF IInv, TypeOK, Story
<1>2. /\ job'[w] = j /\ \A v \in Workers \ {w} : job'[v] = job[v]
      /\ job' \in [Workers -> Operation]
  BY DEF IInv, TypeOK
<1>3. Discards(j) /\ ~Creates(j)
  BY DEF Discards, Creates
<1>4. \A v \in Workers \ {w} : job[v].op \notin Locking
  BY LockExcludes DEF IInv
<1>5. \A v \in Workers \ {w} : Disjoint(job[w], job[v]) /\ Disjoint(job[v], job[w])
  BY DEF IInv, Apart
<1>6. TypeOK'
  BY <1>1, <1>2 DEF IInv, TypeOK
<1>7. \A v \in Workers : JobOK(job[v])'
  <2> SUFFICES ASSUME NEW v \in Workers PROVE JobIn(story', q, files, catalog, job'[v])
    BY DEF JobOK
  <2>1. CASE v = w
    <3>1. \A a \in R : q[a] = NoAsset /\ files[a] # "none"
      BY DEF IInv, NamedFilesExist, Named
    <3>2. CreatesIn(q, files, j) /\ DiscardsIn(q, files, j) /\ ReadsIn(q, j)
      BY <1>3, <3>1 DEF CreatesIn, DiscardsIn, ReadsIn
    <3>3. UploadsIn(story', q, catalog, j) /\ ReviewsIn(story', q, j)
      BY <1>3 DEF UploadsIn, ReviewsIn
    <3> QED
      BY <2>1, <1>2, <3>2, <3>3 DEF JobIn
  <2>2. CASE v # w
    <3> DEFINE c == job[v]
    <3>1. /\ job'[v] = c /\ c.op \notin Locking /\ Disjoint(c, job[w]) /\ Disjoint(job[w], c)
          /\ c \in Operation /\ JobIn(story, rows, files, catalog, c)
      BY <2>2, <1>2, <1>4, <1>5 DEF IInv, TypeOK, JobOK
    <3> HIDE DEF c
    <3>2. \A a \in Assets : Commons(rows, a) => Commons(q, a)
      BY DEF Commons
    <3>3. CreatesIn(q, files, c)
      BY <3>1 DEF JobIn, CreatesIn, Disjoint
    <3>4. DiscardsIn(q, files, c)
      BY <3>1 DEF JobIn, DiscardsIn, Locking
    <3>5. ReadsIn(q, c)
      BY <3>1, <3>2 DEF JobIn, ReadsIn, Locking, Operation, Commons
    <3>6. UploadsIn(story', q, catalog, c)
      BY <3>1 DEF UploadsIn, Locking
    <3>7. c.op = "review" => c.at \in Nat /\ story.version \in Nat /\ c.at <= story.version
      BY <3>1 DEF JobIn, ReviewsIn, Operation, IInv, TypeOK, Story
    <3>8. ReviewsIn(story', q, c)
      BY <3>7, <1>1 DEF ReviewsIn
    <3> QED
      BY <3>1, <3>3, <3>4, <3>5, <3>6, <3>8 DEF JobIn
  <2> QED
    BY <2>1, <2>2
<1>8. Locked'
  BY <1>2, <1>4 DEF Locked
<1>9. Apart'
  <2> SUFFICES ASSUME NEW v \in Workers, NEW u \in Workers, v # u
               PROVE  Disjoint(job'[v], job'[u])
    BY DEF Apart, Disjoint, Creates, Discards
  <2>1. CASE v = w
    BY <2>1, <1>2, <1>3 DEF Disjoint
  <2>2. CASE v # w /\ u = w
    <3>1. Creates(job[v]) => rows[job[v].asset] = NoAsset
      BY DEF IInv, JobOK, JobIn, CreatesIn
    <3> QED
      BY <2>2, <3>1, <1>2, <1>5 DEF Disjoint
  <2>3. CASE v # w /\ u # w
    BY <2>3, <1>2 DEF IInv, Apart
  <2> QED
    BY <2>1, <2>2, <2>3
<1>10. ArchivedIsNamed' /\ Stays
  BY DEF IInv, ArchivedIsNamed, Stays
<1>11. \A a \in Assets : files[a] = "old" /\ Unneeded(a) => Unneeded(a)'
  <2> SUFFICES ASSUME NEW a \in Assets, files[a] = "old", Unneeded(a)
               PROVE  /\ q[a] = NoAsset
                      /\ \A v \in Workers : Discards(job'[v]) => a \notin job'[v].shown
    BY DEF Unneeded, Discards
  <2>1. rows[a] = NoAsset /\ a \notin R
    BY DEF Unneeded
  <2> QED
    BY <2>1, <1>2 DEF Unneeded
<1>12. CleanupOK'
  <2>1. \A a \in cleanup.doomed : a \in Assets
    BY DEF IInv, TypeOK, Run
  <2> QED
    BY <1>11, <2>1 DEF IInv, CleanupOK
<1>13. NamedFilesExist'
  BY DEF IInv, NamedFilesExist, Named
<1>14. FinalReviewSawTheImages'
  BY <1>1 DEF FinalReviewSawTheImages
<1> QED
  BY <1>6, <1>7, <1>8, <1>9, <1>10, <1>12, <1>13, <1>14 DEF IInv

\* An upload commits.
LEMMA UploadCommitsStep ==
    ASSUME IInv, NEW w \in Workers, UploadCommits(w)
    PROVE  IInv' /\ Stays
<1> DEFINE R == Uploads(job[w].revision)
           b == job[w].asset
           Image(c) == [kind |-> "upload", revision |-> job[w].revision,
                        status |-> "APPROVED", content |-> c]
           Table(c) == [a \in Assets |-> IF a = b THEN Image(c)
                                         ELSE IF a \in R THEN NoAsset ELSE rows[a]]
           j == [[job[w] EXCEPT !.step = "discarding"] EXCEPT !.shown = R]
<1>1. /\ job[w] \in Operation /\ job[w].op = "upload" /\ job[w].step = "written"
      /\ Creates(job[w]) /\ JobIn(story, rows, files, catalog, job[w])
  BY DEF UploadCommits, At, Creates, IInv, TypeOK, JobOK
<1>2. b \in Assets /\ rows[b] = NoAsset /\ files[b] = "fresh"
  BY <1>1 DEF JobIn, CreatesIn
<1>3. \A a \in R : /\ a \in Assets /\ rows[a] # NoAsset /\ rows[a].kind = "upload"
                   /\ ~catalog[a].archived
  BY <1>1, ImagesAreUploads DEF Uploads, Named, JobIn, UploadsIn
<1>4. PICK c \in Contents : rows' = Table(c) /\ job' = [job EXCEPT ![w] = j]
  <2>1. [job EXCEPT ![w].step = "discarding", ![w].shown = R] = [job EXCEPT ![w] = j]
    BY <1>1 DEF IInv, TypeOK, Operation
  <2>2. \E c \in Contents : /\ rows' = Table(c)
                           /\ job' = [job EXCEPT ![w].step = "discarding", ![w].shown = R]
    BY DEF UploadCommits
  <2> QED
    BY <2>1, <2>2
<1>5. /\ story' = [story EXCEPT !.version = story.version + 1]
      /\ story.version = job[w].at
      /\ UNCHANGED <<files, catalog, cleanup, lock>>
  BY DEF UploadCommits, Advance
<1>6. story.status # "DONE"
  BY <1>1, <1>5 DEF JobIn, UploadsIn
<1>7. Image(c) \in Row
  BY <1>1, RowTypes DEF Operation
<1> HIDE DEF R, Image
<1>8. /\ j \in Operation /\ j.step = "discarding" /\ j.op = "upload" /\ j.shown = R
      /\ j.asset = b
  BY <1>1, <1>3 DEF Operation, Steps
<1>9. Table(c) \in [Assets -> MaybeRow]
  BY <1>7 DEF MaybeRow, IInv, TypeOK
<1>10. \A a \in Assets : Table(c)[a] = IF a = b THEN Image(c)
                                       ELSE IF a \in R THEN NoAsset ELSE rows[a]
  OBVIOUS
<1>11. lock = w
  BY <1>1 DEF IInv, Locked, Locking
<1> HIDE DEF Table, j
<1>12. /\ \A a \in R : Table(c)[a] = NoAsset
       /\ \A a \in Assets \ R : \/ Table(c)[a] = rows[a]
                                \/ /\ rows[a] = NoAsset /\ a = job[w].asset
                                   /\ Creates(job[w]) /\ files[a] = "fresh"
  BY <1>1, <1>2, <1>3, <1>10
<1>13. Replaces(w, j, R, Table(c))
  BY <1>3, <1>4, <1>5, <1>6, <1>8, <1>9, <1>11, <1>12 DEF Replaces
<1> QED
  BY <1>13, ReplaceStep

\* A deletion commits.
LEMMA DeleteCommitsStep ==
    ASSUME IInv, NEW w \in Workers, DeleteCommits(w)
    PROVE  IInv' /\ Stays
<1> DEFINE R == Uploads(story.revision)
           q == [a \in Assets |-> IF a \in R THEN NoAsset ELSE rows[a]]
           j == [[[Idle EXCEPT !.op = "delete"] EXCEPT !.step = "discarding"]
                       EXCEPT !.shown = R]
<1>1. job[w] = Idle /\ lock = NoOne /\ lock' = w /\ Editable
  BY DEF DeleteCommits, Enter
<1>2. \A a \in R : /\ a \in Assets /\ rows[a] # NoAsset /\ rows[a].kind = "upload"
                   /\ ~catalog[a].archived
  BY <1>1 DEF Uploads, Named, Editable
<1>3. /\ rows' = q /\ story' = [story EXCEPT !.version = story.version + 1]
      /\ UNCHANGED <<files, catalog, cleanup>>
  BY DEF DeleteCommits
<1>4. job' = [job EXCEPT ![w] = j]
  BY DEF DeleteCommits, Idle
<1>5. story.status # "DONE"
  BY <1>1 DEF Editable
<1> HIDE DEF R
<1>6. /\ j \in Operation /\ j.step = "discarding" /\ j.op = "delete" /\ j.shown = R
      /\ j.asset = job[w].asset
  BY <1>1, <1>2 DEF Idle, Operation, Steps, Ops, MaybeAsset
<1>7. q \in [Assets -> MaybeRow] /\ \A a \in Assets : q[a] = IF a \in R THEN NoAsset ELSE rows[a]
  BY DEF MaybeRow, IInv, TypeOK
<1> HIDE DEF q, j
<1>8. Replaces(w, j, R, q)
  BY <1>1, <1>2, <1>3, <1>4, <1>5, <1>6, <1>7 DEF Replaces
<1> QED
  BY <1>8, ReplaceStep

\* A change of the catalog is stored.
LEMMA LifecycleIsSavedStep ==
    ASSUME IInv, NEW w \in Workers, LifecycleIsSaved(w)
    PROVE  IInv' /\ Stays
<1> DEFINE X == job[w].shown
           y == job[w].op = "archive"
<1>1. /\ job' = [job EXCEPT ![w] = Idle] /\ lock' = Released(w)
      /\ UNCHANGED <<story, rows, files, cleanup>>
  BY DEF LifecycleIsSaved, Return, Ended
<1>2. /\ job[w].op \in Locking /\ job[w].op \in {"archive", "restore"}
      /\ \A a \in X : rows[a] # NoAsset
  BY DEF LifecycleIsSaved, Locking, IInv, JobOK, JobIn, ReadsIn
<1>3. lock = w /\ \A v \in Workers \ {w} : job[v].op \notin Locking
  BY <1>2, LockExcludes DEF IInv, Locked
<1>4. /\ job'[w] = Idle /\ \A v \in Workers \ {w} : job'[v] = job[v]
      /\ job' \in [Workers -> Operation]
  BY <1>1, IdleFacts DEF IInv, TypeOK
<1>5. /\ catalog' \in [Assets -> Entry]
      /\ \A a \in Assets \ X : catalog'[a] = catalog[a]
  <2> DEFINE e(a) == [archived |-> y, version |-> catalog[a].version + 1]
  <2>1. \A a \in Assets : e(a) \in Entry /\ catalog[a] \in Entry
    BY DEF IInv, TypeOK, Entry
  <2>2. catalog' = [a \in Assets |-> IF a \in X THEN e(a) ELSE catalog[a]]
    BY DEF LifecycleIsSaved
  <2> HIDE DEF e
  <2> QED
    BY <2>1, <2>2
<1>6. TypeOK'
  BY <1>1, <1>4, <1>5, ReleaseFacts DEF IInv, TypeOK
<1>7. \A v \in Workers : JobOK(job[v])'
  <2> SUFFICES ASSUME NEW v \in Workers PROVE JobIn(story, rows, files, catalog', job'[v])
    BY <1>1 DEF JobOK
  <2>1. CASE v = w
    BY <2>1, <1>4, IdleFacts
  <2>2. CASE v # w
    <3>1. /\ job'[v] = job[v] /\ job[v].op \notin Locking
          /\ JobIn(story, rows, files, catalog, job[v])
      BY <2>2, <1>3, <1>4 DEF IInv, JobOK
    <3> QED
      BY <3>1 DEF JobIn, UploadsIn, Locking
  <2> QED
    BY <2>1, <2>2
<1>8. Locked'
  BY <1>3, <1>4, IdleFacts DEF Locked, Locking
<1>9. Apart'
  <2> SUFFICES ASSUME NEW v \in Workers, NEW u \in Workers, v # u
               PROVE  Disjoint(job'[v], job'[u])
    BY DEF Apart, Disjoint, Creates, Discards
  <2>1. Creates(job[v]) => job[v].asset # NoAsset
    BY AssetNames DEF IInv, JobOK, JobIn, CreatesIn
  <2> QED
    BY <2>1, <1>4, IdleFacts DEF IInv, Apart, Disjoint
<1>10. ArchivedIsNamed' /\ Stays
  BY <1>1, <1>2, <1>5 DEF IInv, ArchivedIsNamed, Stays
<1>11. \A a \in Assets : Unneeded(a) => Unneeded(a)'
  <2> SUFFICES ASSUME NEW a \in Assets, Unneeded(a)
               PROVE  \A v \in Workers : Discards(job'[v]) => a \notin job'[v].shown
    BY <1>1 DEF Unneeded, Discards
  <2> QED
    BY <1>4, IdleFacts DEF Unneeded
<1>12. CleanupOK'
  <2>1. \A a \in cleanup.doomed : a \in Assets
    BY DEF IInv, TypeOK, Run
  <2> QED
    BY <1>1, <1>11, <2>1 DEF IInv, CleanupOK
<1>13. NamedFilesExist' /\ FinalReviewSawTheImages'
  BY <1>1 DEF IInv, NamedFilesExist, FinalReviewSawTheImages, Uploads, Named
<1> QED
  BY <1>6, <1>7, <1>8, <1>9, <1>10, <1>12, <1>13 DEF IInv

\* A job is not disturbed by a story that takes a new version.
LEMMA StoryFrame ==
    ASSUME NEW c \in Operation, NEW s, TypeOK, JobIn(story, rows, files, catalog, c),
           s.version = story.version + 1
    PROVE  JobIn(s, rows, files, catalog, c)
<1>1. story.version \in Nat /\ c.at \in Nat
  BY DEF TypeOK, Story, Operation
<1>2. UploadsIn(s, rows, catalog, c) /\ ReviewsIn(s, rows, c)
  BY <1>1 DEF JobIn, UploadsIn, ReviewsIn
<1> QED
  BY <1>2 DEF JobIn

\* One field of the story is set, the others stand.
LEMMA StoryUpdates ==
    ASSUME NEW s \in Story, NEW n \in Nat, NEW st \in Statuses
    PROVE  /\ [s EXCEPT !.version = n] \in Story
           /\ [s EXCEPT !.revision = n] \in Story
           /\ [s EXCEPT !.status = st] \in Story
           /\ [s EXCEPT !.version = n].version = n
           /\ [s EXCEPT !.version = n].revision = s.revision
           /\ [s EXCEPT !.revision = n].version = s.version
           /\ [s EXCEPT !.status = st].version = s.version
           /\ [s EXCEPT !.status = st].revision = s.revision
           /\ [s EXCEPT !.status = st].status = st
BY DEF Story

\* So is what its reviewer saw.
LEMMA SeenUpdates ==
    ASSUME NEW s \in Story, NEW X \in SUBSET Assets
    PROVE  /\ [s EXCEPT !.seen = X] \in Story
           /\ [s EXCEPT !.seen = X].version = s.version
           /\ [s EXCEPT !.seen = X].revision = s.revision
           /\ [s EXCEPT !.seen = X].seen = X
BY DEF Story

\* The final review approves the version the reviewer opened.
LEMMA ReviewerApprovesStep ==
    ASSUME IInv, NEW w \in Workers, ReviewerApproves(w)
    PROVE  IInv' /\ Stays
<1>0. Return(w) /\ UNCHANGED <<rows, files, catalog, cleanup>>
  BY DEF ReviewerApproves
<1>1. CASE UNCHANGED story
  <2>1. EndsBare(w, {})
    BY <1>0, <1>1, RemovalFacts DEF EndsBare
  <2> QED
    BY <2>1, EndWithoutRow
<1>2. CASE /\ story.version = job[w].at
           /\ story' = [story EXCEPT !.version = @ + 1, !.status = "DONE",
                                     !.seen = job[w].shown]
  <2>1. job[w] \in Operation /\ job[w].shown = Images(rows, story.revision)
    BY <1>2 DEF ReviewerApproves, At, IInv, TypeOK, JobOK, JobIn, ReviewsIn
  <2>2. /\ story' \in Story /\ story'.version = story.version + 1
        /\ story'.seen = job[w].shown /\ story'.revision = story.revision
    <3> DEFINE s1 == [story EXCEPT !.version = story.version + 1]
               s2 == [s1 EXCEPT !.status = "DONE"]
               s3 == [s2 EXCEPT !.seen = job[w].shown]
    <3>1. /\ story \in Story /\ story.version + 1 \in Nat /\ "DONE" \in Statuses
          /\ job[w].shown \in SUBSET Assets
      BY <2>1 DEF IInv, TypeOK, Story, Statuses, Operation
    <3>2. story' = s3
      BY <1>2, <3>1 DEF Story
    <3>3. s1 \in Story /\ s1.version = story.version + 1 /\ s1.revision = story.revision
      BY <3>1, StoryUpdates
    <3> HIDE DEF s1
    <3>4. s2 \in Story /\ s2.version = s1.version /\ s2.revision = s1.revision
      BY <3>1, <3>3, StoryUpdates
    <3> HIDE DEF s2
    <3>5. /\ s3 \in Story /\ s3.version = s2.version /\ s3.revision = s2.revision
          /\ s3.seen = job[w].shown
      BY <3>1, <3>4, SeenUpdates
    <3> QED
      BY <3>2, <3>3, <3>4, <3>5
  <2>3. /\ job' = [job EXCEPT ![w] = Idle] /\ job' \in [Workers -> Operation]
        /\ job'[w] = Idle /\ \A v \in Workers \ {w} : job'[v] = job[v]
        /\ lock' = Released(w)
    BY <1>0, IdleFacts DEF Return, Ended, IInv, TypeOK
  <2>4. TypeOK'
    BY <1>0, <2>2, <2>3, ReleaseFacts DEF IInv, TypeOK
  <2>5. \A v \in Workers : JobOK(job[v])'
    <3> SUFFICES ASSUME NEW v \in Workers PROVE JobIn(story', rows, files, catalog, job'[v])
      BY <1>0 DEF JobOK
    <3>1. job'[v] = Idle \/ job'[v] = job[v]
      BY <2>3
    <3> QED
      BY <3>1, <2>2, IdleFacts, StoryFrame DEF IInv, TypeOK, JobOK
  <2>6. Locked'
    BY <2>3, ReleaseFacts, IdleFacts DEF IInv, Locked, Locking
  <2>7. Apart'
    <3> SUFFICES ASSUME NEW v \in Workers, NEW u \in Workers, v # u
                 PROVE  Disjoint(job'[v], job'[u])
      BY DEF Apart, Disjoint, Creates, Discards
    <3>1. Creates(job[v]) => job[v].asset # NoAsset
      BY AssetNames DEF IInv, JobOK, JobIn, CreatesIn
    <3> QED
      BY <3>1, <2>3, IdleFacts DEF IInv, Apart, Disjoint
  <2>8. ArchivedIsNamed' /\ Stays /\ NamedFilesExist'
    BY <1>0 DEF IInv, ArchivedIsNamed, Stays, NamedFilesExist, Named
  <2>9. \A a \in Assets : Unneeded(a) => Unneeded(a)'
    <3> SUFFICES ASSUME NEW a \in Assets, Unneeded(a)
                 PROVE  \A v \in Workers : Discards(job'[v]) => a \notin job'[v].shown
      BY <1>0 DEF Unneeded, Discards
    <3> QED
      BY <2>3, IdleFacts DEF Unneeded
  <2>10. CleanupOK'
    <3>1. \A a \in cleanup.doomed : a \in Assets
      BY DEF IInv, TypeOK, Run
    <3> QED
      BY <1>0, <2>9, <3>1 DEF IInv, CleanupOK
  <2>11. FinalReviewSawTheImages'
    <3>1. Uploads(story.revision)' = Images(rows, story'.revision)
      BY <1>0 DEF Uploads, Named, Images
    <3> QED
      BY <3>1, <2>1, <2>2 DEF FinalReviewSawTheImages
  <2> QED
    BY <2>4, <2>5, <2>6, <2>7, <2>8, <2>10, <2>11 DEF IInv
<1> QED
  BY <1>1, <1>2 DEF ReviewerApproves

\* The workflow moves the story.
LEMMA StoryMovesStep ==
    ASSUME IInv, StoryMoves
    PROVE  IInv' /\ Stays
<1>1. UNCHANGED <<rows, files, catalog, lock, job, cleanup>>
  BY DEF StoryMoves
<1>2. story' \in Story /\ story'.version = story.version + 1 /\ story'.status # "DONE"
  <2> DEFINE s1 == [story EXCEPT !.version = story.version + 1]
             s2 == [s1 EXCEPT !.revision = story.revision + 1]
             Next3 == {"SCRIPT_READY", "PENDING_SECOND_REVIEW", "ARCHIVED"}
  <2>1. /\ story \in Story /\ story.version + 1 \in Nat /\ story.revision + 1 \in Nat
        /\ Next3 \subseteq Statuses /\ "DONE" \notin Next3
    BY DEF IInv, TypeOK, Story, Statuses
  <2>2. s1 \in Story /\ s1.version = story.version + 1
    BY <2>1, StoryUpdates
  <2>3. s1.revision = story.revision
    BY <2>1, StoryUpdates
  <2>4. \E st \in Next3 :
          \/ story' = [s1 EXCEPT !.status = st]
          \/ story' = [s2 EXCEPT !.status = st]
    <3>1. \A st : [story EXCEPT !.version = @ + 1, !.status = st] = [s1 EXCEPT !.status = st]
      BY <2>1 DEF Story
    <3>2. \A st : [story EXCEPT !.version = @ + 1, !.revision = @ + 1, !.status = st]
                    = [s2 EXCEPT !.status = st]
      BY <2>1 DEF Story
    <3>3. \E st \in Next3 :
            \/ story' = [story EXCEPT !.version = @ + 1, !.status = st]
            \/ story' = [story EXCEPT !.version = @ + 1, !.revision = @ + 1, !.status = st]
      <4> HIDE DEF s1, s2
      <4> QED
        BY DEF StoryMoves
    <3> HIDE DEF s1, s2, Next3
    <3> QED
      BY <3>1, <3>2, <3>3
  <2> HIDE DEF s1
  <2>5. s2 \in Story /\ s2.version = s1.version
    BY <2>1, <2>2, StoryUpdates
  <2> HIDE DEF s2, Next3
  <2>6. PICK st \in Next3 : story' = [s1 EXCEPT !.status = st] \/ story' = [s2 EXCEPT !.status = st]
    BY <2>4
  <2>7. st \in Statuses /\ st # "DONE"
    BY <2>1
  <2>8. CASE story' = [s1 EXCEPT !.status = st]
    BY <2>8, <2>2, <2>7, StoryUpdates
  <2>9. CASE story' = [s2 EXCEPT !.status = st]
    BY <2>9, <2>2, <2>5, <2>7, StoryUpdates
  <2> QED
    BY <2>6, <2>8, <2>9
<1>3. TypeOK'
  BY <1>1, <1>2 DEF IInv, TypeOK
<1>4. \A v \in Workers : JobOK(job[v])'
  <2> SUFFICES ASSUME NEW v \in Workers PROVE JobIn(story', rows, files, catalog, job[v])
    BY <1>1 DEF JobOK
  <2> QED
    BY <1>2, StoryFrame DEF IInv, TypeOK, JobOK
<1>5. Locked' /\ ArchivedIsNamed' /\ Stays /\ NamedFilesExist' /\ FinalReviewSawTheImages'
  BY <1>1, <1>2 DEF IInv, Locked, ArchivedIsNamed, Stays, NamedFilesExist, Named,
                    FinalReviewSawTheImages
<1>6. Apart' /\ CleanupOK'
  BY <1>1 DEF IInv, Apart, Disjoint, Creates, Discards, CleanupOK, Unneeded
<1> QED
  BY <1>3, <1>4, <1>5, <1>6 DEF IInv

-----------------------------------------------------------------------------
(* The retention cleanup, the age of the files and a restart *)

\* The retention run goes on: it may take or release its own lock.
Tends ==
    /\ UNCHANGED <<story, rows, files, catalog, job>>
    /\ cleanup' \in Run
    /\ lock' \in Workers \cup {NoOne, Retention}
    /\ lock' = lock \/ lock \notin Workers
    /\ CleanupOK'

\* It preserves the invariant.
LEMMA TendStep ==
    ASSUME IInv, Tends
    PROVE  IInv' /\ Stays
<1> USE DEF Tends
<1>1. TypeOK'
  BY DEF IInv, TypeOK
<1>2. (\A w \in Workers : JobOK(job[w])') /\ Apart'
  BY DEF IInv, JobOK, Apart, Disjoint, Creates, Discards
<1>3. Locked'
  BY DEF IInv, Locked
<1>4. ArchivedIsNamed' /\ NamedFilesExist' /\ FinalReviewSawTheImages' /\ Stays
  BY DEF IInv, ArchivedIsNamed, NamedFilesExist, FinalReviewSawTheImages, Stays, Named, Uploads
<1> QED
  BY <1>1, <1>2, <1>3, <1>4 DEF IInv

\* One file is gone, or grows old, that no request creates or is to remove.
LEMMA FileStep ==
    ASSUME IInv, NEW a \in Assets, NEW x \in Presence, cleanup' \in Run,
           UNCHANGED <<story, rows, catalog, job, lock>>,
           files' = [files EXCEPT ![a] = x],
           \A w \in Workers : Creates(job[w]) => job[w].asset # a,
           x = "none" => Unneeded(a),
           CleanupOK'
    PROVE  IInv' /\ Stays
<1>1. /\ files'[a] = x /\ \A b \in Assets \ {a} : files'[b] = files[b]
      /\ files' \in [Assets -> Presence]
  BY DEF IInv, TypeOK
<1>2. TypeOK'
  BY <1>1 DEF IInv, TypeOK
<1>3. \A w \in Workers : JobOK(job[w])'
  <2> SUFFICES ASSUME NEW w \in Workers PROVE JobIn(story, rows, files', catalog, job[w])
    BY DEF JobOK
  <2>1. job[w] \in Operation /\ JobIn(story, rows, files, catalog, job[w])
    BY DEF IInv, TypeOK, JobOK
  <2>2. Creates(job[w]) => files'[job[w].asset] = files[job[w].asset]
    BY <2>1, <1>1 DEF JobIn, CreatesIn
  <2>3. Discards(job[w]) => \A b \in job[w].shown : files'[b] # "none"
    BY <2>1, <1>1 DEF JobIn, DiscardsIn, Operation, Unneeded
  <2>4. KeepsRows(rows, rows)
    BY DEF KeepsRows
  <2> QED
    BY <2>1, <2>2, <2>3, <2>4, JobFrame
<1>4. Locked' /\ Apart' /\ ArchivedIsNamed' /\ FinalReviewSawTheImages'
  BY DEF IInv, Locked, Apart, Disjoint, Creates, Discards, ArchivedIsNamed,
         FinalReviewSawTheImages, Uploads, Named
<1>5. NamedFilesExist' /\ Stays
  BY <1>1 DEF IInv, NamedFilesExist, Named, Stays, ArchivedIsNamed, Unneeded
<1> QED
  BY <1>2, <1>3, <1>4, <1>5 DEF IInv

\* The run begins, scans, ends or is cancelled.
LEMMA CleanupStep ==
    ASSUME IInv, CleanupBegins \/ CleanupScans \/ CleanupEnds \/ CleanupIsCancelled
    PROVE  IInv' /\ Stays
<1>0. /\ cleanup \in Run /\ cleanup.step \in {"idle", "scanning", "deleting"}
      /\ cleanup.doomed \in SUBSET Assets /\ lock \in Workers \cup {NoOne, Retention}
  BY DEF IInv, TypeOK, Run
<1>1. CASE CleanupBegins
  <2> DEFINE X == IF story.status = "ARCHIVED"
                  THEN {a \in Named : rows[a].kind = "upload" /\ files[a] = "old"}
                  ELSE {}
             P == Protected
  <2>1. X \in SUBSET Assets /\ P \in SUBSET Assets /\ Named \subseteq P
    BY DEF Named, Protected, VisualsProtected, DiscoveryProtected, SourceProtected,
           CatalogProtected
  <2>2. cleanup' = [step |-> "scanning", protected |-> P, doomed |-> {}, due |-> X,
                    cancelled |-> FALSE]
    BY <1>1 DEF CleanupBegins, NoCleanup
  <2> HIDE DEF X, P
  <2>3. /\ cleanup' \in Run /\ cleanup'.step = "scanning" /\ cleanup'.doomed = {}
        /\ cleanup'.protected = P
    BY <2>1, <2>2 DEF Run
  <2>4. lock = NoOne /\ lock' = Retention /\ UNCHANGED <<story, rows, files, catalog, job>>
    BY <1>1 DEF CleanupBegins
  <2>5. \A w \in Workers : ~Discards(job[w])
    BY <2>4, HolderNames DEF IInv, Locked, Locking, JobOK, JobIn, DiscardsIn
  <2>6. \A a \in Assets : a \notin P => Unneeded(a)'
    BY <2>1, <2>4, <2>5 DEF Unneeded, Named, Discards
  <2>7. CleanupOK'
    BY <2>3, <2>6 DEF CleanupOK
  <2>8. Tends
    BY <2>3, <2>4, <2>7, HolderNames DEF Tends
  <2> QED
    BY <2>8, TendStep
<1>2. CASE CleanupScans
  <2> DEFINE X == {a \in Assets : files[a] = "old"} \ cleanup.protected
  <2>1. /\ cleanup' = [[cleanup EXCEPT !.step = "deleting"] EXCEPT !.doomed = X]
        /\ UNCHANGED <<story, rows, files, catalog, job, lock>>
        /\ cleanup.step = "scanning"
    BY <1>2, <1>0 DEF CleanupScans, Run
  <2>2. \A a \in X : a \in Assets /\ files[a] = "old" /\ Unneeded(a)
    BY <2>1 DEF IInv, CleanupOK
  <2> HIDE DEF X
  <2>3. cleanup' \in Run /\ cleanup'.step = "deleting" /\ cleanup'.doomed = X
    BY <1>0, <2>1, <2>2 DEF Run
  <2>4. \A a : Unneeded(a) => Unneeded(a)'
    BY <2>1 DEF Unneeded, Discards
  <2>5. CleanupOK'
    BY <2>1, <2>2, <2>3, <2>4 DEF CleanupOK
  <2>6. Tends
    BY <1>0, <2>1, <2>3, <2>5 DEF Tends
  <2> QED
    BY <2>6, TendStep
<1>3. CASE CleanupEnds
  <2>1. /\ cleanup' = NoCleanup /\ lock' = Released(Retention)
        /\ UNCHANGED <<story, rows, files, catalog, job>>
    BY <1>3 DEF CleanupEnds
  <2>2. CleanupOK'
    BY <2>1 DEF CleanupOK, NoCleanup
  <2>3. Tends
    BY <1>0, <2>1, <2>2, NoCleanupType, HolderNames DEF Tends, Released
  <2> QED
    BY <2>3, TendStep
<1>4. CASE CleanupIsCancelled
  <2>1. /\ cleanup' = [cleanup EXCEPT !.cancelled = TRUE] /\ lock = Retention
        /\ lock' \in {lock, NoOne} /\ UNCHANGED <<story, rows, files, catalog, job>>
    BY <1>4 DEF CleanupIsCancelled
  <2>2. /\ cleanup' \in Run /\ cleanup'.step = cleanup.step
        /\ cleanup'.doomed = cleanup.doomed /\ cleanup'.protected = cleanup.protected
    BY <1>0, <2>1 DEF Run
  <2>3. \A a : Unneeded(a) => Unneeded(a)'
    BY <2>1 DEF Unneeded, Discards
  <2>4. CleanupOK'
    BY <2>1, <2>2, <2>3 DEF IInv, CleanupOK
  <2>5. Tends
    BY <2>1, <2>2, <2>4, HolderNames DEF Tends
  <2> QED
    BY <2>5, TendStep
<1> QED
  BY <1>1, <1>2, <1>3, <1>4

\* The run deletes a file.
LEMMA CleanupDeletesStep ==
    ASSUME IInv, CleanupDeletes
    PROVE  IInv' /\ Stays
<1>1. PICK a \in cleanup.doomed : /\ files' = [files EXCEPT ![a] = "none"]
                                  /\ cleanup' = [cleanup EXCEPT !.doomed = @ \ {a}]
  BY DEF CleanupDeletes, Removed
<1>2. /\ a \in Assets /\ files[a] = "old" /\ Unneeded(a)
      /\ cleanup \in Run /\ cleanup.doomed \in SUBSET Assets
  BY DEF IInv, CleanupOK, TypeOK, Run
<1>3. UNCHANGED <<story, rows, catalog, job, lock>> /\ cleanup.step = "deleting"
  BY DEF CleanupDeletes
<1>4. /\ cleanup' \in Run /\ cleanup'.step = "deleting"
      /\ cleanup'.doomed = cleanup.doomed \ {a}
  BY <1>1, <1>2, <1>3 DEF Run
<1>5. \A w \in Workers : Creates(job[w]) => job[w].asset # a
  BY <1>2 DEF IInv, JobOK, JobIn, CreatesIn, Creates
<1>6. \A b \in Assets \ {a} : files'[b] = files[b]
  BY <1>1 DEF IInv, TypeOK
<1>7. \A b : Unneeded(b) => Unneeded(b)'
  BY <1>3 DEF Unneeded, Discards
<1>8. CleanupOK'
  BY <1>2, <1>4, <1>6, <1>7 DEF IInv, CleanupOK
<1>9. "none" \in Presence
  BY DEF Presence
<1> QED
  BY <1>1, <1>2, <1>3, <1>4, <1>5, <1>8, <1>9, FileStep

\* A file outlives the retention window.
LEMMA FilesAgeStep ==
    ASSUME IInv, FilesAge
    PROVE  IInv' /\ Stays
<1>1. PICK a \in Assets \ InFlight : files[a] = "fresh" /\ files' = [files EXCEPT ![a] = "old"]
  BY DEF FilesAge
<1>2. /\ UNCHANGED <<story, rows, catalog, job, lock, cleanup>>
      /\ cleanup \in Run /\ cleanup.step = "idle"
  BY DEF FilesAge, IInv, TypeOK, Run
<1>3. \A w \in Workers : Creates(job[w]) => job[w].asset # a
  BY <1>1 DEF InFlight
<1>4. CleanupOK'
  BY <1>2 DEF IInv, CleanupOK
<1>5. "old" \in Presence
  BY DEF Presence
<1> QED
  BY <1>1, <1>2, <1>3, <1>4, <1>5, FileStep

\* The program restarts: what it remembered is gone.
LEMMA RestartStep ==
    ASSUME IInv, Restart
    PROVE  IInv' /\ Stays
<1>1. /\ job' = [w \in Workers |-> Idle] /\ cleanup' = NoCleanup /\ lock' = NoOne
      /\ UNCHANGED <<story, rows, files, catalog>>
  BY DEF Restart
<1>2. TypeOK'
  BY <1>1, IdleFacts, NoCleanupType DEF IInv, TypeOK
<1>3. (\A w \in Workers : JobOK(job[w])') /\ Locked'
  BY <1>1, IdleFacts DEF JobOK, Locked, Locking
<1>4. Apart'
  <2> SUFFICES ASSUME NEW v \in Workers, NEW u \in Workers
               PROVE  Disjoint(job'[v], job'[u])
    BY DEF Apart, Disjoint, Creates, Discards
  <2> QED
    BY <1>1, IdleFacts DEF Disjoint
<1>5. CleanupOK'
  BY <1>1 DEF CleanupOK, NoCleanup
<1>6. ArchivedIsNamed' /\ NamedFilesExist' /\ FinalReviewSawTheImages' /\ Stays
  BY <1>1 DEF IInv, ArchivedIsNamed, NamedFilesExist, FinalReviewSawTheImages, Named,
              Uploads, Stays
<1> QED
  BY <1>2, <1>3, <1>4, <1>5, <1>6 DEF IInv

-----------------------------------------------------------------------------
(* The theorems *)

\* The invariant holds at first.
LEMMA InitInv == Init => IInv
<1> SUFFICES ASSUME Init PROVE IInv
  OBVIOUS
<1> USE DEF Init
<1>1. TypeOK
  BY IdleFacts, NoCleanupType DEF TypeOK, Story, Statuses, MaybeRow, Presence, Entry
<1>2. (\A w \in Workers : JobOK(job[w])) /\ Locked
  BY IdleFacts DEF JobOK, Locked, Locking
<1>3. Apart
  BY IdleFacts DEF Apart, Disjoint
<1>4. CleanupOK
  BY DEF CleanupOK, NoCleanup
<1>5. ArchivedIsNamed /\ NamedFilesExist /\ FinalReviewSawTheImages
  BY DEF ArchivedIsNamed, NamedFilesExist, FinalReviewSawTheImages, Named
<1> QED
  BY <1>1, <1>2, <1>3, <1>4, <1>5 DEF IInv

\* Every step of a request preserves the invariant and leaves the archive whole.
LEMMA RequestStep ==
    ASSUME IInv, NEW w \in Workers, Request(w)
    PROVE  IInv' /\ Stays
<1>1. CASE UploadBegins(w)
  BY <1>1, UploadBeginsStep
<1>2. CASE ImageIsWritten(w) \/ VideoIsWritten(w) \/ OriginalIsDownloaded(w)
           \/ OriginalIsCloned(w)
  BY <1>2, WrittenStep DEF ImageIsWritten, VideoIsWritten, OriginalIsDownloaded,
                           OriginalIsCloned, At
<1>3. CASE UploadCommits(w)
  BY <1>3, UploadCommitsStep
<1>4. CASE UploadIsStale(w)
  BY <1>4, UploadIsStaleStep
<1>5. CASE ReplacedIsRemoved(w)
  BY <1>5, ReplacedIsRemovedStep
<1>6. CASE DeleteCommits(w)
  BY <1>6, DeleteCommitsStep
<1>7. CASE AcquireBegins(w)
  BY <1>7, AcquireBeginsStep
<1>8. CASE AcquireCommits(w)
  BY <1>8, AcquireCommitsStep
<1>9. CASE AcquireFails(w)
  BY <1>9, AcquireFailsStep
<1>10. CASE StageBegins(w)
  BY <1>10, StageBeginsStep
<1>11. CASE ReuseBegins(w)
  BY <1>11, ReuseBeginsStep
<1>12. CASE StageIsSaved(w) \/ CloneIsSaved(w)
  BY <1>12, CommonsIsSavedStep
<1>13. CASE ApproveBegins(w)
  BY <1>13, ReviewBeginsStep DEF ApproveBegins
<1>14. CASE RejectBegins(w)
  BY <1>14, ReviewBeginsStep DEF RejectBegins
<1>15. CASE SetStatus(w)
  BY <1>15, SetStatusStep
<1>16. CASE LifecycleBegins(w)
  BY <1>16, LifecycleBeginsStep
<1>17. CASE LifecycleIsSaved(w)
  BY <1>17, LifecycleIsSavedStep
<1>18. CASE ReviewerReadsStory(w) \/ ReviewerReadsImages(w)
  BY <1>18, ReviewerReadsStep
<1>19. CASE ReviewerApproves(w)
  BY <1>19, ReviewerApprovesStep
<1>20. CASE RequestFails(w)
  BY <1>20, RequestFailsStep
<1> QED
  BY <1>1, <1>2, <1>3, <1>4, <1>5, <1>6, <1>7, <1>8, <1>9, <1>10, <1>11, <1>12, <1>13,
     <1>14, <1>15, <1>16, <1>17, <1>18, <1>19, <1>20 DEF Request

\* Every step of the program does.
LEMMA NextStep ==
    ASSUME IInv, [Next]_vars
    PROVE  IInv' /\ [Stays]_vars
<1>1. CASE \E w \in Workers : Request(w)
  BY <1>1, RequestStep
<1>2. CASE Cleanup
  BY <1>2, CleanupStep, CleanupDeletesStep DEF Cleanup
<1>3. CASE StoryMoves
  BY <1>3, StoryMovesStep
<1>4. CASE FilesAge
  BY <1>4, FilesAgeStep
<1>5. CASE Restart
  BY <1>5, RestartStep
<1>6. CASE UNCHANGED vars
  <2>1. UNCHANGED <<story, rows, files, catalog, lock, job, cleanup>>
    BY <1>6 DEF vars
  <2>2. Tends
    BY <2>1 DEF Tends, IInv, TypeOK, CleanupOK, Unneeded, Discards
  <2> QED
    BY <2>2, TendStep
<1> QED
  BY <1>1, <1>2, <1>3, <1>4, <1>5, <1>6 DEF Next

\* What requests in flight remember stays true of the store: the inductive
\* invariant holds in every reachable state.
THEOREM Invariance == Spec => []IInv
<1>1. IInv /\ [Next]_vars => IInv'
  BY NextStep
<1> QED
  BY <1>1, InitInv, PTL DEF Spec

\* Every variable keeps its type.
THEOREM TypeCorrectness == Spec => []TypeOK
<1>1. IInv => TypeOK
  BY DEF IInv
<1> QED
  BY <1>1, Invariance, PTL

\* An image that a row names has its file, through replacements, failures,
\* cancellations, restarts and cleanups that outlive their lock.
THEOREM NamedFilesExistAlways == Spec => []NamedFilesExist
<1>1. IInv => NamedFilesExist
  BY DEF IInv
<1> QED
  BY <1>1, Invariance, PTL

\* A story that passed its final review carries the images the reviewer saw,
\* although uploads and the review share no lock.
THEOREM FinalReviewSawTheImagesAlways == Spec => []FinalReviewSawTheImages
<1>1. IInv => FinalReviewSawTheImages
  BY DEF IInv
<1> QED
  BY <1>1, Invariance, PTL

\* What is archived keeps its row and its file at every step: no replacement,
\* no deletion and no cleanup reaches it.
THEOREM ArchivedStaysAlways == Spec => ArchivedStays
<1>1. IInv /\ [Next]_vars => [Stays]_vars
  BY NextStep
<1>2. ArchivedStays <=> [][Stays]_vars
  BY DEF ArchivedStays, Stays
<1> QED
  BY <1>1, <1>2, Invariance, PTL DEF Spec

=============================================================================
