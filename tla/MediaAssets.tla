---------------------------- MODULE MediaAssets ----------------------------
(* The stored media of one story and everything that adds, replaces, archives *)
(* or deletes it: editor uploads (application/visual_assets.py), staged and   *)
(* reused Commons assets (visual_discovery.py), acquired source videos        *)
(* (source_media.py), the catalog's archive (media_catalog.py) and the        *)
(* retention cleanup (operations/retention.py) behind the dispatcher.  Most   *)
(* of them hold one asset lifecycle lock; the Commons operations hold none,   *)
(* and the editorial workflow, external here, moves the story without it.     *)
(* A file and the database row that names it are written in two steps.        *)
(* The story has one script segment and one source video: one upload slot per *)
(* script revision and one media index.                                       *)
EXTENDS Naturals, FiniteSets

CONSTANTS
    Workers,      \* requests in flight
    Assets,       \* the ids uuid4 hands out, each with its file path
    Contents,     \* digests of the bytes
    MaxVersion,   \* bound: story version
    MaxLifecycle, \* bound: catalog version
    MaxCancels,   \* bound: cancellations and failures
    NoOne, NoAsset

VARIABLES
    story,    \* version, script revision, status, and the images final review saw
    rows,     \* the three asset tables: asset -> row or NoAsset
    files,    \* the asset's file: "none", "fresh" or "old" (past the retention window)
    catalog,  \* media_catalog_lifecycle: archived and version
    lock,     \* holder of the asset lifecycle lock
    job,      \* per worker: the operation in flight
    cleanup,  \* the retention run and its thread
    faults    \* cancellations and failures so far

vars == <<story, rows, files, catalog, lock, job, cleanup, faults>>

Kinds == {"upload", "commons", "source"}
Row == [kind: Kinds, revision: Nat, status: {"STAGED", "APPROVED", "REJECTED"},
        content: Contents]
Idle == [op |-> "none", step |-> "idle", asset |-> NoAsset, at |-> 0,
         revision |-> 0, shown |-> {}]
NoCleanup == [step |-> "idle", protected |-> {}, doomed |-> {}, due |-> {},
              cancelled |-> FALSE]
Retention == "retention"

\* The asset ids, the rows and the holders of the lock are told apart.
ASSUME AssetNames == NoAsset \notin Assets /\ NoAsset \notin Row
ASSUME HolderNames == NoOne \notin Workers \cup {Retention} /\ Retention \notin Workers

Init ==
    /\ story = [version |-> 1, revision |-> 1, status |-> "SCRIPT_READY", seen |-> {}]
    /\ rows = [a \in Assets |-> NoAsset]
    /\ files = [a \in Assets |-> "none"]
    /\ catalog = [a \in Assets |-> [archived |-> FALSE, version |-> 1]]
    /\ lock = NoOne
    /\ job = [w \in Workers |-> Idle]
    /\ cleanup = NoCleanup
    /\ faults = 0

----------------------------------------------------------------------------
(* Who names what. *)

\* The entries of the catalog: every row of the three tables.
Named == {a \in Assets : rows[a] # NoAsset}
InFlight == {job[w].asset : w \in Workers}
\* An id not used before.
New(a) == rows[a] = NoAsset /\ files[a] = "none" /\ a \notin InFlight
\* list_for_script: the uploads of a revision.
Uploads(revision) ==
    {a \in Named : rows[a].kind = "upload" /\ rows[a].revision = revision}
\* CompositeRetentionAssetProtector: the visual repository protects the images
\* of a story that is not archived, the discovery repository approved assets,
\* the source repository every video, and the catalog every row of the three.
VisualsProtected ==
    IF story.status = "ARCHIVED" THEN {} ELSE {a \in Named : rows[a].kind = "upload"}
DiscoveryProtected ==
    {a \in Named : rows[a].kind = "commons" /\ rows[a].status = "APPROVED"}
SourceProtected == {a \in Named : rows[a].kind = "source"}
CatalogProtected == Named
\* Fault: the archive protects nothing of its own.
ProtectedByStory == VisualsProtected \cup DiscoveryProtected \cup SourceProtected
Protected ==
    VisualsProtected \cup DiscoveryProtected \cup SourceProtected \cup CatalogProtected

At(w, op, step) == job[w].op = op /\ job[w].step = step
Goto(w, step) == job' = [job EXCEPT ![w].step = step]
Ended(w) == [job EXCEPT ![w] = Idle]
Released(w) == IF lock = w THEN NoOne ELSE lock
\* An operation begins with what it has read and compares or uses later.
Begin(w, op, asset, at, revision, shown) ==
    job' = [job EXCEPT ![w] = [op |-> op, step |-> "begun", asset |-> asset,
                               at |-> at, revision |-> revision, shown |-> shown]]
\* Wait for the lifecycle lock and enter.
Enter(w) == job[w] = Idle /\ lock = NoOne /\ lock' = w
\* The operation returns or raises: the lock, when it is held, is released.
Return(w) == job' = Ended(w) /\ lock' = Released(w)

Removed(a) == [files EXCEPT ![a] = "none"]

----------------------------------------------------------------------------
(* Editor uploads: VisualAssetService. *)

\* Fault: an archived image is replaced and deleted like any other.
EditableThoughArchived == story.status \in {"SCRIPT_READY", "PENDING_SECOND_REVIEW"}

\* _require_editable_segment and _require_current_assets_mutable; the request
\* names the version and the revision the story has.
Editable ==
    /\ story.status \in {"SCRIPT_READY", "PENDING_SECOND_REVIEW"}
    /\ \A a \in Uploads(story.revision) : ~catalog[a].archived

UploadBegins(w) ==
    /\ Enter(w)
    /\ Editable
    /\ \E a \in Assets : New(a) /\ Begin(w, "upload", a, story.version, story.revision, {})
    /\ UNCHANGED <<story, rows, files, catalog, cleanup, faults>>

\* The bytes are read, checked and moved into place under the asset's path.
Written(w) ==
    /\ files' = [files EXCEPT ![job[w].asset] = "fresh"]
    /\ Goto(w, "written")
    /\ UNCHANGED <<story, rows, catalog, lock, cleanup, faults>>

ImageIsWritten(w) == At(w, "upload", "begun") /\ Written(w)
VideoIsWritten(w) == At(w, "acquire", "begun") /\ Written(w)
OriginalIsDownloaded(w) == At(w, "stage", "begun") /\ Written(w)
OriginalIsCloned(w) == At(w, "reuse", "begun") /\ Written(w)

\* Fault: the story keeps its version.
AdvanceNothing(w) == story.version = job[w].at /\ story' = story

\* _advance_story_version: the compare and swap on the story row.
Advance(w) ==
    /\ story.version = job[w].at
    /\ story' = [story EXCEPT !.version = @ + 1]

\* replace_segment_upload: one transaction; the replaced asset is kept in the
\* job to have its file removed.
UploadCommits(w) ==
    /\ At(w, "upload", "written")
    /\ story.version < MaxVersion
    /\ Advance(w)
    /\ \E c \in Contents :
          LET replaced == Uploads(job[w].revision)
              new == [kind |-> "upload", revision |-> job[w].revision,
                      status |-> "APPROVED", content |-> c]
          IN  /\ rows' = [a \in Assets |->
                            IF a = job[w].asset THEN new
                            ELSE IF a \in replaced THEN NoAsset ELSE rows[a]]
              /\ job' = [job EXCEPT ![w].step = "discarding", ![w].shown = replaced]
    /\ UNCHANGED <<files, catalog, lock, cleanup, faults>>

\* The version moved on: the new file is removed and the request raises.
UploadIsStale(w) ==
    /\ At(w, "upload", "written")
    /\ story.version # job[w].at
    /\ files' = Removed(job[w].asset)
    /\ Return(w)
    /\ UNCHANGED <<story, rows, catalog, cleanup, faults>>

\* _discard_replaced, also the end of a deletion.
ReplacedIsRemoved(w) ==
    /\ job[w].step = "discarding"
    /\ files' = [a \in Assets |-> IF a \in job[w].shown THEN "none" ELSE files[a]]
    /\ Return(w)
    /\ UNCHANGED <<story, rows, catalog, cleanup, faults>>

\* delete_segment up to the end of delete_segment_upload's transaction.
DeleteCommits(w) ==
    LET removed == Uploads(story.revision)
    IN  /\ Enter(w)
        /\ Editable
        /\ removed # {}
        /\ story.version < MaxVersion
        /\ story' = [story EXCEPT !.version = @ + 1]
        /\ rows' = [a \in Assets |-> IF a \in removed THEN NoAsset ELSE rows[a]]
        /\ job' = [job EXCEPT ![w] = [Idle EXCEPT !.op = "delete", !.step = "discarding",
                                                  !.shown = removed]]
        /\ UNCHANGED <<files, catalog, cleanup, faults>>

----------------------------------------------------------------------------
(* Source videos: SourceMediaService.acquire. *)

\* Nothing is downloaded when the index already has its artifact.
AcquireBegins(w) ==
    /\ Enter(w)
    /\ SourceProtected = {}
    /\ \E a \in Assets : New(a) /\ Begin(w, "acquire", a, 0, 0, {})
    /\ UNCHANGED <<story, rows, files, catalog, cleanup, faults>>

SourceRow(c) == [kind |-> "source", revision |-> 0, status |-> "APPROVED", content |-> c]

AcquireCommits(w) ==
    /\ At(w, "acquire", "written")
    /\ \E c \in Contents : rows' = [rows EXCEPT ![job[w].asset] = SourceRow(c)]
    /\ Return(w)
    /\ UNCHANGED <<story, files, catalog, cleanup, faults>>

\* A probe or a write that fails, and a cancellation that arrives before or
\* while the transaction commits: the file is removed, whether or not the row
\* came to be.
AcquireFails(w) ==
    /\ At(w, "acquire", "written")
    /\ faults < MaxCancels
    /\ faults' = faults + 1
    /\ files' = Removed(job[w].asset)
    /\ \/ UNCHANGED rows
       \/ \E c \in Contents : rows' = [rows EXCEPT ![job[w].asset] = SourceRow(c)]
    /\ Return(w)
    /\ UNCHANGED <<story, catalog, cleanup>>

----------------------------------------------------------------------------
(* Commons assets: VisualDiscoveryApplication, which takes no lock. *)

StageBegins(w) ==
    /\ job[w] = Idle
    /\ \E a \in Assets : New(a) /\ Begin(w, "stage", a, 0, story.revision, {})
    /\ UNCHANGED <<story, rows, files, catalog, lock, cleanup, faults>>

\* reuse reads the approved asset and its bytes, then clones the file; the
\* clone's source is kept in the job.
ReuseBegins(w) ==
    /\ job[w] = Idle
    /\ \E a \in Assets, from \in DiscoveryProtected :
          /\ New(a)
          /\ files[from] # "none"
          /\ Begin(w, "reuse", a, 0, story.revision, {from})
    /\ UNCHANGED <<story, rows, files, catalog, lock, cleanup, faults>>

\* The row is created with the revision read at the beginning: the story may
\* have moved on.
Shelve(w, contents) ==
    /\ \E c \in contents :
          rows' = [rows EXCEPT ![job[w].asset] =
                     [kind |-> "commons", revision |-> job[w].revision,
                      status |-> "STAGED", content |-> c]]
    /\ Return(w)
    /\ UNCHANGED <<story, files, catalog, cleanup, faults>>

StageIsSaved(w) == At(w, "stage", "written") /\ Shelve(w, Contents)
CloneIsSaved(w) ==
    At(w, "reuse", "written") /\ Shelve(w, {rows[b].content : b \in job[w].shown})

\* approve and reject check the story, then set the status whatever it is.
ReviewBegins(w, verdict) ==
    /\ job[w] = Idle
    /\ \E a \in Named :
          /\ rows[a].kind = "commons" /\ rows[a].revision = story.revision
          /\ Begin(w, verdict, a, 0, 0, {})
    /\ UNCHANGED <<story, rows, files, catalog, lock, cleanup, faults>>

ApproveBegins(w) == ReviewBegins(w, "approve")
RejectBegins(w) == ReviewBegins(w, "reject")

SetStatus(w) ==
    /\ job[w].op \in {"approve", "reject"}
    /\ rows' = [rows EXCEPT ![job[w].asset].status =
                   IF job[w].op = "approve" THEN "APPROVED" ELSE "REJECTED"]
    /\ Return(w)
    /\ UNCHANGED <<story, files, catalog, cleanup, faults>>

----------------------------------------------------------------------------
(* The catalog: archive and restore. *)

\* set_lifecycle: every entry of the same bytes and the same kind of media
\* changes with the one named. Commons assets are images here.
Video(a) == rows[a].kind = "source"
SameContent(a) ==
    {b \in Named : rows[b].content = rows[a].content /\ (Video(b) <=> Video(a))}
Changing(a, archived) == {b \in SameContent(a) : catalog[b].archived # archived}

\* _verify_content: the bytes of an entry are there as they were cataloged.
Intact(a) == files[a] # "none"

\* The entries are read; a restoration verifies the bytes of each member.
LifecycleBegins(w) ==
    /\ Enter(w)
    /\ \E a \in Named, archived \in BOOLEAN :
          /\ Changing(a, archived) # {}
          /\ ~archived => \A b \in Changing(a, archived) : Intact(b)
          /\ Begin(w, IF archived THEN "archive" ELSE "restore", NoAsset, 0, 0,
                   Changing(a, archived))
    /\ UNCHANGED <<story, rows, files, catalog, cleanup, faults>>

LifecycleIsSaved(w) ==
    /\ job[w].op \in {"archive", "restore"}
    /\ \A b \in job[w].shown : catalog[b].version < MaxLifecycle
    /\ catalog' = [b \in Assets |->
                     IF b \in job[w].shown
                     THEN [archived |-> job[w].op = "archive",
                           version |-> catalog[b].version + 1]
                     ELSE catalog[b]]
    /\ Return(w)
    /\ UNCHANGED <<story, rows, files, cleanup, faults>>

----------------------------------------------------------------------------
(* Failures and cancellations of a request. *)

\* Before the file is in place nothing is left behind. After it, an error of
\* an upload or of a staged asset removes the file; a cancellation does not,
\* and may find the transaction committed.
RequestFails(w) ==
    /\ job[w] # Idle /\ ~At(w, "acquire", "written")
    /\ faults < MaxCancels
    /\ faults' = faults + 1
    /\ \/ UNCHANGED <<rows, files, story>>
       \/ /\ job[w].op \in {"upload", "stage", "reuse"} /\ job[w].step = "written"
          /\ files' = Removed(job[w].asset)
          /\ UNCHANGED <<rows, story>>
    /\ Return(w)
    /\ UNCHANGED <<catalog, cleanup>>

----------------------------------------------------------------------------
(* Retention: OperationDispatcher.trigger and RetentionCleanupHandler. *)

\* The dispatcher's execution lock admits one run; the handler takes the
\* lifecycle lock and reads the protected paths before its thread starts.
CleanupBegins ==
    /\ cleanup.step = "idle"
    /\ lock = NoOne
    /\ lock' = Retention
    /\ cleanup' = [NoCleanup EXCEPT !.step = "scanning", !.protected = Protected,
                     !.due = IF story.status = "ARCHIVED"
                             THEN {a \in Named : rows[a].kind = "upload" /\ files[a] = "old"}
                             ELSE {}]
    /\ UNCHANGED <<story, rows, files, catalog, job, faults>>

\* _scan_root: the old files that are not protected.
CleanupScans ==
    /\ cleanup.step = "scanning"
    /\ cleanup' = [cleanup EXCEPT !.step = "deleting",
                     !.doomed = {a \in Assets : files[a] = "old"} \ cleanup.protected]
    /\ UNCHANGED <<story, rows, files, catalog, lock, job, faults>>

\* _apply_candidate: one file that is still the one that was inspected.
CleanupDeletes ==
    /\ cleanup.step = "deleting"
    /\ \E a \in cleanup.doomed :
          /\ files' = Removed(a)
          /\ cleanup' = [cleanup EXCEPT !.doomed = @ \ {a}]
    /\ UNCHANGED <<story, rows, catalog, lock, job, faults>>

\* The thread ends; the lock is released unless a cancellation already did.
CleanupEnds ==
    /\ cleanup.step = "deleting" /\ cleanup.doomed = {}
    /\ cleanup' = NoCleanup
    /\ lock' = Released(Retention)
    /\ UNCHANGED <<story, rows, files, catalog, job, faults>>

\* The first cancellation waits for the thread, a second one does not: both
\* locks are released while the thread goes on.
CleanupIsCancelled ==
    /\ cleanup.step \in {"scanning", "deleting"} /\ lock = Retention
    /\ faults < MaxCancels
    /\ faults' = faults + 1
    /\ cleanup' = [cleanup EXCEPT !.cancelled = TRUE]
    /\ lock' = IF cleanup.cancelled THEN NoOne ELSE lock
    /\ UNCHANGED <<story, rows, files, catalog, job>>

----------------------------------------------------------------------------
(* The story as the editorial workflow moves it, without the lock. *)

\* A reviewer opens the story and its images: VisualAssetService.list reads
\* the story first, the images after it.
ReviewerReadsStory(w) ==
    /\ job[w] = Idle
    /\ story.status = "PENDING_SECOND_REVIEW"
    /\ Begin(w, "review", NoAsset, story.version, story.revision, {})
    /\ UNCHANGED <<story, rows, files, catalog, lock, cleanup, faults>>

ReviewerReadsImages(w) ==
    /\ At(w, "review", "begun")
    /\ job' = [job EXCEPT ![w].step = "read", ![w].shown = Uploads(job[w].revision)]
    /\ UNCHANGED <<story, rows, files, catalog, lock, cleanup, faults>>

\* submit_second_review approves the version that was read.
ReviewerApproves(w) ==
    /\ At(w, "review", "read")
    /\ IF story.version = job[w].at /\ story.status = "PENDING_SECOND_REVIEW"
       THEN story' = [story EXCEPT !.version = @ + 1, !.status = "DONE",
                                   !.seen = job[w].shown]
       ELSE UNCHANGED story
    /\ Return(w)
    /\ UNCHANGED <<rows, files, catalog, cleanup, faults>>

StoryMoves ==
    /\ story.version < MaxVersion
    /\ \/ story.status = "SCRIPT_READY"
          /\ story' = [story EXCEPT !.version = @ + 1, !.status = "PENDING_SECOND_REVIEW"]
       \/ story.status \in {"SCRIPT_READY", "PENDING_SECOND_REVIEW"}
          /\ story' = [story EXCEPT !.version = @ + 1, !.revision = @ + 1,
                                    !.status = "SCRIPT_READY"]
       \/ story.status = "DONE"
          /\ story' = [story EXCEPT !.version = @ + 1, !.status = "PENDING_SECOND_REVIEW"]
       \/ story.status # "ARCHIVED"
          /\ story' = [story EXCEPT !.version = @ + 1, !.status = "ARCHIVED"]
    /\ UNCHANGED <<rows, files, catalog, lock, job, cleanup, faults>>

\* The retention window, of at least a day, outlasts any request and any
\* cleanup, whose cutoff is computed once when its thread starts.
FilesAge ==
    /\ cleanup.step \notin {"scanning", "deleting"}
    /\ \E a \in Assets \ InFlight :
          files[a] = "fresh" /\ files' = [files EXCEPT ![a] = "old"]
    /\ UNCHANGED <<story, rows, catalog, lock, job, cleanup, faults>>

Restart ==
    /\ faults < MaxCancels
    /\ faults' = faults + 1
    /\ lock' = NoOne
    /\ job' = [w \in Workers |-> Idle]
    /\ cleanup' = NoCleanup
    /\ UNCHANGED <<story, rows, files, catalog>>

----------------------------------------------------------------------------

Request(w) ==
    \/ UploadBegins(w) \/ ImageIsWritten(w) \/ UploadCommits(w) \/ UploadIsStale(w)
    \/ ReplacedIsRemoved(w) \/ DeleteCommits(w)
    \/ AcquireBegins(w) \/ VideoIsWritten(w) \/ AcquireCommits(w) \/ AcquireFails(w)
    \/ StageBegins(w) \/ OriginalIsDownloaded(w) \/ StageIsSaved(w)
    \/ ReuseBegins(w) \/ OriginalIsCloned(w) \/ CloneIsSaved(w)
    \/ ApproveBegins(w) \/ RejectBegins(w) \/ SetStatus(w)
    \/ LifecycleBegins(w) \/ LifecycleIsSaved(w)
    \/ ReviewerReadsStory(w) \/ ReviewerReadsImages(w) \/ ReviewerApproves(w)
    \/ RequestFails(w)

Cleanup ==
    \/ CleanupBegins \/ CleanupScans \/ CleanupDeletes \/ CleanupEnds
    \/ CleanupIsCancelled

Next ==
    \/ \E w \in Workers : Request(w)
    \/ Cleanup \/ StoryMoves \/ FilesAge \/ Restart

Spec == Init /\ [][Next]_vars

----------------------------------------------------------------------------

(* An image the story or the Commons shelf names has its file, through        *)
(* replacements, failures, cancellations, crashes and cleanups that run       *)
(* beside them. (A source video can lose its own: see the README.)            *)
NamedFilesExist ==
    \A a \in Named : rows[a].kind # "source" => files[a] # "none"

(* What an operator archived stays restorable: no upload replaces it, no      *)
(* deletion and no cleanup removes it until it is restored.                   *)
ArchivedStays ==
    [][\A a \in Assets : catalog[a].archived /\ files[a] # "none" =>
          rows'[a] # NoAsset /\ files'[a] # "none"]_vars

(* A story that passed the final review carries exactly the images the        *)
(* reviewer was shown, although they are uploaded beside the workflow's locks.*)
FinalReviewSawTheImages ==
    story.status = "DONE" => story.seen = Uploads(story.revision)

(* docs/architecture/visual-assets.md:60-62: archiving a story lets the       *)
(* retention window reclaim its visual media.                                 *)
ArchivedStoryIsReclaimed ==
    [][CleanupEnds => \A a \in cleanup.due : files[a] = "none"]_vars
============================================================================
