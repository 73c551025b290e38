-------------------------- MODULE SourceCollection --------------------------
(* One collection of one source, from the gateway that paces it               *)
(* (sources/collectors/rate_limited.py) through the collectors (reddit.py,    *)
(* guardian.py, public_pages.py) and the chain of page fetchers               *)
(* (infrastructure/fetchers) to the run that is recorded (support.py,         *)
(* models.py).  Time is counted in ticks of the gateway's clock.              *)
EXTENDS Naturals, FiniteSets, Sequences

CONSTANTS
    Callers,        \* collections in flight
    OAuthSources,   \* Reddit: a token, then a listing
    KeySources,     \* Guardian: a listing
    PageSources,    \* Dazhong and Pikabu: an index page, then a page per story
    Layers,         \* the page fetchers in their order
    Scrapy,         \* the page fetcher that tells a refused access from a failure
    Slots,          \* MAX_CONCURRENT_SOURCE_COLLECTIONS
    Interval,       \* MIN_SOURCE_COLLECTION_INTERVAL_SECONDS, in ticks
    MaxCandidates,  \* the limit of a collection
    RunCap,         \* items, and errors, that a run may hold: 100 in the code
    MaxListed,      \* bound: results a provider lists, of either sort
    MaxStops,       \* bound: cancellations
    NoSource

VARIABLES
    since,   \* ticks since the source's last network completion, or Interval
    collection, \* per caller: the collection in flight
    token,   \* the cached OAuth token: "none", "good" or "revoked"
    cancels, \* cancellations so far
    quiet    \* history: ticks since the source was last being collected

collectionVars == <<since, collection, token, cancels, quiet>>

Sources == OAuthSources \cup KeySources \cup PageSources

\* The collectors accept a limit of at least one and at most what a run holds.
ASSUME LimitAssumption == RunCap \in Nat /\ MaxCandidates \in 1..RunCap /\ MaxListed \in Nat
ASSUME CadenceAssumption == Interval \in Nat /\ NoSource \notin Sources
ASSUME KindAssumption == (OAuthSources \cup KeySources) \cap PageSources = {}
\* build_container appends Scrapy, when it is enabled, after the others.
ASSUME LayerAssumption == Len(Layers) > 0 /\ \A i \in 1..(Len(Layers) - 1) : Layers[i] # Scrapy

\* A collection: the items and failures of its run so far, the failures' codes,
\* and whether a page has reached the mapper (`started` is bound).
NoCall == [source |-> NoSource, step |-> "idle", page |-> "discover", layer |-> 1,
           left |-> 0, items |-> 0, failures |-> 0, errors |-> {}, outcome |-> "none",
           mapped |-> FALSE]

CollectionInit ==
    /\ since = [s \in Sources |-> Interval]
    /\ collection = [c \in Callers |-> NoCall]
    /\ token = "none"
    /\ cancels = 0
    /\ quiet = since

----------------------------------------------------------------------------
(* RateLimitedSourceCollectorGateway.collect. *)

AtStep(c, step) == collection[c].step = step
\* The delegate is running: the caller holds a slot.
OnNetwork(c) == collection[c].step \notin {"idle", "cooling", "queued"}
Locked(s) == \E c \in Callers : collection[c].source = s
Update(c, record) == collection' = [collection EXCEPT ![c] = record]

CollectBegins(c) ==
    /\ AtStep(c, "idle")
    /\ \E s \in Sources :
          /\ ~Locked(s)
          /\ Update(c, [NoCall EXCEPT !.source = s, !.step = "cooling"])
    /\ UNCHANGED <<since, token, cancels>>

\* _wait_for_source_cooldown, before a slot is asked for.
CooldownEnds(c) ==
    /\ AtStep(c, "cooling")
    /\ since[collection[c].source] >= Interval
    /\ Update(c, [collection[c] EXCEPT !.step = "queued"])
    /\ UNCHANGED <<since, token, cancels>>

SlotTaken(c) ==
    /\ AtStep(c, "queued")
    /\ Cardinality({d \in Callers : OnNetwork(d)}) < Slots
    /\ Update(c, [collection[c] EXCEPT !.step = "starting"])
    /\ UNCHANGED <<since, token, cancels>>

\* Fault: only a collection that returned is remembered.
CompletionOfReturned(c) ==
    IF AtStep(c, "finished") THEN [since EXCEPT ![collection[c].source] = 0] ELSE since

\* The finally of collect: what reached the network is remembered, however it
\* ended.
Completion(c) == IF OnNetwork(c) THEN [since EXCEPT ![collection[c].source] = 0] ELSE since

CollectReturns(c) ==
    /\ AtStep(c, "finished")
    /\ since' = Completion(c)
    /\ Update(c, NoCall)
    /\ UNCHANGED <<token, cancels>>

\* What escaped the collector leaves through the finally of the gateway, and
\* with it all that the collection had found.
CollectRaises(c) ==
    /\ AtStep(c, "raised")
    /\ since' = Completion(c)
    /\ Update(c, NoCall)
    /\ UNCHANGED <<token, cancels>>

CollectIsCancelled(c) ==
    /\ collection[c].step \notin {"idle", "finished", "raised"}
    /\ cancels < MaxStops
    /\ cancels' = cancels + 1
    /\ since' = Completion(c)
    /\ Update(c, NoCall)
    /\ UNCHANGED token

Older(age) == [s \in Sources |-> IF age[s] < Interval THEN age[s] + 1 ELSE Interval]
Collected(s) == \E c \in Callers : OnNetwork(c) /\ collection[c].source = s
Quiet(age) == [s \in Sources |-> IF Collected(s) THEN 0 ELSE age[s]]

Tick ==
    /\ since' = Older(since)
    /\ quiet' = Quiet(Older(quiet))
    /\ UNCHANGED <<collection, token, cancels>>

----------------------------------------------------------------------------
(* RunRecorder and SourceCollectionRun. *)

\* validate_run_evidence and the caps: what a run must satisfy to be built. The
\* cap of a thousand attempts is reached only beyond the two others.
ValidRun(r) ==
    /\ r.outcome = "succeeded" => r.items > 0 /\ r.errors = {}
    /\ r.outcome = "partial" => r.items > 0 /\ r.errors # {}
    /\ r.outcome \in {"disabled", "unconfigured", "unauthorized", "failed"} =>
          r.items = 0 /\ r.errors # {}
    /\ r.outcome = "stopped_captcha" => "captcha_detected" \in r.errors
    /\ r.outcome = "stopped_access_challenge" => "access_challenge_detected" \in r.errors
    /\ r.items <= RunCap /\ r.failures <= RunCap

\* finish: an outcome that is not given follows from items and errors.
RunOf(r, outcome) ==
    [r EXCEPT !.step = "finished",
              !.outcome = IF outcome # "none" THEN outcome
                          ELSE IF r.items = 0 THEN "failed"
                          ELSE IF r.errors # {} THEN "partial" ELSE "succeeded"]

Raised(r) == [r EXCEPT !.step = "raised"]

\* A run that its model refuses is a ValidationError, which no collector catches.
Finished(r, outcome) ==
    IF ValidRun(RunOf(r, outcome)) THEN RunOf(r, outcome) ELSE Raised(r)

WithError(r, code) == [r EXCEPT !.errors = @ \cup {code}, !.failures = @ + 1]

\* Fault: a collection that found nothing says nothing.
FinishedSilently(r) == Finished(r, "none")

\* The end of collect in each collector: nothing at all is an error as well.
FinishedWithItems(r) ==
    Finished(IF r.items = 0 /\ r.errors = {}
             THEN WithError(r, "source_returned_no_items") ELSE r, "none")

----------------------------------------------------------------------------
(* What every collector does first. *)

\* readiness_failure and fail_readiness: the outcome names the state.
Unready(c) ==
    /\ AtStep(c, "starting")
    /\ \E state \in {"disabled", "unconfigured", "unauthorized"} :
          Update(c, Finished(WithError(collection[c], state), state))
    /\ UNCHANGED <<since, token, cancels>>

LimitRejected(c) ==
    /\ AtStep(c, "starting")
    /\ Update(c, Finished(WithError(collection[c], "invalid_collection_limit"), "none"))
    /\ UNCHANGED <<since, token, cancels>>

----------------------------------------------------------------------------
(* Reddit and Guardian. *)

\* _token: the cached token until it expires, otherwise a new one.
TokenFound(c) ==
    /\ AtStep(c, "starting") /\ collection[c].source \in OAuthSources
    /\ token # "none"
    /\ Update(c, [collection[c] EXCEPT !.step = "listing"])
    /\ UNCHANGED <<since, token, cancels>>

TokenRequested(c) ==
    /\ AtStep(c, "starting") /\ collection[c].source \in OAuthSources
    /\ token = "none"
    /\ \/ token' = "good" /\ Update(c, [collection[c] EXCEPT !.step = "listing"])
       \/ /\ UNCHANGED token
          /\ \E code \in {"oauth_unreachable", "oauth_rejected", "oauth_contract_invalid"} :
                Update(c, Finished(WithError(collection[c], code), "none"))
    /\ UNCHANGED <<since, cancels>>

KeyUsed(c) ==
    /\ AtStep(c, "starting") /\ collection[c].source \in KeySources
    /\ Update(c, [collection[c] EXCEPT !.step = "listing"])
    /\ UNCHANGED <<since, token, cancels>>

\* _listing and _search: unreachable, refused or malformed. A refused token
\* stays in the cache.
ListingFails(c) ==
    /\ AtStep(c, "listing")
    /\ \E code \in {"api_unreachable", "api_http_error", "api_contract_invalid"} :
          Update(c, Finished(WithError(collection[c], code), "none"))
    /\ UNCHANGED <<since, token, cancels>>

\* The listing arrives and its results are mapped, also those beyond the limit
\* that was asked for: each becomes an item or the error of its contract
\* (_map_post, _map_result).
ListingMapped(c) ==
    /\ AtStep(c, "listing")
    /\ collection[c].source \in OAuthSources => token # "revoked"
    /\ \E good \in 0..MaxListed, bad \in 0..MaxListed :
          Update(c, FinishedWithItems(
              [collection[c] EXCEPT !.items = good, !.failures = bad,
                  !.errors = IF bad > 0 THEN {"item_contract_invalid"} ELSE {}]))
    /\ UNCHANGED <<since, token, cancels>>

\* The provider: a token expires (and is asked for again) or is revoked.
TokenEnds ==
    /\ token = "good"
    /\ token' \in {"none", "revoked"}
    /\ UNCHANGED <<since, collection, cancels>>

RevokedTokenExpires ==
    /\ token = "revoked"
    /\ token' = "none"
    /\ UNCHANGED <<since, collection, cancels>>

----------------------------------------------------------------------------
(* AuthorizedPublicPageCollector. *)

Page(r, page, left) ==
    [r EXCEPT !.step = "fetching", !.page = page, !.left = left, !.layer = 1]

\* _discover: the endpoint is a story itself, or an index to be fetched.
DiscoverBegins(c) ==
    /\ AtStep(c, "starting") /\ collection[c].source \in PageSources
    /\ \/ Update(c, Page(collection[c], "item", 1))
       \/ Update(c, Page(collection[c], "discover", 0))
    /\ UNCHANGED <<since, token, cancels>>

\* The page is done with: the next candidate, or the end.
NextPage(r) ==
    IF r.page = "item" /\ r.left > 1 THEN Page(r, "item", r.left - 1)
    ELSE FinishedWithItems(r)

\* A CollectorFailure that does not stop the run ends the discovery or, on a
\* story page, only that page.
PageFails(r, code) ==
    IF r.page = "discover" THEN Finished(WithError(r, code), "none")
    ELSE NextPage(WithError(r, code))

\* FetcherChain.fetch_with_trace: the next layer is tried after any failure of
\* one, and the last failure raises.
LayerFails(c) ==
    /\ AtStep(c, "fetching") /\ collection[c].layer < Len(Layers)
    /\ Update(c, [collection[c] EXCEPT !.layer = @ + 1])
    /\ UNCHANGED <<since, token, cancels>>

\* _fetch, when every layer failed.
EveryLayerFailed(c) ==
    /\ AtStep(c, "fetching") /\ collection[c].layer = Len(Layers)
    /\ Update(c, PageFails(collection[c], "public_page_fetch_failed"))
    /\ UNCHANGED <<since, token, cancels>>

\* The Scrapy worker answered 403: the run stops.
AccessRefused(c) ==
    /\ AtStep(c, "fetching") /\ collection[c].layer = Len(Layers)
    /\ Layers[Len(Layers)] = Scrapy
    /\ Update(c, Finished(WithError(collection[c], "access_challenge_detected"),
                          "stopped_access_challenge"))
    /\ UNCHANGED <<since, token, cancels>>

\* UrlSource refuses the address before a layer is asked. The handler of a story
\* page then reads `started`, which only a page that reached the mapper has
\* bound; the discovery has no handler for it.
AddressRefused(c) ==
    /\ AtStep(c, "fetching") /\ collection[c].layer = 1
    /\ Update(c, IF collection[c].page = "item" /\ collection[c].mapped
                 THEN NextPage(WithError(collection[c], "item_contract_invalid"))
                 ELSE Raised(collection[c]))
    /\ UNCHANGED <<since, token, cancels>>

\* UrlPolicy rejects the address, of the page or of where it led: no other
\* layer is tried.
PolicyRejects(c) ==
    /\ AtStep(c, "fetching")
    /\ Update(c, PageFails(collection[c], "public_page_url_rejected"))
    /\ UNCHANGED <<since, token, cancels>>

\* A document that left the allowed hosts.
HostRejected(c) ==
    /\ AtStep(c, "fetching")
    /\ Update(c, PageFails(collection[c], "public_page_host_rejected"))
    /\ UNCHANGED <<since, token, cancels>>

\* _raise_if_captcha.
CaptchaStops(r) == Finished(WithError(r, "captcha_detected"), "stopped_captcha")

CaptchaDetected(c) ==
    /\ AtStep(c, "fetching")
    /\ Update(c, CaptchaStops(collection[c]))
    /\ UNCHANGED <<since, token, cancels>>

\* An index page: its links to stories, up to the limit.
IndexRead(c) ==
    /\ AtStep(c, "fetching") /\ collection[c].page = "discover"
    /\ \E n \in 0..MaxCandidates :
          Update(c, IF n = 0 THEN PageFails(collection[c], "story_links_not_found")
                    ELSE Page(collection[c], "item", n))
    /\ UNCHANGED <<since, token, cancels>>

\* A link of an index page that urljoin or urlsplit cannot read raises a
\* ValueError, and the discovery is guarded for a CollectorFailure alone.
LinkIsMalformed(c) ==
    /\ AtStep(c, "fetching") /\ collection[c].page = "discover"
    /\ Update(c, Raised(collection[c]))
    /\ UNCHANGED <<since, token, cancels>>

\* A story page: _map_document makes an item of it or reports its contract.
StoryRead(c) ==
    /\ AtStep(c, "fetching") /\ collection[c].page = "item"
    /\ LET r == [collection[c] EXCEPT !.mapped = TRUE]
       IN  \/ Update(c, NextPage([r EXCEPT !.items = @ + 1]))
           \/ Update(c, NextPage(WithError(r, "item_contract_invalid")))
    /\ UNCHANGED <<since, token, cancels>>

----------------------------------------------------------------------------

Pages(c) ==
    \/ DiscoverBegins(c) \/ LayerFails(c) \/ EveryLayerFailed(c) \/ AccessRefused(c)
    \/ PolicyRejects(c) \/ AddressRefused(c) \/ HostRejected(c) \/ CaptchaDetected(c)
    \/ IndexRead(c) \/ LinkIsMalformed(c) \/ StoryRead(c)

Steps ==
    \/ \E c \in Callers :
          \/ CollectBegins(c) \/ CooldownEnds(c) \/ SlotTaken(c)
          \/ CollectReturns(c) \/ CollectRaises(c) \/ CollectIsCancelled(c)
          \/ Unready(c) \/ LimitRejected(c)
          \/ TokenFound(c) \/ TokenRequested(c) \/ KeyUsed(c)
          \/ ListingFails(c) \/ ListingMapped(c)
          \/ Pages(c)
    \/ TokenEnds \/ RevokedTokenExpires

CollectionNext == Tick \/ (Steps /\ quiet' = Quiet(quiet))

CollectionSpec == CollectionInit /\ [][CollectionNext]_collectionVars

----------------------------------------------------------------------------

(* What a collection has found is lost with an exception only when a provider *)
(* lists more than a run may hold; a page collection that raises, at a link   *)
(* or an address it cannot read, has found nothing yet. Whatever else the     *)
(* providers answer, the run that a collector builds is one its model accepts.*)
FoundIsRecorded ==
    \A c \in Callers : AtStep(c, "raised") =>
        IF collection[c].source \in PageSources THEN collection[c].items = 0
        ELSE collection[c].items > RunCap \/ collection[c].failures > RunCap

(* A source is asked again only after the interval since its last network     *)
(* collection ended, also when that one failed or was cancelled.              *)
CadenceHolds ==
    [][\A c \in Callers : AtStep(c, "queued") /\ OnNetwork(c)' =>
          quiet[collection[c].source] >= Interval /\ ~Collected(collection[c].source)]_collectionVars
=============================================================================
