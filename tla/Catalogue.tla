----------------------------- MODULE Catalogue -----------------------------
(***************************************************************************)
(* The life of the catalogue: the builder goroutine of cmd/bridge/main.go  *)
(* that calls FS.Build until a build is clean, the watcher goroutine that  *)
(* polls the servers and refreshes what changed, the servers themselves,   *)
(* and a request waiting for the first catalogue.                          *)
(*                                                                         *)
(* Every API call is one step, so the other goroutine, an edit on a server *)
(* or an outage fits between any two of them.                              *)
(***************************************************************************)
EXTENDS Merge

CONSTANTS
  MaxFailures,    \* bound on the API calls that fail while the section exists
  Movable         \* sections a server may stop or start listing

ASSUME FailuresAssumption == MaxFailures \in Nat /\ Movable \subseteq SrcSections

VARIABLES
  \* The servers.
  lib,        \* version of each section, None while it is not listed
  clock,      \* number of changes made so far
  failures,   \* number of calls failed so far
  \* FS, guarded by mu, buildMu or catalogueState.mu.
  cur,        \* cat.cur
  ready,      \* cat.ready is closed
  attempt,    \* the last catalogue a build or a refresh produced
  dirty,      \* sections seen to change since the last refresh
  stamps,     \* sectionStamps: last seen updatedAt, None if never seen
  buildMu,    \* who holds buildMu
  \* The builder goroutine: FS.Build and buildCatalogue.
  bpc,        \* where it is
  bsrc,       \* the server it is listing
  queue,      \* sections of that server still to list
  c,          \* the catalogue under construction
  missing,    \* some section or server had nothing to stand in for it
  carried,    \* some section was taken from the previous attempt
  \* The watcher goroutine: FS.Watch and refresh.
  wpc,        \* where it is
  wsrc,       \* the server it is polling
  changed,    \* titles seen to change in this tick
  next,       \* the catalogue refresh works on
  stale,      \* sections refresh still has to list again
  \* A request in catalogueState.wait.
  reader,
  \* History: sections some server's answer left out.
  omitted

server  == <<lib, clock, failures>>
shared  == <<cur, ready, attempt, dirty, stamps, buildMu>>
builder == <<bpc, bsrc, queue, c, missing, carried>>
watcher == <<wpc, wsrc, changed, next, stale>>
vars    == <<server, shared, builder, watcher, reader, omitted>>

-----------------------------------------------------------------------------
Init ==
  /\ lib \in {l \in [SrcSections -> {0, None}] : \A ss \in SrcSections \ Movable : l[ss] = 0}
  /\ clock = 0 /\ failures = 0
  /\ cur = NoCatalogue /\ ready = FALSE /\ attempt = NoCatalogue
  /\ dirty = {} /\ stamps = [ss \in SrcSections |-> None]
  /\ buildMu = "free"
  /\ bpc = "idle" /\ bsrc = 0 /\ queue = {} /\ c = EmptyCatalogue
  /\ missing = FALSE /\ carried = FALSE
  /\ wpc = "idle" /\ wsrc = 0 /\ changed = {} /\ next = EmptyCatalogue /\ stale = {}
  /\ reader = "idle"
  /\ omitted = {}

Running == bpc # "panicked"

SectionsOf(src) == {ss \in SrcSections : Src[ss] = src}

Listed(src) == {ss \in SectionsOf(src) : lib[ss] # None}

\* An answer that leaves sections out is remembered by the history.
Answered(src) == omitted' = omitted \cup (SectionsOf(src) \ Listed(src))

\* A call that should have worked times out or is refused.
Fails == failures < MaxFailures /\ failures' = failures + 1

-----------------------------------------------------------------------------
(* The servers: titles come and go, and a section may be withdrawn.  Each  *)
(* change moves the section's updatedAt.                                   *)

Edit(ss) ==
  /\ Running /\ clock < MaxEdits
  /\ clock' = clock + 1
  /\ lib' = [lib EXCEPT ![ss] = clock + 1]
  /\ UNCHANGED <<failures, shared, builder, watcher, reader, omitted>>

Withdraw(ss) ==
  /\ Running /\ clock < MaxEdits
  /\ ss \in Movable /\ lib[ss] # None
  /\ clock' = clock + 1
  /\ lib' = [lib EXCEPT ![ss] = None]
  /\ UNCHANGED <<failures, shared, builder, watcher, reader, omitted>>

-----------------------------------------------------------------------------
(* The builder: FS.Build, called again until it returns nil.               *)

\* The locals of a build are in their initial state here; see BuildReturns.
BuildLock ==
  /\ bpc = "idle" /\ buildMu = "free"
  /\ buildMu' = "builder"
  /\ bpc' = "sections"
  /\ UNCHANGED <<server, cur, ready, attempt, dirty, stamps, bsrc, queue, c, missing, carried,
                 watcher, reader, omitted>>

\* carry: the sections of src the previous attempt can stand in for.
Carry(src) ==
  {ss \in SectionsOf(src) : ss \in SectionOrder(attempt) /\ RawOf(attempt, ss) # None}

\* Variant: the loop over the servers runs one too far.
SectionsListedPastEnd ==
  /\ bpc = "sections" /\ bsrc <= NSources
  /\ queue' = Listed(bsrc) /\ bpc' = "items"
  /\ Answered(bsrc)
  /\ UNCHANGED <<server, shared, bsrc, c, missing, carried, watcher, reader>>

\* ListSections of the next server answers ...
SectionsListed ==
  /\ bpc = "sections" /\ bsrc < NSources
  /\ queue' = Listed(bsrc) /\ bpc' = "items"
  /\ Answered(bsrc)
  /\ UNCHANGED <<server, shared, bsrc, c, missing, carried, watcher, reader>>

\* Variant: carried sections are counted, and not replayed into c.
SectionsFailedUnreplayed ==
  /\ bpc = "sections" /\ bsrc < NSources
  /\ Fails
  /\ missing' = (missing \/ Carry(bsrc) = {})
  /\ carried' = (carried \/ Carry(bsrc) # {})
  /\ bsrc' = bsrc + 1
  /\ UNCHANGED <<lib, clock, shared, bpc, queue, c, watcher, reader, omitted>>

\* ... or fails, and what the previous attempt held of it is replayed.
SectionsFailed ==
  /\ bpc = "sections" /\ bsrc < NSources
  /\ Fails
  /\ IF Carry(bsrc) = {}
       THEN missing' = TRUE /\ UNCHANGED <<c, carried>>
       ELSE /\ c' = Add(c, Carry(bsrc), attempt.raw)
            /\ carried' = TRUE
            /\ UNCHANGED missing
  /\ bsrc' = bsrc + 1
  /\ UNCHANGED <<lib, clock, shared, bpc, queue, watcher, reader, omitted>>

\* ListSectionAll of one of its sections answers ...
ItemsListed(ss) ==
  /\ bpc = "items" /\ ss \in queue
  /\ lib[ss] # None
  /\ queue' = queue \ {ss}
  /\ c' = Add(c, {ss}, lib)
  /\ UNCHANGED <<server, shared, bpc, bsrc, missing, carried, watcher, reader, omitted>>

\* ... or fails, because of an outage or because the section is gone.
ItemsFailed(ss) ==
  /\ bpc = "items" /\ ss \in queue
  /\ IF lib[ss] = None THEN UNCHANGED failures ELSE Fails
  /\ queue' = queue \ {ss}
  /\ IF RawOf(attempt, ss) = None
       THEN missing' = TRUE /\ UNCHANGED <<c, carried>>
       ELSE /\ c' = Add(c, {ss}, attempt.raw)
            /\ carried' = TRUE
            /\ UNCHANGED missing
  /\ UNCHANGED <<lib, clock, shared, bpc, bsrc, watcher, reader, omitted>>

NextSource ==
  /\ bpc = "items" /\ queue = {}
  /\ bpc' = "sections" /\ bsrc' = bsrc + 1
  /\ UNCHANGED <<server, shared, queue, c, missing, carried, watcher, reader, omitted>>

\* Variant: the flags of a build outlive it.
BuildReturnsWithFlags(where) ==
  /\ bpc' = where
  /\ buildMu' = "free"
  /\ bsrc' = 0 /\ queue' = {} /\ c' = EmptyCatalogue
  /\ UNCHANGED <<missing, carried>>

\* Build returns: buildMu is released and its locals are gone,
\* the next build starts with new ones.
BuildReturns(where) ==
  /\ bpc' = where
  /\ buildMu' = "free"
  /\ bsrc' = 0 /\ queue' = {} /\ c' = EmptyCatalogue
  /\ missing' = FALSE /\ carried' = FALSE

NothingListed == \A ss \in SrcSections : c.raw[ss] = None

\* A partial catalogue is not published over another one, nor empty.
KeepPrevious(d) == missing /\ (cur # NoCatalogue \/ ~HasTitles(d))

\* Every server was visited.  With nothing listed buildCatalogue returns a
\* nil catalogue, and firstErr (set exactly when something is missing or
\* carried); Build returns the error, and counts the titles of nil without.
BuildFailed ==
  /\ bpc = "sections" /\ bsrc = NSources
  /\ NothingListed
  /\ BuildReturns(IF missing THEN "idle" ELSE "panicked")
  /\ UNCHANGED <<server, cur, ready, attempt, dirty, stamps, watcher, reader, omitted>>

\* The end of buildCatalogue: what was listed is derived and remembered.
BuildEnds ==
  /\ bpc = "sections" /\ bsrc = NSources
  /\ ~NothingListed
  /\ attempt' = Derive(c)

\* Variant: the first build that ends lets the waiting requests go, whether
\* it published or not.
BuildKeptReady ==
  /\ BuildEnds
  /\ KeepPrevious(Derive(c))
  /\ ready' = TRUE
  /\ BuildReturns("idle")
  /\ UNCHANGED <<server, cur, dirty, stamps, watcher, reader, omitted>>

BuildKept ==
  /\ BuildEnds
  /\ KeepPrevious(Derive(c))
  /\ BuildReturns("idle")
  /\ UNCHANGED <<server, cur, ready, dirty, stamps, watcher, reader, omitted>>

\* catalogueState.set, first half: cur is replaced ...
BuildPublished ==
  /\ BuildEnds
  /\ ~KeepPrevious(Derive(c))
  /\ cur' = Derive(c)
  /\ bpc' = "ready"
  /\ UNCHANGED <<server, ready, dirty, stamps, buildMu, bsrc, queue, c, missing, carried,
                 watcher, reader, omitted>>

\* Variant: the channel is never closed.
CloseReadyNever ==
  /\ bpc = "ready"
  /\ bpc' = "clear"
  /\ UNCHANGED <<server, cur, ready, attempt, dirty, stamps, buildMu, bsrc, queue, c, missing,
                 carried, watcher, reader, omitted>>

\* ... second half: waiting requests are let go, once.
CloseReady ==
  /\ bpc = "ready"
  /\ ready' = TRUE /\ bpc' = "clear"
  /\ UNCHANGED <<server, cur, attempt, dirty, stamps, buildMu, bsrc, queue, c, missing, carried,
                 watcher, reader, omitted>>

\* Variant: a build with kept listings counts as clean.
ClearDirtyQuitEarly ==
  /\ bpc = "clear"
  /\ dirty' = {}
  /\ BuildReturns(IF missing THEN "idle" ELSE "done")
  /\ UNCHANGED <<server, cur, ready, attempt, stamps, watcher, reader, omitted>>

\* The builder goroutine exits only after a build with nothing missing and
\* nothing carried.
ClearDirty ==
  /\ bpc = "clear"
  /\ dirty' = {}
  /\ BuildReturns(IF missing \/ carried THEN "idle" ELSE "done")
  /\ UNCHANGED <<server, cur, ready, attempt, stamps, watcher, reader, omitted>>

Builder ==
  \/ BuildLock \/ SectionsListed \/ SectionsFailed \/ NextSource
  \/ \E ss \in SrcSections : ItemsListed(ss) \/ ItemsFailed(ss)
  \/ BuildFailed \/ BuildKept \/ BuildPublished \/ CloseReady \/ ClearDirty

-----------------------------------------------------------------------------
(* The watcher: FS.Watch and refresh.                                      *)

Tick ==
  /\ Running /\ wpc = "idle"
  /\ wpc' = "poll" /\ wsrc' = 0
  /\ UNCHANGED <<server, shared, builder, changed, next, stale, reader, omitted>>

\* A server answers: invalidateChanged takes note of the stamps that moved.
\* The first stamp seen of a section is only a baseline.
Polled ==
  /\ Running /\ wpc = "poll" /\ wsrc < NSources
  /\ LET moved == {ss \in Listed(wsrc) : stamps[ss] \notin {None, lib[ss]}} IN
       /\ dirty' = dirty \cup moved
       /\ changed' = changed \cup {Title[ss] : ss \in moved}
  /\ stamps' = [ss \in SrcSections |-> IF ss \in Listed(wsrc) THEN lib[ss] ELSE stamps[ss]]
  /\ wsrc' = wsrc + 1
  /\ Answered(wsrc)
  /\ UNCHANGED <<server, cur, ready, attempt, buildMu, builder, wpc, next, stale, reader>>

PollFailed ==
  /\ Running /\ wpc = "poll" /\ wsrc < NSources
  /\ Fails
  /\ wsrc' = wsrc + 1
  /\ UNCHANGED <<lib, clock, shared, builder, wpc, changed, next, stale, reader, omitted>>

Unchanged ==
  /\ Running /\ wpc = "poll" /\ wsrc = NSources /\ changed = {}
  /\ wpc' = "idle" /\ wsrc' = 0
  /\ UNCHANGED <<server, shared, builder, changed, next, stale, reader, omitted>>

\* refresh reads the catalogue it will work from, then asks for buildMu.
\* Before the first build it has nothing to work from and returns.
RefreshBase ==
  /\ Running /\ wpc = "poll" /\ wsrc = NSources /\ changed # {}
  /\ IF cur = NoCatalogue
       THEN wpc' = "notify" /\ UNCHANGED next
       ELSE wpc' = "lock" /\ next' = cur
  /\ wsrc' = 0
  /\ UNCHANGED <<server, shared, builder, changed, stale, reader, omitted>>

\* Variant: dirty is reset before it is read.
RefreshLockResetFirst ==
  /\ Running /\ wpc = "lock" /\ buildMu = "free"
  /\ buildMu' = "watcher"
  /\ stale' = {} /\ dirty' = {}
  /\ wpc' = "relist"
  /\ UNCHANGED <<server, cur, ready, attempt, stamps, builder, wsrc, changed, next, reader, omitted>>

RefreshLock ==
  /\ Running /\ wpc = "lock" /\ buildMu = "free"
  /\ buildMu' = "watcher"
  /\ stale' = dirty /\ dirty' = {}
  /\ wpc' = "relist"
  /\ UNCHANGED <<server, cur, ready, attempt, stamps, builder, wsrc, changed, next, reader, omitted>>

Relisted(ss) ==
  /\ Running /\ wpc = "relist" /\ ss \in stale
  /\ lib[ss] # None
  /\ next' = [next EXCEPT !.raw[ss] = lib[ss]]
  /\ stale' = stale \ {ss}
  /\ UNCHANGED <<server, shared, builder, wpc, wsrc, changed, reader, omitted>>

\* Variant: a section that cannot be listed again loses its listing.
RelistFailedDrops(ss) ==
  /\ Running /\ wpc = "relist" /\ ss \in stale
  /\ IF lib[ss] = None THEN UNCHANGED failures ELSE Fails
  /\ next' = [next EXCEPT !.raw[ss] = None]
  /\ stale' = stale \ {ss}
  /\ UNCHANGED <<lib, clock, shared, builder, wpc, wsrc, changed, reader, omitted>>

\* A section that cannot be listed again keeps its previous listing.
RelistFailed(ss) ==
  /\ Running /\ wpc = "relist" /\ ss \in stale
  /\ IF lib[ss] = None THEN UNCHANGED failures ELSE Fails
  /\ stale' = stale \ {ss}
  /\ UNCHANGED <<lib, clock, shared, builder, wpc, wsrc, changed, next, reader, omitted>>

\* Variant: a refresh is not remembered as the last attempt.
RefreshPublishedForgotten ==
  /\ Running /\ wpc = "relist" /\ stale = {}
  /\ cur' = Derive(next) /\ ready' = TRUE
  /\ buildMu' = "free"
  /\ wpc' = "notify" /\ next' = EmptyCatalogue
  /\ UNCHANGED <<server, attempt, dirty, stamps, builder, wsrc, changed, stale, reader, omitted>>

RefreshPublished ==
  /\ Running /\ wpc = "relist" /\ stale = {}
  /\ cur' = Derive(next) /\ ready' = TRUE
  /\ attempt' = Derive(next)
  /\ buildMu' = "free"
  /\ wpc' = "notify" /\ next' = EmptyCatalogue
  /\ UNCHANGED <<server, dirty, stamps, builder, wsrc, changed, stale, reader, omitted>>

\* onChange is called with the titles, outside every lock.
Notify ==
  /\ Running /\ wpc = "notify"
  /\ changed' = {} /\ wpc' = "idle"
  /\ UNCHANGED <<server, shared, builder, wsrc, next, stale, reader, omitted>>

Watcher ==
  \/ Tick \/ Polled \/ PollFailed \/ Unchanged \/ RefreshBase \/ RefreshLock
  \/ \E ss \in SrcSections : Relisted(ss) \/ RelistFailed(ss)
  \/ RefreshPublished \/ Notify

-----------------------------------------------------------------------------
(* A request before the first catalogue: catalogueState.wait.              *)

Request ==
  /\ Running /\ reader = "idle" /\ cur = NoCatalogue
  /\ reader' = "blocked"
  /\ UNCHANGED <<server, shared, builder, watcher, omitted>>

Wake ==
  /\ Running /\ reader = "blocked" /\ ready
  /\ reader' = IF cur = NoCatalogue THEN "nil" ELSE "idle"
  /\ UNCHANGED <<server, shared, builder, watcher, omitted>>

\* The client gives up first.
GiveUp ==
  /\ Running /\ reader = "blocked"
  /\ reader' = "idle"
  /\ UNCHANGED <<server, shared, builder, watcher, omitted>>

-----------------------------------------------------------------------------
Next ==
  \/ \E ss \in SrcSections : Edit(ss) \/ Withdraw(ss)
  \/ Builder
  \/ Watcher
  \/ Request \/ Wake \/ GiveUp

Spec == Init /\ [][Next]_vars

\* Goroutines that can run do, and mutexes are handed over.
Fairness == WF_vars(Builder) /\ WF_vars(Watcher) /\ WF_vars(Wake)

FairSpec == Spec /\ Fairness

-----------------------------------------------------------------------------
(* Properties.                                                             *)

\* Every variable of FS and of the two goroutines keeps its type; bsrc and
\* wsrc never run past the list of servers.
ServerType ==
  /\ lib \in [SrcSections -> Versions \cup {None}]
  /\ clock \in Versions
  /\ failures \in 0 .. MaxFailures

SharedType ==
  /\ cur \in Catalogues \cup {NoCatalogue}
  /\ ready \in BOOLEAN
  /\ attempt \in Catalogues \cup {NoCatalogue}
  /\ dirty \subseteq SrcSections
  /\ stamps \in [SrcSections -> Versions \cup {None}]
  /\ buildMu \in {"free", "builder", "watcher"}

BuilderType ==
  /\ bpc \in {"idle", "sections", "items", "ready", "clear", "done", "panicked"}
  /\ bsrc \in 0 .. NSources
  /\ queue \subseteq SrcSections
  /\ c \in Catalogues
  /\ missing \in BOOLEAN
  /\ carried \in BOOLEAN

WatcherType ==
  /\ wpc \in {"idle", "poll", "lock", "relist", "notify"}
  /\ wsrc \in 0 .. NSources
  /\ changed \subseteq STRING
  /\ next \in Catalogues
  /\ stale \subseteq SrcSections

TypeOK ==
  /\ ServerType /\ SharedType /\ BuilderType /\ WatcherType
  /\ reader \in {"idle", "blocked", "nil"}
  /\ omitted \subseteq SrcSections

\* d holds every section of e in the listing order, no older than e has it,
\* the sections a server's own answer left out excepted.
Covers(d, e) ==
  \A ss \in SectionOrder(e) \ omitted :
    ss \in SectionOrder(d) /\ RawOf(d, ss) >= RawOf(e, ss)

\* What a failing build would fall back on (FS.attempt) is never older or
\* shorter than what is being served, whoever published that and whatever
\* failed since: falling back cannot make a served section vanish or age.
ServedIsBacked == Covers(attempt, cur)

\* "An incomplete build must never replace a fuller one": when FS.Build
\* publishes, every section served until then is still there, as new as it
\* was, unless its server answered without it.
BuildNeverGoesBack == [][bpc' = "ready" => Covers(cur', cur)]_vars

\* The builder goroutine, the only one that ever does a full build, stops
\* building only with every section in what is served, those that a
\* server's own answer left out excepted.
QuitsWhole ==
  [][bpc' = "done" /\ bpc # "done" =>
       SrcSections \ omitted' \subseteq SectionOrder(cur')]_vars

\* A freshly built tree hides nothing: every title that won a place is
\* filed under a directory the root lists, also when its section was
\* replayed from the previous attempt.
BuildHidesNothing == bpc = "ready" => Orphans(cur) = {}

\* A request let go by catalogueState.wait has a catalogue to read: the
\* channel is never closed while cur is nil.
NilNeverServed == reader # "nil"

\* The builder goroutine ends once outages do: some build is clean.
BuilderFinishes == <>(bpc = "done")

\* A request that waits for the first catalogue is answered, or gives up.
RequestsAnswered == reader = "blocked" ~> reader # "blocked"

\* While no call fails, a change the watcher notes (dirty) once the builder
\* is done gets served, at the stamp it was noted with at least; the list of
\* noted changes never loses one to the other steps of refresh and Watch.
NotedChangesServed ==
  [](failures = 0) =>
    \A ss \in SrcSections :
      bpc = "done" /\ ss \in dirty ~> RawOf(cur, ss) >= stamps[ss] \/ lib[ss] = None

-----------------------------------------------------------------------------
(* The inductive invariant behind TypeOK, ServedIsBacked, BuildNeverGoesBack *)
(* and QuitsWhole; proved in CatalogueProofs.                              *)

\* A build starts at the primary and lists sections of configured servers only.
LoopBound ==
  /\ bpc = "idle" => bsrc = 0
  /\ bpc = "items" => bsrc < NSources

\* buildMu is held exactly by a build under way or a refresh under way.
LockDiscipline ==
  /\ buildMu = "builder" <=> bpc \in {"sections", "items", "ready", "clear"}
  /\ buildMu = "watcher" <=> wpc = "relist"

\* Nothing recorded is newer than what its server holds, and what has a
\* place in the listing order has a listing.
Recorded(d) ==
  d \in Catalogues =>
    \A ss \in SrcSections :
      /\ d.raw[ss] <= clock
      /\ lib[ss] # None => d.raw[ss] <= lib[ss]
      /\ ss \in d.order => d.raw[ss] # None

Recency ==
  /\ \A ss \in SrcSections : lib[ss] <= clock
  /\ Recorded(cur) /\ Recorded(attempt) /\ Recorded(c) /\ Recorded(next)

\* The build under way is past section ss.
Processed(ss) ==
  /\ bpc \in {"sections", "items"}
  /\ Src[ss] < bsrc \/ (Src[ss] = bsrc /\ bpc = "items" /\ ss \notin queue)

\* What the previous attempt held of the sections the build is past is in
\* the catalogue it makes, no older.
BuildCover ==
  \A ss \in SectionOrder(attempt) \ omitted :
    Processed(ss) => ss \in c.order /\ c.raw[ss] >= RawOf(attempt, ss)

\* A build with nothing missing or carried has every section it is past.
BuildWhole ==
  ~missing /\ ~carried =>
    /\ \A ss \in SrcSections \ omitted : Processed(ss) => ss \in c.order
    /\ bpc \in {"ready", "clear"} => SrcSections \ omitted \subseteq SectionOrder(cur)

IInv ==
  /\ TypeOK /\ LoopBound /\ LockDiscipline /\ Recency
  /\ ServedIsBacked /\ BuildCover /\ BuildWhole

\* The channel is closed, or about to be, only with a catalogue to read.
NilInv ==
  /\ ready \/ bpc = "ready" => cur # NoCatalogue
  /\ NilNeverServed

\* Whatever a build has a listing of has a place and a root directory.
BuildFiled ==
  \A ss \in SrcSections :
    c.raw[ss] # None =>
      /\ ss \in c.order
      /\ Contributes(Src[ss]) => ExposedName(Title[ss], Src[ss]) \in c.sections

-----------------------------------------------------------------------------
(* What comments of the code claim and the code does not do.               *)

\* "Keep rebuilding until the missing server answers": once the builder has
\* stopped rebuilding, no section is missing from what is served.
DoneMeansWhole == bpc = "done" => SrcSections \ omitted \subseteq SectionOrder(cur)

\* "The library is unknown right now, not empty": a build that some server
\* did not answer publishes no tree without a single title.
EmptyNeverPublishedBlind == bpc = "ready" /\ carried => HasTitles(cur)

\* A build that lists nothing leaves the callers blocked.
BuildNeverPanics == bpc # "panicked"

\* An extra section "keeps what only a fallback server has": every title
\* that won a place is filed under a directory the root lists.
NothingHidden == cur # NoCatalogue => Orphans(cur) = {}

\* "A full build re-listed everything, so nothing is outstanding": what a
\* build clears from dirty, it listed since the change was noted.
ClearedMeansListed ==
  [][bpc = "clear" /\ bpc' # "clear" =>
       \A ss \in dirty \cap cur.order : cur.raw[ss] >= stamps[ss]]_vars
=============================================================================
