# Formal models of flexdav

flexdav serves the libraries of one or more Plex servers as a read-only WebDAV
tree. It merges the servers into one tree, keeps serving it while servers come
and go, and streams files through a pipeline of ranged requests. This directory
holds TLA+ models of the program, TLC runs over small instances, and theorems
that the TLA+ proof system checks for every value of the constants. Source
paths below are relative to the repository; `fs.go`, `catalogue.go` and
`chunkreader.go` are in `internal/davfs/`, `client.go` in `internal/plex/`,
`types.go` there too, `rc.go` in `internal/rclonerc/`, `plexlocal.go` in
`internal/plexlocal/`, `main.go` in `cmd/bridge/`.

## 1. Inventory

### Components

| component | state | operations | who calls whom |
|---|---|---|---|
| catalogue life cycle (`fs.go`, `catalogue.go`, build loop of `main.go`) | `cat.cur`, `cat.ready`, `attempt`, `dirty`, `sectionStamps`, `buildMu` | `Build`, `buildCatalogue` (`expose`, `carry`), `Watch`, `refresh`, `invalidateChanged`, `catalogueState.set/get/wait` | the builder goroutine loops over `Build` until it returns nil; the watcher goroutine polls, notes, refreshes, notifies; every request waits in `wait` |
| merge and derive (`catalogue.go`) | a catalogue: `raw`, `meta`, `order`, `sections`, `extra`, `listings` | `derive`, `dedupKey`, `beats`, `extraName`, `altsFor`, `buildEntries` | pure; called at the end of a build and of a refresh |
| read pipeline (`chunkreader.go`, `fileHandle` in `fs.go`) | per open file: `offset`, `queue`, `next`, `pos`, `step`, `servedBytes`, `cur`; one goroutine per chunk | `Seek`, `Read`, `Close`; `seekTo`, `restart`, `stop`, `fill`, `width`, `fetch`, `fetchOnce`, `failOver` | webdav drives the handle; fetch goroutines share `cur` and talk to the Plex servers |
| paged listing (`client.go`) | locals of one walk | `listPaged`, `get` | called by build, refresh and child listings |
| child listings and cache (`fs.go`) | `cache`, entries with a TTL | `cachedListing`, `childListing`, `childListingOrAlt`, `dirHandle.Readdir` | requests fill it, `invalidateChanged` deletes from it |
| change notification (`main.go`, `rclonerc/rc.go`, `plexlocal/plexlocal.go`) | the section map of `plexlocal` | `onChange`, `Forget`, `ScanSections` | the watcher tells rclone to forget directories, then the local Plex to scan them |
| naming and path resolution (`fs.go`) | none | `sanitize`, `displayName`, `fileName`, `buildEntries`, `resolve` | pure |
| Plex API types and HTTP requests (`types.go`, `client.go`) | none | JSON decoding, `getOnce`, `OpenPart` | pure I/O |
| configuration and access guard (`main.go`) | none | environment, basic auth, method filter | sequential, at start-up or per request |

### What is hard, and what correct means

* **Catalogue life cycle.** Two goroutines replace the same catalogue; only
  `Build` and the end of `refresh` are under `buildMu`. A build takes minutes,
  any of its calls may fail, and what stands in for a failed listing is the last
  attempt. The scanner above the mount takes a missing title for a deleted one,
  so correct means: an outage, a fallback or a refresh never makes what was
  served vanish or age; the builder stops only when everything is in; noted
  changes are served; waiting requests are answered and never with nothing.
* **Read pipeline.** Any order of seeks and short reads, several fetches at a
  time, goroutines of a cancelled pipeline that still run, a failover any of
  them may trigger. Correct means: bytes in order from the offset asked for,
  end of file only at the end, an error only when the last copy failed, no copy
  skipped, and a scanner's small reads do not open the pipeline.
* **Paged listing.** The library changes between two pages, one broken record
  makes every window that holds it fail, transient 500s look the same. Correct
  means: a listing without an error lacks only what an edit or a broken record
  explains, and isolating a broken record is cheap.
* **Merge and derive.** `derive` ranges over Go maps and sorts with an unstable
  sort. Correct means: no film is lost because another one is taken for it;
  where a work is filed, what stands in for it and the number it gets do not
  depend on the order; a name that is listed opens what it was listed for, and
  a refresh does not move the names of titles that did not change.
* **Child listings.** Seasons and episodes are fetched when somebody looks, from
  servers that number alike, while catalogues are replaced and sections
  invalidated. Correct means: no cached listing answers for another show, a
  show opens while any server that has it answers, and what is cached of a
  section is dropped when its change is noted.
* **Change notification.** Three programs hold copies of one listing: flexdav,
  the mount and the local Plex. Correct means: the mount shows what is served
  once it was told, a scan never sees less than what it was asked for, and a
  change that was noted gets to the local Plex.

The list of hazards, each at its line and with the properties that cover it, is
in `PROJECT.json`.

## 2. Plan

Done in the order of importance:

1. `Merge`, `Catalogue`: the life cycle, both goroutines, three modes.
   `CatalogueProofs`: its inductive invariant.
2. `ByteStream`, `ChunkReader`: what a reader is promised, and the pipeline that
   implements it. `ChunkReaderProofs`: the invariant and the refinement.
3. `Paging`: the walk over one section.
4. `Keys`, `Tree`: the key of a work, and the loop of `derive` with fallbacks,
   sorting and numbering, against the set-level definition of `Merge`.
5. `Served`, `Children`: child listings, their cache and the requests that fill
   it, composed with the watcher of `Catalogue` and with `Tree`.
6. `Mount`: the callback of the watcher, the mount's directory cache and the
   local Plex, composed with the watcher of `Catalogue`.
7. `CatalogueProofs`: the safety properties of the catalogue, all of them.
8. `ServedProofs`, `MountProofs`, `PagingProofs`, `TreeProofs`,
   `ChildrenProofs`: the safety properties of the other runs, all of them.

Next:

9. What the theorems stop short of: that decoding keeps every id (`Decoded`, a
   fold); what the servers' data must be (`IdsAgree`, `FilmsTellApart`) for no film
   to be lost or doubled; the seasons of two requests at a time; a build that replaces a served catalogue under `Mount`.

How the modules build on each other: `Catalogue` extends `Merge`; `Served`
extends `Catalogue` with the state after a clean build; `Children` extends
`Served` and `Tree` (which extends `Merge`); `Mount` extends `Served`;
`Children` extends `Keys` too, and the works of `MCChildren` are keys.
`ChunkReader` instantiates `ByteStream`. `Paging` stands alone. The proofs are
in modules of their own: `ServedProofs` extends `CatalogueProofs`, and
`MountProofs` and `ChildrenProofs` extend `ServedProofs`; `ChildrenProofs` extends
`TreeProofs` too. `TreeProofs`, `MountProofs` and `PagingProofs` extend `DataLemmas`.

## 3. The modules

### Merge

The set-level meaning of a catalogue. A section of a server is an element of
`SrcSections`; its contents are identified by a *version*, the number of the
edit that made them, and `Content` gives the works of a version. `raw` records
the version each section was listed at, so "older" is a comparison of numbers.
`Add` is `expose` (a section enters `raw` always, the listing order and the root
directories depending on `PLEX_MIRROR_PRIMARY` and `PLEX_EXTRA_SECTIONS`),
`Derive` is `derive` (which work wins a place, which extra directories are
pruned), `ExposedName` is `extraName`, `Orphans` are titles with a place that
no root directory leads to. How the code gets there is `Tree`.

### Catalogue

| code | model |
|---|---|
| builder goroutine, `FS.Build`, `buildCatalogue` | `bpc`: `idle` → `BuildLock` → per server `SectionsListed`/`SectionsFailed`, per section `ItemsListed`/`ItemsFailed`, `NextSource` → `BuildFailed`, `BuildKept` or `BuildPublished` → `CloseReady` → `ClearDirty` → `idle` or `done` |
| `fs.attempt`, `carry`, `rawOf` | `attempt`, `Carry`, `RawOf`; `Add(c, S, attempt.raw)` is the replay |
| `missing`, `c.carried`, `firstErr` | `missing`, `carried`; `firstErr` is set exactly when one of them is |
| watcher goroutine | `wpc`: `Tick`, `Polled`/`PollFailed`, `Unchanged`, `RefreshBase` (`cat.get` before the lock), `RefreshLock`, `Relisted`/`RelistFailed`, `RefreshPublished`, `Notify` |
| `catalogueState.set` | two steps in a build, `cur` then `ready`: a request may look in between. In a refresh `ready` is closed already, so it is one step |
| `catalogueState.wait` | `Request`, `Wake`, `GiveUp` |
| the Plex servers | `lib`, `Edit`, `Withdraw`; a call fails while `failures < MaxFailures` |

Each API call is one step, taken between any two steps of the other goroutine.
A panic stops the process (`Running`). `omitted` is a history variable: the
sections some answer of a server left out, the one case in which losing a
section is what the code intends.

### ByteStream and ChunkReader

`ByteStream` is the promise: `ReturnBytes` from the offset, `ReturnEof` at the
end, `ReturnFailure` on the last copy only, copies taken in turn. `ChunkReader`
implements it; the refinement maps `copy` to `cur`.

| code | model |
|---|---|
| `fileHandle.Seek`, `Read`, `Close` | `Seek`, `ReadAtEnd`/`ReadOn`/`ReadRestart` and then `Read`, `Close`; a call spans several steps, so fetches run in between |
| `fill`, `width`, `chunkSize` | `Schedule` (one turn of the loop), `Filled`, `width`, `chunkSize` with the shift computed at `WordBits` bits |
| `fetch` | one record per chunk offset: `load` → `ask` → `judge` → `ask`…, `done` or `failed`; `Load` reads `cur` once to choose the limit, `Succeed`/`Fail` ask the copy `cur` names then, as `fetchOnce` does |
| `failOver` | `FailOver`: compare-and-swap from the copy the goroutine judged by |
| `stop` | `Stop`: every goroutine goes; one that was past the cancellation check may still hand over (`late`, `LateHandOver`). A set of copies is exact: a compare-and-swap from a given copy succeeds at most once |
| 200 for a ranged request | `FirstByte`: the bytes before the chunk are discarded |

The backoff between two attempts is part of `Load`; sending a request and its
outcome are one step. Copies have the same length (the catalogue pairs them by
length) and are taken to have the same content. The handle is used by one
goroutine, as webdav does, so the cancelled-while-reading branch of `read` is
not reached. `failed` and `tries` are history.

### Paging

One walk of `listPaged`. `Window` is what the server would answer;
`Refuse` and `Fault` are the failed attempts of `get`, `FullPage`/`ShortPage`
its success, `Abandon`, `Narrow` and `StepOver` what `listPaged` does when `get`
gives up, `RunOut` the end of the loop, `Deadline` the caller's context.
`RecordAdded` and `RecordRemoved` change the library during the walk. Only a plain 500 is told from
the other failures, because only that is in the code. `stepped`, `faults`,
`added` and `removed` are history; `result = "cut"` is what the code returns as
a complete listing when it runs out of pages.

### Keys and Tree

`Keys` is `dedupKey` (TMDb, IMDb, TVDB, title and year, or a key of its own) on
records as they arrive: `Guids` folds the JSON fields that Go decodes into
`Item.Guid`, `"guid"` with a string among them, in their order. Normalising a
title is the constant `Normal`.

`Tree` follows the loop of `derive` and what it calls.

| code | model |
|---|---|
| the two nested loops over servers and `c.raw`, in map order | `Walks`: servers in order, the sections of one in any |
| `claimed`, `mine`, `placed`, `spare`, `spareDirs` | the record that `Visit` takes through a walk; `mine` is folded into `claimed` at the first section of the next server |
| attaching fallbacks | `StandIns`: same size and container for a file, any server that has a show |
| `sort.Slice` | `Arrangements`: every order its comparison allows |
| `buildEntries`, `insertSuffix` | `Numbered`: a name is a sequence to which a number is appended |
| `listingFrom`, `find` | `EntryNamed`: the last entry of a name |

`Trees(d)` is the set of trees the code may make of catalogue `d`. What a server
lists of a section is finite (`ListingsAssumption`: an array), and there are
finitely many sections (`SectionsAssumption`).

### Served and Children

`Served` starts `Catalogue` where a clean build has been published and the
builder is done; the watcher's actions are those of `Catalogue`. `ServedSpec` is
the abstract specification both `Children` and `Mount` are shown to implement:
the watcher alone, with the servers. `FailsElsewhere` is a failed call of
somebody else, which takes one from the failures that are left.

| code | model |
|---|---|
| `resolve`, `sectionListing`, `find` | `Resolve`: the entry is kept for the rest of the request, whatever is published meanwhile |
| `childListing`, the key of the cache | `CacheKey`: server, section, rating key; a season's is told from its show's by `level` |
| `cachedListing` | `Hit`, `Miss` under `mu`; `Fetched`, `FetchFailed`, `FetchRefused` outside; `Store` under `mu` again |
| `childListingOrAlt` | `tries`, `at`, `NextTry`; the caller's own end is `Abandon` |
| the descent to a season | the second alternative of `Answer`: the server that listed it is asked, and nobody stands in |
| TTL | `Expire`, at any time |
| `invalidateChanged` | `Poll`: `Polled` of `Catalogue` joined with `Drop` |
| `derive` at the end of `refresh` | `Rederive`: `RefreshPublished` joined with the choice of a tree |

One request is under way at a time; what another one would add is the cache it
leaves behind, which is there from earlier requests as well. `noted`, `knew`,
`listed` and `crossed` are history. `RatingKeyAssumption` says that a server gives
no two records of a section one rating key: it is Plex's identifier, and the
cache relies on it.

### Mount

| code | model |
|---|---|
| `Watch` calls `onChange` with `dedupStrings(changed)` | `Publish` (the refresh and the call), `Return` (`Notify` of `Catalogue`): in between the watcher waits |
| `rclonerc.Forget` | `Forget`, `ForgetFails`, one name a step |
| `plexlocal.ScanSections` | `Check`/`CheckFails` (load if nothing is known), `Scan`/`ScanFails`, `Reload`/`ReloadFails` for an unknown name |
| rclone's directory cache (external) | `view`: `ReadDir`, `Lapse` |
| the local Plex (external) | `scans` accepted and run by `ScanRuns` in any order and at any time, through the mount; `homes` are its libraries, added or moved by `Move` |

What a directory lists follows from the sections shown in it (`Under`) and from
those of earlier servers, wherever they are shown, whose works it leaves out: a
refresh of one section changes other directories, which the callback does not
name. So a directory is seen as the versions of all the sections that decide it
(`Deciding`), and `Winners` gives the works it shows. `served` in a scan, `seen` and
`missed` are history.

### Variants

An operator with the comment "Variant:" is a plausible bug of the definition it
precedes (a dropped guard, a missing reset, a swapped order). `PROJECT.json`
pairs each property with the variant under which TLC finds it violated, so no
property holds by the shape of the model alone. No action uses a variant.

## 4. The runs

| run | what it asks | bounds |
|---|---|---|
| `catalogue_merged` | do outages, fallbacks and refreshes ever make a served section vanish or age; does the builder finish once outages end, and stop only when whole; is the tree it builds fully reachable; are requests answered and noted changes served | two servers, three sections (two share a title), three works, one edit, two failed calls, `kids` may be withdrawn |
| `catalogue_race` | finding: a refresh overwrites the build it waited for | one edit, one failure |
| `catalogue_empty` | finding: a carried source counts as complete | mirrored, two failures |
| `catalogue_panic` | finding: nothing listed and no error | no edit, no failure, every section may be missing |
| `catalogue_hidden` | finding: a pruned extra section never comes back | extra sections, one edit |
| `catalogue_cleared` | finding: a change noted during a build is dropped | one edit |
| `reader` | the pipeline implements `ByteStream`; order, cost of small reads, no copy skipped; every read returns | seven units, three copies, two streams, chunks of 2 and 3, retries 1 and 2 |
| `reader_patience` | finding: the last copy gets fewer tries than promised | six units, two copies |
| `paging` | what a listing may lack or repeat, what a skip takes, what isolating a record costs | seven records, windows of 6, 2 and 1, two broken records, two faults, two edits, one skip allowed |
| `children` | does `dedupKey` lose a film, does the loop of `derive` make the tree `Merge` defines, with its fallbacks and findable, stable names; is a listing asked where its keys are known, of every server that has the show, and dropped when its section changes | three servers, six sections, six films and series, two edits, one failed call |
| `mount` | can a refresh age a section, does the mount show what is served once told, does a scan see what it was asked for, does a change reach the local Plex | two servers, three sections of two titles, two edits that take a film of the primary away and give it back while the fallback has it in both its sections, one failed call, one library added or moved |
| `paging_cut` | finding: a listing cut short without an error | twelve records, nine pages, four faults, nothing broken |

### Which property says what

| run | property | in a sentence |
|---|---|---|
| `catalogue_merged` | `ServedIsBacked` | what a failing build falls back on is at least as new as what is served |
| | `BuildHidesNothing` | every title that won a place in a fresh tree can be reached |
| | `NilNeverServed` | a request let go finds a catalogue |
| | `BuildNeverGoesBack` | a build never drops a section served, or serves it older, unless its server answered without it |
| | `QuitsWhole` | the builder goroutine ends only with a whole catalogue |
| | `BuilderFinishes` | it does end, once calls stop failing |
| | `RequestsAnswered` | a request that waits is answered or gives up |
| | `NotedChangesServed` | a change the watcher notes gets served |
| `reader` | `PipelineInOrder` | the queue is contiguous and its head holds the read position |
| | `SmallReadsStayCheap` | after a seek one chunk is asked for, never more than `workers` |
| | `NoCopySkipped` | failover never passes over a copy that was not asked |
| | `KeepsPromise` | the pipeline implements `ByteStream` |
| | `ReadsReturn` | a read returns if every request ends |
| `paging` | `ListedInOrder` | in a library at rest a walk lists all, once, in order, but for what it skips |
| | `EditsCostOneEach` | an edit during the walk costs at most one record |
| | `SkipsAreEarned` | a healthy record is skipped only after all attempts on it alone |
| | `PagesWithinBudget` | isolating broken records alone never uses up `maxPages` |
| `children` | `TreeMatchesMerge` | `derive`, in any map order, files every copy where `Merge` says |
| | `NothingMergedAway` | every film or series served by some section is shown as itself |
| | `ShownFromOneServer` | a film sent with ids of the same schemes is shown from one server |
| | `FallbacksStandIn` | an entry's fallbacks are the same file on later servers, in order |
| | `NamesFound` | what a directory lists under a name is what opening it finds |
| | `ChildrenFresh` | a cached listing is no older than the last change noted |
| | `AskedWhereKnown` | a listing is asked of the server whose keys are used |
| | `ShowFailsOnlyEverywhere` | a show fails to open only after all its servers were asked |
| | `NamesStayPut` | names of an unchanged directory survive a new tree |
| `mount` | `ServedNeverAges` | no refresh ages a section or loses it, whatever failed |
| | `MountKeepsUp` | the mount shows the versions and works served once it was told, but for works that moved between directories |
| | `ScanSeesServed` | a scan sees nothing that decides its directory older than was served when it was asked for |
| | `ChangeReachesPlex` | a change noted reaches the local Plex |

`TypeOK`, `ChildrenTypeOK` and `MountTypeOK` are the type invariants. What the
violated properties claim is quoted under "findings" in `PROJECT.json`.

Why the bounds are enough. *Catalogue*: two servers give a primary and a
fallback, two sections of one title give a merge, one section that only one
server has gives a tree that can be partial; two failures make a build fall
back twice in a row or fail in both goroutines; an edit lets a section move
before or after a listing. The findings need one edit and at most two failures,
and each safety property of the run is proved for any number of both.
*ChunkReader*: seven units make three chunks against two
workers, so the ramp, the cut to `maxChunk` and the cut to the file happen;
three copies have a first, a middle and a last one; `WordBits` 4 makes the shift
in `chunkSize` overflow within the file, as 64 bits do after some forty chunks.
*Paging*: the narrowing has two rungs and the floor of one is used; seven
records give a full page and a short one; with one skip allowed both the step
over and the failure after too many occur. *Children*: the third server gives a
show two fallbacks; section and rating keys are the same on all servers, so a
key that leaves a part out collides; two works share a name and one of them
changes hands; a film and a show have one TMDb number, two films have neither year
nor id, but for an id of one of them on one server, and both are shown from both
servers, as `TestUnidentifiedTitlesAreNeverMerged` wants; the second edit takes a show away, so
that a server refuses what the catalogue says it has. The tree of every
catalogue is taken over all map orders. *Mount*: two titles, one of them shown
from two servers, let the second name of a notification behave unlike the first;
a film that leaves the primary appears in both directories of the fallback, of
which the callback names one;
the library that is missing at first makes the reload happen.

Deadlock is checked for `Catalogue`, `Children` and `Mount`, whose watcher never
stops. It is off for the reader, which stops when the handle is closed, and for
`Paging`, which stops when the walk returns.

### Findings

Seven runs end in a violation, each a place where the code does other than a
comment or doc of the repository says; the quoted lines are in `PROJECT.json`.

1. `catalogue_race`: `refresh` reads its base before it takes `buildMu`. A
   refresh that waited for a build publishes the catalogue from before it, after
   the builder has stopped for good.
2. `catalogue_empty`: a server that cannot be asked counts as covered as soon as
   the last attempt held one of its sections; an empty tree can be published
   during an outage.
3. `catalogue_panic`: servers that answer and list nothing (or nothing that
   `PLEX_SECTIONS` lets through) make `Build` dereference a nil catalogue.
4. `catalogue_hidden`: an extra section pruned because it added nothing stays
   pruned when a refresh finds titles in it. `OnlyExtrasHide` proves that
   after a build of every section nothing is hidden without extra sections. A
   section that only came back since is the other way to get there: a refresh
   lists it without a place (`fs.go:705`).
5. `catalogue_cleared`: a change noted while a build runs is cleared with the
   rest though the build listed that section before it.
6. `reader_patience`: failures counted against an earlier copy are charged to
   the last one when another goroutine hands over.
7. `paging_cut`: a window narrowed by a burst of 500s is never widened by a
   success, and a walk that runs out of pages is returned as complete.

Disagreements met without a run of their own:

* `fs.go:727-730` says the titles handed to the callback "are the directory
  names a mount above sees", so that it "can be told exactly what to forget", and
  the repository's README (lines 201-203) that the mount is told "to forget
  exactly the directories that changed". A refresh also changes directories of
  sections that did not change: a film that goes from the primary appears
  wherever a fallback has it, and one that comes takes it away there
  (`fs.go:634-637`). The callback does not name those, and the mount keeps them as
  they were until they lapse. `MountKeepsUp` excepts such works (`CameOrWent`);
  without the exception TLC finds it violated on the instance of `mount` in a
  trace of fourteen states. A changed section shown as an extra section has another name
  (`catalogue.go:135`) and is not forgotten either; `MountKeepsUp` is about
  directories with a plain title.
* `main.go:151-155` calls a scan of the old view "worse than not scanning at
  all", and `main.go:156-160` asks for the scan also when forgetting failed.
  `ScanSeesServed` excepts these titles (`missed`).
* `fs.go:528`: a child listing fetched before its section was invalidated is
  stored after it and served until it expires. `ChildrenFresh` excepts those
  that were on their way (`crossed`).
* `plexlocal.go:73-74` says libraries can be "added or moved in Plex without
  touching the bridge". One that is known and moves is scanned at its old path
  (`plexlocal.go:117-128`). `ChangeReachesPlex` excepts it.
* `fs.go:442-443` says the numbering "keeps listing and lookup agreeing". It
  does not for titles that end in a suffix of its own making: "A", "A",
  "A (2)" give two entries "A (2)", as the repository's README (lines 334-335)
  admits. `NamesFound` holds for other names.
* `catalogue.go:390-392` wants the tree stable across rebuilds. Two copies of
  different servers with equal title and rating key may swap
  (`catalogue.go:393`); `NamesStayPut` is stated for directories without them.
* A build that replaces a served catalogue (`fs.go:257`) calls no callback, and
  the first poll of a section only records its stamp (`fs.go:740`).

### Fairness

*Catalogue*: weak fairness of the builder, of the watcher and of a request that
has been let go. Both goroutines are loops that sleep and run again; Go hands a
`sync.Mutex` over, so waiting for `buildMu` ends once the other goroutine
releases it. Failures and edits are finite, which is the assumption "once
outages end". `NotedChangesServed` is stated for behaviours without failed
calls: after a failed re-listing the code makes no promise.

*ChunkReader*: weak fairness of the reading goroutine and of the goroutine of
the chunk at the head of the queue. It assumes that every request ends; a body
that stalls after its header has no timeout (`client.go:81-83`), and the code
relies on the handle being closed then.

*Mount*: weak fairness of the watcher with its callback, a loop whose requests
have a timeout, and of the local Plex, which runs a scan it accepted. Reading
the mount, its expiry, edits and moves happen or not. `ChangeReachesPlex` is
stated for behaviours without failed calls. *Children* states no liveness.

## 5. The proofs

Every safety and action property of every passing run is a theorem, for every
value of the constants the named `ASSUME`s allow; TLC evaluates those on every
run. The parts of each inductive invariant were checked with TLC before they
were proved. `PROJECT.json` lists the theorems with the properties they state.

### The catalogue

`CatalogueProofs` proves, for any number of servers, sections, works, edits and
failures and for all three modes: `TypeCorrect` (`TypeOK`), `ServedAlwaysBacked`
(`ServedIsBacked`), `BuildsNeverGoBack` (`BuildNeverGoesBack`),
`BuilderQuitsWhole` (`QuitsWhole`), `NilIsNeverServed` (`NilNeverServed`),
`FreshTreesHideNothing` (`BuildHidesNothing`). They follow from `Invariance`, the
invariant `IInv`, and two more:

* `ServedIsBacked` (the attempt covers what is served) is restored by a build
  only if the build covers the attempt it started from: `BuildCover` says so of
  the servers and sections it is past (`Processed`), while it runs.
* A listing that succeeds covers the attempt only because nothing recorded is
  newer than what its server holds: `Recency`.
* While a build runs no refresh may replace the attempt under it:
  `LockDiscipline`. `LoopBound` keeps the two loops within the servers.
* `QuitsWhole` needs `BuildWhole`: without a missing or carried section, what
  the build is past has been listed.
* `NilNeverServed` needs `NilInv`: where `ready` is closed, or
  about to be, there is a catalogue.
* `BuildHidesNothing` needs `BuildFiled`: whatever a build has a listing of,
  first-hand or replayed, is in its order and, if its server contributes, has
  its directory among the root's; `derive` prunes only what holds nothing.

### The watcher alone

`ServedProofs` is about `ServedSpec`, on which the next two build. `ServedInvariance`
proves `Settled` (`IInv`, the builder is done, a catalogue is served, no section is
withdrawn) and `Noting`: the title of a section that is noted, being listed
again, or ahead of what is served in the catalogue under construction is on the
list the callback will get. From these:

* `RefreshesNeverGoBack` (`ServedNeverAges`): the base of a refresh is what is
  served, nothing else publishes, and a listing that succeeds is the newest.
* `RootStays`: without extra sections a refresh prunes nothing (`Rooting`).
* `OnlyExtrasHide`: then every title that won a place stays reachable, the
  property `catalogue_hidden` finds violated with extra sections.

### The mount

`MountRefinesServed` maps each step of `MountSpec` to a step of `ServedSpec` or a
stutter, so that `Settled` and `Noting` carry over. `MountInvariance` proves
`MountInv`. `KeepsVersions` says that the mount shows the sections of a directory it
could be told to forget at the versions served; `ToldKeepsUp`, that a directory
forgotten by the callback under way is as served in every section that decides
it; `ScansKeepUp`, that since a scan was asked for, which is after its title was
forgotten, what the mount reads of that directory is no older than what was
served then, and stays so because no refresh goes back. `MountTypeCorrect`,
`MountShowsServed` (`MountKeepsUp`) and `ScansSeeServed` (`ScanSeesServed`) follow; a
failed call enters `missed` and stays there. From the versions to the works is
`DecidedBy`: two catalogues that have a work alike in a section and in the earlier
servers' sections place it there alike, so that what differs came or went with a
section shown elsewhere (`CameOrWent`).

### A listing

`PagingInvariance` proves `PagingInv`, for any library, page size, divisor, and
numbers of retries, skips, edits and faults:

* `OneOfEach`: records are distinct, and without an edit the library is what it
  was. `ListedInOrder` is inductive together with it.
* `CostSoFar` counts two things against the edits: records that slipped behind
  the window unseen, and records that were listed and are in front of it again.
  The end of the walk turns them into `EditsCostOneEach`.
* `Earning` adds to the skips the attempts already made at the window, if it
  could be listed: each of them was a fault. `SkipsAreEarned` is what is left of
  it without that window.
* `Budget` says that a window is a whole page, or that a broken record lies ahead
  near enough for what the pages left pay for (`CostWithin`): a window that is
  narrow only while a broken record is ahead may stay so after a success. `BudgetIsKept` (`PagesWithinBudget`) holds for
  every divisor, whether or not it divides the page size. With transient faults
  it does not hold, and `paging_cut` shows what happens then.

### The tree

`TreeProofs` is about every tree `derive` may make, whatever order Go's maps and
its sort leave things in. `WalksInOrder` says what a walk is; `Walked` is the
invariant of the loop (what is claimed, placed and kept aside after the sections
walked so far), `VisitStep` its step and `VisitedAll` its end. `ArrangementSorted`
says what the sort leaves, and `TreeShape` puts them together: each directory of
the tree is an arrangement (`Sorted`) of the copies `Merge` files there, numbered,
with the fallbacks that `SpareOf` gives. It also proves about `Keys`:
`EqualKeys` and `MergedOnlyWhenIdentified` (records of two servers are one work only if they are
of one kind and share an external id, or have none and share title and year: the
comment at `catalogue.go:195-211`) and `SameIdsSameWork` (records with the same
ids are one work, whatever they are called).

### Child listings

`ChildrenRefinesServed` is the refinement, as for the mount. `ChildrenInvariance`
proves `ChildrenInv`: the tree is one `derive` may make of what is served; a
listing is cached under its own key, of a work its section had (`Keyed`); the
notes of a poll are no newer than the server (`NotedInTime`), so that a listing
fetched later is not older than them; a listing on its way is the one asked for
(`OnItsWay`); and a request turns to the sections that had the show, all of them
(`Turning`). From this and `TreeShape` follow, without further hypotheses,
`ChildrenTypeCorrect`, `TreesMatchMerge`, `FallbacksComplete`, `CacheStaysFresh`,
`AsksWhereKnown`, `ShowsFailLast` and `NamesStay`. Three theorems suppose something
of the servers' data, which their statements name; `rec` in them is any assignment
of records to sections and works whose keys, by `DedupKey`, are the works
(`Decoded`, which also says that decoding loses none of the ids sent):

* `NamesFindTheirs` (`NamesFound`) needs `NumbersApart`, that no name is another one
  with a number. Without it the property is false: see "A", "A", "A (2)" above.
* `OneServerShowsEach` (`ShownFromOneServer`) needs `IdsAgree`: the records of one
  film are of one kind and do not disagree on an id. Titles, years and numbers
  may differ; `IdsMakeKeys` and `SameIdsSameWork` say why they do not matter. It
  does not speak of films without ids, which are kept apart without a year, nor
  of those with other schemes on one server (`catalogue.go:201-211`).
* `NoFilmMergedAway` (`NothingMergedAway`) needs `FilmsTellApart`: no two films have
  an id in common, or title and year where neither has an id, or one rating key
  on one server. `EqualKeys` says that `dedupKey` merges nothing else. It also
  needs the merged mode: mirrored, titles of fallback servers fall away by design.

All of them hold on the instance TLC checks, where the works are the keys
`DedupKey` makes of records with those films and ids: there the run asks whether
`dedupKey` and the decoding provide what the properties say, and the mutants
show what happens when they do not.

### The reader

`ChunkReaderProofs` proves, for any file size, number of copies, settings and
retry limits: `ReaderTypeCorrect`, `PipelineStaysInOrder`, `ScansStayCheap`,
`CopiesTriedInTurn`, and `StreamPromiseKept`, that `Spec` implements
`Promise!Spec` of `ByteStream`. The invariant has two halves:

* `PipeInv`: the queue is contiguous up to `next` (`InOrder`), its head holds
  the read position (`HeadHoldsPos`, which needs `ReadPosition` and, between
  calls, `ToppedUp`), and `Ramp` ties the queue's length to the chunks scheduled
  and the bytes served, from which `SmallReadsStayCheap` follows.
* `FetchInv`: no goroutine knows a copy ahead of `cur`, and one that may move
  `cur` on has seen that copy fail (`FetchOrder`, `LateOrder`), so that no copy
  is skipped and a chunk fails only on the last.

### Induction over data

The library's induction theorems take an operator as a parameter, which the
provers cannot instantiate. `DataLemmas` states induction over sets instead: a
set that holds 0 and with each natural its successor holds them all
(`SetOfNaturals`), a set that holds a subset of a finite set as soon as it holds
that one's strict subsets holds them all (`SetOfSubsets`); both come from the
minimal element that every set has under a well-founded relation (`WFMin`). A property of a recursive function is then a set of
its arguments: `Cost` of `Paging`, `Walks` and `Arrangements` of `Tree`. The folds of
the community modules are unfolded once (`FoldExists`, `LastIndex`).

### Only model-checked

The five liveness properties (`BuilderFinishes`, `RequestsAnswered`,
`NotedChangesServed`, `ReadsReturn`, `ChangeReachesPlex`), which rest on fairness
and ENABLED. The violated properties of section 4 are counterexamples, which
need no proof.

## 6. Not modelled

* Sections are not renamed and do not change their type.
* Two records of one section with the same key count as one item: within a
  server the code keeps both, and only the numbering would tell them apart.
* How a name is made of a title (`sanitize`, `displayName`, ids in names), and
  the normalising of titles: string formatting. Names are ranks with numbers
  appended, so that collisions of the kind "A (2)" do not occur.
* Requests that run at the same time share only the cache and the catalogue;
  one is modelled. The position of `Readdir` within a listing is not.
* A mount or a local Plex that is not configured makes its half of the callback
  a no-op. Several locations of one library, or two libraries whose directories
  have one name, are not modelled.
* The build that replaces a served catalogue above a mount, and child listings
  before the first catalogue: `Children` and `Mount` start after a clean build.
* JSON decoding but for external ids, URL building, token redaction, MIME types,
  logging, reading the environment, basic auth: pure formatting or sequential
  checks without state.
* A server that caps a page below the window it was asked for: nothing in the
  repository says that one does.
