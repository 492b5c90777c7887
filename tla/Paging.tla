------------------------------- MODULE Paging -------------------------------
(***************************************************************************)
(* The listing of one library section, or of one show's children:          *)
(* Client.listPaged and Client.get of internal/plex/client.go, against a   *)
(* server whose library may change during the walk, that answers 500 to    *)
(* every window with a broken record in it, and that may fail a request    *)
(* for any other reason.                                                   *)
(***************************************************************************)
EXTENDS Integers, SequencesExt

CONSTANTS
  NRecords,         \* length of the library when the walk starts
  PageSize,         \* the source's pageSize
  Shrink,           \* what a refused window is divided by
  MaxPages,
  MaxSkips,
  MetadataRetries,
  MaxBroken,        \* bound: broken records
  MaxFaults,        \* bound: requests that fail for no broken record
  MaxEdits          \* bound: records added or removed during the walk

ASSUME LibraryAssumption == NRecords \in Nat /\ MaxBroken \in Nat /\ MaxFaults \in Nat /\ MaxEdits \in Nat

ASSUME WindowAssumption ==
  /\ PageSize \in Nat \ {0} /\ Shrink \in Nat \ {0, 1}
  /\ MaxPages \in Nat /\ MaxSkips \in Nat /\ MetadataRetries \in Nat

VARIABLES
  \* The server.
  library,      \* its records, in the order it lists them
  broken,       \* those its serialiser fails on
  \* listPaged.
  start, size,  \* the window asked for
  page,         \* windows asked for so far
  skipped,      \* len of what was stepped over
  all,          \* the records listed so far
  result,       \* "walking", "listed", "cut" (listed, for lack of pages) or "failed"
  \* get.
  attempt,      \* failed attempts at this window
  lastErr,      \* why the last one failed: "500", "other", or "none"
  \* History.
  stepped,      \* records stepped over
  faults, added, removed

server  == <<library, broken>>
walk    == <<start, size, page, skipped, all, result, stepped>>
asking  == <<attempt, lastErr>>
edits   == <<added, removed>>
vars    == <<server, walk, asking, faults, edits>>

Shorter(a, b) == IF a < b THEN a ELSE b

Records == 1 .. NRecords + MaxEdits

Window == SubSeq(library, start + 1, Shorter(start + size, Len(library)))

Listable(window) == \A i \in DOMAIN window : window[i] \notin broken

Init ==
  /\ library = [i \in 1 .. NRecords |-> i]
  /\ broken \in UNION {kSubset(k, 1 .. NRecords) : k \in 0 .. Shorter(MaxBroken, NRecords)}
  /\ start = 0 /\ size = PageSize /\ page = 0 /\ skipped = 0
  /\ all = <<>> /\ result = "walking" /\ stepped = {}
  /\ attempt = 0 /\ lastErr = "none"
  /\ faults = 0 /\ added = 0 /\ removed = 0

-----------------------------------------------------------------------------
(* The library changes under the walk.                                     *)

Walking == result = "walking" /\ page < MaxPages

RecordRemoved ==
  /\ Walking /\ added + removed < MaxEdits
  /\ \E i \in 1 .. Len(library) : library' = RemoveAt(library, i)
  /\ removed' = removed + 1
  /\ UNCHANGED <<broken, walk, asking, faults, added>>

\* The new record may sort anywhere.
RecordAdded ==
  /\ Walking /\ added + removed < MaxEdits
  /\ \E i \in 1 .. Len(library) + 1 : library' = InsertAt(library, i, NRecords + added + 1)
  /\ added' = added + 1
  /\ UNCHANGED <<broken, walk, asking, faults, removed>>

-----------------------------------------------------------------------------
(* Client.get: one attempt, the next one, or the caller's deadline.        *)

Asking == Walking /\ attempt <= MetadataRetries

\* A window the server cannot serialise is refused every time.
Refuse ==
  /\ Asking /\ ~Listable(Window)
  /\ attempt' = attempt + 1 /\ lastErr' = "500"
  /\ UNCHANGED <<server, walk, faults, edits>>

\* Any request may fail for a reason of the moment: a 500 that has nothing
\* to do with the window, or a gateway, another status, a lost connection.
Fault ==
  /\ Asking /\ faults < MaxFaults
  /\ attempt' = attempt + 1 /\ lastErr' \in {"500", "other"}
  /\ faults' = faults + 1
  /\ UNCHANGED <<server, walk, edits>>

\* The context ended: get returns its error whatever failed before.
Deadline ==
  /\ Walking
  /\ result' = "failed"
  /\ UNCHANGED <<server, start, size, page, skipped, all, stepped, asking, faults, edits>>

-----------------------------------------------------------------------------
(* Client.listPaged: what it does with the answer of get.                  *)

\* Variant: the attempts of one window count against the next.
SameAttempt == UNCHANGED asking

\* get starts counting anew with every window.
FreshAttempt == attempt' = 0 /\ lastErr' = "none"

\* Variant: the end is looked for in a total that endpoint leaves out.
FullPageEnds ==
  /\ Asking /\ Listable(Window) /\ Len(Window) = size
  /\ all' = all \o Window /\ result' = "listed"
  /\ FreshAttempt
  /\ UNCHANGED <<server, start, size, page, skipped, stepped, faults, edits>>

FullPage ==
  /\ Asking /\ Listable(Window) /\ Len(Window) = size
  /\ all' = all \o Window
  /\ start' = start + Len(Window) /\ page' = page + 1
  /\ FreshAttempt
  /\ UNCHANGED <<server, size, skipped, result, stepped, faults, edits>>

ShortPage ==
  /\ Asking /\ Listable(Window) /\ Len(Window) < size
  /\ all' = all \o Window /\ result' = "listed"
  /\ FreshAttempt
  /\ UNCHANGED <<server, start, size, page, skipped, stepped, faults, edits>>

Refused == Walking /\ attempt > MetadataRetries

\* Only a plain 500 is worth isolating.
Abandon ==
  /\ Refused /\ lastErr # "500"
  /\ result' = "failed"
  /\ UNCHANGED <<server, start, size, page, skipped, all, stepped, asking, faults, edits>>

\* Variant: without the floor.
NarrowedToNothing(n) == n \div Shrink

Narrowed(n) == Max({1, n \div Shrink})

\* Variant: a window of one record is narrowed as well.
NarrowAlways ==
  /\ Refused /\ lastErr = "500"
  /\ size' = Narrowed(size) /\ page' = page + 1
  /\ FreshAttempt
  /\ UNCHANGED <<server, start, skipped, all, result, stepped, faults, edits>>

Narrow ==
  /\ Refused /\ lastErr = "500" /\ size > 1
  /\ size' = Narrowed(size) /\ page' = page + 1
  /\ FreshAttempt
  /\ UNCHANGED <<server, start, skipped, all, result, stepped, faults, edits>>

\* Variant: the window is widened before it is stepped over.
PastWidened == start + PageSize

\* Where the walk goes on after a record it stepped over.
PastRecord == start + 1

StepOver ==
  /\ Refused /\ lastErr = "500" /\ size = 1
  /\ start' = PastRecord /\ size' = PageSize
  /\ skipped' = skipped + 1
  /\ stepped' = stepped \cup {library[i] : i \in {start + 1} \cap DOMAIN library}
  /\ IF skipped' > MaxSkips
       THEN result' = "failed" /\ page' = page
       ELSE result' = result /\ page' = page + 1
  /\ FreshAttempt
  /\ UNCHANGED <<server, all, faults, edits>>

\* The loop runs out of pages and returns what it has, without an error.
RunOut ==
  /\ result = "walking" /\ page >= MaxPages
  /\ result' = "cut"
  /\ UNCHANGED <<server, start, size, page, skipped, all, stepped, asking, faults, edits>>

Next ==
  \/ RecordRemoved \/ RecordAdded
  \/ Refuse \/ Fault \/ Deadline
  \/ FullPage \/ ShortPage \/ Abandon \/ Narrow \/ StepOver \/ RunOut

Spec == Init /\ [][Next]_vars

-----------------------------------------------------------------------------
(* Properties.                                                             *)

Image(s) == {s[i] : i \in DOMAIN s}

\* Type correctness: the window is never empty and never wider than a page.
TypeOK ==
  /\ library \in Seq(Records) /\ broken \subseteq 1 .. NRecords
  /\ start \in Nat /\ size \in 1 .. PageSize
  /\ page \in 0 .. MaxPages /\ skipped \in 0 .. MaxSkips + 1
  /\ all \in Seq(Records) /\ result \in {"walking", "listed", "cut", "failed"}
  /\ attempt \in 0 .. MetadataRetries + 1 /\ lastErr \in {"none", "500", "other"}
  /\ stepped \subseteq Records
  /\ faults \in 0 .. MaxFaults /\ added \in 0 .. MaxEdits /\ removed \in 0 .. MaxEdits

StoodStill == added = 0 /\ removed = 0

\* While the library stands still, the walk has every record before its
\* window, in the library's order, once each, but for those stepped over;
\* and when it ends with a short page it has all of them.  Windows of three
\* different widths follow one another, so an offset that is off by one
\* loses or repeats a record at a boundary no test places.
ListedInOrder ==
  LET reached == IF result = "listed" THEN Len(library) ELSE Shorter(start, Len(library))
  IN StoodStill =>
       /\ Image(all) = {library[i] : i \in 1 .. reached} \ stepped
       /\ \A i, j \in DOMAIN all : i < j => all[i] < all[j]

\* Each edit during the walk costs at most one record: a removal before the
\* window shifts one record past it, an addition repeats one.  No
\* combination with the windows that are narrowed or stepped over loses more.
EditsCostOneEach ==
  LET kept == Image(library) \cap 1 .. NRecords
  IN /\ result = "listed" => Cardinality(kept \ (Image(all) \cup stepped)) <= removed
     /\ Len(all) - Cardinality(Image(all)) <= added

\* A record the server can list is given up only after get has used all its
\* attempts on it alone: a burst of faults on wider windows, on a broken
\* neighbour or on the window before it never adds up to a skip.
SkipsAreEarned ==
  StoodStill => Cardinality(stepped \ broken) * (MetadataRetries + 1) <= faults

\* The pages a broken record in a window of n records may cost: each narrowing, the narrow windows
\* before the one that holds it, and the step over it.
Cost[n \in 1 .. PageSize] ==
  IF n = 1 THEN 1
  ELSE LET m == Max({1, n \div Shrink}) IN 1 + ((n + m - 1) \div m - 1) + Cost[m]

\* Isolating a broken record costs a handful of pages, not a scan: the pages
\* used and those the current window may still cost never exceed one page per
\* PageSize records and Cost[PageSize] for each record stepped over.  So
\* broken records alone never use up maxPages.
PagesWithinBudget ==
  StoodStill /\ faults = 0 =>
    page + Cost[size] <= start \div PageSize + Cost[PageSize] * (skipped + 1)

\* A listing that reports no error has every item of the section but those
\* it stepped over.
ReturnsEveryItem ==
  StoodStill /\ result \in {"listed", "cut"} => Image(library) \subseteq Image(all) \cup stepped

-----------------------------------------------------------------------------
(* The inductive invariant; proved in PagingProofs.                        *)

Before == {library[i] : i \in {j \in DOMAIN library : j <= start}}

Rest == {library[i] : i \in {j \in DOMAIN library : j > start}}

\* A record has one place in the library, and one number for ever.
OneOfEach ==
  /\ \A i, j \in DOMAIN library : i # j => library[i] # library[j]
  /\ Image(library) \cup Image(all) \subseteq 1 .. NRecords + added
  /\ StoodStill => library = [i \in 1 .. NRecords |-> i]
  /\ StoodStill => stepped \subseteq 1 .. Shorter(start, NRecords)
  /\ result = "walking" => skipped <= MaxSkips

\* What the edits have cost so far: records that slipped behind the window
\* unseen, and records listed that are in front of it again.
CostSoFar ==
  result # "listed" =>
    /\ Cardinality((Before \cap 1 .. NRecords) \ (Image(all) \cup stepped)) <= removed
    /\ Len(all) + Cardinality(Image(all) \cap Rest) <= added + Cardinality(Image(all))

\* The attempts at a window that could be listed count towards a skip.
Earning ==
  StoodStill =>
    Cardinality(stepped \ broken) * (MetadataRetries + 1)
      + (IF Listable(Window) THEN attempt ELSE 0) <= faults

\* What one broken record at distance n of the window may cost with windows
\* of this size: those that hold no broken record, and then the one that does.
CostWithin(n) == (n + size - 1) \div size - 1 + Cost[size]

\* A window is a whole page, or a broken record is near enough for the budget.
Budget ==
  StoodStill /\ faults = 0 =>
    LET allowed == start \div PageSize + Cost[PageSize] * (skipped + 1)
    IN \/ size = PageSize /\ page + Cost[PageSize] <= allowed
       \/ \E b \in broken : start < b /\ page + CostWithin(b - start) <= allowed

PagingInv ==
  /\ TypeOK /\ OneOfEach /\ ListedInOrder
  /\ CostSoFar /\ EditsCostOneEach
  /\ Earning /\ Budget
=============================================================================
