------------------------------- MODULE Served -------------------------------
(***************************************************************************)
(* The catalogue's life once the builder goroutine is done: what remains   *)
(* is the watcher, whose actions Catalogue has, and the servers.  The      *)
(* modules that add what lies below and above the tree start here.         *)
(***************************************************************************)
EXTENDS Catalogue

CONSTANTS
  Editable   \* sections whose titles come and go

ASSUME EditableAssumption == Editable \subseteq SrcSections

\* The catalogue of a build that listed every section at version 0.
FirstBuild ==
  Derive(Add(EmptyCatalogue, SrcSections, [ss \in SrcSections |-> 0]))

\* A clean build is published, and the first tick is still to come.
BuiltInit ==
  /\ lib = [ss \in SrcSections |-> 0] /\ clock = 0 /\ failures = 0
  /\ cur = FirstBuild /\ ready = TRUE /\ attempt = FirstBuild
  /\ dirty = {} /\ stamps = [ss \in SrcSections |-> None]
  /\ buildMu = "free"
  /\ bpc = "done" /\ bsrc = 0 /\ queue = {} /\ c = EmptyCatalogue
  /\ missing = FALSE /\ carried = FALSE
  /\ wpc = "idle" /\ wsrc = 0 /\ changed = {} /\ next = EmptyCatalogue /\ stale = {}
  /\ reader = "idle" /\ omitted = {}

\* The sections whose stamp moves when the server being polled answers.
Moved == {ss \in Listed(wsrc) : stamps[ss] \notin {None, lib[ss]}}

\* A call that something else makes to a server fails.
FailsElsewhere ==
  Fails /\ UNCHANGED <<lib, clock, shared, builder, watcher, reader, omitted>>

\* The watcher's steps other than the three that others join: the answer to
\* a poll (Polled), the new catalogue (RefreshPublished) and Notify.
Watches ==
  \/ Tick \/ PollFailed \/ Unchanged \/ RefreshBase \/ RefreshLock
  \/ \E ss \in SrcSections : Relisted(ss) \/ RelistFailed(ss)

\* What the modules above and below refine: each of their steps is one of
\* these, or changes nothing of the catalogue.
ServedNext ==
  \/ \E ss \in Editable : Edit(ss)
  \/ Watches \/ Polled \/ RefreshPublished \/ Notify
  \/ FailsElsewhere

ServedSpec == BuiltInit /\ [][ServedNext]_vars

-----------------------------------------------------------------------------
\* A refresh never takes a section back to an older listing, nor to none,
\* whatever failed since the change was noted.
ServedNeverAges ==
  [][\A ss \in SrcSections : RawOf(cur', ss) >= RawOf(cur, ss)]_vars

-----------------------------------------------------------------------------
(* The inductive invariant of ServedSpec; proved in ServedProofs.          *)

\* A whole catalogue is served, nothing is withdrawn, no build runs.
Settled ==
  /\ IInv /\ bpc = "done" /\ cur \in Catalogues
  /\ \A ss \in SrcSections : lib[ss] # None

\* What Watch takes note of stays on its list of titles until the callback
\* has had it: while a section is dirty or stale, and while the catalogue
\* refresh works on is ahead of the one served, its title is there.
Noting ==
  /\ \A ss \in dirty \cup stale : Title[ss] \in changed
  /\ dirty # {} => wpc \in {"poll", "lock"}
  /\ stale # {} => wpc = "relist"
  /\ wpc = "idle" => changed = {}
  /\ wpc \in {"lock", "relist", "notify"} => changed # {}
  /\ wpc \in {"lock", "relist"} => \A ss \in SrcSections :
       /\ next.raw[ss] >= cur.raw[ss]
       /\ next.raw[ss] # cur.raw[ss] => Title[ss] \in changed
  /\ changed \subseteq {Title[ss] : ss \in SrcSections}

\* Where no section is an extra one, a refresh prunes nothing: every section
\* keeps its place, and those that are shown their root directory.
Rooted(d) ==
  /\ d.order = SrcSections /\ d.extra = {}
  /\ \A ss \in SrcSections :
       Contributes(Src[ss]) => ExposedName(Title[ss], Src[ss]) \in d.sections

Rooting == Rooted(cur) /\ (wpc \in {"lock", "relist"} => Rooted(next))
=============================================================================
