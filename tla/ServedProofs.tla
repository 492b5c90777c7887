---------------------------- MODULE ServedProofs ----------------------------
(***************************************************************************)
(* What is proved about the catalogue once the builder goroutine is done,  *)
(* for the modules that refine it.                                         *)
(***************************************************************************)
EXTENDS Served, CatalogueProofs

\* A clean build of every section gives a catalogue that holds them all.
LEMMA FirstBuildType ==
  /\ FirstBuild \in Catalogues
  /\ FirstBuild.order = SrcSections
  /\ \A ss \in SrcSections : FirstBuild.raw[ss] = 0
  <1>. DEFINE zero == [ss \in SrcSections |-> 0]
              whole == Add(EmptyCatalogue, SrcSections, zero)
  <1>1. zero \in [SrcSections -> Versions \cup {None}]
    BY SourcesAssumption DEF Versions
  <1>2. /\ whole \in Catalogues
        /\ whole.order = EmptyCatalogue.order \cup SrcSections
        /\ \A ss \in SrcSections : whole.raw[ss] = zero[ss]
    <2>. HIDE DEF zero
    <2>. QED
      BY <1>1, EmptyType, AddType
  <1>3. whole.order = SrcSections
    BY <1>2 DEF EmptyCatalogue
  <1>4. QED
    <2>1. \A ss \in SrcSections : whole.raw[ss] = 0
      BY <1>2
    <2>. HIDE DEF whole, zero
    <2>2. FirstBuild = Derive(whole)
      BY DEF FirstBuild, whole, zero
    <2>3. QED
      BY <1>2, <1>3, <2>1, <2>2, DeriveType

\* The served catalogue starts whole, with nothing noted.
LEMMA ServedInit == BuiltInit => Settled /\ Noting
  <1>. SUFFICES ASSUME BuiltInit PROVE Settled /\ Noting
    OBVIOUS
  <1>. /\ FirstBuild \in Catalogues /\ cur = FirstBuild /\ attempt = FirstBuild
       /\ c = EmptyCatalogue /\ next = EmptyCatalogue
       /\ lib = [ss \in SrcSections |-> 0] /\ clock = 0
       /\ bpc = "done" /\ wpc = "idle" /\ omitted = {}
    BY FirstBuildType DEF BuiltInit
  <1>1. TypeOK
    <2>1. ServerType
      BY SourcesAssumption, FailuresAssumption DEF BuiltInit, ServerType, Versions
    <2>2. SharedType
      BY DEF BuiltInit, SharedType
    <2>3. BuilderType
      <3>1. bsrc \in 0 .. NSources /\ queue \subseteq SrcSections
        BY SourcesAssumption DEF BuiltInit
      <3>2. missing \in BOOLEAN /\ carried \in BOOLEAN
        BY DEF BuiltInit
      <3>3. QED
        BY <3>1, <3>2, EmptyType DEF BuilderType
    <2>4. WatcherType
      <3>1. changed \subseteq STRING
        BY DEF BuiltInit
      <3>2. wsrc \in 0 .. NSources /\ stale \subseteq SrcSections
        BY SourcesAssumption DEF BuiltInit
      <3>3. QED
        BY <3>1, <3>2, EmptyType DEF WatcherType
    <2>5. QED
      BY <2>1, <2>2, <2>3, <2>4 DEF BuiltInit, TypeOK
  <1>2. LoopBound /\ LockDiscipline
    BY DEF BuiltInit, LoopBound, LockDiscipline
  <1>3. Recency
    <2>1. Recorded(EmptyCatalogue)
      BY <1>1, RecordedEmpty
    <2>2. Recorded(FirstBuild)
      BY FirstBuildType DEF Recorded, None
    <2>3. QED
      BY <2>1, <2>2 DEF Recency
  <1>4. ServedIsBacked /\ BuildCover /\ BuildWhole
    BY CoversItself DEF ServedIsBacked, BuildCover, BuildWhole, Processed
  <1>5. Settled
    BY <1>1, <1>2, <1>3, <1>4 DEF IInv, Settled, None
  <1>6. Noting
    BY DEF Noting, BuiltInit
  <1>7. QED
    BY <1>5, <1>6

\* Every step is one of Catalogue, but for calls that fail elsewhere.
LEMMA ServedStep ==
  ASSUME ServedNext
  PROVE  Next \/ FailsElsewhere
  BY EditableAssumption DEF ServedNext, Watches, Next, Watcher

\* A call that fails elsewhere changes nothing the invariant is about.
LEMMA ElsewhereStep ==
  ASSUME IInv, FailsElsewhere
  PROVE  IInv'
  <1>1. TypeOK'
    BY FailsType, Frame DEF FailsElsewhere, IInv, TypeOK
  <1>2. UNCHANGED <<lib, clock, shared, builder, watcher, reader, omitted>>
    BY DEF FailsElsewhere
  <1>3. LoopBound' /\ LockDiscipline'
    BY <1>2 DEF IInv, LoopBound, LockDiscipline, shared, builder, watcher
  <1>4. Recency'
    BY <1>2, RecencyFrame DEF IInv, Recency, Recorded, shared, builder, watcher
  <1>5. ServedIsBacked' /\ BuildCover' /\ BuildWhole'
    BY <1>2 DEF IInv, ServedIsBacked, Covers, BuildCover, BuildWhole, Processed,
                SectionOrder, RawOf, shared, builder
  <1>6. QED
    BY <1>1, <1>3, <1>4, <1>5 DEF IInv

\* No build comes back, no section is withdrawn.
LEMMA SettledStep ==
  ASSUME Settled, [ServedNext]_vars
  PROVE  Settled'
  <1>1. IInv'
    BY ServedStep, ElsewhereStep, InvStep DEF Settled
  <1>2. UNCHANGED builder
    BY DEF ServedNext, Watches, FailsElsewhere, Edit, Tick, Polled, PollFailed, Unchanged,
           RefreshBase, RefreshLock, Relisted, RelistFailed, RefreshPublished, Notify, vars
  <1>3. cur' \in Catalogues
    <2>1. CASE RefreshPublished
      BY <2>1, DeriveType DEF RefreshPublished, Settled, IInv, TypeOK, WatcherType
    <2>2. CASE UNCHANGED cur
      BY <2>2 DEF Settled
    <2>3. RefreshPublished \/ UNCHANGED cur
      BY DEF ServedNext, Watches, FailsElsewhere, Edit, Tick, Polled, PollFailed, Unchanged,
             RefreshBase, RefreshLock, Relisted, RelistFailed, Notify, vars, shared
    <2>4. QED
      BY <2>1, <2>2, <2>3
  <1>4. \A ss \in SrcSections : lib'[ss] # None
    <2>1. ASSUME NEW tt \in Editable, Edit(tt) PROVE \A ss \in SrcSections : lib'[ss] # None
      <3>1. lib' = [lib EXCEPT ![tt] = clock + 1] /\ clock \in Nat
        BY <2>1, SourcesAssumption DEF Edit, Settled, IInv, TypeOK, ServerType, Versions
      <3>2. QED
        BY <3>1 DEF Settled, IInv, TypeOK, ServerType, None
    <2>2. CASE UNCHANGED lib
      BY <2>2 DEF Settled
    <2>3. UNCHANGED lib \/ \E tt \in Editable : Edit(tt)
      BY DEF ServedNext, Watches, FailsElsewhere, Tick, Polled, PollFailed, Unchanged, Fails,
             RefreshBase, RefreshLock, Relisted, RelistFailed, RefreshPublished, Notify,
             vars, server
    <2>4. QED
      BY <2>1, <2>2, <2>3
  <1>5. QED
    BY <1>1, <1>2, <1>3, <1>4 DEF Settled, builder

-----------------------------------------------------------------------------
(* What is noted, and what a refresh does to what is served.               *)

\* What is recorded are versions, no newer than those of the servers.
LEMMA SettledBounds ==
  ASSUME Settled, NEW ss \in SrcSections
  PROVE  /\ cur.raw[ss] \in Int /\ next.raw[ss] \in Int /\ lib[ss] \in Int
         /\ next.raw[ss] <= lib[ss] /\ cur.raw[ss] <= lib[ss]
  <1>1. TypeOK /\ next \in Catalogues /\ cur \in Catalogues /\ lib[ss] # None
    BY DEF Settled, IInv, TypeOK, WatcherType
  <1>2. Recorded(next) /\ Recorded(cur)
    BY DEF Settled, IInv, Recency
  <1>3. QED
    BY <1>1, <1>2, RawBounds DEF Recorded

\* Listing a section again moves it ahead.
LEMMA NotingRelisted ==
  ASSUME Settled, Noting, NEW ss \in SrcSections, Relisted(ss)
  PROVE  Noting'
  <1>1. /\ wpc = "relist" /\ ss \in stale
        /\ next' = [next EXCEPT !.raw[ss] = lib[ss]]
        /\ stale' = stale \ {ss}
        /\ UNCHANGED <<cur, dirty, wpc, changed>>
    BY DEF Relisted, shared
  <1>2. next.raw \in [SrcSections -> Versions \cup {None}] /\ next \in Catalogues
    BY DEF Settled, IInv, TypeOK, WatcherType, Catalogues
  <1>3. \A tt \in SrcSections : next'.raw[tt] = IF tt = ss THEN lib[ss] ELSE next.raw[tt]
    BY <1>1, <1>2 DEF Catalogues
  <1>4. Title[ss] \in changed
    BY <1>1 DEF Noting
  <1>5. \A tt \in SrcSections : next.raw[tt] >= cur.raw[tt]
                                 /\ (next.raw[tt] # cur.raw[tt] => Title[tt] \in changed)
    BY <1>1 DEF Noting
  <1>6. \A tt \in SrcSections : next'.raw[tt] >= cur'.raw[tt]
                                 /\ (next'.raw[tt] # cur'.raw[tt] => Title[tt] \in changed')
    BY <1>1, <1>3, <1>4, <1>5, SettledBounds
  <1>7. QED
    BY <1>1, <1>6 DEF Noting

\* After every step, what is noted is still to be told.
LEMMA NotingStep ==
  ASSUME Settled, Noting, [ServedNext]_vars
  PROVE  Noting'
  <1>1. CASE Polled
    <2>. DEFINE moved == {ss \in Listed(wsrc) : stamps[ss] \notin {None, lib[ss]}}
    <2>1. /\ wpc = "poll" /\ wpc' = "poll" /\ stale' = stale /\ next' = next
          /\ dirty' = dirty \cup moved
          /\ changed' = changed \cup {Title[ss] : ss \in moved}
      BY <1>1 DEF Polled
    <2>2. moved \subseteq SrcSections
      BY DEF Listed, SectionsOf
    <2>. HIDE DEF moved
    <2>3. QED
      BY <2>1, <2>2 DEF Noting
  <1>2. CASE RefreshBase
    <2>1. cur # NoCatalogue
      BY NoCatalogueAssumption DEF Settled
    <2>2. /\ wpc = "poll" /\ wpc' = "lock" /\ next' = cur /\ changed # {}
          /\ UNCHANGED <<cur, dirty, changed, stale>>
      BY <1>2, <2>1 DEF RefreshBase, shared
    <2>3. \A ss \in SrcSections : cur.raw[ss] >= cur.raw[ss]
      BY SettledBounds
    <2>4. QED
      BY <2>2, <2>3 DEF Noting
  <1>3. CASE RefreshLock
    <2>1. /\ wpc = "lock" /\ wpc' = "relist" /\ stale' = dirty /\ dirty' = {}
          /\ UNCHANGED <<cur, changed, next>>
      BY <1>3 DEF RefreshLock
    <2>2. QED
      BY <2>1 DEF Noting
  <1>4. ASSUME NEW ss \in SrcSections, Relisted(ss) PROVE Noting'
    BY <1>4, NotingRelisted
  <1>5. ASSUME NEW ss \in SrcSections, RelistFailed(ss) PROVE Noting'
    <2>1. /\ stale' = stale \ {ss} /\ wpc = "relist"
          /\ UNCHANGED <<cur, dirty, wpc, changed, next>>
      BY <1>5 DEF RelistFailed, shared
    <2>2. QED
      BY <2>1 DEF Noting
  <1>6. CASE RefreshPublished
    <2>1. /\ wpc = "relist" /\ wpc' = "notify" /\ stale = {} /\ UNCHANGED <<dirty, changed, stale>>
      BY <1>6 DEF RefreshPublished
    <2>2. QED
      BY <2>1 DEF Noting
  <1>7. CASE Notify
    <2>1. /\ wpc = "notify" /\ wpc' = "idle" /\ changed' = {} /\ UNCHANGED <<dirty, stale>>
      BY <1>7 DEF Notify, shared
    <2>2. dirty = {} /\ stale = {}
      BY <2>1 DEF Noting
    <2>3. QED
      BY <2>1, <2>2 DEF Noting
  <1>8. CASE Tick \/ Unchanged
    <2>1. /\ wpc \in {"idle", "poll"} /\ wpc' \in {"idle", "poll"} /\ (wpc' = "idle" => changed = {})
          /\ UNCHANGED <<cur, dirty, changed, next, stale>>
      BY <1>8 DEF Tick, Unchanged, shared
    <2>2. QED
      BY <2>1 DEF Noting
  <1>9. CASE UNCHANGED <<cur, dirty, wpc, changed, next, stale>>
    BY <1>9 DEF Noting
  <1>10. QED
    <2>1. CASE PollFailed \/ FailsElsewhere \/ (\E ss \in Editable : Edit(ss)) \/ UNCHANGED vars
      BY <2>1, <1>9 DEF PollFailed, FailsElsewhere, Edit, vars, shared, watcher
    <2>2. QED
      BY <2>1, <1>1, <1>2, <1>3, <1>4, <1>5, <1>6, <1>7, <1>8 DEF ServedNext, Watches

\* A refresh serves nothing older, and tells the title of what it changed.
LEMMA RefreshTells ==
  ASSUME Settled, Noting, RefreshPublished
  PROVE  /\ \A ss \in SrcSections :
              /\ cur'.raw[ss] >= cur.raw[ss]
              /\ cur'.raw[ss] # cur.raw[ss] => Title[ss] \in changed
         /\ changed # {} /\ changed' = changed
  <1>1. cur' = Derive(next) /\ wpc = "relist" /\ changed' = changed
    BY DEF RefreshPublished
  <1>2. cur'.raw = next.raw
    BY <1>1, DeriveType DEF Settled, IInv, TypeOK, WatcherType
  <1>3. QED
    BY <1>1, <1>2 DEF Noting

\* Who publishes.
LEMMA OnlyRefreshServes ==
  ASSUME [ServedNext]_vars
  PROVE  RefreshPublished \/ UNCHANGED cur
  BY DEF ServedNext, Watches, FailsElsewhere, Edit, Tick, Polled, PollFailed, Unchanged,
         RefreshBase, RefreshLock, Relisted, RelistFailed, Notify, vars, shared

\* Once built, the catalogue stays whole, and every change noted is told.
THEOREM ServedInvariance == ServedSpec => [](Settled /\ Noting)
  <1>1. Settled /\ Noting /\ [ServedNext]_vars => (Settled /\ Noting)'
    BY SettledStep, NotingStep
  <1>2. QED
    BY <1>1, ServedInit, PTL DEF ServedSpec

\* No refresh makes a section older or lets it vanish.
THEOREM RefreshesNeverGoBack == ServedSpec => ServedNeverAges
  <1>1. Settled /\ Noting /\ [ServedNext]_vars =>
          [\A ss \in SrcSections : RawOf(cur', ss) >= RawOf(cur, ss)]_vars
    <2>. SUFFICES ASSUME Settled, Noting, [ServedNext]_vars, NEW ss \in SrcSections
                  PROVE  RawOf(cur', ss) >= RawOf(cur, ss)
      OBVIOUS
    <2>1. cur \in Catalogues /\ cur' \in Catalogues
      BY SettledStep DEF Settled
    <2>2. RawOf(cur', ss) = cur'.raw[ss] /\ RawOf(cur, ss) = cur.raw[ss]
      BY <2>1, NoCatalogueAssumption DEF RawOf
    <2>3. cur.raw[ss] \in Int
      BY SettledBounds
    <2>4. QED
      BY <2>2, <2>3, OnlyRefreshServes, RefreshTells
  <1>2. QED
    BY <1>1, ServedInvariance, PTL DEF ServedSpec, ServedNeverAges

-----------------------------------------------------------------------------
(* Where no section is an extra one.                                       *)

\* Deriving prunes extra sections only.
LEMMA DeriveRooted ==
  ASSUME NEW d \in Catalogues, Rooted(d)
  PROVE  Rooted(Derive(d))
  <1>1. /\ Derive(d).order = d.order /\ Derive(d).extra = d.extra
        /\ \A name \in d.sections : name \notin d.extra => name \in Derive(d).sections
    BY DEF Derive, Catalogues
  <1>2. QED
    BY <1>1 DEF Rooted

\* The first build gives every section that is shown its directory.
LEMMA RootedInit ==
  ASSUME ~(MirrorPrimary /\ ExtraSections)
  PROVE  BuiltInit => Rooting
  <1>. DEFINE zero == [ss \in SrcSections |-> 0]
              whole == Add(EmptyCatalogue, SrcSections, zero)
  <1>1. whole \in Catalogues
    <2>1. zero \in [SrcSections -> Versions \cup {None}]
      BY SourcesAssumption DEF Versions
    <2>. HIDE DEF zero
    <2>2. QED
      BY <2>1, EmptyType, AddType
  <1>2. \A ss \in SrcSections : ~IsExtra(Src[ss])
    BY DEF IsExtra
  <1>3. Rooted(whole)
    <2>1. whole.order = SrcSections
      BY DEF Add, EmptyCatalogue
    <2>2. whole.extra = {}
      BY <1>2 DEF Add, EmptyCatalogue
    <2>3. \A ss \in SrcSections :
            Contributes(Src[ss]) => ExposedName(Title[ss], Src[ss]) \in whole.sections
      BY DEF Add, EmptyCatalogue
    <2>. HIDE DEF whole
    <2>4. QED
      BY <2>1, <2>2, <2>3 DEF Rooted
  <1>4. Rooted(FirstBuild)
    <2>1. FirstBuild = Derive(whole)
      BY DEF FirstBuild
    <2>. HIDE DEF whole
    <2>2. QED
      BY <1>1, <1>3, <2>1, DeriveRooted
  <1>5. QED
    BY <1>4 DEF BuiltInit, Rooting

\* Listing a section again leaves its place and its directory.
LEMMA RootedStep ==
  ASSUME Settled, Rooting, [ServedNext]_vars
  PROVE  Rooting'
  <1>1. CASE RefreshBase
    <2>1. cur # NoCatalogue
      BY NoCatalogueAssumption DEF Settled
    <2>2. next' = cur /\ cur' = cur
      BY <1>1, <2>1 DEF RefreshBase, shared
    <2>3. QED
      BY <2>2 DEF Rooting
  <1>2. ASSUME NEW ss \in SrcSections, Relisted(ss) PROVE Rooting'
    <2>1. /\ wpc = "relist" /\ next' = [next EXCEPT !.raw[ss] = lib[ss]] /\ cur' = cur
      BY <1>2 DEF Relisted, shared
    <2>2. next'.order = next.order /\ next'.extra = next.extra /\ next'.sections = next.sections
      BY <2>1 DEF Settled, IInv, TypeOK, WatcherType, Catalogues
    <2>3. QED
      BY <2>1, <2>2 DEF Rooting, Rooted
  <1>3. CASE RefreshPublished
    <2>1. wpc = "relist" /\ cur' = Derive(next) /\ wpc' = "notify"
      BY <1>3 DEF RefreshPublished
    <2>2. next \in Catalogues
      BY DEF Settled, IInv, TypeOK, WatcherType
    <2>3. QED
      BY <2>1, <2>2, DeriveRooted DEF Rooting
  <1>4. CASE UNCHANGED <<cur, next>> /\ (wpc' \in {"lock", "relist"} => wpc \in {"lock", "relist"})
    BY <1>4 DEF Rooting
  <1>5. CASE RefreshLock
    BY <1>4, <1>5 DEF RefreshLock
  <1>6. CASE Tick \/ Polled \/ PollFailed \/ Unchanged \/ Notify
    BY <1>4, <1>6 DEF Tick, Polled, PollFailed, Unchanged, Notify, shared
  <1>7. ASSUME NEW ss \in SrcSections, RelistFailed(ss) PROVE Rooting'
    BY <1>4, <1>7 DEF RelistFailed, shared
  <1>8. CASE FailsElsewhere \/ (\E ss \in Editable : Edit(ss)) \/ UNCHANGED vars
    BY <1>4, <1>8 DEF FailsElsewhere, Edit, vars, shared, watcher
  <1>9. QED
    BY <1>1, <1>2, <1>3, <1>5, <1>6, <1>7, <1>8 DEF ServedNext, Watches

\* In the modes without extra sections, merging and mirroring, every section
\* keeps the place and the directory the first build gave it.
THEOREM RootStays ==
  ASSUME ~(MirrorPrimary /\ ExtraSections)
  PROVE  ServedSpec => []Rooting
  <1>1. Settled /\ Rooting /\ [ServedNext]_vars => Rooting'
    BY RootedStep
  <1>2. QED
    BY <1>1, RootedInit, ServedInvariance, PTL DEF ServedSpec

\* Only extra sections can be hidden: in the other modes every title that
\* won a place is filed under a directory the root lists, after any number
\* of refreshes.
THEOREM OnlyExtrasHide ==
  ASSUME ~(MirrorPrimary /\ ExtraSections)
  PROVE  ServedSpec => []NothingHidden
  <1>1. ASSUME Rooting PROVE NothingHidden
    <2>. SUFFICES ASSUME NEW ss \in SrcSections, Placed(cur, ss) # {},
                         DirOf(cur, ss) \notin cur.sections
                  PROVE  FALSE
      BY DEF NothingHidden, Orphans
    <2>1. Contributes(Src[ss])
      BY DEF Placed
    <2>2. ss \in cur.order /\ ExposedName(Title[ss], Src[ss]) \in cur.sections
      BY <1>1, <2>1 DEF Rooting, Rooted
    <2>3. QED
      BY <2>2 DEF DirOf
  <1>2. QED
    BY <1>1, RootStays, PTL
=============================================================================
