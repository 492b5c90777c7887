-------------------------- MODULE CatalogueProofs --------------------------
(***************************************************************************)
(* What is proved about Catalogue for every set of sections, every number  *)
(* of servers, all three modes and any bound on edits and failures.        *)
(***************************************************************************)
EXTENDS Catalogue, TLAPS

-----------------------------------------------------------------------------
(* The operators of Merge.                                                 *)

\* The catalogue a build starts with is one.
LEMMA EmptyType == EmptyCatalogue \in Catalogues
  BY SourcesAssumption DEF EmptyCatalogue, Catalogues, Versions, None

\* Directory names are pairs of a title and a server number.
LEMMA NameType ==
  ASSUME NEW ss \in SrcSections
  PROVE  ExposedName(Title[ss], Src[ss]) \in Names
  <1>. DEFINE label == IF IsExtra(Src[ss]) THEN Src[ss] ELSE 0
  <1>1. Title[ss] \in STRING
    BY TitlesAssumption
  <1>2. label \in Nat
    BY SourcesAssumption
  <1>3. <<Title[ss], label>> \in STRING \X Nat
    <2>. HIDE DEF label
    <2>. QED
      BY <1>1, <1>2
  <1>4. QED
    BY <1>3 DEF ExposedName, Names

\* Entering sections with their listings gives a catalogue.
LEMMA AddType ==
  ASSUME NEW d \in Catalogues,
         NEW S \in SUBSET SrcSections,
         NEW raw \in [SrcSections -> Versions \cup {None}]
  PROVE  /\ Add(d, S, raw) \in Catalogues
         /\ Add(d, S, raw).order = d.order \cup S
         /\ \A ss \in SrcSections :
              Add(d, S, raw).raw[ss] = IF ss \in S THEN raw[ss] ELSE d.raw[ss]
  <1>1. /\ d.raw \in [SrcSections -> Versions \cup {None}]
        /\ d.order \subseteq SrcSections
        /\ d.sections \subseteq Names
        /\ d.extra \subseteq Names
    BY DEF Catalogues
  <1>2. [ss \in SrcSections |-> IF ss \in S THEN raw[ss] ELSE d.raw[ss]]
          \in [SrcSections -> Versions \cup {None}]
    BY <1>1
  <1>3. \A T \in SUBSET S : {ExposedName(Title[ss], Src[ss]) : ss \in T} \subseteq Names
    BY NameType
  <1>4. d.order \cup S \subseteq SrcSections
    BY <1>1
  <1>5. /\ {ss \in S : Contributes(Src[ss])} \in SUBSET S
        /\ {t \in {ss \in S : Contributes(Src[ss])} : IsExtra(Src[t])} \in SUBSET S
    OBVIOUS
  <1>6. QED
    BY <1>1, <1>2, <1>3, <1>4, <1>5 DEF Add, Catalogues

\* Deriving the tree only prunes root directories.
LEMMA DeriveType ==
  ASSUME NEW d \in Catalogues
  PROVE  /\ Derive(d) \in Catalogues
         /\ Derive(d).order = d.order
         /\ Derive(d).raw = d.raw
  BY DEF Derive, Catalogues

\* A recorded listing is read from a catalogue that exists.
LEMMA RawType ==
  ASSUME NEW d \in Catalogues \cup {NoCatalogue}, NEW ss \in SrcSections
  PROVE  /\ RawOf(d, ss) \in Versions \cup {None}
         /\ RawOf(d, ss) # None => d \in Catalogues /\ RawOf(d, ss) = d.raw[ss]
  BY DEF RawOf, Catalogues

\* The root directories of a catalogue are sections; a nil one has none.
LEMMA OrderType ==
  ASSUME NEW d \in Catalogues \cup {NoCatalogue}
  PROVE  SectionOrder(d) \subseteq SrcSections
  BY DEF SectionOrder, Catalogues

-----------------------------------------------------------------------------
(* Type correctness, one lemma per group of variables and actor.           *)

\* The program starts with every variable of its type.
LEMMA TypeInit == Init => TypeOK
  <1>. SUFFICES ASSUME Init PROVE TypeOK
    OBVIOUS
  <1>1. ServerType
    BY SourcesAssumption, FailuresAssumption DEF Init, ServerType, Versions
  <1>2. SharedType
    BY DEF Init, SharedType
  <1>3. BuilderType
    <2>1. bsrc \in 0 .. NSources
      BY SourcesAssumption DEF Init
    <2>2. c \in Catalogues
      BY EmptyType DEF Init
    <2>3. bpc = "idle" /\ queue = {} /\ missing = FALSE /\ carried = FALSE
      BY DEF Init
    <2>4. QED
      BY <2>1, <2>2, <2>3 DEF BuilderType
  <1>4. WatcherType
    <2>1. wpc = "idle" /\ wsrc = 0 /\ next = EmptyCatalogue /\ stale = {}
      BY DEF Init
    <2>2. changed = {}
      BY DEF Init
    <2>3. changed \subseteq STRING
      BY <2>2
    <2>4. QED
      BY <2>1, <2>3, SourcesAssumption, EmptyType DEF WatcherType
  <1>5. QED
    BY <1>1, <1>2, <1>3, <1>4 DEF Init, TypeOK

\* A group of variables a step leaves alone keeps its types.
LEMMA Frame ==
  /\ ServerType /\ UNCHANGED server => ServerType'
  /\ SharedType /\ UNCHANGED shared => SharedType'
  /\ BuilderType /\ UNCHANGED builder => BuilderType'
  /\ WatcherType /\ UNCHANGED watcher => WatcherType'
  <1>1. ServerType /\ UNCHANGED server => ServerType'
    BY DEF ServerType, server
  <1>2. SharedType /\ UNCHANGED shared => SharedType'
    BY DEF SharedType, shared
  <1>3. BuilderType /\ UNCHANGED builder => BuilderType'
    BY DEF BuilderType, builder
  <1>4. WatcherType /\ UNCHANGED watcher => WatcherType'
    BY DEF WatcherType, watcher
  <1>5. QED
    BY <1>1, <1>2, <1>3, <1>4

\* A call that fails is within the bound on failures.
LEMMA FailsType ==
  ASSUME ServerType, Fails, UNCHANGED <<lib, clock>>
  PROVE  ServerType'
  BY FailuresAssumption DEF Fails, ServerType

\* The sections of a server, those it lists and those a build carries.
LEMMA SectionsType ==
  ASSUME NEW src
  PROVE  /\ Listed(src) \subseteq SectionsOf(src)
         /\ Carry(src) \subseteq SectionsOf(src)
         /\ SectionsOf(src) \subseteq SrcSections
  BY DEF Listed, Carry, SectionsOf

\* The servers.
LEMMA TypeOfServer ==
  ASSUME TypeOK, NEW ss \in SrcSections, Edit(ss) \/ Withdraw(ss)
  PROVE  TypeOK'
  <1>1. ServerType'
    <2>1. clock + 1 \in Versions
      BY SourcesAssumption DEF TypeOK, ServerType, Versions, Edit, Withdraw
    <2>2. QED
      BY <2>1 DEF TypeOK, ServerType, Edit, Withdraw
  <1>2. UNCHANGED <<shared, builder, watcher, reader, omitted>>
    BY DEF Edit, Withdraw
  <1>3. QED
    BY <1>1, <1>2, Frame DEF TypeOK

\* The builder: what a build keeps to itself.
LEMMA TypeOfReturn ==
  ASSUME TypeOK, NEW where \in {"idle", "done", "panicked"}, BuildReturns(where)
  PROVE  BuilderType'
  <1>1. c' \in Catalogues
    BY EmptyType DEF BuildReturns
  <1>2. bsrc' \in 0 .. NSources
    BY SourcesAssumption DEF BuildReturns
  <1>3. QED
    BY <1>1, <1>2 DEF BuildReturns, BuilderType

\* What a listing adds to the build keeps the types of the build.
LEMMA TypeOfListing ==
  ASSUME TypeOK,
         NEW S \in SUBSET SrcSections,
         \/ c' = c
         \/ c' = Add(c, S, lib)
         \/ attempt # NoCatalogue /\ c' = Add(c, S, attempt.raw)
  PROVE  c' \in Catalogues
  <1>1. lib \in [SrcSections -> Versions \cup {None}] /\ c \in Catalogues
    BY DEF TypeOK, ServerType, BuilderType
  <1>2. attempt # NoCatalogue => attempt.raw \in [SrcSections -> Versions \cup {None}]
    BY DEF TypeOK, SharedType, Catalogues
  <1>3. QED
    BY <1>1, <1>2, AddType

\* The steps of the builder goroutine.
LEMMA TypeOfBuilder ==
  ASSUME TypeOK, LoopBound, Builder
  PROVE  TypeOK' /\ LoopBound'
  <1>. /\ ServerType /\ SharedType /\ BuilderType /\ WatcherType
       /\ reader \in {"idle", "blocked", "nil"} /\ omitted \subseteq SrcSections
    BY DEF TypeOK
  <1>1. CASE BuildLock
    <2>1. BuilderType' /\ SharedType'
      BY <1>1 DEF BuildLock, BuilderType, SharedType
    <2>2. QED
      BY <1>1, <2>1, Frame DEF BuildLock, TypeOK, LoopBound
  <1>2. CASE SectionsListed
    <2>1. BuilderType'
      BY <1>2, SectionsType DEF SectionsListed, BuilderType
    <2>2. omitted' \subseteq SrcSections
      BY <1>2, SectionsType DEF SectionsListed, Answered
    <2>3. QED
      BY <1>2, <2>1, <2>2, Frame DEF SectionsListed, TypeOK, LoopBound
  <1>3. CASE SectionsFailed
    <2>1. c' \in Catalogues
      <3>1. Carry(bsrc) # {} => attempt # NoCatalogue
        BY DEF Carry, SectionOrder
      <3>2. Carry(bsrc) \in SUBSET SrcSections
        BY SectionsType
      <3>3. \/ c' = c
            \/ attempt # NoCatalogue /\ c' = Add(c, Carry(bsrc), attempt.raw)
        BY <1>3, <3>1 DEF SectionsFailed
      <3>4. QED
        BY <3>2, <3>3, TypeOfListing
    <2>2. bsrc' \in 0 .. NSources
      BY <1>3, SourcesAssumption DEF SectionsFailed, BuilderType
    <2>3. BuilderType'
      BY <1>3, <2>1, <2>2 DEF SectionsFailed, BuilderType
    <2>4. ServerType'
      BY <1>3, FailsType DEF SectionsFailed
    <2>5. QED
      BY <1>3, <2>3, <2>4, Frame DEF SectionsFailed, TypeOK, LoopBound
  <1>4. CASE NextSource
    <2>1. bsrc' \in 0 .. NSources
      BY <1>4, SourcesAssumption DEF NextSource, BuilderType, LoopBound
    <2>2. BuilderType'
      BY <1>4, <2>1 DEF NextSource, BuilderType
    <2>3. QED
      BY <1>4, <2>2, Frame DEF NextSource, TypeOK, LoopBound
  <1>5. ASSUME NEW ss \in SrcSections, ItemsListed(ss) PROVE TypeOK' /\ LoopBound'
    <2>1. c' \in Catalogues
      BY <1>5, TypeOfListing DEF ItemsListed
    <2>2. BuilderType'
      BY <1>5, <2>1 DEF ItemsListed, BuilderType
    <2>3. QED
      BY <1>5, <2>2, Frame DEF ItemsListed, TypeOK, LoopBound
  <1>6. ASSUME NEW ss \in SrcSections, ItemsFailed(ss) PROVE TypeOK' /\ LoopBound'
    <2>1. c' \in Catalogues
      <3>1. \/ c' = c
            \/ attempt # NoCatalogue /\ c' = Add(c, {ss}, attempt.raw)
        BY <1>6 DEF ItemsFailed, RawOf
      <3>2. QED
        BY <3>1, TypeOfListing
    <2>2. BuilderType'
      BY <1>6, <2>1 DEF ItemsFailed, BuilderType
    <2>3. ServerType'
      <3>1. CASE lib[ss] = None
        BY <1>6, <3>1 DEF ItemsFailed, ServerType
      <3>2. CASE lib[ss] # None
        BY <1>6, <3>2, FailsType DEF ItemsFailed
      <3>3. QED
        BY <3>1, <3>2
    <2>4. QED
      BY <1>6, <2>2, <2>3, Frame DEF ItemsFailed, TypeOK, LoopBound
  <1>7. CASE BuildFailed
    <2>1. BuilderType'
      BY <1>7, TypeOfReturn DEF BuildFailed
    <2>2. SharedType'
      BY <1>7 DEF BuildFailed, BuildReturns, SharedType
    <2>3. QED
      BY <1>7, <2>1, <2>2, Frame DEF BuildFailed, BuildReturns, TypeOK, LoopBound
  <1>8. CASE BuildKept
    <2>1. BuilderType'
      BY <1>8, TypeOfReturn DEF BuildEnds, BuildKept
    <2>2. Derive(c) \in Catalogues
      BY DeriveType DEF BuilderType
    <2>3. SharedType'
      BY <1>8, <2>2 DEF BuildEnds, BuildKept, BuildReturns, SharedType
    <2>4. QED
      BY <1>8, <2>1, <2>3, Frame DEF BuildEnds, BuildKept, BuildReturns, TypeOK, LoopBound
  <1>9. CASE BuildPublished
    <2>1. BuilderType'
      BY <1>9 DEF BuildEnds, BuildPublished, BuilderType
    <2>2. Derive(c) \in Catalogues
      BY DeriveType DEF BuilderType
    <2>3. SharedType'
      BY <1>9, <2>2 DEF BuildEnds, BuildPublished, SharedType
    <2>4. QED
      BY <1>9, <2>1, <2>3, Frame DEF BuildEnds, BuildPublished, TypeOK, LoopBound
  <1>10. CASE CloseReady
    <2>1. BuilderType' /\ SharedType'
      BY <1>10 DEF CloseReady, BuilderType, SharedType
    <2>2. QED
      BY <1>10, <2>1, Frame DEF CloseReady, TypeOK, LoopBound
  <1>11. CASE ClearDirty
    <2>1. BuilderType'
      BY <1>11, TypeOfReturn DEF ClearDirty
    <2>2. SharedType'
      BY <1>11 DEF ClearDirty, BuildReturns, SharedType
    <2>3. QED
      BY <1>11, <2>1, <2>2, Frame DEF ClearDirty, BuildReturns, TypeOK, LoopBound
  <1>12. QED
    BY <1>1, <1>2, <1>3, <1>4, <1>5, <1>6, <1>7, <1>8, <1>9, <1>10, <1>11 DEF Builder

\* The steps of the watcher goroutine.
LEMMA TypeOfWatcher ==
  ASSUME TypeOK, LoopBound, Watcher
  PROVE  TypeOK' /\ LoopBound'
  <1>. /\ ServerType /\ SharedType /\ BuilderType /\ WatcherType
       /\ reader \in {"idle", "blocked", "nil"} /\ omitted \subseteq SrcSections
    BY DEF TypeOK
  <1>1. CASE Tick
    <2>1. WatcherType'
      BY <1>1, SourcesAssumption DEF Tick, WatcherType
    <2>2. QED
      BY <1>1, <2>1, Frame DEF Tick, TypeOK, LoopBound, builder
  <1>2. CASE Polled
    <2>. DEFINE moved == {ss \in Listed(wsrc) : stamps[ss] \notin {None, lib[ss]}}
    <2>1. Listed(wsrc) \subseteq SrcSections /\ SectionsOf(wsrc) \subseteq SrcSections
      BY SectionsType
    <2>2. {Title[ss] : ss \in moved} \subseteq STRING
      BY <2>1, TitlesAssumption
    <2>3. WatcherType'
      <3>1. wsrc' \in 0 .. NSources
        BY <1>2, SourcesAssumption DEF Polled, WatcherType
      <3>2. changed' \subseteq STRING
        BY <1>2, <2>2 DEF Polled, WatcherType
      <3>3. QED
        BY <1>2, <3>1, <3>2 DEF Polled, WatcherType
    <2>4. SharedType'
      <3>1. dirty' \subseteq SrcSections
        BY <1>2, <2>1 DEF Polled, SharedType
      <3>2. stamps' \in [SrcSections -> Versions \cup {None}]
        BY <1>2, <2>1 DEF Polled, SharedType, ServerType
      <3>3. QED
        BY <1>2, <3>1, <3>2 DEF Polled, SharedType
    <2>5. omitted' \subseteq SrcSections
      BY <1>2, <2>1 DEF Polled, Answered
    <2>6. QED
      BY <1>2, <2>3, <2>4, <2>5, Frame DEF Polled, TypeOK, LoopBound, builder
  <1>3. CASE PollFailed
    <2>1. WatcherType'
      BY <1>3, SourcesAssumption DEF PollFailed, WatcherType
    <2>2. ServerType'
      BY <1>3, FailsType DEF PollFailed
    <2>3. QED
      BY <1>3, <2>1, <2>2, Frame DEF PollFailed, TypeOK, LoopBound, builder
  <1>4. CASE Unchanged
    <2>1. WatcherType'
      BY <1>4, SourcesAssumption DEF Unchanged, WatcherType
    <2>2. QED
      BY <1>4, <2>1, Frame DEF Unchanged, TypeOK, LoopBound, builder
  <1>5. CASE RefreshBase
    <2>1. next' \in Catalogues
      BY <1>5 DEF RefreshBase, WatcherType, SharedType
    <2>2. wsrc' \in 0 .. NSources
      BY <1>5, SourcesAssumption DEF RefreshBase
    <2>3. WatcherType'
      BY <1>5, <2>1, <2>2 DEF RefreshBase, WatcherType
    <2>4. QED
      BY <1>5, <2>3, Frame DEF RefreshBase, TypeOK, LoopBound, builder
  <1>6. CASE RefreshLock
    <2>1. WatcherType' /\ SharedType'
      BY <1>6 DEF RefreshLock, WatcherType, SharedType
    <2>2. QED
      BY <1>6, <2>1, Frame DEF RefreshLock, TypeOK, LoopBound, builder
  <1>7. ASSUME NEW ss \in SrcSections, Relisted(ss) PROVE TypeOK' /\ LoopBound'
    <2>1. next' \in Catalogues
      BY <1>7 DEF Relisted, WatcherType, ServerType, Catalogues
    <2>2. WatcherType'
      BY <1>7, <2>1 DEF Relisted, WatcherType
    <2>3. QED
      BY <1>7, <2>2, Frame DEF Relisted, TypeOK, LoopBound, builder
  <1>8. ASSUME NEW ss \in SrcSections, RelistFailed(ss) PROVE TypeOK' /\ LoopBound'
    <2>1. WatcherType'
      BY <1>8 DEF RelistFailed, WatcherType
    <2>2. ServerType'
      <3>1. CASE lib[ss] = None
        BY <1>8, <3>1 DEF RelistFailed, ServerType
      <3>2. CASE lib[ss] # None
        BY <1>8, <3>2, FailsType DEF RelistFailed
      <3>3. QED
        BY <3>1, <3>2
    <2>3. QED
      BY <1>8, <2>1, <2>2, Frame DEF RelistFailed, TypeOK, LoopBound, builder
  <1>9. CASE RefreshPublished
    <2>1. Derive(next) \in Catalogues
      BY DeriveType DEF WatcherType
    <2>2. SharedType'
      BY <1>9, <2>1 DEF RefreshPublished, SharedType
    <2>3. WatcherType'
      BY <1>9, EmptyType DEF RefreshPublished, WatcherType
    <2>4. QED
      BY <1>9, <2>2, <2>3, Frame DEF RefreshPublished, TypeOK, LoopBound, builder
  <1>10. CASE Notify
    <2>1. WatcherType'
      BY <1>10 DEF Notify, WatcherType
    <2>2. QED
      BY <1>10, <2>1, Frame DEF Notify, TypeOK, LoopBound, builder
  <1>11. QED
    BY <1>1, <1>2, <1>3, <1>4, <1>5, <1>6, <1>7, <1>8, <1>9, <1>10 DEF Watcher

\* No step breaks a type, nor lets a build list past the last server.
LEMMA TypeStep ==
  ASSUME TypeOK, LoopBound, [Next]_vars
  PROVE  TypeOK' /\ LoopBound'
  <1>1. ASSUME NEW ss \in SrcSections, Edit(ss) \/ Withdraw(ss) PROVE TypeOK' /\ LoopBound'
    <2>1. UNCHANGED <<bpc, bsrc>>
      BY <1>1 DEF Edit, Withdraw, builder
    <2>2. QED
      BY <1>1, <2>1, TypeOfServer DEF LoopBound
  <1>2. CASE Request \/ Wake \/ GiveUp
    <2>1. UNCHANGED <<server, shared, builder, watcher, omitted>>
      BY <1>2 DEF Request, Wake, GiveUp
    <2>2. reader' \in {"idle", "blocked", "nil"}
      BY <1>2 DEF Request, Wake, GiveUp
    <2>3. QED
      BY <2>1, <2>2, Frame DEF TypeOK, LoopBound, builder
  <1>3. CASE UNCHANGED vars
    BY <1>3, Frame DEF vars, TypeOK, LoopBound, builder
  <1>4. QED
    BY <1>1, <1>2, <1>3, TypeOfBuilder, TypeOfWatcher DEF Next

\* In every behaviour, every variable keeps its type.
THEOREM TypeCorrect == Spec => []TypeOK
  <1>1. Init => TypeOK /\ LoopBound
    BY TypeInit DEF Init, LoopBound
  <1>2. TypeOK /\ LoopBound /\ [Next]_vars => (TypeOK /\ LoopBound)'
    BY TypeStep
  <1>3. QED
    BY <1>1, <1>2, PTL DEF Spec

-----------------------------------------------------------------------------
(* The lock and the recency of what is recorded.                           *)

\* After every step, buildMu is held by the goroutine whose pc says so.
LEMMA LockStep ==
  ASSUME TypeOK, LockDiscipline, [Next]_vars
  PROVE  LockDiscipline'
  <1>1. ASSUME NEW ss \in SrcSections, Edit(ss) \/ Withdraw(ss) PROVE LockDiscipline'
    BY <1>1 DEF LockDiscipline, Edit, Withdraw, shared, builder, watcher
  <1>2. CASE Builder
    <2>1. ASSUME NEW ss \in SrcSections, ItemsListed(ss) \/ ItemsFailed(ss)
          PROVE  LockDiscipline'
      BY <2>1 DEF LockDiscipline, ItemsListed, ItemsFailed, shared, watcher
    <2>2. CASE BuildLock
      BY <2>2 DEF LockDiscipline, BuildLock, watcher
    <2>3. CASE SectionsListed \/ SectionsFailed \/ NextSource
      BY <2>3 DEF LockDiscipline, SectionsListed, SectionsFailed, NextSource, shared, watcher
    <2>4. CASE BuildFailed \/ BuildKept \/ ClearDirty
      BY <2>4 DEF LockDiscipline, BuildFailed, BuildEnds, BuildKept, ClearDirty, BuildReturns, watcher
    <2>5. CASE BuildPublished \/ CloseReady
      BY <2>5 DEF LockDiscipline, BuildEnds, BuildPublished, CloseReady, watcher
    <2>6. QED
      BY <1>2, <2>1, <2>2, <2>3, <2>4, <2>5 DEF Builder
  <1>3. CASE Watcher
    <2>1. ASSUME NEW ss \in SrcSections, Relisted(ss) \/ RelistFailed(ss)
          PROVE  LockDiscipline'
      BY <2>1 DEF LockDiscipline, Relisted, RelistFailed, shared, builder
    <2>2. CASE Tick \/ Polled \/ PollFailed \/ Unchanged \/ RefreshBase \/ Notify
      BY <2>2 DEF LockDiscipline, Tick, Polled, PollFailed, Unchanged, RefreshBase, Notify,
                  shared, builder
    <2>3. CASE RefreshLock \/ RefreshPublished
      BY <2>3 DEF LockDiscipline, RefreshLock, RefreshPublished, builder
    <2>4. QED
      BY <1>3, <2>1, <2>2, <2>3 DEF Watcher
  <1>4. CASE Request \/ Wake \/ GiveUp
    BY <1>4 DEF LockDiscipline, Request, Wake, GiveUp, shared, builder, watcher
  <1>5. CASE UNCHANGED vars
    BY <1>5 DEF LockDiscipline, vars, shared, builder, watcher
  <1>6. QED
    BY <1>1, <1>2, <1>3, <1>4, <1>5 DEF Next

\* Versions are ordered like the integers they are.
LEMMA RawBounds ==
  ASSUME TypeOK, NEW d \in Catalogues, NEW ss \in SrcSections
  PROVE  /\ d.raw[ss] \in Int /\ d.raw[ss] >= -1
         /\ lib[ss] \in Int /\ lib[ss] >= -1 /\ clock \in Nat
  <1>1. Versions \cup {None} \subseteq {i \in Int : i >= -1} /\ Versions \subseteq Nat
    BY SourcesAssumption DEF Versions, None
  <1>2. d.raw[ss] \in Versions \cup {None}
    BY DEF Catalogues
  <1>3. lib[ss] \in Versions \cup {None} /\ clock \in Versions
    BY DEF TypeOK, ServerType
  <1>4. QED
    BY <1>1, <1>2, <1>3

\* A build that has listed nothing records nothing.
LEMMA RecordedEmpty ==
  ASSUME TypeOK
  PROVE  Recorded(EmptyCatalogue)
  <1>. SUFFICES ASSUME NEW ss \in SrcSections
                PROVE  /\ EmptyCatalogue.raw[ss] <= clock
                       /\ lib[ss] # None => EmptyCatalogue.raw[ss] <= lib[ss]
                       /\ ss \notin EmptyCatalogue.order
    BY DEF Recorded
  <1>1. EmptyCatalogue.raw[ss] = -1 /\ EmptyCatalogue.order = {}
    BY DEF EmptyCatalogue, None
  <1>2. lib[ss] \in Int /\ lib[ss] >= -1 /\ clock \in Nat
    BY EmptyType, RawBounds
  <1>3. QED
    BY <1>1, <1>2

\* Deriving the tree leaves the listings it is derived from alone.
LEMMA RecordedDerive ==
  ASSUME NEW d \in Catalogues, Recorded(d)
  PROVE  Recorded(Derive(d))
  BY DeriveType DEF Recorded

\* Listings no newer than the servers are entered into a catalogue.
LEMMA RecordedAdd ==
  ASSUME NEW d \in Catalogues, Recorded(d),
         NEW S \in SUBSET SrcSections,
         NEW raw \in [SrcSections -> Versions \cup {None}],
         \A ss \in S : /\ raw[ss] # None
                       /\ raw[ss] <= clock
                       /\ lib[ss] # None => raw[ss] <= lib[ss]
  PROVE  Recorded(Add(d, S, raw))
  <1>. SUFFICES ASSUME NEW ss \in SrcSections
                PROVE  /\ Add(d, S, raw).raw[ss] <= clock
                       /\ lib[ss] # None => Add(d, S, raw).raw[ss] <= lib[ss]
                       /\ ss \in Add(d, S, raw).order => Add(d, S, raw).raw[ss] # None
    BY DEF Recorded
  <1>1. /\ Add(d, S, raw).order = d.order \cup S
        /\ Add(d, S, raw).raw[ss] = IF ss \in S THEN raw[ss] ELSE d.raw[ss]
    BY AddType
  <1>2. /\ d.raw[ss] <= clock
        /\ lib[ss] # None => d.raw[ss] <= lib[ss]
        /\ ss \in d.order => d.raw[ss] # None
    BY DEF Recorded
  <1>3. QED
    BY <1>1, <1>2

\* A step of the FS leaves the servers alone: only the catalogues it makes need a look.
LEMMA RecencyFrame ==
  ASSUME Recency, UNCHANGED <<lib, clock>>,
         Recorded(cur'), Recorded(attempt'), Recorded(c'), Recorded(next')
  PROVE  Recency'
  BY DEF Recency, Recorded

\* A change on a server only moves its own section ahead of what is recorded.
LEMMA RecencyEdit ==
  ASSUME TypeOK, Recency, NEW ss \in SrcSections, Edit(ss) \/ Withdraw(ss)
  PROVE  Recency'
  <1>1. /\ clock \in Nat /\ clock' = clock + 1
        /\ \A t \in SrcSections : lib'[t] \in {lib[t], None, clock + 1}
    BY EmptyType, RawBounds DEF Edit, Withdraw, TypeOK, ServerType
  <1>2. \A t \in SrcSections : lib[t] \in Int /\ lib[t] <= clock
    BY EmptyType, RawBounds DEF Recency
  <1>3. ASSUME NEW d \in Catalogues, Recorded(d), NEW t \in SrcSections
        PROVE  /\ d.raw[t] <= clock'
               /\ lib'[t] # None => d.raw[t] <= lib'[t]
               /\ t \in d.order => d.raw[t] # None
    <2>1. /\ d.raw[t] \in Int
          /\ d.raw[t] <= clock
          /\ lib[t] # None => d.raw[t] <= lib[t]
          /\ t \in d.order => d.raw[t] # None
      BY <1>3, RawBounds DEF Recorded
    <2>2. QED
      BY <2>1, <1>1, <1>2
  <1>4. UNCHANGED <<cur, attempt, c, next>>
    BY DEF Edit, Withdraw, shared, builder, watcher
  <1>5. \A t \in SrcSections : lib'[t] <= clock'
    BY <1>1, <1>2 DEF None
  <1>6. Recorded(cur)' /\ Recorded(attempt)' /\ Recorded(c)' /\ Recorded(next)'
    BY <1>3, <1>4 DEF Recency, Recorded
  <1>7. QED
    BY <1>5, <1>6 DEF Recency

\* After every step, no catalogue is ahead of the servers.
LEMMA RecencyStep ==
  ASSUME TypeOK, Recency, [Next]_vars
  PROVE  Recency'
  <1>. /\ Recorded(cur) /\ Recorded(attempt) /\ Recorded(c) /\ Recorded(next)
       /\ c \in Catalogues /\ next \in Catalogues
       /\ lib \in [SrcSections -> Versions \cup {None}]
    BY DEF Recency, TypeOK, BuilderType, WatcherType, ServerType
  <1>1. ASSUME NEW ss \in SrcSections, Edit(ss) \/ Withdraw(ss) PROVE Recency'
    BY <1>1, RecencyEdit
  <1>2. ASSUME NEW S \in SUBSET SrcSections, attempt # NoCatalogue,
               \A ss \in S : RawOf(attempt, ss) # None
        PROVE  Recorded(Add(c, S, attempt.raw))
    <2>1. attempt \in Catalogues /\ attempt.raw \in [SrcSections -> Versions \cup {None}]
      BY <1>2 DEF TypeOK, SharedType, Catalogues
    <2>2. \A ss \in S : attempt.raw[ss] # None
      BY <1>2 DEF RawOf
    <2>3. \A ss \in SrcSections : /\ attempt.raw[ss] <= clock
                                  /\ lib[ss] # None => attempt.raw[ss] <= lib[ss]
      BY <2>1 DEF Recorded
    <2>4. QED
      BY <2>1, <2>2, <2>3, RecordedAdd
  <1>3. CASE Builder
    <2>1. CASE SectionsFailed
      <3>1. Carry(bsrc) # {} => attempt # NoCatalogue
        BY DEF Carry, SectionOrder
      <3>2. /\ Carry(bsrc) \in SUBSET SrcSections
            /\ \A ss \in Carry(bsrc) : RawOf(attempt, ss) # None
        BY SectionsType DEF Carry
      <3>3. Recorded(c')
        BY <2>1, <3>1, <3>2, <1>2 DEF SectionsFailed
      <3>4. QED
        BY <2>1, <3>3, RecencyFrame DEF SectionsFailed, shared, watcher
    <2>2. ASSUME NEW ss \in SrcSections, ItemsListed(ss) PROVE Recency'
      <3>1. lib[ss] # None /\ lib[ss] <= clock
        BY <2>2 DEF ItemsListed, Recency
      <3>2. lib[ss] <= lib[ss]
        BY EmptyType, RawBounds
      <3>3. Recorded(Add(c, {ss}, lib))
        BY <3>1, <3>2, RecordedAdd
      <3>4. QED
        BY <2>2, <3>3, RecencyFrame DEF ItemsListed, server, shared, watcher
    <2>3. ASSUME NEW ss \in SrcSections, ItemsFailed(ss) PROVE Recency'
      <3>1. RawOf(attempt, ss) # None => Recorded(Add(c, {ss}, attempt.raw))
        BY <1>2 DEF RawOf
      <3>2. Recorded(c')
        BY <2>3, <3>1 DEF ItemsFailed
      <3>3. QED
        BY <2>3, <3>2, RecencyFrame DEF ItemsFailed, shared, watcher
    <2>4. CASE BuildLock \/ SectionsListed \/ NextSource \/ CloseReady
      BY <2>4, RecencyFrame DEF BuildLock, SectionsListed, NextSource, CloseReady,
                                server, shared, watcher
    <2>5. CASE BuildFailed \/ BuildKept \/ BuildPublished \/ ClearDirty
      <3>1. /\ c' = c \/ c' = EmptyCatalogue
            /\ attempt' = attempt \/ attempt' = Derive(c)
            /\ cur' = cur \/ cur' = Derive(c)
            /\ UNCHANGED <<lib, clock, next>>
        BY <2>5 DEF BuildFailed, BuildEnds, BuildKept, BuildPublished, ClearDirty, BuildReturns,
                    server, watcher
      <3>2. QED
        BY <3>1, RecordedEmpty, RecordedDerive, RecencyFrame
    <2>6. QED
      BY <1>3, <2>1, <2>2, <2>3, <2>4, <2>5 DEF Builder
  <1>4. CASE Watcher
    <2>1. ASSUME NEW ss \in SrcSections, Relisted(ss) PROVE Recency'
      <3>1. lib[ss] # None /\ lib[ss] <= clock /\ lib[ss] <= lib[ss]
        BY <2>1, EmptyType, RawBounds DEF Relisted, Recency
      <3>2. /\ next'.order = next.order
            /\ \A t \in SrcSections :
                 next'.raw[t] = IF t = ss THEN lib[ss] ELSE next.raw[t]
        BY <2>1 DEF Relisted, Catalogues
      <3>3. Recorded(next')
        BY <3>1, <3>2 DEF Recorded
      <3>4. QED
        BY <2>1, <3>3, RecencyFrame DEF Relisted, server, shared, builder
    <2>2. ASSUME NEW ss \in SrcSections, RelistFailed(ss) PROVE Recency'
      BY <2>2, RecencyFrame DEF RelistFailed, shared, builder
    <2>3. CASE Tick \/ Polled \/ PollFailed \/ Unchanged \/ RefreshBase \/ RefreshLock \/ Notify
      <3>1. UNCHANGED <<lib, clock, cur, attempt, c>> /\ next' \in {next, cur}
        BY <2>3 DEF Tick, Polled, PollFailed, Unchanged, RefreshBase, RefreshLock, Notify,
                    server, shared, builder
      <3>2. QED
        BY <3>1, RecencyFrame
    <2>4. CASE RefreshPublished
      <3>1. /\ cur' = Derive(next) /\ attempt' = Derive(next) /\ next' = EmptyCatalogue
            /\ UNCHANGED <<lib, clock, c>>
        BY <2>4 DEF RefreshPublished, server, builder
      <3>2. QED
        BY <3>1, RecordedEmpty, RecordedDerive, RecencyFrame
    <2>5. QED
      BY <1>4, <2>1, <2>2, <2>3, <2>4 DEF Watcher
  <1>5. CASE Request \/ Wake \/ GiveUp \/ UNCHANGED vars
    BY <1>5, RecencyFrame DEF Request, Wake, GiveUp, vars, server, shared, builder, watcher
  <1>6. QED
    BY <1>1, <1>3, <1>4, <1>5 DEF Next

-----------------------------------------------------------------------------
(* What a build and its fallback hold.                                     *)

\* The history of omissions only grows.
LEMMA OmittedGrows ==
  ASSUME [Next]_vars
  PROVE  omitted \subseteq omitted'
  BY DEF Next, vars, Edit, Withdraw, Builder, Watcher, BuildLock, SectionsListed, SectionsFailed,
         ItemsListed, ItemsFailed, NextSource, BuildFailed, BuildEnds, BuildKept, BuildPublished,
         CloseReady, ClearDirty, Answered, Tick, Polled, PollFailed, Unchanged, RefreshBase,
         RefreshLock, Relisted, RelistFailed, RefreshPublished, Notify, Request, Wake, GiveUp

\* What a catalogue that may be nil records is an integer.
LEMMA RawInt ==
  ASSUME NEW d \in Catalogues \cup {NoCatalogue}, NEW ss \in SrcSections
  PROVE  RawOf(d, ss) \in Int
  BY SourcesAssumption, RawType DEF Versions, None

\* A build that visited every server covers the attempt before it, and so
\* what is served.
LEMMA BuildCovers ==
  ASSUME IInv, bpc = "sections", bsrc = NSources
  PROVE  /\ Covers(Derive(c), attempt)
         /\ Covers(Derive(c), cur)
         /\ ~missing /\ ~carried => SrcSections \ omitted \subseteq SectionOrder(Derive(c))
  <1>. /\ c \in Catalogues
       /\ attempt \in Catalogues \cup {NoCatalogue}
       /\ cur \in Catalogues \cup {NoCatalogue}
    BY DEF IInv, TypeOK, BuilderType, SharedType
  <1>1. \A ss \in SrcSections : Processed(ss)
    BY SourcesAssumption DEF Processed
  <1>2. /\ Derive(c) \in Catalogues
        /\ SectionOrder(Derive(c)) = c.order
        /\ \A ss \in SrcSections : RawOf(Derive(c), ss) = c.raw[ss]
    BY DeriveType, NoCatalogueAssumption DEF SectionOrder, RawOf
  <1>3. Covers(Derive(c), attempt)
    BY <1>1, <1>2, OrderType DEF IInv, BuildCover, Covers
  <1>4. ASSUME NEW ss \in SectionOrder(cur) \ omitted
        PROVE  ss \in SectionOrder(Derive(c)) /\ RawOf(Derive(c), ss) >= RawOf(cur, ss)
    <2>1. ss \in SrcSections
      BY OrderType
    <2>2. ss \in SectionOrder(attempt) /\ RawOf(attempt, ss) >= RawOf(cur, ss)
      BY DEF IInv, ServedIsBacked, Covers
    <2>3. ss \in SectionOrder(Derive(c)) /\ RawOf(Derive(c), ss) >= RawOf(attempt, ss)
      BY <2>2, <1>3 DEF Covers
    <2>4. /\ RawOf(cur, ss) \in Int /\ RawOf(attempt, ss) \in Int
          /\ RawOf(Derive(c), ss) \in Int
      BY <2>1, <1>2, RawInt
    <2>5. QED
      BY <2>2, <2>3, <2>4
  <1>5. ~missing /\ ~carried => SrcSections \ omitted \subseteq SectionOrder(Derive(c))
    BY <1>1, <1>2 DEF IInv, BuildWhole
  <1>6. QED
    BY <1>3, <1>4, <1>5 DEF Covers

\* A catalogue covers itself.
LEMMA CoversItself ==
  ASSUME NEW d \in Catalogues \cup {NoCatalogue}
  PROVE  Covers(d, d)
  <1>. SUFFICES ASSUME NEW ss \in SectionOrder(d) \ omitted
                PROVE  RawOf(d, ss) >= RawOf(d, ss)
    BY DEF Covers
  <1>1. RawOf(d, ss) \in Int
    BY OrderType, RawInt
  <1>2. QED
    BY <1>1

\* The steps that replace cur or attempt.
LEMMA WhoPublishes ==
  ASSUME [Next]_vars
  PROVE  \/ UNCHANGED <<cur, attempt>>
         \/ BuildKept
         \/ BuildPublished
         \/ RefreshPublished
  BY DEF Next, vars, shared, Edit, Withdraw, Builder, Watcher, BuildLock, SectionsListed,
         SectionsFailed, ItemsListed, ItemsFailed, NextSource, BuildFailed,
         CloseReady, ClearDirty, Tick, Polled, PollFailed, Unchanged, RefreshBase,
         RefreshLock, Relisted, RelistFailed, Notify, Request, Wake, GiveUp

\* After every step, what a failing build would fall back on covers what is served.
LEMMA BackedStep ==
  ASSUME IInv, TypeOK', [Next]_vars
  PROVE  ServedIsBacked'
  <1>1. omitted \subseteq omitted'
    BY OmittedGrows
  <1>2. CASE UNCHANGED <<cur, attempt>>
    BY <1>1, <1>2 DEF IInv, ServedIsBacked, Covers
  <1>3. CASE BuildKept
    <2>1. Covers(Derive(c), cur)
      BY <1>3, BuildCovers DEF BuildEnds, BuildKept
    <2>2. attempt' = Derive(c) /\ cur' = cur
      BY <1>3 DEF BuildEnds, BuildKept
    <2>3. QED
      BY <2>1, <2>2, <1>1 DEF ServedIsBacked, Covers
  <1>4. CASE BuildPublished \/ RefreshPublished
    <2>1. attempt' = cur'
      BY <1>4 DEF BuildEnds, BuildPublished, RefreshPublished
    <2>2. cur' \in Catalogues \cup {NoCatalogue}
      BY DEF TypeOK, SharedType
    <2>3. Covers(cur', cur')
      BY <2>2, CoversItself
    <2>4. QED
      BY <2>1, <2>3, <1>1 DEF ServedIsBacked, Covers
  <1>5. QED
    BY <1>2, <1>3, <1>4, WhoPublishes

\* Sections a build is past stay so until it moves on: a step that leaves
\* the build and its fallback alone keeps what is known of it.
LEMMA CoverFrame ==
  ASSUME IInv, [Next]_vars, UNCHANGED <<builder, cur, attempt>>
  PROVE  BuildCover' /\ BuildWhole'
  <1>1. omitted \subseteq omitted'
    BY OmittedGrows
  <1>2. BuildCover'
    BY <1>1 DEF IInv, BuildCover, Processed, builder, SectionOrder, RawOf
  <1>3. BuildWhole'
    BY <1>1 DEF IInv, BuildWhole, Processed, builder, SectionOrder
  <1>4. QED
    BY <1>2, <1>3

\* What ItemsListed, ItemsFailed and SectionsFailed add is recorded with it.
LEMMA CoverAdd ==
  ASSUME IInv, UNCHANGED attempt,
         NEW S \in SUBSET SrcSections,
         NEW raw \in [SrcSections -> Versions \cup {None}],
         c' = Add(c, S, raw),
         \A ss \in S : ss \in SectionOrder(attempt) => raw[ss] >= RawOf(attempt, ss),
         \A ss \in SectionOrder(attempt) \ omitted' :
           Processed(ss)' => Processed(ss) \/ ss \in S,
         omitted \subseteq omitted'
  PROVE  BuildCover'
  <1>. SUFFICES ASSUME NEW ss \in SectionOrder(attempt) \ omitted', Processed(ss)'
                PROVE  ss \in c'.order /\ c'.raw[ss] >= RawOf(attempt, ss)
    BY DEF BuildCover, SectionOrder, RawOf
  <1>1. ss \in SrcSections /\ c \in Catalogues
    BY OrderType DEF IInv, TypeOK, SharedType, BuilderType
  <1>2. /\ c'.order = c.order \cup S
        /\ c'.raw[ss] = IF ss \in S THEN raw[ss] ELSE c.raw[ss]
    BY <1>1, AddType
  <1>3. CASE ss \in S
    BY <1>2, <1>3
  <1>4. CASE ss \notin S
    <2>1. ss \in c.order /\ c.raw[ss] >= RawOf(attempt, ss)
      BY <1>4 DEF IInv, BuildCover
    <2>2. QED
      BY <1>2, <1>4, <2>1
  <1>5. QED
    BY <1>3, <1>4

\* What a build under way covers, after a step of the builder.
LEMMA CoverBuilder ==
  ASSUME IInv, [Next]_vars, Builder
  PROVE  BuildCover' /\ BuildWhole'
  <1>. /\ ServerType /\ SharedType /\ BuilderType
       /\ lib \in [SrcSections -> Versions \cup {None}]
       /\ LoopBound /\ BuildCover /\ BuildWhole
       /\ omitted \subseteq omitted'
    BY OmittedGrows DEF IInv, TypeOK, ServerType
  <1>a. \A ss \in SectionOrder(attempt) : ss \in SrcSections /\ RawOf(attempt, ss) # None
    BY OrderType DEF IInv, Recency, Recorded, SharedType, SectionOrder, RawOf
  <1>b. attempt # NoCatalogue => attempt.raw \in [SrcSections -> Versions \cup {None}]
    BY DEF SharedType, Catalogues
  <1>c. \A ss \in SrcSections : Src[ss] \in Int /\ 0 <= Src[ss]
    BY SourcesAssumption
  <1>1. CASE BuildLock
    <2>1. \A ss \in SrcSections : ~Processed(ss)'
      BY <1>1, <1>c DEF BuildLock, LoopBound, Processed
    <2>2. QED
      BY <1>1, <1>a, <2>1 DEF BuildLock, BuildCover, BuildWhole
  <1>2. CASE SectionsListed
    <2>1. \A ss \in SrcSections \ omitted' : Processed(ss)' => Processed(ss)
      BY <1>2 DEF SectionsListed, Answered, Listed, SectionsOf, Processed
    <2>2. UNCHANGED <<c, attempt, missing, carried>> /\ bpc' = "items"
      BY <1>2 DEF SectionsListed, shared
    <2>3. BuildCover'
      BY <1>a, <2>1, <2>2 DEF BuildCover, SectionOrder, RawOf
    <2>4. BuildWhole'
      BY <2>1, <2>2 DEF BuildWhole
    <2>5. QED
      BY <2>3, <2>4
  <1>3. CASE SectionsFailed
    <2>1. missing' \/ carried'
      BY <1>3 DEF SectionsFailed
    <2>2. \A ss \in SectionOrder(attempt) \ omitted' :
            Processed(ss)' => Processed(ss) \/ ss \in Carry(bsrc)
      BY <1>3, <1>a, <1>c DEF SectionsFailed, Carry, SectionsOf, Processed, BuilderType
    <2>3. BuildCover'
      <3>1. CASE Carry(bsrc) = {}
        <4>1. UNCHANGED <<c, attempt>>
          BY <1>3, <3>1 DEF SectionsFailed, shared
        <4>2. QED
          BY <2>2, <3>1, <4>1 DEF BuildCover, SectionOrder, RawOf
      <3>2. CASE Carry(bsrc) # {}
        <4>1. attempt # NoCatalogue /\ Carry(bsrc) \in SUBSET SrcSections
          BY <3>2, SectionsType DEF Carry, SectionOrder
        <4>2. \A ss \in Carry(bsrc) : attempt.raw[ss] >= RawOf(attempt, ss)
          BY <4>1, RawInt DEF SharedType, RawOf
        <4>3. c' = Add(c, Carry(bsrc), attempt.raw) /\ UNCHANGED attempt
          BY <1>3, <3>2 DEF SectionsFailed, shared
        <4>4. QED
          BY <4>1, <4>2, <4>3, <1>b, <2>2, CoverAdd
      <3>3. QED
        BY <3>1, <3>2
    <2>4. QED
      BY <2>1, <2>3 DEF BuildWhole
  <1>4. CASE NextSource
    <2>1. \A ss \in SrcSections : Processed(ss)' => Processed(ss)
      BY <1>4, <1>c DEF NextSource, Processed, BuilderType
    <2>2. UNCHANGED <<c, attempt, missing, carried>> /\ bpc' = "sections"
      BY <1>4 DEF NextSource, shared
    <2>3. BuildCover'
      BY <1>a, <2>1, <2>2 DEF BuildCover, SectionOrder, RawOf
    <2>4. BuildWhole'
      BY <2>1, <2>2 DEF BuildWhole
    <2>5. QED
      BY <2>3, <2>4
  <1>5. ASSUME NEW ss \in SrcSections, ItemsListed(ss) PROVE BuildCover' /\ BuildWhole'
    <2>1. \A t \in SrcSections : Processed(t)' => Processed(t) \/ t = ss
      BY <1>5 DEF ItemsListed, Processed
    <2>2. c' = Add(c, {ss}, lib) /\ UNCHANGED <<attempt, missing, carried>> /\ bpc' = "items"
      BY <1>5 DEF ItemsListed, shared
    <2>3. ss \in SectionOrder(attempt) => lib[ss] >= RawOf(attempt, ss)
      <3>1. SUFFICES ASSUME ss \in SectionOrder(attempt)
                     PROVE  lib[ss] >= RawOf(attempt, ss)
        OBVIOUS
      <3>2. attempt \in Catalogues /\ RawOf(attempt, ss) = attempt.raw[ss]
        BY <3>1 DEF SectionOrder, RawOf, SharedType
      <3>3. attempt.raw[ss] <= lib[ss]
        BY <1>5, <3>2 DEF ItemsListed, IInv, Recency, Recorded
      <3>4. attempt.raw[ss] \in Int /\ lib[ss] \in Int
        BY <3>2, RawBounds DEF IInv
      <3>5. QED
        BY <3>2, <3>3, <3>4
    <2>4. BuildCover'
      BY <1>a, <2>1, <2>2, <2>3, CoverAdd
    <2>5. c'.order = c.order \cup {ss}
      BY <2>2, AddType DEF BuilderType
    <2>6. BuildWhole'
      BY <2>1, <2>2, <2>5 DEF BuildWhole
    <2>7. QED
      BY <2>4, <2>6
  <1>6. ASSUME NEW ss \in SrcSections, ItemsFailed(ss) PROVE BuildCover' /\ BuildWhole'
    <2>1. missing' \/ carried'
      BY <1>6 DEF ItemsFailed
    <2>2. \A t \in SrcSections : Processed(t)' => Processed(t) \/ t = ss
      BY <1>6 DEF ItemsFailed, Processed
    <2>3. BuildCover'
      <3>1. CASE RawOf(attempt, ss) = None
        <4>1. UNCHANGED <<c, attempt>> /\ ss \notin SectionOrder(attempt)
          BY <1>6, <3>1, <1>a DEF ItemsFailed, shared
        <4>2. QED
          BY <1>a, <2>2, <4>1 DEF BuildCover, SectionOrder, RawOf
      <3>2. CASE RawOf(attempt, ss) # None
        <4>1. attempt # NoCatalogue
          BY <3>2 DEF RawOf
        <4>2. attempt.raw[ss] >= RawOf(attempt, ss)
          BY <4>1, RawInt DEF SharedType, RawOf
        <4>3. c' = Add(c, {ss}, attempt.raw) /\ UNCHANGED attempt
          BY <1>6, <3>2 DEF ItemsFailed, shared
        <4>4. QED
          BY <4>1, <4>2, <4>3, <1>a, <1>b, <2>2, CoverAdd
      <3>3. QED
        BY <3>1, <3>2
    <2>4. QED
      BY <2>1, <2>3 DEF BuildWhole
  <1>7. CASE BuildFailed \/ BuildKept \/ ClearDirty
    <2>1. bpc' \notin {"sections", "items", "ready", "clear"}
      BY <1>7 DEF BuildFailed, BuildEnds, BuildKept, ClearDirty, BuildReturns
    <2>2. QED
      BY <2>1 DEF BuildCover, BuildWhole, Processed
  <1>8. CASE BuildPublished
    <2>1. bpc' = "ready" /\ cur' = Derive(c) /\ UNCHANGED <<missing, carried>>
      BY <1>8 DEF BuildEnds, BuildPublished
    <2>2. ~missing /\ ~carried => SrcSections \ omitted \subseteq SectionOrder(Derive(c))
      BY <1>8, BuildCovers DEF BuildEnds, BuildPublished
    <2>3. SectionOrder(cur)' = SectionOrder(Derive(c))
      BY <2>1 DEF SectionOrder
    <2>4. QED
      BY <2>1, <2>2, <2>3 DEF BuildCover, BuildWhole, Processed
  <1>9. CASE CloseReady
    <2>1. bpc = "ready" /\ bpc' = "clear" /\ UNCHANGED <<cur, missing, carried>>
      BY <1>9 DEF CloseReady
    <2>2. QED
      BY <2>1 DEF BuildCover, BuildWhole, Processed, SectionOrder
  <1>10. QED
    BY <1>1, <1>2, <1>3, <1>4, <1>5, <1>6, <1>7, <1>8, <1>9 DEF Builder

\* What a build under way covers, after any step.
LEMMA CoverStep ==
  ASSUME IInv, [Next]_vars
  PROVE  BuildCover' /\ BuildWhole'
  <1>1. CASE Builder
    BY <1>1, CoverBuilder
  <1>2. CASE RefreshPublished
    <2>1. bpc \notin {"sections", "items", "ready", "clear"}
      BY <1>2 DEF RefreshPublished, IInv, LockDiscipline
    <2>2. UNCHANGED builder
      BY <1>2 DEF RefreshPublished
    <2>3. QED
      BY <2>1, <2>2 DEF BuildCover, BuildWhole, Processed, builder
  <1>3. CASE UNCHANGED <<builder, cur, attempt>>
    BY <1>3, CoverFrame
  <1>4. Builder \/ RefreshPublished \/ UNCHANGED <<builder, cur, attempt>>
    BY DEF Next, vars, shared, Edit, Withdraw, Watcher, Tick, Polled, PollFailed, Unchanged,
           RefreshBase, RefreshLock, Relisted, RelistFailed, Notify, Request, Wake, GiveUp
  <1>5. QED
    BY <1>1, <1>2, <1>3, <1>4

-----------------------------------------------------------------------------
(* The invariant and what follows from it.                                 *)

\* The invariant holds when the program starts.
LEMMA InvInit == Init => IInv
  <1>. SUFFICES ASSUME Init PROVE IInv
    OBVIOUS
  <1>1. TypeOK /\ LoopBound
    BY TypeInit DEF Init, LoopBound
  <1>2. LockDiscipline
    BY DEF Init, LockDiscipline
  <1>3. Recency
    <2>1. \A ss \in SrcSections : lib[ss] <= clock
      BY DEF Init, None
    <2>2. Recorded(c) /\ Recorded(next)
      BY <1>1, RecordedEmpty DEF Init
    <2>3. Recorded(cur) /\ Recorded(attempt)
      BY NoCatalogueAssumption DEF Init, Recorded
    <2>4. QED
      BY <2>1, <2>2, <2>3 DEF Recency
  <1>4. ServedIsBacked /\ BuildCover
    BY DEF Init, ServedIsBacked, Covers, BuildCover, SectionOrder
  <1>5. BuildWhole
    BY DEF Init, BuildWhole, Processed
  <1>6. QED
    BY <1>1, <1>2, <1>3, <1>4, <1>5 DEF IInv

\* Every step preserves the invariant.
LEMMA InvStep == IInv /\ [Next]_vars => IInv'
  <1>. SUFFICES ASSUME IInv, [Next]_vars PROVE IInv'
    OBVIOUS
  <1>1. TypeOK' /\ LoopBound'
    BY TypeStep DEF IInv
  <1>2. LockDiscipline' /\ Recency'
    BY LockStep, RecencyStep DEF IInv
  <1>3. ServedIsBacked'
    BY <1>1, BackedStep
  <1>4. BuildCover' /\ BuildWhole'
    BY CoverStep
  <1>5. QED
    BY <1>1, <1>2, <1>3, <1>4 DEF IInv

\* Every behaviour satisfies the inductive invariant.
THEOREM Invariance == Spec => []IInv
  BY InvInit, InvStep, PTL DEF Spec

\* FS.attempt never falls behind what is served.
THEOREM ServedAlwaysBacked == Spec => []ServedIsBacked
  <1>1. IInv => ServedIsBacked
    BY DEF IInv
  <1>2. QED
    BY <1>1, Invariance, PTL

\* What FS.Build publishes covers what was served until then.
THEOREM BuildsNeverGoBack == Spec => BuildNeverGoesBack
  <1>1. IInv /\ [Next]_vars => [bpc' = "ready" => Covers(cur', cur)]_vars
    <2>. SUFFICES ASSUME IInv, [Next]_vars, bpc' = "ready" PROVE Covers(cur', cur)
      OBVIOUS
    <2>1. CASE BuildPublished
      <3>1. cur' = Derive(c) /\ bpc = "sections" /\ bsrc = NSources
        BY <2>1 DEF BuildEnds, BuildPublished
      <3>2. QED
        BY <3>1, BuildCovers
    <2>2. CASE UNCHANGED cur
      BY <2>2, CoversItself DEF IInv, TypeOK, SharedType
    <2>3. ~RefreshPublished
      BY DEF RefreshPublished, IInv, LockDiscipline, builder
    <2>4. BuildPublished \/ UNCHANGED cur
      BY <2>3, WhoPublishes DEF BuildEnds, BuildKept
    <2>5. QED
      BY <2>1, <2>2, <2>4
  <1>2. QED
    BY <1>1, Invariance, PTL DEF Spec, BuildNeverGoesBack

\* The builder goroutine ends with every section in what is served.
THEOREM BuilderQuitsWhole == Spec => QuitsWhole
  <1>1. IInv /\ [Next]_vars =>
          [bpc' = "done" /\ bpc # "done" =>
             SrcSections \ omitted' \subseteq SectionOrder(cur')]_vars
    <2>. SUFFICES ASSUME IInv, [Next]_vars, bpc' = "done", bpc # "done"
                  PROVE  SrcSections \ omitted' \subseteq SectionOrder(cur')
      OBVIOUS
    <2>1. ClearDirty
      BY DEF Next, vars, builder, Edit, Withdraw, Builder, Watcher, BuildLock, SectionsListed,
             SectionsFailed, ItemsListed, ItemsFailed, NextSource, BuildFailed, BuildEnds, BuildKept,
             BuildPublished, BuildReturns, CloseReady, Tick, Polled, PollFailed, Unchanged,
             RefreshBase, RefreshLock, Relisted, RelistFailed, RefreshPublished, Notify,
             Request, Wake, GiveUp
    <2>2. ~missing /\ ~carried /\ bpc = "clear" /\ UNCHANGED <<cur, omitted>>
      BY <2>1 DEF ClearDirty, BuildReturns
    <2>3. QED
      BY <2>2 DEF IInv, BuildWhole
  <1>2. QED
    BY <1>1, Invariance, PTL DEF Spec, QuitsWhole

-----------------------------------------------------------------------------
(* Waiting requests.                                                       *)

\* A catalogue that was derived is not the nil one.
LEMMA DerivedNotNil ==
  ASSUME NEW d \in Catalogues
  PROVE  Derive(d) # NoCatalogue
  BY DeriveType, NoCatalogueAssumption

\* After every step, what the channel lets requests read is there.
LEMMA NilStep ==
  ASSUME TypeOK, NilInv, [Next]_vars
  PROVE  NilInv'
  <1>. c \in Catalogues /\ next \in Catalogues
    BY DEF TypeOK, BuilderType, WatcherType
  <1>1. CASE BuildPublished \/ RefreshPublished
    <2>1. (cur' = Derive(c) \/ cur' = Derive(next)) /\ UNCHANGED reader
      BY <1>1 DEF BuildEnds, BuildPublished, RefreshPublished
    <2>2. QED
      BY <2>1, DerivedNotNil DEF NilInv, NilNeverServed
  <1>2. CASE Wake
    BY <1>2 DEF Wake, NilInv, NilNeverServed, shared, builder
  <1>3. CASE CloseReady
    BY <1>3 DEF CloseReady, NilInv, NilNeverServed
  <1>4. CASE /\ UNCHANGED <<cur, ready>>
             /\ bpc' = "ready" => bpc = "ready"
             /\ reader' = reader \/ reader' # "nil"
    BY <1>4 DEF NilInv, NilNeverServed
  <1>5. \/ BuildPublished \/ RefreshPublished \/ Wake \/ CloseReady
        \/ /\ UNCHANGED <<cur, ready>>
           /\ bpc' = "ready" => bpc = "ready"
           /\ reader' = reader \/ reader' # "nil"
    BY DEF Next, vars, shared, builder, Edit, Withdraw, Builder, Watcher, BuildLock,
           SectionsListed, SectionsFailed, ItemsListed, ItemsFailed, NextSource, BuildFailed,
           BuildEnds, BuildKept, BuildReturns, ClearDirty, Tick, Polled, PollFailed, Unchanged,
           RefreshBase, RefreshLock, Relisted, RelistFailed, Notify, Request, GiveUp
  <1>6. QED
    BY <1>1, <1>2, <1>3, <1>4, <1>5

\* No request that waited for the first catalogue is handed a nil one.
THEOREM NilIsNeverServed == Spec => []NilNeverServed
  <1>1. Init => NilInv
    BY DEF Init, NilInv, NilNeverServed
  <1>2. IInv /\ NilInv /\ [Next]_vars => NilInv'
    BY NilStep DEF IInv
  <1>3. NilInv => NilNeverServed
    BY DEF NilInv
  <1>4. QED
    BY <1>1, <1>2, <1>3, Invariance, PTL DEF Spec

-----------------------------------------------------------------------------
(* What a build publishes is reachable.                                    *)

\* In every mode, entering listed sections files each under a directory.
LEMMA AddFiles ==
  ASSUME TypeOK, BuildFiled, NEW S \in SUBSET SrcSections,
         NEW raw \in [SrcSections -> Versions \cup {None}],
         c' = Add(c, S, raw)
  PROVE  BuildFiled'
  <1>. SUFFICES ASSUME NEW ss \in SrcSections, c'.raw[ss] # None
                PROVE  /\ ss \in c'.order
                       /\ Contributes(Src[ss]) => ExposedName(Title[ss], Src[ss]) \in c'.sections
    BY DEF BuildFiled
  <1>1. c \in Catalogues
    BY DEF TypeOK, BuilderType
  <1>2. /\ c'.order = c.order \cup S
        /\ c'.raw[ss] = IF ss \in S THEN raw[ss] ELSE c.raw[ss]
    BY <1>1, AddType
  <1>3. c'.sections = c.sections \cup {ExposedName(Title[t], Src[t]) :
                                        t \in {u \in S : Contributes(Src[u])}}
    BY DEF Add
  <1>4. CASE ss \in S
    BY <1>2, <1>3, <1>4
  <1>5. CASE ss \notin S
    BY <1>2, <1>3, <1>5 DEF BuildFiled
  <1>6. QED
    BY <1>4, <1>5

\* Pruning takes no directory away from a title that has a place.
LEMMA DeriveHidesNothing ==
  ASSUME TypeOK, BuildFiled
  PROVE  Orphans(Derive(c)) = {}
  <1>. SUFFICES ASSUME NEW ss \in SrcSections, Placed(Derive(c), ss) # {}
                PROVE  DirOf(Derive(c), ss) \in Derive(c).sections
    BY DEF Orphans
  <1>1. /\ c \in Catalogues
        /\ Derive(c).raw = c.raw /\ Derive(c).order = c.order
    BY DeriveType DEF TypeOK, BuilderType
  <1>2. \A t \in SrcSections : Placed(Derive(c), t) = Placed(c, t)
    BY <1>1 DEF Placed, Items, Claimed
  <1>3. Contributes(Src[ss]) /\ c.raw[ss] # None /\ Placed(c, ss) # {}
    BY <1>2 DEF Placed, Items
  <1>4. DirOf(Derive(c), ss) = DirOf(c, ss) /\ DirOf(c, ss) \in c.sections
    BY <1>1, <1>3 DEF DirOf, BuildFiled
  <1>5. Listing(c, DirOf(c, ss)) # {}
    BY <1>3 DEF Listing
  <1>6. Derive(c).sections = {name \in c.sections : name \in c.extra => Listing(c, name) # {}}
    BY <1>1 DEF Derive, Catalogues
  <1>7. QED
    BY <1>4, <1>5, <1>6

\* After every step, what the build under way lists is filed.
LEMMA FiledStep ==
  ASSUME TypeOK, BuildFiled, [Next]_vars
  PROVE  BuildFiled'
  <1>. lib \in [SrcSections -> Versions \cup {None}] /\ Carry(bsrc) \in SUBSET SrcSections
    BY SectionsType DEF TypeOK, ServerType, Carry
  <1>1. attempt # NoCatalogue => attempt.raw \in [SrcSections -> Versions \cup {None}]
    BY DEF TypeOK, SharedType, Catalogues
  <1>2. CASE UNCHANGED c
    BY <1>2 DEF BuildFiled
  <1>3. CASE c' = EmptyCatalogue
    BY <1>3 DEF BuildFiled, EmptyCatalogue
  <1>4. CASE SectionsFailed
    <2>1. CASE Carry(bsrc) = {}
      BY <1>4, <2>1, <1>2 DEF SectionsFailed
    <2>2. CASE Carry(bsrc) # {}
      <3>1. attempt # NoCatalogue /\ c' = Add(c, Carry(bsrc), attempt.raw)
        BY <1>4, <2>2 DEF SectionsFailed, Carry, SectionOrder
      <3>2. QED
        BY <3>1, <1>1, AddFiles
    <2>3. QED
      BY <2>1, <2>2
  <1>5. ASSUME NEW ss \in SrcSections, ItemsListed(ss) PROVE BuildFiled'
    BY <1>5, AddFiles DEF ItemsListed
  <1>6. ASSUME NEW ss \in SrcSections, ItemsFailed(ss) PROVE BuildFiled'
    <2>1. CASE RawOf(attempt, ss) = None
      BY <1>6, <2>1, <1>2 DEF ItemsFailed
    <2>2. CASE RawOf(attempt, ss) # None
      <3>1. attempt # NoCatalogue /\ c' = Add(c, {ss}, attempt.raw)
        BY <1>6, <2>2 DEF ItemsFailed, RawOf
      <3>2. QED
        BY <3>1, <1>1, AddFiles
    <2>3. QED
      BY <2>1, <2>2
  <1>7. \/ UNCHANGED c \/ c' = EmptyCatalogue \/ SectionsFailed
        \/ \E ss \in SrcSections : ItemsListed(ss) \/ ItemsFailed(ss)
    BY DEF Next, vars, builder, Edit, Withdraw, Builder, Watcher, BuildLock, SectionsListed,
           NextSource, BuildFailed, BuildEnds, BuildKept, BuildPublished, BuildReturns,
           CloseReady, ClearDirty, Tick, Polled, PollFailed, Unchanged, RefreshBase,
           RefreshLock, Relisted, RelistFailed, RefreshPublished, Notify, Request, Wake, GiveUp
  <1>8. QED
    BY <1>2, <1>3, <1>4, <1>5, <1>6, <1>7

\* Every title that won a place in a freshly built tree can be reached.
THEOREM FreshTreesHideNothing == Spec => []BuildHidesNothing
  <1>1. Init => BuildFiled /\ BuildHidesNothing
    BY DEF Init, BuildFiled, BuildHidesNothing, EmptyCatalogue
  <1>2. IInv /\ BuildFiled /\ BuildHidesNothing /\ [Next]_vars => (BuildFiled /\ BuildHidesNothing)'
    <2>. SUFFICES ASSUME IInv, BuildFiled, BuildHidesNothing, [Next]_vars
                  PROVE  BuildFiled' /\ BuildHidesNothing'
      OBVIOUS
    <2>1. BuildFiled'
      BY FiledStep DEF IInv
    <2>2. ASSUME BuildPublished PROVE BuildHidesNothing'
      <3>1. cur' = Derive(c)
        BY <2>2 DEF BuildPublished
      <3>2. Orphans(Derive(c)) = {}
        BY DeriveHidesNothing DEF IInv
      <3>3. Orphans(cur') = {}
        BY <3>1, <3>2
      <3>4. QED
        BY <3>3 DEF BuildHidesNothing
    <2>3. ASSUME bpc' # "ready" PROVE BuildHidesNothing'
      BY <2>3 DEF BuildHidesNothing
    <2>4. ASSUME bpc = "ready", UNCHANGED cur PROVE BuildHidesNothing'
      <3>1. Orphans(cur') = Orphans(cur)
        BY <2>4
      <3>2. QED
        BY <2>4, <3>1 DEF BuildHidesNothing
    <2>5. \/ BuildPublished \/ bpc' # "ready"
          \/ bpc = "ready" /\ UNCHANGED cur
          \/ RefreshPublished /\ UNCHANGED builder
      BY DEF Next, vars, shared, builder, Edit, Withdraw, Builder, Watcher, BuildLock,
             SectionsListed, SectionsFailed, ItemsListed, ItemsFailed, NextSource, BuildFailed,
             BuildEnds, BuildKept, BuildReturns, CloseReady, ClearDirty, Tick, Polled, PollFailed,
             Unchanged, RefreshBase, RefreshLock, Relisted, RelistFailed, RefreshPublished,
             Notify, Request, Wake, GiveUp
    <2>6. RefreshPublished => bpc # "ready"
      BY DEF RefreshPublished, IInv, LockDiscipline
    <2>7. QED
      BY <2>1, <2>2, <2>3, <2>4, <2>5, <2>6 DEF builder
  <1>3. QED
    BY <1>1, <1>2, Invariance, PTL DEF Spec
=============================================================================
