---------------------------- MODULE MountProofs ----------------------------
(***************************************************************************)
(* What is proved about Mount for every set of sections and libraries, all *)
(* three modes and any number of edits, failed calls and moves.            *)
(***************************************************************************)
EXTENDS Mount, ServedProofs, DataLemmas

-----------------------------------------------------------------------------
(* Mount refines the settled catalogue.                                    *)

\* Every step is one of the settled catalogue, or leaves it alone.
LEMMA MountStepServed ==
  ASSUME [MountNext]_<<vars, above>>
  PROVE  [ServedNext]_vars
  BY DEF MountNext, Watching, Publish, Callback, Forget, ForgetFails, Check, CheckFails, Reload,
         ReloadFails, Scan, ScanFails, Return, ReadDir, Lapse, Move, RunScan, ScanRuns, ServedNext

\* The mount, the callback and the local Plex only watch the catalogue: with
\* them it behaves as without.
THEOREM MountRefinesServed == MountSpec => ServedSpec
  <1>1. MountInit => BuiltInit
    BY DEF MountInit
  <1>2. [MountNext]_<<vars, above>> => [ServedNext]_vars
    BY MountStepServed
  <1>3. QED
    BY <1>1, <1>2, PTL DEF MountSpec, ServedSpec

-----------------------------------------------------------------------------
(* The operators.                                                          *)

\* What is shown of a directory is a version of each section that decides it.
LEMMA ShownType ==
  ASSUME Settled, NEW t \in Titles
  PROVE  /\ Shown(t) \in Views(t)
         /\ Shown(t) \in [Deciding(t) -> Versions \cup {None}]
         /\ \A ss \in Deciding(t) : ss \in SrcSections /\ Shown(t)[ss] = cur.raw[ss]
         /\ Under(t) \subseteq Deciding(t)
  <1>1. Deciding(t) \subseteq SrcSections /\ Under(t) \subseteq Deciding(t)
    BY DEF Deciding, Under
  <1>2. QED
    BY <1>1 DEF Settled, Shown, Views, Catalogues

\* Only sections titled so are under a title.
LEMMA UnderTitle ==
  ASSUME NEW t \in Titles, NEW ss \in Under(t)
  PROVE  ss \in SrcSections /\ Title[ss] = t
  BY DEF Under, ExposedName

\* The titles that have changed are finitely many.
LEMMA ChangedFinite ==
  ASSUME Noting
  PROVE  changed \subseteq Titles /\ IsFiniteSet(changed)
  <1>. DEFINE f == [ss \in SrcSections |-> Title[ss]]
  <1>1. f \in Surjection(SrcSections, Titles)
    BY DEF Titles, Surjection
  <1>2. IsFiniteSet(Titles)
    BY <1>1, SectionsAssumption, FS_Surjection
  <1>3. changed \subseteq Titles
    BY DEF Noting, Titles
  <1>4. QED
    BY <1>2, <1>3, FS_Subset

\* The callback is called with the titles of what the refresh changed.
LEMMA CalledWith ==
  ASSUME Settled, Noting, Publish
  PROVE  /\ names' \in Seq(Titles) /\ ToSet(names') = changed' /\ at' \in DOMAIN names'
         /\ {names'[i] : i \in 1 .. Len(names')} = changed
  <1>1. names' \in SetToSeqs(changed) /\ at' = 1 /\ changed # {} /\ changed' = changed
    BY RefreshTells DEF Publish
  <1>2. /\ names' \in Seq(changed) /\ ToSet(names') = changed
        /\ DOMAIN names' = 1 .. Len(names')
    BY <1>1, ChangedFinite, ListingOfSet
  <1>3. Len(names') \in Nat /\ Len(names') # 0
    BY <1>1, <1>2 DEF ToSet
  <1>4. QED
    BY <1>1, <1>2, <1>3, ChangedFinite DEF ToSet
-----------------------------------------------------------------------------
(* The callback.                                                           *)

\* The name the callback is at.
LEMMA NameAt ==
  ASSUME CallbackType, npc # "none"
  PROVE  /\ at \in 1 .. Len(names) /\ Len(names) \in Nat
         /\ names[at] \in Titles /\ names[at] \in changed
  BY DEF CallbackType, ToSet

\* Going on to the next name keeps the callback within its argument, and of
\* what is to be forgotten only the name it was at is no longer.
LEMMA NextNameType ==
  ASSUME CallbackType, npc \in {"forget", "scan"},
         NextName(IF npc = "forget" THEN "check" ELSE "end"), UNCHANGED <<wpc, changed>>
  PROVE  /\ CallbackType'
         /\ Pending \subseteq Pending' \cup {names[at]}
  <1>1. at \in 1 .. Len(names) /\ Len(names) \in Nat /\ names \in Seq(Titles)
    BY NameAt DEF CallbackType
  <1>2. CASE at < Len(names)
    <2>1. at' = at + 1 /\ npc' = npc /\ names' = names
      BY <1>2 DEF NextName
    <2>2. CallbackType'
      BY <1>1, <1>2, <2>1 DEF CallbackType
    <2>3. \A i \in at .. Len(names) : i = at \/ i \in at' .. Len(names)
      BY <1>1, <2>1
    <2>4. QED
      BY <2>1, <2>2, <2>3 DEF Pending
  <1>3. CASE ~(at < Len(names))
    <2>1. at' = 1 /\ npc' = (IF npc = "forget" THEN "check" ELSE "end") /\ names' = names
      BY <1>3 DEF NextName
    <2>2. CallbackType'
      BY <1>1, <2>1 DEF CallbackType
    <2>3. \A i \in at .. Len(names) : i = at
      BY <1>1, <1>3
    <2>4. QED
      BY <2>2, <2>3 DEF Pending
  <1>4. QED
    BY <1>2, <1>3

\* What the watcher does while it does not wait for the callback.
LEMMA WatcherApart ==
  ASSUME Settled, Watches \/ Polled \/ \E ss \in Editable : Edit(ss)
  PROVE  /\ UNCHANGED cur /\ (wpc = "notify" <=> wpc' = "notify")
         /\ wpc = "notify" => UNCHANGED changed
  <1>1. cur # NoCatalogue
    BY NoCatalogueAssumption DEF Settled
  <1>2. QED
    BY <1>1 DEF Watches, Polled, Edit, Tick, PollFailed, Unchanged, RefreshBase, RefreshLock,
                Relisted, RelistFailed, shared, watcher

\* A step that changes nothing that is served, cached or to be scanned, and
\* leaves the callback alone or where nothing is left to forget.
LEMMA ViewsFrame ==
  ASSUME ViewsInv, UNCHANGED <<cur, view, missed, scans>>,
         \/ UNCHANGED <<npc, names, at>> /\ (npc # "none" => UNCHANGED changed)
         \/ npc \in {"check", "scan", "end"} /\ npc' \in {"check", "scan", "end"}
            /\ UNCHANGED changed
         \/ npc = "end" /\ npc' = "none"
  PROVE  ViewsInv'
  <1>1. Pending' = Pending /\ Told' \subseteq Told /\ \A t \in Titles : Shown(t)' = Shown(t)
    BY DEF Pending, Told, Shown
  <1>2. KeepsVersions'
    BY <1>1 DEF ViewsInv, KeepsVersions
  <1>3. ToldKeepsUp'
    <2>1. \A t : Shown(t)' = Shown(t)
      BY DEF Shown
    <2>2. QED
      BY <1>1, <2>1 DEF ViewsInv, ToldKeepsUp
  <1>4. ScansKeepUp'
    BY DEF ViewsInv, ScansKeepUp
  <1>5. QED
    BY <1>2, <1>3, <1>4 DEF ViewsInv

-----------------------------------------------------------------------------
(* The invariant is kept, one lemma per group of actions.                  *)

\* The servers and the watcher, while the callback is elsewhere.
LEMMA MountWatches ==
  ASSUME MountInv, Watches \/ Polled \/ (\E ss \in Editable : Edit(ss)), UNCHANGED above
  PROVE  MountTypeOK' /\ ViewsInv'
  <1>1. /\ UNCHANGED cur /\ (wpc = "notify" <=> wpc' = "notify")
        /\ wpc = "notify" => UNCHANGED changed
    BY WatcherApart DEF MountInv
  <1>2. UNCHANGED <<view, npc, names, at, known, homes, moves, scans, seen, missed>>
    BY DEF above, callback
  <1>3. CallbackType'
    BY <1>1, <1>2 DEF MountInv, MountTypeOK, CallbackType
  <1>4. PlexType'
    BY <1>2 DEF MountInv, MountTypeOK, PlexType
  <1>5. npc # "none" => UNCHANGED changed
    BY <1>1 DEF MountInv, MountTypeOK, CallbackType
  <1>6. QED
    BY <1>1, <1>2, <1>3, <1>4, <1>5, ViewsFrame DEF MountInv, MountTypeOK

\* A refresh publishes: what it changes is to be forgotten now.
LEMMA MountPublish ==
  ASSUME MountInv, Publish
  PROVE  MountTypeOK' /\ ViewsInv'
  <1>1. /\ Settled /\ Noting /\ RefreshPublished
        /\ npc' = "forget" /\ at' = 1 /\ wpc' = "notify"
        /\ UNCHANGED <<view, known, homes, moves, scans, seen, missed>>
    BY DEF MountInv, Publish, RefreshPublished
  <1>2. /\ names' \in Seq(Titles) /\ ToSet(names') = changed' /\ at' \in DOMAIN names'
        /\ {names'[i] : i \in 1 .. Len(names')} = changed
    BY <1>1, CalledWith
  <1>3. CallbackType' /\ PlexType'
    BY <1>1, <1>2 DEF MountInv, MountTypeOK, CallbackType, PlexType
  <1>4. Pending' = changed
    BY <1>1, <1>2 DEF Pending
  <1>5. KeepsVersions'
    <2>. SUFFICES ASSUME NEW t \in Titles, t \notin Pending', t \notin missed', view'[t] # Unread,
                         NEW ss \in Under(t)
                  PROVE  view'[t][ss] = cur'.raw[ss]
      BY DEF KeepsVersions
    <2>1. Pending = {}
      BY <1>1 DEF Pending, MountInv, MountTypeOK, CallbackType, RefreshPublished
    <2>2. view[t][ss] = cur.raw[ss]
      BY <1>1, <2>1 DEF MountInv, ViewsInv, KeepsVersions
    <2>3. cur'.raw[ss] = cur.raw[ss]
      BY <1>1, <1>4, RefreshTells, UnderTitle
    <2>4. QED
      BY <1>1, <2>2, <2>3
  <1>6. ToldKeepsUp'
    <2>1. changed' = changed
      BY <1>1, RefreshTells
    <2>2. QED
      BY <1>4, <2>1 DEF ToldKeepsUp, Told
  <1>7. ScansKeepUp'
    <2>. SUFFICES ASSUME NEW scan \in scans, NEW ss \in Deciding(scan.title)
                  PROVE  cur'.raw[ss] >= scan.served[ss]
      BY <1>1 DEF MountInv, ViewsInv, ScansKeepUp
    <2>1. scan.title \in Titles /\ ss \in SrcSections
      BY ShownType DEF MountInv, MountTypeOK, PlexType
    <2>2. cur.raw[ss] \in Int /\ cur'.raw[ss] \in Int /\ scan.served[ss] \in Int
      <3>1. Settled'
        BY <1>1, SettledStep DEF ServedNext
      <3>2. cur'.raw[ss] \in Versions \cup {None} /\ scan.served[ss] \in Versions \cup {None}
        BY <2>1, <3>1 DEF Settled, Catalogues, MountInv, ViewsInv, ScansKeepUp
      <3>3. QED
        BY <2>1, <1>1, <3>2, SettledBounds, SourcesAssumption DEF Versions, None
    <2>3. cur'.raw[ss] >= cur.raw[ss]
      BY <1>1, <2>1, RefreshTells
    <2>4. cur.raw[ss] >= scan.served[ss]
      BY DEF MountInv, ViewsInv, ScansKeepUp
    <2>5. QED
      BY <2>2, <2>3, <2>4
  <1>8. QED
    BY <1>3, <1>5, <1>6, <1>7 DEF MountTypeOK, ViewsInv

\* A directory is forgotten, or the mount could not be told.
LEMMA MountForget ==
  ASSUME MountInv, Forget \/ ForgetFails
  PROVE  MountTypeOK' /\ ViewsInv'
  <1>. DEFINE t == names[at]
  <1>1. /\ npc = "forget" /\ NextName("check")
        /\ UNCHANGED <<cur, wpc, changed, known, homes, moves, scans, seen>>
    BY DEF Forget, ForgetFails, FailsElsewhere, vars, shared, watcher
  <1>2. t \in Titles
    BY <1>1, NameAt DEF MountInv, MountTypeOK
  <1>3. CallbackType' /\ Pending \subseteq Pending' \cup {t}
    BY <1>1, NextNameType DEF MountInv, MountTypeOK
  <1>4. \/ view' = [view EXCEPT ![t] = Unread] /\ missed' = missed \ {t}
        \/ view' = view /\ missed' = missed \cup {t}
    BY DEF Forget, ForgetFails
  <1>5. DOMAIN view = Titles
    BY DEF MountInv, MountTypeOK, PlexType
  <1>. HIDE DEF t
  <1>6. PlexType'
    BY <1>1, <1>2, <1>4, <1>5 DEF MountInv, MountTypeOK, PlexType, Views
  <1>7. \A u \in Titles \ {t} : view'[u] = view[u] /\ (u \in missed' <=> u \in missed)
    BY <1>4, <1>5
  <1>8. t \in missed' \/ view'[t] = Unread
    BY <1>2, <1>4, <1>5
  <1>9. KeepsVersions'
    <2>. SUFFICES ASSUME NEW u \in Titles, u \notin Pending', u \notin missed', view'[u] # Unread
                  PROVE  u # t /\ u \notin Pending
      BY <1>1, <1>7 DEF MountInv, ViewsInv, KeepsVersions
    <2>. QED
      BY <1>3, <1>8
  <1>10. ToldKeepsUp'
    <2>1. Told' \subseteq Told \cup {t} /\ Told' \subseteq Titles
      <3>1. changed \subseteq Titles
        BY ChangedFinite DEF MountInv
      <3>2. QED
        BY <1>1, <1>3, <3>1 DEF Told
    <2>2. \A u : Shown(u)' = Shown(u)
      BY <1>1 DEF Shown
    <2>. SUFFICES ASSUME NEW u \in Told', u \notin missed'
                  PROVE  view'[u] \in {Unread, Shown(u)}
      BY <2>2 DEF ToldKeepsUp
    <2>3. CASE u = t
      BY <1>8, <2>3
    <2>4. CASE u # t
      BY <1>7, <2>1, <2>4 DEF MountInv, ViewsInv, ToldKeepsUp
    <2>5. QED
      BY <2>3, <2>4
  <1>11. ScansKeepUp'
    <2>. SUFFICES ASSUME NEW scan \in scans, scan.title \notin missed', view'[scan.title] # Unread
                  PROVE  scan.title \notin missed /\ view'[scan.title] = view[scan.title]
      BY <1>1 DEF MountInv, ViewsInv, ScansKeepUp
    <2>1. scan.title \in Titles
      BY DEF MountInv, MountTypeOK, PlexType
    <2>2. QED
      BY <1>7, <1>8, <2>1
  <1>12. QED
    BY <1>3, <1>6, <1>9, <1>10, <1>11 DEF MountTypeOK, ViewsInv

\* What loadSections finds are libraries of titles, by their paths.
LEMMA LoadType ==
  ASSUME PlexType, Load
  PROVE  DOMAIN known' \subseteq Titles /\ \A t \in DOMAIN known' : known'[t] \in Paths
  BY DEF PlexType, Load

\* The libraries are looked up, or are not to be had.
LEMMA MountLookup ==
  ASSUME MountInv, Check \/ CheckFails \/ Reload \/ ReloadFails \/ ScanFails
  PROVE  MountTypeOK' /\ ViewsInv'
  <1>1. /\ npc \in {"check", "scan"} /\ npc' \in {"check", "scan", "end"}
        /\ UNCHANGED <<cur, wpc, changed, view, homes, moves, scans, seen, missed>>
    BY DEF Check, CheckFails, Reload, ReloadFails, ScanFails, NextName, FailsElsewhere, vars,
           shared, watcher, callback
  <1>2. CallbackType'
    <2>1. CASE npc = "scan" /\ NextName("end")
      BY <1>1, <2>1, NextNameType DEF MountInv, MountTypeOK
    <2>2. CASE npc' # "none" /\ UNCHANGED <<names, at>>
      BY <1>1, <2>2 DEF MountInv, MountTypeOK, CallbackType
    <2>3. \/ npc = "scan" /\ NextName("end")
          \/ npc' # "none" /\ UNCHANGED <<names, at>>
      BY DEF Check, CheckFails, Reload, ReloadFails, ScanFails, callback
    <2>4. QED
      BY <2>1, <2>2, <2>3
  <1>3. PlexType'
    <2>1. Load \/ UNCHANGED known
      BY DEF Check, CheckFails, Reload, ReloadFails, ScanFails
    <2>2. DOMAIN known' \subseteq Titles /\ \A t \in DOMAIN known' : known'[t] \in Paths
      BY <2>1, LoadType DEF MountInv, MountTypeOK, PlexType
    <2>3. QED
      BY <1>1, <2>2 DEF MountInv, MountTypeOK, PlexType
  <1>4. ViewsInv'
    BY <1>1, ViewsFrame DEF MountInv
  <1>5. QED
    BY <1>2, <1>3, <1>4 DEF MountTypeOK

\* A scan is asked for: what the mount has cached is what is served, unless
\* it could not be told.
LEMMA MountScan ==
  ASSUME MountInv, Scan
  PROVE  MountTypeOK' /\ ViewsInv'
  <1>. DEFINE t == names[at]
              new == [title |-> t, path |-> known[t], served |-> Shown(t)]
  <1>1. /\ npc = "scan" /\ NextName("end") /\ t \in DOMAIN known
        /\ scans' = scans \cup {new}
        /\ UNCHANGED <<cur, wpc, changed, view, known, homes, moves, seen, missed>>
    BY DEF Scan, vars, shared, watcher
  <1>2. CallbackType' /\ npc' \in {"scan", "end"}
    BY <1>1, NextNameType DEF MountInv, MountTypeOK, NextName
  <1>3. t \in Titles /\ known[t] \in Paths
    BY <1>1 DEF MountInv, MountTypeOK, PlexType
  <1>4. new.title = t /\ new.path = known[t] /\ new.served = Shown(t)
    OBVIOUS
  <1>. HIDE DEF t, new
  <1>5. PlexType'
    BY <1>1, <1>3, <1>4 DEF MountInv, MountTypeOK, PlexType
  <1>6. Pending' = {} /\ Pending = {} /\ Told' = Told /\ \A u : Shown(u)' = Shown(u)
    BY <1>1, <1>2 DEF Pending, Told, Shown
  <1>7. KeepsVersions' /\ ToldKeepsUp'
    BY <1>1, <1>6 DEF MountInv, ViewsInv, KeepsVersions, ToldKeepsUp
  <1>8. ScansKeepUp'
    <2>1. /\ Shown(t) \in [Deciding(t) -> Versions \cup {None}]
          /\ \A ss \in Deciding(t) : cur.raw[ss] >= Shown(t)[ss]
      BY <1>3, ShownType, SettledBounds DEF MountInv
    <2>2. t \notin missed => view[t] \in {Unread, Shown(t)}
      <3>1. t \in changed
        BY <1>1, NameAt DEF MountInv, MountTypeOK, t
      <3>2. t \in Told
        BY <1>1, <1>6, <3>1 DEF Told
      <3>3. QED
        BY <3>2 DEF MountInv, ViewsInv, ToldKeepsUp
    <2>3. \A ss \in Deciding(t) : Shown(t)[ss] >= Shown(t)[ss]
      BY <1>3, ShownType, SettledBounds DEF MountInv
    <2>4. \A scan \in scans' : scan \in scans \/ scan = new
      BY <1>1
    <2>5. QED
      BY <1>1, <1>4, <2>1, <2>2, <2>3, <2>4 DEF MountInv, ViewsInv, ScansKeepUp
  <1>9. QED
    BY <1>2, <1>5, <1>7, <1>8 DEF MountTypeOK, ViewsInv

\* The callback returns.
LEMMA MountReturn ==
  ASSUME MountInv, Return
  PROVE  MountTypeOK' /\ ViewsInv'
  <1>1. /\ npc = "end" /\ npc' = "none" /\ wpc' = "idle"
        /\ UNCHANGED <<cur, view, known, homes, moves, scans, seen, missed>>
    BY DEF Return, Notify, shared
  <1>2. CallbackType' /\ PlexType'
    BY <1>1 DEF MountInv, MountTypeOK, CallbackType, PlexType
  <1>3. QED
    BY <1>1, <1>2, ViewsFrame DEF MountInv, MountTypeOK

\* A directory is cached as it is served, or drops out of the cache.
LEMMA MountRead ==
  ASSUME MountInv, NEW t \in Titles,
         \/ view[t] = Unread /\ view' = [view EXCEPT ![t] = Shown(t)] /\ missed' = missed
         \/ view' = [view EXCEPT ![t] = Unread] /\ missed' = missed \ {t},
         UNCHANGED <<vars, callback, known, homes, moves>>,
         scans' \subseteq scans, seen' = seen \/ seen' = [seen EXCEPT ![t] = view'[t]]
  PROVE  MountTypeOK' /\ ViewsInv'
  <1>1. UNCHANGED <<cur, wpc, changed, npc, names, at>>
    BY DEF vars, shared, watcher, callback
  <1>2. /\ Shown(t) \in Views(t) /\ Shown(t) \in [Deciding(t) -> Versions \cup {None}]
        /\ \A ss \in Deciding(t) : ss \in SrcSections /\ Shown(t)[ss] = cur.raw[ss]
        /\ Under(t) \subseteq Deciding(t)
    BY ShownType DEF MountInv
  <1>3. DOMAIN view = Titles /\ DOMAIN seen = Titles
    BY DEF MountInv, MountTypeOK, PlexType
  <1>4. CallbackType' /\ PlexType'
    BY <1>1, <1>2, <1>3 DEF MountInv, MountTypeOK, CallbackType, PlexType, Views
  <1>5. Pending' = Pending /\ Told' = Told /\ \A u : Shown(u)' = Shown(u)
    BY <1>1 DEF Pending, Told, Shown
  <1>6. \A u \in Titles \ {t} : view'[u] = view[u] /\ (u \in missed' <=> u \in missed)
    BY <1>3
  <1>7. view'[t] \in {Unread, Shown(t)}
    BY <1>3
  <1>8. KeepsVersions'
    <2>. SUFFICES ASSUME NEW u \in Titles, u \notin Pending', u \notin missed', view'[u] # Unread,
                         NEW ss \in Under(u)
                  PROVE  view'[u][ss] = cur.raw[ss]
      BY <1>1 DEF KeepsVersions
    <2>1. CASE u = t
      BY <1>2, <1>7, <2>1
    <2>2. CASE u # t
      BY <1>5, <1>6, <2>2 DEF MountInv, ViewsInv, KeepsVersions
    <2>3. QED
      BY <2>1, <2>2
  <1>9. ToldKeepsUp'
    <2>1. Told \subseteq Titles
      BY ChangedFinite DEF MountInv, Told
    <2>. SUFFICES ASSUME NEW u \in Told', u \notin missed'
                  PROVE  view'[u] \in {Unread, Shown(u)}
      BY <1>5 DEF ToldKeepsUp
    <2>2. CASE u = t
      BY <1>7, <2>2
    <2>3. CASE u # t
      BY <1>5, <1>6, <2>1, <2>3 DEF MountInv, ViewsInv, ToldKeepsUp
    <2>4. QED
      BY <2>2, <2>3
  <1>10. ScansKeepUp'
    <2>. SUFFICES ASSUME NEW scan \in scans, NEW ss \in Deciding(scan.title),
                         scan.title \notin missed', view'[scan.title] # Unread
                  PROVE  view'[scan.title][ss] >= scan.served[ss]
      BY <1>1 DEF MountInv, ViewsInv, ScansKeepUp
    <2>1. scan.title \in Titles
      BY DEF MountInv, MountTypeOK, PlexType
    <2>2. CASE scan.title = t
      BY <1>2, <1>7, <2>2 DEF MountInv, ViewsInv, ScansKeepUp
    <2>3. CASE scan.title # t
      BY <1>6, <2>1, <2>3 DEF MountInv, ViewsInv, ScansKeepUp
    <2>4. QED
      BY <2>2, <2>3
  <1>11. QED
    BY <1>4, <1>8, <1>9, <1>10 DEF MountTypeOK, ViewsInv

\* A scan runs, through the mount's cache.
LEMMA MountScanRuns ==
  ASSUME MountInv, NEW scan \in scans, ScanRuns(scan)
  PROVE  MountTypeOK' /\ ViewsInv'
  <1>. DEFINE t == scan.title
  <1>1. t \in Titles /\ DOMAIN view = Titles
    BY DEF MountInv, MountTypeOK, PlexType
  <1>2. UNCHANGED <<vars, callback, known, homes, moves, missed>> /\ scans' \subseteq scans
    BY DEF ScanRuns
  <1>3. CASE scan.path = homes[t] /\ view[t] = Unread
    <2>1. view' = [view EXCEPT ![t] = Shown(t)] /\ seen' = [seen EXCEPT ![t] = Shown(t)]
      BY <1>3 DEF ScanRuns
    <2>2. seen' = [seen EXCEPT ![t] = view'[t]]
      BY <1>1, <2>1
    <2>3. QED
      BY <1>1, <1>2, <1>3, <2>1, <2>2, MountRead
  <1>4. CASE scan.path = homes[t] /\ view[t] # Unread
    <2>1. /\ DOMAIN view' = Titles /\ \A u \in Titles : view'[u] = view[u]
          /\ seen' = [seen EXCEPT ![t] = view[t]]
      BY <1>1, <1>4 DEF ScanRuns
    <2>2. view[t] \in Views(t) /\ DOMAIN seen = Titles
      BY <1>1 DEF MountInv, MountTypeOK, PlexType
    <2>3. CallbackType' /\ PlexType'
      BY <1>1, <1>2, <2>1, <2>2 DEF MountInv, MountTypeOK, CallbackType, PlexType, callback, vars,
                                    shared, watcher
    <2>4. UNCHANGED <<cur, missed, npc, names, at>>
      BY <1>2 DEF callback, vars, shared
    <2>5. Pending' = Pending /\ Told' = Told /\ Told \subseteq Titles /\ \A u : Shown(u)' = Shown(u)
      BY <1>2, <2>4, ChangedFinite DEF Pending, Told, Shown, MountInv, vars, watcher
    <2>6. KeepsVersions' /\ ToldKeepsUp'
      BY <2>1, <2>4, <2>5 DEF MountInv, ViewsInv, KeepsVersions, ToldKeepsUp
    <2>7. ScansKeepUp'
      BY <1>2, <2>1, <2>4 DEF MountInv, ViewsInv, MountTypeOK, PlexType, ScansKeepUp
    <2>8. QED
      BY <2>3, <2>6, <2>7 DEF MountTypeOK, ViewsInv
  <1>5. CASE scan.path # homes[t]
    <2>1. UNCHANGED <<cur, view, seen, missed, npc, names, at, wpc, changed, known, homes, moves>>
      BY <1>2, <1>5 DEF ScanRuns, callback, vars, shared, watcher
    <2>2. CallbackType' /\ PlexType'
      BY <1>2, <2>1 DEF MountInv, MountTypeOK, CallbackType, PlexType
    <2>3. Pending' = Pending /\ Told' = Told /\ \A u : Shown(u)' = Shown(u)
      BY <2>1 DEF Pending, Told, Shown
    <2>4. ViewsInv'
      BY <1>2, <2>1, <2>3 DEF MountInv, ViewsInv, KeepsVersions, ToldKeepsUp, ScansKeepUp
    <2>5. QED
      BY <2>2, <2>4 DEF MountTypeOK
  <1>6. QED
    BY <1>3, <1>4, <1>5

-----------------------------------------------------------------------------
(* The theorems.                                                           *)

\* The mount starts with nothing cached and nothing to scan.
LEMMA MountInvInit == MountInit => MountInv
  <1>. SUFFICES ASSUME MountInit PROVE MountInv
    OBVIOUS
  <1>1. Settled /\ Noting
    BY ServedInit DEF MountInit
  <1>2. CallbackType /\ PlexType
    BY HomesAssumption DEF MountInit, BuiltInit, CallbackType, PlexType, Views
  <1>3. ViewsInv
    BY DEF MountInit, ViewsInv, KeepsVersions, ToldKeepsUp, Told, ScansKeepUp
  <1>4. QED
    BY <1>1, <1>2, <1>3 DEF MountInv, MountTypeOK

\* A library that is added or moved is none of the mount's business.
LEMMA MountMove ==
  ASSUME MountInv, NEW t \in Titles, Move(t)
  PROVE  MountTypeOK' /\ ViewsInv'
  <1>1. /\ moves' = moves + 1 /\ moves < MaxMoves
        /\ UNCHANGED <<cur, wpc, changed, view, npc, names, at, known, scans, seen, missed>>
    BY DEF Move, vars, shared, watcher, callback
  <1>2. homes' \in [Titles -> Paths \cup {NoHome}]
    BY DEF Move, MountInv, MountTypeOK, PlexType
  <1>3. CallbackType' /\ PlexType'
    BY <1>1, <1>2, HomesAssumption DEF MountInv, MountTypeOK, CallbackType, PlexType
  <1>4. ViewsInv'
    BY <1>1, ViewsFrame DEF MountInv
  <1>5. QED
    BY <1>3, <1>4 DEF MountTypeOK

\* After every step the invariant holds again.
LEMMA MountInvStep ==
  ASSUME MountInv, [MountNext]_<<vars, above>>
  PROVE  MountInv'
  <1>1. Settled' /\ Noting'
    BY MountStepServed, SettledStep, NotingStep DEF MountInv
  <1>2. MountTypeOK' /\ ViewsInv'
    <2>1. CASE Publish
      BY <2>1, MountPublish
    <2>2. CASE Forget \/ ForgetFails
      BY <2>2, MountForget
    <2>3. CASE Check \/ CheckFails \/ Reload \/ ReloadFails \/ ScanFails
      BY <2>3, MountLookup
    <2>4. CASE Scan
      BY <2>4, MountScan
    <2>5. CASE Return
      BY <2>5, MountReturn
    <2>6. ASSUME NEW t \in Titles, ReadDir(t) \/ Lapse(t)
          PROVE  MountTypeOK' /\ ViewsInv'
      BY <2>6, MountRead DEF ReadDir, Lapse
    <2>7. ASSUME NEW t \in Titles, Move(t)
          PROVE  MountTypeOK' /\ ViewsInv'
      BY <2>7, MountMove
    <2>8. CASE RunScan
      BY <2>8, MountScanRuns DEF RunScan
    <2>9. CASE (Watches \/ Polled \/ \E ss \in Editable : Edit(ss)) /\ UNCHANGED above
      BY <2>9, MountWatches
    <2>10. CASE UNCHANGED <<vars, above>>
      <3>1. UNCHANGED <<cur, wpc, changed, view, npc, names, at, known, homes, moves, scans, seen,
                        missed>>
        BY <2>10 DEF vars, shared, watcher, above, callback
      <3>2. CallbackType' /\ PlexType'
        BY <3>1 DEF MountInv, MountTypeOK, CallbackType, PlexType
      <3>3. QED
        BY <3>1, <3>2, ViewsFrame DEF MountInv, MountTypeOK
    <2>11. QED
      BY <2>1, <2>2, <2>3, <2>4, <2>5, <2>6, <2>7, <2>8, <2>9, <2>10
         DEF MountNext, Watching, Callback
  <1>3. QED
    BY <1>1, <1>2 DEF MountInv

\* The inductive invariant of the mount, the callback and the local Plex.
THEOREM MountInvariance == MountSpec => []MountInv
  BY MountInvInit, MountInvStep, PTL DEF MountSpec

\* Type correctness.
THEOREM MountTypeCorrect == MountSpec => []MountTypeOK
  <1>1. MountInv => MountTypeOK
    BY DEF MountInv
  <1>2. QED
    BY <1>1, MountInvariance, PTL

\* Which works of a section a listing shows is decided by what it says of
\* that section and of those of earlier servers that contribute.
LEMMA DecidedBy ==
  ASSUME NEW t \in Titles, NEW ss \in Under(t), NEW listing, NEW w,
         listing[ss] = cur.raw[ss],
         \A tt \in Deciding(t) : Src[tt] < Src[ss] =>
           (w \in Items([raw |-> listing], tt) <=> w \in Items(cur, tt))
  PROVE  w \in Winners(listing, ss) <=> w \in Placed(cur, ss)
  <1>. DEFINE made == [raw |-> listing]
  <1>1. Contributes(Src[ss])
    BY DEF Under
  <1>2. Items(made, ss) = Items(cur, ss)
    BY DEF Items
  <1>3. \A tt \in SrcSections : Src[tt] < Src[ss] /\ Contributes(Src[tt]) => tt \in Deciding(t)
    BY DEF Deciding
  <1>. HIDE DEF made
  <1>4. w \in Claimed(made, Src[ss]) <=> w \in Claimed(cur, Src[ss])
    BY <1>3 DEF Claimed, made
  <1>5. QED
    BY <1>1, <1>2, <1>4 DEF Winners, Placed, made

\* The mount shows what is served, but for what it is still to forget or
\* could not be told, and for works that moved between directories of which
\* the callback named the other one.
THEOREM MountShowsServed == MountSpec => []MountKeepsUp
  <1>1. ASSUME MountInv PROVE MountKeepsUp
    <2>. SUFFICES ASSUME NEW t \in Titles, t \notin Pending, t \notin missed, view[t] # Unread,
                         NEW ss \in Under(t)
                  PROVE  /\ view[t][ss] = cur.raw[ss]
                         /\ \A w \in Works :
                              \/ w \in Winners(view[t], ss) <=> w \in Placed(cur, ss)
                              \/ CameOrWent(t, ss, w)
      BY DEF MountKeepsUp
    <2>1. \A tt \in Under(t) : view[t][tt] = cur.raw[tt]
      BY <1>1 DEF MountInv, ViewsInv, KeepsVersions
    <2>2. \A tt \in Under(t) : Items([raw |-> view[t]], tt) = Items(cur, tt)
      BY <2>1 DEF Items
    <2>3. ASSUME NEW w \in Works, ~CameOrWent(t, ss, w)
          PROVE  w \in Winners(view[t], ss) <=> w \in Placed(cur, ss)
      <3>1. \A tt \in Deciding(t) : Src[tt] < Src[ss] =>
              (w \in Items([raw |-> view[t]], tt) <=> w \in Items(cur, tt))
        BY <2>2, <2>3 DEF CameOrWent
      <3>2. QED
        BY <2>1, <2>3, <3>1, DecidedBy
    <2>4. QED
      BY <2>1, <2>3
  <1>2. QED
    BY <1>1, MountInvariance, PTL

\* A scan sees nothing older than was served when it was asked for, if the
\* mount could be told.
THEOREM ScansSeeServed == MountSpec => ScanSeesServed
  <1>1. MountInv /\ [MountNext]_<<vars, above>> =>
          [\A scan \in scans \ scans' :
             scan.path = homes[scan.title] /\ scan.title \notin missed =>
               \A ss \in Deciding(scan.title) : seen'[scan.title][ss] >= scan.served[ss]
          ]_<<vars, above>>
    <2>. SUFFICES ASSUME MountInv, MountNext, NEW scan \in scans \ scans',
                         scan.path = homes[scan.title], scan.title \notin missed,
                         NEW ss \in Deciding(scan.title)
                  PROVE  seen'[scan.title][ss] >= scan.served[ss]
      BY DEF above
    <2>. DEFINE t == scan.title
    <2>1. t \in Titles /\ DOMAIN seen = Titles
      BY DEF MountInv, MountTypeOK, PlexType
    <2>2. ScanRuns(scan)
      <3>1. \E other \in scans : ScanRuns(other)
        BY DEF MountNext, Watching, Publish, Callback, Forget, ForgetFails, Check, CheckFails,
               Reload, ReloadFails, Scan, ScanFails, Return, ReadDir, Lapse, Move, RunScan, above
      <3>2. PICK other \in scans : ScanRuns(other)
        BY <3>1
      <3>3. other = scan
        BY <3>2 DEF ScanRuns
      <3>4. QED
        BY <3>2, <3>3
    <2>3. seen'[t] = IF view[t] = Unread THEN Shown(t) ELSE view[t]
      BY <2>1, <2>2 DEF ScanRuns
    <2>4. Shown(t)[ss] = cur.raw[ss]
      BY <2>1, ShownType DEF MountInv
    <2>5. QED
      BY <2>3, <2>4 DEF MountInv, ViewsInv, ScansKeepUp
  <1>2. QED
    BY <1>1, MountInvariance, PTL DEF MountSpec, ScanSeesServed
=============================================================================
