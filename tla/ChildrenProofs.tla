--------------------------- MODULE ChildrenProofs ---------------------------
(***************************************************************************)
(* What is proved about Children for every set of sections and libraries,  *)
(* all three modes, any trees the loop of derive may make of them and any  *)
(* number of edits, failed calls and requests.                             *)
(***************************************************************************)
EXTENDS Children, ServedProofs, TreeProofs

-----------------------------------------------------------------------------
(* Children refines the settled catalogue.                                 *)

\* Every step is one of the settled catalogue, or leaves it alone.
LEMMA ChildrenStepServed ==
  ASSUME [ChildrenNext]_<<vars, below>>
  PROVE  [ServedNext]_vars
  BY DEF ChildrenNext, Resolve, Hit, Miss, Fetched, Store, FetchFailed, FetchRefused, Abandon,
         Expire, Poll, Rederive, ServedNext

\* Requests and their cache only read the catalogue: with them it behaves as
\* without.
THEOREM ChildrenRefinesServed == ChildrenSpec => ServedSpec
  <1>1. ChildrenInit => BuiltInit
    BY DEF ChildrenInit
  <1>2. [ChildrenNext]_<<vars, below>> => [ServedNext]_vars
    BY ChildrenStepServed
  <1>3. QED
    BY <1>1, <1>2, PTL DEF ChildrenSpec, ServedSpec

-----------------------------------------------------------------------------
(* What a request finds in the tree.                                       *)

\* What a catalogue lists of a section, that section has had.
LEMMA ItemsEver ==
  ASSUME NEW d \in Catalogues, NEW ss \in SrcSections
  PROVE  Items(d, ss) \subseteq EverIn(ss) /\ Items(d, ss) \subseteq Works
  <1>1. d.raw[ss] \in Versions \cup {None}
    BY DEF Catalogues
  <1>2. CASE d.raw[ss] = None
    BY <1>2 DEF Items
  <1>3. CASE d.raw[ss] # None
    <2>1. d.raw[ss] \in Versions /\ Items(d, ss) = Content[ss][d.raw[ss]]
      BY <1>1, <1>3 DEF Items
    <2>2. QED
      BY <2>1, ContentAssumption DEF EverIn
  <1>4. QED
    BY <1>2, <1>3

\* A server that shows a work is the first of those that have it.
LEMMA FirstToHave ==
  ASSUME NEW d \in Catalogues, NEW ss \in SrcSections, NEW w \in Placed(d, ss),
         NEW tt \in SrcSections, w \in Items(d, tt)
  PROVE  w \in Items(d, ss) /\ Src[ss] <= Src[tt]
  <1>1. w \in Items(d, ss) /\ w \notin Claimed(d, Src[ss]) /\ Contributes(Src[ss])
    BY DEF Placed
  <1>2. Src[ss] \in Nat /\ Src[tt] \in Nat
    BY SourcesAssumption
  <1>3. CASE Src[tt] < Src[ss]
    <2>1. Contributes(Src[tt])
      BY <1>1, <1>2, <1>3 DEF Contributes
    <2>2. w \in Claimed(d, Src[ss])
      BY <1>3, <2>1 DEF Claimed
    <2>3. QED
      BY <1>1, <2>2
  <1>4. QED
    BY <1>1, <1>2, <1>3

\* The servers a show is asked of: its own and its fallbacks, which are all
\* that are known to have it.
LEMMA TriesKnown ==
  ASSUME NEW d \in Catalogues, NEW t, NEW spare, TreeOf(d, t, spare), NEW dir \in Dirs,
         NEW e \in ToSet(t[dir]), Item[e.ss][e.w].file = NoFile
  PROVE  LET tries == <<e.ss>> \o e.alts
         IN  /\ tries \in Seq(SrcSections) /\ Len(tries) \in Nat \ {0} /\ tries[1] = e.ss
             /\ \A i \in 1 .. Len(tries) : e.w \in Items(d, tries[i])
             /\ {Src[ss] : ss \in HaveShow(d, e.w)} = {Src[tries[i]] : i \in 1 .. Len(tries)}
  <1>. DEFINE tries == <<e.ss>> \o e.alts
              knew == HaveShow(d, e.w)
  <1>1. e.ss \in SrcSections /\ e.w \in Placed(d, e.ss) /\ e.w \in Items(d, e.ss)
    BY EntryPlaced DEF Placed
  <1>2. /\ e.alts \in Seq(SrcSections)
        /\ ToSet(e.alts) = {ss \in SrcSections :
             /\ Src[ss] > Src[e.ss] /\ e.w \in Items(d, ss)
             /\ Item[ss][e.w].file = Item[e.ss][e.w].file}
    BY EntryFallbacks
  <1>3. /\ tries \in Seq(SrcSections) /\ Len(tries) = Len(e.alts) + 1 /\ Len(e.alts) \in Nat
        /\ tries[1] = e.ss
        /\ \A i \in 1 .. Len(e.alts) : tries[i + 1] = e.alts[i]
    BY <1>1, <1>2
  <1>4. \A i \in 1 .. Len(tries) : tries[i] = e.ss \/ tries[i] \in ToSet(e.alts)
    <2>1. \A i \in 1 .. Len(e.alts) : e.alts[i] \in ToSet(e.alts)
      BY <1>2 DEF ToSet
    <2>. HIDE DEF tries
    <2>2. \A i \in 1 .. Len(tries) : i = 1 \/ (i - 1 \in 1 .. Len(e.alts) /\ tries[i] = e.alts[i - 1])
      BY <1>3
    <2>3. QED
      BY <1>3, <2>1, <2>2
  <1>5. \A i \in 1 .. Len(tries) : tries[i] \in knew
    <2>. HIDE DEF tries
    <2>. QED
      BY <1>1, <1>2, <1>4 DEF HaveShow
  <1>6. \A ss \in knew : Src[ss] = Src[e.ss] \/ ss \in ToSet(e.alts)
    <2>. SUFFICES ASSUME NEW ss \in knew, Src[ss] # Src[e.ss]
                  PROVE  ss \in ToSet(e.alts)
      OBVIOUS
    <2>1. Src[ss] > Src[e.ss]
      BY <1>1, FirstToHave, SourcesAssumption DEF HaveShow
    <2>2. QED
      BY <1>2, <2>1 DEF HaveShow
  <1>7. \A ss \in ToSet(e.alts) : \E i \in 1 .. Len(tries) : tries[i] = ss
    <2>. SUFFICES ASSUME NEW ss \in ToSet(e.alts)
                  PROVE  \E i \in 1 .. Len(tries) : tries[i] = ss
      OBVIOUS
    <2>1. PICK i \in 1 .. Len(e.alts) : e.alts[i] = ss
      BY <1>2 DEF ToSet
    <2>. HIDE DEF tries
    <2>2. i + 1 \in 1 .. Len(tries) /\ tries[i + 1] = ss
      BY <1>3, <2>1
    <2>3. QED
      BY <2>2
  <1>8. \A ss \in knew : \E i \in 1 .. Len(tries) : Src[ss] = Src[tries[i]]
    <2>1. 1 \in 1 .. Len(tries)
      <3>. HIDE DEF tries
      <3>. QED
        BY <1>3
    <2>. HIDE DEF tries
    <2>2. QED
      BY <1>3, <1>6, <1>7, <2>1
  <1>9. {Src[ss] : ss \in knew} = {Src[tries[i]] : i \in 1 .. Len(tries)}
    <2>. HIDE DEF tries, knew
    <2>. QED
      BY <1>5, <1>8
  <1>10. Len(tries) \in Nat \ {0} /\ \A i \in 1 .. Len(tries) : e.w \in Items(d, tries[i])
    <2>. HIDE DEF tries
    <2>. QED
      BY <1>3, <1>5 DEF HaveShow
  <1>11. QED
    <2>. HIDE DEF tries
    <2>1. /\ tries \in Seq(SrcSections) /\ Len(tries) \in Nat \ {0} /\ tries[1] = e.ss
          /\ \A i \in 1 .. Len(tries) : e.w \in Items(d, tries[i])
          /\ {Src[ss] : ss \in HaveShow(d, e.w)} = {Src[tries[i]] : i \in 1 .. Len(tries)}
      BY <1>3, <1>9, <1>10
    <2>2. QED
      BY <2>1 DEF tries

-----------------------------------------------------------------------------
(* The invariant: what the steps of a request leave.                       *)

\* Only the request moves.
LEMMA OnlyRequest ==
  ASSUME ChildrenInv, UNCHANGED <<lib, cur, tree, cache, noted>>, RequestSound'
  PROVE  ChildrenInv'
  <1>1. NotedInTime' /\ Keyed' /\ ChildrenFresh'
    BY DEF ChildrenInv, NotedInTime, Keyed, ChildrenFresh
  <1>2. QED
    BY <1>1 DEF ChildrenInv

\* A request that stays is as sound as before, while nothing new is noted.
LEMMA SameRequest ==
  ASSUME RequestSound, UNCHANGED <<req, noted>>
  PROVE  RequestSound'
  BY DEF RequestSound, OnItsWay, Turning, Asked

\* Before the first request.
LEMMA ChildrenStart ==
  ASSUME ChildrenInit
  PROVE  ChildrenInv
  <1>1. NotedInTime
    BY DEF ChildrenInit, BuiltInit, NotedInTime, None
  <1>2. DOMAIN cache = {}
    BY DEF ChildrenInit
  <1>3. Keyed /\ ChildrenFresh
    BY <1>2 DEF Keyed, ChildrenFresh
  <1>4. RequestSound
    BY DEF ChildrenInit, RequestSound
  <1>5. QED
    BY <1>1, <1>3, <1>4 DEF ChildrenInit, ChildrenInv

\* A path is resolved.
LEMMA ResolveSound ==
  ASSUME Settled, ChildrenInv, NEW dir \in Dirs, NEW name \in NamesIn(tree[dir]),
         Resolve(dir, name)
  PROVE  ChildrenInv'
  <1>. DEFINE e == EntryNamed(tree[dir], name)
              tries == <<e.ss>> \o e.alts
              knew == HaveShow(cur, e.w)
  <1>1. cur \in Catalogues
    BY DEF Settled
  <1>2. PICK spare : TreeOf(cur, tree, spare)
    BY <1>1, TreeShape DEF ChildrenInv
  <1>3. e \in ToSet(tree[dir])
    <2>1. PICK q : /\ DOMAIN tree[dir] = 1 .. Len(q)
                   /\ Len(tree[dir]) = Len(q) /\ Len(q) \in Nat
      BY <1>1, <1>2, EntriesListed
    <2>2. QED
      BY <2>1, FoundByName
  <1>4. Item[e.ss][e.w].file = NoFile
    BY DEF Resolve
  <1>5. req' = [pc |-> "look", of |-> e.w, level |-> "show", tries |-> tries, at |-> 1,
                got |-> NoListing, knew |-> knew, listed |-> e.ss]
        /\ UNCHANGED <<lib, cur, tree, cache, noted>>
    BY DEF Resolve, vars, server, shared
  <1>6. e.ss \in SrcSections /\ e.w \in Works
    <2>1. e.ss \in SrcSections /\ e.w \in Placed(cur, e.ss)
      BY <1>1, <1>2, <1>3, EntryPlaced
    <2>2. QED
      BY <1>1, <2>1, ItemsEver DEF Placed
  <1>. HIDE DEF e
  <1>7. /\ tries \in Seq(SrcSections) /\ Len(tries) \in Nat \ {0} /\ tries[1] = e.ss
        /\ \A i \in 1 .. Len(tries) : e.w \in Items(cur, tries[i])
        /\ {Src[ss] : ss \in knew} = {Src[tries[i]] : i \in 1 .. Len(tries)}
    BY <1>1, <1>2, <1>3, <1>4, TriesKnown
  <1>. HIDE DEF tries, knew
  <1>8. knew \subseteq SrcSections
    BY DEF knew, HaveShow
  <1>9. /\ req'.pc = "look" /\ req'.of = e.w /\ req'.level = "show" /\ req'.tries = tries
        /\ req'.at = 1 /\ req'.knew = knew
    BY <1>5
  <1>10. req' \in Requests
    BY <1>5, <1>6, <1>7, <1>8 DEF Requests, Levels
  <1>11. Turning'
    <2>1. \A i \in 1 .. Len(tries) : e.w \in EverIn(tries[i])
      BY <1>1, <1>7, ItemsEver
    <2>2. QED
      BY <1>7, <1>9, <2>1 DEF Turning
  <1>12. OnItsWay'
    BY <1>9 DEF OnItsWay
  <1>13. RequestSound'
    BY <1>7, <1>9, <1>10, <1>11, <1>12 DEF RequestSound
  <1>14. QED
    BY <1>5, <1>13, OnlyRequest

\* A request is there.
LEMMA Underway ==
  ASSUME RequestSound, req.pc \in {"look", "fetch", "store", "failed"}
  PROVE  /\ req # NoRequest /\ req \in Requests /\ req.at \in 1 .. Len(req.tries)
         /\ Len(req.tries) \in Nat /\ OnItsWay /\ Turning
         /\ Asked \in SrcSections /\ req.of \in Works /\ req.level \in Levels
         /\ req.of \in EverIn(Asked)
  <1>1. req # NoRequest
    BY DEF NoRequest
  <1>2. req \in Requests /\ req.at \in 1 .. Len(req.tries) /\ OnItsWay /\ Turning
    BY <1>1 DEF RequestSound
  <1>3. req.tries \in Seq(SrcSections) /\ req.of \in Works /\ req.level \in Levels
    BY <1>2 DEF Requests
  <1>4. Len(req.tries) \in Nat /\ Asked \in SrcSections
    BY <1>2, <1>3 DEF Asked
  <1>5. req.of \in EverIn(Asked)
    BY <1>2 DEF Turning, Asked
  <1>6. QED
    BY <1>1, <1>2, <1>3, <1>4, <1>5

\* A request is answered with a listing that is of what it asked.
LEMMA AnswerSound ==
  ASSUME RequestSound, req.pc \in {"look", "store"}, NEW l,
         l.from = Asked, l.ask = Asked, Answer(l)
  PROVE  RequestSound'
  <1>1. CASE req' = NoRequest
    BY <1>1 DEF RequestSound
  <1>2. CASE req' = [req EXCEPT !.pc = "look", !.level = "season", !.tries = <<l.ask>>,
                                !.at = 1, !.got = NoListing, !.listed = l.from]
    <2>1. /\ req \in Requests /\ Asked \in SrcSections /\ req.of \in EverIn(Asked)
      BY Underway
    <2>2. /\ req'.pc = "look" /\ req'.of = req.of /\ req'.level = "season"
          /\ req'.tries = <<Asked>> /\ req'.at = 1 /\ req'.listed = Asked
      BY <1>2, <2>1 DEF Requests
    <2>3. req' \in Requests
      <3>. DEFINE on == <<Asked>>
      <3>1. on \in Seq(SrcSections)
        BY <2>1
      <3>. HIDE DEF on
      <3>2. req' = [req EXCEPT !.pc = "look", !.level = "season", !.tries = on,
                               !.at = 1, !.got = NoListing, !.listed = Asked]
        BY <1>2 DEF on
      <3>. DEFINE first == [req EXCEPT !.pc = "look", !.level = "season"]
                  then == [first EXCEPT !.tries = on, !.got = NoListing, !.listed = Asked]
      <3>3. first \in Requests
        BY <2>1 DEF Requests, Levels
      <3>4. req' = [then EXCEPT !.at = 1]
        BY <2>1, <3>2 DEF Requests
      <3>. HIDE DEF first
      <3>5. then \in Requests
        BY <2>1, <3>1, <3>3 DEF Requests
      <3>. HIDE DEF then
      <3>6. QED
        BY <3>4, <3>5 DEF Requests
    <2>4. Len(req'.tries) = 1 /\ req'.tries[1] = Asked
      BY <2>1, <2>2
    <2>5. Turning' /\ OnItsWay'
      BY <2>1, <2>2, <2>4 DEF Turning, OnItsWay
    <2>6. QED
      BY <2>2, <2>3, <2>4, <2>5 DEF RequestSound
  <1>3. QED
    BY <1>1, <1>2 DEF Answer

\* A cached listing is the one asked for: its key tells the section, and in
\* that section the work.
LEMMA CachedIsAsked ==
  ASSUME ChildrenInv, req.pc = "look", KeyAsked \in DOMAIN cache
  PROVE  LET l == cache[KeyAsked] IN
           l.from = Asked /\ l.ask = Asked /\ l.of = req.of /\ l.level = req.level
  <1>. DEFINE l == cache[KeyAsked]
  <1>1. /\ l \in Listings /\ KeyAsked = CacheKey(l.from, l.of, l.level)
        /\ l.ask = l.from /\ l.of \in EverIn(l.from)
    BY DEF ChildrenInv, Keyed
  <1>2. l.from \in SrcSections
    BY <1>1 DEF Listings
  <1>3. Asked \in SrcSections /\ req.of \in EverIn(Asked)
    BY Underway DEF ChildrenInv
  <1>. HIDE DEF l
  <1>4. /\ Src[l.from] = Src[Asked] /\ SectionKey[l.from] = SectionKey[Asked]
        /\ Item[l.from][l.of].key = Item[Asked][req.of].key /\ l.level = req.level
    BY <1>1 DEF KeyAsked, CacheKey
  <1>5. l.from = Asked
    BY <1>2, <1>3, <1>4, SectionKeyAssumption
  <1>6. l.of = req.of
    BY <1>1, <1>3, <1>4, <1>5, RatingKeyAssumption
  <1>7. QED
    BY <1>1, <1>4, <1>5, <1>6 DEF l

\* The cache answers.
LEMMA HitSound ==
  ASSUME ChildrenInv, Hit
  PROVE  ChildrenInv'
  <1>1. RequestSound'
    BY CachedIsAsked, AnswerSound DEF Hit, ChildrenInv
  <1>2. QED
    BY <1>1, OnlyRequest DEF Hit, vars, server, shared

\* It does not, and the server is asked.
LEMMA MissSound ==
  ASSUME ChildrenInv, Miss
  PROVE  ChildrenInv'
  <1>1. req.pc = "look" /\ req' = [req EXCEPT !.pc = "fetch"] /\ UNCHANGED noted
    BY DEF Miss
  <1>2. req \in Requests /\ req.at \in 1 .. Len(req.tries) /\ Turning
    BY <1>1, Underway DEF ChildrenInv
  <1>3. /\ req'.pc = "fetch" /\ req'.of = req.of /\ req'.level = req.level /\ req'.at = req.at
        /\ req'.tries = req.tries /\ req'.knew = req.knew /\ req'.listed = req.listed
        /\ req' \in Requests
    BY <1>1, <1>2 DEF Requests
  <1>4. Turning' /\ OnItsWay'
    BY <1>2, <1>3 DEF Turning, OnItsWay
  <1>5. RequestSound'
    BY <1>2, <1>3, <1>4 DEF RequestSound
  <1>6. QED
    BY <1>5, OnlyRequest DEF Miss, vars, server, shared

\* The server answers, with what it has now: no older than what was noted.
LEMMA FetchedSound ==
  ASSUME Settled, ChildrenInv, Fetched
  PROVE  ChildrenInv'
  <1>. DEFINE got == [of |-> req.of, level |-> req.level, from |-> Asked,
                      v |-> lib[Asked], ask |-> Asked, crossed |-> FALSE]
  <1>1. /\ req.pc = "fetch" /\ req' = [req EXCEPT !.pc = "store", !.got = got]
        /\ UNCHANGED <<lib, cur, tree, cache, noted>>
    BY DEF Fetched, vars, server, shared
  <1>2. /\ req \in Requests /\ req.at \in 1 .. Len(req.tries) /\ Turning
        /\ Asked \in SrcSections /\ req.of \in Works /\ req.level \in Levels
    BY <1>1, Underway DEF ChildrenInv
  <1>3. lib[Asked] \in Versions
    BY <1>2 DEF Settled, IInv, TypeOK, ServerType
  <1>4. got \in Listings
    BY <1>2, <1>3 DEF Listings
  <1>5. /\ got.from = Asked /\ got.ask = Asked /\ got.of = req.of /\ got.level = req.level
        /\ got.v = lib[Asked]
    OBVIOUS
  <1>. HIDE DEF got
  <1>6. /\ req'.pc = "store" /\ req'.got = got /\ req'.of = req.of /\ req'.level = req.level
        /\ req'.at = req.at /\ req'.tries = req.tries /\ req'.knew = req.knew
        /\ req'.listed = req.listed /\ req' \in Requests
    BY <1>1, <1>2, <1>4 DEF Requests
  <1>7. Asked' = Asked
    BY <1>6 DEF Asked
  <1>8. noted[Asked] <= lib[Asked]
    BY <1>2 DEF ChildrenInv, NotedInTime
  <1>9. lib[Asked] >= noted[Asked]
    <2>1. lib[Asked] \in Int /\ noted[Asked] \in Int
      BY <1>2, <1>3, SourcesAssumption DEF ChildrenInv, NotedInTime, Versions, None
    <2>2. QED
      BY <1>8, <2>1
  <1>10. Turning'
    BY <1>2, <1>6 DEF Turning
  <1>11. OnItsWay'
    <2>1. got.v >= noted'[Asked]
      BY <1>1, <1>5, <1>9
    <2>2. QED
      BY <1>4, <1>5, <1>6, <1>7, <2>1 DEF OnItsWay
  <1>12. RequestSound'
    BY <1>2, <1>6, <1>10, <1>11 DEF RequestSound
  <1>13. QED
    BY <1>1, <1>12, OnlyRequest

\* What is stored is of the section and the work its key names, and no older
\* than what was noted while it was on its way.
LEMMA StoreSound ==
  ASSUME ChildrenInv, Store
  PROVE  ChildrenInv'
  <1>. DEFINE k0 == KeyAsked
  <1>1. /\ req.pc = "store" /\ Answer(req.got)
        /\ cache' = [k \in DOMAIN cache \cup {k0} |-> IF k = k0 THEN req.got ELSE cache[k]]
        /\ UNCHANGED <<lib, cur, tree, noted>>
    BY DEF Store, vars, server, shared
  <1>2. /\ req.got \in Listings /\ req.got.from = Asked /\ req.got.ask = Asked
        /\ req.got.of = req.of /\ req.got.level = req.level /\ req.of \in EverIn(Asked)
        /\ ~req.got.crossed => req.got.v >= noted[Asked]
    BY <1>1, Underway DEF ChildrenInv, OnItsWay
  <1>3. RequestSound'
    BY <1>1, <1>2, AnswerSound DEF ChildrenInv
  <1>4. k0 = CacheKey(req.got.from, req.got.of, req.got.level)
    BY <1>2 DEF KeyAsked
  <1>. HIDE DEF k0
  <1>5. /\ DOMAIN cache' = {k0} \cup DOMAIN cache
        /\ \A k \in DOMAIN cache' : cache'[k] = IF k = k0 THEN req.got ELSE cache[k]
    BY <1>1
  <1>6. Keyed'
    <2>. SUFFICES ASSUME NEW k \in DOMAIN cache'
                  PROVE  /\ cache'[k] \in Listings
                         /\ k = CacheKey(cache'[k].from, cache'[k].of, cache'[k].level)
                         /\ cache'[k].ask = cache'[k].from
                         /\ cache'[k].of \in EverIn(cache'[k].from)
      BY DEF Keyed
    <2>1. CASE k = k0
      BY <1>2, <1>4, <1>5, <2>1
    <2>2. CASE k # k0
      BY <1>5, <2>2 DEF ChildrenInv, Keyed
    <2>3. QED
      BY <2>1, <2>2
  <1>7. ChildrenFresh'
    <2>. SUFFICES ASSUME NEW k \in DOMAIN cache', ~cache'[k].crossed
                  PROVE  cache'[k].v >= noted[cache'[k].from]
      BY <1>1 DEF ChildrenFresh
    <2>1. CASE k = k0
      BY <1>2, <1>5, <2>1
    <2>2. CASE k # k0
      BY <1>5, <2>2 DEF ChildrenInv, ChildrenFresh
    <2>3. QED
      BY <2>1, <2>2
  <1>8. NotedInTime'
    BY <1>1 DEF ChildrenInv, NotedInTime
  <1>9. QED
    BY <1>1, <1>3, <1>6, <1>7, <1>8 DEF ChildrenInv

\* The next server is turned to, or the request fails with the last one.
LEMMA NextTrySound ==
  ASSUME RequestSound, req.pc = "fetch", NextTry, UNCHANGED noted
  PROVE  RequestSound'
  <1>1. /\ req \in Requests /\ req.at \in 1 .. Len(req.tries) /\ Len(req.tries) \in Nat /\ Turning
    BY Underway
  <1>2. CASE req.at < Len(req.tries)
    <2>1. req' = [req EXCEPT !.pc = "look", !.at = req.at + 1]
      BY <1>2 DEF NextTry
    <2>. DEFINE looks == [req EXCEPT !.pc = "look"]
    <2>2. looks \in Requests /\ req' = [looks EXCEPT !.at = req.at + 1]
      BY <1>1, <2>1 DEF Requests
    <2>3. /\ req'.pc = "look" /\ req'.of = req.of /\ req'.level = req.level
          /\ req'.at = req.at + 1 /\ req'.tries = req.tries /\ req'.knew = req.knew
          /\ req'.listed = req.listed
      BY <1>1, <2>1 DEF Requests
    <2>. HIDE DEF looks
    <2>4. req.at + 1 \in Nat \ {0} /\ req.at + 1 \in 1 .. Len(req.tries)
      BY <1>1, <1>2
    <2>5. req' \in Requests
      BY <2>2, <2>4 DEF Requests
    <2>6. Turning' /\ OnItsWay'
      BY <1>1, <2>3 DEF Turning, OnItsWay
    <2>7. QED
      BY <2>3, <2>4, <2>5, <2>6 DEF RequestSound
  <1>3. CASE ~(req.at < Len(req.tries))
    <2>1. req' = [req EXCEPT !.pc = "failed"]
      BY <1>3 DEF NextTry
    <2>2. /\ req'.pc = "failed" /\ req'.of = req.of /\ req'.level = req.level
          /\ req'.at = req.at /\ req'.tries = req.tries /\ req'.knew = req.knew
          /\ req'.listed = req.listed /\ req' \in Requests
      BY <1>1, <2>1 DEF Requests
    <2>3. req.at = Len(req.tries)
      BY <1>1, <1>3
    <2>4. Turning' /\ OnItsWay'
      BY <1>1, <2>2, <2>3 DEF Turning, OnItsWay
    <2>5. QED
      BY <1>1, <2>2, <2>4 DEF RequestSound
  <1>4. QED
    BY <1>2, <1>3

\* The server does not answer, or does not have the show any more.
LEMMA FetchFailsSound ==
  ASSUME ChildrenInv, FetchFailed \/ FetchRefused
  PROVE  ChildrenInv'
  <1>1. req.pc = "fetch" /\ NextTry /\ UNCHANGED <<lib, cur, tree, cache, noted>>
    BY DEF FetchFailed, FetchRefused, FailsElsewhere, vars, server, shared
  <1>2. QED
    BY <1>1, NextTrySound, OnlyRequest DEF ChildrenInv

\* The request is over.
LEMMA AbandonSound ==
  ASSUME ChildrenInv, Abandon
  PROVE  ChildrenInv'
  <1>1. RequestSound'
    BY DEF Abandon, RequestSound
  <1>2. QED
    BY <1>1, OnlyRequest DEF Abandon, vars, server, shared

\* Cached listings are dropped.
LEMMA FewerCached ==
  ASSUME Keyed, ChildrenFresh, NEW K, cache' = [k \in DOMAIN cache \cap K |-> cache[k]],
         \A k \in DOMAIN cache \cap K : noted'[cache[k].from] = noted[cache[k].from]
  PROVE  Keyed' /\ ChildrenFresh'
  <1>1. DOMAIN cache' = DOMAIN cache \cap K
    OBVIOUS
  <1>2. \A k \in DOMAIN cache' : k \in DOMAIN cache \cap K /\ cache'[k] = cache[k]
    BY <1>1
  <1>3. Keyed'
    BY <1>2 DEF Keyed
  <1>4. ChildrenFresh'
    BY <1>2 DEF ChildrenFresh
  <1>5. QED
    BY <1>3, <1>4

\* A cached listing expires.
LEMMA ExpireSound ==
  ASSUME ChildrenInv, NEW key \in DOMAIN cache, Expire(key)
  PROVE  ChildrenInv'
  <1>. DEFINE K == DOMAIN cache \ {key}
  <1>1. /\ cache' = [k \in DOMAIN cache \cap K |-> cache[k]]
        /\ UNCHANGED <<lib, cur, tree, req, noted>>
    <2>1. DOMAIN cache \cap K = DOMAIN cache \ {key}
      OBVIOUS
    <2>2. QED
      BY <2>1 DEF Expire, vars, server, shared
  <1>. HIDE DEF K
  <1>2. Keyed' /\ ChildrenFresh'
    BY <1>1, FewerCached DEF ChildrenInv
  <1>3. NotedInTime'
    BY <1>1 DEF ChildrenInv, NotedInTime
  <1>4. RequestSound'
    BY <1>1, SameRequest DEF ChildrenInv
  <1>5. QED
    BY <1>1, <1>2, <1>3, <1>4 DEF ChildrenInv

-----------------------------------------------------------------------------
(* The invariant: what the watcher and the servers leave.                  *)

\* A change on a server is later than anything noted.
LEMMA EditSound ==
  ASSUME Settled, ChildrenInv, NEW ss \in SrcSections, Edit(ss), UNCHANGED below
  PROVE  ChildrenInv'
  <1>1. /\ lib' = [lib EXCEPT ![ss] = clock + 1]
        /\ UNCHANGED <<cur, tree, cache, req, noted>>
    BY DEF Edit, below, shared
  <1>2. lib \in [SrcSections -> Versions \cup {None}] /\ clock \in Nat
    BY SourcesAssumption DEF Settled, IInv, TypeOK, ServerType, Versions
  <1>3. \A tt \in SrcSections : lib[tt] \in Int /\ lib[tt] <= clock
    BY <1>2, SourcesAssumption DEF Settled, IInv, Recency, Versions, None
  <1>4. \A tt \in SrcSections : noted[tt] \in Int /\ noted[tt] <= lib[tt]
    BY SourcesAssumption DEF ChildrenInv, NotedInTime, Versions, None
  <1>5. \A tt \in SrcSections : noted[tt] <= lib'[tt]
    <2>1. \A tt \in SrcSections : lib'[tt] = IF tt = ss THEN clock + 1 ELSE lib[tt]
      BY <1>1, <1>2
    <2>2. QED
      BY <1>2, <1>3, <1>4, <2>1
  <1>6. NotedInTime'
    BY <1>1, <1>5 DEF ChildrenInv, NotedInTime
  <1>7. Keyed' /\ ChildrenFresh'
    BY <1>1 DEF ChildrenInv, Keyed, ChildrenFresh
  <1>8. RequestSound'
    BY <1>1, SameRequest DEF ChildrenInv
  <1>9. QED
    BY <1>1, <1>6, <1>7, <1>8 DEF ChildrenInv

\* The poll leaves nothing cached of a section that it notes as changed, and
\* remembers of the listing on its way that it was.
LEMMA PollSound ==
  ASSUME Settled, ChildrenInv, Poll
  PROVE  ChildrenInv'
  <1>. DEFINE K == {k \in DOMAIN cache :
                      \A ss \in Moved : <<k[1], k[2]>> # <<Src[ss], SectionKey[ss]>>}
  <1>1. /\ cache' = [k \in K |-> cache[k]]
        /\ noted' = [ss \in SrcSections |-> IF ss \in Moved THEN lib[ss] ELSE noted[ss]]
        /\ req' = IF req.pc = "store" /\ Asked \in Moved
                    THEN [req EXCEPT !.got.crossed = TRUE] ELSE req
        /\ UNCHANGED <<lib, cur, tree>>
    BY DEF Poll, Polled, Drop, server
  <1>2. K = DOMAIN cache \cap K
    OBVIOUS
  <1>3. \A k \in K : noted'[cache[k].from] = noted[cache[k].from]
    <2>. SUFFICES ASSUME NEW k \in K
                  PROVE  noted'[cache[k].from] = noted[cache[k].from]
      OBVIOUS
    <2>1. /\ k = CacheKey(cache[k].from, cache[k].of, cache[k].level)
          /\ cache[k].from \in SrcSections
      BY DEF ChildrenInv, Keyed, Listings
    <2>2. k[1] = Src[cache[k].from] /\ k[2] = SectionKey[cache[k].from]
      BY <2>1 DEF CacheKey
    <2>3. cache[k].from \notin Moved
      BY <2>2
    <2>4. QED
      BY <1>1, <2>1, <2>3
  <1>. HIDE DEF K
  <1>4. Keyed' /\ ChildrenFresh'
    BY <1>1, <1>2, <1>3, FewerCached DEF ChildrenInv
  <1>5. NotedInTime'
    <2>1. lib \in [SrcSections -> Versions \cup {None}]
      BY DEF Settled, IInv, TypeOK, ServerType
    <2>2. \A ss \in SrcSections : lib[ss] \in Int /\ noted[ss] <= lib[ss]
      BY <2>1, SourcesAssumption DEF ChildrenInv, NotedInTime, Versions, None
    <2>3. \A ss \in SrcSections : noted'[ss] <= lib[ss]
      BY <1>1, <2>2
    <2>4. noted' \in [SrcSections -> Versions \cup {None}]
      BY <1>1, <2>1 DEF ChildrenInv, NotedInTime
    <2>5. QED
      BY <1>1, <2>3, <2>4 DEF NotedInTime
  <1>6. RequestSound'
    <2>1. CASE req = NoRequest
      <3>1. req' = NoRequest
        BY <1>1, <2>1 DEF NoRequest
      <3>2. QED
        BY <3>1 DEF RequestSound
    <2>2. CASE req # NoRequest
      <3>1. req \in Requests /\ req.at \in 1 .. Len(req.tries) /\ OnItsWay /\ Turning
        BY <2>2 DEF ChildrenInv, RequestSound
      <3>2. req.tries \in Seq(SrcSections) /\ Asked \in SrcSections
        BY <3>1 DEF Requests, Asked
      <3>3. CASE req.pc = "store" /\ Asked \in Moved
        <4>. DEFINE got == [req.got EXCEPT !.crossed = TRUE]
        <4>1. req.got \in Listings /\ req' = [req EXCEPT !.got = got]
          BY <1>1, <3>1, <3>3 DEF OnItsWay
        <4>2. /\ got \in Listings /\ got.from = req.got.from /\ got.ask = req.got.ask
              /\ got.of = req.got.of /\ got.level = req.got.level /\ got.crossed
          BY <4>1 DEF Listings
        <4>. HIDE DEF got
        <4>3. /\ req'.pc = "store" /\ req'.of = req.of /\ req'.level = req.level
              /\ req'.at = req.at /\ req'.tries = req.tries /\ req'.knew = req.knew
              /\ req'.listed = req.listed /\ req'.got = got /\ req' \in Requests
          BY <3>1, <3>3, <4>1, <4>2 DEF Requests
        <4>4. Asked' = Asked
          BY <4>3 DEF Asked
        <4>5. Turning'
          BY <3>1, <3>3, <4>3 DEF Turning
        <4>6. OnItsWay'
          BY <3>1, <3>3, <4>2, <4>3, <4>4 DEF OnItsWay
        <4>7. QED
          BY <3>1, <4>3, <4>5, <4>6 DEF RequestSound
      <3>4. CASE ~(req.pc = "store" /\ Asked \in Moved)
        <4>1. req' = req /\ Asked' = Asked
          BY <1>1, <3>4 DEF Asked
        <4>2. req.pc = "store" => noted'[Asked] = noted[Asked]
          BY <1>1, <3>2, <3>4
        <4>3. OnItsWay' /\ Turning'
          BY <3>1, <4>1, <4>2 DEF OnItsWay, Turning
        <4>4. QED
          BY <3>1, <4>1, <4>3 DEF RequestSound
      <3>5. QED
        BY <3>3, <3>4
    <2>3. QED
      BY <2>1, <2>2
  <1>7. QED
    BY <1>1, <1>4, <1>5, <1>6 DEF ChildrenInv

\* Steps that leave what is served, and the servers, alone.
LEMMA ElseSound ==
  ASSUME ChildrenInv, UNCHANGED <<lib, cur, tree, cache, req, noted>>
  PROVE  ChildrenInv'
  <1>1. NotedInTime' /\ Keyed' /\ ChildrenFresh'
    BY DEF ChildrenInv, NotedInTime, Keyed, ChildrenFresh
  <1>2. RequestSound'
    BY SameRequest DEF ChildrenInv
  <1>3. QED
    BY <1>1, <1>2 DEF ChildrenInv

\* A refresh serves a tree derived from the catalogue it publishes; what is
\* cached, and the request under way, it leaves.
LEMMA RederiveSound ==
  ASSUME ChildrenInv, Rederive
  PROVE  ChildrenInv'
  <1>1. tree' \in Trees(cur') /\ UNCHANGED <<lib, cache, req, noted>>
    BY DEF Rederive, RefreshPublished, server
  <1>2. NotedInTime' /\ Keyed' /\ ChildrenFresh'
    BY <1>1 DEF ChildrenInv, NotedInTime, Keyed, ChildrenFresh
  <1>3. RequestSound'
    BY <1>1, SameRequest DEF ChildrenInv
  <1>4. QED
    BY <1>1, <1>2, <1>3 DEF ChildrenInv

\* Every step keeps the invariant.
LEMMA ChildrenStep ==
  ASSUME Settled, ChildrenInv, [ChildrenNext]_<<vars, below>>
  PROVE  ChildrenInv'
  <1>1. ASSUME NEW dir \in Dirs, NEW name \in NamesIn(tree[dir]), Resolve(dir, name)
        PROVE  ChildrenInv'
    BY <1>1, ResolveSound
  <1>2. CASE Hit
    BY <1>2, HitSound
  <1>3. CASE Miss
    BY <1>3, MissSound
  <1>4. CASE Fetched
    BY <1>4, FetchedSound
  <1>5. CASE Store
    BY <1>5, StoreSound
  <1>6. CASE FetchFailed \/ FetchRefused
    BY <1>6, FetchFailsSound
  <1>7. CASE Abandon
    BY <1>7, AbandonSound
  <1>8. ASSUME NEW key \in DOMAIN cache, Expire(key) PROVE ChildrenInv'
    BY <1>8, ExpireSound
  <1>9. ASSUME NEW ss \in Editable, Edit(ss), UNCHANGED below PROVE ChildrenInv'
    BY <1>9, EditSound, EditableAssumption
  <1>10. CASE Poll
    BY <1>10, PollSound
  <1>11. CASE (Watches \/ Notify) /\ UNCHANGED below
    <2>1. cur # NoCatalogue
      BY NoCatalogueAssumption DEF Settled
    <2>2. UNCHANGED <<lib, cur, tree, cache, req, noted>>
      BY <1>11, <2>1 DEF Watches, Notify, Tick, PollFailed, Unchanged, RefreshBase, RefreshLock,
                         Relisted, RelistFailed, below, server, shared
    <2>3. QED
      BY <2>2, ElseSound
  <1>12. CASE Rederive
    BY <1>12, RederiveSound
  <1>13. CASE UNCHANGED <<vars, below>>
    BY <1>13, ElseSound DEF vars, below, server, shared
  <1>14. QED
    BY <1>1, <1>2, <1>3, <1>4, <1>5, <1>6, <1>7, <1>8, <1>9, <1>10, <1>11, <1>12, <1>13
       DEF ChildrenNext

\* The tree is one of the trees of what is served, what is cached is of what
\* its key says and as new as what was noted, and a request turns only to
\* servers that had the show.
THEOREM ChildrenInvariance == ChildrenSpec => [](Settled /\ ChildrenInv)
  <1>1. ChildrenInit => ChildrenInv
    BY ChildrenStart
  <1>2. Settled /\ ChildrenInv /\ [ChildrenNext]_<<vars, below>> => ChildrenInv'
    BY ChildrenStep
  <1>3. QED
    BY <1>1, <1>2, ChildrenRefinesServed, ServedInvariance, PTL DEF ChildrenSpec

-----------------------------------------------------------------------------
(* What follows from the invariant.                                        *)

\* The tree served is one that derive may make of the catalogue served.
LEMMA ServedTree ==
  ASSUME Settled, ChildrenInv
  PROVE  cur \in Catalogues /\ DOMAIN tree = Dirs /\ \E spare : TreeOf(cur, tree, spare)
  BY TreeShape DEF Settled, ChildrenInv

\* The tree, the cache and the request keep their types, and the server
\* being asked is one of those to try, for every library and every edit.
THEOREM ChildrenTypeCorrect == ChildrenSpec => []ChildrenTypeOK
  <1>1. ASSUME Settled, ChildrenInv PROVE ChildrenTypeOK
    <2>1. PICK spare : TreeOf(cur, tree, spare)
      BY <1>1, ServedTree
    <2>2. \A e \in Entries :
            e.ss \in SrcSections /\ e.w \in Works /\ ToSet(e.alts) \subseteq SrcSections
      <3>. SUFFICES ASSUME NEW dir \in Dirs, NEW e \in ToSet(tree[dir])
                    PROVE  e.ss \in SrcSections /\ e.w \in Works /\ ToSet(e.alts) \subseteq SrcSections
        BY DEF Entries
      <3>1. e.ss \in SrcSections /\ e.w \in Placed(cur, e.ss)
        BY <1>1, <2>1, EntryPlaced, ServedTree
      <3>2. e.w \in Works
        BY <1>1, <3>1, ItemsEver, ServedTree DEF Placed
      <3>3. ToSet(e.alts) \subseteq SrcSections
        BY <1>1, <2>1, EntryFallbacks, ServedTree
      <3>4. QED
        BY <3>1, <3>2, <3>3
    <2>3. DOMAIN tree = Dirs
      BY <1>1, ServedTree
    <2>4. \A k \in DOMAIN cache : cache[k] \in Listings
      BY <1>1 DEF ChildrenInv, Keyed
    <2>5. noted \in [SrcSections -> Versions \cup {None}]
      BY <1>1 DEF ChildrenInv, NotedInTime
    <2>6. req # NoRequest =>
            req \in Requests /\ (req.pc = "store" => req.got \in Listings)
            /\ req.at \in 1 .. Len(req.tries)
      BY <1>1 DEF ChildrenInv, RequestSound, OnItsWay
    <2>7. QED
      BY <2>2, <2>3, <2>4, <2>5, <2>6 DEF ChildrenTypeOK
  <1>2. QED
    BY <1>1, ChildrenInvariance, PTL

\* derive's loop over servers, sections and works, in whatever order Go's
\* maps come, gives each copy that the merge places one entry, in the
\* directory of its section, and nothing else.
THEOREM TreesMatchMerge == ChildrenSpec => []TreeMatchesMerge
  <1>1. ASSUME Settled, ChildrenInv PROVE TreeMatchesMerge
    <2>1. PICK spare : TreeOf(cur, tree, spare)
      BY <1>1, ServedTree
    <2>2. QED
      BY <1>1, <2>1, EntriesMatch, ServedTree DEF TreeMatchesMerge
  <1>2. QED
    BY <1>1, ChildrenInvariance, PTL

\* attachSpare gives an entry all the copies of its work that later servers
\* hold in the same size and container, each once and in the servers' order.
THEOREM FallbacksComplete == ChildrenSpec => []FallbacksStandIn
  <1>1. ASSUME Settled, ChildrenInv PROVE FallbacksStandIn
    <2>1. PICK spare : TreeOf(cur, tree, spare)
      BY <1>1, ServedTree
    <2>. SUFFICES ASSUME NEW dir \in Dirs, NEW e \in ToSet(tree[dir])
                  PROVE  /\ ToSet(e.alts) = {ss \in SrcSections :
                              /\ Src[ss] > Src[e.ss] /\ e.w \in Items(cur, ss)
                              /\ Item[ss][e.w].file = Item[e.ss][e.w].file}
                         /\ \A i, j \in DOMAIN e.alts : i < j =>
                              e.alts[i] # e.alts[j] /\ Src[e.alts[i]] <= Src[e.alts[j]]
      BY DEF FallbacksStandIn, Entries
    <2>2. /\ e.alts \in Seq(SrcSections)
          /\ ToSet(e.alts) = {ss \in SrcSections :
               /\ Src[ss] > Src[e.ss] /\ e.w \in Items(cur, ss)
               /\ Item[ss][e.w].file = Item[e.ss][e.w].file}
          /\ \A i, j \in 1 .. Len(e.alts) : i < j =>
               e.alts[i] # e.alts[j] /\ Src[e.alts[i]] <= Src[e.alts[j]]
      BY <1>1, <2>1, EntryFallbacks, ServedTree
    <2>3. DOMAIN e.alts = 1 .. Len(e.alts)
      BY <2>2
    <2>4. QED
      BY <2>2, <2>3
  <1>2. QED
    BY <1>1, ChildrenInvariance, PTL

\* What cachedListing keeps of a section is no older than the last change
\* the watcher noted of it, unless it was on its way then.
THEOREM CacheStaysFresh == ChildrenSpec => []ChildrenFresh
  BY ChildrenInvariance, PTL DEF ChildrenInv

\* A request is answered, from the cache or not, with the listing it asks
\* for, and the episodes of a season are asked of the server that listed it.
THEOREM AsksWhereKnown == ChildrenSpec => []AskedWhereKnown
  <1>1. ASSUME ChildrenInv PROVE AskedWhereKnown
    <2>. SUFFICES ASSUME req # NoRequest
                  PROVE  /\ req.pc = "look" /\ KeyAsked \in DOMAIN cache =>
                              LET l == cache[KeyAsked] IN
                                l.from = Asked /\ l.of = req.of /\ l.level = req.level
                         /\ req.level = "season" => Asked = req.listed
      BY DEF AskedWhereKnown
    <2>1. req.at \in 1 .. Len(req.tries) /\ Turning
      BY <1>1 DEF ChildrenInv, RequestSound
    <2>2. req.level = "season" => Asked = req.listed
      <3>. SUFFICES ASSUME req.level = "season" PROVE Asked = req.listed
        OBVIOUS
      <3>1. req.tries = <<req.listed>>
        BY <2>1 DEF Turning
      <3>2. Len(req.tries) = 1 /\ req.tries[1] = req.listed
        BY <3>1
      <3>3. QED
        BY <2>1, <3>2 DEF Asked
    <2>3. QED
      BY <1>1, <2>2, CachedIsAsked
  <1>2. QED
    BY <1>1, ChildrenInvariance, PTL

\* childListingOrAlt gives up on a show only after every server that the
\* catalogue knew to have it.
THEOREM ShowsFailLast == ChildrenSpec => []ShowFailsOnlyEverywhere
  <1>1. ASSUME ChildrenInv PROVE ShowFailsOnlyEverywhere
    <2>. SUFFICES ASSUME req.pc = "failed", req.level = "show"
                  PROVE  {Src[ss] : ss \in req.knew} = {Src[req.tries[i]] : i \in 1 .. req.at}
      BY DEF ShowFailsOnlyEverywhere
    <2>1. Turning
      BY <1>1, Underway DEF ChildrenInv
    <2>2. req.at = Len(req.tries)
      BY <2>1 DEF Turning
    <2>3. QED
      BY <2>1, <2>2 DEF Turning
  <1>2. QED
    BY <1>1, ChildrenInvariance, PTL

\* A directory filed with the same copies is filed with the same entries.
LEMMA FiledAlike ==
  ASSUME NEW d \in Catalogues, NEW e \in Catalogues, NEW dir \in Dirs,
         Filed(d, dir) = Filed(e, dir), Untied(d, dir)
  PROVE  /\ PlacedIn(d, dir) = PlacedIn(e, dir)
         /\ \A a, b \in PlacedIn(e, dir) :
              Item[a.ss][a.w].title = Item[b.ss][b.w].title
              /\ Item[a.ss][a.w].key = Item[b.ss][b.w].key => a = b
  <1>. DEFINE here(x) == {t \in SrcSections : DirOf(x, t) = dir}
              copy(ss, w) == [ss |-> ss, w |-> w, dir |-> dir]
  <1>1. here(d) = here(e) /\ \A ss \in here(d) : Placed(d, ss) = Placed(e, ss)
    <2>1. \A x : /\ DOMAIN Filed(x, dir) = here(x)
                 /\ \A ss \in here(x) : Filed(x, dir)[ss] = Placed(x, ss)
      BY DEF Filed
    <2>. HIDE DEF here
    <2>2. QED
      BY <2>1
  <1>2. \A x : \A ss \in here(x) : PlacedOf(x, ss) = {copy(ss, w) : w \in Placed(x, ss)}
    BY DEF PlacedOf
  <1>3. \A x : \A p : p \in PlacedIn(x, dir) <=>
                        \E ss \in here(x) : \E w \in Placed(x, ss) : p = copy(ss, w)
    <2>1. \A x : PlacedIn(x, dir) = UNION {PlacedOf(x, ss) : ss \in here(x)}
      BY DEF PlacedIn
    <2>. HIDE DEF here, copy
    <2>2. QED
      BY <1>2, <2>1
  <1>4. PlacedIn(d, dir) = PlacedIn(e, dir)
    <2>. HIDE DEF here, copy
    <2>1. \A p : p \in PlacedIn(d, dir) <=> \E ss \in here(d) : \E w \in Placed(d, ss) : p = copy(ss, w)
      BY <1>3
    <2>2. \A p : p \in PlacedIn(e, dir) <=> \E ss \in here(d) : \E w \in Placed(d, ss) : p = copy(ss, w)
      BY <1>1, <1>3
    <2>. DEFINE P == PlacedIn(d, dir)
                Q == PlacedIn(e, dir)
    <2>3. \A p : p \in P <=> p \in Q
      BY <2>1, <2>2
    <2>. HIDE DEF P, Q
    <2>4. P = Q
      BY <2>3
    <2>5. QED
      BY <2>4 DEF P, Q
  <1>5. ASSUME NEW a \in PlacedIn(d, dir), NEW b \in PlacedIn(d, dir),
               Item[a.ss][a.w].title = Item[b.ss][b.w].title,
               Item[a.ss][a.w].key = Item[b.ss][b.w].key
        PROVE  a = b
    <2>1. PICK ss \in here(d) : \E w \in Placed(d, ss) : a = copy(ss, w)
      BY <1>3
    <2>2. PICK w \in Placed(d, ss) : a = copy(ss, w)
      BY <2>1
    <2>3. PICK tt \in here(d) : \E x \in Placed(d, tt) : b = copy(tt, x)
      BY <1>3
    <2>4. PICK x \in Placed(d, tt) : b = copy(tt, x)
      BY <2>3
    <2>5. a.ss = ss /\ a.w = w /\ b.ss = tt /\ b.w = x
      BY <2>2, <2>4
    <2>6. DOMAIN Filed(d, dir) = here(d) /\ \A s \in here(d) : Filed(d, dir)[s] = Placed(d, s)
      BY DEF Filed
    <2>7. ss = tt /\ w = x
      <3>. HIDE DEF here, copy
      <3>. QED
        BY <1>5, <2>5, <2>6 DEF Untied
    <2>8. QED
      BY <2>2, <2>4, <2>7
  <1>6. QED
    BY <1>4, <1>5

\* Whoever opens what was listed before a refresh gets the same film: a new
\* tree leaves the names of a directory whose copies did not change and do
\* not tie with the copies they named, whatever order the maps came in.
THEOREM NamesStay == ChildrenSpec => NamesStayPut
  <1>1. Settled /\ ChildrenInv /\ Settled' /\ ChildrenInv' =>
          \A dir \in Dirs :
            tree[dir] # tree'[dir] /\ Untied(cur, dir) /\ Filed(cur, dir) = Filed(cur', dir) =>
              [i \in DOMAIN tree[dir] |-> <<tree[dir][i].name, tree[dir][i].ss, tree[dir][i].w>>] =
              [i \in DOMAIN tree'[dir] |-> <<tree'[dir][i].name, tree'[dir][i].ss, tree'[dir][i].w>>]
    <2>. SUFFICES ASSUME Settled, ChildrenInv, Settled', ChildrenInv', NEW dir \in Dirs,
                         Untied(cur, dir), Filed(cur, dir) = Filed(cur', dir)
                  PROVE  Shows(tree[dir]) = Shows(tree'[dir])
      BY DEF Shows
    <2>1. cur \in Catalogues /\ cur' \in Catalogues
      BY DEF Settled
    <2>2. PICK aside : TreeOf(cur, tree, aside)
      BY ServedTree
    <2>3. PICK spare : TreeOf(cur', tree', spare)
      <3>1. tree' \in Trees(cur')
        BY DEF ChildrenInv
      <3>2. QED
        BY <2>1, <3>1, TreeShape
    <2>4. QED
      BY <2>1, <2>2, <2>3, FiledAlike, SameNames
  <1>2. QED
    BY <1>1, ChildrenInvariance, PTL DEF NamesStayPut

-----------------------------------------------------------------------------
(* Names.                                                                  *)

\* A number appended to a name can be told from the name.
LEMMA NumberApart ==
  ASSUME NEW a \in Seq(Nat), NEW b \in Seq(Nat), NEW m \in Nat, NEW n \in Nat
  PROVE  /\ Append(a, m) = Append(b, n) => a = b /\ m = n
         /\ Append(a, m) # a /\ Append(a, m) # << >> /\ Front(Append(a, m)) = a
  <1>. DEFINE s == Append(a, m)
  <1>1. /\ s \in Seq(Nat) /\ s # << >> /\ Len(s) = Len(a) + 1 /\ Len(a) \in Nat
        /\ \A i \in 1 .. Len(a) : s[i] = a[i]
    <2>1. Append(a, m) \in Seq(Nat) /\ Len(Append(a, m)) = Len(a) + 1 /\ Len(a) \in Nat
      OBVIOUS
    <2>2. \A i \in 1 .. Len(a) : Append(a, m)[i] = a[i]
      BY AppendProperties
    <2>. HIDE DEF s
    <2>3. s # << >>
      BY <2>1, EmptySeq DEF s
    <2>4. QED
      BY <2>1, <2>2, <2>3 DEF s
  <1>2. Append(a, m) = Append(b, n) => a = b /\ m = n
    BY AppendInjective
  <1>. HIDE DEF s
  <1>3. s # a
    BY <1>1
  <1>4. Front(s) = a
    <2>. DEFINE f == SubSeq(s, 1, Len(a))
    <2>1. 1 \in 1 .. Len(s) + 1 /\ Len(a) \in 0 .. Len(s) /\ Len(s) - 1 = Len(a)
      BY <1>1
    <2>2. f = [i \in 1 .. Len(a) |-> s[i]]
      BY <1>1, <2>1
    <2>3. f \in Seq(Nat) /\ Len(f) = Len(a) /\ \A i \in 1 .. Len(a) : f[i] = a[i]
      <3>. HIDE DEF f
      <3>1. \A i \in 1 .. Len(a) : f[i] = a[i] /\ a[i] \in Nat
        BY <1>1, <2>2
      <3>2. f \in [1 .. Len(a) -> Nat]
        BY <2>2, <3>1
      <3>3. f \in Seq(Nat) /\ Len(f) = Len(a)
        <4>. DEFINE len == Len(a)
        <4>1. len \in Nat /\ f \in [1 .. len -> Nat]
          BY <1>1, <3>2
        <4>. HIDE DEF len
        <4>2. f \in Seq(Nat) /\ Len(f) = len
          BY <4>1
        <4>3. QED
          BY <4>2 DEF len
      <3>4. QED
        BY <3>1, <3>3
    <2>4. Front(s) = f
      BY <2>1 DEF Front
    <2>. HIDE DEF f
    <2>5. QED
      BY <2>3, <2>4, SeqEqual
  <1>5. QED
    BY <1>1, <1>2, <1>3, <1>4 DEF s

\* The second of two entries of one name has a greater number.
LEMMA CountGrows ==
  ASSUME NEW n \in Nat, NEW i \in 1 .. n, NEW j \in 1 .. n, i < j,
         NEW name, name[i] = name[j]
  PROVE  LET count(k) == Cardinality({l \in 1 .. k : name[l] = name[k]})
         IN  count(i) \in Nat /\ count(j) \in Nat /\ 1 <= count(i) /\ count(i) < count(j)
  <1>. DEFINE A == {l \in 1 .. i : name[l] = name[i]}
              B == {l \in 1 .. j : name[l] = name[j]}
  <1>1. A \subseteq B /\ i \in A /\ j \in B /\ j \notin A
    OBVIOUS
  <1>2. IsFiniteSet(B)
    <2>1. IsFiniteSet(1 .. j)
      BY FS_Interval
    <2>2. QED
      BY <2>1, FS_Subset
  <1>. HIDE DEF A, B
  <1>3. IsFiniteSet(A) /\ Cardinality(A) <= Cardinality(B) /\ Cardinality(A) # Cardinality(B)
    <2>1. A \in SUBSET B /\ A # B
      BY <1>1
    <2>2. QED
      BY <1>2, <2>1, FS_Subset
  <1>4. Cardinality(A) \in Nat /\ Cardinality(B) \in Nat /\ Cardinality(A) # 0
    BY <1>1, <1>2, <1>3, FS_CardinalityType, FS_EmptySet
  <1>5. QED
    BY <1>3, <1>4 DEF A, B

\* No two entries of a directory have the same name.
LEMMA NamesDiffer ==
  ASSUME NumbersApart, NEW d \in Catalogues, NEW t, NEW spare, TreeOf(d, t, spare),
         NEW dir \in Dirs, NEW i \in DOMAIN t[dir], NEW j \in DOMAIN t[dir], i < j
  PROVE  t[dir][i].name # t[dir][j].name
  <1>1. PICK q : Sorted(PlacedIn(d, dir), q) /\ t[dir] = Numbered(q, spare)
    BY DEF TreeOf
  <1>. DEFINE name == [k \in DOMAIN q |-> Item[q[k].ss][q[k].w].name]
              n(k) == Cardinality({l \in 1 .. k : name[l] = name[k]})
  <1>2. q \in Seq(PlacedIn(d, dir)) /\ DOMAIN q = 1 .. Len(q) /\ Len(q) \in Nat
    BY <1>1 DEF Sorted
  <1>3. DOMAIN t[dir] = 1 .. Len(q)
    BY <1>1, <1>2 DEF Numbered
  <1>4. \A k \in 1 .. Len(q) :
          /\ q[k].ss \in SrcSections /\ q[k].w \in EverIn(q[k].ss)
          /\ q[k].w \in Works
    <2>. SUFFICES ASSUME NEW k \in 1 .. Len(q)
                  PROVE  /\ q[k].ss \in SrcSections /\ q[k].w \in EverIn(q[k].ss)
                         /\ q[k].w \in Works
      OBVIOUS
    <2>1. q[k] \in PlacedIn(d, dir)
      BY <1>2
    <2>2. q[k].ss \in SrcSections /\ q[k].w \in Placed(d, q[k].ss)
      BY <2>1 DEF PlacedIn, PlacedOf
    <2>3. QED
      BY <2>2, ItemsEver DEF Placed
  <1>5. \A k \in 1 .. Len(q) : name[k] = Item[q[k].ss][q[k].w].name /\ name[k] \in Seq(Nat)
    BY <1>2, <1>4, ItemAssumption DEF Copies
  <1>6. \A k \in 1 .. Len(q) :
          t[dir][k].name = IF n(k) > 1 THEN Append(name[k], n(k)) ELSE name[k]
    <2>. SUFFICES ASSUME NEW k \in 1 .. Len(q)
                  PROVE  t[dir][k].name = IF n(k) > 1 THEN Append(name[k], n(k)) ELSE name[k]
      OBVIOUS
    <2>. DEFINE called(m) == Item[q[m].ss][q[m].w].name
                same == {l \in 1 .. k : called(l) = called(k)}
    <2>1. t[dir][k].name = IF Cardinality(same) > 1 THEN Append(called(k), Cardinality(same))
                           ELSE called(k)
      <3>. DEFINE alike(m) == Cardinality({l \in 1 .. m : called(l) = called(m)})
                  shown(m) == IF alike(m) > 1 THEN Append(called(m), alike(m)) ELSE called(m)
                  entry(m) == [name |-> shown(m), ss |-> q[m].ss, w |-> q[m].w,
                               alts |-> StandIns(spare, q[m].ss, q[m].w)]
      <3>1. t[dir] = [m \in DOMAIN q |-> entry(m)]
        BY <1>1 DEF Numbered
      <3>2. entry(k).name = shown(k)
        <4>. HIDE DEF shown
        <4>. QED
          OBVIOUS
      <3>. HIDE DEF entry
      <3>3. t[dir][k].name = shown(k)
        BY <1>2, <3>1, <3>2
      <3>4. QED
        BY <3>3
    <2>2. \A l \in 1 .. k : l \in 1 .. Len(q)
      BY <1>2
    <2>3. same = {l \in 1 .. k : name[l] = name[k]}
      <3>. HIDE DEF name
      <3>. QED
        BY <1>5, <2>2
    <2>4. called(k) = name[k]
      BY <1>5
    <2>. HIDE DEF same, name, called
    <2>5. QED
      BY <2>1, <2>3, <2>4
  <1>7. \A k, l \in 1 .. Len(q) : name[l] # << >> => Front(name[l]) # name[k]
    BY <1>4, <1>5 DEF NumbersApart
  <1>8. \A k \in 1 .. Len(q) : n(k) \in Nat
    <2>. SUFFICES ASSUME NEW k \in 1 .. Len(q) PROVE n(k) \in Nat
      OBVIOUS
    <2>1. IsFiniteSet(1 .. k)
      BY FS_Interval
    <2>. HIDE DEF name
    <2>2. IsFiniteSet({l \in 1 .. k : name[l] = name[k]})
      BY <2>1, FS_Subset
    <2>3. QED
      BY <2>2, FS_CardinalityType
  <1>9. name[i] = name[j] => 1 <= n(i) /\ n(i) < n(j)
    <2>1. i \in 1 .. Len(q) /\ j \in 1 .. Len(q)
      BY <1>3
    <2>. HIDE DEF name
    <2>2. QED
      BY <1>2, <2>1, CountGrows
  <1>. DEFINE x == name[i]
              y == name[j]
              k == n(i)
              l == n(j)
  <1>10. /\ x \in Seq(Nat) /\ y \in Seq(Nat) /\ k \in Nat /\ l \in Nat
         /\ x = y => 1 <= k /\ k < l
         /\ x # << >> => Front(x) # y
         /\ y # << >> => Front(y) # x
         /\ t[dir][i].name = IF k > 1 THEN Append(x, k) ELSE x
         /\ t[dir][j].name = IF l > 1 THEN Append(y, l) ELSE y
    <2>. HIDE DEF name, n
    <2>. QED
      BY <1>3, <1>5, <1>6, <1>7, <1>8, <1>9
  <1>. HIDE DEF x, y, k, l
  <1>11. QED
    <2>1. CASE k > 1 /\ l > 1
      BY <1>10, <2>1, NumberApart
    <2>2. CASE k > 1 /\ ~(l > 1)
      <3>1. Append(x, k) # << >> /\ Front(Append(x, k)) = x
        BY <1>10, NumberApart
      <3>2. Append(x, k) # y
        BY <1>10, <3>1
      <3>3. QED
        BY <1>10, <2>2, <3>2
    <2>3. CASE ~(k > 1) /\ l > 1
      <3>1. Append(y, l) # << >> /\ Front(Append(y, l)) = y
        BY <1>10, NumberApart
      <3>2. Append(y, l) # x
        BY <1>10, <3>1
      <3>3. QED
        BY <1>10, <2>3, <3>2
    <2>4. CASE ~(k > 1) /\ ~(l > 1)
      BY <1>10, <2>4
    <2>5. QED
      BY <2>1, <2>2, <2>3, <2>4

\* Looking a name up finds the entry that is listed under it, as long as no
\* title is another one with a number: buildEntries numbers equal names and
\* does not look at the names it makes, of which the index keeps the last.
THEOREM NamesFindTheirs ==
  ASSUME NumbersApart
  PROVE  ChildrenSpec => []NamesFound
  <1>1. ASSUME Settled, ChildrenInv PROVE NamesFound
    <2>. SUFFICES ASSUME NEW dir \in Dirs, NEW e \in ToSet(tree[dir])
                  PROVE  EntryNamed(tree[dir], e.name) = e
      BY DEF NamesFound
    <2>. DEFINE found == EntryNamed(tree[dir], e.name)
    <2>1. PICK spare : TreeOf(cur, tree, spare)
      BY <1>1, ServedTree
    <2>2. PICK q : /\ DOMAIN tree[dir] = 1 .. Len(q)
                   /\ Len(tree[dir]) = Len(q) /\ Len(q) \in Nat
      BY <1>1, <2>1, EntriesListed, ServedTree
    <2>3. e.name \in NamesIn(tree[dir])
      BY DEF NamesIn
    <2>4. found \in ToSet(tree[dir]) /\ found.name = e.name
      BY <2>2, <2>3, FoundByName
    <2>5. PICK i \in DOMAIN tree[dir] : tree[dir][i] = e
      BY DEF ToSet
    <2>6. PICK j \in DOMAIN tree[dir] : tree[dir][j] = found
      BY <2>4 DEF ToSet
    <2>7. ~(i < j) /\ ~(j < i)
      BY <1>1, <2>1, <2>4, <2>5, <2>6, NamesDiffer, ServedTree
    <2>8. i = j
      BY <2>2, <2>7
    <2>9. QED
      BY <2>5, <2>6, <2>8
  <1>2. QED
    BY <1>1, ChildrenInvariance, PTL

-----------------------------------------------------------------------------
(* Films.                                                                  *)

\* A work has entries from one server.
LEMMA OneServerEach ==
  ASSUME NEW d \in Catalogues, NEW t, NEW spare, TreeOf(d, t, spare),
         NEW dir \in Dirs, NEW e \in ToSet(t[dir]),
         NEW other \in Dirs, NEW o \in ToSet(t[other]), e.w = o.w
  PROVE  Src[e.ss] = Src[o.ss]
  <1>1. /\ e.ss \in SrcSections /\ e.w \in Placed(d, e.ss)
        /\ o.ss \in SrcSections /\ o.w \in Placed(d, o.ss)
    BY EntryPlaced
  <1>2. e.w \in Items(d, e.ss) /\ o.w \in Items(d, o.ss)
    BY <1>1 DEF Placed
  <1>3. Src[e.ss] <= Src[o.ss] /\ Src[o.ss] <= Src[e.ss]
    BY <1>1, <1>2, FirstToHave
  <1>4. QED
    BY <1>1, <1>3, SourcesAssumption

\* Records of one film that send ids of the same schemes have one key.
LEMMA IdsMakeKeys ==
  ASSUME NEW rec, Decoded(rec), IdsAgree(rec),
         NEW ss \in SrcSections, NEW x \in EverIn(ss),
         NEW tt \in SrcSections, NEW y \in EverIn(tt),
         Film[ss][x] = Film[tt][y], Sent[ss][x] = Sent[tt][y], Sent[ss][x] # {}
  PROVE  x = y
  <1>1. /\ DedupKey(rec[ss][x], Src[ss]) = x
        /\ Sent[ss][x] = {scheme \in Schemes : ExternalID(rec[ss][x], scheme) # NoId}
    BY DEF Decoded
  <1>2. /\ DedupKey(rec[tt][y], Src[tt]) = y
        /\ Sent[tt][y] = {scheme \in Schemes : ExternalID(rec[tt][y], scheme) # NoId}
    BY DEF Decoded
  <1>3. Kind(rec[ss][x]) = Kind(rec[tt][y])
    BY DEF IdsAgree
  <1>4. \A scheme \in Schemes :
          ExternalID(rec[ss][x], scheme) = ExternalID(rec[tt][y], scheme)
    <2>. SUFFICES ASSUME NEW scheme \in Schemes
                  PROVE  ExternalID(rec[ss][x], scheme) = ExternalID(rec[tt][y], scheme)
      OBVIOUS
    <2>1. CASE scheme \in Sent[ss][x]
      BY <2>1 DEF IdsAgree
    <2>2. CASE scheme \notin Sent[ss][x]
      BY <1>1, <1>2, <2>2
    <2>3. QED
      BY <2>1, <2>2
  <1>5. \E scheme \in Schemes : ExternalID(rec[ss][x], scheme) # NoId
    BY <1>1
  <1>6. DedupKey(rec[ss][x], Src[ss]) = DedupKey(rec[tt][y], Src[tt])
    BY <1>3, <1>4, <1>5, SameIdsSameWork
  <1>7. QED
    BY <1>1, <1>2, <1>6

\* Where the records of a film do not disagree on its kind and ids, no two
\* servers that send it with ids of the same schemes show it, whatever title,
\* year and number each gives it, not even in directories of different names.
THEOREM OneServerShowsEach ==
  ASSUME NEW rec, Decoded(rec), IdsAgree(rec)
  PROVE  ChildrenSpec => []ShownFromOneServer
  <1>1. ASSUME Settled, ChildrenInv PROVE ShownFromOneServer
    <2>. SUFFICES ASSUME NEW dir \in Dirs, NEW e \in ToSet(tree[dir]),
                         NEW other \in Dirs, NEW o \in ToSet(tree[other]),
                         Film[e.ss][e.w] = Film[o.ss][o.w], Sent[e.ss][e.w] = Sent[o.ss][o.w],
                         Sent[e.ss][e.w] # {}
                  PROVE  Src[e.ss] = Src[o.ss]
      BY DEF ShownFromOneServer, Entries
    <2>1. PICK spare : TreeOf(cur, tree, spare)
      BY <1>1, ServedTree
    <2>2. /\ e.ss \in SrcSections /\ e.w \in Placed(cur, e.ss)
          /\ o.ss \in SrcSections /\ o.w \in Placed(cur, o.ss)
      BY <1>1, <2>1, EntryPlaced, ServedTree
    <2>3. e.w \in EverIn(e.ss) /\ o.w \in EverIn(o.ss)
      BY <1>1, <2>2, ItemsEver, ServedTree DEF Placed
    <2>4. e.w = o.w
      BY <2>2, <2>3, IdsMakeKeys
    <2>5. QED
      BY <1>1, <2>1, <2>4, OneServerEach, ServedTree
  <1>2. QED
    BY <1>1, ChildrenInvariance, PTL

\* Merged, the first server that has a work shows it.
LEMMA FirstShows ==
  ASSUME ~MirrorPrimary, NEW d \in Catalogues, NEW ss \in SrcSections, NEW w \in Items(d, ss)
  PROVE  \E tt \in SrcSections : w \in Placed(d, tt)
  <1>. DEFINE H == {tt \in SrcSections : w \in Items(d, tt)}
              S == {Src[tt] : tt \in H}
  <1>1. S \subseteq Nat /\ S # {}
    BY SourcesAssumption
  <1>2. PICK n \in S : \A m \in S : n <= m
    <2>. HIDE DEF S
    <2>. QED
      BY <1>1, Least
  <1>3. PICK tt \in H : Src[tt] = n
    BY <1>2
  <1>4. \A src : Contributes(src)
    BY DEF Contributes
  <1>5. ASSUME NEW uu \in SrcSections, Src[uu] < Src[tt], w \in Items(d, uu) PROVE FALSE
    <2>1. Src[uu] \in S
      BY <1>5
    <2>2. Src[tt] <= Src[uu] /\ Src[uu] \in Nat /\ Src[tt] \in Nat
      BY <1>2, <1>3, <2>1, SourcesAssumption
    <2>3. QED
      BY <1>5, <2>2
  <1>6. w \notin Claimed(d, Src[tt])
    BY <1>5 DEF Claimed
  <1>7. QED
    BY <1>3, <1>4, <1>6 DEF Placed

\* "A film that disappears with nothing to indicate it ever existed" takes
\* two films that share an id, or title and year without ids, or on one
\* server a rating key: merged, and where none do, each film some listing has
\* is shown somewhere under the root.
THEOREM NoFilmMergedAway ==
  ASSUME ~MirrorPrimary, NEW rec, Decoded(rec), FilmsTellApart(rec)
  PROVE  ChildrenSpec => []NothingMergedAway
  <1>1. ASSUME Settled, ChildrenInv, Rooting PROVE NothingMergedAway
    <2>1. cur \in Catalogues /\ cur.order = SrcSections
      BY <1>1 DEF Settled, Rooting, Rooted
    <2>2. SectionOrder(cur) = SrcSections
      BY <2>1, NoCatalogueAssumption DEF SectionOrder
    <2>. SUFFICES ASSUME NEW ss \in SrcSections, NEW w \in Items(cur, ss)
                  PROVE  \E dir \in cur.sections : \E e \in ToSet(tree[dir]) :
                           Film[e.ss][e.w] = Film[ss][w]
      BY <2>2 DEF NothingMergedAway
    <2>3. PICK spare : TreeOf(cur, tree, spare)
      BY <1>1, ServedTree
    <2>4. PICK tt \in SrcSections : w \in Placed(cur, tt)
      BY <2>1, FirstShows
    <2>. DEFINE dir == DirOf(cur, tt)
    <2>5. dir = ExposedName(Title[tt], Src[tt]) /\ dir \in Dirs
      <3>1. dir = ExposedName(Title[tt], Src[tt])
        BY <2>1 DEF DirOf
      <3>2. Title[tt] \in {Title[s] : s \in SrcSections} \cup {""}
        OBVIOUS
      <3>. HIDE DEF dir
      <3>. DEFINE T == {Title[s] : s \in SrcSections} \cup {""}
      <3>3. Dirs = {ExposedName(title, Src[s]) : title \in T, s \in SrcSections}
        BY DEF Dirs
      <3>4. Title[tt] \in T
        BY <3>2
      <3>. HIDE DEF T
      <3>5. QED
        BY <3>1, <3>3, <3>4
    <2>6. dir \in cur.sections
      BY <1>1, <2>5 DEF Rooting, Rooted, Contributes
    <2>7. \E e \in ToSet(tree[dir]) : e.ss = tt /\ e.w = w
      <3>. DEFINE copies == UNION {{<<uu, x>> : x \in Placed(cur, uu)}
                                   : uu \in {s \in SrcSections : DirOf(cur, s) = dir}}
      <3>1. {<<e.ss, e.w>> : e \in ToSet(tree[dir])} = copies
        BY <2>1, <2>3, <2>5, EntriesMatch
      <3>2. <<tt, w>> \in copies
        BY <2>4
      <3>. HIDE DEF copies
      <3>3. QED
        BY <3>1, <3>2
    <2>8. w \in EverIn(ss) /\ w \in EverIn(tt)
      BY <2>1, <2>4, ItemsEver DEF Placed
    <2>9. Film[tt][w] = Film[ss][w]
      <3>1. DedupKey(rec[tt][w], Src[tt]) = w /\ DedupKey(rec[ss][w], Src[ss]) = w
        BY <2>8 DEF Decoded
      <3>2. \/ SameWork(rec[tt][w], rec[ss][w])
            \/ Src[tt] = Src[ss] /\ rec[tt][w].key = rec[ss][w].key
        BY <3>1, EqualKeys, SourcesAssumption
      <3>3. QED
        BY <2>8, <3>2 DEF FilmsTellApart
    <2>10. QED
      BY <2>6, <2>7, <2>9
  <1>2. ChildrenSpec => []Rooting
    <2>1. ServedSpec => []Rooting
      BY RootStays
    <2>2. QED
      BY <2>1, ChildrenRefinesServed, PTL
  <1>3. QED
    BY <1>1, <1>2, ChildrenInvariance, PTL
=============================================================================
