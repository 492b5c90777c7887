----------------------------- MODULE TreeProofs -----------------------------
(***************************************************************************)
(* What derive computes, for every configuration: the loop of Tree, which  *)
(* walks servers and sections in any order and sorts with what an unstable *)
(* sort may leave, files the copies Merge says, with the fallbacks that    *)
(* stand in for them; and what makes two records one work.                 *)
(***************************************************************************)
EXTENDS Tree, Keys, SequenceTheorems, DataLemmas

\* What a section holds in a catalogue: finitely many works.
LEMMA ItemsOfSection ==
  ASSUME NEW d \in Catalogues, NEW ss \in SrcSections
  PROVE  Items(d, ss) \in SUBSET Works /\ IsFiniteSet(Items(d, ss))
  <1>1. d.raw[ss] \in Versions \cup {None}
    BY DEF Catalogues
  <1>2. CASE d.raw[ss] = None
    BY <1>2, FS_EmptySet DEF Items
  <1>3. CASE d.raw[ss] \in Versions /\ d.raw[ss] # None
    BY <1>3, ContentAssumption, ListingsAssumption DEF Items
  <1>4. QED
    BY <1>1, <1>2, <1>3

-----------------------------------------------------------------------------
(* The walk over servers and sections.                                     *)

\* The sections of the first n servers, each once, by server.
InOrder(n, walk) ==
  /\ walk \in Seq(SrcSections)
  /\ ToSet(walk) = {ss \in SrcSections : Src[ss] < n}
  /\ \A i, j \in 1 .. Len(walk) : i < j => walk[i] # walk[j] /\ Src[walk[i]] <= Src[walk[j]]

\* A walk goes on with the sections of the next server.
LEMMA WalkOn ==
  ASSUME NEW n \in 1 .. NSources, NEW walk, InOrder(n - 1, walk),
         NEW own \in SetToSeqs({ss \in SrcSections : Src[ss] = n - 1})
  PROVE  InOrder(n, walk \o own)
  <1>. DEFINE S == {ss \in SrcSections : Src[ss] = n - 1}
              on == walk \o own
              l == Len(walk)
              m == Len(own)
  <1>1. IsFiniteSet(S)
    BY SectionsAssumption, FS_Subset
  <1>2. /\ own \in Seq(S) /\ ToSet(own) = S /\ DOMAIN own = 1 .. m
        /\ \A i, j \in DOMAIN own : i # j => own[i] # own[j]
    <2>. HIDE DEF S
    <2>. QED
      BY <1>1, ListingOfSet DEF S
  <1>3. own \in Seq(SrcSections) /\ m \in Nat /\ \A i \in 1 .. m : own[i] \in S
    BY <1>2
  <1>4. walk \in Seq(SrcSections) /\ l \in Nat
    BY DEF InOrder
  <1>5. /\ on \in Seq(SrcSections) /\ Len(on) = l + m
        /\ \A i \in 1 .. l + m : on[i] = IF i <= l THEN walk[i] ELSE own[i - l]
    BY <1>3, <1>4, ConcatProperties
  <1>6. \A i \in 1 .. l : walk[i] \in SrcSections /\ Src[walk[i]] < n - 1
    BY <1>4 DEF InOrder, ToSet
  <1>7. Src \in [SrcSections -> Int]
    BY SourcesAssumption
  <1>. HIDE DEF on, l, m
  <1>8. ToSet(on) = {ss \in SrcSections : Src[ss] < n}
    <2>1. ASSUME NEW i \in 1 .. l + m PROVE on[i] \in SrcSections /\ Src[on[i]] < n
      <3>1. CASE i <= l
        BY <1>4, <1>5, <1>6, <1>7, <3>1
      <3>2. CASE ~(i <= l)
        <4>1. i - l \in 1 .. m /\ on[i] = own[i - l]
          BY <1>3, <1>4, <1>5, <3>2
        <4>2. own[i - l] \in S
          BY <1>3, <4>1
        <4>3. QED
          BY <4>1, <4>2
      <3>3. QED
        BY <3>1, <3>2
    <2>2. ASSUME NEW ss \in SrcSections, Src[ss] < n PROVE \E i \in 1 .. l + m : on[i] = ss
      <3>1. CASE Src[ss] < n - 1
        <4>1. ss \in ToSet(walk)
          BY <3>1 DEF InOrder
        <4>2. PICK i \in 1 .. l : walk[i] = ss
          BY <1>4, <4>1 DEF ToSet, l
        <4>3. i \in 1 .. l + m /\ i <= l
          BY <1>3, <1>4
        <4>4. QED
          BY <1>5, <4>2, <4>3
      <3>2. CASE ~(Src[ss] < n - 1)
        <4>1. Src[ss] = n - 1
          BY <1>7, <2>2, <3>2
        <4>2. ss \in ToSet(own)
          BY <1>2, <4>1
        <4>3. PICK i \in 1 .. m : own[i] = ss
          BY <1>2, <4>2 DEF ToSet
        <4>4. i + l \in 1 .. l + m /\ ~(i + l <= l) /\ (i + l) - l = i
          BY <1>3, <1>4
        <4>5. on[i + l] = ss
          BY <1>5, <4>3, <4>4
        <4>6. QED
          BY <4>4, <4>5
      <3>3. QED
        BY <3>1, <3>2
    <2>3. DOMAIN on = 1 .. l + m
      BY <1>5
    <2>4. QED
      BY <2>1, <2>2, <2>3 DEF ToSet
  <1>9. ASSUME NEW i \in 1 .. l + m, NEW j \in 1 .. l + m, i < j
        PROVE  on[i] # on[j] /\ Src[on[i]] <= Src[on[j]]
    <2>1. CASE j <= l
      <3>1. i \in 1 .. l /\ j \in 1 .. l /\ on[i] = walk[i] /\ on[j] = walk[j]
        BY <1>4, <1>5, <1>9, <2>1
      <3>2. QED
        BY <1>9, <3>1 DEF InOrder, l
    <2>2. CASE i <= l /\ ~(j <= l)
      <3>1. on[i] = walk[i] /\ i \in 1 .. l /\ j - l \in 1 .. m /\ on[j] = own[j - l]
        BY <1>3, <1>4, <1>5, <2>2
      <3>2. Src[on[i]] < n - 1 /\ Src[on[j]] = n - 1 /\ on[i] \in SrcSections
        BY <1>3, <1>6, <3>1
      <3>3. Src[on[i]] \in Int
        BY <1>7, <3>2
      <3>4. QED
        BY <3>2, <3>3
    <2>3. CASE ~(i <= l) /\ ~(j <= l)
      <3>1. i - l \in 1 .. m /\ j - l \in 1 .. m /\ i - l # j - l
            /\ on[i] = own[i - l] /\ on[j] = own[j - l]
        BY <1>3, <1>4, <1>5, <1>9, <2>3
      <3>2. Src[on[i]] = n - 1 /\ Src[on[j]] = n - 1
        BY <1>3, <3>1
      <3>3. QED
        BY <1>2, <3>1, <3>2
    <2>4. QED
      BY <1>4, <1>9, <2>1, <2>2, <2>3
  <1>10. QED
    BY <1>5, <1>8, <1>9 DEF InOrder, on

\* Every walk visits all sections, each once, those of an earlier server
\* first.
LEMMA WalksInOrder ==
  ASSUME NEW walk \in Walks
  PROVE  InOrder(NSources, walk)
  <1>. DEFINE own(n) == SetToSeqs({ss \in SrcSections : Src[ss] = n - 1})
              on(f, n) == {v \o o : v \in f[n - 1], o \in own(n)}
              step(f, n) == IF n = 0 THEN {<< >>} ELSE on(f, n)
              known(k) == \E f : f = [n \in 0 .. k |-> step(f, n)]
              T == {k \in Nat : known(k)}
  <1>1. known(0)
    <2>. DEFINE f == [n \in 0 .. 0 |-> {<< >>}]
    <2>1. f = [n \in 0 .. 0 |-> step(f, n)]
      <3>1. \A n \in 0 .. 0 : f[n] = step(f, n)
        OBVIOUS
      <3>2. f = [n \in 0 .. 0 |-> f[n]]
        OBVIOUS
      <3>. HIDE DEF f, step
      <3>3. QED
        BY <3>1, <3>2
    <2>. HIDE DEF f, step
    <2>2. QED
      BY <2>1
  <1>2. ASSUME NEW k \in Nat, known(k) PROVE known(k + 1)
    <2>1. PICK f : f = [n \in 0 .. k |-> step(f, n)]
      <3>. HIDE DEF step
      <3>. QED
        BY <1>2
    <2>. DEFINE g == [n \in 0 .. k + 1 |-> IF n <= k THEN f[n] ELSE step(f, n)]
    <2>2. \A n \in 0 .. k + 1 : n # 0 => n - 1 \in 0 .. k /\ g[n - 1] = f[n - 1]
      OBVIOUS
    <2>3. \A n \in 0 .. k + 1 : g[n] = step(f, n)
      <3>. HIDE DEF step
      <3>. QED
        BY <2>1
    <2>4. \A n \in 0 .. k + 1 : step(f, n) = step(g, n)
      <3>1. ASSUME NEW n \in 0 .. k + 1, n # 0 PROVE on(f, n) = on(g, n)
        <4>1. f[n - 1] = g[n - 1]
          BY <2>2, <3>1
        <4>. HIDE DEF g, own
        <4>2. QED
          BY <4>1
      <3>. HIDE DEF on
      <3>2. QED
        BY <3>1
    <2>5. g = [n \in 0 .. k + 1 |-> g[n]]
      OBVIOUS
    <2>6. g = [n \in 0 .. k + 1 |-> step(g, n)]
      <3>. HIDE DEF g, step
      <3>. QED
        BY <2>3, <2>4, <2>5
    <2>. HIDE DEF g, step
    <2>7. QED
      BY <2>6
  <1>3. known(NSources)
    <2>. HIDE DEF known
    <2>1. 0 \in T /\ \A k \in Nat : k \in T => k + 1 \in T
      BY <1>1, <1>2
    <2>2. Nat \subseteq T
      <3>. HIDE DEF T
      <3>. QED
        BY <2>1, SetOfNaturals
    <2>3. QED
      BY <2>2, SourcesAssumption
  <1>. DEFINE F == CHOOSE f : f = [n \in 0 .. NSources |-> step(f, n)]
  <1>4. F = [n \in 0 .. NSources |-> step(F, n)]
    <2>. HIDE DEF step
    <2>. QED
      BY <1>3
  <1>5. Walks = F[NSources]
    BY DEF Walks
  <1>. HIDE DEF F
  <1>. DEFINE U == {k \in Nat : k <= NSources => \A w \in F[k] : InOrder(k, w)}
  <1>6. 0 \in U
    <2>1. F[0] = {<< >>}
      BY <1>4, SourcesAssumption
    <2>2. InOrder(0, << >>)
      <3>1. << >> \in Seq(SrcSections) /\ Len(<< >>) = 0 /\ ToSet(<< >>) = {}
        BY DEF ToSet
      <3>2. {ss \in SrcSections : Src[ss] < 0} = {}
        BY SourcesAssumption
      <3>3. QED
        BY <3>1, <3>2 DEF InOrder
    <2>3. QED
      BY <2>1, <2>2
  <1>7. ASSUME NEW k \in Nat, k \in U PROVE k + 1 \in U
    <2>. SUFFICES ASSUME k + 1 <= NSources, NEW w \in F[k + 1] PROVE InOrder(k + 1, w)
      OBVIOUS
    <2>1. k + 1 \in 1 .. NSources /\ k + 1 \in 0 .. NSources /\ k + 1 # 0
      BY SourcesAssumption
    <2>2. F[k + 1] = on(F, k + 1)
      <3>. HIDE DEF on
      <3>. QED
        BY <1>4, <2>1
    <2>3. PICK u \in F[k + 1 - 1], o \in own(k + 1) : w = u \o o
      <3>1. w \in on(F, k + 1)
        <4>. HIDE DEF on
        <4>. QED
          BY <2>2
      <3>. HIDE DEF own
      <3>2. w \in {v \o o : v \in F[k + 1 - 1], o \in own(k + 1)}
        BY <3>1
      <3>. HIDE DEF on
      <3>3. QED
        BY <3>2
    <2>4. InOrder(k + 1 - 1, u)
      <3>1. k + 1 - 1 = k /\ k <= NSources
        BY <2>1, SourcesAssumption
      <3>2. \A v \in F[k] : InOrder(k, v)
        BY <1>7, <3>1
      <3>3. QED
        BY <2>3, <3>1, <3>2
    <2>5. QED
      BY <2>1, <2>3, <2>4, WalkOn
  <1>8. NSources \in U
    <2>. HIDE DEF U
    <2>1. Nat \subseteq U
      BY <1>6, <1>7, SetOfNaturals
    <2>2. QED
      BY <2>1, SourcesAssumption
  <1>9. QED
    BY <1>5, <1>8, SourcesAssumption

-----------------------------------------------------------------------------
(* The loop.                                                               *)

\* What the loop keeps while it walks.
Seen(d) ==
  [src     : Nat,
   claimed : SUBSET Works,
   mine    : SUBSET Works,
   placed  : SUBSET [ss : SrcSections, w : Works, dir : {DirOf(d, ss) : ss \in SrcSections}],
   spare   : Seq([ss : SrcSections, works : SUBSET Works])]

\* A visit keeps the types of what the loop keeps.
LEMMA VisitType ==
  ASSUME NEW d \in Catalogues, NEW seen \in Seen(d), NEW ss \in SrcSections
  PROVE  Visit(d, seen, ss) \in Seen(d)
  <1>. DEFINE dirs == {DirOf(d, tt) : tt \in SrcSections}
  <1>1. Items(d, ss) \in SUBSET Works /\ Src[ss] \in Nat /\ DirOf(d, ss) \in dirs
    BY ItemsOfSection, SourcesAssumption
  <1>. DEFINE claimed == IF Src[ss] = seen.src THEN seen.claimed ELSE seen.claimed \cup seen.mine
              aside == {w \in Items(d, ss) : w \in claimed \/ ~Contributes(Src[ss])}
              mine == Items(d, ss) \ aside
              placed == {[ss |-> ss, w |-> w, dir |-> DirOf(d, ss)] : w \in mine}
              kept == [ss |-> ss, works |-> aside]
              spare == IF aside = {} THEN seen.spare ELSE Append(seen.spare, kept)
  <1>2. claimed \in SUBSET Works /\ aside \in SUBSET Works /\ mine \in SUBSET Works
    BY <1>1 DEF Seen
  <1>3. placed \in SUBSET [ss : SrcSections, w : Works, dir : dirs]
    BY <1>1, <1>2
  <1>4. spare \in Seq([ss : SrcSections, works : SUBSET Works])
    <2>1. seen.spare \in Seq([ss : SrcSections, works : SUBSET Works])
      BY DEF Seen
    <2>2. kept \in [ss : SrcSections, works : SUBSET Works]
      BY <1>2
    <2>. HIDE DEF kept, aside
    <2>3. QED
      BY <2>1, <2>2, AppendProperties
  <1>5. Visit(d, seen, ss) =
          [src |-> Src[ss], claimed |-> claimed,
           mine |-> mine \cup (IF Src[ss] = seen.src THEN seen.mine ELSE {}),
           placed |-> seen.placed \cup placed, spare |-> spare]
    BY DEF Visit
  <1>6. seen.mine \in SUBSET Works
        /\ seen.placed \in SUBSET [ss : SrcSections, w : Works, dir : dirs]
    BY DEF Seen
  <1>. HIDE DEF dirs, claimed, aside, mine, placed, kept, spare
  <1>7. QED
    BY <1>1, <1>2, <1>3, <1>4, <1>5, <1>6 DEF Seen, dirs

\* Visited goes along the walk.
LEMMA Visiting ==
  ASSUME NEW d \in Catalogues, NEW walk \in Seq(SrcSections)
  PROVE  \E at : /\ at[0] = NothingSeen
                 /\ \A i \in 1 .. Len(walk) : at[i] = Visit(d, at[i - 1], walk[i])
                 /\ \A i \in 0 .. Len(walk) : at[i] \in Seen(d)
                 /\ Visited(d, walk) = at[Len(walk)]
  <1>. DEFINE n == Len(walk)
              step == [z \in Seen(d) \X (1 .. n) |-> Visit(d, z[1], walk[z[2]])]
              body(f, s) == IF s = {} THEN NothingSeen
                            ELSE Visit(d, f[s \ {Max(s)}], walk[Max(s)])
              F == CHOOSE f : f = [s \in SUBSET DOMAIN walk |-> body(f, s)]
  <1>1. n \in Nat /\ DOMAIN walk = 1 .. n /\ \A i \in 1 .. n : walk[i] \in SrcSections
    OBVIOUS
  <1>2. Visited(d, walk) = F[DOMAIN walk]
    BY DEF Visited, FoldLeft, MapThenFoldSet
  <1>3. NothingSeen \in Seen(d)
    <2>1. << >> \in Seq([ss : SrcSections, works : SUBSET Works])
      OBVIOUS
    <2>2. QED
      BY <2>1 DEF NothingSeen, Seen
  <1>4. step \in [Seen(d) \X (1 .. n) -> Seen(d)]
    <2>1. \A seen \in Seen(d) : \A i \in 1 .. n : Visit(d, seen, walk[i]) \in Seen(d)
      BY <1>1, VisitType
    <2>2. QED
      BY <2>1
  <1>5. PICK f \in [SUBSET (1 .. n) -> Seen(d)] : Folding(f, NothingSeen, n, step)
    <2>. HIDE DEF step, n, F, body
    <2>. QED
      BY <1>1, <1>3, <1>4, FoldExists
  <1>6. \A s \in SUBSET (1 .. n) : f[s] = body(f, s)
    <2>. SUFFICES ASSUME NEW s \in SUBSET (1 .. n) PROVE f[s] = body(f, s)
      OBVIOUS
    <2>1. CASE s = {}
      BY <1>5, <2>1 DEF Folding
    <2>2. CASE s # {}
      <3>1. Max(s) \in 1 .. n
        <4>. HIDE DEF n
        <4>. QED
          BY <1>1, <2>2, Greatest
      <3>2. f[s \ {Max(s)}] \in Seen(d)
        OBVIOUS
      <3>3. f[s] = step[<<f[s \ {Max(s)}], Max(s)>>]
        <4>. HIDE DEF step
        <4>. QED
          BY <1>5, <2>2 DEF Folding
      <3>4. QED
        BY <2>2, <3>1, <3>2, <3>3
    <2>3. QED
      BY <2>1, <2>2
  <1>7. F = [s \in SUBSET DOMAIN walk |-> body(F, s)]
    <2>1. f = [s \in SUBSET DOMAIN walk |-> f[s]]
      BY <1>1
    <2>2. f = [s \in SUBSET DOMAIN walk |-> body(f, s)]
      <3>. HIDE DEF body
      <3>. QED
        BY <1>1, <1>6, <2>1
    <2>. HIDE DEF body
    <2>3. QED
      BY <2>2
  <1>. DEFINE at == [i \in 0 .. n |-> F[1 .. i]]
  <1>8. at[0] = NothingSeen
    <2>1. 1 .. 0 = {} /\ {} \in SUBSET DOMAIN walk
      OBVIOUS
    <2>. HIDE DEF F
    <2>2. F[{}] = NothingSeen
      BY <1>7, <2>1
    <2>3. QED
      BY <1>1, <2>1, <2>2
  <1>9. ASSUME NEW i \in 1 .. n PROVE at[i] = Visit(d, at[i - 1], walk[i])
    <2>. DEFINE s == 1 .. i
    <2>1. s \in SUBSET (1 .. n) /\ s # {} /\ Max(s) = i /\ s \ {i} = 1 .. (i - 1)
      <3>. HIDE DEF n
      <3>. QED
        BY <1>1, LastIndex
    <2>2. F[s] = Visit(d, F[s \ {i}], walk[i])
      <3>. HIDE DEF F, s
      <3>. QED
        BY <1>1, <1>7, <2>1
    <2>3. at[i] = F[s] /\ at[i - 1] = F[1 .. (i - 1)]
      <3>. HIDE DEF F
      <3>. QED
        BY <1>1
    <2>. HIDE DEF F, s, at, n
    <2>4. QED
      BY <2>1, <2>2, <2>3
  <1>10. \A i \in 0 .. n : at[i] \in Seen(d)
    <2>. DEFINE T == {i \in Nat : i <= n => at[i] \in Seen(d)}
    <2>. HIDE DEF at, n
    <2>1. 0 \in T
      BY <1>3, <1>8
    <2>2. ASSUME NEW i \in Nat, i \in T PROVE i + 1 \in T
      <3>. SUFFICES ASSUME i + 1 <= n PROVE at[i + 1] \in Seen(d)
        OBVIOUS
      <3>1. i + 1 \in 1 .. n /\ (i + 1) - 1 = i /\ at[i] \in Seen(d)
        BY <1>1, <2>2
      <3>2. QED
        BY <1>1, <1>9, <3>1, VisitType
    <2>3. Nat \subseteq T
      <3>. HIDE DEF T
      <3>. QED
        BY <2>1, <2>2, SetOfNaturals
    <2>4. QED
      BY <2>3
  <1>11. Visited(d, walk) = at[n]
    <2>. HIDE DEF F
    <2>. QED
      BY <1>1, <1>2
  <1>. HIDE DEF at
  <1>12. QED
    BY <1>8, <1>9, <1>10, <1>11

\* What section ss keeps aside, and its copies that get a place.
Aside(d, ss) == Items(d, ss) \ Placed(d, ss)

PlacedOf(d, ss) == {[ss |-> ss, w |-> w, dir |-> DirOf(d, ss)] : w \in Placed(d, ss)}

\* The works shown once the sections S have been walked.
ShownBy(d, S) == UNION {Items(d, ss) : ss \in {t \in S : Contributes(Src[t])}}

\* spare is what the sections S keep aside, each section once, by server.
SpareOf(d, S, spare) ==
  /\ spare \in Seq([ss : SrcSections, works : SUBSET Works])
  /\ \A k \in 1 .. Len(spare) : spare[k].ss \in S /\ spare[k].works = Aside(d, spare[k].ss)
  /\ \A ss \in S : Aside(d, ss) # {} => \E k \in 1 .. Len(spare) : spare[k].ss = ss
  /\ \A k, l \in 1 .. Len(spare) : k < l =>
       spare[k].ss # spare[l].ss /\ Src[spare[k].ss] <= Src[spare[l].ss]

\* The invariant of the loop, once it has walked the sections S.
Walked(d, S, seen) ==
  /\ \A ss \in S : Src[ss] <= seen.src
  /\ seen.claimed = ShownBy(d, {ss \in S : Src[ss] < seen.src})
  /\ seen.claimed \cup seen.mine = ShownBy(d, S)
  /\ seen.placed = UNION {PlacedOf(d, ss) : ss \in S}
  /\ SpareOf(d, S, seen.spare)

\* What is kept aside of one more section comes last.
LEMMA SpareStep ==
  ASSUME NEW d \in Catalogues, NEW S \in SUBSET SrcSections, NEW spare, SpareOf(d, S, spare),
         NEW ss \in SrcSections \ S, \A t \in S : Src[t] <= Src[ss]
  PROVE  SpareOf(d, S \cup {ss},
                 IF Aside(d, ss) = {} THEN spare
                 ELSE Append(spare, [ss |-> ss, works |-> Aside(d, ss)]))
  <1>1. CASE Aside(d, ss) = {}
    BY <1>1 DEF SpareOf
  <1>2. CASE Aside(d, ss) # {}
    <2>. DEFINE R == [ss : SrcSections, works : SUBSET Works]
                kept == [ss |-> ss, works |-> Aside(d, ss)]
                more == Append(spare, kept)
                n == Len(spare)
    <2>1. kept \in R
      BY ItemsOfSection DEF Aside
    <2>2. spare \in Seq(R) /\ n \in Nat
      BY DEF SpareOf
    <2>3. /\ more \in Seq(R) /\ Len(more) = n + 1
          /\ \A k \in 1 .. n : more[k] = spare[k]
          /\ more[n + 1] = kept
      <3>. HIDE DEF kept, R
      <3>. QED
        BY <2>1, <2>2, AppendProperties
    <2>4. kept.ss = ss /\ kept.works = Aside(d, ss)
      OBVIOUS
    <2>. HIDE DEF kept, more, n
    <2>5. \A k \in 1 .. n + 1 : more[k].ss \in S \cup {ss} /\ more[k].works = Aside(d, more[k].ss)
      <3>. TAKE k \in 1 .. n + 1
      <3>1. CASE k = n + 1
        BY <2>3, <2>4, <3>1
      <3>2. CASE k # n + 1
        <4>1. k \in 1 .. n
          BY <2>2, <3>2
        <4>2. QED
          BY <2>3, <4>1 DEF SpareOf, n
      <3>3. QED
        BY <3>1, <3>2
    <2>6. \A t \in S \cup {ss} : Aside(d, t) # {} => \E k \in 1 .. n + 1 : more[k].ss = t
      <3>. SUFFICES ASSUME NEW t \in S \cup {ss}, Aside(d, t) # {}
                    PROVE  \E k \in 1 .. n + 1 : more[k].ss = t
        OBVIOUS
      <3>1. CASE t = ss
        <4>1. n + 1 \in 1 .. n + 1
          BY <2>2
        <4>2. QED
          BY <2>3, <2>4, <3>1, <4>1
      <3>2. CASE t \in S
        <4>1. PICK k \in 1 .. n : spare[k].ss = t
          BY <3>2 DEF SpareOf, n
        <4>2. k \in 1 .. n + 1 /\ more[k] = spare[k]
          BY <2>2, <2>3
        <4>3. QED
          BY <4>1, <4>2
      <3>3. QED
        BY <3>1, <3>2
    <2>7. \A k, l \in 1 .. n + 1 : k < l =>
            more[k].ss # more[l].ss /\ Src[more[k].ss] <= Src[more[l].ss]
      <3>. SUFFICES ASSUME NEW k \in 1 .. n + 1, NEW l \in 1 .. n + 1, k < l
                    PROVE  more[k].ss # more[l].ss /\ Src[more[k].ss] <= Src[more[l].ss]
        OBVIOUS
      <3>1. k \in 1 .. n /\ more[k] = spare[k] /\ spare[k].ss \in S
        <4>1. k \in 1 .. n
          BY <2>2
        <4>2. QED
          BY <2>3, <4>1 DEF SpareOf, n
      <3>2. CASE l = n + 1
        BY <2>3, <2>4, <3>1, <3>2
      <3>3. CASE l # n + 1
        <4>1. l \in 1 .. n /\ more[l] = spare[l]
          BY <2>2, <2>3, <3>3
        <4>2. QED
          BY <3>1, <4>1 DEF SpareOf, n
      <3>4. QED
        BY <3>2, <3>3
    <2>8. SpareOf(d, S \cup {ss}, more)
      BY <2>3, <2>5, <2>6, <2>7 DEF SpareOf
    <2>9. QED
      BY <1>2, <2>8 DEF more, kept
  <1>3. QED
    BY <1>1, <1>2

\* Visiting one more section, all those of earlier servers being behind.
LEMMA VisitStep ==
  ASSUME NEW d \in Catalogues, NEW S \in SUBSET SrcSections, NEW seen \in Seen(d),
         Walked(d, S, seen), NEW ss \in SrcSections \ S, seen.src <= Src[ss],
         \A t \in SrcSections : Src[t] < Src[ss] => t \in S
  PROVE  Walked(d, S \cup {ss}, Visit(d, seen, ss))
  <1>. DEFINE src == Src[ss]
              claimed == IF src = seen.src THEN seen.claimed ELSE seen.claimed \cup seen.mine
              aside == {w \in Items(d, ss) : w \in claimed \/ ~Contributes(src)}
              mine == Items(d, ss) \ aside
              allmine == mine \cup (IF src = seen.src THEN seen.mine ELSE {})
              placed == {[ss |-> ss, w |-> w, dir |-> DirOf(d, ss)] : w \in mine}
              spare == IF aside = {} THEN seen.spare
                       ELSE Append(seen.spare, [ss |-> ss, works |-> aside])
              on == S \cup {ss}
  <1>1. Visit(d, seen, ss) =
          [src |-> src, claimed |-> claimed, mine |-> allmine,
           placed |-> seen.placed \cup placed, spare |-> spare]
    BY DEF Visit
  <1>2. Src \in [SrcSections -> Int] /\ src \in Int /\ seen.src \in Int
    BY SourcesAssumption DEF Seen
  <1>3. \A t \in S : Src[t] <= seen.src
    BY DEF Walked
  <1>4. claimed = ShownBy(d, {t \in S : Src[t] < src})
    <2>1. CASE src = seen.src
      BY <2>1 DEF Walked
    <2>2. CASE src # seen.src
      <3>1. {t \in S : Src[t] < src} = S
        BY <1>2, <1>3, <2>2
      <3>2. QED
        BY <2>2, <3>1 DEF Walked
    <2>3. QED
      BY <2>1, <2>2
  <1>5. claimed = Claimed(d, src)
    <2>1. {t \in S : Src[t] < src} = {t \in SrcSections : Src[t] < src}
      OBVIOUS
    <2>2. claimed = UNION {Items(d, tt) : tt \in {t \in SrcSections : Src[t] < src /\ Contributes(Src[t])}}
      <3>1. {t \in {u \in SrcSections : Src[u] < src} : Contributes(Src[t])}
              = {t \in SrcSections : Src[t] < src /\ Contributes(Src[t])}
        OBVIOUS
      <3>. HIDE DEF claimed, src
      <3>2. QED
        BY <1>4, <2>1, <3>1 DEF ShownBy
    <2>3. QED
      BY <2>2 DEF Claimed
  <1>6. mine = Placed(d, ss) /\ aside = Aside(d, ss)
    <2>. HIDE DEF claimed
    <2>1. mine = Placed(d, ss)
      BY <1>5 DEF Placed
    <2>2. aside = Items(d, ss) \ mine
      OBVIOUS
    <2>3. QED
      BY <2>1, <2>2 DEF Aside
  <1>7. \A t \in on : Src[t] <= src
    BY <1>2, <1>3
  <1>8. {t \in S : Src[t] < src} = {t \in on : Src[t] < src}
    BY <1>2
  <1>9. claimed \cup allmine = ShownBy(d, on)
    <2>1. ShownBy(d, on) = ShownBy(d, S) \cup (IF Contributes(src) THEN Items(d, ss) ELSE {})
      BY DEF ShownBy
    <2>2. claimed \cup mine = claimed \cup (IF Contributes(src) THEN Items(d, ss) ELSE {})
      OBVIOUS
    <2>3. CASE src = seen.src
      <3>1. claimed = seen.claimed /\ allmine = mine \cup seen.mine
        BY <2>3
      <3>2. seen.claimed \cup seen.mine = ShownBy(d, S)
        BY DEF Walked
      <3>. HIDE DEF claimed, mine, allmine, src
      <3>3. QED
        BY <2>1, <2>2, <3>1, <3>2
    <2>4. CASE src # seen.src
      <3>1. claimed = ShownBy(d, S) /\ allmine = mine
        BY <2>4 DEF Walked
      <3>. HIDE DEF claimed, mine, allmine, src
      <3>2. QED
        BY <2>1, <2>2, <3>1
    <2>5. QED
      BY <2>3, <2>4
  <1>10. seen.placed \cup placed = UNION {PlacedOf(d, t) : t \in on}
    <2>1. placed = PlacedOf(d, ss)
      <3>. HIDE DEF mine
      <3>. QED
        BY <1>6 DEF PlacedOf
    <2>2. seen.placed = UNION {PlacedOf(d, t) : t \in S}
      BY DEF Walked
    <2>. HIDE DEF placed
    <2>3. QED
      BY <2>1, <2>2
  <1>11. SpareOf(d, on, spare)
    <2>1. \A t \in S : Src[t] <= Src[ss]
      BY <1>7
    <2>2. SpareOf(d, S, seen.spare)
      BY DEF Walked
    <2>3. SpareOf(d, on, IF Aside(d, ss) = {} THEN seen.spare
                         ELSE Append(seen.spare, [ss |-> ss, works |-> Aside(d, ss)]))
      BY <2>1, <2>2, SpareStep
    <2>. HIDE DEF aside
    <2>4. QED
      BY <1>6, <2>3
  <1>. DEFINE visited == Visit(d, seen, ss)
  <1>12. /\ visited.src = src /\ visited.claimed = claimed /\ visited.mine = allmine
         /\ visited.placed = seen.placed \cup placed /\ visited.spare = spare
    <2>. HIDE DEF src, claimed, allmine, placed, spare
    <2>. QED
      BY <1>1
  <1>. HIDE DEF src, claimed, allmine, placed, spare, on, visited
  <1>13. Walked(d, on, visited)
    BY <1>4, <1>7, <1>8, <1>9, <1>10, <1>11, <1>12 DEF Walked
  <1>14. QED
    BY <1>13 DEF on, visited

\* At the end of any walk the loop has walked all sections.
LEMMA VisitedAll ==
  ASSUME NEW d \in Catalogues, NEW walk \in Walks
  PROVE  Walked(d, SrcSections, Visited(d, walk))
  <1>. DEFINE n == Len(walk)
              behind(i) == {walk[j] : j \in 1 .. i}
  <1>1. InOrder(NSources, walk)
    BY WalksInOrder
  <1>2. walk \in Seq(SrcSections) /\ n \in Nat /\ DOMAIN walk = 1 .. n
    BY <1>1 DEF InOrder
  <1>3. behind(n) = SrcSections
    <2>1. ToSet(walk) = SrcSections
      BY <1>1, SourcesAssumption DEF InOrder
    <2>2. QED
      BY <1>2, <2>1 DEF ToSet
  <1>4. PICK at : /\ at[0] = NothingSeen
                  /\ \A i \in 1 .. n : at[i] = Visit(d, at[i - 1], walk[i])
                  /\ \A i \in 0 .. n : at[i] \in Seen(d)
                  /\ Visited(d, walk) = at[n]
    BY <1>2, Visiting
  <1>5. Src \in [SrcSections -> Nat]
    BY SourcesAssumption
  <1>. HIDE DEF n
  <1>. DEFINE T == {i \in Nat : i <= n =>
                      /\ Walked(d, behind(i), at[i])
                      /\ at[i].src = IF i = 0 THEN 0 ELSE Src[walk[i]]}
  <1>6. 0 \in T
    <2>1. behind(0) = {}
      OBVIOUS
    <2>2. SpareOf(d, {}, << >>)
      <3>1. << >> \in Seq([ss : SrcSections, works : SUBSET Works]) /\ Len(<< >>) = 0
        OBVIOUS
      <3>2. QED
        BY <3>1 DEF SpareOf
    <2>3. Walked(d, {}, NothingSeen)
      BY <2>2 DEF Walked, NothingSeen, ShownBy
    <2>4. NothingSeen.src = 0
      BY DEF NothingSeen
    <2>5. QED
      BY <1>4, <2>1, <2>3, <2>4
  <1>7. ASSUME NEW i \in Nat, i \in T PROVE i + 1 \in T
    <2>. SUFFICES ASSUME i + 1 <= n
                  PROVE  /\ Walked(d, behind(i + 1), at[i + 1])
                         /\ at[i + 1].src = Src[walk[i + 1]]
      OBVIOUS
    <2>. DEFINE S == behind(i)
                ss == walk[i + 1]
                seen == at[i]
    <2>1. i + 1 \in 1 .. n /\ (i + 1) - 1 = i /\ i \in 0 .. n /\ i <= n
      BY <1>2
    <2>2. Walked(d, S, seen) /\ seen.src = (IF i = 0 THEN 0 ELSE Src[walk[i]])
      BY <1>7, <2>1
    <2>3. seen \in Seen(d) /\ at[i + 1] = Visit(d, seen, ss)
      BY <1>4, <2>1
    <2>4. ss \in SrcSections /\ \A j \in 1 .. i : walk[j] \in SrcSections /\ j \in 1 .. n
      BY <1>2, <2>1 DEF n
    <2>5. \A j \in 1 .. i : walk[j] # ss /\ Src[walk[j]] <= Src[ss]
      BY <1>1, <2>1, <2>4 DEF InOrder, n
    <2>6. S \in SUBSET SrcSections /\ ss \in SrcSections \ S
      BY <2>4, <2>5
    <2>7. seen.src <= Src[ss]
      <3>1. CASE i = 0
        BY <1>5, <2>2, <2>4, <3>1
      <3>2. CASE i # 0
        BY <2>2, <2>5, <3>2
      <3>3. QED
        BY <3>1, <3>2
    <2>8. ASSUME NEW t \in SrcSections, Src[t] < Src[ss] PROVE t \in S
      <3>1. PICK j \in 1 .. n : walk[j] = t
        BY <1>3
      <3>2. CASE j <= i
        BY <3>1, <3>2
      <3>3. CASE j = i + 1
        BY <1>5, <2>4, <2>8, <3>1, <3>3
      <3>4. CASE j > i + 1
        <4>1. Src[ss] <= Src[t]
          BY <1>1, <2>1, <3>1, <3>4 DEF InOrder, n
        <4>2. QED
          BY <1>5, <2>4, <2>8, <4>1
      <3>5. QED
        BY <1>2, <2>1, <3>2, <3>3, <3>4
    <2>9. Walked(d, S \cup {ss}, at[i + 1])
      <3>. HIDE DEF S, ss, seen
      <3>. QED
        BY <2>2, <2>3, <2>6, <2>7, <2>8, VisitStep
    <2>10. behind(i + 1) = S \cup {ss}
      <3>1. \A j \in 1 .. i + 1 : j \in 1 .. i \/ j = i + 1
        OBVIOUS
      <3>2. 1 .. i \subseteq 1 .. i + 1 /\ i + 1 \in 1 .. i + 1
        OBVIOUS
      <3>3. QED
        BY <3>1, <3>2
    <2>11. at[i + 1].src = Src[ss]
      <3>1. \A s : Visit(d, s, ss).src = Src[ss]
        BY DEF Visit
      <3>2. QED
        BY <2>3, <3>1
    <2>. HIDE DEF S, behind
    <2>12. QED
      BY <2>9, <2>10, <2>11
  <1>8. n \in T
    <2>. HIDE DEF T
    <2>1. Nat \subseteq T
      BY <1>6, <1>7, SetOfNaturals
    <2>2. QED
      BY <1>2, <2>1
  <1>. HIDE DEF behind
  <1>9. QED
    BY <1>2, <1>3, <1>4, <1>8

-----------------------------------------------------------------------------
(* Fallbacks.                                                              *)

\* A copy kept aside that stands in for another of the same work.
Fits(aside, ss, w) == w \in aside.works /\ Item[aside.ss][w].file = Item[ss][w].file

\* The fallbacks of a copy are what is kept aside of its work, where size and
\* container agree, in the order in which it was kept aside.
LEMMA StandInsOf ==
  ASSUME NEW d, NEW spare, SpareOf(d, SrcSections, spare),
         NEW ss \in SrcSections, NEW w
  PROVE  LET alts == StandIns(spare, ss, w)
         IN  /\ alts \in Seq(SrcSections)
             /\ ToSet(alts) = {tt \in SrcSections :
                  w \in Aside(d, tt) /\ Item[tt][w].file = Item[ss][w].file}
             /\ \A i, j \in 1 .. Len(alts) : i < j =>
                  alts[i] # alts[j] /\ Src[alts[i]] <= Src[alts[j]]
  <1>. DEFINE R == [ss : SrcSections, works : SUBSET Works]
              n == Len(spare)
              V == Seq(SrcSections)
              one(alts, aside) == IF Fits(aside, ss, w) THEN Append(alts, aside.ss) ELSE alts
              step == [z \in V \X (1 .. n) |-> one(z[1], spare[z[2]])]
              body(f, s) == IF s = {} THEN << >> ELSE one(f[s \ {Max(s)}], spare[Max(s)])
              F == CHOOSE f : f = [s \in SUBSET DOMAIN spare |-> body(f, s)]
  <1>1. spare \in Seq(R) /\ n \in Nat /\ DOMAIN spare = 1 .. n
        /\ \A k \in 1 .. n : spare[k] \in R /\ spare[k].ss \in SrcSections
    <2>1. spare \in Seq(R)
      BY DEF SpareOf
    <2>2. n \in Nat /\ DOMAIN spare = 1 .. n /\ \A k \in 1 .. n : spare[k] \in R
      <3>. HIDE DEF R
      <3>. QED
        BY <2>1
    <2>3. \A r \in R : r.ss \in SrcSections
      OBVIOUS
    <2>. HIDE DEF R, n
    <2>4. QED
      BY <2>1, <2>2, <2>3
  <1>2. StandIns(spare, ss, w) = F[DOMAIN spare]
    BY DEF StandIns, FoldLeft, MapThenFoldSet, Fits
  <1>3. << >> \in V
    OBVIOUS
  <1>4. \A alts \in V : \A k \in 1 .. n : one(alts, spare[k]) \in V
    <2>. TAKE alts \in V
    <2>. TAKE k \in 1 .. n
    <2>1. Append(alts, spare[k].ss) \in V
      BY <1>1, AppendProperties
    <2>2. QED
      BY <2>1
  <1>5. step \in [V \X (1 .. n) -> V]
    <2>. HIDE DEF one, V
    <2>. QED
      BY <1>4
  <1>6. PICK f \in [SUBSET (1 .. n) -> V] : Folding(f, << >>, n, step)
    <2>. HIDE DEF step, n, F, body, V
    <2>. QED
      BY <1>1, <1>3, <1>5, FoldExists
  <1>7. \A s \in SUBSET (1 .. n) : f[s] = body(f, s)
    <2>. SUFFICES ASSUME NEW s \in SUBSET (1 .. n) PROVE f[s] = body(f, s)
      OBVIOUS
    <2>1. CASE s = {}
      BY <1>6, <2>1 DEF Folding
    <2>2. CASE s # {}
      <3>1. Max(s) \in 1 .. n
        <4>. HIDE DEF n
        <4>. QED
          BY <1>1, <2>2, Greatest
      <3>2. f[s \ {Max(s)}] \in V
        OBVIOUS
      <3>3. f[s] = step[<<f[s \ {Max(s)}], Max(s)>>]
        <4>. HIDE DEF step
        <4>. QED
          BY <1>6, <2>2 DEF Folding
      <3>. HIDE DEF one, V
      <3>4. QED
        BY <2>2, <3>1, <3>2, <3>3
    <2>3. QED
      BY <2>1, <2>2
  <1>8. F = [s \in SUBSET DOMAIN spare |-> body(F, s)]
    <2>1. f = [s \in SUBSET DOMAIN spare |-> f[s]]
      BY <1>1
    <2>2. f = [s \in SUBSET DOMAIN spare |-> body(f, s)]
      <3>. HIDE DEF body
      <3>. QED
        BY <1>1, <1>7, <2>1
    <2>. HIDE DEF body
    <2>3. QED
      BY <2>2
  <1>. DEFINE at == [i \in 0 .. n |-> F[1 .. i]]
  <1>9. at[0] = << >>
    <2>1. 1 .. 0 = {} /\ {} \in SUBSET DOMAIN spare
      OBVIOUS
    <2>. HIDE DEF F
    <2>2. F[{}] = << >>
      BY <1>8, <2>1
    <2>3. QED
      BY <1>1, <2>1, <2>2
  <1>10. ASSUME NEW i \in 1 .. n PROVE at[i] = one(at[i - 1], spare[i])
    <2>. DEFINE s == 1 .. i
    <2>1. s \in SUBSET (1 .. n) /\ s # {} /\ Max(s) = i /\ s \ {i} = 1 .. (i - 1)
      <3>. HIDE DEF n
      <3>. QED
        BY <1>1, LastIndex
    <2>2. F[s] = one(F[s \ {i}], spare[i])
      <3>. HIDE DEF F, s, one
      <3>. QED
        BY <1>1, <1>8, <2>1
    <2>3. at[i] = F[s] /\ at[i - 1] = F[1 .. (i - 1)]
      <3>. HIDE DEF F
      <3>. QED
        BY <1>1
    <2>. HIDE DEF F, s, at, n, one
    <2>4. QED
      BY <2>1, <2>2, <2>3
  <1>11. StandIns(spare, ss, w) = at[n]
    <2>. HIDE DEF F
    <2>. QED
      BY <1>1, <1>2
  <1>. HIDE DEF at, F, body, step
  <1>. DEFINE fitting(i) == {spare[k].ss : k \in {l \in 1 .. i : Fits(spare[l], ss, w)}}
              good(i) == /\ at[i] \in V
                         /\ ToSet(at[i]) = fitting(i)
                         /\ \A j, k \in 1 .. Len(at[i]) : j < k =>
                              at[i][j] # at[i][k] /\ Src[at[i][j]] <= Src[at[i][k]]
              T == {i \in Nat : i <= n => good(i)}
  <1>12. good(0)
    <2>1. fitting(0) = {}
      OBVIOUS
    <2>2. << >> \in V /\ ToSet(<< >>) = {} /\ Len(<< >>) = 0
      BY DEF ToSet
    <2>3. \A j, k \in 1 .. Len(<< >>) : FALSE
      BY <2>2
    <2>. HIDE DEF fitting, V
    <2>4. at[0] \in V /\ ToSet(at[0]) = fitting(0)
      BY <1>9, <2>1, <2>2
    <2>5. \A j, k \in 1 .. Len(at[0]) : FALSE
      BY <1>9, <2>3
    <2>6. QED
      BY <2>4, <2>5
  <1>13. ASSUME NEW i \in Nat, good(i), i + 1 <= n PROVE good(i + 1)
    <2>. DEFINE aside == spare[i + 1]
    <2>1. i + 1 \in 1 .. n /\ (i + 1) - 1 = i /\ 1 .. i \subseteq 1 .. n
      BY <1>1, <1>13
    <2>2. at[i + 1] = one(at[i], aside)
      BY <1>10, <2>1
    <2>3. aside.ss \in SrcSections
      BY <1>1, <2>1
    <2>4. CASE ~Fits(aside, ss, w)
      <3>1. at[i + 1] = at[i]
        BY <2>2, <2>4
      <3>2. fitting(i + 1) = fitting(i)
        <4>1. {l \in 1 .. i + 1 : Fits(spare[l], ss, w)} = {l \in 1 .. i : Fits(spare[l], ss, w)}
          BY <2>4
        <4>2. QED
          BY <4>1
      <3>. HIDE DEF fitting, V
      <3>3. QED
        BY <1>13, <3>1, <3>2
    <2>5. CASE Fits(aside, ss, w)
      <3>. DEFINE alts == at[i]
                  more == at[i + 1]
                  m == Len(alts)
      <3>1. alts \in V /\ m \in Nat /\ ToSet(alts) = fitting(i) /\ DOMAIN alts = 1 .. m
        BY <1>13
      <3>2. more = Append(alts, aside.ss)
        BY <2>2, <2>5
      <3>3. /\ more \in V /\ Len(more) = m + 1 /\ DOMAIN more = 1 .. m + 1
            /\ \A j \in 1 .. m : more[j] = alts[j]
            /\ more[m + 1] = aside.ss
        <4>. HIDE DEF alts, more, aside
        <4>1. more \in V /\ Len(more) = m + 1
              /\ \A j \in 1 .. m : more[j] = alts[j] /\ more[m + 1] = aside.ss
          BY <2>3, <3>1, <3>2, AppendProperties
        <4>2. QED
          BY <2>3, <3>1, <3>2, <4>1, AppendProperties
      <3>. HIDE DEF alts, more, m
      <3>4. ASSUME NEW j \in 1 .. m PROVE alts[j] # aside.ss /\ Src[alts[j]] <= Src[aside.ss]
        <4>1. alts[j] \in fitting(i)
          BY <3>1 DEF ToSet
        <4>2. PICK k \in 1 .. i : alts[j] = spare[k].ss
          BY <4>1
        <4>3. k \in 1 .. n /\ k < i + 1
          BY <2>1
        <4>. HIDE DEF fitting
        <4>4. spare[k].ss # aside.ss /\ Src[spare[k].ss] <= Src[aside.ss]
          BY <2>1, <4>3 DEF SpareOf
        <4>5. QED
          BY <4>2, <4>4
      <3>5. ToSet(more) = fitting(i + 1)
        <4>1. ToSet(more) = ToSet(alts) \cup {aside.ss}
          BY <3>1, <3>3 DEF ToSet
        <4>2. {l \in 1 .. i + 1 : Fits(spare[l], ss, w)}
                = {l \in 1 .. i : Fits(spare[l], ss, w)} \cup {i + 1}
          BY <2>5
        <4>3. fitting(i + 1) = fitting(i) \cup {aside.ss}
          BY <4>2
        <4>4. QED
          BY <3>1, <4>1, <4>3
      <3>6. ASSUME NEW j \in 1 .. m + 1, NEW k \in 1 .. m + 1, j < k
            PROVE  more[j] # more[k] /\ Src[more[j]] <= Src[more[k]]
        <4>1. j \in 1 .. m /\ more[j] = alts[j]
          BY <3>1, <3>3, <3>6
        <4>2. CASE k = m + 1
          BY <3>3, <3>4, <4>1, <4>2
        <4>3. CASE k # m + 1
          <5>1. k \in 1 .. m /\ more[k] = alts[k]
            BY <3>1, <3>3, <4>3
          <5>2. alts[j] # alts[k] /\ Src[alts[j]] <= Src[alts[k]]
            BY <1>13, <3>6, <4>1, <5>1 DEF alts, m
          <5>3. QED
            BY <4>1, <5>1, <5>2
        <4>4. QED
          BY <4>2, <4>3
      <3>. HIDE DEF fitting, V
      <3>7. QED
        BY <3>3, <3>5, <3>6 DEF more
    <2>6. QED
      BY <2>4, <2>5
  <1>14. good(n)
    <2>. HIDE DEF good, n
    <2>1. 0 \in T
      BY <1>12
    <2>2. ASSUME NEW i \in Nat, i \in T PROVE i + 1 \in T
      <3>. SUFFICES ASSUME i + 1 <= n PROVE good(i + 1)
        OBVIOUS
      <3>1. i <= n
        BY <1>1
      <3>2. QED
        BY <1>13, <2>2, <3>1
    <2>3. Nat \subseteq T
      <3>. HIDE DEF T
      <3>. QED
        BY <2>1, <2>2, SetOfNaturals
    <2>4. QED
      BY <1>1, <2>3
  <1>15. fitting(n) = {tt \in SrcSections :
           w \in Aside(d, tt) /\ Item[tt][w].file = Item[ss][w].file}
    <2>1. ASSUME NEW k \in 1 .. n, Fits(spare[k], ss, w)
          PROVE  spare[k].ss \in SrcSections /\ w \in Aside(d, spare[k].ss)
                 /\ Item[spare[k].ss][w].file = Item[ss][w].file
      BY <1>1, <2>1 DEF SpareOf, Fits
    <2>2. ASSUME NEW tt \in SrcSections, w \in Aside(d, tt), Item[tt][w].file = Item[ss][w].file
          PROVE  \E k \in 1 .. n : Fits(spare[k], ss, w) /\ spare[k].ss = tt
      <3>1. PICK k \in 1 .. n : spare[k].ss = tt
        BY <2>2 DEF SpareOf
      <3>2. spare[k].works = Aside(d, tt)
        BY <3>1 DEF SpareOf
      <3>3. QED
        BY <2>2, <3>1, <3>2 DEF Fits
    <2>3. QED
      BY <2>1, <2>2
  <1>. HIDE DEF fitting
  <1>16. QED
    BY <1>11, <1>14, <1>15

-----------------------------------------------------------------------------
(* The listings.                                                           *)

\* q lists the copies S, each once, and none after one it sorts before.
Sorted(S, q) ==
  /\ q \in Seq(S) /\ ToSet(q) = S /\ Len(q) = Cardinality(S)
  /\ \A i, j \in 1 .. Len(q) : i < j => q[i] # q[j] /\ ~SortsAfter(q[i], q[j])

\* The copy sorted last is added to an arrangement of the others.
LEMMA LastSorted ==
  ASSUME NEW S, IsFiniteSet(S), NEW p \in S, NEW q, Sorted(S \ {p}, q),
         \A other \in S : ~SortsAfter(other, p)
  PROVE  Sorted(S, Append(q, p))
  <1>. DEFINE n == Len(q)
              more == Append(q, p)
  <1>1. q \in Seq(S \ {p}) /\ n \in Nat /\ ToSet(q) = S \ {p} /\ DOMAIN q = 1 .. n
    BY DEF Sorted
  <1>2. \A i \in 1 .. n : q[i] \in S /\ q[i] # p
    BY <1>1
  <1>3. q \in Seq(S)
    BY <1>1, <1>2
  <1>4. /\ more \in Seq(S) /\ Len(more) = n + 1 /\ DOMAIN more = 1 .. n + 1
        /\ \A i \in 1 .. n : more[i] = q[i]
        /\ more[n + 1] = p
    <2>1. more \in Seq(S) /\ Len(more) = n + 1 /\ more[n + 1] = p
      BY <1>3, AppendProperties
    <2>2. \A i \in 1 .. n : more[i] = q[i]
      BY <1>3, AppendProperties
    <2>3. QED
      BY <2>1, <2>2
  <1>. HIDE DEF more
  <1>5. ToSet(more) = S
    <2>1. ToSet(more) = ToSet(q) \cup {p}
      BY <1>1, <1>4 DEF ToSet
    <2>2. QED
      BY <1>1, <2>1
  <1>6. Len(more) = Cardinality(S)
    <2>1. n = Cardinality(S \ {p})
      BY DEF Sorted
    <2>2. Cardinality(S) \in Nat /\ Cardinality(S \ {p}) = Cardinality(S) - 1
      BY FS_CardinalityType, FS_RemoveElement
    <2>. HIDE DEF n
    <2>3. QED
      BY <1>4, <2>1, <2>2
  <1>7. ASSUME NEW i \in 1 .. n + 1, NEW j \in 1 .. n + 1, i < j
        PROVE  more[i] # more[j] /\ ~SortsAfter(more[i], more[j])
    <2>1. i \in 1 .. n /\ more[i] = q[i] /\ q[i] \in S /\ q[i] # p
      BY <1>1, <1>2, <1>4, <1>7
    <2>2. CASE j = n + 1
      BY <1>4, <2>1, <2>2
    <2>3. CASE j # n + 1
      <3>1. j \in 1 .. n /\ more[j] = q[j]
        BY <1>1, <1>4, <2>3
      <3>2. QED
        BY <1>7, <2>1, <3>1 DEF Sorted
    <2>4. QED
      BY <2>2, <2>3
  <1>8. QED
    BY <1>4, <1>5, <1>6, <1>7 DEF Sorted, more

\* The sort leaves an arrangement of the copies in their order.
LEMMA ArrangementSorted ==
  ASSUME NEW placed, IsFiniteSet(placed), NEW q \in Arrangements(placed)
  PROVE  Sorted(placed, q)
  <1>. DEFINE lasts(s) == {o \in s : \A other \in s : ~SortsAfter(other, o)}
              on(f, s) == UNION {{Append(r, p) : r \in f[s \ {p}]} : p \in lasts(s)}
              step(f, s) == IF s = {} THEN {<< >>} ELSE on(f, s)
              upto(k) == {s \in SUBSET placed : Cardinality(s) <= k}
              known(k) == \E f : f = [s \in upto(k) |-> step(f, s)]
              T == {k \in Nat : known(k)}
              F == CHOOSE f : f = [s \in SUBSET placed |-> step(f, s)]
  <1>1. \A s \in SUBSET placed : IsFiniteSet(s) /\ Cardinality(s) \in Nat
                                 /\ Cardinality(s) <= Cardinality(placed)
    BY FS_Subset, FS_CardinalityType
  <1>2. known(0)
    <2>. DEFINE f == [s \in upto(0) |-> {<< >>}]
    <2>1. \A s \in upto(0) : s = {}
      BY <1>1, FS_EmptySet
    <2>2. \A s \in upto(0) : f[s] = step(f, s)
      <3>. HIDE DEF upto, on
      <3>. QED
        BY <2>1
    <2>3. f = [s \in upto(0) |-> f[s]]
      OBVIOUS
    <2>. HIDE DEF f, step, upto
    <2>4. f = [s \in upto(0) |-> step(f, s)]
      BY <2>2, <2>3
    <2>5. QED
      BY <2>4
  <1>3. ASSUME NEW k \in Nat, known(k) PROVE known(k + 1)
    <2>1. PICK f : f = [s \in upto(k) |-> step(f, s)]
      <3>. HIDE DEF step, upto
      <3>. QED
        BY <1>3
    <2>. DEFINE g == [s \in upto(k + 1) |-> IF s \in upto(k) THEN f[s] ELSE step(f, s)]
    <2>2. ASSUME NEW s \in upto(k + 1), NEW p \in s
          PROVE  s \ {p} \in upto(k) /\ s \ {p} \in upto(k + 1)
      <3>1. s \in SUBSET placed /\ Cardinality(s) <= k + 1
        OBVIOUS
      <3>2. Cardinality(s \ {p}) = Cardinality(s) - 1 /\ Cardinality(s) \in Nat
        BY <1>1, <3>1, FS_RemoveElement
      <3>3. s \ {p} \in SUBSET placed /\ Cardinality(s \ {p}) <= k /\ Cardinality(s \ {p}) <= k + 1
        BY <3>1, <3>2
      <3>4. QED
        BY <3>3
    <2>. HIDE DEF upto
    <2>3. \A s \in upto(k + 1) : g[s] = step(f, s)
      <3>. HIDE DEF step
      <3>. QED
        BY <2>1
    <2>4. ASSUME NEW s \in upto(k + 1) PROVE step(f, s) = step(g, s)
      <3>1. \A p \in lasts(s) : f[s \ {p}] = g[s \ {p}]
        BY <2>2
      <3>. HIDE DEF g, lasts
      <3>2. on(f, s) = on(g, s)
        <4>. DEFINE set(h, p) == {Append(r, p) : r \in h[s \ {p}]}
        <4>1. \A p \in lasts(s) : set(f, p) = set(g, p)
          BY <3>1
        <4>. HIDE DEF set
        <4>2. UNION {set(f, p) : p \in lasts(s)} = UNION {set(g, p) : p \in lasts(s)}
          BY <4>1
        <4>3. QED
          BY <4>2 DEF set
      <3>. HIDE DEF on
      <3>3. QED
        BY <3>2
    <2>5. g = [s \in upto(k + 1) |-> g[s]]
      OBVIOUS
    <2>6. g = [s \in upto(k + 1) |-> step(g, s)]
      <3>. HIDE DEF g, step
      <3>. QED
        BY <2>3, <2>4, <2>5
    <2>. HIDE DEF g, step
    <2>7. QED
      BY <2>6
  <1>4. known(Cardinality(placed))
    <2>. HIDE DEF known
    <2>1. 0 \in T /\ \A k \in Nat : k \in T => k + 1 \in T
      BY <1>2, <1>3
    <2>2. Nat \subseteq T
      <3>. HIDE DEF T
      <3>. QED
        BY <2>1, SetOfNaturals
    <2>3. QED
      BY <1>1, <2>2
  <1>5. upto(Cardinality(placed)) = SUBSET placed
    BY <1>1
  <1>6. F = [s \in SUBSET placed |-> step(F, s)]
    <2>. HIDE DEF step, upto
    <2>1. PICK f : f = [s \in SUBSET placed |-> step(f, s)]
      BY <1>4, <1>5
    <2>2. QED
      BY <2>1
  <1>7. Arrangements(placed) = F[placed]
    BY DEF Arrangements
  <1>. HIDE DEF F
  <1>. DEFINE U == {s \in SUBSET placed : \A r \in F[s] : Sorted(s, r)}
  <1>8. ASSUME NEW s \in SUBSET placed, \A v \in SUBSET s : v # s => v \in U
        PROVE  s \in U
    <2>. SUFFICES ASSUME NEW r \in F[s] PROVE Sorted(s, r)
      OBVIOUS
    <2>1. F[s] = step(F, s)
      <3>. HIDE DEF step
      <3>. QED
        BY <1>6
    <2>2. CASE s = {}
      <3>1. r = << >>
        BY <2>1, <2>2
      <3>2. << >> \in Seq({}) /\ ToSet(<< >>) = {} /\ Len(<< >>) = 0 /\ Cardinality({}) = 0
        BY FS_EmptySet DEF ToSet
      <3>3. QED
        BY <2>2, <3>1, <3>2 DEF Sorted
    <2>3. CASE s # {}
      <3>1. r \in on(F, s)
        <4>. HIDE DEF on
        <4>. QED
          BY <2>1, <2>3
      <3>2. PICK p \in lasts(s) : \E u \in F[s \ {p}] : r = Append(u, p)
        <4>. HIDE DEF lasts
        <4>. QED
          BY <3>1
      <3>. PICK u \in F[s \ {p}] : r = Append(u, p)
        BY <3>2
      <3>3. s \ {p} \in U
        <4>1. s \ {p} \in SUBSET s /\ s \ {p} # s
          OBVIOUS
        <4>. HIDE DEF U
        <4>2. QED
          BY <1>8, <4>1
      <3>4. Sorted(s \ {p}, u)
        BY <3>3
      <3>5. IsFiniteSet(s) /\ p \in s /\ \A other \in s : ~SortsAfter(other, p)
        BY <1>1
      <3>6. QED
        BY <3>4, <3>5, LastSorted
    <2>4. QED
      BY <2>2, <2>3
  <1>9. placed \in U
    <2>. HIDE DEF U
    <2>1. SUBSET placed \subseteq U
      BY <1>8, SetOfSubsets
    <2>2. QED
      BY <2>1
  <1>10. QED
    BY <1>7, <1>9

\* The copies filed in directory dir.
PlacedIn(d, dir) == UNION {PlacedOf(d, ss) : ss \in {t \in SrcSections : DirOf(d, t) = dir}}

\* A directory has finitely many copies, so they can be sorted.
LEMMA PlacedFinite ==
  ASSUME NEW d \in Catalogues, NEW dir
  PROVE  IsFiniteSet(PlacedIn(d, dir))
  <1>. DEFINE here == {t \in SrcSections : DirOf(d, t) = dir}
  <1>1. ASSUME NEW ss \in SrcSections PROVE IsFiniteSet(PlacedOf(d, ss))
    <2>. DEFINE S == Placed(d, ss)
                f == [w \in S |-> [ss |-> ss, w |-> w, dir |-> DirOf(d, ss)]]
    <2>1. IsFiniteSet(S)
      <3>1. S \in SUBSET Items(d, ss)
        BY DEF Placed
      <3>2. QED
        BY <3>1, ItemsOfSection, FS_Subset
    <2>2. PlacedOf(d, ss) = {f[w] : w \in S}
      BY DEF PlacedOf
    <2>3. f \in [S -> {f[w] : w \in S}]
      OBVIOUS
    <2>. HIDE DEF f, S
    <2>4. QED
      BY <2>1, <2>2, <2>3, ImageFinite
  <1>. DEFINE g == [ss \in here |-> PlacedOf(d, ss)]
  <1>2. IsFiniteSet(here)
    BY SectionsAssumption, FS_Subset
  <1>3. g \in [here -> {g[ss] : ss \in here}]
    OBVIOUS
  <1>4. PlacedIn(d, dir) = UNION {g[ss] : ss \in here}
    BY DEF PlacedIn
  <1>5. \A T \in {g[ss] : ss \in here} : IsFiniteSet(T)
    BY <1>1
  <1>6. IsFiniteSet({g[ss] : ss \in here})
    <2>. HIDE DEF here, g
    <2>. QED
      BY <1>2, <1>3, ImageFinite
  <1>7. QED
    <2>. HIDE DEF here, g
    <2>. QED
      BY <1>4, <1>5, <1>6, FS_UNION

\* The tree of a catalogue: each directory holds its copies, sorted and
\* numbered, with the fallbacks of each.
TreeOf(d, t, spare) ==
  /\ SpareOf(d, SrcSections, spare)
  /\ \A dir \in Dirs : \E q : Sorted(PlacedIn(d, dir), q) /\ t[dir] = Numbered(q, spare)

\* Whatever the order of derive's maps, its tree is the one of the catalogue.
LEMMA TreeShape ==
  ASSUME NEW d \in Catalogues, NEW t \in Trees(d)
  PROVE  DOMAIN t = Dirs /\ \E spare : TreeOf(d, t, spare)
  <1>. DEFINE filled(seen) == {p.dir : p \in seen.placed}
              copies(seen, dir) == {p \in seen.placed : p.dir = dir}
              listings(seen) == [dir \in filled(seen) |->
                {Numbered(q, seen.spare) : q \in Arrangements(copies(seen, dir))}]
              allowed(seen) == {l \in [filled(seen) -> UNION Range(listings(seen))] :
                                  \A dir \in filled(seen) : l[dir] \in listings(seen)[dir]}
              whole(seen, l) == [dir \in Dirs |-> IF dir \in filled(seen) THEN l[dir] ELSE << >>]
              trees(seen) == {whole(seen, l) : l \in allowed(seen)}
  <1>1. Trees(d) = UNION {trees(seen) : seen \in {Visited(d, walk) : walk \in Walks}}
    BY DEF Trees
  <1>2. PICK walk \in Walks : t \in trees(Visited(d, walk))
    <2>. HIDE DEF trees
    <2>. QED
      BY <1>1
  <1>. DEFINE seen == Visited(d, walk)
              S == filled(seen)
              spare == seen.spare
  <1>3. Walked(d, SrcSections, seen)
    BY VisitedAll
  <1>4. PICK listing :
          /\ t = [dir \in Dirs |-> IF dir \in S THEN listing[dir] ELSE << >>]
          /\ \A dir \in S : listing[dir] \in listings(seen)[dir]
    <2>1. PICK l \in allowed(seen) : t = whole(seen, l)
      <3>. HIDE DEF allowed, whole
      <3>. QED
        BY <1>2
    <2>2. \A dir \in S : l[dir] \in listings(seen)[dir]
      <3>. HIDE DEF listings, filled, seen
      <3>. QED
        OBVIOUS
    <2>. HIDE DEF listings, filled, seen
    <2>3. QED
      BY <2>1, <2>2
  <1>. HIDE DEF seen
  <1>5. ASSUME NEW dir PROVE copies(seen, dir) = PlacedIn(d, dir)
    <2>1. seen.placed = UNION {PlacedOf(d, ss) : ss \in SrcSections}
      BY <1>3 DEF Walked
    <2>2. \A ss \in SrcSections : \A p \in PlacedOf(d, ss) : p.dir = DirOf(d, ss)
      BY DEF PlacedOf
    <2>3. QED
      BY <2>1, <2>2 DEF PlacedIn
  <1>6. DOMAIN t = Dirs
    BY <1>4
  <1>7. ASSUME NEW dir \in Dirs
        PROVE  \E q : Sorted(PlacedIn(d, dir), q) /\ t[dir] = Numbered(q, spare)
    <2>1. IsFiniteSet(PlacedIn(d, dir))
      BY PlacedFinite
    <2>2. CASE dir \in S
      <3>1. t[dir] = listing[dir] /\ listing[dir] \in listings(seen)[dir]
        <4>. HIDE DEF listings, S
        <4>. QED
          BY <1>4, <2>2
      <3>2. listings(seen)[dir] = {Numbered(q, spare) : q \in Arrangements(PlacedIn(d, dir))}
        <4>1. listings(seen)[dir] = {Numbered(q, spare) : q \in Arrangements(copies(seen, dir))}
          <5>. HIDE DEF copies, filled
          <5>. QED
            BY <2>2 DEF filled
        <4>. HIDE DEF copies, listings
        <4>2. QED
          BY <1>5, <4>1
      <3>3. PICK q \in Arrangements(PlacedIn(d, dir)) : t[dir] = Numbered(q, spare)
        <4>. HIDE DEF listings
        <4>. QED
          BY <3>1, <3>2
      <3>4. Sorted(PlacedIn(d, dir), q)
        BY <2>1, ArrangementSorted
      <3>5. QED
        BY <3>3, <3>4
    <2>3. CASE dir \notin S
      <3>1. t[dir] = << >>
        <4>. HIDE DEF S
        <4>. QED
          BY <1>4, <2>3
      <3>2. PlacedIn(d, dir) = {}
        <4>1. copies(seen, dir) = {}
          BY <2>3
        <4>2. QED
          BY <1>5, <4>1
      <3>3. Sorted({}, << >>)
        <4>1. << >> \in Seq({}) /\ ToSet(<< >>) = {} /\ Len(<< >>) = 0 /\ Cardinality({}) = 0
          BY FS_EmptySet DEF ToSet
        <4>2. QED
          BY <4>1 DEF Sorted
      <3>4. Numbered(<< >>, spare) = << >>
        BY DEF Numbered
      <3>5. QED
        BY <3>1, <3>2, <3>3, <3>4
    <2>4. QED
      BY <2>2, <2>3
  <1>8. SpareOf(d, SrcSections, spare)
    BY <1>3 DEF Walked
  <1>9. QED
    BY <1>6, <1>7, <1>8 DEF TreeOf

-----------------------------------------------------------------------------
(* What a tree shows.                                                      *)

\* The entries of a directory, one for each copy filed there.
LEMMA EntriesListed ==
  ASSUME NEW d \in Catalogues, NEW t, NEW spare, TreeOf(d, t, spare), NEW dir \in Dirs
  PROVE  \E q : /\ Sorted(PlacedIn(d, dir), q)
                /\ DOMAIN t[dir] = 1 .. Len(q) /\ Len(t[dir]) = Len(q) /\ Len(q) \in Nat
                /\ \A i \in 1 .. Len(q) :
                     /\ q[i] \in PlacedIn(d, dir)
                     /\ t[dir][i].ss = q[i].ss /\ t[dir][i].w = q[i].w
                     /\ t[dir][i].alts = StandIns(spare, q[i].ss, q[i].w)
  <1>1. PICK q : Sorted(PlacedIn(d, dir), q) /\ t[dir] = Numbered(q, spare)
    BY DEF TreeOf
  <1>2. Len(q) \in Nat /\ DOMAIN q = 1 .. Len(q) /\ \A i \in 1 .. Len(q) : q[i] \in PlacedIn(d, dir)
    <2>. DEFINE S == PlacedIn(d, dir)
    <2>1. q \in Seq(S)
      BY <1>1 DEF Sorted
    <2>. HIDE DEF S
    <2>2. QED
      BY <2>1 DEF S
  <1>. DEFINE name(i) == Item[q[i].ss][q[i].w].name
              n(i) == Cardinality({j \in 1 .. i : name(j) = name(i)})
              entry(i) == [name |-> IF n(i) > 1 THEN Append(name(i), n(i)) ELSE name(i),
                           ss |-> q[i].ss, w |-> q[i].w,
                           alts |-> StandIns(spare, q[i].ss, q[i].w)]
  <1>3. t[dir] = [i \in DOMAIN q |-> entry(i)]
    BY <1>1 DEF Numbered
  <1>4. DOMAIN t[dir] = 1 .. Len(q) /\ \A i \in 1 .. Len(q) : t[dir][i] = entry(i)
    <2>. HIDE DEF entry
    <2>. QED
      BY <1>2, <1>3
  <1>5. Len(t[dir]) = Len(q)
    <2>. DEFINE m == Len(q)
    <2>1. t[dir] = [i \in 1 .. m |-> entry(i)]
      BY <1>2, <1>3
    <2>. HIDE DEF entry, m
    <2>2. m \in Nat => Len(t[dir]) = m
      BY <2>1
    <2>3. QED
      BY <1>2, <2>2 DEF m
  <1>6. \A i : entry(i).ss = q[i].ss /\ entry(i).w = q[i].w
               /\ entry(i).alts = StandIns(spare, q[i].ss, q[i].w)
    <2>. HIDE DEF name, n
    <2>. QED
      OBVIOUS
  <1>. HIDE DEF entry
  <1>7. QED
    BY <1>1, <1>2, <1>4, <1>5, <1>6

\* An entry is of a work that has its place where the entry is.
LEMMA EntryPlaced ==
  ASSUME NEW d \in Catalogues, NEW t, NEW spare, TreeOf(d, t, spare), NEW dir \in Dirs,
         NEW e \in ToSet(t[dir])
  PROVE  /\ e.ss \in SrcSections /\ DirOf(d, e.ss) = dir /\ e.w \in Placed(d, e.ss)
         /\ e.alts = StandIns(spare, e.ss, e.w)
  <1>1. PICK q : /\ DOMAIN t[dir] = 1 .. Len(q)
                 /\ \A i \in 1 .. Len(q) :
                     /\ q[i] \in PlacedIn(d, dir)
                     /\ t[dir][i].ss = q[i].ss /\ t[dir][i].w = q[i].w
                     /\ t[dir][i].alts = StandIns(spare, q[i].ss, q[i].w)
    BY EntriesListed
  <1>2. PICK i \in 1 .. Len(q) : e = t[dir][i]
    BY <1>1 DEF ToSet
  <1>3. \A p \in PlacedIn(d, dir) :
          p.ss \in SrcSections /\ DirOf(d, p.ss) = dir /\ p.w \in Placed(d, p.ss)
    BY DEF PlacedIn, PlacedOf
  <1>4. QED
    BY <1>1, <1>2, <1>3

\* In a directory each copy filed there has one entry, and nothing else has.
LEMMA EntriesMatch ==
  ASSUME NEW d \in Catalogues, NEW t, NEW spare, TreeOf(d, t, spare), NEW dir \in Dirs
  PROVE  LET copies == UNION {{<<ss, w>> : w \in Placed(d, ss)}
                              : ss \in {s \in SrcSections : DirOf(d, s) = dir}}
         IN  /\ {<<e.ss, e.w>> : e \in ToSet(t[dir])} = copies
             /\ Len(t[dir]) = Cardinality(copies)
  <1>. DEFINE S == PlacedIn(d, dir)
              copies == UNION {{<<ss, w>> : w \in Placed(d, ss)}
                               : ss \in {s \in SrcSections : DirOf(d, s) = dir}}
              pair == [p \in S |-> <<p.ss, p.w>>]
  <1>1. PICK q : /\ Sorted(S, q)
                 /\ DOMAIN t[dir] = 1 .. Len(q) /\ Len(t[dir]) = Len(q) /\ Len(q) \in Nat
                 /\ \A i \in 1 .. Len(q) :
                     /\ q[i] \in S
                     /\ t[dir][i].ss = q[i].ss /\ t[dir][i].w = q[i].w
    BY EntriesListed
  <1>2. \A p \in S : p.ss \in SrcSections /\ DirOf(d, p.ss) = dir /\ p.w \in Placed(d, p.ss)
                     /\ p = [ss |-> p.ss, w |-> p.w, dir |-> dir]
    BY DEF PlacedIn, PlacedOf
  <1>3. ASSUME NEW ss \in SrcSections, DirOf(d, ss) = dir, NEW w \in Placed(d, ss)
        PROVE  \E p \in S : p.ss = ss /\ p.w = w
    <2>. DEFINE p == [ss |-> ss, w |-> w, dir |-> DirOf(d, ss)]
    <2>1. p \in PlacedOf(d, ss) /\ p.ss = ss /\ p.w = w
      BY DEF PlacedOf
    <2>. HIDE DEF p
    <2>2. p \in S
      BY <1>3, <2>1 DEF PlacedIn
    <2>3. QED
      BY <2>1, <2>2
  <1>4. copies = {<<p.ss, p.w>> : p \in S}
    <2>1. \A p \in S : <<p.ss, p.w>> \in copies
      BY <1>2
    <2>2. ASSUME NEW c \in copies PROVE \E p \in S : c = <<p.ss, p.w>>
      <3>1. PICK ss \in SrcSections : DirOf(d, ss) = dir /\ c \in {<<ss, w>> : w \in Placed(d, ss)}
        OBVIOUS
      <3>2. PICK w \in Placed(d, ss) : c = <<ss, w>>
        BY <3>1
      <3>3. QED
        BY <1>3, <3>1, <3>2
    <2>. HIDE DEF copies, S
    <2>3. QED
      BY <2>1, <2>2
  <1>5. pair \in Bijection(S, copies)
    <2>. HIDE DEF S, copies
    <2>1. pair \in [S -> copies]
      BY <1>4
    <2>2. \A a, b \in S : pair[a] = pair[b] => a = b
      BY <1>2
    <2>3. \A c \in copies : \E p \in S : pair[p] = c
      BY <1>4
    <2>. HIDE DEF pair
    <2>4. QED
      BY <2>1, <2>2, <2>3, Fun_IsBij
  <1>6. Cardinality(copies) = Cardinality(S)
    <2>1. IsFiniteSet(S)
      BY PlacedFinite
    <2>2. ExistsBijection(S, copies)
      <3>. HIDE DEF S, copies, pair
      <3>. QED
        BY <1>5 DEF ExistsBijection
    <2>. HIDE DEF S, copies
    <2>3. QED
      BY <2>1, <2>2, FS_Bijection
  <1>7. {<<e.ss, e.w>> : e \in ToSet(t[dir])} = {<<p.ss, p.w>> : p \in S}
    <2>1. ToSet(q) = S /\ DOMAIN q = 1 .. Len(q)
      <3>. HIDE DEF S
      <3>. QED
        BY <1>1 DEF Sorted
    <2>. HIDE DEF S
    <2>2. \A p \in S : \E i \in 1 .. Len(q) : p = q[i]
      BY <2>1 DEF ToSet
    <2>3. \A e \in ToSet(t[dir]) : \E p \in S : e.ss = p.ss /\ e.w = p.w
      BY <1>1 DEF ToSet
    <2>4. \A p \in S : \E e \in ToSet(t[dir]) : e.ss = p.ss /\ e.w = p.w
      BY <1>1, <2>2 DEF ToSet
    <2>5. QED
      BY <2>3, <2>4
  <1>8. Len(t[dir]) = Cardinality(copies)
    <2>. HIDE DEF S, copies
    <2>. QED
      BY <1>1, <1>6 DEF Sorted
  <1>9. QED
    <2>. HIDE DEF S, copies
    <2>. QED
      BY <1>4, <1>7, <1>8 DEF copies

\* What is kept aside of a placed work is all that later servers have of it.
LEMMA AsideIsLater ==
  ASSUME NEW d \in Catalogues, NEW ss \in SrcSections, NEW w \in Placed(d, ss),
         NEW tt \in SrcSections
  PROVE  w \in Aside(d, tt) <=> w \in Items(d, tt) /\ Src[tt] > Src[ss]
  <1>1. Src[ss] \in Nat /\ Src[tt] \in Nat
    BY SourcesAssumption
  <1>2. Contributes(Src[ss]) /\ w \in Items(d, ss) /\ w \notin Claimed(d, Src[ss])
    BY DEF Placed
  <1>3. ASSUME w \in Aside(d, tt) PROVE Src[tt] > Src[ss]
    <2>1. w \in Items(d, tt) /\ (~Contributes(Src[tt]) \/ w \in Claimed(d, Src[tt]))
      BY <1>3 DEF Aside, Placed
    <2>2. CASE ~Contributes(Src[tt])
      BY <1>1, <1>2, <2>2 DEF Contributes
    <2>3. CASE w \in Claimed(d, Src[tt])
      <3>1. PICK u \in SrcSections : Src[u] < Src[tt] /\ Contributes(Src[u]) /\ w \in Items(d, u)
        BY <2>3 DEF Claimed
      <3>2. ~(Src[u] < Src[ss])
        BY <1>2, <3>1 DEF Claimed
      <3>3. Src[u] \in Nat
        BY SourcesAssumption
      <3>4. QED
        BY <1>1, <3>1, <3>2, <3>3
    <2>4. QED
      BY <2>1, <2>2, <2>3
  <1>4. ASSUME w \in Items(d, tt), Src[tt] > Src[ss] PROVE w \in Aside(d, tt)
    <2>1. w \in Claimed(d, Src[tt])
      <3>1. Src[ss] < Src[tt]
        BY <1>1, <1>4
      <3>2. QED
        BY <1>2, <3>1 DEF Claimed
    <2>2. QED
      BY <1>4, <2>1 DEF Aside, Placed
  <1>5. QED
    BY <1>3, <1>4 DEF Aside

\* The fallbacks of an entry are the copies of later servers that fit, each
\* once, by server.
LEMMA EntryFallbacks ==
  ASSUME NEW d \in Catalogues, NEW t, NEW spare, TreeOf(d, t, spare), NEW dir \in Dirs,
         NEW e \in ToSet(t[dir])
  PROVE  /\ e.alts \in Seq(SrcSections)
         /\ ToSet(e.alts) = {ss \in SrcSections :
              /\ Src[ss] > Src[e.ss] /\ e.w \in Items(d, ss)
              /\ Item[ss][e.w].file = Item[e.ss][e.w].file}
         /\ \A i, j \in 1 .. Len(e.alts) : i < j =>
              e.alts[i] # e.alts[j] /\ Src[e.alts[i]] <= Src[e.alts[j]]
  <1>1. e.ss \in SrcSections /\ e.w \in Placed(d, e.ss) /\ e.alts = StandIns(spare, e.ss, e.w)
    BY EntryPlaced
  <1>2. SpareOf(d, SrcSections, spare)
    BY DEF TreeOf
  <1>. DEFINE alts == StandIns(spare, e.ss, e.w)
              ess == e.ss
              ew == e.w
  <1>3. /\ alts \in Seq(SrcSections)
        /\ ToSet(alts) = {tt \in SrcSections :
             ew \in Aside(d, tt) /\ Item[tt][ew].file = Item[ess][ew].file}
        /\ \A i, j \in 1 .. Len(alts) : i < j =>
             alts[i] # alts[j] /\ Src[alts[i]] <= Src[alts[j]]
    BY <1>1, <1>2, StandInsOf
  <1>4. \A tt \in SrcSections : ew \in Aside(d, tt) <=> ew \in Items(d, tt) /\ Src[tt] > Src[ess]
    BY <1>1, AsideIsLater
  <1>. HIDE DEF alts
  <1>5. ToSet(alts) = {ss \in SrcSections :
          /\ Src[ss] > Src[ess] /\ ew \in Items(d, ss)
          /\ Item[ss][ew].file = Item[ess][ew].file}
    BY <1>3, <1>4
  <1>6. QED
    BY <1>1, <1>3, <1>5 DEF alts

\* The order of copies no two of which share title and rating key is one.
LEMMA SortedOnce ==
  ASSUME NEW S, NEW q, NEW r, Sorted(S, q), Sorted(S, r),
         \A p \in S : p.ss \in SrcSections /\ p.w \in Works,
         \A a, b \in S : Item[a.ss][a.w].title = Item[b.ss][b.w].title
                         /\ Item[a.ss][a.w].key = Item[b.ss][b.w].key => a = b
  PROVE  q = r
  <1>. DEFINE n == Len(q)
  <1>1. /\ q \in Seq(S) /\ r \in Seq(S) /\ ToSet(q) = S /\ ToSet(r) = S
        /\ n \in Nat /\ Len(r) = n /\ DOMAIN q = 1 .. n /\ DOMAIN r = 1 .. n
    BY DEF Sorted
  <1>2. /\ \A i, j \in 1 .. n : i < j => q[i] # q[j] /\ ~SortsAfter(q[i], q[j])
        /\ \A i, j \in 1 .. n : i < j => r[i] # r[j] /\ ~SortsAfter(r[i], r[j])
    BY <1>1 DEF Sorted
  <1>3. ASSUME NEW a \in S, NEW b \in S, ~SortsAfter(a, b), ~SortsAfter(b, a) PROVE a = b
    <2>. DEFINE x == Item[a.ss][a.w]
                y == Item[b.ss][b.w]
    <2>1. x \in Copies /\ y \in Copies
      BY ItemAssumption
    <2>2. x.title \in Nat /\ x.key \in Nat /\ y.title \in Nat /\ y.key \in Nat
      <3>. HIDE DEF x, y
      <3>. QED
        BY <2>1 DEF Copies
    <2>3. ~(x.title > y.title \/ (x.title = y.title /\ x.key > y.key))
          /\ ~(y.title > x.title \/ (y.title = x.title /\ y.key > x.key))
      BY <1>3 DEF SortsAfter
    <2>4. x.title = y.title /\ x.key = y.key
      <3>. HIDE DEF x, y
      <3>. QED
        BY <2>2, <2>3
    <2>5. QED
      BY <2>4
  <1>. HIDE DEF n
  <1>4. \A i \in 1 .. n : q[i] = r[i]
    <2>. DEFINE bad == {i \in 1 .. n : q[i] # r[i]}
    <2>. SUFFICES ASSUME bad # {} PROVE FALSE
      OBVIOUS
    <2>1. PICK i \in bad : \A j \in bad : i <= j
      <3>1. bad \subseteq Nat
        OBVIOUS
      <3>. HIDE DEF bad
      <3>2. QED
        BY <3>1, Least
    <2>2. i \in 1 .. n /\ q[i] # r[i]
      OBVIOUS
    <2>3. \A j \in 1 .. n : j < i => q[j] = r[j]
      BY <2>1
    <2>4. q[i] \in S /\ r[i] \in S
      BY <1>1, <2>2
    <2>5. PICK j \in 1 .. n : q[j] = r[i]
      BY <1>1, <2>4 DEF ToSet
    <2>6. i < j
      <3>1. CASE j < i
        BY <1>2, <2>2, <2>3, <2>5, <3>1
      <3>2. CASE j = i
        BY <2>2, <2>5, <3>2
      <3>3. QED
        BY <1>1, <2>2, <3>1, <3>2
    <2>7. PICK k \in 1 .. n : r[k] = q[i]
      BY <1>1, <2>4 DEF ToSet
    <2>8. i < k
      <3>1. CASE k < i
        BY <1>2, <2>2, <2>3, <2>7, <3>1
      <3>2. CASE k = i
        BY <2>2, <2>7, <3>2
      <3>3. QED
        BY <1>1, <2>2, <3>1, <3>2
    <2>9. ~SortsAfter(q[i], r[i]) /\ ~SortsAfter(r[i], q[i])
      BY <1>2, <2>2, <2>5, <2>6, <2>7, <2>8
    <2>10. QED
      BY <1>3, <2>2, <2>4, <2>9
  <1>5. QED
    BY <1>1, <1>4, SeqEqual

\* What a directory shows of its copies, in its order.
Shows(listing) == [i \in DOMAIN listing |-> <<listing[i].name, listing[i].ss, listing[i].w>>]

\* A directory that is filed with the same copies, no two of which tie, shows
\* them under the same names.
LEMMA SameNames ==
  ASSUME NEW e \in Catalogues, NEW s, NEW aside, TreeOf(e, s, aside),
         NEW d \in Catalogues, NEW t, NEW spare, TreeOf(d, t, spare),
         NEW dir \in Dirs, PlacedIn(e, dir) = PlacedIn(d, dir),
         \A a, b \in PlacedIn(d, dir) :
           Item[a.ss][a.w].title = Item[b.ss][b.w].title
           /\ Item[a.ss][a.w].key = Item[b.ss][b.w].key => a = b
  PROVE  Shows(s[dir]) = Shows(t[dir])
  <1>. DEFINE S == PlacedIn(d, dir)
  <1>1. PICK q : Sorted(S, q) /\ t[dir] = Numbered(q, spare)
    BY DEF TreeOf
  <1>2. PICK r : Sorted(S, r) /\ s[dir] = Numbered(r, aside)
    BY DEF TreeOf
  <1>3. \A p \in S : p.ss \in SrcSections /\ p.w \in Works
    <2>1. \A ss \in SrcSections : Placed(d, ss) \subseteq Works
      BY ItemsOfSection DEF Placed
    <2>2. QED
      BY <2>1 DEF PlacedIn, PlacedOf
  <1>4. q = r
    <2>. HIDE DEF S
    <2>. QED
      BY <1>1, <1>2, <1>3, SortedOnce DEF S
  <1>. DEFINE name(i) == Item[q[i].ss][q[i].w].name
              n(i) == Cardinality({j \in 1 .. i : name(j) = name(i)})
              called(i) == IF n(i) > 1 THEN Append(name(i), n(i)) ELSE name(i)
              entry(i, some) == [name |-> called(i), ss |-> q[i].ss, w |-> q[i].w,
                                 alts |-> StandIns(some, q[i].ss, q[i].w)]
  <1>5. t[dir] = [i \in DOMAIN q |-> entry(i, spare)]
        /\ s[dir] = [i \in DOMAIN q |-> entry(i, aside)]
    <2>1. t[dir] = [i \in DOMAIN q |-> entry(i, spare)]
      BY <1>1 DEF Numbered
    <2>2. s[dir] = Numbered(q, aside)
      BY <1>2, <1>4
    <2>3. s[dir] = [i \in DOMAIN q |-> entry(i, aside)]
      BY <2>2 DEF Numbered
    <2>4. QED
      BY <2>1, <2>3
  <1>6. \A i, some : /\ entry(i, some).name = called(i)
                     /\ entry(i, some).ss = q[i].ss /\ entry(i, some).w = q[i].w
    <2>. HIDE DEF called
    <2>. QED
      OBVIOUS
  <1>. HIDE DEF entry
  <1>7. Shows(t[dir]) = [i \in DOMAIN q |-> <<called(i), q[i].ss, q[i].w>>]
    <2>. HIDE DEF called
    <2>. QED
      BY <1>5, <1>6 DEF Shows
  <1>8. Shows(s[dir]) = [i \in DOMAIN q |-> <<called(i), q[i].ss, q[i].w>>]
    <2>. HIDE DEF called
    <2>. QED
      BY <1>5, <1>6 DEF Shows
  <1>9. QED
    BY <1>7, <1>8

\* Looking up a name that is listed finds an entry of that name.
LEMMA FoundByName ==
  ASSUME NEW listing, NEW n \in Nat, Len(listing) = n, DOMAIN listing = 1 .. n,
         NEW name \in NamesIn(listing)
  PROVE  EntryNamed(listing, name) \in ToSet(listing) /\ EntryNamed(listing, name).name = name
  <1>. DEFINE I == {i \in 1 .. Len(listing) : listing[i].name = name}
  <1>1. I \in SUBSET (1 .. n) /\ I # {}
    BY DEF NamesIn, ToSet
  <1>2. Max(I) \in I
    <2>. HIDE DEF I
    <2>. QED
      BY <1>1, Greatest
  <1>3. EntryNamed(listing, name) = listing[Max(I)]
    BY <1>1 DEF EntryNamed, SelectLastInSeq
  <1>4. QED
    BY <1>1, <1>2, <1>3 DEF ToSet

-----------------------------------------------------------------------------
(* Keys.                                                                   *)

\* Two records with one key are of one work as dedupKey sees it, or are of
\* one server and have one rating key.
LEMMA EqualKeys ==
  ASSUME NEW x, NEW y, NEW s \in Nat, NEW t \in Nat, DedupKey(x, s) = DedupKey(y, t)
  PROVE  SameWork(x, y) \/ (s = t /\ x.key = y.key)
  <1>1. ASSUME NEW it, NEW o, NEW m \in Nat, NEW n \in Nat, ~NoIds(it), NoIds(o)
        PROVE  DedupKey(it, m) # DedupKey(o, n)
    <2>1. \/ DedupKey(it, m) = <<Kind(it), "tmdb", ExternalID(it, "tmdb")>>
          \/ DedupKey(it, m) = <<Kind(it), "imdb", ExternalID(it, "imdb")>>
          \/ DedupKey(it, m) = <<Kind(it), "tvdb", ExternalID(it, "tvdb")>>
      BY <1>1 DEF DedupKey, Schemes, NoIds
    <2>2. \/ DedupKey(o, n) = <<Kind(o), "t", Normal[o.title], o.year>>
          \/ DedupKey(o, n) = <<"", n, o.key>>
      BY <1>1 DEF DedupKey, Schemes, NoIds
    <2>3. Kind(it) # ""
      BY DEF Kind
    <2>4. \A a, b, c, d, e, f : a # d => <<a, b, c>> # <<d, e, f>>
      OBVIOUS
    <2>5. \A a, b, c, d, e, f, g : b # e => <<a, b, c>> # <<d, e, f, g>>
      OBVIOUS
    <2>6. DedupKey(o, n) = <<"", n, o.key>> => DedupKey(it, m) # DedupKey(o, n)
      BY <2>1, <2>3, <2>4, Zenon
    <2>7. DedupKey(o, n) = <<Kind(o), "t", Normal[o.title], o.year>> =>
            DedupKey(it, m) # DedupKey(o, n)
      BY <2>1, <2>5, Zenon
    <2>8. QED
      BY <2>2, <2>6, <2>7
  <1>2. Kind(x) # "" /\ Kind(y) # ""
    BY DEF Kind
  <1>3. CASE ~NoIds(x) /\ ~NoIds(y)
    BY <1>2, <1>3 DEF DedupKey, Schemes, SameWork, SharesId, NoIds
  <1>4. CASE NoIds(x) /\ NoIds(y)
    BY <1>2, <1>4 DEF DedupKey, Schemes, NoIds, SameWork, SharesTitle
  <1>5. QED
    BY <1>1, <1>3, <1>4

\* "Every judgement call below leans towards leaving them apart": dedupKey
\* takes two records of different servers for one work only if they are of
\* one kind, and have an id in common or else no id at all, and title and
\* year in common.
THEOREM MergedOnlyWhenIdentified ==
  ASSUME NEW x, NEW y, NEW s \in Nat, NEW t \in Nat, s # t,
         DedupKey(x, s) = DedupKey(y, t)
  PROVE  /\ Kind(x) = Kind(y)
         /\ SharesId(x, y) \/ (NoIds(x) /\ NoIds(y) /\ SharesTitle(x, y))
  BY EqualKeys DEF SameWork

\* Records of one kind with the same ids, and some id, are one work, however
\* the servers title and number them.
THEOREM SameIdsSameWork ==
  ASSUME NEW x, NEW y, NEW s, NEW t, Kind(x) = Kind(y),
         \A scheme \in Schemes : ExternalID(x, scheme) = ExternalID(y, scheme),
         \E scheme \in Schemes : ExternalID(x, scheme) # NoId
  PROVE  DedupKey(x, s) = DedupKey(y, t)
  <1>. DEFINE Id(it) == [scheme \in Schemes |-> ExternalID(it, scheme)]
              Of(it, id) == IF id["tmdb"] # NoId THEN <<Kind(it), "tmdb", id["tmdb"]>>
                            ELSE IF id["imdb"] # NoId THEN <<Kind(it), "imdb", id["imdb"]>>
                            ELSE <<Kind(it), "tvdb", id["tvdb"]>>
  <1>1. Id(x) = Id(y)
    OBVIOUS
  <1>2. ASSUME NEW it, NEW src, \E scheme \in Schemes : ExternalID(it, scheme) # NoId
        PROVE  DedupKey(it, src) = Of(it, Id(it))
    <2>. DEFINE a == Id(it)["tmdb"]
                b == Id(it)["imdb"]
                d == Id(it)["tvdb"]
                one == <<Kind(it), "tmdb", a>>
                two == <<Kind(it), "imdb", b>>
                three == <<Kind(it), "tvdb", d>>
                other == IF Normal[it.title] # NoTitle /\ it.year > 0
                           THEN <<Kind(it), "t", Normal[it.title], it.year>>
                         ELSE <<"", src, it.key>>
    <2>1. a # NoId \/ b # NoId \/ d # NoId
      BY <1>2 DEF Schemes
    <2>2. DedupKey(it, src) = IF a # NoId THEN one ELSE IF b # NoId THEN two
                              ELSE IF d # NoId THEN three ELSE other
      BY DEF DedupKey
    <2>3. Of(it, Id(it)) = IF a # NoId THEN one ELSE IF b # NoId THEN two ELSE three
      BY Zenon
    <2>. HIDE DEF a, b, d, one, two, three, other, Of
    <2>4. QED
      BY <2>1, <2>2, <2>3
  <1>3. DedupKey(x, s) = Of(x, Id(x)) /\ DedupKey(y, t) = Of(y, Id(y))
    <2>1. \E scheme \in Schemes : ExternalID(y, scheme) # NoId
      OBVIOUS
    <2>. HIDE DEF Of, Id
    <2>2. QED
      BY <1>2, <2>1
  <1>4. Of(x, Id(x)) = Of(y, Id(x))
    <2>. HIDE DEF Id
    <2>. QED
      OBVIOUS
  <1>5. QED
    <2>. HIDE DEF Of, Id
    <2>. QED
      BY <1>1, <1>3, <1>4
=============================================================================
