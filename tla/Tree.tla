-------------------------------- MODULE Tree --------------------------------
(***************************************************************************)
(* How derive computes the tree (internal/davfs/catalogue.go): the loop    *)
(* over servers and sections that hands every copy of a work either a      *)
(* place or a part as somebody's fallback, and the listings made of the    *)
(* placed copies, sorted and with equal names numbered.  Merge says which  *)
(* works a directory should hold; this module how the code gets there.     *)
(*                                                                         *)
(* The code ranges over Go maps, in any order, and sorts with an unstable  *)
(* sort: the outcome is a set of trees.                                    *)
(***************************************************************************)
EXTENDS Merge, SequencesExt

CONSTANTS
  Item    \* Item[ss][w]: what section ss says of work w, see Copies

NoFile == 0

\* One server's copy of one work: the ranks of its title and of its rating
\* key, its exposed name, a sequence to which insertSuffix appends a number,
\* and its first part by size and container, NoFile for a show.
Copies == [title : Nat, key : Nat, name : Seq(Nat), file : Nat]

ASSUME ItemAssumption == Item \in [SrcSections -> [Works -> Copies]]

\* What a server lists of a section is a finite array.
ASSUME ListingsAssumption ==
  \A ss \in SrcSections : \A v \in Versions : IsFiniteSet(Content[ss][v])

-----------------------------------------------------------------------------
(* The loop.                                                               *)

\* Servers in their order, the sections of one server in any.
Walks ==
  LET walks[n \in 0 .. NSources] ==
        IF n = 0 THEN {<< >>}
        ELSE {walk \o own : walk \in walks[n - 1],
                            own \in SetToSeqs({ss \in SrcSections : Src[ss] = n - 1})}
  IN walks[NSources]

\* Before the first section.
NothingSeen == [src |-> 0, claimed |-> {}, mine |-> {}, placed |-> {}, spare |-> << >>]

\* Variant: what one section shows no later one does, on whichever server.
VisitClaimsAtOnce(d, seen, ss) ==
  LET src == Src[ss]
      claimed == seen.claimed \cup seen.mine
      aside == {w \in Items(d, ss) : w \in claimed \/ ~Contributes(src)}
      mine == Items(d, ss) \ aside
  IN [src     |-> src,
      claimed |-> claimed,
      mine    |-> mine \cup (IF src = seen.src THEN seen.mine ELSE {}),
      placed  |-> seen.placed \cup {[ss |-> ss, w |-> w, dir |-> DirOf(d, ss)] : w \in mine},
      spare   |-> IF aside = {} THEN seen.spare
                 ELSE Append(seen.spare, [ss |-> ss, works |-> aside])]

\* Variant: a copy that is not shown is forgotten.
VisitDropsSpare(d, seen, ss) ==
  LET src == Src[ss]
      claimed == IF src = seen.src THEN seen.claimed ELSE seen.claimed \cup seen.mine
      aside == {w \in Items(d, ss) : w \in claimed \/ ~Contributes(src)}
      mine == Items(d, ss) \ aside
  IN [src     |-> src,
      claimed |-> claimed,
      mine    |-> mine \cup (IF src = seen.src THEN seen.mine ELSE {}),
      placed  |-> seen.placed \cup {[ss |-> ss, w |-> w, dir |-> DirOf(d, ss)] : w \in mine},
      spare   |-> seen.spare]

\* One section: a work an earlier server claimed is kept aside, and so is all
\* that a server which only stands in has; the rest gets a place.  What a
\* server places counts as claimed for the servers after it.
Visit(d, seen, ss) ==
  LET src == Src[ss]
      claimed == IF src = seen.src THEN seen.claimed ELSE seen.claimed \cup seen.mine
      aside == {w \in Items(d, ss) : w \in claimed \/ ~Contributes(src)}
      mine == Items(d, ss) \ aside
  IN [src     |-> src,
      claimed |-> claimed,
      mine    |-> mine \cup (IF src = seen.src THEN seen.mine ELSE {}),
      placed  |-> seen.placed \cup {[ss |-> ss, w |-> w, dir |-> DirOf(d, ss)] : w \in mine},
      spare   |-> IF aside = {} THEN seen.spare
                 ELSE Append(seen.spare, [ss |-> ss, works |-> aside])]

Visited(d, walk) == FoldLeft(LAMBDA seen, ss : Visit(d, seen, ss), NothingSeen, walk)

-----------------------------------------------------------------------------
(* The listings.                                                           *)

\* The copies attached to a placed one: same size and container for a file,
\* and for a show every server that knows the series.
StandIns(spare, ss, w) ==
  FoldLeft(LAMBDA alts, aside :
             IF w \in aside.works /\ Item[aside.ss][w].file = Item[ss][w].file
               THEN Append(alts, aside.ss) ELSE alts,
           << >>, spare)

\* Variant: titles alone decide the order.
SortsAfterByTitle(a, b) == Item[a.ss][a.w].title > Item[b.ss][b.w].title

SortsAfter(a, b) ==
  LET x == Item[a.ss][a.w]
      y == Item[b.ss][b.w]
  IN x.title > y.title \/ (x.title = y.title /\ x.key > y.key)

\* What sort.Slice may leave of a directory's placed copies: the last one is
\* any that no other sorts after.
Arrangements(placed) ==
  LET arranged[some \in SUBSET placed] ==
        IF some = {} THEN {<< >>}
        ELSE UNION {{Append(q, p) : q \in arranged[some \ {p}]} :
                      p \in {o \in some : \A other \in some : ~SortsAfter(other, o)}}
  IN arranged[placed]

\* Variant: the first of several equal names is not counted.
NumberedLate(q, spare) ==
  LET name(i) == Item[q[i].ss][q[i].w].name
      n(i) == Cardinality({j \in 1 .. i : name(j) = name(i)}) - 1
  IN [i \in DOMAIN q |->
        [name |-> IF n(i) > 1 THEN Append(name(i), n(i)) ELSE name(i),
         ss   |-> q[i].ss, w |-> q[i].w,
         alts |-> StandIns(spare, q[i].ss, q[i].w)]]

\* buildEntries: the second, third, ... of equal names gets its number.
Numbered(q, spare) ==
  LET name(i) == Item[q[i].ss][q[i].w].name
      n(i) == Cardinality({j \in 1 .. i : name(j) = name(i)})
  IN [i \in DOMAIN q |->
        [name |-> IF n(i) > 1 THEN Append(name(i), n(i)) ELSE name(i),
         ss   |-> q[i].ss, w |-> q[i].w,
         alts |-> StandIns(spare, q[i].ss, q[i].w)]]

\* Every directory a copy can be filed under, exposed at the root or not.
Dirs == {ExposedName(title, Src[ss]) : title \in {Title[s] : s \in SrcSections} \cup {""},
                                       ss \in SrcSections}

\* The trees derive may make of catalogue d.  A directory without a copy is
\* empty.
Trees(d) ==
  UNION {LET filled == {p.dir : p \in seen.placed}
             listings == [dir \in filled |->
               {Numbered(q, seen.spare) :
                  q \in Arrangements({p \in seen.placed : p.dir = dir})}]
         IN {[dir \in Dirs |-> IF dir \in filled THEN listing[dir] ELSE << >>] :
               listing \in {l \in [filled -> UNION Range(listings)] :
                             \A dir \in filled : l[dir] \in listings[dir]}}
         : seen \in {Visited(d, walk) : walk \in Walks}}

\* dirListing.find: the index keeps the last entry of a name.
EntryNamed(listing, name) == listing[SelectLastInSeq(listing, LAMBDA e : e.name = name)]

NamesIn(listing) == {e.name : e \in ToSet(listing)}
=============================================================================
