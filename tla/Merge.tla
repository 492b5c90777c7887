------------------------------- MODULE Merge -------------------------------
(***************************************************************************)
(* What a catalogue is and how one tree is derived from the listings of    *)
(* several Plex servers (internal/davfs/catalogue.go).                     *)
(*                                                                         *)
(* A section of a server is an element of SrcSections.  What it holds is   *)
(* identified by a version: Content[ss][v] is the set of works (the keys   *)
(* dedupKey computes) that section ss holds at version v.  A directory of  *)
(* the root is a pair <<title, label>>: label 0 is a plain section title,  *)
(* any other label is the server extraName appends to it.                  *)
(***************************************************************************)
EXTENDS Integers, FiniteSets

CONSTANTS
  NSources,       \* number of configured servers; server 0 is the primary
  SrcSections,    \* every section some server may list, past PLEX_SECTIONS
  Src,            \* the server each section is on
  Title,          \* the sanitized title of each section
  Works,          \* keys of films and shows
  MaxEdits,       \* bound on the changes made on the servers
  Content,        \* Content[ss][v]: what section ss holds at version v
  MirrorPrimary,  \* PLEX_MIRROR_PRIMARY
  ExtraSections,  \* PLEX_EXTRA_SECTIONS
  NoCatalogue     \* the nil catalogue

Versions == 0 .. MaxEdits
None == -1
Names == STRING \X Nat

\* A catalogue.  raw is what each server said, order the sections that have
\* a place in the listing order (and a meta record, which is always written
\* with it), sections the root directories, extra the ones among them that
\* only hold what a fallback server adds.
Catalogues ==
  [raw      : [SrcSections -> Versions \cup {None}],
   order    : SUBSET SrcSections,
   sections : SUBSET Names,
   extra    : SUBSET Names]

ASSUME SectionsAssumption == IsFiniteSet(SrcSections)

ASSUME SourcesAssumption ==
  /\ NSources \in Nat \ {0}
  /\ MaxEdits \in Nat
  /\ Src \in [SrcSections -> 0 .. NSources - 1]

ASSUME TitlesAssumption ==
  /\ Title \in [SrcSections -> STRING]
  /\ \A ss \in SrcSections : Title[ss] # ""

ASSUME ContentAssumption == Content \in [SrcSections -> [Versions -> SUBSET Works]]

ASSUME ModesAssumption == MirrorPrimary \in BOOLEAN /\ ExtraSections \in BOOLEAN

ASSUME NoCatalogueAssumption == NoCatalogue \notin Catalogues

EmptyCatalogue ==
  [raw |-> [ss \in SrcSections |-> None], order |-> {}, sections |-> {}, extra |-> {}]

-----------------------------------------------------------------------------
(* Reading a catalogue that may be nil.                                    *)

RawOf(c, ss) == IF c = NoCatalogue THEN None ELSE c.raw[ss]

SectionOrder(c) == IF c = NoCatalogue THEN {} ELSE c.order

-----------------------------------------------------------------------------
(* Exposing sections as root directories.                                  *)

\* A fallback server's own sections are directories of their own.
IsExtra(src) == src > 0 /\ MirrorPrimary /\ ExtraSections

\* Mirrored without extra sections, a fallback server adds nothing.
Contributes(src) == src = 0 \/ ~MirrorPrimary \/ ExtraSections

ExposedName(title, src) == <<title, IF IsExtra(src) THEN src ELSE 0>>

\* Variant: only the primary's sections are exposed, in every mode.
AddPrimaryOnly(c, S, raw) ==
  LET dir(ss) == ExposedName(Title[ss], Src[ss])
  IN [raw      |-> [ss \in SrcSections |-> IF ss \in S THEN raw[ss] ELSE c.raw[ss]],
      order    |-> c.order \cup S,
      sections |-> c.sections \cup {dir(ss) : ss \in {t \in S : Src[t] = 0}},
      extra    |-> c.extra]

\* The catalogue once the sections S are entered with their listings of
\* raw: meta, raw and order are written and each section is exposed.
Add(c, S, raw) ==
  LET shown == {ss \in S : Contributes(Src[ss])}
      dir(ss) == ExposedName(Title[ss], Src[ss])
  IN [raw      |-> [ss \in SrcSections |-> IF ss \in S THEN raw[ss] ELSE c.raw[ss]],
      order    |-> c.order \cup S,
      sections |-> c.sections \cup {dir(ss) : ss \in shown},
      extra    |-> c.extra \cup {dir(ss) : ss \in {t \in shown : IsExtra(Src[t])}}]

-----------------------------------------------------------------------------
(* Deriving the tree.                                                      *)

Items(c, ss) == IF c.raw[ss] = None THEN {} ELSE Content[ss][c.raw[ss]]

\* The works an earlier server than src already shows.
Claimed(c, src) ==
  UNION {Items(c, ss) : ss \in {t \in SrcSections : Src[t] < src /\ Contributes(Src[t])}}

\* The works of section ss that get an entry in the tree; the others are
\* kept aside as fallback copies.
Placed(c, ss) ==
  IF Contributes(Src[ss]) THEN Items(c, ss) \ Claimed(c, Src[ss]) ELSE {}

\* The directory those entries are filed under.  A section without a meta
\* record reads a zero sectionRef, whose name is empty.
DirOf(c, ss) == ExposedName(IF ss \in c.order THEN Title[ss] ELSE "", Src[ss])

Listing(c, name) ==
  UNION {Placed(c, ss) : ss \in {t \in SrcSections : DirOf(c, t) = name}}

\* derive: the listings follow from raw, so what is left to compute is the
\* root, from which the extra sections that added nothing are pruned.
Derive(c) ==
  [c EXCEPT !.sections = {name \in c.sections : name \in c.extra => Listing(c, name) # {}}]

\* titleCount(c) > 0: it counts every listing, exposed or not.
HasTitles(c) == \E ss \in SrcSections : Placed(c, ss) # {}

\* Sections whose entries no root directory leads to.
Orphans(c) == {ss \in SrcSections : Placed(c, ss) # {} /\ DirOf(c, ss) \notin c.sections}
=============================================================================
