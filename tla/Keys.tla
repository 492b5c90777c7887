-------------------------------- MODULE Keys --------------------------------
(***************************************************************************)
(* What makes two records of two servers the same work: the external ids   *)
(* of a record as they are decoded (internal/plex/types.go), and dedupKey  *)
(* (internal/davfs/catalogue.go).  The works of Merge and Tree are these   *)
(* keys.                                                                   *)
(***************************************************************************)
EXTENDS Naturals, SequencesExt

CONSTANTS
  Normal   \* Normal[title]: the title in lower case, its blanks collapsed

NoId == ""
NoTitle == ""

-----------------------------------------------------------------------------
(* External ids.                                                           *)

\* Variant: a value that is not an array clears the field.
UnmarshalClears(guids, field) == IF field.array THEN field.refs ELSE << >>

\* GuidList.UnmarshalJSON: a string or null leaves the field alone.
Unmarshal(guids, field) == IF field.array THEN field.refs ELSE guids

\* Item.Guid: Go takes every key that is "guid" but for case for the field,
\* "guid" with a string and "Guid" with an array among them, as they come.
Guids(it) == FoldLeft(LAMBDA guids, field : Unmarshal(guids, field), << >>, it.fields)

\* The first id of the scheme.
ExternalID(it, scheme) ==
  LET guids == Guids(it)
      i == SelectInSeq(guids, LAMBDA ref : ref.scheme = scheme)
  IN IF i = 0 THEN NoId ELSE guids[i].id

-----------------------------------------------------------------------------
(* The key.  The code joins its parts in a string; which parts they are    *)
(* can be told from it.  A record of no other identity has a key that no   *)
(* kind can begin.                                                         *)

Schemes == {"tmdb", "imdb", "tvdb"}

Kind(it) == IF it.type = "" THEN "?" ELSE it.type

\* Variant: films and shows are numbered alike.
DedupKeyAnyKind(it, src) ==
  LET id == [scheme \in Schemes |-> ExternalID(it, scheme)]
      title == Normal[it.title]
  IN IF id["tmdb"] # NoId THEN <<"any", "tmdb", id["tmdb"]>>
     ELSE IF id["imdb"] # NoId THEN <<"any", "imdb", id["imdb"]>>
     ELSE IF id["tvdb"] # NoId THEN <<"any", "tvdb", id["tvdb"]>>
     ELSE IF title # NoTitle /\ it.year > 0 THEN <<"any", "t", title, it.year>>
     ELSE <<"", src, it.key>>

\* TMDb before IMDb before TVDB before title and year; a record with none
\* of them is a work of its own.
DedupKey(it, src) ==
  LET id == [scheme \in Schemes |-> ExternalID(it, scheme)]
      title == Normal[it.title]
  IN IF id["tmdb"] # NoId THEN <<Kind(it), "tmdb", id["tmdb"]>>
     ELSE IF id["imdb"] # NoId THEN <<Kind(it), "imdb", id["imdb"]>>
     ELSE IF id["tvdb"] # NoId THEN <<Kind(it), "tvdb", id["tvdb"]>>
     ELSE IF title # NoTitle /\ it.year > 0 THEN <<Kind(it), "t", title, it.year>>
     ELSE <<"", src, it.key>>

-----------------------------------------------------------------------------
(* What may make two records the same work.                                *)

SharesId(x, y) ==
  \E scheme \in Schemes :
    ExternalID(x, scheme) = ExternalID(y, scheme) /\ ExternalID(x, scheme) # NoId

NoIds(it) == \A scheme \in Schemes : ExternalID(it, scheme) = NoId

SharesTitle(x, y) ==
  /\ Normal[x.title] = Normal[y.title] /\ Normal[x.title] # NoTitle
  /\ x.year = y.year /\ x.year > 0

\* "Every judgement call below leans towards leaving them apart": one kind,
\* and an id in common, or no ids at all and title and year in common.
SameWork(x, y) ==
  /\ Kind(x) = Kind(y)
  /\ SharesId(x, y) \/ (NoIds(x) /\ NoIds(y) /\ SharesTitle(x, y))
=============================================================================
