----------------------------- MODULE MCChildren -----------------------------
(* The primary and a fallback server with films and shows, a third one     *)
(* with shows only.  f is the same file on both, and another one in a      *)
(* second section of the primary; g is another one on the fallback; h,     *)
(* named like g, changes hands; every server has the show s, which has the *)
(* number that f has among the films.  d and e are two films without year  *)
(* that share a title, without ids but for d on the fallback: so both are  *)
(* shown from the primary and from the fallback.                           *)
EXTENDS Children

CONSTANTS movies, remux, tv, backup, tvthird, tvbackup

TheSections == {movies, remux, tv, backup, tvthird, tvbackup}

TheSrc == [ss \in TheSections |-> IF ss \in {movies, remux, tv} THEN 0 ELSE IF ss = tvthird THEN 2 ELSE 1]

TheTitles == [ss \in TheSections |->
  IF ss \in {movies, backup} THEN "Movies" ELSE IF ss = remux THEN "Remux" ELSE "TV"]

TheEditable == {movies, tv, tvbackup}

\* Servers number their sections alike.
TheSectionKeys == [ss \in TheSections |->
  IF ss \in {movies, backup} THEN 1 ELSE IF ss = remux THEN 3 ELSE 2]

\* An edit of the films of the primary brings h, one of a show section
\* takes the show away at its second change.
Has(ss, v) ==
  IF ss = movies THEN (IF v = 1 THEN {"f", "g", "h"} ELSE {"f", "g"})
  ELSE IF ss = remux THEN {"f", "d", "e"}
  ELSE IF ss = backup THEN (IF v = 0 THEN {"f", "g", "h", "d", "e"} ELSE {"f", "h", "d", "e"})
  ELSE (IF v = 2 THEN {} ELSE {"s"})

EverHas(ss) == UNION {Has(ss, v) : v \in 0 .. MaxEdits}

TheNormal == [title \in {"One", "ONE", "Two", "Untitled"} |->
  IF title \in {"One", "ONE"} THEN "one" ELSE title]

Refs(x, src) ==
  IF x = "f" THEN <<[scheme |-> "imdb", id |-> "tt1"], [scheme |-> "tmdb", id |-> "603"]>>
  ELSE IF x = "s" THEN <<[scheme |-> "tmdb", id |-> "603"]>>
  ELSE IF x = "h" THEN <<[scheme |-> "tvdb", id |-> "7"]>>
  ELSE IF x = "d" /\ src = 1 THEN <<[scheme |-> "imdb", id |-> "tt4"]>>
  ELSE << >>

\* "guid" comes after "Guid" from the fallback, before it from the others.
Record(ss, x) ==
  LET refs == [array |-> TRUE, refs |-> Refs(x, TheSrc[ss])]
      string == [array |-> FALSE]
  IN [type   |-> IF x = "s" THEN "show" ELSE "movie",
      fields |-> IF TheSrc[ss] = 1 THEN <<refs, string>> ELSE <<string, refs>>,
      title  |-> IF x = "f" THEN (IF TheSrc[ss] = 0 THEN "One" ELSE "Two")
                 ELSE IF x = "g" THEN (IF TheSrc[ss] = 0 THEN "One" ELSE "ONE")
                 ELSE IF x \in {"d", "e"} THEN "Untitled" ELSE "Two",
      year   |-> IF x \in {"d", "e"} THEN 0 ELSE 1999,
      key    |-> IF x = "f" THEN 1 ELSE IF x = "g" THEN 2 ELSE IF x = "h" THEN 3
                 ELSE IF x = "s" THEN 4
                 ELSE IF x = "d" /\ TheSrc[ss] = 1 THEN 6
                 ELSE IF x = "e" /\ TheSrc[ss] = 0 THEN 7 ELSE 5]

Key(ss, x) == DedupKey(Record(ss, x), TheSrc[ss])

TheWorks == UNION {{Key(ss, x) : x \in EverHas(ss)} : ss \in TheSections}

TheContent ==
  [ss \in TheSections |-> [v \in 0 .. MaxEdits |-> {Key(ss, x) : x \in Has(ss, v)}]]

\* Which one key w names in section ss; any where it names none.
TheFilms == [ss \in TheSections |-> [w \in TheWorks |->
  LET named == {x \in EverHas(ss) : Key(ss, x) = w}
  IN CHOOSE x \in EverHas(ss) : named # {} => x \in named]]

TheSent == [ss \in TheSections |-> [w \in TheWorks |->
  {ref.scheme : ref \in ToSet(Refs(TheFilms[ss][w], TheSrc[ss]))}]]

\* g and h share title and name; the rating keys of a show are alike.
TheItems ==
  [ss \in TheSections |-> [w \in TheWorks |->
     LET x == TheFilms[ss][w] IN
       [title |-> IF x = "f" THEN 1 ELSE IF x = "s" THEN 3 ELSE IF x \in {"g", "h"} THEN 2 ELSE 4,
        key   |-> Record(ss, x).key,
        name  |-> IF x = "f" THEN <<1>> ELSE IF x = "s" THEN <<3>>
                  ELSE IF x \in {"g", "h"} THEN <<2>> ELSE <<4>>,
        file  |-> IF x = "s" THEN NoFile ELSE IF ss = remux THEN 4
                  ELSE IF x = "g" THEN 1 + TheSrc[ss] ELSE 3]]]

\* None of these names is another one with a number.
ASSUME NamesAssumption == NumbersApart

-----------------------------------------------------------------------------
(* TLC evaluates a definition once, and again for each use what a constant *)
(* is replaced by; behind a LET its coverage does not unfold it there.     *)

MCSections == LET it == TheSections IN it
MCSrc == LET it == TheSrc IN it
MCTitle == LET it == TheTitles IN it
MCSectionKey == LET it == TheSectionKeys IN it
MCWorks == LET it == TheWorks IN it
MCContent == LET it == TheContent IN it
MCFilm == LET it == TheFilms IN it
MCSent == LET it == TheSent IN it
MCItem == LET it == TheItems IN it
MCNormal == LET it == TheNormal IN it
MCEditable == LET it == TheEditable IN it
=============================================================================
