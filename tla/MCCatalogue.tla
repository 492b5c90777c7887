---------------------------- MODULE MCCatalogue ----------------------------
(* Two servers: the primary lists Movies and Kids, the fallback its own    *)
(* Movies.  Works w1 and w2 are on both, w3 only ever on the fallback.     *)
EXTENDS Catalogue

CONSTANTS movies, kids, backup, w1, w2, w3

TheSections == {movies, kids, backup}

TheSrc == [ss \in TheSections |-> IF ss = backup THEN 1 ELSE 0]

TheTitle == [ss \in TheSections |-> IF ss = kids THEN "Kids" ELSE "Movies"]

TheWorks == {w1, w2, w3}

\* Every section starts with one work; an edit changes what is on it.  Kids
\* holds nothing until it is edited.
TheContent ==
  [ss \in TheSections |-> [v \in 0 .. MaxEdits |->
     IF ss = movies THEN (IF v = 0 THEN {w1} ELSE {w1, w2})
     ELSE IF ss = kids THEN (IF v = 0 THEN {} ELSE {w2})
     ELSE (IF v = 0 THEN {w1} ELSE {w1, w2, w3})]]

-----------------------------------------------------------------------------
(* TLC evaluates a definition once, and again for each use what a constant *)
(* is replaced by; behind a LET its coverage does not unfold it there.     *)

MCSections == LET it == TheSections IN it
MCSrc == LET it == TheSrc IN it
MCTitle == LET it == TheTitle IN it
MCWorks == LET it == TheWorks IN it
MCContent == LET it == TheContent IN it
=============================================================================
