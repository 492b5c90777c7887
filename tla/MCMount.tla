------------------------------- MODULE MCMount -------------------------------
(* The primary with films, a fallback with films and remuxes.  A film of   *)
(* the primary is taken away and comes back: the fallback has it in both   *)
(* its sections, which show it only meanwhile.  The local Plex has a       *)
(* library of the films and gets one of the remuxes, or the films are      *)
(* moved, while the bridge runs.                                           *)
EXTENDS Mount

CONSTANTS movies, backup, remux, f, g, atA, atB

TheSections == {movies, backup, remux}

TheSrc == [ss \in TheSections |-> IF ss = movies THEN 0 ELSE 1]

TheTitle == [ss \in TheSections |-> IF ss = remux THEN "Remux" ELSE "Movies"]

TheWorks == {f, g}

TheContent == [ss \in TheSections |-> [v \in 0 .. MaxEdits |->
  IF ss = movies THEN (IF v = 1 THEN {} ELSE {f})
  ELSE IF ss = backup THEN {f, g} ELSE {f}]]

ThePaths == {atA, atB}

TheHomes == [t \in {"Movies", "Remux"} |-> IF t = "Movies" THEN atA ELSE NoHome]

-----------------------------------------------------------------------------
(* TLC evaluates a definition once, and again for each use what a constant *)
(* is replaced by; behind a LET its coverage does not unfold it there.     *)

MCSections == LET it == TheSections IN it
MCSrc == LET it == TheSrc IN it
MCTitle == LET it == TheTitle IN it
MCWorks == LET it == TheWorks IN it
MCContent == LET it == TheContent IN it
MCPaths == LET it == ThePaths IN it
MCHomes == LET it == TheHomes IN it
=============================================================================
