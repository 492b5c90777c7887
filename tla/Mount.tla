------------------------------- MODULE Mount -------------------------------
(***************************************************************************)
(* What happens above the tree when it changes: the watcher's callback     *)
(* (cmd/bridge/main.go) tells the rclone mount to forget directories       *)
(* (internal/rclonerc), then the local Plex to scan them                   *)
(* (internal/plexlocal).  Every request of the callback is one step; the   *)
(* mount is read, scans run and libraries are added or moved in between.   *)
(*                                                                         *)
(* The mount and the local Plex are external.  Both are configured.  The   *)
(* mount reads a directory under a lock that forgetting takes too, so a    *)
(* read is one step.                                                       *)
(***************************************************************************)
EXTENDS Served, SequencesExt

CONSTANTS
  Paths,     \* where the local Plex may have a library
  NoHome,    \* ... or has none of that name
  Homes,     \* where it has the library of each title at first
  MaxMoves   \* bound on the libraries added or moved

Titles == {Title[ss] : ss \in SrcSections}

ASSUME HomesAssumption ==
  /\ NoHome \notin Paths
  /\ Homes \in [Titles -> Paths \cup {NoHome}]
  /\ MaxMoves \in Nat

VARIABLES
  view,    \* the mount's directory cache
  npc,     \* where the callback is
  names,   \* its argument
  at,      \* the name it is at
  known,   \* Client.sections of plexlocal: the path of each library by name
  homes,   \* the libraries the local Plex really has
  moves,   \* number of them added or moved so far
  scans,   \* scans the local Plex has accepted and not yet run
  seen,    \* what the last scan of each directory saw
  missed   \* history: titles whose last forgetting failed

callback == <<npc, names, at>>
above == <<view, callback, known, homes, moves, scans, seen, missed>>

\* The sections shown under a plain title; those of an extra section have
\* another name, which no title in a notification is.
Under(t) ==
  {ss \in SrcSections : Contributes(Src[ss]) /\ ExposedName(Title[ss], Src[ss]) = <<t, 0>>}

\* The sections that decide what is listed there: those shown, and those of
\* earlier servers, under whatever name, whose works they do not show.
Deciding(t) ==
  Under(t) \cup {tt \in SrcSections :
    Contributes(Src[tt]) /\ \E ss \in Under(t) : Src[tt] < Src[ss]}

\* What a reader of the directory finds, by the versions it was derived from.
Shown(t) == [ss \in Deciding(t) |-> cur.raw[ss]]

\* The works of section ss in a listing.
Winners(listing, ss) == Placed([raw |-> listing], ss)

Unread == << >>

MountInit ==
  /\ BuiltInit
  /\ view = [t \in Titles |-> Unread]
  /\ npc = "none" /\ names = << >> /\ at = 0
  /\ known = << >> /\ homes = Homes /\ moves = 0
  /\ scans = {} /\ seen = [t \in Titles |-> Unread]
  /\ missed = {}

-----------------------------------------------------------------------------
(* The mount and the local Plex.                                           *)

ReadDir(t) ==
  /\ view[t] = Unread
  /\ view' = [view EXCEPT ![t] = Shown(t)]
  /\ UNCHANGED <<vars, callback, known, homes, moves, scans, seen, missed>>

\* The mount's own expiry.
Lapse(t) ==
  /\ view[t] # Unread
  /\ view' = [view EXCEPT ![t] = Unread]
  /\ missed' = missed \ {t}
  /\ UNCHANGED <<vars, callback, known, homes, moves, scans, seen>>

\* A library is added, or moved to a directory of the same name.
Move(t) ==
  /\ moves < MaxMoves
  /\ \E path \in Paths \ {homes[t]} : homes' = [homes EXCEPT ![t] = path]
  /\ moves' = moves + 1
  /\ UNCHANGED <<vars, view, callback, known, scans, seen, missed>>

\* A scan reads the directory through the mount; one of a path where the
\* library is no more reads nothing.
ScanRuns(scan) ==
  /\ scans' = scans \ {scan}
  /\ IF scan.path = homes[scan.title]
       THEN LET t == scan.title
                found == IF view[t] = Unread THEN Shown(t) ELSE view[t]
            IN view' = [view EXCEPT ![t] = found] /\ seen' = [seen EXCEPT ![t] = found]
       ELSE UNCHANGED <<view, seen>>
  /\ UNCHANGED <<vars, callback, known, homes, moves, missed>>

-----------------------------------------------------------------------------
(* The callback: rc.Forget, then local.ScanSections.                       *)

\* A refresh publishes, and the callback is called with the titles.
Publish ==
  /\ RefreshPublished
  /\ npc' = "forget" /\ names' \in SetToSeqs(changed) /\ at' = 1
  /\ UNCHANGED <<view, known, homes, moves, scans, seen, missed>>

\* Variant: the loop runs one name too far.
NextNamePast(where) ==
  /\ IF at <= Len(names) THEN at' = at + 1 /\ UNCHANGED npc ELSE at' = 1 /\ npc' = where
  /\ UNCHANGED names

\* On to the next name, or past the last one to where.
NextName(where) ==
  /\ IF at < Len(names) THEN at' = at + 1 /\ UNCHANGED npc ELSE at' = 1 /\ npc' = where
  /\ UNCHANGED names

\* Variant: the first name is the only one.
ForgetOne ==
  /\ npc = "forget"
  /\ view' = [view EXCEPT ![names[at]] = Unread]
  /\ missed' = missed \ {names[at]}
  /\ at' = 1 /\ npc' = "check" /\ UNCHANGED names
  /\ UNCHANGED <<vars, known, homes, moves, scans, seen>>

\* The mount forgets a directory ...
Forget ==
  /\ npc = "forget"
  /\ view' = [view EXCEPT ![names[at]] = Unread]
  /\ missed' = missed \ {names[at]}
  /\ NextName("check")
  /\ UNCHANGED <<vars, known, homes, moves, scans, seen>>

\* Variant: the first failure ends it.
ForgetFailsAll ==
  /\ npc = "forget" /\ FailsElsewhere
  /\ missed' = missed \cup {names[at]}
  /\ at' = 1 /\ npc' = "check"
  /\ UNCHANGED <<view, names, known, homes, moves, scans, seen>>

\* ... or does not get the request.  The other names are still tried, and
\* the scans still asked for.
ForgetFails ==
  /\ npc = "forget" /\ FailsElsewhere
  /\ missed' = missed \cup {names[at]}
  /\ NextName("check")
  /\ UNCHANGED <<view, known, homes, moves, scans, seen>>

\* loadSections: the libraries there are, by the names of their directories.
Load == known' = [t \in {u \in Titles : homes[u] # NoHome} |-> homes[t]]

\* ScanSections: with no library known they are loaded first ...
Check ==
  /\ npc = "check"
  /\ IF DOMAIN known = {} THEN Load ELSE UNCHANGED known
  /\ npc' = "scan"
  /\ UNCHANGED <<vars, view, names, at, homes, moves, scans, seen, missed>>

\* ... without which there is no scan.
CheckFails ==
  /\ npc = "check" /\ DOMAIN known = {} /\ FailsElsewhere
  /\ npc' = "end"
  /\ UNCHANGED <<view, names, at, known, homes, moves, scans, seen, missed>>

\* Variant: an unknown name is skipped.
ReloadNever ==
  /\ npc = "scan" /\ names[at] \notin DOMAIN known
  /\ NextName("end")
  /\ UNCHANGED <<vars, view, known, homes, moves, scans, seen, missed>>

\* A name that is not known may have been added: the libraries are loaded
\* again, and if it still is not, it is skipped.
Reload ==
  /\ npc = "scan" /\ names[at] \notin DOMAIN known
  /\ Load
  /\ IF homes[names[at]] = NoHome THEN NextName("end") ELSE UNCHANGED callback
  /\ UNCHANGED <<vars, view, homes, moves, scans, seen, missed>>

ReloadFails ==
  /\ npc = "scan" /\ names[at] \notin DOMAIN known /\ FailsElsewhere
  /\ NextName("end")
  /\ UNCHANGED <<view, known, homes, moves, scans, seen, missed>>

\* refresh: the local Plex accepts a scan of the path known.  History: what
\* was served when it was asked.
Scan ==
  /\ npc = "scan" /\ names[at] \in DOMAIN known
  /\ scans' = scans \cup
       {[title |-> names[at], path |-> known[names[at]], served |-> Shown(names[at])]}
  /\ NextName("end")
  /\ UNCHANGED <<vars, view, known, homes, moves, seen, missed>>

ScanFails ==
  /\ npc = "scan" /\ names[at] \in DOMAIN known /\ FailsElsewhere
  /\ NextName("end")
  /\ UNCHANGED <<view, known, homes, moves, scans, seen, missed>>

\* The callback returns to Watch.
Return ==
  /\ npc = "end" /\ Notify
  /\ npc' = "none" /\ names' = << >> /\ at' = 0
  /\ UNCHANGED <<view, known, homes, moves, scans, seen, missed>>

Callback ==
  \/ Forget \/ ForgetFails \/ Check \/ CheckFails \/ Reload \/ ReloadFails
  \/ Scan \/ ScanFails \/ Return

Watching ==
  \/ (Watches \/ Polled) /\ UNCHANGED above
  \/ Publish
  \/ Callback

RunScan == \E scan \in scans : ScanRuns(scan)

MountNext ==
  \/ \E ss \in Editable : Edit(ss) /\ UNCHANGED above
  \/ Watching
  \/ \E t \in Titles : ReadDir(t) \/ Lapse(t) \/ Move(t)
  \/ RunScan

MountSpec == MountInit /\ [][MountNext]_<<vars, above>>

\* The watcher goroutine runs, and the local Plex runs what it accepted.
MountFairSpec ==
  MountSpec /\ WF_<<vars, above>>(Watching) /\ WF_<<vars, above>>(RunScan)

-----------------------------------------------------------------------------
(* Properties.                                                             *)

Views(t) == [Deciding(t) -> Versions \cup {None}] \cup {Unread}

\* The callback is at a name of its argument while it has one, exactly while
\* Watch waits for it; what is known, cached, scanned and seen keeps its type.
CallbackType ==
  /\ npc \in {"none", "forget", "check", "scan", "end"}
  /\ npc = "none" <=> wpc # "notify"
  /\ npc # "none" => names \in Seq(Titles) /\ ToSet(names) = changed /\ at \in DOMAIN names

PlexType ==
  /\ DOMAIN view = Titles /\ DOMAIN seen = Titles
  /\ \A t \in Titles : view[t] \in Views(t) /\ seen[t] \in Views(t)
  /\ DOMAIN known \subseteq Titles /\ \A t \in DOMAIN known : known[t] \in Paths
  /\ homes \in [Titles -> Paths \cup {NoHome}] /\ moves \in 0 .. MaxMoves
  /\ \A scan \in scans : scan.title \in Titles /\ scan.path \in Paths
  /\ missed \subseteq Titles

MountTypeOK == CallbackType /\ PlexType

\* The titles the callback has still to forget.
Pending == IF npc = "forget" THEN {names[i] : i \in at .. Len(names)} ELSE {}

\* Work w of ss is shown or not by a listing of t because a section of an
\* earlier server, which is not shown under t, had it and has it no more, or
\* the other way round.
CameOrWent(t, ss, w) ==
  \E tt \in Deciding(t) \ Under(t) :
    /\ Src[tt] < Src[ss]
    /\ ~(w \in Items([raw |-> view[t]], tt) <=> w \in Items(cur, tt))

\* What the mount shows of a directory that has a plain title is what is
\* served, except between a refresh and the forgetting of that title, and
\* where forgetting it failed.  The exception is a work that a refresh moved
\* between two directories: the callback names the one whose section
\* changed, and the mount keeps showing the other one as it was.
MountKeepsUp ==
  \A t \in Titles \ (Pending \cup missed) : view[t] # Unread =>
    \A ss \in Under(t) :
      /\ view[t][ss] = cur.raw[ss]
      /\ \A w \in Works :
           (w \in Winners(view[t], ss) <=> w \in Placed(cur, ss)) \/ CameOrWent(t, ss, w)

\* "The mount has to drop its cached listing before Plex looks": what a scan
\* sees, however late it runs, was derived from listings at least as new, of
\* every section that decides it, as was served when the scan was asked for,
\* if the mount could be told.
ScanSeesServed ==
  [][\A scan \in scans \ scans' :
       scan.path = homes[scan.title] /\ scan.title \notin missed =>
         \A ss \in Deciding(scan.title) : seen'[scan.title][ss] >= scan.served[ss]
    ]_<<vars, above>>

\* While no call fails, a change noted of a section that is shown under its
\* title reaches the local Plex, if that has a library of the title and was
\* not asked for its libraries before it moved: the last scan of the
\* directory saw the section at the stamp noted with at least.
ChangeReachesPlex ==
  [](failures = 0) =>
    \A t \in Titles : \A ss \in Under(t) :
      ss \in dirty /\ homes[t] # NoHome ~>
        \/ seen[t] # Unread /\ seen[t][ss] >= stamps[ss]
        \/ t \in DOMAIN known /\ known[t] # homes[t]
-----------------------------------------------------------------------------
(* The inductive invariant behind MountTypeOK, MountKeepsUp and            *)
(* ScanSeesServed; proved in MountProofs.                                  *)

\* Of a section shown under a title that the mount could be told to forget
\* it shows the version served.
KeepsVersions ==
  \A t \in Titles \ (Pending \cup missed) : view[t] # Unread =>
    \A ss \in Under(t) : view[t][ss] = cur.raw[ss]

\* While the callback runs, what was forgotten is read again as it is served.
Told == IF npc = "none" THEN {} ELSE changed \ Pending

ToldKeepsUp == \A t \in Told \ missed : view[t] \in {Unread, Shown(t)}

\* What was served when a scan was asked for is served still, or something
\* newer; and so is what the mount has cached of its directory since it
\* could last be told to forget that.
ScansKeepUp ==
  \A scan \in scans :
    /\ scan.served \in [Deciding(scan.title) -> Versions \cup {None}]
    /\ \A ss \in Deciding(scan.title) :
         /\ cur.raw[ss] >= scan.served[ss]
         /\ scan.title \notin missed /\ view[scan.title] # Unread =>
              view[scan.title][ss] >= scan.served[ss]

ViewsInv == KeepsVersions /\ ToldKeepsUp /\ ScansKeepUp

MountInv == Settled /\ Noting /\ MountTypeOK /\ ViewsInv
=============================================================================
