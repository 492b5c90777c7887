------------------------------ MODULE Children ------------------------------
(***************************************************************************)
(* The tree below the catalogue (internal/davfs/fs.go): a request for the  *)
(* seasons of a show, or the episodes of a season, resolved by name in the *)
(* served tree, answered from the cache of child listings or by the server *)
(* that has the show, by another one that knows the series when that       *)
(* fails; the watcher, which drops what is cached of a changed section     *)
(* and, after a refresh, serves a new tree.                                *)
(*                                                                         *)
(* fs.mu is taken twice in cachedListing, to look and to store; the        *)
(* watcher, an edit or an outage fits between the two.                     *)
(***************************************************************************)
EXTENDS Served, Tree, Keys

CONSTANTS
  SectionKey,  \* the key of each section on its server; servers number alike
  Film,        \* Film[ss][w]: the film or series that record w of ss is about
  Sent         \* Sent[ss][w]: the schemes of the ids the server sends with it

ASSUME SectionKeyAssumption ==
  /\ SectionKey \in [SrcSections -> Nat]
  /\ \A ss, tt \in SrcSections :
       Src[ss] = Src[tt] /\ SectionKey[ss] = SectionKey[tt] => ss = tt

\* What section ss ever has.
EverIn(ss) == UNION {Content[ss][v] : v \in Versions}

\* A server gives each of its records a rating key of its own.
ASSUME RatingKeyAssumption ==
  \A ss \in SrcSections : \A x, y \in EverIn(ss) :
    Item[ss][x].key = Item[ss][y].key => x = y

VARIABLES
  tree,    \* cat.cur.listings: the entries of each directory
  cache,   \* FS.cache: child listings by key
  req,     \* the request under way
  noted    \* history: the last stamp a poll took for a change, or None

below == <<tree, cache, req, noted>>

Levels == {"show", "season"}

\* A child listing: of which work, from which section, at which version of
\* it; the section its entries say to ask next; and whether it was on its
\* way when a poll noted that section as changed (history).
Listings ==
  [of : Works, level : Levels, from : SrcSections, v : Versions, ask : SrcSections,
   crossed : BOOLEAN]

NoListing == << >>

NoRequest == [pc |-> "none"]

-----------------------------------------------------------------------------
(* The key of a child listing.  The rating key of a season is another one  *)
(* on its server than that of the show, which level stands for.            *)

\* Variant: a key without its server.
CacheKeyOfSection(ss, w, level) == <<0, SectionKey[ss], Item[ss][w].key, level>>

CacheKey(ss, w, level) == <<Src[ss], SectionKey[ss], Item[ss][w].key, level>>

-----------------------------------------------------------------------------
ChildrenInit ==
  /\ BuiltInit
  /\ tree \in Trees(cur)
  /\ cache = << >>
  /\ req = NoRequest
  /\ noted = [ss \in SrcSections |-> None]

-----------------------------------------------------------------------------
(* A request.                                                              *)

\* The sections of catalogue d that have w, and as a directory.
HaveShow(d, w) == {ss \in SrcSections : w \in Items(d, ss) /\ Item[ss][w].file = NoFile}

\* resolve: the path names a root directory and a show in it.  The root and
\* the directory are read one after the other, and the second of them decides
\* what is found.  The entry is kept: a catalogue published later does not
\* change whom this request asks.
Resolve(dir, name) ==
  /\ dir \in cur.sections
  /\ LET e == EntryNamed(tree[dir], name) IN
       /\ Item[e.ss][e.w].file = NoFile
       /\ req' = [pc |-> "look", of |-> e.w, level |-> "show",
                  tries |-> <<e.ss>> \o e.alts, at |-> 1, got |-> NoListing,
                  \* History: the sections that have the show, in the catalogue
                  \* resolved against, and the one that listed its seasons.
                  knew |-> HaveShow(cur, e.w),
                  listed |-> e.ss]
  /\ UNCHANGED <<vars, tree, cache, noted>>

Asked == req.tries[req.at]

KeyAsked == CacheKey(Asked, req.of, req.level)

\* A listing is returned, or a path that is deeper goes on to a season: to
\* the server that listed it, and there is no other to turn to from there.
Answer(l) ==
  \/ req' = NoRequest
  \/ /\ req.level = "show"
     /\ req' = [req EXCEPT !.pc = "look", !.level = "season", !.tries = <<l.ask>>,
                           !.at = 1, !.got = NoListing, !.listed = l.from]

\* cachedListing, first half: under mu the cache is looked up ...
Hit ==
  /\ req.pc = "look" /\ KeyAsked \in DOMAIN cache
  /\ Answer(cache[KeyAsked])
  /\ UNCHANGED <<vars, tree, cache, noted>>

Miss ==
  /\ req.pc = "look" /\ KeyAsked \notin DOMAIN cache
  /\ req' = [req EXCEPT !.pc = "fetch"]
  /\ UNCHANGED <<vars, tree, cache, noted>>

\* The show is still on the server asked.
Holds(ss, w) == lib[ss] # None /\ w \in Content[ss][lib[ss]]

\* ... ListChildren answers; its entries are given the server asked ...
Fetched ==
  /\ req.pc = "fetch" /\ Holds(Asked, req.of)
  /\ req' = [req EXCEPT !.pc = "store",
                        !.got = [of |-> req.of, level |-> req.level, from |-> Asked,
                                 v |-> lib[Asked], ask |-> Asked, crossed |-> FALSE]]
  /\ UNCHANGED <<vars, tree, cache, noted>>

\* ... second half: under mu again it is stored, whatever happened since.
Store ==
  /\ req.pc = "store"
  /\ cache' = [k \in DOMAIN cache \cup {KeyAsked} |->
                 IF k = KeyAsked THEN req.got ELSE cache[k]]
  /\ Answer(req.got)
  /\ UNCHANGED <<vars, tree, noted>>

\* Variant: the last server is never turned to.
NextTrySoon ==
  req' = IF req.at + 1 < Len(req.tries)
           THEN [req EXCEPT !.pc = "look", !.at = req.at + 1]
           ELSE [req EXCEPT !.pc = "failed"]

\* Variant: one server too many is turned to.
NextTryPast ==
  req' = IF req.at <= Len(req.tries)
           THEN [req EXCEPT !.pc = "look", !.at = req.at + 1]
           ELSE [req EXCEPT !.pc = "failed"]

\* childListingOrAlt turns to the next server that knows the series.
NextTry ==
  req' = IF req.at < Len(req.tries)
           THEN [req EXCEPT !.pc = "look", !.at = req.at + 1]
           ELSE [req EXCEPT !.pc = "failed"]

\* The server does not answer within branchTimeout, or refuses ...
FetchFailed ==
  /\ req.pc = "fetch" /\ FailsElsewhere
  /\ NextTry
  /\ UNCHANGED <<tree, cache, noted>>

\* ... or does not have the show any more.
FetchRefused ==
  /\ req.pc = "fetch" /\ ~Holds(Asked, req.of)
  /\ NextTry
  /\ UNCHANGED <<vars, tree, cache, noted>>

\* The caller gives up while a server is asked, or takes the error.
Abandon ==
  /\ req.pc \in {"fetch", "failed"}
  /\ req' = NoRequest
  /\ UNCHANGED <<vars, tree, cache, noted>>

\* A listing outlives cacheTTL.
Expire(key) ==
  /\ cache' = [k \in DOMAIN cache \ {key} |-> cache[k]]
  /\ UNCHANGED <<vars, tree, req, noted>>

-----------------------------------------------------------------------------
(* The watcher.                                                            *)

\* Variant: only the section of the primary is dropped from the cache.
DropPrimaryOnly(sections) ==
  cache' = [k \in {k \in DOMAIN cache :
                     \A ss \in sections : <<k[1], k[2]>> # <<0, SectionKey[ss]>>} |-> cache[k]]

\* invalidateChanged: what is cached under a changed section is dropped.
Drop(sections) ==
  cache' = [k \in {k \in DOMAIN cache :
                     \A ss \in sections : <<k[1], k[2]>> # <<Src[ss], SectionKey[ss]>>} |-> cache[k]]

Poll ==
  /\ Polled
  /\ Drop(Moved)
  /\ noted' = [ss \in SrcSections |-> IF ss \in Moved THEN lib[ss] ELSE noted[ss]]
  /\ req' = IF req.pc = "store" /\ Asked \in Moved
              THEN [req EXCEPT !.got.crossed = TRUE] ELSE req
  /\ UNCHANGED tree

\* A refresh derives and publishes.
Rederive ==
  /\ RefreshPublished
  /\ tree' \in Trees(cur')
  /\ UNCHANGED <<cache, req, noted>>

ChildrenNext ==
  \/ req = NoRequest /\ \E dir \in Dirs : \E name \in NamesIn(tree[dir]) :
       Resolve(dir, name)
  \/ Hit \/ Miss \/ Fetched \/ Store \/ FetchFailed \/ FetchRefused \/ Abandon
  \/ \E key \in DOMAIN cache : Expire(key)
  \/ \E ss \in Editable : Edit(ss) /\ UNCHANGED below
  \/ Poll
  \/ Watches /\ UNCHANGED below
  \/ Rederive
  \/ Notify /\ UNCHANGED below

ChildrenSpec == ChildrenInit /\ [][ChildrenNext]_<<vars, below>>

-----------------------------------------------------------------------------
(* Properties.                                                             *)

Entries == UNION {ToSet(tree[dir]) : dir \in Dirs}

Requests ==
  [pc : {"look", "fetch", "store", "failed"}, of : Works, level : Levels,
   tries : Seq(SrcSections), at : Nat \ {0}, got : Listings \cup {NoListing},
   knew : SUBSET SrcSections, listed : SrcSections]

\* The tree, the cache and the request keep their types; the server being
\* asked is one of those to try.
ChildrenTypeOK ==
  /\ DOMAIN tree = Dirs
  /\ \A e \in Entries : e.ss \in SrcSections /\ e.w \in Works /\ ToSet(e.alts) \subseteq SrcSections
  /\ \A k \in DOMAIN cache : cache[k] \in Listings
  /\ noted \in [SrcSections -> Versions \cup {None}]
  /\ req # NoRequest =>
       /\ req \in Requests
       /\ req.pc = "store" => req.got \in Listings
       /\ req.at \in 1 .. Len(req.tries)

\* The loop of derive, walking maps in any order, files every work where the
\* definition over sets says: each copy placed has exactly one entry, in the
\* directory of its section, and nothing else has one.
TreeMatchesMerge ==
  \A dir \in Dirs :
    LET copies == UNION {{<<ss, w>> : w \in Placed(cur, ss)}
                         : ss \in {t \in SrcSections : DirOf(cur, t) = dir}}
    IN /\ {<<e.ss, e.w>> : e \in ToSet(tree[dir])} = copies
       /\ Len(tree[dir]) = Cardinality(copies)

\* "A film that disappears with nothing to indicate it ever existed": each
\* film or series that some served listing has is shown, as itself, somewhere
\* under the root, whatever edits and outages the tree came from.
NothingMergedAway ==
  \A ss \in SectionOrder(cur) : \A w \in Items(cur, ss) :
    \E dir \in cur.sections : \E e \in ToSet(tree[dir]) :
      Film[e.ss][e.w] = Film[ss][w]

\* One server shows a film, if those whose entries show it send it with ids,
\* of the same schemes, however they title and number it.  One without ids
\* and year, or with ids on one server only, is meant to stay apart.
ShownFromOneServer ==
  \A e, o \in Entries :
    /\ Film[e.ss][e.w] = Film[o.ss][o.w]
    /\ Sent[e.ss][e.w] = Sent[o.ss][o.w] /\ Sent[e.ss][e.w] # {}
    => Src[e.ss] = Src[o.ss]

\* An entry's fallbacks are all the copies of its work that later servers
\* hold in the same size and container, each once, in the servers' order.
FallbacksStandIn ==
  \A e \in Entries :
    /\ ToSet(e.alts) = {ss \in SrcSections :
         /\ Src[ss] > Src[e.ss] /\ e.w \in Items(cur, ss)
         /\ Item[ss][e.w].file = Item[e.ss][e.w].file}
    /\ \A i, j \in DOMAIN e.alts : i < j =>
         e.alts[i] # e.alts[j] /\ Src[e.alts[i]] <= Src[e.alts[j]]

\* Listing and lookup agree: what a directory shows under a name is what
\* opening that name finds.
NamesFound ==
  \A dir \in Dirs : \A e \in ToSet(tree[dir]) : EntryNamed(tree[dir], e.name) = e

Filed(d, dir) ==
  [ss \in {t \in SrcSections : DirOf(d, t) = dir} |-> Placed(d, ss)]

\* No two copies filed in dir share title and rating key.
Untied(d, dir) ==
  \A ss, tt \in DOMAIN Filed(d, dir) : \A x \in Filed(d, dir)[ss], y \in Filed(d, dir)[tt] :
    Item[ss][x].title = Item[tt][y].title /\ Item[ss][x].key = Item[tt][y].key =>
      ss = tt /\ x = y

\* A new tree leaves the names of a directory whose titles did not change
\* with the copies they named, whatever changed elsewhere: a client that
\* opens what it listed before a refresh does not get another film.
NamesStayPut ==
  [][\A dir \in Dirs :
       tree[dir] # tree'[dir] /\ Untied(cur, dir) /\ Filed(cur, dir) = Filed(cur', dir) =>
         [i \in DOMAIN tree[dir] |-> <<tree[dir][i].name, tree[dir][i].ss, tree[dir][i].w>>] =
         [i \in DOMAIN tree'[dir] |-> <<tree'[dir][i].name, tree'[dir][i].ss, tree'[dir][i].w>>]
    ]_<<vars, below>>

\* What is cached of a section is no older than the last change noted of
\* it, unless it was on its way when that was noted.
ChildrenFresh ==
  \A k \in DOMAIN cache :
    ~cache[k].crossed => cache[k].v >= noted[cache[k].from]

\* A request is answered with the listing it asks for, from the server it
\* asks, and the episodes of a season are asked of the server that listed
\* the season, also when that was a fallback or the cache: no other server
\* knows it by that rating key.
AskedWhereKnown ==
  req # NoRequest =>
    /\ req.pc = "look" /\ KeyAsked \in DOMAIN cache =>
         LET l == cache[KeyAsked] IN
           l.from = Asked /\ l.of = req.of /\ l.level = req.level
    /\ req.level = "season" => Asked = req.listed

\* The directory of a show fails to open only when every server that the
\* catalogue knew to have the show was turned to.
ShowFailsOnlyEverywhere ==
  req.pc = "failed" /\ req.level = "show" =>
    {Src[ss] : ss \in req.knew} = {Src[req.tries[i]] : i \in 1 .. req.at}

-----------------------------------------------------------------------------
(* What the theorems about films and names suppose of the servers' data:   *)
(* rec[ss][w] is the record that section ss sends of work w.               *)

\* The works are the keys of the records, and decoding loses no id.
Decoded(rec) ==
  \A ss \in SrcSections : \A w \in EverIn(ss) :
    /\ DedupKey(rec[ss][w], Src[ss]) = w
    /\ Sent[ss][w] = {scheme \in Schemes : ExternalID(rec[ss][w], scheme) # NoId}

\* The records of one film are of one kind, and do not disagree on an id.
IdsAgree(rec) ==
  \A ss, tt \in SrcSections : \A x \in EverIn(ss), y \in EverIn(tt) :
    Film[ss][x] = Film[tt][y] =>
      /\ Kind(rec[ss][x]) = Kind(rec[tt][y])
      /\ \A scheme \in Sent[ss][x] \cap Sent[tt][y] :
           ExternalID(rec[ss][x], scheme) = ExternalID(rec[tt][y], scheme)

\* No two films have an id in common, or one title and year where neither
\* has an id, or on one server one rating key.
FilmsTellApart(rec) ==
  \A ss, tt \in SrcSections : \A x \in EverIn(ss), y \in EverIn(tt) :
    \/ SameWork(rec[ss][x], rec[tt][y])
    \/ Src[ss] = Src[tt] /\ rec[ss][x].key = rec[tt][y].key
    => Film[ss][x] = Film[tt][y]

\* No exposed name is another one with a number.
NumbersApart ==
  \A ss, tt \in SrcSections : \A x \in EverIn(ss), y \in EverIn(tt) :
    Item[tt][y].name # << >> => Front(Item[tt][y].name) # Item[ss][x].name

-----------------------------------------------------------------------------
(* The inductive invariant, on top of that of Served; proved in            *)
(* ChildrenProofs.                                                         *)

\* A listing is cached under its own key, and is of a work that its section
\* had.
Keyed ==
  \A k \in DOMAIN cache :
    LET l == cache[k] IN
      /\ l \in Listings
      /\ k = CacheKey(l.from, l.of, l.level)
      /\ l.ask = l.from
      /\ l.of \in EverIn(l.from)

\* Polls note what the servers said, which only goes on.
NotedInTime ==
  /\ noted \in [SrcSections -> Versions \cup {None}]
  /\ \A ss \in SrcSections : noted[ss] <= lib[ss]

\* A listing on its way is the one asked for, and as fresh as a cached one.
OnItsWay ==
  req.pc = "store" =>
    /\ req.got \in Listings
    /\ req.got.from = Asked /\ req.got.ask = Asked
    /\ req.got.of = req.of /\ req.got.level = req.level
    /\ ~req.got.crossed => req.got.v >= noted[Asked]

\* The sections a request turns to have had the work.  For a show they are
\* those that were known to have it; the seasons of a show have one.
Turning ==
  /\ \A i \in 1 .. Len(req.tries) : req.of \in EverIn(req.tries[i])
  /\ req.level = "show" =>
       {Src[ss] : ss \in req.knew} = {Src[req.tries[i]] : i \in 1 .. Len(req.tries)}
  /\ req.level = "season" => req.tries = <<req.listed>>
  /\ req.pc = "failed" => req.at = Len(req.tries)

RequestSound ==
  req # NoRequest =>
    req \in Requests /\ req.at \in 1 .. Len(req.tries) /\ OnItsWay /\ Turning

ChildrenInv ==
  tree \in Trees(cur) /\ NotedInTime /\ Keyed /\ ChildrenFresh /\ RequestSound
=============================================================================
