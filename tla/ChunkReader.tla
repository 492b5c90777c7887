---------------------------- MODULE ChunkReader ----------------------------
(***************************************************************************)
(* A file being read: fileHandle (internal/davfs/fs.go) and the pipeline   *)
(* of concurrent ranged requests behind it (internal/davfs/chunkreader.go).*)
(*                                                                         *)
(* The handle is used by one goroutine at a time; every chunk in the queue *)
(* has a fetch goroutine of its own, and all of them share cur, the server *)
(* that is read from.  Lengths and offsets are in units of a fraction of   *)
(* firstChunkSize.                                                         *)
(***************************************************************************)
EXTENDS Integers, Sequences

CONSTANTS
  Size,                   \* length of the file, the same on every server
  NCopies,                \* len(srcs)
  Streams,                \* the server's Streams setting
  MaxChunk,               \* the server's MaxChunk setting
  FirstChunkSize,
  MaxReadRetries,
  RetriesBeforeFailover,
  WordBits,               \* bits of the integers lengths are computed in
  MaxRead                 \* longest buffer given to Read

ASSUME FileAssumption == Size \in Nat /\ NCopies \in Nat \ {0} /\ MaxRead \in Nat \ {0}

ASSUME GeometryAssumption ==
  /\ FirstChunkSize \in Nat \ {0}
  /\ Streams \in Int /\ MaxChunk \in Int
  /\ WordBits \in Nat \ {0}

ASSUME RetriesAssumption == MaxReadRetries \in Nat /\ RetriesBeforeFailover \in Nat

VARIABLES
  \* fileHandle.
  offset,       \* where the next Read starts
  pc,           \* where the goroutine that uses the handle is
  out,          \* what its last call returned
  \* chunkReader, used by that goroutine only.
  active,       \* a pipeline is running
  queue,        \* the chunks in flight or buffered, in order
  next,         \* next offset to schedule
  pos,          \* current read position
  step,         \* chunks scheduled since the last restart
  servedBytes,  \* bytes consumed since the last restart
  \* The fetch goroutines and what they share.
  fetch,        \* the goroutine of the chunk that starts at an offset
  cur,          \* the copy being read
  late,         \* copies a stopped goroutine is still about to hand over from
  \* History: copies some request has failed on.
  failed

handle   == <<offset, pc, out>>
pipeline == <<active, queue, next, pos, step, servedBytes>>
fetches  == <<fetch, cur, late, failed>>
vars     == <<handle, pipeline, fetches>>

Promise == INSTANCE ByteStream WITH copy <- cur

Copies == 0 .. NCopies - 1
Starts == 0 .. Size - 1

\* newChunkReader puts the settings in range.
workers  == IF Streams < 1 THEN 1 ELSE Streams
maxChunk == IF MaxChunk < FirstChunkSize THEN FirstChunkSize ELSE MaxChunk

Smaller(a, b) == IF a < b THEN a ELSE b

-----------------------------------------------------------------------------
(* The fetch goroutines.                                                   *)

\* tries counts the requests to the last copy that failed (history).
Gone == [pc |-> "gone", src |-> 0, attempt |-> 0, tries |-> 0, from |-> 0]

Started == [Gone EXCEPT !.pc = "load"]

\* Variant: the range is taken to be honoured.
FirstByteUndiscarded(status, start) == IF status = 200 THEN 0 ELSE start

\* Offset in the file of the first byte read into the buffer.  A server
\* that ignores the range answers 200 with the whole file, of which
\* fetchOnce discards what comes before the chunk.
FirstByte(status, start) ==
  LET body      == IF status = 200 THEN 0 ELSE start
      discarded == IF status = 200 /\ start > 0 THEN start ELSE 0
  IN body + discarded

\* cur is loaded once to know how patient to be ...
Load(o) ==
  /\ fetch[o].pc = "load"
  /\ fetch' = [fetch EXCEPT ![o].pc = "ask", ![o].src = cur]
  /\ UNCHANGED <<handle, pipeline, cur, late, failed>>

\* ... and once more by fetchOnce, to know whom to ask.
Succeed(o) ==
  /\ fetch[o].pc = "ask"
  /\ \E status \in {200, 206} :
       fetch' = [fetch EXCEPT ![o] = [Gone EXCEPT !.pc = "done", !.from = FirstByte(status, o)]]
  /\ UNCHANGED <<handle, pipeline, cur, late, failed>>

Fail(o) ==
  /\ fetch[o].pc = "ask"
  /\ fetch' = [fetch EXCEPT ![o].pc = "judge",
                            ![o].attempt = @ + 1,
                            ![o].tries = IF cur = NCopies - 1 THEN @ + 1 ELSE @]
  /\ failed' = failed \cup {cur}
  /\ UNCHANGED <<handle, pipeline, cur, late>>

Limit(src) == IF src + 1 < NCopies THEN RetriesBeforeFailover ELSE MaxReadRetries

Exhausted(o) == fetch[o].pc = "judge" /\ fetch[o].attempt > Limit(fetch[o].src)

\* Variant: every goroutine that runs out of retries moves cur on.
FailOverAlways(from) == cur + 1

\* failOver: only the first goroutine to notice advances.
FailOver(from) == IF cur = from THEN from + 1 ELSE cur

Retry(o) ==
  /\ fetch[o].pc = "judge" /\ ~Exhausted(o)
  /\ fetch' = [fetch EXCEPT ![o].pc = "load"]
  /\ UNCHANGED <<handle, pipeline, cur, late, failed>>

\* Variant: there is one copy more than there is.
HandOverPastEnd(o) ==
  /\ Exhausted(o) /\ fetch[o].src < NCopies
  /\ cur' = FailOver(fetch[o].src)
  /\ fetch' = [fetch EXCEPT ![o].pc = "load", ![o].attempt = 0]
  /\ UNCHANGED <<handle, pipeline, late, failed>>

\* Out of retries with another copy to go to: the count starts again.
HandOver(o) ==
  /\ Exhausted(o) /\ fetch[o].src + 1 < NCopies
  /\ cur' = FailOver(fetch[o].src)
  /\ fetch' = [fetch EXCEPT ![o].pc = "load", ![o].attempt = 0]
  /\ UNCHANGED <<handle, pipeline, late, failed>>

\* Variant: the error path leaves done open.
GiveUpUnsignalled(o) ==
  /\ Exhausted(o) /\ fetch[o].src + 1 >= NCopies
  /\ fetch' = [fetch EXCEPT ![o] = Gone]
  /\ UNCHANGED <<handle, pipeline, cur, late, failed>>

GiveUp(o) ==
  /\ Exhausted(o) /\ fetch[o].src + 1 >= NCopies
  /\ fetch' = [fetch EXCEPT ![o] = [Gone EXCEPT !.pc = "failed", !.tries = fetch[o].tries]]
  /\ UNCHANGED <<handle, pipeline, cur, late, failed>>

\* A goroutine that was stopped after it looked at its context hands over
\* all the same, then sees the context and ends.
LateHandOver(src) ==
  /\ src \in late
  /\ late' = late \ {src}
  /\ cur' = FailOver(src)
  /\ UNCHANGED <<handle, pipeline, fetch, failed>>

Fetch(o) ==
  Load(o) \/ Succeed(o) \/ Fail(o) \/ Retry(o) \/ HandOver(o) \/ GiveUp(o)

-----------------------------------------------------------------------------
(* The pipeline.                                                           *)

\* firstChunkSize << step, as a signed word.
Shifted(n) ==
  LET w == (FirstChunkSize * 2^n) % 2^WordBits
  IN IF w >= 2^(WordBits - 1) THEN w - 2^WordBits ELSE w

chunkSize == IF Shifted(step) \in 1 .. maxChunk THEN Shifted(step) ELSE maxChunk

width == IF servedBytes >= FirstChunkSize THEN workers ELSE 1

HasRoom == Len(queue) < width /\ next < Size

\* fill, one chunk at a time, inside a restart or after a chunk is used up.
Schedule ==
  /\ pc \in {"restart", "refill"} /\ HasRoom
  /\ LET size == Smaller(chunkSize, Size - next) IN
       /\ queue' = Append(queue, [start |-> next, size |-> size])
       /\ next' = next + size
  /\ step' = step + 1
  /\ fetch' = [fetch EXCEPT ![next] = Started]
  /\ UNCHANGED <<handle, active, pos, servedBytes, cur, late, failed>>

Filled ==
  /\ pc \in {"restart", "refill"} /\ ~HasRoom
  /\ pc' = IF pc = "restart" THEN "await" ELSE "idle"
  /\ UNCHANGED <<offset, out, pipeline, fetches>>

\* stop cancels every fetch: those that have not failed for good end.
Stop ==
  /\ queue' = <<>>
  /\ fetch' = [o \in Starts |-> Gone]
  /\ late' = late \cup {fetch[o].src : o \in {p \in Starts : Exhausted(p) /\ fetch[p].src + 1 < NCopies}}

-----------------------------------------------------------------------------
(* The handle.                                                             *)

Init ==
  /\ offset = 0 /\ pc = "idle" /\ out = Promise!Nothing
  /\ active = FALSE /\ queue = <<>> /\ next = 0 /\ pos = 0
  /\ step = 0 /\ servedBytes = 0
  /\ fetch = [o \in Starts |-> Gone] /\ cur = 0 /\ late = {}
  /\ failed = {}

\* A position past the end is legal, one before the start is an error.
Seek(o) ==
  /\ pc = "idle"
  /\ offset' = o /\ out' = Promise!Nothing
  /\ UNCHANGED <<pc, pipeline, fetches>>

InHead(o) ==
  queue # <<>> /\ o >= Head(queue).start /\ o < Head(queue).start + Head(queue).size

\* Variant: one byte past the chunk at the head counts as inside it.
seekToPastHead(o) ==
  active /\ (o = pos \/ (queue # <<>> /\ o \in Head(queue).start .. Head(queue).start + Head(queue).size))

seekTo(o) == active /\ (o = pos \/ InHead(o))

ReadAtEnd ==
  /\ pc = "idle" /\ offset >= Size
  /\ out' = Promise!Eof
  /\ UNCHANGED <<offset, pc, pipeline, fetches>>

ReadOn ==
  /\ pc = "idle" /\ offset < Size /\ seekTo(offset)
  /\ pos' = offset
  /\ pc' = "await" /\ out' = Promise!Nothing
  /\ UNCHANGED <<offset, active, queue, next, step, servedBytes, fetches>>

\* Variant: the bytes served before a seek still count after it.
ReadRestartKeepsServed ==
  /\ pc = "idle" /\ offset < Size /\ ~seekTo(offset)
  /\ Stop
  /\ active' = TRUE /\ pos' = offset /\ next' = offset /\ step' = 0
  /\ pc' = "restart" /\ out' = Promise!Nothing
  /\ UNCHANGED <<offset, servedBytes, cur, failed>>

\* restart, up to fill.
ReadRestart ==
  /\ pc = "idle" /\ offset < Size /\ ~seekTo(offset)
  /\ Stop
  /\ active' = TRUE /\ pos' = offset /\ next' = offset /\ step' = 0 /\ servedBytes' = 0
  /\ pc' = "restart" /\ out' = Promise!Nothing
  /\ UNCHANGED <<offset, cur, failed>>

Answer(result) ==
  /\ pc' = "idle" /\ out' = result
  /\ UNCHANGED <<offset, pipeline, fetches>>

\* n bytes are copied out of the chunk h at the head of the queue.
Consume(h, n) ==
  /\ out' = Promise!Bytes(fetch[h.start].from + (pos - h.start), n)
  /\ pos' = pos + n /\ offset' = offset + n
  /\ IF pos + n >= h.start + h.size
       THEN /\ queue' = Tail(queue)
            /\ servedBytes' = servedBytes + h.size
            /\ fetch' = [fetch EXCEPT ![h.start] = Gone]
            /\ pc' = "refill"
       ELSE pc' = "idle" /\ UNCHANGED <<queue, servedBytes, fetch>>
  /\ UNCHANGED <<active, next, step, cur, late, failed>>

\* read: it waits for the chunk at the head of the queue.
Read ==
  /\ pc = "await"
  /\ IF pos >= Size \/ queue = <<>>
       THEN Answer(Promise!Eof)
       ELSE LET h == Head(queue) IN
         /\ fetch[h.start].pc \in {"done", "failed"}
         /\ IF fetch[h.start].pc = "failed" \/ ~InHead(pos)
              THEN Answer(Promise!Failure)
              ELSE \E len \in 1 .. MaxRead : Consume(h, Smaller(len, (h.start + h.size) - pos))

Close ==
  /\ pc = "idle"
  /\ Stop
  /\ active' = FALSE
  /\ pc' = "closed" /\ out' = Promise!Nothing
  /\ UNCHANGED <<offset, next, pos, step, servedBytes, cur, failed>>

-----------------------------------------------------------------------------
Next ==
  \/ \E o \in 0 .. Size + 1 : Seek(o)
  \/ ReadAtEnd \/ ReadOn \/ ReadRestart \/ Schedule \/ Filled \/ Read \/ Close
  \/ \E o \in Starts : Fetch(o)
  \/ \E src \in Copies : LateHandOver(src)

Spec == Init /\ [][Next]_vars

\* The goroutine of the chunk a read waits for.
HeadFetch == queue # <<>> /\ Fetch(Head(queue).start)

\* Goroutines run, and every request ends, one way or the other.
Fairness == WF_vars(Schedule \/ Filled) /\ WF_vars(Read) /\ WF_vars(HeadFetch)

FairSpec == Spec /\ Fairness

-----------------------------------------------------------------------------
(* Properties.                                                             *)

Chunks == [start : Starts, size : 1 .. Size]

FetchStates ==
  [pc : {"gone", "load", "ask", "judge", "done", "failed"}, src : Copies,
   attempt : Nat, tries : Nat, from : Nat]

\* Every variable of the handle, the pipeline and the fetches keeps its
\* type; cur always names a server.
HandleType == offset \in Nat /\ pc \in {"idle", "restart", "await", "refill", "closed"}

PipelineType ==
  /\ active \in BOOLEAN
  /\ queue \in Seq(Chunks)
  /\ next \in 0 .. Size /\ pos \in 0 .. Size
  /\ step \in Nat /\ servedBytes \in Nat

FetchType ==
  /\ fetch \in [Starts -> FetchStates]
  /\ cur \in Copies /\ late \subseteq Copies /\ failed \subseteq Copies

TypeOK == HandleType /\ PipelineType /\ FetchType

\* The chunks of the queue follow one another up to next, and the first
\* holds the read position: read's "outside chunk" error and its end of
\* file with an empty queue are out of reach.
InOrder ==
  \A i \in 1 .. Len(queue) :
    queue[i].start + queue[i].size = IF i = Len(queue) THEN next ELSE queue[i + 1].start

HeadHoldsPos ==
  /\ queue # <<>> => InHead(pos)
  /\ active /\ queue = <<>> => pos = next
  /\ pc = "await" => queue # <<>>

PipelineInOrder == InOrder /\ HeadHoldsPos

\* A library scanner's small reads stay cheap: after every seek one chunk
\* is asked for, the second only once the first is used up, and there are
\* never more than workers.
SmallReadsStayCheap ==
  /\ step <= 1 \/ step > Len(queue)
  /\ Len(queue) <= workers

\* However many goroutines run out of retries together, and stopped ones
\* among them, no copy of the file is passed over without being asked.
NoCopySkipped == \A src \in Copies : src < cur => src \in failed

\* The pipeline keeps the promise of a byte stream.
KeepsPromise == Promise!Spec

\* A read returns, if every request ends.
ReadsReturn == pc = "await" ~> pc = "idle"

-----------------------------------------------------------------------------
(* The inductive invariant behind the safety properties; proved in         *)
(* ChunkReaderProofs.                                                      *)

\* A read under way is at the handle's offset, before the end of the file.
ReadPosition ==
  /\ pc \in {"restart", "await"} => active /\ pos = offset /\ offset < Size
  /\ pc = "refill" => active
  /\ ~active => queue = <<>>

\* Between calls the queue of a pipeline is empty only at the end.
ToppedUp == active /\ pc = "idle" /\ queue = <<>> => next = Size

\* Every chunk of the queue was scheduled since the last restart, and one
\* was used up by the time firstChunkSize bytes are served.
Ramp ==
  /\ Len(queue) <= step
  /\ servedBytes >= FirstChunkSize => Len(queue) < step

\* What a goroutine knows of cur is never ahead of it, and one that may
\* still move cur on has seen that copy fail.
FetchOrder ==
  \A o \in Starts :
    /\ fetch[o].pc \in {"ask", "judge"} => fetch[o].src <= cur
    /\ fetch[o].pc = "judge" /\ fetch[o].src = cur => cur \in failed
    /\ fetch[o].pc = "failed" => cur = NCopies - 1
    /\ fetch[o].pc = "done" => fetch[o].from = o

LateOrder ==
  \A src \in late : src + 1 < NCopies /\ src <= cur /\ (src = cur => src \in failed)

PipeInv ==
  /\ HandleType /\ PipelineType
  /\ InOrder /\ HeadHoldsPos /\ ReadPosition /\ ToppedUp
  /\ Ramp /\ SmallReadsStayCheap

FetchInv == FetchType /\ FetchOrder /\ LateOrder /\ NoCopySkipped

IInv == PipeInv /\ FetchInv

-----------------------------------------------------------------------------
(* What a comment of the code claims and the code does not do.             *)

\* "The last source in the chain still gets the full count": a chunk is
\* given up only after that many failures of the last copy.
LastCopyGetsFullCount ==
  \A o \in Starts : fetch[o].pc = "failed" => fetch[o].tries > MaxReadRetries
=============================================================================
