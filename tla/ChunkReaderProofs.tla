------------------------- MODULE ChunkReaderProofs -------------------------
(***************************************************************************)
(* What is proved about ChunkReader for every length of the file, number   *)
(* of copies, stream setting, chunk size, word width and retry limits.     *)
(***************************************************************************)
EXTENDS ChunkReader, SequenceTheorems, TLAPS

-----------------------------------------------------------------------------
(* The geometry of the pipeline.                                           *)

\* A chunk is at least one byte long, and something may always be in flight.
LEMMA Geometry ==
  /\ maxChunk \in Nat \ {0} /\ workers \in Nat \ {0}
  /\ chunkSize \in Nat \ {0}
  /\ width \in Nat \ {0}
  <1>1. maxChunk \in Nat \ {0}
    BY GeometryAssumption DEF maxChunk
  <1>2. workers \in Nat \ {0}
    BY GeometryAssumption DEF workers
  <1>3. chunkSize \in Nat \ {0}
    <2>. DEFINE s == Shifted(step)
    <2>1. chunkSize = IF s \in 1 .. maxChunk THEN s ELSE maxChunk
      BY DEF chunkSize
    <2>. HIDE DEF s
    <2>2. QED
      BY <1>1, <2>1
  <1>4. QED
    BY <1>1, <1>2, <1>3 DEF width

\* The head of the queue is its first chunk, with the handle inside it.
LEMMA HeadChunk ==
  ASSUME PipelineType, queue # <<>>
  PROVE  /\ Len(queue) \in Nat \ {0}
         /\ Head(queue) = queue[1]
         /\ Head(queue) \in Chunks
         /\ \A i \in 1 .. Len(queue) : queue[i] \in Chunks
  <1>1. Len(queue) \in Nat \ {0}
    BY EmptySeq DEF PipelineType
  <1>2. Head(queue) = queue[1]
    BY <1>1 DEF PipelineType
  <1>3. \A i \in 1 .. Len(queue) : queue[i] \in Chunks
    BY ElementOfSeq DEF PipelineType
  <1>4. QED
    BY <1>1, <1>2, <1>3

\* No chunk of the queue reaches past the end of the file.
LEMMA HeadFits ==
  ASSUME PipelineType, InOrder, queue # <<>>
  PROVE  /\ Head(queue).start + Head(queue).size \in 0 .. Size
         /\ Len(queue) = 1 => Head(queue).start + Head(queue).size = next
         /\ Len(queue) # 1 => Head(queue).start + Head(queue).size = queue[2].start
  <1>1. /\ Len(queue) \in Nat \ {0}
        /\ Head(queue) = queue[1]
        /\ Head(queue) \in Chunks
        /\ \A i \in 1 .. Len(queue) : queue[i] \in Chunks
    BY HeadChunk
  <1>2. queue[1].start + queue[1].size = IF 1 = Len(queue) THEN next ELSE queue[2].start
    <2>1. 1 \in 1 .. Len(queue) /\ 1 + 1 = 2
      BY <1>1
    <2>2. \A i \in 1 .. Len(queue) :
            queue[i].start + queue[i].size = IF i = Len(queue) THEN next ELSE queue[i + 1].start
      BY DEF InOrder
    <2>3. QED
      BY <2>1, <2>2, Zenon
  <1>3. Len(queue) # 1 => queue[2].start \in Starts
    BY <1>1 DEF Chunks
  <1>4. QED
    BY <1>1, <1>2, <1>3, FileAssumption DEF PipelineType, Starts

-----------------------------------------------------------------------------
(* The handle and the pipeline.                                            *)

\* A step that leaves both alone preserves what is known of them.
LEMMA PipeFrame ==
  ASSUME PipeInv, UNCHANGED <<handle, pipeline>>
  PROVE  PipeInv'
  BY DEF PipeInv, handle, pipeline, HandleType, PipelineType, InOrder, HeadHoldsPos, InHead,
         ReadPosition, ToppedUp, Ramp, SmallReadsStayCheap

\* fill appends the chunk that starts at next.
LEMMA PipeSchedule ==
  ASSUME PipeInv, Schedule
  PROVE  PipeInv'
  <1>. DEFINE size == Smaller(chunkSize, Size - next)
              f == [start |-> next, size |-> size]
  <1>1. /\ pc \in {"restart", "refill"} /\ Len(queue) < width /\ next < Size
        /\ queue' = Append(queue, f) /\ next' = next + size /\ step' = step + 1
        /\ UNCHANGED <<offset, pc, active, pos, servedBytes>>
    BY DEF Schedule, HasRoom, handle
  <1>2. /\ HandleType /\ PipelineType /\ InOrder /\ HeadHoldsPos /\ ReadPosition
        /\ Ramp /\ SmallReadsStayCheap
    BY DEF PipeInv
  <1>3. size \in 1 .. Size /\ next + size \in 0 .. Size
    BY <1>1, <1>2, Geometry, FileAssumption DEF PipelineType, Smaller
  <1>4. f \in Chunks
    BY <1>1, <1>2, <1>3, FileAssumption DEF PipelineType, Chunks, Starts
  <1>. HIDE DEF size
  <1>5. /\ Len(queue) \in Nat
        /\ queue' \in Seq(Chunks) /\ queue' # <<>> /\ Len(queue') = Len(queue) + 1
        /\ \A i \in 1 .. Len(queue) : queue'[i] = queue[i]
        /\ queue'[Len(queue) + 1] = f
    BY <1>1, <1>2, <1>4, AppendProperties, LenProperties DEF PipelineType
  <1>6. HandleType' /\ PipelineType'
    BY <1>1, <1>2, <1>3, <1>5 DEF HandleType, PipelineType
  <1>7. InOrder'
    <2>. SUFFICES ASSUME NEW i \in 1 .. Len(queue')
                  PROVE  queue'[i].start + queue'[i].size
                           = IF i = Len(queue') THEN next' ELSE queue'[i + 1].start
      BY DEF InOrder
    <2>1. CASE i = Len(queue')
      <3>1. queue'[i] = f
        BY <1>5, <2>1
      <3>2. QED
        BY <1>1, <2>1, <3>1
    <2>2. CASE i = Len(queue)
      <3>1. queue[i].start + queue[i].size = next
        BY <1>2, <1>5, <2>2 DEF InOrder
      <3>2. queue'[i] = queue[i] /\ queue'[i + 1] = f /\ i # Len(queue')
        BY <1>5, <2>2
      <3>3. QED
        BY <3>1, <3>2
    <2>3. CASE i < Len(queue)
      <3>1. i \in 1 .. Len(queue) /\ i + 1 \in 1 .. Len(queue)
        BY <1>5, <2>3
      <3>2. queue[i].start + queue[i].size = queue[i + 1].start
        BY <1>2, <2>3, <3>1 DEF InOrder
      <3>3. QED
        BY <1>5, <2>3, <3>1, <3>2
    <2>4. QED
      BY <1>5, <2>1, <2>2, <2>3
  <1>8. HeadHoldsPos'
    <2>1. Head(queue') = queue'[1]
      BY <1>5
    <2>2. CASE queue = <<>>
      <3>1. Len(queue) = 0 /\ active /\ pos = next
        BY <1>1, <1>2, <2>2, EmptySeq DEF HeadHoldsPos, ReadPosition
      <3>2. Head(queue').start = pos /\ Head(queue').size >= 1
        BY <1>3, <1>5, <2>1, <3>1
      <3>3. QED
        BY <1>1, <1>2, <1>3, <1>5, <2>1, <3>1, <3>2 DEF HeadHoldsPos, InHead, PipelineType
    <2>3. CASE queue # <<>>
      <3>1. Head(queue') = Head(queue)
        BY <1>2, <1>5, <2>1, <2>3, HeadChunk
      <3>2. QED
        BY <1>1, <1>2, <1>5, <2>3, <3>1 DEF HeadHoldsPos, InHead
    <2>4. QED
      BY <2>2, <2>3
  <1>9. ReadPosition' /\ ToppedUp'
    BY <1>1, <1>2, <1>5 DEF ReadPosition, ToppedUp
  <1>10. Ramp' /\ SmallReadsStayCheap'
    BY <1>1, <1>2, <1>5, Geometry DEF Ramp, SmallReadsStayCheap, PipelineType, width
  <1>11. QED
    BY <1>6, <1>7, <1>8, <1>9, <1>10 DEF PipeInv

\* The loop of fill ends when the queue is full or the file is scheduled.
LEMMA PipeFilled ==
  ASSUME PipeInv, Filled
  PROVE  PipeInv'
  <1>1. /\ pc \in {"restart", "refill"} /\ ~HasRoom
        /\ pc' = (IF pc = "restart" THEN "await" ELSE "idle")
        /\ UNCHANGED <<offset, active, queue, next, pos, step, servedBytes>>
    BY DEF Filled, pipeline
  <1>2. /\ HandleType /\ PipelineType /\ InOrder /\ HeadHoldsPos /\ ReadPosition
        /\ Ramp /\ SmallReadsStayCheap
    BY DEF PipeInv
  <1>3. queue = <<>> => next = Size
    <2>1. queue = <<>> => Len(queue) = 0
      OBVIOUS
    <2>2. QED
      BY <1>1, <1>2, <2>1, Geometry, FileAssumption DEF HasRoom, PipelineType
  <1>4. pc = "restart" => queue # <<>>
    <2>1. pc = "restart" /\ queue = <<>> => pos = next /\ pos < Size
      BY <1>2 DEF ReadPosition, HeadHoldsPos
    <2>2. QED
      BY <1>3, <2>1, FileAssumption
  <1>5. HandleType' /\ PipelineType' /\ InOrder' /\ Ramp' /\ SmallReadsStayCheap'
    BY <1>1, <1>2 DEF HandleType, PipelineType, InOrder, Ramp, SmallReadsStayCheap
  <1>6. HeadHoldsPos' /\ ReadPosition' /\ ToppedUp'
    BY <1>1, <1>2, <1>3, <1>4 DEF HeadHoldsPos, InHead, ReadPosition, ToppedUp
  <1>7. QED
    BY <1>5, <1>6 DEF PipeInv

\* A read that starts over, or a handle that is closed, has an empty queue.
LEMMA PipeStop ==
  ASSUME PipeInv, ReadRestart \/ Close
  PROVE  PipeInv'
  <1>1. /\ HandleType /\ PipelineType
    BY DEF PipeInv
  <1>2. queue' = <<>> /\ queue' \in Seq(Chunks) /\ Len(queue') = 0
    BY EmptySeq DEF ReadRestart, Close, Stop
  <1>3. CASE ReadRestart
    <2>1. /\ active' /\ pos' = offset /\ next' = offset /\ step' = 0 /\ servedBytes' = 0
          /\ pc' = "restart" /\ offset' = offset /\ offset < Size
      BY <1>3 DEF ReadRestart
    <2>2. HandleType' /\ PipelineType'
      BY <1>1, <1>2, <1>3, <2>1, FileAssumption DEF HandleType, PipelineType, ReadRestart
    <2>3. InOrder' /\ HeadHoldsPos' /\ ReadPosition' /\ ToppedUp'
      BY <1>2, <2>1 DEF InOrder, HeadHoldsPos, ReadPosition, ToppedUp
    <2>4. Ramp' /\ SmallReadsStayCheap'
      BY <1>2, <2>1, Geometry, GeometryAssumption DEF Ramp, SmallReadsStayCheap, workers
    <2>5. QED
      BY <2>2, <2>3, <2>4 DEF PipeInv
  <1>4. CASE Close
    <2>1. /\ ~active' /\ pc' = "closed"
          /\ UNCHANGED <<offset, next, pos, step, servedBytes>>
      BY <1>4 DEF Close
    <2>2. active' \in BOOLEAN
      BY <1>4 DEF Close
    <2>3. HandleType' /\ PipelineType'
      BY <1>1, <1>2, <2>1, <2>2 DEF HandleType, PipelineType
    <2>4. InOrder' /\ HeadHoldsPos' /\ ReadPosition' /\ ToppedUp'
      BY <1>2, <2>1 DEF InOrder, HeadHoldsPos, ReadPosition, ToppedUp
    <2>5. Ramp' /\ SmallReadsStayCheap'
      <3>1. /\ Len(queue) \in Nat /\ Ramp /\ SmallReadsStayCheap
        BY LenProperties DEF PipeInv, PipelineType
      <3>2. QED
        BY <1>1, <1>2, <2>1, <3>1, Geometry, GeometryAssumption
        DEF Ramp, SmallReadsStayCheap, PipelineType, workers
    <2>6. QED
      BY <2>3, <2>4, <2>5 DEF PipeInv
  <1>5. QED
    BY <1>3, <1>4

\* A read that is merely continuing, or lands in the first chunk.
LEMMA PipeReadOn ==
  ASSUME PipeInv, ReadOn
  PROVE  PipeInv'
  <1>1. /\ pc = "idle" /\ offset < Size /\ active
        /\ offset = pos \/ InHead(offset)
        /\ pos' = offset /\ pc' = "await"
        /\ UNCHANGED <<offset, active, queue, next, step, servedBytes>>
    BY DEF ReadOn, seekTo
  <1>2. /\ HandleType /\ PipelineType /\ InOrder /\ HeadHoldsPos /\ ToppedUp
        /\ Ramp /\ SmallReadsStayCheap
    BY DEF PipeInv
  <1>3. queue # <<>>
    <2>1. queue = <<>> => offset = pos /\ pos = next /\ next = Size
      BY <1>1, <1>2 DEF InHead, HeadHoldsPos, ToppedUp
    <2>2. QED
      BY <1>1, <2>1, FileAssumption
  <1>4. InHead(pos)'
    BY <1>1, <1>2, <1>3 DEF HeadHoldsPos, InHead
  <1>5. HandleType' /\ PipelineType'
    BY <1>1, <1>2, FileAssumption DEF HandleType, PipelineType
  <1>6. InOrder' /\ Ramp' /\ SmallReadsStayCheap'
    BY <1>1, <1>2 DEF InOrder, Ramp, SmallReadsStayCheap
  <1>7. HeadHoldsPos' /\ ReadPosition' /\ ToppedUp'
    BY <1>1, <1>3, <1>4 DEF HeadHoldsPos, ReadPosition, ToppedUp
  <1>8. QED
    BY <1>5, <1>6, <1>7 DEF PipeInv

\* Bytes are copied from the first chunk, which goes when it is used up.
LEMMA PipeConsume ==
  ASSUME PipeInv, pc = "await", queue # <<>>, InHead(pos), NEW len \in 1 .. MaxRead,
         NEW n, n = Smaller(len, (Head(queue).start + Head(queue).size) - pos),
         Consume(Head(queue), n)
  PROVE  PipeInv' /\ n \in Nat \ {0} /\ pos + n \in 0 .. Size
  <1>. DEFINE end == Head(queue).start + Head(queue).size
  <1>1. /\ HandleType /\ PipelineType /\ InOrder /\ HeadHoldsPos /\ ReadPosition
        /\ Ramp /\ SmallReadsStayCheap
    BY DEF PipeInv
  <1>2. /\ Len(queue) \in Nat \ {0}
        /\ Head(queue) = queue[1]
        /\ Head(queue) \in Chunks
        /\ \A i \in 1 .. Len(queue) : queue[i] \in Chunks
    BY <1>1, HeadChunk
  <1>3. /\ end \in 0 .. Size
        /\ Len(queue) = 1 => end = next
        /\ Len(queue) # 1 => end = queue[2].start
    BY <1>1, HeadFits
  <1>4. pos < end /\ pos \in 0 .. Size /\ n = Smaller(len, end - pos)
    <2>1. pos < end
      BY DEF InHead
    <2>2. pos \in 0 .. Size
      BY <1>1 DEF PipelineType
    <2>3. n = Smaller(len, end - pos)
      OBVIOUS
    <2>. HIDE DEF end
    <2>4. QED
      BY <2>1, <2>2, <2>3
  <1>5. /\ pos' = pos + n /\ offset' = offset + n
        /\ UNCHANGED <<active, next, step>>
    BY DEF Consume
  <1>6. /\ pos + n >= end => /\ queue' = Tail(queue)
                            /\ servedBytes' = servedBytes + Head(queue).size
                            /\ pc' = "refill"
        /\ pos + n < end => pc' = "idle" /\ UNCHANGED <<queue, servedBytes>>
    BY <1>3, <1>4, FileAssumption DEF Consume, Smaller
  <1>7. active /\ pos = offset
    BY <1>1 DEF ReadPosition
  <1>8. Head(queue).size \in Nat
    BY <1>2 DEF Chunks
  <1>. HIDE DEF end
  <1>9. n \in Nat \ {0} /\ pos + n \in 0 .. Size /\ pos + n <= end
    BY <1>3, <1>4, FileAssumption DEF Smaller
  <1>10. CASE pos + n < end
    <2>1. UNCHANGED <<queue, servedBytes, active, next, step>> /\ pc' = "idle"
      BY <1>5, <1>6, <1>10
    <2>2. HandleType' /\ PipelineType'
      BY <1>1, <1>5, <1>7, <1>9, <2>1 DEF HandleType, PipelineType
    <2>3. InOrder' /\ Ramp' /\ SmallReadsStayCheap'
      BY <1>1, <2>1 DEF InOrder, Ramp, SmallReadsStayCheap
    <2>4. InHead(pos)'
      <3>1. Head(queue).start <= pos
        BY DEF InHead
      <3>2. Head(queue).start \in Nat
        BY <1>2, FileAssumption DEF Chunks, Starts
      <3>3. pos' >= Head(queue').start /\ pos' < Head(queue').start + Head(queue').size
        BY <1>4, <1>5, <1>9, <1>10, <2>1, <3>1, <3>2 DEF end
      <3>4. QED
        BY <2>1, <3>3 DEF InHead
    <2>5. HeadHoldsPos' /\ ReadPosition' /\ ToppedUp'
      BY <1>7, <2>1, <2>4 DEF HeadHoldsPos, ReadPosition, ToppedUp
    <2>6. QED
      BY <1>9, <2>2, <2>3, <2>5 DEF PipeInv
  <1>11. CASE pos + n >= end
    <2>1. /\ queue' = Tail(queue) /\ servedBytes' = servedBytes + Head(queue).size
          /\ pc' = "refill" /\ pos' = end
      BY <1>3, <1>4, <1>5, <1>6, <1>9, <1>11
    <2>2. /\ queue' \in Seq(Chunks) /\ Len(queue') = Len(queue) - 1
          /\ \A i \in 1 .. Len(queue') : queue'[i] = queue[i + 1]
      BY <1>1, <2>1, HeadTailProperties DEF PipelineType
    <2>3. HandleType' /\ PipelineType'
      BY <1>1, <1>5, <1>7, <1>8, <1>9, <2>1, <2>2 DEF HandleType, PipelineType
    <2>4. InOrder'
      <3>. SUFFICES ASSUME NEW i \in 1 .. Len(queue')
                    PROVE  queue'[i].start + queue'[i].size
                             = IF i = Len(queue') THEN next' ELSE queue'[i + 1].start
        BY DEF InOrder
      <3>1. i + 1 \in 1 .. Len(queue)
        BY <1>2, <2>2
      <3>2. queue[i + 1].start + queue[i + 1].size
              = IF i + 1 = Len(queue) THEN next ELSE queue[(i + 1) + 1].start
        BY <1>1, <3>1 DEF InOrder
      <3>3. i # Len(queue') => i + 1 \in 1 .. Len(queue')
        BY <1>2, <2>2
      <3>4. QED
        BY <1>2, <1>5, <2>2, <3>2, <3>3
    <2>5. HeadHoldsPos'
      <3>1. CASE Len(queue) = 1
        <4>1. queue' = <<>>
          BY <2>2, <3>1, EmptySeq
        <4>2. pos' = next'
          BY <1>3, <1>5, <2>1, <3>1
        <4>3. QED
          BY <2>1, <4>1, <4>2 DEF HeadHoldsPos
      <3>2. CASE Len(queue) # 1
        <4>1. 1 \in 1 .. Len(queue') /\ 1 + 1 = 2 /\ 2 \in 1 .. Len(queue)
          BY <1>2, <2>2, <3>2
        <4>2. queue'[1] = queue[2]
          BY <2>2, <4>1
        <4>3. queue' # <<>>
          BY <4>1
        <4>4. Head(queue') = queue'[1]
          BY <2>2, <4>3
        <4>5. queue[2].size >= 1 /\ queue[2].start = end /\ queue[2].size \in Nat
          BY <1>2, <1>3, <3>2, <4>1 DEF Chunks
        <4>6. pos' >= Head(queue').start /\ pos' < Head(queue').start + Head(queue').size
          <5>1. end >= end /\ end < end + queue[2].size
            BY <1>3, <4>5, FileAssumption
          <5>2. Head(queue').start = end /\ Head(queue').size = queue[2].size /\ pos' = end
            BY <2>1, <4>2, <4>4, <4>5, Zenon
          <5>3. QED
            BY <5>1, <5>2, Zenon
        <4>7. QED
          BY <2>1, <4>3, <4>6 DEF HeadHoldsPos, InHead
      <3>3. QED
        BY <3>1, <3>2
    <2>6. ReadPosition' /\ ToppedUp'
      BY <1>5, <1>7, <2>1 DEF ReadPosition, ToppedUp
    <2>7. Ramp' /\ SmallReadsStayCheap'
      BY <1>1, <1>2, <1>5, <2>1, <2>2, Geometry
      DEF Ramp, SmallReadsStayCheap, PipelineType
    <2>8. QED
      BY <1>9, <2>3, <2>4, <2>5, <2>6, <2>7 DEF PipeInv
  <1>12. QED
    BY <1>3, <1>4, <1>9, <1>10, <1>11

\* What a read can do: fail with the chunk at the head, or take bytes from it.
LEMMA ReadCases ==
  ASSUME PipeInv, Read
  PROVE  /\ pc = "await" /\ queue # <<>> /\ InHead(pos) /\ pos = offset /\ offset < Size
         /\ \/ /\ fetch[Head(queue).start].pc = "failed"
               /\ Answer(Promise!Failure)
            \/ /\ fetch[Head(queue).start].pc = "done"
               /\ \E len \in 1 .. MaxRead :
                    Consume(Head(queue), Smaller(len, (Head(queue).start + Head(queue).size) - pos))
  <1>1. pc = "await"
    BY DEF Read
  <1>2. queue # <<>> /\ InHead(pos) /\ pos = offset /\ offset < Size
    BY <1>1 DEF PipeInv, HeadHoldsPos, ReadPosition
  <1>3. ~(pos >= Size)
    BY <1>2, FileAssumption DEF PipeInv, HandleType
  <1>4. QED
    BY <1>1, <1>2, <1>3 DEF Read

\* Every step of the handle's goroutine, and a step of another.
LEMMA PipeStep == PipeInv /\ [Next]_vars => PipeInv'
  <1>. SUFFICES ASSUME PipeInv, [Next]_vars PROVE PipeInv'
    OBVIOUS
  <1>0. HandleType /\ PipelineType
    BY DEF PipeInv
  <1>1. ASSUME NEW o \in 0 .. Size + 1, Seek(o) PROVE PipeInv'
    <2>1. pc = "idle" /\ offset' = o /\ UNCHANGED <<pc, active, queue, next, pos, step, servedBytes>>
      BY <1>1 DEF Seek, pipeline
    <2>2. HandleType' /\ PipelineType'
      BY <1>0, <2>1, FileAssumption DEF HandleType, PipelineType
    <2>3. QED
      BY <2>1, <2>2 DEF PipeInv, InOrder, HeadHoldsPos, InHead, ReadPosition, ToppedUp, Ramp,
                        SmallReadsStayCheap
  <1>2. CASE ReadAtEnd
    BY <1>2 DEF ReadAtEnd, PipeInv, pipeline, HandleType, PipelineType, InOrder, HeadHoldsPos,
                InHead, ReadPosition, ToppedUp, Ramp, SmallReadsStayCheap
  <1>3. CASE ReadOn
    BY <1>3, PipeReadOn
  <1>4. CASE ReadRestart
    BY <1>4, PipeStop
  <1>5. CASE Schedule
    BY <1>5, PipeSchedule
  <1>6. CASE Filled
    BY <1>6, PipeFilled
  <1>7. CASE Read
    <2>1. CASE Answer(Promise!Failure)
      <3>1. /\ pc' = "idle"
            /\ UNCHANGED <<offset, active, queue, next, pos, step, servedBytes>>
        BY <2>1 DEF Answer, pipeline
      <3>2. pc = "await" /\ queue # <<>> /\ InHead(pos)
        BY <1>7, ReadCases
      <3>3. HandleType' /\ PipelineType'
        BY <1>0, <3>1 DEF HandleType, PipelineType
      <3>4. QED
        BY <3>1, <3>2, <3>3 DEF PipeInv, InOrder, HeadHoldsPos, InHead, ReadPosition, ToppedUp,
                                Ramp, SmallReadsStayCheap
    <2>2. CASE \E len \in 1 .. MaxRead :
                 Consume(Head(queue), Smaller(len, (Head(queue).start + Head(queue).size) - pos))
      <3>1. pc = "await" /\ queue # <<>> /\ InHead(pos)
        BY <1>7, ReadCases
      <3>2. QED
        BY <2>2, <3>1, PipeConsume
    <2>3. QED
      BY <1>7, <2>1, <2>2, ReadCases
  <1>8. CASE Close
    BY <1>8, PipeStop
  <1>9. ASSUME NEW o \in Starts, Fetch(o) PROVE PipeInv'
    <2>1. UNCHANGED <<handle, pipeline>>
      BY <1>9 DEF Fetch, Load, Succeed, Fail, Retry, HandOver, GiveUp
    <2>2. QED
      BY <2>1, PipeFrame
  <1>10. ASSUME NEW src \in Copies, LateHandOver(src) PROVE PipeInv'
    BY <1>10, PipeFrame DEF LateHandOver
  <1>11. CASE UNCHANGED vars
    BY <1>11, PipeFrame DEF vars
  <1>12. QED
    BY <1>1, <1>2, <1>3, <1>4, <1>5, <1>6, <1>7, <1>8, <1>9, <1>10, <1>11 DEF Next

-----------------------------------------------------------------------------
(* The fetch goroutines.                                                   *)

\* The records of a goroutine that is gone, started, done or failed.
LEMMA FetchRecords ==
  /\ Gone \in FetchStates /\ Gone.pc = "gone"
  /\ Started \in FetchStates /\ Started.pc = "load"
  /\ 0 \in Copies
  BY FileAssumption DEF Gone, Started, FetchStates, Copies

\* Whether its range was honoured or not, a chunk holds the bytes asked for.
LEMMA RightBytes ==
  ASSUME NEW status \in {200, 206}, NEW o \in Starts
  PROVE  FirstByte(status, o) = o
  BY FileAssumption DEF FirstByte, Starts

\* A step that leaves the goroutines alone preserves what is known of them.
LEMMA FetchFrame ==
  ASSUME FetchInv, UNCHANGED fetches
  PROVE  FetchInv'
  BY DEF FetchInv, fetches, FetchType, FetchOrder, LateOrder, NoCopySkipped

\* One goroutine starts or goes.
LEMMA FetchSet ==
  ASSUME FetchInv, NEW o \in Starts, NEW r \in {Gone, Started},
         fetch' = [fetch EXCEPT ![o] = r], UNCHANGED <<cur, late, failed>>
  PROVE  FetchInv'
  <1>1. r \in FetchStates /\ r.pc \in {"gone", "load"}
    BY FetchRecords
  <1>2. FetchType'
    BY <1>1 DEF FetchInv, FetchType
  <1>3. FetchOrder'
    BY <1>1 DEF FetchInv, FetchType, FetchOrder
  <1>4. LateOrder' /\ NoCopySkipped'
    BY DEF FetchInv, LateOrder, NoCopySkipped
  <1>5. QED
    BY <1>2, <1>3, <1>4 DEF FetchInv

\* All of them are stopped, and some may still hand over.
LEMMA FetchStop ==
  ASSUME FetchInv, Stop, UNCHANGED <<cur, failed>>
  PROVE  FetchInv'
  <1>1. fetch' = [o \in Starts |-> Gone]
    BY DEF Stop
  <1>2. \A src \in late' : src \in late \/ \E o \in Starts :
           /\ fetch[o].src = src /\ fetch[o].pc = "judge" /\ src + 1 < NCopies
    BY DEF Stop, Exhausted
  <1>3. \A o \in Starts : fetch[o].src \in Copies
    BY DEF FetchInv, FetchType, FetchStates
  <1>4. FetchType'
    <2>1. fetch' \in [Starts -> FetchStates]
      BY <1>1, FetchRecords
    <2>2. late' \subseteq Copies
      BY <1>2, <1>3 DEF FetchInv, FetchType
    <2>3. QED
      BY <2>1, <2>2 DEF FetchInv, FetchType
  <1>5. FetchOrder'
    BY <1>1, FetchRecords DEF FetchOrder
  <1>6. LateOrder'
    BY <1>2 DEF FetchInv, FetchOrder, LateOrder
  <1>7. NoCopySkipped'
    BY DEF FetchInv, NoCopySkipped
  <1>8. QED
    BY <1>4, <1>5, <1>6, <1>7 DEF FetchInv

\* cur moves on from a copy that has failed, or stays.
LEMMA CurMoves ==
  ASSUME FetchInv, NEW src \in Copies, src + 1 < NCopies, src <= cur,
         src = cur => src \in failed, cur' = FailOver(src), UNCHANGED failed
  PROVE  /\ cur' \in Copies /\ cur <= cur' /\ src < cur'
         /\ cur' = cur \/ cur' = cur + 1
         /\ NoCopySkipped'
         /\ \A s \in Copies : s <= cur => s <= cur' /\ (s = cur' => s = cur /\ cur' = cur)
  <1>1. cur \in Copies /\ NoCopySkipped
    BY DEF FetchInv, FetchType
  <1>2. cur' = IF cur = src THEN src + 1 ELSE cur
    BY DEF FailOver
  <1>3. /\ cur' \in Copies /\ cur <= cur' /\ src < cur'
        /\ cur' = cur \/ cur' = cur + 1
        /\ \A s \in Copies : s <= cur => s <= cur' /\ (s = cur' => s = cur /\ cur' = cur)
    BY <1>1, <1>2, FileAssumption DEF Copies
  <1>4. NoCopySkipped'
    <2>. SUFFICES ASSUME NEW s \in Copies, s < cur' PROVE s \in failed
      BY DEF NoCopySkipped
    <2>1. CASE s < cur
      BY <1>1, <2>1 DEF NoCopySkipped
    <2>2. CASE ~(s < cur)
      <3>1. s = src /\ src = cur
        BY <1>1, <1>2, <2>2, FileAssumption DEF Copies
      <3>2. QED
        BY <3>1
    <2>3. QED
      BY <2>1, <2>2
  <1>5. QED
    BY <1>3, <1>4

\* A step of the goroutine of one chunk.
LEMMA FetchGoroutine ==
  ASSUME FetchInv, NEW o \in Starts, Fetch(o)
  PROVE  FetchInv'
  <1>1. FetchType /\ FetchOrder /\ LateOrder /\ NoCopySkipped
    BY DEF FetchInv
  <1>2. /\ fetch \in [Starts -> FetchStates] /\ fetch[o] \in FetchStates
        /\ cur \in Copies /\ late \subseteq Copies /\ failed \subseteq Copies
    BY <1>1 DEF FetchType
  <1>3. CASE Load(o)
    <2>1. /\ fetch' = [fetch EXCEPT ![o].pc = "ask", ![o].src = cur]
          /\ UNCHANGED <<cur, late, failed>>
      BY <1>3 DEF Load
    <2>2. FetchType'
      BY <1>2, <2>1 DEF FetchType, FetchStates
    <2>3. /\ fetch'[o].pc = "ask" /\ fetch'[o].src = cur
          /\ \A p \in Starts \ {o} : fetch'[p] = fetch[p]
      BY <1>2, <2>1 DEF FetchStates
    <2>4. FetchOrder'
      BY <1>1, <1>2, <2>1, <2>3 DEF FetchOrder, Copies
    <2>5. QED
      BY <1>1, <2>1, <2>2, <2>4 DEF FetchInv, LateOrder, NoCopySkipped
  <1>4. CASE Succeed(o)
    <2>1. PICK status \in {200, 206} :
            fetch' = [fetch EXCEPT ![o] = [Gone EXCEPT !.pc = "done", !.from = FirstByte(status, o)]]
      BY <1>4 DEF Succeed
    <2>2. UNCHANGED <<cur, late, failed>>
      BY <1>4 DEF Succeed
    <2>3. FirstByte(status, o) = o /\ o \in Nat
      BY RightBytes DEF Starts
    <2>4. fetch' = [fetch EXCEPT ![o] = [Gone EXCEPT !.pc = "done", !.from = o]]
      BY <2>1, <2>3
    <2>5. [Gone EXCEPT !.pc = "done", !.from = o] \in FetchStates
      BY <2>3, FetchRecords DEF Gone, FetchStates
    <2>6. FetchType'
      BY <1>2, <2>2, <2>4, <2>5 DEF FetchType
    <2>7. /\ fetch'[o].pc = "done" /\ fetch'[o].from = o
          /\ \A p \in Starts \ {o} : fetch'[p] = fetch[p]
      BY <1>2, <2>4 DEF Gone
    <2>8. FetchOrder'
      BY <1>1, <2>2, <2>7 DEF FetchOrder
    <2>9. QED
      BY <1>1, <2>2, <2>6, <2>8 DEF FetchInv, LateOrder, NoCopySkipped
  <1>5. CASE Fail(o)
    <2>. DEFINE tries == IF cur = NCopies - 1 THEN fetch[o].tries + 1 ELSE fetch[o].tries
    <2>1. /\ fetch[o].pc = "ask"
          /\ fetch' = [fetch EXCEPT ![o].pc = "judge", ![o].attempt = fetch[o].attempt + 1,
                                    ![o].tries = tries]
          /\ failed' = failed \cup {cur} /\ UNCHANGED <<cur, late>>
      BY <1>5 DEF Fail
    <2>2. tries \in Nat
      BY <1>2 DEF FetchStates
    <2>. HIDE DEF tries
    <2>3. FetchType'
      BY <1>2, <2>1, <2>2 DEF FetchType, FetchStates
    <2>4. /\ fetch'[o].pc = "judge" /\ fetch'[o].src = fetch[o].src
          /\ \A p \in Starts \ {o} : fetch'[p] = fetch[p]
      BY <1>2, <2>1 DEF FetchStates
    <2>5. FetchOrder'
      BY <1>1, <2>1, <2>4 DEF FetchOrder
    <2>6. QED
      BY <1>1, <2>1, <2>3, <2>5 DEF FetchInv, LateOrder, NoCopySkipped
  <1>6. CASE Retry(o)
    <2>1. fetch' = [fetch EXCEPT ![o].pc = "load"] /\ UNCHANGED <<cur, late, failed>>
      BY <1>6 DEF Retry
    <2>2. FetchType'
      BY <1>2, <2>1 DEF FetchType, FetchStates
    <2>3. /\ fetch'[o].pc = "load"
          /\ \A p \in Starts \ {o} : fetch'[p] = fetch[p]
      BY <1>2, <2>1 DEF FetchStates
    <2>4. FetchOrder'
      BY <1>1, <2>1, <2>3 DEF FetchOrder
    <2>5. QED
      BY <1>1, <2>1, <2>2, <2>4 DEF FetchInv, LateOrder, NoCopySkipped
  <1>7. CASE HandOver(o)
    <2>1. /\ fetch[o].pc = "judge" /\ fetch[o].src + 1 < NCopies
          /\ cur' = FailOver(fetch[o].src)
          /\ fetch' = [fetch EXCEPT ![o].pc = "load", ![o].attempt = 0]
          /\ UNCHANGED <<late, failed>>
      BY <1>7 DEF HandOver, Exhausted
    <2>2. /\ fetch[o].src \in Copies /\ fetch[o].src <= cur
          /\ fetch[o].src = cur => cur \in failed
      BY <1>1, <1>2, <2>1 DEF FetchOrder, FetchStates
    <2>3. /\ cur' \in Copies /\ cur <= cur' /\ NoCopySkipped'
          /\ \A s \in Copies : s <= cur => s <= cur' /\ (s = cur' => s = cur /\ cur' = cur)
      BY <2>1, <2>2, CurMoves
    <2>4. FetchType'
      BY <1>2, <2>1, <2>3 DEF FetchType, FetchStates
    <2>5. /\ fetch'[o].pc = "load"
          /\ \A p \in Starts \ {o} : fetch'[p] = fetch[p]
      BY <1>2, <2>1 DEF FetchStates
    <2>6. \A p \in Starts : fetch[p].src \in Copies
      BY <1>2 DEF FetchStates
    <2>7. cur = NCopies - 1 => cur' = NCopies - 1
      BY <1>2, <2>3, FileAssumption DEF Copies
    <2>8. FetchOrder'
      BY <1>1, <2>1, <2>3, <2>5, <2>6, <2>7 DEF FetchOrder
    <2>9. LateOrder'
      BY <1>1, <1>2, <2>1, <2>3 DEF LateOrder
    <2>10. QED
      BY <2>3, <2>4, <2>8, <2>9 DEF FetchInv
  <1>8. CASE GiveUp(o)
    <2>1. /\ fetch[o].pc = "judge" /\ fetch[o].src + 1 >= NCopies
          /\ fetch' = [fetch EXCEPT ![o] = [Gone EXCEPT !.pc = "failed", !.tries = fetch[o].tries]]
          /\ UNCHANGED <<cur, late, failed>>
      BY <1>8 DEF GiveUp, Exhausted
    <2>2. cur = NCopies - 1
      <3>1. fetch[o].src <= cur /\ fetch[o].src \in Copies
        BY <1>1, <1>2, <2>1 DEF FetchOrder, FetchStates
      <3>2. QED
        BY <1>2, <2>1, <3>1, FileAssumption DEF Copies
    <2>3. [Gone EXCEPT !.pc = "failed", !.tries = fetch[o].tries] \in FetchStates
      BY <1>2, FetchRecords DEF Gone, FetchStates
    <2>4. FetchType'
      BY <1>2, <2>1, <2>3 DEF FetchType
    <2>5. /\ fetch'[o].pc = "failed"
          /\ \A p \in Starts \ {o} : fetch'[p] = fetch[p]
      BY <1>2, <2>1 DEF Gone
    <2>6. FetchOrder'
      BY <1>1, <2>1, <2>2, <2>5 DEF FetchOrder
    <2>7. QED
      BY <1>1, <2>1, <2>4, <2>6 DEF FetchInv, LateOrder, NoCopySkipped
  <1>9. QED
    BY <1>3, <1>4, <1>5, <1>6, <1>7, <1>8 DEF Fetch

\* A stopped goroutine hands over.
LEMMA FetchLate ==
  ASSUME FetchInv, NEW src \in Copies, LateHandOver(src)
  PROVE  FetchInv'
  <1>1. /\ src \in late /\ late' = late \ {src} /\ cur' = FailOver(src)
        /\ UNCHANGED <<fetch, failed>>
    BY DEF LateHandOver
  <1>2. FetchType /\ FetchOrder /\ LateOrder
    BY DEF FetchInv
  <1>3. /\ cur' \in Copies /\ cur <= cur' /\ NoCopySkipped'
        /\ \A s \in Copies : s <= cur => s <= cur' /\ (s = cur' => s = cur /\ cur' = cur)
    BY <1>1, <1>2, CurMoves DEF LateOrder
  <1>4. FetchType'
    BY <1>1, <1>2, <1>3 DEF FetchType
  <1>5. FetchOrder'
    <2>1. \A p \in Starts : fetch[p].src \in Copies
      BY <1>2 DEF FetchType, FetchStates
    <2>2. cur = NCopies - 1 => cur' = NCopies - 1
      BY <1>2, <1>3, FileAssumption DEF FetchType, Copies
    <2>3. QED
      BY <1>1, <1>2, <1>3, <2>1, <2>2 DEF FetchOrder
  <1>6. LateOrder'
    BY <1>1, <1>2, <1>3 DEF LateOrder, FetchType
  <1>7. QED
    BY <1>3, <1>4, <1>5, <1>6 DEF FetchInv

\* Every step of a goroutine, and a step of the handle.
LEMMA FetchStep == IInv /\ [Next]_vars => FetchInv'
  <1>. SUFFICES ASSUME IInv, [Next]_vars PROVE FetchInv'
    OBVIOUS
  <1>1. FetchInv /\ PipeInv
    BY DEF IInv
  <1>2. CASE UNCHANGED fetches
    BY <1>1, <1>2, FetchFrame
  <1>3. CASE Schedule
    <2>1. next \in Starts
      BY <1>1, <1>3, FileAssumption DEF PipeInv, PipelineType, Schedule, HasRoom, Starts
    <2>2. fetch' = [fetch EXCEPT ![next] = Started] /\ UNCHANGED <<cur, late, failed>>
      BY <1>3 DEF Schedule
    <2>3. QED
      BY <1>1, <2>1, <2>2, FetchSet
  <1>4. CASE ReadRestart \/ Close
    <2>1. Stop /\ UNCHANGED <<cur, failed>>
      BY <1>4 DEF ReadRestart, Close
    <2>2. QED
      BY <1>1, <2>1, FetchStop
  <1>5. CASE Read
    <2>1. queue # <<>> /\ PipelineType
      BY <1>1, <1>5, ReadCases DEF PipeInv
    <2>2. Head(queue).start \in Starts
      BY <2>1, HeadChunk DEF Chunks
    <2>3. \/ UNCHANGED fetches
          \/ /\ fetch' = [fetch EXCEPT ![Head(queue).start] = Gone]
             /\ UNCHANGED <<cur, late, failed>>
      BY <1>1, <1>5, ReadCases DEF Answer, Consume, fetches
    <2>4. QED
      BY <1>1, <2>2, <2>3, FetchSet, FetchFrame
  <1>6. ASSUME NEW o \in Starts, Fetch(o) PROVE FetchInv'
    BY <1>1, <1>6, FetchGoroutine
  <1>7. ASSUME NEW src \in Copies, LateHandOver(src) PROVE FetchInv'
    BY <1>1, <1>7, FetchLate
  <1>8. Seek(offset') \/ ReadAtEnd \/ ReadOn \/ Filled \/ UNCHANGED vars => UNCHANGED fetches
    BY DEF Seek, ReadAtEnd, ReadOn, Filled, vars
  <1>9. \A o \in 0 .. Size + 1 : Seek(o) => Seek(offset')
    BY DEF Seek
  <1>10. QED
    BY <1>2, <1>3, <1>4, <1>5, <1>6, <1>7, <1>8, <1>9 DEF Next

-----------------------------------------------------------------------------
(* The theorems.                                                           *)

\* The first state has an empty pipeline and no goroutine.
LEMMA InvInit == Init => IInv
  <1>. SUFFICES ASSUME Init PROVE IInv
    OBVIOUS
  <1>1. PipeInv
    <2>1. queue \in Seq(Chunks) /\ Len(queue) = 0
      BY EmptySeq DEF Init
    <2>2. HandleType /\ PipelineType
      <3>1. /\ offset = 0 /\ pc = "idle" /\ active = FALSE
            /\ next = 0 /\ pos = 0 /\ step = 0 /\ servedBytes = 0
        BY DEF Init
      <3>2. 0 \in 0 .. Size
        BY FileAssumption
      <3>3. QED
        BY <2>1, <3>1, <3>2 DEF HandleType, PipelineType
    <2>3. InOrder /\ HeadHoldsPos /\ ReadPosition /\ ToppedUp
      BY <2>1 DEF Init, InOrder, HeadHoldsPos, ReadPosition, ToppedUp
    <2>4. Ramp /\ SmallReadsStayCheap
      BY <2>1, Geometry, GeometryAssumption DEF Init, Ramp, SmallReadsStayCheap
    <2>5. QED
      BY <2>2, <2>3, <2>4 DEF PipeInv
  <1>2. FetchInv
    <2>1. FetchType
      BY FetchRecords DEF Init, FetchType
    <2>2. FetchOrder /\ LateOrder
      BY FetchRecords DEF Init, FetchOrder, LateOrder
    <2>3. NoCopySkipped
      BY DEF Init, NoCopySkipped, Copies
    <2>4. QED
      BY <2>1, <2>2, <2>3 DEF FetchInv
  <1>3. QED
    BY <1>1, <1>2 DEF IInv

\* Every behaviour satisfies the inductive invariant.
THEOREM ReaderInvariance == Spec => []IInv
  <1>1. IInv /\ [Next]_vars => IInv'
    BY PipeStep, FetchStep DEF IInv
  <1>2. QED
    BY <1>1, InvInit, PTL DEF Spec

\* Every variable keeps its type, and cur always names a server.
THEOREM ReaderTypeCorrect == Spec => []TypeOK
  <1>1. IInv => TypeOK
    BY DEF IInv, PipeInv, FetchInv, TypeOK
  <1>2. QED
    BY <1>1, ReaderInvariance, PTL

\* The chunks are contiguous and the first holds the read position, so
\* that read's error for a position outside it is out of reach.
THEOREM PipelineStaysInOrder == Spec => []PipelineInOrder
  <1>1. IInv => PipelineInOrder
    BY DEF IInv, PipeInv, PipelineInOrder
  <1>2. QED
    BY <1>1, ReaderInvariance, PTL

\* After a seek, one chunk is asked for until it is used up.
THEOREM ScansStayCheap == Spec => []SmallReadsStayCheap
  <1>1. IInv => SmallReadsStayCheap
    BY DEF IInv, PipeInv
  <1>2. QED
    BY <1>1, ReaderInvariance, PTL

\* No copy is passed over without having been asked.
THEOREM CopiesTriedInTurn == Spec => []NoCopySkipped
  <1>1. IInv => NoCopySkipped
    BY DEF IInv, FetchInv
  <1>2. QED
    BY <1>1, ReaderInvariance, PTL

\* Every step of the reader is a step of the byte stream, or none.
LEMMA StepKeepsPromise ==
  IInv /\ [Next]_vars => [Promise!Next]_(Promise!vars)
  <1>. SUFFICES ASSUME IInv, [Next]_vars PROVE [Promise!Next]_(Promise!vars)
    OBVIOUS
  <1>1. FetchInv /\ PipeInv /\ FetchType /\ HandleType
    BY DEF IInv, FetchInv, PipeInv
  <1>. USE DEF Promise!vars, Promise!Next
  <1>2. ASSUME NEW o \in 0 .. Size + 1, Seek(o) PROVE Promise!Seek
    BY <1>2, FileAssumption DEF Seek, Promise!Seek, fetches
  <1>3. CASE ReadAtEnd
    BY <1>3 DEF ReadAtEnd, Promise!ReturnEof, fetches
  <1>4. CASE ReadOn \/ ReadRestart \/ Close
    BY <1>4 DEF ReadOn, ReadRestart, Close, Promise!Call, fetches
  <1>5. CASE Schedule \/ Filled
    BY <1>5 DEF Schedule, Filled, handle, fetches
  <1>6. CASE Read
    <2>1. /\ pc = "await" /\ queue # <<>> /\ InHead(pos) /\ pos = offset /\ offset < Size
      BY <1>1, <1>6, ReadCases
    <2>2. Head(queue).start \in Starts /\ Head(queue) \in Chunks
      BY <1>1, <2>1, HeadChunk DEF PipeInv, Chunks
    <2>3. CASE fetch[Head(queue).start].pc = "failed" /\ Answer(Promise!Failure)
      <3>1. cur = NCopies - 1
        BY <1>1, <2>2, <2>3 DEF FetchInv, FetchOrder
      <3>2. QED
        BY <2>1, <2>3, <3>1 DEF Answer, Promise!ReturnFailure, fetches
    <2>4. ASSUME fetch[Head(queue).start].pc = "done",
                 NEW len \in 1 .. MaxRead, NEW n,
                 n = Smaller(len, (Head(queue).start + Head(queue).size) - pos),
                 Consume(Head(queue), n)
          PROVE  Promise!ReturnBytes
      <3>1. n \in Nat \ {0} /\ pos + n \in 0 .. Size
        BY <1>1, <2>1, <2>4, PipeConsume
      <3>2. fetch[Head(queue).start].from = Head(queue).start
        BY <1>1, <2>2, <2>4 DEF FetchInv, FetchOrder
      <3>3. Head(queue).start + (pos - Head(queue).start) = offset
        BY <1>1, <2>1, <2>2, FileAssumption DEF Starts, HandleType
      <3>4. out' = Promise!Bytes(offset, n) /\ offset' = offset + n /\ cur' = cur
        BY <2>4, <3>2, <3>3 DEF Consume
      <3>5. offset' - offset = n /\ offset' > offset /\ offset' <= Size
        BY <1>1, <2>1, <3>1, <3>4, FileAssumption DEF HandleType
      <3>6. QED
        BY <3>4, <3>5 DEF Promise!ReturnBytes
    <2>5. QED
      BY <1>1, <1>6, <2>3, <2>4, ReadCases
  <1>7. ASSUME NEW o \in Starts, Fetch(o) PROVE [Promise!Next]_(Promise!vars)
    <2>1. UNCHANGED <<offset, out>>
      BY <1>7 DEF Fetch, Load, Succeed, Fail, Retry, HandOver, GiveUp, handle
    <2>2. CASE HandOver(o)
      <3>1. /\ fetch[o].src + 1 < NCopies /\ cur' = FailOver(fetch[o].src)
        BY <2>2 DEF HandOver
      <3>2. QED
        BY <2>1, <3>1 DEF FailOver, Promise!HandOver
    <2>3. CASE ~HandOver(o)
      BY <1>7, <2>1, <2>3 DEF Fetch, Load, Succeed, Fail, Retry, GiveUp
    <2>4. QED
      BY <2>2, <2>3
  <1>8. ASSUME NEW src \in Copies, LateHandOver(src) PROVE [Promise!Next]_(Promise!vars)
    <2>1. src + 1 < NCopies
      BY <1>1, <1>8 DEF FetchInv, LateOrder, LateHandOver
    <2>2. QED
      BY <1>8, <2>1 DEF LateHandOver, FailOver, Promise!HandOver, handle
  <1>9. CASE UNCHANGED vars
    BY <1>9 DEF vars, handle, fetches
  <1>10. QED
    BY <1>2, <1>3, <1>4, <1>5, <1>6, <1>7, <1>8, <1>9 DEF Next

\* The pipeline implements the byte stream, whatever the requests do.
THEOREM StreamPromiseKept == Spec => KeepsPromise
  <1>1. Init => Promise!Init
    BY DEF Init, Promise!Init
  <1>2. QED
    BY <1>1, StepKeepsPromise, ReaderInvariance, PTL DEF Spec, KeepsPromise, Promise!Spec
=============================================================================
