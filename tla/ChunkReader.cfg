\* Three copies of a file of seven units, two streams.
SPECIFICATION FairSpec
CONSTANTS
  Size = 7
  NCopies = 3
  Streams = 2
  MaxChunk = 3
  FirstChunkSize = 2
  MaxReadRetries = 2
  RetriesBeforeFailover = 1
  WordBits = 4
  MaxRead = 2
CHECK_DEADLOCK FALSE
INVARIANTS
  TypeOK
  PipelineInOrder
  SmallReadsStayCheap
  NoCopySkipped
PROPERTIES
  KeepsPromise
  ReadsReturn
