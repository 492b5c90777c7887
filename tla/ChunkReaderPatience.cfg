\* Two streams that fail together.
SPECIFICATION Spec
CONSTANTS
  Size = 6
  NCopies = 2
  Streams = 2
  MaxChunk = 3
  FirstChunkSize = 2
  MaxReadRetries = 2
  RetriesBeforeFailover = 1
  WordBits = 4
  MaxRead = 2
CHECK_DEADLOCK FALSE
INVARIANTS
  LastCopyGetsFullCount
