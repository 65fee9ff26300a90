CONSTANTS
  Samples = {0, 1}
  Junk = Junk
  NoRing = NoRing
  RingSamples = 4
  ChunkWords = 2
  StreamChunk = 3
  Wrap = 8
  Overlap = FALSE
SPECIFICATION Spec
INVARIANTS
  TypeOK
  UnreadBounded
  WritesToLiveRing
PROPERTIES
  ImplementsQueue
  StreamFlows
