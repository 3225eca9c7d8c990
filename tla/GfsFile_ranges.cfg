\* Two calls at a time on a file that grows and may be deleted.
SPECIFICATION FairSpec
CONSTANTS
  c1 = c1
  c2 = c2
  Clients <- TwoClients
  ChunkSize = 3
  Offsets <- SomeOffsets
  Sizes <- SomeSizes
  MaxCalls = 2
  Failover = TRUE
  Word = 256
CHECK_DEADLOCK FALSE
INVARIANTS TypeOK WriteTiles ReadInOrder PieceFits
PROPERTY LoopsEnd
