CONSTANTS
  Size = 3
  MaxChunks = 9
  Base = 3
  PACKETLEN = 2
  OPCODELEN = 1
  STRING_LEN = 1
  PeerPackets <- SmallPackets
  RawLength = 6
  MaxQueue = 2
  MaxWrites = 3
  CLOSE = CLOSE
  game = game
  Nothing = Nothing
SPECIFICATION ConnectionSpec
INVARIANTS
  ReadInOrder  RefusedOnlyIfRestartedFull  PausedOnlyIfRaced
  ReadAsSent
  WrittenInOrder  WritesFreedOnce
PROPERTIES
  EveryChunkRead  EveryPacketRead
\* The peer may stop sending for good, and a connection ends.
CHECK_DEADLOCK FALSE
