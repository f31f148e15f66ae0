\* javad_recv with one garbage byte before a message, the overlapping memcpy
\* copying backward.
CONSTANTS
  Sync <- MCSync
  Streams <- MCGarbage
  MaxChunk = 5
  MemcpyOutcomes <- MCBackward
  BigEndian = FALSE
SPECIFICATION FrameSpec
INVARIANT FramesDelivered
CHECK_DEADLOCK FALSE
