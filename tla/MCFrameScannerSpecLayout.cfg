\* javad_recv on a message laid out as spec section 6 describes it.
CONSTANTS
  Sync <- MCSync
  Streams <- MCSpecLayout
  MaxChunk = 5
  MemcpyOutcomes <- MCForward
  BigEndian = FALSE
SPECIFICATION FrameSpec
INVARIANT FramesDelivered
CHECK_DEADLOCK FALSE
