\* javad_recv with a stray low sync byte before a message (copy forward).
CONSTANTS
  Sync <- MCSync
  Streams <- MCStrayLow
  MaxChunk = 5
  MemcpyOutcomes <- MCForward
  BigEndian = FALSE
SPECIFICATION FrameSpec
INVARIANT FramesDelivered
CHECK_DEADLOCK FALSE
