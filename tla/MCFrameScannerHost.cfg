\* javad_recv on a big-endian host, garbage before each message, the
\* overlapping memcpy copying forward.
CONSTANTS
  Sync <- MCSync
  Streams <- MCResync
  MaxChunk = 5
  MemcpyOutcomes <- MCForward
  BigEndian = TRUE
SPECIFICATION FrameSpec
INVARIANT FramesDelivered
CHECK_DEADLOCK FALSE
