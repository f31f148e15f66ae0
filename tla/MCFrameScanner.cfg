\* javad_recv on streams of messages, garbage and corrupted messages, in
\* chunks of up to 5 bytes, with the overlapping memcpy copying either way.
CONSTANTS
  Sync <- MCSync
  Streams <- MCStreams
  MaxChunk = 5
  MemcpyOutcomes <- MCEither
  BigEndian = FALSE
SPECIFICATION FrameSpec
INVARIANT AcceptsOnlySent
CHECK_DEADLOCK FALSE
