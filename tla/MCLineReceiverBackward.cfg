\* javad_receive with the overlapping memcpy copying backward.
CONSTANTS
  CR = CR
  LF = LF
  NUL = NUL
  A = A
  X = X
  OutsideByte = X
  ChunkBytes <- MCChunkBytes
  CAP = 4
  MaxChunk = 3
  MemcpyOutcomes <- MCBackward
SPECIFICATION Spec

PROPERTY LineSpec
