\* javad_receive with the memcpy copying forward and chunks without NUL.
CONSTANTS
  CR = CR
  LF = LF
  NUL = NUL
  A = A
  X = X
  OutsideByte = X
  ChunkBytes <- MCChunkBytes
  CAP = 4
  MaxChunk = 3
  MemcpyOutcomes <- MCForward
SPECIFICATION Spec
INVARIANT TypeOK
PROPERTY LineSpec
