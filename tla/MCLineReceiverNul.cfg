\* javad_receive on chunks that may carry a NUL byte.
CONSTANTS
  CR = CR
  LF = LF
  NUL = NUL
  A = A
  X = X
  OutsideByte = X
  ChunkBytes <- MCChunkBytesNul
  CAP = 4
  MaxChunk = 3
  MemcpyOutcomes <- MCForward
SPECIFICATION Spec

PROPERTY LineSpec
