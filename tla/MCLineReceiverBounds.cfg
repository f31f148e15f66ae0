\* javad_receive: do the bytes held and their NUL stay inside ibuf?
CONSTANTS
  CR = CR
  LF = LF
  NUL = NUL
  A = A
  X = X
  OutsideByte = X
  ChunkBytes <- MCChunkBytes
  CAP = 4
  MaxChunk = 3
  MemcpyOutcomes <- MCForward
SPECIFICATION Spec
INVARIANT BufferBounds
