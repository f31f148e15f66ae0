\* javad_receive: is every complete line printed once its CR LF is read?
CONSTANTS
  CR = CR
  LF = LF
  NUL = NUL
  A = A
  X = X
  OutsideByte = X
  ChunkBytes <- MCChunkBytes
  CAP = 4
  MaxChunk = 3
  MemcpyOutcomes <- MCForward
SPECIFICATION Spec
INVARIANT NoLineLeft
