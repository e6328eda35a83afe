SPECIFICATION Spec
CONSTANTS
  BufferSize = 5
  HdrLen = 2
  SocketBuf = 3
  ImageLen = 4
  MaxLength = 3
  Swapping = TRUE
INVARIANTS
  SamplesSwapped
