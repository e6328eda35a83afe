SPECIFICATION FairSpec
CONSTANTS
  BufCount = 3
  BufSize = 2
  Data = {d1, d2}
  NoData = NoData
  PipeCapacity = 3
INVARIANTS
  TypeOK
  Ownership
  ReaderNeverSigpipe
PROPERTIES
  FifoSpec
  ReaderSeesTheEnd
  WriterNotStranded
