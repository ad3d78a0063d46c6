SPECIFICATION Spec
CONSTANTS
  u1 = u1
  u2 = u2
  u3 = u3
  Uploads = {u1, u2, u3}
  Readers = {r1}
  NoVersion = NoVersion
  Asking = Asking
  Failed = Failed
  Sizes = {4, 8}
  ChunkSize = 4
  Overlap = 1
  TopK = 2
  Scores = {1, 2}
  VersionTTL = 2
  ReadTime = 1
  MaxLost = 2
SYMMETRY Sym
CHECK_DEADLOCK FALSE
INVARIANTS
  ChunksCoverDocument
  BestChunksFound
  OnlyCurrentIsKept
  CurrentKeepsFile
  LeftoversAreFaults
PROPERTIES
  ImplementsRegister
