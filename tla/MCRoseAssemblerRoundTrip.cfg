CONSTANTS
  None = None
  p1 = p1
  p2 = p2
  a1 = a1
  a2 = a2
  a3 = a3
  a4 = a4
  Progs <- MCProgs
  Addrs <- MCAddrs
  BlobInit <- MCBlobInit
  ModelOps = {"REPORT", "SPARSE_ITER_BEGIN", "SPARSE_ITER_NEXT"}
  Vals = {1, 2}
  Keys = {3}
  HashBits = 16

SYMMETRY MCSymmetry

SPECIFICATION ASpec


PROPERTY EquivalentProgramsEmitAlike

CHECK_DEADLOCK FALSE
