CONSTANTS
  None = None
  p1 = p1
  p2 = p2
  p3 = p3
  a1 = a1
  a2 = a2
  a3 = a3
  a4 = a4
  a5 = a5
  a6 = a6
  Progs <- MCProgs
  Addrs <- MCAddrs
  ModelOps = {"REPORT", "CHECK_EXHAUSTED", "SPARSE_ITER_BEGIN", "SPARSE_ITER_NEXT"}
  Vals = {1}
  Keys = {3}
  HashBits = 16

SYMMETRY MCSymmetry

SPECIFICATION Spec

CHECK_DEADLOCK FALSE
PROPERTY ProgramSeqRefined
