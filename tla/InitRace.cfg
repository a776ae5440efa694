CONSTANTS
  Proc = {p1, p2}
  Dir = {top, mid, leaf}
  Parent <- Tree
  Upwards <- Paths
  NoDir = NoDir
  NoProc = NoProc
  MaxScanned = 1
  MaxEdits = 1
  MaxFaults = 2
  top = top
  mid = mid
  leaf = leaf
  p1 = p1
  p2 = p2
SPECIFICATION Spec
SYMMETRY Symmetric
INVARIANTS NoNesting StrandedOnlyByMishap
PROPERTY OnlyOwnWork
