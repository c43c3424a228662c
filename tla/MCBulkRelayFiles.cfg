\* Two files of one transfer; expected to fail.
SPECIFICATION Spec
CONSTANTS
  Keys = {k1}
  Endpoints = {a, b}
  Files = {f1, f2}
  Lengths = {1}
  Chunk = 2
  MaxPending = 1
  Conns = {n1, n2, n3}
  None = None
INVARIANT UsedMeansThisFile
