\* Three connections for two transfers of one or three bytes, two bytes read
\* at once and one connection allowed to wait.
SPECIFICATION Spec
CONSTANTS
  Keys = {k1, k2}
  Endpoints = {a, b}
  Files = {f1}
  Lengths = {1, 3}
  Chunk = 2
  MaxPending = 1
  Conns = {n1, n2, n3}
  None = None
SYMMETRY Symmetry
INVARIANTS TypeOK PairSound WaiterFindable ExactCopy
