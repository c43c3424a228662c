\* Two connections for one transfer.
SPECIFICATION FairSpec
CONSTANTS
  Keys = {k1}
  Endpoints = {a, b}
  Files = {f1}
  Lengths = {1, 3}
  Chunk = 2
  MaxPending = 1
  Conns = {n1, n2}
  None = None
PROPERTIES HandlersEnd KeepsPort
