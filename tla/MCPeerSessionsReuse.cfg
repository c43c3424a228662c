\* Two actions; expected to fail.
SPECIFICATION Spec
CONSTANTS
  States = {}
  Actions = {a1, a2}
  Files = {}
  MaxConns = 3
  None = None
PROPERTY ContinuousReuse
