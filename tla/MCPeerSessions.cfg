\* One action and one file action, and a third connection for a second attempt.
SPECIFICATION Spec
CONSTANTS
  States = {}
  Actions = {a1}
  Files = {f1}
  MaxConns = 3
  None = None
INVARIANTS TypeOK RunsOnce NonceOnce
PROPERTY KeepsPromise
