\* One action and two file transfers, both of which may be active.
SPECIFICATION Spec
CONSTANTS
  Actions = {a1}
  Transfers = {t1, t2}
  MaxActive = 2
  MaxRuns = 2
SYMMETRY Symmetry
INVARIANTS TypeOK AtMostOnce OutcomeKept ExpiredIsTrue
PROPERTY OutcomeStable
