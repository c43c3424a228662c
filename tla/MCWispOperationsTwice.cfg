\* One action whose response has assets, repeated by the peer.
SPECIFICATION Spec
CONSTANTS
  Actions = {a1}
  Transfers = {t1}
  MaxActive = 1
  MaxRuns = 2
INVARIANT CompletedOnce
