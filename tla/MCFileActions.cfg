\* Four file actions, two of which may be staged at a time.
SPECIFICATION FairSpec
CONSTANTS
  Transfers = {t1, t2, t3, t4}
  MaxStaged = 2
INVARIANTS TypeOK Undisturbed NoLitter
PROPERTY ServiceStops
