\* Two transfer tasks, the event loop and the heartbeat compete for the lock;
\* one change of certificate and one other key of the peer.
SPECIFICATION FairSpec
CONSTANTS
  Tasks = {t1, t2}
  Certs = {c1, c2}
  Keys = {k1, k2}
  None = None
INVARIANTS TypeOK ReadyIsServed LockIsLive
PROPERTIES PinnedForGood StraightToRelay AnswersGoOut
