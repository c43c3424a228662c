\* Two endpoints and two relay connections, which may both be of one endpoint.
SPECIFICATION FairSpec
CONSTANTS
  Clients = {c1, c2}
  Managed = {c1, c2}
  Conns = {n1, n2}
  None = None
INVARIANTS TypeOK SessionIsServed NewestServed AdvertisedHasSession
PROPERTY BrokenSessionEnds
