\* Two subscribing clients, one of them an owner, with two connections between
\* them, and two relay handlers that broadcast.
SPECIFICATION Spec
CONSTANTS
  Clients = {c1, c2}
  Owners = {c1}
  Ctrls = {x1, x2}
  Relays = {r1, r2}
  None = None
SYMMETRY Symmetry
INVARIANTS TypeOK SubscriberIsServed SubscribersUpToDate
PROPERTY SubscriptionKept
