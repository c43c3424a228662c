\* Two endpoints, two keys, two control connections and one Wisp.
SPECIFICATION Spec
CONSTANTS
  ClientIds = {c1, c2}
  Keys = {k1, k2}
  Kinds = {"android"}
  WispIds = {w1}
  Conns = {n1, n2}
  NoKey = NoKey
  NoKind = NoKind
  NoOwner = NoOwner
  NoClient = NoClient
  Enrollment = TRUE
SYMMETRY Symmetry
INVARIANTS TypeOK ClaimPermanent AnswersDurable AuthenticatedByRecordedKey
PROPERTIES KeyPinned RefusedUntilApproved
