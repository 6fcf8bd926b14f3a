SPECIFICATION Spec
CONSTANTS
  OurRole = "CLIENT"
  Cids = {c1, c2}
  Sids = {s1, s2}
  Ioids = {i1}
  Subids = {k1}
  Types = {INT}
  Counts = {0}
  Natives = {n1, n2}
  Priorities = {0, 1}
  Versions = {0, 13}
  DEFAULT_PROTOCOL_VERSION = 13
  None = None
INVARIANTS TypeOK LockStep DisconnectClosesChannels SidIndex IoidLive CancelIsPending VersionsAgree
PROPERTIES NegotiationIsMonotone RejectionIsAtomic
SYMMETRY Symmetry
