SPECIFICATION Spec
CONSTANTS
  OurRole = "SERVER"
  Cids = {c1}
  Sids = {s1, s2}
  Ioids = {i1}
  Subids = {k1}
  Types = {INT, TIME}
  Counts = {0, 1}
  Natives = {n1}
  Priorities = {0, 1}
  Versions = {0, 13}
  DEFAULT_PROTOCOL_VERSION = 13
  None = None
INVARIANTS LockStep
