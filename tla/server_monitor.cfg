SPECIFICATION FairSpec
CONSTANTS
  None = None
  Addresses = {"s"}
  Contexts = {"c", "d"}
  ShortPeriods = 1
  EPICS_CAS_BEACON_PERIOD = 2
  EPICS_CA_CONN_TMO = 2
  MARGIN = 1
  RESPONSIVENESS_TIMEOUT = 2
  EchoDelay = 1
  BeaconAge = 4
  MaxRestarts = 1
  MaxContextsLost = 1
CHECK_DEADLOCK FALSE
INVARIANTS RestartIsNoticed
PROPERTIES LiveStaysConnected UnresponsiveIsDisconnected
