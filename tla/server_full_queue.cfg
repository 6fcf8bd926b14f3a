SPECIFICATION Spec
CONSTANTS
  a = a
  b = b
  i = i
  j = j
  x = x
  None = None
  Circuits = {a, b}
  Sids = {i}
  Specs = {x}
  Subscriptions <- TwoCircuits
  MAX_TOTAL_SUBSCRIPTION_BACKLOG = 1
  max_subscription_backlog = 1
  MaxVersion = 2
  MaxCommands = 2
  ClientMay = {"EventAdd", "EventCancel", "Write", "Disconnect"}
  TidyClients = FALSE
CHECK_DEADLOCK FALSE
SYMMETRY Symmetry
INVARIANTS TypeOK LatestNewsIsKept WantedIsRegistered
PROPERTIES KeepsPromise
