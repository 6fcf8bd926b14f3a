SPECIFICATION FairSpec
CONSTANTS
  a = a
  b = b
  i = i
  j = j
  x = x
  None = None
  Circuits = {a}
  Sids = {i, j}
  Specs = {x}
  Subscriptions <- OneCircuit
  MAX_TOTAL_SUBSCRIPTION_BACKLOG = 9
  max_subscription_backlog = 1
  MaxVersion = 3
  MaxCommands = 4
  ClientMay = {"EventAdd", "EventCancel", "ClearChannel", "EventsOff", "EventsOn"}
  TidyClients = TRUE
CHECK_DEADLOCK FALSE
INVARIANTS LatestNewsIsKept
PROPERTIES KeepsWholePromise
