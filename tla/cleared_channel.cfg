SPECIFICATION Spec
CONSTANTS
  a = a
  b = b
  i = i
  j = j
  x = x
  None = None
  Circuits = {a}
  Sids = {i, j}
  Specs = {x}
  Subscriptions <- OneCircuit
  MAX_TOTAL_SUBSCRIPTION_BACKLOG = 4
  max_subscription_backlog = 1
  MaxVersion = 2
  MaxCommands = 2
  ClientMay = {"EventAdd", "ClearChannel"}
  TidyClients = FALSE
CHECK_DEADLOCK FALSE
INVARIANT ClearedChannelIsReleased
