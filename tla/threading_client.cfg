SPECIFICATION FairSpec
CONSTANTS
  None = None
  PVs = {"p"}
  CIRCUIT_DEATH_ATTEMPTS = 2
  MaxCircuits = 2
  MaxErrors = 1
  MaxMonitor = 1
  MaxCalls = 2
CHECK_DEADLOCK FALSE
INVARIANTS AnswerIsOwn WokenKnowsWhy
PROPERTIES IdleIsExclusive PvReconnects SubscriptionIsRestored
