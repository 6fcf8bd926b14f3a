SPECIFICATION FairSpec
CONSTANTS
  c1 = c1
  n1 = n1
  n2 = n2
  s1 = s1
  s2 = s2
  None = None
  Contexts = {c1}
  Names = {n1, n2}
  Addresses = {s1, s2}
  Has <- TwoServers
  MAX_ID = 2
  MIN_RETRY_SEARCHES_INTERVAL = 1
  MAX_RETRY_SEARCHES_INTERVAL = 2
  SEARCH_RETIREMENT_AGE = 1
  RETRY_RETIRED_SEARCHES_INTERVAL = 2
  STALE_SEARCH_EXPIRATION = 0
  MaxSearches = 2
  MaxReconnects = 1
  MaxSendErrors = 1
  MaxDatagram = 2
  NameServers = FALSE
CHECK_DEADLOCK FALSE
INVARIANTS ResultsAreReal SearchesAreConserved
PROPERTIES SearchIsAnswered
