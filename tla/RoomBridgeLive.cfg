SPECIFICATION FairSpec
CONSTANTS
  Clients = {c1}
  ScIds = {s1}
  QueueMaxSize = 2
  MaxHistory = 3
  MaxSnapshot = 1
  MaxEvents = 4
CHECK_DEADLOCK FALSE
INVARIANT ReplayShowsLiveSuperChats
PROPERTIES DetachedClientsEnd CloseTerminates
