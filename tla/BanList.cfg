SPECIFICATION FairSpec
CONSTANTS
  Uids = {u1, u2}
  Browsers = {b1}
  Requests = {r1}
  MaxWrites = 2
  MaxFaults = 1
CHECK_DEADLOCK FALSE
INVARIANTS  NoTaskAfterStop
PROPERTIES CacheConverges
