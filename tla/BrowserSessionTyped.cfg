SPECIFICATION FairSpec
CONSTANTS
  Rooms = {r1, r2}
  Shorts = {s2}
  r2 = r2
  s2 = s2
  RealOf <- MCRealOf
  Inputs = {r1, s2}
  QuickRooms = {r1}
  Calls = {1, 2}
  Bridges = {1, 2}
  MaxRetries = 1
  None = None

PROPERTIES StartsTypedRoom
