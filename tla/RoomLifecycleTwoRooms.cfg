SPECIFICATION RoomSpec
CONSTANTS
  Calls = {k1, k2}
CHECK_DEADLOCK FALSE
INVARIANT SingleRoom
