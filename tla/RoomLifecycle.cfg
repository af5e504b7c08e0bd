SPECIFICATION RoomSpec
CONSTANTS
  Calls = {k1, k2, k3, k4}
CHECK_DEADLOCK FALSE
INVARIANTS  SingleRoomIfSerial ExpiryStopsRoomIfSerial
