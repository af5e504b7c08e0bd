SPECIFICATION Spec
CONSTANTS
  Calls = {c1, c2}
  Users = {u1, u2, u3}
  Me = u3
  PageSize = 1
  MaxPages = 2
  Interval = 2
  MaxRotation = 3
  MaxClock = 2
SYMMETRY CallSymmetry
CHECK_DEADLOCK FALSE
INVARIANTS RetryUsesNewerKeys BanListComplete RoleNeverGuessed
