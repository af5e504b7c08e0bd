SPECIFICATION Spec
CONSTANTS
  Clients = {c1, c2}
  ScIds = {}
  QueueMaxSize = 2
  MaxHistory = 2
  MaxSnapshot = 1
  MaxEvents = 3
SYMMETRY ClientSymmetry
CHECK_DEADLOCK FALSE
INVARIANTS EachEventExactlyOnce
PROPERTY QuietAfterClose
