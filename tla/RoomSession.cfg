SPECIFICATION Spec
CONSTANTS
  DedupSize = 2
  ChatIds = {m1, m2, m3}
  ScIds = {s1}
  MaxChats = 4
  MaxWire = 2
  MaxOutages = 1
INVARIANTS WindowConsistent NoRepeatWithinWindow SuperChatsTracked
