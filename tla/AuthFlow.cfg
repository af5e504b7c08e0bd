SPECIFICATION Spec
CONSTANTS
  Requests = {r1, r2}
  l1 = l1
  Logins = {l1, l2}
  Fingers = {f1}
  StartFiles <- MCStartFiles
  Empty = Empty
  NoFinger = NoFinger
SYMMETRY RequestSymmetry
INVARIANTS StoredPairIsWhole LoginInUseIsStored AuthenticatedIsVouched
PROPERTIES StoredLoginSafe ExpiresOnlyIfRejected
