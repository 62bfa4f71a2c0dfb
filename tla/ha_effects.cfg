\* Three clients, four effects at a time, and every call that may fail.
CONSTANTS
  Messages = {m1, m2, m3}
  Ids = {1, 2, 3, 4}
  Failures = {"id", "subscribe", "cancel"}
SPECIFICATION Spec
INVARIANTS
  HapticsTypeOK
  EndlessHasClient
PROPERTIES
  StaysWhileAsked
SYMMETRY MessageSymmetry
CHECK_DEADLOCK FALSE
