CONSTANTS
  l1 = l1
  a1 = a1
  stopper = stopper
  Producers <- MCPlainProducers
  LockedProducers <- MCNoLocked
  Stopper = stopper
  NMsg = 4
  RingCap = 1
  Batch = 1
  MaxPost = 4
SPECIFICATION Spec
INVARIANT NoNullMsg
CHECK_DEADLOCK FALSE
