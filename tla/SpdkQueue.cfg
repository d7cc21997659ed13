CONSTANTS
  l1 = l1
  a1 = a1
  stopper = stopper
  Producers <- MCProducers
  LockedProducers <- MCLocked
  Stopper = stopper
  NMsg = 4
  RingCap = 2
  Batch = 2
  MaxPost = 2
SPECIFICATION Spec
INVARIANT TypeOK
PROPERTY FifoRefined
CHECK_DEADLOCK FALSE
