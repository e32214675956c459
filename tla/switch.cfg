SPECIFICATION Spec
CONSTANTS
  g1 = g1
  g2 = g2
  Guests = {g1, g2}
  Wire = Wire
  NoOne = NoOne
  Observers <- MCObservers
  Frames <- MCFrames
  Size = 2
  Modulus = 4
  Start = 3
CHECK_DEADLOCK FALSE
INVARIANTS
  TypeOK EachBufferOnce SameOrder NoLostCompletion NoLostNotification
