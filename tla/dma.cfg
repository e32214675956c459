SPECIFICATION Spec
CONSTANTS
  s1 = s1
  s2 = s2
  Senders = {s1, s2}
  Frames <- MCFrames
  SendBufferCount = 3
  ReceiveBufferCount = 2
  Arrivals = 3
CHECK_DEADLOCK FALSE
INVARIANTS
  SendsInOrder ReceivesInOrder BacklogOnlyByCoalescing
