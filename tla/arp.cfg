SPECIFICATION FairSpec
CONSTANTS
  t1 = t1
  t2 = t2
  a = a
  b = b
  c = c
  Threads = {t1, t2}
  Worker = Worker
  Addresses = {a, b, c}
  Slots = {1, 2}
  Slot <- MCSlot
  Calls <- MCCalls
  Losses = 1
  None = None
CHECK_DEADLOCK FALSE
INVARIANTS
  RightAddress WaiterHasReply WorkerSleepsOnlyUnknown
PROPERTIES
  ResolveReturns
