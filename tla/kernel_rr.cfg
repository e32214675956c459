\* RR: one run queue for both cores, so threads migrate.
SPECIFICATION Spec
CONSTANTS
  c0 = c0  c1 = c1  i0 = i0  i1 = i1
  main = main  t1 = t1  t2 = t2  s1 = s1  stack0 = stack0  None0 = None0
  Cores <- MCCores
  Normal = {main, t1}
  Idle <- MCIdle
  Main = main
  Spins = {s1}
  LocalSpin = stack0
  Queues <- RRQueues
  Home <- RRHome
  Source <- RRSource
  Boot <- RRBoot
  None = None0
  InitialValue <- MCInitialValue
  MaxValue = 1
  Deadlines = {1, 5}
  MaxTime = 2
  Micro = 2
  Nano = 4
  Word = 16
INVARIANTS
  ThreadOnOneCore NoAssertFails
PROPERTY AlarmsInOrder
