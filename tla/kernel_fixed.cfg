\* FixedCore, the default criterion: main and t2 on core c0, t1 on core c1.
SPECIFICATION Spec
CONSTANTS
  c0 = c0  c1 = c1  i0 = i0  i1 = i1
  main = main  t1 = t1  t2 = t2  s1 = s1  stack0 = stack0  None0 = None0
  Cores <- MCCores
  Normal = {main, t1, t2}
  Idle <- MCIdle
  Main = main
  Spins = {s1}
  LocalSpin = stack0
  Queues <- MCCores
  Home <- FixedHome
  Source <- FixedSource
  Boot <- FixedBoot
  None = None0
  InitialValue <- MCInitialValue
  MaxValue = 2
  Deadlines = {}
  MaxTime = 0
  Micro = 2
  Nano = 4
  Word = 16
INVARIANTS
  TypeOK NodeLinkedOnce ReadyContextIsSaved NoAssertFails
  ValueCountsWaiters CountIsExact ShutdownOnlyWhenDone FinishedIsUnreachable
PROPERTY ImplementsCountingSemaphore
