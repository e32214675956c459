\* FixedCore, main and t2 on core c0, core c1 idle, under the fairness of FairSpec.
SPECIFICATION FairSpec
CONSTANTS
  c0 = c0  c1 = c1  i0 = i0  i1 = i1
  main = main  t1 = t1  t2 = t2  s1 = s1  stack0 = stack0  None0 = None0
  Cores <- MCCores
  Normal = {main, t2}
  Idle <- MCIdle
  Main = main
  Spins = {s1}
  LocalSpin = stack0
  Queues <- MCCores
  Home <- FixedHome
  Source <- FixedSource
  Boot <- FixedBoot
  None = None0
  InitialValue <- MCInitialValue
  MaxValue = 1
  Deadlines = {1}
  MaxTime = 1
  Micro = 2
  Nano = 2
  Word = 16
PROPERTIES
  ReadyThreadRuns SleeperWakes ExitedThreadFinishes EventuallyOff
