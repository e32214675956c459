\* One hart: a guest and a worker that raises its interrupts.
SPECIFICATION FairSpec
CONSTANTS
  c0 = c0  c1 = c1  v0 = v0  v1 = v1  w = w
  Cores = {c0}
  VCPUs = {v0}
  Workers = {w}
  Sources = {w}
  Home <- HomeOf
  Irqs = {1}
  Contexts = {0}
  Levels = {0}
  MaxTime = 2
  None = None
PROPERTY TimerSeen
