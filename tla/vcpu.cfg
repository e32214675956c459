\* Two harts: the guest of v0 on c0; traps of c1 raise its interrupts.
SPECIFICATION FairSpec
CONSTANTS
  c0 = c0  c1 = c1  v0 = v0  v1 = v1  w = w
  Cores = {c0, c1}
  VCPUs = {v0}
  Workers = {}
  Sources = {c1}
  Home <- HomeOf
  Irqs = {1}
  Contexts = {0}
  Levels = {0, 1}
  MaxTime = 0
  None = None
PROPERTIES LossOnlyInWindows ExternalSeen
