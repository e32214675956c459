\* One hart: two guests and a worker take turns.
SPECIFICATION Spec
CONSTANTS
  c0 = c0  c1 = c1  v0 = v0  v1 = v1  w = w
  Cores = {c0}
  VCPUs = {v0, v1}
  Workers = {w}
  Sources = {w, c0}
  Home <- HomeOf
  Irqs = {1}
  Contexts = {0}
  Levels = {0}
  MaxTime = 1
  None = None
SYMMETRY VCPUSymmetry
INVARIANTS
  TypeOK HartShowsItsVcpu
