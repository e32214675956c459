\* The three barriers of a run: one at boot, two before the shutdown.
SPECIFICATION FairSpec
CONSTANTS
  Cores = {c0, c1, c2, c3}
  Rounds = 3
INVARIANT BarrierSeparates
PROPERTY EveryoneLeaves
