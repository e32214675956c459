\* Minimum 1: requests of one byte are rounded up to the smallest block.
SPECIFICATION Spec
CONSTANTS
  Minimum = 1
  Order = 4
  PageSize = 4
  RamEnd = 32
  Reserved <- MCReserved
  Header = 1
  Sizes = {1, 3, 7}
  MaxChunks = 4
INVARIANTS
  BlocksPartitionMemory BuddiesMerged FailsOnlyWhenFull
