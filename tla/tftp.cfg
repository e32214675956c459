SPECIFICATION FairSpec
CONSTANTS
  Requests = 2
  Size <- MCSize
  BufferSize <- MCBufferSize
  BlockSize = 2
  MinLength = 1
  Modulus = 3
  Capacity = 2
  MaxPermits = 2
CHECK_DEADLOCK FALSE
INVARIANTS
  CleanTransfers
PROPERTIES
  RequestReturns
