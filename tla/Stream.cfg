SPECIFICATION FairSpec
CONSTANTS
  BLOCK_SIZE = 2
  BUFFER_BLOCKS = 2
  Readers = {r1, r2}
  NoOne = NoOne
  InputLen = 8
  MaxRequest = 2
INVARIANTS NoByteLost TransferRegionFree ReaderNotForgotten
PROPERTIES ImplementsPipe DeliveredUnlessWakeupLost
CHECK_DEADLOCK FALSE
