SPECIFICATION FairSpec
CONSTANTS
  BLOCK_SIZE = 2
  BUFFER_BLOCKS = 2
  Readers = {r1}
  NoOne = NoOne
  InputLen = 3
  MaxRequest = 2
PROPERTY EveryByteDelivered
CHECK_DEADLOCK FALSE
