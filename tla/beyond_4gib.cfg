SPECIFICATION Spec
CONSTANTS
  BLOCKSIZE = 2
  BYTE = 2
  InodesPerBlock = 2
  FileBlocks = 12
  MaxInodes = 2
  MaxBlocks = 14
INVARIANTS
  SuperblockStays
