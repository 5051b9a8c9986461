SPECIFICATION Spec
CONSTANTS
  BLOCKSIZE = 2
  BYTE = 2
  InodesPerBlock = 2
  FileBlocks = 100
  MaxInodes = 3
  MaxBlocks = 7
INVARIANTS
  GottenInodesMarked
