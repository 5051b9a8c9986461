SPECIFICATION Spec
CONSTANTS
  BLOCKSIZE = 2
  BYTE = 2
  InodesPerBlock = 2
  FileBlocks = 100
  MaxInodes = 5
  MaxBlocks = 13
INVARIANTS
  VolumeTypeOK
  DfExact
  AcceptedIsWhole
  SuperblockStays
  OnlyOneInodeFails
PROPERTIES
  MkfsLeavesDisk
  LibraryWorksOnSets
  MkfsCutLeavesDisk
  FullVolumeAnswered
