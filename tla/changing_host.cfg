SPECIFICATION Spec
CONSTANTS
  BLOCKSIZE = 3
  NDIRECT = 2
  MaxEdits = 3
CHECK_DEADLOCK FALSE
INVARIANTS
  CopyTypeOK
  SizeMatchesBlocks
  UnitsOnceInOrder
  GrowingFileCopiedAsStated
