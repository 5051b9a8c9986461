SPECIFICATION HalfSpec
CONSTANTS
  NInodes = 3
  FirstData = 2
  FSize = 6
  NDIRECT = 2
  DirentsPerBlock = 3
  Names = {a}
  a = a
  MaxKills = 1
  MaxIoErrs = 1
INVARIANTS
  MetadataOutOfReach
PROPERTIES
  EveryToolEnds
