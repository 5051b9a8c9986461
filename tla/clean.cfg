SPECIFICATION UndoSpec
CONSTANTS
  NInodes = 5
  FirstData = 2
  FSize = 6
  NDIRECT = 2
  DirentsPerBlock = 2
  BLOCKSIZE = 5
  DIRENT_SIZE = 2
  Names = {a, b, c}
  a = a
  b = b
  c = c
  MaxKills = 0
  MaxIoErrs = 0
SYMMETRY NameSymmetry
INVARIANTS
  TypeOK
  InodesAccounted
  BlocksAccounted
  LinkCountsExact
  EntriesFound
  DirSizeCoversEntries
  FilesIntact
  WholeTree
PROPERTIES
  FailedToolChangesNothing
  NonEmptyDirsStay
