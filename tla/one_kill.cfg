SPECIFICATION Spec
CONSTANTS
  NInodes = 4
  FirstData = 2
  FSize = 6
  NDIRECT = 2
  DirentsPerBlock = 3
  BLOCKSIZE = 7
  DIRENT_SIZE = 2
  Names = {a, b}
  a = a
  b = b
  MaxKills = 1
  MaxIoErrs = 0
SYMMETRY NameSymmetry
INVARIANTS
  NoDanglingEntries
  ReachableBlocksSafe
  TreeShaped
  LinkCountsWithinKills
  RootNeverDeleted
  LsAgreesWithNamei
  NothingUnknownShown
  BlocksShown
  DotsLeadHome
  LiveTree
