SPECIFICATION Spec
CONSTANTS
  NInodes = 4
  FirstData = 2
  FSize = 6
  NDIRECT = 2
  DirentsPerBlock = 3
  Names = {a, b}
  a = a
  b = b
  MaxKills = 0
  MaxIoErrs = 1
SYMMETRY NameSymmetry
PROPERTIES
  NonEmptyDirsStay
