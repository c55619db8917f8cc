SPECIFICATION ScanFairSpec
CONSTANTS
  t1 = t1  t2 = t2
  Thread = {t1, t2}
  Input <- SameInput
  Scanner <- OwnScanner
  Path <- Paths
  IncludePaths <- SearchPaths
  Texts <- Contents
  Appearing <- Fleeting
  ReadFails = {}
  KeyOf <- Keys
  FirstSize = 2
  Week = 1
  MaxVersions = 3
  MaxDays = 2
  
PROPERTIES ScansFinish
CHECK_DEADLOCK FALSE
