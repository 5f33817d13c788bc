SPECIFICATION Spec
CONSTANTS
  Threads = {t1, t2}
  Files = {i1, i2, i3}
  None = None
  Components <- MCComponents
  Root <- MCRoot
  Excluded <- MCExcluded
  FileNames <- MCFileNames
  DirNames <- MCDirNames
  Dirs <- MCDirs
  Places <- MCPlaces
  LinkTargets <- MCLinkTargets
  VirtualNames <- MCVirtualNames
  OutSize = 6
  PathMax = 5
SYMMETRY Symmetry
VIEW View
CONSTRAINT Apart
INVARIANTS
  TypeOK
  HereLeadsBack
  ListedIsServed
PROPERTIES
  OneTree
