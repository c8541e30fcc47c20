SPECIFICATION Spec
CONSTANTS
  Processes = {p1, p2, p3}
  Retention = 1
  MaxTime = 2
  MaxFaults = 1
SYMMETRY Symmetry
INVARIANTS
  PicturesAreWhole
  PathsKeepTheirPicture
  StagingFilesAreOwned
CHECK_DEADLOCK FALSE
