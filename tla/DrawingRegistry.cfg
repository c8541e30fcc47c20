SPECIFICATION Spec
CONSTANTS
  Documents = {d1, d2}
  Databases = {b1, b2, b3}
  Ids = {i1, i2, i3}
  NoId = NoId
  NoDatabase = NoDatabase
  MaxDocuments = 3
  MaxEdits = 1
  MaxRefusals = 1
SYMMETRY Symmetry
INVARIANTS
  HostHoldsLiveObjects
  ChangesAreNoticed
PROPERTIES
  IdsFollowDocuments
  UnsavedWorkSurvives
CHECK_DEADLOCK FALSE
