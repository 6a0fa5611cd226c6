CONSTANTS
  TargetThreshold = 28
  KeySize = 1
  DigestSize = 1
  DataPrefixSize = 2
  RootDataPrefixSize = 1
  HkeyPrefixSize = 1
  SinglesPrefixSize = 1
  SinglePrefixSize = 1
  InlinePrefixSize = 1
  ExternalSize = 3
  MetaPrefixSize = 1
  HeaderSize = 9
  Levels = 2
  MaxCollisionLimit = 2
  Undefined = 0
  Absent = Absent
  None = None
  MaxSlabs = 6
  Key = {1, 2, 3, 4, 5, 6, 7, 8}
  Digests <- GroupDigests
  ValueSizes = {1, 8}
SPECIFICATION Spec
INVARIANTS
  MapIsValid
  ReadsContents
  IterationVisitsAll
  NothingUnsavedOrOrphaned
  KeyOrderIsStable
  GroupsAreLimited
