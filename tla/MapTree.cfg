CONSTANTS
  TargetThreshold = 14
  KeySize = 1
  DigestSize = 1
  DataPrefixSize = 2
  RootDataPrefixSize = 1
  HkeyPrefixSize = 1
  SinglesPrefixSize = 1
  SinglePrefixSize = 1
  InlinePrefixSize = 1
  ExternalSize = 3
  MetaPrefixSize = 1
  HeaderSize = 5
  Levels = 2
  MaxCollisionLimit = 255
  Undefined = 0
  Absent = Absent
  None = None
  MaxSlabs = 18
  Key = {1, 2, 3, 4, 5, 6, 7, 8, 9, 10, 11, 12, 13, 14}
  GrowKeys = {1, 2, 3, 4, 5, 6}
  Gaps = {3, 4, 5, 6, 7, 15}
  MaxSteps = 2
  Digests <- TreeDigests
  ValueSizes = {1, 2}
SPECIFICATION MCSpec
INVARIANTS
  MapIsValid
  ReadsContents
  IterationVisitsAll
  NothingUnsavedOrOrphaned
  LoadedValuesAreAllLoaded
