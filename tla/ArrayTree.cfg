CONSTANTS
  TargetThreshold = 10
  DataPrefixSize = 2
  RootDataPrefixSize = 1
  MetaPrefixSize = 1
  HeaderSize = 3
  LinearScanThreshold = 3
  Undefined = 0
  Absent = Absent
  MaxSlabs = 16
  MaxCount = 16
  ElementSizes = {1, 4}
  GrowCount = 7
  BatchSizes = {9, 10, 11, 12, 13}
  MaxSteps = 2
SPECIFICATION MCSpec
INVARIANTS
  ArrayIsValid
  ReadsContents
  NothingUnsavedOrOrphaned
  RangesReadContents
  LoadedValuesAreAllLoaded
