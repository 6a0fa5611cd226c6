CONSTANTS
  Address <- MCAddress
  MaxIndex <- MCMaxIndex
  Objects = {o1, o2, o3}
  Contents = {v1, bad}
  Unencodable = {}
  Undecodable = {bad}
  Nil = Nil
  Absent = Absent
  Workers = {w1, w2}
SPECIFICATION CallSpec
INVARIANTS
  PreloadIsComplete
PROPERTIES
  ImplementsBatchPreload
  CallReturns
CHECK_DEADLOCK FALSE
