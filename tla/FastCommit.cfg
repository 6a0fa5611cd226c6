CONSTANTS
  Address <- MCAddress
  MaxIndex <- MCMaxIndex
  Objects = {o1, o2}
  Contents = {v1, bad}
  Unencodable = {bad}
  Nil = Nil
  Absent = Absent
  Workers = {w1, w2}
SPECIFICATION FCSpec
INVARIANTS
  NoRaceOnDeltas
  GoroutinesAreContained
PROPERTIES
  NothingSavedUnlessAllEncoded
  ImplementsCommit
  CallReturns
