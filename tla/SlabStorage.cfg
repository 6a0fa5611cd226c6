CONSTANTS
  Address <- MCAddress
  MaxIndex <- MCMaxIndex
  Objects = {o1, o2, o3}
  Contents = {v1, bad}
  Unencodable = {bad}
  Nil = Nil
  Absent = Absent
SYMMETRY ObjectSymmetry
SPECIFICATION Spec
INVARIANTS
  ReadsAreCoherent
  CommittedIsSaved
  IndexesAreFresh
PROPERTIES
  WritesAreOrdered
  ImplementsStore
