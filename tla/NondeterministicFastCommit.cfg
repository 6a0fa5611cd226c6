CONSTANTS
  Address <- MCAddress
  MaxIndex <- MCMaxIndex
  Objects = {o1, o2, o3, o4}
  Contents = {v1, bad}
  Unencodable = {bad}
  Nil = Nil
  Absent = Absent
  Workers = {w1, w2}
SPECIFICATION CallSpec
PROPERTIES
  ImplementsStoreUnordered
  CallReturns
