CONSTANTS
  a1 = a1
  a2 = a2
  b1 = b1
  SlabID <- MCSlabID
  Owner <- MCOwner
  Shapes <- MCShapes
  Expectations <- MCExpectations
  MaxRepeated = 1
  Nil = Nil
  Absent = Absent
SYMMETRY MCSymmetry
SPECIFICATION Spec
INVARIANTS
  IterationIsExact
  HealthCheckIsExact
  RepairIsExact
