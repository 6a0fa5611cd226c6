CONSTANTS
  Container = {c1, c2, c3}
  Key = {k1, k2}
  Types = {t1, t2}
  PlainSizes = {4}
  WrapperSizes <- MCWrapperSizes
  RootPrefixSize <- MCRootPrefixSize
  InlinedPrefixSize <- MCInlinedPrefixSize
  MaxInlineSize <- MCMaxInlineSize
  SlabIDSize = 2
  ElementOverhead = 1
  MaxElements = 2
  Unguarded = {"Set"}
  None = None
SYMMETRY MCSymmetry
SPECIFICATION Spec
INVARIANT
  NestingIsValid
