CONSTANTS
  Container = {1, 2}
  Key = {1, 2, 3}
  Comparable = {1, 2}
  Types = {1, 2}
  Composite = {1}
  Seeds = {1, 2, 3}
  Digests <- MCDigests
  Levels = 2
  RootTypes = {1}
  RootSeeds = {1, 3}
  MaxElements = 2
  MaxExtraDataIndex = 255
  None = None
SPECIFICATION Spec
INVARIANTS
  DecodingIsFaithful
  EncodingIsDeterministic
