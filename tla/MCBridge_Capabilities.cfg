CONSTANTS
  i1 = i1
  i2 = i2
  Ids <- MCIds
  Tools <- MCTools
  Input <- MCInput
  MaxLines = 2
SPECIFICATION Spec
CHECK_DEADLOCK FALSE
INVARIANT CapabilitiesMirrorUpstream
