CONSTANTS
  i1 = i1
  i2 = i2
  Ids <- MCIds
  Tools <- MCTools
  Input <- MCInputObjectParams
  MaxLines = 2
SPECIFICATION MCSpecNoHangup
CHECK_DEADLOCK FALSE
INVARIANT RequestsAnswered
