CONSTANTS
  Process = {p1, p2}
  TempName = {t1, t2}
  Output = output
  Foreign = foreign
  NoFile = nofile
  NoName = noname
  MaxPowerLosses = 1
SPECIFICATION FairSpec
PROPERTIES RunsEnd
CHECK_DEADLOCK FALSE
