CONSTANTS
  Trainer = {s1, s2}
  TempName = {t1, t2}
  Path = path
  Foreign = foreign
  NoFile = nofile
  NoName = noname
  Torn = torn
  NamesRepeat = TRUE
  MaxStep = 1
  MaxSave = 2
  MaxPowerLosses = 0
SPECIFICATION Spec
PROPERTIES DeletesOnlyItsOwn
SYMMETRY Symmetry
CHECK_DEADLOCK FALSE
