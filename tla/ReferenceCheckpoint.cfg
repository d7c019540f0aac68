CONSTANTS
  Trainer = {s1, s2}
  TempName = {t1, t2}
  Path = path
  Foreign = foreign
  NoFile = nofile
  NoName = noname
  Torn = torn
  NamesRepeat = FALSE
  MaxStep = 2
  MaxSave = 2
  MaxPowerLosses = 2
SPECIFICATION Spec
INVARIANTS CheckpointWhole AckedSaveStays NoLitter
PROPERTIES BehavesAsStore DeletesOnlyItsOwn
SYMMETRY Symmetry
CHECK_DEADLOCK FALSE
