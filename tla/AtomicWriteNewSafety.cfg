CONSTANTS
  Process = {p1, p2, p3}
  TempName = {t1, t2, t3}
  Output = output
  Foreign = foreign
  NoFile = nofile
  NoName = noname
  MaxPowerLosses = 1
SPECIFICATION Spec
INVARIANTS OutputWhole SuccessIsPublished NoLitter
PROPERTIES NeverReplaced UnlinksOnlyItsOwn PublishesOnce
SYMMETRY Symmetry
CHECK_DEADLOCK FALSE
