CONSTANTS
  mlx = mlx
  qwen = qwen
  cutlass = cutlass
  r1 = r1
  r2 = r2
  GitSource = {mlx}
  HfSource = {qwen}
  Pin = {cutlass}
  Declaring = mlx
  Agenda <- MCAgenda
  Revision = {r1, r2}
  NotSha = notsha
  None = none
  Artifacts = 2
  World <- MCWorld
  MaxMoves = 2
SPECIFICATION Spec
INVARIANTS LockCoherent RevisionWasRequested PinsDeclared
PROPERTIES Terminates
CHECK_DEADLOCK FALSE
