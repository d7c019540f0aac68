CONSTANTS
  T = 4
  Hk = 2
  Hv = 4
  Dk = 2
  Dv = 2
  Inputs <- MCInputs
SPECIFICATION OracleSpec
CHECK_DEADLOCK FALSE
INVARIANTS
  PiecesAgree
  AttendsToPast
  GradientsAreDerivatives
