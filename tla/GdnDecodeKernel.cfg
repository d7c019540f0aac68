CONSTANTS
  Dims <- MCDims
  Widths = {2, 4, 8}
  MaxDim = 4
  IntMax = 8
  q <- MCq
  k <- MCk
  v <- MCv
  g <- MCg
  beta <- MCbeta
  state <- MCstate
  Garbage = 1000
SPECIFICATION FairSpec
INVARIANTS IndicesInRange RaceFree BarrierUniform ResultCorrect
PROPERTIES Terminates
CHECK_DEADLOCK FALSE
