CONSTANTS
  t1 = t1
  t2 = t2
  t3 = t3
  sol = sol
  luna = luna
  Task = {t1, t2, t3}
  Agent = {sol, luna}
  Absent = absent
  Stranger = stranger
  None = none
  Plans <- MCPlans
SPECIFICATION FairSpec
INVARIANTS VerdictSound NeverStuck
PROPERTIES PlanFinishes
CHECK_DEADLOCK FALSE
