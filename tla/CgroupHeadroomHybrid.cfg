SPECIFICATION Spec
CONSTANTS
  Group <- MCGroup
  Hosts <- MCHosts
  Limit = {1, 2}
  Unlimited = Unlimited
  MaxUsage = 2
  Missing = Missing
  Garbled = Garbled
  None = None
INVARIANT
  FiniteV1LimitNotMistaken
CHECK_DEADLOCK FALSE
