SPECIFICATION Spec
CONSTANTS
  Group <- MCGroup
  Hosts <- MCHosts
  Limit = {1, 2}
  Unlimited = Unlimited
  MaxUsage = 2
  Missing = Missing
  Garbled = Garbled
  None = None
INVARIANTS
  TypeOK
  LevelsGovern
  ControllerIsChosen
  NoLevelOverstated
  AvailableIsReal
CHECK_DEADLOCK FALSE
