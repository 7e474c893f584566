CONSTANTS
  Texts <- ExpiringScenarios
SPECIFICATION TextSpec
INVARIANT StringReplicaInSync
CHECK_DEADLOCK FALSE
