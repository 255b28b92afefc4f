SPECIFICATION Spec
CONSTANTS
  Families <- BothFamilies
  Events <- ThreeEvents
  MaxFailures = 0
  StartedSize = 4
  ErrorsSize = 2
CHECK_DEADLOCK FALSE
INVARIANTS FlushedBeforeDestroyed
