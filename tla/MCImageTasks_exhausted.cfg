SPECIFICATION Spec
CONSTANTS
  t1 = t1
  Tasks = {t1}
  Linked = {t1}
  NImages = 2
  MaxAttempts = 5
  MaxRestarts = 0
  MaxFaults = 0
INVARIANTS
  LoadingUntilRetriesComplete
