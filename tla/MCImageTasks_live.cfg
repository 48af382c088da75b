SPECIFICATION FairSpec
CONSTANTS
  t1 = t1
  t2 = t2
  Tasks = {t1, t2}
  Linked = {t1, t2}
  NImages = 1
  MaxAttempts = 2
  MaxRestarts = 1
  MaxFaults = 0
PROPERTIES
  EveryTaskEnds
  
  ImplementsLifecycle
  
