SPECIFICATION Spec
CONSTANTS
  t1 = t1
  Tasks = {t1}
  Linked = {t1}
  NImages = 2
  MaxAttempts = 3
  MaxRestarts = 2
  MaxFaults = 2
INVARIANTS
  TypeOK
  WorkerMatchesTask
  SeenIsSaved
  PendingIsRetried
  
PROPERTIES
  NoSecondWorker
  OutcomeIsKept
  GalleryShowsSaved
