SPECIFICATION FairSpec
CONSTANTS
  w1 = w1
  w2 = w2
  NoWorker = NoWorker
  Workers = {w1}
  MaxAttempts = 2
  MaxJobs = 1
  MaxFaults = 1
PROPERTIES ProcessingEnds DeletedFilesGo LossIsNoticed
CHECK_DEADLOCK FALSE
