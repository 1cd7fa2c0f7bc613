SPECIFICATION Spec
CONSTANTS
  w1 = w1
  w2 = w2
  NoWorker = NoWorker
  Workers = {w1, w2}
  MaxAttempts = 2
  MaxJobs = 2
  MaxFaults = 1
SYMMETRY Alike
INVARIANTS MediaTypeOK OneHolder AttemptsBounded
PROPERTIES DeletedIsFinal BoundIsKept LossHasCause
CHECK_DEADLOCK FALSE
