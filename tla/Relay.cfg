\* A worker that crashes and comes back, and a relay that loses its connection again and again.
CONSTANTS
  Workers = {w1}
  Events = {e1}
  NoWorker = NoWorker
  NoEvent = NoEvent
  MaxFaults = 3
  MaxAttempts = 2
  BatchSize = 1
  LateDetection = TRUE
SPECIFICATION Spec
\* The worker may be told to stop.
CHECK_DEADLOCK FALSE
PROPERTIES StopEnds EventsSettle LateIsReplayed
