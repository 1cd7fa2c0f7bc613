\* Two workers, two events in a batch, two faults: leases that change hands.
CONSTANTS
  Workers = {w1, w2}
  Events = {e1, e2}
  NoWorker = NoWorker
  NoEvent = NoEvent
  MaxFaults = 2
  MaxAttempts = 2
  BatchSize = 2
SPECIFICATION DeliverySpec
SYMMETRY Alike
\* The workers may be told to stop.
CHECK_DEADLOCK FALSE
INVARIANTS DeliveryTypeOK FencesDiffer DeliveredWasAnnounced
PROPERTIES SettledForGood
