\* A call through up to four faults of every kind.
SPECIFICATION FairSpec
CONSTANTS
  MaxAttempts = 2
  MaxTries = 2
  Faults = {"socket", "livekit", "drop", "offline", "stall", "attempt", "answer", "rejoin", "reconcile", "refusal", "late", "due"}
  MaxFaults = 4
INVARIANTS RecoveryTypeOK HealthyIsSettled SingleFlight CallStands
PROPERTIES AbandonedIsOver AskIsAnswered RoomReturns
CHECK_DEADLOCK FALSE
