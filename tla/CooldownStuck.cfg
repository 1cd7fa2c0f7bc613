\* The LiveKit room drops, the network goes away and comes back.
SPECIFICATION FairSpec
CONSTANTS
  MaxAttempts = 2
  MaxTries = 2
  Faults = {"drop", "offline"}
  MaxFaults = 2
PROPERTY CooldownRecovers
CHECK_DEADLOCK FALSE
