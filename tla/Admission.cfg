\* Two devices of an account, one of which may ask again.
CONSTANTS
  Devices = {d1, d2}
  Moderators = {m1}
  Ids = {c1, c2, c3}
  NoId = NoId
  MaxEpoch = 2
  MaxFaults = 1
SPECIFICATION Spec
SYMMETRY Alike
\* Nobody has to ask.
CHECK_DEADLOCK FALSE
INVARIANTS TypeOK BannedHoldsNothing MuteCutsMicrophone FewStrays
