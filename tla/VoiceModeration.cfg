\* One session over one socket after the other, and a request of each kind.
SPECIFICATION Spec
CONSTANTS
  Rooms = {r1}
  Peers = {p1}
  Users = {u1}
  UserOf <- OneUser
  Sockets = {s1, s2, s3}
  NoSocket = NoSocket
  Ops = {o1}
  Kinds = {"kick", "ban", "putban", "delete", "member"}
  NoOp = NoOp
  MaxJoins = 3
  MaxFaults = 0
  MaxRoomPeers = 1
  MaxVoicePeers = 1
  Overlap = FALSE
INVARIANTS ClaimHasOwner FinalizingRuns EvictionIsEffective BanFindsTheSeated
PROPERTIES EndedSessionStaysOut
SYMMETRY SocketSymmetry
\* Every client may have left and every bound be reached.
CHECK_DEADLOCK FALSE
