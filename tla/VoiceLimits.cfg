\* Two sessions that move between two rooms, limited to one seat.
SPECIFICATION Spec
CONSTANTS
  Rooms = {r1, r2}
  Peers = {p1, p2}
  Users = {u1}
  UserOf <- OneUser
  Sockets = {s1, s2}
  NoSocket = NoSocket
  Ops = {}
  Kinds = {}
  NoOp = NoOp
  MaxJoins = 2
  MaxFaults = 1
  MaxRoomPeers = 1
  MaxVoicePeers = 1
  Overlap = TRUE
INVARIANTS CapacityKept
PROPERTIES KeepsLedger
SYMMETRY SocketSymmetry
\* Every client may have left and every bound be reached.
CHECK_DEADLOCK FALSE
