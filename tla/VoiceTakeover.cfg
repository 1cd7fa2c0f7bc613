\* One session over three sockets at once, one failing call, no moderation.
SPECIFICATION Spec
CONSTANTS
  Rooms = {r1}
  Peers = {p1}
  Users = {u1}
  UserOf <- OneUser
  Sockets = {s1, s2, s3}
  NoSocket = NoSocket
  Ops = {}
  Kinds = {}
  NoOp = NoOp
  MaxJoins = 3
  MaxFaults = 1
  MaxRoomPeers = 1
  MaxVoicePeers = 1
  Overlap = TRUE
INVARIANTS TypeOK EverySeatCanEnd
PROPERTIES LatestJoinWins SeatEndedByItsOwn
SYMMETRY SocketSymmetry
\* Every client may have left and every bound be reached.
CHECK_DEADLOCK FALSE
