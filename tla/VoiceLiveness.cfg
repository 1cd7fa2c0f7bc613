\* What must happen in the end; no symmetry, no failing calls.
SPECIFICATION FairSpec
CONSTANTS
  Rooms = {r1}
  Peers = {p1}
  Users = {u1}
  UserOf <- OneUser
  Sockets = {s1, s2}
  NoSocket = NoSocket
  Ops = {o1}
  Kinds = {"kick", "ban", "putban", "delete", "member"}
  NoOp = NoOp
  MaxJoins = 2
  MaxFaults = 0
  MaxRoomPeers = 1
  MaxVoicePeers = 1
  Overlap = FALSE
PROPERTIES CommandsComplete StrandedSeatsEnd
\* Every client may have left and every bound be reached.
CHECK_DEADLOCK FALSE
