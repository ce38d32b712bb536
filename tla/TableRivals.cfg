SPECIFICATION Spec
CONSTANTS
  gm = gm  alice = alice  bob = bob
  a1 = a1  a2 = a2  b1 = b1  g1 = g1
  p1 = p1  p2 = p2  bad = bad
  Users <- MCUsers
  Admin = gm
  Conns <- RivalConns
  UserOf <- RivalUserOf
  MayDrop <- RivalConns
  MaxPlayers = 1
  Patches = {p1, bad}
  Malformed = {bad}
  Closers = {1, 2}
  NoConn = NoConn  NoMsg = NoMsg
SYMMETRY RivalSymmetry
CHECK_DEADLOCK FALSE
INVARIANTS TypeOK SeatsCounted SeatLimit SeatedConnOpen NilNeverStored SingleCloser
PROPERTIES KeepsContract SeatsStayLost
