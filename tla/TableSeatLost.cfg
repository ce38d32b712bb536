SPECIFICATION Spec
CONSTANTS
  gm = gm  alice = alice  bob = bob
  a1 = a1  a2 = a2  b1 = b1  g1 = g1
  p1 = p1  p2 = p2  bad = bad
  Users <- MCUsers
  Admin = gm
  Conns <- RivalConns
  UserOf <- RivalUserOf
  MayDrop <- RivalConns
  MaxPlayers = 1
  Patches = {}
  Malformed = {}
  Closers = {}
  NoConn = NoConn  NoMsg = NoMsg
CHECK_DEADLOCK FALSE
PROPERTY RefusedWhenFull
