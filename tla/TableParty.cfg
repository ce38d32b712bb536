SPECIFICATION FairSpec
CONSTANTS
  gm = gm  alice = alice  bob = bob
  a1 = a1  a2 = a2  b1 = b1  g1 = g1
  p1 = p1  p2 = p2  bad = bad
  Users <- PartyUsers
  Admin = gm
  Conns <- PartyConns
  UserOf <- PartyUserOf
  MayDrop = {a1}
  MaxPlayers = 1
  Patches = {p1, p2}
  Malformed = {}
  Closers = {1}
  NoConn = NoConn  NoMsg = NoMsg
CHECK_DEADLOCK FALSE
INVARIANTS SeatsCounted
PROPERTIES HandlerReturns PatchMerged ExpiryFinishes
