\* Two presences, Discord comes and goes.
SPECIFICATION SocketFairSpec
CONSTANTS
  p1 = p1 p2 = p2
  Null = Null
  Presences = {p1, p2}
  MaxBudget = 2
  MaxPending = 3
CHECK_DEADLOCK FALSE
INVARIANTS SocketTypeOK HandshakeFirst OfflineClosed
PROPERTIES RetriesEnd Heals
