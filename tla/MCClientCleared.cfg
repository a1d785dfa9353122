\* A presence that is cleared while an answer is outstanding.
SPECIFICATION SocketSpec
CONSTANTS
  p1 = p1 p2 = p2
  Null = Null
  Presences = {p1}
  MaxBudget = 2
  MaxPending = 3
CHECK_DEADLOCK FALSE
INVARIANT ClearedStaysCleared
