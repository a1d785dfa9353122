\* Two editors, repositories that stay, no user in the way.
SPECIFICATION HookSpec
CONSTANTS
  outer = outer inner = inner s1 = s1 s2 = s2 c1 = c1 c2 = c2
  Null = Null Absent = Absent NoHooks = NoHooks
  DebugId = 0
  Ids = {0, c1, c2}
  Roots = {outer, inner}
  Files = {}
  Mutable = {}
  Deletable = {}
  Slots = {s1, s2}
  Inside <- Nested
  Home <- OwnHome
  NameOf <- TwoNames
  MaxHistory = 2
  UserLines = {"make test"}
  MaxLines = 0
  Fresh <- FreshHooks
SYMMETRY Symmetry
INVARIANT MonitoredIsHooked
