\* An editor, id 0 and a user who writes hooks; the process crashes and restarts.
SPECIFICATION HookSpec
CONSTANTS
  outer = outer inner = inner s1 = s1 s2 = s2 c1 = c1 c2 = c2
  Null = Null Absent = Absent NoHooks = NoHooks
  DebugId = 0
  Ids = {0, c1}
  Roots = {outer, inner}
  Files = {}
  Mutable = {outer, inner}
  Deletable = {}
  Slots = {s1, s2}
  Inside <- Nested
  Home <- OwnHome
  NameOf <- TwoNames
  MaxHistory = 2
  UserLines = {"make test"}
  MaxLines = 1
  Fresh <- FreshHooks
SYMMETRY Symmetry
INVARIANTS HookTypeOK UserLinesKept OneSection NoStraySection
