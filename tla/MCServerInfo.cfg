\* handle_get_info.
SPECIFICATION ServerSpec
CONSTANTS
  root = root stray = stray s1 = s1 s2 = s2 c1 = c1 c2 = c2
  Null = Null
  DebugId = 0
  Ids = {0, c1, c2}
  Users = {c1}
  Roots = {root}
  Files = {stray}
  Mutable = {root}
  Deletable = {root}
  Slots = {s1, s2}
  Inside <- InsideRoot
  Home <- OwnHome
  NameOf <- RootName
  MaxHistory = 2
  MaxConns = 2
  ArgLines <- Auto
CHECK_DEADLOCK FALSE
PROPERTY GetInfoAnswers
