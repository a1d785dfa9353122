\* A session whose repository is found elsewhere after an update.
SPECIFICATION GitSpec
CONSTANTS
  outer = outer inner = inner deep = deep
  s1 = s1 s2 = s2 s3 = s3 c1 = c1 c2 = c2 c3 = c3
  Null = Null
  DebugId = 0
  Ids = {0, c1, c2}
  Roots = {outer, inner}
  Files = {deep}
  Mutable = {inner}
  Deletable = {}
  Slots = {s1, s2, s3}
  Inside <- Nested
  Home <- OwnHome
  NameOf <- TwoNames
  MaxHistory = 3
SYMMETRY Symmetry
PROPERTY ErasedWithoutParents
