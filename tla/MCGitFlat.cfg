\* Two repositories side by side, one of which comes and goes,
\* and so does a file in it; two editors and id 0.
SPECIFICATION GitSpec
CONSTANTS
  outer = outer inner = inner deep = deep
  s1 = s1 s2 = s2 s3 = s3 c1 = c1 c2 = c2 c3 = c3
  Null = Null
  DebugId = 0
  Ids = {0, c1, c2}
  Roots = {outer, inner}
  Files = {deep}
  Mutable = {inner}
  Deletable = {deep}
  Slots = {s1, s2, s3}
  Inside <- SideBySide
  Home <- OwnHome
  NameOf <- TwoNames
  MaxHistory = 3
SYMMETRY Symmetry
INVARIANTS GitTypeOK SessionWhenNotWaiting ParentsMatch HistoryAlternates CacheMatchesHolders
INVARIANT ClientsRemembered
PROPERTIES SessionsOutliveOthers ImplementsRegistry
