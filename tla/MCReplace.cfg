\* A server, two processes that replace it or each other, and a foreign program.
SPECIFICATION ReplaceFairSpec
CONSTANTS
  Procs = {p1, p2, p3}
  Other = Other
  None = None
INVARIANTS ReplaceTypeOK PortServed
PROPERTIES KeepsPort Settles
\* When every process has ended nothing happens any more.
CHECK_DEADLOCK FALSE
