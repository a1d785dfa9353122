\* The real table of languages; two files of a repository that looks like one.
SPECIFICATION PresenceSpec
CONSTANTS
  root = root header = header script = script
  Branches = {main}
  Tracking = {main}
  Detached = Detached
  MaxCommits = 2
  MaxCommands = 3
  Table <- CompiledTable
  Extensions <- Shared
  Root = root
  Files = {header, script}
  Deletable = {script}
  Extension <- ExtensionOf
INVARIANTS PresenceTypeOK TallyExact PushedOfAhead
INVARIANTS FirstDrawableWins ColoursNotEmpty LanguageFollows
\* A look at a repository that has just been removed may crash the process.
CHECK_DEADLOCK FALSE
