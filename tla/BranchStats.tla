----------------------------- MODULE BranchStats -----------------------------
(***************************************************************************)
(* The commit tallies of one Session: a look at the repository by its       *)
(* GitWalker (git_walker.cc), which git commands of other processes may     *)
(* overtake, and Session::update with the counters it keeps for every       *)
(* branch (session.cc).  A branch is the number of its commits.             *)
(***************************************************************************)
EXTENDS Integers

CONSTANTS
  Branches,    \* local branches
  Tracking,    \* the branches that may have an upstream
  Detached,    \* the empty head_name: no branch is checked out
  MaxCommits,  \* bound on the commits of a branch
  MaxCommands  \* bound on the git commands of a behaviour

ASSUME BranchesAssumption == Detached \notin Branches /\ Tracking \subseteq Branches
ASSUME CommitsAssumption == MaxCommits \in Nat \ {0} /\ MaxCommands \in Nat

VARIABLES
  repo,        \* the repository: external
  commands,    \* git commands so far
  look,        \* the GitWalker of the look that is under way
  session,     \* the members of the Session that statistics change
  first,       \* history: what each branch was when the session first counted it
  quiet,       \* history: nothing has changed since the last look began
  foreign      \* history: branches rewritten, or with an upstream that others moved

statsVars == <<repo, commands, look, session, first, quiet, foreign>>

Heads == Branches \cup {Detached}
Counts == 0..MaxCommits
Unknown == -1

-----------------------------------------------------------------------------
(* The repository and its user.                                             *)

Repo == [exists : BOOLEAN, head : Heads, commits : [Branches -> Counts],
         upstream : SUBSET Tracking, origin : [Branches -> Counts]]

\* What a revwalk from the head reference counts; there is none to detached HEAD.
Commits(h) == IF h = Detached THEN 0 ELSE repo.commits[h]

\* A git command that changes the repository, and may move branches.
Command(new, moves) ==
  /\ repo.exists /\ look.phase # "crashed" /\ commands < MaxCommands
  /\ repo' = new /\ commands' = commands + 1
  /\ quiet' = FALSE /\ foreign' = foreign \cup moves
  /\ UNCHANGED <<look, session, first>>

Commit ==
  /\ repo.head # Detached /\ repo.commits[repo.head] < MaxCommits
  /\ Command([repo EXCEPT !.commits[repo.head] = @ + 1], {})

\* Reset, rebase, merge or pull.
Rewrite(n) ==
  /\ repo.head # Detached /\ n # repo.commits[repo.head]
  /\ Command([repo EXCEPT !.commits[repo.head] = n], {repo.head})

\* Also to a new upstream, in the place of another one or not (-u), or by force.
Push(b) ==
  /\ b \notin repo.upstream \/ repo.origin[b] # repo.commits[b]
  /\ Command([repo EXCEPT !.upstream = @ \cup {b}, !.origin[b] = repo.commits[b]], {})

\* Others have pushed.
Fetch(b) ==
  /\ b \in repo.upstream /\ repo.origin[b] < MaxCommits
  /\ Command([repo EXCEPT !.origin[b] = @ + 1], {b})

Checkout(h) == h # repo.head /\ Command([repo EXCEPT !.head = h], {})

\* git branch -u: any branch of a remote, of n commits, in the place of another
\* one or not.
SetUpstream(b, n) ==
  /\ b \notin repo.upstream \/ repo.origin[b] # n
  /\ Command([repo EXCEPT !.upstream = @ \cup {b}, !.origin[b] = n], {b})

UnsetUpstream(b) ==
  /\ b \in repo.upstream
  /\ Command([repo EXCEPT !.upstream = @ \ {b}], {})

Vanish == Command([repo EXCEPT !.exists = FALSE], Branches)

\* The directory is back, or there is a new repository in its place.
Return ==
  /\ ~repo.exists /\ look.phase # "crashed"
  /\ \/ repo' = [repo EXCEPT !.exists = TRUE] /\ UNCHANGED foreign
     \/ \E h \in Branches :
          /\ repo' = [exists |-> TRUE, head |-> h, commits |-> [b \in Branches |-> 1],
                      upstream |-> {}, origin |-> [b \in Branches |-> 0]]
          /\ foreign' = Branches
  /\ quiet' = FALSE
  /\ UNCHANGED <<commands, look, session, first>>

-----------------------------------------------------------------------------
(* The session.                                                             *)

BranchProp ==
  [local_commits_calculated : BOOLEAN, local_comits_on_start : Int,
   ahead_of_local : Int, remote_commits_calculated : BOOLEAN,
   remote_commits_on_start : Int, ahead_of_remote : Int, pushed_to_remote : Int]

\* The default members; also a name that is not in branches.
NewProp ==
  [local_commits_calculated |-> FALSE, local_comits_on_start |-> 0,
   ahead_of_local |-> 0, remote_commits_calculated |-> FALSE,
   remote_commits_on_start |-> 0, ahead_of_remote |-> 0, pushed_to_remote |-> 0]

Stats == [valid : BOOLEAN, branch : Heads, has_origin : BOOLEAN,
          branches : [Heads -> BranchProp]]

NewStats == [valid |-> FALSE, branch |-> Detached, has_origin |-> FALSE,
             branches |-> [h \in Heads |-> NewProp]]

\* update_stats, relative to the first look at the branch.
Local(p, w) ==
  LET start == IF p.local_commits_calculated THEN p.local_comits_on_start
                                             ELSE w.head_commits
  IN  [p EXCEPT !.local_commits_calculated = TRUE, !.local_comits_on_start = start,
                !.ahead_of_local = w.head_commits - start]

\* Mutant: what was pushed is not ahead any more.
RemoteOnly(p, w) ==
  IF ~w.has_origin
  THEN [p EXCEPT !.remote_commits_calculated = FALSE, !.remote_commits_on_start = 0,
                 !.ahead_of_remote = 0, !.pushed_to_remote = 0]
  ELSE LET start == IF p.remote_commits_calculated THEN p.remote_commits_on_start
                                                   ELSE w.origin_commits
       IN  [p EXCEPT !.remote_commits_calculated = TRUE,
                     !.remote_commits_on_start = start,
                     !.pushed_to_remote = w.origin_commits - start,
                     !.ahead_of_remote = w.head_commits - w.origin_commits]

\* update_stats, relative to the upstream; at the first look nothing is pushed.
Remote(p, w) ==
  IF ~w.has_origin
  THEN [p EXCEPT !.remote_commits_calculated = FALSE, !.remote_commits_on_start = 0,
                 !.ahead_of_remote = 0, !.pushed_to_remote = 0]
  ELSE LET start == IF p.remote_commits_calculated THEN p.remote_commits_on_start
                                                   ELSE w.origin_commits
           pushed == w.origin_commits - start
       IN  [p EXCEPT !.remote_commits_calculated = TRUE,
                     !.remote_commits_on_start = start,
                     !.pushed_to_remote = pushed,
                     !.ahead_of_remote = w.head_commits - w.origin_commits + pushed]

UpdateStats(s, w) ==
  [valid |-> TRUE, branch |-> w.head, has_origin |-> w.has_origin,
   branches |-> [s.branches EXCEPT ![w.head] = Remote(Local(@, w), w)]]

\* Mutant: the branches are remembered.
ZeroKeepsBranches(s) == [s EXCEPT !.valid = FALSE, !.has_origin = FALSE]

\* Mutant: clear() leaves a map in which no branch is found any more.
ZeroEmpties(s) == [NewStats EXCEPT !.branch = s.branch, !.branches = <<>>]

\* zero_stats keeps the name of the branch.
ZeroStats(s) == [NewStats EXCEPT !.branch = s.branch]

-----------------------------------------------------------------------------
(* A look: Session::update, or the constructor with the walker it gets.     *)

Walker == [phase : {"idle", "open", "head", "origin", "crashed"}, head : Heads,
           has_origin : BOOLEAN, head_commits : Counts, origin_commits : Counts]

NoWalker == [phase |-> "idle", head |-> Detached, has_origin |-> FALSE,
             head_commits |-> 0, origin_commits |-> 0]

Forgotten == [local |-> [h \in Heads |-> Unknown], remote |-> [h \in Heads |-> Unknown]]

\* GitWalker::setup: the search finds the repository.
LookBegin ==
  /\ look.phase = "idle" /\ repo.exists
  /\ look' = [look EXCEPT !.phase = "open"] /\ quiet' = TRUE
  /\ UNCHANGED <<repo, commands, session, first, foreign>>

\* It finds nothing: the repository is gone, or the path that it starts from.
LookLost ==
  /\ look.phase = "idle"
  /\ session' = ZeroStats(session) /\ quiet' = TRUE
  /\ first' = Forgotten /\ foreign' = {}
  /\ UNCHANGED <<repo, commands, look>>

\* find_head_and_origin: the branch iterator of a repository that could not be
\* opened is a null dereference.
LookOpen ==
  /\ look.phase = "open"
  /\ look' = IF ~repo.exists THEN [look EXCEPT !.phase = "crashed"]
             ELSE [look EXCEPT !.phase = "head", !.head = repo.head,
                               !.has_origin = repo.head \in repo.upstream]
  /\ UNCHANGED <<repo, commands, session, first, quiet, foreign>>

\* count_commits of the head.  A walk over a repository that is removed stops early.
CountHead ==
  /\ look.phase = "head"
  /\ \E n \in IF repo.exists THEN {Commits(look.head)} ELSE 0..Commits(look.head) :
       /\ look' = [look EXCEPT !.phase = "origin", !.head_commits = n]
       /\ first' = [first EXCEPT !.local[look.head] = IF @ = Unknown THEN n ELSE @]
  /\ UNCHANGED <<repo, commands, session, quiet, foreign>>

\* count_commits of the upstream, and update_stats.
LookEnd ==
  /\ look.phase = "origin"
  /\ \E n \in IF ~look.has_origin THEN {0}
              ELSE IF repo.exists THEN {repo.origin[look.head]}
              ELSE 0..repo.origin[look.head] :
       /\ session' = UpdateStats(session, [look EXCEPT !.origin_commits = n])
       /\ first' = [first EXCEPT !.remote[look.head] =
                      IF ~look.has_origin THEN Unknown
                      ELSE IF @ = Unknown THEN n ELSE @]
  /\ foreign' = IF first.remote[look.head] = Unknown /\ quiet
                THEN foreign \ {look.head} ELSE foreign
  /\ look' = NoWalker
  /\ UNCHANGED <<repo, commands, quiet>>

-----------------------------------------------------------------------------

StatsInit ==
  /\ \E h \in Branches, up \in SUBSET Tracking :
       repo = [exists |-> TRUE, head |-> h, commits |-> [b \in Branches |-> 1],
               upstream |-> up, origin |-> [b \in Branches |-> IF b \in up THEN 1 ELSE 0]]
  /\ commands = 0 /\ look = NoWalker /\ session = NewStats
  /\ first = Forgotten /\ quiet = FALSE /\ foreign = {}

UserNext ==
  \/ Commit
  \/ \E n \in 1..MaxCommits : Rewrite(n)
  \/ \E b \in Tracking : Push(b)
  \/ \E b \in Tracking : Fetch(b)
  \/ \E h \in Heads : Checkout(h)
  \/ \E b \in Tracking, n \in Counts : SetUpstream(b, n)
  \/ \E b \in Tracking : UnsetUpstream(b)
  \/ Vanish
  \/ Return

StatsNext == UserNext \/ LookBegin \/ LookLost \/ LookOpen \/ CountHead \/ LookEnd

StatsSpec == StatsInit /\ [][StatsNext]_statsVars

-----------------------------------------------------------------------------
(* build_state_string: what Discord is told about the branch.               *)

Say(kind, n, m) == [kind |-> kind, n |-> n, of |-> m]

StateString(s) ==
  LET p == s.branches[s.branch]
  IN  IF s.has_origin /\ p.pushed_to_remote > 0
      THEN Say("Pushed", p.pushed_to_remote, p.ahead_of_remote)
      ELSE IF s.has_origin /\ p.ahead_of_remote > 0 THEN Say("Ahead", p.ahead_of_remote, 0)
      ELSE IF s.has_origin /\ p.ahead_of_remote < 0 THEN Say("Behind", -p.ahead_of_remote, 0)
      ELSE IF p.ahead_of_local > 0 THEN Say("Ahead", p.ahead_of_local, 0)
      ELSE IF p.ahead_of_local < 0 THEN Say("Behind", p.ahead_of_local, 0)
      ELSE Say("nothing", 0, 0)

-----------------------------------------------------------------------------

\* Every member holds a value of its C++ type.
StatsTypeOK ==
  /\ repo \in Repo /\ commands \in 0..MaxCommands /\ look \in Walker
  /\ session \in Stats
  /\ first \in [local : [Heads -> Int], remote : [Heads -> Int]]
  /\ quiet \in BOOLEAN /\ foreign \subseteq Branches

\* When nothing has moved since a look began, the tallies of the branch it found
\* are what the branch and its upstream gained since the session first counted
\* them: switching branches, losing and setting the upstream, a repository or a
\* file that was gone, and commands that overtook earlier looks leave no trace.  (An
\* upstream that replaces another is counted from the start of that one.)
TallyExact ==
  look.phase = "idle" /\ quiet /\ session.valid =>
    LET p == session.branches[session.branch]
        b == session.branch
    IN  /\ b = repo.head /\ (session.has_origin <=> b \in repo.upstream)
        /\ p.ahead_of_local = Commits(b) - first.local[b]
        /\ session.has_origin =>
             /\ p.pushed_to_remote = repo.origin[b] - first.remote[b]
             /\ p.ahead_of_remote = Commits(b) - first.remote[b]

\* "Pushed 3 of 6": no more is pushed than there was to push, since the upstream
\* was first counted, unless the branch is rewritten, others push to the upstream,
\* or it is set to a branch that the user has not just pushed.
PushedOfAhead ==
  look.phase = "idle" /\ quiet /\ session.valid /\ session.branch \notin foreign =>
    LET said == StateString(session)
    IN  said.kind = "Pushed" => said.n =< said.of

=============================================================================
