--------------------------- MODULE PresenceProofs ---------------------------
(***************************************************************************)
(* The tallies of BranchStats are exact for any branches and any number of  *)
(* commits, by themselves and within Presence.                              *)
(***************************************************************************)
EXTENDS Presence, TLAPS

\* The start of each tally is what the branch was when it was first counted; a
\* count that the session has not taken over yet is the walker's.
Started ==
  \A h \in Heads :
    LET p == session.branches[h]
    IN  /\ p.local_commits_calculated =>
             first.local[h] = p.local_comits_on_start /\ first.local[h] \in Nat
        /\ ~p.local_commits_calculated =>
             first.local[h] = IF look.phase = "origin" /\ look.head = h
                              THEN look.head_commits ELSE Unknown
        /\ p.remote_commits_calculated =>
             first.remote[h] = p.remote_commits_on_start /\ first.remote[h] \in Nat
        /\ ~p.remote_commits_calculated => first.remote[h] = Unknown

\* An upstream that is shown was counted.
Known ==
  /\ Started
  /\ session.has_origin => session.branches[session.branch].remote_commits_calculated

\* Until something moves, the walker has what is in the repository.
Walking ==
  quiet =>
    /\ look.phase \in {"open", "head", "origin"} => repo.exists
    /\ look.phase \in {"head", "origin"} =>
         look.head = repo.head /\ (look.has_origin <=> look.head \in repo.upstream)
    /\ look.phase = "origin" => look.head_commits = Commits(look.head)

\* Only a branch has an upstream to count.
Upstream == look.has_origin => look.head \in Branches

\* A tally needs more than its value: where it started, and what the walker has.
StatsInv == StatsTypeOK /\ Known /\ Walking /\ Upstream /\ TallyExact

-----------------------------------------------------------------------------
(* The two halves of update_stats.                                          *)

LEMMA LocalTally ==
  ASSUME NEW p \in BranchProp, NEW w \in Walker
  PROVE  /\ Local(p, w) \in BranchProp
         /\ Local(p, w).local_commits_calculated
         /\ Local(p, w).local_comits_on_start =
              IF p.local_commits_calculated THEN p.local_comits_on_start ELSE w.head_commits
         /\ Local(p, w).ahead_of_local =
              w.head_commits - Local(p, w).local_comits_on_start
         /\ Local(p, w).remote_commits_calculated = p.remote_commits_calculated
         /\ Local(p, w).remote_commits_on_start = p.remote_commits_on_start
<1> DEFINE start == IF p.local_commits_calculated THEN p.local_comits_on_start
                                                  ELSE w.head_commits
<1>1. w.head_commits \in Int
  BY CommitsAssumption DEF Walker, Counts
<1>2. start \in Int
  BY <1>1 DEF BranchProp
<1>3. w.head_commits - start \in Int
  BY <1>1, <1>2
<1>4. Local(p, w) = [p EXCEPT !.local_commits_calculated = TRUE,
                              !.local_comits_on_start = start,
                              !.ahead_of_local = w.head_commits - start]
  BY DEF Local
<1> HIDE DEF start
<1>5. /\ Local(p, w) \in BranchProp
      /\ Local(p, w).local_commits_calculated
      /\ Local(p, w).local_comits_on_start = start
      /\ Local(p, w).ahead_of_local = w.head_commits - start
      /\ Local(p, w).remote_commits_calculated = p.remote_commits_calculated
      /\ Local(p, w).remote_commits_on_start = p.remote_commits_on_start
  BY <1>2, <1>3, <1>4 DEF BranchProp
<1> QED
  BY <1>5 DEF start

LEMMA RemoteTally ==
  ASSUME NEW p \in BranchProp, NEW w \in Walker
  PROVE  /\ Remote(p, w) \in BranchProp
         /\ Remote(p, w).local_commits_calculated = p.local_commits_calculated
         /\ Remote(p, w).local_comits_on_start = p.local_comits_on_start
         /\ Remote(p, w).ahead_of_local = p.ahead_of_local
         /\ Remote(p, w).remote_commits_calculated = w.has_origin
         /\ w.has_origin =>
              /\ Remote(p, w).remote_commits_on_start =
                   IF p.remote_commits_calculated THEN p.remote_commits_on_start
                                                  ELSE w.origin_commits
              /\ Remote(p, w).pushed_to_remote =
                   w.origin_commits - Remote(p, w).remote_commits_on_start
              /\ Remote(p, w).ahead_of_remote =
                   w.head_commits - Remote(p, w).remote_commits_on_start
<1>1. w.head_commits \in Int /\ w.origin_commits \in Int
  BY CommitsAssumption DEF Walker, Counts
<1>2. CASE ~w.has_origin
  <2> DEFINE no == FALSE
             zero == 0
  <2>1. no \in BOOLEAN /\ zero \in Int
    OBVIOUS
  <2>2. Remote(p, w) =
          [p EXCEPT !.remote_commits_calculated = no, !.remote_commits_on_start = zero,
                    !.ahead_of_remote = zero, !.pushed_to_remote = zero]
    BY <1>2 DEF Remote
  <2>3. no = w.has_origin
    BY <1>2 DEF Walker
  <2> HIDE DEF no, zero
  <2>4. /\ Remote(p, w) \in BranchProp
        /\ Remote(p, w).local_commits_calculated = p.local_commits_calculated
        /\ Remote(p, w).local_comits_on_start = p.local_comits_on_start
        /\ Remote(p, w).ahead_of_local = p.ahead_of_local
        /\ Remote(p, w).remote_commits_calculated = no
    BY <2>1, <2>2 DEF BranchProp
  <2> QED
    BY <1>2, <2>3, <2>4
<1>3. CASE w.has_origin
  <2> DEFINE start == IF p.remote_commits_calculated THEN p.remote_commits_on_start
                                                     ELSE w.origin_commits
             pushed == w.origin_commits - start
             ahead == w.head_commits - w.origin_commits + pushed
  <2>1. start \in Int
    BY <1>1 DEF BranchProp
  <2>2. pushed \in Int /\ ahead \in Int /\ ahead = w.head_commits - start
    BY <1>1, <2>1
  <2>3. Remote(p, w) =
          [p EXCEPT !.remote_commits_calculated = TRUE, !.remote_commits_on_start = start,
                    !.pushed_to_remote = pushed, !.ahead_of_remote = ahead]
    BY <1>3 DEF Remote
  <2> HIDE DEF ahead
  <2>4. pushed = w.origin_commits - start
    OBVIOUS
  <2> HIDE DEF pushed
  <2>5. start = IF p.remote_commits_calculated THEN p.remote_commits_on_start
                                               ELSE w.origin_commits
    OBVIOUS
  <2> HIDE DEF start
  <2>6. /\ Remote(p, w) \in BranchProp
        /\ Remote(p, w).local_commits_calculated = p.local_commits_calculated
        /\ Remote(p, w).local_comits_on_start = p.local_comits_on_start
        /\ Remote(p, w).ahead_of_local = p.ahead_of_local
        /\ Remote(p, w).remote_commits_calculated = TRUE
        /\ Remote(p, w).remote_commits_on_start = start
        /\ Remote(p, w).pushed_to_remote = pushed
        /\ Remote(p, w).ahead_of_remote = ahead
    BY <2>1, <2>2, <2>3 DEF BranchProp
  <2>7. w.has_origin = TRUE
    BY <1>3 DEF Walker
  <2> QED
    BY <2>2, <2>4, <2>5, <2>6, <2>7
<1> QED
  BY <1>2, <1>3

-----------------------------------------------------------------------------
(* The steps of BranchStats.                                                *)

LEMMA Constants == /\ 0 \in Counts /\ 1 \in Counts /\ Counts \subseteq Nat
                   /\ Unknown \in Int /\ Unknown \notin Nat /\ Branches \subseteq Heads
BY CommitsAssumption DEF Counts, Unknown, Heads

LEMMA NewSession ==
  /\ NewProp \in BranchProp /\ ~NewProp.local_commits_calculated
  /\ ~NewProp.remote_commits_calculated
  /\ NewStats \in Stats /\ ~NewStats.valid /\ ~NewStats.has_origin
  /\ \A h \in Heads : NewStats.branches[h] = NewProp
<1> DEFINE no == FALSE
           zero == 0
<1>1. no \in BOOLEAN /\ zero \in Int /\ ~no
  OBVIOUS
<1>2. NewProp =
        [local_commits_calculated |-> no, local_comits_on_start |-> zero,
         ahead_of_local |-> zero, remote_commits_calculated |-> no,
         remote_commits_on_start |-> zero, ahead_of_remote |-> zero,
         pushed_to_remote |-> zero]
  BY DEF NewProp
<1> HIDE DEF no, zero
<1>3. /\ NewProp \in BranchProp /\ ~NewProp.local_commits_calculated
      /\ ~NewProp.remote_commits_calculated
  BY <1>1, <1>2 DEF BranchProp
<1> DEFINE props == [h \in Heads |-> NewProp]
<1>4. NewStats = [valid |-> no, branch |-> Detached, has_origin |-> no, branches |-> props]
  BY DEF NewStats, no
<1>5. /\ props \in [Heads -> BranchProp]
      /\ \A h \in Heads : props[h] = NewProp
  BY <1>3
<1>6. Detached \in Heads
  BY DEF Heads
<1> HIDE DEF props
<1>7. /\ NewStats \in Stats /\ ~NewStats.valid /\ ~NewStats.has_origin
      /\ NewStats.branches = props
  BY <1>1, <1>4, <1>5, <1>6 DEF Stats
<1> QED
  BY <1>3, <1>5, <1>7

LEMMA ForgottenKnows ==
  /\ Forgotten \in [local : [Heads -> Int], remote : [Heads -> Int]]
  /\ \A h \in Heads : Forgotten.local[h] = Unknown /\ Forgotten.remote[h] = Unknown
BY Constants DEF Forgotten

LEMMA StatsStart == StatsInit => StatsInv
<1> SUFFICES ASSUME StatsInit PROVE StatsInv
  OBVIOUS
<1>1. NoWalker \in Walker /\ NoWalker.phase = "idle"
  BY Constants DEF NoWalker, Walker, Heads
<1>2. repo \in Repo
  <2>1. PICK h \in Branches, up \in SUBSET Tracking :
          repo = [exists |-> TRUE, head |-> h, commits |-> [b \in Branches |-> 1],
                  upstream |-> up, origin |-> [b \in Branches |-> IF b \in up THEN 1 ELSE 0]]
    BY DEF StatsInit
  <2>2. /\ [b \in Branches |-> 1] \in [Branches -> Counts]
        /\ [b \in Branches |-> IF b \in up THEN 1 ELSE 0] \in [Branches -> Counts]
    BY Constants
  <2> QED
    BY <2>1, <2>2, Constants DEF Repo
<1>3. /\ commands = 0 /\ look = NoWalker /\ session = NewStats
      /\ first = Forgotten /\ quiet = FALSE /\ foreign = {}
  BY DEF StatsInit
<1>4. StatsTypeOK
  <2>1. commands \in 0..MaxCommands
    <3>1. commands = 0
      BY <1>3
    <3> QED
      BY <3>1, CommitsAssumption
  <2>0. quiet \in BOOLEAN /\ foreign \subseteq Branches
    BY <1>3, Zenon
  <2>2. look \in Walker /\ session \in Stats
    BY <1>1, <1>3, NewSession
  <2>3. first \in [local : [Heads -> Int], remote : [Heads -> Int]]
    BY <1>3, ForgottenKnows
  <2> QED
    BY <1>2, <2>0, <2>1, <2>2, <2>3 DEF StatsTypeOK
<1>5. Known
  BY <1>1, <1>3, NewSession, ForgottenKnows DEF Known, Started
<1>6. Upstream
  BY <1>3 DEF Upstream, NoWalker
<1> QED
  BY <1>3, <1>4, <1>5, <1>6 DEF StatsInv, Walking, TallyExact

\* What the user does leaves the session and the walker alone.
LEMMA UserKeeps ==
  ASSUME StatsInv, repo' \in Repo, commands' \in 0..MaxCommands, foreign' \subseteq Branches,
         quiet' = FALSE, UNCHANGED <<look, session, first>>
  PROVE  StatsInv'
<1>1. StatsTypeOK'
  BY DEF StatsInv, StatsTypeOK
<1>2. Known'
  BY DEF StatsInv, Known, Started
<1> QED
  BY <1>1, <1>2 DEF StatsInv, Walking, Upstream, TallyExact

LEMMA CommandKeeps ==
  ASSUME StatsInv, NEW new \in Repo, NEW moves \in SUBSET Branches, Command(new, moves)
  PROVE  StatsInv'
<1>1. commands \in 0..MaxCommands /\ commands < MaxCommands /\ commands' = commands + 1
  BY DEF StatsInv, StatsTypeOK, Command
<1>2. commands' \in 0..MaxCommands
  BY <1>1, CommitsAssumption
<1>3. foreign \subseteq Branches
  BY DEF StatsInv, StatsTypeOK
<1> QED
  BY <1>2, <1>3, UserKeeps DEF Command

LEMMA UserNextKeeps ==
  ASSUME StatsInv, UserNext
  PROVE  StatsInv'
<1>0. repo \in Repo /\ foreign \subseteq Branches /\ commands \in 0..MaxCommands
  BY DEF StatsInv, StatsTypeOK
<1>1. /\ repo.exists \in BOOLEAN /\ repo.head \in Heads
      /\ repo.commits \in [Branches -> Counts] /\ repo.upstream \in SUBSET Tracking
      /\ repo.origin \in [Branches -> Counts]
  BY <1>0 DEF Repo
<1>2. repo.head # Detached => repo.head \in Branches
  BY <1>1 DEF Heads
<1>3. Tracking \subseteq Branches
  BY BranchesAssumption
<1>4. ASSUME NEW f \in [Branches -> Counts]
      PROVE  [repo EXCEPT !.commits = f] \in Repo /\ [repo EXCEPT !.origin = f] \in Repo
  BY <1>0 DEF Repo
<1>5. CASE Commit
  <2> DEFINE n == repo.commits[repo.head] + 1
  <2>1. n \in Counts /\ repo.head \in Branches
    BY <1>1, <1>2, <1>5, CommitsAssumption DEF Commit, Counts
  <2>2. [repo EXCEPT !.commits[repo.head] = @ + 1]
          = [repo EXCEPT !.commits = [repo.commits EXCEPT ![repo.head] = n]]
    BY <1>0 DEF Repo
  <2> HIDE DEF n
  <2>3. [repo EXCEPT !.commits = [repo.commits EXCEPT ![repo.head] = n]] \in Repo
    BY <1>1, <1>4, <2>1
  <2> QED
    BY <1>5, <2>2, <2>3, CommandKeeps DEF Commit
<1>6. ASSUME NEW n \in 1..MaxCommits, Rewrite(n)
      PROVE  StatsInv'
  <2>1. n \in Counts /\ repo.head \in Branches
    BY <1>2, <1>6, CommitsAssumption DEF Rewrite, Counts
  <2>2. [repo EXCEPT !.commits[repo.head] = n]
          = [repo EXCEPT !.commits = [repo.commits EXCEPT ![repo.head] = n]]
    BY <1>0 DEF Repo
  <2>3. [repo EXCEPT !.commits = [repo.commits EXCEPT ![repo.head] = n]] \in Repo
    BY <1>1, <1>4, <2>1
  <2> QED
    BY <1>6, <2>1, <2>2, <2>3, CommandKeeps DEF Rewrite
<1>7. ASSUME NEW b \in Tracking, NEW n \in Counts
      PROVE  [repo EXCEPT !.upstream = @ \cup {b}, !.origin[b] = n] \in Repo
  <2> DEFINE up == repo.upstream \cup {b}
             f == [repo.origin EXCEPT ![b] = n]
  <2>1. up \in SUBSET Tracking /\ f \in [Branches -> Counts]
    BY <1>1, <1>3
  <2>2. [repo EXCEPT !.upstream = @ \cup {b}, !.origin[b] = n]
          = [repo EXCEPT !.upstream = up, !.origin = f]
    BY <1>0 DEF Repo
  <2> HIDE DEF up, f
  <2>3. [repo EXCEPT !.upstream = up, !.origin = f] \in Repo
    BY <1>0, <2>1 DEF Repo
  <2> QED
    BY <2>2, <2>3
<1>8. ASSUME NEW b \in Tracking, Fetch(b)
      PROVE  StatsInv'
  <2> DEFINE n == repo.origin[b] + 1
  <2>1. n \in Counts /\ b \in Branches
    BY <1>1, <1>3, <1>8, CommitsAssumption DEF Fetch, Counts
  <2>2. [repo EXCEPT !.origin[b] = @ + 1]
          = [repo EXCEPT !.origin = [repo.origin EXCEPT ![b] = n]]
    BY <1>0 DEF Repo
  <2> HIDE DEF n
  <2>3. [repo EXCEPT !.origin = [repo.origin EXCEPT ![b] = n]] \in Repo
    BY <1>1, <1>4, <2>1
  <2> QED
    BY <1>8, <2>1, <2>2, <2>3, CommandKeeps DEF Fetch
<1>9. ASSUME NEW h \in Heads, Checkout(h)
      PROVE  StatsInv'
  <2>1. [repo EXCEPT !.head = h] \in Repo
    BY <1>0 DEF Repo
  <2> QED
    BY <1>9, <2>1, CommandKeeps DEF Checkout
<1>10. ASSUME NEW b \in Tracking, Push(b) \/ \E n \in Counts : SetUpstream(b, n)
       PROVE  StatsInv'
  <2>1. PICK n \in Counts, moves \in SUBSET Branches :
          Command([repo EXCEPT !.upstream = @ \cup {b}, !.origin[b] = n], moves)
    <3>1. b \in Branches /\ repo.commits[b] \in Counts
      BY <1>1, <1>3
    <3> QED
      BY <1>10, <3>1 DEF Push, SetUpstream
  <2> QED
    BY <1>7, <2>1, CommandKeeps
<1>11. ASSUME NEW b \in Tracking, UnsetUpstream(b)
       PROVE  StatsInv'
  <2>1. [repo EXCEPT !.upstream = @ \ {b}] \in Repo
    BY <1>0 DEF Repo
  <2> QED
    BY <1>11, <2>1, CommandKeeps DEF UnsetUpstream
<1>12. CASE Vanish
  <2>1. [repo EXCEPT !.exists = FALSE] \in Repo
    BY <1>0 DEF Repo
  <2> QED
    BY <1>12, <2>1, CommandKeeps DEF Vanish
<1>13. CASE Return
  <2>1. repo' \in Repo /\ foreign' \subseteq Branches
    <3>1. CASE repo' = [repo EXCEPT !.exists = TRUE] /\ UNCHANGED foreign
      BY <1>0, <3>1 DEF Repo
    <3>2. ASSUME NEW h \in Branches,
                 repo' = [exists |-> TRUE, head |-> h, commits |-> [b \in Branches |-> 1],
                          upstream |-> {}, origin |-> [b \in Branches |-> 0]]
          PROVE  repo' \in Repo
      <4>1. /\ [b \in Branches |-> 1] \in [Branches -> Counts]
            /\ [b \in Branches |-> 0] \in [Branches -> Counts]
        BY Constants
      <4> QED
        BY <3>2, <4>1, Constants DEF Repo
    <3> QED
      BY <1>13, <3>1, <3>2 DEF Return
  <2> QED
    BY <1>0, <1>13, <2>1, UserKeeps DEF Return
<1> QED
  BY <1>5, <1>6, <1>8, <1>9, <1>10, <1>11, <1>12, <1>13 DEF UserNext

LEMMA LookBeginKeeps ==
  ASSUME StatsInv, LookBegin
  PROVE  StatsInv'
<1>0. StatsTypeOK /\ Known /\ Upstream
  BY DEF StatsInv
<1>1. /\ look' = [look EXCEPT !.phase = "open"] /\ look.phase = "idle" /\ quiet' = TRUE
      /\ repo.exists /\ UNCHANGED <<repo, commands, session, first, foreign>>
  BY DEF LookBegin
<1>2. /\ look' \in Walker /\ look'.phase = "open"
      /\ look'.head = look.head /\ look'.has_origin = look.has_origin
  BY <1>0, <1>1 DEF StatsTypeOK, Walker
<1>3. StatsTypeOK'
  BY <1>0, <1>1, <1>2 DEF StatsTypeOK
<1>4. Known'
  BY <1>0, <1>1, <1>2 DEF Known, Started
<1>5. Walking' /\ TallyExact'
  BY <1>1, <1>2 DEF Walking, TallyExact
<1>6. Upstream'
  BY <1>0, <1>2 DEF Upstream
<1> QED
  BY <1>3, <1>4, <1>5, <1>6 DEF StatsInv

LEMMA LookLostKeeps ==
  ASSUME StatsInv, LookLost
  PROVE  StatsInv'
<1>0. StatsTypeOK /\ Known /\ Upstream
  BY DEF StatsInv
<1>1. /\ session' = ZeroStats(session) /\ first' = Forgotten /\ foreign' = {}
      /\ UNCHANGED <<repo, commands, look>> /\ look.phase = "idle" /\ quiet' = TRUE
  BY DEF LookLost
<1>2. /\ session' \in Stats /\ ~session'.valid /\ ~session'.has_origin
      /\ session'.branches = NewStats.branches
  BY <1>0, <1>1, NewSession DEF ZeroStats, StatsTypeOK, Stats
<1>3. quiet' \in BOOLEAN /\ foreign' \subseteq Branches
  BY <1>1, Zenon
<1>4. StatsTypeOK'
  BY <1>0, <1>1, <1>2, <1>3, ForgottenKnows DEF StatsTypeOK
<1>5. Known'
  BY <1>1, <1>2, NewSession, ForgottenKnows DEF Known, Started
<1>6. Walking' /\ TallyExact' /\ Upstream'
  BY <1>0, <1>1, <1>2 DEF Walking, TallyExact, Upstream
<1> QED
  BY <1>4, <1>5, <1>6 DEF StatsInv

LEMMA LookOpenKeeps ==
  ASSUME StatsInv, LookOpen
  PROVE  StatsInv'
<1>0. StatsTypeOK /\ Known /\ Upstream
  BY DEF StatsInv
<1>1. look.phase = "open" /\ UNCHANGED <<repo, commands, session, first, quiet, foreign>>
  BY DEF LookOpen
<1>2. repo.head \in Heads /\ repo \in Repo /\ look \in Walker
  BY <1>0 DEF StatsTypeOK, Repo
<1>3. CASE repo.exists
  <2> DEFINE follows == repo.head \in repo.upstream
  <2>1. look' = [look EXCEPT !.phase = "head", !.head = repo.head, !.has_origin = follows]
    BY <1>3 DEF LookOpen
  <2>2. follows \in BOOLEAN
    OBVIOUS
  <2>3. follows = (repo.head \in repo.upstream)
    OBVIOUS
  <2> HIDE DEF follows
  <2>4. /\ look' \in Walker /\ look'.phase = "head"
        /\ look'.head = repo.head /\ look'.has_origin = follows
    BY <1>2, <2>1, <2>2 DEF Walker
  <2>5. Walking'
    BY <1>1, <1>3, <2>3, <2>4 DEF Walking
  <2>6. Upstream'
    BY <1>2, <2>3, <2>4, BranchesAssumption DEF Upstream, Repo
  <2> QED
    BY <1>0, <1>1, <2>4, <2>5, <2>6 DEF StatsInv, StatsTypeOK, Known, Started, TallyExact
<1>4. CASE ~repo.exists
  <2>1. look' = [look EXCEPT !.phase = "crashed"]
    BY <1>4 DEF LookOpen
  <2>2. /\ look' \in Walker /\ look'.phase = "crashed"
        /\ look'.head = look.head /\ look'.has_origin = look.has_origin
    BY <1>2, <2>1 DEF Walker
  <2> QED
    BY <1>0, <1>1, <2>2 DEF StatsInv, StatsTypeOK, Known, Started, Walking, Upstream, TallyExact
<1> QED
  BY <1>3, <1>4

LEMMA CommitsCount == StatsTypeOK => \A h \in Heads : Commits(h) \in Counts
BY Constants DEF StatsTypeOK, Repo, Commits, Heads

LEMMA CountHeadKeeps ==
  ASSUME StatsInv, CountHead
  PROVE  StatsInv'
<1>0. StatsTypeOK /\ Known /\ Walking /\ Upstream
  BY DEF StatsInv
<1>1. PICK n \in IF repo.exists THEN {Commits(look.head)} ELSE 0..Commits(look.head) :
        /\ look' = [look EXCEPT !.phase = "origin", !.head_commits = n]
        /\ first' = [first EXCEPT !.local[look.head] = IF @ = Unknown THEN n ELSE @]
  BY DEF CountHead
<1>2. look.phase = "head" /\ UNCHANGED <<repo, commands, session, quiet, foreign>>
  BY DEF CountHead
<1>3. look \in Walker /\ look.head \in Heads /\ Commits(look.head) \in Counts
  BY <1>0, CommitsCount DEF StatsTypeOK, Walker
<1>4. n \in Counts /\ n \in Nat /\ (repo.exists => n = Commits(look.head))
  BY <1>3, CommitsAssumption DEF Counts
<1>5. /\ look' \in Walker /\ look'.phase = "origin" /\ look'.head_commits = n
      /\ look'.head = look.head /\ look'.has_origin = look.has_origin
  BY <1>1, <1>3, <1>4 DEF Walker
<1> DEFINE start == IF first.local[look.head] = Unknown THEN n ELSE first.local[look.head]
<1>6. first \in [local : [Heads -> Int], remote : [Heads -> Int]]
  BY <1>0 DEF StatsTypeOK
<1>7. first' = [first EXCEPT !.local = [first.local EXCEPT ![look.head] = start]]
  BY <1>1, <1>6
<1>8. start \in Int
  BY <1>3, <1>4, <1>6
<1>9. start = IF first.local[look.head] = Unknown THEN n ELSE first.local[look.head]
  OBVIOUS
<1> HIDE DEF start
<1>10. /\ first' \in [local : [Heads -> Int], remote : [Heads -> Int]]
       /\ first'.remote = first.remote /\ first'.local[look.head] = start
       /\ \A h \in Heads : h # look.head => first'.local[h] = first.local[h]
  BY <1>3, <1>6, <1>7, <1>8
<1>11. StatsTypeOK'
  BY <1>0, <1>2, <1>5, <1>10 DEF StatsTypeOK
<1>12. Started'
  <2> SUFFICES ASSUME NEW h \in Heads
               PROVE  LET p == session'.branches[h]
                      IN  /\ p.local_commits_calculated =>
                               /\ first'.local[h] = p.local_comits_on_start
                               /\ first'.local[h] \in Nat
                          /\ ~p.local_commits_calculated =>
                               first'.local[h] =
                                 IF look'.phase = "origin" /\ look'.head = h
                                 THEN look'.head_commits ELSE Unknown
                          /\ p.remote_commits_calculated =>
                               /\ first'.remote[h] = p.remote_commits_on_start
                               /\ first'.remote[h] \in Nat
                          /\ ~p.remote_commits_calculated => first'.remote[h] = Unknown
    BY DEF Started
  <2>1. CASE h = look.head
    BY <1>0, <1>2, <1>5, <1>9, <1>10, <2>1, Constants DEF Known, Started
  <2>2. CASE h # look.head
    BY <1>0, <1>2, <1>5, <1>10, <2>2 DEF Known, Started
  <2> QED
    BY <2>1, <2>2
<1>13. Walking'
  <2>1. Commits(look.head)' = Commits(look'.head)
    BY <1>2, <1>5 DEF Commits
  <2> QED
    BY <1>0, <1>2, <1>4, <1>5 DEF Walking, Commits
<1> QED
  BY <1>0, <1>2, <1>5, <1>11, <1>12, <1>13 DEF StatsInv, Known, Upstream, TallyExact

\* update_stats on a session that Known describes.
LEMMA LookEndKeeps ==
  ASSUME StatsInv, LookEnd
  PROVE  StatsInv'
<1>0. StatsTypeOK /\ Known /\ Walking /\ Upstream
  BY DEF StatsInv
<1>1. look.phase = "origin" /\ look' = NoWalker /\ UNCHANGED <<repo, commands, quiet>>
  BY DEF LookEnd
<1>2. PICK n \in IF ~look.has_origin THEN {0}
                 ELSE IF repo.exists THEN {repo.origin[look.head]}
                 ELSE 0..repo.origin[look.head] :
        /\ session' = UpdateStats(session, [look EXCEPT !.origin_commits = n])
        /\ first' = [first EXCEPT !.remote[look.head] =
                       IF ~look.has_origin THEN Unknown
                       ELSE IF @ = Unknown THEN n ELSE @]
  BY DEF LookEnd
<1>3. /\ look \in Walker /\ look.head \in Heads /\ look.has_origin \in BOOLEAN
      /\ look.head_commits \in Counts /\ repo \in Repo /\ session \in Stats
      /\ first \in [local : [Heads -> Int], remote : [Heads -> Int]]
  BY <1>0 DEF StatsTypeOK, Walker
<1>4. /\ n \in Counts /\ n \in Nat
      /\ look.has_origin /\ repo.exists => n = repo.origin[look.head]
  <2>1. CASE ~look.has_origin
    BY <1>2, <2>1, Constants
  <2>2. CASE look.has_origin
    <3>1. repo.origin[look.head] \in Counts
      BY <1>0, <1>3, <2>2 DEF Upstream, Repo
    <3> QED
      BY <1>2, <2>2, <3>1, CommitsAssumption DEF Counts
  <2> QED
    BY <2>1, <2>2
<1> DEFINE w == [look EXCEPT !.origin_commits = n]
           h == look.head
           old == session.branches[h]
           p == Remote(Local(old, w), w)
           r == IF ~look.has_origin THEN Unknown
                ELSE IF first.remote[h] = Unknown THEN n ELSE first.remote[h]
<1>5. /\ w \in Walker /\ w.head = h /\ w.has_origin = look.has_origin
      /\ w.head_commits = look.head_commits /\ w.origin_commits = n
  BY <1>3, <1>4 DEF Walker
<1>6. old \in BranchProp
  BY <1>3 DEF Stats
<1>7. /\ session' = [valid |-> TRUE, branch |-> h, has_origin |-> look.has_origin,
                     branches |-> [session.branches EXCEPT ![h] = p]]
      /\ first' = [first EXCEPT !.remote = [first.remote EXCEPT ![h] = r]]
  BY <1>2, <1>3, <1>5 DEF UpdateStats, Stats
<1>8. /\ first' \in [local : [Heads -> Int], remote : [Heads -> Int]]
      /\ first'.local = first.local /\ first'.remote[h] = r
      /\ \A x \in Heads : x # h => first'.remote[x] = first.remote[x]
  <2>1. r \in Int
    BY <1>3, <1>4, Constants
  <2> HIDE DEF r
  <2> QED
    BY <1>3, <1>7, <2>1
<1> HIDE DEF w
<1>9. /\ p \in BranchProp /\ p.local_commits_calculated
      /\ p.local_comits_on_start = (IF old.local_commits_calculated
                                    THEN old.local_comits_on_start ELSE look.head_commits)
      /\ p.ahead_of_local = look.head_commits - p.local_comits_on_start
      /\ p.remote_commits_calculated = look.has_origin
      /\ look.has_origin =>
           /\ p.remote_commits_on_start =
                IF old.remote_commits_calculated THEN old.remote_commits_on_start ELSE n
           /\ p.pushed_to_remote = n - p.remote_commits_on_start
           /\ p.ahead_of_remote = look.head_commits - p.remote_commits_on_start
  <2> DEFINE l == Local(old, w)
  <2>1. /\ l \in BranchProp /\ l.local_commits_calculated
        /\ l.local_comits_on_start = (IF old.local_commits_calculated
                                      THEN old.local_comits_on_start ELSE look.head_commits)
        /\ l.ahead_of_local = look.head_commits - l.local_comits_on_start
        /\ l.remote_commits_calculated = old.remote_commits_calculated
        /\ l.remote_commits_on_start = old.remote_commits_on_start
    BY <1>5, <1>6, LocalTally
  <2>2. p = Remote(l, w)
    OBVIOUS
  <2> HIDE DEF l, old, p
  <2> QED
    BY <1>5, <2>1, <2>2, RemoteTally
<1> DEFINE props == [session.branches EXCEPT ![h] = p]
<1>10. r = IF ~look.has_origin THEN Unknown
           ELSE IF first.remote[h] = Unknown THEN n ELSE first.remote[h]
  OBVIOUS
<1>11. old = session.branches[h]
  OBVIOUS
<1>12. h = look.head
  OBVIOUS
<1> HIDE DEF old, p, r, h
<1>13. /\ props \in [Heads -> BranchProp] /\ props[h] = p
       /\ \A x \in Heads : x # h => props[x] = session.branches[x]
  BY <1>3, <1>9, <1>12 DEF Stats
<1> HIDE DEF props
<1>14. /\ session' \in Stats /\ session'.branches = props /\ session'.branch = h
       /\ session'.has_origin = look.has_origin
  <2>1. session' = [valid |-> TRUE, branch |-> h, has_origin |-> look.has_origin,
                    branches |-> props]
    BY <1>7 DEF props
  <2> QED
    BY <1>3, <1>12, <1>13, <2>1 DEF Stats
<1>15. look' \in Walker /\ look'.phase = "idle" /\ Upstream'
  BY <1>1, Constants DEF NoWalker, Walker, Heads, Upstream
<1>16. StatsTypeOK'
  <2>1. foreign' \subseteq Branches
    BY <1>0 DEF LookEnd, StatsTypeOK
  <2> QED
    BY <1>0, <1>1, <1>8, <1>14, <1>15, <2>1 DEF StatsTypeOK
<1>17. /\ first.local[h] \in Nat /\ first.local[h] = p.local_comits_on_start
  BY <1>0, <1>1, <1>3, <1>9, <1>11, <1>12, Constants DEF Known, Started
<1>18. /\ look.has_origin => r \in Nat /\ r = p.remote_commits_on_start
       /\ ~look.has_origin => r = Unknown
  <2>1. /\ old.remote_commits_calculated =>
             first.remote[h] = old.remote_commits_on_start /\ first.remote[h] \in Nat
        /\ ~old.remote_commits_calculated => first.remote[h] = Unknown
    BY <1>0, <1>3, <1>11, <1>12 DEF Known, Started
  <2> QED
    BY <1>4, <1>9, <1>10, <2>1, Constants
<1>19. Started'
  <2> SUFFICES ASSUME NEW x \in Heads
               PROVE  LET q == session'.branches[x]
                      IN  /\ q.local_commits_calculated =>
                               /\ first'.local[x] = q.local_comits_on_start
                               /\ first'.local[x] \in Nat
                          /\ ~q.local_commits_calculated =>
                               first'.local[x] =
                                 IF look'.phase = "origin" /\ look'.head = x
                                 THEN look'.head_commits ELSE Unknown
                          /\ q.remote_commits_calculated =>
                               /\ first'.remote[x] = q.remote_commits_on_start
                               /\ first'.remote[x] \in Nat
                          /\ ~q.remote_commits_calculated => first'.remote[x] = Unknown
    BY DEF Started
  <2>1. CASE x = h
    BY <1>8, <1>9, <1>13, <1>14, <1>17, <1>18, <2>1
  <2>2. CASE x # h
    BY <1>0, <1>8, <1>12, <1>13, <1>14, <1>15, <2>2 DEF Known, Started
  <2> QED
    BY <2>1, <2>2
<1>20. TallyExact'
  <2> DEFINE count == IF h = Detached THEN 0 ELSE repo.commits[h]
  <2> SUFFICES ASSUME quiet
               PROVE  /\ h = repo.head /\ (look.has_origin <=> h \in repo.upstream)
                      /\ p.ahead_of_local = count - first'.local[h]
                      /\ look.has_origin =>
                           /\ p.pushed_to_remote = repo.origin[h] - first'.remote[h]
                           /\ p.ahead_of_remote = count - first'.remote[h]
    BY <1>1, <1>13, <1>14 DEF TallyExact, Commits
  <2>1. /\ h = repo.head /\ (look.has_origin <=> h \in repo.upstream)
        /\ look.head_commits = count /\ repo.exists
    BY <1>0, <1>1, <1>12 DEF Walking, Commits
  <2> QED
    BY <1>4, <1>8, <1>9, <1>12, <1>17, <1>18, <2>1
<1>21. Walking'
  BY <1>15 DEF Walking
<1>22. session'.has_origin => session'.branches[session'.branch].remote_commits_calculated
  BY <1>9, <1>13, <1>14
<1> QED
  BY <1>15, <1>16, <1>19, <1>20, <1>21, <1>22 DEF StatsInv, Known

-----------------------------------------------------------------------------
(* The theorems.                                                            *)

LEMMA StatsStep == StatsInv /\ [StatsNext]_statsVars => StatsInv'
<1> SUFFICES ASSUME StatsInv, [StatsNext]_statsVars PROVE StatsInv'
  OBVIOUS
<1>1. CASE UserNext
  BY <1>1, UserNextKeeps
<1>2. CASE LookBegin
  BY <1>2, LookBeginKeeps
<1>3. CASE LookLost
  BY <1>3, LookLostKeeps
<1>4. CASE LookOpen
  BY <1>4, LookOpenKeeps
<1>5. CASE CountHead
  BY <1>5, CountHeadKeeps
<1>6. CASE LookEnd
  BY <1>6, LookEndKeeps
<1>7. CASE UNCHANGED statsVars
  BY <1>7 DEF statsVars, StatsInv, StatsTypeOK, Known, Started, Walking, Upstream, TallyExact, Commits
<1> QED
  BY <1>1, <1>2, <1>3, <1>4, <1>5, <1>6, <1>7 DEF StatsNext

\* Whatever the user does between and during the looks (session.cc:100-145,
\* git_walker.cc:24-129), what the session counts is exact once a look has ended
\* that nothing overtook; and every member keeps its type.
THEOREM StatsExact == StatsSpec => [](StatsTypeOK /\ TallyExact)
<1>1. StatsInv => StatsTypeOK /\ TallyExact
  BY DEF StatsInv
<1> QED
  BY <1>1, StatsStart, StatsStep, PTL DEF StatsSpec

\* Every step of Presence is a step of BranchStats or leaves it alone.
LEMMA PresenceLooks == PresenceSpec => StatsSpec
<1>1. PresenceInit => StatsInit
  BY DEF PresenceInit
<1>2. [PresenceNext]_presenceVars => [StatsNext]_statsVars
  <2> SUFFICES ASSUME [PresenceNext]_presenceVars PROVE [StatsNext]_statsVars
    OBVIOUS
  <2>1. CASE Parse
    BY <2>1 DEF Parse
  <2>2. ASSUME NEW p \in Paths, Construct(p) PROVE StatsNext
    BY <2>2 DEF Construct, StatsNext
  <2>3. ASSUME NEW p \in Paths, SetPath(p) PROVE UNCHANGED statsVars
    BY <2>3 DEF SetPath
  <2>4. CASE Update \/ UpdateLost
    BY <2>4 DEF Update, UpdateLost, StatsNext
  <2>5. CASE Look
    BY <2>5 DEF Look, StatsNext
  <2>6. CASE Looked
    BY <2>6 DEF Looked, StatsNext
  <2>7. CASE User
    BY <2>7 DEF User, StatsNext
  <2>8. ASSUME NEW f \in Deletable, FileChanges(f) PROVE UNCHANGED statsVars
    BY <2>8 DEF FileChanges
  <2>9. CASE UNCHANGED presenceVars
    BY <2>9 DEF presenceVars
  <2> QED
    BY <2>1, <2>2, <2>3, <2>4, <2>5, <2>6, <2>7, <2>8, <2>9 DEF PresenceNext
<1> QED
  BY <1>1, <1>2, PTL DEF PresenceSpec, StatsSpec

\* What Discord is told counts exactly, whatever paths the editor sends, whatever
\* files and repositories come and go, and whenever the loop or a hook looks.
THEOREM PresenceTallies == PresenceSpec => []TallyExact
BY StatsExact, PresenceLooks, PTL

-----------------------------------------------------------------------------
(* "Pushed 3 of 6".                                                         *)

\* Where only the user moves the upstream, it is at most the branch or where it
\* was first counted; a repository that vanishes under a look is foreign.
Pushes ==
  /\ \A h \in Branches \ foreign :
       first.remote[h] # Unknown =>
         \/ repo.origin[h] =< repo.commits[h]
         \/ repo.origin[h] =< first.remote[h]
  /\ ~repo.exists /\ look.phase # "idle" => foreign = Branches

\* What a git command may do to a branch that stays the user's own.
Own(h) == \/ repo'.origin[h] =< repo'.commits[h]
          \/ /\ repo'.origin[h] = repo.origin[h]
             /\ repo.commits[h] =< repo'.commits[h]

LEMMA OwnPushes ==
  ASSUME StatsTypeOK, StatsTypeOK', Pushes, UNCHANGED <<look, first>>,
         \A h \in Branches \ foreign' : h \notin foreign /\ Own(h),
         ~repo'.exists => foreign' = Branches
  PROVE  Pushes'
<1> SUFFICES ASSUME NEW h \in Branches \ foreign', first.remote[h] # Unknown
             PROVE  \/ repo'.origin[h] =< repo'.commits[h]
                    \/ repo'.origin[h] =< first.remote[h]
  BY DEF Pushes
<1>1. /\ repo.origin[h] \in Nat /\ repo.commits[h] \in Nat
      /\ repo'.origin[h] \in Nat /\ repo'.commits[h] \in Nat /\ first.remote[h] \in Int
  BY Constants DEF StatsTypeOK, Repo
<1>2. repo.origin[h] =< repo.commits[h] \/ repo.origin[h] =< first.remote[h]
  BY DEF Pushes
<1> QED
  BY <1>1, <1>2 DEF Own

LEMMA UserPushes ==
  ASSUME StatsTypeOK, StatsTypeOK', Pushes, UserNext
  PROVE  Pushes'
<1>0. /\ repo \in Repo /\ repo.commits \in [Branches -> Counts]
      /\ repo.origin \in [Branches -> Counts] /\ repo.upstream \subseteq Branches
      /\ foreign \subseteq Branches
  BY BranchesAssumption DEF StatsTypeOK, Repo
<1>1. \A n \in Counts : n \in Nat /\ n =< n
  BY Constants
<1>2. ASSUME NEW new, NEW moves, Command(new, moves), new.exists,
             \A h \in Branches \ moves :
               \/ new.origin[h] =< new.commits[h]
               \/ new.origin[h] = repo.origin[h] /\ repo.commits[h] =< new.commits[h]
      PROVE  Pushes'
  BY <1>2, OwnPushes DEF Command, Own
<1>3. CASE Commit
  <2> DEFINE new == [repo EXCEPT !.commits[repo.head] = @ + 1]
  <2>1. Command(new, {}) /\ repo.exists
    BY <1>3 DEF Commit, Command
  <2>2. new.exists /\ new.origin = repo.origin
    BY <1>0, <2>1 DEF Repo
  <2>3. \A h \in Branches : repo.commits[h] =< new.commits[h]
    BY <1>0, Constants DEF Repo
  <2> HIDE DEF new
  <2> QED
    BY <1>2, <2>1, <2>2, <2>3
<1>4. ASSUME NEW n \in 1..MaxCommits, Rewrite(n)
      PROVE  Pushes'
  <2> DEFINE new == [repo EXCEPT !.commits[repo.head] = n]
  <2>1. Command(new, {repo.head}) /\ repo.exists
    BY <1>4 DEF Rewrite, Command
  <2>2. new.exists /\ new.origin = repo.origin
    BY <1>0, <2>1 DEF Repo
  <2>3. \A h \in Branches \ {repo.head} : repo.commits[h] =< new.commits[h]
    BY <1>0, <1>1 DEF Repo
  <2> HIDE DEF new
  <2> QED
    BY <1>2, <2>1, <2>2, <2>3
<1>5. ASSUME NEW b \in Tracking, Push(b)
      PROVE  Pushes'
  <2> DEFINE new == [repo EXCEPT !.upstream = @ \cup {b}, !.origin[b] = repo.commits[b]]
  <2>1. Command(new, {}) /\ repo.exists /\ b \in Branches
    BY <1>5, BranchesAssumption DEF Push, Command
  <2>2. new.exists /\ new.commits = repo.commits
    BY <1>0, <2>1 DEF Repo
  <2>3. \A h \in Branches :
          \/ new.origin[h] =< new.commits[h]
          \/ new.origin[h] = repo.origin[h] /\ repo.commits[h] =< new.commits[h]
    BY <1>0, <1>1 DEF Repo
  <2> HIDE DEF new
  <2> QED
    BY <1>2, <2>1, <2>2, <2>3
<1>6. ASSUME NEW b \in Tracking, Fetch(b)
      PROVE  Pushes'
  <2> DEFINE new == [repo EXCEPT !.origin[b] = @ + 1]
  <2>1. Command(new, {b}) /\ repo.exists
    BY <1>6 DEF Fetch, Command
  <2>2. new.exists /\ new.commits = repo.commits
    BY <1>0, <2>1 DEF Repo
  <2>3. \A h \in Branches \ {b} :
          new.origin[h] = repo.origin[h] /\ repo.commits[h] =< new.commits[h]
    BY <1>0, <1>1 DEF Repo
  <2> HIDE DEF new
  <2> QED
    BY <1>2, <2>1, <2>2, <2>3
<1>7. ASSUME NEW new, Command(new, {}), new.exists, new.origin = repo.origin,
             new.commits = repo.commits
      PROVE  Pushes'
  BY <1>0, <1>1, <1>2, <1>7
<1>8. ASSUME NEW h \in Heads, Checkout(h)
      PROVE  Pushes'
  <2> DEFINE new == [repo EXCEPT !.head = h]
  <2>1. Command(new, {})
    BY <1>8 DEF Checkout
  <2>2. new.exists /\ new.origin = repo.origin /\ new.commits = repo.commits
    BY <1>0, <2>1 DEF Repo, Command
  <2> HIDE DEF new
  <2> QED
    BY <1>7, <2>1, <2>2
<1>9. ASSUME NEW b \in Tracking, NEW n \in Counts, SetUpstream(b, n)
      PROVE  Pushes'
  <2> DEFINE new == [repo EXCEPT !.upstream = @ \cup {b}, !.origin[b] = n]
  <2>1. Command(new, {b}) /\ repo.exists
    BY <1>9 DEF SetUpstream, Command
  <2>2. new.exists /\ new.commits = repo.commits
    BY <1>0, <2>1 DEF Repo
  <2>3. \A h \in Branches \ {b} :
          new.origin[h] = repo.origin[h] /\ repo.commits[h] =< new.commits[h]
    BY <1>0, <1>1 DEF Repo
  <2> HIDE DEF new
  <2> QED
    BY <1>2, <2>1, <2>2, <2>3
<1>10. ASSUME NEW b \in Tracking, UnsetUpstream(b)
       PROVE  Pushes'
  <2> DEFINE new == [repo EXCEPT !.upstream = @ \ {b}]
  <2>1. Command(new, {})
    BY <1>10 DEF UnsetUpstream
  <2>2. new.exists /\ new.origin = repo.origin /\ new.commits = repo.commits
    BY <1>0, <2>1 DEF Repo, Command
  <2> HIDE DEF new
  <2> QED
    BY <1>7, <2>1, <2>2
<1>11. CASE Vanish
  <2>1. foreign' = Branches
    BY <1>0, <1>11 DEF Vanish, Command
  <2> QED
    BY <2>1 DEF Pushes
<1>12. CASE Return
  <2>1. CASE repo' = [repo EXCEPT !.exists = TRUE] /\ UNCHANGED foreign
    <3>1. repo'.exists /\ repo'.origin = repo.origin /\ repo'.commits = repo.commits
      BY <1>0, <2>1 DEF Repo
    <3> QED
      BY <1>12, <2>1, <3>1 DEF Return, Pushes
  <2>2. CASE repo'.exists /\ foreign' = Branches
    BY <2>2 DEF Pushes
  <2> QED
    BY <1>12, <2>1, <2>2 DEF Return
<1> QED
  BY <1>3, <1>4, <1>5, <1>6, <1>8, <1>9, <1>10, <1>11, <1>12 DEF UserNext

LEMMA LookEndPushes ==
  ASSUME StatsInv, StatsInv', Pushes, LookEnd
  PROVE  Pushes'
<1>0. /\ look.phase = "origin" /\ look' = NoWalker /\ UNCHANGED repo
      /\ foreign' = IF first.remote[look.head] = Unknown /\ quiet
                    THEN foreign \ {look.head} ELSE foreign
  BY DEF LookEnd
<1>1. PICK n \in IF ~look.has_origin THEN {0}
                 ELSE IF repo.exists THEN {repo.origin[look.head]}
                 ELSE 0..repo.origin[look.head] :
        first' = [first EXCEPT !.remote[look.head] =
                    IF ~look.has_origin THEN Unknown ELSE IF @ = Unknown THEN n ELSE @]
  BY DEF LookEnd
<1>2. /\ repo.commits \in [Branches -> Counts] /\ repo.origin \in [Branches -> Counts]
      /\ first.remote \in [Heads -> Int] /\ look.head \in Heads
      /\ first \in [local : [Heads -> Int], remote : [Heads -> Int]]
  BY DEF StatsInv, StatsTypeOK, Repo, Walker
<1>3. look'.phase = "idle"
  BY <1>0 DEF NoWalker
<1>4. quiet => repo.exists
  BY <1>0 DEF StatsInv, Walking
<1>5. ASSUME NEW h \in Branches \ foreign', first'.remote[h] # Unknown
      PROVE  repo.origin[h] =< repo.commits[h] \/ repo.origin[h] =< first'.remote[h]
  <2>1. repo.origin[h] \in Nat /\ repo.commits[h] \in Nat /\ h \in Heads
    BY <1>2, Constants
  <2>2. CASE h # look.head
    <3>1. first'.remote[h] = first.remote[h] /\ h \notin foreign
      BY <1>0, <1>1, <1>2, <2>1, <2>2
    <3> QED
      BY <1>5, <3>1 DEF Pushes
  <2>3. CASE h = look.head
    <3>1. first'.remote[h] = IF ~look.has_origin THEN Unknown
                             ELSE IF first.remote[h] = Unknown THEN n ELSE first.remote[h]
      BY <1>1, <1>2, <2>1, <2>3
    <3>2. look.has_origin
      BY <1>5, <3>1
    <3>3. CASE first.remote[h] = Unknown
      <4>1. repo.exists
        BY <1>0, <1>4, <1>5, <2>3, <3>3 DEF Pushes
      <4>2. first'.remote[h] = repo.origin[h]
        BY <1>1, <2>3, <3>1, <3>2, <3>3, <4>1
      <4> QED
        BY <2>1, <4>2
    <3>4. CASE first.remote[h] # Unknown
      <4>1. h \notin foreign /\ first'.remote[h] = first.remote[h]
        BY <1>0, <1>5, <2>3, <3>1, <3>2, <3>4
      <4> QED
        BY <3>4, <4>1 DEF Pushes
    <3> QED
      BY <3>3, <3>4
  <2> QED
    BY <2>2, <2>3
<1> QED
  BY <1>0, <1>3, <1>5 DEF Pushes

LEMMA PushesStep == StatsInv /\ Pushes /\ [StatsNext]_statsVars => Pushes'
<1> SUFFICES ASSUME StatsInv, Pushes, [StatsNext]_statsVars PROVE Pushes'
  OBVIOUS
<1>0. StatsInv'
  BY StatsStep
<1>1. CASE UserNext
  BY <1>0, <1>1, UserPushes DEF StatsInv
<1>2. CASE LookBegin
  BY <1>2 DEF LookBegin, Pushes
<1>3. CASE LookLost
  <2>1. UNCHANGED <<repo, look>> /\ look.phase = "idle" /\ first' = Forgotten
    BY <1>3 DEF LookLost
  <2> QED
    BY <2>1, ForgottenKnows, Constants DEF Pushes
<1>4. CASE LookOpen
  BY <1>4 DEF LookOpen, Pushes
<1>5. CASE CountHead
  <2>1. first'.remote = first.remote
    BY <1>5 DEF CountHead, StatsInv, StatsTypeOK
  <2> QED
    BY <1>5, <2>1 DEF CountHead, Pushes
<1>6. CASE LookEnd
  BY <1>0, <1>6, LookEndPushes
<1>7. CASE UNCHANGED statsVars
  BY <1>7 DEF statsVars, Pushes
<1> QED
  BY <1>1, <1>2, <1>3, <1>4, <1>5, <1>6, <1>7 DEF StatsNext

LEMMA PushesEnough == StatsInv /\ Pushes => PushedOfAhead
<1> SUFFICES ASSUME StatsInv, Pushes, look.phase = "idle", quiet, session.valid,
                    session.branch \notin foreign, StateString(session).kind = "Pushed"
             PROVE  StateString(session).n =< StateString(session).of
  BY DEF PushedOfAhead
<1> DEFINE b == session.branch
           p == session.branches[b]
<1>1. session.has_origin /\ p.pushed_to_remote > 0
  BY DEF StateString, Say
<1>2. /\ StateString(session).n = p.pushed_to_remote
      /\ StateString(session).of = p.ahead_of_remote
  BY <1>1 DEF StateString, Say
<1>3. /\ b = repo.head /\ b \in repo.upstream
      /\ p.pushed_to_remote = repo.origin[b] - first.remote[b]
      /\ p.ahead_of_remote = Commits(b) - first.remote[b]
  BY <1>1 DEF StatsInv, TallyExact
<1>4. b \in Branches /\ b # Detached /\ b \in Heads
  BY <1>3, BranchesAssumption DEF StatsInv, StatsTypeOK, Repo, Heads
<1>5. /\ repo.origin[b] \in Nat /\ repo.commits[b] \in Nat /\ first.remote[b] \in Int
      /\ Commits(b) = repo.commits[b]
  BY <1>4, Constants DEF StatsInv, StatsTypeOK, Repo, Commits
<1>6. first.remote[b] = Unknown \/ repo.origin[b] =< repo.commits[b]
  BY <1>1, <1>3, <1>4, <1>5 DEF Pushes
<1>7. first.remote[b] # Unknown \/ ~p.remote_commits_calculated
  BY <1>4, Constants DEF StatsInv, Known, Started
<1>8. p.remote_commits_calculated
  BY <1>1 DEF StatsInv, Known
<1> QED
  BY <1>1, <1>2, <1>3, <1>5, <1>6, <1>7, <1>8

\* For a branch whose upstream has only the user's own pushes, no more is said to be
\* pushed than there was to push (discord.cc:40-60 over session.cc:80-135).
THEOREM PresencePushes == PresenceSpec => []PushedOfAhead
<1>1. StatsInit => Pushes
  BY ForgottenKnows, Constants DEF StatsInit, Pushes
<1>2. StatsSpec => []PushedOfAhead
  BY <1>1, StatsStart, StatsStep, PushesStep, PushesEnough, PTL DEF StatsSpec
<1> QED
  BY <1>2, PresenceLooks, PTL

=============================================================================
