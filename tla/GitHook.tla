------------------------------- MODULE GitHook -------------------------------
(***************************************************************************)
(* The hooks a Session writes into its repository (git_hook.cc), together   *)
(* with the registry of Git, because it is the life of the Session objects  *)
(* that decides when a hook file is written: a constructor and an update    *)
(* implant a section, a destructor strips it.  The files are shared with    *)
(* the user who writes hooks of his own, and outlive the process.           *)
(***************************************************************************)
EXTENDS Git

CONSTANTS
  Fresh,       \* Fresh[r]: Absent or NoHooks, what a new repository at r may have
  UserLines,   \* the lines a user writes
  Absent,      \* the hooks directory is there, the file is not
  NoHooks,     \* there is no hooks directory
  MaxLines     \* bound on the lines of the user in one file

ASSUME FreshAssumption == Fresh \in [Roots -> SUBSET {Absent, NoHooks}]

VARIABLES
  disk,        \* the hook file of each repository, one for the seven names
  implanted    \* HookProp::implanted, for each Session

hookVars == <<git, tree, disk, implanted>>

Shebang == "#!/bin/sh"
Header == "#+PRESENCE_BEGIN"
Footer == "#+PRESENCE_END"
Script == <<Header, "curl", Footer>>
Lines == UserLines \cup {Shebang, Header, "curl", Footer}

\* No user writes what the program looks for, and a text is not the lack of one.
ASSUME LinesAssumption ==
  /\ MaxLines \in Nat
  /\ UserLines \cap {Shebang, Header, "curl", Footer} = {}
  /\ Absent # NoHooks /\ Absent \notin Seq(Lines) /\ NoHooks \notin Seq(Lines)

-----------------------------------------------------------------------------
(* The text of a hook file.                                                 *)

\* Mutant: the footer does not end what is left out.
StripLineToEnd(t, line) ==
  [write |-> t.write /\ line # Header,
   out |-> IF t.write /\ line # Header THEN Append(t.out, line) ELSE t.out]

\* One turn of the loop over the lines: from a header to the next footer nothing
\* is kept.
StripLine(t, line) ==
  [write |-> (t.write /\ line # Header) \/ line = Footer,
   out |-> IF t.write /\ line # Header THEN Append(t.out, line) ELSE t.out]

\* The loop: the text without its sections.
Strip(f) ==
  LET pass[n \in 0..Len(f)] ==
        IF n = 0 THEN [write |-> TRUE, out |-> <<>>] ELSE StripLine(pass[n - 1], f[n])
  IN  pass[Len(f)].out

\* Mutant: a section that is there already is not looked for.
ImplantAppends(f) ==
  IF f = NoHooks THEN NoHooks
  ELSE IF f = Absent THEN <<Shebang>> \o Script ELSE f \o Script

\* implant_hook: without a directory nothing is written, and permissions throws.
Implant(f) ==
  IF f = NoHooks THEN NoHooks
  ELSE IF f = Absent THEN <<Shebang>> \o Script
  ELSE (IF f = <<>> \/ Head(f) = Shebang THEN <<>> ELSE <<Shebang>>)
         \o Strip(f) \o Script

\* Mutant: a file that was stripped keeps its section.
CleanNothing(f) == f

\* cleanup_hook: a file that is gone comes back empty.
Clean(f) ==
  IF f = NoHooks THEN NoHooks
  ELSE IF f = Absent THEN <<>> ELSE Strip(f)

-----------------------------------------------------------------------------
(* What a step of the registry does to the files.                           *)

\* disk[r].theirs: the user's own lines, but those a crash has cut off.
\* left: a process that crashed left its section.
DiskType == [file : {Absent, NoHooks} \cup Seq(Lines), theirs : Seq(UserLines),
             left : BOOLEAN]

HasFile(r) == disk[r].file \notin {Absent, NoHooks}

Created == {s \in Slots : git.heap[s] = NoSession /\ git'.heap[s] # NoSession}
Destroyed == {s \in Slots : git.heap[s] # NoSession /\ git'.heap[s] = NoSession}

\* Session::update found a repository again: update_path.
Revived == {s \in Slots \ (Created \cup Destroyed) :
              ~git.heap[s].valid /\ git'.heap[s].valid}

Moved(s) == git'.heap[s].hooks # git.heap[s].hooks

\* Of the sessions W that write, those that write the file of r.
Planters(W, r) ==
  {s \in W : git'.heap[s].hooks = r /\ (~implanted[s] \/ Moved(s))}
Cleaners(W, r) ==
  {s \in W : implanted[s] /\ git.heap[s].hooks = r /\ Moved(s)}

Planted(W, r, f) == IF Planters(W, r) = {} THEN f ELSE Implant(f)
Cleaned(W, r, f) == IF Cleaners(W, r) = {} THEN f ELSE Clean(f)

\* Mutant: an object that is gone has still implanted.
HooksFollowKept ==
  LET Up == Created \cup Revived
      Down == Destroyed \cup Revived
  IN  /\ disk' = [r \in Roots |->
           [disk[r] EXCEPT !.file = Cleaned(Down, r, Planted(Up, r, @)),
                           !.left = FALSE]]
      /\ implanted' = [s \in Slots |-> implanted[s] \/ \E r \in Roots : s \in Planters(Up, r)]

\* A new object is constructed before the one it replaces is destroyed.  Updates
\* visit the sessions in any order.
HooksFollow ==
  LET Up == Created \cup Revived
      Down == Destroyed \cup Revived
  IN  /\ \E order \in IF Revived = {} THEN {"plant"} ELSE {"plant", "clean"} :
           disk' = [r \in Roots |->
             [disk[r] EXCEPT
                !.file = IF order = "plant" THEN Cleaned(Down, r, Planted(Up, r, @))
                                            ELSE Planted(Up, r, Cleaned(Down, r, @)),
                !.left = @ /\ Planters(Up, r) = {} /\ Cleaners(Down, r) = {}]]
      /\ implanted' = [s \in Slots |->
           LET r == git'.heap[s].hooks
           IN  /\ s \notin Destroyed
               /\ IF r # Null /\ s \in Planters(Up, r) THEN disk[r].file # NoHooks
                                                       ELSE implanted[s]]

-----------------------------------------------------------------------------

HookInit ==
  /\ GitInit
  /\ disk \in [Roots -> [file : {Absent, NoHooks, <<>>}, theirs : {<<>>},
                         left : {FALSE}]]
  /\ \A r \in Roots : disk[r].file = NoHooks <=> r \notin tree.repos
  /\ implanted = [s \in Slots |-> FALSE]

HookedChangePath(c, p) == ChangePath(c, p) /\ HooksFollow
HookedUpdate == AutoUpdate /\ HooksFollow
HookedGitChange(name) == GitChange(name) /\ HooksFollow
HookedLeave(c) == Leave(c) /\ HooksFollow
HookedRound(A) == PingRound(A) /\ HooksFollow

\* The destructors of main's Git: every section that was implanted is stripped.
Stop ==
  /\ git' = NewGit /\ HooksFollow
  /\ UNCHANGED tree

\* The process is killed, perhaps between truncating a file and writing it, and
\* started again.  A text goes out in one write, so no file keeps half of it.
Crash ==
  /\ git' = NewGit /\ implanted' = [s \in Slots |-> FALSE]
  /\ \E torn \in SUBSET {r \in Roots : HasFile(r)} :
       /\ \A q, r \in torn : q = r
       /\ disk' = [r \in Roots |->
            [disk[r] EXCEPT
               !.file = IF r \in torn THEN <<>> ELSE @,
               !.theirs = IF r \in torn THEN <<>> ELSE @,
               !.left = HasFile(r) /\ r \notin torn
                          /\ (@ \/ \E s \in Slots : implanted[s] /\ git.heap[s].hooks = r)]]
  /\ UNCHANGED tree

\* The user adds a line to his hook, in front or at the end.
UserWrites(r, line) ==
  /\ disk[r].file # NoHooks /\ Len(disk[r].theirs) < MaxLines
  /\ LET old == IF HasFile(r) THEN disk[r].file ELSE <<>>
     IN  \/ disk' = [disk EXCEPT ![r].file = Append(old, line),
                                 ![r].theirs = Append(@, line)]
         \/ disk' = [disk EXCEPT ![r].file = <<line>> \o old,
                                 ![r].theirs = <<line>> \o @]
  /\ UNCHANGED <<git, tree, implanted>>

\* The user deletes his hook.
UserDeletes(r) ==
  /\ disk[r].theirs # <<>>
  /\ disk' = [disk EXCEPT ![r].file = Absent, ![r].theirs = <<>>, ![r].left = FALSE]
  /\ UNCHANGED <<git, tree, implanted>>

\* A repository goes with its hooks; a new one may come without the directory.
HookedRepoChanges(r) ==
  /\ RepoChanges(r)
  /\ \E f \in IF r \in tree.repos THEN {NoHooks} ELSE Fresh[r] :
       disk' = [disk EXCEPT ![r] = [file |-> f, theirs |-> <<>>, left |-> FALSE]]
  /\ UNCHANGED implanted

\* The hooks of the repositories in a directory go with it.
HookedPathChanges(p) ==
  /\ PathChanges(p)
  /\ disk' = [r \in Roots |->
       IF r \in tree'.repos THEN disk[r]
       ELSE [file |-> NoHooks, theirs |-> <<>>, left |-> FALSE]]
  /\ UNCHANGED implanted

HookNext ==
  \/ \E c \in Ids, p \in Paths : HookedChangePath(c, p)
  \/ HookedUpdate
  \/ \E r \in Roots : HookedGitChange(NameOf[r])
  \/ \E c \in Ids : HookedLeave(c)
  \/ \E A \in SUBSET Ids : HookedRound(A)
  \/ Stop
  \/ Crash
  \/ \E r \in Roots, line \in UserLines : UserWrites(r, line)
  \/ \E r \in Roots : UserDeletes(r)
  \/ \E r \in Mutable : HookedRepoChanges(r)
  \/ \E p \in Deletable : HookedPathChanges(p)

HookSpec == HookInit /\ [][HookNext]_hookVars

-----------------------------------------------------------------------------

\* The lines of a text that are the user's.
Written(f) ==
  LET mine[n \in 0..Len(f)] ==
        IF n = 0 THEN <<>>
        ELSE IF f[n] \in UserLines THEN Append(mine[n - 1], f[n]) ELSE mine[n - 1]
  IN  mine[Len(f)]

Sections(f) == {k \in DOMAIN f : f[k] = Header}

HookTypeOK ==
  /\ disk \in [Roots -> DiskType]
  /\ implanted \in [Slots -> BOOLEAN]
  /\ \A s \in Slots : implanted[s] => git.heap[s] # NoSession

\* What the user wrote is in the file, in his order, whatever was implanted and
\* stripped around it by however many processes, but for what a crash cut off.
UserLinesKept ==
  \A r \in Roots : HasFile(r) =>
    Written(disk[r].file) = disk[r].theirs

\* A commit is announced once: after crashes, restarts and several objects for one
\* repository there is one section at most.
OneSection ==
  \A r \in Roots : HasFile(r) => Cardinality(Sections(disk[r].file)) =< 1

\* A section belongs to a Session, or a crash left it behind: none stays when the
\* repository is no longer monitored.
NoStraySection ==
  \A r \in Roots : HasFile(r) /\ Sections(disk[r].file) # {} =>
    disk[r].left \/ \E s \in Slots : implanted[s] /\ git.heap[s].hooks = r

\* The repositories of cached sessions announce their commits ("Presence server
\* implants hooks, upon discovering .git. Hooks cleaned up after the Server stops
\* monitoring the repository", README.md:15-16).
MonitoredIsHooked ==
  \A s \in Cached(git) : implanted[s] /\ git.heap[s].valid =>
    HasFile(git.heap[s].hooks) /\ Sections(disk[git.heap[s].hooks].file) # {}

=============================================================================
