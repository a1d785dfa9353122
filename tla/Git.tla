-------------------------------- MODULE Git --------------------------------
(***************************************************************************)
(* The registry of editors and repositories of the presence server: class  *)
(* Git (git.h, git.cc) with the Session objects it caches (session.cc) and  *)
(* the upward search for a repository that GitWalker does for both          *)
(* (git_walker.cc).  The whole program runs on one thread, so a method is   *)
(* one atomic operation.  Methods are written as operators on a record that *)
(* holds the members of the class, because the handlers of the server call  *)
(* several of them in one step.                                             *)
(***************************************************************************)
EXTENDS Integers, Sequences, FiniteSets

CONSTANTS
  Ids,         \* client ids (the process id an editor sends with every call)
  DebugId,     \* id 0, "used to debug", also the initial active_id
  Roots,       \* directories that are, or may become, a repository
  Files,       \* the other paths an editor may send
  Inside,      \* Inside[p]: the roots that contain path p
  Home,        \* Home[r]: the directory two above the git directory of r
  NameOf,      \* NameOf[r]: last component of root r, the repository's name
  Mutable,     \* roots where a repository may be made and removed
  Deletable,   \* paths that may be deleted and made again
  Slots,       \* addresses of Session objects
  Null,        \* no session, no repository
  MaxHistory   \* bound on the length of session_history (unbounded in git.h)

Paths == Roots \cup Files

ASSUME IdsAssumption == DebugId \in Ids
ASSUME RootsAssumption ==
  Null \notin Roots /\ Mutable \subseteq Roots /\ Deletable \subseteq Paths
ASSUME SlotsAssumption == Null \notin Slots
ASSUME InsideAssumption ==
  /\ Inside \in [Paths -> SUBSET Roots]
  /\ \A r \in Roots : r \in Inside[r]
  /\ \A p \in Paths : \A q \in Inside[p] : Inside[q] \subseteq Inside[p]
  /\ \A p \in Paths : \A q, r \in Inside[p] : q \in Inside[r] \/ r \in Inside[q]
  /\ \A q, r \in Roots : q \in Inside[r] /\ r \in Inside[q] => q = r
\* Home[r] is r, unless the git directory of r lies elsewhere (of a submodule in
\* the modules of the outer one, of a linked worktree in the worktrees).
ASSUME HomeAssumption == Home \in [Roots -> Roots]
ASSUME NameAssumption == DOMAIN NameOf = Roots
ASSUME BoundAssumption == MaxHistory \in Nat

\* No root lies inside another one, and every git directory lies in its root: no
\* submodule, no linked worktree, no repository in a repository.
Flat == /\ \A p \in Paths : \A q, r \in Inside[p] : q = r
        /\ \A r \in Roots : Home[r] = r

VARIABLES
  git,         \* the members of the Git object and the Session objects
  tree         \* the file system: where a repository is now, which paths are gone

gitVars == <<git, tree>>

FileSystem == [repos : SUBSET Roots, gone : SUBSET Paths]

-----------------------------------------------------------------------------
(* Session objects.                                                         *)

\* What the registry reads of a Session.  hooks is the repository its GitHook
\* has implanted; branch statistics are in BranchStats.  faltered is history: an
\* update has found no repository for it.
Session == [valid : BOOLEAN, id : Roots, dirty : Paths,
            hooks : Roots, parents : SUBSET Ids, faltered : BOOLEAN]

\* A slot that holds no object.
NoSession == [valid |-> FALSE, id |-> Null, dirty |-> Null,
              hooks |-> Null, parents |-> {}, faltered |-> FALSE]

\* git_repository_discover: the innermost repository that contains path p.  It
\* fails on a path that does not exist.
Innermost(fs, p) ==
  {r \in Inside[p] \cap fs.repos :
     p \notin fs.gone /\ \A q \in Inside[p] \cap fs.repos : q \in Inside[r]}

\* find_git.  The walker takes the path Home[r] of what is found, its git
\* directory two levels up.
Discover(fs, p) ==
  IF Innermost(fs, p) = {} THEN Null ELSE CHOOSE r \in Innermost(fs, p) : TRUE

\* The constructor: the walker that found root r seeds every member.
NewSession(r) == [valid |-> TRUE, id |-> Home[r], dirty |-> Home[r],
                  hooks |-> r, parents |-> {}, faltered |-> FALSE]

\* Mutant: zero_stats also forgets where the repository was.
UpdatedZeroed(fs, x) ==
  LET r == Discover(fs, x.dirty)
  IN  IF r = Null THEN NoSession
      ELSE [x EXCEPT !.valid = TRUE, !.id = Home[r], !.dirty = Home[r]]

\* Session::update: search again from dirty_path; nothing found invalidates.
Updated(fs, x) ==
  LET r == Discover(fs, x.dirty)
  IN  IF r = Null
      THEN [x EXCEPT !.valid = FALSE, !.faltered = TRUE]
      ELSE [x EXCEPT !.valid = TRUE, !.id = Home[r], !.dirty = Home[r],
                     !.hooks = IF x.valid THEN @ ELSE r]

-----------------------------------------------------------------------------
(* The Git object.                                                          *)

GitType ==
  [ready : BOOLEAN, waiting : BOOLEAN, active_id : Ids,
   active_session : Slots \cup {Null},
   clients : SUBSET Ids, held : [Ids -> SUBSET Slots],
   sessions : [Roots -> Slots \cup {Null}],
   history : Seq(Ids \X Roots),
   heap : [Slots -> Session \cup {NoSession}]]

NewGit ==
  [ready |-> FALSE, waiting |-> TRUE, active_id |-> DebugId,
   active_session |-> Null, clients |-> {}, held |-> [c \in Ids |-> {}],
   sessions |-> [r \in Roots |-> Null], history |-> <<>>,
   heap |-> [s \in Slots |-> NoSession]]

\* The objects a shared_ptr keeps: in the cache, held by a client, or active.
Live(g) == {s \in Slots : \/ \E r \in Roots : g.sessions[r] = s
                          \/ \E c \in Ids : s \in g.held[c]
                          \/ g.active_session = s}

\* The last shared_ptr to a Session destroys it.
Release(g) ==
  [g EXCEPT !.heap = [s \in Slots |-> IF s \in Live(g) THEN @[s] ELSE NoSession]]

Cached(g) == {s \in Slots : \E r \in Roots : g.sessions[r] = s}

\* A history entry a fallback can use: its session is cached and valid.
Usable(g, e) == /\ g.sessions[e[2]] # Null
                /\ g.heap[g.sessions[e[2]]].valid

\* Mutant: the top is never replaced.
EnqueAlways(h, c, r) == Append(h, <<c, r>>)

\* enque_session: the top is replaced when it is the same client's.
Enque(h, c, r) ==
  IF h # <<>> /\ h[Len(h)][1] = c
  THEN [h EXCEPT ![Len(h)] = <<c, r>>]
  ELSE Append(h, <<c, r>>)

\* change_git, lines 49-61: any path, valid or not, tracks its client.
Track(g, c) ==
  [g EXCEPT !.ready = TRUE, !.active_id = c, !.clients = @ \cup {c}]

\* Mutant: the session does not learn its parent.
HoldWithoutParent(g, c, s) ==
  [g EXCEPT !.held[c] = @ \cup {s}, !.active_session = s, !.waiting = FALSE]

\* A client and a session know each other; the session becomes the active one.
Hold(g, c, s) ==
  [g EXCEPT !.held[c] = @ \cup {s}, !.heap[s].parents = @ \cup {c},
            !.active_session = s, !.waiting = FALSE]

\* change_git, first visit: a new Session, cached under its own id.
Cache(g, c, r, s) ==
  [g EXCEPT !.heap[s] = NewSession(r), !.sessions[Home[r]] = s,
            !.history = Enque(@, c, Home[r])]

Open(g, c, r, s) == Hold(Cache(g, c, r, s), c, s)

\* change_git, cached and valid: the history gets the session's own id.
Revisit(g, c, p, s) ==
  [g EXCEPT !.heap[s].dirty = p, !.history = Enque(@, c, g.heap[s].id)]

Reopen(g, c, p, s) == Hold(Revisit(g, c, p, s), c, s)

\* change_git: s is the address of the object that Open creates.
ChangeGit(g, fs, c, p, s) ==
  LET t == Track(g, c)
      r == Discover(fs, p)
      x == IF r = Null THEN Null ELSE t.sessions[Home[r]]
  IN  Release(
        IF r = Null THEN [t EXCEPT !.waiting = TRUE]
        ELSE IF x = Null THEN Open(t, c, r, s)
        ELSE IF t.heap[x].valid THEN Reopen(t, c, p, x)
        ELSE [t EXCEPT !.waiting = TRUE, !.active_session = Null])

UpdateSessions(g, fs, S) ==
  [g EXCEPT !.heap = [s \in Slots |-> IF s \in S THEN Updated(fs, @[s]) ELSE @[s]]]

\* Git::update(): nothing is refreshed while waiting.
UpdateAll(g, fs) ==
  IF g.waiting THEN g ELSE UpdateSessions(g, fs, Cached(g))

\* Git::update(name): several repositories may share a name.
UpdateNamed(g, fs, name) ==
  IF g.waiting THEN g
  ELSE UpdateSessions(g, fs, {s \in Cached(g) : NameOf[g.heap[s].id] = name})

\* Mutant: a leaving client takes its sessions along, shared or not.
OrphansShared(g, D) == UNION {g.held[d] : d \in D}

\* The sessions that lose their last parent with the clients of D.
Orphans(g, D) == {s \in UNION {g.held[d] : d \in D} : g.heap[s].parents \subseteq D}

\* cleanup_client for every client of D, and its entry in clients_map.  The
\* entry erased from the cache is the one under the session's present id.
Forget(g, D) ==
  [g EXCEPT
     !.clients = @ \ D,
     !.held = [c \in Ids |-> IF c \in D THEN {} ELSE @[c]],
     !.sessions = [r \in Roots |->
        IF \E s \in Orphans(g, D) : g.heap[s].id = r THEN Null ELSE @[r]],
     !.heap = [s \in Slots |->
        IF \E d \in D : s \in g.held[d]
        THEN [@[s] EXCEPT !.parents = g.heap[s].parents \ D] ELSE @[s]]]

\* fallback_to_last_session: pop until the top is usable.
LastUsable(g) ==
  {k \in DOMAIN g.history : /\ Usable(g, g.history[k])
                            /\ \A j \in DOMAIN g.history :
                                 Usable(g, g.history[j]) => j =< k}

\* Mutant: nothing found, but Git does not wait.
FallbackNotWaiting(g) ==
  IF LastUsable(g) = {}
  THEN [g EXCEPT !.history = <<>>, !.active_id = DebugId, !.active_session = Null]
  ELSE LET k == CHOOSE i \in LastUsable(g) : TRUE
       IN  [g EXCEPT !.history = SubSeq(@, 1, k), !.waiting = FALSE,
                     !.active_id = g.history[k][1],
                     !.active_session = g.sessions[g.history[k][2]]]

\* Mutant: the usable entry is popped as well.
FallbackPopsAll(g) ==
  IF LastUsable(g) = {}
  THEN [g EXCEPT !.history = <<>>, !.waiting = TRUE,
                 !.active_id = DebugId, !.active_session = Null]
  ELSE LET k == CHOOSE i \in LastUsable(g) : TRUE
       IN  [g EXCEPT !.history = SubSeq(@, 1, k - 1), !.waiting = FALSE,
                     !.active_id = g.history[k][1],
                     !.active_session = g.sessions[g.history[k][2]]]

Fallback(g) ==
  IF LastUsable(g) = {}
  THEN [g EXCEPT !.history = <<>>, !.waiting = TRUE,
                 !.active_id = DebugId, !.active_session = Null]
  ELSE LET k == CHOOSE i \in LastUsable(g) : TRUE
       IN  [g EXCEPT !.history = SubSeq(@, 1, k), !.waiting = FALSE,
                     !.active_id = g.history[k][1],
                     !.active_session = g.sessions[g.history[k][2]]]

DropClient(g, c) ==
  LET f == Forget(g, {c})
  IN  Release(IF g.active_id = c THEN Fallback(f) ELSE f)

\* A: the clients that pinged since the last round.
DropInactive(g, A) ==
  LET f == Forget(g, g.clients \ (A \cup {DebugId}))
  IN  Release(IF g.active_id \in A THEN f ELSE Fallback(f))

NotReady(g) == [g EXCEPT !.ready = FALSE]

-----------------------------------------------------------------------------
(* The registry by itself, called by clients in any order.                  *)

GitInit == git = NewGit /\ tree \in [repos : SUBSET Roots, gone : {{}}]

ChangePath(c, p) ==
  /\ \E s \in Slots \ Live(git) : git' = ChangeGit(git, tree, c, p, s)
  /\ Len(git'.history) =< MaxHistory
  /\ UNCHANGED tree

AutoUpdate == git' = UpdateAll(git, tree) /\ UNCHANGED tree

GitChange(name) == git' = UpdateNamed(git, tree, name) /\ UNCHANGED tree

\* Server::im_leaving filters the ids, so any id may reach drop_client.
Leave(c) == git' = DropClient(git, c) /\ UNCHANGED tree

PingRound(A) == git' = DropInactive(git, A) /\ UNCHANGED tree

\* Called when the last client is gone and the server must not exit.
Idle == git.clients = {} /\ git' = NotReady(git) /\ UNCHANGED tree

\* The user makes a directory a repository, or removes the repository from it.
RepoChanges(r) ==
  /\ r \notin tree.gone
  /\ tree' = [tree EXCEPT !.repos = IF r \in @ THEN @ \ {r} ELSE @ \cup {r}]
  /\ UNCHANGED git

\* A path, and what is inside it if it is a root.
Within(p) == {q \in Paths : q = p \/ p \in Inside[q]}

\* The user deletes a file or a directory, or makes it again.
PathChanges(p) ==
  /\ \/ /\ p \notin tree.gone
        /\ tree' = [repos |-> tree.repos \ Within(p), gone |-> tree.gone \cup Within(p)]
     \/ /\ tree.gone \cap (Inside[p] \cup {p}) = {p}
        /\ tree' = [tree EXCEPT !.gone = @ \ {p}]
  /\ UNCHANGED git

GitNext ==
  \/ \E c \in Ids, p \in Paths : ChangePath(c, p)
  \/ AutoUpdate
  \/ \E r \in Roots : GitChange(NameOf[r])
  \/ \E c \in Ids : Leave(c)
  \/ \E A \in SUBSET Ids : PingRound(A)
  \/ Idle
  \/ \E r \in Mutable : RepoChanges(r)
  \/ \E p \in Deletable : PathChanges(p)

GitSpec == GitInit /\ [][GitNext]_gitVars

-----------------------------------------------------------------------------
(* What every caller relies on.                                             *)

\* Every member holds a value of its C++ type; a session pointer in use points
\* to an object that exists.
GitTypeOK ==
  /\ git \in GitType
  /\ tree \in FileSystem
  /\ \A s \in Live(git) : git.heap[s] \in Session

\* Discord::update dereferences the active session whenever Git is not waiting.
SessionWhenNotWaiting == ~git.waiting => git.active_session # Null

\* A client and its sessions agree about each other, and only tracked clients
\* hold sessions: cleanup_client walks one side to erase the other.
ParentsMatch ==
  /\ \A c \in Ids, s \in Slots :
       c \in git.heap[s].parents <=> s \in git.held[c]
  /\ \A c \in Ids : git.held[c] # {} => c \in git.clients

\* No client has two entries in a row in the history, so one editor that keeps
\* moving between repositories never makes it grow.
HistoryAlternates ==
  \A k \in 1..(Len(git.history) - 1) : git.history[k][1] # git.history[k + 1][1]

\* A client and the repositories it has sent a path of: while the client is
\* tracked, the session (with the commit counts its statistics start from) is
\* in the cache under its own id, and nothing else is.
CacheMatchesHolders ==
  /\ \A c \in Ids : \A s \in git.held[c] : git.sessions[git.heap[s].id] = s
  /\ \A r \in Roots : git.sessions[r] # Null =>
       /\ git.heap[git.sessions[r]].id = r
       /\ git.heap[git.sessions[r]].parents # {}

\* The sessions of a client survive everything but the end of that client:
\* neither another client's leaving nor a new path takes them from it.
SessionsOutliveOthers ==
  [][\A c \in git.clients \cap git'.clients : \A s \in git.held[c] :
       /\ s \in git'.held[c]
       /\ \E r \in Roots : git'.sessions[r] = s]_gitVars

\* The registry implements the counted cache of Registry: a client has opened
\* the repositories of the sessions it holds.
Reg == INSTANCE Registry WITH
  opened <- [c \in Ids |-> {git.heap[s].id : s \in git.held[c]}],
  cached <- {r \in Roots : git.sessions[r] # Null}

ImplementsRegistry == Reg!Spec

\* A client whose sessions have been there at every update since they were made
\* can be fallen back to as long as it is tracked, whatever other clients and
\* rounds did.  (An entry of a session that was invalid when it came to the top
\* is popped, and does not return with the repository or the file.)
ClientsRemembered ==
  \A c \in Ids :
    git.held[c] # {} /\ (\A s \in git.held[c] : ~git.heap[s].faltered) =>
      \E k \in DOMAIN git.history : /\ git.history[k][1] = c
                                    /\ Usable(git, git.history[k])

\* A session is erased from the cache only when it has no parents left ("The
\* session is no longer needed, if it has no parents", git.cc:182).
ErasedWithoutParents ==
  [][\A s \in Cached(git) \ Cached(git') : git'.heap[s].parents = {}]_gitVars

=============================================================================
