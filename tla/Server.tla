------------------------------- MODULE Server -------------------------------
(***************************************************************************)
(* The running program: the HTTP server with its connections (server.cc,    *)
(* connection.cc), the 15 second timer (timer.cc) and the presence it keeps *)
(* up (discord.cc), around the registry of Git.  Everything runs in         *)
(* handlers of one io_context, on one thread: a handler is one step.  What  *)
(* interleaves are the handlers: requests of several editors, the expiry of *)
(* the timer, and wait handlers that are already queued when the timer is   *)
(* cancelled or armed again.                                                *)
(***************************************************************************)
EXTENDS Git

CONSTANTS
  Users,       \* the ids that send requests
  ArgLines,    \* the command lines: the switches each of them sets
  MaxConns     \* bound on the connections open at a time

\* The switches that decide anything here.
Switches == {"auto_update", "prevent_shutdown", "dont_await_repo"}

ASSUME UsersAssumption == Users \subseteq Ids
ASSUME ArgsAssumption == ArgLines \subseteq SUBSET Switches
ASSUME ConnsAssumption == MaxConns \in Nat \ {0}

VARIABLES
  timer,     \* Timer: keep_alive, looping, the armed wait, the queued handlers
  discord,   \* Discord: alive, has_presence; its socket: a read outstanding
  server,    \* Server: args, alive_clients, previous_clients, exitting, the acceptor
  conns,     \* accepted connections whose request has not been read
  silent,    \* the editors are gone: no path and no ping will come any more
  process    \* "running", "ended" (io.run returned) or "crashed"

serverVars == <<git, tree, timer, discord, server, conns, silent, process>>

\* The state a handler works on.
World == [git |-> git, timer |-> timer, discord |-> discord,
          server |-> server, process |-> process]

Becomes(world) ==
  \E w \in {world} :
    /\ git' = w.git /\ timer' = w.timer /\ discord' = w.discord
    /\ server' = w.server /\ process' = w.process

\* Args: a switch that is not given is off.
Given(w, switch) == switch \in w.server.args

-----------------------------------------------------------------------------
(* Discord (discord.cc).                                                    *)

\* clear_presence closes the client's sockets.  A read that is outstanding
\* fails, and its handler may connect and read again (client_socket.cc).
ClearPresence(w) == [w EXCEPT !.discord.has_presence = FALSE]

\* update: the first call starts Discord, and sends at once if it may.
DiscordUpdate(w) ==
  IF w.discord.alive \/ Given(w, "dont_await_repo") \/ w.git.ready
  THEN [w EXCEPT !.discord.alive = TRUE, !.discord.has_presence = TRUE,
                 !.discord.reading = TRUE]
  ELSE [w EXCEPT !.discord.alive = TRUE]

-----------------------------------------------------------------------------
(* The end of the service.                                                  *)

\* Mutant: looping is not reset.
StopLoopStillLooping(w) ==
  [w EXCEPT !.timer.keep_alive = FALSE, !.timer.armed = FALSE,
            !.timer.done = IF w.timer.armed THEN Append(@, "abort") ELSE @]

\* Timer::stop_loop: a cancelled wait gets its handler queued with an error; a
\* handler that is queued already keeps its result.
StopLoop(w) ==
  [w EXCEPT !.timer.keep_alive = FALSE, !.timer.looping = FALSE,
            !.timer.armed = FALSE,
            !.timer.done = IF w.timer.armed THEN Append(@, "abort") ELSE @]

\* Server::stop_accept: cancel throws on a closed acceptor, and main returns.
StopAccept(w) ==
  IF w.server.open
  THEN [w EXCEPT !.server.accepting = FALSE]
  ELSE [w EXCEPT !.process = "ended"]

\* Server::try_to_shutdown.
TryToShutdown(w) ==
  IF Given(w, "dont_await_repo") /\ ~w.git.ready THEN w
  ELSE IF w.git.clients # {} THEN w
  ELSE IF Given(w, "prevent_shutdown")
       THEN StopLoop([w EXCEPT !.git = NotReady(@)])
       ELSE StopAccept(StopLoop([w EXCEPT !.server.exitting = TRUE]))

-----------------------------------------------------------------------------
(* Timer (timer.cc).                                                        *)

\* Mutant: one ping is taken from the queue, not all of them.
PingCallbackOne(w) ==
  LET first == IF w.server.alive = {} THEN {}
               ELSE {CHOOSE c \in w.server.alive : TRUE}
      active == first \cup (w.server.previous \cap {DebugId})
  IN  TryToShutdown([w EXCEPT !.server.alive = @ \ first, !.server.previous = active,
                              !.git = DropInactive(@, active)])

\* Mutant: clients are dropped, but nobody asks whether it was the last one.
PingCallbackStays(w) ==
  LET active == w.server.alive \cup (w.server.previous \cap {DebugId})
  IN  [w EXCEPT !.server.alive = {}, !.server.previous = active,
                !.git = DropInactive(@, active)]

\* The callback of register_ping_callback: one round of pings is over.
PingCallback(w) ==
  LET active == w.server.alive \cup (w.server.previous \cap {DebugId})
  IN  TryToShutdown([w EXCEPT !.server.alive = {}, !.server.previous = active,
                              !.git = DropInactive(@, active)])

\* loops_body.
LoopsBody(w, fs) ==
  IF ~w.git.ready THEN w
  ELSE LET q == PingCallback(w)
           u == IF Given(w, "auto_update") THEN [q EXCEPT !.git = UpdateAll(@, fs)] ELSE q
       IN  IF ~q.timer.keep_alive THEN q
           ELSE IF ~u.git.ready /\ Given(w, "prevent_shutdown") THEN ClearPresence(u)
           ELSE DiscordUpdate(u)

\* loop: expires_at cancels a wait that is still armed.
Loop(w, fs) ==
  IF w.timer.keep_alive
  THEN LoopsBody([w EXCEPT !.timer.armed = TRUE,
                           !.timer.done = IF w.timer.armed
                                          THEN Append(@, "abort") ELSE @], fs)
  ELSE LoopsBody(w, fs)

\* start_loop: while looping it forces one call of the body.
StartLoop(w, fs) ==
  IF w.timer.looping THEN LoopsBody(w, fs)
  ELSE Loop([w EXCEPT !.timer.looping = TRUE, !.timer.keep_alive = TRUE], fs)

-----------------------------------------------------------------------------
(* The requests (Connection::handle_method and the methods of Server).      *)

\* Mutant: a path outside of every repository does not start the loop.
SetPathOnlyValid(w, fs, c, p, s) ==
  LET q == [w EXCEPT !.git = ChangeGit(@, fs, c, p, s), !.server.alive = @ \cup {c}]
  IN  IF q.discord.has_presence \/ q.git.waiting THEN q
      ELSE [StartLoop(q, fs) EXCEPT !.server.alive = @ \cup {c}]

\* set_path is also a ping, counted before the body runs and once more after.
SetPath(w, fs, c, p, s) ==
  LET q == [w EXCEPT !.git = ChangeGit(@, fs, c, p, s), !.server.alive = @ \cup {c}]
  IN  IF q.discord.has_presence THEN q
      ELSE [StartLoop(q, fs) EXCEPT !.server.alive = @ \cup {c}]

\* construct_json asks a session for its branch: a session without a
\* repository has none, and branches.at throws what nobody catches.
NoBranch(w) == /\ w.git.active_session # Null
               /\ ~w.git.heap[w.git.active_session].valid

GetInfo(w) == IF NoBranch(w) THEN [w EXCEPT !.process = "crashed"] ELSE w

\* get_path dereferences the active session, which may be null.
GetPath(w) ==
  IF w.git.active_session = Null THEN [w EXCEPT !.process = "crashed"] ELSE w

\* A leave notice counts only from a client of the previous round.
ImLeaving(w, c) ==
  IF c \notin w.server.previous THEN w
  ELSE TryToShutdown([w EXCEPT !.git = DropClient(@, c)])

\* git_change, from the hook of a repository.
HookNotice(w, fs, name) ==
  IF Given(w, "auto_update") THEN w ELSE [w EXCEPT !.git = UpdateNamed(@, fs, name)]

\* Mutant: the acceptor is closed but accepts one connection more.
ShutdownStillAccepts(w) ==
  IF ~w.server.open THEN [w EXCEPT !.process = "ended"]
  ELSE StopLoop([w EXCEPT !.server.exitting = TRUE, !.server.open = FALSE,
                          !.discord.alive = FALSE])

\* release_port, the answer, then Server::shutdown.  Cancelling an acceptor that
\* is closed already throws.
Shutdown(w) ==
  IF ~w.server.open THEN [w EXCEPT !.process = "ended"]
  ELSE LET q == GetInfo([w EXCEPT !.server.exitting = TRUE, !.server.open = FALSE,
                                  !.server.accepting = FALSE])
       IN  IF q.process = "crashed" THEN q
           ELSE StopLoop([q EXCEPT !.discord.alive = FALSE])

-----------------------------------------------------------------------------
(* The program.                                                             *)

ServerInit ==
  /\ GitInit
  /\ timer = [keep_alive |-> TRUE, looping |-> FALSE, armed |-> FALSE, done |-> <<>>]
  /\ discord = [alive |-> FALSE, has_presence |-> FALSE, reading |-> FALSE]
  /\ \E line \in ArgLines :
       server = [args |-> line, alive |-> {}, previous |-> {}, exitting |-> FALSE,
                 open |-> TRUE, accepting |-> TRUE]
  /\ conns = 0
  /\ silent = FALSE
  /\ process = "running"

Running == process = "running"

\* The accept handler starts the connection and accepts the next one.
Accept ==
  /\ Running /\ server.accepting /\ conns < MaxConns
  /\ conns' = conns + 1
  /\ UNCHANGED <<git, tree, timer, discord, server, silent, process>>

\* A connection carries one request: after the answer nobody holds it.
Request(w) ==
  /\ Running /\ conns > 0
  /\ conns' = conns - 1 /\ Becomes(w)
  /\ UNCHANGED <<tree, silent>>

RequestSetPath(c, p) ==
  /\ ~silent
  /\ \E s \in Slots \ Live(git) : Request(SetPath(World, tree, c, p, s))
  /\ Len(git'.history) =< MaxHistory

RequestPing(c) == ~silent /\ Request([World EXCEPT !.server.alive = @ \cup {c}])
RequestImLeaving(c) == Request(ImLeaving(World, c))
RequestGitChange(name) == Request(HookNotice(World, tree, name))
RequestGetPath == Request(GetPath(World))
RequestGetInfo == Request(GetInfo(World))
RequestShutdown == Request(Shutdown(World))

\* is_running, an unknown method, a bad request, the end of the stream.
RequestOther == Request(World)

\* The deadline passes: the wait handler is queued.
Expire ==
  /\ Running /\ timer.armed
  /\ timer' = [timer EXCEPT !.armed = FALSE, !.done = Append(@, "ok")]
  /\ UNCHANGED <<git, tree, discord, server, conns, silent, process>>

\* The next wait handler runs.
TimerHandler ==
  /\ Running /\ timer.done # <<>>
  /\ LET w == [World EXCEPT !.timer.done = Tail(@)]
     IN  Becomes(IF Head(timer.done) = "ok" THEN Loop(w, tree) ELSE ClearPresence(w))
  /\ UNCHANGED <<tree, conns, silent>>

\* A body that is JSON but no object has no "method": operator[] throws what
\* neither handle_read nor main catches.
RequestNotObject == Request([World EXCEPT !.process = "crashed"])

\* A key that is not there is read from a const json: "params", or the optional
\* "editor".  That is undefined: the assertion of the library ends the process,
\* or the value is taken for no string and no object (RequestOther,
\* RequestSetPath).
RequestKeyMissing == Request([World EXCEPT !.process = "crashed"])

\* Discord answers the last frame, or the socket is found to be offline.
Echo ==
  /\ Running /\ discord.reading
  /\ discord' = [discord EXCEPT !.reading = FALSE]
  /\ UNCHANGED <<git, tree, timer, server, conns, silent, process>>

\* Nothing is left to wait for: io.run returns and main ends.
RunReturns ==
  /\ Running /\ ~server.accepting /\ conns = 0
  /\ ~timer.armed /\ timer.done = <<>> /\ ~discord.reading
  /\ process' = "ended"
  /\ UNCHANGED <<git, tree, timer, discord, server, conns, silent>>

RepoStep(r) ==
  /\ RepoChanges(r)
  /\ Running
  /\ UNCHANGED <<timer, discord, server, conns, silent, process>>

PathStep(p) ==
  /\ PathChanges(p)
  /\ Running
  /\ UNCHANGED <<timer, discord, server, conns, silent, process>>

\* The last editor closes, or all of them crash.
FallSilent ==
  /\ Running /\ ~silent
  /\ silent' = TRUE
  /\ UNCHANGED <<git, tree, timer, discord, server, conns, process>>

ClientStep ==
  \/ \E c \in Users, p \in Paths : RequestSetPath(c, p)
  \/ \E c \in Users : RequestPing(c) \/ RequestImLeaving(c)
  \/ \E r \in Roots : RequestGitChange(NameOf[r])
  \/ RequestGetPath \/ RequestGetInfo \/ RequestShutdown
  \/ RequestOther \/ RequestNotObject \/ RequestKeyMissing

ServerNext ==
  \/ Accept
  \/ ClientStep
  \/ Expire
  \/ TimerHandler
  \/ Echo
  \/ RunReturns
  \/ FallSilent
  \/ \E r \in Mutable : RepoStep(r)
  \/ \E p \in Deletable : PathStep(p)

ServerSpec == ServerInit /\ [][ServerNext]_serverVars

\* Handlers that are queued run; the clock reaches every deadline; Discord
\* answers; a peer that connected closes its connection if it sends nothing.
\* No editor has to act, and none has to fall silent.
ServerFairSpec ==
  /\ ServerSpec
  /\ WF_serverVars(Expire)
  /\ WF_serverVars(TimerHandler)
  /\ WF_serverVars(Echo)
  /\ WF_serverVars(RunReturns)
  /\ WF_serverVars(RequestOther)

-----------------------------------------------------------------------------
(* What the program promises.                                               *)

ServerTypeOK ==
  /\ GitTypeOK
  /\ timer \in [keep_alive : BOOLEAN, looping : BOOLEAN, armed : BOOLEAN,
                done : Seq({"ok", "abort"})]
  /\ discord \in [alive : BOOLEAN, has_presence : BOOLEAN, reading : BOOLEAN]
  /\ server \in [args : ArgLines, alive : SUBSET Ids, previous : SUBSET Ids,
                 exitting : BOOLEAN, open : BOOLEAN, accepting : BOOLEAN]
  /\ conns \in 0..MaxConns /\ silent \in BOOLEAN
  /\ process \in {"running", "ended", "crashed"}

\* A timer that says it is looping has a next round coming, whatever waits were
\* cancelled, armed again or queued in the meantime, and it loops only while
\* there are clients to watch.
LoopIsAlive ==
  Running /\ timer.looping =>
    /\ timer.armed \/ \E k \in DOMAIN timer.done : timer.done[k] = "ok"
    /\ timer.keep_alive /\ git.ready /\ git.clients # {}

\* No round drops a client that sent a path or a ping since the last one, or the
\* debugging client; others are dropped by a round or by their own leave notice.
PingersStay ==
  [][\A c \in git.clients \ git'.clients :
       c \in server.alive \cup {DebugId} => RequestImLeaving(c)]_serverVars

\* No presence is left that nobody refreshes, and no client that nobody watches:
\* while there is either, the loop runs, unless the server is on its way out or
\* the wait handler that clears the presence is queued.  (Not so with
\* --prevent-shutdown: MissingErased.)
Watched ==
  Running /\ ~server.exitting /\ timer.done = <<>> =>
    (discord.has_presence \/ git.clients # {} =>
       timer.looping \/ Given(World, "prevent_shutdown"))

\* When the editors are gone, by notice or without a word, the server ends.
EndsWhenSilent ==
  silent /\ git.clients # {} /\ ~Given(World, "prevent_shutdown") ~> ~Running

\* A shutdown request ends the server, whatever it was doing and whatever
\* connections accepted before still ask for.
ShutdownEnds == silent /\ ~server.open ~> ~Running

\* --prevent-shutdown: a client that stops pinging is forgotten all the same
\* ("If an ID is missing, its cached data will be erased", server.h:66-67).
MissingErased == silent /\ git.clients # {} ~> git.clients = {} \/ ~Running

\* The request for the active session is answered ("Returns data for the active
\* github session", connection.cc:200).
GetInfoAnswers == [][RequestGetInfo => process' = "running"]_serverVars

=============================================================================
