# A TLA+ model of p-presence

p-presence is a small HTTP server that shows in Discord what a programmer works
on.  Editors send it the paths they open; it finds the git repository of each
path, keeps a session with commit counts per repository, and updates a Discord
presence every 15 seconds until the last editor is gone.  This directory holds
TLA+ modules for the parts of the program (`src/src/`) that keep state, the TLC
configurations that check them on small instances, and proofs checked by TLAPS.

The program runs on one thread: everything happens in handlers of one
`boost::asio::io_service`.  A handler is one step of the models.  What makes the
program hard is not data races but the order of handlers: requests of several
editors, rounds of the timer, wait handlers that are already queued when the
timer is cancelled or armed again, repositories that appear and disappear
between two calls.

## Inventory

| Component (source) | State | Operations | Interacts with | What makes it correct | Modelled in |
|---|---|---|---|---|---|
| Git (`git.cc`) | ready, waiting, active id and session, tracked clients with the sessions they hold, cache of sessions by id, history stack | `change_git`, `update`, `drop_client`, `drop_inactive_clients`, `not_ready`, fallback | Session, GitWalker; called by Server, Timer, Discord | an active session whenever it is not waiting; clients and sessions agree; a session is cached as long as a client holds it | `Git`, `Registry` |
| Session (`session.cc`) | valid, id, dirty path, parents, language, counters per branch | constructor, `update`, `update_path`, destructor | GitWalker, GitHook, Language | follows its repository; counters relative to the first look; the language of the last path | `Git` (life), `GitHook` (hooks), `BranchStats` (counters), `Presence` (language) |
| GitWalker (`git_walker.cc`) | repository, HEAD, upstream, counts: for one look | discovery, opening, two walks | libgit2, git commands of the user | innermost repository of a path; a torn look is repaired by the next | `Git` (discovery), `BranchStats` (the look) |
| GitHook (`git_hook.cc`) | implanted, for each Session; the hook files | implant, strip | Session, the user who writes hooks | the user's lines survive; one section, which goes with the last session | `GitHook` |
| Server (`server.cc`) | alive and previous clients, exitting, started, acceptor | start, accept, the requests, the ping round, shutdown, release_port | Git, Timer, Discord, Connection, AsyncReplace | no client that pings is dropped; the process ends when the last one is gone | `Server`, `Replace` |
| AsyncReplace (`async_replace.cc`) | a 5 second timer, a pending answer | ask a running server to stop | Server, the server of another process | `start` has its effect once; the port does not end up with nobody | `Replace` |
| Connection (`connection.cc`) | one request | read, dispatch, answer | Server | one answer per request | `Server` (`conns`, the `Request...` actions) |
| Timer (`timer.cc`) | keep_alive, looping, the armed wait | `start_loop`, `stop_loop`, the wait handler | Server's ping callback, Git, Discord | a looping timer has a next round | `Server` |
| Discord, DiscordPresence (`discord.cc`, `discord_presence.h`) | alive, has_presence | `update`, `clear_presence`, `stop`, the state string | Git, Session, Client | a presence is refreshed or cleared; it says what the session knows | `Server`, `BranchStats` (`StateString`), `Presence` (`Message`) |
| Client, ClientSocket (`client.cc`, `client_socket.cc`) | connection status, reconnect budget, last presence | connect, authenticate, send, handle echo and errors | Discord | every link starts with a handshake; retries end; the presence comes back with Discord | `ClientSocket` |
| Language (`language.cc`, the table in `utils.h`) | colours, languages of extensions | parse the table, look up | Session | the first language that can be drawn takes an extension | `LanguageTable`, `Language` |
| main, Args (`main.cc`, `args.cc`) | the switches | parse, catch | all | the switches that decide something | `server.args` and `process` of `Server` |
| utils (`utils.cc`) | none | string conversion on Windows | | | not modelled |

The hazards, each at its line, are in `PROJECT.json` with the properties that
would catch them.

## The modules

Two families share nothing but the program: `Git`, which `Server` and `GitHook`
extend, and `BranchStats` with `Language`, which `Presence` composes.
`ClientSocket` and `Replace` stand by themselves.

### Git, Registry

`Git` models class `Git`, the sessions it caches and the upward discovery of a
repository.  Its variable `git` is a record of the members of the class plus a
heap of Session objects: the C++ code shares sessions by `shared_ptr` between
the cache, the clients and `active_session`, and an object that is no longer
cached may still be held, so identity matters and a session is an address in
`Slots`.  `Release` is the last `shared_ptr` going away.

The variable `tree` is the file system: the roots that hold a repository now
(`tree.repos`) and the paths that are deleted (`tree.gone`).  The search of
`GitWalker` starts from the path itself and fails when that is gone, so a session
whose `dirty_path` is a file that was deleted becomes invalid though its repository
is there (`Innermost`, `PathChanges`).  `Home[r]` is the directory two above the git
directory, which the walker takes for the root (`git_walker.cc:48`): it is `r`, unless
the git directory lies elsewhere, as that of a submodule or a linked worktree does.
`faltered` is history: an update of the session has found nothing.

The methods are operators on that record, because handlers of the server call
several of them in one step:

| Operator | Code |
|---|---|
| `ChangeGit` = `Track`, then `Open`, `Reopen`, or waiting | `Git::change_git` |
| `UpdateAll`, `UpdateNamed`, `Updated` | both `Git::update`, `Session::update` |
| `Forget` | `cleanup_client` and the erasure from `clients_map`, for a set of clients |
| `Fallback`, `LastUsable` | `fallback_to_last_session` |
| `DropClient`, `DropInactive` | `drop_client`, `drop_inactive_clients` |
| `NotReady` | `not_ready` |

`Forget` takes all clients of a round at once.  The loop of
`drop_inactive_clients` drops them one after the other, but a session is erased
exactly when its last parent goes, whatever the order, and no handler runs in
between.

The actions of `GitNext` call one method each, in any order: the registry by
itself, with callers that promise nothing.

`Registry` is what `Git` promises when no repository lies inside another one and
each has its git directory in itself (`Flat`): clients open repositories, a repository is cached exactly as long as a
client that opened it is tracked.  `ImplementsRegistry` maps the sessions a
client holds to the repositories it opened.  With nested repositories the
promise is broken (run `git_drift`), so `Flat` is a real hypothesis.

### Server

`Server` extends `Git` with the program around it.  A handler is an operator
from a world (the record of all members) to a world, and an action applies it:
`RequestSetPath` is the whole of `Connection::handle_set_path`, including the
loop body `Server::set_path` may run, with the ping callback, the drops, the
attempt to shut down and the update of the presence inside it.

 - `timer.armed` is the wait `async_wait` has registered, `timer.done` the queue
   of its handlers that are ready with a result: "ok" after the deadline,
   "abort" after `cancel` or `expires_at`.  A handler that is queued keeps its
   result when the timer is cancelled.  asio runs ready handlers in order, and a
   request whose bytes have arrived may be in that queue before or after them:
   the model lets requests run at any moment.
 - `conns` counts accepted connections that have not been read.  A connection
   carries one request; nothing limits how long it waits.
 - `discord.reading` is a read outstanding on the socket to Discord, which keeps
   `io.run` from returning.
 - `process` becomes "ended" when `io.run` returns or a `system_error` reaches
   `main`, and "crashed" when another exception or a null pointer ends it.  A body that
   is JSON but no object throws such an exception (`RequestNotObject`); a key that is not
   there is read from a const json, which is undefined, so that the process may abort
   (`RequestKeyMissing`) or take the request for another one.
 - `silent` is the environment's: from the moment it holds no editor sends a path
   or a ping.  Notices, hooks, `get_info`, shutdown requests may still come.

 - `server.args` is the command line, one of `ArgLines`; `Given` asks for a switch.

Not in `Server`: starting with `--replace` (in `Replace`), parsing of requests, the
text of answers and of the presence.

### ClientSocket

`ClientSocket` is the one socket `Client` keeps to Discord, with the two calls
`Discord` makes: `Update` (`dispatch_presence`, every round) and `Clear`
(`close_sockets`).

 - `sock` is the members (`connected`, `reconnects`, the presence), the link, and
   the handlers: `reads` are outstanding `async_read`s, `done` the handlers queued
   with a result.  Closing a socket queues the handlers of its reads with an error;
   they run later, perhaps when another link is open, and act on that one.
 - `Authenticate`, `SendPresence` and `HandleError` call each other in the code;
   here `Retry` is the one nested attempt, because whether Discord listens does not
   change within a handler.  A refused connection is the only case that recurses
   further, and `Refused` is what that recursion leaves of the budget.
 - `dirty`: both kinds of read share one buffer, and `handle_presence` compares the
   number of bytes in it with the size of the frame.  Bytes are not modelled: while
   more than one answer may be in the buffer the comparison may go either way.
 - `app` is Discord, which may have no socket file, refuse, or listen, and may break
   a link at any time.  `calm` says that it listens and breaks nothing any more: from
   then on handlers that are queued run before the next round, 15 seconds later.
   `quiet` says that no round calls the socket any more.

`Server` sees of all this only `discord.reading`, a read that keeps `io.run` from
returning; that it becomes false again is `RetriesEnd` here.

### GitHook

`GitHook` extends `Git` with the hook files.  Each action of `Git` that a caller can
cause is taken together with `HooksFollow`, which derives from the heap before and
after the step what constructors (`Created`), destructors (`Destroyed`) and updates
that found a repository again (`Revived`) write: `Implant` and `Clean` are
`implant_hook` and `cleanup_hook` on the lines of a file, `implanted` the member of
the same name.  A new object is constructed before the one it replaces goes; updates
visit the sessions in any order.  The seven hooks are written alike, so one file
stands for them.  `Strip` drops the lines of the section one by one (`StripLine`), and
`Written`, what is the user's of a file, picks his: both are recursive functions of the
number of lines read.  Around the hooks are the user, who adds lines at either end and deletes his hook, `Stop` (the
destructors of `main`), and `Crash`, which may come between the truncation of a file
and its new text: the text goes out in one write, so no file keeps half of it.
`theirs` and `left` are history: what the user wrote and no crash cut off, and whether
a crash left a section. `Fresh` says what a new repository may have for a hook.

### LanguageTable, Language, BranchStats, Presence

`LanguageTable` is the table compiled in as `LANGUAGE_JSON`, all entries in order,
with the extensions that several languages list.  `Language` parses a table, one turn
of the loop per step, with `find_group` as a recursive function.  The table is its
constant, so that what is proved does not rest on its entries: `TableAssumption` says
what the proofs need of it, and TLC evaluates that on the compiled table, which is the
value of `Table` in `presence`.  Every walk of `find_group` ends with the const
`operator[]` and a key that is not there, "group" in nearly every entry and, for ECLiPSe,
the group itself.  That is undefined: `ParseAborts` is what assertions make of it,
`ParseEntry` what follows when the value read is no string.

`BranchStats` is one session and its look at the repository.  `LookBegin`, `LookOpen`,
`CountHead` and `LookEnd` are the discovery, `find_head_and_origin` and the two walks
of `GitWalker`: `git` runs in other processes, so the commands of `UserNext` (commit,
rewrite, push, fetch, checkout, upstream set and unset, the repository removed and
made again) fall between them.  `LookLost` is a look that finds nothing, because the
repository or the file it starts from is gone; by itself `BranchStats` lets any look
be lost.  `Push` is any push, also to a new upstream (`-u`) or by force; `SetUpstream`
is `git branch -u`, which may name any branch of a remote, of any number of commits, in
the place of the upstream of before.  `UpdateStats` is `Session::update_stats`, `StateString` is
`build_state_string`.  A branch is the number of its commits.  `first`, `quiet` and
`foreign` are history: what the session first counted, whether anything moved since
the look began, and which branches were rewritten, pushed to by others, or set to
follow a branch that the user has not just pushed.

`Presence` composes both: the paths an editor sends, with `--auto-update` or without
it, and the looks that start from them, decide the language; `Message` is what
`Discord::update` says of a session.  `get_props` is asked for the extension of any
path, so a repository whose directory has one (`three.js`) speaks a language as well
(`PropsOf`).  `missing` are the files that are deleted: a look from one of them is
`UpdateLost`.

### Replace

`Replace` is several processes of the program and one port.  A process started with
`--replace` connects to whoever has the port (`Connect`), writes its request
(`Write`), and runs its loop without an acceptor until the answer or an error
(`HandleResponse`, which cancels the timer) or the expiry (`Expire`) queues
`close_socket`, which starts the server.  The server that is asked accepts, frees the
port before it answers (`RequestShutdown`), may be left by its editors in the
meantime (`Exit` cancels the acceptor, which keeps the port until `RunReturns`), or be
killed.  `Other` is a program that is not Presence: it may have the port, take it when
it is free, answer anything or nothing.  `excuse` is history: a program that held the port
ended by itself, or a timer expired before the answer.

## The runs

| Run | Instance | Shows |
|---|---|---|
| `git_flat` | ids 0, c1, c2; two roots side by side, one mutable; a file that comes and goes; 3 addresses; history up to 3 | types, `SessionWhenNotWaiting`, `ParentsMatch`, `HistoryAlternates`, `CacheMatchesHolders`, `ClientsRemembered`, `SessionsOutliveOthers`, `ImplementsRegistry` |
| `server` | c1, c2; one repository that comes and goes, with its directory or without; two connections; every combination of switches | types, `LoopIsAlive`, `Watched`, `PingersStay` |
| `server_ends` | id 0 and c1; c1 sends; two connections; a repository that comes and goes; `--auto-update` | `EndsWhenSilent`, `ShutdownEnds` under fairness |
| `client_socket` | two presences; budget up to 2, three handlers pending | types, `HandshakeFirst`, `OfflineClosed`, `RetriesEnd`, `Heals` |
| `git_hooks` | ids 0 and c1; two repositories, one inside the other, that come and go; 2 addresses; a line of the user in each | types, `UserLinesKept`, `OneSection`, `NoStraySection` across crashes and restarts |
| `presence` | the whole table, 8 of the shared extensions; two files, one that may be deleted, a root called like a file of Rust; a branch with an upstream and a detached head; commits up to 2, three commands | types, `TallyExact`, `PushedOfAhead`, `FirstDrawableWins`, `ColoursNotEmpty`, `LanguageFollows` |
| `replace` | three processes and a foreign program | types, `PortServed`, `KeepsPort`, `Settles` under fairness |
| `git_drift`, `server_missing`, `server_info`, `client_cleared`, `hook_lost` | | disagreements between the code and what its comments and docs say, below |

Each of the last five states what a comment or the README says and is expected to be
violated.  Repositories inside one another are in `git_drift` and the runs of the hooks; the
theorems hold for every nesting.  In all runs each root is its own `Home`: that a submodule or
a linked worktree, whose `Home` is another directory, breaks neither the containers of `Git` nor the
hooks is proved (`GitSound` and `HookSound` hold for every `Home`), not checked.

Bounds.

 - Two editors and id 0 are enough for a session to be shared, for one holder to leave
   while another stays, for a history that alternates and for a round that drops
   several clients; two roots for sharing, drift and name-directed updates; three
   addresses so that an uncached but held object, a cached one and a free address exist
   together.  `MaxHistory` bounds `session_history`, which the code does not bound:
   three entries already hold a usable entry under an unusable one, and entries of two
   clients.
 - The server runs have one root and two entries: what the loop does depends on whether
   the registry has clients and is ready.  `MaxConns` bounds open connections: two let a
   request run after the one that decided to exit.  `timer.done` needs no bound: every
   entry comes from an armed wait.
 - `MaxBudget` bounds `reconnects`, which grows without limit while Discord is absent: 2
   lets a retry follow a retry.  `MaxPending` bounds handlers: three are a handshake and
   a presence of one link, and one left over from the link before.
 - In `git_hooks` two addresses give an object that lives on beside the one that
   replaced it, which is all that can meet over one file; the repository inside the other
   lets a session that has become invalid find the other one and move its hooks there.
   `MaxLines` bounds the lines of the user in one file: with one, the section lies before
   it or behind it.  `Fresh` makes one repository with a hooks directory, the other
   without.  In `hook_lost` both repositories stay and a second editor takes part.
 - In `presence`, `MaxCommands` bounds the git commands of a behaviour: three are a
   commit, a push and one more in the middle of a look, or a switch to a detached head and
   back; `MaxCommits` the commits of a branch.  `Shared` has, of the extensions several languages list, those taken by the
   first, by a later one, by one of a group, and by none.  The state is finite without
   a bound on looks.
 - In `replace` three processes are a server and two newcomers that ask it, or a
   newcomer that asks a newcomer.

Fairness.  `ServerFairSpec` assumes that deadlines pass, queued handlers run, `io.run`
returns when nothing is left, Discord answers a frame, and a peer closes the
connection it opened if it sends nothing (the code has no timeout for it: an
idle connection does keep an exiting server alive).  No editor is assumed to act.
`SocketFairSpec` assumes that queued handlers run, that Discord answers on a link
that lasts, and that the 15 second loop dispatches again while there is a presence
(`LoopIsAlive` and `Watched` are why it does).  `ReplaceFairSpec` assumes of a newcomer
that it writes the request it has constructed, that its five seconds pass and that
its queued handler runs; nothing is assumed of the program it has asked.  `Git`,
`GitHook` and `Presence` state safety only.

Deadlock is not checked where the system may stop: in `Server`, whose process may end,
in `ClientSocket`, which may be quiet, in `Replace`, when every process has ended, and
in `Presence`, where a look may crash the process.

Symmetry of addresses and editors is used in runs without liveness only.

## Disagreements found

 1. `git_drift` (`git.cc:183`): `Session::update` gives a session another id when
    an inner repository appears or disappears; `cleanup_client` then erases the
    cache entry of that id, which may be another session that still has parents.
 2. `server_missing` (`server.cc:92`): with `--prevent-shutdown`, a path sent while
    the abort handler that clears the presence is still queued finds a presence and
    starts no loop; its client is tracked and never dropped, no presence is shown,
    until another path arrives.
 3. `server_info` (`session.cc:166`): the branch of a session that became invalid
    is looked up in an empty map; `std::out_of_range` is not what `main` catches.
 4. `client_cleared` (`client_socket.cc:147`): closing the socket aborts the read
    that is outstanding; its handler takes that for a broken link, connects again and
    sends the presence that was cleared.
 5. `hook_lost` (`git_hook.cc:14`): the destructor strips the section of a hook file
    whoever implanted it.  A session that only `active_session` keeps may die after
    another one was made for the repository; that one believes it has implanted
    (`git_hook.cc:52`), and its commits are no longer announced.

Seen while modelling, without a run:

 - a file that is deleted before the update after it was opened invalidates the session:
   its tallies and language are lost, and the client cannot be fallen back to, although
   the repository is there (`session.cc:54`);
 - a submodule or a linked worktree is taken for the directory two above its git
   directory (`git_walker.cc:48`): its name is that of the directory, and the next update
   goes on with the repository that contains it, if there is one;
 - a request whose body is a JSON array or string ends the process (`connection.cc:86`),
   and one without `editor` may (`connection.cc:158`);
 - visiting a session that is invalid makes Git wait, and `update()` does nothing while
   Git waits (`git.cc:124`): the session stays invalid after its repository is back;
 - after a fallback `active_id` is the client of a history entry and `active_session`
   the session cached now under its repository (`git.cc:262`); the client may have left
   long ago, though `git.h:94` calls it the owner of the active session;
 - every answer of Discord takes a reconnect (`client_socket.cc:115`), also that of a
   presence whose reconnect was spent: the budget goes below zero (`:190` adds one), and a
   later presence that meets a closed link is given up;
 - a wait handler queued with "ok" when the loop is stopped returns early
   (`timer.cc:56`), so the presence is not cleared as `server.cc:217-218` expects;
 - `ready` is set before the path is looked at (`git.cc:49`), so the first presence
   does not wait for a repository, as the README's line 31 says it does;
 - `--dont-await-repo` sends nothing before the first path, because nothing starts
   the loop (`args.h:52`, `timer.cc:56`);
 - `get_path` dereferences a null session before the first repository
   (`server.cc:102`);
 - a second shutdown request cancels a closed acceptor and leaves through the
   exception handler of `main`;
 - a newcomer whose five seconds expire before the answer tries the port while the old
   server still has it, and ends; the old server may then stop as asked, and nobody
   serves (`excuse` in `Replace`);
 - a fetch that moves the upstream, or `git branch -u` with another branch of the remote,
   counts as pushed: "Pushed 5 of 0" is possible, and a look that git commands overtake shows torn counts until the next one (`session.cc:106-122`);
 - "Behind by" is followed by a negative number when there is no upstream
   (`discord.cc:57`);
 - `--language` is stored and never shown, and the README's `--verbose` is not parsed
   (`args.cc:58`);
 - the pid shown is the id of the client that created the session, which may have left
   (`discord.cc:98`);
 - `find_group` reads keys that are not there with `operator[]` of a constant json, which
   is undefined, for nearly every entry of the table at every start (`language.cc:97`);
 - the table gives `.php` to Hack and `.m` to MUF, and `.md` to nobody.

## The proofs

A proof module extends the module it is about; its theorems hold for every value of the
constants, from the named assumptions of the module.

 - `GitProofs`, `GitSound`: `GitSpec => [](GitTypeOK /\ SessionWhenNotWaiting /\
   ParentsMatch /\ HistoryAlternates)`, for every nesting of repositories
   (`InsideAssumption`: the roots that contain a path form a chain).  The inductive
   invariant is `Sound(git)` with the type of `tree`.  `GitTypeOK` alone is not
   inductive: that `Release` keeps the objects in use needs parents only where sessions
   are held, and that a fallback shows an existing object needs the cache to hold live
   ones.  `Sound` is stated on the record, so that each method of the class is one lemma
   which any module that calls the method can use.
 - `GitRegistryProofs`, `CacheCounted`: `Flat` implies `GitSpec => []CacheMatchesHolders`,
   by the further invariant `Counted`: with `Flat` an update never changes an id, whatever
   repositories and paths come and go, so entries stay under the id of their session.  `RegistryImplemented`: `Flat` implies
   `GitSpec => ImplementsRegistry`: a visit is `Registry!Open`, a drop is
   `Registry!Forget`, and every other step leaves what is opened and cached alone.
   `SessionsKept` and `FallbackFinds`: `Flat` implies `GitSpec =>
   SessionsOutliveOthers` and `GitSpec => []ClientsRemembered`.  `Memory` adds to
   `Counted` that a session which never faltered is valid (`Steady`) and that each client
   whose sessions are such has an entry that leads to one of its own sessions (`Entry`), which is stronger than a usable one: a client that leaves
   takes only sessions nobody else holds, so it cannot make the entry useless.  That a
   fallback keeps it needs a last usable entry to exist, which `LastPlace` gives by the
   well-founded order of the naturals.
 - `GitHookProofs`, `HookSound`: `HookSpec => [](HookTypeOK /\ UserLinesKept /\
   OneSection /\ NoStraySection)`, for every set of editors, every nesting of
   repositories and files of any length, through crashes and restarts.  `OneSection`
   is not inductive: a strip that finds two headers or half a section keeps or drops
   other lines.  `HookIInv` says that each file is text without lines of a section, or
   two such texts around one whole section (`Shaped`), and that the user's lines in it
   are those he wrote (`Good`); that a section is a session's or was left by a crash
   (`Owned`); and that an object out of use is gone (`Tidy`), with `Sound(git)` of
   `GitProofs`.  `Follows` is what the hooks need of every method of `Git`: an object
   that stays in use moves its hooks only when it becomes valid again, which is when
   the handler strips the old file and writes the new.  `StripKeeps` is the fact about
   the text: a strip takes the section away and leaves every line around it.
 - `ServerProofs`, `ServerAlive`: `ServerSpec => [](ServerTypeOK /\ LoopIsAlive /\
   Watched)`, and `ServerSparesPingers`: `ServerSpec => PingersStay`, for every set of
   editors and command lines.  The invariant `Alive`, on the world a handler works on,
   carries `Sound(git)` over by the lemmas of `GitProofs`, and adds that a loop which
   never ran has nothing queued (`Untouched`) and that without `--prevent-shutdown` it
   stops for good (`Stopped`): a path that finds a presence may rely on the loop.
 - `ClientSocketProofs`, `SocketSafe`: `SocketSpec => [](SocketTypeOK /\ HandshakeFirst
   /\ OfflineClosed)`.  `HandshakeFirst` alone is not inductive: a presence is written
   because the status says authenticated, so the invariant `Linked` adds that such a
   link has had its first frame, and that an OFFLINE socket is closed.
 - `ReplaceProofs`: `ReplaceSound` (types, and an acceptor means `started`),
   `ServerKeepsPort` (`KeepsPort`: the handler that finds `started` changes nothing), and
   `PortIsServed`: `ReplaceSpec => []PortServed` for any number of processes.  The
   invariant `Good` says that connections lead to processes that have listened
   (`Pointed`), that one program has the port (`Single`), and, until there is an excuse,
   that a server which is being asked or stops has a newcomer with a timer that is still
   armed (`Replaced`), so somebody always serves or hopes to (`Served`).
 - `PresenceProofs`: `StatsExact` (`StatsTypeOK` and `TallyExact` of `BranchStats`),
   `PresenceTallies` and `PresencePushes` (`TallyExact` and `PushedOfAhead`, also where the
   looks are those of `Presence`).  `StatsInv` adds where each counter started (`Started`)
   and what a walker under way already has (`Walking`); `Pushes` adds that an upstream
   which has only what the user pushed is at most the branch, or where it was first
   counted.
 - `LanguageProofs`, `PresenceSpeaks`: `PresenceSpec => []LanguageFollows`.  The invariant
   says that a look starts, and will start, from the last path or the root (`Traced`),
   and that the language is right, or the look under way starts from the file that will
   set it, or `--auto-update` has not looked at the path yet (`Right`, `Late`), when it is
   that of some file that was sent (`Sent`).  `ParsedRight`:
   `PresenceSpec => [](PresenceTypeOK /\ FirstDrawableWins /\ ColoursNotEmpty)`, for every
   table of `TableAssumption`.  `ParseInv` says what each extension has been given by the
   entries read so far, and that what a read inserts into the colours is never one of
   them: the group of an entry that cannot be drawn has no colour in the end either.
   That rests on where `find_group` ends (`SkippedNotDrawable`).

Two arguments by induction over data are made without the library's theorems, which
take an operator.  A set of numbers with zero and every successor holds all of them
(`Induction`), as its complement has no least element (`WFMin` and
`NatLessThanWellFounded` of the library).  And a recursive function satisfies its
equation because some function does: `Recursion` builds it up to each length for
`Strip` and `Written`, `Descent` up to each `Depth` for `find_group`.

Every invariant of a passing run is stated by a theorem, and so are the action
properties and the refinement.  Only model-checked is liveness (`EndsWhenSilent`,
`ShutdownEnds`, `RetriesEnd`, `Heals`, `Settles`), which is out of the prover's reach
(fairness and ENABLED).  The assumptions are evaluated by TLC on the instances of the
runs, `TableAssumption` on the real table.  `Flat`, a hypothesis of the theorems of
`GitRegistryProofs`, is that no repository lies inside another and each is its own
`Home`: `git_drift` shows that the cache drifts otherwise.  No module declares a RECURSIVE operator; the loops of the
code are sets and bounded choices (`LastUsable`), folds, recursive functions, or steps.

## Not modelled

 - `utils.cc`: a string conversion compiled on Windows only.
 - The bytes of requests, answers and frames: `Connection` parses a request with
   Boost.Beast and nlohmann::json, and a request that does not parse is `RequestOther`
   (one that parses to something else than an object is `RequestNotObject`); the presence is converted to JSON field by field.
 - The parse of the command line (boost::program_options) and its help text.
 - Names, icons and colours beyond being there: editor names, `get_pretty_name`,
   `get_color`, which nothing calls.
 - The Windows named pipe of `ClientSocket`, and the hook script, which is one line here.

## What the plan has left

 1. `ClientSocket` as the socket of `Server`, in place of `discord.reading`: `Echo`
    becomes the handlers of the socket, and `ServerFairSpec` gets the fairness of both.
