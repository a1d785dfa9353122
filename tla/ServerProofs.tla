---------------------------- MODULE ServerProofs ----------------------------
(***************************************************************************)
(* The timer of Server is alive and its clients are watched, for any users, *)
(* repositories and command lines.  The lemmas follow the methods, which    *)
(* are operators on a World; those of Git come from GitProofs.              *)
(***************************************************************************)
EXTENDS Server, GitProofs

Timers == [keep_alive : BOOLEAN, looping : BOOLEAN, armed : BOOLEAN,
           done : Seq({"ok", "abort"})]
Discords == [alive : BOOLEAN, has_presence : BOOLEAN, reading : BOOLEAN]
Servers == [args : ArgLines, alive : SUBSET Ids, previous : SUBSET Ids,
            exitting : BOOLEAN, open : BOOLEAN, accepting : BOOLEAN]
Worlds == [git : GitType, timer : Timers, discord : Discords, server : Servers,
           process : {"running", "ended", "crashed"}]

\* A round is coming, or its handler is queued.
Coming(t) == t.armed \/ \E k \in DOMAIN t.done : t.done[k] = "ok"

\* LoopIsAlive without its clients: what a round needs.
Rolling(w) ==
  w.timer.looping => Coming(w.timer) /\ w.timer.keep_alive /\ w.git.ready

\* A loop that never started has nothing queued, and nothing to show.
Untouched(w) ==
  w.timer.keep_alive /\ ~w.timer.looping =>
    /\ ~w.git.ready /\ ~w.discord.has_presence
    /\ ~w.timer.armed /\ w.timer.done = <<>>

\* Without --prevent-shutdown the loop stops only for good.
Stopped(w) ==
  ~w.timer.looping =>
    \/ w.server.exitting \/ Given(w, "prevent_shutdown")
    \/ ~w.discord.has_presence /\ w.git.clients = {}

Whole(w) == w \in Worlds /\ Sound(w.git)

\* The invariant, as a predicate on the world.
Alive(w) ==
  /\ Whole(w) /\ Rolling(w) /\ Untouched(w) /\ Stopped(w)
  /\ w.timer.looping => w.git.clients # {}

\* A method that drops no client that pinged.
Spares(w, q) ==
  \A c \in w.git.clients : c \in w.server.alive \cup {DebugId} => c \in q.git.clients

-----------------------------------------------------------------------------
(* Changing one member of a World.                                          *)

LEMMA Parts ==
  ASSUME NEW w \in Worlds
  PROVE  /\ w.git \in GitType /\ w.timer \in Timers /\ w.discord \in Discords
         /\ w.server \in Servers /\ w.process \in {"running", "ended", "crashed"}
BY DEF Worlds

LEMMA WithGit ==
  ASSUME NEW w \in Worlds, NEW g \in GitType
  PROVE  LET q == [w EXCEPT !.git = g]
         IN  /\ q \in Worlds /\ q.git = g /\ q.timer = w.timer
             /\ q.discord = w.discord /\ q.server = w.server /\ q.process = w.process
BY DEF Worlds

LEMMA WithTimer ==
  ASSUME NEW w \in Worlds, NEW t \in Timers
  PROVE  LET q == [w EXCEPT !.timer = t]
         IN  /\ q \in Worlds /\ q.git = w.git /\ q.timer = t
             /\ q.discord = w.discord /\ q.server = w.server /\ q.process = w.process
BY DEF Worlds

LEMMA WithDiscord ==
  ASSUME NEW w \in Worlds, NEW d \in Discords
  PROVE  LET q == [w EXCEPT !.discord = d]
         IN  /\ q \in Worlds /\ q.git = w.git /\ q.timer = w.timer
             /\ q.discord = d /\ q.server = w.server /\ q.process = w.process
BY DEF Worlds

LEMMA WithServer ==
  ASSUME NEW w \in Worlds, NEW s \in Servers
  PROVE  LET q == [w EXCEPT !.server = s]
         IN  /\ q \in Worlds /\ q.git = w.git /\ q.timer = w.timer
             /\ q.discord = w.discord /\ q.server = s /\ q.process = w.process
BY DEF Worlds

LEMMA WithProcess ==
  ASSUME NEW w \in Worlds, NEW p \in {"running", "ended", "crashed"}
  PROVE  LET q == [w EXCEPT !.process = p]
         IN  /\ q \in Worlds /\ q.git = w.git /\ q.timer = w.timer
             /\ q.discord = w.discord /\ q.server = w.server /\ q.process = p
BY DEF Worlds

\* The members of the timer.
LEMMA TimerMembers ==
  ASSUME NEW t \in Timers, NEW k \in BOOLEAN, NEW l \in BOOLEAN, NEW a \in BOOLEAN,
         NEW d \in Seq({"ok", "abort"})
  PROVE  LET u == [t EXCEPT !.keep_alive = k, !.looping = l, !.armed = a, !.done = d]
         IN  /\ u \in Timers /\ u.keep_alive = k /\ u.looping = l /\ u.armed = a
             /\ u.done = d
BY DEF Timers

\* A handler that is queued leaves those before it.
LEMMA Queued ==
  ASSUME NEW d \in Seq({"ok", "abort"}), NEW x \in {"ok", "abort"}
  PROVE  /\ Append(d, x) \in Seq({"ok", "abort"})
         /\ \A k \in DOMAIN d : k \in DOMAIN Append(d, x) /\ Append(d, x)[k] = d[k]
         /\ Len(d) + 1 \in DOMAIN Append(d, x) /\ Append(d, x)[Len(d) + 1] = x
OBVIOUS

-----------------------------------------------------------------------------
(* What the methods of Git do to its clients.                               *)

LEMMA ReleaseKeeps ==
  ASSUME NEW g \in GitType
  PROVE  Release(g).clients = g.clients /\ Release(g).ready = g.ready
BY DEF Release, GitType

LEMMA ChangeGitClients ==
  ASSUME NEW g, Sound(g), NEW fs \in FileSystem, NEW c \in Ids, NEW p \in Paths,
         NEW s \in Slots \ Live(g)
  PROVE  LET q == ChangeGit(g, fs, c, p, s)
         IN  q.clients = g.clients \cup {c} /\ q.ready
<1> DEFINE t == Track(g, c)
           r == Discover(fs, p)
           n == Home[r]
           Same(x) == x.clients = t.clients /\ x.ready = t.ready
<1>1. g \in GitType /\ Sound(t) /\ c \in t.clients
  BY TrackSound DEF Sound, Typed
<1>2. t.clients = g.clients \cup {c} /\ t.ready /\ Live(t) = Live(g)
  BY <1>1 DEF Track, GitType, Live
<1>3. t \in GitType /\ r \in Roots \cup {Null} /\ (r # Null => n \in Roots)
  BY <1>1, DiscoverFinds, HomeAssumption DEF Sound, Typed
<1>4. ASSUME NEW x \in GitType, NEW z \in Slots PROVE
        Hold(x, c, z).clients = x.clients /\ Hold(x, c, z).ready = x.ready
  BY <1>4 DEF Hold, GitType
<1>5. ASSUME r = Null PROVE Same([t EXCEPT !.waiting = TRUE])
                            /\ [t EXCEPT !.waiting = TRUE] \in GitType
  BY <1>3 DEF GitType
<1>6. ASSUME r # Null, t.sessions[n] = Null
      PROVE  Same(Open(t, c, r, s)) /\ Open(t, c, r, s) \in GitType
  <2>1. Sound(Cache(t, c, r, s)) /\ Sound(Open(t, c, r, s))
    BY <1>1, <1>2, <1>3, <1>6, CacheSound, OpenReopenSound
  <2>2. Same(Cache(t, c, r, s))
    BY <1>3 DEF Cache, GitType
  <2> HIDE DEF t, r, n
  <2> QED
    BY <1>4, <2>1, <2>2 DEF Open, Sound, Typed
<1>7. ASSUME r # Null, t.sessions[n] # Null
      PROVE  LET z == t.sessions[n]
             IN  Same(Reopen(t, c, p, z)) /\ Reopen(t, c, p, z) \in GitType
  <2> DEFINE z == t.sessions[n]
  <2>1. z \in Slots /\ z \in Live(t)
    BY <1>3, <1>7 DEF Live, GitType
  <2> HIDE DEF z, n
  <2>2. Sound(Revisit(t, c, p, z)) /\ Sound(Reopen(t, c, p, z))
    BY <1>1, <2>1, RevisitSound, OpenReopenSound
  <2>3. Same(Revisit(t, c, p, z))
    BY <1>3 DEF Revisit, GitType
  <2> HIDE DEF t
  <2>4. Same(Reopen(t, c, p, z)) /\ Reopen(t, c, p, z) \in GitType
    BY <1>4, <2>1, <2>2, <2>3 DEF Reopen, Sound, Typed
  <2> QED
    BY <2>4 DEF z
<1>8. Same([t EXCEPT !.waiting = TRUE, !.active_session = Null])
      /\ [t EXCEPT !.waiting = TRUE, !.active_session = Null] \in GitType
  BY <1>3 DEF GitType
<1>9. PICK x \in GitType : Same(x) /\ ChangeGit(g, fs, c, p, s) = Release(x)
  <2> HIDE DEF Same
  <2> QED
    BY <1>5, <1>6, <1>7, <1>8 DEF ChangeGit
<1> QED
  BY <1>2, <1>9, ReleaseKeeps

LEMMA ForgetClients ==
  ASSUME NEW g \in GitType, NEW D \in SUBSET Ids
  PROVE  Forget(g, D).clients = g.clients \ D /\ Forget(g, D).ready = g.ready
BY DEF Forget, GitType

LEMMA FallbackClients ==
  ASSUME NEW g \in GitType
  PROVE  Fallback(g).clients = g.clients /\ Fallback(g).ready = g.ready
BY DEF Fallback, GitType

LEMMA DropClients ==
  ASSUME NEW g, Sound(g), NEW c \in Ids, NEW A \in SUBSET Ids
  PROVE  /\ DropClient(g, c).clients = g.clients \ {c}
         /\ DropClient(g, c).ready = g.ready
         /\ DropInactive(g, A).clients = g.clients \cap (A \cup {DebugId})
         /\ DropInactive(g, A).ready = g.ready
<1>1. g \in GitType /\ g.clients \subseteq Ids
  BY DEF Sound, Typed, GitType
<1>2. ASSUME NEW D \in SUBSET Ids
      PROVE  LET f == Forget(g, D)
             IN  /\ f \in GitType /\ Fallback(f) \in GitType
                 /\ f.clients = g.clients \ D /\ f.ready = g.ready
                 /\ Fallback(f).clients = g.clients \ D /\ Fallback(f).ready = g.ready
  <2>1. Sound(Forget(g, D)) /\ Sound(Fallback(Forget(g, D)))
    BY ForgetSound, FallbackSound
  <2> QED
    BY <1>1, <2>1, ForgetClients, FallbackClients DEF Sound, Typed
<1>3. /\ DropClient(g, c).clients = g.clients \ {c}
      /\ DropClient(g, c).ready = g.ready
  BY <1>2, ReleaseKeeps DEF DropClient
<1>4. /\ DropInactive(g, A).clients = g.clients \ (g.clients \ (A \cup {DebugId}))
      /\ DropInactive(g, A).ready = g.ready
  BY <1>1, <1>2, ReleaseKeeps DEF DropInactive
<1> QED
  BY <1>3, <1>4

LEMMA UpdateClients ==
  ASSUME NEW g \in GitType, NEW fs, NEW name
  PROVE  /\ UpdateAll(g, fs).clients = g.clients /\ UpdateAll(g, fs).ready = g.ready
         /\ UpdateNamed(g, fs, name).clients = g.clients
         /\ UpdateNamed(g, fs, name).ready = g.ready
<1>1. ASSUME NEW S
      PROVE  /\ UpdateSessions(g, fs, S).clients = g.clients
             /\ UpdateSessions(g, fs, S).ready = g.ready
  BY DEF UpdateSessions, GitType
<1> QED
  BY <1>1 DEF UpdateAll, UpdateNamed

LEMMA NotReadyClients ==
  ASSUME NEW g \in GitType
  PROVE  NotReady(g).clients = g.clients /\ ~NotReady(g).ready
BY DEF NotReady, GitType

-----------------------------------------------------------------------------
(* The end of the service.                                                  *)

LEMMA StopLoopStops ==
  ASSUME NEW w \in Worlds
  PROVE  LET q == StopLoop(w)
         IN  /\ q \in Worlds /\ ~q.timer.looping /\ ~q.timer.keep_alive
             /\ q.git = w.git /\ q.discord = w.discord /\ q.server = w.server
             /\ q.process = w.process
<1> DEFINE d == IF w.timer.armed THEN Append(w.timer.done, "abort") ELSE w.timer.done
           no == FALSE
           t == [w.timer EXCEPT !.keep_alive = no, !.looping = no, !.armed = no, !.done = d]
<1>1. w.timer \in Timers /\ d \in Seq({"ok", "abort"})
  BY Queued DEF Worlds, Timers
<1>2. no \in BOOLEAN /\ ~no
  OBVIOUS
<1>3. StopLoop(w) = [w EXCEPT !.timer = t]
  BY DEF StopLoop, Worlds
<1> HIDE DEF d, no
<1>4. t \in Timers /\ ~t.looping /\ ~t.keep_alive
  BY <1>1, <1>2, TimerMembers
<1> HIDE DEF t
<1> QED
  BY <1>3, <1>4, WithTimer

LEMMA StopAcceptKeeps ==
  ASSUME NEW w \in Worlds
  PROVE  LET q == StopAccept(w)
         IN  /\ q \in Worlds /\ q.git = w.git /\ q.timer = w.timer /\ q.discord = w.discord
             /\ q.server.exitting = w.server.exitting /\ q.server.args = w.server.args
<1>1. CASE w.server.open
  <2> DEFINE no == FALSE
             s == [w.server EXCEPT !.accepting = no]
  <2>1. no \in BOOLEAN
    OBVIOUS
  <2>2. StopAccept(w) = [w EXCEPT !.server = s]
    BY <1>1 DEF StopAccept, Worlds
  <2> HIDE DEF no
  <2>3. s \in Servers /\ s.exitting = w.server.exitting /\ s.args = w.server.args
    BY <2>1 DEF Worlds, Servers
  <2> HIDE DEF s
  <2> QED
    BY <2>2, <2>3, WithServer
<1>2. CASE ~w.server.open
  BY <1>2, WithProcess DEF StopAccept
<1> QED
  BY <1>1, <1>2

\* It leaves the world alone, because somebody is left or nobody has come, or
\* stops the loop: for good, unless --prevent-shutdown.
LEMMA TryToShutdownStops ==
  ASSUME NEW w, Whole(w)
  PROVE  LET q == TryToShutdown(w)
         IN  /\ Whole(q) /\ q.git.clients = w.git.clients /\ q.server.args = w.server.args
             /\ q.discord = w.discord
             /\ \/ q = w /\ (w.git.ready => w.git.clients # {})
                \/ /\ ~q.timer.looping /\ ~q.timer.keep_alive
                   /\ q.server.exitting \/ Given(q, "prevent_shutdown")
<1>0. w \in Worlds /\ Sound(w.git) /\ w.git \in GitType /\ w.server \in Servers
  BY DEF Whole, Worlds
<1>1. CASE Given(w, "dont_await_repo") /\ ~w.git.ready
  BY <1>1 DEF TryToShutdown
<1>2. CASE ~(Given(w, "dont_await_repo") /\ ~w.git.ready) /\ w.git.clients # {}
  BY <1>2 DEF TryToShutdown
<1>3. CASE /\ ~(Given(w, "dont_await_repo") /\ ~w.git.ready) /\ w.git.clients = {}
           /\ Given(w, "prevent_shutdown")
  <2> DEFINE g == NotReady(w.git)
             v == [w EXCEPT !.git = g]
  <2>1. Sound(g) /\ g \in GitType /\ g.clients = w.git.clients
    BY <1>0, NotReadySound, NotReadyClients DEF Sound, Typed
  <2>2. TryToShutdown(w) = StopLoop(v)
    BY <1>3 DEF TryToShutdown
  <2> HIDE DEF g
  <2>3. /\ v \in Worlds /\ v.git = g /\ v.server = w.server /\ v.discord = w.discord
    BY <1>0, <2>1, WithGit
  <2> HIDE DEF v
  <2> QED
    BY <1>3, <2>1, <2>2, <2>3, StopLoopStops DEF Whole, Given
<1>4. CASE /\ ~(Given(w, "dont_await_repo") /\ ~w.git.ready) /\ w.git.clients = {}
           /\ ~Given(w, "prevent_shutdown")
  <2> DEFINE yes == TRUE
             s == [w.server EXCEPT !.exitting = yes]
             v == [w EXCEPT !.server = s]
  <2>1. yes \in BOOLEAN /\ yes
    OBVIOUS
  <2>2. TryToShutdown(w) = StopAccept(StopLoop(v))
    BY <1>0, <1>4 DEF TryToShutdown, Worlds
  <2> HIDE DEF yes
  <2>3. s \in Servers /\ s.exitting /\ s.args = w.server.args
    BY <1>0, <2>1 DEF Servers
  <2> HIDE DEF s
  <2>4. v \in Worlds /\ v.git = w.git /\ v.server = s /\ v.discord = w.discord
    BY <1>0, <2>3, WithServer
  <2> HIDE DEF v
  <2> QED
    BY <1>0, <2>2, <2>3, <2>4, StopLoopStops, StopAcceptKeeps DEF Whole
<1> QED
  BY <1>1, <1>2, <1>3, <1>4

-----------------------------------------------------------------------------
(* A round.                                                                 *)

LEMMA PingCallbackKeeps ==
  ASSUME NEW w, Whole(w), Rolling(w), Untouched(w), Stopped(w), w.git.ready
  PROVE  LET q == PingCallback(w)
         IN  /\ Alive(q) /\ Spares(w, q) /\ q.server.args = w.server.args
             /\ q.timer.keep_alive => q.timer.looping
<1> DEFINE active == w.server.alive \cup (w.server.previous \cap {DebugId})
           none == {}
           s == [w.server EXCEPT !.alive = none, !.previous = active]
           g == DropInactive(w.git, active)
           u == [w EXCEPT !.server = s]
           v == [u EXCEPT !.git = g]
           q == TryToShutdown(v)
<1>0. w \in Worlds /\ Sound(w.git) /\ w.git \in GitType /\ w.server \in Servers
  BY DEF Whole, Worlds
<1>1. active \in SUBSET Ids /\ none \in SUBSET Ids
  BY <1>0 DEF Servers
<1>2. PingCallback(w) = q
  BY <1>0 DEF PingCallback, Worlds, Servers
<1>3. \A c \in w.server.alive : c \in active
  OBVIOUS
<1> HIDE DEF active, none
<1>4. s \in Servers /\ s.exitting = w.server.exitting /\ s.args = w.server.args
  BY <1>0, <1>1 DEF Servers
<1>5. /\ Sound(g) /\ g.clients = w.git.clients \cap (active \cup {DebugId})
      /\ g.ready = w.git.ready
  BY <1>0, <1>1, IdsAssumption, DropClients, DropSound
<1>6. g \in GitType
  BY <1>5 DEF Sound, Typed
<1> HIDE DEF s, g
<1>7. /\ u \in Worlds /\ u.timer = w.timer /\ u.discord = w.discord /\ u.server = s
  BY <1>0, <1>4, WithServer
<1> HIDE DEF u
<1>8. /\ v \in Worlds /\ v.git = g /\ v.timer = w.timer /\ v.discord = w.discord
      /\ v.server = s
  BY <1>6, <1>7, WithGit
<1> HIDE DEF v
<1>9. Whole(v) /\ Rolling(v) /\ Untouched(v) /\ Stopped(v) /\ v.git.ready
  BY <1>4, <1>5, <1>8 DEF Whole, Rolling, Untouched, Stopped, Given
<1>10. Spares(w, v)
  BY <1>3, <1>5, <1>8 DEF Spares
<1>11. /\ Whole(q) /\ q.git.clients = v.git.clients /\ q.server.args = v.server.args
       /\ q.discord = v.discord
       /\ \/ q = v /\ v.git.clients # {}
          \/ /\ ~q.timer.looping /\ ~q.timer.keep_alive
             /\ q.server.exitting \/ Given(q, "prevent_shutdown")
  BY <1>9, TryToShutdownStops
<1> HIDE DEF q
<1>12. Alive(q) /\ (q.timer.keep_alive => q.timer.looping)
  <2>1. CASE q = v /\ v.git.clients # {}
    BY <1>9, <2>1 DEF Alive, Untouched
  <2>2. CASE /\ ~q.timer.looping /\ ~q.timer.keep_alive
             /\ q.server.exitting \/ Given(q, "prevent_shutdown")
    BY <1>11, <2>2 DEF Alive, Rolling, Untouched, Stopped
  <2> QED
    BY <1>11, <2>1, <2>2
<1>13. Spares(w, q)
  BY <1>10, <1>11 DEF Spares
<1> QED
  BY <1>2, <1>4, <1>8, <1>11, <1>12, <1>13

\* The presence comes with a loop that refreshes it, and goes without conditions.
LEMMA DiscordKeeps ==
  ASSUME NEW w, Alive(w)
  PROVE  /\ LET q == ClearPresence(w) IN Alive(q) /\ q.git = w.git /\ q.server = w.server
         /\ w.timer.looping =>
              LET q == DiscordUpdate(w)
              IN  Alive(q) /\ q.git = w.git /\ q.server = w.server
<1>0. w \in Worlds /\ w.discord \in Discords
  BY DEF Alive, Whole, Worlds
<1>1. ASSUME NEW d \in Discords, d.has_presence => w.discord.has_presence \/ w.timer.looping
      PROVE  LET q == [w EXCEPT !.discord = d]
             IN  Alive(q) /\ q.git = w.git /\ q.server = w.server
  <2> DEFINE q == [w EXCEPT !.discord = d]
  <2>1. /\ q \in Worlds /\ q.git = w.git /\ q.timer = w.timer
        /\ q.discord = d /\ q.server = w.server
    BY <1>0, <1>1, WithDiscord
  <2> HIDE DEF q
  <2>2. Alive(q)
    BY <1>1, <2>1 DEF Alive, Whole, Rolling, Untouched, Stopped, Given
  <2> QED
    BY <2>1, <2>2 DEF q
<1> DEFINE no == FALSE
           yes == TRUE
           none == [w.discord EXCEPT !.has_presence = no]
           some == [w.discord EXCEPT !.alive = yes, !.has_presence = yes, !.reading = yes]
           same == [w.discord EXCEPT !.alive = yes]
<1>2. /\ ClearPresence(w) = [w EXCEPT !.discord = none]
      /\ \/ DiscordUpdate(w) = [w EXCEPT !.discord = some]
         \/ DiscordUpdate(w) = [w EXCEPT !.discord = same]
  BY <1>0 DEF ClearPresence, DiscordUpdate, Worlds
<1>3. no \in BOOLEAN /\ yes \in BOOLEAN /\ ~no
  OBVIOUS
<1> HIDE DEF no, yes
<1>4. none \in Discords /\ ~none.has_presence
  BY <1>0, <1>3 DEF Discords
<1>5. some \in Discords /\ same \in Discords /\ same.has_presence = w.discord.has_presence
  BY <1>0, <1>3 DEF Discords
<1> HIDE DEF none, some, same
<1>6. CASE DiscordUpdate(w) = [w EXCEPT !.discord = some]
  BY <1>1, <1>2, <1>4, <1>5, <1>6
<1>7. CASE DiscordUpdate(w) = [w EXCEPT !.discord = same]
  BY <1>1, <1>2, <1>4, <1>5, <1>7
<1> QED
  BY <1>2, <1>6, <1>7

LEMMA LoopsBodyKeeps ==
  ASSUME NEW w, Whole(w), Rolling(w), Untouched(w), Stopped(w), NEW fs \in FileSystem
  PROVE  LET q == LoopsBody(w, fs)
         IN  Alive(q) /\ Spares(w, q) /\ q.server.args = w.server.args
<1>1. CASE ~w.git.ready
  BY <1>1 DEF LoopsBody, Alive, Rolling, Spares
<1>2. CASE w.git.ready
  <2> DEFINE q == PingCallback(w)
             g == UpdateAll(q.git, fs)
             u == IF Given(w, "auto_update") THEN [q EXCEPT !.git = g] ELSE q
  <2>1. /\ Alive(q) /\ Spares(w, q) /\ q.server.args = w.server.args
        /\ q.timer.keep_alive => q.timer.looping
    BY <1>2, PingCallbackKeeps
  <2> HIDE DEF q
  <2>2. /\ Alive(u) /\ Spares(w, u) /\ u.server.args = w.server.args
        /\ u.timer = q.timer
    <3>1. CASE Given(w, "auto_update")
      <4>1. Sound(g) /\ g.clients = q.git.clients /\ g.ready = q.git.ready /\ g \in GitType
        BY <2>1, UpdateSound, UpdateClients DEF Alive, Whole, Sound, Typed
      <4> HIDE DEF g
      <4>2. /\ u \in Worlds /\ u.git = g /\ u.timer = q.timer /\ u.discord = q.discord
            /\ u.server = q.server
        BY <2>1, <3>1, <4>1, WithGit DEF Alive, Whole
      <4> HIDE DEF u
      <4> QED
        BY <2>1, <4>1, <4>2
        DEF Alive, Whole, Rolling, Untouched, Stopped, Spares, Given
    <3>2. CASE ~Given(w, "auto_update")
      BY <2>1, <3>2
    <3> QED
      BY <3>1, <3>2
  <2>3. \/ LoopsBody(w, fs) = q
        \/ q.timer.keep_alive /\ LoopsBody(w, fs) = ClearPresence(u)
        \/ q.timer.keep_alive /\ LoopsBody(w, fs) = DiscordUpdate(u)
    BY <1>2 DEF LoopsBody, q
  <2> HIDE DEF u
  <2>4. CASE LoopsBody(w, fs) = q
    BY <2>1, <2>4
  <2>5. CASE LoopsBody(w, fs) = ClearPresence(u)
    BY <2>2, <2>5, DiscordKeeps DEF Spares
  <2>6. CASE q.timer.keep_alive /\ LoopsBody(w, fs) = DiscordUpdate(u)
    BY <2>1, <2>2, <2>6, DiscordKeeps DEF Spares
  <2> QED
    BY <2>3, <2>4, <2>5, <2>6
<1> QED
  BY <1>1, <1>2

\* The wait of the next round is armed before its body runs.
LEMMA LoopKeeps ==
  ASSUME NEW w, Whole(w), Stopped(w), w.timer.keep_alive <=> w.timer.looping,
         w.timer.looping => w.git.ready, NEW fs \in FileSystem
  PROVE  LET q == Loop(w, fs)
         IN  Alive(q) /\ Spares(w, q) /\ q.server.args = w.server.args
<1>1. CASE w.timer.keep_alive
  <2> DEFINE yes == TRUE
             d == IF w.timer.armed THEN Append(w.timer.done, "abort") ELSE w.timer.done
             k == w.timer.keep_alive
             l == w.timer.looping
             t == [w.timer EXCEPT !.keep_alive = k, !.looping = l, !.armed = yes, !.done = d]
             v == [w EXCEPT !.timer = t]
  <2>0. w \in Worlds /\ w.timer \in Timers
    BY DEF Whole, Worlds
  <2>1. d \in Seq({"ok", "abort"}) /\ yes \in BOOLEAN /\ yes
    BY <2>0, Queued DEF Timers
  <2>2. Loop(w, fs) = LoopsBody(v, fs)
    BY <1>1, <2>0 DEF Loop, Worlds, Timers
  <2>3. k \in BOOLEAN /\ l \in BOOLEAN
    BY <2>0 DEF Timers
  <2>4. k = w.timer.keep_alive /\ l = w.timer.looping
    OBVIOUS
  <2> HIDE DEF d, yes, k, l
  <2>5. t \in Timers /\ t.armed = yes /\ t.keep_alive = k /\ t.looping = l
    BY <2>0, <2>1, <2>3 DEF Timers
  <2> HIDE DEF t
  <2>6. /\ v \in Worlds /\ v.git = w.git /\ v.timer = t /\ v.discord = w.discord
        /\ v.server = w.server
    BY <2>0, <2>5, WithTimer
  <2> HIDE DEF v
  <2>7. Whole(v) /\ Rolling(v) /\ Untouched(v) /\ Stopped(v)
    BY <1>1, <2>1, <2>4, <2>5, <2>6 DEF Whole, Rolling, Untouched, Stopped, Coming, Given
  <2> QED
    BY <2>2, <2>6, <2>7, LoopsBodyKeeps DEF Spares
<1>2. CASE ~w.timer.keep_alive
  BY <1>2, LoopsBodyKeeps DEF Loop, Rolling, Untouched
<1> QED
  BY <1>1, <1>2

\* Whoever tracked a client starts the loop, or forces a round of it.
LEMMA StartLoopKeeps ==
  ASSUME NEW w, Whole(w), Rolling(w), w.git.ready, NEW fs \in FileSystem
  PROVE  LET q == StartLoop(w, fs)
         IN  Alive(q) /\ Spares(w, q) /\ q.server.args = w.server.args
<1>1. CASE w.timer.looping
  BY <1>1, LoopsBodyKeeps DEF StartLoop, Untouched, Stopped
<1>2. CASE ~w.timer.looping
  <2> DEFINE yes == TRUE
             a == w.timer.armed
             d == w.timer.done
             t == [w.timer EXCEPT !.keep_alive = yes, !.looping = yes, !.armed = a, !.done = d]
             v == [w EXCEPT !.timer = t]
  <2>0. /\ w \in Worlds /\ w.timer \in Timers /\ a \in BOOLEAN
        /\ d \in Seq({"ok", "abort"})
    BY DEF Whole, Worlds, Timers
  <2>1. yes \in BOOLEAN /\ yes
    OBVIOUS
  <2>2. StartLoop(w, fs) = Loop(v, fs)
    BY <1>2, <2>0 DEF StartLoop, Worlds, Timers
  <2> HIDE DEF yes, a, d
  <2>3. t \in Timers /\ t.keep_alive = yes /\ t.looping = yes
    BY <2>0, <2>1, TimerMembers
  <2> HIDE DEF t
  <2>4. /\ v \in Worlds /\ v.git = w.git /\ v.timer = t /\ v.discord = w.discord
        /\ v.server = w.server
    BY <2>0, <2>3, WithTimer
  <2> HIDE DEF v
  <2>5. Whole(v) /\ Stopped(v)
    BY <2>1, <2>3, <2>4 DEF Whole, Stopped
  <2> QED
    BY <2>1, <2>2, <2>3, <2>4, <2>5, LoopKeeps DEF Spares
<1> QED
  BY <1>1, <1>2

-----------------------------------------------------------------------------
(* The requests.                                                            *)

LEMMA AliveServer ==
  ASSUME NEW w, Alive(w), NEW s \in Servers, s.args = w.server.args,
         w.server.exitting => s.exitting
  PROVE  LET q == [w EXCEPT !.server = s]
         IN  Alive(q) /\ q.git = w.git /\ q.server = s
<1> DEFINE q == [w EXCEPT !.server = s]
<1>1. /\ q \in Worlds /\ q.git = w.git /\ q.timer = w.timer
      /\ q.discord = w.discord /\ q.server = s
  BY WithServer DEF Alive, Whole
<1> HIDE DEF q
<1>2. Alive(q)
  BY <1>1 DEF Alive, Whole, Rolling, Untouched, Stopped, Given
<1> QED
  BY <1>1, <1>2 DEF q

LEMMA AliveProcess ==
  ASSUME NEW w, Alive(w), NEW p \in {"running", "ended", "crashed"}
  PROVE  LET q == [w EXCEPT !.process = p]
         IN  Alive(q) /\ q.git = w.git
<1> DEFINE q == [w EXCEPT !.process = p]
<1>1. /\ q \in Worlds /\ q.git = w.git /\ q.timer = w.timer
      /\ q.discord = w.discord /\ q.server = w.server
  BY WithProcess DEF Alive, Whole
<1> HIDE DEF q
<1>2. Alive(q)
  BY <1>1 DEF Alive, Whole, Rolling, Untouched, Stopped, Given
<1> QED
  BY <1>1, <1>2 DEF q

\* The pings of a server that is otherwise the same.
LEMMA Pinged ==
  ASSUME NEW s \in Servers, NEW c \in Ids
  PROVE  LET u == [s EXCEPT !.alive = s.alive \cup {c}]
         IN  /\ u \in Servers /\ u.args = s.args /\ u.exitting = s.exitting
             /\ u.alive = s.alive \cup {c} /\ u.previous = s.previous
BY DEF Servers

LEMMA SetPathKeeps ==
  ASSUME NEW w, Alive(w), NEW fs \in FileSystem, NEW c \in Ids, NEW p \in Paths,
         NEW s \in Slots \ Live(w.git)
  PROVE  LET q == SetPath(w, fs, c, p, s)
         IN  Alive(q) /\ Spares(w, q)
<1> DEFINE g == ChangeGit(w.git, fs, c, p, s)
           z == [w.server EXCEPT !.alive = w.server.alive \cup {c}]
           u == [w EXCEPT !.git = g]
           v == [u EXCEPT !.server = z]
           x == StartLoop(v, fs)
           y == [x.server EXCEPT !.alive = x.server.alive \cup {c}]
<1>0. w \in Worlds /\ Sound(w.git) /\ w.git \in GitType /\ w.server \in Servers
  BY DEF Alive, Whole, Worlds
<1>1. Sound(g) /\ g.clients = w.git.clients \cup {c} /\ g.ready
  BY <1>0, ChangeGitSound, ChangeGitClients
<1>2. SetPath(w, fs, c, p, s) =
        IF v.discord.has_presence THEN v ELSE [x EXCEPT !.server.alive = x.server.alive \cup {c}]
  BY <1>0 DEF SetPath, Worlds, Servers
<1>3. g \in GitType
  BY <1>1 DEF Sound, Typed
<1> HIDE DEF g
<1>4. /\ z \in Servers /\ z.args = w.server.args /\ z.exitting = w.server.exitting
      /\ z.alive = w.server.alive \cup {c}
  BY <1>0, Pinged
<1> HIDE DEF z
<1>5. u \in Worlds /\ u.git = g /\ u.timer = w.timer /\ u.discord = w.discord
  BY <1>0, <1>3, WithGit
<1> HIDE DEF u
<1>6. /\ v \in Worlds /\ v.git = g /\ v.timer = w.timer /\ v.discord = w.discord
      /\ v.server = z
  BY <1>4, <1>5, WithServer
<1> HIDE DEF v
<1>7. Whole(v) /\ Rolling(v) /\ v.git.ready /\ Spares(w, v) /\ c \in v.git.clients
  BY <1>1, <1>6 DEF Alive, Whole, Rolling, Spares
<1>8. CASE v.discord.has_presence
  <2>1. Untouched(v) /\ Stopped(v) /\ (v.timer.looping => v.git.clients # {})
    BY <1>4, <1>6, <1>7, <1>8 DEF Alive, Untouched, Stopped, Given
  <2> QED
    BY <1>2, <1>7, <1>8, <2>1 DEF Alive
<1>9. CASE ~v.discord.has_presence
  <2>1. Alive(x) /\ Spares(v, x)
    BY <1>7, StartLoopKeeps
  <2> HIDE DEF x
  <2>2. x.server \in Servers /\ x \in Worlds
    BY <2>1 DEF Alive, Whole, Worlds
  <2>3. /\ y \in Servers /\ y.args = x.server.args /\ y.exitting = x.server.exitting
    BY <2>2, Pinged
  <2>4. [x EXCEPT !.server.alive = x.server.alive \cup {c}] = [x EXCEPT !.server = y]
    BY <2>2 DEF Worlds
  <2> HIDE DEF y
  <2>5. Alive([x EXCEPT !.server = y]) /\ [x EXCEPT !.server = y].git = x.git
    BY <2>1, <2>3, AliveServer
  <2>6. Spares(w, x)
    BY <1>4, <1>6, <1>7, <2>1 DEF Spares
  <2> QED
    BY <1>2, <1>9, <2>4, <2>5, <2>6 DEF Spares
<1> QED
  BY <1>8, <1>9

LEMMA PingKeeps ==
  ASSUME NEW w, Alive(w), NEW c \in Ids
  PROVE  LET q == [w EXCEPT !.server.alive = w.server.alive \cup {c}]
         IN  Alive(q) /\ q.git = w.git
<1> DEFINE s == [w.server EXCEPT !.alive = w.server.alive \cup {c}]
<1>1. w \in Worlds /\ w.server \in Servers
  BY DEF Alive, Whole, Worlds
<1>2. s \in Servers /\ s.args = w.server.args /\ s.exitting = w.server.exitting
  BY <1>1, Pinged
<1>3. [w EXCEPT !.server.alive = w.server.alive \cup {c}] = [w EXCEPT !.server = s]
  BY <1>1 DEF Worlds
<1> HIDE DEF s
<1> QED
  BY <1>2, <1>3, AliveServer

\* A leave notice drops its own client only.
LEMMA ImLeavingKeeps ==
  ASSUME NEW w, Alive(w), NEW c \in Ids
  PROVE  LET q == ImLeaving(w, c)
         IN  Alive(q) /\ \A x \in w.git.clients : x # c => x \in q.git.clients
<1>1. CASE c \notin w.server.previous
  BY <1>1 DEF ImLeaving
<1>2. CASE c \in w.server.previous
  <2> DEFINE g == DropClient(w.git, c)
             v == [w EXCEPT !.git = g]
             q == TryToShutdown(v)
  <2>0. w \in Worlds /\ Sound(w.git)
    BY DEF Alive, Whole
  <2>1. Sound(g) /\ g.clients = w.git.clients \ {c} /\ g.ready = w.git.ready
    BY <2>0, DropSound, DropClients
  <2>2. ImLeaving(w, c) = q
    BY <1>2, <2>0 DEF ImLeaving, Worlds
  <2>3. g \in GitType
    BY <2>1 DEF Sound, Typed
  <2> HIDE DEF g
  <2>4. /\ v \in Worlds /\ v.git = g /\ v.timer = w.timer /\ v.discord = w.discord
        /\ v.server = w.server
    BY <2>0, <2>3, WithGit
  <2> HIDE DEF v
  <2>5. Whole(v) /\ Rolling(v) /\ Untouched(v) /\ Stopped(v)
    BY <2>1, <2>4 DEF Alive, Whole, Rolling, Untouched, Stopped, Given
  <2>6. /\ Whole(q) /\ q.git.clients = v.git.clients /\ q.server.args = v.server.args
        /\ q.discord = v.discord
        /\ \/ q = v /\ (v.git.ready => v.git.clients # {})
           \/ /\ ~q.timer.looping /\ ~q.timer.keep_alive
              /\ q.server.exitting \/ Given(q, "prevent_shutdown")
    BY <2>5, TryToShutdownStops
  <2> HIDE DEF q
  <2>7. Alive(q)
    BY <2>5, <2>6 DEF Alive, Rolling, Untouched, Stopped
  <2> QED
    BY <2>1, <2>2, <2>4, <2>6, <2>7
<1> QED
  BY <1>1, <1>2

LEMMA HookNoticeKeeps ==
  ASSUME NEW w, Alive(w), NEW fs \in FileSystem, NEW name
  PROVE  LET q == HookNotice(w, fs, name)
         IN  Alive(q) /\ q.git.clients = w.git.clients
<1>1. CASE Given(w, "auto_update")
  BY <1>1 DEF HookNotice
<1>2. CASE ~Given(w, "auto_update")
  <2> DEFINE g == UpdateNamed(w.git, fs, name)
             q == [w EXCEPT !.git = g]
  <2>0. w \in Worlds /\ Sound(w.git) /\ w.git \in GitType
    BY DEF Alive, Whole, Worlds
  <2>1. Sound(g) /\ g.clients = w.git.clients /\ g.ready = w.git.ready
    BY <2>0, UpdateSound, UpdateClients
  <2>2. HookNotice(w, fs, name) = q
    BY <1>2, <2>0 DEF HookNotice, Worlds
  <2>3. g \in GitType
    BY <2>1 DEF Sound, Typed
  <2> HIDE DEF g
  <2>4. /\ q \in Worlds /\ q.git = g /\ q.timer = w.timer /\ q.discord = w.discord
        /\ q.server = w.server
    BY <2>0, <2>3, WithGit
  <2> HIDE DEF q
  <2>5. Alive(q)
    BY <2>1, <2>4 DEF Alive, Whole, Rolling, Untouched, Stopped, Given
  <2> QED
    BY <2>1, <2>2, <2>4, <2>5
<1> QED
  BY <1>1, <1>2

LEMMA GetKeeps ==
  ASSUME NEW w, Alive(w)
  PROVE  /\ Alive(GetPath(w)) /\ GetPath(w).git = w.git
         /\ Alive(GetInfo(w)) /\ GetInfo(w).git = w.git
BY AliveProcess DEF GetPath, GetInfo

LEMMA ShutdownKeeps ==
  ASSUME NEW w, Alive(w)
  PROVE  Alive(Shutdown(w)) /\ Shutdown(w).git = w.git
<1>1. CASE ~w.server.open
  BY <1>1, AliveProcess DEF Shutdown
<1>2. CASE w.server.open
  <2> DEFINE no == FALSE
             yes == TRUE
             s == [w.server EXCEPT !.exitting = yes, !.open = no, !.accepting = no]
             v == [w EXCEPT !.server = s]
             q == GetInfo(v)
             d == [q.discord EXCEPT !.alive = no]
             x == [q EXCEPT !.discord = d]
  <2>0. w \in Worlds /\ w.server \in Servers
    BY DEF Alive, Whole, Worlds
  <2>1. no \in BOOLEAN /\ yes \in BOOLEAN /\ yes
    OBVIOUS
  <2>2. Shutdown(w) = IF q.process = "crashed" THEN q
                      ELSE StopLoop([q EXCEPT !.discord.alive = no])
    BY <1>2, <2>0 DEF Shutdown, Worlds
  <2> HIDE DEF no, yes
  <2>3. s \in Servers /\ s.exitting /\ s.args = w.server.args
    BY <2>0, <2>1 DEF Servers
  <2> HIDE DEF s
  <2>4. Alive(v) /\ v.git = w.git /\ v.server = s
    BY <2>3, AliveServer
  <2>5. Alive(q) /\ q.git = w.git
    BY <2>4, GetKeeps
  <2>6. q.server = s /\ q \in Worlds
    BY <2>4, <2>5, WithProcess DEF GetInfo, Alive, Whole
  <2> HIDE DEF q, v
  <2>7. q.discord \in Discords
    BY <2>6 DEF Worlds
  <2>8. d \in Discords
    BY <2>1, <2>7 DEF Discords
  <2>9. [q EXCEPT !.discord.alive = no] = x
    BY <2>6 DEF Worlds
  <2> HIDE DEF d
  <2>10. x \in Worlds /\ x.git = q.git /\ x.server = q.server
    BY <2>6, <2>8, WithDiscord
  <2> HIDE DEF x
  <2> DEFINE y == StopLoop(x)
  <2>11. /\ y \in Worlds /\ ~y.timer.looping /\ ~y.timer.keep_alive
         /\ y.git = w.git /\ y.server = s
    BY <2>5, <2>6, <2>10, StopLoopStops
  <2> HIDE DEF y
  <2>12. Alive(y)
    BY <2>3, <2>11 DEF Alive, Whole, Rolling, Untouched, Stopped
  <2> QED
    BY <2>2, <2>5, <2>9, <2>11, <2>12 DEF y
<1> QED
  BY <1>1, <1>2

-----------------------------------------------------------------------------
(* The handlers that the io_context runs.                                   *)

ServerIInv == /\ Alive(World) /\ tree \in FileSystem
              /\ conns \in 0..MaxConns /\ silent \in BOOLEAN

\* What PingersStay says of a step.
Spared == \A c \in git.clients \ git'.clients :
            c \in server.alive \cup {DebugId} => RequestImLeaving(c)

LEMMA BecomesWorld ==
  ASSUME NEW w, w \in Worlds, Becomes(w)
  PROVE  World' = w
BY DEF Becomes, World, Worlds

LEMMA RequestKeeps ==
  ASSUME NEW w, ServerIInv, Alive(w), Request(w)
  PROVE  ServerIInv' /\ git' = w.git
<1>1. World' = w /\ UNCHANGED <<tree, silent>>
  BY BecomesWorld DEF Request, Alive, Whole
<1>2. conns \in Nat /\ conns' = conns - 1 /\ conns > 0 /\ conns =< MaxConns
  BY ConnsAssumption DEF Request, ServerIInv
<1>3. conns' \in 0..MaxConns
  BY <1>2, ConnsAssumption
<1>4. Alive(World')
  BY <1>1
<1> QED
  BY <1>1, <1>3, <1>4 DEF ServerIInv, World

LEMMA ClientKeeps ==
  ASSUME ServerIInv, ClientStep
  PROVE  ServerIInv' /\ Spared
<1>0. /\ Alive(World) /\ World.git = git /\ World.server = server
      /\ tree \in FileSystem /\ Users \subseteq Ids
  BY UsersAssumption DEF ServerIInv, World
<1>1. ASSUME NEW c \in Users, NEW p \in Paths, RequestSetPath(c, p)
      PROVE  ServerIInv' /\ Spared
  <2>1. PICK s \in Slots \ Live(git) : Request(SetPath(World, tree, c, p, s))
    BY <1>1 DEF RequestSetPath
  <2> DEFINE q == SetPath(World, tree, c, p, s)
  <2>2. Alive(q) /\ Spares(World, q)
    BY <1>0, SetPathKeeps
  <2> HIDE DEF q
  <2>3. ServerIInv' /\ git' = q.git
    BY <2>1, <2>2, RequestKeeps DEF q
  <2> QED
    BY <1>0, <2>2, <2>3 DEF Spares, Spared
<1>2. ASSUME NEW c \in Users, RequestPing(c)
      PROVE  ServerIInv' /\ Spared
  <2> DEFINE q == [World EXCEPT !.server.alive = World.server.alive \cup {c}]
  <2>1. Alive(q) /\ q.git = git
    BY <1>0, PingKeeps
  <2>2. Request(q)
    BY <1>2 DEF RequestPing, World
  <2> HIDE DEF q
  <2> QED
    BY <2>1, <2>2, RequestKeeps DEF Spared
<1>3. ASSUME NEW c \in Users, RequestImLeaving(c)
      PROVE  ServerIInv' /\ Spared
  <2> DEFINE q == ImLeaving(World, c)
  <2>1. Alive(q) /\ \A x \in git.clients : x # c => x \in q.git.clients
    BY <1>0, ImLeavingKeeps
  <2>2. Request(q)
    BY <1>3 DEF RequestImLeaving
  <2> HIDE DEF q
  <2>3. ServerIInv' /\ git' = q.git
    BY <2>1, <2>2, RequestKeeps
  <2> QED
    BY <1>3, <2>1, <2>3 DEF Spared
<1>4. ASSUME NEW r \in Roots, RequestGitChange(NameOf[r])
      PROVE  ServerIInv' /\ Spared
  <2> DEFINE q == HookNotice(World, tree, NameOf[r])
  <2>1. Alive(q) /\ q.git.clients = git.clients
    BY <1>0, HookNoticeKeeps
  <2>2. Request(q)
    BY <1>4 DEF RequestGitChange
  <2> HIDE DEF q
  <2> QED
    BY <2>1, <2>2, RequestKeeps DEF Spared
<1>5. ASSUME NEW w, Request(w), Alive(w), w.git = git
      PROVE  ServerIInv' /\ Spared
  BY <1>5, RequestKeeps DEF Spared
<1>6. CASE RequestGetPath \/ RequestGetInfo
  BY <1>0, <1>5, <1>6, GetKeeps DEF RequestGetPath, RequestGetInfo
<1>7. CASE RequestShutdown
  BY <1>0, <1>5, <1>7, ShutdownKeeps DEF RequestShutdown
<1>8. CASE RequestOther
  BY <1>0, <1>5, <1>8 DEF RequestOther
<1>9. CASE RequestNotObject \/ RequestKeyMissing
  <2> DEFINE q == [World EXCEPT !.process = "crashed"]
  <2>1. Alive(q) /\ q.git = git
    BY <1>0, AliveProcess
  <2>2. Request(q)
    BY <1>9 DEF RequestNotObject, RequestKeyMissing
  <2> HIDE DEF q
  <2> QED
    BY <1>5, <2>1, <2>2
<1> QED
  BY <1>1, <1>2, <1>3, <1>4, <1>6, <1>7, <1>8, <1>9 DEF ClientStep

\* The handler at the head of the queue is gone; the others are where they were.
LEMMA Dequeued ==
  ASSUME NEW d \in Seq({"ok", "abort"}), d # <<>>
  PROVE  /\ Tail(d) \in Seq({"ok", "abort"}) /\ Head(d) \in {"ok", "abort"}
         /\ Head(d) # "ok" => \A k \in DOMAIN d :
              d[k] = "ok" => k - 1 \in DOMAIN Tail(d) /\ Tail(d)[k - 1] = "ok"
OBVIOUS

LEMMA TimerKeeps ==
  ASSUME ServerIInv, TimerHandler
  PROVE  ServerIInv' /\ Spared
<1> DEFINE d == Tail(timer.done)
           t == [timer EXCEPT !.done = d]
           w == [World EXCEPT !.timer = t]
<1>0. /\ Alive(World) /\ World.git = git /\ World.server = server
      /\ World.timer = timer /\ World.discord = discord
      /\ World \in Worlds /\ timer \in Timers /\ tree \in FileSystem
  BY DEF ServerIInv, World, Alive, Whole, Worlds
<1>1. timer.done # <<>> /\ UNCHANGED <<tree, conns, silent>>
  BY DEF TimerHandler
<1>2. /\ d \in Seq({"ok", "abort"}) /\ Head(timer.done) \in {"ok", "abort"}
      /\ Head(timer.done) # "ok" => \A k \in DOMAIN timer.done :
           timer.done[k] = "ok" => k - 1 \in DOMAIN d /\ d[k - 1] = "ok"
  BY <1>0, <1>1, Dequeued DEF Timers
<1>3. Becomes(IF Head(timer.done) = "ok" THEN Loop(w, tree) ELSE ClearPresence(w))
  BY DEF TimerHandler, World
<1> HIDE DEF d
<1>4. /\ t \in Timers /\ t.keep_alive = timer.keep_alive /\ t.looping = timer.looping
      /\ t.armed = timer.armed /\ t.done = d
  BY <1>0, <1>2 DEF Timers
<1> HIDE DEF t
<1>5. /\ w \in Worlds /\ w.git = git /\ w.timer = t /\ w.discord = discord
      /\ w.server = server
  BY <1>0, <1>4, WithTimer
<1> HIDE DEF w
<1>6. /\ Whole(w) /\ Stopped(w) /\ (w.timer.keep_alive <=> w.timer.looping)
      /\ w.timer.looping => w.git.ready
  BY <1>0, <1>1, <1>4, <1>5 DEF Alive, Whole, Stopped, Rolling, Untouched, Given
<1>7. ASSUME NEW q, Becomes(q), Alive(q), Spares(w, q)
      PROVE  ServerIInv' /\ Spared
  <2>1. World' = q
    BY <1>7, BecomesWorld DEF Alive, Whole
  <2>2. Alive(World') /\ git' = q.git
    BY <1>7, <2>1 DEF World
  <2> QED
    BY <1>1, <1>5, <1>7, <2>2 DEF ServerIInv, Spares, Spared
<1>8. CASE Head(timer.done) = "ok"
  <2>1. Alive(Loop(w, tree)) /\ Spares(w, Loop(w, tree))
    BY <1>0, <1>6, LoopKeeps
  <2> QED
    BY <1>3, <1>7, <1>8, <2>1
<1>9. CASE Head(timer.done) # "ok"
  <2>1. Alive(w)
    <3>1. Coming(timer) => Coming(t)
      <4>1. ASSUME NEW k \in DOMAIN timer.done, timer.done[k] = "ok"
            PROVE  \E j \in DOMAIN t.done : t.done[j] = "ok"
        BY <1>2, <1>4, <1>9, <4>1
      <4> QED
        BY <1>4, <4>1 DEF Coming
    <3>2. Rolling(w)
      BY <1>0, <1>4, <1>5, <3>1 DEF Alive, Rolling
    <3>3. Untouched(w)
      BY <1>0, <1>1, <1>4, <1>5 DEF Alive, Untouched
    <3> QED
      BY <1>0, <1>4, <1>5, <1>6, <3>2, <3>3 DEF Alive
  <2>2. Alive(ClearPresence(w)) /\ ClearPresence(w).git = w.git
    BY <2>1, DiscordKeeps
  <2> QED
    BY <1>3, <1>7, <1>9, <2>2 DEF Spares
<1> QED
  BY <1>8, <1>9

LEMMA OthersKeep ==
  ASSUME ServerIInv, \/ Accept \/ Expire \/ Echo \/ RunReturns \/ FallSilent
                     \/ \E r \in Mutable : RepoStep(r)
                     \/ \E p \in Deletable : PathStep(p)
  PROVE  ServerIInv' /\ git' = git
<1>0. /\ Alive(World) /\ World.git = git /\ World.server = server
      /\ World.timer = timer /\ World.discord = discord /\ World.process = process
      /\ World \in Worlds /\ timer \in Timers /\ discord \in Discords
  BY DEF ServerIInv, World, Alive, Whole, Worlds
<1>1. CASE Accept
  <2>1. UNCHANGED World /\ conns' = conns + 1 /\ conns < MaxConns
    BY <1>1 DEF Accept, World
  <2>2. conns' \in 0..MaxConns
    BY <2>1, ConnsAssumption DEF ServerIInv
  <2>3. Alive(World')
    BY <1>0, <2>1
  <2> QED
    BY <1>1, <2>2, <2>3 DEF Accept, ServerIInv
<1>2. CASE Expire
  <2> DEFINE no == FALSE
             d == Append(timer.done, "ok")
             w == [World EXCEPT !.timer = timer']
  <2>1. d \in Seq({"ok", "abort"}) /\ \E k \in DOMAIN d : d[k] = "ok"
    BY <1>0, Queued DEF Timers
  <2>2. no \in BOOLEAN
    OBVIOUS
  <2>3. timer' = [timer EXCEPT !.armed = no, !.done = d] /\ timer.armed
    BY <1>2 DEF Expire
  <2> HIDE DEF no, d
  <2>4. /\ timer' \in Timers /\ timer'.keep_alive = timer.keep_alive
        /\ timer'.looping = timer.looping /\ timer'.done = d
    BY <1>0, <2>1, <2>2, <2>3 DEF Timers
  <2>5. /\ w \in Worlds /\ w.git = git /\ w.timer = timer' /\ w.discord = discord
        /\ w.server = server /\ w.process = process
    BY <1>0, <2>4, WithTimer
  <2> HIDE DEF w
  <2>6. Alive(w)
    BY <1>0, <2>1, <2>3, <2>4, <2>5
    DEF Alive, Whole, Rolling, Untouched, Stopped, Coming, Given
  <2>7. Becomes(w)
    BY <1>2, <2>5 DEF Expire, Becomes
  <2>8. Alive(World')
    BY <2>5, <2>6, <2>7, BecomesWorld
  <2> QED
    BY <1>2, <2>8 DEF Expire, ServerIInv
<1>3. CASE Echo
  <2> DEFINE no == FALSE
             w == [World EXCEPT !.discord = discord']
  <2>1. no \in BOOLEAN
    OBVIOUS
  <2>2. discord' = [discord EXCEPT !.reading = no]
    BY <1>3 DEF Echo
  <2> HIDE DEF no
  <2>3. discord' \in Discords /\ discord'.has_presence = discord.has_presence
    BY <1>0, <2>1, <2>2 DEF Discords
  <2>4. /\ w \in Worlds /\ w.git = git /\ w.timer = timer /\ w.discord = discord'
        /\ w.server = server /\ w.process = process
    BY <1>0, <2>3, WithDiscord
  <2> HIDE DEF w
  <2>5. Alive(w)
    BY <1>0, <2>3, <2>4 DEF Alive, Whole, Rolling, Untouched, Stopped, Given
  <2>6. Becomes(w)
    BY <1>3, <2>4 DEF Echo, Becomes
  <2>7. Alive(World')
    BY <2>4, <2>5, <2>6, BecomesWorld
  <2> QED
    BY <1>3, <2>7 DEF Echo, ServerIInv
<1>4. CASE RunReturns
  <2> DEFINE w == [World EXCEPT !.process = "ended"]
  <2>1. Alive(w) /\ w \in Worlds /\ w.git = git /\ w.timer = timer
        /\ w.discord = discord /\ w.server = server /\ w.process = "ended"
    BY <1>0, AliveProcess, WithProcess
  <2> HIDE DEF w
  <2>2. Becomes(w)
    BY <1>4, <2>1 DEF RunReturns, Becomes
  <2>3. Alive(World')
    BY <2>1, <2>2, BecomesWorld
  <2> QED
    BY <1>4, <2>3 DEF RunReturns, ServerIInv
<1>5. CASE FallSilent
  <2>1. UNCHANGED World /\ silent' \in BOOLEAN
    BY <1>5 DEF FallSilent, World
  <2>2. Alive(World')
    BY <1>0, <2>1
  <2> QED
    BY <1>5, <2>1, <2>2 DEF FallSilent, ServerIInv
<1>6. ASSUME NEW r \in Mutable, RepoStep(r)
      PROVE  ServerIInv' /\ git' = git
  <2>1. UNCHANGED World /\ UNCHANGED <<git, conns, silent>>
    BY <1>6 DEF RepoStep, RepoChanges, World
  <2>2. Alive(World')
    BY <1>0, <2>1
  <2>3. tree' \in FileSystem
    BY <1>6, RepoChangesTyped DEF RepoStep, ServerIInv
  <2> QED
    BY <2>1, <2>2, <2>3 DEF ServerIInv
<1>7. ASSUME NEW p \in Deletable, PathStep(p)
      PROVE  ServerIInv' /\ git' = git
  <2>1. UNCHANGED World /\ UNCHANGED <<git, conns, silent>>
    BY <1>7 DEF PathStep, PathChanges, World
  <2>2. Alive(World')
    BY <1>0, <2>1
  <2>3. tree' \in FileSystem
    BY <1>7, PathChangesTyped DEF PathStep, ServerIInv
  <2> QED
    BY <2>1, <2>2, <2>3 DEF ServerIInv
<1> QED
  BY <1>1, <1>2, <1>3, <1>4, <1>5, <1>6, <1>7

-----------------------------------------------------------------------------
(* The theorems.                                                            *)

LEMMA ServerStart == ServerInit => ServerIInv
<1> SUFFICES ASSUME ServerInit PROVE ServerIInv
  OBVIOUS
<1>1. GitIInv
  BY InitSound DEF ServerInit
<1>2. World \in Worlds
  <2>1. timer \in Timers
    BY DEF ServerInit, Timers
  <2>2. discord \in Discords
    BY DEF ServerInit, Discords
  <2>3. server \in Servers
    BY DEF ServerInit, Servers
  <2>4. git \in GitType /\ process = "running"
    BY <1>1 DEF ServerInit, GitIInv, Sound, Typed
  <2> QED
    BY <2>1, <2>2, <2>3, <2>4 DEF World, Worlds
<1>3. /\ ~timer.looping /\ ~timer.armed /\ timer.done = <<>>
      /\ ~discord.has_presence /\ ~git.ready /\ git.clients = {}
  BY DEF ServerInit, GitInit, NewGit
<1>4. /\ World.timer = timer /\ World.discord = discord /\ World.git = git
  BY DEF World
<1>5. Alive(World)
  BY <1>1, <1>2, <1>3, <1>4 DEF Alive, Whole, Rolling, Untouched, Stopped, GitIInv
<1>6. conns \in 0..MaxConns
  BY ConnsAssumption DEF ServerInit
<1> QED
  BY <1>1, <1>5, <1>6 DEF ServerIInv, GitIInv, ServerInit

LEMMA ServerStep == ServerIInv /\ [ServerNext]_serverVars => ServerIInv' /\ Spared
<1> SUFFICES ASSUME ServerIInv, [ServerNext]_serverVars PROVE ServerIInv' /\ Spared
  OBVIOUS
<1>1. CASE ClientStep
  BY <1>1, ClientKeeps
<1>2. CASE TimerHandler
  BY <1>2, TimerKeeps
<1>3. CASE \/ Accept \/ Expire \/ Echo \/ RunReturns \/ FallSilent
           \/ \E r \in Mutable : RepoStep(r)
           \/ \E p \in Deletable : PathStep(p)
  BY <1>3, OthersKeep DEF Spared
<1>4. CASE UNCHANGED serverVars
  <2>1. UNCHANGED World /\ UNCHANGED <<git, tree, conns, silent>>
    BY <1>4 DEF serverVars, World
  <2>2. Alive(World')
    BY <2>1 DEF ServerIInv
  <2> QED
    BY <2>1, <2>2 DEF ServerIInv, Spared
<1> QED
  BY <1>1, <1>2, <1>3, <1>4 DEF ServerNext

LEMMA ServerIInvEnough == ServerIInv => ServerTypeOK /\ LoopIsAlive /\ Watched
<1> SUFFICES ASSUME ServerIInv PROVE ServerTypeOK /\ LoopIsAlive /\ Watched
  OBVIOUS
<1>0. /\ Alive(World) /\ World.git = git /\ World.server = server
      /\ World.timer = timer /\ World.discord = discord /\ World.process = process
  BY DEF ServerIInv, World
<1>1. ServerTypeOK
  <2>1. GitTypeOK
    BY <1>0 DEF Alive, Whole, Sound, Typed, GitTypeOK, ServerIInv
  <2>2. /\ timer \in Timers /\ discord \in Discords /\ server \in Servers
        /\ process \in {"running", "ended", "crashed"}
    BY <1>0, Parts DEF Alive, Whole
  <2> QED
    BY <2>1, <2>2 DEF ServerTypeOK, Timers, Discords, Servers, ServerIInv
<1>2. LoopIsAlive
  BY <1>0 DEF Alive, Rolling, Coming, LoopIsAlive
<1>3. Watched
  BY <1>0 DEF Alive, Stopped, Watched
<1> QED
  BY <1>1, <1>2, <1>3

\* The 15 second loop is alive while it says so, and runs while there is anything
\* to watch: for any editors, repositories and command lines, and whatever waits
\* were cancelled or queued (timer.cc:10-99, server.cc:29-142).
THEOREM ServerAlive == ServerSpec => [](ServerTypeOK /\ LoopIsAlive /\ Watched)
BY ServerStart, ServerStep, ServerIInvEnough, PTL DEF ServerSpec

\* A client that pings in every round is never dropped by one (server.cc:184-205).
THEOREM ServerSparesPingers == ServerSpec => PingersStay
<1>1. ServerIInv /\ [ServerNext]_serverVars => [Spared]_serverVars
  BY ServerStep
<1>2. ServerIInv /\ [ServerNext]_serverVars => ServerIInv'
  BY ServerStep
<1> QED
  BY <1>1, <1>2, ServerStart, PTL DEF ServerSpec, PingersStay, Spared

=============================================================================
