---------------------------- MODULE ClientSocket ----------------------------
(***************************************************************************)
(* The socket to Discord (client_socket.cc; Client of client.cc has one),   *)
(* used by Discord::update and Discord::clear_presence.  A frame is written *)
(* at once; its answer is an asynchronous read whose handler runs later,    *)
(* when the socket may have been closed, opened again or given up.  Discord *)
(* itself may be absent, refuse connections, close them and come back.      *)
(***************************************************************************)
EXTENDS Integers, Sequences

CONSTANTS
  Presences,    \* what update() may dispatch
  Null,         \* no presence
  MaxBudget,    \* bound on reconnects (unbounded while Discord is absent)
  MaxPending    \* bound on reads that are outstanding or answered, not handled

ASSUME PresencesAssumption == Null \notin Presences
ASSUME BudgetAssumption == MaxBudget \in Nat \ {0} /\ MaxPending \in Nat \ {0}

VARIABLES
  sock,          \* the members of ClientSocket, the link, the queued handlers
  app,           \* Discord: "absent" (no socket file), "refusing", "listening"
  has_presence,  \* Discord::has_presence
  quiet,         \* update() and clear_presence() will not be called any more
  calm           \* Discord listens, and no link will break any more

socketVars == <<sock, app, has_presence, quiet, calm>>

\* connected, reconnects, presence: the members.  reads: the outstanding
\* async_reads, done: their handlers with a result, in the order they run.
\* dirty: presence_buffer may hold bytes of more than one answer.  open, alive:
\* this end and the other end of the link.  first, shown: the first frame of
\* the link, and the presence Discord shows because of it.
SocketType ==
  [connected : {"OFFLINE", "CONNECTED", "AUTHENTICATED"}, reconnects : Int,
   presence : Presences \cup {Null}, reads : Seq({"auth", "presence"}),
   done : Seq({"auth", "presence"} \X {"ok", "error"}), dirty : BOOLEAN,
   open : BOOLEAN, alive : BOOLEAN, first : {"none", "handshake", "frame"},
   shown : Presences \cup {Null}]

-----------------------------------------------------------------------------

\* The handlers of every outstanding read are queued with an error.  What was
\* read so far stays in the buffer.
Fail(x) ==
  [x EXCEPT !.reads = <<>>, !.alive = FALSE, !.shown = Null,
            !.done = @ \o [k \in DOMAIN x.reads |-> <<x.reads[k], "error">>],
            !.dirty = @ \/ \E k \in DOMAIN x.reads : x.reads[k] = "presence"]

\* Mutant: the reads are not cancelled.
CloseKeepsReads(x) == [x EXCEPT !.open = FALSE, !.first = "none"]

\* close: connected keeps its value.
Close(x) == [Fail(x) EXCEPT !.open = FALSE, !.first = "none"]


\* connection_refused, in try_connect: handle_error takes one reconnect for the
\* refusal and, while any is left, one for the next attempt, refused as well.
\* What is left in the end:
Refused(r) == IF r > 0 THEN (r % 2) - 1 ELSE r - 1

\* Mutant: a link that is connected passes for authenticated.
TryConnectTrusted(x, a) ==
  CASE a = "absent"    -> x
    [] a = "refusing"  -> [x EXCEPT !.reconnects = Refused(@)]
    [] a = "listening" -> [x EXCEPT !.connected = "AUTHENTICATED", !.open = TRUE,
                                    !.alive = TRUE]

\* try_connect, when OFFLINE.
TryConnect(x, a) ==
  CASE a = "absent"    -> x
    [] a = "refusing"  -> [x EXCEPT !.reconnects = Refused(@)]
    [] a = "listening" -> [x EXCEPT !.connected = "CONNECTED", !.open = TRUE,
                                    !.alive = TRUE]

\* authenticate, lines 74-102: authenticated as soon as the frame is written.
Handshake(x) ==
  [x EXCEPT !.connected = "AUTHENTICATED", !.reads = Append(@, "auth"),
            !.first = IF @ = "none" THEN "handshake" ELSE @]

\* authenticate, when OFFLINE.
Retry(x, a) ==
  LET y == TryConnect(x, a)
  IN  IF y.connected = "CONNECTED" THEN Handshake(y) ELSE y

\* Mutant: the socket is not closed.
HandleErrorOpen(x, a) ==
  LET y == [x EXCEPT !.connected = "OFFLINE"]
  IN  IF y.reconnects > 0 THEN Retry([y EXCEPT !.reconnects = @ - 1], a) ELSE y

\* Mutant: a retry costs nothing.
HandleErrorFree(x, a) ==
  LET y == [Close(x) EXCEPT !.connected = "OFFLINE"]
  IN  IF y.reconnects > 0 THEN Retry(y, a) ELSE y

\* Mutant: the socket still says authenticated.
HandleErrorStuck(x, a) ==
  LET y == Close(x)
  IN  IF y.reconnects > 0 THEN [y EXCEPT !.reconnects = @ - 1] ELSE y

\* handle_error, for anything but a refusal.
HandleError(x, a) ==
  LET y == [Close(x) EXCEPT !.connected = "OFFLINE"]
  IN  IF y.reconnects > 0 THEN Retry([y EXCEPT !.reconnects = @ - 1], a) ELSE y

Authenticate(x, a) ==
  IF x.connected = "OFFLINE" THEN Retry(x, a)
  ELSE IF x.alive THEN Handshake(x) ELSE HandleError(x, a)

\* send_presence, lines 160-187.
Write(x) ==
  [x EXCEPT !.reads = Append(@, "presence"), !.shown = x.presence,
            !.first = IF @ = "none" THEN "frame" ELSE @,
            !.dirty = @ \/ \E k \in DOMAIN x.reads : x.reads[k] = "presence"]

SendPresence(x, a) ==
  IF x.connected # "AUTHENTICATED" THEN Authenticate(x, a)
  ELSE IF x.alive THEN Write(x) ELSE HandleError(x, a)

QueuePresence(x, a, p) ==
  SendPresence([x EXCEPT !.reconnects = @ + 1, !.presence = p], a)

\* Presence answers that will still reach the buffer.
Coming(x) == \/ \E k \in DOMAIN x.reads : x.reads[k] = "presence"
             \/ \E k \in DOMAIN x.done : x.done[k] = <<"presence", "ok">>

\* handle_presence: whether the answer has the size of the frame.
HandlePresence(x, same) ==
  LET y == [x EXCEPT !.dirty = @ /\ Coming(x)]
  IN  IF same THEN [y EXCEPT !.reconnects = @ - 1]
      ELSE [y EXCEPT !.connected = "CONNECTED"]

-----------------------------------------------------------------------------

\* The constructor connects, if it can.
SocketInit ==
  /\ app \in {"absent", "refusing", "listening"}
  /\ sock = TryConnect([connected |-> "OFFLINE", reconnects |-> 0,
                        presence |-> Null, reads |-> <<>>, done |-> <<>>,
                        dirty |-> FALSE, open |-> FALSE, alive |-> FALSE,
                        first |-> "none", shown |-> Null], app)
  /\ has_presence = FALSE /\ quiet = FALSE /\ calm = FALSE

\* Discord::update, every round.  A round is 15 seconds: once nothing disturbs the
\* socket, the handlers that are queued run before the next one.
Update(p) ==
  /\ ~quiet /\ (calm => sock.done = <<>>)
  /\ sock.reconnects < MaxBudget /\ Len(sock.reads) + Len(sock.done) < MaxPending
  /\ sock' = QueuePresence(sock, app, p)
  /\ has_presence' = TRUE
  /\ UNCHANGED <<app, quiet, calm>>

\* Discord::clear_presence.
Clear ==
  /\ ~quiet /\ has_presence
  /\ sock' = Close(sock)
  /\ has_presence' = FALSE
  /\ UNCHANGED <<app, quiet, calm>>

\* The next read handler runs.
Handler ==
  /\ sock.done # <<>>
  /\ LET x == [sock EXCEPT !.done = Tail(@)]
         h == Head(sock.done)
     IN  \/ h[2] = "error" /\ sock' = HandleError(x, app)
         \/ h = <<"auth", "ok">> /\ sock' = SendPresence(x, app)
         \/ h = <<"presence", "ok">> /\ sock' = HandlePresence(x, TRUE)
         \/ h = <<"presence", "ok">> /\ x.dirty /\ sock' = HandlePresence(x, FALSE)
  /\ UNCHANGED <<app, has_presence, quiet, calm>>

\* Discord has sent as many bytes as the oldest read asks for.
Answer ==
  /\ sock.alive /\ sock.reads # <<>>
  /\ sock' = [sock EXCEPT !.reads = Tail(@),
                          !.done = Append(@, <<Head(sock.reads), "ok">>)]
  /\ UNCHANGED <<app, has_presence, quiet, calm>>

\* Discord closes the link, or ends.
Break ==
  /\ ~calm /\ sock.alive
  /\ sock' = Fail(sock)
  /\ app' \in {"absent", "refusing", "listening"}
  /\ UNCHANGED <<has_presence, quiet, calm>>

AppChanges ==
  /\ ~calm /\ ~sock.alive
  /\ app' \in {"absent", "refusing", "listening"} \ {app}
  /\ UNCHANGED <<sock, has_presence, quiet, calm>>

FallQuiet ==
  ~quiet /\ quiet' = TRUE /\ UNCHANGED <<sock, app, has_presence, calm>>

FallCalm ==
  /\ ~calm /\ app = "listening" /\ sock.reconnects < MaxBudget
  /\ calm' = TRUE
  /\ UNCHANGED <<sock, app, has_presence, quiet>>

SocketNext ==
  \/ \E p \in Presences : Update(p)
  \/ Clear
  \/ Handler
  \/ Answer
  \/ Break
  \/ AppChanges
  \/ FallQuiet
  \/ FallCalm

SocketSpec == SocketInit /\ [][SocketNext]_socketVars

\* Queued handlers run, a Discord that listens answers, and while there is a
\* presence the 15 second loop dispatches it again.
SocketFairSpec ==
  /\ SocketSpec
  /\ WF_socketVars(Handler)
  /\ WF_socketVars(Answer)
  /\ WF_socketVars(has_presence /\ \E p \in Presences : Update(p))

-----------------------------------------------------------------------------

\* Every member has its type, and reads wait on a link only.
SocketTypeOK ==
  /\ sock \in SocketType
  /\ sock.reads # <<>> => sock.alive
  /\ sock.alive => sock.open
  /\ app \in {"absent", "refusing", "listening"}
  /\ has_presence \in BOOLEAN /\ quiet \in BOOLEAN /\ calm \in BOOLEAN

\* Every link starts with a handshake, whichever handler opened it and whatever
\* handlers of the link before it run afterwards.
HandshakeFirst == sock.first # "frame"

\* connect is called on a closed socket only: OFFLINE is never said of an open
\* one, by an error of an older link or by a refusal in the middle of a retry.
OfflineClosed == sock.connected = "OFFLINE" => ~sock.open

\* When no presence is dispatched any more the reconnects come to an end: no
\* read is left that would keep io.run from returning.
RetriesEnd == quiet ~> sock.reads = <<>> /\ sock.done = <<>>

\* Once Discord is back for good the presence is shown again.
Heals == calm ~> quiet \/ ~has_presence \/ sock.shown = sock.presence

\* A presence that was cleared is not shown ("Presence is wiped automatically,
\* when the socket is closed", client_socket.cc:197).
ClearedStaysCleared == ~has_presence => sock.shown = Null

=============================================================================
