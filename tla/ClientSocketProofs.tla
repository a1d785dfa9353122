-------------------------- MODULE ClientSocketProofs --------------------------
(***************************************************************************)
(* The safety of ClientSocket for every set of presences: each method of    *)
(* the class keeps Linked, the inductive invariant.                         *)
(***************************************************************************)
EXTENDS ClientSocket, TLAPS

\* HandshakeFirst needs to know that a link said to be authenticated has had its
\* first frame: only then may a presence follow.
Linked(x) ==
  /\ x \in SocketType
  /\ x.reads # <<>> => x.alive
  /\ x.alive => x.open
  /\ x.first # "frame"
  /\ x.connected = "OFFLINE" => ~x.open
  /\ x.connected = "AUTHENTICATED" /\ x.alive => x.first # "none"

-----------------------------------------------------------------------------

\* Closing a socket queues handlers and leaves no link.
LEMMA CloseLinked ==
  ASSUME NEW x, Linked(x)
  PROVE  /\ Linked(Fail(x)) /\ Linked(Close(x))
         /\ ~Close(x).open /\ ~Close(x).alive
         /\ Close(x).connected = x.connected
<1> DEFINE d == [k \in DOMAIN x.reads |-> <<x.reads[k], "error">>]
<1>1. x \in SocketType
  BY DEF Linked
<1>2. d \in Seq({"auth", "presence"} \X {"ok", "error"})
  BY <1>1 DEF SocketType
<1>3. x.done \o d \in Seq({"auth", "presence"} \X {"ok", "error"})
  BY <1>1, <1>2 DEF SocketType
<1>4. Fail(x) = [x EXCEPT !.reads = <<>>, !.alive = FALSE, !.shown = Null,
                          !.done = x.done \o d,
                          !.dirty = Fail(x).dirty]
  BY <1>1 DEF Fail, SocketType
<1>5. Fail(x).dirty \in BOOLEAN
  BY <1>1 DEF Fail, SocketType
<1>6. Fail(x) \in SocketType
  <2>1. ASSUME NEW s \in Seq({"auth", "presence"} \X {"ok", "error"}),
               NEW b \in BOOLEAN
        PROVE  [x EXCEPT !.reads = <<>>, !.alive = FALSE, !.shown = Null,
                         !.done = s, !.dirty = b] \in SocketType
    <3>1. [x EXCEPT !.reads = <<>>, !.alive = FALSE, !.shown = Null] \in SocketType
      <4>1. ASSUME NEW t \in Seq({"auth", "presence"})
            PROVE  [x EXCEPT !.reads = t, !.alive = FALSE, !.shown = Null] \in SocketType
        BY <1>1 DEF SocketType
      <4>2. <<>> \in Seq({"auth", "presence"})
        OBVIOUS
      <4> QED
        BY <4>1, <4>2
    <3>2. ASSUME NEW y \in SocketType
          PROVE  [y EXCEPT !.done = s, !.dirty = b] \in SocketType
      BY DEF SocketType
    <3> QED
      BY <3>1, <3>2
  <2> HIDE DEF d
  <2> QED
    BY <1>3, <1>4, <1>5, <2>1
<1>7. /\ Fail(x).reads = <<>> /\ ~Fail(x).alive /\ Fail(x).open = x.open
      /\ Fail(x).first = x.first /\ Fail(x).connected = x.connected
  BY <1>1, <1>4 DEF SocketType
<1>8. Linked(Fail(x))
  BY <1>6, <1>7 DEF Linked
<1>9. /\ Close(x) \in SocketType
      /\ Close(x).reads = <<>> /\ ~Close(x).alive /\ ~Close(x).open
      /\ Close(x).first = "none" /\ Close(x).connected = x.connected
  BY <1>6, <1>7 DEF Close, SocketType
<1> QED
  BY <1>8, <1>9 DEF Linked

\* What a refused connection leaves of the budget.
LEMMA RefusedInt ==
  ASSUME NEW r \in Int
  PROVE  Refused(r) \in Int
BY DEF Refused

\* A handshake may follow on every link, a presence on an authenticated one.
LEMMA WriteLinked ==
  ASSUME NEW x, Linked(x), x.alive
  PROVE  /\ Linked(Handshake(x))
         /\ x.connected = "AUTHENTICATED" => Linked(Write(x))
<1>1. x \in SocketType
  BY DEF Linked
<1>2. /\ Append(x.reads, "auth") \in Seq({"auth", "presence"})
      /\ Append(x.reads, "presence") \in Seq({"auth", "presence"})
  BY <1>1 DEF SocketType
<1>3. Linked(Handshake(x))
  BY <1>1, <1>2 DEF Handshake, Linked, SocketType
<1>4. ASSUME x.connected = "AUTHENTICATED"
      PROVE  Linked(Write(x))
  <2>1. Write(x) = [x EXCEPT !.reads = Append(x.reads, "presence"),
                             !.shown = x.presence, !.dirty = Write(x).dirty]
    BY <1>1, <1>4 DEF Write, Linked, SocketType
  <2>2. Write(x).dirty \in BOOLEAN
    BY <1>1 DEF Write, SocketType
  <2>3. Write(x) \in SocketType
    BY <1>1, <1>2, <2>1, <2>2 DEF SocketType
  <2> QED
    BY <1>1, <1>4, <2>1, <2>3 DEF Linked, SocketType
<1> QED
  BY <1>3, <1>4

\* connect is tried on a closed socket.
LEMMA RetryLinked ==
  ASSUME NEW x, Linked(x), x.connected = "OFFLINE",
         NEW a \in {"absent", "refusing", "listening"}
  PROVE  Linked(TryConnect(x, a)) /\ Linked(Retry(x, a))
<1> DEFINE y == TryConnect(x, a)
<1>1. x \in SocketType /\ ~x.open /\ ~x.alive /\ x.reads = <<>>
  BY DEF Linked, SocketType
<1>2. Refused(x.reconnects) \in Int
  BY <1>1, RefusedInt DEF SocketType
<1>3. CASE a = "absent"
  BY <1>1, <1>3 DEF TryConnect, Retry
<1>4. CASE a = "refusing"
  <2>1. y = [x EXCEPT !.reconnects = Refused(x.reconnects)]
    BY <1>1, <1>4 DEF TryConnect, SocketType
  <2>2. Linked(y) /\ y.connected = "OFFLINE"
    BY <1>1, <1>2, <2>1 DEF Linked, SocketType
  <2> QED
    BY <2>2 DEF Retry
<1>5. CASE a = "listening"
  <2>1. y = [x EXCEPT !.connected = "CONNECTED", !.open = TRUE, !.alive = TRUE]
    BY <1>5 DEF TryConnect
  <2>2. Linked(y) /\ y.connected = "CONNECTED" /\ y.alive
    BY <1>1, <2>1 DEF Linked, SocketType
  <2>3. Linked(Handshake(y))
    BY <2>2, WriteLinked
  <2> QED
    BY <2>2, <2>3 DEF Retry
<1> QED
  BY <1>3, <1>4, <1>5

\* The budget says nothing about the link.
LEMMA BudgetLinked ==
  ASSUME NEW x, Linked(x), NEW n \in Int
  PROVE  /\ [x EXCEPT !.reconnects = n] \in SocketType
         /\ Linked([x EXCEPT !.reconnects = n])
         /\ [x EXCEPT !.reconnects = n].connected = x.connected
BY DEF Linked, SocketType

\* The budget is counted in integers.
LEMMA BudgetInt ==
  ASSUME NEW x, Linked(x)
  PROVE  x.reconnects - 1 \in Int /\ x.reconnects + 1 \in Int
<1>1. x.reconnects \in Int
  BY DEF Linked, SocketType
<1> QED
  BY <1>1

\* An error gives the link up before it may try the next one.
LEMMA HandleErrorLinked ==
  ASSUME NEW x, Linked(x), NEW a \in {"absent", "refusing", "listening"}
  PROVE  Linked(HandleError(x, a))
<1> DEFINE y == [Close(x) EXCEPT !.connected = "OFFLINE"]
           z == [y EXCEPT !.reconnects = y.reconnects - 1]
<1>1. Linked(Close(x)) /\ ~Close(x).open /\ ~Close(x).alive
  BY CloseLinked
<1>2. Linked(y) /\ y.connected = "OFFLINE" /\ y \in SocketType
  BY <1>1 DEF Linked, SocketType
<1>3. Linked(z) /\ z.connected = "OFFLINE"
  <2> HIDE DEF y
  <2> QED
    BY <1>2, BudgetInt, BudgetLinked
<1>4. Linked(Retry(z, a))
  BY <1>3, RetryLinked
<1>5. HandleError(x, a) = IF y.reconnects > 0 THEN Retry(z, a) ELSE y
  BY <1>2 DEF HandleError, SocketType
<1> QED
  BY <1>2, <1>4, <1>5

\* Whatever the status says, sending keeps the invariant.
LEMMA SendLinked ==
  ASSUME NEW x, Linked(x), NEW a \in {"absent", "refusing", "listening"}
  PROVE  Linked(SendPresence(x, a))
<1>1. CASE x.connected = "AUTHENTICATED"
  BY <1>1, WriteLinked, HandleErrorLinked DEF SendPresence
<1>2. CASE x.connected = "OFFLINE"
  BY <1>2, RetryLinked DEF SendPresence, Authenticate
<1>3. CASE x.connected = "CONNECTED"
  BY <1>3, WriteLinked, HandleErrorLinked DEF SendPresence, Authenticate
<1>4. x.connected \in {"OFFLINE", "CONNECTED", "AUTHENTICATED"}
  BY DEF Linked, SocketType
<1> QED
  BY <1>1, <1>2, <1>3, <1>4

\* An answer changes the budget or the status, never the link.
LEMMA HandlePresenceLinked ==
  ASSUME NEW x, Linked(x), NEW same \in BOOLEAN
  PROVE  Linked(HandlePresence(x, same))
<1> DEFINE y == [x EXCEPT !.dirty = x.dirty /\ Coming(x)]
<1>1. Linked(y) /\ y \in SocketType
  BY DEF Linked, SocketType
<1>2. HandlePresence(x, same) = IF same THEN [y EXCEPT !.reconnects = y.reconnects - 1]
                                        ELSE [y EXCEPT !.connected = "CONNECTED"]
  BY DEF HandlePresence
<1> HIDE DEF y
<1>3. Linked([y EXCEPT !.reconnects = y.reconnects - 1])
  BY <1>1, BudgetInt, BudgetLinked
<1>4. Linked([y EXCEPT !.connected = "CONNECTED"])
  BY <1>1 DEF Linked, SocketType
<1> QED
  BY <1>2, <1>3, <1>4

-----------------------------------------------------------------------------

\* The inductive invariant of the specification.
SocketIInv ==
  /\ Linked(sock)
  /\ app \in {"absent", "refusing", "listening"}
  /\ has_presence \in BOOLEAN /\ quiet \in BOOLEAN /\ calm \in BOOLEAN

\* The constructor.
LEMMA SocketInitLinked == SocketInit => SocketIInv
<1> SUFFICES ASSUME SocketInit PROVE SocketIInv
  OBVIOUS
<1> DEFINE x == [connected |-> "OFFLINE", reconnects |-> 0,
                 presence |-> Null, reads |-> <<>>, done |-> <<>>,
                 dirty |-> FALSE, open |-> FALSE, alive |-> FALSE,
                 first |-> "none", shown |-> Null]
<1>1. Linked(x) /\ x.connected = "OFFLINE"
  BY DEF Linked, SocketType
<1>2. sock = TryConnect(x, app) /\ app \in {"absent", "refusing", "listening"}
  BY DEF SocketInit
<1>3. Linked(sock)
  BY <1>1, <1>2, RetryLinked
<1> QED
  BY <1>3 DEF SocketInit, SocketIInv

\* Every step.
LEMMA SocketNextLinked == SocketIInv /\ [SocketNext]_socketVars => SocketIInv'
<1> SUFFICES ASSUME SocketIInv, [SocketNext]_socketVars PROVE SocketIInv'
  OBVIOUS
<1>1. Linked(sock) /\ sock \in SocketType /\ app \in {"absent", "refusing", "listening"}
  BY DEF SocketIInv, Linked
<1>2. ASSUME NEW p \in Presences, Update(p)
      PROVE  SocketIInv'
  <2> DEFINE x == [sock EXCEPT !.reconnects = sock.reconnects + 1, !.presence = p]
  <2>1. Linked(x)
    <3>1. sock.reconnects + 1 \in Int
      BY <1>1, BudgetInt
    <3>2. ASSUME NEW n \in Int
          PROVE  Linked([sock EXCEPT !.reconnects = n, !.presence = p])
      BY <1>1 DEF Linked, SocketType
    <3> QED
      BY <3>1, <3>2
  <2>2. sock' = SendPresence(x, app)
    BY <1>1, <1>2 DEF Update, QueuePresence, SocketType
  <2>3. Linked(sock')
    BY <1>1, <2>1, <2>2, SendLinked
  <2> QED
    BY <1>2, <2>3 DEF Update, SocketIInv
<1>3. CASE Clear
  BY <1>1, <1>3, CloseLinked DEF Clear, SocketIInv
<1>4. CASE Handler
  <2> DEFINE x == [sock EXCEPT !.done = Tail(sock.done)]
  <2>1. Tail(sock.done) \in Seq({"auth", "presence"} \X {"ok", "error"})
    BY <1>1, <1>4 DEF Handler, SocketType
  <2>2. Linked(x)
    BY <1>1, <2>1 DEF Linked, SocketType
  <2>3. \/ sock' = HandleError(x, app)
        \/ sock' = SendPresence(x, app)
        \/ \E same \in BOOLEAN : sock' = HandlePresence(x, same)
    BY <1>1, <1>4 DEF Handler, SocketType
  <2>4. Linked(sock')
    BY <1>1, <2>2, <2>3, HandleErrorLinked, SendLinked, HandlePresenceLinked
  <2> QED
    BY <1>4, <2>4 DEF Handler, SocketIInv
<1>5. CASE Answer
  <2>1. Tail(sock.reads) \in Seq({"auth", "presence"})
    BY <1>1, <1>5 DEF Answer, SocketType
  <2>2. Append(sock.done, <<Head(sock.reads), "ok">>)
          \in Seq({"auth", "presence"} \X {"ok", "error"})
    BY <1>1, <1>5 DEF Answer, SocketType
  <2>3. Linked(sock')
    BY <1>1, <1>5, <2>1, <2>2 DEF Answer, Linked, SocketType
  <2> QED
    BY <1>5, <2>3 DEF Answer, SocketIInv
<1>6. CASE Break
  BY <1>1, <1>6, CloseLinked DEF Break, SocketIInv
<1>7. CASE AppChanges
  BY <1>7 DEF AppChanges, SocketIInv
<1>8. CASE FallQuiet \/ FallCalm
  BY <1>8 DEF FallQuiet, FallCalm, SocketIInv
<1>9. CASE UNCHANGED socketVars
  BY <1>9 DEF socketVars, SocketIInv
<1> QED
  BY <1>2, <1>3, <1>4, <1>5, <1>6, <1>7, <1>8, <1>9 DEF SocketNext

\* Links start with a handshake, connect is called on closed sockets only, and
\* reads wait on live links only, for every set of presences.
THEOREM SocketSafe == SocketSpec => [](SocketTypeOK /\ HandshakeFirst /\ OfflineClosed)
<1>1. SocketIInv => SocketTypeOK /\ HandshakeFirst /\ OfflineClosed
  BY DEF SocketIInv, Linked, SocketTypeOK, HandshakeFirst, OfflineClosed
<1> QED
  BY <1>1, SocketInitLinked, SocketNextLinked, PTL DEF SocketSpec

=============================================================================
