------------------------------ MODULE Replace ------------------------------
(***************************************************************************)
(* Several processes of the program and one port: --replace asks the server *)
(* that listens to shut down, waits for its answer or five seconds, and     *)
(* listens itself (async_replace.cc, Server::start and release_port).  The  *)
(* requests of editors are in Server.                                       *)
(***************************************************************************)

CONSTANTS
  Procs,       \* processes of the program, each started once
  Other,       \* a program that is not Presence
  None         \* connected to nobody

ASSUME ProcsAssumption == Other \notin Procs /\ None \notin Procs /\ Other # None

VARIABLES
  proc,        \* the state of each process
  other,       \* Other has the port
  excuse       \* history: a process ended by itself, or its timer expired before
               \* the answer, since the last one was started with --replace

replaceVars == <<proc, other, excuse>>

\* connecting: the request is not written yet.  waiting: io.run without an
\* acceptor.  exitting: the acceptor is cancelled, released: it is closed.
Phases == {"off", "connecting", "waiting", "listening", "exitting", "released", "ended"}

\* started is Server::started; timer, link and to belong to AsyncReplace: fired is
\* the wait handler, queued by the expiry or by cancel; link is the connection as
\* the other side has it.
Process == [phase : Phases, started : BOOLEAN, timer : {"off", "armed", "fired"},
            link : {"none", "backlog", "accepted", "answered", "reset"},
            to : Procs \cup {Other, None}]

NewProcess == [phase |-> "off", started |-> FALSE, timer |-> "off",
               link |-> "none", to |-> None]

-----------------------------------------------------------------------------
(* The sockets of the operating system.                                     *)

\* A cancelled acceptor still has the port.
Holders == {p \in Procs : proc[p].phase \in {"listening", "exitting"}}
Free == Holders = {} /\ ~other

\* The connections to h in one of the given states are reset.
Reset(ps, h, links) ==
  [p \in Procs |-> IF ps[p].to = h /\ ps[p].link \in links
                   THEN [ps[p] EXCEPT !.link = "reset"] ELSE ps[p]]

\* A process ends; what it wrote before can still be read.
Ended(ps, p) ==
  Reset([ps EXCEPT ![p].phase = "ended", ![p].timer = "off"], p, {"backlog", "accepted"})

-----------------------------------------------------------------------------

\* Mutant: nothing remembers that the server was started.
StartAgain(ps, p) ==
  IF Free THEN [ps EXCEPT ![p].phase = "listening", ![p].started = TRUE]
  ELSE Ended(ps, p)

\* Mutant: started stays false.
StartForgets(ps, p) ==
  IF ps[p].started THEN ps
  ELSE IF Free THEN [ps EXCEPT ![p].phase = "listening"]
  ELSE Ended(ps, p)

\* Server::start: a second call does nothing; a port in use ends the process.
Start(ps, p) ==
  IF ps[p].started THEN ps
  ELSE IF Free THEN [ps EXCEPT ![p].phase = "listening", ![p].started = TRUE]
  ELSE Ended(ps, p)

\* The constructor of Server without --replace.
Spawn(p) ==
  /\ proc[p].phase = "off"
  /\ proc' = Start(proc, p)
  /\ UNCHANGED <<other, excuse>>

\* Mutant: begin_timeout is not called.
ConnectedUntimed(p, h) ==
  [proc EXCEPT ![p].phase = "connecting", ![p].link = "backlog", ![p].to = h]

\* AsyncReplace::shutdown, after connect: begin_timeout.
Connected(p, h) ==
  [proc EXCEPT ![p].phase = "connecting", ![p].link = "backlog", ![p].to = h,
               ![p].timer = "armed"]

\* The constructor with --replace: "Nothing replaceable found", or connected.
Connect(p) ==
  /\ proc[p].phase = "off"
  /\ \/ Free /\ proc' = Start(proc, p)
     \/ \E h \in Holders \cup (IF other THEN {Other} ELSE {}) : proc' = Connected(p, h)
  /\ excuse' = FALSE
  /\ UNCHANGED other

\* A write on a connection that was reset throws, unless the reset is still on its
\* way: the constructor starts the server while the timer runs.
Write(p) ==
  /\ proc[p].phase = "connecting"
  /\ \/ proc' = [proc EXCEPT ![p].phase = "waiting"]
     \/ proc[p].link = "reset" /\ proc' = Start(proc, p)
  /\ UNCHANGED <<other, excuse>>

\* handle_response, of an answer or an error: cancel queues the wait handler.
HandleResponse(p) ==
  /\ proc[p].phase = "waiting" /\ proc[p].link \in {"answered", "reset"}
  /\ proc' = [proc EXCEPT ![p].link = "none",
                          ![p].timer = IF @ = "armed" THEN "fired" ELSE @]
  /\ UNCHANGED <<other, excuse>>

\* Five seconds are over.
Expire(p) ==
  /\ proc[p].timer = "armed" /\ proc[p].phase # "connecting"
  /\ proc' = [proc EXCEPT ![p].timer = "fired"]
  /\ excuse' = (excuse \/ proc[p].link \in {"backlog", "accepted"})
  /\ UNCHANGED other

\* close_socket, the wait handler in either case.
CloseSocket(p) ==
  /\ proc[p].timer = "fired" /\ proc[p].phase # "connecting"
  /\ proc' = Start([proc EXCEPT ![p].timer = "off"], p)
  /\ UNCHANGED <<other, excuse>>

-----------------------------------------------------------------------------
(* The server that is asked.                                                *)

Accept(h, p) ==
  /\ proc[h].phase = "listening" /\ proc[p].to = h /\ proc[p].link = "backlog"
  /\ proc' = [proc EXCEPT ![p].link = "accepted"]
  /\ UNCHANGED <<other, excuse>>

\* Mutant: the acceptor is cancelled, not closed.
ReleasedLate(h) == [proc EXCEPT ![h].phase = "exitting"]

\* release_port: connections nobody has accepted are reset.
Released(h) == Reset([proc EXCEPT ![h].phase = "released"], h, {"backlog"})

\* handle_shutdown: the port is free before the answer is sent.  A second request
\* throws on the closed acceptor, and get_info may throw.
RequestShutdown(h, p) ==
  /\ proc[p].to = h /\ proc[p].link = "accepted" /\ proc[p].phase # "connecting"
  /\ \/ /\ proc[h].phase \in {"listening", "exitting"}
        /\ proc' = [Released(h) EXCEPT ![p].link = "answered"]
     \/ proc' = Ended(proc, h)
  /\ UNCHANGED <<other, excuse>>

\* The last editor is gone: the acceptor is cancelled only.
Exit(h) ==
  /\ proc[h].phase = "listening"
  /\ proc' = [proc EXCEPT ![h].phase = "exitting"]
  /\ excuse' = TRUE
  /\ UNCHANGED other

\* io.run returns when no connection and no timer is left.
RunReturns(h) ==
  /\ proc[h].phase \in {"exitting", "released"} /\ proc[h].timer = "off"
  /\ \A p \in Procs : ~(proc[p].to = h /\ proc[p].link = "accepted")
  /\ proc' = Ended(proc, h)
  /\ UNCHANGED <<other, excuse>>

-----------------------------------------------------------------------------
(* The rest of the machine.                                                 *)

Kill(p) ==
  /\ proc[p].phase \notin {"off", "ended"}
  /\ proc' = IF proc[p].phase = "connecting"
             THEN Ended([proc EXCEPT ![p].link = "none"], p) ELSE Ended(proc, p)
  /\ excuse' = TRUE
  /\ UNCHANGED other

\* Whatever it answers.
OtherAnswers(p) ==
  /\ proc[p].to = Other /\ proc[p].link = "backlog"
  /\ proc' = [proc EXCEPT ![p].link = "answered"]
  /\ UNCHANGED <<other, excuse>>

OtherTakes == Free /\ other' = TRUE /\ UNCHANGED <<proc, excuse>>

OtherLeaves ==
  /\ other /\ other' = FALSE
  /\ proc' = Reset(proc, Other, {"backlog"})
  /\ excuse' = TRUE

-----------------------------------------------------------------------------

ReplaceInit ==
  /\ proc = [p \in Procs |-> NewProcess]
  /\ other \in BOOLEAN /\ excuse = FALSE

Newcomer(p) == Write(p) \/ HandleResponse(p) \/ Expire(p) \/ CloseSocket(p)

ReplaceNext ==
  \/ \E p \in Procs : \/ Spawn(p) \/ Connect(p) \/ Newcomer(p)
                      \/ Exit(p) \/ RunReturns(p) \/ Kill(p) \/ OtherAnswers(p)
  \/ \E h, p \in Procs : Accept(h, p) \/ RequestShutdown(h, p)
  \/ OtherTakes
  \/ OtherLeaves

ReplaceSpec == ReplaceInit /\ [][ReplaceNext]_replaceVars

\* The loop of a newcomer runs its handlers and its timer expires.  Nothing is
\* assumed of the program it has asked.
ReplaceFairSpec ==
  /\ ReplaceSpec
  /\ \A p \in Procs : /\ WF_replaceVars(Write(p))
                      /\ WF_replaceVars(Expire(p))
                      /\ WF_replaceVars(CloseSocket(p))

-----------------------------------------------------------------------------

\* Every member holds a value of its C++ type, and a process with an acceptor,
\* closed or not, knows that it was started.
ReplaceTypeOK ==
  /\ proc \in [Procs -> Process]
  /\ other \in BOOLEAN /\ excuse \in BOOLEAN
  /\ \A p \in Procs : proc[p].phase \in {"listening", "exitting", "released"} =>
       proc[p].started

Listening(p) == proc[p].phase = "listening"

\* A server that listens stops only because it was asked to, was left by its
\* editors, or was killed: neither the timer of its own replacement, still armed
\* when it started, nor a late answer makes it start again or end.
KeepsPort ==
  [][\A h \in Procs : Listening(h) /\ ~Listening(h)' =>
       Exit(h) \/ Kill(h) \/ \E p \in Procs : RequestShutdown(h, p)]_replaceVars

\* A replacement that was not given up before the answer does not leave the port
\* to nobody: with several newcomers that ask one server, or each other, the
\* last one standing serves, or a program that took the port in between.
PortServed ==
  (\A p \in Procs : proc[p].phase \in {"off", "listening", "ended"}) =>
    \/ other \/ excuse
    \/ \E p \in Procs : Listening(p)
    \/ \A p \in Procs : proc[p].phase = "off"

\* A newcomer serves or ends, whatever the program it asked does.
Settles ==
  \A p \in Procs :
    proc[p].phase \in {"connecting", "waiting"} ~>
      proc[p].phase \in {"listening", "ended"}

=============================================================================
