--------------------------- MODULE ReplaceProofs ---------------------------
(***************************************************************************)
(* Replace for any number of processes: types, a server keeps its port, and *)
(* a replacement leaves the port to somebody.                               *)
(***************************************************************************)
EXTENDS Replace, TLAPS

\* The acceptor of a process is there only when Server::start has run.
Coherent(ps) ==
  \A p \in Procs : ps[p].phase \in {"listening", "exitting", "released"} => ps[p].started

Sound(ps) == ps \in [Procs -> Process] /\ Coherent(ps)

-----------------------------------------------------------------------------
(* The operators on the processes.                                          *)

\* Nothing but the connections of others changes when connections are reset.
LEMMA ResetSound ==
  ASSUME NEW ps \in [Procs -> Process], Coherent(ps), NEW h, NEW L
  PROVE  /\ Sound(Reset(ps, h, L))
         /\ \A q \in Procs : /\ Reset(ps, h, L)[q].phase = ps[q].phase
                             /\ Reset(ps, h, L)[q].started = ps[q].started
                             /\ Reset(ps, h, L)[q].timer = ps[q].timer
<1> DEFINE rs == Reset(ps, h, L)
<1>1. ASSUME NEW q \in Procs
      PROVE  /\ rs[q] \in Process /\ rs[q].phase = ps[q].phase
             /\ rs[q].started = ps[q].started /\ rs[q].timer = ps[q].timer
  <2>1. rs[q] = IF ps[q].to = h /\ ps[q].link \in L
                THEN [ps[q] EXCEPT !.link = "reset"] ELSE ps[q]
    BY DEF Reset
  <2>2. ps[q] \in Process
    OBVIOUS
  <2> QED
    BY <2>1, <2>2 DEF Process
<1>2. rs \in [Procs -> Process]
  BY <1>1 DEF Reset
<1>3. Coherent(rs)
  BY <1>1 DEF Coherent
<1> QED
  BY <1>1, <1>2, <1>3 DEF Sound

\* The end of a process leaves the phase of every other one alone.
LEMMA EndedSound ==
  ASSUME NEW ps \in [Procs -> Process], Coherent(ps), NEW p \in Procs
  PROVE  /\ Sound(Ended(ps, p))
         /\ \A q \in Procs \ {p} : Ended(ps, p)[q].phase = ps[q].phase
         /\ Ended(ps, p)[p].phase = "ended"
<1> DEFINE es == [ps EXCEPT ![p].phase = "ended", ![p].timer = "off"]
<1>1. es \in [Procs -> Process]
  <2>1. ps[p] \in Process
    OBVIOUS
  <2>2. [ps[p] EXCEPT !.phase = "ended", !.timer = "off"] \in Process
    BY <2>1 DEF Process, Phases
  <2> QED
    BY <2>2
<1>2. /\ \A q \in Procs \ {p} : es[q] = ps[q]
      /\ es[p].phase = "ended"
  BY DEF Process
<1>3. Coherent(es)
  BY <1>2 DEF Coherent
<1> HIDE DEF es
<1>4. Ended(ps, p) = Reset(es, p, {"backlog", "accepted"})
  BY DEF Ended, es
<1> QED
  BY <1>1, <1>2, <1>3, <1>4, ResetSound

\* Server::start changes the phase of its own process only, and of that only when
\* it has not been started.
LEMMA StartSound ==
  ASSUME NEW ps \in [Procs -> Process], Coherent(ps), NEW p \in Procs
  PROVE  /\ Sound(Start(ps, p))
         /\ \A q \in Procs \ {p} : Start(ps, p)[q].phase = ps[q].phase
         /\ ps[p].started => Start(ps, p) = ps
<1> DEFINE ls == [ps EXCEPT ![p].phase = "listening", ![p].started = TRUE]
<1>1. ls \in [Procs -> Process]
  <2>1. ps[p] \in Process
    OBVIOUS
  <2>2. [ps[p] EXCEPT !.phase = "listening", !.started = TRUE] \in Process
    BY <2>1 DEF Process, Phases
  <2> QED
    BY <2>2
<1>2. \A q \in Procs \ {p} : ls[q] = ps[q]
  OBVIOUS
<1>3. ls[p].started
  BY DEF Process
<1>4. Sound(ls)
  BY <1>1, <1>2, <1>3 DEF Sound, Coherent
<1> HIDE DEF ls
<1>5. CASE ps[p].started
  BY <1>5 DEF Start, Sound
<1>6. CASE ~ps[p].started /\ Free
  BY <1>2, <1>4, <1>6 DEF Start, ls
<1>7. CASE ~ps[p].started /\ ~Free
  BY <1>7, EndedSound DEF Start
<1> QED
  BY <1>5, <1>6, <1>7

\* A change of fields that neither the phase nor started depends on.
LEMMA SameSound ==
  ASSUME NEW ps \in [Procs -> Process], Coherent(ps), NEW p \in Procs, NEW x \in Process,
         x.phase = ps[p].phase, x.started = ps[p].started
  PROVE  /\ Sound([ps EXCEPT ![p] = x])
         /\ \A q \in Procs : [ps EXCEPT ![p] = x][q].phase = ps[q].phase
         /\ [ps EXCEPT ![p] = x][p].started = ps[p].started
BY DEF Sound, Coherent

-----------------------------------------------------------------------------
(* The invariant.                                                           *)

LEMMA SoundIsType == ReplaceTypeOK <=> Sound(proc) /\ other \in BOOLEAN /\ excuse \in BOOLEAN
BY DEF ReplaceTypeOK, Sound, Coherent

LEMMA InitSound == ReplaceInit => ReplaceTypeOK
<1>1. NewProcess \in Process /\ NewProcess.phase = "off"
  BY DEF NewProcess, Process, Phases
<1> QED
  BY <1>1 DEF ReplaceInit, ReplaceTypeOK

\* Every action leaves the processes sound, and says which of them may stop
\* listening.
LEMMA NextSound ==
  ASSUME ReplaceTypeOK, [ReplaceNext]_replaceVars
  PROVE  /\ ReplaceTypeOK'
         /\ \A h \in Procs : Listening(h) /\ ~Listening(h)' =>
              Exit(h) \/ Kill(h) \/ \E p \in Procs : RequestShutdown(h, p)
<1> DEFINE Kept(h) == proc[h].phase = "listening" => proc'[h].phase = "listening"
<1> SUFFICES /\ Sound(proc') /\ other' \in BOOLEAN /\ excuse' \in BOOLEAN
             /\ \A h \in Procs :
                  Kept(h) \/ Exit(h) \/ Kill(h) \/ \E p \in Procs : RequestShutdown(h, p)
  BY DEF ReplaceTypeOK, Sound, Coherent, Listening
<1>0. /\ proc \in [Procs -> Process] /\ Coherent(proc) /\ Sound(proc)
      /\ other \in BOOLEAN /\ excuse \in BOOLEAN
  BY DEF ReplaceTypeOK, Sound, Coherent
<1>1. CASE UNCHANGED replaceVars
  BY <1>0, <1>1 DEF replaceVars
<1>2. ASSUME NEW p \in Procs, Spawn(p)
      PROVE  /\ Sound(proc') /\ other' \in BOOLEAN /\ excuse' \in BOOLEAN
             /\ \A h \in Procs : Kept(h)
  BY <1>0, <1>2, StartSound DEF Spawn
<1>3. ASSUME NEW p \in Procs, Connect(p)
      PROVE  /\ Sound(proc') /\ other' \in BOOLEAN /\ excuse' \in BOOLEAN
             /\ \A h \in Procs : Kept(h)
  <2>1. CASE proc' = Start(proc, p)
    BY <1>0, <1>3, <2>1, StartSound DEF Connect
  <2>2. ASSUME NEW h \in Holders \cup (IF other THEN {Other} ELSE {}),
               proc' = Connected(p, h)
        PROVE  Sound(proc') /\ \A q \in Procs : Kept(q)
    <3>1. h \in Procs \cup {Other, None}
      BY <1>0 DEF Holders
    <3>2. proc[p] \in Process /\ proc[p].phase = "off"
      BY <1>0, <1>3 DEF Connect
    <3> DEFINE x == [proc[p] EXCEPT !.phase = "connecting", !.link = "backlog",
                                    !.to = h, !.timer = "armed"]
    <3>3. x \in Process /\ x.phase = "connecting"
      BY <3>1, <3>2 DEF Process, Phases
    <3>4. proc' = [proc EXCEPT ![p] = x]
      BY <1>0, <2>2, <3>2 DEF Connected
    <3> HIDE DEF x
    <3> QED
      BY <1>0, <3>2, <3>3, <3>4 DEF Sound, Coherent
  <2> QED
    BY <1>0, <1>3, <2>1, <2>2 DEF Connect
<1>4. ASSUME NEW p \in Procs, Write(p)
      PROVE  /\ Sound(proc') /\ other' \in BOOLEAN /\ excuse' \in BOOLEAN
             /\ \A h \in Procs : Kept(h)
  <2>1. proc[p].phase = "connecting" /\ proc[p] \in Process
    BY <1>0, <1>4 DEF Write
  <2>2. CASE proc' = [proc EXCEPT ![p].phase = "waiting"]
    <3>1. [proc[p] EXCEPT !.phase = "waiting"] \in Process
      BY <2>1 DEF Process, Phases
    <3>2. proc'[p].phase = "waiting" /\ \A q \in Procs \ {p} : proc'[q] = proc[q]
      BY <1>0, <2>1, <2>2 DEF Process
    <3>3. proc' \in [Procs -> Process]
      BY <1>0, <2>2, <3>1
    <3> QED
      BY <1>0, <1>4, <2>1, <3>2, <3>3 DEF Write, Sound, Coherent
  <2>3. CASE proc' = Start(proc, p)
    BY <1>0, <1>4, <2>1, <2>3, StartSound DEF Write
  <2> QED
    BY <1>4, <2>2, <2>3 DEF Write
<1>5. ASSUME NEW p \in Procs, HandleResponse(p)
      PROVE  /\ Sound(proc') /\ other' \in BOOLEAN /\ excuse' \in BOOLEAN
             /\ \A h \in Procs : Kept(h)
  <2> DEFINE x == [proc[p] EXCEPT !.link = "none",
                                  !.timer = IF @ = "armed" THEN "fired" ELSE @]
  <2>1. proc[p] \in Process
    BY <1>0
  <2>2. x \in Process /\ x.phase = proc[p].phase /\ x.started = proc[p].started
    BY <2>1 DEF Process
  <2>3. proc' = [proc EXCEPT ![p] = x] /\ UNCHANGED <<other, excuse>>
    BY <1>0, <1>5 DEF HandleResponse
  <2> HIDE DEF x
  <2> QED
    BY <1>0, <2>2, <2>3, SameSound
<1>6. ASSUME NEW p \in Procs, Expire(p)
      PROVE  /\ Sound(proc') /\ other' \in BOOLEAN /\ excuse' \in BOOLEAN
             /\ \A h \in Procs : Kept(h)
  <2> DEFINE x == [proc[p] EXCEPT !.timer = "fired"]
  <2>1. proc[p] \in Process
    BY <1>0
  <2>2. x \in Process /\ x.phase = proc[p].phase /\ x.started = proc[p].started
    BY <2>1 DEF Process
  <2>3. proc' = [proc EXCEPT ![p] = x]
    BY <1>0, <1>6 DEF Expire
  <2>4. other' \in BOOLEAN /\ excuse' \in BOOLEAN
    BY <1>0, <1>6 DEF Expire
  <2> HIDE DEF x
  <2> QED
    BY <1>0, <2>2, <2>3, <2>4, SameSound
<1>7. ASSUME NEW p \in Procs, CloseSocket(p)
      PROVE  /\ Sound(proc') /\ other' \in BOOLEAN /\ excuse' \in BOOLEAN
             /\ \A h \in Procs : Kept(h)
  <2> DEFINE x == [proc[p] EXCEPT !.timer = "off"]
             ps == [proc EXCEPT ![p] = x]
  <2>1. proc[p] \in Process
    BY <1>0
  <2>2. x \in Process /\ x.phase = proc[p].phase /\ x.started = proc[p].started
    BY <2>1 DEF Process
  <2>3. proc' = Start(ps, p) /\ UNCHANGED <<other, excuse>>
    BY <1>0, <1>7 DEF CloseSocket
  <2> HIDE DEF x
  <2>4. /\ Sound(ps) /\ ps[p].started = proc[p].started
        /\ \A q \in Procs : ps[q].phase = proc[q].phase
    BY <1>0, <2>2, SameSound
  <2> HIDE DEF ps
  <2>5. /\ Sound(proc') /\ (ps[p].started => proc' = ps)
        /\ \A q \in Procs \ {p} : proc'[q].phase = ps[q].phase
    BY <2>3, <2>4, StartSound DEF Sound
  <2>6. proc[p].phase = "listening" => proc[p].started
    BY <1>0 DEF Coherent
  <2> QED
    BY <1>0, <2>3, <2>4, <2>5, <2>6
<1>8. ASSUME NEW h \in Procs, NEW p \in Procs, Accept(h, p)
      PROVE  /\ Sound(proc') /\ other' \in BOOLEAN /\ excuse' \in BOOLEAN
             /\ \A q \in Procs : Kept(q)
  <2> DEFINE x == [proc[p] EXCEPT !.link = "accepted"]
  <2>1. proc[p] \in Process
    BY <1>0
  <2>2. x \in Process /\ x.phase = proc[p].phase /\ x.started = proc[p].started
    BY <2>1 DEF Process
  <2>3. proc' = [proc EXCEPT ![p] = x] /\ UNCHANGED <<other, excuse>>
    BY <1>0, <1>8 DEF Accept
  <2> HIDE DEF x
  <2> QED
    BY <1>0, <2>2, <2>3, SameSound
<1>9. ASSUME NEW h \in Procs, NEW p \in Procs, RequestShutdown(h, p)
      PROVE  /\ Sound(proc') /\ other' \in BOOLEAN /\ excuse' \in BOOLEAN
             /\ \A q \in Procs \ {h} : Kept(q)
  <2>1. CASE proc' = Ended(proc, h)
    BY <1>0, <1>9, <2>1, EndedSound DEF RequestShutdown
  <2>2. CASE /\ proc[h].phase \in {"listening", "exitting"}
             /\ proc' = [Released(h) EXCEPT ![p].link = "answered"]
    <3> DEFINE x == [proc[h] EXCEPT !.phase = "released"]
               ps == [proc EXCEPT ![h] = x]
               rs == Reset(ps, h, {"backlog"})
               y == [rs[p] EXCEPT !.link = "answered"]
    <3>1. proc[h] \in Process /\ proc[h].started
      BY <1>0, <2>2 DEF Coherent
    <3>2. x \in Process /\ x.phase = "released" /\ x.started
      BY <3>1 DEF Process, Phases
    <3>3. Released(h) = rs
      BY <1>0 DEF Released
    <3> HIDE DEF x
    <3>4. Sound(ps) /\ \A q \in Procs \ {h} : ps[q].phase = proc[q].phase
      BY <1>0, <3>2 DEF Sound, Coherent
    <3> HIDE DEF ps
    <3>5. Sound(rs) /\ \A q \in Procs : rs[q].phase = ps[q].phase
      BY <3>4, ResetSound DEF Sound
    <3> HIDE DEF rs
    <3>6. y \in Process /\ y.phase = rs[p].phase /\ y.started = rs[p].started
      <4>1. rs[p] \in Process
        BY <3>5 DEF Sound
      <4> QED
        BY <4>1 DEF Process
    <3>7. proc' = [rs EXCEPT ![p] = y]
      BY <2>2, <3>3, <3>5 DEF Sound
    <3> HIDE DEF y
    <3>8. Sound(proc') /\ \A q \in Procs : proc'[q].phase = rs[q].phase
      BY <3>5, <3>6, <3>7, SameSound DEF Sound
    <3> QED
      BY <1>0, <1>9, <3>4, <3>5, <3>8 DEF RequestShutdown
  <2> QED
    BY <1>9, <2>1, <2>2 DEF RequestShutdown
<1>10. ASSUME NEW h \in Procs, Exit(h)
       PROVE  /\ Sound(proc') /\ other' \in BOOLEAN /\ excuse' \in BOOLEAN
              /\ \A q \in Procs \ {h} : Kept(q)
  <2> DEFINE x == [proc[h] EXCEPT !.phase = "exitting"]
  <2>1. proc[h] \in Process /\ proc[h].started
    BY <1>0, <1>10 DEF Exit, Coherent
  <2>2. x \in Process /\ x.phase = "exitting" /\ x.started
    BY <2>1 DEF Process, Phases
  <2>3. proc' = [proc EXCEPT ![h] = x] /\ other' = other /\ excuse' = TRUE
    BY <1>0, <1>10 DEF Exit
  <2> HIDE DEF x
  <2> QED
    BY <1>0, <2>2, <2>3 DEF Sound, Coherent
<1>11. ASSUME NEW h \in Procs, RunReturns(h)
       PROVE  /\ Sound(proc') /\ other' \in BOOLEAN /\ excuse' \in BOOLEAN
              /\ \A q \in Procs : Kept(q)
  BY <1>0, <1>11, EndedSound DEF RunReturns
<1>12. ASSUME NEW p \in Procs, Kill(p)
       PROVE  /\ Sound(proc') /\ other' \in BOOLEAN /\ excuse' \in BOOLEAN
              /\ \A q \in Procs \ {p} : Kept(q)
  <2> DEFINE x == [proc[p] EXCEPT !.link = "none"]
             ps == [proc EXCEPT ![p] = x]
  <2>1. proc[p] \in Process
    BY <1>0
  <2>2. x \in Process /\ x.phase = proc[p].phase /\ x.started = proc[p].started
    BY <2>1 DEF Process
  <2>3. ps = [proc EXCEPT ![p].link = "none"]
    BY <1>0
  <2> HIDE DEF x
  <2>4. Sound(ps) /\ \A q \in Procs : ps[q].phase = proc[q].phase
    BY <1>0, <2>2, SameSound
  <2> HIDE DEF ps
  <2>5. proc' = Ended(ps, p) \/ proc' = Ended(proc, p)
    BY <1>12, <2>3 DEF Kill
  <2>6. other' = other /\ excuse' = TRUE
    BY <1>12 DEF Kill
  <2> QED
    BY <1>0, <2>4, <2>5, <2>6, EndedSound DEF Sound
<1>13. ASSUME NEW p \in Procs, OtherAnswers(p)
       PROVE  /\ Sound(proc') /\ other' \in BOOLEAN /\ excuse' \in BOOLEAN
              /\ \A q \in Procs : Kept(q)
  <2> DEFINE x == [proc[p] EXCEPT !.link = "answered"]
  <2>1. proc[p] \in Process
    BY <1>0
  <2>2. x \in Process /\ x.phase = proc[p].phase /\ x.started = proc[p].started
    BY <2>1 DEF Process
  <2>3. proc' = [proc EXCEPT ![p] = x] /\ UNCHANGED <<other, excuse>>
    BY <1>0, <1>13 DEF OtherAnswers
  <2> HIDE DEF x
  <2> QED
    BY <1>0, <2>2, <2>3, SameSound
<1>14. CASE OtherTakes
  BY <1>0, <1>14 DEF OtherTakes
<1>15. CASE OtherLeaves
  <2>1. proc' = Reset(proc, Other, {"backlog"}) /\ other' = FALSE /\ excuse' = TRUE
    BY <1>15 DEF OtherLeaves
  <2>2. Sound(proc') /\ \A q \in Procs : proc'[q].phase = proc[q].phase
    BY <1>0, <2>1, ResetSound
  <2> QED
    BY <2>1, <2>2
<1> HIDE DEF Kept
<1>16. CASE ReplaceNext
  BY <1>2, <1>3, <1>4, <1>5, <1>6, <1>7, <1>8, <1>9, <1>10, <1>11, <1>12, <1>13,
     <1>14, <1>15, <1>16 DEF ReplaceNext, Newcomer, Kept
<1> QED
  BY <1>1, <1>16

\* For any number of processes every member keeps its type, and whatever has an
\* acceptor was started.
THEOREM ReplaceSound == ReplaceSpec => []ReplaceTypeOK
<1>1. ReplaceTypeOK /\ [ReplaceNext]_replaceVars => ReplaceTypeOK'
  BY NextSound
<1> QED
  BY InitSound, <1>1, PTL DEF ReplaceSpec

\* For any number of processes that replace each other: a server that listens
\* stops only because it was asked to, left by its editors, or killed.
THEOREM ServerKeepsPort == ReplaceSpec => KeepsPort
<1> DEFINE A == \A h \in Procs : Listening(h) /\ ~Listening(h)' =>
                  Exit(h) \/ Kill(h) \/ \E p \in Procs : RequestShutdown(h, p)
<1>1. ReplaceTypeOK /\ [ReplaceNext]_replaceVars => A
  BY NextSound
<1>2. KeepsPort <=> [][A]_replaceVars
  BY DEF KeepsPort
<1> QED
  BY <1>1, <1>2, ReplaceSound, PTL DEF ReplaceSpec

-----------------------------------------------------------------------------
(* The port is served: the invariant is about who still hopes to serve.     *)

Holds(ps, h) == ps[h].phase \in {"listening", "exitting"}
Hopes(ps, r) == ps[r].phase \in {"connecting", "waiting"}
Asks(ps, r, h) == ps[r].to = h /\ ps[r].link \in {"backlog", "accepted"}

\* A newcomer that has not been started yet; nobody else has a connection or a
\* timer before it was started with --replace, or a timer after its end.
Grounded(ps) == \A p \in Procs :
  /\ Hopes(ps, p) \/ ps[p].phase = "off" => ~ps[p].started
  /\ ps[p].phase = "off" => ps[p].link = "none"
  /\ ps[p].phase \in {"off", "ended"} => ps[p].timer = "off"

\* An open connection leads to a process that has listened and not ended.
Pointed(ps) == \A p, h \in Procs :
  Asks(ps, p, h) => ps[h].phase \in {"listening", "exitting", "released"}

\* One program has the port.
Single(ps, o) ==
  /\ \A g, h \in Procs : Holds(ps, g) /\ Holds(ps, h) => g = h
  /\ o => \A h \in Procs : ~Holds(ps, h)

\* A newcomer whose five seconds are not over and that is not answered yet.
Fresh(ps, r, h) == Asks(ps, r, h) /\ Hopes(ps, r) /\ ps[r].timer = "armed"

\* A server that is being asked, or stops, has such a newcomer.
Replaced(ps) == \A h \in Procs :
  /\ Holds(ps, h)
  /\ ps[h].phase = "exitting" \/ \E p \in Procs : Asks(ps, p, h)
  => \E r \in Procs : Fresh(ps, r, h)

Served(ps, o) ==
  \/ o
  \/ \A p \in Procs : ps[p].phase = "off"
  \/ \E p \in Procs : ps[p].phase = "listening" \/ Hopes(ps, p)

Good(ps, o, e) ==
  /\ Sound(ps) /\ Grounded(ps) /\ Pointed(ps) /\ Single(ps, o)
  /\ e \/ (Replaced(ps) /\ Served(ps, o))

\* A step of one process that keeps its phase, or has written its request: the
\* connection and the timer may only go, and if a fresh one is spoiled there is an
\* excuse.
LEMMA OneGood ==
  ASSUME NEW ps, NEW o \in BOOLEAN, NEW e \in BOOLEAN, Good(ps, o, e),
         NEW p \in Procs, NEW x \in Process, NEW d \in BOOLEAN, e => d,
         x.started = ps[p].started, x.to = ps[p].to,
         \/ x.phase = ps[p].phase
         \/ ps[p].phase = "connecting" /\ x.phase = "waiting",
         x.link \in {"backlog", "accepted"} => ps[p].link \in {"backlog", "accepted"},
         ps[p].link = "none" => x.link = "none",
         ps[p].timer = "off" => x.timer = "off",
         \/ d
         \/ (ps[p].to \in Procs /\ ps[p].link \in {"backlog", "accepted"}
               /\ ps[p].timer = "armed" => x.link \in {"backlog", "accepted"} /\ x.timer = "armed")
  PROVE  Good([ps EXCEPT ![p] = x], o, d)
<1> DEFINE qs == [ps EXCEPT ![p] = x]
<1> SUFFICES Good(qs, o, d)
  OBVIOUS
<1>1. ps \in [Procs -> Process] /\ Coherent(ps)
  BY DEF Good, Sound
<1>2. qs[p] = x /\ \A q \in Procs \ {p} : qs[q] = ps[q]
  BY <1>1
<1>3. Sound(qs)
  <2>1. Coherent(qs)
    BY <1>1, <1>2 DEF Coherent
  <2> QED
    BY <1>1, <2>1 DEF Sound
<1> HIDE DEF qs
<1>4. Grounded(qs)
  BY <1>2 DEF Good, Grounded, Hopes
<1>5. /\ \A q \in Procs : /\ Holds(qs, q) <=> Holds(ps, q)
                          /\ Hopes(qs, q) <=> Hopes(ps, q)
                          /\ \A w \in {"listening", "exitting", "released", "off"} :
                               qs[q].phase = w <=> ps[q].phase = w
      /\ \A q, h \in Procs : Asks(qs, q, h) => Asks(ps, q, h)
  BY <1>2 DEF Holds, Hopes, Asks
<1>6. Pointed(qs) /\ Single(qs, o)
  BY <1>5 DEF Good, Pointed, Single
<1>7. CASE d
  BY <1>3, <1>4, <1>6, <1>7 DEF Good
<1>8. CASE ~d
  <2>1. \A q, h \in Procs : Fresh(ps, q, h) => Fresh(qs, q, h)
    BY <1>2, <1>5, <1>8 DEF Fresh, Asks
  <2>2. Replaced(ps) /\ Served(ps, o)
    BY <1>8 DEF Good
  <2>3. Replaced(qs)
    BY <1>5, <2>1, <2>2 DEF Replaced
  <2>4. Served(qs, o)
    BY <1>5, <2>2 DEF Served
  <2> QED
    BY <1>3, <1>4, <1>6, <2>3, <2>4 DEF Good
<1> QED
  BY <1>7, <1>8

\* A process ends: somebody else serves or hopes, and the process is not the
\* newcomer a server is being replaced by.
LEMMA EndedGood ==
  ASSUME NEW ps, NEW o \in BOOLEAN, NEW e \in BOOLEAN, Good(ps, o, e),
         NEW p \in Procs, NEW d \in BOOLEAN, e => d,
         \/ d
         \/ /\ o \/ \E q \in Procs \ {p} : ps[q].phase = "listening" \/ Hopes(ps, q)
            /\ \A h \in Procs \ {p} : ~Fresh(ps, p, h)
  PROVE  Good(Ended(ps, p), o, d)
<1> DEFINE qs == Ended(ps, p)
           es == [ps EXCEPT ![p].phase = "ended", ![p].timer = "off"]
<1> SUFFICES Good(qs, o, d)
  OBVIOUS
<1>1. ps \in [Procs -> Process] /\ Coherent(ps)
  BY DEF Good, Sound
<1>2. Sound(qs)
  BY <1>1, EndedSound
<1>3. /\ es[p].phase = "ended" /\ es[p].timer = "off"
      /\ es[p].link = ps[p].link /\ es[p].to = ps[p].to
      /\ \A q \in Procs \ {p} : es[q] = ps[q]
      /\ es \in [Procs -> Process]
  <2>1. ps[p] \in Process
    BY <1>1
  <2>2. [ps[p] EXCEPT !.phase = "ended", !.timer = "off"] \in Process
    BY <2>1 DEF Process, Phases
  <2> QED
    BY <1>1, <2>1, <2>2 DEF Process
<1>4. \A q \in Procs :
        qs[q] = IF es[q].to = p /\ es[q].link \in {"backlog", "accepted"}
                THEN [es[q] EXCEPT !.link = "reset"] ELSE es[q]
  BY DEF Ended, Reset
<1> HIDE DEF es, qs
<1>5. /\ qs[p].phase = "ended" /\ qs[p].timer = "off"
      /\ \A q \in Procs : ~Asks(qs, q, p)
      /\ \A q \in Procs : qs[q].link = "none" <=> ps[q].link = "none"
      /\ \A q \in Procs, h \in Procs \ {p} : Asks(qs, q, h) <=> Asks(ps, q, h)
      /\ \A q \in Procs \ {p} : /\ qs[q].phase = ps[q].phase
                                /\ qs[q].started = ps[q].started
                                /\ qs[q].timer = ps[q].timer
  <2>1. \A q \in Procs : es[q] \in Process
    BY <1>3
  <2>2. \A q \in Procs : /\ qs[q].phase = es[q].phase
                          /\ qs[q].started = es[q].started
                          /\ qs[q].timer = es[q].timer
                          /\ qs[q].to = es[q].to
    BY <1>4, <2>1 DEF Process
  <2>3. \A q \in Procs :
          qs[q].link = IF es[q].to = p /\ es[q].link \in {"backlog", "accepted"}
                       THEN "reset" ELSE es[q].link
    BY <1>4, <2>1 DEF Process
  <2> HIDE DEF es
  <2>4. \A q \in Procs : es[q].link = ps[q].link /\ es[q].to = ps[q].to
    BY <1>3
  <2> QED
    BY <1>3, <2>2, <2>3, <2>4 DEF Asks
<1>6. Grounded(qs) /\ Pointed(qs)
  BY <1>5 DEF Good, Grounded, Pointed, Hopes
<1>7. Single(qs, o)
  BY <1>5 DEF Good, Single, Holds
<1>8. CASE d
  BY <1>2, <1>6, <1>7, <1>8 DEF Good
<1>9. CASE ~d
  <2>1. Replaced(ps)
    BY <1>9 DEF Good
  <2>2. \A r \in Procs, h \in Procs \ {p} : Fresh(ps, r, h) => Fresh(qs, r, h)
    BY <1>5, <1>9 DEF Fresh, Hopes
  <2>3. Replaced(qs)
    BY <1>5, <2>1, <2>2 DEF Replaced, Holds
  <2>4. Served(qs, o)
    BY <1>5, <1>9 DEF Served, Hopes
  <2> QED
    BY <1>2, <1>6, <1>7, <2>3, <2>4 DEF Good
<1> QED
  BY <1>8, <1>9

\* Server::start in a newcomer that is not a fresh one: it serves, or the port is
\* somebody else's.
LEMMA StartGood ==
  ASSUME NEW ps, NEW o \in BOOLEAN, NEW e \in BOOLEAN, Good(ps, o, e),
         NEW p \in Procs, Hopes(ps, p) \/ ps[p].phase = "off",
         \A h \in Procs : ~Fresh(ps, p, h),
         Free <=> ~o /\ \A h \in Procs : ~Holds(ps, h),
         NEW d \in BOOLEAN, Free \/ (e => d)
  PROVE  Good(Start(ps, p), o, d)
<1> DEFINE ls == [ps EXCEPT ![p].phase = "listening", ![p].started = TRUE]
<1>1. ps \in [Procs -> Process] /\ Coherent(ps) /\ ~ps[p].started
  BY DEF Good, Sound, Grounded
<1>2. CASE Free
  <2>1. Start(ps, p) = ls
    BY <1>1, <1>2 DEF Start
  <2>2. Sound(ls)
    BY <1>1, <2>1, StartSound
  <2>3. /\ ls[p].phase = "listening" /\ ls[p].started
        /\ ls[p].to = ps[p].to /\ ls[p].link = ps[p].link
        /\ \A q \in Procs \ {p} : ls[q] = ps[q]
    BY <1>1 DEF Process
  <2> HIDE DEF ls
  <2>4. \A q, h \in Procs : Asks(ls, q, h) <=> Asks(ps, q, h)
    BY <2>3 DEF Asks
  <2>5. \A q \in Procs : ~Asks(ls, q, p)
    BY <2>4 DEF Good, Pointed, Hopes
  <2>6. Grounded(ls) /\ Pointed(ls)
    BY <2>3, <2>4, <2>5 DEF Good, Grounded, Pointed, Hopes
  <2>7. ~o /\ \A h \in Procs : Holds(ls, h) => h = p
    BY <1>2, <2>3 DEF Holds
  <2>8. Single(ls, o) /\ Replaced(ls) /\ Served(ls, o)
    BY <2>3, <2>5, <2>7 DEF Single, Replaced, Served
  <2> QED
    BY <2>1, <2>2, <2>6, <2>8 DEF Good
<1>3. CASE ~Free
  <2>1. Start(ps, p) = Ended(ps, p)
    BY <1>1, <1>3 DEF Start
  <2>2. CASE d
    BY <1>3, <2>1, <2>2, EndedGood
  <2>3. CASE ~d
    <3>1. Replaced(ps)
      BY <1>3, <2>3 DEF Good
    <3>2. o \/ \E q \in Procs \ {p} : ps[q].phase = "listening" \/ Hopes(ps, q)
      BY <1>3, <3>1 DEF Replaced, Holds, Hopes, Fresh
    <3> QED
      BY <1>3, <2>1, <3>2, EndedGood
  <2> QED
    BY <2>2, <2>3
<1> QED
  BY <1>2, <1>3

\* A server ends, or gives up the port: whoever it was replaced by goes on.
LEMMA ServerLeaves ==
  ASSUME NEW ps, NEW o \in BOOLEAN, Good(ps, o, FALSE), NEW h \in Procs,
         ps[h].phase \in {"listening", "exitting", "released"},
         ps[h].phase = "listening" => \E p \in Procs : Asks(ps, p, h)
  PROVE  /\ o \/ \E q \in Procs \ {h} : ps[q].phase = "listening" \/ Hopes(ps, q)
         /\ \A g \in Procs : ~Fresh(ps, h, g)
<1>1. Replaced(ps) /\ Served(ps, o)
  BY DEF Good
<1>2. \A g \in Procs : ~Fresh(ps, h, g)
  BY DEF Fresh, Hopes
<1>3. CASE Holds(ps, h)
  <2>1. PICK r \in Procs : Fresh(ps, r, h)
    BY <1>1, <1>3 DEF Replaced, Holds
  <2> QED
    BY <1>2, <2>1 DEF Fresh
<1>4. CASE ~Holds(ps, h)
  BY <1>1, <1>2, <1>4 DEF Served, Holds, Hopes
<1> QED
  BY <1>3, <1>4

LEMMA FreeHolds == Free <=> ~other /\ \A h \in Procs : ~Holds(proc, h)
BY DEF Free, Holders, Holds

LEMMA InitGood == ReplaceInit => Good(proc, other, excuse)
<1>1. /\ NewProcess.phase = "off" /\ NewProcess.started = FALSE
      /\ NewProcess.link = "none" /\ NewProcess.timer = "off"
  BY DEF NewProcess
<1>2. ReplaceInit => Sound(proc)
  BY InitSound, SoundIsType
<1>3. ReplaceInit => Grounded(proc) /\ Pointed(proc) /\ Single(proc, other)
  BY <1>1 DEF ReplaceInit, Grounded, Pointed, Single, Hopes, Holds, Asks
<1>4. ReplaceInit => Replaced(proc) /\ Served(proc, other)
  BY <1>1 DEF ReplaceInit, Replaced, Served, Holds
<1> QED
  BY <1>2, <1>3, <1>4 DEF Good

\* Each action keeps the invariant.
LEMMA NewcomerGood ==
  ASSUME other \in BOOLEAN, excuse \in BOOLEAN, Good(proc, other, excuse),
         NEW p \in Procs, Newcomer(p)
  PROVE  Good(proc', other', excuse')
<1>1. proc \in [Procs -> Process] /\ Grounded(proc)
  BY DEF Good, Sound
<1>2. proc[p] \in Process
  BY <1>1
<1>3. CASE Write(p)
  <2>1. Hopes(proc, p) /\ other' = other /\ excuse' = excuse
    BY <1>3 DEF Write, Hopes
  <2>2. CASE proc' = [proc EXCEPT ![p].phase = "waiting"]
    <3> DEFINE x == [proc[p] EXCEPT !.phase = "waiting"]
    <3>1. /\ x \in Process /\ x.started = proc[p].started /\ x.to = proc[p].to
          /\ x.link = proc[p].link /\ x.timer = proc[p].timer /\ x.phase = "waiting"
      BY <1>2 DEF Process, Phases
    <3>2. proc' = [proc EXCEPT ![p] = x]
      BY <1>1, <2>2
    <3> HIDE DEF x
    <3>3. Good([proc EXCEPT ![p] = x], other, excuse)
      BY <2>1, <3>1, OneGood DEF Hopes
    <3> QED
      BY <2>1, <3>2, <3>3
  <2>3. CASE proc[p].link = "reset" /\ proc' = Start(proc, p)
    BY <2>1, <2>3, StartGood, FreeHolds DEF Fresh, Asks
  <2> QED
    BY <1>3, <2>2, <2>3 DEF Write
<1>4. CASE HandleResponse(p)
  <2> DEFINE x == [proc[p] EXCEPT !.link = "none",
                                  !.timer = IF @ = "armed" THEN "fired" ELSE @]
  <2>1. /\ x \in Process /\ x.started = proc[p].started /\ x.to = proc[p].to
        /\ x.phase = proc[p].phase /\ x.link = "none"
        /\ proc[p].timer = "off" => x.timer = "off"
    BY <1>2 DEF Process
  <2>2. proc' = [proc EXCEPT ![p] = x] /\ other' = other /\ excuse' = excuse
    BY <1>1, <1>4 DEF HandleResponse
  <2>3. proc[p].link \in {"answered", "reset"}
    BY <1>4 DEF HandleResponse
  <2> HIDE DEF x
  <2>4. Good([proc EXCEPT ![p] = x], other, excuse)
    BY <2>1, <2>3, OneGood
  <2> QED
    BY <2>2, <2>4
<1>5. CASE Expire(p)
  <2> DEFINE x == [proc[p] EXCEPT !.timer = "fired"]
  <2>1. /\ x \in Process /\ x.started = proc[p].started /\ x.to = proc[p].to
        /\ x.phase = proc[p].phase /\ x.link = proc[p].link
    BY <1>2 DEF Process
  <2>2. /\ proc' = [proc EXCEPT ![p] = x] /\ other' = other /\ excuse' \in BOOLEAN
        /\ excuse => excuse'
        /\ proc[p].timer = "armed"
        /\ proc[p].link \in {"backlog", "accepted"} => excuse'
    BY <1>1, <1>5 DEF Expire
  <2> HIDE DEF x
  <2>3. CASE excuse' = TRUE
    <3>1. /\ x.phase = proc[p].phase
          /\ x.link \in {"backlog", "accepted"} => proc[p].link \in {"backlog", "accepted"}
          /\ proc[p].link = "none" => x.link = "none"
          /\ proc[p].timer # "off"
      BY <2>1, <2>2
    <3>2. Good([proc EXCEPT ![p] = x], other, TRUE)
      BY <2>1, <3>1, OneGood
    <3> QED
      BY <2>2, <2>3, <3>2
  <2>4. CASE excuse' = FALSE
    <3>1. excuse = FALSE /\ proc[p].link \notin {"backlog", "accepted"}
      BY <2>2, <2>4
    <3>2. proc[p].timer # "off" /\ Good(proc, other, FALSE)
      BY <2>2, <3>1
    <3>3. Good([proc EXCEPT ![p] = x], other, FALSE)
      BY <2>1, <3>1, <3>2, OneGood
    <3> QED
      BY <2>2, <2>4, <3>3
  <2> QED
    BY <2>2, <2>3, <2>4
<1>6. CASE CloseSocket(p)
  <2> DEFINE x == [proc[p] EXCEPT !.timer = "off"]
             ps == [proc EXCEPT ![p] = x]
  <2>1. /\ x \in Process /\ x.started = proc[p].started /\ x.to = proc[p].to
        /\ x.phase = proc[p].phase /\ x.link = proc[p].link /\ x.timer = "off"
    BY <1>2 DEF Process
  <2>2. /\ proc' = Start(ps, p) /\ other' = other /\ excuse' = excuse
        /\ proc[p].timer = "fired" /\ proc[p].phase # "connecting"
    BY <1>1, <1>6 DEF CloseSocket
  <2>3. ps[p] = x /\ \A q \in Procs \ {p} : ps[q] = proc[q]
    BY <1>1
  <2>4. Good(ps, other, excuse)
    <3> HIDE DEF x
    <3> QED
      BY <2>1, <2>2, OneGood
  <2> HIDE DEF ps, x
  <2>5. CASE ps[p].started
    BY <2>2, <2>4, <2>5 DEF Start
  <2>6. CASE ~ps[p].started
    <3>1. Hopes(ps, p)
      BY <1>1, <1>2, <2>1, <2>2, <2>3, <2>4, <2>6
      DEF Good, Sound, Coherent, Grounded, Hopes, Process, Phases
    <3>2. Free <=> ~other /\ \A h \in Procs : ~Holds(ps, h)
      BY <2>1, <2>3, FreeHolds DEF Holds
    <3>3. \A h \in Procs : ~Fresh(ps, p, h)
      BY <2>1, <2>3 DEF Fresh
    <3> QED
      BY <2>2, <2>4, <3>1, <3>2, <3>3, StartGood
  <2> QED
    BY <2>5, <2>6
<1> QED
  BY <1>3, <1>4, <1>5, <1>6 DEF Newcomer

LEMMA ConnectGood ==
  ASSUME other \in BOOLEAN, excuse \in BOOLEAN, Good(proc, other, excuse),
         NEW p \in Procs, Connect(p)
  PROVE  Good(proc', other', excuse')
<1>1. /\ proc \in [Procs -> Process] /\ Coherent(proc) /\ proc[p] \in Process
      /\ proc[p].phase = "off" /\ other' = other /\ excuse' = FALSE
      /\ proc[p].link = "none" /\ proc[p].timer = "off" /\ ~proc[p].started
  BY DEF Good, Sound, Connect, Grounded
<1>2. CASE Free /\ proc' = Start(proc, p)
  BY <1>1, <1>2, StartGood, FreeHolds DEF Fresh
<1>3. ASSUME NEW g \in Holders \cup (IF other THEN {Other} ELSE {}),
             proc' = Connected(p, g)
      PROVE  Good(proc', other', excuse')
  <2>1. g \in Procs \cup {Other} /\ Other \notin Procs
    BY ProcsAssumption DEF Holders
  <2>2. /\ proc'[p] \in Process /\ proc'[p].phase = "connecting"
        /\ proc'[p].link = "backlog" /\ proc'[p].to = g
        /\ proc'[p].timer = "armed" /\ ~proc'[p].started
        /\ \A q \in Procs \ {p} : proc'[q] = proc[q]
        /\ proc' \in [Procs -> Process]
    <3>1. [proc[p] EXCEPT !.phase = "connecting", !.link = "backlog", !.to = g,
                          !.timer = "armed"] \in Process
      BY <1>1, <2>1 DEF Process, Phases
    <3> QED
      BY <1>1, <1>3, <3>1 DEF Connected, Process
  <2>3. Sound(proc') /\ Grounded(proc')
    BY <1>1, <2>2 DEF Good, Sound, Coherent, Grounded, Hopes
  <2>4. /\ \A q \in Procs : Holds(proc', q) <=> Holds(proc, q)
        /\ \A q \in Procs \ {p}, h \in Procs : Asks(proc', q, h) <=> Asks(proc, q, h)
        /\ \A h \in Procs : Asks(proc', p, h) <=> h = g
    BY <1>1, <2>2 DEF Holds, Asks
  <2>5. Pointed(proc') /\ Single(proc', other)
    BY <1>1, <1>3, <2>1, <2>2, <2>4 DEF Good, Pointed, Single, Holders
  <2>6. Served(proc', other)
    BY <2>2 DEF Served, Hopes
  <2>7. CASE g \in Holders
    <3>1. \A h \in Procs : Holds(proc', h) => h = g
      BY <2>4, <2>7 DEF Good, Single, Holders, Holds
    <3>2. Fresh(proc', p, g)
      BY <2>2 DEF Fresh, Asks, Hopes
    <3>3. Replaced(proc')
      BY <3>1, <3>2 DEF Replaced
    <3> QED
      BY <1>1, <2>3, <2>5, <2>6, <3>3 DEF Good
  <2>8. CASE g \notin Holders
    <3>1. other
      BY <1>3, <2>8
    <3>2. Replaced(proc')
      BY <2>4, <3>1 DEF Good, Single, Replaced
    <3> QED
      BY <1>1, <2>3, <2>5, <2>6, <3>2 DEF Good
  <2> QED
    BY <2>7, <2>8
<1> QED
  BY <1>2, <1>3 DEF Connect

LEMMA RequestGood ==
  ASSUME other \in BOOLEAN, excuse \in BOOLEAN, Good(proc, other, excuse),
         NEW h \in Procs, NEW p \in Procs, RequestShutdown(h, p)
  PROVE  Good(proc', other', excuse')
<1>1. /\ proc \in [Procs -> Process] /\ Coherent(proc) /\ Asks(proc, p, h)
      /\ proc[p].link = "accepted" /\ proc[p].phase # "connecting"
      /\ other' = other /\ excuse' = excuse
  BY DEF Good, Sound, RequestShutdown, Asks
<1>2. proc[h].phase \in {"listening", "exitting", "released"}
  BY <1>1 DEF Good, Pointed
<1>3. ~excuse =>
        /\ other \/ \E q \in Procs \ {h} : proc[q].phase = "listening" \/ Hopes(proc, q)
        /\ \A g \in Procs : ~Fresh(proc, h, g)
  <2>1. SUFFICES ASSUME excuse = FALSE
                 PROVE  /\ other \/ \E q \in Procs \ {h} :
                                      proc[q].phase = "listening" \/ Hopes(proc, q)
                        /\ \A g \in Procs : ~Fresh(proc, h, g)
    OBVIOUS
  <2>2. Good(proc, other, FALSE)
    BY <2>1
  <2> QED
    BY <1>1, <1>2, <2>2, ServerLeaves
<1>4. CASE proc' = Ended(proc, h)
  <2>1. Good(Ended(proc, h), other, excuse)
    BY <1>3, EndedGood
  <2> QED
    BY <1>1, <1>4, <2>1
<1>5. CASE /\ proc[h].phase \in {"listening", "exitting"}
           /\ proc' = [Released(h) EXCEPT ![p].link = "answered"]
  <2> DEFINE es == [proc EXCEPT ![h].phase = "released"]
  <2>1. /\ es \in [Procs -> Process] /\ es[h].phase = "released"
        /\ \A q \in Procs : /\ es[q].link = proc[q].link /\ es[q].to = proc[q].to
                            /\ es[q].started = proc[q].started
                            /\ es[q].timer = proc[q].timer
                            /\ q # h => es[q].phase = proc[q].phase
    <3>1. [proc[h] EXCEPT !.phase = "released"] \in Process
      BY <1>1 DEF Process, Phases
    <3> QED
      BY <1>1, <3>1 DEF Process
  <2>2. Coherent(es)
    BY <1>1, <1>5, <2>1 DEF Coherent
  <2> HIDE DEF es
  <2> DEFINE rs == Reset(es, h, {"backlog"})
  <2>3. /\ Sound(rs)
        /\ \A q \in Procs : /\ rs[q].phase = es[q].phase
                            /\ rs[q].started = es[q].started
                            /\ rs[q].timer = es[q].timer
    BY <2>1, <2>2, ResetSound
  <2>4. \A q \in Procs :
          /\ rs[q].to = es[q].to
          /\ rs[q].link = IF es[q].to = h /\ es[q].link = "backlog"
                          THEN "reset" ELSE es[q].link
    <3>1. \A q \in Procs :
            rs[q] = IF es[q].to = h /\ es[q].link \in {"backlog"}
                    THEN [es[q] EXCEPT !.link = "reset"] ELSE es[q]
      BY DEF Reset
    <3> QED
      BY <2>1, <3>1 DEF Process
  <2>5. proc' = [rs EXCEPT ![p].link = "answered"]
    BY <1>5 DEF Released, es
  <2> HIDE DEF rs
  <2>6. /\ proc' \in [Procs -> Process] /\ proc'[p].link = "answered"
        /\ \A q \in Procs : /\ proc'[q].to = proc[q].to
                            /\ proc'[q].started = proc[q].started
                            /\ proc'[q].timer = proc[q].timer
                            /\ q # h => proc'[q].phase = proc[q].phase
                            /\ q # p => proc'[q].link = rs[q].link
        /\ proc'[h].phase = "released"
    <3>1. rs \in [Procs -> Process] /\ rs[p] \in Process
      BY <2>3 DEF Sound
    <3>2. [rs[p] EXCEPT !.link = "answered"] \in Process
      BY <3>1 DEF Process
    <3>3. /\ proc' \in [Procs -> Process] /\ proc'[p].link = "answered"
          /\ \A q \in Procs : /\ proc'[q].to = rs[q].to
                              /\ proc'[q].started = rs[q].started
                              /\ proc'[q].timer = rs[q].timer
                              /\ proc'[q].phase = rs[q].phase
                              /\ q # p => proc'[q].link = rs[q].link
      BY <2>5, <3>1, <3>2 DEF Process
    <3> QED
      BY <2>1, <2>3, <2>4, <3>3
  <2>7. \A q, g \in Procs : Asks(proc', q, g) => Asks(proc, q, g)
    BY <2>1, <2>4, <2>6 DEF Asks
  <2>8. \A q \in Procs : Hopes(proc', q) <=> Hopes(proc, q)
    BY <1>5, <2>6 DEF Hopes
  <2>9. \A q \in Procs : proc'[q].link = "none" <=> proc[q].link = "none"
    BY <1>1, <2>1, <2>4, <2>6
  <2>10. Sound(proc') /\ Grounded(proc')
    <3>1. Coherent(proc')
      BY <1>1, <1>5, <2>6 DEF Coherent
    <3>2. ASSUME NEW q \in Procs
          PROVE  /\ proc'[q].phase \in {"off", "ended"} <=> proc[q].phase \in {"off", "ended"}
                 /\ proc'[q].phase = "off" <=> proc[q].phase = "off"
      BY <1>5, <2>6
    <3>3. Grounded(proc')
      BY <2>6, <2>8, <2>9, <3>2 DEF Good, Grounded
    <3> QED
      BY <2>6, <3>1, <3>3 DEF Sound
  <2>11. Pointed(proc')
    BY <2>6, <2>7 DEF Good, Pointed
  <2>12. \A q \in Procs : ~Holds(proc', q)
    BY <1>5, <2>6 DEF Good, Single, Holds
  <2>13. Single(proc', other) /\ Replaced(proc')
    BY <2>12 DEF Single, Replaced
  <2>14. CASE excuse
    BY <1>1, <2>10, <2>11, <2>13, <2>14 DEF Good
  <2>15. CASE ~excuse
    <3>1. Served(proc', other)
      BY <1>3, <2>6, <2>8, <2>15 DEF Served
    <3> QED
      BY <1>1, <2>10, <2>11, <2>13, <3>1 DEF Good
  <2> QED
    BY <2>14, <2>15
<1> QED
  BY <1>4, <1>5 DEF RequestShutdown

LEMMA OthersGood ==
  ASSUME other \in BOOLEAN, excuse \in BOOLEAN, Good(proc, other, excuse), NEW p \in Procs
  PROVE  /\ Spawn(p) => Good(proc', other', excuse')
         /\ Exit(p) => Good(proc', other', excuse')
         /\ RunReturns(p) => Good(proc', other', excuse')
         /\ Kill(p) => Good(proc', other', excuse')
         /\ OtherAnswers(p) => Good(proc', other', excuse')
         /\ \A h \in Procs : Accept(h, p) => Good(proc', other', excuse')
<1>1. proc \in [Procs -> Process] /\ proc[p] \in Process /\ Coherent(proc)
  BY DEF Good, Sound
<1>2. CASE Spawn(p)
  <2>1. /\ proc[p].phase = "off" /\ other' = other /\ excuse' = excuse
        /\ proc' = Start(proc, p) /\ \A h \in Procs : ~Fresh(proc, p, h)
    BY <1>2 DEF Spawn, Fresh, Hopes
  <2>2. Good(Start(proc, p), other, excuse)
    BY <2>1, StartGood, FreeHolds
  <2> QED
    BY <2>1, <2>2
<1>3. CASE Exit(p)
  <2>1. /\ proc' \in [Procs -> Process] /\ proc'[p].phase = "exitting"
        /\ proc[p].phase = "listening"
        /\ \A q \in Procs : /\ proc'[q].link = proc[q].link /\ proc'[q].to = proc[q].to
                            /\ proc'[q].started = proc[q].started
                            /\ proc'[q].timer = proc[q].timer
                            /\ q # p => proc'[q].phase = proc[q].phase
        /\ other' = other /\ excuse' = TRUE
    <3>1. [proc[p] EXCEPT !.phase = "exitting"] \in Process
      BY <1>1 DEF Process, Phases
    <3> QED
      BY <1>1, <1>3, <3>1 DEF Exit, Process
  <2>2. /\ \A q, h \in Procs : Asks(proc', q, h) <=> Asks(proc, q, h)
        /\ \A q \in Procs : /\ Holds(proc', q) <=> Holds(proc, q)
                            /\ Hopes(proc', q) <=> Hopes(proc, q)
    BY <2>1 DEF Asks, Holds, Hopes
  <2>3. Coherent(proc')
    BY <1>1, <2>1 DEF Coherent
  <2>4. Sound(proc') /\ Grounded(proc') /\ Pointed(proc') /\ Single(proc', other)
    BY <2>1, <2>2, <2>3 DEF Good, Sound, Grounded, Pointed, Single
  <2> QED
    BY <2>1, <2>4 DEF Good
<1>4. CASE RunReturns(p)
  <2>1. /\ proc[p].phase \in {"exitting", "released"}
        /\ proc' = Ended(proc, p) /\ other' = other /\ excuse' = excuse
    BY <1>4 DEF RunReturns
  <2>2. CASE excuse = TRUE
    BY <2>1, <2>2, EndedGood
  <2>3. CASE excuse = FALSE
    <3>1. Good(proc, other, FALSE)
      BY <2>3
    <3>2. /\ other \/ \E q \in Procs \ {p} : proc[q].phase = "listening" \/ Hopes(proc, q)
          /\ \A g \in Procs : ~Fresh(proc, p, g)
      BY <2>1, <3>1, ServerLeaves
    <3>3. Good(Ended(proc, p), other, FALSE)
      BY <3>1, <3>2, EndedGood
    <3> QED
      BY <2>1, <2>3, <3>3
  <2> QED
    BY <2>2, <2>3
<1>5. CASE Kill(p)
  <2> DEFINE x == [proc[p] EXCEPT !.link = "none"]
  <2>1. /\ x \in Process /\ x.started = proc[p].started /\ x.to = proc[p].to
        /\ x.phase = proc[p].phase /\ x.link = "none" /\ x.timer = proc[p].timer
    BY <1>1 DEF Process
  <2> HIDE DEF x
  <2>2. Good([proc EXCEPT ![p] = x], other, TRUE) /\ Good(proc, other, TRUE)
    <3>1. Good(proc, other, TRUE)
      BY DEF Good
    <3> QED
      BY <2>1, <3>1, OneGood
  <2>3. Good(Ended([proc EXCEPT ![p] = x], p), other, TRUE) /\ Good(Ended(proc, p), other, TRUE)
    BY <2>2, EndedGood
  <2>4. /\ other' = other /\ excuse' = TRUE
        /\ proc' = Ended([proc EXCEPT ![p] = x], p) \/ proc' = Ended(proc, p)
    BY <1>5 DEF Kill, x
  <2> QED
    BY <2>3, <2>4
<1>6. ASSUME NEW h \in Procs, OtherAnswers(p) \/ Accept(h, p)
      PROVE  Good(proc', other', excuse')
  <2>1. PICK l \in {"answered", "accepted"} :
          /\ proc' = [proc EXCEPT ![p].link = l] /\ other' = other /\ excuse' = excuse
          /\ proc[p].link = "backlog"
          /\ l = "answered" => proc[p].to = Other
    BY <1>6 DEF OtherAnswers, Accept
  <2> DEFINE x == [proc[p] EXCEPT !.link = l]
  <2>2. /\ x \in Process /\ x.started = proc[p].started /\ x.to = proc[p].to
        /\ x.phase = proc[p].phase /\ x.link = l /\ x.timer = proc[p].timer
    BY <1>1 DEF Process
  <2>3. proc' = [proc EXCEPT ![p] = x]
    BY <1>1, <2>1
  <2> HIDE DEF x
  <2>4. CASE l = "accepted"
    <3>1. Good([proc EXCEPT ![p] = x], other, excuse)
      BY <2>1, <2>2, <2>4, OneGood
    <3> QED
      BY <2>1, <2>3, <3>1
  <2>5. CASE l = "answered"
    <3>1. /\ proc[p].to \notin Procs /\ x.link = "answered"
          /\ proc[p].link # "none"
      BY <2>1, <2>2, <2>5, ProcsAssumption
    <3>2. Good([proc EXCEPT ![p] = x], other, excuse)
      BY <2>2, <3>1, OneGood
    <3> QED
      BY <2>1, <2>3, <3>2
  <2> QED
    BY <2>1, <2>4, <2>5
<1> QED
  BY <1>2, <1>3, <1>4, <1>5, <1>6

LEMMA NextGood ==
  ASSUME other \in BOOLEAN, excuse \in BOOLEAN, Good(proc, other, excuse),
         [ReplaceNext]_replaceVars
  PROVE  Good(proc', other', excuse')
<1>1. CASE UNCHANGED replaceVars
  <2>1. proc' = proc /\ other' = other /\ excuse' = excuse
    BY <1>1 DEF replaceVars
  <2> QED
    BY <2>1
<1>2. ASSUME NEW p \in Procs, \/ Spawn(p) \/ Connect(p) \/ Newcomer(p) \/ Exit(p)
                              \/ RunReturns(p) \/ Kill(p) \/ OtherAnswers(p)
      PROVE  Good(proc', other', excuse')
  BY <1>2, NewcomerGood, ConnectGood, OthersGood
<1>3. ASSUME NEW h \in Procs, NEW p \in Procs, Accept(h, p) \/ RequestShutdown(h, p)
      PROVE  Good(proc', other', excuse')
  BY <1>3, RequestGood, OthersGood
<1>4. CASE OtherTakes
  <2>1. /\ proc' = proc /\ other' = TRUE /\ excuse' = excuse
        /\ \A h \in Procs : ~Holds(proc, h)
    BY <1>4, FreeHolds DEF OtherTakes
  <2>2. Good(proc, TRUE, excuse)
    BY <2>1 DEF Good, Single, Replaced, Served
  <2> QED
    BY <2>1, <2>2
<1>5. CASE OtherLeaves
  <2> DEFINE rs == Reset(proc, Other, {"backlog"})
  <2>1. proc' = rs /\ other' = FALSE /\ excuse' = TRUE
    BY <1>5 DEF OtherLeaves
  <2>2. proc \in [Procs -> Process] /\ Coherent(proc)
    BY DEF Good, Sound
  <2>3. /\ Sound(rs)
        /\ \A q \in Procs : /\ rs[q].phase = proc[q].phase
                            /\ rs[q].started = proc[q].started
                            /\ rs[q].timer = proc[q].timer
    BY <2>2, ResetSound
  <2>4. \A q \in Procs :
          /\ rs[q].to = proc[q].to
          /\ rs[q].link = IF proc[q].to = Other /\ proc[q].link = "backlog"
                          THEN "reset" ELSE proc[q].link
    <3>1. \A q \in Procs :
            rs[q] = IF proc[q].to = Other /\ proc[q].link \in {"backlog"}
                    THEN [proc[q] EXCEPT !.link = "reset"] ELSE proc[q]
      BY DEF Reset
    <3>2. \A q \in Procs : proc[q] \in Process
      BY <2>2
    <3> QED
      BY <3>1, <3>2 DEF Process
  <2> HIDE DEF rs
  <2>5. /\ \A q, h \in Procs : Asks(rs, q, h) => Asks(proc, q, h)
        /\ \A q \in Procs : /\ Holds(rs, q) <=> Holds(proc, q)
                            /\ Hopes(rs, q) <=> Hopes(proc, q)
                            /\ rs[q].link = "none" <=> proc[q].link = "none"
    BY <2>3, <2>4 DEF Asks, Holds, Hopes
  <2>6. Grounded(rs) /\ Pointed(rs) /\ Single(rs, FALSE)
    BY <2>3, <2>5 DEF Good, Grounded, Pointed, Single
  <2>7. Good(rs, FALSE, TRUE)
    BY <2>3, <2>6 DEF Good
  <2> QED
    BY <2>1, <2>7
<1> QED
  BY <1>1, <1>2, <1>3, <1>4, <1>5 DEF ReplaceNext

LEMMA GoodServes == Good(proc, other, excuse) => PortServed
BY DEF Good, Served, Hopes, PortServed, Listening

\* For any number of processes: a replacement that was not given up before the
\* answer leaves the port to somebody.
THEOREM PortIsServed == ReplaceSpec => []PortServed
<1>1. ReplaceTypeOK => other \in BOOLEAN /\ excuse \in BOOLEAN
  BY DEF ReplaceTypeOK
<1>2. ReplaceTypeOK /\ Good(proc, other, excuse) /\ [ReplaceNext]_replaceVars
        => Good(proc, other, excuse)'
  BY <1>1, NextGood
<1> QED
  BY InitGood, <1>2, GoodServes, ReplaceSound, PTL DEF ReplaceSpec

=============================================================================
