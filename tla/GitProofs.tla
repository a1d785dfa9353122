----------------------------- MODULE GitProofs -----------------------------
(***************************************************************************)
(* Proofs about Git.  The handlers of the server compose the methods of     *)
(* Git, so every lemma is about one method, as an operator on the record of *)
(* members: what it needs of the record it gets and what it gives back.     *)
(* The theorems about GitSpec put the lemmas together.                      *)
(***************************************************************************)
EXTENDS Git, TLAPS

-----------------------------------------------------------------------------
(* The inductive invariant, as predicates on the record g.                  *)

\* Every object that is in use exists.
Typed(g) == g \in GitType /\ \A s \in Live(g) : g.heap[s] \in Session

\* ParentsMatch, SessionWhenNotWaiting and HistoryAlternates of a record.
Matched(g) ==
  /\ \A c \in Ids, s \in Slots : c \in g.heap[s].parents <=> s \in g.held[c]
  /\ \A c \in Ids : g.held[c] # {} => c \in g.clients

Shown(g) == ~g.waiting => g.active_session # Null

Alternates(h) == \A k \in 1..(Len(h) - 1) : h[k][1] # h[k + 1][1]

Sound(g) == Typed(g) /\ Matched(g) /\ Shown(g) /\ Alternates(g.history)

-----------------------------------------------------------------------------
(* Lemmas about the pieces.                                                 *)

\* The walker finds a repository that exists and contains the path, or none.
LEMMA DiscoverFinds ==
  ASSUME NEW fs \in FileSystem, NEW p \in Paths
  PROVE  /\ Discover(fs, p) \in Roots \cup {Null}
         /\ Discover(fs, p) # Null => Discover(fs, p) \in Inside[p] \cap fs.repos
BY InsideAssumption DEF Discover, Innermost, FileSystem

\* An update keeps a Session a Session.
LEMMA UpdatedTyped ==
  ASSUME NEW fs \in FileSystem, NEW x \in Session
  PROVE  /\ Updated(fs, x) \in Session
         /\ Updated(fs, x).parents = x.parents
<1>1. Discover(fs, x.dirty) \in Roots \cup {Null}
  BY DiscoverFinds DEF Session
<1>2. Discover(fs, x.dirty) # Null => Home[Discover(fs, x.dirty)] \in Roots
  BY <1>1, HomeAssumption
<1> QED
  BY <1>1, <1>2, RootsAssumption DEF Updated, Session, Paths

\* enque_session keeps the entries well formed and alternating.
LEMMA EnqueHistory ==
  ASSUME NEW h \in Seq(Ids \X Roots), Alternates(h), NEW c \in Ids, NEW r \in Roots
  PROVE  Enque(h, c, r) \in Seq(Ids \X Roots) /\ Alternates(Enque(h, c, r))
<1>1. CASE h # <<>> /\ h[Len(h)][1] = c
  BY <1>1 DEF Enque, Alternates
<1>2. CASE ~(h # <<>> /\ h[Len(h)][1] = c)
  BY <1>2 DEF Enque, Alternates
<1> QED
  BY <1>1, <1>2

\* Destroying the objects nobody points to changes nothing else.
LEMMA ReleaseSound ==
  ASSUME NEW g, Sound(g)
  PROVE  Sound(Release(g))
<1> DEFINE q == Release(g)
<1>1. /\ g \in GitType
      /\ q = [g EXCEPT !.heap = [s \in Slots |->
                IF s \in Live(g) THEN g.heap[s] ELSE NoSession]]
  BY DEF Sound, Typed, Release, GitType
<1>2. /\ q.sessions = g.sessions /\ q.held = g.held /\ q.clients = g.clients
      /\ q.active_session = g.active_session /\ q.waiting = g.waiting
      /\ q.history = g.history /\ q.active_id = g.active_id /\ q.ready = g.ready
      /\ q.heap = [s \in Slots |-> IF s \in Live(g) THEN g.heap[s] ELSE NoSession]
  BY <1>1 DEF GitType
<1>3. Live(q) = Live(g)
  BY <1>2 DEF Live
<1>4. Typed(q)
  <2>1. q.heap \in [Slots -> Session \cup {NoSession}]
    BY <1>1, <1>2 DEF GitType
  <2>2. q \in GitType
    BY <1>1, <1>2, <2>1 DEF GitType
  <2>3. \A s \in Live(q) : q.heap[s] \in Session
    BY <1>2, <1>3 DEF Sound, Typed, Live
  <2> QED
    BY <2>2, <2>3 DEF Typed
<1>5. Matched(q)
  <2>1. ASSUME NEW c \in Ids, NEW s \in Slots
        PROVE  c \in q.heap[s].parents <=> s \in q.held[c]
    BY <1>2, <2>1 DEF Sound, Matched, Live, NoSession
  <2> QED
    BY <2>1, <1>2 DEF Matched, Sound
<1> QED
  BY <1>2, <1>4, <1>5 DEF Sound, Shown

-----------------------------------------------------------------------------
(* Lemmas about the methods.                                                *)

\* change_git tracks the client before it looks at the path.
LEMMA TrackSound ==
  ASSUME NEW g, Sound(g), NEW c \in Ids
  PROVE  Sound(Track(g, c)) /\ c \in Track(g, c).clients
<1> DEFINE t == Track(g, c)
<1>1. g \in GitType
  BY DEF Sound, Typed
<1>2. /\ t.sessions = g.sessions /\ t.held = g.held /\ t.heap = g.heap
      /\ t.active_session = g.active_session /\ t.waiting = g.waiting
      /\ t.history = g.history /\ t.clients = g.clients \cup {c}
  BY <1>1 DEF Track, GitType
<1>3. t \in GitType
  BY <1>1 DEF Track, GitType
<1>4. Live(t) = Live(g)
  BY <1>2 DEF Live
<1>5. Typed(t) /\ Matched(t)
  BY <1>2, <1>3, <1>4 DEF Sound, Typed, Matched
<1> QED
  BY <1>2, <1>5 DEF Sound, Shown

\* A tracked client takes hold of a live session.
LEMMA HoldSound ==
  ASSUME NEW g, Sound(g), NEW c \in g.clients, NEW s \in Slots,
         g.heap[s] \in Session
  PROVE  Sound(Hold(g, c, s))
<1> DEFINE t == Hold(g, c, s)
           x1 == [g.heap[s] EXCEPT !.parents = g.heap[s].parents \cup {c}]
           hp == [g.heap EXCEPT ![s] = x1]
           hd == [g.held EXCEPT ![c] = g.held[c] \cup {s}]
<1>1. g \in GitType /\ c \in Ids
  BY DEF Sound, Typed, GitType
<1>a. t = [g EXCEPT !.held = hd, !.heap = hp,
                    !.active_session = s, !.waiting = FALSE]
  BY DEF Hold
<1>3. x1 \in Session /\ x1.parents = g.heap[s].parents \cup {c}
  BY <1>1 DEF Session
<1>b. hp \in [Slots -> Session \cup {NoSession}] /\ hd \in [Ids -> SUBSET Slots]
  <2> HIDE DEF x1
  <2> QED BY <1>1, <1>3 DEF GitType
<1>2. /\ t.sessions = g.sessions /\ t.clients = g.clients
      /\ t.history = g.history
      /\ t.active_session = s /\ t.waiting = FALSE
      /\ t.held = hd /\ t.heap = hp
      /\ t \in GitType
  <2> HIDE DEF hp, hd
  <2> QED BY <1>1, <1>a, <1>b DEF GitType
<1>c. \A x \in Slots : hp[x] = IF x = s THEN x1 ELSE g.heap[x]
  <2> HIDE DEF x1
  <2> QED BY <1>1 DEF GitType
<1> HIDE DEF hp, x1, t
<1>6. \A x \in Live(t) : t.heap[x] \in Session
  <2> SUFFICES ASSUME NEW x \in Live(t) PROVE t.heap[x] \in Session
    OBVIOUS
  <2>1. x \in Live(g) \cup {s}
    BY <1>1, <1>2 DEF Live, GitType
  <2> QED
    BY <1>2, <1>3, <1>c, <2>1 DEF Sound, Typed, Live
<1>7. Matched(t)
  <2>1. ASSUME NEW d \in Ids, NEW x \in Slots
        PROVE  d \in t.heap[x].parents <=> x \in t.held[d]
    <3>1. t.heap[x].parents = IF x = s THEN g.heap[x].parents \cup {c}
                                       ELSE g.heap[x].parents
      BY <1>2, <1>3, <1>c
    <3>2. t.held[d] = IF d = c THEN g.held[d] \cup {s} ELSE g.held[d]
      BY <1>1, <1>2 DEF GitType
    <3> QED
      BY <3>1, <3>2, <1>1 DEF Sound, Matched
  <2>2. \A d \in Ids : t.held[d] # {} => d \in t.clients
    BY <1>1, <1>2 DEF Sound, Matched, GitType
  <2> QED
    BY <2>1, <2>2 DEF Matched
<1>8. Typed(t)
  BY <1>2, <1>6 DEF Typed
<1>9. s # Null
  BY SlotsAssumption
<1>10. Sound(t)
  BY <1>2, <1>7, <1>8, <1>9 DEF Sound, Shown
<1> QED
  BY <1>10 DEF t

\* A new Session object, cached and in the history, held by nobody yet.
LEMMA CacheSound ==
  ASSUME NEW g, Sound(g), NEW c \in g.clients, NEW r \in Roots,
         NEW s \in Slots \ Live(g)
  PROVE  LET t == Cache(g, c, r, s)
         IN  Sound(t) /\ c \in t.clients /\ t.heap[s] \in Session
<1> DEFINE hp == [g.heap EXCEPT ![s] = NewSession(r)]
           n  == Home[r]
           ss == [g.sessions EXCEPT ![n] = s]
           h  == Enque(g.history, c, n)
           t  == [g EXCEPT !.heap = hp, !.sessions = ss, !.history = h]
<1>1. g \in GitType /\ c \in Ids /\ n \in Roots
  BY HomeAssumption DEF Sound, Typed, GitType
<1>2. NewSession(r) \in Session /\ NewSession(r).parents = {}
  BY HomeAssumption DEF NewSession, Session, Paths
<1>3. h \in Seq(Ids \X Roots) /\ Alternates(h)
  BY <1>1, EnqueHistory DEF GitType, Sound
<1>4. /\ hp \in [Slots -> Session \cup {NoSession}]
      /\ ss \in [Roots -> Slots \cup {Null}]
      /\ \A x \in Slots : hp[x] = IF x = s THEN NewSession(r) ELSE g.heap[x]
      /\ \A q \in Roots : ss[q] = IF q = n THEN s ELSE g.sessions[q]
  BY <1>1, <1>2 DEF GitType
<1> HIDE DEF hp, ss, h, n
<1>5. /\ t \in GitType
      /\ t.heap = hp /\ t.sessions = ss /\ t.history = h
      /\ t.held = g.held /\ t.clients = g.clients /\ t.waiting = g.waiting
      /\ t.active_session = g.active_session
  BY <1>1, <1>3, <1>4 DEF GitType
<1>6. Typed(t)
  <2> SUFFICES ASSUME NEW x \in Live(t) PROVE hp[x] \in Session
    BY <1>5 DEF Typed
  <2>1. x \in Slots /\ (x = s \/ x \in Live(g))
    BY <1>1, <1>4, <1>5 DEF Live
  <2> QED
    BY <1>2, <1>4, <2>1 DEF Sound, Typed
<1>7. Matched(t)
  <2>1. ASSUME NEW d \in Ids, NEW x \in Slots
        PROVE  d \in t.heap[x].parents <=> x \in t.held[d]
    BY <1>2, <1>4, <1>5 DEF Sound, Matched, Live
  <2> QED
    BY <2>1, <1>5 DEF Sound, Matched
<1>8. Sound(t)
  BY <1>3, <1>5, <1>6, <1>7 DEF Sound, Shown
<1>9. c \in t.clients /\ t.heap[s] \in Session
  BY <1>2, <1>4, <1>5
<1>10. t = Cache(g, c, r, s)
  BY DEF Cache, hp, ss, h, n
<1> QED
  BY <1>8, <1>9, <1>10

\* A cached session remembers the last path it was reached by.
LEMMA RevisitSound ==
  ASSUME NEW g, Sound(g), NEW c \in g.clients, NEW p \in Paths,
         NEW s \in Live(g)
  PROVE  LET t == Revisit(g, c, p, s)
         IN  Sound(t) /\ c \in t.clients /\ t.heap[s] \in Session
<1> DEFINE x1 == [g.heap[s] EXCEPT !.dirty = p]
           hp == [g.heap EXCEPT ![s] = x1]
           h  == Enque(g.history, c, g.heap[s].id)
           t  == [g EXCEPT !.heap = hp, !.history = h]
<1>1. /\ g \in GitType /\ c \in Ids /\ s \in Slots
      /\ g.heap[s] \in Session /\ g.heap[s].id \in Roots
  BY DEF Sound, Typed, GitType, Live, Session
<1>2. x1 \in Session /\ x1.parents = g.heap[s].parents
  BY <1>1 DEF Session
<1>3. h \in Seq(Ids \X Roots) /\ Alternates(h)
  BY <1>1, EnqueHistory DEF GitType, Sound
<1>4. t = Revisit(g, c, p, s)
  BY DEF Revisit
<1> HIDE DEF x1
<1>5. /\ hp \in [Slots -> Session \cup {NoSession}]
      /\ \A x \in Slots : hp[x] = IF x = s THEN x1 ELSE g.heap[x]
  BY <1>1, <1>2 DEF GitType
<1> HIDE DEF hp, h
<1>6. /\ t \in GitType
      /\ t.heap = hp /\ t.sessions = g.sessions /\ t.history = h
      /\ t.held = g.held /\ t.clients = g.clients /\ t.waiting = g.waiting
      /\ t.active_session = g.active_session
  BY <1>1, <1>3, <1>5 DEF GitType
<1>7. Live(t) = Live(g)
  BY <1>6 DEF Live
<1>8. Typed(t)
  BY <1>2, <1>5, <1>6, <1>7 DEF Sound, Typed, Live
<1>9. Matched(t)
  BY <1>2, <1>5, <1>6 DEF Sound, Matched
<1>10. Sound(t)
  BY <1>3, <1>6, <1>8, <1>9 DEF Sound, Shown
<1>11. c \in t.clients /\ t.heap[s] \in Session
  BY <1>1, <1>2, <1>5, <1>6
<1> QED
  BY <1>4, <1>10, <1>11

\* Both ways to open a session.
LEMMA OpenReopenSound ==
  ASSUME NEW g, Sound(g), NEW c \in g.clients
  PROVE  /\ \A r \in Roots, s \in Slots \ Live(g) : Sound(Open(g, c, r, s))
         /\ \A p \in Paths, s \in Live(g) : Sound(Reopen(g, c, p, s))
<1>1. ASSUME NEW r \in Roots, NEW s \in Slots \ Live(g)
      PROVE  Sound(Open(g, c, r, s))
  BY CacheSound, HoldSound DEF Open
<1>2. ASSUME NEW p \in Paths, NEW s \in Live(g)
      PROVE  Sound(Reopen(g, c, p, s))
  <2>1. s \in Slots
    BY DEF Live
  <2> QED
    BY <2>1, RevisitSound, HoldSound DEF Reopen
<1> QED
  BY <1>1, <1>2

\* An unusable path only makes the registry wait.
LEMMA WaitSound ==
  ASSUME NEW g, Sound(g)
  PROVE  /\ Sound([g EXCEPT !.waiting = TRUE])
         /\ Sound([g EXCEPT !.waiting = TRUE, !.active_session = Null])
<1>1. g \in GitType
  BY DEF Sound, Typed
<1>2. ASSUME NEW a \in {g.active_session, Null}, NEW t,
             t = [g EXCEPT !.waiting = TRUE, !.active_session = a]
      PROVE  Sound(t)
  <2>1. /\ t \in GitType
        /\ t.heap = g.heap /\ t.sessions = g.sessions /\ t.history = g.history
        /\ t.held = g.held /\ t.clients = g.clients /\ t.waiting = TRUE
        /\ t.active_session = a
    BY <1>1, <1>2 DEF GitType
  <2>2. Live(t) \subseteq Live(g)
    BY <2>1, SlotsAssumption DEF Live
  <2> QED
    BY <2>1, <2>2 DEF Sound, Typed, Matched, Shown
<1>3. [g EXCEPT !.waiting = TRUE] =
        [g EXCEPT !.waiting = TRUE, !.active_session = g.active_session]
  BY <1>1 DEF GitType
<1> QED
  BY <1>2, <1>3

\* change_git as a whole.
LEMMA ChangeGitSound ==
  ASSUME NEW g, Sound(g), NEW fs \in FileSystem, NEW c \in Ids,
         NEW p \in Paths, NEW s \in Slots \ Live(g)
  PROVE  Sound(ChangeGit(g, fs, c, p, s))
<1> DEFINE t == Track(g, c)
           r == Discover(fs, p)
           n == Home[r]
<1>1. Sound(t) /\ c \in t.clients
  BY TrackSound
<1>2. Live(t) = Live(g)
  BY DEF Track, Live, Sound, Typed, GitType
<1>3. r \in Roots \cup {Null} /\ (r \in Roots => n \in Roots)
  BY DiscoverFinds, HomeAssumption
<1>4. t \in GitType
  BY <1>1 DEF Sound, Typed
<1> HIDE DEF t, r, n
<1>5. CASE r = Null
  <2>1. ChangeGit(g, fs, c, p, s) = Release([t EXCEPT !.waiting = TRUE])
    BY <1>5 DEF ChangeGit, t, r, n
  <2> QED
    BY <1>1, <2>1, WaitSound, ReleaseSound
<1>6. CASE r \in Roots /\ t.sessions[n] = Null
  <2>1. ChangeGit(g, fs, c, p, s) = Release(Open(t, c, r, s))
    BY <1>6, RootsAssumption DEF ChangeGit, t, r, n
  <2>2. Sound(Open(t, c, r, s))
    BY <1>1, <1>2, <1>6, OpenReopenSound
  <2> QED
    BY <2>1, <2>2, ReleaseSound
<1>7. CASE r \in Roots /\ t.sessions[n] # Null /\ t.heap[t.sessions[n]].valid
  <2>1. ChangeGit(g, fs, c, p, s) = Release(Reopen(t, c, p, t.sessions[n]))
    BY <1>7, RootsAssumption DEF ChangeGit, t, r, n
  <2>2. t.sessions[n] \in Live(t)
    BY <1>3, <1>4, <1>7 DEF Live, GitType
  <2>3. Sound(Reopen(t, c, p, t.sessions[n]))
    BY <1>1, <2>2, OpenReopenSound
  <2> QED
    BY <2>1, <2>3, ReleaseSound
<1>8. CASE r \in Roots /\ t.sessions[n] # Null /\ ~t.heap[t.sessions[n]].valid
  <2>1. ChangeGit(g, fs, c, p, s) =
          Release([t EXCEPT !.waiting = TRUE, !.active_session = Null])
    BY <1>8, RootsAssumption DEF ChangeGit, t, r, n
  <2> QED
    BY <1>1, <2>1, WaitSound, ReleaseSound
<1> QED
  BY <1>3, <1>5, <1>6, <1>7, <1>8

\* update() and update(name) refresh some of the cached sessions.
LEMMA UpdateSessionsSound ==
  ASSUME NEW g, Sound(g), NEW fs \in FileSystem, NEW S \in SUBSET Cached(g)
  PROVE  Sound(UpdateSessions(g, fs, S))
<1> DEFINE hp == [s \in Slots |-> IF s \in S THEN Updated(fs, g.heap[s]) ELSE g.heap[s]]
           t  == UpdateSessions(g, fs, S)
<1>1. g \in GitType
  BY DEF Sound, Typed
<1>2. t = [g EXCEPT !.heap = hp]
  BY DEF UpdateSessions
<1>3. \A s \in S : s \in Slots /\ g.heap[s] \in Session
  BY DEF Cached, Live, Sound, Typed
<1>4. \A s \in Slots : /\ hp[s] \in Session \cup {NoSession}
                       /\ hp[s].parents = g.heap[s].parents
                       /\ g.heap[s] \in Session => hp[s] \in Session
  BY <1>1, <1>3, UpdatedTyped DEF GitType
<1>5. hp \in [Slots -> Session \cup {NoSession}]
  BY <1>4
<1> HIDE DEF hp
<1>6. /\ t \in GitType
      /\ t.heap = hp /\ t.sessions = g.sessions /\ t.history = g.history
      /\ t.held = g.held /\ t.clients = g.clients /\ t.waiting = g.waiting
      /\ t.active_session = g.active_session
  BY <1>1, <1>2, <1>5 DEF GitType
<1>7. Live(t) = Live(g)
  BY <1>6 DEF Live
<1>8. Typed(t)
  BY <1>4, <1>6, <1>7 DEF Sound, Typed, Live
<1>9. Matched(t)
  BY <1>4, <1>6 DEF Sound, Matched
<1> QED
  BY <1>6, <1>8, <1>9 DEF Sound, Shown

LEMMA UpdateSound ==
  ASSUME NEW g, Sound(g), NEW fs \in FileSystem, NEW name
  PROVE  Sound(UpdateAll(g, fs)) /\ Sound(UpdateNamed(g, fs, name))
<1>1. {s \in Cached(g) : NameOf[g.heap[s].id] = name} \subseteq Cached(g)
  OBVIOUS
<1> QED
  BY <1>1, UpdateSessionsSound DEF UpdateAll, UpdateNamed

\* not_ready.
LEMMA NotReadySound ==
  ASSUME NEW g, Sound(g)
  PROVE  Sound(NotReady(g))
<1> DEFINE t == NotReady(g)
<1>1. g \in GitType
  BY DEF Sound, Typed
<1>2. /\ t \in GitType
      /\ t.heap = g.heap /\ t.sessions = g.sessions /\ t.history = g.history
      /\ t.held = g.held /\ t.clients = g.clients /\ t.waiting = g.waiting
      /\ t.active_session = g.active_session
  BY <1>1 DEF NotReady, GitType
<1>3. Live(t) = Live(g)
  BY <1>2 DEF Live
<1> QED
  BY <1>2, <1>3 DEF Sound, Typed, Matched, Shown

\* cleanup_client and clients_map.erase for the clients of D.
LEMMA ForgetSound ==
  ASSUME NEW g, Sound(g), NEW D \in SUBSET Ids
  PROVE  Sound(Forget(g, D))
<1> DEFINE hd == [c \in Ids |-> IF c \in D THEN {} ELSE g.held[c]]
           ss == [r \in Roots |-> IF \E s \in Orphans(g, D) : g.heap[s].id = r
                                  THEN Null ELSE g.sessions[r]]
           hp == [s \in Slots |-> IF \E d \in D : s \in g.held[d]
                    THEN [g.heap[s] EXCEPT !.parents = g.heap[s].parents \ D] ELSE g.heap[s]]
           t  == Forget(g, D)
<1>1. g \in GitType
  BY DEF Sound, Typed
<1>2. t = [g EXCEPT !.clients = g.clients \ D, !.held = hd,
                    !.sessions = ss, !.heap = hp]
  BY DEF Forget
<1>3. ASSUME NEW s \in Slots
      PROVE  /\ hp[s] \in Session \cup {NoSession}
             /\ g.heap[s] \in Session => hp[s] \in Session
             /\ hp[s].parents = g.heap[s].parents \ D
  <2>1. CASE \E d \in D : s \in g.held[d]
    <3>1. g.heap[s] \in Session
      BY <2>1 DEF Sound, Typed, Live
    <3>2. hp[s] = [g.heap[s] EXCEPT !.parents = g.heap[s].parents \ D]
      BY <2>1
    <3> QED
      BY <3>1, <3>2 DEF Session
  <2>2. CASE ~ \E d \in D : s \in g.held[d]
    <3>1. hp[s] = g.heap[s]
      BY <2>2
    <3>2. g.heap[s].parents \cap D = {}
      BY <2>2 DEF Sound, Matched
    <3> QED
      BY <3>1, <3>2, <1>1 DEF GitType
  <2> QED
    BY <2>1, <2>2
<1>4. hp \in [Slots -> Session \cup {NoSession}]
  BY <1>3
<1>5. /\ hd \in [Ids -> SUBSET Slots]
      /\ ss \in [Roots -> Slots \cup {Null}]
      /\ \A c \in Ids : hd[c] = IF c \in D THEN {} ELSE g.held[c]
      /\ \A r \in Roots : ss[r] \in {Null, g.sessions[r]}
  BY <1>1 DEF GitType
<1> HIDE DEF hp, hd, ss, t
<1>6. /\ t \in GitType
      /\ t.heap = hp /\ t.sessions = ss /\ t.history = g.history
      /\ t.held = hd /\ t.clients = g.clients \ D /\ t.waiting = g.waiting
      /\ t.active_session = g.active_session
  BY <1>1, <1>2, <1>4, <1>5 DEF GitType
<1>7. Live(t) \subseteq Live(g)
  BY <1>5, <1>6, SlotsAssumption DEF Live
<1>8. Typed(t)
  BY <1>3, <1>6, <1>7 DEF Sound, Typed, Live
<1>9. Matched(t)
  <2>1. ASSUME NEW c \in Ids, NEW s \in Slots
        PROVE  c \in hp[s].parents <=> s \in hd[c]
    BY <1>3, <1>5 DEF Sound, Matched
  <2> QED
    BY <2>1, <1>5, <1>6 DEF Sound, Matched
<1>10. Sound(t)
  BY <1>6, <1>8, <1>9 DEF Sound, Shown
<1> QED
  BY <1>10 DEF t

\* fallback_to_last_session shows a session that exists, or none.
LEMMA FallbackSound ==
  ASSUME NEW g, Sound(g)
  PROVE  Sound(Fallback(g))
<1> DEFINE Show(h, w, i, a) == [g EXCEPT !.history = h, !.waiting = w,
                                         !.active_id = i, !.active_session = a]
<1>1. g \in GitType
  BY DEF Sound, Typed
<1>2. ASSUME NEW h \in Seq(Ids \X Roots), Alternates(h),
             NEW i \in Ids, NEW a \in Cached(g) \cup {Null},
             NEW w \in BOOLEAN, ~w => a # Null
      PROVE  Sound(Show(h, w, i, a))
  <2> DEFINE t == Show(h, w, i, a)
  <2>0. a \in Slots \cup {Null}
    BY DEF Cached
  <2>1. /\ t \in GitType
        /\ t.heap = g.heap /\ t.sessions = g.sessions /\ t.history = h
        /\ t.held = g.held /\ t.clients = g.clients /\ t.waiting = w
        /\ t.active_session = a
    BY <1>1, <1>2, <2>0 DEF GitType
  <2>2. Live(t) \subseteq Live(g)
    BY <2>1, SlotsAssumption DEF Live, Cached
  <2> QED
    BY <1>2, <2>1, <2>2 DEF Sound, Typed, Matched, Shown
<1>3. CASE LastUsable(g) = {}
  <2>1. <<>> \in Seq(Ids \X Roots) /\ Alternates(<<>>)
    BY DEF Alternates
  <2>2. Fallback(g) = Show(<<>>, TRUE, DebugId, Null)
    BY <1>3 DEF Fallback
  <2> HIDE DEF Show
  <2> QED
    BY <1>2, <2>1, <2>2, IdsAssumption
<1>4. CASE LastUsable(g) # {}
  <2> DEFINE k == CHOOSE i \in LastUsable(g) : TRUE
             h == SubSeq(g.history, 1, k)
             e == g.history[k]
  <2>1. k \in LastUsable(g)
    BY <1>4
  <2> HIDE DEF k
  <2>2. k \in 1..Len(g.history) /\ Usable(g, e)
    BY <1>1, <2>1 DEF LastUsable, GitType
  <2>3. e \in Ids \X Roots
    BY <1>1, <2>2 DEF GitType
  <2>4. /\ h \in Seq(Ids \X Roots) /\ Len(h) = k
        /\ \A j \in 1..k : h[j] = g.history[j]
    BY <1>1, <2>2 DEF GitType
  <2>5. Alternates(h)
    BY <1>1, <2>2, <2>4 DEF Alternates, Sound, GitType
  <2>6. e[1] \in Ids /\ g.sessions[e[2]] \in Cached(g)
    BY <1>1, <2>2, <2>3 DEF Usable, Cached, GitType
  <2>7. Fallback(g) = Show(h, FALSE, e[1], g.sessions[e[2]])
    BY <1>4 DEF Fallback, k
  <2>8. g.sessions[e[2]] # Null
    BY <2>2 DEF Usable
  <2>9. FALSE \in BOOLEAN /\ h \in Seq(Ids \X Roots)
    BY <2>4
  <2> HIDE DEF h, e, Show
  <2> QED
    BY <1>2, <2>9, <2>5, <2>6, <2>7, <2>8
<1> QED
  BY <1>3, <1>4

LEMMA DropSound ==
  ASSUME NEW g, Sound(g), NEW c \in Ids, NEW A \in SUBSET Ids
  PROVE  Sound(DropClient(g, c)) /\ Sound(DropInactive(g, A))
<1>1. Sound(Forget(g, {c})) /\ Sound(Fallback(Forget(g, {c})))
  BY ForgetSound, FallbackSound
<1>2. g.clients \ (A \cup {DebugId}) \in SUBSET Ids
  BY DEF Sound, Typed, GitType
<1>3. /\ Sound(Forget(g, g.clients \ (A \cup {DebugId})))
      /\ Sound(Fallback(Forget(g, g.clients \ (A \cup {DebugId}))))
  BY <1>2, ForgetSound, FallbackSound
<1> QED
  BY <1>1, <1>3, ReleaseSound DEF DropClient, DropInactive

-----------------------------------------------------------------------------
(* The theorems.                                                            *)

\* The invariant, for the variables of the specification.
GitIInv == Sound(git) /\ tree \in FileSystem

\* What the user does to the file system.
LEMMA RepoChangesTyped ==
  ASSUME NEW r \in Mutable, tree \in FileSystem, RepoChanges(r)
  PROVE  tree' \in FileSystem /\ git' = git
BY RootsAssumption DEF RepoChanges, FileSystem

LEMMA PathChangesTyped ==
  ASSUME NEW p \in Deletable, tree \in FileSystem, PathChanges(p)
  PROVE  tree' \in FileSystem /\ git' = git
<1>1. Within(p) \subseteq Paths
  BY DEF Within
<1> QED
  BY <1>1 DEF PathChanges, FileSystem

LEMMA InitSound == GitInit => GitIInv
<1> SUFFICES ASSUME GitInit PROVE GitIInv
  OBVIOUS
<1>1. git \in GitType
  BY IdsAssumption DEF GitInit, NewGit, GitType
<1>2. Live(git) = {}
  BY SlotsAssumption DEF GitInit, NewGit, Live
<1>3. Matched(git) /\ Shown(git) /\ Alternates(git.history)
  BY DEF GitInit, NewGit, NoSession, Matched, Shown, Alternates
<1> QED
  BY <1>1, <1>2, <1>3 DEF GitIInv, Sound, Typed, GitInit, FileSystem

LEMMA NextSound == GitIInv /\ [GitNext]_gitVars => GitIInv'
<1> SUFFICES ASSUME GitIInv, [GitNext]_gitVars PROVE GitIInv'
  OBVIOUS
<1>1. Sound(git) /\ tree \in FileSystem
  BY DEF GitIInv
<1>2. ASSUME NEW c \in Ids, NEW p \in Paths, ChangePath(c, p)
      PROVE  GitIInv'
  BY <1>1, <1>2, ChangeGitSound DEF ChangePath, GitIInv
<1>3. CASE AutoUpdate
  BY <1>1, <1>3, UpdateSound DEF AutoUpdate, GitIInv
<1>4. ASSUME NEW r \in Roots, GitChange(NameOf[r])
      PROVE  GitIInv'
  BY <1>1, <1>4, UpdateSound DEF GitChange, GitIInv
<1>5. ASSUME NEW c \in Ids, Leave(c)
      PROVE  GitIInv'
  BY <1>1, <1>5, DropSound DEF Leave, GitIInv
<1>6. ASSUME NEW A \in SUBSET Ids, PingRound(A)
      PROVE  GitIInv'
  BY <1>1, <1>6, DropSound, IdsAssumption DEF PingRound, GitIInv
<1>7. CASE Idle
  BY <1>1, <1>7, NotReadySound DEF Idle, GitIInv
<1>8. ASSUME NEW r \in Mutable, RepoChanges(r)
      PROVE  GitIInv'
  BY <1>1, <1>8, RepoChangesTyped DEF GitIInv
<1>10. ASSUME NEW p \in Deletable, PathChanges(p)
       PROVE  GitIInv'
  BY <1>1, <1>10, PathChangesTyped DEF GitIInv
<1>9. CASE UNCHANGED gitVars
  BY <1>1, <1>9 DEF gitVars, GitIInv
<1> QED
  BY <1>2, <1>3, <1>4, <1>5, <1>6, <1>7, <1>8, <1>9, <1>10 DEF GitNext

\* The invariant holds always, and with it, for any clients, repositories
\* (nested or not) and history: the members keep their types and every session
\* pointer in use points to an object (git.h:94-109); Discord::update never
\* dereferences a null session (discord.cc:89-92); clients_map and
\* Session::parents agree (git.cc:88-89, 177-188); and no client has two
\* adjacent history entries (git.cc:236-243).
THEOREM GitSound ==
  GitSpec => [](GitTypeOK /\ SessionWhenNotWaiting /\ ParentsMatch /\ HistoryAlternates)
<1>1. GitIInv => GitTypeOK /\ SessionWhenNotWaiting /\ ParentsMatch /\ HistoryAlternates
  BY DEF GitIInv, Sound, Typed, Matched, Shown, Alternates, GitTypeOK,
         SessionWhenNotWaiting, ParentsMatch, HistoryAlternates
<1> QED
  BY <1>1, InitSound, NextSound, PTL DEF GitSpec

=============================================================================
