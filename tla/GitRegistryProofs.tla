------------------------- MODULE GitRegistryProofs -------------------------
(***************************************************************************)
(* When no repository lies inside another, Git implements Registry: the     *)
(* cache holds exactly the sessions that tracked clients opened, and a      *)
(* client keeps its place in the history.  The lemmas follow GitProofs, one *)
(* per method: each says what the method does to the invariants Counted and *)
(* Memory and to the image of g in Registry.                                *)
(***************************************************************************)
EXTENDS GitProofs, WellFoundedInduction

\* The image of g: the two variables of Registry.
Opened(g) == [c \in Ids |-> {g.heap[s].id : s \in g.held[c]}]
CachedRoots(g) == {r \in Roots : g.sessions[r] # Null}

\* From g to q nothing changes in Registry, or client c opens repository r.
Unseen(g, q) == Opened(q) = Opened(g) /\ CachedRoots(q) = CachedRoots(g)
Opens(g, q, c, r) == /\ Opened(q) = [Opened(g) EXCEPT ![c] = @ \cup {r}]
                     /\ CachedRoots(q) = CachedRoots(g) \cup {r}

\* The path a session is searched from lies in its own repository.
Anchored(g) == \A s \in Live(g) : g.heap[s].id \in Inside[g.heap[s].dirty]

\* The cache and the holders agree, except that the sessions of X may have no
\* parent (between the two steps of opening a session).
CountedBut(g, X) ==
  /\ Anchored(g)
  /\ \A c \in Ids : \A s \in g.held[c] : g.sessions[g.heap[s].id] = s
  /\ \A r \in Roots : g.sessions[r] # Null =>
       /\ g.heap[g.sessions[r]].id = r
       /\ g.sessions[r] \notin X => g.heap[g.sessions[r]].parents # {}

Counted(g) == Sound(g) /\ CountedBut(g, {})

-----------------------------------------------------------------------------

\* Without nesting a path leads to one repository only.
LEMMA FlatDiscover ==
  ASSUME Flat, NEW fs \in FileSystem, NEW p \in Paths, NEW q \in Inside[p],
         Discover(fs, p) # Null
  PROVE  Discover(fs, p) = q
BY DiscoverFinds DEF Flat

\* So an update finds the same repository again, or none.
LEMMA FlatUpdated ==
  ASSUME Flat, NEW fs \in FileSystem, NEW x \in Session, x.id \in Inside[x.dirty]
  PROVE  /\ Updated(fs, x).id = x.id
         /\ Updated(fs, x).id \in Inside[Updated(fs, x).dirty]
<1>1. x.dirty \in Paths /\ x.id \in Roots
  BY DEF Session
<1>2. CASE Discover(fs, x.dirty) = Null
  BY <1>2 DEF Updated, Session
<1>3. CASE Discover(fs, x.dirty) # Null
  <2> DEFINE r == Discover(fs, x.dirty)
  <2>1. r = x.id /\ Home[r] = r
    BY <1>1, <1>3, FlatDiscover DEF Flat
  <2> HIDE DEF r
  <2>2. r \in Inside[r] /\ r # Null
    BY <1>1, <2>1, InsideAssumption, RootsAssumption
  <2>3. Updated(fs, x).id = r /\ Updated(fs, x).dirty = r
    BY <2>1, <2>2 DEF Updated, Session, r
  <2> QED
    BY <2>1, <2>2, <2>3
<1> QED
  BY <1>2, <1>3

\* Destroyed objects were neither cached nor held.
LEMMA ReleaseCounted ==
  ASSUME NEW g, Counted(g)
  PROVE  /\ Counted(Release(g))
         /\ Opened(Release(g)) = Opened(g)
         /\ CachedRoots(Release(g)) = CachedRoots(g)
<1> DEFINE q == Release(g)
<1>1. g \in GitType /\ Sound(q)
  BY ReleaseSound DEF Counted, Sound, Typed
<1>2. /\ q.sessions = g.sessions /\ q.held = g.held
      /\ q.active_session = g.active_session
      /\ \A s \in Slots : q.heap[s] = IF s \in Live(g) THEN g.heap[s] ELSE NoSession
  BY <1>1 DEF GitType, Release
<1>3. Live(q) = Live(g) /\ Live(g) \subseteq Slots
  BY <1>2 DEF Live
<1>4. /\ \A c \in Ids : \A s \in g.held[c] : s \in Live(g)
      /\ \A r \in Roots : g.sessions[r] # Null => g.sessions[r] \in Live(g)
  BY <1>1 DEF Live, GitType
<1> HIDE DEF q
<1>5. CountedBut(q, {})
  BY <1>2, <1>3, <1>4 DEF Counted, CountedBut, Anchored
<1>6. Opened(q) = Opened(g)
  BY <1>2, <1>3, <1>4 DEF Opened
<1> QED
  BY <1>1, <1>2, <1>5, <1>6 DEF Counted, CachedRoots, q

\* Tracking a client touches neither side.
LEMMA TrackCounted ==
  ASSUME NEW g, Counted(g), NEW c \in Ids
  PROVE  /\ Counted(Track(g, c))
         /\ Opened(Track(g, c)) = Opened(g)
         /\ CachedRoots(Track(g, c)) = CachedRoots(g)
         /\ Live(Track(g, c)) = Live(g)
<1> DEFINE t == Track(g, c)
<1>1. g \in GitType /\ Sound(t)
  BY TrackSound DEF Counted, Sound, Typed
<1>2. /\ t.sessions = g.sessions /\ t.held = g.held /\ t.heap = g.heap
      /\ t.active_session = g.active_session
  BY <1>1 DEF Track, GitType
<1>3. Live(t) = Live(g)
  BY <1>2 DEF Live
<1> HIDE DEF t
<1>4. CountedBut(t, {}) /\ Opened(t) = Opened(g) /\ CachedRoots(t) = CachedRoots(g)
  BY <1>2, <1>3 DEF Counted, CountedBut, Anchored, Opened, CachedRoots
<1> QED
  BY <1>1, <1>3, <1>4 DEF Counted, t

\* Holding a cached session adds its repository to what the client opened.
LEMMA HoldCounted ==
  ASSUME NEW g, Sound(g), NEW c \in g.clients, NEW s \in Live(g),
         CountedBut(g, {s}), g.sessions[g.heap[s].id] = s
  PROVE  /\ Counted(Hold(g, c, s))
         /\ Opened(Hold(g, c, s)) = [Opened(g) EXCEPT ![c] = @ \cup {g.heap[s].id}]
         /\ CachedRoots(Hold(g, c, s)) = CachedRoots(g)
<1> DEFINE t == Hold(g, c, s)
           x1 == [g.heap[s] EXCEPT !.parents = g.heap[s].parents \cup {c}]
<1>1. /\ g \in GitType /\ c \in Ids /\ s \in Slots /\ g.heap[s] \in Session
  BY DEF Sound, Typed, GitType, Live
<1>2. Sound(t)
  BY <1>1, HoldSound
<1>3. /\ x1.id = g.heap[s].id /\ x1.dirty = g.heap[s].dirty
      /\ x1.parents = g.heap[s].parents \cup {c}
  BY <1>1 DEF Session
<1>4. /\ t.sessions = g.sessions /\ t.active_session = s
      /\ t.held = [g.held EXCEPT ![c] = g.held[c] \cup {s}]
      /\ t.heap = [g.heap EXCEPT ![s] = x1]
  <2> HIDE DEF x1
  <2>1. t = [g EXCEPT !.held = [g.held EXCEPT ![c] = g.held[c] \cup {s}],
                      !.heap = [g.heap EXCEPT ![s] = x1],
                      !.active_session = s, !.waiting = FALSE]
    BY DEF Hold, x1
  <2> DEFINE hd == [g.held EXCEPT ![c] = g.held[c] \cup {s}]
             hp == [g.heap EXCEPT ![s] = x1]
  <2>2. t = [g EXCEPT !.held = hd, !.heap = hp, !.active_session = s, !.waiting = FALSE]
    BY <2>1
  <2> HIDE DEF hd, hp, t
  <2>3. t.sessions = g.sessions /\ t.active_session = s /\ t.held = hd /\ t.heap = hp
    BY <1>1, <2>2 DEF GitType
  <2> QED
    BY <2>3 DEF hd, hp
<1> HIDE DEF x1, t
<1>5. \A x \in Slots : /\ t.heap[x] = IF x = s THEN x1 ELSE g.heap[x]
                       /\ t.heap[x].id = g.heap[x].id
                       /\ t.heap[x].dirty = g.heap[x].dirty
  BY <1>1, <1>3, <1>4 DEF GitType
<1>6. \A d \in Ids : t.held[d] = IF d = c THEN g.held[d] \cup {s} ELSE g.held[d]
  BY <1>1, <1>4 DEF GitType
<1>7. Live(t) \subseteq Live(g)
  BY <1>1, <1>4, <1>6 DEF Live
<1>8. CountedBut(t, {})
  <2>1. Anchored(t)
    BY <1>5, <1>7 DEF CountedBut, Anchored, Live
  <2>2. \A d \in Ids : \A x \in t.held[d] : t.sessions[t.heap[x].id] = x
    BY <1>1, <1>4, <1>5, <1>6 DEF CountedBut, GitType
  <2>3. ASSUME NEW r \in Roots, t.sessions[r] # Null
        PROVE  t.heap[t.sessions[r]].id = r /\ t.heap[t.sessions[r]].parents # {}
    <3>1. g.sessions[r] \in Slots
      BY <1>1, <1>4, <2>3 DEF GitType
    <3> QED
      BY <1>3, <1>4, <1>5, <2>3, <3>1 DEF CountedBut
  <2> QED
    BY <2>1, <2>2, <2>3 DEF CountedBut
<1>9. Opened(t) = [Opened(g) EXCEPT ![c] = @ \cup {g.heap[s].id}]
  <2>1. ASSUME NEW d \in Ids
        PROVE  Opened(t)[d] = IF d = c THEN Opened(g)[d] \cup {g.heap[s].id}
                                       ELSE Opened(g)[d]
    <3>1. \A x \in t.held[d] : x \in Slots
      BY <1>1, <1>6 DEF GitType
    <3>2. {t.heap[x].id : x \in t.held[d]} = {g.heap[x].id : x \in t.held[d]}
      BY <1>5, <3>1
    <3> QED
      BY <1>6, <3>2 DEF Opened
  <2> QED
    BY <1>1, <2>1 DEF Opened
<1> QED
  BY <1>2, <1>4, <1>8, <1>9 DEF Counted, CachedRoots, t

\* A new session enters the cache under the root it was found at.
LEMMA OpenCounted ==
  ASSUME Flat, NEW g, Counted(g), NEW c \in g.clients, NEW r \in Roots,
         NEW s \in Slots \ Live(g), g.sessions[r] = Null
  PROVE  /\ Counted(Open(g, c, r, s))
         /\ Opened(Open(g, c, r, s)) = [Opened(g) EXCEPT ![c] = @ \cup {r}]
         /\ CachedRoots(Open(g, c, r, s)) = CachedRoots(g) \cup {r}
<1> DEFINE hp == [g.heap EXCEPT ![s] = NewSession(r)]
           ss == [g.sessions EXCEPT ![r] = s]
           h  == Enque(g.history, c, r)
           t  == [g EXCEPT !.heap = hp, !.sessions = ss, !.history = h]
<1>1. g \in GitType /\ Sound(g) /\ c \in Ids
  BY DEF Counted, Sound, Typed, GitType
<1>0. t = Cache(g, c, r, s)
  <2>1. Home[r] = r
    BY DEF Flat
  <2> QED
    BY <2>1, Zenon DEF Cache
<1>2. Sound(t) /\ c \in t.clients /\ Open(g, c, r, s) = Hold(t, c, s)
  <2> HIDE DEF t
  <2> QED BY <1>0, <1>1, CacheSound DEF Open
<1>3. /\ t.heap = hp /\ t.sessions = ss /\ t.held = g.held
      /\ t.active_session = g.active_session
  BY <1>1 DEF GitType
<1>4. /\ \A x \in Slots : hp[x] = IF x = s THEN NewSession(r) ELSE g.heap[x]
      /\ \A q \in Roots : ss[q] = IF q = r THEN s ELSE g.sessions[q]
  BY <1>1 DEF GitType
<1> HIDE DEF hp, ss, h, t
<1>5. /\ s \in Live(t) /\ s # Null
      /\ \A x \in Live(t) : x \in Slots /\ (x = s \/ x \in Live(g))
  BY <1>3, <1>4, SlotsAssumption DEF Live
<1>6. /\ NewSession(r).id = r /\ NewSession(r).dirty = r /\ r \in Inside[r]
  BY InsideAssumption DEF NewSession, Flat
<1>7. \A x \in Live(g) : x # s
  OBVIOUS
<1>8. \A d \in Ids : \A x \in g.held[d] : x \in Live(g) /\ x \in Slots
  BY <1>1 DEF Live, GitType
<1>9. \A q \in Roots : g.sessions[q] # Null => g.sessions[q] \in Live(g)
  BY <1>1 DEF Live, GitType
<1>10. CountedBut(t, {s})
  <2>1. Anchored(t)
    BY <1>3, <1>4, <1>5, <1>6 DEF Counted, CountedBut, Anchored
  <2>2. ASSUME NEW d \in Ids, NEW x \in t.held[d]
        PROVE  t.sessions[t.heap[x].id] = x
    <3>1. x \in Live(g) /\ x \in Slots /\ x # s /\ x \in g.held[d]
      BY <1>3, <1>7, <1>8, <2>2
    <3>2. t.heap[x] = g.heap[x] /\ g.heap[x].id \in Roots
      BY <1>1, <1>3, <1>4, <3>1 DEF Sound, Typed, Session
    <3>3. g.sessions[g.heap[x].id] = x
      BY <3>1 DEF Counted, CountedBut
    <3>4. x # Null
      BY <3>1, SlotsAssumption
    <3> QED
      BY <1>3, <1>4, <3>2, <3>3, <3>4
  <2>3. ASSUME NEW q \in Roots, t.sessions[q] # Null
        PROVE  /\ t.heap[t.sessions[q]].id = q
               /\ t.sessions[q] \notin {s} => t.heap[t.sessions[q]].parents # {}
    <3>1. CASE q = r
      BY <1>3, <1>4, <1>6, <3>1
    <3>2. CASE q # r
      <4>1. t.sessions[q] = g.sessions[q] /\ g.sessions[q] \in Live(g)
        BY <1>3, <1>4, <1>9, <2>3, <3>2
      <4>2. t.heap[g.sessions[q]] = g.heap[g.sessions[q]]
        BY <1>3, <1>4, <1>7, <4>1 DEF Live
      <4> QED
        BY <2>3, <4>1, <4>2 DEF Counted, CountedBut
    <3> QED
      BY <3>1, <3>2
  <2> QED
    BY <2>1, <2>2, <2>3 DEF CountedBut
<1>11. t.heap[s].id = r /\ t.sessions[t.heap[s].id] = s
  BY <1>3, <1>4, <1>6
<1>12. Opened(t) = Opened(g)
  BY <1>3, <1>4, <1>7, <1>8 DEF Opened
<1>13. CachedRoots(t) = CachedRoots(g) \cup {r}
  BY <1>3, <1>4, <1>5 DEF CachedRoots
<1> QED
  BY <1>2, <1>5, <1>10, <1>11, <1>12, <1>13, HoldCounted

\* A cached session found from a path of its own repository.
LEMMA ReopenCounted ==
  ASSUME NEW g, Counted(g), NEW c \in g.clients, NEW r \in Roots,
         NEW p \in Paths, r \in Inside[p], g.sessions[r] # Null
  PROVE  LET s == g.sessions[r]
         IN  /\ Counted(Reopen(g, c, p, s))
             /\ Opened(Reopen(g, c, p, s)) = [Opened(g) EXCEPT ![c] = @ \cup {r}]
             /\ CachedRoots(Reopen(g, c, p, s)) = CachedRoots(g)
<1> DEFINE s  == g.sessions[r]
           x1 == [g.heap[s] EXCEPT !.dirty = p]
           hp == [g.heap EXCEPT ![s] = x1]
           h  == Enque(g.history, c, g.heap[s].id)
           t  == [g EXCEPT !.heap = hp, !.history = h]
<1>1. /\ g \in GitType /\ Sound(g) /\ c \in Ids /\ s \in Slots /\ s \in Live(g)
      /\ g.heap[s] \in Session /\ g.heap[s].id = r
  BY DEF Counted, CountedBut, Sound, Typed, GitType, Live
<1>0. t = Revisit(g, c, p, s)
  BY DEF Revisit
<1>2. Sound(t) /\ c \in t.clients /\ Reopen(g, c, p, s) = Hold(t, c, s)
  <2> HIDE DEF t
  <2> QED BY <1>0, <1>1, RevisitSound DEF Reopen
<1>3. x1.id = r /\ x1.dirty = p /\ x1.parents = g.heap[s].parents
  BY <1>1 DEF Session
<1> HIDE DEF x1
<1>4. /\ t.heap = hp /\ t.sessions = g.sessions /\ t.held = g.held
      /\ t.active_session = g.active_session
  BY <1>1 DEF GitType
<1>5. \A x \in Slots : hp[x] = IF x = s THEN x1 ELSE g.heap[x]
  BY <1>1 DEF GitType
<1> HIDE DEF hp, h, t, s
<1>6. \A x \in Slots : /\ t.heap[x].id = g.heap[x].id
                       /\ t.heap[x].parents = g.heap[x].parents
  BY <1>1, <1>3, <1>4, <1>5
<1>7. Live(t) = Live(g)
  BY <1>4 DEF Live
<1>8. CountedBut(t, {s})
  <2>1. Anchored(t)
    BY <1>3, <1>4, <1>5, <1>7 DEF Counted, CountedBut, Anchored, Live
  <2>2. \A d \in Ids : \A x \in t.held[d] : t.sessions[t.heap[x].id] = x
    BY <1>1, <1>4, <1>6 DEF Counted, CountedBut, GitType
  <2>3. \A q \in Roots : t.sessions[q] # Null =>
          t.heap[t.sessions[q]].id = q /\ t.heap[t.sessions[q]].parents # {}
    BY <1>1, <1>4, <1>6 DEF Counted, CountedBut, GitType
  <2> QED
    BY <2>1, <2>2, <2>3 DEF CountedBut
<1>9. t.heap[s].id = r /\ t.sessions[t.heap[s].id] = s
  BY <1>1, <1>4, <1>6 DEF s
<1>10. Opened(t) = Opened(g)
  BY <1>1, <1>4, <1>6 DEF Opened, GitType
<1>11. CachedRoots(t) = CachedRoots(g)
  BY <1>4 DEF CachedRoots
<1>12. s \in Live(t)
  BY <1>1, <1>7
<1>13. /\ Counted(Hold(t, c, s))
       /\ Opened(Hold(t, c, s)) = [Opened(g) EXCEPT ![c] = @ \cup {r}]
       /\ CachedRoots(Hold(t, c, s)) = CachedRoots(g)
  BY <1>2, <1>8, <1>9, <1>10, <1>11, <1>12, HoldCounted
<1> QED
  BY <1>2, <1>13 DEF s

\* Waiting, with or without the active session, is invisible in Registry.
LEMMA WaitCounted ==
  ASSUME NEW g, Counted(g), NEW t,
         t \in {[g EXCEPT !.waiting = TRUE],
               [g EXCEPT !.waiting = TRUE, !.active_session = Null]}
  PROVE  Counted(t) /\ Opened(t) = Opened(g) /\ CachedRoots(t) = CachedRoots(g)
<1>1. g \in GitType /\ Sound(t)
  BY WaitSound DEF Counted, Sound, Typed
<1>2. /\ t.sessions = g.sessions /\ t.held = g.held /\ t.heap = g.heap
      /\ t.active_session \in {Null, g.active_session}
  BY <1>1 DEF GitType
<1>3. Live(t) \subseteq Live(g)
  BY <1>2, SlotsAssumption DEF Live
<1> QED
  BY <1>1, <1>2, <1>3 DEF Counted, CountedBut, Anchored, Opened, CachedRoots

\* change_git opens the repository the path is in, or changes nothing here.
LEMMA ChangeGitCounted ==
  ASSUME Flat, NEW g, Counted(g), NEW fs \in FileSystem, NEW c \in Ids,
         NEW p \in Paths, NEW s \in Slots \ Live(g),
         NEW q, q = ChangeGit(g, fs, c, p, s)
  PROVE  Counted(q) /\ (Unseen(g, q) \/ \E r \in Roots : Opens(g, q, c, r))
<1> DEFINE t == Track(g, c)
           r == Discover(fs, p)
<1>1. /\ Counted(t) /\ Opened(t) = Opened(g) /\ CachedRoots(t) = CachedRoots(g)
      /\ Live(t) = Live(g)
  BY TrackCounted
<1>2. c \in t.clients
  BY TrackSound DEF Counted
<1>3. r \in Roots \cup {Null} /\ (r # Null => r \in Inside[p])
  BY DiscoverFinds
<1> HIDE DEF t, r
<1>4. CASE r = Null
  <2>1. q = Release([t EXCEPT !.waiting = TRUE])
    BY <1>4 DEF ChangeGit, t, r
  <2>2. Counted(q) /\ Unseen(t, q)
    BY <1>1, <2>1, WaitCounted, ReleaseCounted DEF Unseen
  <2> QED
    BY <1>1, <2>2 DEF Unseen
<1>5. CASE r \in Roots /\ t.sessions[r] = Null
  <2>1. q = Release(Open(t, c, r, s))
    BY <1>5, RootsAssumption DEF ChangeGit, Flat, t, r
  <2>2. Counted(q) /\ Opens(t, q, c, r)
    BY <1>1, <1>2, <1>5, <2>1, OpenCounted, ReleaseCounted DEF Opens
  <2> QED
    BY <1>1, <1>5, <2>2 DEF Opens
<1>6. CASE r \in Roots /\ t.sessions[r] # Null /\ t.heap[t.sessions[r]].valid
  <2>1. q = Release(Reopen(t, c, p, t.sessions[r]))
    BY <1>6, RootsAssumption DEF ChangeGit, Flat, t, r
  <2>2. r \in CachedRoots(t)
    BY <1>6 DEF CachedRoots
  <2>3. /\ Counted(Reopen(t, c, p, t.sessions[r]))
        /\ Opens(t, Reopen(t, c, p, t.sessions[r]), c, r)
    BY <1>1, <1>2, <1>3, <1>6, <2>2, ReopenCounted, RootsAssumption DEF Opens
  <2>4. Counted(q) /\ Opens(t, q, c, r)
    BY <2>1, <2>3, ReleaseCounted DEF Opens
  <2> QED
    BY <1>1, <1>6, <2>4 DEF Opens
<1>7. CASE r \in Roots /\ t.sessions[r] # Null /\ ~t.heap[t.sessions[r]].valid
  <2>1. q =
          Release([t EXCEPT !.waiting = TRUE, !.active_session = Null])
    BY <1>7, RootsAssumption DEF ChangeGit, Flat, t, r
  <2>2. Counted(q) /\ Unseen(t, q)
    BY <1>1, <2>1, WaitCounted, ReleaseCounted DEF Unseen
  <2> QED
    BY <1>1, <2>2 DEF Unseen
<1> QED
  BY <1>3, <1>4, <1>5, <1>6, <1>7

\* An update moves no session to another repository.
LEMMA UpdateSessionsCounted ==
  ASSUME Flat, NEW g, Counted(g), NEW fs \in FileSystem, NEW S \in SUBSET Cached(g)
  PROVE  LET t == UpdateSessions(g, fs, S)
         IN  Counted(t) /\ Opened(t) = Opened(g) /\ CachedRoots(t) = CachedRoots(g)
<1> DEFINE hp == [s \in Slots |-> IF s \in S THEN Updated(fs, g.heap[s]) ELSE g.heap[s]]
           t  == UpdateSessions(g, fs, S)
<1>1. g \in GitType /\ Sound(t) /\ Sound(g)
  BY UpdateSessionsSound DEF Counted, Sound, Typed
<1>2. /\ t.sessions = g.sessions /\ t.held = g.held /\ t.heap = hp
      /\ t.active_session = g.active_session
  BY <1>1 DEF UpdateSessions, GitType
<1>3. Live(t) = Live(g)
  BY <1>2 DEF Live
<1>4. ASSUME NEW s \in S
      PROVE  s \in Slots /\ g.heap[s] \in Session
             /\ g.heap[s].id \in Inside[g.heap[s].dirty]
  BY DEF Cached, Live, Counted, CountedBut, Anchored, Sound, Typed
<1>5. \A s \in Slots : /\ hp[s].id = g.heap[s].id
                       /\ hp[s].parents = g.heap[s].parents
                       /\ g.heap[s].id \in Inside[g.heap[s].dirty] =>
                            hp[s].id \in Inside[hp[s].dirty]
  BY <1>4, FlatUpdated, UpdatedTyped
<1> HIDE DEF hp, t
<1>6. CountedBut(t, {})
  <2>1. Anchored(t)
    BY <1>2, <1>3, <1>5 DEF Counted, CountedBut, Anchored, Live
  <2>2. \A d \in Ids : \A x \in t.held[d] : t.sessions[t.heap[x].id] = x
    BY <1>1, <1>2, <1>5 DEF Counted, CountedBut, GitType
  <2>3. \A q \in Roots : t.sessions[q] # Null =>
          t.heap[t.sessions[q]].id = q /\ t.heap[t.sessions[q]].parents # {}
    BY <1>1, <1>2, <1>5 DEF Counted, CountedBut, GitType
  <2> QED
    BY <2>1, <2>2, <2>3 DEF CountedBut
<1>7. Opened(t) = Opened(g)
  <2>1. \A d \in Ids : \A x \in g.held[d] : t.heap[x].id = g.heap[x].id
    BY <1>1, <1>2, <1>5 DEF GitType
  <2> QED
    BY <1>2, <2>1 DEF Opened
<1>8. CachedRoots(t) = CachedRoots(g)
  BY <1>2 DEF CachedRoots
<1> QED
  BY <1>1, <1>6, <1>7, <1>8 DEF Counted, t

LEMMA UpdateCounted ==
  ASSUME Flat, NEW g, Counted(g), NEW fs \in FileSystem, NEW name, NEW t,
         t \in {UpdateAll(g, fs), UpdateNamed(g, fs, name)}
  PROVE  Counted(t) /\ Opened(t) = Opened(g) /\ CachedRoots(t) = CachedRoots(g)
<1>1. {s \in Cached(g) : NameOf[g.heap[s].id] = name} \subseteq Cached(g)
  OBVIOUS
<1> QED
  BY <1>1, UpdateSessionsCounted DEF UpdateAll, UpdateNamed

\* not_ready touches neither side.
LEMMA NotReadyCounted ==
  ASSUME NEW g, Counted(g)
  PROVE  LET t == NotReady(g)
         IN  Counted(t) /\ Opened(t) = Opened(g) /\ CachedRoots(t) = CachedRoots(g)
<1> DEFINE t == NotReady(g)
<1>1. g \in GitType /\ Sound(t)
  BY NotReadySound DEF Counted, Sound, Typed
<1>2. /\ t.sessions = g.sessions /\ t.held = g.held /\ t.heap = g.heap
      /\ t.active_session = g.active_session
  BY <1>1 DEF NotReady, GitType
<1>3. Live(t) = Live(g)
  BY <1>2 DEF Live
<1> QED
  BY <1>1, <1>2, <1>3 DEF Counted, CountedBut, Anchored, Opened, CachedRoots

\* Forgetting clients erases exactly the sessions only they had opened.
LEMMA ForgetCounted ==
  ASSUME NEW g, Counted(g), NEW D \in SUBSET Ids
  PROVE  LET t == Forget(g, D)
         IN  /\ Counted(t)
             /\ Opened(t) = [c \in Ids |-> IF c \in D THEN {} ELSE Opened(g)[c]]
<1> DEFINE t == Forget(g, D)
<1>1. g \in GitType /\ Sound(g) /\ Sound(t)
  BY ForgetSound DEF Counted, Sound, Typed
<1>2. /\ t.active_session = g.active_session
      /\ \A c \in Ids : t.held[c] = IF c \in D THEN {} ELSE g.held[c]
      /\ \A r \in Roots : t.sessions[r] =
           IF \E s \in Orphans(g, D) : g.heap[s].id = r THEN Null ELSE g.sessions[r]
      /\ \A s \in Slots : t.heap[s] =
           IF \E d \in D : s \in g.held[d]
           THEN [g.heap[s] EXCEPT !.parents = g.heap[s].parents \ D] ELSE g.heap[s]
  BY <1>1 DEF Forget, GitType
<1> HIDE DEF t
<1>3. \A c \in Ids : \A s \in g.held[c] :
        s \in Slots /\ s \in Live(g) /\ s # Null /\ g.heap[s] \in Session
        /\ g.heap[s].id \in Roots /\ c \in g.heap[s].parents
  BY <1>1, SlotsAssumption DEF Live, GitType, Sound, Typed, Matched, Session
<1>4. ASSUME NEW s \in Slots
      PROVE  /\ t.heap[s].id = g.heap[s].id
             /\ t.heap[s].dirty = g.heap[s].dirty
             /\ t.heap[s].parents = g.heap[s].parents \ D
  <2>1. CASE \E d \in D : s \in g.held[d]
    <3>1. g.heap[s] \in Session
      BY <1>3, <2>1
    <3> QED
      BY <1>2, <2>1, <3>1 DEF Session
  <2>2. CASE ~ \E d \in D : s \in g.held[d]
    <3>1. g.heap[s].parents \cap D = {}
      BY <1>1, <2>2 DEF Sound, Matched
    <3> QED
      BY <1>2, <2>2, <3>1
  <2> QED
    BY <2>1, <2>2
<1>5. Live(t) \subseteq Live(g)
  BY <1>2, SlotsAssumption DEF Live
<1>6. Anchored(t)
  BY <1>4, <1>5 DEF Counted, CountedBut, Anchored, Live
<1>7. ASSUME NEW c \in Ids, NEW s \in t.held[c]
      PROVE  t.sessions[t.heap[s].id] = s
  <2>1. c \notin D /\ s \in g.held[c] /\ c \in g.heap[s].parents /\ s \in Slots
    BY <1>2, <1>3, <1>7
  <2>2. g.sessions[g.heap[s].id] = s /\ g.heap[s].id \in Roots
    BY <1>3, <2>1 DEF Counted, CountedBut
  <2>3. ASSUME NEW o \in Orphans(g, D), g.heap[o].id = g.heap[s].id
        PROVE  FALSE
    <3>1. o = s
      BY <2>2, <2>3 DEF Orphans, Counted, CountedBut
    <3> QED
      BY <2>1, <3>1 DEF Orphans
  <2> QED
    BY <1>2, <1>4, <2>1, <2>2, <2>3
<1>8. ASSUME NEW r \in Roots, t.sessions[r] # Null
      PROVE  t.heap[t.sessions[r]].id = r /\ t.heap[t.sessions[r]].parents # {}
  <2> DEFINE s == g.sessions[r]
  <2>1. /\ t.sessions[r] = s /\ s # Null
        /\ ~ \E o \in Orphans(g, D) : g.heap[o].id = r
    BY <1>2, <1>8
  <2>2. s \in Slots /\ g.heap[s].id = r /\ g.heap[s].parents # {}
    BY <1>1, <2>1 DEF Counted, CountedBut, GitType
  <2>3. ASSUME g.heap[s].parents \subseteq D
        PROVE  FALSE
    <3>1. PICK d \in D : s \in g.held[d]
      BY <1>1, <2>2, <2>3 DEF Sound, Matched
    <3>2. s \in Orphans(g, D)
      BY <2>3, <3>1 DEF Orphans
    <3> QED
      BY <2>1, <2>2, <3>2
  <2> QED
    BY <1>4, <2>1, <2>2, <2>3
<1>9. CountedBut(t, {})
  BY <1>6, <1>7, <1>8 DEF CountedBut
<1>10. Opened(t) = [c \in Ids |-> IF c \in D THEN {} ELSE Opened(g)[c]]
  BY <1>2, <1>3, <1>4 DEF Opened
<1> QED
  BY <1>1, <1>9, <1>10 DEF Counted, t

\* A fallback shows another session and pops the history, nothing else.
LEMMA FallbackCounted ==
  ASSUME NEW g, Counted(g)
  PROVE  LET t == Fallback(g)
         IN  Counted(t) /\ Opened(t) = Opened(g) /\ CachedRoots(t) = CachedRoots(g)
<1> DEFINE t == Fallback(g)
<1>1. g \in GitType /\ Sound(t)
  BY FallbackSound DEF Counted, Sound, Typed
<1>2. t.sessions = g.sessions /\ t.held = g.held /\ t.heap = g.heap
  BY <1>1 DEF Fallback, GitType
<1>3. t.active_session \in Cached(g) \cup {Null}
  <2>1. CASE LastUsable(g) = {}
    BY <1>1, <2>1 DEF Fallback, GitType
  <2>2. CASE LastUsable(g) # {}
    <3> DEFINE k == CHOOSE i \in LastUsable(g) : TRUE
    <3>1. k \in LastUsable(g)
      BY <2>2
    <3>2. t.active_session = g.sessions[g.history[k][2]]
      BY <1>1, <2>2 DEF Fallback, GitType
    <3> HIDE DEF k, t
    <3>3. g.history[k] \in Ids \X Roots
      BY <1>1, <3>1 DEF LastUsable, GitType
    <3> QED
      BY <1>1, <3>2, <3>3 DEF Cached, GitType
  <2> QED
    BY <2>1, <2>2
<1> HIDE DEF t
<1>4. Live(t) \subseteq Live(g)
  BY <1>2, <1>3, SlotsAssumption DEF Live, Cached
<1>5. CountedBut(t, {}) /\ Opened(t) = Opened(g) /\ CachedRoots(t) = CachedRoots(g)
  BY <1>2, <1>4 DEF Counted, CountedBut, Anchored, Opened, CachedRoots
<1> QED
  BY <1>1, <1>5 DEF Counted, t

\* Both ways a client goes.
LEMMA DropCounted ==
  ASSUME NEW g, Counted(g), NEW D \in SUBSET Ids, NEW t,
         t \in {Release(Forget(g, D)), Release(Fallback(Forget(g, D)))}
  PROVE  /\ Counted(t)
         /\ Opened(t) = [c \in Ids |-> IF c \in D THEN {} ELSE Opened(g)[c]]
BY ForgetCounted, FallbackCounted, ReleaseCounted

-----------------------------------------------------------------------------

\* The cache is the union of what the clients opened.
LEMMA CachedIsUnion ==
  ASSUME NEW g, Counted(g)
  PROVE  CachedRoots(g) = UNION {Opened(g)[c] : c \in Ids}
<1>1. g \in GitType /\ Sound(g)
  BY DEF Counted, Sound, Typed
<1>2. ASSUME NEW r \in CachedRoots(g)
      PROVE  \E c \in Ids : r \in Opened(g)[c]
  <2> DEFINE s == g.sessions[r]
  <2>1. s \in Slots /\ g.heap[s].id = r /\ g.heap[s].parents # {}
    BY <1>1 DEF CachedRoots, Counted, CountedBut, GitType
  <2>2. g.heap[s].parents \subseteq Ids
    BY <1>1, <2>1 DEF GitType, Session, NoSession
  <2>3. PICK c \in Ids : s \in g.held[c]
    BY <1>1, <2>1, <2>2 DEF Sound, Matched
  <2> QED
    BY <2>1, <2>3 DEF Opened
<1>3. ASSUME NEW c \in Ids, NEW s \in g.held[c]
      PROVE  g.heap[s].id \in CachedRoots(g)
  <2>1. s \in Slots /\ g.heap[s] \in Session
    BY <1>1 DEF Sound, Typed, Live, GitType
  <2> QED
    BY <2>1, SlotsAssumption DEF CachedRoots, Counted, CountedBut, Session
<1> QED
  BY <1>2, <1>3 DEF Opened

\* The invariant of GitSpec when the repositories are flat.
FlatIInv == Counted(git) /\ tree \in FileSystem

LEMMA FlatInit == GitInit => FlatIInv
<1> SUFFICES ASSUME GitInit PROVE FlatIInv
  OBVIOUS
<1>1. Sound(git)
  BY InitSound DEF GitIInv
<1>2. Live(git) = {}
  BY SlotsAssumption DEF GitInit, NewGit, Live
<1>3. CountedBut(git, {})
  BY <1>2 DEF GitInit, NewGit, CountedBut, Anchored
<1> QED
  BY <1>1, <1>3 DEF FlatIInv, Counted, GitInit, FileSystem

\* Every step keeps the invariant and is a step of Registry or invisible.
LEMMA FlatNext ==
  Flat /\ FlatIInv /\ [GitNext]_gitVars => FlatIInv' /\ [Reg!Next]_(Reg!registryVars)
<1> SUFFICES ASSUME Flat, FlatIInv, [GitNext]_gitVars
             PROVE  FlatIInv' /\ [Reg!Next]_(Reg!registryVars)
  OBVIOUS
<1> DEFINE Goal == FlatIInv' /\ [Reg!Next]_(Reg!registryVars)
<1>1. Counted(git) /\ tree \in FileSystem
  BY DEF FlatIInv
<1>2. ASSUME Counted(git'), tree' \in FileSystem, Unseen(git, git')
      PROVE  Goal
  BY <1>2 DEF Unseen, FlatIInv, Opened, CachedRoots, Reg!registryVars
<1>3. ASSUME Counted(git'), tree' \in FileSystem, NEW c \in Ids, NEW r \in Roots,
             Opens(git, git', c, r)
      PROVE  Goal
  <2>1. Reg!Open(c, r)
    BY <1>3 DEF Opens, Opened, CachedRoots, Reg!Open
  <2> QED
    BY <1>3, <2>1 DEF FlatIInv, Reg!Next
<1>4. ASSUME Counted(git'), tree' \in FileSystem, NEW D \in SUBSET Ids,
             Opened(git') = [c \in Ids |-> IF c \in D THEN {} ELSE Opened(git)[c]]
      PROVE  Goal
  <2>1. CachedRoots(git') = UNION {Opened(git')[c] : c \in Ids}
    BY <1>4, CachedIsUnion
  <2>2. Reg!Forget(D)
    BY <1>4, <2>1 DEF Opened, CachedRoots, Reg!Forget
  <2> QED
    BY <1>4, <2>2 DEF FlatIInv, Reg!Next
<1> HIDE DEF Goal
<1>5. ASSUME NEW c \in Ids, NEW p \in Paths, ChangePath(c, p)
      PROVE  Goal
  <2>1. PICK s \in Slots \ Live(git) : git' = ChangeGit(git, tree, c, p, s)
    BY <1>5 DEF ChangePath
  <2>2. tree' \in FileSystem
    BY <1>1, <1>5 DEF ChangePath
  <2>3. /\ Counted(git')
        /\ Unseen(git, git') \/ \E r \in Roots : Opens(git, git', c, r)
    BY <1>1, <2>1, ChangeGitCounted
  <2> QED
    BY <1>2, <1>3, <2>2, <2>3
<1>6. ASSUME AutoUpdate PROVE Goal
  BY <1>1, <1>2, <1>6, UpdateCounted DEF AutoUpdate, Unseen
<1>7. ASSUME NEW r \in Roots, GitChange(NameOf[r])
      PROVE  Goal
  BY <1>1, <1>2, <1>7, UpdateCounted DEF GitChange, Unseen
<1>8. ASSUME NEW c \in Ids, Leave(c)
      PROVE  Goal
  <2>1. git' \in {Release(Forget(git, {c})), Release(Fallback(Forget(git, {c})))}
    BY <1>8 DEF Leave, DropClient
  <2> QED
    BY <1>1, <1>4, <1>8, <2>1, DropCounted DEF Leave
<1>9. ASSUME NEW A \in SUBSET Ids, PingRound(A)
      PROVE  Goal
  <2> DEFINE D == git.clients \ (A \cup {DebugId})
  <2>1. D \in SUBSET Ids
    BY <1>1 DEF Counted, Sound, Typed, GitType
  <2>2. git' \in {Release(Forget(git, D)), Release(Fallback(Forget(git, D)))}
    BY <1>9 DEF PingRound, DropInactive
  <2> HIDE DEF D
  <2> QED
    BY <1>1, <1>4, <1>9, <2>1, <2>2, DropCounted DEF PingRound
<1>10. ASSUME Idle PROVE Goal
  BY <1>1, <1>2, <1>10, NotReadyCounted DEF Idle, Unseen
<1>11. ASSUME NEW r \in Mutable, RepoChanges(r)
       PROVE  Goal
  BY <1>1, <1>2, <1>11, RepoChangesTyped DEF Unseen
<1>12. ASSUME NEW p \in Deletable, PathChanges(p)
       PROVE  Goal
  BY <1>1, <1>2, <1>12, PathChangesTyped DEF Unseen
<1>13. ASSUME UNCHANGED gitVars PROVE Goal
  BY <1>1, <1>2, <1>13 DEF gitVars, Unseen
<1>14. Goal
  BY <1>5, <1>6, <1>7, <1>8, <1>9, <1>10, <1>11, <1>12, <1>13 DEF GitNext
<1> QED
  BY <1>14 DEF Goal

\* Without nested repositories a session is cached under its own id as long as
\* a tracked client holds it, and no longer (git.cc:80-90, 97-110, 177-188).
THEOREM CacheCounted ==
  ASSUME Flat
  PROVE  GitSpec => []CacheMatchesHolders
<1>1. FlatIInv => CacheMatchesHolders
  BY DEF FlatIInv, Counted, CountedBut, CacheMatchesHolders
<1>2. FlatIInv /\ [GitNext]_gitVars => FlatIInv'
  BY FlatNext
<1> QED
  BY <1>1, <1>2, FlatInit, PTL DEF GitSpec

\* Without nested repositories the registry implements the counted cache: every
\* method opens one repository, forgets clients, or does nothing visible.
THEOREM RegistryImplemented ==
  ASSUME Flat
  PROVE  GitSpec => ImplementsRegistry
<1>1. GitInit => Reg!Init
  BY DEF GitInit, NewGit, Reg!Init
<1>2. FlatIInv /\ [GitNext]_gitVars => FlatIInv'
  BY FlatNext
<1>3. FlatIInv /\ [GitNext]_gitVars => [Reg!Next]_(Reg!registryVars)
  BY FlatNext
<1> QED
  BY <1>1, <1>2, <1>3, FlatInit, PTL DEF GitSpec, ImplementsRegistry, Reg!Spec

-----------------------------------------------------------------------------
(* What clients keep: their sessions as long as they are tracked, and the   *)
(* place in the history that a fallback finds them by.                      *)

\* A client that stays keeps what it holds.
Grows(g, q) == \A c \in g.clients \cap q.clients : g.held[c] \subseteq q.held[c]

\* A session that has never faltered is valid.
Steady(g) == \A s \in Live(g) : ~g.heap[s].faltered => g.heap[s].valid

\* An entry of client c that a fallback would take for one of its sessions.
Entry(g, c) == {k \in DOMAIN g.history : /\ g.history[k][1] = c
                                         /\ g.sessions[g.history[k][2]] \in g.held[c]}

\* The clients that ClientsRemembered is about.
Settled(g) == {c \in Ids : /\ g.held[c] # {}
                           /\ \A s \in g.held[c] : ~g.heap[s].faltered}

\* All of them, but those of X (between the two steps of opening a session).
RememberedBut(g, X) == \A c \in Settled(g) \ X : Entry(g, c) # {}

Memory(g) == Steady(g) /\ RememberedBut(g, {})

\* From g to q nobody loses a session or the place to return to.
Keeps(g, q) == Memory(q) /\ \A d \in Ids : g.held[d] \subseteq q.held[d]

-----------------------------------------------------------------------------
(* Pieces.                                                                  *)

\* Of some places in a sequence one is the last.
LEMMA LastPlace ==
  ASSUME NEW n \in Nat, NEW T \in SUBSET (1..n), T # {}
  PROVE  \E k \in T : \A j \in T : j =< k
<1> DEFINE P(m) == \E k \in T : n - m = k
           U == {m \in Nat : P(m)}
<1>1. \A k \in T : k \in Int /\ n - k \in U
  <2> SUFFICES ASSUME NEW k \in T PROVE k \in Int /\ n - k \in U
    OBVIOUS
  <2>1. k \in Nat /\ n - k \in Nat /\ n - (n - k) = k
    OBVIOUS
  <2> QED
    BY <2>1
<1>2. U # {} /\ U \subseteq Nat
  BY <1>1
<1>3. PICK m \in U : \A x \in U : ~ (<<x, m>> \in OpToRel(<, Nat))
  <2> HIDE DEF U
  <2> QED
    BY <1>2, WFMin, NatLessThanWellFounded, Zenon
<1>4. PICK k \in T : n - m = k
  BY <1>3
<1>5. ASSUME NEW j \in T PROVE j =< k
  <2>1. n - j \in U /\ n - j \in Nat /\ m \in Nat /\ j \in Int
    BY <1>1, <1>2, <1>3
  <2> HIDE DEF U
  <2>2. ~ (n - j < m)
    <3>1. SUFFICES ASSUME n - j < m PROVE <<n - j, m>> \in OpToRel(<, Nat)
      BY <1>3, <2>1
    <3> QED
      BY <2>1, <3>1 DEF OpToRel
  <2> QED
    BY <1>4, <2>1, <2>2
<1> QED
  BY <1>5

\* enque_session: the client's entry is on top, and those of others stay.
LEMMA EnqueKeeps ==
  ASSUME NEW h \in Seq(Ids \X Roots), NEW c \in Ids, NEW r \in Roots
  PROVE  /\ \E k \in DOMAIN Enque(h, c, r) : Enque(h, c, r)[k] = <<c, r>>
         /\ \A k \in DOMAIN h : h[k][1] # c =>
              k \in DOMAIN Enque(h, c, r) /\ Enque(h, c, r)[k] = h[k]
<1>1. Len(h) \in Nat /\ DOMAIN h = 1..Len(h)
  OBVIOUS
<1>2. CASE h # <<>> /\ h[Len(h)][1] = c
  <2>1. Enque(h, c, r) = [h EXCEPT ![Len(h)] = <<c, r>>]
    BY <1>2 DEF Enque
  <2>2. Len(h) \in DOMAIN h
    BY <1>1, <1>2
  <2>3. /\ DOMAIN Enque(h, c, r) = DOMAIN h /\ Enque(h, c, r)[Len(h)] = <<c, r>>
        /\ \A k \in DOMAIN h : k # Len(h) => Enque(h, c, r)[k] = h[k]
    BY <2>1, <2>2
  <2> QED
    BY <1>2, <2>2, <2>3
<1>3. CASE ~(h # <<>> /\ h[Len(h)][1] = c)
  <2> DEFINE e == <<c, r>>
  <2>1. Enque(h, c, r) = Append(h, e)
    BY <1>3 DEF Enque
  <2>2. e \in Ids \X Roots
    OBVIOUS
  <2> HIDE DEF e
  <2>3. /\ DOMAIN Append(h, e) = 1..(Len(h) + 1) /\ Append(h, e)[Len(h) + 1] = e
        /\ \A k \in 1..Len(h) : Append(h, e)[k] = h[k]
    BY <1>1, <2>2
  <2>4. Len(h) + 1 \in 1..(Len(h) + 1) /\ \A k \in 1..Len(h) : k \in 1..(Len(h) + 1)
    BY <1>1
  <2> QED
    BY <1>1, <2>1, <2>3, <2>4 DEF e
<1> QED
  BY <1>2, <1>3

\* A step that changes neither side, and invalidates no session but those that
\* falter.
LEMMA SameMemory ==
  ASSUME NEW g \in GitType, Memory(g), NEW t,
         t.held = g.held, t.sessions = g.sessions, t.history = g.history,
         Live(t) \subseteq Live(g),
         \A s \in Live(g) : ~t.heap[s].faltered =>
           /\ ~g.heap[s].faltered
           /\ g.heap[s].valid => t.heap[s].valid
  PROVE  Memory(t) /\ Grows(g, t)
<1>1. \A c \in Ids : g.held[c] \subseteq Live(g)
  BY DEF Live, GitType
<1>2. Settled(t) \subseteq Settled(g)
  BY <1>1 DEF Settled
<1>3. \A c \in Ids : Entry(t, c) = Entry(g, c)
  BY DEF Entry
<1>4. RememberedBut(t, {})
  BY <1>2, <1>3 DEF Memory, RememberedBut, Settled
<1>5. Steady(t)
  BY DEF Memory, Steady
<1> QED
  BY <1>4, <1>5 DEF Memory, Grows

-----------------------------------------------------------------------------
(* The methods.                                                             *)

LEMMA ReleaseMemory ==
  ASSUME NEW g \in GitType, Memory(g)
  PROVE  Memory(Release(g)) /\ Release(g).held = g.held /\ Release(g).clients = g.clients
<1> DEFINE t == Release(g)
<1>1. /\ t.held = g.held /\ t.sessions = g.sessions /\ t.history = g.history
      /\ t.active_session = g.active_session /\ t.clients = g.clients
      /\ \A s \in Slots : t.heap[s] = IF s \in Live(g) THEN g.heap[s] ELSE NoSession
  BY DEF Release, GitType
<1> HIDE DEF t
<1>2. Live(t) = Live(g) /\ Live(g) \subseteq Slots
  BY <1>1 DEF Live
<1>3. Memory(t)
  BY <1>1, <1>2, SameMemory
<1> QED
  BY <1>1, <1>3 DEF t

LEMMA TrackMemory ==
  ASSUME NEW g \in GitType, Memory(g), NEW c \in Ids
  PROVE  LET t == Track(g, c)
         IN  /\ Memory(t) /\ t.held = g.held /\ t.sessions = g.sessions
             /\ g.clients \subseteq t.clients
<1> DEFINE t == Track(g, c)
<1>1. /\ t.held = g.held /\ t.sessions = g.sessions /\ t.history = g.history
      /\ t.active_session = g.active_session /\ t.heap = g.heap
      /\ g.clients \subseteq t.clients
  BY DEF Track, GitType
<1> HIDE DEF t
<1>2. Live(t) = Live(g)
  BY <1>1 DEF Live
<1>3. Memory(t)
  BY <1>1, <1>2, SameMemory
<1> QED
  BY <1>1, <1>3 DEF t

\* Holding the session that the client's entry leads to.
LEMMA HoldMemory ==
  ASSUME NEW g \in GitType, NEW c \in Ids, NEW s \in Live(g), g.heap[s] \in Session,
         Steady(g), RememberedBut(g, {c}),
         \E k \in DOMAIN g.history : /\ g.history[k][1] = c
                                     /\ g.sessions[g.history[k][2]] = s
  PROVE  LET t == Hold(g, c, s)
         IN  Memory(t) /\ \A d \in Ids : g.held[d] \subseteq t.held[d]
<1> DEFINE x1 == [g.heap[s] EXCEPT !.parents = g.heap[s].parents \cup {c}]
           hd == [g.held EXCEPT ![c] = g.held[c] \cup {s}]
           hp == [g.heap EXCEPT ![s] = x1]
           t == Hold(g, c, s)
<1>1. t = [g EXCEPT !.held = hd, !.heap = hp, !.active_session = s, !.waiting = FALSE]
  BY DEF Hold
<1>2. s \in Slots
  BY DEF Live
<1>3. x1.faltered = g.heap[s].faltered /\ x1.valid = g.heap[s].valid
  BY DEF Session
<1> HIDE DEF x1, t
<1>4. /\ \A d \in Ids : hd[d] = IF d = c THEN g.held[d] \cup {s} ELSE g.held[d]
      /\ \A x \in Slots : hp[x] = IF x = s THEN x1 ELSE g.heap[x]
  BY <1>2 DEF GitType
<1> HIDE DEF hd, hp
<1>5. /\ t.held = hd /\ t.heap = hp /\ t.active_session = s
      /\ t.sessions = g.sessions /\ t.history = g.history
  BY <1>1 DEF GitType
<1>6. \A x \in Slots : /\ t.heap[x].faltered = g.heap[x].faltered
                       /\ t.heap[x].valid = g.heap[x].valid
  BY <1>2, <1>3, <1>4, <1>5
<1>7. Live(t) \subseteq Live(g)
  <2> SUFFICES ASSUME NEW x \in Live(t), x # s PROVE x \in Live(g)
    OBVIOUS
  <2>1. x \in Slots
    BY DEF Live
  <2>2. ASSUME NEW d \in Ids, x \in t.held[d] PROVE x \in g.held[d]
    <3>1. x \in hd[d] /\ (hd[d] = g.held[d] \/ hd[d] = g.held[d] \cup {s})
      BY <1>4, <1>5, <2>2
    <3> QED
      BY <3>1
  <2>3. (\E r \in Roots : g.sessions[r] = x) \/ \E d \in Ids : x \in t.held[d]
    BY <1>5 DEF Live
  <2> QED
    BY <2>1, <2>2, <2>3 DEF Live
<1>8. Steady(t)
  BY <1>6, <1>7 DEF Steady, Live
<1>9. Entry(t, c) # {}
  <2>1. PICK k \in DOMAIN g.history : /\ g.history[k][1] = c
                                      /\ g.sessions[g.history[k][2]] = s
    OBVIOUS
  <2>2. s \in t.held[c]
    BY <1>4, <1>5
  <2>3. k \in Entry(t, c)
    BY <1>5, <2>1, <2>2 DEF Entry
  <2> QED
    BY <2>3
<1>10. ASSUME NEW d \in Settled(t), d # c PROVE Entry(t, d) # {}
  <2>1. d \in Ids /\ t.held[d] = g.held[d] /\ g.held[d] \subseteq Slots
    BY <1>4, <1>5, <1>10 DEF Settled, GitType
  <2>2. d \in Settled(g)
    BY <1>6, <1>10, <2>1 DEF Settled
  <2>3. Entry(g, d) # {}
    BY <1>10, <2>2 DEF RememberedBut
  <2> QED
    BY <1>5, <2>1, <2>3 DEF Entry
<1>11. Memory(t)
  BY <1>8, <1>9, <1>10 DEF Memory, RememberedBut
<1> QED
  BY <1>4, <1>5, <1>11 DEF t

LEMMA OpenMemory ==
  ASSUME Flat, NEW g, Counted(g), Memory(g), NEW c \in g.clients, NEW r \in Roots,
         NEW s \in Slots \ Live(g), g.sessions[r] = Null
  PROVE  LET t == Open(g, c, r, s)
         IN  Memory(t) /\ \A d \in Ids : g.held[d] \subseteq t.held[d]
<1> DEFINE hp == [g.heap EXCEPT ![s] = NewSession(r)]
           ss == [g.sessions EXCEPT ![r] = s]
           h  == Enque(g.history, c, r)
           t  == [g EXCEPT !.heap = hp, !.sessions = ss, !.history = h]
<1>1. g \in GitType /\ Sound(g) /\ c \in Ids
  BY DEF Counted, Sound, Typed, GitType
<1>2. t = Cache(g, c, r, s)
  <2>1. Home[r] = r
    BY DEF Flat
  <2> QED
    BY <2>1, Zenon DEF Cache
<1>3. Sound(t) /\ t \in GitType /\ Open(g, c, r, s) = Hold(t, c, s)
  <2> HIDE DEF t
  <2> QED BY <1>1, <1>2, CacheSound DEF Open, Sound, Typed
<1>4. /\ t.heap = hp /\ t.sessions = ss /\ t.held = g.held /\ t.history = h
      /\ t.active_session = g.active_session
  BY <1>1 DEF GitType
<1>5. /\ \A x \in Slots : hp[x] = IF x = s THEN NewSession(r) ELSE g.heap[x]
      /\ \A q \in Roots : ss[q] = IF q = r THEN s ELSE g.sessions[q]
  BY <1>1 DEF GitType
<1>6. /\ \E k \in DOMAIN h : h[k] = <<c, r>>
      /\ \A k \in DOMAIN g.history : g.history[k][1] # c => k \in DOMAIN h /\ h[k] = g.history[k]
      /\ g.history \in Seq(Ids \X Roots)
  BY <1>1, EnqueKeeps DEF GitType
<1> HIDE DEF hp, ss, h, t
<1>7. /\ NewSession(r) \in Session /\ NewSession(r).valid /\ NewSession(r).id = r
      /\ ~NewSession(r).faltered
  BY HomeAssumption DEF NewSession, Session, Paths, Flat
<1>8. /\ s \in Live(t) /\ t.heap[s] = NewSession(r)
      /\ \A x \in Live(t) : x \in Slots /\ (x = s \/ x \in Live(g))
  BY <1>4, <1>5, SlotsAssumption DEF Live
<1>9. Steady(t)
  BY <1>4, <1>5, <1>7, <1>8 DEF Memory, Steady
<1>10. \A d \in Ids : \A x \in g.held[d] : x \in Slots /\ x # s /\ x # Null
  BY <1>1, SlotsAssumption DEF Live, GitType
<1>11. ASSUME NEW d \in Settled(t) \ {c} PROVE Entry(t, d) # {}
  <2>1. d \in Settled(g) /\ d \in Ids /\ d # c
    BY <1>4, <1>5, <1>10 DEF Settled
  <2>2. PICK k \in DOMAIN g.history : /\ g.history[k][1] = d
                                      /\ g.sessions[g.history[k][2]] \in g.held[d]
    BY <2>1 DEF Memory, RememberedBut, Entry
  <2>3. k \in DOMAIN h /\ h[k] = g.history[k]
    BY <1>6, <2>1, <2>2
  <2>4. g.history[k][2] \in Roots
    BY <1>6
  <2>5. ss[g.history[k][2]] = g.sessions[g.history[k][2]]
    BY <1>5, <1>10, <2>1, <2>2, <2>4
  <2>6. k \in Entry(t, d)
    BY <1>4, <2>2, <2>3, <2>5 DEF Entry
  <2> QED
    BY <2>6
<1>12. \E k \in DOMAIN t.history : t.history[k][1] = c /\ t.sessions[t.history[k][2]] = s
  <2>1. PICK k \in DOMAIN h : h[k] = <<c, r>>
    BY <1>6
  <2> QED
    BY <1>4, <1>5, <2>1
<1>13. RememberedBut(t, {c})
  BY <1>11 DEF RememberedBut
<1>14. LET q == Hold(t, c, s)
       IN  Memory(q) /\ \A d \in Ids : t.held[d] \subseteq q.held[d]
  BY <1>1, <1>3, <1>7, <1>8, <1>9, <1>12, <1>13, HoldMemory
<1> QED
  BY <1>3, <1>4, <1>14

LEMMA ReopenMemory ==
  ASSUME NEW g, Counted(g), Memory(g), NEW c \in g.clients, NEW r \in Roots,
         NEW p \in Paths, g.sessions[r] # Null
  PROVE  LET t == Reopen(g, c, p, g.sessions[r])
         IN  Memory(t) /\ \A d \in Ids : g.held[d] \subseteq t.held[d]
<1> DEFINE s  == g.sessions[r]
           x1 == [g.heap[s] EXCEPT !.dirty = p]
           hp == [g.heap EXCEPT ![s] = x1]
           h  == Enque(g.history, c, g.heap[s].id)
           t  == [g EXCEPT !.heap = hp, !.history = h]
<1>1. /\ g \in GitType /\ Sound(g) /\ c \in Ids /\ s \in Slots /\ s \in Live(g)
      /\ g.heap[s] \in Session /\ g.heap[s].id = r
  BY DEF Counted, CountedBut, Sound, Typed, GitType, Live
<1>2. t = Revisit(g, c, p, s)
  BY DEF Revisit
<1>3. Sound(t) /\ t \in GitType /\ Reopen(g, c, p, s) = Hold(t, c, s)
  <2> HIDE DEF t
  <2> QED BY <1>1, <1>2, RevisitSound DEF Reopen, Sound, Typed
<1>4. x1.faltered = g.heap[s].faltered /\ x1.valid = g.heap[s].valid
  BY <1>1 DEF Session
<1>5. x1 \in Session
  BY <1>1 DEF Session
<1> HIDE DEF x1
<1>6. /\ t.heap = hp /\ t.sessions = g.sessions /\ t.held = g.held /\ t.history = h
      /\ t.active_session = g.active_session
  BY <1>1 DEF GitType
<1>7. \A x \in Slots : hp[x] = IF x = s THEN x1 ELSE g.heap[x]
  BY <1>1 DEF GitType
<1>8. /\ \E k \in DOMAIN h : h[k] = <<c, r>>
      /\ \A k \in DOMAIN g.history : g.history[k][1] # c => k \in DOMAIN h /\ h[k] = g.history[k]
  BY <1>1, EnqueKeeps DEF GitType
<1> HIDE DEF hp, h, t
<1>9. \A x \in Slots : /\ t.heap[x].faltered = g.heap[x].faltered
                       /\ t.heap[x].valid = g.heap[x].valid
  BY <1>1, <1>4, <1>6, <1>7
<1>10. Live(t) = Live(g) /\ Live(g) \subseteq Slots
  BY <1>6 DEF Live
<1>11. Steady(t)
  BY <1>9, <1>10 DEF Memory, Steady
<1>12. ASSUME NEW d \in Settled(t) \ {c} PROVE Entry(t, d) # {}
  <2>1. d \in Settled(g) /\ d \in Ids /\ d # c
    BY <1>1, <1>6, <1>9 DEF Settled, GitType
  <2>2. PICK k \in DOMAIN g.history : /\ g.history[k][1] = d
                                      /\ g.sessions[g.history[k][2]] \in g.held[d]
    BY <2>1 DEF Memory, RememberedBut, Entry
  <2>3. k \in DOMAIN h /\ h[k] = g.history[k]
    BY <1>8, <2>1, <2>2
  <2>4. k \in Entry(t, d)
    BY <1>6, <2>2, <2>3 DEF Entry
  <2> QED
    BY <2>4
<1>13. \E k \in DOMAIN t.history : t.history[k][1] = c /\ t.sessions[t.history[k][2]] = s
  <2>1. PICK k \in DOMAIN h : h[k] = <<c, r>>
    BY <1>8
  <2> QED
    BY <1>6, <2>1
<1>14. RememberedBut(t, {c})
  BY <1>12 DEF RememberedBut
<1>15. s \in Live(t) /\ t.heap[s] \in Session
  BY <1>1, <1>5, <1>6, <1>7, <1>10
<1> HIDE DEF s
<1>16. LET q == Hold(t, c, s)
       IN  Memory(q) /\ \A d \in Ids : t.held[d] \subseteq q.held[d]
  BY <1>1, <1>3, <1>11, <1>13, <1>14, <1>15, HoldMemory
<1> QED
  BY <1>3, <1>6, <1>16 DEF s

LEMMA WaitMemory ==
  ASSUME NEW g \in GitType, Memory(g), NEW t,
         t \in {[g EXCEPT !.waiting = TRUE],
                [g EXCEPT !.waiting = TRUE, !.active_session = Null]}
  PROVE  Memory(t) /\ t.held = g.held
<1>1. /\ t.sessions = g.sessions /\ t.held = g.held /\ t.heap = g.heap
      /\ t.history = g.history /\ t.active_session \in {Null, g.active_session}
  BY DEF GitType
<1>2. Live(t) \subseteq Live(g)
  BY <1>1, SlotsAssumption DEF Live
<1> QED
  BY <1>1, <1>2, SameMemory

LEMMA NotReadyMemory ==
  ASSUME NEW g \in GitType, Memory(g)
  PROVE  Memory(NotReady(g)) /\ NotReady(g).held = g.held
<1> DEFINE t == NotReady(g)
<1>1. /\ t.sessions = g.sessions /\ t.held = g.held /\ t.heap = g.heap
      /\ t.history = g.history /\ t.active_session = g.active_session
  BY DEF NotReady, GitType
<1> HIDE DEF t
<1>2. Live(t) \subseteq Live(g)
  BY <1>1 DEF Live
<1>3. Memory(t)
  BY <1>1, <1>2, SameMemory
<1> QED
  BY <1>1, <1>3 DEF t

\* change_git: whatever is opened, nobody loses a session or a place to return to.
LEMMA ChangeGitMemory ==
  ASSUME Flat, NEW g, Counted(g), Memory(g), NEW fs \in FileSystem, NEW c \in Ids,
         NEW p \in Paths, NEW s \in Slots \ Live(g),
         NEW q, q = ChangeGit(g, fs, c, p, s)
  PROVE  Keeps(g, q)
<1> DEFINE t == Track(g, c)
           r == Discover(fs, p)
<1>1. Counted(t) /\ Live(t) = Live(g) /\ c \in t.clients
  BY TrackCounted, TrackSound DEF Counted
<1>2. g \in GitType /\ t \in GitType
  BY <1>1 DEF Counted, Sound, Typed
<1>3. Memory(t) /\ t.held = g.held
  BY <1>2, TrackMemory
<1>4. r \in Roots \cup {Null}
  BY DiscoverFinds
<1>5. ASSUME NEW x \in GitType, Keeps(g, x) PROVE Keeps(g, Release(x))
  BY <1>5, ReleaseMemory DEF Keeps
<1> HIDE DEF t, r
<1>6. CASE r = Null
  <2>1. q = Release([t EXCEPT !.waiting = TRUE])
    BY <1>6 DEF ChangeGit, t, r
  <2>2. [t EXCEPT !.waiting = TRUE] \in GitType
    BY <1>2 DEF GitType
  <2>3. Keeps(g, [t EXCEPT !.waiting = TRUE])
    BY <1>2, <1>3, WaitMemory DEF Keeps
  <2> QED
    BY <1>5, <2>1, <2>2, <2>3
<1>7. CASE r \in Roots /\ t.sessions[r] = Null
  <2>1. q = Release(Open(t, c, r, s))
    BY <1>7, RootsAssumption DEF ChangeGit, Flat, t, r
  <2>2. Counted(Open(t, c, r, s))
    BY <1>1, <1>7, OpenCounted
  <2>3. Keeps(g, Open(t, c, r, s))
    BY <1>1, <1>3, <1>7, OpenMemory DEF Keeps
  <2> QED
    BY <1>5, <2>1, <2>2, <2>3 DEF Counted, Sound, Typed
<1>8. CASE r \in Roots /\ t.sessions[r] # Null /\ t.heap[t.sessions[r]].valid
  <2>1. q = Release(Reopen(t, c, p, t.sessions[r]))
    BY <1>8, RootsAssumption DEF ChangeGit, Flat, t, r
  <2>2. t.sessions[r] \in Slots /\ t.sessions[r] \in Live(t)
    BY <1>2, <1>8 DEF Live, GitType
  <2>3. Reopen(t, c, p, t.sessions[r]) \in GitType
    BY <1>1, <1>8, <2>2, OpenReopenSound DEF Counted, Sound, Typed
  <2>4. Keeps(g, Reopen(t, c, p, t.sessions[r]))
    BY <1>1, <1>3, <1>8, ReopenMemory DEF Keeps
  <2> QED
    BY <1>5, <2>1, <2>3, <2>4
<1>9. CASE r \in Roots /\ t.sessions[r] # Null /\ ~t.heap[t.sessions[r]].valid
  <2>1. q = Release([t EXCEPT !.waiting = TRUE, !.active_session = Null])
    BY <1>9, RootsAssumption DEF ChangeGit, Flat, t, r
  <2>2. [t EXCEPT !.waiting = TRUE, !.active_session = Null] \in GitType
    BY <1>2 DEF GitType
  <2>3. Keeps(g, [t EXCEPT !.waiting = TRUE, !.active_session = Null])
    BY <1>2, <1>3, WaitMemory DEF Keeps
  <2> QED
    BY <1>5, <2>1, <2>2, <2>3
<1> QED
  BY <1>4, <1>6, <1>7, <1>8, <1>9

\* An update that finds nothing is remembered.
LEMMA UpdatedFalters ==
  ASSUME NEW fs \in FileSystem, NEW x \in Session, ~Updated(fs, x).faltered
  PROVE  ~x.faltered /\ Updated(fs, x).valid
<1>1. CASE Discover(fs, x.dirty) = Null
  BY <1>1 DEF Updated, Session
<1>2. CASE Discover(fs, x.dirty) # Null
  BY <1>2 DEF Updated, Session
<1> QED
  BY <1>1, <1>2

LEMMA UpdateSessionsMemory ==
  ASSUME NEW g, Counted(g), Memory(g), NEW fs \in FileSystem,
         NEW S \in SUBSET Cached(g)
  PROVE  LET t == UpdateSessions(g, fs, S)
         IN  Memory(t) /\ t.held = g.held
<1> DEFINE hp == [s \in Slots |-> IF s \in S THEN Updated(fs, g.heap[s]) ELSE g.heap[s]]
           t  == UpdateSessions(g, fs, S)
<1>1. g \in GitType /\ Sound(g)
  BY DEF Counted, Sound, Typed
<1>2. /\ t.sessions = g.sessions /\ t.held = g.held /\ t.heap = hp
      /\ t.active_session = g.active_session /\ t.history = g.history
  BY <1>1 DEF UpdateSessions, GitType
<1>3. Live(t) = Live(g) /\ Live(g) \subseteq Slots
  BY <1>2 DEF Live
<1>4. ASSUME NEW s \in S
      PROVE  s \in Slots /\ g.heap[s] \in Session
  BY DEF Cached, Live, Counted, Sound, Typed
<1>5. \A s \in Slots : ~hp[s].faltered => /\ ~g.heap[s].faltered
                                          /\ g.heap[s].valid => hp[s].valid
  BY <1>4, UpdatedFalters
<1> HIDE DEF hp, t
<1>6. Memory(t)
  BY <1>1, <1>2, <1>3, <1>5, SameMemory
<1> QED
  BY <1>2, <1>6 DEF t

LEMMA UpdateMemory ==
  ASSUME NEW g, Counted(g), Memory(g), NEW fs \in FileSystem, NEW name, NEW t,
         t \in {UpdateAll(g, fs), UpdateNamed(g, fs, name)}
  PROVE  Memory(t) /\ t.held = g.held
<1>1. {s \in Cached(g) : NameOf[g.heap[s].id] = name} \subseteq Cached(g)
  OBVIOUS
<1> QED
  BY <1>1, UpdateSessionsMemory DEF UpdateAll, UpdateNamed

\* The clients of D leave no gap: the sessions of the others stay cached.
LEMMA ForgetMemory ==
  ASSUME NEW g, Counted(g), Memory(g), NEW D \in SUBSET Ids
  PROVE  LET t == Forget(g, D)
         IN  Memory(t) /\ \A c \in Ids \ D : t.held[c] = g.held[c]
<1> DEFINE t == Forget(g, D)
<1>1. g \in GitType /\ Sound(g)
  BY DEF Counted, Sound, Typed
<1>2. /\ t.active_session = g.active_session /\ t.history = g.history
      /\ \A c \in Ids : t.held[c] = IF c \in D THEN {} ELSE g.held[c]
      /\ \A r \in Roots : t.sessions[r] =
           IF \E s \in Orphans(g, D) : g.heap[s].id = r THEN Null ELSE g.sessions[r]
      /\ \A s \in Slots : t.heap[s] =
           IF \E d \in D : s \in g.held[d]
           THEN [g.heap[s] EXCEPT !.parents = g.heap[s].parents \ D] ELSE g.heap[s]
  BY <1>1 DEF Forget, GitType
<1> HIDE DEF t
<1>3. \A c \in Ids : \A s \in g.held[c] :
        s \in Slots /\ s \in Live(g) /\ s # Null /\ g.heap[s] \in Session
        /\ g.heap[s].id \in Roots /\ c \in g.heap[s].parents
  BY <1>1, SlotsAssumption DEF Live, GitType, Sound, Typed, Matched, Session
<1>4. ASSUME NEW s \in Slots
      PROVE  /\ t.heap[s].faltered = g.heap[s].faltered
             /\ t.heap[s].valid = g.heap[s].valid
  <2>1. CASE \E d \in D : s \in g.held[d]
    <3>1. g.heap[s] \in Session
      BY <1>3, <2>1
    <3> QED
      BY <1>2, <2>1, <3>1 DEF Session
  <2>2. CASE ~ \E d \in D : s \in g.held[d]
    BY <1>2, <2>2
  <2> QED
    BY <2>1, <2>2
<1>5. Live(t) \subseteq Live(g)
  BY <1>2, SlotsAssumption DEF Live
<1>6. Steady(t)
  BY <1>4, <1>5 DEF Memory, Steady, Live
<1>7. ASSUME NEW c \in Settled(t) PROVE Entry(t, c) # {}
  <2>1. c \in Ids \ D /\ t.held[c] = g.held[c]
    BY <1>2 DEF Settled
  <2>2. c \in Settled(g)
    BY <1>3, <1>4, <2>1 DEF Settled
  <2>3. PICK k \in DOMAIN g.history : /\ g.history[k][1] = c
                                      /\ g.sessions[g.history[k][2]] \in g.held[c]
    BY <2>2 DEF Memory, RememberedBut, Entry
  <2> DEFINE r == g.history[k][2]
             s == g.sessions[r]
  <2>4. r \in Roots
    <3>1. g.history \in Seq(Ids \X Roots)
      BY <1>1 DEF GitType
    <3>2. g.history[k] \in Ids \X Roots
      BY <2>3, <3>1
    <3> QED
      BY <3>2
  <2>5. s \in g.held[c] /\ c \in g.heap[s].parents /\ s # Null
    BY <1>3, <2>1, <2>3
  <2> HIDE DEF r
  <2>6. ASSUME NEW o \in Orphans(g, D), g.heap[o].id = r
        PROVE  FALSE
    <3>1. o = s
      BY <2>4, <2>6 DEF Orphans, Counted, CountedBut
    <3> QED
      BY <2>1, <2>5, <3>1 DEF Orphans
  <2>7. t.sessions[r] = s
    BY <1>2, <2>4, <2>6
  <2>8. k \in Entry(t, c)
    BY <1>2, <2>1, <2>3, <2>5, <2>7 DEF Entry, r
  <2> QED
    BY <2>8
<1>8. Memory(t)
  BY <1>6, <1>7 DEF Memory, RememberedBut
<1> QED
  BY <1>2, <1>8 DEF t

\* A fallback pops only entries that lead nowhere.
LEMMA FallbackMemory ==
  ASSUME NEW g, Counted(g), Memory(g)
  PROVE  LET t == Fallback(g)
         IN  Memory(t) /\ t.held = g.held
<1> DEFINE t == Fallback(g)
           P == {k \in DOMAIN g.history : Usable(g, g.history[k])}
<1>1. /\ g \in GitType /\ Sound(g) /\ g.history \in Seq(Ids \X Roots)
      /\ DOMAIN g.history = 1..Len(g.history) /\ Len(g.history) \in Nat
  BY DEF Counted, Sound, Typed, GitType
<1>2. t.sessions = g.sessions /\ t.held = g.held /\ t.heap = g.heap
  BY <1>1 DEF Fallback, GitType
<1>3. Live(t) \subseteq Live(g)
  <2>1. t.active_session \in Cached(g) \cup {Null}
    <3>1. CASE LastUsable(g) = {}
      BY <1>1, <3>1 DEF Fallback, GitType
    <3>2. CASE LastUsable(g) # {}
      <4> DEFINE k == CHOOSE i \in LastUsable(g) : TRUE
      <4>1. k \in LastUsable(g)
        BY <3>2
      <4>2. t.active_session = g.sessions[g.history[k][2]]
        BY <1>1, <3>2 DEF Fallback, GitType
      <4> HIDE DEF k, t
      <4>3. g.history[k] \in Ids \X Roots
        BY <1>1, <4>1 DEF LastUsable
      <4> QED
        BY <1>1, <4>2, <4>3 DEF Cached, GitType
    <3> QED
      BY <3>1, <3>2
  <2> HIDE DEF t
  <2> QED
    BY <1>2, <2>1, SlotsAssumption DEF Live, Cached
<1>4. Steady(t)
  <2> HIDE DEF t
  <2> QED BY <1>2, <1>3 DEF Memory, Steady
<1>5. ASSUME NEW c \in Settled(g), NEW k \in Entry(g, c)
      PROVE  k \in P
  <2>1. k \in DOMAIN g.history /\ g.sessions[g.history[k][2]] \in g.held[c] /\ c \in Ids
    BY DEF Entry, Settled
  <2> DEFINE s == g.sessions[g.history[k][2]]
  <2>2. s \in Slots /\ s \in Live(g) /\ ~g.heap[s].faltered
    BY <1>1, <2>1 DEF Settled, Live, GitType
  <2>3. g.heap[s].valid /\ s # Null
    BY <2>2, SlotsAssumption DEF Memory, Steady
  <2> QED
    BY <2>1, <2>3 DEF Usable
<1>6. ASSUME NEW c \in Settled(t) PROVE Entry(t, c) # {}
  <2>1. c \in Settled(g) /\ c \in Ids
    <3> HIDE DEF t
    <3> QED BY <1>2 DEF Settled
  <2>2. PICK k \in Entry(g, c) : TRUE
    BY <2>1 DEF Memory, RememberedBut
  <2>3. k \in P
    BY <1>5, <2>1, <2>2
  <2>4. PICK m \in P : \A j \in P : j =< m
    <3>1. P \in SUBSET (1..Len(g.history)) /\ P # {}
      BY <1>1, <2>3
    <3> HIDE DEF P
    <3> QED
      BY <1>1, <3>1, LastPlace
  <2>5. LastUsable(g) # {}
    BY <2>4 DEF LastUsable
  <2> DEFINE n == CHOOSE i \in LastUsable(g) : TRUE
  <2>6. n \in LastUsable(g)
    BY <2>5
  <2>7. t.history = SubSeq(g.history, 1, n)
    BY <1>1, <2>5 DEF Fallback, GitType
  <2> HIDE DEF n, t
  <2>8. k =< n /\ n \in 1..Len(g.history) /\ k \in 1..Len(g.history)
    BY <1>1, <2>3, <2>6 DEF LastUsable
  <2>9. k \in DOMAIN t.history /\ t.history[k] = g.history[k]
    BY <1>1, <2>7, <2>8
  <2>10. k \in Entry(t, c)
    BY <1>2, <2>2, <2>9 DEF Entry
  <2> QED
    BY <2>10
<1>7. Memory(t)
  BY <1>4, <1>6 DEF Memory, RememberedBut
<1> QED
  BY <1>2, <1>7 DEF t

\* Both ways a client goes.
LEMMA DropMemory ==
  ASSUME NEW g, Counted(g), Memory(g), NEW D \in SUBSET Ids, NEW t,
         t \in {Release(Forget(g, D)), Release(Fallback(Forget(g, D)))}
  PROVE  Memory(t) /\ \A c \in Ids \ D : t.held[c] = g.held[c]
<1> DEFINE f == Forget(g, D)
<1>1. Counted(f) /\ Memory(f) /\ \A c \in Ids \ D : f.held[c] = g.held[c]
  BY ForgetCounted, ForgetMemory
<1> HIDE DEF f
<1>2. /\ Counted(Fallback(f)) /\ Memory(Fallback(f)) /\ Fallback(f).held = f.held
  BY <1>1, FallbackCounted, FallbackMemory
<1>3. f \in GitType /\ Fallback(f) \in GitType
  BY <1>1, <1>2 DEF Counted, Sound, Typed
<1>4. t \in {Release(f), Release(Fallback(f))}
  BY DEF f
<1> QED
  BY <1>1, <1>2, <1>3, <1>4, ReleaseMemory

-----------------------------------------------------------------------------
(* The theorems.                                                            *)

\* The invariant.
MemoryIInv == FlatIInv /\ Memory(git)

LEMMA MemoryInit == GitInit => MemoryIInv
<1> SUFFICES ASSUME GitInit PROVE MemoryIInv
  OBVIOUS
<1>1. Live(git) = {}
  BY SlotsAssumption DEF GitInit, NewGit, Live
<1>2. Memory(git)
  BY <1>1 DEF GitInit, NewGit, Memory, Steady, RememberedBut, Settled
<1> QED
  BY <1>2, FlatInit DEF MemoryIInv

\* Every step keeps the invariant, and a client that stays keeps its sessions.
LEMMA MemoryNext ==
  Flat /\ MemoryIInv /\ [GitNext]_gitVars => MemoryIInv' /\ Grows(git, git')
<1> SUFFICES ASSUME Flat, MemoryIInv, [GitNext]_gitVars
             PROVE  MemoryIInv' /\ Grows(git, git')
  OBVIOUS
<1> DEFINE Same == \A d \in Ids : git.held[d] \subseteq git'.held[d]
<1>1. Counted(git) /\ tree \in FileSystem /\ Memory(git) /\ git \in GitType
  BY DEF MemoryIInv, FlatIInv, Counted, Sound, Typed
<1>2. FlatIInv'
  BY FlatNext DEF MemoryIInv
<1>3. git'.clients \in SUBSET Ids /\ git.clients \in SUBSET Ids
  BY <1>1, <1>2 DEF FlatIInv, Counted, Sound, Typed, GitType
<1>4. ASSUME Same PROVE Grows(git, git')
  BY <1>3, <1>4 DEF Grows
<1>5. ASSUME NEW c \in Ids, NEW p \in Paths, ChangePath(c, p)
      PROVE  Memory(git') /\ Grows(git, git')
  <2>1. PICK s \in Slots \ Live(git) : git' = ChangeGit(git, tree, c, p, s)
    BY <1>5 DEF ChangePath
  <2>2. Memory(git') /\ Same
    BY <1>1, <2>1, ChangeGitMemory DEF Keeps
  <2> QED
    BY <1>4, <2>2
<1>6. ASSUME AutoUpdate \/ \E r \in Roots : GitChange(NameOf[r])
      PROVE  Memory(git') /\ Grows(git, git')
  <2>1. PICK name : git' \in {UpdateAll(git, tree), UpdateNamed(git, tree, name)}
    BY <1>6 DEF AutoUpdate, GitChange
  <2>2. Memory(git') /\ Same
    BY <1>1, <2>1, UpdateMemory
  <2> QED
    BY <1>4, <2>2
<1>7. ASSUME NEW D \in SUBSET Ids, git'.clients \cap D = {},
             git' \in {Release(Forget(git, D)), Release(Fallback(Forget(git, D)))}
      PROVE  Memory(git') /\ Grows(git, git')
  <2>1. Memory(git') /\ \A c \in Ids \ D : git'.held[c] = git.held[c]
    BY <1>1, <1>7, DropMemory
  <2> QED
    BY <1>3, <1>7, <2>1 DEF Grows
<1>8. ASSUME NEW D \in SUBSET Ids,
             git' \in {Release(Forget(git, D)), Release(Fallback(Forget(git, D)))}
      PROVE  git'.clients \cap D = {}
  <2> DEFINE f == Forget(git, D)
  <2>1. f.clients = git.clients \ D
    BY <1>1 DEF Forget, GitType
  <2>2. f \in GitType
    BY <1>1, ForgetCounted DEF Counted, Sound, Typed
  <2>3. git' \in {Release(f), Release(Fallback(f))}
    BY <1>8
  <2> HIDE DEF f
  <2>4. Fallback(f).clients = f.clients /\ Fallback(f) \in GitType
    <3>1. Fallback(f).clients = f.clients
      BY <2>2 DEF Fallback, GitType
    <3>2. Counted(f)
      BY <1>1, ForgetCounted DEF f
    <3> QED
      BY <3>1, <3>2, FallbackCounted DEF Counted, Sound, Typed
  <2>5. git'.clients = f.clients
    BY <2>2, <2>3, <2>4 DEF Release, GitType
  <2> QED
    BY <2>1, <2>5
<1>9. ASSUME NEW c \in Ids, Leave(c)
       PROVE  Memory(git') /\ Grows(git, git')
  <2>1. git' \in {Release(Forget(git, {c})), Release(Fallback(Forget(git, {c})))}
    BY <1>9 DEF Leave, DropClient
  <2> QED
    BY <1>7, <1>8, <2>1
<1>10. ASSUME NEW A \in SUBSET Ids, PingRound(A)
       PROVE  Memory(git') /\ Grows(git, git')
  <2> DEFINE D == git.clients \ (A \cup {DebugId})
  <2>1. git' \in {Release(Forget(git, D)), Release(Fallback(Forget(git, D)))}
    BY <1>10 DEF PingRound, DropInactive
  <2>2. D \in SUBSET Ids
    BY <1>3
  <2> HIDE DEF D
  <2> QED
    BY <1>7, <1>8, <2>1, <2>2
<1>11. ASSUME Idle PROVE Memory(git') /\ Grows(git, git')
  <2>1. Memory(git') /\ git'.held = git.held
    BY <1>1, <1>11, NotReadyMemory DEF Idle
  <2> QED
    BY <2>1 DEF Grows
<1>12. ASSUME UNCHANGED git PROVE Memory(git') /\ Grows(git, git')
  BY <1>1, <1>12 DEF Grows
<1>13. Memory(git') /\ Grows(git, git')
  BY <1>5, <1>6, <1>9, <1>10, <1>11, <1>12 DEF GitNext, RepoChanges, PathChanges, gitVars
<1> QED
  BY <1>2, <1>13 DEF MemoryIInv

\* Without nested repositories a session leaves the cache, and a client loses
\* it, only with that client itself (git.cc:160-188, 200-232).
THEOREM SessionsKept ==
  ASSUME Flat
  PROVE  GitSpec => SessionsOutliveOthers
<1>1. MemoryIInv /\ [GitNext]_gitVars => MemoryIInv'
  BY MemoryNext
<1>2. MemoryIInv /\ [GitNext]_gitVars =>
        [\A c \in git.clients \cap git'.clients : \A s \in git.held[c] :
           /\ s \in git'.held[c]
           /\ \E r \in Roots : git'.sessions[r] = s]_gitVars
  <2> SUFFICES ASSUME MemoryIInv, [GitNext]_gitVars,
                      NEW c \in git.clients \cap git'.clients, NEW s \in git.held[c]
               PROVE  /\ s \in git'.held[c]
                      /\ \E r \in Roots : git'.sessions[r] = s
    OBVIOUS
  <2>1. FlatIInv' /\ Grows(git, git') /\ FlatIInv
    BY MemoryNext DEF MemoryIInv
  <2>2. /\ c \in Ids /\ s \in git'.held[c] /\ s \in Slots
        /\ git'.sessions[git'.heap[s].id] = s
    BY <2>1 DEF FlatIInv, Grows, Counted, CountedBut, Sound, Typed, GitType
  <2>3. git'.heap[s] \in Session
    BY <2>1, <2>2 DEF FlatIInv, Counted, Sound, Typed, Live
  <2> QED
    BY <2>2, <2>3 DEF Session
<1> QED
  BY <1>1, <1>2, MemoryInit, PTL DEF GitSpec, SessionsOutliveOthers

\* Without nested repositories a client whose sessions have never faltered has a
\* usable entry in the history as long as it is tracked (git.cc:204-205, 240-266):
\* fallbacks pop only entries that lead nowhere.
THEOREM FallbackFinds ==
  ASSUME Flat
  PROVE  GitSpec => []ClientsRemembered
<1>1. MemoryIInv /\ [GitNext]_gitVars => MemoryIInv'
  BY MemoryNext
<1>2. MemoryIInv => ClientsRemembered
  <2> SUFFICES ASSUME MemoryIInv, NEW c \in Ids, git.held[c] # {},
                      \A s \in git.held[c] : ~git.heap[s].faltered
               PROVE  \E k \in DOMAIN git.history : /\ git.history[k][1] = c
                                                    /\ Usable(git, git.history[k])
    BY DEF ClientsRemembered
  <2>1. c \in Settled(git) /\ Memory(git) /\ git \in GitType
    BY DEF Settled, MemoryIInv, FlatIInv, Counted, Sound, Typed
  <2>2. PICK k \in DOMAIN git.history : /\ git.history[k][1] = c
                                        /\ git.sessions[git.history[k][2]] \in git.held[c]
    BY <2>1 DEF Memory, RememberedBut, Entry
  <2> DEFINE s == git.sessions[git.history[k][2]]
  <2>3. s \in Slots /\ s \in Live(git) /\ ~git.heap[s].faltered
    BY <2>1, <2>2 DEF Live, GitType
  <2>4. git.heap[s].valid /\ s # Null
    BY <2>1, <2>3, SlotsAssumption DEF Memory, Steady
  <2> QED
    BY <2>2, <2>4 DEF Usable
<1> QED
  BY <1>1, <1>2, MemoryInit, PTL DEF GitSpec

=============================================================================
