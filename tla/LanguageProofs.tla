--------------------------- MODULE LanguageProofs ---------------------------
(***************************************************************************)
(* The language of a presence is that of the last path, for any branches,   *)
(* any files and both ways to update; and the parse of any table.           *)
(***************************************************************************)
EXTENDS PresenceProofs, WellFoundedInduction

TagShape ==
  tag = [cached |-> tag.cached, dirty_path |-> tag.dirty_path,
         init_path |-> tag.init_path, language |-> tag.language]

TakenShape ==
  taken = [path |-> taken.path, files |-> taken.files, opened |-> taken.opened,
           lost |-> taken.lost]

\* Paths that a look starts from, or will start from, are the last one or the root.
Traced ==
  /\ tag.dirty_path # Root => tag.dirty_path = taken.path
  /\ tag.init_path # Root => tag.init_path = taken.path
  /\ look.phase = "idle" => tag.init_path = Root
  /\ taken.path # Root => taken.path \in taken.files

\* Before the first path there is no session to look at, and after it the table
\* has been read.
Cached ==
  /\ ~tag.cached => /\ ~session.valid /\ look.phase \in {"idle"}
                    /\ tag.language = NoLanguage
                    /\ tag.dirty_path = Root
  /\ tag.cached => Parsed

\* The language is that of the last path, or none for a reason.
Right ==
  \/ tag.language = PropsOf(taken.path)
  \/ /\ tag.language = NoLanguage
     /\ taken.lost \/ (taken.path = Root /\ taken.opened)

\* With --auto-update it is of some file that was sent, and it may be late.
Sent == tag.language = NoLanguage \/ \E f \in taken.files : tag.language = PropsOf(f)
Late(pending) == auto_update /\ (taken.path = Root \/ pending)

\* A look that started from a file is about to set it.
Languages ==
  /\ tag.cached /\ auto_update => Sent
  /\ tag.cached /\ look.phase = "idle" => Right \/ Late(tag.dirty_path # Root)
  /\ tag.cached /\ look.phase # "idle" => Right \/ Late(FALSE) \/ tag.init_path # Root

LanguageInv == TagShape /\ TakenShape /\ Traced /\ Cached /\ Languages

-----------------------------------------------------------------------------

\* A look has a phase, and a session is valid or not.
LEMMA LookSets ==
  ASSUME StatsTypeOK
  PROVE  /\ LookBegin => look.phase = "idle" /\ look'.phase = "open"
         /\ LookLost => look.phase = "idle" /\ look' = look /\ ~session'.valid
         /\ LookOpen => look.phase = "open" /\ look'.phase \in {"crashed", "head"}
         /\ CountHead => look.phase = "head" /\ look'.phase = "origin"
         /\ LookEnd => look.phase = "origin" /\ look'.phase = "idle"
         /\ UserNext => look' = look /\ session' = session
<1>1. look \in Walker
  BY DEF StatsTypeOK
<1>2. LookBegin => look.phase = "idle" /\ look'.phase = "open"
  BY <1>1 DEF LookBegin, Walker
<1>7. LookLost => look.phase = "idle" /\ look' = look /\ ~session'.valid
  <2>1. session \in Stats
    BY DEF StatsTypeOK
  <2> QED
    BY <2>1, NewSession DEF LookLost, ZeroStats, Stats
<1>3. LookOpen => look.phase = "open" /\ look'.phase \in {"crashed", "head"}
  BY <1>1 DEF LookOpen, Walker
<1>4. CountHead => look.phase = "head" /\ look'.phase = "origin"
  BY <1>1 DEF CountHead, Walker
<1>5. LookEnd => look.phase = "origin" /\ look'.phase = "idle"
  BY DEF LookEnd, NoWalker
<1>6. UserNext => look' = look /\ session' = session
  <2>1. \A new, moves : Command(new, moves) => look' = look /\ session' = session
    BY DEF Command
  <2> QED
    BY <2>1, Zenon DEF UserNext, Commit, Rewrite, Push, Fetch, Checkout, SetUpstream,
                       UnsetUpstream, Vanish, Return
<1> QED
  BY <1>2, <1>3, <1>4, <1>5, <1>6, <1>7

\* The language of a path depends on the table only.
LEMMA PropsStay ==
  ASSUME lang' = lang
  PROVE  /\ \A p : PropsOf(p)' = PropsOf(p)
         /\ Parsed' = Parsed
BY DEF PropsOf, get_props, Parsed

LEMMA LanguageStart ==
  ASSUME PresenceInit PROVE LanguageInv
BY DEF PresenceInit, StatsInit, LanguageInv, TagShape, TakenShape, Traced, Cached,
       Languages, NoWalker, NewStats

LEMMA ConstructKeeps ==
  ASSUME LanguageInv, StatsTypeOK, NEW p \in Paths, Construct(p)
  PROVE  LanguageInv'
<1>1. /\ look'.phase = "open" /\ lang' = lang /\ ~tag.cached
      /\ tag' = [tag EXCEPT !.cached = TRUE, !.init_path = p]
  BY LookSets DEF Construct
<1>2. /\ tag'.cached /\ tag'.init_path = p /\ tag'.dirty_path = Root
      /\ tag'.language = NoLanguage /\ TagShape'
  BY <1>1 DEF LanguageInv, TagShape, Cached
<1>3. taken' = [path |-> p, files |-> taken.files \cup ({p} \ {Root}),
                opened |-> ~tag.cached, lost |-> FALSE]
  BY DEF Construct, Take
<1>4. /\ taken'.path = p /\ (p # Root => p \in taken'.files) /\ taken'.opened
      /\ TakenShape'
  BY <1>1, <1>3 DEF TakenShape
<1>5. Parsed'
  BY <1>1, PropsStay DEF Construct
<1>6. Languages'
  BY <1>1, <1>2, <1>4 DEF Languages, Right, Sent
<1> QED
  BY <1>1, <1>2, <1>4, <1>5, <1>6 DEF LanguageInv, Traced, Cached

LEMMA SetPathKeeps ==
  ASSUME LanguageInv, StatsTypeOK, NEW p \in Paths, SetPath(p)
  PROVE  LanguageInv'
<1>1. /\ look' = look /\ session' = session /\ lang' = lang
      /\ auto_update' = auto_update /\ look.phase = "idle" /\ tag.cached
      /\ tag' = UpdatePath(p)
  BY DEF SetPath, statsVars
<1>2. /\ tag'.cached /\ tag'.init_path = Root /\ tag'.dirty_path = p /\ TagShape'
      /\ auto_update => tag'.language = tag.language
      /\ ~auto_update => tag'.language = PropsOf(p)
  BY <1>1 DEF UpdatePath, LanguageInv, TagShape, Traced
<1>3. taken' = [path |-> p, files |-> taken.files \cup ({p} \ {Root}),
                opened |-> ~tag.cached, lost |-> FALSE]
  BY DEF SetPath, Take
<1>4. /\ taken'.path = p /\ (p # Root => p \in taken'.files)
      /\ taken.files \subseteq taken'.files /\ TakenShape'
  BY <1>3 DEF TakenShape
<1>5. /\ Parsed' /\ PropsOf(taken.path)' = PropsOf(p)
      /\ \A f : PropsOf(f)' = PropsOf(f)
  BY <1>1, <1>4, PropsStay DEF LanguageInv, Cached, PropsOf, get_props
<1>6. Sent => (auto_update => Sent')
  BY <1>2, <1>4, <1>5 DEF Sent, PropsOf, get_props
<1>7. Right' \/ Late(tag.dirty_path # Root)'
  BY <1>1, <1>2, <1>4, <1>5 DEF Right, Late
<1> QED
  BY <1>1, <1>2, <1>4, <1>5, <1>6, <1>7 DEF LanguageInv, Traced, Cached, Languages

LEMMA UpdateKeeps ==
  ASSUME LanguageInv, StatsTypeOK, Update
  PROVE  LanguageInv'
<1>1. /\ look.phase = "idle" /\ look'.phase = "open" /\ tag.cached
      /\ lang' = lang /\ auto_update' = auto_update /\ taken' = taken
      /\ tag' = [tag EXCEPT !.init_path = tag.dirty_path, !.dirty_path = Root]
  BY LookSets DEF Update
<1>2. /\ tag'.cached /\ tag'.init_path = tag.dirty_path /\ tag'.dirty_path = Root
      /\ tag'.language = tag.language /\ TagShape'
  BY <1>1 DEF LanguageInv, TagShape
<1>3. Parsed' /\ \A f : PropsOf(f)' = PropsOf(f)
  BY <1>1, PropsStay DEF LanguageInv, Cached
<1>4. Sent' = Sent /\ Right' = Right
  BY <1>1, <1>2, <1>3 DEF Sent, Right, PropsOf, get_props
<1>5. Languages'
  BY <1>1, <1>2, <1>4 DEF LanguageInv, Languages, Late
<1> QED
  BY <1>1, <1>2, <1>3, <1>5 DEF LanguageInv, TakenShape, Traced, Cached

LEMMA UpdateLostKeeps ==
  ASSUME LanguageInv, StatsTypeOK, UpdateLost
  PROVE  LanguageInv'
<1>1. /\ look.phase = "idle" /\ look' = look /\ tag.cached
      /\ lang' = lang /\ taken' = [taken EXCEPT !.lost = TRUE]
      /\ tag' = [tag EXCEPT !.language = NoLanguage]
  BY LookSets DEF UpdateLost
<1>2. /\ tag'.cached /\ tag'.init_path = tag.init_path
      /\ tag'.dirty_path = tag.dirty_path /\ tag'.language = NoLanguage /\ TagShape'
  BY <1>1 DEF LanguageInv, TagShape
<1>3. /\ taken'.path = taken.path /\ taken'.files = taken.files /\ taken'.lost
      /\ TakenShape'
  BY <1>1 DEF LanguageInv, TakenShape
<1>4. Parsed'
  BY <1>1, PropsStay DEF LanguageInv, Cached
<1>5. Languages'
  BY <1>1, <1>2, <1>3 DEF Languages, Right, Sent
<1> QED
  BY <1>1, <1>2, <1>3, <1>4, <1>5 DEF LanguageInv, Traced, Cached

LEMMA LookKeeps ==
  ASSUME LanguageInv, StatsTypeOK, Look
  PROVE  LanguageInv'
<1>1. /\ look.phase # "idle" /\ look'.phase # "idle"
      /\ lang' = lang /\ auto_update' = auto_update /\ tag' = tag /\ taken' = taken
  BY LookSets DEF Look
<1>2. Parsed' = Parsed /\ Sent' = Sent /\ Right' = Right
  BY <1>1 DEF Parsed, Sent, Right, PropsOf, get_props
<1> QED
  BY <1>1, <1>2 DEF LanguageInv, TagShape, TakenShape, Traced, Cached, Languages, Late

LEMMA LookedKeeps ==
  ASSUME LanguageInv, StatsTypeOK, Looked
  PROVE  LanguageInv'
<1>1. /\ look.phase = "origin" /\ look'.phase = "idle" /\ lang' = lang
      /\ auto_update' = auto_update /\ taken' = taken
      /\ tag' = [tag EXCEPT !.init_path = Root,
                            !.language = IF tag.init_path = Root THEN @
                                         ELSE PropsOf(tag.init_path)]
  BY LookSets DEF Looked
<1>2. tag.cached
  BY <1>1 DEF LanguageInv, Cached
<1>3. /\ tag'.cached /\ tag'.init_path = Root /\ tag'.dirty_path = tag.dirty_path
      /\ tag.init_path = Root => tag'.language = tag.language
      /\ tag.init_path # Root => tag'.language = PropsOf(tag.init_path)
      /\ TagShape'
  BY <1>1, <1>2 DEF LanguageInv, TagShape
<1>4. Parsed' = Parsed /\ \A f : PropsOf(f)' = PropsOf(f)
  BY <1>1, PropsStay
<1>5. CASE tag.init_path = Root
  <2>1. Sent' = Sent /\ Right' = Right
    BY <1>1, <1>3, <1>4, <1>5 DEF Sent, Right, PropsOf, get_props
  <2> QED
    BY <1>1, <1>2, <1>3, <1>4, <1>5, <2>1
       DEF LanguageInv, TakenShape, Traced, Cached, Languages, Late
<1>6. CASE tag.init_path # Root
  <2>1. tag.init_path = taken.path /\ taken.path \in taken.files
    BY <1>6 DEF LanguageInv, Traced
  <2>2. tag'.language = PropsOf(taken'.path) /\ taken'.path \in taken'.files
    BY <1>1, <1>3, <1>6, <2>1
  <2>3. PropsOf(taken.path)' = PropsOf(taken'.path)
    BY <1>1 DEF PropsOf, get_props
  <2>4. Sent' /\ Right'
    BY <1>4, <2>2, <2>3 DEF Sent, Right
  <2> QED
    BY <1>1, <1>2, <1>3, <1>4, <2>4
       DEF LanguageInv, TakenShape, Traced, Cached, Languages
<1> QED
  BY <1>5, <1>6

LEMMA OthersKeep ==
  ASSUME LanguageInv, StatsTypeOK,
         Parse \/ User \/ (\E f \in Deletable : FileChanges(f)) \/ UNCHANGED presenceVars
  PROVE  LanguageInv'
<1>1. /\ look' = look /\ session' = session
      /\ auto_update' = auto_update /\ tag' = tag /\ taken' = taken
  BY LookSets DEF Parse, User, FileChanges, presenceVars, statsVars
<1>2. CASE lang' = lang
  <2>1. Parsed' = Parsed /\ Sent' = Sent /\ Right' = Right
    BY <1>1, <1>2 DEF Parsed, Sent, Right, PropsOf, get_props
  <2> QED
    BY <1>1, <2>1 DEF LanguageInv, TagShape, TakenShape, Traced, Cached, Languages, Late
<1>3. CASE lang' # lang
  <2>1. Parse
    BY <1>3 DEF User, FileChanges, presenceVars
  <2>2. ~Parsed
    <3>1. Parsing
      BY <2>1, Zenon DEF Parse, ParseEntry, ParseAborts
    <3> QED
      BY <3>1 DEF Parsing, Parsed
  <2>3. ~tag.cached
    BY <2>2 DEF LanguageInv, Cached
  <2> QED
    BY <1>1, <2>3 DEF LanguageInv, TagShape, TakenShape, Traced, Cached, Languages
<1> QED
  BY <1>2, <1>3

LEMMA LanguageStep ==
  ASSUME LanguageInv, StatsTypeOK, [PresenceNext]_presenceVars
  PROVE  LanguageInv'
<1>1. ASSUME NEW p \in Paths, Construct(p) \/ SetPath(p) PROVE LanguageInv'
  BY <1>1, ConstructKeeps, SetPathKeeps
<1> QED
  BY <1>1, UpdateKeeps, UpdateLostKeeps, LookKeeps, LookedKeeps, OthersKeep
     DEF PresenceNext

\* Whatever paths editors send, whatever their names are, whatever files are deleted
\* and whatever looks the loop and the hooks begin (session.cc:51-90), the small image
\* is that of the last path, as far as LanguageFollows says.
THEOREM PresenceSpeaks == PresenceSpec => []LanguageFollows
<1>1. LanguageInv => LanguageFollows
  <2> SUFFICES ASSUME LanguageInv, look.phase = "idle", session.valid
               PROVE  IF auto_update /\ (taken.path = Root \/ tag.dirty_path # Root)
                      THEN tag.language \in {NoLanguage} \cup {PropsOf(f) : f \in taken.files}
                      ELSE Right
    BY DEF LanguageFollows, Message, Right
  <2>1. tag.cached
    BY DEF LanguageInv, Cached
  <2> QED
    BY <2>1 DEF LanguageInv, Languages, Late, Sent
<1> QED
  BY <1>1, StatsExact, PresenceLooks, LanguageStart, LanguageStep, PTL DEF PresenceSpec

-----------------------------------------------------------------------------
(* The parse of any table.                                                  *)

\* A set of numbers that has 0 and every successor has all.
LEMMA Induction ==
  ASSUME NEW S, 0 \in S, \A n \in Nat : n \in S => n + 1 \in S
  PROVE  Nat \subseteq S
<1> DEFINE R == OpToRel(<, Nat)
           T == Nat \ S
<1>1. SUFFICES ASSUME T # {} PROVE FALSE
  OBVIOUS
<1>2. PICK x \in T : \A y \in T : <<y, x>> \notin R
  <2>1. IsWellFoundedOn(R, Nat) /\ T \subseteq Nat
    BY NatLessThanWellFounded
  <2> HIDE DEF R, T
  <2> QED
    BY <1>1, <2>1, WFMin
<1>3. x # 0 /\ x - 1 \in T
  OBVIOUS
<1>4. <<x - 1, x>> \in R
  BY <1>3 DEF OpToRel
<1> QED
  BY <1>2, <1>3, <1>4

\* g is where a walk from m ends that goes up from every element of B.
Ends(g, A, B, up) == g = [m \in A |-> IF m \in B THEN g[up[m]] ELSE m]

\* A walk that gets lower with every step ends.
LEMMA Descent ==
  ASSUME NEW A, NEW B \in SUBSET A, NEW up \in [B -> A], NEW N \in Nat,
         NEW depth \in [A -> 0..N], \A m \in B : depth[up[m]] < depth[m]
  PROVE  \E g : Ends(g, A, B, up)
<1> DEFINE Near(d) == {m \in A : depth[m] =< d}
           Walk(g, d) == g = [m \in Near(d) |-> IF m \in B THEN g[up[m]] ELSE m]
           S == {d \in Nat : \E g : Walk(g, d)}
<1>1. 0 \in S
  <2>1. \A m \in Near(0) : m \notin B
    OBVIOUS
  <2> HIDE DEF Near
  <2>2. Walk([m \in Near(0) |-> m], 0)
    BY <2>1
  <2> QED
    BY <2>2
<1>2. ASSUME NEW d \in Nat, d \in S PROVE d + 1 \in S
  <2>1. PICK g : Walk(g, d)
    BY <1>2
  <2> DEFINE h == [m \in Near(d + 1) |-> IF m \in B THEN g[up[m]] ELSE m]
  <2>2. \A m \in Near(d + 1) : m \in B => up[m] \in Near(d) /\ up[m] \in Near(d + 1)
    OBVIOUS
  <2>3. Near(d) \subseteq Near(d + 1)
    OBVIOUS
  <2> HIDE DEF Near
  <2>4. \A m \in Near(d) : g[m] = IF m \in B THEN g[up[m]] ELSE m
    BY <2>1, Zenon
  <2>5. \A m \in Near(d) : h[m] = g[m]
    BY <2>3, <2>4
  <2>6. \A m \in Near(d + 1) : m \in B => g[up[m]] = h[up[m]]
    BY <2>2, <2>5
  <2> HIDE DEF h
  <2>7. h = [m \in Near(d + 1) |-> IF m \in B THEN h[up[m]] ELSE m]
    BY <2>6 DEF h
  <2>8. Walk(h, d + 1)
    BY <2>7
  <2> QED
    BY <2>8
<1>3. N \in S
  <2> HIDE DEF S
  <2> QED BY <1>1, <1>2, Induction
<1>4. PICK g : Walk(g, N)
  BY <1>3
<1>5. Near(N) = A
  OBVIOUS
<1> QED
  BY <1>4, <1>5 DEF Ends

\* The walk of find_group ends, because fewer and fewer groups are left.
LEMMA WalkEnds ==
  ASSUME NEW n \in Names \cup Groups
  PROVE  find_group[n] = IF n \in Names /\ Entry[n].group # ""
                         THEN find_group[Entry[n].group] ELSE n
<1> DEFINE A == Names \cup Groups
           B == {m \in Names : Entry[m].group # ""}
           up == [m \in B |-> Entry[m].group]
           Eq(f) == f = [m \in A |-> IF m \in Names /\ Entry[m].group # ""
                                     THEN f[Entry[m].group] ELSE m]
<1>1. up \in [B -> A]
  <2> SUFFICES ASSUME NEW m \in Names, Entry[m].group # "" PROVE Entry[m].group \in Groups
    OBVIOUS
  <2>1. PICK k \in DOMAIN Table : Table[k].name = m
    BY DEF Names
  <2>2. \E j \in DOMAIN Table : Entry[m] = Table[j]
    BY <2>1 DEF Entry
  <2> QED
    BY <2>2 DEF Groups
<1>2. Len(Table) \in Nat
  <2>1. \A T, R : T \in Seq(R) => Len(T) \in Nat
    OBVIOUS
  <2> QED
    BY <2>1, TableAssumption, Zenon
<1>3. Depth \in [A -> 0..Len(Table)] /\ \A m \in B : Depth[up[m]] < Depth[m]
  BY TableAssumption
<1>4. PICK g : Ends(g, A, B, up)
  <2>1. B \in SUBSET A
    OBVIOUS
  <2> HIDE DEF A, B, up
  <2> QED
    BY <1>1, <1>2, <1>3, <2>1, Descent
<1>5. Eq(g)
  <2>1. \A m \in A : (IF m \in B THEN g[up[m]] ELSE m)
                     = IF m \in Names /\ Entry[m].group # "" THEN g[Entry[m].group] ELSE m
    OBVIOUS
  <2> HIDE DEF B, up
  <2> QED
    BY <1>4, <2>1 DEF Ends
<1>6. find_group = CHOOSE f : Eq(f)
  BY Zenon DEF find_group
<1>7. Eq(find_group)
  <2> HIDE DEF Eq
  <2> QED BY <1>5, <1>6
<1> QED
  BY <1>7, Zenon

\* What the table has under a name is the entry of that name.
LEMMA EntryOf ==
  ASSUME NEW k \in DOMAIN Table
  PROVE  /\ Table[k].name \in Names /\ Entry[Table[k].name] = Table[k]
         /\ Table[k].name # NoLanguage
         /\ Table[k].group = "" \/ ~Table[k].color
         /\ Table[k].color \in BOOLEAN
<1>1. Table[k].name \in Names
  BY DEF Names
<1>2. \A j \in DOMAIN Table : Table[j].name = Table[k].name => j = k
  BY TableAssumption
<1>3. Entry[Table[k].name] = Table[CHOOSE j \in DOMAIN Table : Table[j].name = Table[k].name]
  BY <1>1 DEF Entry
<1>4. (CHOOSE j \in DOMAIN Table : Table[j].name = Table[k].name) = k
  BY <1>2
<1>5. Table[k].color \in BOOLEAN
  <2>1. \A R, T : \A j \in DOMAIN T : T \in Seq(R) => T[j] \in R
    OBVIOUS
  <2>2. Table[k] \in [name : STRING, group : STRING, color : BOOLEAN, exts : SUBSET STRING]
    BY <2>1, TableAssumption, Zenon
  <2> QED
    BY <2>2
<1> QED
  BY <1>1, <1>3, <1>4, <1>5, TableAssumption

\* An entry is skipped when it cannot be drawn; one that is not is of a colour
\* that the table has.
LEMMA SkippedNotDrawable ==
  ASSUME NEW k \in DOMAIN Table, lang.added = {}
  PROVE  /\ Skipped(Table[k]) <=> ~Drawable(Table[k])
         /\ Drawable(Table[k]) => find_group[Table[k].name] \in Painted
<1> DEFINE v == Table[k]
<1>1. v.name \in Names /\ Entry[v.name] = v /\ (v.group = "" \/ ~v.color)
  BY EntryOf
<1>2. v.group = "" => find_group[v.name] = v.name
  BY <1>1, WalkEnds
<1>3. v.group = "" => (v.name \in Painted <=> v.color)
  BY <1>1 DEF Painted
<1> QED
  BY <1>1, <1>2, <1>3 DEF Skipped, Drawable

\* The parse: nothing is added to the colours, and the place is one of the table.
ParseInv ==
  /\ lang = [next |-> lang.next, aborted |-> lang.aborted, added |-> {},
             extension_map |-> lang.extension_map]
  /\ lang.next \in 1..(Len(Table) + 1) /\ lang.aborted \in BOOLEAN
  /\ lang.extension_map \in [Extensions -> Names \cup {NoLanguage}]
  /\ FirstDrawableWins

\* The first place of a set of places.
LEMMA FirstPlace ==
  ASSUME NEW T, T \subseteq Nat, T # {}
  PROVE  LET k == CHOOSE i \in T : \A j \in T : i =< j
         IN  k \in T /\ \A j \in T : k =< j
<1>1. PICK k \in T : \A j \in T : <<j, k>> \notin OpToRel(<, Nat)
  BY WFMin, NatLessThanWellFounded, Zenon
<1>2. ASSUME NEW j \in T PROVE k =< j
  <2>1. j \in Nat /\ k \in Nat
    OBVIOUS
  <2>2. j < k => <<j, k>> \in OpToRel(<, Nat)
    BY <2>1 DEF OpToRel
  <2>3. ~(j < k)
    BY <1>1, <2>2, Zenon
  <2> QED
    BY <2>1, <2>3
<1> QED
  BY <1>2

\* The places read so far that take x, and what the first of them gives it.
Read(x, n) == {k \in Takers[x] : k < n}
First(T) == CHOOSE i \in T : \A j \in T : i =< j
Given(x, n) == IF Read(x, n) = {} THEN NoLanguage ELSE Table[First(Read(x, n))].name

LEMMA TakersPlaces ==
  ASSUME NEW x \in Extensions
  PROVE  /\ Takers[x] = {k \in DOMAIN Table : x \in Table[k].exts /\ Drawable(Table[k])}
         /\ \A n : Read(x, n) \subseteq DOMAIN Table /\ Read(x, n) \subseteq Nat
         /\ DOMAIN Table = 1..Len(Table) /\ Len(Table) \in Nat
<1>1. \A R, T : T \in Seq(R) => DOMAIN T = 1..Len(T) /\ Len(T) \in Nat
  OBVIOUS
<1>2. DOMAIN Table = 1..Len(Table) /\ Len(Table) \in Nat
  BY <1>1, TableAssumption, Zenon
<1> QED
  BY <1>2 DEF Takers, Read

\* One more entry is read.
LEMMA GivenNext ==
  ASSUME NEW x \in Extensions, NEW n \in DOMAIN Table
  PROVE  Given(x, n + 1) = IF n \in Takers[x] /\ Given(x, n) = NoLanguage
                           THEN Table[n].name ELSE Given(x, n)
<1>1. n \in Nat /\ Read(x, n) \subseteq Nat /\ Read(x, n + 1) \subseteq Nat
  BY TakersPlaces
<1>2. Read(x, n) \subseteq DOMAIN Table /\ Takers[x] \subseteq Nat
  BY TakersPlaces
<1>3. Read(x, n + 1) = Read(x, n) \cup {k \in Takers[x] : k = n}
  BY <1>1, <1>2 DEF Read
<1>4. CASE n \notin Takers[x]
  <2>1. Read(x, n + 1) = Read(x, n)
    BY <1>3, <1>4
  <2> QED
    BY <1>4, <2>1 DEF Given
<1>5. CASE n \in Takers[x] /\ Read(x, n) = {}
  <2>1. Read(x, n + 1) = {n}
    BY <1>3, <1>5
  <2>2. First({n}) = n
    BY <1>1 DEF First
  <2> QED
    BY <1>5, <2>1, <2>2 DEF Given
<1>6. CASE n \in Takers[x] /\ Read(x, n) # {}
  <2> DEFINE k == First(Read(x, n))
             l == First(Read(x, n + 1))
  <2>1. k \in Read(x, n) /\ \A j \in Read(x, n) : k =< j
    BY <1>1, <1>6, FirstPlace DEF First
  <2>2. l \in Read(x, n + 1) /\ \A j \in Read(x, n + 1) : l =< j
    BY <1>1, <1>3, <1>6, FirstPlace DEF First
  <2> HIDE DEF k, l
  <2>3. k < n /\ k \in Nat /\ l \in Nat
    BY <1>1, <2>1, <2>2 DEF Read
  <2>4. l = k
    BY <1>1, <1>3, <2>1, <2>2, <2>3
  <2>5. Table[k].name # NoLanguage
    BY <1>2, <2>1, EntryOf
  <2> QED
    BY <1>3, <1>6, <2>4, <2>5 DEF Given, k, l
<1> QED
  BY <1>4, <1>5, <1>6

LEMMA ParseStarts == LanguageInit => ParseInv
<1> SUFFICES ASSUME LanguageInit PROVE ParseInv
  OBVIOUS
<1>1. /\ lang = [next |-> 1, aborted |-> FALSE, added |-> {},
                 extension_map |-> [x \in Extensions |-> NoLanguage]]
  BY DEF LanguageInit
<1>2. \A x \in Extensions : Read(x, 1) = {} /\ Len(Table) \in Nat
  BY TakersPlaces DEF Read
<1>3. Len(Table) \in Nat
  <2>1. \A R, T : T \in Seq(R) => Len(T) \in Nat
    OBVIOUS
  <2> QED
    BY <2>1, TableAssumption, Zenon
<1>4. FirstDrawableWins
  BY <1>1, <1>2 DEF FirstDrawableWins, Read
<1>5. /\ lang.next = 1 /\ lang.aborted = FALSE /\ lang.added = {}
      /\ lang.extension_map = [x \in Extensions |-> NoLanguage]
  BY <1>1
<1>6. lang.extension_map \in [Extensions -> Names \cup {NoLanguage}]
  BY <1>5
<1>7. 1 \in 1..(Len(Table) + 1)
  BY <1>3
<1> QED
  BY <1>1, <1>4, <1>5, <1>6, <1>7 DEF ParseInv

LEMMA ParseKeeps ==
  ASSUME ParseInv, ParseEntry \/ ParseAborts
  PROVE  ParseInv'
<1> DEFINE n == lang.next
           v == Table[n]
           map == lang.extension_map
<1>1. /\ lang = [next |-> n, aborted |-> lang.aborted, added |-> {}, extension_map |-> map]
      /\ map \in [Extensions -> Names \cup {NoLanguage}] /\ lang.aborted \in BOOLEAN
      /\ n \in 1..(Len(Table) + 1) /\ lang.added = {}
      /\ \A x \in Extensions : map[x] = Given(x, n)
  BY DEF ParseInv, FirstDrawableWins, Given, Read, First
<1>2. n \in DOMAIN Table
  BY DEF ParseEntry, ParseAborts, Parsing
<1>3. DOMAIN Table = 1..Len(Table) /\ Len(Table) \in Nat
  <2>1. \A R, T : T \in Seq(R) => DOMAIN T = 1..Len(T) /\ Len(T) \in Nat
    OBVIOUS
  <2> QED
    BY <2>1, TableAssumption, Zenon
<1>4. CASE ParseAborts
  <2>1. lang' = [next |-> n, aborted |-> TRUE, added |-> {}, extension_map |-> map]
    BY <1>1, <1>4 DEF ParseAborts
  <2> QED
    BY <1>1, <2>1 DEF ParseInv, FirstDrawableWins, Given, Read, First
<1>5. ASSUME ParseEntry PROVE ParseInv'
  <2>1. v.name \in Names
    BY <1>2, EntryOf
  <2>2. PICK m :
          /\ lang' = [next |-> n + 1, aborted |-> lang.aborted, added |-> {},
                      extension_map |-> m]
          /\ m \in [Extensions -> Names \cup {NoLanguage}]
          /\ \A x \in Extensions : m[x] = IF n \in Takers[x] /\ map[x] = NoLanguage
                                          THEN v.name ELSE map[x]
    <3>1. CASE Skipped(v)
      <4>1. lang' = [lang EXCEPT !.next = n + 1]
        BY <1>5, <3>1 DEF ParseEntry
      <4>2. lang' = [next |-> n + 1, aborted |-> lang.aborted, added |-> {},
                     extension_map |-> map]
        BY <1>1, <4>1
      <4>3. \A x \in Extensions : n \notin Takers[x]
        BY <1>1, <1>2, <3>1, SkippedNotDrawable, TakersPlaces
      <4> QED
        BY <1>1, <4>2, <4>3
    <3>2. CASE ~Skipped(v)
      <4> DEFINE e == Extended(v)
                 a == lang.added \cup ({find_group[v.name]} \ Painted)
      <4>1. lang' = [lang EXCEPT !.next = n + 1, !.added = a, !.extension_map = e]
        BY <1>5, <3>2 DEF ParseEntry
      <4>2. a = {} /\ Drawable(v)
        BY <1>1, <1>2, <3>2, SkippedNotDrawable
      <4>3. e = [x \in Extensions |-> IF x \in v.exts /\ map[x] = NoLanguage
                                      THEN v.name ELSE map[x]]
        BY DEF Extended
      <4> HIDE DEF a, e
      <4>4. lang' = [next |-> n + 1, aborted |-> lang.aborted, added |-> {},
                     extension_map |-> e]
        BY <1>1, <4>1, <4>2
      <4>5. \A x \in Extensions : n \in Takers[x] <=> x \in v.exts
        BY <1>2, <4>2, TakersPlaces
      <4>6. e \in [Extensions -> Names \cup {NoLanguage}]
        BY <1>1, <2>1, <4>3
      <4>7. \A x \in Extensions : e[x] = IF n \in Takers[x] /\ map[x] = NoLanguage
                                         THEN v.name ELSE map[x]
        BY <4>3, <4>5
      <4> QED
        BY <4>4, <4>6, <4>7, Zenon
    <3> QED
      BY <3>1, <3>2
  <2>3. \A x \in Extensions : m[x] = Given(x, n + 1)
    BY <1>1, <1>2, <2>2, GivenNext
  <2>4. /\ lang'.next = n + 1 /\ lang'.aborted = lang.aborted /\ lang'.extension_map = m
        /\ lang' = [next |-> lang'.next, aborted |-> lang'.aborted, added |-> {},
                    extension_map |-> lang'.extension_map]
    BY <2>2
  <2>5. FirstDrawableWins'
    BY <2>3, <2>4 DEF FirstDrawableWins, Given, Read, First
  <2> QED
    BY <1>1, <1>2, <1>3, <2>2, <2>4, <2>5 DEF ParseInv
<1> QED
  BY <1>4, <1>5

\* A colour of the table for every language that has an extension.
LEMMA ParseColours == ParseInv => ColoursNotEmpty
<1> SUFFICES ASSUME ParseInv, NEW x \in Extensions, lang.extension_map[x] # NoLanguage
             PROVE  find_group[lang.extension_map[x]] \in Painted
  BY DEF ColoursNotEmpty
<1> DEFINE n == lang.next
           k == First(Read(x, n))
<1>1. lang.extension_map[x] = Given(x, n)
  BY DEF ParseInv, FirstDrawableWins, Given, Read, First
<1>2. Read(x, n) # {} /\ lang.extension_map[x] = Table[k].name
  BY <1>1 DEF Given
<1>3. k \in Read(x, n)
  BY <1>2, TakersPlaces, FirstPlace DEF First
<1>4. k \in DOMAIN Table /\ Drawable(Table[k])
  BY <1>3, TakersPlaces DEF Read
<1>5. lang.added = {}
  BY DEF ParseInv
<1> HIDE DEF k
<1> QED
  BY <1>2, <1>4, <1>5, SkippedNotDrawable

\* The types that the parse and the paths keep.
TagType == [cached : BOOLEAN, dirty_path : Paths, init_path : Paths,
            language : Names \cup {NoLanguage}]
TakenType == [path : Paths, files : SUBSET Files, opened : BOOLEAN, lost : BOOLEAN]

TypeInv ==
  /\ ParseInv /\ auto_update \in BOOLEAN /\ missing \subseteq Deletable
  /\ tag \in TagType /\ taken \in TakenType

LEMMA PropsTyped ==
  ASSUME ParseInv, NEW p
  PROVE  PropsOf(p) \in Names \cup {NoLanguage}
BY DEF PropsOf, get_props, ParseInv

LEMMA TypeStart == PresenceInit => TypeInv
BY ParseStarts DEF PresenceInit, TypeInv, TagType, TakenType, Paths

LEMMA TypeStep ==
  ASSUME TypeInv, StatsTypeOK, [PresenceNext]_presenceVars
  PROVE  TypeInv'
<1>1. /\ ParseInv /\ auto_update \in BOOLEAN /\ missing \subseteq Deletable
      /\ tag \in TagType /\ taken \in TakenType
      /\ Root \in Paths /\ \A p : PropsOf(p) \in Names \cup {NoLanguage}
  BY PropsTyped DEF TypeInv, Paths
<1>2. (lang' = lang) => ParseInv'
  BY <1>1 DEF ParseInv, FirstDrawableWins
<1>3. ASSUME Parse PROVE TypeInv'
  <2>1. /\ ParseInv'
        /\ auto_update' = auto_update /\ missing' = missing /\ tag' = tag /\ taken' = taken
    BY <1>1, <1>3, ParseKeeps DEF Parse
  <2> QED
    BY <1>1, <2>1 DEF TypeInv
<1>4. ASSUME NEW p \in Paths, Take(p) PROVE taken' \in TakenType
  <2>1. (~tag.cached) \in BOOLEAN /\ taken.files \cup ({p} \ {Root}) \in SUBSET Files
    BY <1>1 DEF TagType, TakenType, Paths
  <2> QED
    BY <1>4, <2>1 DEF Take, TakenType
<1>5. ASSUME NEW p \in Paths, Construct(p) PROVE TypeInv'
  <2>1. /\ lang' = lang /\ auto_update' = auto_update /\ missing' = missing /\ Take(p)
        /\ tag' = [tag EXCEPT !.cached = TRUE, !.init_path = p]
    BY <1>5 DEF Construct
  <2>2. tag' \in TagType
    BY <1>1, <2>1 DEF TagType
  <2> QED
    BY <1>1, <1>2, <1>4, <2>1, <2>2 DEF TypeInv
<1>6. ASSUME NEW p \in Paths, SetPath(p) PROVE TypeInv'
  <2>1. /\ lang' = lang /\ auto_update' = auto_update /\ missing' = missing /\ Take(p)
        /\ tag' = UpdatePath(p)
    BY <1>6 DEF SetPath
  <2>2. UpdatePath(p) \in TagType
    BY <1>1 DEF UpdatePath, TagType
  <2> QED
    BY <1>1, <1>2, <1>4, <2>1, <2>2 DEF TypeInv
<1>7. ASSUME Update \/ UpdateLost PROVE TypeInv'
  <2>1. /\ lang' = lang /\ auto_update' = auto_update /\ missing' = missing
        /\ \/ tag' = [tag EXCEPT !.init_path = tag.dirty_path, !.dirty_path = Root]
           \/ tag' = [tag EXCEPT !.language = NoLanguage]
        /\ taken' = taken \/ taken' = [taken EXCEPT !.lost = TRUE]
    BY <1>7 DEF Update, UpdateLost
  <2>2. tag' \in TagType /\ taken' \in TakenType
    BY <1>1, <2>1 DEF TagType, TakenType
  <2> QED
    BY <1>1, <1>2, <2>1, <2>2 DEF TypeInv
<1>8. ASSUME Looked PROVE TypeInv'
  <2>1. /\ lang' = lang /\ auto_update' = auto_update /\ missing' = missing
        /\ taken' = taken
        /\ tag' = [tag EXCEPT !.init_path = Root,
                              !.language = IF tag.init_path = Root THEN tag.language
                                           ELSE PropsOf(tag.init_path)]
    BY <1>8 DEF Looked
  <2>2. tag' \in TagType
    BY <1>1, <2>1 DEF TagType
  <2> QED
    BY <1>1, <1>2, <2>1, <2>2 DEF TypeInv
<1>9. ASSUME NEW f \in Deletable, FileChanges(f) PROVE TypeInv'
  <2>1. /\ lang' = lang /\ auto_update' = auto_update /\ tag' = tag /\ taken' = taken
        /\ missing' \subseteq Deletable
    BY <1>1, <1>9 DEF FileChanges
  <2> QED
    BY <1>1, <1>2, <2>1 DEF TypeInv
<1>10. ASSUME Look \/ User \/ UNCHANGED presenceVars PROVE TypeInv'
  <2>1. /\ lang' = lang /\ auto_update' = auto_update /\ missing' = missing
        /\ tag' = tag /\ taken' = taken
    BY <1>10 DEF Look, User, presenceVars
  <2> QED
    BY <1>1, <1>2, <2>1 DEF TypeInv
<1> QED
  BY <1>3, <1>5, <1>6, <1>7, <1>8, <1>9, <1>10 DEF PresenceNext

\* Whatever a table of languages says, as long as no language has both a group
\* and a colour and no group is in itself: of the languages read so far the first
\* that can be drawn has the extension, and its colour is one of the table
\* (language.cc:45-68); and every member keeps its type.
THEOREM ParsedRight ==
  PresenceSpec => [](PresenceTypeOK /\ FirstDrawableWins /\ ColoursNotEmpty)
<1>1. TypeInv => FirstDrawableWins /\ ColoursNotEmpty
  BY ParseColours DEF TypeInv, ParseInv
<1>2. TypeInv /\ StatsTypeOK => PresenceTypeOK
  <2> SUFFICES ASSUME TypeInv, StatsTypeOK PROVE PresenceTypeOK
    OBVIOUS
  <2>1. lang \in [next : 1..(Len(Table) + 1), aborted : BOOLEAN,
                  added : SUBSET (Names \cup Groups),
                  extension_map : [Extensions -> Names \cup {NoLanguage}]]
    BY DEF TypeInv, ParseInv
  <2> QED
    BY <2>1 DEF TypeInv, TagType, TakenType, PresenceTypeOK
<1> QED
  BY <1>1, <1>2, StatsExact, PresenceLooks, TypeStart, TypeStep, PTL DEF PresenceSpec

=============================================================================
