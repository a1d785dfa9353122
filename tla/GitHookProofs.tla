--------------------------- MODULE GitHookProofs ---------------------------
(***************************************************************************)
(* Proofs about GitHook: what strip and implant make of the text of a hook  *)
(* file, whatever its length, and what the Sessions of any number of        *)
(* processes leave in the files of the user.                                *)
(***************************************************************************)
EXTENDS GitHook, GitProofs, WellFoundedInduction, FiniteSetTheorems

-----------------------------------------------------------------------------
(* Induction, with sets in place of predicates.                             *)

\* A set of numbers that has 0 and every successor has all.
LEMMA Induction ==
  ASSUME NEW S, 0 \in S, \A n \in Nat : n \in S => n + 1 \in S
  PROVE  Nat \subseteq S
<1> DEFINE R == OpToRel(<, Nat)
           T == Nat \ S
<1>1. SUFFICES ASSUME T # {} PROVE FALSE
  OBVIOUS
<1>2. PICK x \in T : \A y \in T : <<y, x>> \notin R
  <2>1. IsWellFoundedOn(R, Nat) /\ T \subseteq Nat
    BY NatLessThanWellFounded
  <2> HIDE DEF R, T
  <2> QED
    BY <1>1, <2>1, WFMin
<1>3. x # 0 /\ x - 1 \in T
  OBVIOUS
<1>4. <<x - 1, x>> \in R
  BY <1>3 DEF OpToRel
<1> QED
  BY <1>2, <1>3, <1>4

\* A set of texts that has the empty one and everything appended has all.
LEMMA TextInduction ==
  ASSUME NEW L, NEW P, <<>> \in P,
         \A f \in Seq(L), x \in L : f \in P => Append(f, x) \in P
  PROVE  Seq(L) \subseteq P
<1> DEFINE S == {n \in Nat : \A f \in Seq(L) : Len(f) = n => f \in P}
<1>1. 0 \in S
  OBVIOUS
<1>2. ASSUME NEW n \in Nat, n \in S PROVE n + 1 \in S
  <2> SUFFICES ASSUME NEW f \in Seq(L), Len(f) = n + 1 PROVE f \in P
    OBVIOUS
  <2> DEFINE e == SubSeq(f, 1, n)
  <2>1. e \in Seq(L) /\ Len(e) = n /\ f[n + 1] \in L /\ f = Append(e, f[n + 1])
    OBVIOUS
  <2>2. e \in P
    BY <1>2, <2>1
  <2> HIDE DEF e
  <2> QED
    BY <2>1, <2>2
<1>3. Nat \subseteq S
  <2> HIDE DEF S
  <2> QED BY <1>1, <1>2, Induction
<1> QED
  BY <1>3

\* The functions that a first value and a step define, for N steps.
Steps(N, T) == [1..N -> [T -> T]]
Runs(N, T, t, step) ==
  {g \in [0..N -> T] : g[0] = t /\ \A n \in 1..N : g[n] = step[n][g[n - 1]]}

\* There is one.
LEMMA Recursion ==
  ASSUME NEW N \in Nat, NEW T, NEW t \in T, NEW step \in Steps(N, T)
  PROVE  Runs(N, T, t, step) # {}
<1> DEFINE Run(g, m) == /\ g \in [0..m -> T]
                        /\ g[0] = t
                        /\ \A n \in 1..m : g[n] = step[n][g[n - 1]]
           S == {m \in Nat : m =< N => \E g : Run(g, m)}
<1>1. 0 \in S
  <2>1. Run([n \in 0..0 |-> t], 0)
    OBVIOUS
  <2> QED
    BY <2>1
<1>2. ASSUME NEW m \in Nat, m \in S PROVE m + 1 \in S
  <2> SUFFICES ASSUME m + 1 =< N PROVE \E g : Run(g, m + 1)
    OBVIOUS
  <2>1. PICK g : Run(g, m)
    BY <1>2
  <2> DEFINE v == step[m + 1][g[m]]
             h == [n \in 0..(m + 1) |-> IF n = m + 1 THEN v ELSE g[n]]
  <2>2. v \in T
    BY <2>1 DEF Steps
  <2>3. h \in [0..(m + 1) -> T] /\ h[0] = t
    BY <2>1, <2>2
  <2>4. ASSUME NEW n \in 1..(m + 1) PROVE h[n] = step[n][h[n - 1]]
    <3>1. CASE n = m + 1
      <4>1. h[m + 1] = v /\ h[m] = g[m] /\ n - 1 = m
        BY <3>1
      <4> HIDE DEF h
      <4> QED
        BY <3>1, <4>1
    <3>2. CASE n # m + 1
      <4>1. n \in 1..m /\ n - 1 \in 0..m
        BY <3>2
      <4>2. h[n] = g[n] /\ h[n - 1] = g[n - 1]
        BY <4>1
      <4> HIDE DEF h
      <4> QED
        BY <2>1, <4>1, <4>2
    <3> QED
      BY <3>1, <3>2
  <2> QED
    BY <2>3, <2>4
<1>3. N \in S
  <2> HIDE DEF S
  <2> QED BY <1>1, <1>2, Induction
<1>4. PICK g : Run(g, N)
  BY <1>3
<1> QED
  BY <1>4 DEF Runs

\* The run of one more step begins with the run.
LEMMA LongerRun ==
  ASSUME NEW N \in Nat, NEW T, NEW t \in T,
         NEW step \in Steps(N, T), NEW more \in Steps(N + 1, T),
         \A n \in 1..N : more[n] = step[n],
         NEW g \in Runs(N, T, t, step), NEW h \in Runs(N + 1, T, t, more)
  PROVE  g[N] \in T /\ h[N + 1] = more[N + 1][g[N]]
<1> DEFINE S == {m \in Nat : m =< N => h[m] = g[m]}
<1>1. /\ g \in [0..N -> T] /\ g[0] = t /\ \A n \in 1..N : g[n] = step[n][g[n - 1]]
      /\ h[0] = t /\ \A n \in 1..(N + 1) : h[n] = more[n][h[n - 1]]
  BY DEF Runs
<1>2. 0 \in S
  BY <1>1
<1>3. ASSUME NEW m \in Nat, m \in S PROVE m + 1 \in S
  <2> SUFFICES ASSUME m + 1 =< N PROVE h[m + 1] = g[m + 1]
    OBVIOUS
  <2>1. m + 1 \in 1..N /\ m + 1 \in 1..(N + 1) /\ (m + 1) - 1 = m
    OBVIOUS
  <2>2. h[m] = g[m]
    BY <1>3
  <2> QED
    BY <1>1, <2>1, <2>2
<1>4. N \in S
  <2> HIDE DEF S
  <2> QED BY <1>2, <1>3, Induction
<1>5. N + 1 \in 1..(N + 1) /\ (N + 1) - 1 = N
  OBVIOUS
<1> QED
  BY <1>1, <1>4, <1>5

-----------------------------------------------------------------------------
(* The loop over the lines.                                                 *)

State == [write : BOOLEAN, out : Seq(Lines)]
Start == [write |-> TRUE, out |-> <<>>]

\* The states that the loop over f goes through.
Passes(f) ==
  LET pass[n \in 0..Len(f)] ==
        IF n = 0 THEN [write |-> TRUE, out |-> <<>>] ELSE StripLine(pass[n - 1], f[n])
  IN  pass

Passed(f) == Passes(f)[Len(f)]

Turned(f) == [n \in 1..Len(f) |-> [t \in State |-> StripLine(t, f[n])]]

LEMMA PassesRun ==
  ASSUME NEW f \in Seq(Lines)
  PROVE  /\ Start \in State /\ Turned(f) \in Steps(Len(f), State)
         /\ Passes(f) \in Runs(Len(f), State, Start, Turned(f))
<1> DEFINE Eq(g) == g = [n \in 0..Len(f) |->
                           IF n = 0 THEN Start ELSE StripLine(g[n - 1], f[n])]
<1>1. Turned(f) \in Steps(Len(f), State) /\ Start \in State /\ Len(f) \in Nat
  <2>1. ASSUME NEW n \in 1..Len(f), NEW t \in State PROVE StripLine(t, f[n]) \in State
    BY DEF StripLine, State
  <2>2. Start \in State
    BY DEF Start, State
  <2> QED
    BY <2>1, <2>2 DEF Steps, Turned
<1>2. PICK g \in Runs(Len(f), State, Start, Turned(f)) : TRUE
  BY <1>1, Recursion
<1>3. \A n \in 0..Len(f) :
        g[n] = IF n = 0 THEN Start ELSE StripLine(g[n - 1], f[n])
  <2>1. g \in [0..Len(f) -> State] /\ g[0] = Start
    BY <1>2 DEF Runs
  <2>2. ASSUME NEW n \in 1..Len(f) PROVE g[n] = StripLine(g[n - 1], f[n])
    <3>1. g[n] = Turned(f)[n][g[n - 1]] /\ g[n - 1] \in State
      BY <1>2, <2>1 DEF Runs
    <3> QED
      BY <3>1 DEF Turned
  <2> QED
    BY <2>1, <2>2
<1>4. Eq(g)
  BY <1>2, <1>3 DEF Runs
<1>5. Passes(f) = CHOOSE h : Eq(h)
  BY DEF Passes, Start
<1>6. Eq(Passes(f))
  <2> HIDE DEF Eq
  <2> QED BY <1>4, <1>5
<1>7. Passes(f) = g
  <2> DEFINE P == Passes(f)
             S == {m \in Nat : m =< Len(f) => P[m] = g[m]}
  <2>1. ASSUME NEW n \in 0..Len(f)
        PROVE  P[n] = IF n = 0 THEN Start ELSE StripLine(P[n - 1], f[n])
    BY <1>6, Zenon
  <2>2. P = [n \in 0..Len(f) |-> P[n]]
    BY <1>6, Zenon
  <2> HIDE DEF P
  <2>3. 0 \in S
    BY <1>1, <1>3, <2>1
  <2>4. ASSUME NEW m \in Nat, m \in S PROVE m + 1 \in S
    BY <1>3, <2>1, <2>4
  <2>5. Nat \subseteq S
    <3> HIDE DEF S
    <3> QED BY <2>3, <2>4, Induction
  <2>6. \A n \in 0..Len(f) : P[n] = g[n]
    BY <2>5
  <2>7. g = [n \in 0..Len(f) |-> g[n]]
    BY <1>2 DEF Runs
  <2>8. P = g
    BY <2>2, <2>6, <2>7
  <2> QED
    BY <2>8 DEF P
<1> QED
  BY <1>1, <1>2, <1>7

\* The loop over a text with one more line is one turn longer.
LEMMA PassedAppend ==
  ASSUME NEW f \in Seq(Lines), NEW x \in Lines
  PROVE  /\ Passed(<<>>) = Start
         /\ Passed(Append(f, x)) = StripLine(Passed(f), x)
<1> DEFINE h == Append(f, x)
<1>1. /\ h \in Seq(Lines) /\ Len(h) = Len(f) + 1 /\ Len(f) \in Nat
      /\ h[Len(f) + 1] = x
      /\ \A n \in 1..Len(f) : h[n] = f[n]
  OBVIOUS
<1>2. <<>> \in Seq(Lines) /\ Len(<<>>) = 0
  OBVIOUS
<1>3. Passed(<<>>) = Start
  BY <1>2, PassesRun DEF Passed, Runs
<1> HIDE DEF h
<1>4. \A n \in 1..Len(f) : Turned(h)[n] = Turned(f)[n]
  BY <1>1 DEF Turned
<1>5. /\ Passes(f)[Len(f)] \in State
      /\ Passes(h)[Len(f) + 1] = Turned(h)[Len(f) + 1][Passes(f)[Len(f)]]
  <2> DEFINE N == Len(f)
  <2>1. /\ N \in Nat /\ Start \in State
        /\ Turned(f) \in Steps(N, State) /\ Turned(h) \in Steps(N + 1, State)
        /\ Passes(f) \in Runs(N, State, Start, Turned(f))
        /\ Passes(h) \in Runs(N + 1, State, Start, Turned(h))
        /\ \A n \in 1..N : Turned(h)[n] = Turned(f)[n]
    BY <1>1, <1>4, PassesRun
  <2> HIDE DEF N
  <2>2. /\ Passes(f)[N] \in State
        /\ Passes(h)[N + 1] = Turned(h)[N + 1][Passes(f)[N]]
    BY <2>1, LongerRun
  <2> QED
    BY <2>2 DEF N
<1>6. Turned(h)[Len(f) + 1][Passes(f)[Len(f)]] = StripLine(Passes(f)[Len(f)], x)
  BY <1>1, <1>5 DEF Turned
<1> QED
  BY <1>1, <1>3, <1>5, <1>6 DEF Passed, h

\* A text without the program's own lines, but for shebangs.
Plain == UserLines \cup {Shebang}

\* One turn of the loop, outside of a section, at its ends and within.
LEMMA Turns ==
  ASSUME NEW f
  PROVE  /\ \A x \in Plain : StripLine([write |-> TRUE, out |-> f], x)
              = [write |-> TRUE, out |-> Append(f, x)]
         /\ StripLine([write |-> TRUE, out |-> f], Header) = [write |-> FALSE, out |-> f]
         /\ StripLine([write |-> FALSE, out |-> f], "curl") = [write |-> FALSE, out |-> f]
         /\ StripLine([write |-> FALSE, out |-> f], Footer) = [write |-> TRUE, out |-> f]
<1> DEFINE Turn(w, x) == StripLine([write |-> w, out |-> f], x)
<1>1. /\ Header \notin Plain /\ Footer \notin Plain /\ Header # Footer
      /\ "curl" \notin {Header, Footer}
  BY LinesAssumption DEF Plain, Lines, Header, Footer, Shebang
<1>2. \A w, x : Turn(w, x) = [write |-> (w /\ x # Header) \/ x = Footer,
                              out |-> IF w /\ x # Header THEN Append(f, x) ELSE f]
  BY Zenon DEF StripLine
<1>4. \A x \in Plain : Turn(TRUE, x) = [write |-> TRUE, out |-> Append(f, x)]
  BY <1>1, <1>2, Zenon
<1>5. Turn(TRUE, Header) = [write |-> FALSE, out |-> f]
  BY <1>1, <1>2, Zenon
<1>6. Turn(FALSE, "curl") = [write |-> FALSE, out |-> f]
  BY <1>1, <1>2, Zenon
<1>7. Turn(FALSE, Footer) = [write |-> TRUE, out |-> f]
  BY <1>1, <1>2, Zenon
<1> QED
  BY <1>4, <1>5, <1>6, <1>7

\* What is left out is what is between the header and the footer.
THEOREM StripKeeps ==
  ASSUME NEW a \in Seq(Plain), NEW b \in Seq(Plain)
  PROVE  Strip(a) = a /\ Strip(a \o Script \o b) = a \o b
<1>1. /\ Plain \subseteq Lines
      /\ "curl" \in Lines /\ Header \in Lines /\ Footer \in Lines
  BY DEF Plain, Lines
<1>2. Seq(Plain) \subseteq Seq(Lines)
  BY <1>1
<1>3. \A f \in Seq(Lines) : Strip(f) = Passed(f).out
  BY DEF Strip, Passed, Passes
<1>4. \A f \in Seq(Plain) : Passed(f) = [write |-> TRUE, out |-> f]
  <2> DEFINE P == {f \in Seq(Plain) : Passed(f) = [write |-> TRUE, out |-> f]}
  <2>1. <<>> \in P
    <3>1. Passed(<<>>) = Start
      BY <1>1, <1>2, PassedAppend
    <3> QED
      BY <3>1 DEF Start
  <2>2. ASSUME NEW f \in Seq(Plain), NEW x \in Plain, f \in P PROVE Append(f, x) \in P
    <3>1. Passed(Append(f, x)) = StripLine(Passed(f), x)
      BY <1>1, <1>2, PassedAppend
    <3>2. Passed(f) = [write |-> TRUE, out |-> f]
      BY <2>2
    <3>3. Passed(Append(f, x)) = [write |-> TRUE, out |-> Append(f, x)]
      BY <3>1, <3>2, Turns
    <3> QED
      BY <3>3
  <2> HIDE DEF P
  <2>3. Seq(Plain) \subseteq P
    BY <2>1, <2>2, TextInduction
  <2> QED
    BY <2>3 DEF P
<1>5. Passed(a \o Script) = [write |-> TRUE, out |-> a]
  <2> DEFINE a1 == Append(a, Header)
             a2 == Append(a1, "curl")
             a3 == Append(a2, Footer)
  <2>1. a \o Script = a3
    BY <1>1 DEF Script
  <2>2. a \in Seq(Lines) /\ a1 \in Seq(Lines) /\ a2 \in Seq(Lines)
    BY <1>1, <1>2
  <2>3. Passed(a1) = StripLine(Passed(a), Header)
    BY <1>1, <2>2, PassedAppend
  <2>4. Passed(a1) = [write |-> FALSE, out |-> a]
    BY <1>4, <2>3, Turns
  <2> HIDE DEF a1
  <2>5. Passed(a2) = StripLine(Passed(a1), "curl")
    BY <1>1, <2>2, PassedAppend
  <2>6. Passed(a2) = [write |-> FALSE, out |-> a]
    BY <2>4, <2>5, Turns
  <2> HIDE DEF a2
  <2>7. Passed(a3) = StripLine(Passed(a2), Footer)
    BY <1>1, <2>2, PassedAppend
  <2>8. Passed(a3) = [write |-> TRUE, out |-> a]
    BY <2>6, <2>7, Turns
  <2> QED
    BY <2>1, <2>8
<1>6. Script \in Seq(Lines)
  BY <1>1 DEF Script
<1>7. Passed(a \o Script \o b) = [write |-> TRUE, out |-> a \o b]
  <2> DEFINE h == a \o Script
             P == {f \in Seq(Plain) : Passed(h \o f) = [write |-> TRUE, out |-> a \o f]}
  <2>0. h \in Seq(Lines)
    BY <1>2, <1>6
  <2>1. <<>> \in P
    BY <1>5, <1>2, <2>0
  <2> HIDE DEF h
  <2>2. ASSUME NEW f \in Seq(Plain), NEW x \in Plain, f \in P PROVE Append(f, x) \in P
    <3>1. h \o f \in Seq(Lines) /\ h \o Append(f, x) = Append(h \o f, x)
      BY <1>1, <1>2, <2>0
    <3>2. Passed(Append(h \o f, x)) = StripLine(Passed(h \o f), x)
      BY <1>1, <3>1, PassedAppend
    <3>3. a \o Append(f, x) = Append(a \o f, x)
      OBVIOUS
    <3>4. Passed(h \o f) = [write |-> TRUE, out |-> a \o f]
      BY <2>2
    <3>5. Passed(h \o Append(f, x)) = [write |-> TRUE, out |-> a \o Append(f, x)]
      BY <3>1, <3>2, <3>3, <3>4, Turns
    <3>6. Append(f, x) \in Seq(Plain)
      OBVIOUS
    <3> QED
      BY <3>5, <3>6, Zenon
  <2> HIDE DEF P
  <2>3. Seq(Plain) \subseteq P
    BY <2>1, <2>2, TextInduction
  <2> QED
    BY <2>3 DEF P, h
<1>8. a \in Seq(Lines) /\ a \o Script \o b \in Seq(Lines)
  BY <1>2, <1>6
<1>9. Strip(a) = Passed(a).out /\ Passed(a).out = a
  BY <1>3, <1>4, <1>8
<1>10. Strip(a \o Script \o b) = Passed(a \o Script \o b).out
  BY <1>3, <1>8
<1> QED
  BY <1>7, <1>9, <1>10

-----------------------------------------------------------------------------
(* The lines of the user.                                                   *)

\* The user's lines among the first n of f.
Mine(f) ==
  LET mine[n \in 0..Len(f)] ==
        IF n = 0 THEN <<>>
        ELSE IF f[n] \in UserLines THEN Append(mine[n - 1], f[n]) ELSE mine[n - 1]
  IN  mine

Add(t, x) == IF x \in UserLines THEN Append(t, x) ELSE t

Added(f) == [n \in 1..Len(f) |-> [t \in Seq(UserLines) |-> Add(t, f[n])]]

LEMMA MineRun ==
  ASSUME NEW f \in Seq(Lines)
  PROVE  /\ Added(f) \in Steps(Len(f), Seq(UserLines))
         /\ Mine(f) \in Runs(Len(f), Seq(UserLines), <<>>, Added(f))
<1> DEFINE T == Seq(UserLines)
           Eq(g) == g = [n \in 0..Len(f) |-> IF n = 0 THEN <<>> ELSE Add(g[n - 1], f[n])]
<1>1. Added(f) \in Steps(Len(f), T) /\ <<>> \in T /\ Len(f) \in Nat
  <2>1. ASSUME NEW n \in 1..Len(f), NEW t \in T PROVE Add(t, f[n]) \in T
    BY DEF Add
  <2> QED
    BY <2>1 DEF Steps, Added
<1>2. PICK g \in Runs(Len(f), T, <<>>, Added(f)) : TRUE
  <2> HIDE DEF T
  <2> QED BY <1>1, Recursion
<1>3. \A n \in 0..Len(f) : g[n] = IF n = 0 THEN <<>> ELSE Add(g[n - 1], f[n])
  <2>1. g \in [0..Len(f) -> T] /\ g[0] = <<>>
    BY <1>2 DEF Runs
  <2>2. ASSUME NEW n \in 1..Len(f) PROVE g[n] = Add(g[n - 1], f[n])
    <3>1. g[n] = Added(f)[n][g[n - 1]] /\ g[n - 1] \in T
      <4> HIDE DEF T
      <4> QED BY <1>2, <2>1 DEF Runs
    <3> QED
      BY <3>1 DEF Added
  <2> QED
    BY <2>1, <2>2
<1>4. Eq(g)
  BY <1>2, <1>3 DEF Runs
<1>5. Mine(f) = CHOOSE h : Eq(h)
  BY DEF Mine, Add
<1>6. Eq(Mine(f))
  <2> HIDE DEF Eq
  <2> QED BY <1>4, <1>5
<1>7. Mine(f) = g
  <2> DEFINE P == Mine(f)
             S == {m \in Nat : m =< Len(f) => P[m] = g[m]}
  <2>1. ASSUME NEW n \in 0..Len(f)
        PROVE  P[n] = IF n = 0 THEN <<>> ELSE Add(P[n - 1], f[n])
    BY <1>6, Zenon
  <2>2. P = [n \in 0..Len(f) |-> P[n]]
    BY <1>6, Zenon
  <2> HIDE DEF P
  <2>3. 0 \in S
    BY <1>1, <1>3, <2>1
  <2>4. ASSUME NEW m \in Nat, m \in S PROVE m + 1 \in S
    BY <1>3, <2>1, <2>4
  <2>5. Nat \subseteq S
    <3> HIDE DEF S
    <3> QED BY <2>3, <2>4, Induction
  <2>6. \A n \in 0..Len(f) : P[n] = g[n]
    BY <2>5
  <2>7. g = [n \in 0..Len(f) |-> g[n]]
    BY <1>2 DEF Runs
  <2>8. P = g
    BY <2>2, <2>6, <2>7
  <2> QED
    BY <2>8 DEF P
<1> QED
  BY <1>1, <1>2, <1>7

\* One more line is the user's or not.
LEMMA WrittenAppend ==
  ASSUME NEW f \in Seq(Lines), NEW x \in Lines
  PROVE  /\ Written(<<>>) = <<>>
         /\ Written(f) \in Seq(UserLines)
         /\ Written(Append(f, x)) = Add(Written(f), x)
<1> DEFINE h == Append(f, x)
           T == Seq(UserLines)
           N == Len(f)
<1>0. \A e \in Seq(Lines) : Written(e) = Mine(e)[Len(e)]
  BY DEF Written, Mine
<1>1. /\ h \in Seq(Lines) /\ Len(h) = N + 1 /\ N \in Nat
      /\ h[N + 1] = x
      /\ \A n \in 1..N : h[n] = f[n]
  OBVIOUS
<1>2. <<>> \in Seq(Lines) /\ Len(<<>>) = 0 /\ <<>> \in T
  OBVIOUS
<1>3. Written(<<>>) = <<>>
  <2>1. Mine(<<>>)[0] = <<>>
    BY <1>2, MineRun DEF Runs
  <2> QED
    BY <1>0, <1>2, <2>1
<1> HIDE DEF h
<1>4. \A n \in 1..N : Added(h)[n] = Added(f)[n]
  BY <1>1 DEF Added
<1>5. /\ Mine(f)[N] \in T
      /\ Mine(h)[N + 1] = Added(h)[N + 1][Mine(f)[N]]
  <2>1. /\ N \in Nat /\ <<>> \in T
        /\ Added(f) \in Steps(N, T) /\ Added(h) \in Steps(N + 1, T)
        /\ Mine(f) \in Runs(N, T, <<>>, Added(f))
        /\ Mine(h) \in Runs(N + 1, T, <<>>, Added(h))
        /\ \A n \in 1..N : Added(h)[n] = Added(f)[n]
    BY <1>1, <1>2, <1>4, MineRun
  <2> HIDE DEF N, T
  <2> QED
    BY <2>1, LongerRun
<1>6. Added(h)[N + 1][Mine(f)[N]] = Add(Mine(f)[N], x)
  BY <1>1, <1>5 DEF Added
<1>7. Written(f) = Mine(f)[N] /\ Written(h) = Mine(h)[N + 1]
  BY <1>0, <1>1
<1> QED
  BY <1>3, <1>5, <1>6, <1>7 DEF h

\* A line at the end of two texts is at the end of the second.
LEMMA AppendLast ==
  ASSUME NEW L, NEW u \in Seq(L), NEW v \in Seq(L), NEW y \in L
  PROVE  u \o Append(v, y) = Append(u \o v, y)
OBVIOUS

\* What two texts have of the user, one after the other.
LEMMA WrittenConcat ==
  ASSUME NEW f \in Seq(Lines), NEW g \in Seq(Lines)
  PROVE  Written(f \o g) = Written(f) \o Written(g)
<1> DEFINE P == {e \in Seq(Lines) : Written(f \o e) = Written(f) \o Written(e)}
<1>1. <<>> \in P
  <2>1. Written(f) \in Seq(UserLines) /\ Written(<<>>) = <<>>
    <3>1. Header \in Lines
      BY DEF Lines
    <3> QED
      BY <3>1, WrittenAppend
  <2>2. f \o <<>> = f /\ Written(f) \o <<>> = Written(f)
    BY <2>1
  <2> QED
    BY <2>1, <2>2
<1>2. ASSUME NEW e \in Seq(Lines), NEW x \in Lines, e \in P PROVE Append(e, x) \in P
  <2>1. /\ f \o e \in Seq(Lines) /\ Append(e, x) \in Seq(Lines)
        /\ f \o Append(e, x) = Append(f \o e, x)
    OBVIOUS
  <2>2. /\ Written(f) \in Seq(UserLines) /\ Written(e) \in Seq(UserLines)
        /\ Written(Append(e, x)) = Add(Written(e), x)
        /\ Written(Append(f \o e, x)) = Add(Written(f \o e), x)
    BY <2>1, WrittenAppend
  <2>3. Written(f \o e) = Written(f) \o Written(e)
    BY <1>2
  <2>4. Add(Written(f) \o Written(e), x) = Written(f) \o Add(Written(e), x)
    <3>1. ASSUME NEW u \in Seq(UserLines), NEW v \in Seq(UserLines), NEW y \in UserLines
          PROVE  u \o Append(v, y) = Append(u \o v, y)
      BY AppendLast
    <3> QED
      BY <2>2, <3>1 DEF Add
  <2>5. Written(f \o Append(e, x)) = Written(f) \o Written(Append(e, x))
    BY <2>1, <2>2, <2>3, <2>4
  <2> QED
    BY <2>1, <2>5
<1>3. Seq(Lines) \subseteq P
  <2> HIDE DEF P
  <2> QED BY <1>1, <1>2, TextInduction
<1> QED
  BY <1>3

\* Of a line alone, and of the program's own lines.
LEMMA WrittenLines ==
  /\ \A x \in UserLines : Written(<<x>>) = <<x>>
  /\ Written(<<Shebang>>) = <<>> /\ Written(Script) = <<>>
<1>1. /\ UserLines \subseteq Lines /\ Shebang \in Lines
      /\ "curl" \in Lines /\ Header \in Lines /\ Footer \in Lines
      /\ UserLines \cap {Shebang, Header, "curl", Footer} = {}
  BY LinesAssumption DEF Lines
<1>2. \A x \in Lines : Written(<<x>>) = IF x \in UserLines THEN <<x>> ELSE <<>>
  <2> SUFFICES ASSUME NEW x \in Lines
               PROVE  Written(<<x>>) = IF x \in UserLines THEN <<x>> ELSE <<>>
    OBVIOUS
  <2>1. <<>> \in Seq(Lines) /\ Append(<<>>, x) = <<x>>
    OBVIOUS
  <2>2. Written(<<x>>) = Add(<<>>, x)
    BY <2>1, WrittenAppend
  <2> QED
    BY <2>1, <2>2 DEF Add
<1>3. Written(Script) = <<>>
  <2>1. <<Header, "curl">> \in Seq(Lines) /\ Script = Append(<<Header, "curl">>, Footer)
    BY <1>1 DEF Script
  <2>2. <<Header>> \in Seq(Lines) /\ <<Header, "curl">> = Append(<<Header>>, "curl")
    BY <1>1
  <2>3. Written(<<Header>>) = <<>>
    BY <1>1, <1>2
  <2>4. Written(<<Header, "curl">>) = <<>>
    BY <1>1, <2>2, <2>3, WrittenAppend DEF Add
  <2> QED
    BY <1>1, <2>1, <2>4, WrittenAppend DEF Add
<1> QED
  BY <1>1, <1>2, <1>3

-----------------------------------------------------------------------------
(* The shape of a hook file.                                                *)

\* A file without a section, or with one.
Shaped(f) == f \in Seq(Plain) \/ \E a, b \in Seq(Plain) : f = a \o Script \o b

LEMMA PlainLines ==
  /\ Seq(Plain) \subseteq Seq(Lines) /\ Script \in Seq(Lines)
  /\ \A a, b \in Seq(Plain) : a \o b \in Seq(Plain)
  /\ <<>> \in Seq(Plain) /\ <<Shebang>> \in Seq(Plain)
  /\ \A x \in UserLines : <<x>> \in Seq(Plain) /\ x \in Plain /\ x \in Lines
  /\ Absent \notin Seq(Lines) /\ NoHooks \notin Seq(Lines) /\ Absent # NoHooks
<1>1. Plain \subseteq Lines
  BY DEF Plain, Lines
<1>2. Script \in Seq(Lines)
  BY DEF Script, Lines
<1>3. Shebang \in Plain /\ UserLines \subseteq Plain
  BY DEF Plain
<1> QED
  BY <1>1, <1>2, <1>3, LinesAssumption

\* A shaped file is a text.
LEMMA ShapedText ==
  ASSUME NEW f, Shaped(f)
  PROVE  f \in Seq(Lines) /\ f \notin {Absent, NoHooks}
<1>1. ASSUME NEW a \in Seq(Plain), NEW b \in Seq(Plain) PROVE a \o Script \o b \in Seq(Lines)
  BY PlainLines
<1> QED
  BY <1>1, PlainLines DEF Shaped

\* Three texts in a row.
LEMMA WrittenAround ==
  ASSUME NEW a \in Seq(Plain), NEW b \in Seq(Plain)
  PROVE  Written(a \o Script \o b) = Written(a \o b)
<1>1. /\ a \in Seq(Lines) /\ b \in Seq(Lines) /\ Script \in Seq(Lines)
      /\ a \o Script \in Seq(Lines)
  BY PlainLines
<1>2. Written(a \o Script \o b) = (Written(a) \o Written(Script)) \o Written(b)
  BY <1>1, WrittenConcat
<1>3. Written(a) \in Seq(UserLines)
  <2>1. Shebang \in Lines
    BY DEF Lines
  <2> QED
    BY <1>1, <2>1, WrittenAppend
<1>4. Written(a) \o Written(Script) = Written(a)
  BY <1>3, WrittenLines
<1>5. Written(a \o b) = Written(a) \o Written(b)
  BY <1>1, WrittenConcat
<1> QED
  BY <1>2, <1>4, <1>5

\* Stripped, a file has no section and all that the user wrote.
LEMMA StripShape ==
  ASSUME NEW f, Shaped(f)
  PROVE  Strip(f) \in Seq(Plain) /\ Written(Strip(f)) = Written(f)
<1>1. CASE f \in Seq(Plain)
  BY <1>1, StripKeeps
<1>2. ASSUME NEW a \in Seq(Plain), NEW b \in Seq(Plain), f = a \o Script \o b
      PROVE  Strip(f) \in Seq(Plain) /\ Written(Strip(f)) = Written(f)
  <2>1. Strip(f) = a \o b
    BY <1>2, StripKeeps
  <2> QED
    BY <1>2, <2>1, WrittenAround, PlainLines
<1> QED
  BY <1>1, <1>2 DEF Shaped

LEMMA CleanShape ==
  ASSUME NEW f, Shaped(f)
  PROVE  Clean(f) \in Seq(Plain) /\ Written(Clean(f)) = Written(f)
<1>1. Clean(f) = Strip(f)
  BY ShapedText DEF Clean
<1> QED
  BY <1>1, StripShape

LEMMA ImplantShape ==
  ASSUME NEW f, Shaped(f)
  PROVE  Shaped(Implant(f)) /\ Written(Implant(f)) = Written(f)
<1> DEFINE top == IF f = <<>> \/ Head(f) = Shebang THEN <<>> ELSE <<Shebang>>
           a == top \o Strip(f)
<1>1. Implant(f) = a \o Script
  BY ShapedText DEF Implant
<1>2. Strip(f) \in Seq(Plain) /\ Written(Strip(f)) = Written(f)
  BY StripShape
<1>3. top \in {<<>>, <<Shebang>>}
  OBVIOUS
<1>4. top \in Seq(Plain) /\ Written(top) = <<>>
  <2>1. Written(<<>>) = <<>>
    <3>1. Shebang \in Lines /\ <<>> \in Seq(Lines)
      BY DEF Lines
    <3> QED
      BY <3>1, WrittenAppend
  <2> HIDE DEF top
  <2> QED
    BY <1>3, <2>1, PlainLines, WrittenLines
<1> HIDE DEF top
<1>5. a \in Seq(Plain) /\ Written(a) = Written(f)
  <2>1. Written(a) = Written(top) \o Written(Strip(f))
    BY <1>2, <1>4, PlainLines, WrittenConcat
  <2>2. Written(f) \in Seq(UserLines)
    <3>1. Shebang \in Lines
      BY DEF Lines
    <3> QED
      BY <3>1, ShapedText, WrittenAppend
  <2>3. <<>> \o Written(f) = Written(f)
    BY <2>2
  <2> QED
    BY <1>2, <1>4, <2>1, <2>3, PlainLines
<1> HIDE DEF a
<1>6. /\ Implant(f) = a \o Script \o <<>> /\ a \o <<>> = a /\ <<>> \in Seq(Plain)
  BY <1>1, <1>5, PlainLines
<1>7. Written(Implant(f)) = Written(a \o <<>>)
  BY <1>5, <1>6, WrittenAround
<1>8. Shaped(Implant(f))
  BY <1>5, <1>6, Zenon DEF Shaped
<1> QED
  BY <1>5, <1>6, <1>7, <1>8

\* A file that was not there is begun, or comes back empty.
LEMMA AbsentShape ==
  /\ Shaped(Implant(Absent)) /\ Written(Implant(Absent)) = <<>>
  /\ Clean(Absent) \in Seq(Plain) /\ Written(Clean(Absent)) = <<>>
  /\ Implant(NoHooks) = NoHooks /\ Clean(NoHooks) = NoHooks
<1>1. /\ Implant(Absent) = <<Shebang>> \o Script /\ Clean(Absent) = <<>>
      /\ Implant(NoHooks) = NoHooks /\ Clean(NoHooks) = NoHooks
  BY LinesAssumption DEF Implant, Clean
<1>2. Written(<<>>) = <<>>
  <2>1. Shebang \in Lines /\ <<>> \in Seq(Lines)
    BY DEF Lines
  <2> QED
    BY <2>1, WrittenAppend
<1> DEFINE a == <<Shebang>>
<1>3. a \in Seq(Plain) /\ <<>> \in Seq(Plain)
  BY PlainLines
<1> HIDE DEF a
<1>4. Implant(Absent) = a \o Script \o <<>> /\ a \o <<>> = a
  BY <1>1, <1>3, PlainLines DEF a
<1>5. Written(Implant(Absent)) = <<>>
  BY <1>3, <1>4, WrittenAround, WrittenLines DEF a
<1>6. Shaped(Implant(Absent))
  BY <1>3, <1>4, Zenon DEF Shaped
<1> QED
  BY <1>1, <1>2, <1>3, <1>5, <1>6

\* What the user adds is in the file, before the section or after it.
LEMMA UserAdds ==
  ASSUME NEW f, Shaped(f), NEW x \in UserLines
  PROVE  /\ Shaped(Append(f, x)) /\ Written(Append(f, x)) = Append(Written(f), x)
         /\ Shaped(<<x>> \o f) /\ Written(<<x>> \o f) = <<x>> \o Written(f)
<1>1. x \in Lines /\ f \in Seq(Lines) /\ <<x>> \in Seq(Lines) /\ x \in Plain
  BY PlainLines, ShapedText
<1>2. Written(Append(f, x)) = Append(Written(f), x)
  BY <1>1, WrittenAppend DEF Add
<1>3. Written(<<x>> \o f) = <<x>> \o Written(f)
  BY <1>1, WrittenConcat, WrittenLines
<1>4. CASE f \in Seq(Plain)
  <2>1. Append(f, x) \in Seq(Plain) /\ <<x>> \o f \in Seq(Plain)
    BY <1>1, <1>4
  <2> QED
    BY <1>2, <1>3, <2>1 DEF Shaped
<1>5. ASSUME NEW a \in Seq(Plain), NEW b \in Seq(Plain), f = a \o Script \o b
      PROVE  Shaped(Append(f, x)) /\ Shaped(<<x>> \o f)
  <2> DEFINE h == a \o Script
  <2>1. /\ h \in Seq(Lines) /\ b \in Seq(Lines) /\ a \in Seq(Lines)
        /\ Script \in Seq(Lines)
    BY PlainLines
  <2>2. h \o Append(b, x) = Append(h \o b, x)
    <3> HIDE DEF h
    <3> QED BY <1>1, <2>1, AppendLast
  <2>3. <<x>> \o (a \o Script \o b) = (<<x>> \o a) \o Script \o b
    <3> HIDE DEF Script
    <3> QED BY <1>1, <2>1
  <2>4. Append(b, x) \in Seq(Plain) /\ <<x>> \o a \in Seq(Plain)
    BY <1>1
  <2> QED
    BY <1>5, <2>2, <2>3, <2>4 DEF Shaped
<1> QED
  BY <1>2, <1>3, <1>4, <1>5 DEF Shaped

\* The places of two texts, one after the other.
LEMMA TwoTexts ==
  ASSUME NEW L, NEW a \in Seq(L), NEW b \in Seq(L), NEW i \in 1..(Len(a) + Len(b))
  PROVE  /\ DOMAIN (a \o b) = 1..(Len(a) + Len(b))
         /\ (a \o b)[i] = IF i =< Len(a) THEN a[i] ELSE b[i - Len(a)]
<1>1. a \o b \in Seq(L) /\ Len(a \o b) = Len(a) + Len(b)
  OBVIOUS
<1> QED
  BY <1>1

\* Only the script has a header.
LEMMA ShapedSections ==
  ASSUME NEW f, Shaped(f)
  PROVE  /\ Cardinality(Sections(f)) =< 1
         /\ f \in Seq(Plain) => Sections(f) = {}
<1>0. Header \notin Plain /\ "curl" # Header /\ Footer # Header
  BY LinesAssumption DEF Plain, Lines, Header, Footer, Shebang
<1>1. f \in Seq(Plain) => Sections(f) = {}
  BY <1>0 DEF Sections
<1>2. ASSUME NEW a \in Seq(Plain), NEW b \in Seq(Plain), f = a \o Script \o b
      PROVE  Sections(f) \subseteq {Len(a) + 1}
  <2> SUFFICES ASSUME NEW k \in DOMAIN f, f[k] = Header PROVE k = Len(a) + 1
    BY DEF Sections
  <2> DEFINE g == a \o Script
  <2>1. /\ Script \in Seq(Lines) /\ a \in Seq(Lines) /\ b \in Seq(Lines)
        /\ g \in Seq(Lines)
    BY PlainLines
  <2>2. Len(Script) = 3 /\ Script[2] = "curl" /\ Script[3] = Footer
    BY DEF Script
  <2>3. Len(g) = Len(a) + 3
    <3>1. \A h \in Seq(Lines) : Len(a \o h) = Len(a) + Len(h)
      BY <2>1
    <3> QED
      BY <2>1, <2>2, <3>1
  <2>4. k \in 1..(Len(g) + Len(b)) /\ f[k] = IF k =< Len(g) THEN g[k] ELSE b[k - Len(g)]
    <3> HIDE DEF g
    <3>1. f = g \o b
      BY <1>2 DEF g
    <3>2. g \o b \in Seq(Lines) /\ Len(g \o b) = Len(g) + Len(b)
      BY <2>1
    <3>3. k \in 1..(Len(g) + Len(b))
      BY <3>1, <3>2
    <3> QED
      BY <2>1, <3>1, <3>3, TwoTexts
  <2>5. CASE k =< Len(g)
    <3>1. k \in 1..(Len(a) + Len(Script)) /\ f[k] = g[k]
      BY <2>2, <2>3, <2>4, <2>5
    <3>2. g[k] = IF k =< Len(a) THEN a[k] ELSE Script[k - Len(a)]
      BY <2>1, <3>1, TwoTexts
    <3>3. ~(k =< Len(a))
      BY <1>0, <3>1, <3>2
    <3>4. k - Len(a) \in 1..3 /\ Script[k - Len(a)] = Header
      BY <2>2, <3>1, <3>2, <3>3
    <3>5. k - Len(a) = 1
      BY <1>0, <2>2, <3>4
    <3> QED
      BY <3>1, <3>5
  <2>6. CASE ~(k =< Len(g))
    <3>1. k - Len(g) \in 1..Len(b) /\ f[k] = b[k - Len(g)]
      BY <2>3, <2>4, <2>6
    <3>2. b[k - Len(g)] \in Plain
      BY <3>1
    <3> QED
      BY <1>0, <3>1, <3>2
  <2> QED
    BY <2>5, <2>6
<1>3. \A S, x : S \subseteq {x} => Cardinality(S) =< 1
  <2> TAKE S, x
  <2> HAVE S \subseteq {x}
  <2>1. CASE S = {}
    BY <2>1, FS_EmptySet
  <2>2. CASE S = {x}
    BY <2>2, FS_Singleton
  <2> QED
    BY <2>1, <2>2
<1>4. CASE f \in Seq(Plain)
  BY <1>1, <1>3, <1>4
<1> QED
  BY <1>1, <1>2, <1>3, <1>4 DEF Shaped

-----------------------------------------------------------------------------
(* What the methods of Git do to the Session objects.                       *)

\* Only an object in use exists.
Tidy(g) == \A s \in Slots \ Live(g) : g.heap[s] = NoSession

\* From g to q no object changes its hooks.
SameHooks(g, q) == \A s \in Slots : q.heap[s].hooks = g.heap[s].hooks

\* An object that stays changes its hooks when it becomes valid again, or not.
Follows(g, q) ==
  \A s \in Slots : g.heap[s] # NoSession /\ q.heap[s] # NoSession =>
    \/ q.heap[s].hooks = g.heap[s].hooks
    \/ ~g.heap[s].valid /\ q.heap[s].valid

LEMMA ReleaseFollows ==
  ASSUME NEW g, NEW q, Sound(q), Follows(g, q)
  PROVE  Tidy(Release(q)) /\ Follows(g, Release(q))
<1> DEFINE t == Release(q)
<1>1. q \in GitType
  BY DEF Sound, Typed
<1>2. /\ t.sessions = q.sessions /\ t.held = q.held
      /\ t.active_session = q.active_session
      /\ \A s \in Slots : t.heap[s] = IF s \in Live(q) THEN q.heap[s] ELSE NoSession
  BY <1>1 DEF Release, GitType
<1>3. Live(t) = Live(q)
  BY <1>2 DEF Live
<1> HIDE DEF t
<1>4. Tidy(t) /\ Follows(g, t)
  BY <1>2, <1>3 DEF Tidy, Follows
<1> QED
  BY <1>4 DEF t

\* Opening another session, or one that is there.
LEMMA HoldHooks ==
  ASSUME NEW g, Sound(g), NEW c \in g.clients, NEW s \in Slots, g.heap[s] \in Session
  PROVE  SameHooks(g, Hold(g, c, s))
<1> DEFINE x == [g.heap[s] EXCEPT !.parents = g.heap[s].parents \cup {c}]
<1>1. g \in GitType
  BY DEF Sound, Typed
<1>2. x.hooks = g.heap[s].hooks
  BY DEF Session
<1>3. Hold(g, c, s).heap = [g.heap EXCEPT ![s] = x]
  BY <1>1 DEF Hold, GitType
<1> HIDE DEF x
<1> QED
  BY <1>1, <1>2, <1>3 DEF SameHooks, GitType

LEMMA OpenFollows ==
  ASSUME NEW g, Sound(g), Tidy(g), NEW c \in g.clients, NEW r \in Roots,
         NEW s \in Slots \ Live(g)
  PROVE  Follows(g, Open(g, c, r, s))
<1> DEFINE t == Cache(g, c, r, s)
<1>1. g \in GitType
  BY DEF Sound, Typed
<1>2. t.heap = [g.heap EXCEPT ![s] = NewSession(r)]
  BY <1>1 DEF Cache, GitType
<1>3. \A x \in Slots : x # s => t.heap[x] = g.heap[x]
  BY <1>1, <1>2 DEF GitType
<1>4. SameHooks(t, Hold(t, c, s))
  BY CacheSound, HoldHooks
<1>5. g.heap[s] = NoSession
  BY DEF Tidy
<1> HIDE DEF t
<1>6. Follows(g, Hold(t, c, s))
  BY <1>3, <1>4, <1>5 DEF Follows, SameHooks
<1> QED
  BY <1>6 DEF Open, t

LEMMA ReopenFollows ==
  ASSUME NEW g, Sound(g), NEW c \in g.clients, NEW p \in Paths, NEW s \in Live(g)
  PROVE  Follows(g, Reopen(g, c, p, s))
<1> DEFINE t == Revisit(g, c, p, s)
           x == [g.heap[s] EXCEPT !.dirty = p]
<1>1. g \in GitType /\ s \in Slots /\ g.heap[s] \in Session
  BY DEF Sound, Typed, Live
<1>2. x.hooks = g.heap[s].hooks
  BY <1>1 DEF Session
<1>3. t.heap = [g.heap EXCEPT ![s] = x]
  BY <1>1 DEF Revisit, GitType
<1> HIDE DEF x
<1>4. SameHooks(g, t)
  BY <1>1, <1>2, <1>3 DEF SameHooks, GitType
<1>5. SameHooks(t, Hold(t, c, s))
  BY <1>1, RevisitSound, HoldHooks
<1> HIDE DEF t
<1>6. SameHooks(g, Hold(t, c, s))
  BY <1>4, <1>5 DEF SameHooks
<1> QED
  BY <1>6 DEF Reopen, t, SameHooks, Follows

LEMMA ChangeGitFollows ==
  ASSUME NEW g, Sound(g), Tidy(g), NEW fs \in FileSystem, NEW c \in Ids,
         NEW p \in Paths, NEW s \in Slots \ Live(g)
  PROVE  LET q == ChangeGit(g, fs, c, p, s)
         IN  Tidy(q) /\ Follows(g, q)
<1> DEFINE t == Track(g, c)
           r == Discover(fs, p)
           n == Home[r]
           q == ChangeGit(g, fs, c, p, s)
<1>1. Sound(t) /\ c \in t.clients
  BY TrackSound
<1>2. Live(t) = Live(g) /\ t.heap = g.heap
  BY DEF Track, Live, Sound, Typed, GitType
<1>3. r \in Roots \cup {Null} /\ (r \in Roots => n \in Roots)
  BY DiscoverFinds, HomeAssumption
<1>4. t \in GitType /\ Tidy(t)
  BY <1>1, <1>2 DEF Sound, Typed, Tidy
<1>5. \A x : Follows(t, x) => Follows(g, x)
  BY <1>2 DEF Follows
<1> HIDE DEF t, r, n
<1>6. CASE r = Null
  <2> DEFINE w == [t EXCEPT !.waiting = TRUE]
  <2>1. q = Release(w)
    BY <1>6 DEF ChangeGit, t, r, n
  <2>2. Sound(w) /\ w.heap = t.heap
    BY <1>1, <1>4, WaitSound DEF GitType
  <2>3. Follows(t, w)
    BY <2>2 DEF Follows
  <2> HIDE DEF w
  <2> QED
    BY <1>5, <2>1, <2>2, <2>3, ReleaseFollows
<1>7. CASE r \in Roots /\ t.sessions[n] = Null
  <2>1. q = Release(Open(t, c, r, s))
    BY <1>7, RootsAssumption DEF ChangeGit, t, r, n
  <2>2. Sound(Open(t, c, r, s)) /\ Follows(t, Open(t, c, r, s))
    BY <1>1, <1>2, <1>4, <1>7, OpenReopenSound, OpenFollows
  <2> QED
    BY <1>5, <2>1, <2>2, ReleaseFollows
<1>8. CASE r \in Roots /\ t.sessions[n] # Null /\ t.heap[t.sessions[n]].valid
  <2> DEFINE x == t.sessions[n]
  <2>1. q = Release(Reopen(t, c, p, x))
    BY <1>8, RootsAssumption DEF ChangeGit, t, r, n
  <2>2. x \in Live(t)
    BY <1>3, <1>4, <1>8 DEF Live, GitType
  <2>3. Sound(Reopen(t, c, p, x)) /\ Follows(t, Reopen(t, c, p, x))
    BY <1>1, <2>2, OpenReopenSound, ReopenFollows
  <2> QED
    BY <1>5, <2>1, <2>3, ReleaseFollows
<1>9. CASE r \in Roots /\ t.sessions[n] # Null /\ ~t.heap[t.sessions[n]].valid
  <2> DEFINE w == [t EXCEPT !.waiting = TRUE, !.active_session = Null]
  <2>1. q = Release(w)
    BY <1>9, RootsAssumption DEF ChangeGit, t, r, n
  <2>2. Sound(w) /\ w.heap = t.heap
    BY <1>1, <1>4, WaitSound DEF GitType
  <2>3. Follows(t, w)
    BY <2>2 DEF Follows
  <2> HIDE DEF w
  <2> QED
    BY <1>5, <2>1, <2>2, <2>3, ReleaseFollows
<1> QED
  BY <1>3, <1>6, <1>7, <1>8, <1>9

\* An update moves the hooks of a session that was not valid.
LEMMA UpdateFollows ==
  ASSUME NEW g, Sound(g), Tidy(g), NEW fs \in FileSystem, NEW name
  PROVE  /\ Tidy(UpdateAll(g, fs)) /\ Follows(g, UpdateAll(g, fs))
         /\ Tidy(UpdateNamed(g, fs, name)) /\ Follows(g, UpdateNamed(g, fs, name))
<1>1. g \in GitType
  BY DEF Sound, Typed
<1>2. ASSUME NEW S \in SUBSET Cached(g)
      PROVE  Tidy(UpdateSessions(g, fs, S)) /\ Follows(g, UpdateSessions(g, fs, S))
  <2> DEFINE t == UpdateSessions(g, fs, S)
  <2>1. /\ t.sessions = g.sessions /\ t.held = g.held
        /\ t.active_session = g.active_session
        /\ \A s \in Slots : t.heap[s] = IF s \in S THEN Updated(fs, g.heap[s]) ELSE g.heap[s]
    BY <1>1 DEF UpdateSessions, GitType
  <2>2. Live(t) = Live(g)
    BY <2>1 DEF Live
  <2>3. \A s \in S : s \in Live(g) /\ g.heap[s] \in Session
    BY DEF Cached, Live, Sound, Typed
  <2>4. ASSUME NEW x \in Session
        PROVE  \/ Updated(fs, x).hooks = x.hooks
               \/ ~x.valid /\ Updated(fs, x).valid
    BY DEF Updated, Session
  <2> HIDE DEF t
  <2>5. Tidy(t)
    BY <2>1, <2>2, <2>3 DEF Tidy
  <2>6. Follows(g, t)
    BY <2>1, <2>3, <2>4 DEF Follows
  <2> QED
    BY <2>5, <2>6 DEF t
<1>3. {s \in Cached(g) : NameOf[g.heap[s].id] = name} \subseteq Cached(g)
  OBVIOUS
<1>4. Follows(g, g)
  BY DEF Follows
<1> QED
  BY <1>2, <1>3, <1>4 DEF UpdateAll, UpdateNamed

\* No client takes hooks along.
LEMMA ForgetHooks ==
  ASSUME NEW g, Sound(g), NEW D \in SUBSET Ids
  PROVE  SameHooks(g, Forget(g, D))
<1>1. g \in GitType
  BY DEF Sound, Typed
<1>2. \A s \in Slots : Forget(g, D).heap[s] =
        IF \E d \in D : s \in g.held[d]
        THEN [g.heap[s] EXCEPT !.parents = g.heap[s].parents \ D] ELSE g.heap[s]
  BY <1>1 DEF Forget, GitType
<1>3. ASSUME NEW s \in Slots, \E d \in D : s \in g.held[d]
      PROVE  g.heap[s] \in Session
  BY <1>3 DEF Sound, Typed, Live
<1>4. ASSUME NEW x \in Session
      PROVE  [x EXCEPT !.parents = x.parents \ D].hooks = x.hooks
  BY DEF Session
<1> QED
  BY <1>2, <1>3, <1>4 DEF SameHooks

LEMMA DropFollows ==
  ASSUME NEW g, Sound(g), NEW c \in Ids, NEW A \in SUBSET Ids
  PROVE  /\ Tidy(DropClient(g, c)) /\ Follows(g, DropClient(g, c))
         /\ Tidy(DropInactive(g, A)) /\ Follows(g, DropInactive(g, A))
<1>1. ASSUME NEW D \in SUBSET Ids
      PROVE  LET f == Forget(g, D)
             IN  /\ Sound(f) /\ Follows(g, f)
                 /\ Sound(Fallback(f)) /\ Follows(g, Fallback(f))
  <2> DEFINE f == Forget(g, D)
  <2>1. Sound(f) /\ Sound(Fallback(f)) /\ SameHooks(g, f)
    BY ForgetSound, FallbackSound, ForgetHooks
  <2> HIDE DEF f
  <2>2. Fallback(f).heap = f.heap
    BY <2>1 DEF Fallback, Sound, Typed, GitType
  <2> QED
    BY <2>1, <2>2 DEF SameHooks, Follows, f
<1>2. {c} \in SUBSET Ids /\ g.clients \ (A \cup {DebugId}) \in SUBSET Ids
  BY DEF Sound, Typed, GitType
<1> QED
  BY <1>1, <1>2, ReleaseFollows DEF DropClient, DropInactive

-----------------------------------------------------------------------------
(* The inductive invariant.                                                 *)

\* What a file has of its user: without a file, nothing.
Good(f, w) ==
  /\ w \in Seq(UserLines)
  /\ \/ f \in {Absent, NoHooks} /\ w = <<>>
     \/ Shaped(f) /\ Written(f) = w

\* A section that is there is a session's or was left behind by a crash.
Owned(r) ==
  HasFile(r) /\ disk[r].file \notin Seq(Plain) =>
    disk[r].left \/ \E s \in Slots : implanted[s] /\ git.heap[s].hooks = r

HookIInv ==
  /\ GitIInv /\ Tidy(git)
  /\ HookTypeOK
  /\ \A r \in Roots : Good(disk[r].file, disk[r].theirs) /\ Owned(r)

LEMMA GoodFile ==
  ASSUME NEW f, NEW w, Good(f, w)
  PROVE  /\ f \in {Absent, NoHooks} \cup Seq(Lines)
         /\ Good(Implant(f), w) /\ Good(Clean(f), w)
         /\ Implant(NoHooks) = NoHooks
         /\ Clean(f) \in {NoHooks} \cup Seq(Plain)
<1>1. CASE f \in {Absent, NoHooks} /\ w = <<>>
  BY <1>1, AbsentShape DEF Good, Shaped
<1>2. CASE Shaped(f) /\ Written(f) = w
  BY <1>2, AbsentShape, ShapedText, ImplantShape, CleanShape DEF Good, Shaped
<1> QED
  BY <1>1, <1>2 DEF Good

\* Nothing that the sessions do to a file spoils it.
LEMMA FollowGood ==
  ASSUME NEW f, NEW w, Good(f, w), NEW W, NEW V, NEW r
  PROVE  /\ Good(Cleaned(V, r, Planted(W, r, f)), w)
         /\ Good(Planted(W, r, Cleaned(V, r, f)), w)
BY GoodFile DEF Cleaned, Planted

\* The sessions that write and those that clean: what HooksFollow does to the
\* file of one repository.
LEMMA FollowFile ==
  ASSUME HookTypeOK, HooksFollow, NEW r \in Roots
  PROVE  /\ \/ disk'[r].file = Cleaned(Destroyed \cup Revived, r,
                                 Planted(Created \cup Revived, r, disk[r].file))
            \/ disk'[r].file = Planted(Created \cup Revived, r,
                                 Cleaned(Destroyed \cup Revived, r, disk[r].file))
         /\ disk'[r].theirs = disk[r].theirs
         /\ disk'[r].left = (/\ disk[r].left
                             /\ Planters(Created \cup Revived, r) = {}
                             /\ Cleaners(Destroyed \cup Revived, r) = {})
         /\ disk'[r] \in [file : {disk'[r].file}, theirs : {disk'[r].theirs},
                          left : {disk'[r].left}]
         /\ DOMAIN disk' = Roots /\ disk' = [q \in Roots |-> disk'[q]]
<1> DEFINE U == Created \cup Revived
           D == Destroyed \cup Revived
           P(q) == Cleaned(D, q, Planted(U, q, disk[q].file))
           C(q) == Planted(U, q, Cleaned(D, q, disk[q].file))
           L(q) == disk[q].left /\ Planters(U, q) = {} /\ Cleaners(D, q) = {}
<1>1. PICK order :
        disk' = [q \in Roots |->
                   [disk[q] EXCEPT !.file = IF order = "plant" THEN P(q) ELSE C(q),
                                   !.left = L(q)]]
  BY Zenon DEF HooksFollow
<1>2. disk[r] \in DiskType
  BY DEF HookTypeOK
<1> HIDE DEF P, C, L
<1>3. disk'[r] = [disk[r] EXCEPT !.file = IF order = "plant" THEN P(r) ELSE C(r),
                                 !.left = L(r)]
  BY <1>1
<1>4. /\ disk'[r].file = IF order = "plant" THEN P(r) ELSE C(r)
      /\ disk'[r].theirs = disk[r].theirs /\ disk'[r].left = L(r)
      /\ disk'[r] \in [file : {disk'[r].file}, theirs : {disk'[r].theirs},
                       left : {disk'[r].left}]
  BY <1>2, <1>3 DEF DiskType
<1>5. DOMAIN disk' = Roots /\ disk' = [q \in Roots |-> disk'[q]]
  BY <1>1
<1> QED
  BY <1>4, <1>5 DEF P, C, L

\* implanted: of the objects that stay, those that were or have written.
LEMMA FollowImplanted ==
  ASSUME HookTypeOK, HooksFollow, git \in GitType, git' \in GitType, RootsAssumption
  PROVE  /\ implanted' \in [Slots -> BOOLEAN]
         /\ \A s \in Slots : implanted'[s] => git'.heap[s] # NoSession
         /\ \A r \in Roots : \A s \in Planters(Created \cup Revived, r) :
              disk[r].file # NoHooks => implanted'[s]
         /\ \A r \in Roots, s \in Slots :
              /\ implanted[s] /\ s \notin Destroyed
              /\ s \notin Planters(Created \cup Revived, git'.heap[s].hooks)
              => implanted'[s]
<1> DEFINE U == Created \cup Revived
<1>1. \A s \in Slots : implanted'[s] =
        LET r == git'.heap[s].hooks
        IN  /\ s \notin Destroyed
            /\ IF r # Null /\ s \in Planters(U, r) THEN disk[r].file # NoHooks
                                                   ELSE implanted[s]
  BY DEF HooksFollow
<1>2. DOMAIN implanted' = Slots /\ implanted' = [s \in Slots |-> implanted'[s]]
  BY DEF HooksFollow
<1>3. implanted \in [Slots -> BOOLEAN]
  BY DEF HookTypeOK
<1>4. implanted' \in [Slots -> BOOLEAN]
  BY <1>1, <1>2, <1>3
<1>5. \A s \in U : s \in Slots /\ s \notin Destroyed /\ git'.heap[s] # NoSession
  BY DEF Created, Revived, Destroyed, NoSession
<1>6. ASSUME NEW s \in Slots, implanted'[s] PROVE git'.heap[s] # NoSession
  <2>1. s \notin Destroyed /\ (s \in U \/ implanted[s])
    BY <1>1, <1>6 DEF Planters
  <2> QED
    BY <1>5, <2>1 DEF Destroyed, HookTypeOK
<1>7. ASSUME NEW r \in Roots, NEW s \in Planters(U, r), disk[r].file # NoHooks
      PROVE  implanted'[s]
  <2>1. s \in U /\ git'.heap[s].hooks = r /\ r # Null
    BY RootsAssumption DEF Planters
  <2> QED
    BY <1>1, <1>5, <1>7, <2>1
<1> QED
  BY <1>1, <1>4, <1>6, <1>7

\* What a section belongs to stays, or the section goes.
LEMMA FollowOwned ==
  ASSUME HookIInv, HooksFollow, GitIInv', Follows(git, git'), NEW r \in Roots
  PROVE  Owned(r)'
<1> DEFINE U == Created \cup Revived
           D == Destroyed \cup Revived
           f == disk[r].file
<1>1. HookTypeOK /\ Good(f, disk[r].theirs) /\ Owned(r)
  BY DEF HookIInv
<1>2. git \in GitType /\ git' \in GitType
  BY DEF HookIInv, GitIInv, Sound, Typed
<1> SUFFICES ASSUME disk'[r].file \notin {Absent, NoHooks}, disk'[r].file \notin Seq(Plain)
             PROVE  disk'[r].left \/ \E s \in Slots : implanted'[s] /\ git'.heap[s].hooks = r
  BY DEF Owned, HasFile
<1>3. disk'[r].file \in {Cleaned(D, r, Planted(U, r, f)), Planted(U, r, Cleaned(D, r, f))}
  BY <1>1, FollowFile
<1>4. /\ Clean(f) \in {NoHooks} \cup Seq(Plain)
      /\ Clean(Implant(f)) \in {NoHooks} \cup Seq(Plain)
      /\ Implant(NoHooks) = NoHooks
  BY <1>1, GoodFile
<1>5. CASE Planters(U, r) # {}
  <2>1. PICK s \in Planters(U, r) : TRUE
    BY <1>5
  <2>2. f # NoHooks
    <3>1. f = NoHooks => disk'[r].file = NoHooks
      BY <1>3, AbsentShape DEF Cleaned, Planted
    <3> QED
      BY <3>1
  <2>3. implanted'[s]
    BY <1>1, <1>2, <2>1, <2>2, FollowImplanted, RootsAssumption
  <2>4. s \in Slots /\ git'.heap[s].hooks = r
    BY <2>1 DEF Planters, Created, Revived
  <2> QED
    BY <2>3, <2>4
<1>6. CASE Planters(U, r) = {}
  <2>1. disk'[r].file = Cleaned(D, r, f)
    BY <1>3, <1>6 DEF Planted
  <2>2. Cleaners(D, r) = {} /\ disk'[r].file = f
    BY <1>4, <2>1 DEF Cleaned
  <2>3. disk[r].left \/ \E s \in Slots : implanted[s] /\ git.heap[s].hooks = r
    BY <1>1, <2>2 DEF Owned, HasFile
  <2>4. CASE disk[r].left
    BY <1>1, <1>6, <2>2, <2>4, FollowFile
  <2>5. ASSUME NEW s \in Slots, implanted[s], git.heap[s].hooks = r
        PROVE  implanted'[s] /\ git'.heap[s].hooks = r
    <3>1. git.heap[s] # NoSession
      BY <1>1, <2>5 DEF HookTypeOK
    <3>2. s \notin D \/ git'.heap[s].hooks = r
      BY <2>2, <2>5 DEF Cleaners, Moved
    <3>3. git'.heap[s] # NoSession
      BY <2>5, <3>1, <3>2, RootsAssumption DEF Destroyed, NoSession
    <3>4. git'.heap[s].hooks = r
      <4>1. CASE ~git.heap[s].valid /\ git'.heap[s].valid
        <5>1. s \in Revived
          BY <3>1, <3>3, <4>1 DEF Revived, Created, Destroyed
        <5> QED
          BY <3>2, <5>1
      <4>2. CASE git'.heap[s].hooks = git.heap[s].hooks
        BY <2>5, <4>2
      <4> QED
        BY <3>1, <3>3, <4>1, <4>2 DEF Follows
    <3>5. s \notin Destroyed /\ s \notin Planters(U, git'.heap[s].hooks)
      BY <1>6, <3>3, <3>4 DEF Destroyed
    <3>6. implanted'[s]
      BY <1>1, <1>2, <2>5, <3>5, FollowImplanted, RootsAssumption
    <3> QED
      BY <3>4, <3>6
  <2> QED
    BY <2>3, <2>4, <2>5
<1> QED
  BY <1>5, <1>6

\* A step of the registry that the files follow.
LEMMA FollowSound ==
  ASSUME HookIInv, HooksFollow, GitIInv', Tidy(git)', Follows(git, git')
  PROVE  HookIInv'
<1>1. HookTypeOK /\ \A r \in Roots : Good(disk[r].file, disk[r].theirs)
  BY DEF HookIInv
<1>2. git \in GitType /\ git' \in GitType
  BY DEF HookIInv, GitIInv, Sound, Typed
<1>3. ASSUME NEW r \in Roots
      PROVE  Good(disk'[r].file, disk'[r].theirs) /\ disk'[r] \in DiskType
  <2>1. Good(disk'[r].file, disk'[r].theirs)
    <3> DEFINE U == Created \cup Revived
               D == Destroyed \cup Revived
               f == disk[r].file
               w == disk[r].theirs
    <3>1. /\ Good(Cleaned(D, r, Planted(U, r, f)), w)
          /\ Good(Planted(U, r, Cleaned(D, r, f)), w)
      BY <1>1, FollowGood
    <3>2. /\ disk'[r].file \in {Cleaned(D, r, Planted(U, r, f)), Planted(U, r, Cleaned(D, r, f))}
          /\ disk'[r].theirs = w
      BY <1>1, FollowFile
    <3> HIDE DEF U, D, f, w
    <3> QED
      BY <3>1, <3>2
  <2>2. disk'[r].file \in {Absent, NoHooks} \cup Seq(Lines)
    BY <2>1, GoodFile
  <2>3. disk'[r].left \in BOOLEAN
    <3>1. disk[r].left \in BOOLEAN
      BY <1>1 DEF HookTypeOK, DiskType
    <3> QED
      BY <1>1, <3>1, FollowFile
  <2>4. disk'[r].theirs \in Seq(UserLines)
    BY <2>1 DEF Good
  <2>5. disk'[r] \in [file : {disk'[r].file}, theirs : {disk'[r].theirs},
                      left : {disk'[r].left}]
    BY <1>1, FollowFile
  <2> QED
    BY <2>1, <2>2, <2>3, <2>4, <2>5 DEF DiskType
<1>4. disk' \in [Roots -> DiskType]
  <2>1. ASSUME NEW r \in Roots PROVE DOMAIN disk' = Roots /\ disk' = [q \in Roots |-> disk'[q]]
    BY <1>1, FollowFile
  <2>2. disk' = [q \in Roots |-> disk'[q]]
    BY DEF HooksFollow
  <2> QED
    BY <1>3, <2>2
<1>5. HookTypeOK'
  BY <1>1, <1>2, <1>4, FollowImplanted, RootsAssumption DEF HookTypeOK
<1>6. \A r \in Roots : Owned(r)'
  BY FollowOwned
<1> QED
  BY <1>3, <1>5, <1>6 DEF HookIInv

-----------------------------------------------------------------------------
(* The steps.                                                               *)

LEMMA HookInitSound == HookInit => HookIInv
<1> SUFFICES ASSUME HookInit PROVE HookIInv
  OBVIOUS
<1>1. GitIInv
  BY InitSound DEF HookInit
<1>2. \A s \in Slots : git.heap[s] = NoSession /\ implanted[s] = FALSE
  BY DEF HookInit, GitInit, NewGit
<1>3. ASSUME NEW r \in Roots
      PROVE  /\ disk[r] \in DiskType /\ Good(disk[r].file, disk[r].theirs)
             /\ disk[r].file \in {Absent, NoHooks} \cup Seq(Plain)
  <2>1. /\ disk[r].file \in {Absent, NoHooks, <<>>} /\ disk[r].theirs = <<>>
        /\ disk[r] \in [file : {Absent, NoHooks, <<>>}, theirs : {<<>>}, left : {FALSE}]
    BY DEF HookInit
  <2>2. <<>> \in Seq(Lines) /\ <<>> \in Seq(UserLines) /\ <<>> \in Seq(Plain)
    OBVIOUS
  <2>3. Written(<<>>) = <<>>
    <3>1. Shebang \in Lines
      BY DEF Lines
    <3> QED
      BY <2>2, <3>1, WrittenAppend
  <2> QED
    BY <2>1, <2>2, <2>3 DEF DiskType, Good, Shaped
<1>4. HookTypeOK
  <2>1. disk \in [Roots -> DiskType]
    BY <1>3 DEF HookInit
  <2>2. implanted \in [Slots -> BOOLEAN]
    BY DEF HookInit
  <2> QED
    BY <1>2, <2>1, <2>2 DEF HookTypeOK
<1>5. Tidy(git) /\ \A r \in Roots : Owned(r)
  BY <1>2, <1>3 DEF Tidy, Owned, HasFile
<1> QED
  BY <1>1, <1>3, <1>4, <1>5 DEF HookIInv

\* A new Git has no objects.
LEMMA NewGitSound ==
  ASSUME NEW g, Sound(g)
  PROVE  /\ Sound(NewGit) /\ Tidy(NewGit) /\ Follows(g, NewGit)
         /\ \A s \in Slots : NewGit.heap[s] = NoSession
<1>1. NewGit \in GitType
  BY IdsAssumption DEF NewGit, GitType
<1>2. Live(NewGit) = {}
  BY SlotsAssumption DEF NewGit, Live
<1>3. Matched(NewGit) /\ Shown(NewGit) /\ Alternates(NewGit.history)
  BY DEF NewGit, NoSession, Matched, Shown, Alternates
<1>4. \A s \in Slots : NewGit.heap[s] = NoSession
  BY DEF NewGit
<1> QED
  BY <1>1, <1>2, <1>3, <1>4 DEF Sound, Typed, Tidy, Follows

\* The methods that the files follow.
LEMMA MethodSound ==
  ASSUME HookIInv
  PROVE  /\ \A c \in Ids, p \in Paths : HookedChangePath(c, p) => HookIInv'
         /\ HookedUpdate => HookIInv'
         /\ \A r \in Roots : HookedGitChange(NameOf[r]) => HookIInv'
         /\ \A c \in Ids : HookedLeave(c) => HookIInv'
         /\ \A A \in SUBSET Ids : HookedRound(A) => HookIInv'
         /\ Stop => HookIInv'
<1>1. Sound(git) /\ Tidy(git) /\ tree \in FileSystem /\ GitIInv
  BY DEF HookIInv, GitIInv
<1>2. ASSUME NEW c \in Ids, NEW p \in Paths, HookedChangePath(c, p) PROVE HookIInv'
  <2>1. GitIInv' /\ ChangePath(c, p) /\ HooksFollow
    BY <1>1, <1>2, NextSound DEF HookedChangePath, GitNext
  <2>2. Tidy(git)' /\ Follows(git, git')
    BY <1>1, <2>1, ChangeGitFollows DEF ChangePath
  <2> QED
    BY <2>1, <2>2, FollowSound
<1>3. ASSUME HookedUpdate PROVE HookIInv'
  <2>1. GitIInv' /\ AutoUpdate /\ HooksFollow
    BY <1>1, <1>3, NextSound DEF HookedUpdate, GitNext
  <2>2. Tidy(git)' /\ Follows(git, git')
    BY <1>1, <2>1, UpdateFollows DEF AutoUpdate
  <2> QED
    BY <2>1, <2>2, FollowSound
<1>4. ASSUME NEW r \in Roots, HookedGitChange(NameOf[r]) PROVE HookIInv'
  <2>1. GitIInv' /\ GitChange(NameOf[r]) /\ HooksFollow
    BY <1>1, <1>4, NextSound DEF HookedGitChange, GitNext
  <2>2. Tidy(git)' /\ Follows(git, git')
    BY <1>1, <2>1, UpdateFollows DEF GitChange
  <2> QED
    BY <2>1, <2>2, FollowSound
<1>5. ASSUME NEW c \in Ids, HookedLeave(c) PROVE HookIInv'
  <2>1. GitIInv' /\ Leave(c) /\ HooksFollow
    BY <1>1, <1>5, NextSound DEF HookedLeave, GitNext
  <2>2. Tidy(git)' /\ Follows(git, git')
    BY <1>1, <2>1, DropFollows DEF Leave
  <2> QED
    BY <2>1, <2>2, FollowSound
<1>6. ASSUME NEW A \in SUBSET Ids, HookedRound(A) PROVE HookIInv'
  <2>1. GitIInv' /\ PingRound(A) /\ HooksFollow
    BY <1>1, <1>6, NextSound DEF HookedRound, GitNext
  <2>2. Tidy(git)' /\ Follows(git, git')
    BY <1>1, <2>1, DropFollows, IdsAssumption DEF PingRound
  <2> QED
    BY <2>1, <2>2, FollowSound
<1>7. ASSUME Stop PROVE HookIInv'
  <2>1. git' = NewGit /\ tree' = tree /\ HooksFollow
    BY <1>7 DEF Stop
  <2>2. GitIInv' /\ Tidy(git)' /\ Follows(git, git')
    BY <1>1, <2>1, NewGitSound DEF GitIInv
  <2> QED
    BY <2>1, <2>2, FollowSound
<1> QED
  BY <1>2, <1>3, <1>4, <1>5, <1>6, <1>7

\* A crash leaves what the sessions have written, and may tear one file.
LEMMA CrashSound == HookIInv /\ Crash => HookIInv'
<1> SUFFICES ASSUME HookIInv, Crash PROVE HookIInv'
  OBVIOUS
<1>1. /\ HookTypeOK /\ GitIInv
      /\ \A r \in Roots : Good(disk[r].file, disk[r].theirs) /\ Owned(r)
  BY DEF HookIInv
<1>2. git' = NewGit /\ implanted' = [s \in Slots |-> FALSE] /\ tree' = tree
  BY DEF Crash
<1>3. GitIInv' /\ Tidy(git)'
  BY <1>1, <1>2, NewGitSound DEF GitIInv
<1>4. PICK torn \in SUBSET {r \in Roots : HasFile(r)} :
        disk' = [r \in Roots |->
            [disk[r] EXCEPT
               !.file = IF r \in torn THEN <<>> ELSE @,
               !.theirs = IF r \in torn THEN <<>> ELSE @,
               !.left = HasFile(r) /\ r \notin torn
                          /\ (@ \/ \E s \in Slots : implanted[s] /\ git.heap[s].hooks = r)]]
  BY Zenon DEF Crash
<1>5. <<>> \in Seq(Lines) /\ <<>> \in Seq(UserLines) /\ <<>> \in Seq(Plain)
  OBVIOUS
<1>6. Good(<<>>, <<>>)
  <2>1. Shebang \in Lines
    BY DEF Lines
  <2>2. Written(<<>>) = <<>>
    BY <1>5, <2>1, WrittenAppend
  <2> QED
    BY <1>5, <2>2 DEF Good, Shaped
<1>7. ASSUME NEW r \in Roots
      PROVE  /\ disk'[r] \in DiskType /\ Good(disk'[r].file, disk'[r].theirs)
             /\ Owned(r)'
  <2> DEFINE L == HasFile(r) /\ r \notin torn
                    /\ (disk[r].left \/ \E s \in Slots : implanted[s] /\ git.heap[s].hooks = r)
  <2>1. disk[r] \in DiskType /\ L \in BOOLEAN
    BY <1>1 DEF HookTypeOK
  <2>2. disk'[r] = [disk[r] EXCEPT !.file = IF r \in torn THEN <<>> ELSE @,
                                   !.theirs = IF r \in torn THEN <<>> ELSE @,
                                   !.left = L]
    BY <1>4
  <2> HIDE DEF L
  <2>3. /\ disk'[r] \in DiskType /\ disk'[r].left = L
        /\ disk'[r].file = IF r \in torn THEN <<>> ELSE disk[r].file
        /\ disk'[r].theirs = IF r \in torn THEN <<>> ELSE disk[r].theirs
    BY <1>5, <2>1, <2>2 DEF DiskType
  <2>4. Good(disk'[r].file, disk'[r].theirs)
    BY <1>1, <1>6, <2>3
  <2>5. Owned(r)'
    BY <1>1, <1>5, <2>3 DEF Owned, HasFile, L
  <2> QED
    BY <2>3, <2>4, <2>5
<1>8. HookTypeOK'
  <2>1. disk' \in [Roots -> DiskType]
    BY <1>4, <1>7
  <2> QED
    BY <1>2, <2>1 DEF HookTypeOK
<1> QED
  BY <1>3, <1>7, <1>8 DEF HookIInv

\* One file is the user's to change: e is what becomes of it.
LEMMA OneFile ==
  ASSUME HookIInv, NEW r \in Roots, NEW e \in DiskType, GitIInv', Tidy(git)',
         implanted' = implanted, git'.heap = git.heap,
         disk' = [disk EXCEPT ![r] = e], Good(e.file, e.theirs),
         e.file \notin {Absent, NoHooks} \cup Seq(Plain) =>
           e.left \/ \E s \in Slots : implanted[s] /\ git.heap[s].hooks = r
  PROVE  HookIInv'
<1>1. HookTypeOK /\ \A q \in Roots : Good(disk[q].file, disk[q].theirs) /\ Owned(q)
  BY DEF HookIInv
<1>2. /\ disk' \in [Roots -> DiskType]
      /\ \A q \in Roots : disk'[q] = IF q = r THEN e ELSE disk[q]
  BY <1>1 DEF HookTypeOK
<1>3. HookTypeOK'
  BY <1>1, <1>2 DEF HookTypeOK
<1>4. ASSUME NEW q \in Roots PROVE Good(disk'[q].file, disk'[q].theirs) /\ Owned(q)'
  BY <1>1, <1>2 DEF Owned, HasFile
<1> QED
  BY <1>3, <1>4 DEF HookIInv

LEMMA UserWritesSound ==
  ASSUME HookIInv, NEW r \in Roots, NEW x \in UserLines, UserWrites(r, x)
  PROVE  HookIInv'
<1> DEFINE d == disk[r]
           old == IF HasFile(r) THEN d.file ELSE <<>>
           after == [d EXCEPT !.file = Append(old, x), !.theirs = Append(d.theirs, x)]
           before == [d EXCEPT !.file = <<x>> \o old, !.theirs = <<x>> \o d.theirs]
<1>1. /\ d \in DiskType /\ disk \in [Roots -> DiskType]
      /\ GitIInv /\ Tidy(git) /\ Good(d.file, d.theirs) /\ Owned(r)
      /\ git' = git /\ tree' = tree /\ implanted' = implanted
  BY DEF HookIInv, HookTypeOK, UserWrites
<1>2. GitIInv' /\ Tidy(git)'
  BY <1>1 DEF GitIInv
<1>3. disk' = [disk EXCEPT ![r] = after] \/ disk' = [disk EXCEPT ![r] = before]
  BY <1>1 DEF UserWrites
<1>4. Shaped(old) /\ Written(old) = d.theirs
  <2>1. CASE HasFile(r)
    BY <1>1, <2>1 DEF HasFile, Good
  <2>2. CASE ~HasFile(r)
    <3>1. <<>> \in Seq(Lines) /\ <<>> \in Seq(Plain) /\ Shebang \in Lines
      BY DEF Lines
    <3>2. d.theirs = <<>>
      BY <1>1, <2>2, ShapedText DEF HasFile, Good
    <3> QED
      BY <2>2, <3>1, <3>2, WrittenAppend DEF Shaped
  <2> QED
    BY <2>1, <2>2
<1>5. old \in Seq(Lines) /\ d.theirs \in Seq(UserLines) /\ x \in Lines /\ x \in Plain
  BY <1>1, <1>4, ShapedText, PlainLines DEF Good
<1>6. old \notin Seq(Plain) => d.left \/ \E s \in Slots : implanted[s] /\ git.heap[s].hooks = r
  <2>1. <<>> \in Seq(Plain)
    OBVIOUS
  <2> QED
    BY <1>1, <2>1 DEF Owned
<1> HIDE DEF old
<1>7. ASSUME NEW f \in Seq(Lines), Shaped(f), NEW w \in Seq(UserLines), Written(f) = w,
             old \in Seq(Plain) => f \in Seq(Plain),
             disk' = [disk EXCEPT ![r] = [d EXCEPT !.file = f, !.theirs = w]]
      PROVE  HookIInv'
  <2> DEFINE e == [d EXCEPT !.file = f, !.theirs = w]
  <2>1. e \in DiskType /\ e.file = f /\ e.theirs = w /\ e.left = d.left
    BY <1>1 DEF DiskType
  <2>2. Good(f, w)
    BY <1>7 DEF Good
  <2> HIDE DEF e
  <2>3. disk' = [disk EXCEPT ![r] = e]
    BY <1>7 DEF e
  <2>4. e.file \notin {Absent, NoHooks} \cup Seq(Plain) =>
          e.left \/ \E s \in Slots : implanted[s] /\ git.heap[s].hooks = r
    BY <1>6, <1>7, <2>1
  <2>5. Good(e.file, e.theirs) /\ git'.heap = git.heap
    BY <1>1, <2>1, <2>2
  <2> QED
    BY <1>1, <1>2, <2>1, <2>3, <2>4, <2>5, OneFile
<1>8. CASE disk' = [disk EXCEPT ![r] = after]
  <2>1. /\ Shaped(Append(old, x)) /\ Written(Append(old, x)) = Append(d.theirs, x)
        /\ Append(old, x) \in Seq(Lines) /\ Append(d.theirs, x) \in Seq(UserLines)
        /\ old \in Seq(Plain) => Append(old, x) \in Seq(Plain)
    <3>1. \A L : \A u \in Seq(L), y \in L : Append(u, y) \in Seq(L)
      OBVIOUS
    <3>2. Shaped(Append(old, x)) /\ Written(Append(old, x)) = Append(d.theirs, x)
      BY <1>4, UserAdds
    <3> QED
      BY <1>5, <3>1, <3>2
  <2> QED
    BY <1>7, <1>8, <2>1
<1>9. CASE disk' = [disk EXCEPT ![r] = before]
  <2>1. /\ Shaped(<<x>> \o old) /\ Written(<<x>> \o old) = <<x>> \o d.theirs
        /\ <<x>> \o old \in Seq(Lines) /\ <<x>> \o d.theirs \in Seq(UserLines)
        /\ old \in Seq(Plain) => <<x>> \o old \in Seq(Plain)
    <3>1. \A L : \A u \in Seq(L), y \in L : <<y>> \o u \in Seq(L)
      OBVIOUS
    <3>2. Shaped(<<x>> \o old) /\ Written(<<x>> \o old) = <<x>> \o d.theirs
      BY <1>4, UserAdds
    <3> QED
      BY <1>5, <3>1, <3>2
  <2> QED
    BY <1>7, <1>9, <2>1
<1> QED
  BY <1>3, <1>8, <1>9

\* Without a file there is nothing of the user's.
LEMMA NoFileSound ==
  ASSUME HookIInv, NEW r \in Roots, NEW f \in {Absent, NoHooks}, GitIInv', git' = git,
         implanted' = implanted,
         disk' = [disk EXCEPT ![r] = [file |-> f, theirs |-> <<>>, left |-> FALSE]]
  PROVE  HookIInv'
<1> DEFINE e == [file |-> f, theirs |-> <<>>, left |-> FALSE]
<1>1. e \in DiskType
  BY DEF DiskType
<1>2. e.file = f /\ e.theirs = <<>> /\ Good(f, <<>>)
  BY DEF Good
<1>3. Tidy(git)'
  BY DEF HookIInv
<1> HIDE DEF e
<1>4. disk' = [disk EXCEPT ![r] = e]
  BY DEF e
<1> QED
  BY <1>1, <1>2, <1>3, <1>4, OneFile

LEMMA UserDeletesSound ==
  ASSUME HookIInv, NEW r \in Roots, UserDeletes(r)
  PROVE  HookIInv'
<1>1. disk \in [Roots -> DiskType] /\ GitIInv
  BY DEF HookIInv, HookTypeOK
<1>2. git' = git /\ tree' = tree /\ implanted' = implanted
  BY DEF UserDeletes
<1>3. disk' = [disk EXCEPT ![r] = [disk[r] EXCEPT !.file = Absent, !.theirs = <<>>,
                                                  !.left = FALSE]]
  BY <1>1 DEF UserDeletes
<1>4. \A d \in DiskType : [d EXCEPT !.file = Absent, !.theirs = <<>>, !.left = FALSE]
                           = [file |-> Absent, theirs |-> <<>>, left |-> FALSE]
  <2> SUFFICES ASSUME NEW d \in DiskType
               PROVE  [d EXCEPT !.file = Absent, !.theirs = <<>>, !.left = FALSE]
                        = [file |-> Absent, theirs |-> <<>>, left |-> FALSE]
    OBVIOUS
  <2> DEFINE e == [d EXCEPT !.file = Absent, !.theirs = <<>>, !.left = FALSE]
  <2>1. e \in DiskType /\ e.file = Absent /\ e.theirs = <<>> /\ e.left = FALSE
    <3>1. ASSUME NEW w \in Seq(UserLines), NEW c,
                 c = [d EXCEPT !.file = Absent, !.theirs = w, !.left = FALSE]
          PROVE  c \in DiskType /\ c.file = Absent /\ c.theirs = w /\ c.left = FALSE
      BY <3>1 DEF DiskType
    <3>2. <<>> \in Seq(UserLines)
      OBVIOUS
    <3> QED
      BY <3>1, <3>2
  <2> HIDE DEF e
  <2>2. e = [file |-> e.file, theirs |-> e.theirs, left |-> e.left]
    BY <2>1 DEF DiskType
  <2> QED
    BY <2>1, <2>2 DEF e
<1>5. disk' = [disk EXCEPT ![r] = [file |-> Absent, theirs |-> <<>>, left |-> FALSE]]
  BY <1>1, <1>3, <1>4
<1>6. GitIInv'
  BY <1>1, <1>2 DEF GitIInv
<1> QED
  BY <1>2, <1>5, <1>6, NoFileSound

LEMMA HookedRepoChangesSound ==
  ASSUME HookIInv, NEW r \in Mutable, HookedRepoChanges(r)
  PROVE  HookIInv'
<1>1. r \in Roots /\ GitIInv
  BY RootsAssumption DEF HookIInv
<1>2. GitIInv' /\ git' = git
  BY <1>1, NextSound DEF HookedRepoChanges, GitNext, RepoChanges
<1>3. PICK f \in IF r \in tree.repos THEN {NoHooks} ELSE Fresh[r] :
        disk' = [disk EXCEPT ![r] = [file |-> f, theirs |-> <<>>, left |-> FALSE]]
  BY DEF HookedRepoChanges
<1>4. f \in {Absent, NoHooks}
  BY <1>1, FreshAssumption
<1>5. implanted' = implanted
  BY DEF HookedRepoChanges
<1> QED
  BY <1>1, <1>2, <1>3, <1>4, <1>5, NoFileSound

LEMMA HookedPathChangesSound ==
  ASSUME HookIInv, NEW p \in Deletable, HookedPathChanges(p)
  PROVE  HookIInv'
<1> DEFINE none == [file |-> NoHooks, theirs |-> <<>>, left |-> FALSE]
<1>1. /\ HookTypeOK /\ GitIInv /\ Tidy(git)
      /\ \A r \in Roots : Good(disk[r].file, disk[r].theirs) /\ Owned(r)
  BY DEF HookIInv
<1>2. GitIInv' /\ git' = git /\ implanted' = implanted
  BY <1>1, NextSound DEF HookedPathChanges, GitNext, PathChanges
<1>3. /\ none \in DiskType /\ none.file = NoHooks /\ Good(none.file, none.theirs)
  BY DEF DiskType, Good
<1> HIDE DEF none
<1>4. disk' = [r \in Roots |-> IF r \in tree'.repos THEN disk[r] ELSE none]
  BY DEF HookedPathChanges, none
<1>5. \A r \in Roots : disk'[r] \in {disk[r], none}
  BY <1>4
<1>6. HookTypeOK'
  BY <1>1, <1>2, <1>3, <1>4 DEF HookTypeOK
<1>7. ASSUME NEW r \in Roots PROVE Good(disk'[r].file, disk'[r].theirs) /\ Owned(r)'
  BY <1>1, <1>2, <1>3, <1>5 DEF Owned, HasFile
<1> QED
  BY <1>1, <1>2, <1>6, <1>7 DEF HookIInv

LEMMA HookNextSound == HookIInv /\ [HookNext]_hookVars => HookIInv'
<1> SUFFICES ASSUME HookIInv, [HookNext]_hookVars PROVE HookIInv'
  OBVIOUS
<1>1. \/ \E c \in Ids, p \in Paths : HookedChangePath(c, p)
      \/ HookedUpdate
      \/ \E r \in Roots : HookedGitChange(NameOf[r])
      \/ \E c \in Ids : HookedLeave(c)
      \/ \E A \in SUBSET Ids : HookedRound(A)
      \/ Stop
      => HookIInv'
  BY MethodSound
<1>2. Crash => HookIInv'
  BY CrashSound
<1>3. ASSUME NEW r \in Roots, NEW x \in UserLines, UserWrites(r, x) PROVE HookIInv'
  BY <1>3, UserWritesSound
<1>4. ASSUME NEW r \in Roots, UserDeletes(r) PROVE HookIInv'
  BY <1>4, UserDeletesSound
<1>5. ASSUME NEW r \in Mutable, HookedRepoChanges(r) PROVE HookIInv'
  BY <1>5, HookedRepoChangesSound
<1>6. ASSUME NEW p \in Deletable, HookedPathChanges(p) PROVE HookIInv'
  BY <1>6, HookedPathChangesSound
<1>7. CASE UNCHANGED hookVars
  BY <1>7 DEF hookVars, HookIInv, HookTypeOK, GitIInv, Owned, HasFile
<1> QED
  BY <1>1, <1>2, <1>3, <1>4, <1>5, <1>6, <1>7 DEF HookNext

\* Whatever editors, updates, crashes, restarts and users do, for files of any
\* length: every file is a text with the user's lines in his order
\* (implant_hook and cleanup_hook, git_hook.cc:20-98) and one section at most,
\* which belongs to a Session that implanted it or was left by a crash, and an
\* object that is gone has implanted nothing (~GitHook, git_hook.h).
THEOREM HookSound ==
  HookSpec => [](HookTypeOK /\ UserLinesKept /\ OneSection /\ NoStraySection)
<1>1. HookIInv => HookTypeOK
  BY DEF HookIInv
<1>2. HookIInv => UserLinesKept /\ OneSection /\ NoStraySection
  <2> SUFFICES ASSUME HookIInv, NEW r \in Roots, HasFile(r)
               PROVE  /\ Written(disk[r].file) = disk[r].theirs
                      /\ Cardinality(Sections(disk[r].file)) =< 1
                      /\ Sections(disk[r].file) # {} =>
                           disk[r].left \/ \E s \in Slots : implanted[s] /\ git.heap[s].hooks = r
    BY DEF UserLinesKept, OneSection, NoStraySection
  <2>1. Shaped(disk[r].file) /\ Written(disk[r].file) = disk[r].theirs /\ Owned(r)
    BY DEF HookIInv, Good, HasFile
  <2> QED
    BY <2>1, ShapedSections DEF Owned
<1> QED
  BY <1>1, <1>2, HookInitSound, HookNextSound, PTL DEF HookSpec

=============================================================================
