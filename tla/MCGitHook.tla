------------------------------ MODULE MCGitHook ------------------------------
(***************************************************************************)
(* Instances of GitHook for TLC: a repository inside another one, whose     *)
(* hooks a session moves between when one goes and the other comes.         *)
(***************************************************************************)
EXTENDS GitHook, TLC

CONSTANTS outer, inner, s1, s2, c1, c2

Nested == (outer :> {outer}) @@ (inner :> {outer, inner})
OwnHome == [r \in Roots |-> r]
TwoNames == (outer :> "outer") @@ (inner :> "inner")

\* One repository is made with a hooks directory, the other without.
FreshHooks == (outer :> {Absent}) @@ (inner :> {NoHooks})

Symmetry == Permutations(Slots) \cup Permutations(Ids \ {DebugId})

=============================================================================
