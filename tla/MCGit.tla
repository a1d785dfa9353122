------------------------------- MODULE MCGit -------------------------------
(***************************************************************************)
(* Instances of Git for TLC: two repositories, side by side or one inside   *)
(* the other, and a file.                                                   *)
(***************************************************************************)
EXTENDS Git, TLC

CONSTANTS outer, inner,         \* the two roots
          deep,                 \* a file of inner
          s1, s2, s3, c1, c2, c3

\* Side by side: no path is in both roots.
SideBySide ==
  (outer :> {outer}) @@ (inner :> {inner}) @@ (deep :> {inner})

\* inner is a directory of outer.
Nested ==
  (outer :> {outer}) @@ (inner :> {outer, inner}) @@ (deep :> {outer, inner})

\* Every git directory is the .git of its root.
OwnHome == [r \in Roots |-> r]

\* Two checkouts called the same.
SameName == (outer :> "repo") @@ (inner :> "repo")
TwoNames == (outer :> "outer") @@ (inner :> "inner")

\* Addresses are interchangeable, and so are the clients other than DebugId.
Symmetry == Permutations(Slots) \cup Permutations(Ids \ {DebugId})

=============================================================================
