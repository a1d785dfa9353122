------------------------------ MODULE MCServer ------------------------------
(***************************************************************************)
(* Instances of Server for TLC: one repository and a path outside of it.    *)
(***************************************************************************)
EXTENDS Server, TLC

CONSTANTS root, stray, s1, s2, c1, c2

InsideRoot == (root :> {root}) @@ (stray :> {})
OwnHome == (root :> root)
RootName == (root :> "repo")

All == SUBSET Switches
Auto == {{"auto_update"}}
Prevent == {{"auto_update", "prevent_shutdown"}}

Symmetry == Permutations(Slots) \cup Permutations(Users)

=============================================================================
