--------------------------- MODULE MCClientSocket ---------------------------
(***************************************************************************)
(* Instances of ClientSocket for TLC.                                       *)
(***************************************************************************)
EXTENDS ClientSocket

CONSTANTS p1, p2

=============================================================================
