----------------------------- MODULE MCReplace -----------------------------
(***************************************************************************)
(* An instance of Replace for TLC.                                          *)
(***************************************************************************)
EXTENDS Replace, TLC
=============================================================================
