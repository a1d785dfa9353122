----------------------------- MODULE MCPresence -----------------------------
(***************************************************************************)
(* An instance of Presence for TLC: files of languages that share their     *)
(* extensions with others.                                                  *)
(***************************************************************************)
EXTENDS Presence, LanguageTable, TLC

CONSTANTS root, header, script

\* Taken by the first that lists it, by a later one that can be drawn, by none.
Shared == {".h", ".php", ".m", ".ms", ".rs", ".fs", ".md", ".m4"}

\* The table that is compiled in.
CompiledTable == LanguageJson

\* The repository's directory is called like a file of Rust.
ExtensionOf == (header :> ".h") @@ (script :> ".php") @@ (root :> ".rs")

=============================================================================
