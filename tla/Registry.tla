------------------------------ MODULE Registry ------------------------------
(***************************************************************************)
(* What the registry of Git promises when no repository lies inside         *)
(* another: a cache of repositories counted by the clients that opened      *)
(* them.  A repository enters when a client opens it and leaves exactly     *)
(* when the last client that opened it is forgotten; sessions, histories,   *)
(* validity and the active session are details of the implementation.       *)
(***************************************************************************)

CONSTANTS Ids,      \* client ids
          Roots     \* roots of repositories

VARIABLES opened,   \* opened[c]: the repositories client c has opened
          cached    \* the repositories with a cached session

registryVars == <<opened, cached>>

Init == opened = [c \in Ids |-> {}] /\ cached = {}

\* A client sends a path inside repository r.
Open(c, r) ==
  /\ opened' = [opened EXCEPT ![c] = @ \cup {r}]
  /\ cached' = cached \cup {r}

\* The clients of D leave, or fall silent.
Forget(D) ==
  /\ opened' = [c \in Ids |-> IF c \in D THEN {} ELSE opened[c]]
  /\ cached' = UNION {opened'[c] : c \in Ids}

Next == \/ \E c \in Ids, r \in Roots : Open(c, r)
        \/ \E D \in SUBSET Ids : Forget(D)

Spec == Init /\ [][Next]_registryVars
=============================================================================
