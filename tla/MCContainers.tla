----------------------------- MODULE MCContainers -----------------------------
(***************************************************************************)
(* Instances of Containers for TLC.                                         *)
(***************************************************************************)
EXTENDS Containers

CONSTANTS n1, n2, c1, c2, c3, d1, e1

\* three create calls and a removal of one container, and a create call of another
CallTool == [c \in Call |-> IF c = d1 THEN "remove" ELSE "create"]
CallName == [c \in Call |-> IF c = e1 THEN n2 ELSE n1]
=============================================================================
