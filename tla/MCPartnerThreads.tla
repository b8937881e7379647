--------------------------- MODULE MCPartnerThreads ---------------------------
(***************************************************************************)
(* Instances of PartnerThreads for TLC.                                     *)
(***************************************************************************)
EXTENDS PartnerThreads

CONSTANTS a, b, a1, b1

\* three users' sends, two of which make the partner's agent send in turn
Nested == [s \in Call |-> CASE s = a1 -> a [] s = b1 -> b [] OTHER -> None]
=============================================================================
