------------------------------ MODULE MCWorkflow ------------------------------
(***************************************************************************)
(* Instances of Workflow for TLC.                                           *)
(***************************************************************************)
EXTENDS Workflow

CONSTANTS alice, bob, carol, dave, s1, s2, s3

\* s1 runs with s2, which has the same users in opposite roles, or with s3, which has
\* users of its own
Initiators == [s \in Session |-> CASE s = s1 -> alice [] s = s2 -> bob [] OTHER -> carol]
Partners == [s \in Session |-> CASE s = s1 -> bob [] s = s2 -> alice [] OTHER -> dave]

\* ReportsUndisturbed of one session, which is alone, runs with s3, or is disturbed by s2:
\* an exchange of names makes each of the others the first one (start_privacy_run, query_log)
UndisturbedSessionReports == ReportsUndisturbed(s1)
=============================================================================
