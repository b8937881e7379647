------------------------------- MODULE KeyTable -------------------------------
(***************************************************************************)
(* What the agent proxy promises of its table of Nexus keys: a table with   *)
(* a copy on disk that is replaced as a whole.  An entry is put on behalf   *)
(* of a request, a known user's only by an explicit registration; such a    *)
(* registration is acknowledged when its key is in the copy, as long as no  *)
(* save has failed; and a process that was killed starts with the copy.     *)
(***************************************************************************)
CONSTANTS User, Absent, Request,
          Req            \* Req[r]: the request, of which kind, user and key count here

VARIABLES up,        \* the process runs
          table,     \* the table in memory
          copy,      \* the copy on disk
          acked,     \* registrations that were acknowledged
          failed     \* a save has failed

tableVars == <<up, table, copy, acked, failed>>

Init ==
    /\ up = TRUE
    /\ table = [u \in User |-> Absent] /\ copy = table
    /\ acked = {} /\ failed = FALSE

Put(r) ==
    /\ up /\ Req[r].user \in User
    /\ Req[r].kind = "register" \/ table[Req[r].user] = Absent
    /\ table' = [table EXCEPT ![Req[r].user] = Req[r].key]
    /\ UNCHANGED <<up, copy, acked, failed>>

Save == up /\ copy' = table /\ UNCHANGED <<up, table, acked, failed>>

Fail == up /\ failed' = TRUE /\ UNCHANGED <<up, table, copy, acked>>

Ack(r) ==
    /\ up /\ Req[r].kind = "register"
    /\ failed \/ (copy = table /\ copy[Req[r].user] = Req[r].key)
    /\ acked' = acked \cup {r}
    /\ UNCHANGED <<up, table, copy, failed>>

Kill == up /\ up' = FALSE /\ UNCHANGED <<table, copy, acked, failed>>

Restart == ~up /\ up' = TRUE /\ table' = copy /\ UNCHANGED <<copy, acked, failed>>

Next == (\E r \in Request : Put(r) \/ Ack(r)) \/ Save \/ Fail \/ Kill \/ Restart

Spec == Init /\ [][Next]_tableVars
=============================================================================
