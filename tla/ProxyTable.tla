------------------------------ MODULE ProxyTable ------------------------------
(***************************************************************************)
(* AgentProxy seen as a KeyTable: the copy is the file that mappings.json   *)
(* names, whatever inode that is.  The view fits a proxy that serves one    *)
(* request at a time; it may be killed at any instant.                      *)
(***************************************************************************)
EXTENDS AgentProxy

Acked == {r \in Request : Req[r].kind = "register" /\ reply[r] = "ok"}

Table == INSTANCE KeyTable WITH table <- mem, copy <- Stored, acked <- Acked, failed <- (faults # 0)

\* Served one at a time, requests and crashes leave a table whose copy on disk
\* is never torn and, no save having failed, has each key when it is
\* acknowledged, and a known user is never registered automatically.
\* (agent_proxy/main.go, Mappings and both handlers)
IsKeyTable == Table!Spec
=============================================================================
