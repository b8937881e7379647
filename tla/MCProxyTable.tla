----------------------------- MODULE MCProxyTable -----------------------------
(***************************************************************************)
(* Instance of ProxyTable for TLC, with the requests of MCAgentProxy.       *)
(***************************************************************************)
EXTENDS MCAgentProxy, ProxyTable
=============================================================================
