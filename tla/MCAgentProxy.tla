----------------------------- MODULE MCAgentProxy -----------------------------
(***************************************************************************)
(* Instances of AgentProxy for TLC.                                         *)
(***************************************************************************)
EXTENDS AgentProxy

CONSTANTS alice, bob, k1, k2, k3, r1, r2, r3, r4, r5

Registers(u, k) == [kind |-> "register", user |-> u, key |-> k, target |-> NoUser]

Proxies(u, k, v) == [kind |-> "proxy", user |-> u, key |-> k, target |-> v]

\* Alice registers twice while her agent and Bob's call for each other
ReqMixed == [r \in Request |->
    CASE r = r1 -> Registers(alice, k1)
      [] r = r2 -> Registers(alice, k2)
      [] r = r3 -> Proxies(alice, k3, bob)
      [] r = r4 -> Proxies(bob, NoKey, alice)
      [] OTHER  -> [kind |-> "invalid", user |-> NoUser, key |-> NoKey, target |-> NoUser]]
=============================================================================
