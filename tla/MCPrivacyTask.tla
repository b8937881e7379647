---------------------------- MODULE MCPrivacyTask ----------------------------
(***************************************************************************)
(* Instances of PrivacyTask for TLC.  Alice starts the computations, Bob is *)
(* the partner.                                                             *)
(***************************************************************************)
EXTENDS PrivacyTask, TLC

CONSTANTS alice, bob,
          t1, t2, p1, p2,      \* tasks: t1, t2 in Alice's container, p1, p2 their partners
          id, age,             \* columns
          d1, d2, e1,          \* datasets: Alice's two, the partners' one
          addrA, addrB, old    \* keys and URLs; old: those of a container that is gone

MCAddressOf == alice :> addrA @@ bob :> addrB

MCHeaderOf == [d \in Dataset |-> IF d = e1 THEN {id} ELSE {id, age}]

\* the peer may read the column; a first permission has a name the broker does not know
Permissions(p) == <<[user |-> p, supported |-> FALSE], [user |-> p, supported |-> TRUE]>>

Columns(p, second) ==
    <<[name |-> id, permissions |-> Permissions(p)]>>
        \o [i \in 1..Len(second) |-> [name |-> second[i], permissions |-> <<>>]]

Initiate(u, p, key, d, n) ==
    [user |-> u, own |-> MCAddressOf[u], peer |-> p, key |-> key, data |-> d,
     columns |-> Columns(p, <<age>>), query |-> {<<u, id>>, <<p, id>>}, size |-> n]

Partake(u, p, d) ==
    [user |-> u, own |-> MCAddressOf[u], peer |-> p, key |-> MCAddressOf[p], data |-> d,
     columns |-> Columns(p, <<>>), query |-> {}, size |-> 0]

\* one task on each side
ReqProtocol == t1 :> Initiate(alice, bob, addrB, d1, 2) @@ p1 :> Partake(bob, alice, e1)

\* a second, shorter query on another dataset, whose request has an outdated key of
\* the peer, and a partner rerun without data
ReqRerun == ReqProtocol @@ t2 :> Initiate(alice, bob, old, d2, 1) @@ p2 :> Partake(bob, alice, Empty)

\* the same request submitted twice
ReqOverlap == ReqProtocol @@ t2 :> Initiate(alice, bob, addrB, d1, 2)
=============================================================================
