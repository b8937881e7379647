------------------------------ MODULE ScqlBroker ------------------------------
(***************************************************************************)
(* The SecretFlow SCQL brokers, one per privacy container, as far as        *)
(* privacy_computing/ uses them.  The broker is a binary that the           *)
(* repository ships without its source, so this module is EXTERNAL: it      *)
(* states what the calls of broker_util.go and the error texts that task.go *)
(* tests for take for granted.                                              *)
(*                                                                          *)
(* Assumptions made about the broker:                                       *)
(*   - it reads config.yml and party_info.json when it starts, and exits at *)
(*     once when one of them is empty or garbled;                           *)
(*   - it talks only to the peer named in party_info.json: a call between   *)
(*     two brokers needs both to run, and each to have loaded the other     *)
(*     with the key and the URL that it really has; a query also needs the  *)
(*     engines' URLs in both config.yml;                                    *)
(*   - projects, invitations, tables and grants live in MySQL and survive a *)
(*     restart of the broker;                                               *)
(*   - invitations are listed in the order of their ids, handled ones       *)
(*     included, and handling one a second time answers "record not found"; *)
(*   - inviting a party that is already a member answers "project already   *)
(*     contains invitee"; inviting it twice before it joined leaves two     *)
(*     invitations;                                                         *)
(*   - a table is registered once: a second registration answers "already   *)
(*     exists" and changes nothing.                                         *)
(***************************************************************************)
EXTENDS Naturals, Sequences

CONSTANTS Party,      \* party codes; one container with one broker each
          Column,     \* column names
          Address,    \* public keys with the URLs that go with them
          AddressOf,  \* AddressOf[p]: the key and the URLs that p's container really has
          Template,   \* a file that still holds the placeholders
          Blank,      \* a file of length 0
          Spoilt,     \* one text written over the beginning of a longer one
          Down        \* the broker process is not running

File == {"config.yml", "party_info.json"}

\* the settings in config.yml, and those in party_info.json
Link == [own : Address, peer : Party, key : Address]
Text == {Template, Blank, Spoilt} \cup Address \cup Link

ASSUME LinkAssumption ==
    /\ AddressOf \in [Party -> Address]
    /\ {Template, Blank, Spoilt} \cap (Address \cup Link) = {}
    /\ Template \notin {Blank, Spoilt} /\ Blank # Spoilt
    /\ Down \notin [File -> Text]

VARIABLES conf,       \* conf[p][f]: the content of file f in p's container
          running,    \* running[p]: the files that p's broker loaded, or Down
          members,    \* members[p]: members of project "tsql" as p's broker knows them
          invites,    \* invites[p]: invitations p received, in id order
          vtable,     \* vtable[p]: columns of p's registered table, {} if none
          ccl         \* grants: <<owner, column, grantee>>

brokerVars == <<conf, running, members, invites, vtable, ccl>>

Grant == Party \X Column \X Party

Invitation == [from : Party, status : {"undecided", "accepted"}]

BrokerTypeOK ==
    /\ conf \in [Party -> [File -> Text]]
    /\ running \in [Party -> [File -> Text] \cup {Down}]
    /\ members \in [Party -> SUBSET Party]
    /\ invites \in [Party -> Seq(Invitation)]
    /\ vtable \in [Party -> SUBSET Column]
    /\ ccl \subseteq Grant

\* supervisord starts the broker with the container, on the template files
BrokerInit ==
    /\ conf = [p \in Party |-> [f \in File |-> Template]]
    /\ running = conf
    /\ members = [p \in Party |-> {}]
    /\ invites = [p \in Party |-> <<>>]
    /\ vtable = [p \in Party |-> {}]
    /\ ccl = {}

----------------------------------------------------------------------------
\* conditions on the state of the brokers

Up(p) == running[p] # Down

Usable(p) == \A f \in File : conf[p][f] \notin {Blank, Spoilt}

TrueLink(p, q) == [own |-> AddressOf[p], peer |-> q, key |-> AddressOf[q]]

Knows(p, q) == Up(p) /\ running[p]["party_info.json"] = TrueLink(p, q)

Linked(p, q) == Knows(p, q) /\ Knows(q, p)

\* its engine can be reached
Computes(p) == Up(p) /\ running[p]["config.yml"] = AddressOf[p]

HasProject(p) == members[p] # {}

IsInvited(p) == invites[p] # <<>>

\* JoinProject looks at the first invitation only
FirstInvitation(p) == Head(invites[p])

\* DoQuery involves every other member of the project
ReachesMembers(p) == \A q \in members[p] \ {p} : Linked(p, q) /\ Computes(p) /\ Computes(q)

----------------------------------------------------------------------------
\* what the calls change

StopBroker(p) ==
    /\ running' = [running EXCEPT ![p] = Down]
    /\ UNCHANGED <<conf, members, invites, vtable, ccl>>

\* the process supervisord restarted has read its files and listens
BrokerReady(p) ==
    /\ ~Up(p) /\ Usable(p)
    /\ running' = [running EXCEPT ![p] = conf[p]]
    /\ UNCHANGED <<conf, members, invites, vtable, ccl>>

BrokerCreateProject(p) ==
    /\ Up(p) /\ ~HasProject(p)
    /\ members' = [members EXCEPT ![p] = {p}]
    /\ UNCHANGED <<conf, running, invites, vtable, ccl>>

BrokerInvite(p, q) ==
    /\ Linked(p, q) /\ HasProject(p) /\ q \notin members[p]
    /\ invites' = [invites EXCEPT ![q] = Append(@, [from |-> p, status |-> "undecided"])]
    /\ UNCHANGED <<conf, running, members, vtable, ccl>>

\* q accepts its first invitation: both sides now know the joined project
BrokerAccept(q) ==
    /\ IsInvited(q) /\ FirstInvitation(q).status = "undecided"
    /\ LET p == FirstInvitation(q).from
           joined == members[p] \cup members[q] \cup {q}
       IN /\ Linked(p, q)
          /\ members' = [members EXCEPT ![p] = joined, ![q] = joined]
    /\ invites' = [invites EXCEPT ![q][1].status = "accepted"]
    /\ UNCHANGED <<conf, running, vtable, ccl>>

\* "record not found": the first invitation was handled before
AlreadyHandled(q) == Up(q) /\ IsInvited(q) /\ FirstInvitation(q).status = "accepted"

BrokerCreateTable(p, cols) ==
    /\ Up(p) /\ HasProject(p) /\ vtable[p] = {}
    /\ vtable' = [vtable EXCEPT ![p] = cols]
    /\ UNCHANGED <<conf, running, members, invites, ccl>>

\* GrantCCL answers without an error
Grantable(p, c) == Up(p) /\ c \in vtable[p]

BrokerGrant(grants) ==
    /\ ccl' = ccl \cup grants
    /\ UNCHANGED <<conf, running, members, invites, vtable>>

\* DoQuery answers p without an error: each column read is registered and granted
Permitted(p, reads) ==
    /\ Up(p) /\ HasProject(p) /\ ReachesMembers(p)
    /\ \A r \in reads : r[1] \in members[p] /\ r[2] \in vtable[r[1]] /\ <<r[1], r[2], p>> \in ccl
=============================================================================
