------------------------------ MODULE Containers ------------------------------
(***************************************************************************)
(* The tools create_docker_container and stop_and_remove_container          *)
(* (langgraph/nexus_tools.py over docker_tools.py).  Both are synchronous   *)
(* tools, which the agent server runs in threads: calls for one container   *)
(* name interleave at each request to the Docker daemon, and nothing        *)
(* serialises them.                                                         *)
(*                                                                          *)
(* A container is known by the call that made it: a create call makes one   *)
(* at most, with an id of its own.  The daemon itself is external: a name   *)
(* belongs to one container until its removal is over, which takes the      *)
(* daemon a while; an operation on a removed container answers 404, one     *)
(* that the container's state forbids answers 409.                          *)
(***************************************************************************)
EXTENDS Naturals

CONSTANTS Name,        \* container names
          Call,        \* calls of the two tools, each made once
          Tool,        \* Tool[c]: which tool
          NameOf,      \* NameOf[c]: its container_name
          None,        \* no container, no key
          MaxFaults    \* bound: requests to the daemon that fail for reasons of its own

ASSUME ContainerAssumption ==
    /\ Tool \in [Call -> {"create", "remove"}]
    /\ NameOf \in [Call -> Name]
    /\ None \notin Call
    /\ MaxFaults \in Nat

VARIABLES named,    \* named[n]: the container that has name n
          status,   \* status[k]: of the container that call k made
          key,      \* key[k]: the call whose private key is installed in container k
          at,       \* at[c]: where call c is
          found,    \* found[c]: the container c looked up last
          faults

dockerVars == <<named, status, key>>
vars == <<named, status, key, at, found, faults>>

Status == {"none", "created", "running", "stopped", "removing", "removed"}
Creating == {"find", "force", "run", "start", "upload"}
Removing == {"find stop", "stop", "find remove", "remove"}
Underway == Creating \cup Removing \cup {"removal"}
Ended == {"ok", "failed"}

TypeOK ==
    /\ named \in [Name -> Call \cup {None}]
    /\ status \in [Call -> Status]
    /\ key \in [Call -> Call \cup {None}]
    /\ at \in [Call -> {"new"} \cup Underway \cup Ended]
    /\ found \in [Call -> Call \cup {None}]
    /\ faults \in 0..MaxFaults

Init ==
    /\ named = [n \in Name |-> None]
    /\ status = [k \in Call |-> "none"]
    /\ key = [k \in Call |-> None]
    /\ at = [c \in Call |-> "new"]
    /\ found = [c \in Call |-> None]
    /\ faults = 0

Goto(c, l) == at' = [at EXCEPT ![c] = l]

Named(c) == named[NameOf[c]]

\* containers.get by name: the name is looked up now, used later by id
Get(c, hit, miss) ==
    /\ found' = [found EXCEPT ![c] = Named(c)]
    /\ Goto(c, IF Named(c) = None THEN miss ELSE hit)
    /\ UNCHANGED <<dockerVars, faults>>

\* the daemon begins to remove the container; the call waits for the end
BeginRemoval(c) ==
    /\ status' = [status EXCEPT ![found[c]] = "removing"]
    /\ Goto(c, "removal")

Invoke(c) ==
    /\ at[c] = "new"
    /\ Goto(c, IF Tool[c] = "create" THEN "find" ELSE "find stop")
    /\ UNCHANGED <<dockerVars, found, faults>>

----------------------------------------------------------------------------
\* create_docker_container

Find(c) == at[c] = "find" /\ Get(c, "force", "run")

\* remove(force=True); NotFound is passed over here too
ForceRemove(c) ==
    /\ at[c] = "force"
    /\ \/ status[found[c]] = "removed" /\ Goto(c, "run") /\ UNCHANGED status
       \/ status[found[c]] = "removing" /\ Goto(c, "failed") /\ UNCHANGED status
       \/ status[found[c]] \notin {"removing", "removed"} /\ BeginRemoval(c)
    /\ UNCHANGED <<named, key, found, faults>>

\* containers.run, first half: refused while another container has the name
Run(c) ==
    /\ at[c] = "run"
    /\ IF Named(c) = None
       THEN /\ named' = [named EXCEPT ![NameOf[c]] = c]
            /\ status' = [status EXCEPT ![c] = "created"]
            /\ Goto(c, "start")
       ELSE UNCHANGED <<named, status>> /\ Goto(c, "failed")
    /\ UNCHANGED <<key, found, faults>>

\* mutant: the container is created but not started
Start_Omitted(c) ==
    /\ at[c] = "start"
    /\ Goto(c, "upload")
    /\ UNCHANGED <<dockerVars, found, faults>>

\* second half: fails when another call has removed the container
Start(c) ==
    /\ at[c] = "start"
    /\ IF status[c] = "created"
       THEN status' = [status EXCEPT ![c] = "running"] /\ Goto(c, "upload")
       ELSE UNCHANGED status /\ Goto(c, "failed")
    /\ UNCHANGED <<named, key, found, faults>>

\* mutant: the private key goes to whatever container has the name now
Upload_ByName(c) ==
    /\ at[c] = "upload"
    /\ IF Named(c) # None
       THEN key' = [key EXCEPT ![Named(c)] = c] /\ Goto(c, "ok")
       ELSE UNCHANGED key /\ Goto(c, "failed")
    /\ UNCHANGED <<named, status, found, faults>>

\* a new key pair for each call; the public key is in the answer
Upload(c) ==
    /\ at[c] = "upload"
    /\ \/ status[c] # "removed" /\ key' = [key EXCEPT ![c] = c] /\ Goto(c, "ok")
       \/ status[c] \in {"removing", "removed"} /\ UNCHANGED key /\ Goto(c, "failed")
    /\ UNCHANGED <<named, status, found, faults>>

\* mutant: the exception leaves the tool
CreateFails_Uncaught(c) ==
    /\ at[c] \in Creating \/ (at[c] = "removal" /\ Tool[c] = "create")
    /\ faults < MaxFaults /\ faults' = faults + 1
    /\ Goto(c, "raised")
    /\ UNCHANGED <<dockerVars, found>>

\* what was done stays done: a container that did not start keeps its name, one
\* whose upload failed keeps running
CreateFails(c) ==
    /\ at[c] \in Creating \/ (at[c] = "removal" /\ Tool[c] = "create")
    /\ faults < MaxFaults /\ faults' = faults + 1
    /\ Goto(c, "failed")
    /\ UNCHANGED <<dockerVars, found>>

----------------------------------------------------------------------------
\* stop_and_remove_container: the outcome of the stop is not looked at

FindStop(c) == at[c] = "find stop" /\ Get(c, "stop", "find remove")

Stop(c) ==
    /\ at[c] = "stop"
    /\ Goto(c, "find remove")
    /\ status' = [status EXCEPT ![found[c]] = IF @ = "running" THEN "stopped" ELSE @]
    /\ UNCHANGED <<named, key, found, faults>>

FindRemove(c) == at[c] = "find remove" /\ Get(c, "remove", "failed")

\* mutant: remove_container is called with force=True
Remove_Force(c) ==
    /\ at[c] = "remove"
    /\ IF status[found[c]] \in {"created", "running", "stopped"}
       THEN BeginRemoval(c)
       ELSE Goto(c, "failed") /\ UNCHANGED status
    /\ UNCHANGED <<named, key, found, faults>>

\* without force: a container that runs is not removed
Remove(c) ==
    /\ at[c] = "remove"
    /\ IF status[found[c]] \in {"created", "stopped"}
       THEN BeginRemoval(c)
       ELSE Goto(c, "failed") /\ UNCHANGED status
    /\ UNCHANGED <<named, key, found, faults>>

\* a request of the stop that fails is passed over, one of the removal is not
RemoveFails(c) ==
    /\ at[c] \in Removing \/ (at[c] = "removal" /\ Tool[c] = "remove")
    /\ faults < MaxFaults /\ faults' = faults + 1
    /\ Goto(c, IF at[c] \in {"find stop", "stop"} THEN "find remove" ELSE "failed")
    /\ UNCHANGED <<dockerVars, found>>

----------------------------------------------------------------------------
\* the daemon: the container is gone and its name is free

RemovalEnds(k) ==
    /\ status[k] = "removing"
    /\ status' = [status EXCEPT ![k] = "removed"]
    /\ named' = [n \in Name |-> IF named[n] = k THEN None ELSE named[n]]
    /\ UNCHANGED <<key, at, found, faults>>

RemovalAnswered(c) ==
    /\ at[c] = "removal" /\ status[found[c]] = "removed"
    /\ Goto(c, IF Tool[c] = "create" THEN "run" ELSE "ok")
    /\ UNCHANGED <<dockerVars, found, faults>>

----------------------------------------------------------------------------
CreateStep(c) ==
    \/ Find(c) \/ ForceRemove(c) \/ Run(c) \/ Start(c) \/ Upload(c) \/ CreateFails(c)

RemoveStep(c) ==
    \/ FindStop(c) \/ Stop(c) \/ FindRemove(c) \/ Remove(c) \/ RemoveFails(c)

Next == \E c \in Call :
    Invoke(c) \/ CreateStep(c) \/ RemoveStep(c) \/ RemovalEnds(c) \/ RemovalAnswered(c)

Spec == Init /\ [][Next]_vars

----------------------------------------------------------------------------
(***************************************************************************)
(* Properties                                                               *)
(***************************************************************************)

\* Overlapping create calls remove and replace each other's container between
\* their requests.  Nevertheless a private key only ever gets into the container
\* its own call made, and a call that answered with a public key has put the
\* private one there.  (upload by id, nexus_tools.create_docker_container)
ReportedKeyInstalled ==
    \A c \in Call :
        /\ key[c] # None => key[c] = c
        /\ Tool[c] = "create" /\ at[c] = "ok" => key[c] = c

\* However many create calls for a name overlap, none of them failing for a reason
\* of the daemon's: when all have answered, the name belongs to a running
\* container whose call answered with success and whose key is in it.  They never
\* all lose to each other, nor leave a container that no answer tells of.
CreatesConverge ==
    \A n \in Name :
        LET On == {c \in Call : NameOf[c] = n /\ at[c] # "new"} IN
        /\ faults = 0 /\ On # {}
        /\ \A c \in On : Tool[c] = "create" /\ at[c] \in Ended
        => LET k == named[n] IN
           k \in On /\ at[k] = "ok" /\ status[k] = "running" /\ key[k] = k

\* A container that runs disappears only for a create call that replaces it, never
\* for stop_and_remove_container: when a create call gets in between its stop and
\* its removal, the new container survives.  (remove without force)
RunningOnlyReplaced ==
    [][\A k \in Call : status[k] = "running" /\ status'[k] \in {"removing", "removed"} =>
          \E c \in Call : Tool[c] = "create" /\ at[c] = "force" /\ at'[c] # "force"]_vars
=============================================================================
