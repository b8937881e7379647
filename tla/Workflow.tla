------------------------------- MODULE Workflow -------------------------------
(***************************************************************************)
(* Sessions in which a user's agent runs the workflow of its prompt          *)
(* (langgraph/react_agent.py) with the tools of nexus_tools.py: create the   *)
(* own container, make the partner's agent create its one, exchange the     *)
(* public keys, start both tasks, the partner's first, and query the log.   *)
(*                                                                          *)
(* Composed of Containers (each session has two create calls) and of         *)
(* PartnerThreads (each session sends twice).  That the language model keeps *)
(* to the prompt is assumed; it decides nothing else here.  A task and a      *)
(* computation, the subject of PrivacyTask, are one step each: the first     *)
(* task of a container configures it for good, and two containers compute    *)
(* that are configured with each other's keys.                              *)
(***************************************************************************)
EXTENDS Integers

CONSTANTS User, Session,
          Initiator, Partner,   \* of each session
          None, CACHE_TTL, MaxTime,
          Together,             \* bound: the sets of sessions that may be begun
          MaxFaults             \* bound: failed runs, broken connections, answers not waited for,
                                \* and ticks of the clock

VARIABLES named, status, key, docker, found, dockerFaults,                      \* Containers
          cache, now, send, asked, thread, run, last, seen, sendFaults,         \* PartnerThreads
          serving,    \* containers whose privacy service is up, and its log there
          stage,      \* stage[s]: step of the workflow
          peerKey,    \* peerKey[s]: partner_public_key
          outcome,    \* outcome[s]: of the partner's start_privacy_run
          tasks,      \* tasks that privacy services accepted
          conf,       \* conf[k]: the task that filled in the files of container k
          done,       \* done[k]: containers that the results in the log of container k were
                      \* computed with
          lost

Own(s) == <<s, "own">>
Peer(s) == <<s, "peer">>
DockerCall == Session \X {"own", "peer"}
CreateTool == [c \in DockerCall |-> "create"]
ContainerName == [c \in DockerCall |-> IF c[2] = "own" THEN Initiator[c[1]] ELSE Partner[c[1]]]

SendCall == Session \X {"create", "start"}
NotNested == [c \in SendCall |-> None]

D == INSTANCE Containers WITH
        Name <- User, Call <- DockerCall, Tool <- CreateTool,
        NameOf <- ContainerName, MaxFaults <- 0,
        at <- docker, faults <- dockerFaults

T == INSTANCE PartnerThreads WITH
        Call <- SendCall, Parent <- NotNested,
        at <- send, faults <- sendFaults

ASSUME WorkflowAssumption ==
    /\ Initiator \in [Session -> User] /\ Partner \in [Session -> User]
    /\ \A s \in Session : Initiator[s] # Partner[s]
    /\ None \notin DockerCall \cup SendCall
    /\ Together \subseteq SUBSET Session
    /\ CACHE_TTL \in Nat /\ MaxTime \in Nat /\ MaxFaults \in Nat

dockerVars == <<named, status, key, docker, found, dockerFaults>>
sendVars == <<cache, now, send, asked, thread, run, last, seen, sendFaults>>
sessionVars == <<serving, stage, peerKey, outcome, tasks, conf, done, lost>>
vars == <<dockerVars, sendVars, sessionVars>>

Task == [session : Session, side : {"own", "peer"}, container : DockerCall,
         userkey : DockerCall, pubkey : DockerCall]

TypeOK ==
    /\ D!TypeOK /\ T!TypeOK
    /\ serving \subseteq DockerCall
    /\ stage \in [Session -> {"new", "create", "ask create", "ask start", "run", "poll",
                              "reported", "interrupted"}]
    /\ peerKey \in [Session -> DockerCall \cup {None}]
    /\ outcome \in [Session -> {"none", "accepted", "refused", "lost"}]
    /\ tasks \subseteq Task
    /\ conf \in [DockerCall -> Task \cup {None}]
    /\ done \in [DockerCall -> SUBSET DockerCall]
    /\ lost \in 0..MaxFaults

Init ==
    /\ D!Init /\ T!Init
    /\ serving = {}
    /\ stage = [s \in Session |-> "new"]
    /\ peerKey = [s \in Session |-> None]
    /\ outcome = [s \in Session |-> "none"]
    /\ tasks = {}
    /\ conf = [k \in DockerCall |-> None]
    /\ done = [k \in DockerCall |-> {}]
    /\ lost = 0

CanOccur == sendFaults + lost + now < MaxFaults

Reach(s, l) == stage' = [stage EXCEPT ![s] = l]

\* a step of one component that no session takes part in
DockerOnly == UNCHANGED <<sendVars, sessionVars>>
SendOnly == UNCHANGED <<dockerVars, sessionVars>>

\* http://tsql_{u}:8000 is the service of whatever container has the name now
ServiceOf(u) == {k \in serving : named[u] = k /\ status[k] = "running"}

----------------------------------------------------------------------------
\* the initiator's agent

Begun == {s \in Session : stage[s] # "new"}

CreateOwn(s) ==
    /\ stage[s] = "new" /\ \E S \in Together : Begun \cup {s} \subseteq S
    /\ D!Invoke(Own(s))
    /\ Reach(s, "create")
    /\ UNCHANGED <<sendVars, serving, peerKey, outcome, tasks, conf, done, lost>>

Ask(c) == T!Hit(c) \/ T!Miss(c)

AskCreate(s) ==
    /\ stage[s] = "create" /\ docker[Own(s)] = "ok"
    /\ Ask(<<s, "create">>)
    /\ Reach(s, "ask create")
    /\ UNCHANGED <<dockerVars, serving, peerKey, outcome, tasks, conf, done, lost>>

\* the session a reply tells the success of: its text is all the agent has
Told(c, succeeded) ==
    {x \in succeeded : send[c] = "returned" /\ seen[c] = [by |-> <<x, c[2]>>, final |-> TRUE]}

\* a reply that tells no success interrupts the workflow
ExchangeKeys(s) ==
    /\ stage[s] = "ask create" /\ T!Ended(<<s, "create">>)
    /\ \E x \in Told(<<s, "create">>, {y \in Session : docker[Peer(y)] = "ok"}) :
          peerKey' = [peerKey EXCEPT ![s] = Peer(x)]
    /\ Ask(<<s, "start">>)
    /\ Reach(s, "ask start")
    /\ UNCHANGED <<dockerVars, serving, outcome, tasks, conf, done, lost>>

PartnerStarted(s) ==
    /\ stage[s] = "ask start" /\ T!Ended(<<s, "start">>)
    /\ Told(<<s, "start">>, {x \in Session : outcome[x] = "accepted"}) # {}
    /\ Reach(s, "run")
    /\ UNCHANGED <<dockerVars, sendVars, serving, peerKey, outcome, tasks, conf, done, lost>>

Failed(s) ==
    \/ stage[s] = "create" /\ docker[Own(s)] = "failed"
    \/ /\ stage[s] = "ask create" /\ T!Ended(<<s, "create">>)
       /\ Told(<<s, "create">>, {x \in Session : docker[Peer(x)] = "ok"}) = {}
    \/ /\ stage[s] = "ask start" /\ T!Ended(<<s, "start">>)
       /\ Told(<<s, "start">>, {x \in Session : outcome[x] = "accepted"}) = {}
    \/ stage[s] = "poll" /\ ServiceOf(Initiator[s]) = {}

Interrupt(s) ==
    /\ Failed(s)
    /\ Reach(s, "interrupted")
    /\ UNCHANGED <<dockerVars, sendVars, serving, peerKey, outcome, tasks, conf, done, lost>>

----------------------------------------------------------------------------
\* start_privacy_run and query_log

\* mutant: party.pubkey is the user's own key on both sides
TaskJson_OwnKey(s, side, k) ==
    [session |-> s, side |-> side, container |-> k,
     userkey |-> IF side = "own" THEN Own(s) ELSE peerKey[s],
     pubkey |-> IF side = "own" THEN Own(s) ELSE peerKey[s]]

TaskJson(s, side, k) ==
    [session |-> s, side |-> side, container |-> k,
     userkey |-> IF side = "own" THEN Own(s) ELSE peerKey[s],
     pubkey |-> IF side = "own" THEN peerKey[s] ELSE Own(s)]

\* it is accepted; the answer may take longer than the ten seconds of the tool
Accepted(s, side) ==
    \E k \in ServiceOf(IF side = "own" THEN Initiator[s] ELSE Partner[s]) :
        tasks' = tasks \cup {TaskJson(s, side, k)}

AnswerLost == CanOccur /\ lost' = lost + 1

\* a start that failed is repeated when the user agrees
StartOwn(s) ==
    /\ stage[s] = "run"
    /\ Accepted(s, "own")
    /\ \/ Reach(s, "poll") /\ UNCHANGED lost
       \/ AnswerLost /\ UNCHANGED stage
    /\ UNCHANGED <<dockerVars, sendVars, serving, peerKey, outcome, conf, done>>

\* the results that the log of the container that has the name now tells
LogOf(u) == UNION {done[k] : k \in ServiceOf(u)}

QueryLog(s) ==
    /\ stage[s] = "poll"
    /\ LogOf(Initiator[s]) # {}
    /\ Reach(s, "reported")
    /\ UNCHANGED <<dockerVars, sendVars, serving, peerKey, outcome, tasks, conf, done, lost>>

----------------------------------------------------------------------------
\* the partner's agent, in the run of a send

PartnerCreates(s) ==
    /\ T!Free(<<s, "create">>)
    /\ D!Invoke(Peer(s))
    /\ UNCHANGED <<sendVars, sessionVars>>

PartnerStarts(s) ==
    /\ T!Free(<<s, "start">>) /\ outcome[s] = "none"
    /\ \/ /\ Accepted(s, "peer")
          /\ \/ outcome' = [outcome EXCEPT ![s] = "accepted"] /\ UNCHANGED lost
             \/ outcome' = [outcome EXCEPT ![s] = "lost"] /\ AnswerLost
       \/ /\ ServiceOf(Partner[s]) = {}
          /\ outcome' = [outcome EXCEPT ![s] = "refused"]
          /\ UNCHANGED <<tasks, lost>>
    /\ UNCHANGED <<dockerVars, sendVars, serving, stage, peerKey, conf, done>>

InTool(c) == c[2] = "create" /\ docker[Peer(c[1])] \notin {"new"} \cup D!Ended
ToolDone(c) ==
    IF c[2] = "create" THEN docker[Peer(c[1])] \in D!Ended ELSE outcome[c[1]] # "none"

----------------------------------------------------------------------------
\* containers, sends and computations

\* supervisord starts the privacy service in a container that runs
Serve(k) ==
    /\ status[k] = "running" /\ k \notin serving
    /\ serving' = serving \cup {k}
    /\ UNCHANGED <<dockerVars, sendVars, stage, peerKey, outcome, tasks, conf, done, lost>>

DockerStep(c) ==
    /\ D!CreateStep(c) \/ D!RemovalEnds(c) \/ D!RemovalAnswered(c)
    /\ DockerOnly

\* DealTask: once the placeholders are replaced, there is nothing left to replace
Configure(t) ==
    /\ status[t.container] = "running" /\ conf[t.container] = None
    /\ conf' = [conf EXCEPT ![t.container] = t]
    /\ UNCHANGED <<dockerVars, sendVars, serving, stage, peerKey, outcome, tasks, done, lost>>

UserOf(t) == IF t.side = "own" THEN Initiator[t.session] ELSE Partner[t.session]
PartyOf(t) == IF t.side = "own" THEN Partner[t.session] ELSE Initiator[t.session]

\* party_info.json of container k has its own key, and names v with the key of container m
Knows(k, v, m) ==
    /\ conf[k] # None
    /\ PartyOf(conf[k]) = v
    /\ conf[k].userkey = key[k] /\ conf[k].pubkey = key[m]

\* brokers find each other under the names tsql_{user}
Linked(u, k, v, m) ==
    /\ k \in ServiceOf(u) /\ m \in ServiceOf(v)
    /\ Knows(k, v, m) /\ Knows(m, u, k)

\* a task that has a query computes with one that joins, whichever tasks configured the two
Compute(t, u) ==
    /\ t.side = "own" /\ u.side = "peer"
    /\ Linked(UserOf(t), t.container, PartyOf(t), u.container)
    /\ done' = [done EXCEPT ![t.container] = @ \cup {u.container}]
    /\ UNCHANGED <<dockerVars, sendVars, serving, stage, peerKey, outcome, tasks, conf, lost>>

Agent(s) ==
    \/ AskCreate(s) \/ ExchangeKeys(s) \/ PartnerStarted(s) \/ StartOwn(s) \/ QueryLog(s)
    \/ Interrupt(s)
    \/ PartnerCreates(s) \/ PartnerStarts(s)

\* what the agents, the daemon, supervisord and the agent server do for s when they
\* can, and nothing of what may go wrong
Work(s) ==
    \/ Agent(s)
    \/ \E k \in {Own(s), Peer(s)} : Serve(k) \/ DockerStep(k)
    \/ \E kind \in {"create", "start"} : LET c == <<s, kind>> IN
          /\ T!Store(c) \/ T!Post(c) \/ T!RunStarts(c) \/ (ToolDone(c) /\ T!RunFinishes(c))
          /\ SendOnly
    \/ \E t \in tasks : t.session = s /\ (Configure(t) \/ \E u \in tasks : Compute(t, u))

Disturb(s) == CanOccur /\ \E kind \in {"create", "start"} : LET c == <<s, kind>> IN
    /\ T!Break(c) \/ (~InTool(c) /\ T!RunFails(c))
    /\ SendOnly

\* bound: time passes only between sends, and while a thread is cached
TimePasses ==
    /\ CanOccur /\ cache.thread # None
    /\ \A c \in SendCall : send[c] = "new" \/ T!Ended(c)
    /\ T!Tick /\ SendOnly

Next ==
    \/ \E s \in Session : CreateOwn(s) \/ Work(s) \/ Disturb(s)
    \/ TimePasses

Spec == Init /\ [][Next]_vars

NothingWrong == sendFaults = 0 /\ lost = 0

\* some work is done as long as there is any on a session, its users confirming;
\* nothing is assumed once something has gone wrong
FairSpec == Spec /\ WF_vars(NothingWrong /\ \E s \in Session : Work(s))

----------------------------------------------------------------------------
(***************************************************************************)
(* Properties                                                               *)
(***************************************************************************)

\* Sessions replace each other's containers, names are looked up anew at each step,
\* and a container keeps the keys of its first task.  A session may so get its result
\* in containers that another one created; but, while no send fails, never in one
\* container of one session and one of another: the two keys would not match.
\* (create_docker_container, start_privacy_run, DealTask)
ComputedWithinASession ==
    sendFaults = 0 =>
        \A k \in DockerCall : \A m \in done[k] :
            \E x \in Session : {k, m} = {Own(x), Peer(x)}

\* All sessions talk to their partners in shared threads.  While no run fails, the
\* key an agent takes for its partner's is nevertheless the one of the container
\* that its own request created.  (send_to_partner_agent)
KeysAreOfThisSession ==
    sendFaults = 0 => \A s \in Session : peerKey[s] \in {None, Peer(s)}

\* The users of s take part in no other session that was begun.
Undisturbed(s) ==
    \A x \in Begun \ {s} : {Initiator[s], Partner[s]} \cap {Initiator[x], Partner[x]} = {}

\* A session that shares its thread, but no user, with others is not kept from its
\* result by them.  If nothing fails it reports, unless its partner's service is not up
\* yet when the task is started, or the server refuses a run of a thread that others use.
ReportsUndisturbed(s) ==
    [](Undisturbed(s) /\ NothingWrong) =>
        (stage[s] # "new" ~> \/ stage[s] = "reported" \/ outcome[s] = "refused"
                            \/ \E kind \in {"create", "start"} : send[<<s, kind>>] = "error")
=============================================================================
