---------------------------- MODULE WorkflowProofs ----------------------------
(***************************************************************************)
(* Theorems about Workflow, for any users, any number of sessions that share *)
(* them, and any bounds of time and of faults.                              *)
(***************************************************************************)
EXTENDS Workflow, TLAPS

\* sends of s by the agent, and what containers and sends do for s
Move(s) ==
    \/ CreateOwn(s) \/ Agent(s) \/ Disturb(s)
    \/ \E k \in {Own(s), Peer(s)} : Serve(k) \/ DockerStep(k)
    \/ \E kind \in {"create", "start"} : LET c == <<s, kind>> IN
          /\ T!Store(c) \/ T!Post(c) \/ T!RunStarts(c) \/ (ToolDone(c) /\ T!RunFinishes(c))
          /\ SendOnly
    \/ \E t \in tasks : t.session = s /\ (Configure(t) \/ \E u \in tasks : Compute(t, u))

LEMMA MoveOfSession == [Next]_vars =>
    (\E s \in Session : Move(s)) \/ (T!Tick /\ SendOnly) \/ UNCHANGED vars
BY DEF Next, Work, Move, TimePasses

----------------------------------------------------------------------------
LEMMA CallsOfSession ==
    ASSUME NEW s \in Session
    PROVE  Own(s) \in DockerCall /\ Peer(s) \in DockerCall /\ Own(s) # None
BY WorkflowAssumption DEF Own, Peer, DockerCall
----------------------------------------------------------------------------
(***************************************************************************)
(* Whose key an agent takes for its partner's.                              *)
(***************************************************************************)
SendState == {"new", "create", "post", "stream", "returned", "error"}
RunState == {"none", "queued", "active", "finished", "failed"}

SendOK(c) ==
    /\ send[c] \in {"new", "create", "post"} => run[c] = "none"
    /\ send[c] = "stream" => run[c] \in {"queued", "active"}
    /\ send[c] = "returned" => run[c] \in {"finished", "failed"}
    /\ send[c] = "returned" /\ run[c] = "finished" => seen[c] = [by |-> c, final |-> TRUE]
    /\ sendFaults = 0 => run[c] # "failed"

SendsInv ==
    /\ send \in [SendCall -> SendState] /\ run \in [SendCall -> RunState]
    /\ seen = [c \in SendCall |-> seen[c]]
    /\ sendFaults \in Nat
    /\ \A c \in SendCall : SendOK(c)

PeerInv == SendsInv /\ peerKey \in [Session -> DockerCall \cup {None}] /\ KeysAreOfThisSession

\* the steps of PartnerThreads that are steps of Workflow
SendStep(c) ==
    \/ T!Hit(c) \/ T!Miss(c) \/ T!Store(c) \/ T!Post(c) \/ T!Break(c)
    \/ T!RunStarts(c) \/ T!RunFinishes(c) \/ T!RunFails(c)

LEMMA SendsFrame ==
    ASSUME SendsInv, UNCHANGED <<send, run, seen, sendFaults>> PROVE SendsInv'
BY DEF SendsInv, SendOK

\* a step of one send changes nothing of another
LEMMA OtherSends ==
    ASSUME SendsInv, NEW c \in SendCall, SendStep(c)
    PROVE  /\ send' \in [SendCall -> SendState] /\ run' \in [SendCall -> RunState]
           /\ seen' = [d \in SendCall |-> seen'[d]]
           /\ sendFaults' \in Nat /\ (sendFaults' = 0 => sendFaults = 0)
           /\ \A d \in SendCall \ {c} : send'[d] = send[d] /\ run'[d] = run[d] /\ seen'[d] = seen[d]
<1> USE DEF SendsInv, SendState, RunState, T!Goto, T!Receive, T!StreamEnds, T!serverVars
<1>1. CASE T!Hit(c) \/ T!Miss(c) \/ T!Store(c)
    BY <1>1 DEF T!Hit, T!Miss, T!Store
<1>2. CASE T!Post(c) \/ T!Break(c)
    BY <1>2 DEF T!Post, T!Break, T!Fault
<1>3. CASE T!RunStarts(c)
    BY <1>3 DEF T!RunStarts
<1>4. CASE T!RunFinishes(c)
    BY <1>4 DEF T!RunFinishes
<1>5. CASE T!RunFails(c)
    BY <1>5 DEF T!RunFails, T!Fault
<1> QED
    BY <1>1, <1>2, <1>3, <1>4, <1>5 DEF SendStep

LEMMA OwnSend ==
    ASSUME SendsInv, NEW c \in SendCall, SendStep(c)
    PROVE  SendOK(c)'
<1>0. SendOK(c) /\ send \in [SendCall -> SendState] /\ run \in [SendCall -> RunState]
      /\ seen = [d \in SendCall |-> seen[d]] /\ sendFaults \in Nat
    BY DEF SendsInv
<1> USE <1>0 DEF SendOK, SendState, RunState, T!Goto, T!Receive, T!StreamEnds, T!serverVars
<1>1. CASE T!Hit(c) \/ T!Miss(c) \/ T!Store(c)
    BY <1>1 DEF T!Hit, T!Miss, T!Store, T!CanBegin
<1>2. CASE T!Post(c) \/ T!Break(c)
    BY <1>2 DEF T!Post, T!Break, T!Fault
<1>3. CASE T!RunStarts(c)
    BY <1>3 DEF T!RunStarts
<1>4. CASE T!RunFinishes(c)
    BY <1>4 DEF T!RunFinishes, T!Free
<1>5. CASE T!RunFails(c)
    BY <1>5 DEF T!RunFails, T!Free, T!Fault
<1> QED
    BY <1>1, <1>2, <1>3, <1>4, <1>5 DEF SendStep

LEMMA SendsStep ==
    ASSUME SendsInv, NEW c \in SendCall, SendStep(c)
    PROVE  SendsInv' /\ (sendFaults' = 0 => sendFaults = 0)
<1>1. \A d \in SendCall \ {c} : SendOK(d)'
    BY OtherSends DEF SendsInv, SendOK
<1> QED
    BY <1>1, OtherSends, OwnSend DEF SendsInv

LEMMA SendsOfSession ==
    ASSUME NEW s \in Session, NEW kind \in {"create", "start"}
    PROVE  <<s, kind>> \in SendCall
BY DEF SendCall

LEMMA PeerInit == Init => PeerInv
BY DEF Init, T!Init, PeerInv, SendsInv, SendOK, SendState, RunState, KeysAreOfThisSession

LEMMA PeerFrame ==
    ASSUME PeerInv, UNCHANGED peerKey, SendsInv', sendFaults' = 0 => sendFaults = 0 PROVE PeerInv'
BY DEF PeerInv, KeysAreOfThisSession

LEMMA PeerFrameAll ==
    ASSUME PeerInv, UNCHANGED peerKey, UNCHANGED <<send, run, seen, sendFaults>> PROVE PeerInv'
BY SendsFrame, PeerFrame DEF PeerInv

\* the text an agent reads is the reply to its own request, if no run has failed
LEMMA PeerExchange == ASSUME PeerInv, NEW s \in Session, ExchangeKeys(s) PROVE PeerInv'
<1> DEFINE c == <<s, "create">>
<1>1. SendsInv' /\ (sendFaults' = 0 => sendFaults = 0)
    BY SendsOfSession, SendsStep DEF ExchangeKeys, Ask, SendStep, PeerInv
<1>2. PICK x \in Session : /\ send[c] = "returned" /\ seen[c] = [by |-> <<x, "create">>, final |-> TRUE]
                           /\ peerKey' = [peerKey EXCEPT ![s] = Peer(x)]
    BY DEF ExchangeKeys, Told
<1>3. sendFaults = 0 => x = s
    <2>1. SendOK(c)
        BY SendsOfSession DEF PeerInv, SendsInv
    <2>2. sendFaults = 0 => seen[c] = [by |-> c, final |-> TRUE]
        BY <1>2, <2>1 DEF SendOK
    <2> QED
        BY <1>2, <2>2
<1>4. \A d \in Session : sendFaults = 0 => peerKey'[d] \in {None, Peer(d)}
    BY <1>2, <1>3 DEF PeerInv, KeysAreOfThisSession
<1>5. peerKey' \in [Session -> DockerCall \cup {None}]
    BY <1>2, CallsOfSession DEF PeerInv
<1> QED
    BY <1>1, <1>4, <1>5 DEF PeerInv, KeysAreOfThisSession

LEMMA PeerAgent == ASSUME PeerInv, NEW s \in Session, Agent(s) PROVE PeerInv'
<1>1. CASE AskCreate(s)
    BY <1>1, SendsOfSession, SendsStep, PeerFrame DEF AskCreate, Ask, SendStep, PeerInv
<1>2. CASE ExchangeKeys(s)
    BY <1>2, PeerExchange
<1>3. CASE PartnerStarted(s) \/ StartOwn(s) \/ QueryLog(s) \/ Interrupt(s)
    BY <1>3, PeerFrameAll DEF PartnerStarted, StartOwn, QueryLog, Interrupt, sendVars
<1>4. CASE PartnerCreates(s) \/ PartnerStarts(s)
    BY <1>4, PeerFrameAll DEF PartnerCreates, PartnerStarts, sendVars, sessionVars
<1> QED
    BY <1>1, <1>2, <1>3, <1>4 DEF Agent

LEMMA PeerNext == PeerInv /\ [Next]_vars => PeerInv'
<1> SUFFICES ASSUME PeerInv, [Next]_vars PROVE PeerInv'
    OBVIOUS
<1>1. CASE UNCHANGED vars \/ (T!Tick /\ SendOnly)
    BY <1>1, PeerFrameAll DEF vars, sendVars, sessionVars, SendOnly, T!Tick, T!serverVars
<1>2. ASSUME NEW s \in Session, Move(s) PROVE PeerInv'
    <2>1. CASE CreateOwn(s)
        BY <2>1, PeerFrameAll DEF CreateOwn, sendVars
    <2>2. CASE Agent(s)
        BY <1>2, <2>2, PeerAgent
    <2>3. ASSUME NEW kind \in {"create", "start"}, SendStep(<<s, kind>>), SendOnly PROVE PeerInv'
        BY <1>2, <2>3, SendsOfSession, SendsStep, PeerFrame DEF SendOnly, sessionVars, PeerInv
    <2>4. CASE Disturb(s)
        BY <2>3, <2>4 DEF Disturb, SendStep
    <2>5. ASSUME NEW k, Serve(k) \/ DockerStep(k) PROVE PeerInv'
        BY <2>5, PeerFrameAll DEF Serve, DockerStep, DockerOnly, sendVars, sessionVars
    <2>6. ASSUME NEW kind \in {"create", "start"}, SendOnly,
                 \/ T!Store(<<s, kind>>) \/ T!Post(<<s, kind>>) \/ T!RunStarts(<<s, kind>>)
                 \/ T!RunFinishes(<<s, kind>>)
          PROVE  PeerInv'
        BY <2>3, <2>6 DEF SendStep
    <2>7. ASSUME NEW t \in tasks, Configure(t) \/ \E u \in tasks : Compute(t, u) PROVE PeerInv'
        BY <2>7, PeerFrameAll DEF Configure, Compute, sendVars
    <2> QED
        BY <1>2, <2>1, <2>2, <2>4, <2>5, <2>6, <2>7 DEF Move
<1> QED
    BY <1>1, <1>2, MoveOfSession

\* All sessions write to shared threads, at any time and in any number: while no run
\* fails, an agent takes for its partner's key only the one its own request made.
THEOREM KeysOfSession == Spec => []KeysAreOfThisSession
<1>1. PeerInv => KeysAreOfThisSession
    BY DEF PeerInv
<1> QED
    BY <1>1, PeerInit, PeerNext, PTL DEF Spec
----------------------------------------------------------------------------
(***************************************************************************)
(* The workflow is a behaviour of each of its components, so that what is   *)
(* proved of them holds in it.                                              *)
(***************************************************************************)
DP == INSTANCE ContainersProofs WITH
         Name <- User, Call <- DockerCall, Tool <- CreateTool,
         NameOf <- ContainerName, MaxFaults <- 0,
         at <- docker, faults <- dockerFaults

TP == INSTANCE PartnerThreadsProofs WITH
         Call <- SendCall, Parent <- NotNested,
         at <- send, faults <- sendFaults

LEMMA ContainersAssumed == DP!ContainerAssumption
<1>1. CreateTool \in [DockerCall -> {"create", "remove"}]
    BY DEF CreateTool
<1>2. ContainerName \in [DockerCall -> User]
    BY WorkflowAssumption DEF ContainerName, DockerCall
<1> QED
    BY <1>1, <1>2, WorkflowAssumption DEF DP!ContainerAssumption

LEMMA ThreadsAssumed == TP!ThreadAssumption
BY WorkflowAssumption DEF TP!ThreadAssumption, NotNested

LEMMA DockerNext ==
    ASSUME NEW c \in DockerCall,
           D!Invoke(c) \/ D!CreateStep(c) \/ D!RemovalEnds(c) \/ D!RemovalAnswered(c)
    PROVE  D!Next
BY DEF D!Next

LEMMA ContainersStep == [Next]_vars => [D!Next]_<<named, status, key, docker, found, dockerFaults>>
<1> SUFFICES ASSUME [Next]_vars PROVE D!Next \/ UNCHANGED dockerVars
    BY DEF dockerVars
<1>1. CASE UNCHANGED vars \/ (T!Tick /\ SendOnly)
    BY <1>1 DEF vars, SendOnly
<1>2. ASSUME NEW s \in Session, Move(s) PROVE D!Next \/ UNCHANGED dockerVars
    <2>1. CASE CreateOwn(s)
        BY <2>1, DockerNext, CallsOfSession DEF CreateOwn
    <2>2. CASE PartnerCreates(s)
        BY <2>2, DockerNext, CallsOfSession DEF PartnerCreates
    <2>3. CASE Agent(s) /\ ~PartnerCreates(s)
        BY <2>3 DEF Agent, AskCreate, ExchangeKeys, PartnerStarted, StartOwn, QueryLog, Interrupt,
                    PartnerStarts
    <2>4. CASE Disturb(s)
        BY <2>4 DEF Disturb, SendOnly
    <2>5. ASSUME NEW k \in {Own(s), Peer(s)}, Serve(k) \/ DockerStep(k)
          PROVE  D!Next \/ UNCHANGED dockerVars
        BY <2>5, DockerNext, CallsOfSession DEF Serve, DockerStep
    <2>6. CASE SendOnly
        BY <2>6 DEF SendOnly
    <2>7. ASSUME NEW t \in tasks, Configure(t) \/ \E u \in tasks : Compute(t, u) PROVE UNCHANGED dockerVars
        BY <2>7 DEF Configure, Compute
    <2> QED
        BY <1>2, <2>1, <2>2, <2>3, <2>4, <2>5, <2>6, <2>7 DEF Move
<1> QED
    BY <1>1, <1>2, MoveOfSession

LEMMA SendNext == ASSUME NEW c \in SendCall, SendStep(c) PROVE T!Next
BY DEF SendStep, T!Next, T!Tool, T!Server

LEMMA ThreadsStep ==
    [Next]_vars => [T!Next]_<<cache, now, send, asked, thread, run, last, seen, sendFaults>>
<1> SUFFICES ASSUME [Next]_vars PROVE T!Next \/ UNCHANGED sendVars
    BY DEF sendVars
<1>1. CASE UNCHANGED vars \/ (T!Tick /\ SendOnly)
    BY <1>1 DEF vars, T!Next
<1>2. ASSUME NEW s \in Session, Move(s) PROVE T!Next \/ UNCHANGED sendVars
    <2>1. ASSUME NEW kind \in {"create", "start"}, SendStep(<<s, kind>>) PROVE T!Next
        BY <2>1, SendNext, SendsOfSession
    <2>2. CASE CreateOwn(s)
        BY <2>2 DEF CreateOwn
    <2>3. CASE AskCreate(s) \/ ExchangeKeys(s)
        BY <2>1, <2>3 DEF AskCreate, ExchangeKeys, Ask, SendStep
    <2>4. CASE Agent(s) /\ ~AskCreate(s) /\ ~ExchangeKeys(s)
        BY <2>4 DEF Agent, PartnerStarted, StartOwn, QueryLog, Interrupt, PartnerCreates, PartnerStarts
    <2>5. CASE Disturb(s)
        BY <2>1, <2>5 DEF Disturb, SendStep
    <2>6. ASSUME NEW k, Serve(k) \/ DockerStep(k) PROVE UNCHANGED sendVars
        BY <2>6 DEF Serve, DockerStep, DockerOnly
    <2>7. ASSUME NEW kind \in {"create", "start"},
                 \/ T!Store(<<s, kind>>) \/ T!Post(<<s, kind>>) \/ T!RunStarts(<<s, kind>>)
                 \/ T!RunFinishes(<<s, kind>>)
          PROVE  T!Next
        BY <2>1, <2>7 DEF SendStep
    <2>8. ASSUME NEW t \in tasks, Configure(t) \/ \E u \in tasks : Compute(t, u) PROVE UNCHANGED sendVars
        BY <2>8 DEF Configure, Compute
    <2> QED
        BY <1>2, <2>2, <2>3, <2>4, <2>5, <2>6, <2>7, <2>8 DEF Move
<1> QED
    BY <1>1, <1>2, MoveOfSession

\* Whatever the sessions do, the calls of their tools are calls of Containers in
\* which the daemon never fails, and calls of PartnerThreads that do not nest.
THEOREM ComponentsOfWorkflow == Spec => D!Spec /\ T!Spec
<1>1. Init => D!Init /\ T!Init
    BY DEF Init
<1>2. [Next]_vars => [D!Next]_(D!vars) /\ [T!Next]_(T!vars)
    BY ContainersStep, ThreadsStep DEF D!vars, T!vars
<1> QED
    BY <1>1, <1>2, PTL DEF Spec, D!Spec, T!Spec

LEMMA SameContainers ==
    /\ D!Init <=> DP!Init
    /\ [D!Next]_(D!vars) <=> [DP!Next]_(DP!vars)
    /\ D!TypeOK <=> DP!TypeOK
<1>1. D!Init <=> DP!Init
    BY DEF D!Init, DP!Init
<1>2. D!vars = DP!vars /\ (UNCHANGED D!vars <=> UNCHANGED DP!vars)
    BY DEF D!vars, DP!vars
<1>3. ASSUME NEW c \in DockerCall
      PROVE  /\ D!Invoke(c) <=> DP!Invoke(c)
             /\ D!RemovalEnds(c) <=> DP!RemovalEnds(c)
             /\ D!RemovalAnswered(c) <=> DP!RemovalAnswered(c)
    BY DEF D!Invoke, DP!Invoke, D!RemovalEnds, DP!RemovalEnds, D!RemovalAnswered,
           DP!RemovalAnswered, D!Goto, DP!Goto, D!dockerVars, DP!dockerVars
<1>4. ASSUME NEW c \in DockerCall PROVE D!CreateStep(c) <=> DP!CreateStep(c)
    BY DEF D!CreateStep, D!Find, D!ForceRemove, D!Run, D!Start, D!Upload, D!CreateFails,
           D!Get, D!Named, D!BeginRemoval, D!Creating, D!Goto, D!dockerVars,
           DP!CreateStep, DP!Find, DP!ForceRemove, DP!Run, DP!Start, DP!Upload, DP!CreateFails,
           DP!Get, DP!Named, DP!BeginRemoval, DP!Creating, DP!Goto, DP!dockerVars
<1>5. ASSUME NEW c \in DockerCall PROVE D!RemoveStep(c) <=> DP!RemoveStep(c)
    BY DEF D!RemoveStep, D!FindStop, D!Stop, D!FindRemove, D!Remove, D!RemoveFails,
           D!Get, D!Named, D!BeginRemoval, D!Removing, D!Goto, D!dockerVars,
           DP!RemoveStep, DP!FindStop, DP!Stop, DP!FindRemove, DP!Remove, DP!RemoveFails,
           DP!Get, DP!Named, DP!BeginRemoval, DP!Removing, DP!Goto, DP!dockerVars
<1>6. D!Next <=> DP!Next
    BY ONLY <1>3, <1>4, <1>5 DEF D!Next, DP!Next
<1>7. D!TypeOK <=> DP!TypeOK
    BY DEF D!TypeOK, D!Status, D!Underway, D!Creating, D!Removing, D!Ended,
           DP!TypeOK, DP!Status, DP!Underway, DP!Creating, DP!Removing, DP!Ended
<1> QED
    BY ONLY <1>1, <1>2, <1>6, <1>7

LEMMA SameThreads ==
    /\ T!Init <=> TP!Init
    /\ [T!Next]_(T!vars) <=> [TP!Next]_(TP!vars)
    /\ T!TypeOK <=> TP!TypeOK
<1>1. T!Init <=> TP!Init
    BY DEF T!Init, TP!Init, T!NoEntry, TP!NoEntry, T!NoMessage, TP!NoMessage
<1>2. T!vars = TP!vars /\ (UNCHANGED T!vars <=> UNCHANGED TP!vars)
    BY DEF T!vars, TP!vars
<1>3. T!Tick <=> TP!Tick
    BY DEF T!Tick, TP!Tick, T!serverVars, TP!serverVars
<1>4. ASSUME NEW c \in SendCall PROVE T!Tool(c) <=> TP!Tool(c)
    BY DEF T!Tool, T!Hit, T!Miss, T!Store, T!Post, T!Break, T!CanBegin, T!Valid, T!NoEntry, T!Busy,
           T!Free, T!Children, T!Ended, T!Goto, T!Fault, T!serverVars,
           TP!Tool, TP!Hit, TP!Miss, TP!Store, TP!Post, TP!Break, TP!CanBegin, TP!Valid, TP!NoEntry,
           TP!Busy, TP!Free, TP!Children, TP!Ended, TP!Goto, TP!Fault, TP!serverVars
<1>5. ASSUME NEW c \in SendCall PROVE T!Server(c) <=> TP!Server(c)
    BY DEF T!Server, T!RunStarts, T!Speak, T!RunFinishes, T!RunFails, T!Receive, T!StreamEnds,
           T!Free, T!Children, T!Ended, T!Goto, T!Fault, T!serverVars,
           TP!Server, TP!RunStarts, TP!Speak, TP!RunFinishes, TP!RunFails, TP!Receive, TP!StreamEnds,
           TP!Free, TP!Children, TP!Ended, TP!Goto, TP!Fault, TP!serverVars
<1>6. T!Next <=> TP!Next
    BY ONLY <1>3, <1>4, <1>5 DEF T!Next, TP!Next
<1>7. T!TypeOK <=> TP!TypeOK
    BY DEF T!TypeOK, T!Entry, T!Message, TP!TypeOK, TP!Entry, TP!Message
<1> QED
    BY ONLY <1>1, <1>2, <1>6, <1>7

LEMMA ComponentSpecs == Spec => DP!Spec /\ TP!Spec
<1>1. D!Spec => DP!Spec
    BY SameContainers, PTL DEF D!Spec, DP!Spec
<1>2. T!Spec => TP!Spec
    BY SameThreads, PTL DEF T!Spec, TP!Spec
<1> QED
    BY <1>1, <1>2, ComponentsOfWorkflow

LEMMA ComponentsTyped == Spec => [](D!TypeOK /\ T!TypeOK)
<1>1. DP!Spec => []DP!TypeOK
    BY ContainersAssumed, DP!TypeCorrect
<1>2. TP!Spec => []TP!TypeOK
    BY ThreadsAssumed, TP!TypeCorrect
<1> QED
    BY <1>1, <1>2, ComponentSpecs, SameContainers, SameThreads, PTL

\* What is proved of containers and of sends holds in the workflow too: however
\* sessions replace each other's containers, the name belongs in the end to a
\* running container with the key of its call, and a send whose run finishes
\* returns its reply.
THEOREM ComponentsHold ==
    Spec => [](D!ReportedKeyInstalled /\ D!CreatesConverge /\ T!FinishedReplyIsOwn)
<1>1. D!ReportedKeyInstalled <=> DP!ReportedKeyInstalled
    BY DEF D!ReportedKeyInstalled, DP!ReportedKeyInstalled
<1>2. D!CreatesConverge <=> DP!CreatesConverge
    BY DEF D!CreatesConverge, DP!CreatesConverge, D!Ended, DP!Ended
<1>3. T!FinishedReplyIsOwn <=> TP!FinishedReplyIsOwn
    BY DEF T!FinishedReplyIsOwn, TP!FinishedReplyIsOwn
<1>4. DP!Spec => []DP!ReportedKeyInstalled /\ []DP!CreatesConverge
    BY ContainersAssumed, DP!KeysInstalled, DP!CreatesAlwaysConverge
<1>5. TP!Spec => []TP!FinishedReplyIsOwn
    BY ThreadsAssumed, TP!OwnReply
<1> QED
    BY <1>1, <1>2, <1>3, <1>4, <1>5, ComponentSpecs, PTL

----------------------------------------------------------------------------
(***************************************************************************)
(* What sessions keep of their own.                                         *)
(***************************************************************************)
SessionTyped ==
    /\ serving \subseteq DockerCall
    /\ stage \in [Session -> {"new", "create", "ask create", "ask start", "run", "poll",
                              "reported", "interrupted"}]
    /\ peerKey \in [Session -> DockerCall \cup {None}]
    /\ outcome \in [Session -> {"none", "accepted", "refused", "lost"}]
    /\ tasks \subseteq Task
    /\ conf \in [DockerCall -> Task \cup {None}]
    /\ done \in [DockerCall -> SUBSET DockerCall]
    /\ lost \in 0..MaxFaults

\* the agent that asks its partner to start, and the partner that is asked, know a key
KeyKnown == \A s \in Session :
    \/ stage[s] \in {"ask start", "run", "poll", "reported"}
    \/ send[<<s, "start">>] # "new"
    => peerKey[s] \in DockerCall

SessionInv == SendsInv /\ now \in Nat /\ SessionTyped /\ KeyKnown

LEMMA SessionInit == Init => SessionInv
<1> SUFFICES ASSUME Init PROVE SessionInv
    OBVIOUS
<1>1. SendsInv
    BY PeerInit DEF PeerInv
<1>2. \A s \in Session : send[<<s, "start">>] = "new"
    BY SendsOfSession DEF Init, T!Init
<1>3. now \in Nat
    BY DEF Init, T!Init
<1>4. SessionTyped
    BY WorkflowAssumption DEF Init, SessionTyped
<1> QED
    BY <1>1, <1>2, <1>3, <1>4 DEF Init, SessionInv, KeyKnown

\* only a session that asks begins a send
LEMMA Begins ==
    ASSUME SendsInv, NEW c \in SendCall, SendStep(c), ~T!Hit(c), ~T!Miss(c), NEW d \in SendCall,
           send'[d] # "new"
    PROVE  send[d] # "new"
<1>1. CASE d # c
    BY <1>1, OtherSends
<1>2. CASE d = c
    BY <1>2 DEF SendStep, T!Store, T!Post, T!Break, T!RunStarts, T!RunFinishes, T!RunFails, T!Free,
                SendsInv, SendOK
<1> QED
    BY <1>1, <1>2

LEMMA SessionFrame ==
    ASSUME SessionInv, SendsInv', now' \in Nat,
           UNCHANGED <<serving, stage, peerKey, outcome, tasks, conf, done, lost>>,
           \A s \in Session : send'[<<s, "start">>] # "new" => send[<<s, "start">>] # "new"
    PROVE  SessionInv'
BY DEF SessionInv, SessionTyped, KeyKnown

LEMMA LostTyped == ASSUME SessionInv, AnswerLost PROVE lost' \in 0..MaxFaults
<1>1. sendFaults \in Nat /\ now \in Nat /\ lost \in 0..MaxFaults
    BY DEF SessionInv, SendsInv, SessionTyped
<1>2. MaxFaults \in Nat
    BY WorkflowAssumption
<1> QED
    BY ONLY <1>1, <1>2, AnswerLost DEF AnswerLost, CanOccur

LEMMA TaskTyped ==
    ASSUME SessionInv, NEW s \in Session, NEW side \in {"own", "peer"}, Accepted(s, side),
           peerKey[s] \in DockerCall
    PROVE  tasks' \subseteq Task
<1>1. PICK k \in serving : tasks' = tasks \cup {TaskJson(s, side, k)}
    BY DEF Accepted, ServiceOf
<1>2. TaskJson(s, side, k) \in Task
    BY <1>1, CallsOfSession DEF TaskJson, Task, SessionInv, SessionTyped
<1> QED
    BY <1>1, <1>2 DEF SessionInv, SessionTyped

LEMMA SessionAgent == ASSUME SessionInv, NEW s \in Session, Agent(s) PROVE SessionInv'
<1>1. \A c \in SendCall : SendStep(c) => SendsInv'
    BY SendsStep DEF SessionInv
<1>2. CASE AskCreate(s) \/ ExchangeKeys(s)
    <2>1. PICK kind \in {"create", "start"} :
              /\ Ask(<<s, kind>>)
              /\ kind = "create" => AskCreate(s)
              /\ kind = "start" => ExchangeKeys(s)
        BY <1>2 DEF AskCreate, ExchangeKeys
    <2>2. <<s, kind>> \in SendCall /\ SendStep(<<s, kind>>)
        BY <2>1, SendsOfSession DEF Ask, SendStep
    <2>3. SendsInv' /\ now' \in Nat
        BY <1>1, <2>1, <2>2 DEF Ask, T!Hit, T!Miss, SessionInv
    <2>4. \A x \in Session : send'[<<x, "start">>] # send[<<x, "start">>] => x = s /\ kind = "start"
        BY <2>2, OtherSends, SendsOfSession DEF SessionInv
    <2>5. CASE AskCreate(s) /\ kind = "create"
        BY <2>3, <2>4, <2>5 DEF AskCreate, Reach, SessionInv, SessionTyped, KeyKnown
    <2>6. CASE ExchangeKeys(s)
        <3>1. PICK x \in Session : peerKey' = [peerKey EXCEPT ![s] = Peer(x)]
            BY <2>6 DEF ExchangeKeys, Told
        <3>2. /\ peerKey' \in [Session -> DockerCall \cup {None}] /\ peerKey'[s] \in DockerCall
              /\ \A y \in Session \ {s} : peerKey'[y] = peerKey[y]
            BY <3>1, CallsOfSession DEF SessionInv, SessionTyped
        <3> QED
            BY <2>3, <2>4, <2>6, <3>2 DEF ExchangeKeys, Reach, SessionInv, SessionTyped, KeyKnown
    <2> QED
        BY <2>1, <2>5, <2>6
<1>3. CASE PartnerStarted(s) \/ StartOwn(s) \/ QueryLog(s) \/ Interrupt(s) \/ PartnerStarts(s)
    <2>1. UNCHANGED sendVars
        BY <1>3 DEF PartnerStarted, StartOwn, QueryLog, Interrupt, PartnerStarts
    <2>2. SendsInv' /\ now' \in Nat
        BY <2>1, SendsFrame DEF sendVars, SessionInv
    <2>3. CASE PartnerStarted(s) \/ QueryLog(s) \/ Interrupt(s)
        BY <2>1, <2>2, <2>3
           DEF PartnerStarted, QueryLog, Interrupt, Reach, sendVars, SessionInv, SessionTyped, KeyKnown
    <2>4. CASE StartOwn(s)
        <3>1. tasks' \subseteq Task
            BY <2>4, TaskTyped DEF StartOwn, SessionInv, KeyKnown
        <3>2. lost' \in 0..MaxFaults
            BY <2>4, LostTyped DEF StartOwn, SessionInv, SessionTyped
        <3> QED
            BY <2>1, <2>2, <2>4, <3>1, <3>2
               DEF StartOwn, Reach, sendVars, SessionInv, SessionTyped, KeyKnown
    <2>5. CASE PartnerStarts(s)
        <3>1. peerKey[s] \in DockerCall
            BY <2>5, SendsOfSession DEF PartnerStarts, T!Free, SessionInv, SendsInv, SendOK, KeyKnown
        <3>2. tasks' \subseteq Task
            BY <2>5, <3>1, TaskTyped DEF PartnerStarts, SessionInv, SessionTyped
        <3>3. lost' \in 0..MaxFaults
            BY <2>5, LostTyped DEF PartnerStarts, SessionInv, SessionTyped
        <3> QED
            BY <2>1, <2>2, <2>5, <3>2, <3>3
               DEF PartnerStarts, sendVars, SessionInv, SessionTyped, KeyKnown
    <2> QED
        BY <1>3, <2>3, <2>4, <2>5
<1>4. CASE PartnerCreates(s)
    BY <1>4, SendsFrame, SessionFrame DEF PartnerCreates, sendVars, sessionVars, SessionInv
<1> QED
    BY <1>2, <1>3, <1>4 DEF Agent

LEMMA SessionNext == SessionInv /\ [Next]_vars => SessionInv'
<1> SUFFICES ASSUME SessionInv, [Next]_vars PROVE SessionInv'
    OBVIOUS
<1>1. ASSUME UNCHANGED <<sendVars, serving, stage, peerKey, outcome, lost>>,
             tasks' \subseteq Task, conf' \in [DockerCall -> Task \cup {None}],
             done' \in [DockerCall -> SUBSET DockerCall]
      PROVE  SessionInv'
    BY <1>1, SendsFrame DEF sendVars, SessionInv, SessionTyped, KeyKnown
<1>2. CASE UNCHANGED vars
    BY <1>1, <1>2 DEF vars, sessionVars, SessionInv, SessionTyped
<1>3. CASE T!Tick /\ SendOnly
    <2>1. SendsInv' /\ now' \in Nat /\ send' = send
        BY <1>3, SendsFrame DEF T!Tick, T!serverVars, SessionInv
    <2> QED
        BY <1>3, <2>1, SessionFrame DEF SendOnly, sessionVars
<1>4. ASSUME NEW s \in Session, Move(s) PROVE SessionInv'
    <2>1. CASE CreateOwn(s)
        <3>1. SendsInv' /\ now' \in Nat /\ send' = send
            BY <2>1, SendsFrame DEF CreateOwn, sendVars, SessionInv
        <3> QED
            BY <2>1, <3>1 DEF CreateOwn, Reach, SessionInv, SessionTyped, KeyKnown
    <2>2. CASE Agent(s)
        BY <2>2, SessionAgent
    <2>3. ASSUME NEW kind \in {"create", "start"}, SendOnly,
                 LET c == <<s, kind>> IN
                 \/ T!Store(c) \/ T!Post(c) \/ T!RunStarts(c) \/ T!RunFinishes(c)
                 \/ T!Break(c) \/ T!RunFails(c)
          PROVE  SessionInv'
        <3> DEFINE c == <<s, kind>>
        <3>1. c \in SendCall /\ SendStep(c)
            BY <2>3, SendsOfSession DEF SendStep
        <3>2. ~T!Hit(c) /\ ~T!Miss(c)
            BY <2>3, <3>1 DEF T!Hit, T!Miss, T!CanBegin, T!Store, T!Post, T!RunStarts, T!RunFinishes,
                              T!Break, T!RunFails, T!Free, SessionInv, SendsInv, SendOK
        <3>3. SendsInv'
            BY <3>1, SendsStep DEF SessionInv
        <3>4. now' \in Nat
            BY <2>3 DEF T!Store, T!Post, T!RunStarts, T!RunFinishes, T!Break, T!RunFails, SessionInv
        <3>5. \A x \in Session : send'[<<x, "start">>] # "new" => send[<<x, "start">>] # "new"
            BY <3>1, <3>2, Begins, SendsOfSession DEF SessionInv
        <3> QED
            BY <2>3, <3>3, <3>4, <3>5, SessionFrame DEF SendOnly, sessionVars
    <2>4. CASE Disturb(s)
        BY <2>3, <2>4 DEF Disturb
    <2>5. ASSUME NEW k \in {Own(s), Peer(s)}, Serve(k) PROVE SessionInv'
        <3>1. SendsInv' /\ now' \in Nat /\ send' = send
            BY <2>5, SendsFrame DEF Serve, sendVars, SessionInv
        <3> QED
            BY <2>5, <3>1, CallsOfSession DEF Serve, SessionInv, SessionTyped, KeyKnown
    <2>6. ASSUME NEW k, DockerStep(k) PROVE SessionInv'
        BY <1>1, <2>6 DEF DockerStep, DockerOnly, sessionVars, SessionInv, SessionTyped
    <2>7. ASSUME NEW t \in tasks, NEW u \in tasks, Compute(t, u) PROVE SessionInv'
        <3>1. u.container \in DockerCall
            BY DEF SessionInv, SessionTyped, Task
        <3>2. done' \in [DockerCall -> SUBSET DockerCall]
            BY <2>7, <3>1 DEF Compute, SessionInv, SessionTyped
        <3> QED
            BY <1>1, <2>7, <3>2 DEF Compute, SessionInv, SessionTyped
    <2>8. ASSUME NEW t \in tasks, Configure(t) PROVE SessionInv'
        <3>1. conf' \in [DockerCall -> Task \cup {None}]
            BY <2>8 DEF Configure, SessionInv, SessionTyped
        <3> QED
            BY <1>1, <2>8, <3>1 DEF Configure, SessionInv, SessionTyped
    <2> QED
        BY <1>4, <2>1, <2>2, <2>3, <2>4, <2>5, <2>6, <2>7, <2>8 DEF Move
<1> QED
    BY <1>2, <1>3, <1>4, MoveOfSession

\* No session enters a task without a partner's key, and no send, container or
\* session is ever in a place that the code does not know.
THEOREM TypeCorrect == Spec => []TypeOK
<1>1. SessionInv => SessionTyped
    BY DEF SessionInv
<1>2. D!TypeOK /\ T!TypeOK /\ SessionTyped => TypeOK
    BY DEF TypeOK, SessionTyped
<1> QED
    BY <1>1, <1>2, ComponentsTyped, SessionInit, SessionNext, PTL DEF Spec
----------------------------------------------------------------------------
(***************************************************************************)
(* Between which containers results are computed.                           *)
(***************************************************************************)

\* the two keys of a task are those of the containers of one session
OneSession(k, m) == \E x \in Session : {k, m} = {Own(x), Peer(x)}

\* keys stay in the container they were made for, and files are those of a task
PairInv ==
    /\ key \in [DockerCall -> DockerCall \cup {None}]
    /\ \A k \in DockerCall : key[k] \in {k, None}
    /\ \A k \in DockerCall : conf[k] \in tasks \cup {None}
    /\ sendFaults = 0 => \A t \in tasks : OneSession(t.userkey, t.pubkey)
    /\ ComputedWithinASession

LEMMA PairInit == Init => PairInv
BY DEF Init, D!Init, PairInv, ComputedWithinASession

\* once a run has failed or a connection has broken, it has
LEMMA FaultsRemain ==
    ASSUME SendsInv, NEW s \in Session, Move(s) PROVE sendFaults' = 0 => sendFaults = 0
<1>1. \A c \in SendCall : SendStep(c) => (sendFaults' = 0 => sendFaults = 0)
    BY OtherSends
<1>2. ASSUME NEW kind \in {"create", "start"}, SendStep(<<s, kind>>)
      PROVE  sendFaults' = 0 => sendFaults = 0
    BY <1>1, <1>2, SendsOfSession
<1>3. CASE UNCHANGED sendVars
    BY <1>3 DEF sendVars
<1>4. CASE Agent(s)
    BY <1>2, <1>3, <1>4
       DEF Agent, AskCreate, ExchangeKeys, PartnerStarted, StartOwn, QueryLog, Interrupt,
           PartnerCreates, PartnerStarts, Ask, SendStep
<1> QED
    BY <1>2, <1>3, <1>4
       DEF Move, CreateOwn, Disturb, Serve, DockerStep, DockerOnly, Configure, Compute, SendStep

LEMMA PairFrame ==
    ASSUME PairInv, UNCHANGED <<key, tasks, conf, done>>, sendFaults' = 0 => sendFaults = 0
    PROVE  PairInv'
BY DEF PairInv, OneSession, ComputedWithinASession

\* a session names its own container's key and the one it believes its partner's
LEMMA PairAccepted ==
    ASSUME PairInv, PeerInv, SessionInv, sendFaults' = 0 => sendFaults = 0,
           NEW s \in Session, NEW side \in {"own", "peer"}, Accepted(s, side),
           peerKey[s] \in DockerCall, UNCHANGED <<key, conf, done>>
    PROVE  PairInv'
<1>1. PICK k : tasks' = tasks \cup {TaskJson(s, side, k)}
    BY DEF Accepted
<1> DEFINE t == TaskJson(s, side, k)
<1>2. {t.userkey, t.pubkey} = {Own(s), peerKey[s]}
    BY DEF TaskJson
<1>3. sendFaults = 0 => peerKey[s] = Peer(s)
    BY WorkflowAssumption DEF PeerInv, KeysAreOfThisSession, DockerCall
<1>4. sendFaults' = 0 => OneSession(t.userkey, t.pubkey)
    BY <1>2, <1>3 DEF OneSession
<1>5. sendFaults' = 0 => \A u \in tasks' : OneSession(u.userkey, u.pubkey)
    BY <1>1, <1>4 DEF PairInv
<1>6. \A d \in DockerCall : conf'[d] \in tasks' \cup {None}
    BY <1>1 DEF PairInv
<1>7. ComputedWithinASession'
    BY DEF PairInv, ComputedWithinASession
<1>8. (sendFaults = 0 => \A u \in tasks : OneSession(u.userkey, u.pubkey))'
    BY <1>5 DEF OneSession
<1> QED
    BY <1>6, <1>7, <1>8 DEF PairInv

LEMMA PairAgent ==
    ASSUME PairInv, PeerInv, SessionInv, sendFaults' = 0 => sendFaults = 0,
           NEW s \in Session, Agent(s)
    PROVE  PairInv'
<1>1. CASE AskCreate(s) \/ ExchangeKeys(s) \/ PartnerStarted(s) \/ QueryLog(s) \/ Interrupt(s)
    BY <1>1, PairFrame
       DEF AskCreate, ExchangeKeys, PartnerStarted, QueryLog, Interrupt, dockerVars
<1>2. CASE PartnerCreates(s)
    BY <1>2, PairFrame DEF PartnerCreates, D!Invoke, D!dockerVars, sessionVars
<1>3. CASE StartOwn(s)
    <2>1. peerKey[s] \in DockerCall
        BY <1>3 DEF StartOwn, SessionInv, KeyKnown
    <2> QED
        BY <1>3, <2>1, PairAccepted DEF StartOwn, dockerVars
<1>4. CASE PartnerStarts(s)
    <2>1. peerKey[s] \in DockerCall
        BY <1>4, SendsOfSession DEF PartnerStarts, T!Free, SessionInv, SendsInv, SendOK, KeyKnown
    <2> QED
        BY <1>4, <2>1, PairAccepted, PairFrame DEF PartnerStarts, dockerVars
<1> QED
    BY <1>1, <1>2, <1>3, <1>4 DEF Agent

LEMMA PairDocker ==
    ASSUME PairInv, sendFaults' = 0 => sendFaults = 0, NEW c \in DockerCall, DockerStep(c)
    PROVE  PairInv'
<1>1. UNCHANGED <<tasks, conf, done>>
    BY DEF DockerStep, DockerOnly, sessionVars
<1>2. CASE D!Upload(c)
    <2>1. key' = key \/ key' = [key EXCEPT ![c] = c]
        BY <1>2 DEF D!Upload
    <2> QED
        BY <1>1, <2>1 DEF PairInv, OneSession, ComputedWithinASession
<1>3. CASE ~D!Upload(c)
    <2>1. UNCHANGED key
        BY <1>3
           DEF DockerStep, D!CreateStep, D!Find, D!Get, D!ForceRemove, D!Run, D!Start,
               D!CreateFails, D!RemovalEnds, D!RemovalAnswered, D!dockerVars
    <2> QED
        BY <1>1, <2>1, PairFrame
<1> QED
    BY <1>2, <1>3

\* two brokers meet only over the keys of the containers they are in, and the files
\* of each name the keys of one session's containers
LEMMA PairCompute ==
    ASSUME PairInv, SessionInv, NEW t \in tasks, NEW u \in tasks, Compute(t, u)
    PROVE  PairInv'
<1> DEFINE k == t.container
           m == u.container
<1>1. /\ UNCHANGED <<key, tasks, conf, sendFaults>>
      /\ done' = [done EXCEPT ![k] = done[k] \cup {m}]
    BY DEF Compute, dockerVars, sendVars
<1>2. k \in DockerCall /\ m \in DockerCall
    BY DEF SessionInv, SessionTyped, Task
<1>3. conf[k] \in tasks /\ conf[k].userkey = key[k] /\ conf[k].pubkey = key[m]
    BY <1>2 DEF Compute, Linked, Knows, PairInv
<1>4. conf[k].userkey \in DockerCall /\ conf[k].pubkey \in DockerCall
    BY <1>3 DEF SessionInv, SessionTyped, Task
<1>5. conf[k].userkey = k /\ conf[k].pubkey = m
    BY <1>2, <1>3, <1>4, WorkflowAssumption DEF PairInv
<1>6. sendFaults = 0 => OneSession(k, m)
    BY <1>3, <1>5 DEF PairInv
<1>7. \A d \in DockerCall : done'[d] \subseteq done[d] \cup (IF d = k THEN {m} ELSE {})
    BY <1>1, <1>2 DEF SessionInv, SessionTyped
<1>8. sendFaults = 0 => \A d \in DockerCall : \A e \in done'[d] : OneSession(d, e)
    BY <1>6, <1>7 DEF PairInv, ComputedWithinASession, OneSession
<1>9. ComputedWithinASession'
    BY <1>1, <1>8 DEF ComputedWithinASession, OneSession
<1> QED
    BY <1>1, <1>9 DEF PairInv, OneSession

LEMMA PairNext == PairInv /\ PeerInv /\ SessionInv /\ [Next]_vars => PairInv'
<1> SUFFICES ASSUME PairInv, PeerInv, SessionInv, [Next]_vars PROVE PairInv'
    OBVIOUS
<1>1. CASE UNCHANGED vars \/ (T!Tick /\ SendOnly)
    BY <1>1, PairFrame DEF vars, dockerVars, sendVars, sessionVars, SendOnly, T!Tick, T!serverVars
<1>2. ASSUME NEW s \in Session, Move(s) PROVE PairInv'
    <2>0. sendFaults' = 0 => sendFaults = 0
        BY <1>2, FaultsRemain DEF PeerInv
    <2>1. CASE CreateOwn(s)
        BY <2>0, <2>1, PairFrame DEF CreateOwn, D!Invoke, D!dockerVars
    <2>2. CASE Agent(s)
        BY <2>0, <2>2, PairAgent
    <2>3. CASE Disturb(s) \/ SendOnly
        BY <2>0, <2>3, PairFrame DEF Disturb, SendOnly, dockerVars, sessionVars
    <2>4. ASSUME NEW k \in {Own(s), Peer(s)}, Serve(k) \/ DockerStep(k) PROVE PairInv'
        <3>1. k \in DockerCall
            BY CallsOfSession
        <3>2. CASE Serve(k)
            BY <2>0, <3>2, PairFrame DEF Serve, dockerVars
        <3> QED
            BY <2>0, <2>4, <3>1, <3>2, PairDocker
    <2>5. ASSUME NEW t \in tasks, Configure(t) PROVE PairInv'
        <3>1. \A k \in DockerCall : conf'[k] \in tasks \cup {None}
            BY <2>5 DEF Configure, PairInv, SessionInv, SessionTyped
        <3> QED
            BY <2>5, <3>1
               DEF Configure, dockerVars, sendVars, PairInv, OneSession, ComputedWithinASession
    <2>6. ASSUME NEW t \in tasks, NEW u \in tasks, Compute(t, u) PROVE PairInv'
        BY <2>6, PairCompute
    <2> QED
        BY <1>2, <2>1, <2>2, <2>3, <2>4, <2>5, <2>6 DEF Move
<1> QED
    BY <1>1, <1>2, MoveOfSession

\* Whatever sessions replace each other's containers and start tasks in them, and
\* whatever answers are lost: while no send to a partner has failed, a result is
\* computed only between the two containers of one session.
THEOREM ComputedTogether == Spec => []ComputedWithinASession
<1>1. PairInv => ComputedWithinASession
    BY DEF PairInv
<1> QED
    BY <1>1, PeerInit, PeerNext, SessionInit, SessionNext, PairInit, PairNext, PTL DEF Spec
=============================================================================
