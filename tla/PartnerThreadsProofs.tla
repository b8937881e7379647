-------------------------- MODULE PartnerThreadsProofs --------------------------
(***************************************************************************)
(* Theorems about PartnerThreads, for any number of sends, any end of the    *)
(* clock, any lifetime of the cache entry and any bound of faults.          *)
(***************************************************************************)
EXTENDS PartnerThreads, TLAPS

Step(c) == Tool(c) \/ Server(c)

LEMMA StepOfCall == [Next]_vars => Tick \/ (\E c \in Call : Step(c)) \/ UNCHANGED vars
BY DEF Next, Step

LEMMA FaultBounded ==
    ASSUME faults \in 0..MaxFaults, Fault
    PROVE  faults' \in 0..MaxFaults
BY ThreadAssumption DEF Fault

\* a run belongs to a thread, and a send follows its run to its end
SendInv == \A c \in Call :
    /\ at[c] = "post" \/ run[c] # "none" => thread[c] \in Call
    /\ at[c] \in {"new", "create", "post"} => run[c] = "none"
    /\ at[c] = "stream" => run[c] \in {"queued", "active"}
    /\ at[c] = "returned" => run[c] \in {"finished", "failed"}

\* the entry expires CACHE_TTL after its thread was asked for
CacheInv == cache.thread # None =>
    /\ cache.expire_at = asked[cache.thread] + CACHE_TTL
    /\ at[cache.thread] \notin {"new", "create"}

Inv == TypeOK /\ SendInv /\ CacheInv /\ FinishedReplyIsOwn

LEMMA TypeInit == Init => TypeOK
BY ThreadAssumption DEF Init, TypeOK, Entry, NoEntry, Message, NoMessage

LEMMA InvInit == Init => Inv
BY TypeInit, ThreadAssumption DEF Init, Inv, SendInv, CacheInv, FinishedReplyIsOwn, NoEntry

LEMMA TypeTool == ASSUME TypeOK, NEW c \in Call, Tool(c) PROVE TypeOK'
<1> USE ThreadAssumption DEF TypeOK, serverVars, Goto
<1>1. CASE Hit(c)
    BY <1>1 DEF Hit, Entry
<1>2. CASE Miss(c)
    BY <1>2 DEF Miss, Entry, NoEntry
<1>3. CASE Store(c)
    <2>1. asked[c] + CACHE_TTL \in 0..(MaxTime + CACHE_TTL)
        OBVIOUS
    <2>2. cache' \in Entry
        BY <1>3, <2>1 DEF Store, Entry
    <2> QED
        BY <1>3, <2>2 DEF Store
<1>4. CASE Post(c)
    BY <1>4 DEF Post
<1>5. CASE Break(c)
    <2>1. faults' \in 0..MaxFaults
        BY <1>5, FaultBounded DEF Break
    <2> QED
        BY <1>5, <2>1 DEF Break
<1> QED
    BY <1>1, <1>2, <1>3, <1>4, <1>5 DEF Tool

LEMMA ReceiveTyped ==
    ASSUME TypeOK, NEW c \in Call, NEW m \in Message
    PROVE  Receive(c, m) \in [Call -> Message]
BY DEF TypeOK, Receive

LEMMA TypeServer == ASSUME TypeOK, SendInv, NEW c \in Call, Server(c) PROVE TypeOK'
<1> USE ThreadAssumption DEF TypeOK, Goto, StreamEnds
<1> DEFINE m(f) == [by |-> c, final |-> f]
<1>1. \A f \in BOOLEAN : m(f) \in Message
    BY DEF Message
<1>2. \A f \in BOOLEAN : [last EXCEPT ![thread[c]] = m(f)] \in [Call -> Message]
    BY <1>1
<1> HIDE DEF m
<1>3. CASE RunStarts(c)
    <2>1. last[thread[c]] \in Message
        BY <1>3 DEF RunStarts, SendInv
    <2>2. seen' \in [Call -> Message]
        BY <1>3, <2>1, ReceiveTyped DEF RunStarts
    <2> QED
        BY <1>3, <2>2 DEF RunStarts
<1>4. CASE Speak(c)
    BY <1>1, <1>2, <1>4, ReceiveTyped DEF Speak, m
<1>5. CASE RunFinishes(c)
    BY <1>1, <1>2, <1>5, ReceiveTyped DEF RunFinishes, m
<1>6. CASE RunFails(c)
    <2>1. faults' \in 0..MaxFaults
        BY <1>6, FaultBounded DEF RunFails
    <2> QED
        BY <1>6, <2>1 DEF RunFails
<1> QED
    BY <1>3, <1>4, <1>5, <1>6 DEF Server

LEMMA Frame ==
    ASSUME TypeOK, NEW c \in Call, Step(c)
    PROVE  \A d \in Call \ {c} :
               at'[d] = at[d] /\ run'[d] = run[d] /\ thread'[d] = thread[d] /\ asked'[d] = asked[d]
<1> USE DEF TypeOK, Goto, StreamEnds, serverVars
<1>1. CASE Hit(c) \/ Miss(c) \/ Store(c)
    BY <1>1 DEF Hit, Miss, Store
<1>2. CASE Post(c) \/ Break(c)
    BY <1>2 DEF Post, Break
<1>3. CASE Server(c)
    BY <1>3 DEF Server, RunStarts, Speak, RunFinishes, RunFails
<1> QED
    BY <1>1, <1>2, <1>3 DEF Step, Tool

LEMMA SendStep == ASSUME TypeOK, SendInv, NEW c \in Call, Step(c) PROVE SendInv'
<1> USE DEF TypeOK, Goto, StreamEnds, serverVars
<1> DEFINE Own ==
        /\ at[c] = "post" \/ run[c] # "none" => thread[c] \in Call
        /\ at[c] \in {"new", "create", "post"} => run[c] = "none"
        /\ at[c] = "stream" => run[c] \in {"queued", "active"}
        /\ at[c] = "returned" => run[c] \in {"finished", "failed"}
<1>1. Own
    BY DEF SendInv
<1>7. SUFFICES Own'
    BY ONLY <1>7, Frame, SendInv, TypeOK, Step(c), c \in Call DEF SendInv
<1>2. CASE Hit(c)
    <2>1. cache.thread \in Call
        BY <1>2, ThreadAssumption DEF Hit, Valid, Entry
    <2>2. at[c] = "new" /\ at'[c] = "post" /\ thread'[c] = cache.thread /\ run' = run
        BY <1>2 DEF Hit, CanBegin
    <2> QED
        BY ONLY <1>1, <2>1, <2>2
<1>3. CASE Miss(c) \/ Store(c)
    BY <1>1, <1>3 DEF Miss, Store, CanBegin
<1>4. CASE Post(c) \/ Break(c)
    BY <1>1, <1>4 DEF Post, Break
<1>5. CASE RunStarts(c) \/ Speak(c)
    BY <1>1, <1>5 DEF RunStarts, Speak
<1>6. CASE RunFinishes(c) \/ RunFails(c)
    BY <1>1, <1>6 DEF RunFinishes, RunFails, Free
<1> QED
    BY <1>2, <1>3, <1>4, <1>5, <1>6 DEF Step, Tool, Server

LEMMA CacheStep == ASSUME TypeOK, CacheInv, SendInv, NEW c \in Call, Step(c) PROVE CacheInv'
<1> USE ThreadAssumption DEF TypeOK, Goto, StreamEnds, serverVars
<1>1. CASE Miss(c)
    BY <1>1 DEF Miss, NoEntry, CacheInv
<1>2. CASE Store(c)
    <2>1. cache'.thread = c /\ cache'.expire_at = asked'[c] + CACHE_TTL /\ at'[c] = "post"
        BY <1>2 DEF Store
    <2> QED
        BY ONLY <2>1 DEF CacheInv
<1>3. ASSUME cache' = cache, asked' = asked,
             at'[c] \in {"new", "create"} => at[c] \in {"new", "create"} PROVE CacheInv'
    <2>1. \A d \in Call : at'[d] \in {"new", "create"} => at[d] \in {"new", "create"}
        BY ONLY <1>3, Frame, TypeOK, Step(c), c \in Call
    <2>2. cache.thread \in Call \cup {None}
        BY DEF Entry
    <2> QED
        BY ONLY <1>3, <2>1, <2>2, CacheInv DEF CacheInv
<1>4. CASE Hit(c)
    BY <1>3, <1>4 DEF Hit
<1>5. CASE Post(c) \/ Break(c)
    BY <1>3, <1>5 DEF Post, Break
<1>6. CASE RunStarts(c) \/ Speak(c)
    BY <1>3, <1>6 DEF RunStarts, Speak
<1>7. CASE RunFinishes(c) \/ RunFails(c)
    BY <1>3, <1>7 DEF RunFinishes, RunFails, Free
<1> QED
    BY <1>1, <1>2, <1>4, <1>5, <1>6, <1>7 DEF Step, Tool, Server

\* only the end of its run makes a send return, and nothing is received after that
LEMMA ReplyStep ==
    ASSUME TypeOK, SendInv, FinishedReplyIsOwn, NEW c \in Call, Step(c)
    PROVE  FinishedReplyIsOwn'
<1> USE DEF TypeOK, SendInv, FinishedReplyIsOwn, Goto, StreamEnds, serverVars, Receive
<1>1. CASE Hit(c) \/ Miss(c) \/ Store(c)
    BY <1>1 DEF Hit, Miss, Store
<1>2. CASE Post(c) \/ Break(c)
    BY <1>2 DEF Post, Break
<1>3. CASE RunStarts(c) \/ Speak(c)
    BY <1>3 DEF RunStarts, Speak
<1>4. CASE RunFinishes(c)
    BY <1>4 DEF RunFinishes, Free
<1>5. CASE RunFails(c)
    BY <1>5 DEF RunFails, Free
<1> QED
    BY <1>1, <1>2, <1>3, <1>4, <1>5 DEF Step, Tool, Server

LEMMA InvNext == Inv /\ [Next]_vars => Inv'
<1> USE DEF Inv
<1>1. ASSUME Inv, UNCHANGED vars PROVE Inv'
    BY <1>1 DEF vars, serverVars, TypeOK, SendInv, CacheInv, FinishedReplyIsOwn
<1>2. ASSUME Inv, Tick PROVE Inv'
    <2>1. UNCHANGED <<cache, at, asked, thread, run, last, seen, faults>>
        BY <1>2 DEF Tick, serverVars
    <2>2. now' \in 0..MaxTime
        BY <1>2, ThreadAssumption DEF Tick, TypeOK
    <2> QED
        BY ONLY Inv, <2>1, <2>2 DEF Inv, TypeOK, SendInv, CacheInv, FinishedReplyIsOwn
<1>3. ASSUME Inv, NEW c \in Call, Step(c) PROVE Inv'
    BY <1>3, TypeTool, TypeServer, SendStep, CacheStep, ReplyStep DEF Step
<1> QED
    BY <1>1, <1>2, <1>3, StepOfCall

\* Type correctness: no send ends but with an answer.
THEOREM TypeCorrect == Spec => []TypeOK
<1>1. Inv => TypeOK
    BY DEF Inv
<1> QED
    BY <1>1, InvInit, InvNext, PTL DEF Spec

\* Whatever sends share threads and whatever they leave there, a send whose run
\* finished, and whose connection held, returns the final message of that run.
THEOREM OwnReply == Spec => []FinishedReplyIsOwn
<1>1. Inv => FinishedReplyIsOwn
    BY DEF Inv
<1> QED
    BY <1>1, InvInit, InvNext, PTL DEF Spec

----------------------------------------------------------------------------
LEMMA YoungStep ==
    ASSUME TypeOK, CacheInv, [Next]_vars,
           NEW c \in Call, at[c] = "new", at'[c] = "post"
    PROVE  now - asked[thread'[c]] < CACHE_TTL
<1>1. Hit(c)
    <2>1. ASSUME NEW d \in Call, Step(d) PROVE Hit(c)
        <3> USE <2>1 DEF TypeOK, Goto, StreamEnds
        <3>1. CASE Hit(d)
            BY <3>1 DEF Hit
        <3>2. CASE Miss(d) \/ Store(d) \/ Post(d) \/ Break(d)
            BY <3>2 DEF Miss, Store, Post, Break
        <3>3. CASE Server(d)
            BY <3>3 DEF Server, RunStarts, Speak, RunFinishes, RunFails
        <3> QED
            BY <3>1, <3>2, <3>3 DEF Step, Tool
    <2>2. ~Tick /\ ~UNCHANGED vars
        BY DEF Tick, vars
    <2> QED
        BY <2>1, <2>2, StepOfCall
<1>2. /\ thread'[c] = cache.thread /\ cache.thread \in Call
      /\ now < asked[cache.thread] + CACHE_TTL
    BY <1>1, ThreadAssumption DEF Hit, Valid, TypeOK, Entry, CacheInv
<1>3. now \in Int /\ asked[cache.thread] \in Int /\ CACHE_TTL \in Int
    BY <1>2, ThreadAssumption DEF TypeOK
<1> QED
    BY ONLY <1>2, <1>3

\* However often a thread is used and whoever stored it, it is taken from the cache
\* only while younger than CACHE_TTL.
THEOREM YoungThreads == Spec => ThreadIsYoung
<1> DEFINE A == \A c \in Call : at[c] = "new" /\ at'[c] = "post" =>
                    now - asked[thread'[c]] < CACHE_TTL
<1>1. Inv /\ [Next]_vars => [A]_vars
    BY YoungStep DEF Inv
<1>2. Spec => [][A]_vars
    BY <1>1, InvInit, InvNext, PTL DEF Spec
<1> QED
    BY <1>2 DEF ThreadIsYoung
=============================================================================
