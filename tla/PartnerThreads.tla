---------------------------- MODULE PartnerThreads ----------------------------
(***************************************************************************)
(* send_to_partner_agent (langgraph/nexus_tools.py) and the cache of partner *)
(* threads it shares with every other call in the agent server's process.   *)
(* The cache is keyed by the URL of the partner's agent, and every call      *)
(* uses the proxy's, so it has one entry: all sends of all users to all      *)
(* partners write to one conversation until the entry expires.              *)
(*                                                                          *)
(* The tool is a coroutine: a step of it lasts from one await to the next.  *)
(* The agent server is external: a thread is a conversation, at most one    *)
(* run of a thread is active, a run posted meanwhile is queued or refused,   *)
(* and each change of the conversation is streamed, beginning with what it  *)
(* held before the run.  The run of a send may itself send, in the same     *)
(* process and with the same cache.                                         *)
(***************************************************************************)
EXTENDS Integers

CONSTANTS Call,        \* calls of the tool
          Parent,      \* Parent[c]: the call in whose run c is made, or None
          None,
          CACHE_TTL,
          MaxTime,     \* bound: the clock
          MaxFaults    \* bound: runs that fail and connections that break

ASSUME ThreadAssumption ==
    /\ None \notin Call
    /\ Parent \in [Call -> Call \cup {None}]
    \* a partner's partner sends to nobody
    /\ \A c \in Call : Parent[c] # None => Parent[Parent[c]] = None
    /\ CACHE_TTL \in Nat /\ MaxTime \in Nat /\ MaxFaults \in Nat

VARIABLES cache,    \* PARTNER_THREADS[url]; a thread is called after the call that created it
          now,      \* time.time()
          at,       \* at[c]: where call c is
          asked,    \* asked[c]: when c found no thread it could use
          thread,   \* thread[c]: the thread c uses
          run,      \* run[c]: state of the run c posted
          last,     \* last[t]: the last message of the agent in thread t
          seen,     \* seen[c]: final_text, returned when the stream ends
          faults

vars == <<cache, now, at, asked, thread, run, last, seen, faults>>
serverVars == <<run, last>>

Message == [by : Call \cup {None}, final : BOOLEAN]
NoMessage == [by |-> None, final |-> FALSE]
Entry == [thread : Call \cup {None}, expire_at : 0..(MaxTime + CACHE_TTL)]
NoEntry == [thread |-> None, expire_at |-> 0]

TypeOK ==
    /\ cache \in Entry
    /\ now \in 0..MaxTime
    /\ at \in [Call -> {"new", "create", "post", "stream", "returned", "error"}]
    /\ asked \in [Call -> 0..MaxTime]
    /\ thread \in [Call -> Call \cup {None}]
    /\ run \in [Call -> {"none", "queued", "active", "finished", "failed"}]
    /\ last \in [Call -> Message]
    /\ seen \in [Call -> Message]
    /\ faults \in 0..MaxFaults

Init ==
    /\ cache = NoEntry
    /\ now = 0
    /\ at = [c \in Call |-> "new"]
    /\ asked = [c \in Call |-> 0]
    /\ thread = [c \in Call |-> None]
    /\ run = [c \in Call |-> "none"]
    /\ last = [t \in Call |-> NoMessage]
    /\ seen = [c \in Call |-> NoMessage]
    /\ faults = 0

Goto(c, l) == at' = [at EXCEPT ![c] = l]

Fault == faults < MaxFaults /\ faults' = faults + 1

Ended(c) == at[c] \in {"returned", "error"}
Children(c) == {d \in Call : Parent[d] = c /\ at[d] # "new"}

\* the run of c is not inside a tool call of its own
Free(c) == run[c] = "active" /\ \A d \in Children(c) : Ended(d)

CanBegin(c) == at[c] = "new" /\ (Parent[c] # None => Free(Parent[c]))

Tick ==
    /\ now < MaxTime
    /\ now' = now + 1
    /\ UNCHANGED <<cache, at, asked, thread, serverVars, seen, faults>>

----------------------------------------------------------------------------
\* _get_or_create_thread

Valid == cache.thread # None /\ cache.expire_at > now

\* mutant: a hit extends the entry's life
Hit_Sliding(c) ==
    /\ CanBegin(c) /\ Valid
    /\ thread' = [thread EXCEPT ![c] = cache.thread]
    /\ cache' = [cache EXCEPT !.expire_at = now + CACHE_TTL]
    /\ Goto(c, "post")
    /\ UNCHANGED <<now, asked, serverVars, seen, faults>>

Hit(c) ==
    /\ CanBegin(c) /\ Valid
    /\ thread' = [thread EXCEPT ![c] = cache.thread]
    /\ Goto(c, "post")
    /\ UNCHANGED <<cache, now, asked, serverVars, seen, faults>>

\* an expired entry is dropped
Miss(c) ==
    /\ CanBegin(c) /\ ~Valid
    /\ cache' = NoEntry
    /\ asked' = [asked EXCEPT ![c] = now]
    /\ Goto(c, "create")
    /\ UNCHANGED <<now, thread, serverVars, seen, faults>>

\* threads.create answers; whatever the cache holds by now is replaced
Store(c) ==
    /\ at[c] = "create"
    /\ thread' = [thread EXCEPT ![c] = c]
    /\ cache' = [thread |-> c, expire_at |-> asked[c] + CACHE_TTL]
    /\ Goto(c, "post")
    /\ UNCHANGED <<now, asked, serverVars, seen, faults>>

----------------------------------------------------------------------------
\* runs.stream

Busy(t) == \E d \in Call : thread[d] = t /\ run[d] \in {"queued", "active"}

Post(c) ==
    /\ at[c] = "post"
    /\ \/ run' = [run EXCEPT ![c] = "queued"] /\ Goto(c, "stream")
       \/ Busy(thread[c]) /\ Goto(c, "error") /\ UNCHANGED run
    /\ UNCHANGED <<cache, now, asked, thread, last, seen, faults>>

\* mutant: the first text received is kept
Receive_First(c, m) ==
    IF at[c] = "stream" /\ seen[c] = NoMessage THEN [seen EXCEPT ![c] = m] ELSE seen

\* a chunk holds the whole conversation: its last message of the agent is kept
Receive(c, m) == IF at[c] = "stream" THEN [seen EXCEPT ![c] = m] ELSE seen

\* the stream ends, without an exception also when the run has failed
StreamEnds(c) == IF at[c] = "stream" THEN Goto(c, "returned") ELSE UNCHANGED at

\* mutant: the exception leaves the tool
Break_Uncaught(c) ==
    /\ at[c] \in {"create", "post", "stream"} /\ Fault
    /\ Goto(c, "raised")
    /\ \/ UNCHANGED run
       \/ at[c] = "post" /\ run' = [run EXCEPT ![c] = "queued"]
    /\ UNCHANGED <<cache, now, asked, thread, last, seen>>

\* any exception is answered as an error; a run that was posted goes on
Break(c) ==
    /\ at[c] \in {"create", "post", "stream"} /\ Fault
    /\ Goto(c, "error")
    /\ \/ UNCHANGED run
       \/ at[c] = "post" /\ run' = [run EXCEPT ![c] = "queued"]
    /\ UNCHANGED <<cache, now, asked, thread, last, seen>>

----------------------------------------------------------------------------
\* the agent server

RunStarts(c) ==
    /\ run[c] = "queued"
    /\ \A d \in Call : thread[d] = thread[c] => run[d] # "active"
    /\ run' = [run EXCEPT ![c] = "active"]
    /\ seen' = Receive(c, last[thread[c]])
    /\ UNCHANGED <<cache, now, at, asked, thread, last, faults>>

\* the agent says what it is doing, as the prompt asks
Speak(c) ==
    /\ Free(c)
    /\ LET m == [by |-> c, final |-> FALSE] IN
       last' = [last EXCEPT ![thread[c]] = m] /\ seen' = Receive(c, m)
    /\ UNCHANGED <<cache, now, at, asked, thread, run, faults>>

RunFinishes(c) ==
    /\ Free(c)
    /\ run' = [run EXCEPT ![c] = "finished"]
    /\ LET m == [by |-> c, final |-> TRUE] IN
       last' = [last EXCEPT ![thread[c]] = m] /\ seen' = Receive(c, m)
    /\ StreamEnds(c)
    /\ UNCHANGED <<cache, now, asked, thread, faults>>

\* the error event that ends the stream has no messages
RunFails(c) ==
    /\ run[c] = "queued" \/ Free(c)
    /\ Fault
    /\ run' = [run EXCEPT ![c] = "failed"]
    /\ StreamEnds(c)
    /\ UNCHANGED <<cache, now, asked, thread, last, seen>>

----------------------------------------------------------------------------
Tool(c) == Hit(c) \/ Miss(c) \/ Store(c) \/ Post(c) \/ Break(c)
Server(c) == RunStarts(c) \/ Speak(c) \/ RunFinishes(c) \/ RunFails(c)

Next == Tick \/ \E c \in Call : Tool(c) \/ Server(c)

Spec == Init /\ [][Next]_vars

\* the event loop runs coroutines that can run, the server runs that can start, and
\* a run that is not waiting for a tool ends; nothing forces a send, a fault or a tick
Fairness == \A c \in Call :
    WF_vars(Store(c)) /\ WF_vars(Post(c)) /\ WF_vars(RunStarts(c)) /\ WF_vars(RunFinishes(c))

FairSpec == Spec /\ Fairness

----------------------------------------------------------------------------
(***************************************************************************)
(* Properties                                                               *)
(***************************************************************************)

\* Sends share threads, and a stream begins with what other sends left there.
\* Nevertheless a send whose run finished, and whose connection held, returns the
\* final message of its own run.  (final_text: the last message wins)
FinishedReplyIsOwn ==
    \A c \in Call : at[c] = "returned" /\ run[c] = "finished" =>
        seen[c] = [by |-> c, final |-> TRUE]

\* Docstring: returns the text the partner's agent replied.  A text that is returned
\* is then never the reply to another send.
ReplyIsOwn == \A c \in Call : at[c] = "returned" => seen[c].by \in {c, None}

\* A thread is taken from the cache only while it is younger than CACHE_TTL, however
\* often it was used and whichever of several creators stored it last.
ThreadIsYoung ==
    [][\A c \in Call : at[c] = "new" /\ at'[c] = "post" => now - asked[thread'[c]] < CACHE_TTL]_vars

\* A send made in a run waits behind that very run.
WaitsForItself(c) ==
    /\ Parent[c] # None /\ thread[c] = thread[Parent[c]]
    /\ at[c] = "stream" /\ run[c] = "queued" /\ run[Parent[c]] = "active"

\* Sends queue behind each other in shared threads, and a run waits for the sends it
\* makes.  They never block each other in any other way than a run sending into its
\* own thread: without that, every send returns, whatever fails.
AllReturn ==
    [](\A c \in Call : ~WaitsForItself(c)) => \A c \in Call : at[c] # "new" ~> Ended(c)
=============================================================================
