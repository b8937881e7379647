--------------------------- MODULE AgentProxyProofs ---------------------------
(***************************************************************************)
(* Theorems about AgentProxy, for every set of requests, users and keys and *)
(* every bound.                                                             *)
(***************************************************************************)
EXTENDS AgentProxy, TLAPS

\* Type correctness: every variable of the proxy keeps its type, the table in
\* memory in particular is never overwritten by a file that does not decode.
LEMMA TypeInit == Init => TypeOK
BY ProxyAssumption DEF Init, TypeOK, Mapping, Identity, NotSent, NoEntries

\* The two bounded counters stay within their bounds.
LEMMA Counters ==
    /\ faults \in 0..MaxFaults /\ (Fault \/ UNCHANGED faults) => faults' \in 0..MaxFaults
    /\ crashes \in 0..MaxCrashes /\ Crash => crashes' \in 0..MaxCrashes
BY ProxyAssumption DEF Fault, Crash

LEMMA FaultCounts == faults \in 0..MaxFaults /\ Fault => faults' # 0
BY ProxyAssumption DEF Fault

LEMMA TypeNext == TypeOK /\ [Next]_vars => TypeOK'
<1> SUFFICES ASSUME TypeOK, [Next]_vars PROVE TypeOK'
    OBVIOUS
<1> USE ProxyAssumption DEF TypeOK, ReqType, InFlight, Saving
<1>1. CASE UNCHANGED vars
    BY <1>1 DEF vars
<1>2. ASSUME NEW r \in Request, Arrive(r) PROVE TypeOK'
    BY <1>2 DEF Arrive, Goto, fileVars, requestVars
<1>3. ASSUME NEW r \in Request, Lookup(r) PROVE TypeOK'
    BY <1>3 DEF Lookup, Goto, fileVars, requestVars
<1>4. ASSUME NEW r \in Request, CallLock(r) PROVE TypeOK'
    BY <1>4 DEF CallLock, Goto, fileVars, requestVars
<1>5. ASSUME NEW r \in Request, Register(r) PROVE TypeOK'
    BY <1>5 DEF Register, Goto, fileVars, requestVars, Mapping
<1>6. ASSUME NEW r \in Request, RLock(r) PROVE TypeOK'
    BY <1>6 DEF RLock, Goto, fileVars, requestVars
<1>7. ASSUME NEW r \in Request, CreateTmp(r) PROVE TypeOK'
    <2> DEFINE f == IF tmp = NoFile THEN r ELSE tmp
    <2>1. f \in Request
        OBVIOUS
    <2>2. CASE AfterSave(r) /\ Fault /\ UNCHANGED <<tmp, fd, content>>
        <3>1. faults' \in 0..MaxFaults
            BY <2>2, Counters
        <3> QED
            BY <1>7, <2>2, <3>1 DEF CreateTmp, AfterSave, Goto, requestVars
    <2>3. CASE /\ tmp' = f /\ fd' = [fd EXCEPT ![r] = f]
               /\ content' = [content EXCEPT ![f] = Truncated]
               /\ Goto(r, "encode") /\ UNCHANGED faults
        <3>1. content' \in [Request -> Mapping \cup {Truncated}] /\ tmp' \in Request
            BY <2>1, <2>3
        <3>2. fd' \in [Request -> Request \cup {NoFile}]
            BY <2>1, <2>3
        <3> QED
            BY <1>7, <2>3, <3>1, <3>2 DEF CreateTmp, Goto, requestVars
    <2> QED
        BY <1>7, <2>2, <2>3 DEF CreateTmp
<1>8. ASSUME NEW r \in Request, Encode(r) PROVE TypeOK'
    <2>1. faults' \in 0..MaxFaults
        BY <1>8, Counters DEF Encode
    <2>2. content' \in [Request -> Mapping \cup {Truncated}]
        BY <1>8 DEF Encode
    <2>3. at' \in [Request -> {"new", "done", "lost"} \cup InFlight]
        BY <1>8 DEF Encode, AfterSave, Goto
    <2> QED
        BY <1>8, <2>1, <2>2, <2>3 DEF Encode, requestVars
<1>9. ASSUME NEW r \in Request, Rename(r) PROVE TypeOK'
    BY <1>9 DEF Rename, AfterSave, Goto, requestVars
<1>10. ASSUME NEW r \in Request, AckRegister(r) PROVE TypeOK'
    BY <1>10 DEF AckRegister, Goto, fileVars
<1>11. ASSUME NEW r \in Request, Forward(r) PROVE TypeOK'
    <2>1. sentAs' \in [Request -> Identity]
        BY <1>11 DEF Forward, ModifyMetadata, OwnIdentity, Identity, Mapping
    <2>2. err' \in [Request -> BOOLEAN]
        BY <1>11 DEF Forward
    <2> QED
        BY <1>11, <2>1, <2>2 DEF Forward, Goto, fileVars
<1>12. ASSUME NEW r \in Request, Respond(r) PROVE TypeOK'
    <2>1. reply' \in [Request -> {"none", "ok", "bad request", "bad gateway"}]
        BY <1>12 DEF Respond
    <2> QED
        BY <1>12, <2>1 DEF Respond, Goto, fileVars
<1>13. CASE Crash
    <2>1. crashes' \in 0..MaxCrashes
        BY <1>13, Counters
    <2> QED
        BY <1>13, <2>1 DEF Crash, fileVars, requestVars
<1>14. CASE Load
    <2>1. mem' \in Mapping
        BY <1>14 DEF Load, Stored, NoEntries, Mapping
    <2> QED
        BY <1>14, <2>1 DEF Load, fileVars, requestVars
<1> QED
    BY <1>1, <1>2, <1>3, <1>4, <1>5, <1>6, <1>7, <1>8, <1>9, <1>10, <1>11, <1>12, <1>13, <1>14
       DEF Next, Serve

THEOREM TypeCorrect == Spec => []TypeOK
BY TypeInit, TypeNext, PTL DEF Spec

----------------------------------------------------------------------------
(***************************************************************************)
(* Overlapping savers.  A saver that has opened its file may find the file  *)
(* truncated again, or renamed away, by another one.  What makes up for it  *)
(* is that the truncating saver still has to write, and that every saver    *)
(* writes the same table, since Register waits for all of them.             *)
(***************************************************************************)
Writing == {r \in Request : at[r] \in {"encode", "rename"}}

\* the table is in the file, or a saver will still write it there
Good(i) == content[i] = mem \/ \E r \in Request : at[r] = "encode" /\ fd[r] = i

OpenInv == \A r \in Writing : fd[r] \in Request

WrittenInv == \A r \in Request : at[r] = "rename" => Good(fd[r])

\* whose file was renamed away left the name to a good one
RenamedInv == \A r \in Writing : fd[r] = tmp \/ (main # NoFile /\ Good(main))

\* a temporary file, unless a crash left it behind, has a saver that renames it
OwnedInv == tmp # NoFile /\ Writing # {} => \E r \in Writing : fd[r] = tmp

DownInv == ~up => \A r \in Request : at[r] \notin InFlight

SaveInv ==
    /\ DownInv
    /\ faults = 0 => OpenInv /\ WrittenInv /\ RenamedInv /\ OwnedInv /\ DurableWhenQuiet

\* Every identity kept in memory or on file was sent by a client that has
\* arrived, and so is every identity the agent is given.
Genuine(u, k) == \E s \in Request : at[s] # "new" /\ OwnIdentity(s) = [user |-> u, key |-> k]

GenuineTable(m) == \A u \in User : m[u] = Absent \/ Genuine(u, m[u])

GenuineInv ==
    /\ GenuineTable(mem)
    /\ \A i \in Request : content[i] = Truncated \/ GenuineTable(content[i])
    /\ IdentityIsGenuine

----------------------------------------------------------------------------
LEMMA SaveInit == Init => SaveInv
BY ProxyAssumption
   DEF Init, SaveInv, DownInv, OpenInv, WrittenInv, RenamedInv, OwnedInv, Writing,
       DurableWhenQuiet, Stored

\* A step that only moves one request, neither into nor out of its save.
LEMMA SaveMove ==
    ASSUME TypeOK, SaveInv, NEW r \in Request, NEW l,
           UNCHANGED <<up, mem, fd, main, tmp, content, faults>>,
           at' = [at EXCEPT ![r] = l],
           up \/ at[r] \in InFlight,
           at[r] \notin {"encode", "rename"}, l \notin {"encode", "rename"},
           at[r] \in {"rlock", "create"} <=> l \in {"rlock", "create"}
    PROVE  SaveInv'
<1>1. at'[r] = l /\ \A s \in Request \ {r} : at'[s] = at[s]
    BY DEF TypeOK
<1>2. Writing' = Writing
    BY <1>1 DEF Writing
<1>3. ASSUME NEW i PROVE Good(i)' <=> Good(i)
    BY <1>1 DEF Good
<1>4. DownInv'
    BY <1>1 DEF SaveInv, DownInv, InFlight, Saving
<1>5. DurableWhenQuiet => DurableWhenQuiet'
    BY <1>1 DEF DurableWhenQuiet, Stored, Saving
<1>6. WrittenInv => WrittenInv'
    BY <1>1, <1>3 DEF WrittenInv
<1>7. OpenInv => OpenInv'
    BY <1>2 DEF OpenInv
<1>8. RenamedInv => RenamedInv'
    BY <1>2, <1>3 DEF RenamedInv
<1>9. OwnedInv => OwnedInv'
    BY <1>2 DEF OwnedInv
<1> QED
    BY <1>4, <1>5, <1>6, <1>7, <1>8, <1>9 DEF SaveInv

LEMMA SaveCreate ==
    ASSUME TypeOK, SaveInv, NEW r \in Request, CreateTmp(r)
    PROVE  SaveInv'
<1> USE ProxyAssumption DEF TypeOK
<1>1. DownInv'
    BY DEF SaveInv, DownInv, CreateTmp, AfterSave, Goto, InFlight, Saving
<1>2. CASE Fault
    <2>1. faults' # 0
        BY <1>2, FaultCounts DEF TypeOK
    <2> QED
        BY <1>1, <2>1 DEF SaveInv
<1>3. CASE ~Fault
    <2> DEFINE f == IF tmp = NoFile THEN r ELSE tmp
    <2>1. /\ f \in Request /\ f # NoFile
          /\ tmp' = f /\ fd' = [fd EXCEPT ![r] = f]
          /\ content' = [content EXCEPT ![f] = Truncated]
          /\ at[r] = "create" /\ at'[r] = "encode"
          /\ \A s \in Request \ {r} : at'[s] = at[s] /\ fd'[s] = fd[s]
          /\ UNCHANGED <<up, mem, main, faults>>
        BY <1>3 DEF CreateTmp, Goto
    <2> HIDE DEF f
    <2>2. Writing' = Writing \cup {r} /\ r \notin Writing
        BY <2>1 DEF Writing
    <2>3. ASSUME NEW i, i \in Request, Good(i) PROVE Good(i)'
        BY <2>1, <2>3 DEF Good
    <2>4. SUFFICES ASSUME faults = 0
                   PROVE OpenInv' /\ WrittenInv' /\ RenamedInv' /\ OwnedInv' /\ DurableWhenQuiet'
        BY <1>1, <2>1 DEF SaveInv
    <2>5. OpenInv'
        <3> SUFFICES ASSUME NEW s \in Writing' PROVE fd'[s] \in Request
            BY DEF OpenInv
        <3>1. CASE s = r
            BY <3>1, <2>1
        <3>2. CASE s # r
            BY <3>2, <2>1, <2>2, <2>4 DEF SaveInv, OpenInv, Writing
        <3> QED
            BY <3>1, <3>2
    <2>6. WrittenInv'
        <3> SUFFICES ASSUME NEW s \in Request, at'[s] = "rename" PROVE Good(fd[s])' /\ s # r
            BY <2>1 DEF WrittenInv
        <3> QED
            BY <2>1, <2>3, <2>4 DEF SaveInv, WrittenInv, OpenInv, Writing
    <2>7. RenamedInv'
        <3> SUFFICES ASSUME NEW s \in Writing' PROVE fd'[s] = tmp' \/ (main' # NoFile /\ Good(main)')
            BY DEF RenamedInv
        <3>1. CASE s = r
            BY <3>1, <2>1
        <3>2. CASE s # r
            <4>1. s \in Writing /\ fd'[s] = fd[s] /\ fd[s] \in Request
                BY <3>2, <2>1, <2>2, <2>4 DEF SaveInv, OpenInv, Writing
            <4>2. CASE fd[s] = tmp
                BY <4>1, <4>2, <2>1 DEF f
            <4>3. CASE main # NoFile /\ Good(main)
                BY <4>3, <2>1, <2>3
            <4> QED
                BY <4>1, <4>2, <4>3, <2>4 DEF SaveInv, RenamedInv
        <3> QED
            BY <3>1, <3>2
    <2>8. OwnedInv'
        BY <2>1, <2>2 DEF OwnedInv
    <2>9. DurableWhenQuiet'
        BY <2>1 DEF DurableWhenQuiet, Saving
    <2> QED
        BY <2>5, <2>6, <2>7, <2>8, <2>9
<1> QED
    BY <1>2, <1>3

LEMMA SaveEncode ==
    ASSUME TypeOK, SaveInv, NEW r \in Request, Encode(r)
    PROVE  SaveInv'
<1> USE ProxyAssumption DEF TypeOK
<1>1. DownInv'
    BY DEF SaveInv, DownInv, Encode, AfterSave, Goto, InFlight, Saving
<1>2. CASE Fault
    <2>1. faults' # 0
        BY <1>2, FaultCounts DEF TypeOK
    <2> QED
        BY <1>1, <2>1 DEF SaveInv
<1>3. CASE ~Fault
    <2>1. /\ content' = [content EXCEPT ![fd[r]] = mem]
          /\ at' = [at EXCEPT ![r] = "rename"]
          /\ at[r] = "encode" /\ UNCHANGED <<up, mem, fd, main, tmp, faults>>
        BY <1>3 DEF Encode, Goto
    <2>2. Writing' = Writing
        BY <2>1 DEF Writing
    <2>3. ASSUME NEW i, i \in Request, Good(i) \/ i = fd[r] PROVE Good(i)'
        BY <2>1, <2>3 DEF Good
    <2>4. SUFFICES ASSUME faults = 0
                   PROVE OpenInv' /\ WrittenInv' /\ RenamedInv' /\ OwnedInv' /\ DurableWhenQuiet'
        BY <1>1, <2>1 DEF SaveInv
    <2>5. OpenInv' /\ OwnedInv'
        BY <2>1, <2>2, <2>4 DEF SaveInv, OpenInv, OwnedInv
    <2>6. WrittenInv'
        <3> SUFFICES ASSUME NEW s \in Request, at'[s] = "rename" PROVE Good(fd[s])'
            BY DEF WrittenInv
        <3>1. s \in Writing /\ fd[s] \in Request
            BY <2>1, <2>4 DEF SaveInv, OpenInv, Writing
        <3>2. Good(fd[s]) \/ fd[s] = fd[r]
            BY <2>1, <2>4 DEF SaveInv, WrittenInv
        <3> QED
            BY <3>1, <3>2, <2>1, <2>3
    <2>7. RenamedInv'
        BY <2>1, <2>2, <2>3, <2>4 DEF SaveInv, RenamedInv
    <2>8. DurableWhenQuiet'
        BY <2>1 DEF DurableWhenQuiet, Saving
    <2> QED
        BY <2>5, <2>6, <2>7, <2>8
<1> QED
    BY <1>2, <1>3

LEMMA SaveRename ==
    ASSUME TypeOK, SaveInv, NEW r \in Request, Rename(r)
    PROVE  SaveInv'
<1> USE ProxyAssumption DEF TypeOK
<1>1. DownInv'
    BY DEF SaveInv, DownInv, Rename, AfterSave, Goto, InFlight, Saving
<1>2. /\ at[r] = "rename" /\ at'[r] \in {"ack", "target"}
      /\ \A s \in Request \ {r} : at'[s] = at[s]
      /\ main' = (IF tmp = NoFile THEN main ELSE tmp) /\ tmp' = NoFile
      /\ UNCHANGED <<up, mem, fd, content, faults>>
    BY DEF Rename, AfterSave, Goto
<1>3. SUFFICES ASSUME faults = 0
               PROVE OpenInv' /\ WrittenInv' /\ RenamedInv' /\ OwnedInv' /\ DurableWhenQuiet'
    BY <1>1, <1>2 DEF SaveInv
<1>4. Writing' = Writing \ {r} /\ r \in Writing
    BY <1>2 DEF Writing
<1>5. ASSUME NEW i, Good(i) PROVE Good(i)'
    BY <1>2, <1>5 DEF Good
<1>6. OpenInv' /\ OwnedInv'
    BY <1>2, <1>3, <1>4 DEF SaveInv, OpenInv, OwnedInv
<1>7. WrittenInv'
    BY <1>2, <1>3, <1>5 DEF SaveInv, WrittenInv
<1>8. main' # NoFile /\ Good(main)'
    <2>1. CASE tmp = NoFile
        <3>1. fd[r] # tmp
            BY <1>3, <1>4, <2>1 DEF SaveInv, OpenInv
        <3> QED
            BY <1>2, <1>3, <1>4, <1>5, <2>1, <3>1 DEF SaveInv, RenamedInv, Good
    <2>2. CASE tmp # NoFile
        <3>1. PICK s \in Writing : fd[s] = tmp
            BY <1>3, <1>4, <2>2 DEF SaveInv, OwnedInv
        <3>2. Good(tmp)
            BY <1>3, <3>1 DEF SaveInv, WrittenInv, Good, Writing
        <3> QED
            BY <1>2, <1>5, <2>2, <3>2 DEF Good
    <2> QED
        BY <2>1, <2>2
<1>9. RenamedInv'
    BY <1>8 DEF RenamedInv
<1>10. DurableWhenQuiet'
    BY <1>8, <1>2 DEF DurableWhenQuiet, Stored, Good, Saving
<1> QED
    BY <1>6, <1>7, <1>9, <1>10

LEMMA SaveNext == TypeOK /\ SaveInv /\ [Next]_vars => SaveInv'
<1> SUFFICES ASSUME TypeOK, SaveInv, [Next]_vars PROVE SaveInv'
    OBVIOUS
<1> USE ProxyAssumption
<1>1. CASE UNCHANGED vars
    BY <1>1 DEF vars, SaveInv, DownInv, OpenInv, WrittenInv, RenamedInv, OwnedInv, Writing,
                Good, DurableWhenQuiet, Stored
<1>2. ASSUME NEW r \in Request, Arrive(r) PROVE SaveInv'
    <2>1. PICK l \in {"lock", "lookup", "target"} : at' = [at EXCEPT ![r] = l]
        BY <1>2 DEF Arrive, Goto
    <2>2. up /\ at[r] = "new" /\ UNCHANGED <<up, mem, fd, main, tmp, content, faults>>
        BY <1>2 DEF Arrive, fileVars
    <2> QED
        BY <2>1, <2>2, SaveMove
<1>3. ASSUME NEW r \in Request, Lookup(r) PROVE SaveInv'
    <2>1. PICK l \in {"lock", "target"} : at' = [at EXCEPT ![r] = l]
        BY <1>3 DEF Lookup, Goto
    <2>2. at[r] = "lookup" /\ UNCHANGED <<up, mem, fd, main, tmp, content, faults>>
        BY <1>3 DEF Lookup, fileVars
    <2> QED
        BY <2>1, <2>2, SaveMove DEF InFlight
<1>4. ASSUME NEW r \in Request, CallLock(r) PROVE SaveInv'
    BY <1>4, SaveMove DEF CallLock, Goto, fileVars, InFlight
<1>5. ASSUME NEW r \in Request, RLock(r) PROVE SaveInv'
    BY <1>5, SaveMove DEF RLock, Goto, fileVars, InFlight
<1>6. ASSUME NEW r \in Request, AckRegister(r) PROVE SaveInv'
    BY <1>6, SaveMove DEF AckRegister, Goto, fileVars, InFlight
<1>7. ASSUME NEW r \in Request, Forward(r) PROVE SaveInv'
    BY <1>7, SaveMove DEF Forward, Goto, fileVars, InFlight
<1>8. ASSUME NEW r \in Request, Respond(r) PROVE SaveInv'
    <2>1. /\ at[r] = "agent" /\ at' = [at EXCEPT ![r] = "done"]
          /\ UNCHANGED <<up, mem, fd, main, tmp, content, faults>>
        BY <1>8 DEF Respond, Goto, fileVars
    <2> QED
        BY <2>1, SaveMove DEF InFlight
<1>9. ASSUME NEW r \in Request, Register(r) PROVE SaveInv'
    \* no saver is inside the lock, and r has its own save before it
    <2>1. at[r] = "wait" /\ at'[r] = "rlock" /\ \A s \in Request \ {r} : at'[s] = at[s]
        BY <1>9 DEF Register, Goto, TypeOK
    <2>2. Writing' = {} /\ \A s \in Request : at'[s] \notin Saving
        BY <1>9, <2>1 DEF Register, CanWrite, Readers, Writing, Saving
    <2>3. UNCHANGED <<up, fd, main, tmp, content, faults>>
        BY <1>9 DEF Register, fileVars
    <2>4. DownInv'
        BY <2>1, <2>3 DEF SaveInv, DownInv, InFlight
    <2>5. OpenInv' /\ RenamedInv' /\ OwnedInv'
        BY <2>2 DEF OpenInv, RenamedInv, OwnedInv
    <2>6. WrittenInv'
        BY <2>2 DEF WrittenInv, Saving
    <2>7. DurableWhenQuiet'
        BY <2>1 DEF DurableWhenQuiet
    <2> QED
        BY <2>4, <2>5, <2>6, <2>7 DEF SaveInv
<1>10. CASE Crash
    <2>1. up' = FALSE /\ \A s \in Request : at'[s] \notin InFlight
        BY <1>10 DEF Crash, InFlight, Saving
    <2>2. Writing' = {} /\ \A s \in Request : at'[s] # "rename"
        BY <2>1 DEF Writing, InFlight, Saving
    <2> QED
        BY <2>1, <2>2 DEF SaveInv, DownInv, OpenInv, WrittenInv, RenamedInv, OwnedInv, DurableWhenQuiet
<1>11. CASE Load
    <2>1. UNCHANGED <<at, fd, main, tmp, content, faults>> /\ up' = TRUE /\ mem' = Stored
        BY <1>11 DEF Load, fileVars
    <2>2. Writing' = {} /\ \A s \in Request : at'[s] # "rename"
        BY <1>11, <2>1 DEF Load, SaveInv, DownInv, Writing, InFlight, Saving
    <2>3. Stored' = Stored
        BY <2>1 DEF Stored
    <2> QED
        BY <2>1, <2>2, <2>3
           DEF SaveInv, DownInv, OpenInv, WrittenInv, RenamedInv, OwnedInv, DurableWhenQuiet
<1> QED
    BY <1>1, <1>2, <1>3, <1>4, <1>5, <1>6, <1>7, <1>8, <1>9, <1>10, <1>11,
       SaveCreate, SaveEncode, SaveRename DEF Next, Serve

\* However many savers overlap, rename each other's file, and whenever the
\* process crashes: as long as no file operation fails, the mapping file holds
\* the table in memory each time no save is due or under way.
THEOREM TableIsSaved == Spec => []DurableWhenQuiet
<1>1. Init => TypeOK /\ SaveInv
    BY TypeInit, SaveInit
<1>2. TypeOK /\ SaveInv /\ [Next]_vars => (TypeOK /\ SaveInv)'
    BY TypeNext, SaveNext
<1>3. SaveInv => DurableWhenQuiet
    BY DEF SaveInv, DurableWhenQuiet
<1> QED
    BY <1>1, <1>2, <1>3, PTL DEF Spec

----------------------------------------------------------------------------
LEMMA GenuineInit == Init => GenuineInv
BY ProxyAssumption DEF Init, GenuineInv, GenuineTable, NoEntries, IdentityIsGenuine

\* Who has sent an identity remains its sender.
LEMMA GenuineStays ==
    ASSUME TypeOK, [Next]_vars
    PROVE  /\ \A r \in Request : at[r] # "new" => at'[r] # "new"
           /\ \A u, k : Genuine(u, k) => Genuine(u, k)'
<1>1. \A r \in Request : at[r] # "new" => at'[r] # "new"
    BY DEF TypeOK, Next, vars, Serve, Arrive, Lookup, CallLock, Register, RLock, CreateTmp,
           Encode, Rename, AckRegister, Forward, Respond, Crash, Load, AfterSave, Goto, InFlight,
           Saving
<1> QED
    BY <1>1 DEF Genuine, OwnIdentity

LEMMA GenuineNext == TypeOK /\ GenuineInv /\ [Next]_vars => GenuineInv'
<1> SUFFICES ASSUME TypeOK, GenuineInv, [Next]_vars PROVE GenuineInv'
    OBVIOUS
<1>1. /\ \A r \in Request : at[r] # "new" => at'[r] # "new"
      /\ \A u, k : Genuine(u, k) => Genuine(u, k)'
    BY GenuineStays
<1>2. ASSUME NEW m, GenuineTable(m) PROVE GenuineTable(m)'
    BY <1>1, <1>2 DEF GenuineTable
<1>3. GenuineTable(mem)'
    <2>1. CASE mem' = mem
        BY <1>2, <2>1 DEF GenuineInv, GenuineTable
    <2>2. ASSUME NEW r \in Request, Register(r) PROVE GenuineTable(mem)'
        <3>1. Genuine(Req[r].user, Req[r].key)'
            BY <1>1, <2>2 DEF Genuine, OwnIdentity, Register
        <3>2. mem' = [mem EXCEPT ![Req[r].user] = Req[r].key]
            BY <2>2 DEF Register
        <3> QED
            BY <1>1, <3>1, <3>2 DEF GenuineTable, GenuineInv, TypeOK, Mapping
    <2>3. CASE Load
        <3>1. mem' = Stored /\ Stored # Truncated
            BY <2>3 DEF Load
        <3>2. CASE main = NoFile
            BY <3>1, <3>2 DEF Stored, NoEntries, GenuineTable
        <3>3. CASE main # NoFile
            BY <1>1, <3>1, <3>3 DEF Stored, GenuineTable, GenuineInv, TypeOK
        <3> QED
            BY <3>2, <3>3
    <2> QED
        BY <2>1, <2>2, <2>3
           DEF Next, vars, Serve, Arrive, Lookup, CallLock, RLock, CreateTmp, Encode, Rename,
               AckRegister, Forward, Respond, Crash
<1>4. ASSUME NEW i \in Request PROVE (content[i] = Truncated \/ GenuineTable(content[i]))'
    <2>1. content'[i] \in {content[i], Truncated, mem}
        BY DEF TypeOK, Next, vars, fileVars, Serve, Arrive, Lookup, CallLock, Register, RLock,
               CreateTmp, Encode, Rename, AckRegister, Forward, Respond, Crash, Load
    <2> QED
        BY <1>1, <2>1 DEF GenuineInv, GenuineTable
<1>5. IdentityIsGenuine'
    <2> SUFFICES ASSUME NEW r \in Request, at'[r] = "agent"
                 PROVE  \E s \in Request : at'[s] # "new" /\ sentAs'[r] = OwnIdentity(s)
        BY DEF IdentityIsGenuine, OwnIdentity
    <2>1. CASE Forward(r)
        <3>1. CASE sentAs'[r] = OwnIdentity(r)
            BY <3>1
        <3>2. CASE sentAs'[r] # OwnIdentity(r)
            <4>1. /\ Req[r].target \in User /\ mem[Req[r].target] # Absent
                  /\ sentAs'[r] = [user |-> Req[r].target, key |-> mem[Req[r].target]]
                BY <2>1, <3>2, ProxyAssumption DEF Forward, ModifyMetadata, TypeOK, ReqType
            <4> QED
                BY <1>1, <4>1 DEF GenuineInv, GenuineTable, Genuine
        <3> QED
            BY <3>1, <3>2
    <2>2. CASE ~Forward(r)
        <3>1. at[r] = "agent" /\ sentAs'[r] = sentAs[r]
            BY <2>2
               DEF TypeOK, Next, vars, requestVars, Serve, Arrive, Lookup, CallLock, Register,
                   RLock, CreateTmp, Encode, Rename, AckRegister, Forward, Respond, Crash, Load,
                   AfterSave, Goto
        <3> QED
            BY <1>1, <3>1 DEF GenuineInv, IdentityIsGenuine
    <2> QED
        BY <2>1, <2>2
<1> QED
    BY <1>3, <1>4, <1>5 DEF GenuineInv

\* The agent is only ever given a user's name together with a key that a client
\* sent for that user, through any number of saves, crashes and restarts.
THEOREM NoMixedIdentity == Spec => []IdentityIsGenuine
<1>1. Init => TypeOK /\ GenuineInv
    BY TypeInit, GenuineInit
<1>2. TypeOK /\ GenuineInv /\ [Next]_vars => (TypeOK /\ GenuineInv)'
    BY TypeNext, GenuineNext
<1>3. GenuineInv => IdentityIsGenuine
    BY DEF GenuineInv
<1> QED
    BY <1>1, <1>2, <1>3, PTL DEF Spec

----------------------------------------------------------------------------
LEMMA TargetNext ==
    TypeOK /\ GenuineInv /\ TargetIdentityUsed /\ [Next]_vars => TargetIdentityUsed'
<1> SUFFICES ASSUME TypeOK, GenuineInv, TargetIdentityUsed, [Next]_vars,
                    NEW r \in Request, at'[r] = "agent", Req[r].target # NoUser, ~err'[r]
             PROVE  \/ sentAs'[r].user = Req[r].target
                    \/ \E s \in Request : /\ at'[s] # "new" /\ Req[s].user = Req[r].target
                                          /\ Req[s].key = NoKey
    BY DEF TargetIdentityUsed
<1>1. \A s \in Request : at[s] # "new" => at'[s] # "new"
    BY GenuineStays
<1>2. CASE Forward(r)
    <2> DEFINE key == mem[Req[r].target]
    <2>1. Req[r].target \in User /\ key # Absent /\ sentAs'[r] = ModifyMetadata(r, key)
        BY <1>2, ProxyAssumption DEF Forward, TypeOK, ReqType
    <2>2. CASE key = NoKey
        <3>1. Genuine(Req[r].target, NoKey)
            BY <2>1, <2>2 DEF GenuineInv, GenuineTable
        <3> QED
            BY <1>1, <3>1 DEF Genuine, OwnIdentity
    <2>3. CASE key # NoKey
        BY <2>1, <2>3 DEF ModifyMetadata
    <2> QED
        BY <2>2, <2>3
<1>3. CASE ~Forward(r)
    <2>1. at[r] = "agent" /\ sentAs'[r] = sentAs[r] /\ err'[r] = err[r]
        BY <1>3
           DEF TypeOK, Next, vars, requestVars, Serve, Arrive, Lookup, CallLock, Register,
               RLock, CreateTmp, Encode, Rename, AckRegister, Forward, Respond, Crash, Load,
               AfterSave, Goto
    <2> QED
        BY <1>1, <2>1 DEF TargetIdentityUsed
<1> QED
    BY <1>2, <1>3

\* A request forwarded for a target without an error runs under the target's name,
\* whatever else is registered, saved and lost meanwhile, unless a request gave the
\* target an empty key.
THEOREM TargetUsed == Spec => []TargetIdentityUsed
<1>1. Init => TypeOK /\ GenuineInv /\ TargetIdentityUsed
    BY TypeInit, GenuineInit DEF Init, TargetIdentityUsed
<1>2. TypeOK /\ GenuineInv /\ TargetIdentityUsed /\ [Next]_vars
        => (TypeOK /\ GenuineInv /\ TargetIdentityUsed)'
    BY TypeNext, GenuineNext, TargetNext
<1> QED
    BY <1>1, <1>2, PTL DEF Spec
=============================================================================
