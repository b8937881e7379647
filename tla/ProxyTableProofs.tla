--------------------------- MODULE ProxyTableProofs ---------------------------
(***************************************************************************)
(* A proxy that serves one request at a time keeps its file loadable and    *)
(* implements KeyTable.                                                     *)
(***************************************************************************)
EXTENDS ProxyTable, AgentProxyProofs, FiniteSetTheorems

\* one request at a time
SerialInv == \A r, s \in Request : at[r] \in InFlight /\ at[s] \in InFlight => r = s

\* how far a request gets, by its kind
RouteInv ==
    \A r \in Request : /\ at[r] \in {"lookup", "lock", "wait"} => Req[r].user \in User
                       /\ at[r] \in {"lookup", "target", "agent"} => Req[r].kind # "register"
                       /\ at[r] = "ack" => Req[r].kind = "register"

\* r has not created a file yet, nor has the inode of its name been used
Early == {"new", "lookup", "lock", "wait", "rlock", "create"}

\* a saver owns the temporary file, which is never mappings.json
FileInv ==
    /\ tmp # NoFile => tmp # main
    /\ \A r \in Request :
          /\ at[r] \in Early => main # r /\ tmp # r
          /\ at[r] \in {"encode", "rename"} => tmp # NoFile /\ fd[r] = tmp
          /\ at[r] = "rename" => content[tmp] = mem
    /\ MappingsFileLoadable

\* what the table in memory has while a request is registered and saved
EntryInv ==
    \A r \in Request :
        /\ at[r] \in {"lock", "wait"} /\ Req[r].kind # "register" => mem[Req[r].user] = Absent
        /\ at[r] \in {"rlock", "ack"} \cup Saving => mem[Req[r].user] = Req[r].key

LEMMA OneServed ==
    ASSUME MaxInFlight = 1, IsFiniteSet(Request), NEW r \in Request, Arrive(r)
    PROVE  \A s \in Request : at[s] \notin InFlight
<1>1. IsFiniteSet(Served)
    BY FS_Subset DEF Served
<1>2. Cardinality(Served) \in Nat /\ Cardinality(Served) < 1
    BY <1>1, FS_CardinalityType DEF Arrive
<1>3. Cardinality(Served) = 0
    BY <1>2
<1>4. Served = {}
    BY <1>1, <1>3, FS_EmptySet
<1> QED
    BY <1>4 DEF Served

\* Only an arrival adds to the requests in flight.
LEMMA InFlightNext ==
    ASSUME TypeOK, [Next]_vars
    PROVE  \/ \E r \in Request : Arrive(r)
           \/ \A s \in Request : at'[s] \in InFlight => at[s] \in InFlight
<1> USE DEF TypeOK, Goto
<1> DEFINE NoneEnters == \A s \in Request : at'[s] \in InFlight => at[s] \in InFlight
<1>1. CASE UNCHANGED vars
    BY <1>1 DEF vars
<1>2. ASSUME NEW r \in Request, Lookup(r) \/ CallLock(r) \/ Register(r) \/ RLock(r) PROVE NoneEnters
    BY <1>2 DEF Lookup, CallLock, Register, RLock, InFlight
<1>3. ASSUME NEW r \in Request, CreateTmp(r) \/ Encode(r) \/ Rename(r) PROVE NoneEnters
    BY <1>3 DEF CreateTmp, Encode, Rename, AfterSave, InFlight, Saving
<1>4. ASSUME NEW r \in Request, AckRegister(r) \/ Forward(r) \/ Respond(r) PROVE NoneEnters
    BY <1>4 DEF AckRegister, Forward, Respond, InFlight
<1>5. CASE Crash
    BY <1>5 DEF Crash, InFlight, Saving
<1>6. CASE Load
    BY <1>6 DEF Load
<1> QED
    BY <1>1, <1>2, <1>3, <1>4, <1>5, <1>6 DEF Next, Serve

LEMMA SerialNext ==
    ASSUME MaxInFlight = 1, IsFiniteSet(Request), TypeOK, SerialInv, [Next]_vars
    PROVE  SerialInv'
<1>1. ASSUME NEW r \in Request, Arrive(r) PROVE SerialInv'
    <2>1. \A s \in Request : at[s] \notin InFlight
        BY <1>1, OneServed
    <2>2. \A s \in Request \ {r} : at'[s] = at[s]
        BY <1>1 DEF Arrive, Goto, TypeOK
    <2> QED
        BY <2>1, <2>2 DEF SerialInv
<1>2. CASE \A s \in Request : at'[s] \in InFlight => at[s] \in InFlight
    BY <1>2 DEF SerialInv
<1> QED
    BY <1>1, <1>2, InFlightNext

LEMMA RouteNext == ASSUME TypeOK, RouteInv, [Next]_vars PROVE RouteInv'
<1> USE ProxyAssumption DEF RouteInv, TypeOK, ReqType, Goto
<1>1. CASE UNCHANGED vars
    BY <1>1 DEF vars
<1>2. ASSUME NEW r \in Request, Arrive(r) PROVE RouteInv'
    BY <1>2 DEF Arrive
<1>3. ASSUME NEW r \in Request, Lookup(r) \/ CallLock(r) \/ Register(r) \/ RLock(r) PROVE RouteInv'
    <2>1. CASE Lookup(r)
        BY <2>1 DEF Lookup
    <2>2. CASE CallLock(r)
        BY <2>2 DEF CallLock
    <2>3. CASE Register(r)
        BY <2>3 DEF Register
    <2>4. CASE RLock(r)
        BY <2>4 DEF RLock
    <2> QED
        BY <1>3, <2>1, <2>2, <2>3, <2>4
<1>4. ASSUME NEW r \in Request, CreateTmp(r) \/ Encode(r) \/ Rename(r) PROVE RouteInv'
    <2>1. /\ at'[r] \in {"encode", "rename"} \/ at'[r] = IF Req[r].kind = "register" THEN "ack" ELSE "target"
          /\ \A s \in Request \ {r} : at'[s] = at[s]
        <3>1. CASE CreateTmp(r)
            BY <3>1 DEF CreateTmp, AfterSave
        <3>2. CASE Encode(r)
            BY <3>2 DEF Encode, AfterSave
        <3>3. CASE Rename(r)
            BY <3>3 DEF Rename, AfterSave
        <3> QED
            BY <1>4, <3>1, <3>2, <3>3
    <2>2. \A s \in Request \ {r} : at'[s] = at[s]
        BY <2>1
    <2>3. /\ at'[r] \notin {"lookup", "lock", "wait", "agent"}
          /\ at'[r] = "target" => Req[r].kind # "register"
          /\ at'[r] = "ack" => Req[r].kind = "register"
        BY <2>1
    <2> QED
        BY ONLY <2>2, <2>3, RouteInv DEF RouteInv
<1>5. ASSUME NEW r \in Request, AckRegister(r) \/ Forward(r) \/ Respond(r) PROVE RouteInv'
    BY <1>5 DEF AckRegister, Forward, Respond
<1>6. CASE Crash
    BY <1>6 DEF Crash, InFlight
<1>7. CASE Load
    BY <1>7 DEF Load
<1> QED
    BY <1>1, <1>2, <1>3, <1>4, <1>5, <1>6, <1>7 DEF Next, Serve

\* A step that touches neither the files nor the table, and takes nobody back
\* to an early stage or into a save.
LEMMA FileMove ==
    ASSUME FileInv, UNCHANGED <<mem, fd, main, tmp, content>>,
           \A s \in Request : /\ at'[s] \in Early => at[s] \in Early
                              /\ at'[s] \in {"encode", "rename"} => at'[s] = at[s]
    PROVE  FileInv'
BY DEF FileInv, MappingsFileLoadable, Stored

LEMMA FileNext == ASSUME TypeOK, SerialInv, SaveInv, FileInv, [Next]_vars PROVE FileInv'
<1> USE ProxyAssumption DEF TypeOK, Goto
<1>1. CASE UNCHANGED vars
    BY <1>1, FileMove DEF vars
<1>2. ASSUME NEW r \in Request, Arrive(r) \/ Lookup(r) \/ CallLock(r) \/ RLock(r) PROVE FileInv'
    BY <1>2, FileMove DEF Arrive, Lookup, CallLock, RLock, fileVars, Early
<1>3. ASSUME NEW r \in Request, AckRegister(r) \/ Forward(r) \/ Respond(r) PROVE FileInv'
    BY <1>3, FileMove DEF AckRegister, Forward, Respond, fileVars, Early
<1>4. CASE Crash
    BY <1>4, FileMove DEF Crash, fileVars, Early
<1>5. ASSUME NEW r \in Request, Register(r) PROVE FileInv'
    <2>1. at[r] = "wait" /\ at' = [at EXCEPT ![r] = "rlock"] /\ UNCHANGED <<fd, main, tmp, content>>
        BY <1>5 DEF Register, fileVars
    <2>2. \A s \in Request : at'[s] # "rename"
        BY <2>1 DEF SerialInv, InFlight, Saving
    <2> QED
        BY <2>1, <2>2 DEF FileInv, MappingsFileLoadable, Stored, Early
<1>6. ASSUME NEW r \in Request, CreateTmp(r) PROVE FileInv'
    <2> DEFINE f == IF tmp = NoFile THEN r ELSE tmp
    <2>1. CASE AfterSave(r) /\ Fault /\ UNCHANGED <<tmp, fd, content>>
        BY <1>6, <2>1, FileMove DEF CreateTmp, AfterSave, Early
    <2>2. CASE /\ tmp' = f /\ fd' = [fd EXCEPT ![r] = f]
               /\ content' = [content EXCEPT ![f] = Truncated]
               /\ at' = [at EXCEPT ![r] = "encode"]
        <3>1. at[r] = "create" /\ main' = main
            BY <1>6 DEF CreateTmp
        <3>2. f \in Request /\ f # NoFile /\ f # main
            BY <3>1 DEF FileInv, Early
        <3>3. \A s \in Request \ {r} : at[s] \notin {"create", "encode", "rename"} /\ at'[s] = at[s]
            BY <2>2, <3>1 DEF SerialInv, InFlight, Saving
        <3>4. \A s \in Request \ {r} : at[s] \in Early => s # f
            BY DEF FileInv
        <3>5. MappingsFileLoadable'
            BY <2>2, <3>1, <3>2 DEF FileInv, MappingsFileLoadable, Stored
        <3>6. at'[r] = "encode" /\ fd'[r] = f /\ r \in Request
            BY <2>2
        <3> HIDE DEF f
        <3>7. ASSUME NEW s \in Request
              PROVE /\ at'[s] \in Early => main' # s /\ tmp' # s
                    /\ at'[s] \in {"encode", "rename"} => tmp' # NoFile /\ fd'[s] = tmp'
                    /\ at'[s] # "rename"
            <4>1. CASE s = r
                BY <2>2, <3>2, <3>6, <4>1 DEF Early
            <4>2. CASE s # r
                BY <2>2, <3>1, <3>3, <3>4, <4>2 DEF FileInv
            <4> QED
                BY <4>1, <4>2
        <3> QED
            BY <2>2, <3>1, <3>2, <3>5, <3>7 DEF FileInv
    <2> QED
        BY <1>6, <2>1, <2>2 DEF CreateTmp
<1>7. ASSUME NEW r \in Request, Encode(r) PROVE FileInv'
    <2>1. CASE AfterSave(r) /\ Fault /\ UNCHANGED content
        BY <1>7, <2>1, FileMove DEF Encode, AfterSave, Early
    <2>2. CASE content' = [content EXCEPT ![fd[r]] = mem] /\ at' = [at EXCEPT ![r] = "rename"]
        <3>1. at[r] = "encode" /\ UNCHANGED <<mem, fd, main, tmp>> /\ fd[r] = tmp /\ tmp # NoFile
            BY <1>7 DEF Encode, FileInv
        <3>2. tmp \in Request /\ tmp # main
            BY <3>1 DEF FileInv
        <3>3. content'[tmp] = mem
            BY <2>2, <3>1, <3>2
        <3>4. MappingsFileLoadable'
            BY <2>2, <3>1, <3>2 DEF FileInv, MappingsFileLoadable, Stored
        <3> QED
            BY <2>2, <3>1, <3>2, <3>3, <3>4 DEF FileInv, Early
    <2> QED
        BY <1>7, <2>1, <2>2 DEF Encode
<1>8. ASSUME NEW r \in Request, Rename(r) PROVE FileInv'
    <2>1. /\ at[r] = "rename" /\ tmp # NoFile /\ content[tmp] = mem
          /\ main' = tmp /\ tmp' = NoFile /\ UNCHANGED <<mem, fd, content>>
        BY <1>8 DEF Rename, FileInv
    <2>2. at'[r] \notin Early \cup {"encode", "rename"}
        BY <1>8 DEF Rename, AfterSave, Early
    <2>3. \A s \in Request \ {r} : at'[s] = at[s] /\ at[s] \notin {"encode", "rename"}
        <3>1. \A s \in Request \ {r} : at'[s] = at[s]
            BY <1>8 DEF Rename, AfterSave
        <3>2. \A s \in Request \ {r} : at[s] \notin {"encode", "rename"}
            BY <2>1 DEF SerialInv, InFlight, Saving
        <3> QED
            BY <3>1, <3>2
    <2>4. mem # Truncated
        BY DEF Mapping
    <2>5. MappingsFileLoadable'
        BY <2>1, <2>4 DEF MappingsFileLoadable, Stored
    <2> QED
        BY <2>1, <2>2, <2>3, <2>5 DEF FileInv
<1>9. CASE Load
    <2>1. \A s \in Request : at'[s] = at[s] /\ at[s] \notin {"encode", "rename"}
        BY <1>9 DEF Load, SaveInv, DownInv, InFlight, Saving
    <2> QED
        BY <1>9, <2>1 DEF Load, fileVars, FileInv, MappingsFileLoadable, Stored
<1> QED
    BY <1>1, <1>2, <1>3, <1>4, <1>5, <1>6, <1>7, <1>8, <1>9 DEF Next, Serve

LEMMA EntryNext == ASSUME TypeOK, SerialInv, RouteInv, SaveInv, EntryInv, [Next]_vars PROVE EntryInv'
<1> USE ProxyAssumption DEF TypeOK, ReqType, Goto, Saving
<1>1. CASE UNCHANGED vars
    BY <1>1 DEF vars, EntryInv
<1>2. ASSUME NEW r \in Request, Arrive(r) PROVE EntryInv'
    BY <1>2 DEF Arrive, EntryInv
<1>3. ASSUME NEW r \in Request, Lookup(r) \/ CallLock(r) \/ RLock(r) PROVE EntryInv'
    BY <1>3 DEF Lookup, CallLock, RLock, EntryInv
<1>4. ASSUME NEW r \in Request, CreateTmp(r) \/ Encode(r) \/ Rename(r) PROVE EntryInv'
    BY <1>4 DEF CreateTmp, Encode, Rename, AfterSave, EntryInv
<1>5. ASSUME NEW r \in Request, AckRegister(r) \/ Forward(r) \/ Respond(r) PROVE EntryInv'
    BY <1>5 DEF AckRegister, Forward, Respond, EntryInv
<1>6. CASE Crash
    BY <1>6 DEF Crash, InFlight, EntryInv
<1>7. ASSUME NEW r \in Request, Register(r) PROVE EntryInv'
    <2>1. /\ at[r] = "wait" /\ at' = [at EXCEPT ![r] = "rlock"]
          /\ mem' = [mem EXCEPT ![Req[r].user] = Req[r].key]
        BY <1>7 DEF Register
    <2>2. mem'[Req[r].user] = Req[r].key
        BY <2>1 DEF RouteInv, Mapping
    <2>3. \A s \in Request \ {r} : at'[s] = at[s] /\ at[s] \notin InFlight
        BY <2>1 DEF SerialInv, InFlight
    <2> QED
        BY <2>1, <2>2, <2>3 DEF EntryInv, InFlight
<1>8. CASE Load
    <2>1. \A s \in Request : at'[s] = at[s] /\ at[s] \notin InFlight
        BY <1>8 DEF Load, SaveInv, DownInv
    <2> QED
        BY <2>1 DEF EntryInv, InFlight
<1> QED
    BY <1>1, <1>2, <1>3, <1>4, <1>5, <1>6, <1>7, <1>8 DEF Next, Serve

----------------------------------------------------------------------------
SerialProxyInv == TypeOK /\ SaveInv /\ SerialInv /\ RouteInv /\ FileInv /\ EntryInv

LEMMA SerialProxyInit == Init => SerialProxyInv
<1> SUFFICES ASSUME Init PROVE SerialProxyInv
    OBVIOUS
<1>1. TypeOK /\ SaveInv
    BY TypeInit, SaveInit
<1>2. SerialInv /\ RouteInv /\ EntryInv
    BY DEF Init, SerialInv, RouteInv, EntryInv, InFlight, Saving
<1>3. NoEntries # Truncated
    BY ProxyAssumption DEF NoEntries
<1>4. FileInv
    BY <1>3, ProxyAssumption DEF Init, FileInv, MappingsFileLoadable, Stored
<1> QED
    BY <1>1, <1>2, <1>4 DEF SerialProxyInv

LEMMA SerialProxyNext ==
    ASSUME MaxInFlight = 1, IsFiniteSet(Request), SerialProxyInv, [Next]_vars
    PROVE  SerialProxyInv'
BY TypeNext, SaveNext, SerialNext, RouteNext, FileNext, EntryNext DEF SerialProxyInv

\* Served one at a time, requests leave a mapping file that can be loaded at
\* whatever instant the process is killed, even when file operations fail.
\* (Save writes mappings.json.tmp and renames it)
THEOREM MappingsLoadable ==
    ASSUME MaxInFlight = 1, IsFiniteSet(Request)
    PROVE  Spec => []MappingsFileLoadable
<1>1. SerialProxyInv /\ [Next]_vars => SerialProxyInv'
    BY SerialProxyNext
<1>2. SerialProxyInv => MappingsFileLoadable
    BY DEF SerialProxyInv, FileInv
<1> QED
    BY <1>1, <1>2, SerialProxyInit, PTL DEF Spec

----------------------------------------------------------------------------
\* A saver writes its temporary file, or a file that has lost its name.
LEMMA CreateKeepsStored ==
    ASSUME SerialProxyInv, NEW r \in Request, CreateTmp(r) PROVE Stored' = Stored
<1> USE ProxyAssumption DEF SerialProxyInv, TypeOK
<1>1. CASE content' = content
    BY <1>1 DEF CreateTmp, Stored
<1>2. CASE content' # content
    <2>1. PICK f \in Request : content' = [content EXCEPT ![f] = Truncated] /\ f # main
        BY <1>2 DEF CreateTmp, FileInv, Early
    <2> QED
        BY <2>1 DEF CreateTmp, Stored
<1> QED
    BY <1>1, <1>2

LEMMA EncodeKeepsStored ==
    ASSUME SerialProxyInv, NEW r \in Request, Encode(r) PROVE Stored' = Stored
<1> USE ProxyAssumption DEF SerialProxyInv, TypeOK
<1>1. fd[r] # main
    BY DEF Encode, FileInv
<1> QED
    BY <1>1 DEF Encode, Stored

\* An acknowledgement finds the key in memory and, no save having failed, on file.
LEMMA AckImplementsAck ==
    ASSUME SerialProxyInv, NEW r \in Request, AckRegister(r) PROVE Table!Ack(r)
<1> USE ProxyAssumption DEF SerialProxyInv, TypeOK, Goto
<1>1. at[r] = "ack" /\ Req[r].kind = "register" /\ mem[Req[r].user] = Req[r].key
    BY DEF AckRegister, RouteInv, EntryInv
<1>2. up
    BY <1>1 DEF SaveInv, DownInv, InFlight
<1>3. \A s \in Request : at[s] \notin Saving \cup {"rlock"}
    BY <1>1 DEF SerialInv, InFlight, Saving
<1>4. faults = 0 => Stored = mem
    BY <1>2, <1>3 DEF SaveInv, DurableWhenQuiet
<1>5. Acked' = Acked \cup {r}
    <2>1. reply'[r] = "ok" /\ \A s \in Request \ {r} : reply'[s] = reply[s]
        BY DEF AckRegister
    <2> QED
        BY ONLY <1>1, <2>1, r \in Request DEF Acked
<1>6. UNCHANGED <<up, mem, Stored, faults>>
    BY DEF AckRegister, fileVars, Stored
<1> QED
    BY <1>1, <1>2, <1>4, <1>5, <1>6 DEF Table!Ack

\* A fault is never forgotten.
LEMMA FaultsNext == ASSUME TypeOK, [Next]_vars, faults' = 0 PROVE faults = 0
<1>1. CASE UNCHANGED vars
    BY <1>1 DEF vars
<1>2. ASSUME NEW r \in Request, CreateTmp(r) \/ Encode(r) \/ Rename(r) PROVE faults = 0
    <2>1. Fault \/ UNCHANGED faults
        BY <1>2 DEF CreateTmp, Encode, Rename
    <2> QED
        BY <2>1, FaultCounts DEF TypeOK
<1>3. ASSUME NEW r \in Request,
             \/ Arrive(r) \/ Lookup(r) \/ CallLock(r) \/ Register(r) \/ RLock(r)
             \/ AckRegister(r) \/ Forward(r) \/ Respond(r)
      PROVE  UNCHANGED faults
    <2>1. Arrive(r) => UNCHANGED faults
        BY DEF Arrive, fileVars
    <2> QED
        BY <1>3, <2>1 DEF Lookup, CallLock, Register, RLock, AckRegister, Forward, Respond, fileVars
<1>4. CASE Crash \/ Load
    BY <1>4 DEF Crash, Load, fileVars
<1> QED
    BY <1>1, <1>2, <1>3, <1>4 DEF Next, Serve

LEMMA TableInit == Init => Table!Init
BY DEF Init, Table!Init, Acked, Stored, NoEntries

LEMMA TableNext ==
    ASSUME SerialProxyInv, [Next]_vars
    PROVE  [Table!Next]_Table!tableVars
<1>1. ASSUME Fault PROVE faults' # 0
    BY <1>1, FaultCounts DEF SerialProxyInv, TypeOK
<1> USE ProxyAssumption DEF SerialProxyInv, TypeOK, Goto
<1>2. ASSUME UNCHANGED <<up, mem, main, content, reply, faults>> PROVE UNCHANGED Table!tableVars
    BY <1>2 DEF Table!tableVars, Acked, Stored
<1>3. CASE UNCHANGED vars
    BY <1>2, <1>3 DEF vars
<1>4. ASSUME NEW r \in Request, Arrive(r) \/ Lookup(r) \/ CallLock(r) \/ RLock(r) \/ Forward(r)
      PROVE UNCHANGED Table!tableVars
    BY <1>2, <1>4 DEF Arrive, Lookup, CallLock, RLock, Forward, fileVars, requestVars
<1>5. ASSUME NEW r \in Request, Register(r) PROVE Table!Put(r)
    <2>1. at[r] = "wait" /\ Req[r].user \in User
        BY <1>5 DEF Register, RouteInv
    <2>2. up
        BY <2>1 DEF SaveInv, DownInv, InFlight
    <2>3. Req[r].kind = "register" \/ mem[Req[r].user] = Absent
        BY <2>1 DEF EntryInv
    <2>4. UNCHANGED <<up, Stored, Acked, faults>> /\ mem' = [mem EXCEPT ![Req[r].user] = Req[r].key]
        BY <1>5 DEF Register, fileVars, requestVars, Stored, Acked
    <2> QED
        BY <2>1, <2>2, <2>3, <2>4 DEF Table!Put
<1>6. ASSUME NEW r \in Request, CreateTmp(r) PROVE Table!Fail \/ UNCHANGED Table!tableVars
    <2>1. Stored' = Stored
        BY <1>6, CreateKeepsStored
    <2>2. UNCHANGED <<up, mem, Acked>> /\ (Fault \/ UNCHANGED faults) /\ at[r] = "create"
        BY <1>6 DEF CreateTmp, requestVars, Acked
    <2>3. up
        BY <2>2 DEF SaveInv, DownInv, InFlight, Saving
    <2> QED
        BY ONLY <1>1, <2>1, <2>2, <2>3 DEF Table!Fail, Table!tableVars
<1>7. ASSUME NEW r \in Request, Encode(r) PROVE Table!Fail \/ UNCHANGED Table!tableVars
    <2>2. Stored' = Stored
        BY <1>7, EncodeKeepsStored
    <2>3. UNCHANGED <<up, mem, Acked>> /\ (Fault \/ UNCHANGED faults) /\ at[r] = "encode"
        BY <1>7 DEF Encode, requestVars, Acked
    <2>4. up
        BY <2>3 DEF SaveInv, DownInv, InFlight, Saving
    <2> QED
        BY ONLY <1>1, <2>2, <2>3, <2>4 DEF Table!Fail, Table!tableVars
<1>8. ASSUME NEW r \in Request, Rename(r) PROVE Table!Save
    <2>1. at[r] = "rename" /\ tmp # NoFile /\ content[tmp] = mem
        BY <1>8 DEF Rename, FileInv
    <2>2. up
        BY <2>1 DEF SaveInv, DownInv, InFlight, Saving
    <2>3. Stored' = mem /\ UNCHANGED <<up, mem, Acked, faults>>
        BY <1>8, <2>1 DEF Rename, Stored, requestVars, Acked
    <2> QED
        BY <2>2, <2>3 DEF Table!Save
<1>9. ASSUME NEW r \in Request, AckRegister(r) PROVE Table!Ack(r)
    BY <1>9, AckImplementsAck
<1>10. ASSUME NEW r \in Request, Respond(r) PROVE UNCHANGED Table!tableVars
    <2>1. Req[r].kind # "register" /\ \A s \in Request \ {r} : reply'[s] = reply[s]
        BY <1>10 DEF Respond, RouteInv
    <2>2. Acked' = Acked
        BY <2>1 DEF Acked
    <2> QED
        BY <1>10, <2>2 DEF Respond, fileVars, Table!tableVars, Stored
<1>11. ASSUME Crash PROVE Table!Kill
    <2>1. up /\ up' = FALSE /\ UNCHANGED <<mem, main, content, reply, faults>>
        BY <1>11 DEF Crash, fileVars, requestVars
    <2> QED
        BY ONLY <2>1 DEF Table!Kill, Stored, Acked
<1>12. ASSUME Load PROVE Table!Restart
    <2>1. ~up /\ up' = TRUE /\ mem' = Stored /\ UNCHANGED <<main, content, reply, faults>>
        BY <1>12 DEF Load, fileVars, requestVars
    <2> QED
        BY ONLY <2>1 DEF Table!Restart, Stored, Acked
<1> QED
    BY <1>3, <1>4, <1>5, <1>6, <1>7, <1>8, <1>9, <1>10, <1>11, <1>12 DEF Next, Serve, Table!Next

\* With one request at a time the proxy implements KeyTable: the copy on disk is
\* replaced as a whole by each rename and by nothing else, has every registration
\* when it is acknowledged (no save having failed), and is what a restart finds.  (agent_proxy/main.go, Mappings and both handlers)
THEOREM ImplementsKeyTable ==
    ASSUME MaxInFlight = 1, IsFiniteSet(Request)
    PROVE  Spec => IsKeyTable
<1>1. SerialProxyInv /\ [Next]_vars => SerialProxyInv'
    BY SerialProxyNext
<1>2. SerialProxyInv /\ [Next]_vars => [Table!Next]_Table!tableVars
    BY TableNext
<1> QED
    BY <1>1, <1>2, SerialProxyInit, TableInit, PTL DEF Spec, IsKeyTable, Table!Spec
----------------------------------------------------------------------------
(***************************************************************************)
(* Acknowledged registrations.  The entry of an acknowledged user is kept   *)
(* in both tables, the one in memory and the one on file: a save copies the *)
(* first to the second, a restart the second to the first, and only a       *)
(* request of the same user replaces it.                                    *)
(***************************************************************************)
RepliedInv == \A r \in Request : reply[r] # "none" => at[r] = "done"

Kept(m, r) ==
    /\ m[Req[r].user] # Absent
    /\ \/ m[Req[r].user] = Req[r].key
       \/ \E s \in Request \ {r} : Req[s].user = Req[r].user /\ at[s] # "new"

AckInv == faults = 0 => \A r \in Acked : Kept(mem, r) /\ Kept(Stored, r)

\* A request that has been answered is over.
LEMMA RepliedNext == ASSUME TypeOK, RepliedInv, [Next]_vars PROVE RepliedInv'
<1> USE DEF RepliedInv, TypeOK, Goto
<1>1. CASE UNCHANGED vars
    BY <1>1 DEF vars
<1>2. ASSUME NEW r \in Request, Arrive(r) \/ Lookup(r) \/ CallLock(r) \/ Register(r) \/ RLock(r)
      PROVE  RepliedInv'
    BY <1>2 DEF Arrive, Lookup, CallLock, Register, RLock, requestVars
<1>3. ASSUME NEW r \in Request, CreateTmp(r) \/ Encode(r) \/ Rename(r) PROVE RepliedInv'
    BY <1>3 DEF CreateTmp, Encode, Rename, AfterSave, requestVars
<1>4. ASSUME NEW r \in Request, AckRegister(r) \/ Forward(r) \/ Respond(r) PROVE RepliedInv'
    BY <1>4 DEF AckRegister, Forward, Respond
<1>5. CASE Crash
    BY <1>5 DEF Crash, InFlight, Saving, requestVars
<1>6. CASE Load
    BY <1>6 DEF Load, requestVars
<1> QED
    BY <1>1, <1>2, <1>3, <1>4, <1>5, <1>6 DEF Next, Serve

\* A request that has arrived stays arrived.
LEMMA ArrivedNext == ASSUME TypeOK, [Next]_vars, NEW s \in Request, at[s] # "new" PROVE at'[s] # "new"
<1> USE DEF TypeOK, Goto
<1>1. CASE UNCHANGED vars
    BY <1>1 DEF vars
<1>2. ASSUME NEW r \in Request, Arrive(r) PROVE at'[s] # "new"
    BY <1>2 DEF Arrive
<1>3. ASSUME NEW r \in Request, Lookup(r) \/ CallLock(r) \/ Register(r) \/ RLock(r) PROVE at'[s] # "new"
    BY <1>3 DEF Lookup, CallLock, Register, RLock
<1>4. ASSUME NEW r \in Request, CreateTmp(r) \/ Encode(r) \/ Rename(r) PROVE at'[s] # "new"
    BY <1>4 DEF CreateTmp, Encode, Rename, AfterSave
<1>5. ASSUME NEW r \in Request, AckRegister(r) \/ Forward(r) \/ Respond(r) PROVE at'[s] # "new"
    BY <1>5 DEF AckRegister, Forward, Respond
<1>6. CASE Crash \/ Load
    BY <1>6 DEF Crash, Load
<1> QED
    BY <1>1, <1>2, <1>3, <1>4, <1>5, <1>6 DEF Next, Serve

\* How the two tables change, and when a registration is acknowledged.
LEMMA TablesStep ==
    ASSUME SerialProxyInv, [Next]_vars
    PROVE  \/ UNCHANGED <<mem, Stored, Acked>>
           \/ Stored' = mem /\ UNCHANGED <<mem, Acked>>
           \/ mem' = Stored /\ UNCHANGED <<Stored, Acked>>
           \/ \E r \in Request : Register(r) /\ UNCHANGED <<Stored, Acked>>
           \/ \E r \in Request : /\ AckRegister(r) /\ Table!Ack(r)
                                 /\ UNCHANGED <<mem, Stored, faults>>
<1> USE DEF SerialProxyInv
<1>1. CASE UNCHANGED vars
    BY <1>1 DEF vars, Stored, Acked
<1>2. ASSUME NEW r \in Request, Arrive(r) \/ Lookup(r) \/ CallLock(r) \/ RLock(r) \/ Forward(r)
      PROVE  UNCHANGED <<mem, Stored, Acked>>
    BY <1>2 DEF Arrive, Lookup, CallLock, RLock, Forward, fileVars, requestVars, Stored, Acked
<1>3. ASSUME NEW r \in Request, Register(r) PROVE UNCHANGED <<Stored, Acked>>
    BY <1>3 DEF Register, fileVars, requestVars, Stored, Acked
<1>4. ASSUME NEW r \in Request, CreateTmp(r) PROVE UNCHANGED <<mem, Stored, Acked>>
    BY <1>4, CreateKeepsStored DEF CreateTmp, requestVars, Acked
<1>5. ASSUME NEW r \in Request, Encode(r) PROVE UNCHANGED <<mem, Stored, Acked>>
    BY <1>5, EncodeKeepsStored DEF Encode, requestVars, Acked
<1>6. ASSUME NEW r \in Request, Rename(r) PROVE Stored' = mem /\ UNCHANGED <<mem, Acked>>
    <2>1. tmp # NoFile /\ content[tmp] = mem
        BY <1>6 DEF Rename, FileInv
    <2> QED
        BY <1>6, <2>1 DEF Rename, Stored, requestVars, Acked
<1>7. ASSUME NEW r \in Request, AckRegister(r)
      PROVE  Table!Ack(r) /\ UNCHANGED <<mem, Stored, faults>>
    BY <1>7, AckImplementsAck DEF AckRegister, fileVars, Stored
<1>8. ASSUME NEW r \in Request, Respond(r) PROVE UNCHANGED <<mem, Stored, Acked>>
    <2>1. Req[r].kind # "register" /\ \A s \in Request \ {r} : reply'[s] = reply[s]
        BY <1>8 DEF Respond, RouteInv, TypeOK
    <2>2. Acked' = Acked
        BY <2>1 DEF Acked
    <2> QED
        BY <1>8, <2>2 DEF Respond, fileVars, Stored
<1>9. CASE Crash
    BY <1>9 DEF Crash, fileVars, requestVars, Stored, Acked
<1>10. CASE Load
    BY <1>10 DEF Load, fileVars, requestVars, Stored, Acked
<1> QED
    BY <1>1, <1>2, <1>3, <1>4, <1>5, <1>6, <1>7, <1>8, <1>9, <1>10 DEF Next, Serve

LEMMA AckNext == ASSUME SerialProxyInv, RepliedInv, AckInv, [Next]_vars PROVE AckInv'
<1> USE ProxyAssumption DEF SerialProxyInv, TypeOK, ReqType
<1>0. SUFFICES ASSUME faults' = 0, NEW r \in Acked' PROVE Kept(mem, r)' /\ Kept(Stored, r)'
    BY DEF AckInv
<1>1. r \in Request /\ Req[r].user \in User /\ faults = 0
    BY <1>0, FaultsNext DEF Acked
\* what was kept is kept as long as the table is
<1>2. ASSUME NEW m, Kept(m, r) PROVE
          /\ m[Req[r].user] # Absent
          /\ \/ m[Req[r].user] = Req[r].key
             \/ \E s \in Request \ {r} : Req[s].user = Req[r].user /\ at'[s] # "new"
    BY <1>2, ArrivedNext DEF Kept
<1>3. CASE UNCHANGED <<mem, Stored, Acked>>
    BY <1>0, <1>1, <1>2, <1>3 DEF AckInv, Kept
<1>4. CASE Stored' = mem /\ UNCHANGED <<mem, Acked>>
    BY <1>0, <1>1, <1>2, <1>4 DEF AckInv, Kept
<1>5. CASE mem' = Stored /\ UNCHANGED <<Stored, Acked>>
    BY <1>0, <1>1, <1>2, <1>5 DEF AckInv, Kept
<1>6. ASSUME NEW s \in Request, Register(s), UNCHANGED <<Stored, Acked>>
      PROVE  Kept(mem, r)' /\ Kept(Stored, r)'
    <2>1. Kept(mem, r) /\ Kept(Stored, r)
        BY <1>0, <1>1, <1>6 DEF AckInv
    <2>2. at[s] = "wait" /\ at'[s] = "rlock" /\ Req[s].user \in User
          /\ mem' = [mem EXCEPT ![Req[s].user] = Req[s].key]
        BY <1>6 DEF Register, Goto, RouteInv
    <2>3. s # r
        BY <1>0, <1>6, <2>2 DEF Acked, RepliedInv
    <2>4. CASE Req[s].user = Req[r].user
        <3>1. mem'[Req[r].user] = Req[s].key /\ Req[s].key # Absent
            BY <1>1, <2>2, <2>4 DEF Mapping
        <3> QED
            BY <1>2, <1>6, <2>1, <2>2, <2>3, <2>4, <3>1 DEF Kept
    <2>5. CASE Req[s].user # Req[r].user
        <3>1. mem'[Req[r].user] = mem[Req[r].user]
            BY <1>1, <2>2, <2>5 DEF Mapping
        <3> QED
            BY <1>2, <1>6, <2>1, <3>1 DEF Kept
    <2> QED
        BY <2>4, <2>5
<1>7. ASSUME NEW s \in Request, AckRegister(s), Table!Ack(s), UNCHANGED <<mem, Stored, faults>>
      PROVE  Kept(mem, r)' /\ Kept(Stored, r)'
    <2>1. CASE r \in Acked
        BY <1>1, <1>2, <1>7, <2>1 DEF AckInv, Kept
    <2>2. CASE r \notin Acked
        <3>1. r = s /\ Stored = mem /\ Stored[Req[r].user] = Req[r].key
            BY <1>0, <1>1, <1>7, <2>2 DEF Table!Ack
        <3>2. Req[r].key # Absent
            BY <1>1
        <3> QED
            BY <1>7, <3>1, <3>2 DEF Kept
    <2> QED
        BY <2>1, <2>2
<1> QED
    BY <1>3, <1>4, <1>5, <1>6, <1>7, TablesStep

\* Served one at a time, a registration that was acknowledged survives every
\* crash: as long as no save has failed, the file keeps its user, and keeps its key
\* until another request of that user replaces it.  (/register answers after Save)
THEOREM AcknowledgedIsDurable ==
    ASSUME MaxInFlight = 1, IsFiniteSet(Request)
    PROVE  Spec => []AckedIsDurable
<1> DEFINE Inv == SerialProxyInv /\ RepliedInv /\ AckInv
<1>1. Init => Inv
    BY SerialProxyInit DEF Init, RepliedInv, AckInv, Acked
<1>2. Inv /\ [Next]_vars => Inv'
    BY SerialProxyNext, RepliedNext, AckNext DEF SerialProxyInv
<1>3. Inv => AckedIsDurable
    BY DEF SerialProxyInv, FileInv, MappingsFileLoadable, AckInv, Kept, Acked, AckedIsDurable
<1> QED
    BY <1>1, <1>2, <1>3, PTL DEF Spec
=============================================================================
