------------------------------ MODULE AgentProxy ------------------------------
(***************************************************************************)
(* The agent proxy (agent_proxy/main.go): a table from users to Nexus keys, *)
(* kept in memory behind a sync.RWMutex and saved to mappings.json after    *)
(* each change, and the two handlers that use it.  /register stores a key;  *)
(* every other POST is forwarded to the privacy agent, after registering    *)
(* an unknown user with the key of the request and, when it names a target  *)
(* user, under the target's identity.                                       *)
(*                                                                          *)
(* Each request is one goroutine and one step of it is one critical section *)
(* or one system call on the mapping files.  Files are inodes with names:   *)
(* two savers that open mappings.json.tmp share an inode, and a rename moves *)
(* whatever the name stands for at that moment.                             *)
(***************************************************************************)
EXTENDS Naturals, FiniteSets

CONSTANTS User, Key,
          NoUser,        \* a request's empty user_id or target_user_id
          NoKey,         \* the empty key ""
          Absent,        \* the table has no entry
          NoFile,        \* no file of that name
          Truncated,     \* content that does not decode
          Request,       \* requests that clients send, each once
          Req,           \* Req[r]: what r asks for
          MaxInFlight,   \* bound: requests served at the same time
          MaxCrashes,    \* bound: crashes of the proxy process
          MaxFaults      \* bound: failed file operations of Save

ReqType == [kind : {"register", "proxy", "invalid"},
            user : User \cup {NoUser}, key : Key \cup {NoKey}, target : User \cup {NoUser}]

ASSUME ProxyAssumption ==
    /\ Req \in [Request -> ReqType]
    \* /register answers 400 without a user or a key
    /\ \A r \in Request : Req[r].kind = "register" => Req[r].user \in User /\ Req[r].key \in Key
    /\ NoUser \notin User /\ NoKey \notin Key /\ Absent \notin Key \cup {NoKey}
    /\ NoFile \notin Request /\ Truncated \notin [User -> Key \cup {NoKey, Absent}]
    /\ MaxInFlight \in Nat /\ MaxCrashes \in Nat /\ MaxFaults \in Nat

VARIABLES up,           \* the process runs
          mem,          \* UserToNexusKey
          at,           \* at[r]: where the goroutine of r is
          fd,           \* fd[r]: the inode r's Save has open
          main, tmp,    \* inodes named mappings.json and mappings.json.tmp
          content,      \* content of each inode
          sentAs,       \* sentAs[r]: the identity r was forwarded with
          err,          \* err[r]: X-Proxy-Error is set
          reply,        \* reply[r]: the answer
          crashes, faults

vars == <<up, mem, at, fd, main, tmp, content, sentAs, err, reply, crashes, faults>>
fileVars == <<fd, main, tmp, content, faults>>
requestVars == <<sentAs, err, reply>>

Mapping == [User -> Key \cup {NoKey, Absent}]
Identity == [user : User \cup {NoUser}, key : Key \cup {NoKey}]
NotSent == [user |-> NoUser, key |-> NoKey]

Saving == {"create", "encode", "rename"}      \* Save holds the read lock
InFlight == {"lookup", "lock", "wait", "rlock", "ack", "target", "agent"} \cup Saving

TypeOK ==
    /\ up \in BOOLEAN
    /\ mem \in Mapping
    /\ at \in [Request -> {"new", "done", "lost"} \cup InFlight]
    /\ fd \in [Request -> Request \cup {NoFile}]
    /\ main \in Request \cup {NoFile}
    /\ tmp \in Request \cup {NoFile}
    /\ content \in [Request -> Mapping \cup {Truncated}]
    /\ sentAs \in [Request -> Identity]
    /\ err \in [Request -> BOOLEAN]
    /\ reply \in [Request -> {"none", "ok", "bad request", "bad gateway"}]
    /\ crashes \in 0..MaxCrashes
    /\ faults \in 0..MaxFaults

NoEntries == [u \in User |-> Absent]

Init ==
    /\ up = TRUE
    /\ mem = NoEntries
    /\ at = [r \in Request |-> "new"]
    /\ fd = [r \in Request |-> NoFile]
    /\ main = NoFile /\ tmp = NoFile
    /\ content = [r \in Request |-> Truncated]
    /\ sentAs = [r \in Request |-> NotSent]
    /\ err = [r \in Request |-> FALSE]
    /\ reply = [r \in Request |-> "none"]
    /\ crashes = 0 /\ faults = 0

----------------------------------------------------------------------------
\* sync.RWMutex: a Lock that waits keeps new readers out

\* mutant: GetNexusKeyByUser's read lock is kept while the user is registered
Readers_Upgrade ==
    {r \in Request : at[r] \in Saving \/ (Req[r].kind = "proxy" /\ at[r] \in {"lock", "wait"})}

Readers == {r \in Request : at[r] \in Saving}
Waiting == {r \in Request : at[r] = "wait"}
CanRead == Waiting = {}
CanWrite == Readers = {}

Goto(r, l) == at' = [at EXCEPT ![r] = l]

Fault == faults < MaxFaults /\ faults' = faults + 1

----------------------------------------------------------------------------
\* arrival, lookup and registration

Served == {r \in Request : at[r] \in InFlight}

Arrive(r) ==
    /\ up /\ at[r] = "new" /\ Cardinality(Served) < MaxInFlight
    /\ Goto(r, CASE Req[r].kind = "register" -> "lock"
                 [] Req[r].kind = "proxy" /\ Req[r].user # NoUser -> "lookup"
                 [] OTHER -> "target")
    /\ UNCHANGED <<up, mem, fileVars, requestVars, crashes>>

\* mutant: the caller is registered whatever the lookup finds
Lookup_AlwaysRegister(r) ==
    /\ at[r] = "lookup" /\ CanRead
    /\ Goto(r, "lock")
    /\ UNCHANGED <<up, mem, fileVars, requestVars, crashes>>

\* auto-registration, first half: GetNexusKeyByUser
Lookup(r) ==
    /\ at[r] = "lookup" /\ CanRead
    /\ Goto(r, IF mem[Req[r].user] = Absent THEN "lock" ELSE "target")
    /\ UNCHANGED <<up, mem, fileVars, requestVars, crashes>>

CallLock(r) ==
    /\ at[r] = "lock"
    /\ Goto(r, "wait")
    /\ UNCHANGED <<up, mem, fileVars, requestVars, crashes>>

\* mutant: the registration is acknowledged without a save
Register_NoSave(r) ==
    /\ at[r] = "wait" /\ CanWrite
    /\ mem' = [mem EXCEPT ![Req[r].user] = Req[r].key]
    /\ Goto(r, IF Req[r].kind = "register" THEN "ack" ELSE "rlock")
    /\ UNCHANGED <<up, fileVars, requestVars, crashes>>

\* the second half does not look again whether the user is still unknown
Register(r) ==
    /\ at[r] = "wait" /\ CanWrite
    /\ mem' = [mem EXCEPT ![Req[r].user] = Req[r].key]
    /\ Goto(r, "rlock")
    /\ UNCHANGED <<up, fileVars, requestVars, crashes>>

----------------------------------------------------------------------------
\* Save, under the read lock

RLock(r) ==
    /\ at[r] = "rlock" /\ CanRead
    /\ Goto(r, "create")
    /\ UNCHANGED <<up, mem, fileVars, requestVars, crashes>>

\* both handlers only log an error of Save
AfterSave(r) == Goto(r, IF Req[r].kind = "register" THEN "ack" ELSE "target")

\* mutant: Save writes mappings.json in place
CreateTmp_InPlace(r) ==
    /\ at[r] = "create"
    /\ LET f == IF main = NoFile THEN r ELSE main IN
       /\ main' = f /\ tmp' = f
       /\ fd' = [fd EXCEPT ![r] = f]
       /\ content' = [content EXCEPT ![f] = Truncated]
    /\ Goto(r, "encode")
    /\ UNCHANGED <<up, mem, faults, requestVars, crashes>>

\* mutant: Save opens the temporary file with O_EXCL
CreateTmp_Exclusive(r) ==
    /\ at[r] = "create"
    /\ \/ /\ tmp = NoFile
          /\ tmp' = r
          /\ fd' = [fd EXCEPT ![r] = r]
          /\ content' = [content EXCEPT ![r] = Truncated]
          /\ Goto(r, "encode")
       \/ tmp # NoFile /\ AfterSave(r) /\ UNCHANGED <<tmp, fd, content>>
    /\ UNCHANGED <<up, mem, main, faults, requestVars, crashes>>

CreateTmp(r) ==
    /\ at[r] = "create"
    /\ \/ /\ LET f == IF tmp = NoFile THEN r ELSE tmp IN
             /\ tmp' = f
             /\ fd' = [fd EXCEPT ![r] = f]
             /\ content' = [content EXCEPT ![f] = Truncated]
          /\ Goto(r, "encode")
          /\ UNCHANGED faults
       \/ AfterSave(r) /\ Fault /\ UNCHANGED <<tmp, fd, content>>
    /\ UNCHANGED <<up, mem, main, requestVars, crashes>>

Encode(r) ==
    /\ at[r] = "encode"
    /\ \/ /\ content' = [content EXCEPT ![fd[r]] = mem]
          /\ Goto(r, "rename")
          /\ UNCHANGED faults
       \/ AfterSave(r) /\ Fault /\ UNCHANGED content
    /\ UNCHANGED <<up, mem, fd, main, tmp, requestVars, crashes>>

\* fails when another saver has renamed the file away
Rename(r) ==
    /\ at[r] = "rename"
    /\ main' = IF tmp = NoFile THEN main ELSE tmp
    /\ tmp' = NoFile
    /\ AfterSave(r)
    /\ UNCHANGED <<up, mem, fd, content, faults, requestVars, crashes>>

----------------------------------------------------------------------------
\* answers

AckRegister(r) ==
    /\ at[r] = "ack"
    /\ Goto(r, "done")
    /\ reply' = [reply EXCEPT ![r] = "ok"]
    /\ UNCHANGED <<up, mem, fileVars, sentAs, err, crashes>>

OwnIdentity(r) == [user |-> Req[r].user, key |-> Req[r].key]

\* mutant: user_id is not replaced along with x_auth
ModifyMetadata_KeyOnly(r, key) ==
    IF key = NoKey THEN OwnIdentity(r) ELSE [user |-> Req[r].user, key |-> key]

\* modifyMetadata leaves the body alone when the key is empty
ModifyMetadata(r, key) ==
    IF key = NoKey THEN OwnIdentity(r) ELSE [user |-> Req[r].target, key |-> key]

\* the target's key and the forwarded request; with an error it is forwarded too
Forward(r) ==
    LET known == Req[r].target # NoUser /\ mem[Req[r].target] # Absent IN
    /\ at[r] = "target"
    /\ Req[r].target # NoUser => CanRead
    /\ sentAs' = [sentAs EXCEPT ![r] =
                    IF known THEN ModifyMetadata(r, mem[Req[r].target]) ELSE OwnIdentity(r)]
    /\ err' = [err EXCEPT ![r] = Req[r].kind = "invalid" \/ (Req[r].target # NoUser /\ ~known)]
    /\ Goto(r, "agent")
    /\ UNCHANGED <<up, mem, fileVars, reply, crashes>>

\* the agent answers, or cannot be reached
Respond(r) ==
    /\ at[r] = "agent"
    /\ Goto(r, "done")
    /\ \E a \in {IF err[r] THEN "bad request" ELSE "ok", "bad gateway"} :
          reply' = [reply EXCEPT ![r] = a]
    /\ UNCHANGED <<up, mem, fileVars, sentAs, err, crashes>>

----------------------------------------------------------------------------
\* crash and restart

Crash ==
    /\ up /\ crashes < MaxCrashes
    /\ up' = FALSE
    /\ crashes' = crashes + 1
    /\ at' = [r \in Request |-> IF at[r] \in InFlight THEN "lost" ELSE at[r]]
    /\ UNCHANGED <<mem, fileVars, requestVars>>

Stored == IF main = NoFile THEN NoEntries ELSE content[main]

\* mutant: the error of the decoder is not looked at
Load_IgnoreError ==
    /\ ~up
    /\ up' = TRUE
    /\ mem' = Stored
    /\ UNCHANGED <<at, fileVars, requestVars, crashes>>

\* Load; a file that does not decode ends the process, which is restarted in vain
Load ==
    /\ ~up /\ Stored # Truncated
    /\ up' = TRUE
    /\ mem' = Stored
    /\ UNCHANGED <<at, fileVars, requestVars, crashes>>

----------------------------------------------------------------------------
\* the proxy's own part of a request, up to the call of the agent
Serve(r) ==
    \/ Lookup(r) \/ CallLock(r) \/ Register(r)
    \/ RLock(r) \/ CreateTmp(r) \/ Encode(r) \/ Rename(r)
    \/ AckRegister(r) \/ Forward(r)

Next ==
    \/ \E r \in Request : Arrive(r) \/ Serve(r) \/ Respond(r)
    \/ Crash \/ Load

Spec == Init /\ [][Next]_vars

\* goroutines are scheduled, and the container has restart: unless-stopped; the agent is
\* called without a timeout and need not answer
FairSpec == Spec /\ WF_vars(Load) /\ \A r \in Request : WF_vars(Serve(r))

----------------------------------------------------------------------------
(***************************************************************************)
(* Properties                                                               *)
(***************************************************************************)

\* Savers that overlap share a temporary file and rename it under each other.
\* Nevertheless, once no save is due or under way and none has failed, the file
\* holds exactly the table in memory.  (Save, Register; README: every
\* registration or update is saved)
DurableWhenQuiet ==
    up /\ faults = 0 /\ (\A r \in Request : at[r] \notin Saving \cup {"rlock"}) => Stored = mem

\* Whatever instant the process is killed at, it can load its file again.
MappingsFileLoadable == Stored # Truncated

\* A registration that was acknowledged, no save having failed, survives a
\* crash: the file has its user, and has its key unless another request of that
\* user arrived.
AckedIsDurable ==
    \A r \in Request : Req[r].kind = "register" /\ reply[r] = "ok" /\ faults = 0 =>
        /\ Stored # Truncated
        /\ Stored[Req[r].user] # Absent
        /\ \/ Stored[Req[r].user] = Req[r].key
           \/ \E s \in Request \ {r} : Req[s].user = Req[r].user /\ at[s] # "new"

\* The agent is never given one user's name with another user's key: the pair it
\* receives was sent by a client as such, in this request or in an earlier one.
IdentityIsGenuine ==
    \A r \in Request : at[r] = "agent" =>
        \E s \in Request : at[s] # "new" /\ sentAs[r] = OwnIdentity(s)

\* README: with a target_user_id, x_auth is replaced by the target user's key.  A
\* request forwarded without a proxy error therefore runs under the target's name;
\* the exception is a target that some request gave an empty key, which counts as
\* a registration but not as a key.  (GenericProxyHandler, modifyMetadata)
TargetIdentityUsed ==
    \A r \in Request : at[r] = "agent" /\ Req[r].target # NoUser /\ ~err[r] =>
        \/ sentAs[r].user = Req[r].target
        \/ \E s \in Request : at[s] # "new" /\ Req[s].user = Req[r].target /\ Req[s].key = NoKey

\* A request takes the read lock, the write lock and the read lock again, and an agent
\* that is called may never answer.  Nevertheless every request that arrived is answered
\* or reaches the agent, unless the process crashes under it: neither other requests nor
\* those the agent leaves waiting hold it up.  (registerHandler, GenericProxyHandler)
AllServed ==
    \A r \in Request : at[r] \in InFlight ~> reply[r] # "none" \/ at[r] \in {"agent", "lost"}
=============================================================================
