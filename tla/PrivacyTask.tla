----------------------------- MODULE PrivacyTask -----------------------------
(***************************************************************************)
(* The privacy computation service of privacy_computing/: every accepted    *)
(* POST /api/privacy/run starts a goroutine startPrivacyTask, which prepares *)
(* the container's broker and MySQL, sets up project "tsql" together with   *)
(* the peer's task in the peer's container, grants its columns and, when it *)
(* carries a query, runs it and uploads the result.                         *)
(*                                                                          *)
(* One action per stretch of startPrivacyTask between two calls that leave  *)
(* the process.  An iteration of a retry loop that changes nothing but      *)
(* sleeps is a stuttering step, hence no action.  Everything the tasks of a *)
(* container share is indexed by the container's party.                     *)
(***************************************************************************)
EXTENDS ScqlBroker, FiniteSets

CONSTANTS Task,           \* submissions to the service
          Dataset,        \* contents of the data files kept in Nexus
          Empty,          \* the content of a file without a header line
          NoTable,        \* the MySQL table engine.<user> does not exist
          HeaderOf,       \* HeaderOf[d]: the columns that d's header line names
          Req,            \* Req[t]: the request that starts task t
          MaxTries,       \* attempts of the query loop (30 in the code)
          MaxFaults,      \* bound: lost replies, failed Nexus calls, expired waits
          SerialSubmit    \* TRUE: a container is given one task at a time

Content == Dataset \cup {Empty}

\* supported: the broker knows the constraint of this name
Permission == [user : Party, supported : BOOLEAN]

Request == [user : Party,
            own : Address,                     \* userkey, userurl, engineURL
            peer : Party,
            key : Address,                     \* the peer's pubkey and partyURL
            data : Content,
            columns : Seq([name : Column, permissions : Seq(Permission)]),
            query : SUBSET (Party \X Column),  \* columns RunSQL reads; {}: no RunSQL
            size : Nat]                        \* length of the rendered result; 0: no out columns

ASSUME TaskAssumption ==
    /\ HeaderOf \in [Dataset -> SUBSET Column]
    /\ Req \in [Task -> Request]
    /\ \A t \in Task : Req[t].user # Req[t].peer
    /\ Empty \notin Dataset
    /\ MaxTries \in Nat /\ MaxFaults \in Nat
    /\ SerialSubmit \in BOOLEAN

Initiator(t) == Req[t].query # {}

VARIABLES at,         \* at[t]: where task t is
          file,       \* file[t]: the file whose placeholders t replaces
          text,       \* text[t]: what t read of it
          col,        \* col[t]: index of the column whose grants come next
          per,        \* per[t]: index of its permission that comes next
          tries,      \* tries[t]: queries attempted
          header,     \* header[t]: columns read from the header line
          mysqlUp,    \* mysqlUp[p]: port 3306 of container p is open
          pinged,     \* pinged[p]: GetDB's once has been used up
          datafile,   \* datafile[p]: content of DATAFILE
          table,      \* table[p]: the MySQL table engine.<p>
          resfile,    \* resfile[p]: resultFile; <<>> when it does not exist
          uploaded,   \* uploaded[t]: what t wrote to Nexus
          faults      \* faults that happened so far

taskVars == <<at, file, text, col, per, tries, header, mysqlUp, pinged, datafile, table, resfile, uploaded, faults>>
vars == <<brokerVars, taskVars>>

Configuring == {"read", "truncate", "write"}
Preparing == {"restart", "mysql", "download", "store", "header",
              "drop", "create", "clear", "load", "ports"}
Joining == {"project", "invite", "joined", "join"}
Granting == {"table", "grant", "permit"}
Querying == {"query", "result"}
Running == Configuring \cup Preparing \cup Joining \cup Granting \cup Querying
Ended == {"uploaded", "granted", "exhausted", "failed", "killed"}
Place == {"new"} \cup Running \cup Ended

\* a row set: what was loaded, in order, into a table with these columns
Table == [columns : SUBSET Column, rows : Seq(Content)]

TypeOK ==
    /\ BrokerTypeOK
    /\ at \in [Task -> Place]
    /\ file \in [Task -> File]
    /\ text \in [Task -> Text]
    /\ col \in [Task -> Nat]
    /\ per \in [Task -> Nat]
    /\ tries \in [Task -> 0..MaxTries]
    /\ header \in [Task -> SUBSET Column]
    /\ mysqlUp \in [Party -> BOOLEAN]
    /\ pinged \in [Party -> BOOLEAN]
    /\ datafile \in [Party -> Content]
    /\ table \in [Party -> Table \cup {NoTable}]
    /\ resfile \in [Party -> Seq(Task)]
    /\ uploaded \in [Task -> Seq(Task)]
    /\ faults \in 0..MaxFaults

Init ==
    /\ BrokerInit
    /\ at = [t \in Task |-> "new"]
    /\ file = [t \in Task |-> "config.yml"]
    /\ text = [t \in Task |-> Template]
    /\ col = [t \in Task |-> 1]
    /\ per = [t \in Task |-> 1]
    /\ tries = [t \in Task |-> 0]
    /\ header = [t \in Task |-> {}]
    /\ mysqlUp = [p \in Party |-> FALSE]
    /\ pinged = [p \in Party |-> FALSE]
    /\ datafile = [p \in Party |-> Empty]
    /\ table = [p \in Party |-> NoTable]
    /\ resfile = [p \in Party |-> <<>>]
    /\ uploaded = [t \in Task |-> <<>>]
    /\ faults = 0

----------------------------------------------------------------------------
Goto(t, l) == at' = [at EXCEPT ![t] = l]

Fault == faults < MaxFaults /\ faults' = faults + 1

\* The call was served.  The task reads the reply, or gets an error instead
\* because the reply was lost or late.
Reply(t, answered, lost) ==
    \/ Goto(t, answered) /\ UNCHANGED faults
    \/ Goto(t, lost) /\ Fault

Busy(p) == \E s \in Task : Req[s].user = p /\ at[s] \in Running

\* log.Fatalf ends the process, hence every task of the container
Kill(p) ==
    /\ at' = [s \in Task |-> IF Req[s].user = p /\ at[s] \in Running THEN "killed" ELSE at[s]]
    /\ pinged' = [pinged EXCEPT ![p] = FALSE]

----------------------------------------------------------------------------
\* the container's configuration

dataVars == <<tries, header, mysqlUp, pinged, datafile, table, resfile, uploaded>>

Submit(t) ==
    /\ at[t] = "new"
    /\ SerialSubmit => ~Busy(Req[t].user)
    /\ Goto(t, "read")
    /\ UNCHANGED <<brokerVars, file, text, col, per, dataVars, faults>>

\* DealTask replaces the placeholders of two files, each read, truncated by the
\* open of os.WriteFile and written, while other tasks do the same.

\* mutant: the file is opened with O_TRUNC before it is read
ReadConfig_Truncated(t) ==
    /\ at[t] = "read"
    /\ text' = [text EXCEPT ![t] = Blank]
    /\ Goto(t, "truncate")
    /\ UNCHANGED <<brokerVars, file, col, per, dataVars, faults>>

ReadConfig(t) ==
    /\ at[t] = "read"
    /\ text' = [text EXCEPT ![t] = conf[Req[t].user][file[t]]]
    /\ Goto(t, "truncate")
    /\ UNCHANGED <<brokerVars, file, col, per, dataVars, faults>>

TruncateConfig(t) ==
    /\ at[t] = "truncate"
    /\ conf' = [conf EXCEPT ![Req[t].user][file[t]] = Blank]
    /\ Goto(t, "write")
    /\ UNCHANGED <<running, members, invites, vtable, ccl, file, text, col, per, dataVars, faults>>

\* what the request has for the placeholders of a file
Settings(t, f) ==
    IF f = "config.yml" THEN Req[t].own
    ELSE [own |-> Req[t].own, peer |-> Req[t].peer, key |-> Req[t].key]

\* mutant: every request brings its own settings into the file
Replaced_Anew(old, settings) == settings

\* strings.ReplaceAll finds placeholders only: settings once made stay
Replaced(old, settings) == IF old = Template THEN settings ELSE old

\* what a write from offset 0 leaves of another text that was written meanwhile
Overwritten(old, new) ==
    IF new = Blank THEN {old}
    ELSE IF old \in {Blank, new} THEN {new} ELSE {new, Spoilt}

WriteConfig(t) ==
    LET p == Req[t].user
        f == file[t]
    IN
    /\ at[t] = "write"
    /\ \E new \in Overwritten(conf[p][f], Replaced(text[t], Settings(t, f))) :
          conf' = [conf EXCEPT ![p][f] = new]
    /\ text' = [text EXCEPT ![t] = Template]
    /\ file' = [file EXCEPT ![t] = "party_info.json"]
    /\ Goto(t, IF f = "config.yml" THEN "read" ELSE "restart")
    /\ UNCHANGED <<running, members, invites, vtable, ccl, col, per, dataVars, faults>>

\* supervisorctl reports a broker that exits at once: the restart is repeated
RestartBroker(t) ==
    /\ at[t] = "restart"
    /\ StopBroker(Req[t].user)
    /\ Goto(t, IF Usable(Req[t].user) THEN "mysql" ELSE "restart")
    /\ UNCHANGED <<file, text, col, per, dataVars, faults>>

----------------------------------------------------------------------------
\* the container's data

\* IsPortOpen is polled 60 times; then the task goes on all the same
Await(open) == IF open THEN UNCHANGED faults ELSE Fault

WaitMysql(t) ==
    /\ at[t] = "mysql"
    /\ Await(mysqlUp[Req[t].user])
    /\ Goto(t, "download")
    /\ UNCHANGED <<brokerVars, file, text, col, per, tries, header, mysqlUp, pinged, datafile, table, resfile, uploaded>>

\* mutant: a data file that is there is not downloaded again
Download_Cached(t) ==
    /\ at[t] = "download"
    /\ Goto(t, IF datafile[Req[t].user] = Empty THEN "store" ELSE "header")
    /\ UNCHANGED <<brokerVars, file, text, col, per, tries, header, mysqlUp, pinged, datafile, table, resfile, uploaded, faults>>

\* mutant: the table is built before the file is written
Download_HeaderFirst(t) ==
    /\ at[t] = "download"
    /\ Goto(t, "header")
    /\ datafile' = [datafile EXCEPT ![Req[t].user] = Empty]
    /\ UNCHANGED <<brokerVars, file, text, col, per, tries, header, mysqlUp, pinged, table, resfile, uploaded, faults>>

\* the read from Nexus succeeds, or fails and is not retried
ReadFile(t, next) == Reply(t, next, "failed")

\* os.WriteFile truncates the file first ...
Download(t) ==
    /\ at[t] = "download"
    /\ ReadFile(t, "store")
    /\ datafile' = IF at'[t] = "store" THEN [datafile EXCEPT ![Req[t].user] = Empty] ELSE datafile
    /\ UNCHANGED <<brokerVars, file, text, col, per, tries, header, mysqlUp, pinged, table, resfile, uploaded>>

\* ... and written afterwards
StoreData(t) ==
    /\ at[t] = "store"
    /\ datafile' = [datafile EXCEPT ![Req[t].user] = Req[t].data]
    /\ Goto(t, "header")
    /\ UNCHANGED <<brokerVars, file, text, col, per, tries, header, mysqlUp, pinged, table, resfile, uploaded, faults>>

\* GetDB pings MySQL on its first call only
GetDBFails(p) == ~pinged[p] /\ ~mysqlUp[p]

\* a file without a header is fatal
ReadHeader(t) ==
    LET p == Req[t].user IN
    /\ at[t] = "header"
    /\ \/ /\ GetDBFails(p)
          /\ Goto(t, "failed")
          /\ pinged' = [pinged EXCEPT ![p] = TRUE]
          /\ UNCHANGED header
       \/ /\ ~GetDBFails(p)
          /\ datafile[p] = Empty
          /\ Kill(p)
          /\ UNCHANGED header
       \/ /\ ~GetDBFails(p)
          /\ datafile[p] # Empty
          /\ header' = [header EXCEPT ![t] = HeaderOf[datafile[p]]]
          /\ pinged' = [pinged EXCEPT ![p] = TRUE]
          /\ Goto(t, "drop")
    /\ UNCHANGED <<brokerVars, file, text, col, per, tries, mysqlUp, datafile, table, resfile, uploaded, faults>>

----------------------------------------------------------------------------
\* checkDataset's statements: each ExecSQL is a step, its error ends the task

Statement(t, here, ok, next) ==
    /\ at[t] = here
    /\ Goto(t, IF ok THEN next ELSE "failed")
    /\ UNCHANGED <<brokerVars, file, text, col, per, tries, header, mysqlUp, pinged, datafile, resfile, uploaded, faults>>

DropTable(t) ==
    LET p == Req[t].user IN
    /\ Statement(t, "drop", mysqlUp[p], "create")
    /\ table' = [table EXCEPT ![p] = IF mysqlUp[p] THEN NoTable ELSE @]

CreateMysqlTable(t) ==
    LET p == Req[t].user IN
    /\ Statement(t, "create", table[p] = NoTable, "clear")
    /\ table' = [table EXCEPT ![p] =
                   IF @ = NoTable THEN [columns |-> header[t], rows |-> <<>>] ELSE @]

ClearTable(t) ==
    LET p == Req[t].user IN
    /\ Statement(t, "clear", table[p] # NoTable, "load")
    /\ table' = [table EXCEPT ![p] =
                   IF @ = NoTable THEN @ ELSE [columns |-> @.columns, rows |-> <<>>]]

\* the rows come from DATAFILE as it is now, the column list from the header read before
Loadable(t) ==
    LET p == Req[t].user IN
    /\ table[p] # NoTable
    /\ table[p].columns = header[t]
    /\ datafile[p] # Empty => HeaderOf[datafile[p]] = header[t]

LoadData(t) ==
    LET p == Req[t].user IN
    /\ Statement(t, "load", Loadable(t), "ports")
    /\ table' = [table EXCEPT ![p] =
                   IF Loadable(t) /\ datafile[p] # Empty
                   THEN [columns |-> @.columns, rows |-> Append(@.rows, datafile[p])] ELSE @]

WaitPorts(t) ==
    /\ at[t] = "ports"
    /\ Await(Up(Req[t].user))
    /\ Goto(t, IF Initiator(t) THEN "project" ELSE "join")
    /\ UNCHANGED <<brokerVars, file, text, col, per, tries, header, mysqlUp, pinged, datafile, table, resfile, uploaded>>

----------------------------------------------------------------------------
\* project and membership

localVars == <<file, text, col, per, dataVars>>

\* the one broker call that is not retried
CreateProject(t) ==
    LET p == Req[t].user IN
    /\ at[t] = "project"
    /\ \/ BrokerCreateProject(p) /\ Reply(t, "invite", "failed")
       \/ /\ Up(p) /\ HasProject(p)                  \* "project tsql already exists"
          /\ Goto(t, "invite") /\ UNCHANGED <<brokerVars, faults>>
       \/ ~Up(p) /\ Goto(t, "failed") /\ UNCHANGED <<brokerVars, faults>>
       \/ Up(p) /\ Goto(t, "failed") /\ Fault /\ UNCHANGED brokerVars
    /\ UNCHANGED localVars

\* mutant: "project already contains invitee" is retried like any other error
InviteMember_NoBreak(t) ==
    /\ at[t] = "invite"
    /\ BrokerInvite(Req[t].user, Req[t].peer) /\ Reply(t, "joined", "invite")
    /\ UNCHANGED localVars

InviteMember(t) ==
    LET p == Req[t].user IN
    /\ at[t] = "invite"
    /\ \/ BrokerInvite(p, Req[t].peer) /\ Reply(t, "joined", "invite")
       \/ /\ Up(p) /\ Req[t].peer \in members[p]     \* "project already contains invitee"
          /\ Goto(t, "joined") /\ UNCHANGED <<brokerVars, faults>>
    /\ UNCHANGED localVars

ProjectMemberJoined(p, member) == Up(p) /\ HasProject(p) /\ member \in members[p]

AwaitJoined(t) ==
    /\ at[t] = "joined"
    /\ ProjectMemberJoined(Req[t].user, Req[t].peer)
    /\ Goto(t, "table")
    /\ UNCHANGED <<brokerVars, localVars, faults>>

\* mutant: any error ends the loop, not just "record not found"
JoinProject_AnyError(t) ==
    /\ at[t] = "join"
    /\ Goto(t, "table")
    /\ BrokerAccept(Req[t].user) \/ UNCHANGED brokerVars
    /\ UNCHANGED <<localVars, faults>>

JoinProject(t) ==
    LET p == Req[t].user IN
    /\ at[t] = "join"
    /\ \/ BrokerAccept(p) /\ Reply(t, "table", "join")
       \/ AlreadyHandled(p) /\ Goto(t, "table") /\ UNCHANGED <<brokerVars, faults>>
    /\ UNCHANGED localVars

TableColumns(t) == {Req[t].columns[i].name : i \in DOMAIN Req[t].columns}

CreateTable(t) ==
    LET p == Req[t].user IN
    /\ at[t] = "table"
    /\ \/ BrokerCreateTable(p, TableColumns(t)) /\ Reply(t, "grant", "table")
       \/ /\ Up(p) /\ vtable[p] # {}                 \* "already exists"
          /\ Goto(t, "grant") /\ UNCHANGED <<brokerVars, faults>>
    /\ UNCHANGED localVars

----------------------------------------------------------------------------
\* column grants: no retry, an error is logged and the loop goes on

GrantCCL(party, tableName, colName) == <<tableName, colName, party>>

OwnGrant(t, i) == GrantCCL(Req[t].user, Req[t].user, Req[t].columns[i].name)

Supported(t, i) ==
    {j \in DOMAIN Req[t].columns[i].permissions : Req[t].columns[i].permissions[j].supported}

PermissionGrant(t, i, j) ==
    GrantCCL(Req[t].columns[i].permissions[j].user, Req[t].user, Req[t].columns[i].name)

NextColumn(t) == Goto(t, "grant") /\ col' = [col EXCEPT ![t] = @ + 1] /\ per' = [per EXCEPT ![t] = 1]

\* mutant: the owner's grant opens the column to the peer as well
GrantSelf_Peer(t) ==
    /\ at[t] = "grant" /\ col[t] \in DOMAIN Req[t].columns
    /\ BrokerGrant({OwnGrant(t, col[t]), GrantCCL(Req[t].peer, Req[t].user, Req[t].columns[col[t]].name)})
    /\ Goto(t, "permit")
    /\ UNCHANGED <<file, text, col, per, dataVars, faults>>

\* mutant: after an error the column's permissions are granted all the same
GrantSelf_GoOn(t) ==
    LET i == col[t] IN
    /\ at[t] = "grant" /\ i \in DOMAIN Req[t].columns
    /\ BrokerGrant(IF Grantable(Req[t].user, Req[t].columns[i].name) THEN {OwnGrant(t, i)} ELSE {})
    /\ Goto(t, "permit")
    /\ UNCHANGED <<file, text, col, per, dataVars, faults>>

\* without its owner's PLAINTEXT grant a column is skipped, permissions included
GrantSelf(t) ==
    LET i == col[t]
        granted == Grantable(Req[t].user, Req[t].columns[i].name)
    IN
    /\ at[t] = "grant" /\ i \in DOMAIN Req[t].columns
    /\ \/ /\ granted /\ BrokerGrant({OwnGrant(t, i)})
          /\ \/ Goto(t, "permit") /\ UNCHANGED <<col, per, faults>>
             \/ NextColumn(t) /\ Fault
       \/ ~granted /\ NextColumn(t) /\ UNCHANGED <<brokerVars, faults>>
       \/ granted /\ NextColumn(t) /\ Fault /\ UNCHANGED brokerVars
    /\ UNCHANGED <<file, text, dataVars>>

\* one call per permission: an error is logged and the next one follows
GrantPermission(t) ==
    LET i == col[t]
        j == per[t]
        granted == j \in Supported(t, i) /\ Grantable(Req[t].user, Req[t].columns[i].name)
    IN
    /\ at[t] = "permit" /\ j \in DOMAIN Req[t].columns[i].permissions
    /\ \/ granted /\ BrokerGrant({PermissionGrant(t, i, j)}) /\ UNCHANGED faults
       \/ ~granted /\ UNCHANGED <<brokerVars, faults>>
       \/ granted /\ Fault /\ UNCHANGED brokerVars
    /\ per' = [per EXCEPT ![t] = @ + 1]
    /\ UNCHANGED <<at, file, text, col, dataVars>>

\* mutant: an unsupported permission ends the column
FinishColumn_Break(t) ==
    /\ at[t] = "permit" /\ per[t] \notin Supported(t, col[t])
    /\ NextColumn(t)
    /\ UNCHANGED <<brokerVars, file, text, dataVars, faults>>

FinishColumn(t) ==
    /\ at[t] = "permit" /\ per[t] \notin DOMAIN Req[t].columns[col[t]].permissions
    /\ NextColumn(t)
    /\ UNCHANGED <<brokerVars, file, text, dataVars, faults>>

\* the task of a partner ends here
FinishGrants(t) ==
    /\ at[t] = "grant" /\ col[t] \notin DOMAIN Req[t].columns
    /\ Goto(t, IF Initiator(t) THEN "query" ELSE "granted")
    /\ UNCHANGED <<brokerVars, localVars, faults>>

----------------------------------------------------------------------------
\* query and upload

QueryAnswered(t) ==
    /\ Permitted(Req[t].user, Req[t].query)
    /\ \A r \in Req[t].query : table[r[1]] # NoTable /\ r[2] \in table[r[1]].columns

\* mutant: the file is opened with O_APPEND
Rendered_Append(t, old) == old \o [i \in 1..Req[t].size |-> t]

\* a file opened without O_TRUNC: what is longer than the new text stays
Rendered(t, old) ==
    LET n == Req[t].size IN
    [i \in 1..(IF n > Len(old) THEN n ELSE Len(old)) |-> IF i <= n THEN t ELSE old[i]]

\* mutant: the counter is compared with the wrong bound
MoreTries_OneTooMany(t) == tries[t] <= MaxTries

MoreTries(t) == tries[t] < MaxTries

\* mutant: the error of runQuery is not looked at
RunQuery_IgnoreError(t) ==
    /\ at[t] = "query" /\ MoreTries(t)
    /\ tries' = [tries EXCEPT ![t] = @ + 1]
    /\ resfile' = IF QueryAnswered(t) THEN [resfile EXCEPT ![Req[t].user] = Rendered(t, @)] ELSE resfile
    /\ Goto(t, "result")
    /\ UNCHANGED <<brokerVars, file, text, col, per, header, mysqlUp, pinged, datafile, table, uploaded, faults>>

RunQuery(t) ==
    LET p == Req[t].user IN
    /\ at[t] = "query" /\ MoreTries(t)
    /\ tries' = [tries EXCEPT ![t] = @ + 1]
    /\ \/ /\ QueryAnswered(t)
          /\ resfile' = [resfile EXCEPT ![p] = Rendered(t, @)]
          /\ Goto(t, IF resfile'[p] # <<>> THEN "result" ELSE "query")
          /\ UNCHANGED faults
       \/ ~QueryAnswered(t) /\ UNCHANGED <<at, resfile, faults>>
       \/ QueryAnswered(t) /\ Fault /\ UNCHANGED <<at, resfile>>
    /\ UNCHANGED <<brokerVars, file, text, col, per, header, mysqlUp, pinged, datafile, table, uploaded>>

GiveUp(t) ==
    /\ at[t] = "query" /\ ~MoreTries(t)
    /\ Goto(t, "exhausted")
    /\ UNCHANGED <<brokerVars, localVars, faults>>

\* the write to Nexus is not retried; it may have been served all the same
WriteFile(t, data) ==
    \/ uploaded' = [uploaded EXCEPT ![t] = data] /\ Reply(t, "uploaded", "failed")
    \/ Goto(t, "failed") /\ Fault /\ UNCHANGED uploaded

UploadResult(t) ==
    /\ at[t] = "result"
    /\ WriteFile(t, resfile[Req[t].user])
    /\ UNCHANGED <<brokerVars, file, text, col, per, tries, header, mysqlUp, pinged, datafile, table, resfile>>

----------------------------------------------------------------------------
Step(t) ==
    \/ ReadConfig(t) \/ TruncateConfig(t) \/ WriteConfig(t)
    \/ RestartBroker(t) \/ WaitMysql(t) \/ Download(t) \/ StoreData(t)
    \/ ReadHeader(t) \/ DropTable(t) \/ CreateMysqlTable(t) \/ ClearTable(t)
    \/ LoadData(t) \/ WaitPorts(t)
    \/ CreateProject(t) \/ InviteMember(t) \/ AwaitJoined(t) \/ JoinProject(t)
    \/ CreateTable(t) \/ GrantSelf(t) \/ GrantPermission(t) \/ FinishColumn(t)
    \/ FinishGrants(t) \/ RunQuery(t) \/ GiveUp(t) \/ UploadResult(t)

MysqlReady(p) ==
    /\ ~mysqlUp[p]
    /\ mysqlUp' = [mysqlUp EXCEPT ![p] = TRUE]
    /\ UNCHANGED <<brokerVars, at, file, text, col, per, tries, header, pinged, datafile, table, resfile, uploaded, faults>>

BrokerStart(p) == BrokerReady(p) /\ UNCHANGED taskVars

Next ==
    \/ \E t \in Task : Submit(t) \/ Step(t)
    \/ \E p \in Party : MysqlReady(p) \/ BrokerStart(p)

Spec == Init /\ [][Next]_vars

\* The Go scheduler runs every goroutine; supervisord restarts what it stopped.
Fairness ==
    /\ \A t \in Task : WF_vars(Submit(t)) /\ WF_vars(Step(t))
    /\ \A p \in Party : WF_vars(MysqlReady(p)) /\ WF_vars(BrokerStart(p))

FairSpec == Spec /\ Fairness

----------------------------------------------------------------------------
(***************************************************************************)
(* Properties                                                               *)
(***************************************************************************)

PastJoining(t) == at[t] \in Granting \cup Querying \cup {"granted", "uploaded", "exhausted"}

PastGrants(t) == at[t] \in Querying \cup {"granted", "uploaded", "exhausted"}

\* Taking "record not found" for "joined" is sound: whatever replies get lost,
\* a partner that leaves the join loop is a member of the project, in its own
\* broker and in its inviter's, and an initiator that leaves the wait for its
\* peer shares a project with it.  (task.go, lines 222-270)
PastJoiningIsMember ==
    \A t \in Task : PastJoining(t) =>
        IF Initiator(t)
        THEN {Req[t].user, Req[t].peer} \subseteq members[Req[t].user]
        ELSE \E p \in Party \ {Req[t].user} :
                 {p, Req[t].user} \subseteq members[p] \cap members[Req[t].user]

\* When a container gets one task at a time, the dataset that a task leaves in
\* MySQL is its own, loaded once, whatever the tasks before it left there.
\* (task.go, checkDataset)
TableHoldsDatasetOnce ==
    \A t \in Task : at[t] \in {"ports"} \cup Joining \cup Granting \cup Querying =>
        table[Req[t].user] = [columns |-> HeaderOf[Req[t].data], rows |-> <<Req[t].data>>]

\* When a container gets one task at a time, a task dies with the process only
\* for a data file of its own that has no header.  (task.go, lines 107-120)
KilledByOwnData == \A t \in Task : at[t] = "killed" => Req[t].data = Empty

ColumnGrants(t, i) == {OwnGrant(t, i)} \cup {PermissionGrant(t, i, j) : j \in Supported(t, i)}

RequestedGrants(t) == UNION {ColumnGrants(t, i) : i \in DOMAIN Req[t].columns}

\* No column is ever disclosed to a party unless a request submitted in the
\* owner's own container says so, with a constraint that the broker knows.
\* (task.go, lines 289-301)
OnlyRequestedGrants ==
    ccl \subseteq UNION {RequestedGrants(t) : t \in {s \in Task : at[s] # "new"}}

\* However tasks overlap and restart each other's broker, a column is granted to
\* a party only after its owner's own grant.  (task.go, lines 290-294)
PermissionsFollowOwn == \A g \in ccl : <<g[1], g[2], g[1]>> \in ccl

IncompleteColumns(t) == {i \in DOMAIN Req[t].columns : ~(ColumnGrants(t, i) \subseteq ccl)}

\* In a container that gets one task at a time, when the registered table has the
\* columns of the request, a task that reports "grantCCL ok" has granted each
\* column to everyone whose permission the broker supports, except for one column
\* per lost call: permissions that the broker does not know cost no other one.
\* (task.go, lines 289-302; the restart of the broker by an overlapping task, line
\* 165, makes others lose theirs)
GrantsCompleteUpToFaults ==
    \A t \in Task :
        PastGrants(t) /\ TableColumns(t) \subseteq vtable[Req[t].user]
        => Cardinality(IncompleteColumns(t)) <= faults

OwnResult(t) == [i \in 1..Req[t].size |-> t]

\* In a container that gets one task at a time, the file a task uploads begins
\* with the result of its own query.
\* (broker_util.go runQuery, task.go lines 317-331)
UploadBeginsWithOwnResult ==
    \A t \in Task : at[t] = "uploaded" => SubSeq(uploaded[t], 1, Req[t].size) = OwnResult(t)

\* The README promises the result of the computation in Nexus, and no more.
UploadIsOwnResult == \A t \in Task : at[t] = "uploaded" => uploaded[t] = OwnResult(t)

Configured(p, t) == \A f \in File : conf[p][f] = Settings(t, f)

\* In a container that gets one task at a time, a task that has replaced the
\* placeholders works with two whole files, both with the settings of one and the
\* same request submitted there, which need not be its own.
\* (task.go, DealTask; util.go, replaceInFile)
ConfigOfOneRequest ==
    \A t \in Task : at[t] \in Running \ Configuring =>
        \E s \in Task : /\ Req[s].user = Req[t].user
                        /\ at[s] # "new"
                        /\ Configured(Req[t].user, s)

\* In containers that get one task at a time, whoever shares a project with
\* another party keeps the settings under which their brokers reach each other,
\* whatever later requests bring.  (util.go, line 89)
MembersStayConfigured ==
    \A p \in Party : \A q \in members[p] \ {p} :
        \/ \E t \in Task : Req[t].user = p /\ at[t] \in Configuring
        \/ conf[p]["party_info.json"] = TrueLink(p, q)

\* The tasks of both sides never wait for each other forever: when none of
\* them fails or dies, all of them end.
NobodyFails == [](\A t \in Task : at[t] \notin {"failed", "killed"})

AllEnd == NobodyFails => <>(\A t \in Task : at[t] \in Ended)

\* Tasks that overlap end as well, unless what they do to each other's files
\* leaves a container whose broker can never start again.
\* (util.go, lines 82-92; task.go, lines 164-172)
AllEndOrFileLost ==
    NobodyFails => \/ <>(\A t \in Task : at[t] \in Ended)
                   \/ <>[](\E p \in Party : ~Usable(p))
=============================================================================
