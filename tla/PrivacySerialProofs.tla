-------------------------- MODULE PrivacySerialProofs --------------------------
(***************************************************************************)
(* What a container that gets one task at a time can rely on: its MySQL     *)
(* table is built from the data of the running task, the broker that was    *)
(* waited for stays up while columns are granted, and the result file       *)
(* begins with the result of the task that uploads it.                      *)
(*                                                                          *)
(* The tasks of a container share its files, its table and its broker.      *)
(* The argument is the same for each of them: only the task that runs       *)
(* touches them, so what it has established holds until it ends.            *)
(***************************************************************************)
EXTENDS PrivacyTaskProofs, FiniteSetTheorems

\* one running task per container
SerialInv ==
    \A s, t \in Task :
        Req[s].user = Req[t].user /\ at[s] \in Running /\ at[t] \in Running => s = t

LEMMA SerialNext ==
    ASSUME SerialSubmit, TypeOK, SerialInv, [Next]_vars PROVE SerialInv'
<1> SUFFICES ASSUME NEW r \in Task, NEW t \in Task, Req[r].user = Req[t].user,
                    at'[r] \in Running, at'[t] \in Running
             PROVE  r = t
    BY DEF SerialInv
<1>1. CASE UNCHANGED at
    BY <1>1 DEF SerialInv
<1>2. ASSUME NEW s \in Task, Submit(s) PROVE r = t
    <2>1. \A q \in Task \ {s} : at'[q] = at[q]
        BY <1>2 DEF Submit, Goto, TypeOK, dataVars
    <2>2. \A q \in Task : Req[q].user = Req[s].user => at[q] \notin Running
        BY <1>2 DEF Submit, Busy, dataVars
    <2> QED
        BY <2>1, <2>2 DEF SerialInv
<1>3. ASSUME NEW s \in Task, Step(s) PROVE r = t
    <2>1. \A q \in Task : at'[q] \in Running => at[q] \in Running
        BY <1>3, StepRuns, OtherPosition
    <2> QED
        BY <2>1 DEF SerialInv
<1>4. ASSUME NEW p \in Party, MysqlReady(p) \/ BrokerStart(p) PROVE UNCHANGED at
    BY <1>4, ServiceStep
<1> QED
    BY <1>1, <1>2, <1>3, <1>4 DEF Next, vars, taskVars

\* What others do to a task: nothing to the position of a task, to what a task
\* that runs has read and put into its container, or to what one has uploaded.
LEMMA Frame ==
    ASSUME SerialSubmit, TypeOK, SerialInv, [Next]_vars, NEW t \in Task, ~Submit(t), ~Step(t)
    PROVE  /\ at'[t] = at[t] /\ col'[t] = col[t] /\ per'[t] = per[t] /\ uploaded'[t] = uploaded[t]
           /\ file'[t] = file[t] /\ text'[t] = text[t]
           /\ at[t] \in Running =>
                 LET p == Req[t].user IN
                 /\ header'[t] = header[t] /\ datafile'[p] = datafile[p] /\ table'[p] = table[p]
                 /\ resfile'[p] = resfile[p] /\ conf'[p] = conf[p] /\ (Up(p) => Up(p)')
<1> USE RequestTypes
<1>1. CASE UNCHANGED vars
    BY <1>1 DEF vars, taskVars, brokerVars, Up
<1>2. ASSUME NEW s \in Task \ {t}, Submit(s) \/ Step(s), at[t] \in Running
      PROVE  Req[t].user # Req[s].user
    <2>1. CASE Submit(s)
        BY <1>2, <2>1 DEF Submit, Busy
    <2>2. CASE Step(s)
        BY <1>2, <2>2, StepRuns DEF SerialInv
    <2> QED
        BY <1>2, <2>1, <2>2
<1>3. ASSUME NEW s \in Task \ {t}, Submit(s) \/ Step(s)
      PROVE  /\ at'[t] = at[t]
             /\ col'[t] = col[t] /\ per'[t] = per[t] /\ uploaded'[t] = uploaded[t]
             /\ file'[t] = file[t] /\ text'[t] = text[t] /\ header'[t] = header[t]
    BY <1>2, <1>3, OtherPosition, OtherLocals
<1>4. ASSUME NEW s \in Task \ {t}, Submit(s) \/ Step(s), at[t] \in Running
      PROVE  LET p == Req[t].user IN
             /\ datafile'[p] = datafile[p] /\ table'[p] = table[p]
             /\ resfile'[p] = resfile[p] /\ conf'[p] = conf[p] /\ (Up(p) => Up(p)')
    BY <1>2, <1>4, OtherContainer DEF Up
<1>5. ASSUME NEW q \in Party, MysqlReady(q) \/ BrokerStart(q)
      PROVE  /\ UNCHANGED <<at, file, text, header, col, per, uploaded>>
             /\ UNCHANGED <<datafile, table, resfile, conf>>
             /\ \A p \in Party : Up(p) => Up(p)'
    BY <1>5, ServiceStep
<1> QED
    BY <1>1, <1>3, <1>4, <1>5 DEF Next

----------------------------------------------------------------------------
(***************************************************************************)
(* The data                                                                 *)
(***************************************************************************)
Building == {"drop", "create", "clear", "load"}
Loaded == {"ports"} \cup Joining \cup Granting \cup Querying

\* the data file and the table of the container that runs task t
DataInv(t) ==
    LET p == Req[t].user
        d == Req[t].data
    IN
    /\ at[t] \in {"header"} \cup Building => datafile[p] = d
    /\ at[t] \in Building \cup Loaded => d # Empty
    /\ at[t] \in Building => header[t] = HeaderOf[d]
    /\ at[t] = "create" => table[p] = NoTable
    /\ at[t] \in {"clear", "load"} => table[p] = [columns |-> HeaderOf[d], rows |-> <<>>]
    /\ at[t] \in Loaded => table[p] = [columns |-> HeaderOf[d], rows |-> <<d>>]
    /\ at[t] = "killed" => d = Empty

LEMMA DataFrame ==
    ASSUME SerialSubmit, TypeOK, SerialInv, [Next]_vars,
           NEW t \in Task, DataInv(t), ~Submit(t), ~Step(t)
    PROVE  DataInv(t)'
<1>1. at'[t] \in {"header"} \cup Building \cup Loaded => at[t] \in Running
    BY Frame DEF Building, Loaded, Running, Preparing
<1> QED
    BY <1>1, Frame DEF DataInv, Building

LEMMA DataStep ==
    ASSUME TypeOK, NEW t \in Task, DataInv(t), Submit(t) \/ Step(t)
    PROVE  DataInv(t)'
<1> DEFINE p == Req[t].user
           d == Req[t].data
<1> USE TaskAssumption, RequestTypes
        DEF TypeOK, Goto, Building, Loaded, Joining, Granting, Querying, DataInv
<1>1. CASE Submit(t)
    BY <1>1 DEF Submit, dataVars
<1>2. CASE ReadConfig(t) \/ TruncateConfig(t) \/ WriteConfig(t)
    BY <1>2 DEF ReadConfig, TruncateConfig, WriteConfig, dataVars
<1>3. CASE RestartBroker(t) \/ WaitMysql(t)
    BY <1>3 DEF RestartBroker, WaitMysql, dataVars
<1>4. CASE Download(t)
    BY <1>4 DEF Download, ReadFile, Reply
<1>5. CASE StoreData(t)
    BY <1>5 DEF StoreData
<1>6. CASE ReadHeader(t)
    <2>1. CASE at'[t] = "failed"
        BY <2>1
    <2>2. CASE Kill(p) /\ datafile[p] = Empty
        BY <1>6, <2>2 DEF ReadHeader, Kill, Running, Preparing
    <2>3. CASE datafile[p] # Empty /\ header' = [header EXCEPT ![t] = HeaderOf[datafile[p]]] /\ Goto(t, "drop")
        BY <1>6, <2>3 DEF ReadHeader
    <2> QED
        BY <1>6, <2>1, <2>2, <2>3 DEF ReadHeader
<1>7. CASE DropTable(t)
    BY <1>7 DEF DropTable, Statement
<1>8. CASE CreateMysqlTable(t)
    BY <1>8 DEF CreateMysqlTable, Statement
<1>9. CASE ClearTable(t)
    BY <1>9 DEF ClearTable, Statement
<1>10. CASE LoadData(t)
    <2>1. /\ at[t] = "load" /\ datafile[p] = d /\ d # Empty
          /\ table[p] = [columns |-> HeaderOf[d], rows |-> <<>>]
        BY <1>10 DEF LoadData, Statement
    <2>2. CASE Loadable(t)
        <3>1. table'[p] = [columns |-> table[p].columns, rows |-> Append(table[p].rows, d)]
            BY <1>10, <2>1, <2>2 DEF LoadData
        <3>2. table'[p] = [columns |-> HeaderOf[d], rows |-> <<d>>]
            BY <2>1, <3>1
        <3> QED
            BY <1>10, <2>1, <2>2, <3>2 DEF LoadData, Statement
    <2>3. CASE ~Loadable(t)
        BY <1>10, <2>3 DEF LoadData, Statement
    <2> QED
        BY <2>2, <2>3
<1>11. CASE WaitPorts(t)
    BY <1>11 DEF WaitPorts
<1>12. CASE CreateProject(t) \/ InviteMember(t) \/ AwaitJoined(t) \/ JoinProject(t) \/ CreateTable(t)
    <2>1. at[t] \in Loaded /\ at'[t] \in Loaded \cup {"failed"} /\ UNCHANGED table
        BY <1>12 DEF CreateProject, InviteMember, AwaitJoined, JoinProject, CreateTable, Reply,
                     localVars, dataVars
    <2> QED
        BY <2>1
<1>13. CASE GrantSelf(t) \/ GrantPermission(t) \/ FinishColumn(t) \/ FinishGrants(t)
    <2>1. at[t] \in Loaded /\ at'[t] \in Loaded \cup {"granted"} /\ UNCHANGED table
        BY <1>13 DEF GrantSelf, GrantPermission, FinishColumn, FinishGrants, NextColumn,
                     localVars, dataVars
    <2> QED
        BY <2>1
<1>14. CASE RunQuery(t) \/ GiveUp(t) \/ UploadResult(t)
    <2>1. at[t] \in Loaded /\ at'[t] \in Loaded \cup {"exhausted", "uploaded", "failed"} /\ UNCHANGED table
        BY <1>14 DEF RunQuery, GiveUp, UploadResult, WriteFile, Reply, localVars, dataVars
    <2> QED
        BY <2>1
<1> QED
    BY <1>1, <1>2, <1>3, <1>4, <1>5, <1>6, <1>7, <1>8, <1>9, <1>10, <1>11, <1>12, <1>13, <1>14 DEF Step

SerialDataInv == TypeOK /\ ColumnInv /\ SerialInv /\ \A t \in Task : DataInv(t)

LEMMA SerialDataInit == Init => SerialDataInv
BY TypeInit
   DEF Init, SerialDataInv, ColumnInv, SerialInv, DataInv, Building, Loaded, Running, Configuring,
       Preparing, Joining, Granting, Querying

LEMMA SerialDataNext ==
    ASSUME SerialSubmit, SerialDataInv, [Next]_vars PROVE SerialDataInv'
<1>1. TypeOK' /\ ColumnInv' /\ SerialInv'
    BY TypeNext, ColumnNext, SerialNext DEF SerialDataInv
<1>2. ASSUME NEW t \in Task PROVE DataInv(t)'
    BY DataFrame, DataStep DEF SerialDataInv
<1> QED
    BY <1>1, <1>2 DEF SerialDataInv

\* In a container that gets one task at a time, the table that a task's query
\* reads has the columns and the rows of its own dataset, once, whatever the
\* tasks before it left there.  (task.go, checkDataset)
THEOREM TableIsOwnData ==
    ASSUME SerialSubmit PROVE Spec => []TableHoldsDatasetOnce
<1>1. SerialDataInv => TableHoldsDatasetOnce
    BY DEF SerialDataInv, DataInv, TableHoldsDatasetOnce, Loaded
<1>2. SerialDataInv /\ [Next]_vars => SerialDataInv'
    BY SerialDataNext
<1> QED
    BY <1>1, <1>2, SerialDataInit, PTL DEF Spec

\* In a container that gets one task at a time, log.Fatalf ends a task only for
\* a data file of its own without a header line.  (task.go, lines 107-120)
THEOREM DeathIsOwn ==
    ASSUME SerialSubmit PROVE Spec => []KilledByOwnData
<1>1. SerialDataInv => KilledByOwnData
    BY DEF SerialDataInv, DataInv, KilledByOwnData
<1>2. SerialDataInv /\ [Next]_vars => SerialDataInv'
    BY SerialDataNext
<1> QED
    BY <1>1, <1>2, SerialDataInit, PTL DEF Spec

----------------------------------------------------------------------------
(***************************************************************************)
(* The result                                                               *)
(***************************************************************************)
BeginsWith(lines, t) == \A i \in 1..Req[t].size : i <= Len(lines) /\ lines[i] = t

ResultInv(t) ==
    /\ at[t] = "result" => BeginsWith(resfile[Req[t].user], t)
    /\ at[t] = "uploaded" => BeginsWith(uploaded[t], t)

\* Whatever the file held before, the new text is at its beginning.
LEMMA RenderedBegins ==
    ASSUME NEW t \in Task, NEW lines \in Seq(Task) PROVE BeginsWith(Rendered(t, lines), t)
<1> DEFINE n == Req[t].size
           m == IF n > Len(lines) THEN n ELSE Len(lines)
<1>1. n \in Nat /\ m \in Nat /\ n <= m
    BY TaskAssumption DEF Request
<1>2. Rendered(t, lines) = [i \in 1..m |-> IF i <= n THEN t ELSE lines[i]]
    BY DEF Rendered
<1>3. Rendered(t, lines) \in Seq(Task)
    BY RenderedType
<1> HIDE DEF m, n
<1>4. Len(Rendered(t, lines)) = m
    <2>1. DOMAIN Rendered(t, lines) = 1..m
        BY <1>2
    <2> QED
        BY <1>1, <1>3, <2>1, LenProperties
<1>5. \A i \in 1..n : i \in 1..m /\ Rendered(t, lines)[i] = t
    BY <1>1, <1>2
<1> QED
    BY <1>1, <1>4, <1>5 DEF BeginsWith, n

\* A file that begins with the result of t, seen as the property does.
LEMMA BeginsWithOwn ==
    ASSUME NEW t \in Task, NEW lines \in Seq(Task), BeginsWith(lines, t)
    PROVE  SubSeq(lines, 1, Req[t].size) = OwnResult(t)
<1> DEFINE n == Req[t].size
<1>1. n \in Nat /\ \A i \in 1..n : i <= Len(lines) /\ lines[i] = t
    BY TaskAssumption DEF Request, BeginsWith
<1>2. n <= Len(lines)
    BY <1>1
<1> HIDE DEF n
<1>3. SubSeq(lines, 1, n) = [i \in 1..n |-> lines[i]]
    BY <1>1, <1>2
<1>4. [i \in 1..n |-> lines[i]] = [i \in 1..n |-> t]
    BY <1>1
<1> QED
    BY <1>3, <1>4 DEF OwnResult, n

LEMMA ResultNext ==
    ASSUME SerialSubmit, TypeOK, SerialInv, [Next]_vars, NEW t \in Task, ResultInv(t)
    PROVE  ResultInv(t)'
<1> USE RequestTypes DEF TypeOK, Goto, ResultInv, BeginsWith
<1>1. CASE ~Submit(t) /\ ~Step(t)
    <2>1. at'[t] = at[t] /\ uploaded'[t] = uploaded[t]
        BY <1>1, Frame
    <2>2. at[t] = "result" => resfile'[Req[t].user] = resfile[Req[t].user]
        BY <1>1, Frame DEF Running, Querying
    <2> QED
        BY <2>1, <2>2
<1>2. CASE RunQuery(t)
    <2>1. at'[t] = "result" => resfile'[Req[t].user] = Rendered(t, resfile[Req[t].user])
        BY <1>2 DEF RunQuery
    <2>2. at'[t] # "uploaded"
        BY <1>2 DEF RunQuery
    <2> QED
        BY <2>1, <2>2, RenderedBegins
<1>3. CASE UploadResult(t)
    BY <1>3 DEF UploadResult, WriteFile, Reply
<1> DEFINE Elsewhere == at'[t] \notin {"result", "uploaded"}
<1>4. ASSUME \/ Submit(t) \/ ReadConfig(t) \/ TruncateConfig(t) \/ WriteConfig(t)
             \/ RestartBroker(t) \/ WaitMysql(t) \/ Download(t)
             \/ StoreData(t) \/ DropTable(t) \/ CreateMysqlTable(t) \/ ClearTable(t)
             \/ LoadData(t) \/ WaitPorts(t)
      PROVE  Elsewhere
    BY <1>4 DEF Submit, ReadConfig, TruncateConfig, WriteConfig, RestartBroker, WaitMysql,
                Download, ReadFile, Reply, StoreData, DropTable, CreateMysqlTable, ClearTable,
                LoadData, WaitPorts, Statement, dataVars
<1>5. ASSUME ReadHeader(t) PROVE Elsewhere
    BY <1>5 DEF ReadHeader, Kill
<1>6. ASSUME \/ CreateProject(t) \/ InviteMember(t) \/ AwaitJoined(t) \/ JoinProject(t)
             \/ CreateTable(t) \/ GrantSelf(t) \/ GrantPermission(t) \/ FinishColumn(t) \/ FinishGrants(t) \/ GiveUp(t)
      PROVE  Elsewhere
    BY <1>6 DEF CreateProject, InviteMember, AwaitJoined, JoinProject, CreateTable, GrantSelf,
                GrantPermission, FinishColumn, NextColumn, FinishGrants, GiveUp, Reply, dataVars
<1> QED
    BY <1>1, <1>2, <1>3, <1>4, <1>5, <1>6 DEF Step

\* In a container that gets one task at a time, the file a task uploads begins
\* with the result of its own query, whatever the result file held before.
\* (broker_util.go runQuery, task.go lines 317-331)
THEOREM UploadBeginsWithOwn ==
    ASSUME SerialSubmit PROVE Spec => []UploadBeginsWithOwnResult
<1> DEFINE Inv == TypeOK /\ ColumnInv /\ SerialInv /\ \A t \in Task : ResultInv(t)
<1>1. Init => Inv
    BY SerialDataInit DEF SerialDataInv, Init, ResultInv
<1>2. ASSUME Inv, [Next]_vars PROVE Inv'
    <2>1. TypeOK' /\ ColumnInv' /\ SerialInv'
        BY <1>2, TypeNext, ColumnNext, SerialNext
    <2>2. ASSUME NEW t \in Task PROVE ResultInv(t)'
        BY <1>2, ResultNext
    <2> QED
        BY <2>1, <2>2
<1>3. ASSUME Inv PROVE UploadBeginsWithOwnResult
    <2> SUFFICES ASSUME NEW t \in Task, at[t] = "uploaded"
                 PROVE  SubSeq(uploaded[t], 1, Req[t].size) = OwnResult(t)
        BY DEF UploadBeginsWithOwnResult
    <2>1. uploaded[t] \in Seq(Task) /\ BeginsWith(uploaded[t], t)
        BY <1>3 DEF TypeOK, ResultInv
    <2> QED
        BY <2>1, BeginsWithOwn
<1> QED
    BY <1>1, <1>2, <1>3, PTL DEF Spec

----------------------------------------------------------------------------
(***************************************************************************)
(* The grants                                                               *)
(***************************************************************************)
\* a broker that answered its task stays up: nobody else restarts it
UpInv(t) == at[t] \in Granting \cup Querying => Up(Req[t].user)

PastTable(t) == at[t] \in {"grant", "permit"} \/ PastGrants(t)

\* what the calls made so far should have granted of the column that is open
Granted(t, i) ==
    /\ OwnGrant(t, i) \in ccl
    /\ \A j \in Supported(t, i) : j < per[t] => PermissionGrant(t, i, j) \in ccl

\* the columns that lost a grant
Skipped(t) ==
    {i \in DOMAIN Req[t].columns :
        \/ i < col[t] /\ ~(ColumnGrants(t, i) \subseteq ccl)
        \/ i = col[t] /\ at[t] = "permit" /\ ~Granted(t, i)}

\* columns and permissions are taken in order, a table that was registered stays
\* as it is, and it takes a fault to lose a column
GrantInv(t) ==
    /\ col[t] \in Nat \ {0} /\ per[t] \in Nat \ {0}
    /\ at[t] = "grant" => per[t] = 1
    /\ at[t] \in {"new", "table"} \cup Configuring \cup Preparing \cup Joining =>
          col[t] = 1 /\ per[t] = 1
    /\ PastTable(t) => vtable[Req[t].user] # {} \/ DOMAIN Req[t].columns = {}
    /\ PastGrants(t) => col[t] \notin DOMAIN Req[t].columns
    /\ PastTable(t) /\ TableColumns(t) \subseteq vtable[Req[t].user] =>
          Cardinality(Skipped(t)) <= faults

\* Faults are counted and never forgotten.
LEMMA FaultStep == ASSUME TypeOK, [Next]_vars PROVE UNCHANGED faults \/ Fault
<1>1. CASE UNCHANGED vars
    BY <1>1 DEF vars, taskVars
<1>2. ASSUME NEW s \in Task,
             \/ Submit(s) \/ ReadConfig(s) \/ TruncateConfig(s) \/ WriteConfig(s)
             \/ RestartBroker(s) \/ WaitMysql(s) \/ Download(s)
             \/ StoreData(s) \/ ReadHeader(s) \/ DropTable(s) \/ CreateMysqlTable(s)
             \/ ClearTable(s) \/ LoadData(s) \/ WaitPorts(s)
      PROVE  UNCHANGED faults \/ Fault
    BY <1>2 DEF Submit, ReadConfig, TruncateConfig, WriteConfig, RestartBroker, WaitMysql,
                Download, ReadFile, Reply, StoreData, ReadHeader, DropTable, CreateMysqlTable,
                ClearTable, LoadData, WaitPorts, Statement, Await, dataVars
<1>3. ASSUME NEW s \in Task,
             \/ CreateProject(s) \/ InviteMember(s) \/ AwaitJoined(s) \/ JoinProject(s)
             \/ CreateTable(s) \/ GrantSelf(s) \/ GrantPermission(s) \/ FinishColumn(s) \/ FinishGrants(s)
             \/ RunQuery(s) \/ GiveUp(s) \/ UploadResult(s)
      PROVE  UNCHANGED faults \/ Fault
    BY <1>3 DEF CreateProject, InviteMember, AwaitJoined, JoinProject, CreateTable, GrantSelf,
                GrantPermission, FinishColumn, FinishGrants, RunQuery, GiveUp, UploadResult,
                WriteFile, Reply, dataVars
<1>4. ASSUME NEW p \in Party, MysqlReady(p) \/ BrokerStart(p) PROVE UNCHANGED faults
    BY <1>4, ServiceStep
<1> QED
    BY <1>1, <1>2, <1>3, <1>4 DEF Next, Step

\* Grants are never revoked and a registered table is never replaced.
LEMMA CatalogStep ==
    ASSUME TypeOK, [Next]_vars
    PROVE  ccl \subseteq ccl' /\ \A p \in Party : vtable[p] # {} => vtable'[p] = vtable[p]
<1>1. CASE UNCHANGED vars
    BY <1>1 DEF vars, brokerVars
<1>2. ASSUME NEW s \in Task,
             \/ Submit(s) \/ ReadConfig(s) \/ TruncateConfig(s) \/ WriteConfig(s)
             \/ RestartBroker(s) \/ WaitMysql(s) \/ Download(s)
             \/ StoreData(s) \/ ReadHeader(s) \/ DropTable(s) \/ CreateMysqlTable(s)
             \/ ClearTable(s) \/ LoadData(s) \/ WaitPorts(s)
      PROVE  UNCHANGED <<ccl, vtable>>
    BY <1>2 DEF Submit, ReadConfig, TruncateConfig, WriteConfig, RestartBroker, StopBroker,
                WaitMysql, Download, StoreData, ReadHeader, DropTable, CreateMysqlTable,
                ClearTable, LoadData, Statement, WaitPorts, brokerVars, dataVars
<1>3. ASSUME NEW s \in Task,
             \/ CreateProject(s) \/ InviteMember(s) \/ AwaitJoined(s) \/ JoinProject(s)
             \/ FinishGrants(s) \/ RunQuery(s) \/ GiveUp(s) \/ UploadResult(s)
      PROVE  UNCHANGED <<ccl, vtable>>
    BY <1>3 DEF CreateProject, BrokerCreateProject, InviteMember, BrokerInvite, AwaitJoined,
                JoinProject, BrokerAccept, FinishGrants, RunQuery, GiveUp, UploadResult,
                brokerVars
<1>4. ASSUME NEW s \in Task, CreateTable(s)
      PROVE  UNCHANGED ccl /\ \A p \in Party : vtable[p] # {} => vtable'[p] = vtable[p]
    BY <1>4 DEF CreateTable, BrokerCreateTable, brokerVars, TypeOK, BrokerTypeOK
<1>5. ASSUME NEW s \in Task, GrantSelf(s) \/ GrantPermission(s) \/ FinishColumn(s)
      PROVE  ccl \subseteq ccl' /\ UNCHANGED vtable
    BY <1>5 DEF GrantSelf, GrantPermission, FinishColumn, BrokerGrant, brokerVars, dataVars
<1>6. ASSUME NEW p \in Party, MysqlReady(p) \/ BrokerStart(p) PROVE UNCHANGED <<ccl, vtable>>
    BY <1>6, ServiceStep
<1> QED
    BY <1>1, <1>2, <1>3, <1>4, <1>5, <1>6 DEF Next, Step

LEMMA UpNext ==
    ASSUME SerialSubmit, TypeOK, SerialInv, [Next]_vars, NEW t \in Task, UpInv(t)
    PROVE  UpInv(t)'
<1> SUFFICES ASSUME at'[t] \in Granting \cup Querying PROVE Up(Req[t].user)'
    BY DEF UpInv
<1> USE DEF Granting, Querying
<1>1. CASE ~Submit(t) /\ ~Step(t)
    <2>1. at'[t] = at[t] /\ at[t] \in Running
        BY <1>1, Frame DEF Running
    <2> QED
        BY <1>1, <2>1, Frame DEF UpInv
<1>2. ASSUME \/ Submit(t) \/ ReadConfig(t) \/ TruncateConfig(t) \/ WriteConfig(t)
             \/ RestartBroker(t) \/ WaitMysql(t) \/ Download(t)
             \/ StoreData(t) \/ ReadHeader(t) \/ DropTable(t) \/ CreateMysqlTable(t) \/ ClearTable(t)
             \/ LoadData(t) \/ WaitPorts(t) \/ CreateProject(t) \/ InviteMember(t)
      PROVE  FALSE
    BY <1>2 DEF Submit, ReadConfig, TruncateConfig, WriteConfig, RestartBroker, WaitMysql,
                Download, ReadFile, Reply, StoreData, ReadHeader, Kill, DropTable,
                CreateMysqlTable, ClearTable, LoadData, Statement, WaitPorts, CreateProject,
                InviteMember, Goto, TypeOK
<1>3. CASE AwaitJoined(t) \/ JoinProject(t)
    <2>1. Up(Req[t].user)
        BY <1>3 DEF AwaitJoined, ProjectMemberJoined, JoinProject, BrokerAccept, Linked, Knows,
                    AlreadyHandled, Reply, Goto, TypeOK
    <2>2. UNCHANGED running
        BY <1>3 DEF AwaitJoined, JoinProject, BrokerAccept, brokerVars
    <2> QED
        BY <2>1, <2>2 DEF Up
<1>4. CASE \/ CreateTable(t) \/ GrantSelf(t) \/ GrantPermission(t) \/ FinishColumn(t)
           \/ FinishGrants(t) \/ RunQuery(t) \/ GiveUp(t) \/ UploadResult(t)
    <2>1. at[t] \in Granting \cup Querying
        BY <1>4 DEF CreateTable, GrantSelf, GrantPermission, FinishColumn, FinishGrants, RunQuery,
                    GiveUp, UploadResult
    <2>2. UNCHANGED running
        BY <1>4 DEF CreateTable, BrokerCreateTable, GrantSelf, GrantPermission, FinishColumn,
                    BrokerGrant, FinishGrants, RunQuery, GiveUp, UploadResult, brokerVars
    <2> QED
        BY <2>1, <2>2 DEF UpInv, Up
<1> QED
    BY <1>1, <1>2, <1>3, <1>4 DEF Step

\* A registered table that has a task's columns had them all along.
LEMMA ColumnsKept ==
    ASSUME TypeOK, [Next]_vars, NEW t \in Task,
           vtable[Req[t].user] # {} \/ DOMAIN Req[t].columns = {}
    PROVE  /\ vtable'[Req[t].user] # {} \/ DOMAIN Req[t].columns = {}
           /\ TableColumns(t) \subseteq vtable'[Req[t].user] => TableColumns(t) \subseteq vtable[Req[t].user]
<1>1. CASE vtable[Req[t].user] # {}
    BY <1>1, CatalogStep, RequestTypes
<1>2. CASE DOMAIN Req[t].columns = {}
    BY <1>2 DEF TableColumns
<1> QED
    BY <1>1, <1>2

\* The columns of a request, and the permissions of each, are numbered from 1.
LEMMA ColumnNumbers ==
    ASSUME NEW t \in Task
    PROVE  /\ DOMAIN Req[t].columns \subseteq Nat \ {0}
           /\ IsFiniteSet(DOMAIN Req[t].columns)
           /\ \A i \in Nat \ {0} : i \notin DOMAIN Req[t].columns =>
                  \A k \in DOMAIN Req[t].columns : k < i
           /\ \A i \in DOMAIN Req[t].columns :
                  /\ Supported(t, i) \subseteq Nat \ {0}
                  /\ \A j \in Nat \ {0} : j \notin DOMAIN Req[t].columns[i].permissions =>
                         \A k \in Supported(t, i) : k < j
<1> DEFINE C == [name : Column, permissions : Seq(Permission)]
           c == Req[t].columns
<1>1. c \in Seq(C)
    BY TaskAssumption DEF Request
<1> HIDE DEF c, C
<1>2. Len(c) \in Nat /\ DOMAIN c = 1..Len(c)
    BY <1>1, LenProperties
<1>3. IsFiniteSet(1..Len(c))
    BY <1>2, FS_Interval
<1>4. ASSUME NEW i \in DOMAIN c
      PROVE  /\ Supported(t, i) \subseteq Nat \ {0}
             /\ \A j \in Nat \ {0} : j \notin DOMAIN c[i].permissions =>
                    \A k \in Supported(t, i) : k < j
    <2> DEFINE q == c[i].permissions
    <2>1. c[i] \in C
        BY <1>1
    <2>2. q \in Seq(Permission)
        BY <2>1 DEF C
    <2>3. Supported(t, i) \subseteq DOMAIN q
        BY DEF Supported, c
    <2> HIDE DEF q
    <2>4. Len(q) \in Nat /\ DOMAIN q = 1..Len(q)
        BY <2>2, LenProperties
    <2>5. \A j \in Nat \ {0} : j \notin DOMAIN q => \A k \in Supported(t, i) : k < j
        BY <2>3, <2>4
    <2>6. Supported(t, i) \subseteq Nat \ {0}
        BY <2>3, <2>4
    <2> QED
        BY <2>5, <2>6 DEF q
<1>5. \A i \in Nat \ {0} : i \notin DOMAIN c => \A k \in DOMAIN c : k < i
    BY <1>2
<1>6. DOMAIN c \subseteq Nat \ {0}
    BY <1>2
<1> QED
    BY <1>2, <1>3, <1>4, <1>5, <1>6 DEF c

\* A step that loses no column but the open one, and that one to a fault.
LEMMA SkippedStep ==
    ASSUME TypeOK, [Next]_vars, NEW t \in Task, Cardinality(Skipped(t)) <= faults,
           \/ Skipped(t)' \subseteq Skipped(t)
           \/ Fault /\ Skipped(t)' \subseteq Skipped(t) \cup {col[t]}
    PROVE  Cardinality(Skipped(t)') <= faults'
<1> DEFINE S == Skipped(t)
           T == Skipped(t)'
           n == col[t]
<1>1. IsFiniteSet(S)
    <2>1. S \subseteq DOMAIN Req[t].columns
        BY DEF Skipped
    <2> QED
        BY <2>1, ColumnNumbers, FS_Subset
<1>2. faults \in Nat /\ (faults' = faults \/ faults' = faults + 1) /\ (Fault => faults' = faults + 1)
    BY FaultStep, TaskAssumption DEF TypeOK, Fault
<1>3. IsFiniteSet(S \cup {n}) /\ (Cardinality(S \cup {n}) = Cardinality(S) \/ Cardinality(S \cup {n}) = Cardinality(S) + 1)
    BY <1>1, FS_AddElement
<1>4. Cardinality(S) \in Nat /\ Cardinality(S \cup {n}) \in Nat
    BY <1>1, <1>3, FS_CardinalityType
<1> HIDE DEF S, T, n
<1>5. CASE T \subseteq S
    <2>1. IsFiniteSet(T) /\ Cardinality(T) <= Cardinality(S)
        BY <1>1, <1>5, FS_Subset
    <2>2. Cardinality(T) \in Nat
        BY <2>1, FS_CardinalityType
    <2> QED
        BY <1>2, <1>4, <2>1, <2>2 DEF S, T
<1>6. CASE Fault /\ T \subseteq S \cup {n}
    <2>1. IsFiniteSet(T) /\ Cardinality(T) <= Cardinality(S \cup {n})
        BY <1>3, <1>6, FS_Subset
    <2>2. Cardinality(T) \in Nat
        BY <2>1, FS_CardinalityType
    <2>3. faults' = faults + 1
        BY <1>2, <1>6
    <2>4. Cardinality(S) <= faults
        BY DEF S
    <2> HIDE DEF Fault
    <2> QED
        BY <1>2, <1>3, <1>4, <2>1, <2>2, <2>3, <2>4 DEF T
<1> QED
    BY <1>5, <1>6 DEF S, T, n

\* A task that stays where it is among the columns, or leaves them, loses none.
StaysInGrants(t) ==
    /\ PastTable(t)' => PastTable(t)
    /\ at'[t] \in {"new", "table"} \cup Configuring \cup Preparing \cup Joining =>
          at[t] \in {"new", "table"} \cup Configuring \cup Preparing \cup Joining
    /\ PastGrants(t)' => PastGrants(t) \/ col[t] \notin DOMAIN Req[t].columns
    /\ at'[t] = "permit" => at[t] = "permit"
    /\ at'[t] = "grant" => at[t] = "grant"
    /\ col'[t] = col[t] /\ per'[t] = per[t]

LEMMA StaysKeepsGrants ==
    ASSUME TypeOK, [Next]_vars, NEW t \in Task, GrantInv(t), StaysInGrants(t)
    PROVE  GrantInv(t)'
<1> DEFINE p == Req[t].user
<1>1. /\ col'[t] = col[t] /\ per'[t] = per[t] /\ col[t] \in Nat \ {0} /\ per[t] \in Nat \ {0}
      /\ at'[t] = "grant" => per[t] = 1
      /\ at'[t] \in {"new", "table"} \cup Configuring \cup Preparing \cup Joining =>
            col[t] = 1 /\ per[t] = 1
    BY DEF StaysInGrants, GrantInv
<1>2. PastTable(t)' => vtable'[p] # {} \/ DOMAIN Req[t].columns = {}
    BY ColumnsKept DEF StaysInGrants, GrantInv
<1>3. PastGrants(t)' => col'[t] \notin DOMAIN Req[t].columns
    BY DEF StaysInGrants, GrantInv
<1>4. ASSUME PastTable(t)', TableColumns(t) \subseteq vtable'[p] PROVE Cardinality(Skipped(t)') <= faults'
    <2>1. Cardinality(Skipped(t)) <= faults
        BY <1>4, ColumnsKept DEF StaysInGrants, GrantInv
    <2>2. Skipped(t)' \subseteq Skipped(t)
        BY CatalogStep DEF Skipped, Granted, StaysInGrants
    <2> QED
        BY <2>1, <2>2, SkippedStep
<1> QED
    BY ONLY <1>1, <1>2, <1>3, <1>4 DEF GrantInv, TableColumns

\* Which steps of a task have nothing to do with its columns.
LEMMA OtherStays ==
    ASSUME SerialSubmit, TypeOK, SerialInv, [Next]_vars, NEW t \in Task,
           ~CreateTable(t) \/ at'[t] # "grant", ~GrantSelf(t), ~GrantPermission(t), ~FinishColumn(t)
    PROVE  StaysInGrants(t)
<1>1. ASSUME ~Submit(t), ~Step(t) PROVE StaysInGrants(t)
    <2>1. at'[t] = at[t] /\ col'[t] = col[t] /\ per'[t] = per[t]
        BY <1>1, Frame
    <2> QED
        BY <2>1 DEF StaysInGrants, PastTable, PastGrants
<1>2. ASSUME \/ Submit(t) \/ ReadConfig(t) \/ TruncateConfig(t) \/ WriteConfig(t)
             \/ RestartBroker(t) \/ WaitMysql(t) \/ Download(t)
             \/ StoreData(t) \/ ReadHeader(t) \/ DropTable(t) \/ CreateMysqlTable(t) \/ ClearTable(t)
             \/ LoadData(t) \/ WaitPorts(t)
      PROVE  StaysInGrants(t)
    <2>1. at[t] \in {"new"} \cup Configuring \cup Preparing
        BY <1>2 DEF Submit, ReadConfig, TruncateConfig, WriteConfig, RestartBroker, WaitMysql,
                    Download, StoreData, ReadHeader, DropTable, CreateMysqlTable, ClearTable,
                    LoadData, WaitPorts, Statement, Preparing, Configuring
    <2>2. at'[t] \in Configuring \cup Preparing \cup Joining \cup {"failed", "killed"}
        BY <1>2 DEF Submit, ReadConfig, TruncateConfig, WriteConfig, RestartBroker, WaitMysql,
                    Download, ReadFile, Reply, StoreData, ReadHeader, Kill, DropTable,
                    CreateMysqlTable, ClearTable, LoadData, WaitPorts, Statement, Goto, TypeOK,
                    Preparing, Joining, Running, Configuring
    <2>3. UNCHANGED <<col, per>>
        BY <1>2 DEF Submit, ReadConfig, TruncateConfig, WriteConfig, RestartBroker, WaitMysql,
                    Download, StoreData, ReadHeader, DropTable, CreateMysqlTable, ClearTable,
                    LoadData, WaitPorts, Statement
    <2> QED
        BY <2>1, <2>2, <2>3 DEF StaysInGrants, PastTable, PastGrants, Querying, Preparing, Joining, Configuring
<1>3. ASSUME CreateProject(t) \/ InviteMember(t) \/ AwaitJoined(t) \/ JoinProject(t)
      PROVE  StaysInGrants(t)
    <2>1. at[t] \in Joining /\ at'[t] \in Joining \cup {"table", "failed"} /\ UNCHANGED <<col, per>>
        BY <1>3 DEF CreateProject, InviteMember, AwaitJoined, JoinProject, Reply, Goto, TypeOK,
                    localVars, Joining
    <2> QED
        BY <2>1 DEF StaysInGrants, PastTable, PastGrants, Querying, Joining
<1>4. ASSUME FinishGrants(t) \/ RunQuery(t) \/ GiveUp(t) \/ UploadResult(t) PROVE StaysInGrants(t)
    <2>1. /\ PastGrants(t) \/ (at[t] = "grant" /\ col[t] \notin DOMAIN Req[t].columns)
          /\ at'[t] \in Querying \cup {"granted", "exhausted", "uploaded", "failed"}
          /\ UNCHANGED <<col, per>>
        BY <1>4 DEF FinishGrants, RunQuery, GiveUp, UploadResult, WriteFile, Reply, Goto, TypeOK,
                    localVars, PastGrants, Querying
    <2> QED
        BY <2>1 DEF StaysInGrants, PastTable, PastGrants, Querying, Preparing, Joining, Configuring
<1>5. ASSUME CreateTable(t), at'[t] # "grant" PROVE StaysInGrants(t)
    <2>1. at[t] = "table" /\ at'[t] = "table" /\ UNCHANGED <<col, per>>
        BY <1>5 DEF CreateTable, Reply, Goto, TypeOK, localVars
    <2> QED
        BY <2>1 DEF StaysInGrants, PastTable, PastGrants, Querying
<1> QED
    BY <1>1, <1>2, <1>3, <1>4, <1>5 DEF Step

LEMMA GrantNext ==
    ASSUME SerialSubmit, TypeOK, ColumnInv, SerialInv, [Next]_vars,
           NEW t \in Task, UpInv(t), GrantInv(t)
    PROVE  GrantInv(t)'
<1> DEFINE p == Req[t].user
           i == col[t]
           c == Req[t].columns
<1>c. p \in Party /\ DOMAIN c \subseteq Nat \ {0}
    BY RequestTypes, ColumnNumbers
<1>1. CASE CreateTable(t) /\ at'[t] = "grant"
    <2>1. at[t] = "table" /\ i = 1 /\ per[t] = 1 /\ UNCHANGED <<col, per>>
        BY <1>1 DEF CreateTable, localVars, GrantInv
    <2>2. vtable'[p] # {} \/ DOMAIN c = {}
        <3>1. CASE vtable[p] # {}
            BY <1>c, <3>1, CatalogStep
        <3>2. CASE vtable[p] = {}
            <4>1. vtable'[p] = TableColumns(t)
                BY <1>1, <1>c, <3>2 DEF CreateTable, BrokerCreateTable, TypeOK, BrokerTypeOK
            <4> QED
                BY <4>1 DEF TableColumns
        <3> QED
            BY <3>1, <3>2
    <2>3. Skipped(t)' = {}
        <3>1. \A k \in DOMAIN c : ~(k < 1)
            BY <1>c
        <3> QED
            BY <1>1, <2>1, <3>1 DEF Skipped
    <2>4. Cardinality(Skipped(t)') <= faults'
        <3>1. faults' \in Nat
            BY FaultStep, TaskAssumption DEF TypeOK, Fault
        <3> QED
            BY <2>3, <3>1, FS_EmptySet
    <2> QED
        BY ONLY <1>1, <2>1, <2>2, <2>4
           DEF GrantInv, PastTable, PastGrants, Querying, Configuring, Preparing, Joining, TableColumns
<1> DEFINE Open == at[t] \in {"grant", "permit"} /\ i \in DOMAIN c /\ i \in Nat \ {0} /\ per[t] \in Nat \ {0}
           Kept == Cardinality(Skipped(t)) <= faults /\ Grantable(p, c[i].name)
\* the open column: what follows from the invariant, and what is left to show
<1>2. ASSUME Open, TableColumns(t) \subseteq vtable'[p] PROVE Kept
    <2>1. TableColumns(t) \subseteq vtable[p]
        BY <1>2, ColumnsKept DEF GrantInv, PastTable
    <2>2. Cardinality(Skipped(t)) <= faults
        BY <1>2, <2>1 DEF GrantInv, PastTable
    <2>3. Grantable(p, c[i].name)
        BY <1>2, <2>1 DEF Grantable, TableColumns, UpInv, Granting
    <2> QED
        BY <2>2, <2>3
<1>3. ASSUME Open, at'[t] \in {"grant", "permit"},
             col'[t] \in Nat \ {0}, per'[t] \in Nat \ {0}, at'[t] = "grant" => per'[t] = 1,
             Kept => \/ Skipped(t)' \subseteq Skipped(t)
                     \/ Fault /\ Skipped(t)' \subseteq Skipped(t) \cup {i}
      PROVE  GrantInv(t)'
    <2>1. vtable'[p] # {} \/ DOMAIN c = {}
        BY <1>3, ColumnsKept DEF GrantInv, PastTable
    <2>2. TableColumns(t) \subseteq vtable'[p] => Cardinality(Skipped(t)') <= faults'
        BY <1>2, <1>3, SkippedStep
    <2> QED
        BY ONLY <1>3, <2>1, <2>2
           DEF GrantInv, PastTable, PastGrants, Querying, Configuring, Preparing, Joining, TableColumns
<1>4. CASE GrantSelf(t)
    <2>1. Open /\ at[t] = "grant" /\ per[t] = 1
        BY <1>4, <1>c DEF GrantSelf, GrantInv
    <2>2. CASE Goto(t, "permit") /\ BrokerGrant({OwnGrant(t, i)}) /\ UNCHANGED <<col, per>>
        <3>1. at'[t] = "permit" /\ OwnGrant(t, i) \in ccl' /\ ccl \subseteq ccl'
            BY <2>2 DEF Goto, TypeOK, BrokerGrant
        <3>2. \A j \in Supported(t, i) : ~(j < 1)
            BY <2>1, ColumnNumbers
        <3>3. Granted(t, i)'
            BY <2>1, <2>2, <3>1, <3>2 DEF Granted
        <3>4. Skipped(t)' \subseteq Skipped(t)
            BY <2>2, <3>1, <3>3 DEF Skipped
        <3> QED
            BY <1>3, <2>1, <2>2, <3>1, <3>4
    <2>3. CASE NextColumn(t) /\ Fault
        <3>1. at'[t] = "grant" /\ col'[t] = i + 1 /\ per'[t] = 1
            BY <2>3 DEF NextColumn, Goto, TypeOK
        <3>2. \A k \in DOMAIN c : k < i + 1 => k < i \/ k = i
            BY <1>c, <2>1
        <3>3. Skipped(t)' \subseteq Skipped(t) \cup {i}
            BY <3>1, <3>2, CatalogStep DEF Skipped
        <3>4. col'[t] \in Nat \ {0}
            BY <2>1, <3>1
        <3> QED
            BY <1>3, <2>1, <2>3, <3>1, <3>3, <3>4
    <2>4. CASE ~Grantable(p, c[i].name) /\ NextColumn(t)
        <3>1. at'[t] = "grant" /\ col'[t] = i + 1 /\ per'[t] = 1
            BY <2>4 DEF NextColumn, Goto, TypeOK
        <3>2. col'[t] \in Nat \ {0}
            BY <2>1, <3>1
        <3> QED
            BY <1>3, <2>1, <2>4, <3>1, <3>2
    <2> QED
        BY <1>4, <2>2, <2>3, <2>4 DEF GrantSelf
<1>5. CASE GrantPermission(t)
    <2> DEFINE j == per[t]
    <2>1. Open /\ at[t] = "permit" /\ at'[t] = "permit" /\ UNCHANGED col /\ j \in Nat \ {0}
        BY <1>5, <1>c DEF GrantPermission, ColumnInv, GrantInv
    <2>2. per'[t] = j + 1
        BY <1>5 DEF GrantPermission, TypeOK
    <2>3. per'[t] \in Nat \ {0}
        BY <2>1, <2>2
    <2>4. \A k \in Supported(t, i) : k < j + 1 => k < j \/ k = j
        BY <2>1, ColumnNumbers
    <2>5. CASE j \in Supported(t, i) /\ Fault
        <3>1. Skipped(t)' \subseteq Skipped(t) \cup {i}
            BY <2>1, CatalogStep DEF Skipped
        <3> QED
            BY <1>3, <2>1, <2>2, <2>3, <2>5, <3>1
    <2>6. CASE \/ j \notin Supported(t, i)
               \/ BrokerGrant({PermissionGrant(t, i, j)})
        <3>1. j \in Supported(t, i) => PermissionGrant(t, i, j) \in ccl'
            BY <2>6 DEF BrokerGrant
        <3>2. Granted(t, i) => Granted(t, i)'
            BY <2>1, <2>2, <2>4, <3>1, CatalogStep DEF Granted
        <3>3. Skipped(t)' \subseteq Skipped(t)
            BY <2>1, <3>2, CatalogStep DEF Skipped
        <3> QED
            BY <1>3, <2>1, <2>2, <2>3, <3>3
    <2>7. CASE ~Grantable(p, c[i].name)
        BY <1>3, <2>1, <2>3, <2>7
    <2> QED
        BY <1>5, <2>5, <2>6, <2>7 DEF GrantPermission
<1>6. CASE FinishColumn(t)
    <2>1. Open /\ at[t] = "permit"
        BY <1>6, <1>c DEF FinishColumn, ColumnInv, GrantInv
    <2>2. at'[t] = "grant" /\ col'[t] = i + 1 /\ per'[t] = 1 /\ UNCHANGED ccl
        BY <1>6 DEF FinishColumn, NextColumn, Goto, TypeOK, brokerVars
    <2>3. \A j \in Supported(t, i) : j < per[t]
        BY <1>6, <2>1, ColumnNumbers DEF FinishColumn
    <2>4. Granted(t, i) => ColumnGrants(t, i) \subseteq ccl
        BY <2>3 DEF Granted, ColumnGrants
    <2>5. \A k \in DOMAIN c : k < i + 1 => k < i \/ k = i
        BY <1>c, <2>1
    <2>6. Skipped(t)' \subseteq Skipped(t)
        BY <2>1, <2>2, <2>4, <2>5 DEF Skipped
    <2>7. col'[t] \in Nat \ {0}
        BY <2>1, <2>2
    <2> QED
        BY <1>3, <2>1, <2>2, <2>6, <2>7
<1> HIDE DEF p, i, c, Open, Kept
<1> QED
    BY <1>1, <1>4, <1>5, <1>6, OtherStays, StaysKeepsGrants

\* In a container that gets one task at a time, a task that reports "grantCCL ok"
\* has made every grant of its request that the broker supports, up to one column
\* for each call that was lost, provided the registered table has its columns:
\* the broker is never away while it grants, an unsupported permission costs
\* no other one, and a fault before the grants costs no column.
\* (task.go, lines 289-302)
THEOREM GrantsAreComplete ==
    ASSUME SerialSubmit PROVE Spec => []GrantsCompleteUpToFaults
<1> DEFINE Inv == /\ TypeOK /\ ColumnInv /\ SerialInv
                  /\ \A t \in Task : UpInv(t) /\ GrantInv(t)
<1>1. ASSUME Init PROVE Inv
    <2>1. \A t \in Task : UpInv(t) /\ GrantInv(t)
        BY <1>1 DEF Init, UpInv, GrantInv, PastTable, PastGrants, Joining, Granting, Querying
    <2> QED
        BY <1>1, <2>1, SerialDataInit DEF SerialDataInv
<1>2. ASSUME Inv, [Next]_vars PROVE Inv'
    <2>1. TypeOK' /\ ColumnInv' /\ SerialInv'
        BY <1>2, TypeNext, ColumnNext, SerialNext
    <2>2. ASSUME NEW t \in Task PROVE UpInv(t)' /\ GrantInv(t)'
        BY <1>2, UpNext, GrantNext
    <2> QED
        BY <2>1, <2>2
<1>3. ASSUME Inv PROVE GrantsCompleteUpToFaults
    <2> SUFFICES ASSUME NEW t \in Task, PastGrants(t), TableColumns(t) \subseteq vtable[Req[t].user]
                 PROVE  Cardinality(IncompleteColumns(t)) <= faults
        BY DEF GrantsCompleteUpToFaults
    <2>1. /\ col[t] \in Nat \ {0} /\ col[t] \notin DOMAIN Req[t].columns
          /\ Cardinality(Skipped(t)) <= faults
        BY <1>3 DEF GrantInv, PastTable
    <2>2. \A i \in DOMAIN Req[t].columns : i < col[t]
        BY <2>1, ColumnNumbers
    <2>3. at[t] # "permit"
        BY DEF PastGrants, Querying
    <2>4. Skipped(t) = IncompleteColumns(t)
        BY <2>2, <2>3 DEF Skipped, IncompleteColumns
    <2> QED
        BY <2>1, <2>4
<1> QED
    BY <1>1, <1>2, <1>3, PTL DEF Spec

----------------------------------------------------------------------------
(***************************************************************************)
(* Queries whose results have one length                                    *)
(***************************************************************************)
FileLengthInv ==
    \A t \in Task : Initiator(t) => Len(resfile[Req[t].user]) <= Req[t].size

WholeFileInv(t) ==
    /\ at[t] = "result" => resfile[Req[t].user] = OwnResult(t)
    /\ at[t] = "uploaded" => uploaded[t] = OwnResult(t)

\* A file that is not longer than the new text is replaced as a whole.
LEMMA RenderedWhole ==
    ASSUME NEW t \in Task, NEW old \in Seq(Task), Len(old) <= Req[t].size
    PROVE  Rendered(t, old) = OwnResult(t) /\ Len(Rendered(t, old)) = Req[t].size
<1> DEFINE n == Req[t].size
<1>1. n \in Nat
    BY TaskAssumption DEF Request
<1> HIDE DEF n
<1>2. (IF n > Len(old) THEN n ELSE Len(old)) = n
    BY <1>1 DEF n
<1>3. Rendered(t, old) = [i \in 1..n |-> IF i <= n THEN t ELSE old[i]]
    BY <1>2 DEF Rendered, n
<1>4. Rendered(t, old) = [i \in 1..n |-> t]
    BY <1>1, <1>3
<1> QED
    BY <1>1, <1>4 DEF OwnResult, n

LEMMA FileLengthNext ==
    ASSUME TypeOK, QueryInv, FileLengthInv, [Next]_vars,
           \A s, t \in Task : Initiator(s) /\ Initiator(t) /\ Req[s].user = Req[t].user
                                => Req[s].size = Req[t].size
    PROVE  FileLengthInv'
<1> SUFFICES ASSUME NEW t \in Task, Initiator(t) PROVE Len(resfile'[Req[t].user]) <= Req[t].size
    BY DEF FileLengthInv, Initiator
<1> DEFINE p == Req[t].user
<1>1. p \in Party /\ resfile[p] \in Seq(Task) /\ Req[t].size \in Nat
    BY RequestTypes, TaskAssumption DEF TypeOK, Request
<1>2. CASE resfile'[p] = resfile[p]
    BY <1>2 DEF FileLengthInv
<1>3. ASSUME NEW s \in Task, RunQuery(s), Req[s].user = p, resfile'[p] = Rendered(s, resfile[p])
      PROVE  Len(resfile'[p]) <= Req[t].size
    <2>1. Initiator(s)
        BY <1>3 DEF RunQuery, QueryInv, Querying
    <2>2. Req[s].size = Req[t].size /\ Len(resfile[p]) <= Req[s].size
        BY <1>3, <2>1 DEF FileLengthInv
    <2> QED
        BY <1>1, <1>3, <2>2, RenderedWhole
<1> QED
    BY <1>1, <1>2, <1>3, ResultFileStep

LEMMA WholeFileNext ==
    ASSUME SerialSubmit, TypeOK, SerialInv, QueryInv, FileLengthInv, [Next]_vars,
           NEW t \in Task, WholeFileInv(t)
    PROVE  WholeFileInv(t)'
<1> DEFINE p == Req[t].user
<1>0. p \in Party /\ resfile[p] \in Seq(Task)
    BY RequestTypes DEF TypeOK
<1>1. ASSUME at'[t] = "result" PROVE resfile'[p] = OwnResult(t)
    <2>1. CASE ~Submit(t) /\ ~Step(t)
        <3>1. at[t] = "result" /\ at[t] \in Running
            BY <1>1, <2>1, Frame DEF Running, Querying
        <3> QED
            BY <2>1, <3>1, Frame DEF WholeFileInv
    <2>2. CASE RunQuery(t)
        <3>1. at[t] = "query" /\ Initiator(t)
            BY <2>2 DEF RunQuery, QueryInv, Querying
        <3>2. resfile' = [resfile EXCEPT ![p] = Rendered(t, @)]
            BY <1>1, <2>2, <3>1 DEF RunQuery
        <3>3. Rendered(t, resfile[p]) = OwnResult(t)
            BY <1>0, <3>1, RenderedWhole DEF FileLengthInv
        <3> QED
            BY <1>0, <3>2, <3>3 DEF TypeOK
    <2>3. CASE Submit(t) \/ (Step(t) /\ ~RunQuery(t))
        <3>1. CASE UploadResult(t)
            BY <1>1, <3>1 DEF UploadResult, WriteFile, Reply, Goto, TypeOK
        <3>2. CASE at'[t] = at[t] /\ ~UploadResult(t)
            BY <1>1, <2>3, <3>2
               DEF Submit, Step, ReadConfig, TruncateConfig, WriteConfig, RestartBroker,
                   WaitMysql, Download, StoreData, ReadHeader, DropTable, CreateMysqlTable,
                   ClearTable, LoadData, WaitPorts, Statement, CreateProject, InviteMember,
                   AwaitJoined, JoinProject, CreateTable, GrantSelf, GrantPermission,
                   FinishColumn, FinishGrants, GiveUp, dataVars
        <3>3. at'[t] \in Querying \cup {"uploaded"}
            BY <1>1 DEF Querying
        <3>4. ~RunQuery(t)
            BY <2>3 DEF Submit, RunQuery, dataVars
        <3> QED
            BY ONLY <1>1, <3>1, <3>2, <3>3, <3>4, QueryStep, TypeOK, [Next]_vars, t \in Task
    <2> QED
        BY <2>1, <2>2, <2>3 DEF Step
<1>2. ASSUME at'[t] = "uploaded" PROVE uploaded'[t] = OwnResult(t)
    <2>1. CASE at'[t] = at[t] /\ uploaded'[t] = uploaded[t]
        BY <1>2, <2>1 DEF WholeFileInv
    <2>2. CASE FinishGrants(t) \/ RunQuery(t)
        BY <1>2, <2>2 DEF FinishGrants, RunQuery, Goto, TypeOK
    <2>3. CASE UploadResult(t)
        BY <1>2, <2>3 DEF UploadResult, WriteFile, Reply, Goto, TypeOK, WholeFileInv
    <2> QED
        BY <1>2, <2>1, <2>2, <2>3, QueryStep
<1>3. OwnResult(t)' = OwnResult(t)
    BY DEF OwnResult
<1> QED
    BY ONLY <1>1, <1>2, <1>3 DEF WholeFileInv

\* In a container that gets one task at a time, what is uploaded is the result of
\* the task's own query and nothing else when all queries of the container have
\* results of one length: what an older result leaves in the file is its excess
\* length and nothing else.  (broker_util.go runQuery)
THEOREM SameLengthUploadsOwn ==
    ASSUME SerialSubmit,
           \A s, t \in Task : Initiator(s) /\ Initiator(t) /\ Req[s].user = Req[t].user
                                => Req[s].size = Req[t].size
    PROVE  Spec => []UploadIsOwnResult
<1> DEFINE Inv == /\ TypeOK /\ ColumnInv /\ SerialInv /\ QueryInv /\ FileLengthInv
                  /\ \A t \in Task : WholeFileInv(t)
<1>1. ASSUME Init PROVE Inv
    <2>1. QueryInv /\ \A t \in Task : WholeFileInv(t)
        BY <1>1 DEF Init, QueryInv, WholeFileInv, Querying
    <2>2. FileLengthInv
        <3>1. \A t \in Task : Req[t].size \in Nat /\ resfile[Req[t].user] = <<>>
            BY <1>1, RequestTypes, TaskAssumption DEF Init, Request
        <3> QED
            BY <3>1 DEF FileLengthInv
    <2> QED
        BY <1>1, <2>1, <2>2, SerialDataInit DEF SerialDataInv
<1>2. ASSUME Inv, [Next]_vars PROVE Inv'
    <2>1. TypeOK' /\ ColumnInv' /\ SerialInv' /\ QueryInv'
        BY <1>2, TypeNext, ColumnNext, SerialNext, QueryNext
    <2>2. FileLengthInv'
        BY <1>2, FileLengthNext
    <2>3. ASSUME NEW t \in Task PROVE WholeFileInv(t)'
        BY <1>2, WholeFileNext
    <2> QED
        BY <2>1, <2>2, <2>3
<1>3. Inv => UploadIsOwnResult
    BY DEF WholeFileInv, UploadIsOwnResult
<1> QED
    BY <1>1, <1>2, <1>3, PTL DEF Spec

----------------------------------------------------------------------------
(***************************************************************************)
(* The configuration                                                        *)
(*                                                                          *)
(* While a file is truncated, its content is in the memory of the task that *)
(* is about to write it back: a container holds a content when either has   *)
(* it.  Settings, once held, are held forever.                              *)
(***************************************************************************)
Writes(t, p, f) == Req[t].user = p /\ at[t] = "write" /\ file[t] = f

Held(p, f, c) == conf[p][f] = c \/ \E t \in Task : Writes(t, p, f) /\ text[t] = c

\* what a task knows of the file it is at
ReaderInv(t) ==
    LET p == Req[t].user
        f == file[t]
    IN
    /\ at[t] = "new" => f = "config.yml"
    /\ at[t] = "truncate" => text[t] = conf[p][f]
    /\ at[t] = "write" => conf[p][f] = Blank /\ text[t] # Blank

Keeps(c) == c \notin {Template, Blank, Spoilt}

LEMMA SettingsKeep ==
    ASSUME NEW t \in Task, NEW f \in File
    PROVE  Keeps(Settings(t, f)) /\ Settings(t, f) \in Text
BY RequestTypes, LinkAssumption DEF Keeps, Text

\* Only the three configuring steps touch the files, or what is known of them.
LEMMA ConfigFrame ==
    ASSUME TypeOK, [Next]_vars,
           \A t \in Task : ~ReadConfig(t) /\ ~TruncateConfig(t) /\ ~WriteConfig(t)
    PROVE  UNCHANGED <<conf, file, text>>
<1>1. CASE UNCHANGED vars
    BY <1>1 DEF vars, taskVars, brokerVars
<1>2. ASSUME NEW t \in Task,
             \/ Submit(t) \/ RestartBroker(t) \/ WaitMysql(t) \/ Download(t)
             \/ StoreData(t) \/ ReadHeader(t) \/ DropTable(t) \/ CreateMysqlTable(t)
             \/ ClearTable(t) \/ LoadData(t) \/ WaitPorts(t)
      PROVE  UNCHANGED <<conf, file, text>>
    BY <1>2 DEF Submit, RestartBroker, StopBroker, WaitMysql, Download, StoreData, ReadHeader,
                DropTable, CreateMysqlTable, ClearTable, LoadData, WaitPorts, Statement, brokerVars
<1>3. ASSUME NEW t \in Task,
             \/ CreateProject(t) \/ InviteMember(t) \/ AwaitJoined(t) \/ JoinProject(t)
             \/ CreateTable(t) \/ GrantSelf(t) \/ GrantPermission(t) \/ FinishColumn(t)
             \/ FinishGrants(t) \/ RunQuery(t) \/ GiveUp(t) \/ UploadResult(t)
      PROVE  UNCHANGED <<conf, file, text>>
    BY <1>3 DEF CreateProject, BrokerCreateProject, InviteMember, BrokerInvite, AwaitJoined,
                JoinProject, BrokerAccept, CreateTable, BrokerCreateTable, GrantSelf,
                GrantPermission, FinishColumn, BrokerGrant, FinishGrants, RunQuery, GiveUp,
                UploadResult, localVars, brokerVars
<1>4. ASSUME NEW p \in Party, MysqlReady(p) \/ BrokerStart(p) PROVE UNCHANGED <<conf, file, text>>
    BY <1>4, ServiceStep
<1> QED
    BY <1>1, <1>2, <1>3, <1>4 DEF Next, Step

\* A task in the middle of its configuration stays there through the steps of
\* others: nobody kills it.
LEMMA ConfiguringStays ==
    ASSUME SerialSubmit, TypeOK, SerialInv, [Next]_vars, NEW t \in Task, at[t] \in Configuring,
           ~ReadConfig(t), ~TruncateConfig(t), ~WriteConfig(t)
    PROVE  at'[t] = at[t]
<1>1. ~Submit(t) /\ ~Step(t)
    BY DEF Configuring, Submit, Step, RestartBroker, WaitMysql, Download, StoreData, ReadHeader,
           DropTable, CreateMysqlTable, ClearTable, LoadData, WaitPorts, Statement, CreateProject,
           InviteMember, AwaitJoined, JoinProject, CreateTable, GrantSelf, GrantPermission,
           FinishColumn, FinishGrants, RunQuery, GiveUp, UploadResult
<1> QED
    BY <1>1, Frame

\* Writing one file leaves the others alone.
LEMMA OneFile ==
    ASSUME BrokerTypeOK, NEW p \in Party, NEW f \in File, NEW new, conf' = [conf EXCEPT ![p][f] = new]
    PROVE  /\ conf'[p][f] = new
           /\ \A q \in Party, g \in File : ~(q = p /\ g = f) => conf'[q][g] = conf[q][g]
<1>1. conf \in [Party -> [File -> Text]] /\ conf[p] \in [File -> Text]
    BY DEF BrokerTypeOK
<1>2. conf' = [conf EXCEPT ![p] = [conf[p] EXCEPT ![f] = new]]
    OBVIOUS
<1>3. conf'[p] = [conf[p] EXCEPT ![f] = new] /\ \A q \in Party \ {p} : conf'[q] = conf[q]
    BY <1>1, <1>2
<1>4. conf'[p][f] = new /\ \A g \in File \ {f} : conf'[p][g] = conf[p][g]
    BY <1>1, <1>3
<1> QED
    BY <1>3, <1>4

\* The three steps, seen from the container.
LEMMA ConfiguringStep ==
    ASSUME TypeOK, NEW t \in Task, ReadConfig(t) \/ TruncateConfig(t) \/ WriteConfig(t)
    PROVE  /\ at[t] \in Configuring /\ at[t] \in Running /\ Step(t)
           /\ \A s \in Task \ {t} : at'[s] = at[s] /\ file'[s] = file[s] /\ text'[s] = text[s]
           /\ \A p \in Party, f \in File :
                  ~(p = Req[t].user /\ f = file[t]) => conf'[p][f] = conf[p][f]
<1>1. at[t] \in Configuring /\ at[t] \in Running
    BY DEF ReadConfig, TruncateConfig, WriteConfig, Configuring, Running
<1>2. \A s \in Task \ {t} : at'[s] = at[s] /\ file'[s] = file[s] /\ text'[s] = text[s]
    BY DEF ReadConfig, TruncateConfig, WriteConfig, Goto, TypeOK
<1>3. \A p \in Party, f \in File : ~(p = Req[t].user /\ f = file[t]) => conf'[p][f] = conf[p][f]
    <2>1. CASE ReadConfig(t)
        BY <2>1 DEF ReadConfig, brokerVars
    <2>2. CASE TruncateConfig(t) \/ WriteConfig(t)
        <3>1. PICK new : conf' = [conf EXCEPT ![Req[t].user][file[t]] = new]
            BY <2>2 DEF TruncateConfig, WriteConfig
        <3> QED
            BY <3>1, OneFile, RequestTypes DEF TypeOK
    <2> QED
        BY <2>1, <2>2
<1> QED
    BY <1>1, <1>2, <1>3 DEF Step

LEMMA ReadStep ==
    ASSUME TypeOK, NEW t \in Task, ReadConfig(t)
    PROVE  /\ at[t] = "read" /\ at'[t] = "truncate" /\ UNCHANGED <<conf, file>>
           /\ text'[t] = conf[Req[t].user][file[t]]
BY DEF ReadConfig, Goto, TypeOK, brokerVars

LEMMA TruncateStep ==
    ASSUME TypeOK, NEW t \in Task, TruncateConfig(t)
    PROVE  /\ at[t] = "truncate" /\ at'[t] = "write" /\ UNCHANGED <<text, file>>
           /\ conf'[Req[t].user][file[t]] = Blank
<1>1. conf' = [conf EXCEPT ![Req[t].user][file[t]] = Blank] /\ Req[t].user \in Party /\ file[t] \in File
    BY RequestTypes DEF TruncateConfig, TypeOK
<1>2. conf'[Req[t].user][file[t]] = Blank
    BY <1>1 DEF TypeOK, BrokerTypeOK
<1> QED
    BY <1>2 DEF TruncateConfig, Goto, TypeOK

\* A task that writes alone leaves the whole new text.
LEMMA WriteStep ==
    ASSUME TypeOK, NEW t \in Task, WriteConfig(t), conf[Req[t].user][file[t]] = Blank, text[t] # Blank
    PROVE  /\ at[t] = "write" /\ at'[t] = (IF file[t] = "config.yml" THEN "read" ELSE "restart")
           /\ file'[t] = "party_info.json"
           /\ conf'[Req[t].user][file[t]] = Replaced(text[t], Settings(t, file[t]))
<1> DEFINE p == Req[t].user
           f == file[t]
           c == Replaced(text[t], Settings(t, f))
<1>1. p \in Party /\ f \in File
    BY RequestTypes DEF TypeOK
<1>2. c # Blank
    BY <1>1, SettingsKeep DEF Replaced, Keeps
<1>3. Overwritten(conf[p][f], c) = {c}
    BY <1>2 DEF Overwritten
<1>4. conf' = [conf EXCEPT ![p][f] = c]
    BY <1>3 DEF WriteConfig
<1>5. conf'[p][f] = c
    BY <1>1, <1>4 DEF TypeOK, BrokerTypeOK
<1> HIDE DEF c
<1> QED
    BY <1>5 DEF WriteConfig, Goto, TypeOK, c

\* Where a task comes from that has not been submitted or is configuring.
LEMMA ConfigPlace ==
    ASSUME SerialSubmit, TypeOK, SerialInv, [Next]_vars, NEW t \in Task,
           ~ReadConfig(t), ~TruncateConfig(t), ~WriteConfig(t), at'[t] \in {"new"} \cup Configuring
    PROVE  at'[t] = at[t] \/ (at[t] = "new" /\ at'[t] = "read")
<1> USE DEF Configuring
<1>1. CASE ~Submit(t) /\ ~Step(t)
    BY <1>1, Frame
<1>2. CASE Submit(t)
    BY <1>2 DEF Submit, Goto, TypeOK
<1>3. ASSUME \/ RestartBroker(t) \/ WaitMysql(t) \/ Download(t) \/ StoreData(t) \/ ReadHeader(t)
             \/ DropTable(t) \/ CreateMysqlTable(t) \/ ClearTable(t) \/ LoadData(t) \/ WaitPorts(t)
      PROVE  FALSE
    BY <1>3 DEF RestartBroker, WaitMysql, Download, ReadFile, Reply, StoreData, ReadHeader, Kill,
                DropTable, CreateMysqlTable, ClearTable, LoadData, WaitPorts, Statement, Goto,
                TypeOK, Running
<1>4. ASSUME \/ CreateProject(t) \/ InviteMember(t) \/ AwaitJoined(t) \/ JoinProject(t)
             \/ CreateTable(t) \/ GrantSelf(t) \/ GrantPermission(t) \/ FinishColumn(t)
             \/ FinishGrants(t) \/ RunQuery(t) \/ GiveUp(t) \/ UploadResult(t)
      PROVE  at'[t] = at[t]
    BY <1>4 DEF CreateProject, InviteMember, AwaitJoined, JoinProject, CreateTable, GrantSelf,
                GrantPermission, FinishColumn, NextColumn, FinishGrants, RunQuery, GiveUp,
                UploadResult, WriteFile, Reply, Goto, TypeOK
<1> QED
    BY <1>1, <1>2, <1>3, <1>4 DEF Step

\* What a task that configures does not lose to others.
LEMMA OwnConfig ==
    ASSUME SerialSubmit, TypeOK, SerialInv, [Next]_vars, NEW t \in Task,
           ~ReadConfig(t), ~TruncateConfig(t), ~WriteConfig(t)
    PROVE  /\ file'[t] = file[t] /\ text'[t] = text[t]
           /\ at[t] \in Configuring => /\ at'[t] = at[t]
                                       /\ conf'[Req[t].user][file[t]] = conf[Req[t].user][file[t]]
<1>1. CASE \A s \in Task : ~ReadConfig(s) /\ ~TruncateConfig(s) /\ ~WriteConfig(s)
    BY <1>1, ConfigFrame, ConfiguringStays
<1>2. ASSUME NEW s \in Task \ {t}, ReadConfig(s) \/ TruncateConfig(s) \/ WriteConfig(s)
      PROVE  /\ file'[t] = file[t] /\ text'[t] = text[t]
             /\ at[t] \in Configuring => /\ at'[t] = at[t]
                                         /\ conf'[Req[t].user][file[t]] = conf[Req[t].user][file[t]]
    <2>1. at[t] \in Configuring => Req[s].user # Req[t].user
        BY <1>2, ConfiguringStep DEF SerialInv, Running
    <2>2. Req[t].user \in Party /\ file[t] \in File
        BY RequestTypes DEF TypeOK
    <2> QED
        BY <1>2, <2>1, <2>2, ConfiguringStep
<1> QED
    BY <1>1, <1>2

LEMMA ReaderNext ==
    ASSUME SerialSubmit, TypeOK, SerialInv, [Next]_vars, NEW t \in Task, ReaderInv(t),
           \A f \in File : \E c : c # Blank /\ Held(Req[t].user, f, c)
    PROVE  ReaderInv(t)'
<1> DEFINE p == Req[t].user
           f == file[t]
<1>0. p \in Party /\ f \in File
    BY RequestTypes DEF TypeOK
<1>1. CASE ReadConfig(t)
    BY <1>1, ReadStep DEF ReaderInv
<1>2. CASE TruncateConfig(t)
    <2>1. /\ at[t] = "truncate" /\ at'[t] = "write" /\ UNCHANGED <<text, file>>
          /\ conf'[p][f] = Blank /\ text[t] = conf[p][f]
        BY <1>2, TruncateStep DEF ReaderInv
    <2>2. ASSUME NEW s \in Task, Writes(s, p, f) PROVE FALSE
        BY <2>1, <2>2 DEF Writes, SerialInv, Running, Configuring
    <2>3. conf[p][f] # Blank
        BY <1>0, <2>2 DEF Held
    <2> QED
        BY <2>1, <2>3 DEF ReaderInv
<1>3. CASE WriteConfig(t)
    BY <1>3, WriteStep DEF ReaderInv, WriteConfig
<1>4. CASE ~ReadConfig(t) /\ ~TruncateConfig(t) /\ ~WriteConfig(t)
    <2>1. at'[t] \in {"new", "truncate", "write"} => at'[t] = at[t]
        BY <1>4, ConfigPlace DEF Configuring
    <2> QED
        BY <1>4, <2>1, OwnConfig DEF ReaderInv, Configuring
<1> QED
    BY <1>1, <1>2, <1>3, <1>4

\* A content that a container holds, it holds until a task writes that file ...
LEMMA HeldKept ==
    ASSUME SerialSubmit, TypeOK, SerialInv, \A t \in Task : ReaderInv(t), [Next]_vars,
           NEW p \in Party, NEW f \in File, NEW c, Held(p, f, c),
           \A t \in Task : ~(WriteConfig(t) /\ Writes(t, p, f))
    PROVE  Held(p, f, c)'
<1>1. CASE conf[p][f] = c
    <2>1. CASE \A s \in Task : ~ReadConfig(s) /\ ~TruncateConfig(s) /\ ~WriteConfig(s)
        BY <1>1, <2>1, ConfigFrame DEF Held
    <2>2. ASSUME NEW s \in Task, ReadConfig(s) \/ TruncateConfig(s) \/ WriteConfig(s)
          PROVE  Held(p, f, c)'
        <3>1. CASE ~(p = Req[s].user /\ f = file[s])
            BY <1>1, <2>2, <3>1, ConfiguringStep DEF Held
        <3>2. CASE ReadConfig(s)
            BY <1>1, <3>2, ReadStep DEF Held
        <3>3. CASE TruncateConfig(s) /\ p = Req[s].user /\ f = file[s]
            <4>1. text[s] = c
                BY <1>1, <3>3, TruncateStep DEF ReaderInv
            <4> QED
                BY <3>3, <4>1, TruncateStep DEF Held, Writes
        <3>4. CASE WriteConfig(s) /\ p = Req[s].user /\ f = file[s]
            BY <3>4 DEF WriteConfig, Writes
        <3> QED
            BY <2>2, <3>1, <3>2, <3>3, <3>4
    <2> QED
        BY <2>1, <2>2
<1>2. ASSUME NEW t \in Task, Writes(t, p, f), text[t] = c PROVE Held(p, f, c)'
    <2>1. ~ReadConfig(t) /\ ~TruncateConfig(t) /\ ~WriteConfig(t)
        BY <1>2 DEF ReadConfig, TruncateConfig, Writes
    <2>2. at'[t] = at[t] /\ file'[t] = file[t] /\ text'[t] = text[t]
        BY <1>2, <2>1, OwnConfig DEF Writes, Configuring
    <2> QED
        BY <1>2, <2>2 DEF Held, Writes
<1> QED
    BY <1>1, <1>2 DEF Held

\* ... which then replaces its placeholders.
LEMMA HeldWritten ==
    ASSUME TypeOK, SerialInv, NEW t \in Task, ReaderInv(t), WriteConfig(t),
           NEW p, NEW f, Writes(t, p, f), NEW c, c # Blank, Held(p, f, c)
    PROVE  Held(p, f, Replaced(c, Settings(t, f)))'
<1>1. at[t] = "write" /\ conf[p][f] = Blank /\ text[t] # Blank /\ p = Req[t].user /\ f = file[t]
    BY DEF WriteConfig, ReaderInv, Writes
<1>2. text[t] = c
    BY <1>1 DEF Held, Writes, SerialInv, Running, Configuring
<1>3. conf'[p][f] = Replaced(c, Settings(t, f))
    BY <1>1, <1>2, WriteStep
<1> QED
    BY <1>3 DEF Held, Settings, Replaced

\* one content at a time
LEMMA HeldOnce ==
    ASSUME SerialInv, \A t \in Task : ReaderInv(t), NEW p, NEW f,
           NEW c, NEW d, c # Blank, d # Blank, Held(p, f, c), Held(p, f, d)
    PROVE  c = d
BY DEF Held, Writes, ReaderInv, SerialInv, Running, Configuring

LEMMA HeldForever ==
    ASSUME SerialSubmit, TypeOK, SerialInv, \A t \in Task : ReaderInv(t), [Next]_vars,
           NEW p \in Party, NEW f \in File, NEW c, Keeps(c), Held(p, f, c)
    PROVE  Held(p, f, c)'
<1>1. ASSUME NEW t \in Task, WriteConfig(t), Writes(t, p, f) PROVE Held(p, f, c)'
    <2> DEFINE d == Replaced(c, Settings(t, f))
    <2>1. c # Blank /\ d = c
        BY DEF Keeps, Replaced
    <2>2. Held(p, f, d)'
        BY <1>1, <2>1, HeldWritten
    <2> HIDE DEF d
    <2> QED
        BY <2>1, <2>2 DEF Held
<1> QED
    BY <1>1, HeldKept

----------------------------------------------------------------------------
\* No task has written a file yet, one is between the two, or both files have the
\* settings of one request.
Fresh(p) ==
    /\ \A f \in File : Held(p, f, Template)
    /\ \A t \in Task : Req[t].user = p /\ at[t] \in Running =>
          at[t] \in Configuring /\ file[t] = "config.yml"

Half(p) ==
    \E t \in Task :
        /\ Req[t].user = p /\ at[t] \in Configuring /\ file[t] = "party_info.json"
        /\ Held(p, "config.yml", Settings(t, "config.yml"))
        /\ Held(p, "party_info.json", Template)

Whole(p) ==
    \E s \in Task : /\ Req[s].user = p /\ at[s] # "new"
                    /\ \A f \in File : Held(p, f, Settings(s, f))

FilesInv(p) == Fresh(p) \/ Half(p) \/ Whole(p)

LEMMA WholeNext ==
    ASSUME SerialSubmit, TypeOK, SerialInv, \A t \in Task : ReaderInv(t), [Next]_vars,
           NEW p \in Party, Whole(p)
    PROVE  Whole(p)'
<1>1. PICK s \in Task : Req[s].user = p /\ at[s] # "new" /\ \A f \in File : Held(p, f, Settings(s, f))
    BY DEF Whole
<1>2. at'[s] # "new"
    BY <1>1, StartedNext
<1>3. ASSUME NEW f \in File PROVE Held(p, f, Settings(s, f))'
    <2> DEFINE c == Settings(s, f)
    <2>1. Keeps(c) /\ Held(p, f, c)
        BY <1>1, SettingsKeep
    <2> HIDE DEF c
    <2>2. Held(p, f, c)'
        BY <2>1, HeldForever
    <2> QED
        BY <2>2 DEF c, Held, Settings
<1> QED
    BY <1>1, <1>2, <1>3 DEF Whole

LEMMA HalfNext ==
    ASSUME SerialSubmit, TypeOK, SerialInv, \A t \in Task : ReaderInv(t), [Next]_vars,
           NEW p \in Party, Half(p)
    PROVE  Half(p)' \/ Whole(p)'
<1>1. PICK t \in Task :
          /\ Req[t].user = p /\ at[t] \in Configuring /\ file[t] = "party_info.json"
          /\ Held(p, "config.yml", Settings(t, "config.yml"))
          /\ Held(p, "party_info.json", Template)
    BY DEF Half
<1> DEFINE c == Settings(t, "config.yml")
           d == Settings(t, "party_info.json")
<1>2. "config.yml" \in File /\ "party_info.json" \in File
    BY DEF File
<1>3. Keeps(c) /\ Held(p, "config.yml", c)
    BY <1>1, <1>2, SettingsKeep
<1> HIDE DEF c, d
<1>4. Held(p, "config.yml", c)'
    BY <1>2, <1>3, HeldForever
<1>5. CASE WriteConfig(t)
    <2>1. Template # Blank /\ Replaced(Template, d) = d /\ Writes(t, p, "party_info.json")
        BY <1>1, <1>5, LinkAssumption DEF Replaced, Writes, WriteConfig
    <2>2. Held(p, "party_info.json", d)'
        BY <1>1, <1>5, <2>1, HeldWritten DEF d, Held, Replaced, Settings
    <2>3. at'[t] # "new"
        BY <1>1, StartedNext DEF Configuring
    <2> QED
        BY <1>1, <1>4, <2>2, <2>3 DEF Whole, File, c, d, Held, Settings
<1>6. CASE ~WriteConfig(t)
    <2>1. \A s \in Task : ~(WriteConfig(s) /\ Writes(s, p, "party_info.json"))
        BY <1>1, <1>6 DEF Writes, SerialInv, Running, Configuring
    <2>2. Held(p, "party_info.json", Template)'
        BY <1>1, <1>2, <2>1, HeldKept
    <2>3. at'[t] \in Configuring /\ file'[t] = file[t]
        BY <1>1, <1>6, ReadStep, TruncateStep, OwnConfig DEF Configuring
    <2> QED
        BY <1>1, <1>4, <2>2, <2>3 DEF Half, c, Held, Settings
<1> QED
    BY <1>5, <1>6

LEMMA FreshNext ==
    ASSUME SerialSubmit, TypeOK, SerialInv, \A t \in Task : ReaderInv(t), [Next]_vars,
           NEW p \in Party, Fresh(p)
    PROVE  Fresh(p)' \/ Half(p)'
<1>0. "config.yml" \in File /\ "party_info.json" \in File /\ Template # Blank
    BY LinkAssumption DEF File
<1>1. ASSUME NEW t \in Task, WriteConfig(t), Req[t].user = p PROVE Half(p)'
    <2> DEFINE c == Settings(t, "config.yml")
    <2>1. at[t] = "write" /\ file[t] = "config.yml"
        BY <1>1 DEF WriteConfig, Fresh, Running, Configuring
    <2>2. Replaced(Template, c) = c /\ Writes(t, p, "config.yml")
        BY <1>1, <2>1 DEF Replaced, Writes
    <2>3. Held(p, "config.yml", Template) /\ Held(p, "party_info.json", Template)
        BY <1>0 DEF Fresh
    <2>4. Held(p, "config.yml", Replaced(Template, c))'
        BY <1>0, <1>1, <2>2, <2>3, HeldWritten
    <2>5. Held(p, "config.yml", c)'
        BY <2>2, <2>4 DEF Held, Replaced, Settings
    <2>6. \A s \in Task : ~(WriteConfig(s) /\ Writes(s, p, "party_info.json"))
        BY <1>1, <2>1 DEF Writes, SerialInv, Running, Configuring
    <2>7. Held(p, "party_info.json", Template)'
        BY <1>0, <2>3, <2>6, HeldKept
    <2>8. at'[t] = "read" /\ file'[t] = "party_info.json"
        BY <1>1, <2>1 DEF WriteConfig, Goto, TypeOK
    <2> QED
        BY <1>1, <2>5, <2>7, <2>8 DEF Half, Configuring, Held, Settings
<1>2. CASE \A t \in Task : Req[t].user = p => ~WriteConfig(t)
    <2>1. ASSUME NEW f \in File PROVE Held(p, f, Template)'
        <3>1. \A s \in Task : ~(WriteConfig(s) /\ Writes(s, p, f))
            BY <1>2 DEF Writes
        <3>2. Held(p, f, Template)
            BY DEF Fresh
        <3> QED
            BY <3>1, <3>2, HeldKept
    <2>2. ASSUME NEW t \in Task, Req[t].user = p, at'[t] \in Running
          PROVE  at'[t] \in Configuring /\ file'[t] = "config.yml"
        <3>1. CASE at[t] \in Running
            <4>1. at[t] \in Configuring /\ file[t] = "config.yml"
                BY <2>2, <3>1 DEF Fresh
            <4> QED
                BY <1>2, <2>2, <4>1, ReadStep, TruncateStep, OwnConfig DEF Configuring
        <3>2. CASE at[t] \notin Running
            <4>1. Submit(t)
                BY <2>2, <3>2, StepRuns, Frame
            <4>2. at[t] = "new" /\ at'[t] = "read" /\ UNCHANGED file
                BY <4>1 DEF Submit, Goto, TypeOK
            <4> QED
                BY <4>2 DEF ReaderInv, Configuring
        <3> QED
            BY <3>1, <3>2
    <2> QED
        BY <2>1, <2>2 DEF Fresh
<1> QED
    BY <1>1, <1>2

SerialConfigInv ==
    /\ TypeOK /\ ColumnInv /\ SerialInv
    /\ \A t \in Task : ReaderInv(t)
    /\ \A p \in Party : FilesInv(p)

\* Somebody holds each file.
LEMMA SomeHeld ==
    ASSUME NEW p \in Party, FilesInv(p), NEW f \in File
    PROVE  \E c : c # Blank /\ Held(p, f, c)
<1>1. Template # Blank
    BY LinkAssumption
<1>2. \A s \in Task : Settings(s, f) # Blank
    BY SettingsKeep DEF Keeps
<1> QED
    BY <1>1, <1>2, SettingsKeep DEF FilesInv, Fresh, Half, Whole, File, Keeps

LEMMA SerialConfigInit == Init => SerialConfigInv
<1> SUFFICES ASSUME Init PROVE SerialConfigInv
    OBVIOUS
<1>1. TypeOK /\ ColumnInv /\ SerialInv
    BY SerialDataInit DEF SerialDataInv
<1>2. \A t \in Task : ReaderInv(t)
    BY DEF Init, ReaderInv
<1>3. ASSUME NEW p \in Party PROVE FilesInv(p)
    BY DEF Init, BrokerInit, FilesInv, Fresh, Held, Running, Configuring, Preparing, Joining,
           Granting, Querying
<1> QED
    BY <1>1, <1>2, <1>3 DEF SerialConfigInv

LEMMA SerialConfigNext ==
    ASSUME SerialSubmit, SerialConfigInv, [Next]_vars PROVE SerialConfigInv'
<1>1. TypeOK' /\ ColumnInv' /\ SerialInv'
    BY TypeNext, ColumnNext, SerialNext DEF SerialConfigInv
<1>2. ASSUME NEW t \in Task PROVE ReaderInv(t)'
    BY SomeHeld, RequestTypes, ReaderNext DEF SerialConfigInv
<1>3. ASSUME NEW p \in Party PROVE FilesInv(p)'
    BY FreshNext, HalfNext, WholeNext DEF SerialConfigInv, FilesInv
<1> QED
    BY <1>1, <1>2, <1>3 DEF SerialConfigInv

\* In a container that gets one task at a time, a task that has gone through its
\* configuration works with two whole files that have the settings of one and the
\* same request, however many requests with other peers and keys there have been
\* and wherever the broker was restarted.  (task.go DealTask, util.go replaceInFile)
THEOREM ConfigIsOneRequest ==
    ASSUME SerialSubmit PROVE Spec => []ConfigOfOneRequest
<1>1. ASSUME SerialConfigInv PROVE ConfigOfOneRequest
    <2> SUFFICES ASSUME NEW t \in Task, at[t] \in Running \ Configuring
                 PROVE  \E s \in Task : /\ Req[s].user = Req[t].user
                                        /\ at[s] # "new"
                                        /\ Configured(Req[t].user, s)
        BY DEF ConfigOfOneRequest
    <2> DEFINE p == Req[t].user
    <2>1. p \in Party
        BY RequestTypes
    <2>2. \A s \in Task : Req[s].user = p /\ at[s] \in Configuring => FALSE
        BY <1>1 DEF SerialConfigInv, SerialInv, Running
    <2>3. Whole(p)
        BY <1>1, <2>1, <2>2 DEF SerialConfigInv, FilesInv, Fresh, Half
    <2>4. \A f \in File : \A c : Held(p, f, c) => conf[p][f] = c
        BY <2>2 DEF Held, Writes, Configuring
    <2> HIDE DEF p
    <2>5. \E s \in Task : Req[s].user = p /\ at[s] # "new" /\ Configured(p, s)
        BY <2>3, <2>4 DEF Whole, Configured
    <2> QED
        BY <2>5 DEF p
<1>2. SerialConfigInv /\ [Next]_vars => SerialConfigInv'
    BY SerialConfigNext
<1> QED
    BY <1>1, <1>2, SerialConfigInit, PTL DEF Spec

----------------------------------------------------------------------------
\* What a broker knows of a peer is in its container, and so is the link to every
\* member of its project.
LinkInv(p) ==
    /\ Up(p) /\ Keeps(running[p]["party_info.json"]) =>
          Held(p, "party_info.json", running[p]["party_info.json"])
    /\ \A q \in members[p] \ {p} : Held(p, "party_info.json", TrueLink(p, q))

LEMMA TrueLinkKeeps ==
    ASSUME NEW p \in Party, NEW q \in Party PROVE Keeps(TrueLink(p, q))
<1>1. TrueLink(p, q) \in Link
    BY LinkAssumption DEF TrueLink, Link
<1> QED
    BY <1>1, LinkAssumption DEF Keeps

\* A broker is stopped, or it loads the files that are there.
LEMMA RunningStep ==
    ASSUME TypeOK, [Next]_vars, NEW p \in Party
    PROVE  \/ running'[p] = running[p]
           \/ running'[p] = Down
           \/ running'[p] = conf[p] /\ UNCHANGED conf
<1>1. CASE UNCHANGED vars
    BY <1>1 DEF vars, brokerVars
<1>2. ASSUME NEW t \in Task, Submit(t) \/ Step(t) PROVE running'[p] = running[p] \/ running'[p] = Down
    <2>1. CASE RestartBroker(t)
        BY <2>1, RequestTypes DEF RestartBroker, StopBroker, TypeOK, BrokerTypeOK
    <2>2. ASSUME \/ Submit(t) \/ ReadConfig(t) \/ TruncateConfig(t) \/ WriteConfig(t)
                 \/ WaitMysql(t) \/ Download(t) \/ StoreData(t) \/ ReadHeader(t) \/ DropTable(t)
                 \/ CreateMysqlTable(t) \/ ClearTable(t) \/ LoadData(t) \/ WaitPorts(t)
          PROVE  UNCHANGED running
        BY <2>2 DEF Submit, ReadConfig, TruncateConfig, WriteConfig, WaitMysql, Download, StoreData,
                    ReadHeader, DropTable, CreateMysqlTable, ClearTable, LoadData, WaitPorts,
                    Statement, brokerVars
    <2>3. ASSUME \/ CreateProject(t) \/ InviteMember(t) \/ AwaitJoined(t) \/ JoinProject(t)
                 \/ CreateTable(t) \/ GrantSelf(t) \/ GrantPermission(t) \/ FinishColumn(t)
                 \/ FinishGrants(t) \/ RunQuery(t) \/ GiveUp(t) \/ UploadResult(t)
          PROVE  UNCHANGED running
        BY <2>3 DEF CreateProject, BrokerCreateProject, InviteMember, BrokerInvite, AwaitJoined,
                    JoinProject, BrokerAccept, CreateTable, BrokerCreateTable, GrantSelf,
                    GrantPermission, FinishColumn, BrokerGrant, FinishGrants, RunQuery, GiveUp,
                    UploadResult, brokerVars
    <2> QED
        BY <1>2, <2>1, <2>2, <2>3 DEF Step
<1>3. ASSUME NEW q \in Party, MysqlReady(q) \/ BrokerStart(q)
      PROVE  running'[p] = running[p] \/ (running'[p] = conf[p] /\ UNCHANGED conf)
    BY <1>3 DEF MysqlReady, BrokerStart, BrokerReady, brokerVars, TypeOK, BrokerTypeOK
<1> QED
    BY <1>1, <1>2, <1>3 DEF Next

\* Projects grow only where two brokers reach each other.
LEMMA MembersStep ==
    ASSUME TypeOK, [Next]_vars, NEW p \in Party, NEW r \in members'[p] \ {p}
    PROVE  \/ r \in members[p]
           \/ \E q \in Party : /\ Linked(p, q)
                               /\ r = q \/ r \in members[q]
<1>1. CASE UNCHANGED vars
    BY <1>1 DEF vars, brokerVars
<1>2. ASSUME NEW t \in Task, CreateProject(t) PROVE r \in members[p]
    BY <1>2, RequestTypes DEF CreateProject, BrokerCreateProject, brokerVars, TypeOK, BrokerTypeOK
<1>3. ASSUME NEW t \in Task, JoinProject(t)
      PROVE  \/ r \in members[p]
             \/ \E q \in Party : Linked(p, q) /\ (r = q \/ r \in members[q])
    <2>1. CASE UNCHANGED members
        BY <2>1
    <2>2. CASE BrokerAccept(Req[t].user)
        <3> DEFINE b == Req[t].user
                   a == FirstInvitation(b).from
        <3>1. b \in Party /\ a \in Party
            <4>1. invites[b] \in Seq(Invitation) /\ invites[b] # <<>>
                BY <2>2, RequestTypes DEF BrokerAccept, IsInvited, TypeOK, BrokerTypeOK
            <4>2. Head(invites[b]) \in Invitation
                BY <4>1
            <4> QED
                BY <4>2, RequestTypes DEF FirstInvitation, Invitation
        <3>2. /\ Linked(a, b) /\ Linked(b, a)
              /\ members' = [members EXCEPT ![a] = members[a] \cup members[b] \cup {b},
                                            ![b] = members[a] \cup members[b] \cup {b}]
            BY <2>2 DEF BrokerAccept, Linked
        <3> HIDE DEF a, b
        <3>3. p \in {a, b} \/ members'[p] = members[p]
            BY <3>1, <3>2 DEF TypeOK, BrokerTypeOK
        <3>4. p \in {a, b} => r \in members[a] \cup members[b] \cup {b}
            BY <3>1, <3>2 DEF TypeOK, BrokerTypeOK
        <3> QED
            BY <3>1, <3>2, <3>3, <3>4
    <2> QED
        BY <1>3, <2>1, <2>2 DEF JoinProject, brokerVars
<1>4. ASSUME NEW t \in Task,
             \/ Submit(t) \/ ReadConfig(t) \/ TruncateConfig(t) \/ WriteConfig(t)
             \/ RestartBroker(t) \/ WaitMysql(t) \/ Download(t) \/ StoreData(t) \/ ReadHeader(t)
             \/ DropTable(t) \/ CreateMysqlTable(t) \/ ClearTable(t) \/ LoadData(t) \/ WaitPorts(t)
      PROVE  UNCHANGED members
    BY <1>4 DEF Submit, ReadConfig, TruncateConfig, WriteConfig, RestartBroker, StopBroker,
                WaitMysql, Download, StoreData, ReadHeader, DropTable, CreateMysqlTable, ClearTable,
                LoadData, WaitPorts, Statement, brokerVars
<1>5. ASSUME NEW t \in Task,
             \/ InviteMember(t) \/ AwaitJoined(t) \/ CreateTable(t) \/ GrantSelf(t)
             \/ GrantPermission(t) \/ FinishColumn(t) \/ FinishGrants(t) \/ RunQuery(t)
             \/ GiveUp(t) \/ UploadResult(t)
      PROVE  UNCHANGED members
    BY <1>5 DEF InviteMember, BrokerInvite, AwaitJoined, CreateTable, BrokerCreateTable, GrantSelf,
                GrantPermission, FinishColumn, BrokerGrant, FinishGrants, RunQuery, GiveUp,
                UploadResult, brokerVars
<1>6. ASSUME NEW q \in Party, MysqlReady(q) \/ BrokerStart(q) PROVE UNCHANGED members
    BY <1>6, ServiceStep
<1> QED
    BY <1>1, <1>2, <1>3, <1>4, <1>5, <1>6 DEF Next, Step

\* A broker that reaches q has q for its only peer, and so does the other side.
LEMMA LinkedHeld ==
    ASSUME NEW p \in Party, NEW q \in Party, LinkInv(p), Linked(p, q)
    PROVE  Held(p, "party_info.json", TrueLink(p, q))
<1>1. Up(p) /\ running[p]["party_info.json"] = TrueLink(p, q)
    BY DEF Linked, Knows
<1> QED
    BY <1>1, TrueLinkKeeps DEF LinkInv

LEMMA LinkNext ==
    ASSUME SerialSubmit, TypeOK, ColumnInv, SerialInv, \A t \in Task : ReaderInv(t), [Next]_vars,
           \A p \in Party : LinkInv(p), NEW p \in Party
    PROVE  LinkInv(p)'
<1> DEFINE f == "party_info.json"
<1>0. f \in File
    BY DEF File
<1>1. ASSUME Up(p)', Keeps(running'[p][f]) PROVE Held(p, f, running[p][f])'
    <2>1. CASE running'[p] = running[p]
        <3>1. PICK c : c = running[p][f]
            OBVIOUS
        <3>2. Keeps(c) /\ Held(p, f, c)
            BY <1>1, <2>1, <3>1 DEF Up, LinkInv
        <3>3. Held(p, f, c)'
            BY <1>0, <3>2, HeldForever
        <3> QED
            BY <2>1, <3>1, <3>3 DEF Held
    <2>2. CASE running'[p] = conf[p] /\ UNCHANGED conf
        BY <2>2 DEF Held
    <2> QED
        BY <1>1, <2>1, <2>2, RunningStep DEF Up
<1>2. ASSUME NEW r \in members'[p] \ {p} PROVE Held(p, f, TrueLink(p, r))'
    <2>1. r \in Party
        BY <1>2, TypeNext DEF TypeOK, BrokerTypeOK
    <2>2. Held(p, f, TrueLink(p, r))
        <3>1. CASE r \in members[p]
            BY <1>2, <3>1 DEF LinkInv
        <3>2. ASSUME NEW q \in Party, Linked(p, q), r = q \/ r \in members[q], r \notin members[p]
              PROVE  Held(p, f, TrueLink(p, r))
            <4>1. Linked(q, p)
                BY <3>2 DEF Linked
            <4>2. Held(p, f, TrueLink(p, q)) /\ Held(q, f, TrueLink(q, p))
                BY <3>2, <4>1, LinkedHeld
            <4>3. CASE r = q
                BY <4>2, <4>3
            <4>4. CASE r # q
                <5>1. r \in members[q] \ {q}
                    BY <3>2, <4>4
                <5>2. Held(q, f, TrueLink(q, r))
                    BY <5>1 DEF LinkInv
                <5>3. TrueLink(q, r) = TrueLink(q, p)
                    BY <2>1, <4>2, <5>2, HeldOnce, TrueLinkKeeps DEF Keeps
                <5>4. r = p
                    BY <5>3 DEF TrueLink
                <5> QED
                    BY <1>2, <5>4
            <4> QED
                BY <4>3, <4>4
        <3> QED
            BY <1>2, <3>1, <3>2, MembersStep
    <2> DEFINE c == TrueLink(p, r)
    <2>3. Keeps(c) /\ Held(p, f, c)
        BY <2>1, <2>2, TrueLinkKeeps
    <2> HIDE DEF c
    <2>4. Held(p, f, c)'
        BY <1>0, <2>3, HeldForever
    <2> QED
        BY <2>4 DEF c, Held, TrueLink
<1> QED
    BY <1>1, <1>2 DEF LinkInv, Up

\* In containers that get one task at a time, two members of one project never
\* lose the settings under which their brokers reach each other, whatever later
\* requests bring: placeholders are replaced once.  (util.go, line 89)
THEOREM MembersKeepLinks ==
    ASSUME SerialSubmit PROVE Spec => []MembersStayConfigured
<1> DEFINE Inv == SerialConfigInv /\ \A p \in Party : LinkInv(p)
<1>1. ASSUME Init PROVE Inv
    <2>1. ASSUME NEW p \in Party PROVE LinkInv(p)
        BY <1>1 DEF Init, BrokerInit, LinkInv, Held
    <2> QED
        BY <1>1, <2>1, SerialConfigInit
<1>2. ASSUME Inv, [Next]_vars PROVE Inv'
    <2>1. SerialConfigInv'
        BY <1>2, SerialConfigNext
    <2>2. ASSUME NEW p \in Party PROVE LinkInv(p)'
        BY <1>2, LinkNext DEF SerialConfigInv
    <2> QED
        BY <2>1, <2>2
<1>3. ASSUME Inv PROVE MembersStayConfigured
    BY <1>3 DEF MembersStayConfigured, LinkInv, Held, Writes, Configuring
<1> QED
    BY <1>1, <1>2, <1>3, PTL DEF Spec
=============================================================================
