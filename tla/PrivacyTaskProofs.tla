--------------------------- MODULE PrivacyTaskProofs ---------------------------
(***************************************************************************)
(* Theorems about PrivacyTask, for every set of parties, tasks, requests    *)
(* and datasets and every bound.                                            *)
(***************************************************************************)
EXTENDS PrivacyTask, SequenceTheorems, TLAPS

LEMMA TypeInit == Init => TypeOK
<1> SUFFICES ASSUME Init PROVE TypeOK
    OBVIOUS
<1>1. [f \in File |-> Template] \in [File -> Text] /\ Template \in Text /\ "config.yml" \in File
    BY DEF Text, File
<1>2. BrokerTypeOK
    BY <1>1 DEF Init, BrokerInit, BrokerTypeOK
<1>3. /\ file \in [Task -> File] /\ text \in [Task -> Text]
      /\ col \in [Task -> Nat] /\ per \in [Task -> Nat]
    BY <1>1 DEF Init
<1> QED
    BY <1>2, <1>3, TaskAssumption DEF Init, TypeOK, Table, Content, Place

\* What the helpers of the actions do to the types.
LEMMA FaultBound == faults \in 0..MaxFaults /\ (Fault \/ UNCHANGED faults) => faults' \in 0..MaxFaults
BY TaskAssumption DEF Fault

LEMMA AwaitBound == ASSUME faults \in 0..MaxFaults, NEW b, Await(b) PROVE faults' \in 0..MaxFaults
BY FaultBound DEF Await

LEMMA GotoType ==
    ASSUME at \in [Task -> Place], NEW t \in Task, NEW l \in Place, Goto(t, l)
    PROVE  at' \in [Task -> Place]
BY DEF Goto

LEMMA ReplyType ==
    ASSUME at \in [Task -> Place], faults \in 0..MaxFaults,
           NEW t \in Task, NEW a \in Place, NEW l \in Place, Reply(t, a, l)
    PROVE  at' \in [Task -> Place] /\ faults' \in 0..MaxFaults
BY GotoType, FaultBound DEF Reply

LEMMA ConfType ==
    ASSUME BrokerTypeOK, NEW p, NEW f, NEW new \in Text,
           conf' = [conf EXCEPT ![p][f] = new], UNCHANGED <<running, members, invites, vtable, ccl>>
    PROVE  BrokerTypeOK'
<1>1. conf' \in [Party -> [File -> Text]]
    BY DEF BrokerTypeOK
<1> QED
    BY <1>1 DEF BrokerTypeOK

LEMMA StopType == ASSUME BrokerTypeOK, NEW p \in Party, StopBroker(p) PROVE BrokerTypeOK'
BY DEF StopBroker, BrokerTypeOK

LEMMA ReadyType == ASSUME BrokerTypeOK, NEW p \in Party, BrokerReady(p) PROVE BrokerTypeOK'
BY DEF BrokerReady, BrokerTypeOK

LEMMA CreateProjectType ==
    ASSUME BrokerTypeOK, NEW p \in Party, BrokerCreateProject(p) PROVE BrokerTypeOK'
BY DEF BrokerCreateProject, BrokerTypeOK

LEMMA InviteType ==
    ASSUME BrokerTypeOK, NEW p \in Party, NEW q \in Party, BrokerInvite(p, q) PROVE BrokerTypeOK'
<1>1. [from |-> p, status |-> "undecided"] \in Invitation
    BY DEF Invitation
<1>2. Append(invites[q], [from |-> p, status |-> "undecided"]) \in Seq(Invitation)
    BY <1>1 DEF BrokerTypeOK
<1> QED
    BY <1>2 DEF BrokerInvite, BrokerTypeOK

LEMMA AcceptType == ASSUME BrokerTypeOK, NEW q \in Party, BrokerAccept(q) PROVE BrokerTypeOK'
<1>1. invites[q] \in Seq(Invitation) /\ invites[q] # <<>>
    BY DEF BrokerAccept, IsInvited, BrokerTypeOK
<1>2. Head(invites[q]) = invites[q][1] /\ 1 \in DOMAIN invites[q] /\ invites[q][1] \in Invitation
    BY <1>1
<1>3. [invites[q] EXCEPT ![1].status = "accepted"] \in Seq(Invitation)
    <2>1. [invites[q][1] EXCEPT !.status = "accepted"] \in Invitation
        BY <1>2 DEF Invitation
    <2> QED
        BY <1>1, <1>2, <2>1
<1>4. invites' \in [Party -> Seq(Invitation)]
    BY <1>3 DEF BrokerAccept, BrokerTypeOK
<1>5. members' \in [Party -> SUBSET Party]
    BY <1>2 DEF BrokerAccept, FirstInvitation, Invitation, BrokerTypeOK
<1> QED
    BY <1>4, <1>5 DEF BrokerAccept, BrokerTypeOK

LEMMA CreateTableType ==
    ASSUME BrokerTypeOK, NEW p \in Party, NEW c \in SUBSET Column, BrokerCreateTable(p, c)
    PROVE  BrokerTypeOK'
BY DEF BrokerCreateTable, BrokerTypeOK

LEMMA GrantType ==
    ASSUME BrokerTypeOK, NEW g \in SUBSET Grant, BrokerGrant(g) PROVE BrokerTypeOK'
BY DEF BrokerGrant, BrokerTypeOK

LEMMA SameBrokers == BrokerTypeOK /\ UNCHANGED brokerVars => BrokerTypeOK'
BY DEF BrokerTypeOK, brokerVars

\* The grants of a request are grants of columns to parties.
LEMMA RequestTypes ==
    ASSUME NEW t \in Task
    PROVE  /\ Req[t].user \in Party /\ Req[t].peer \in Party /\ Req[t].user # Req[t].peer
           /\ TableColumns(t) \subseteq Column
           /\ \A f \in File : Settings(t, f) \in Address \cup Link
           /\ \A i \in DOMAIN Req[t].columns : OwnGrant(t, i) \in Grant
           /\ \A i \in DOMAIN Req[t].columns : \A j \in DOMAIN Req[t].columns[i].permissions :
                  PermissionGrant(t, i, j) \in Grant
<1>1. Req[t] \in Request
    BY TaskAssumption
<1>2. ASSUME NEW i \in DOMAIN Req[t].columns
      PROVE  /\ Req[t].columns[i].name \in Column
             /\ Req[t].columns[i].permissions \in Seq(Permission)
    <2> DEFINE C == [name : Column, permissions : Seq(Permission)]
    <2>1. Req[t].columns \in Seq(C)
        BY <1>1 DEF Request
    <2> HIDE DEF C
    <2>2. Req[t].columns[i] \in C
        BY <2>1
    <2> QED
        BY <2>2 DEF C
<1>3. Req[t].user \in Party /\ Req[t].peer \in Party /\ Req[t].user # Req[t].peer
    BY <1>1, TaskAssumption DEF Request
<1>4. TableColumns(t) \subseteq Column
    BY <1>2 DEF TableColumns
<1>5. ASSUME NEW f \in File PROVE Settings(t, f) \in Address \cup Link
    BY <1>1 DEF Settings, Request, Link
<1>6. ASSUME NEW i \in DOMAIN Req[t].columns PROVE OwnGrant(t, i) \in Grant
    BY <1>2, <1>3 DEF OwnGrant, GrantCCL, Grant
<1>7. ASSUME NEW i \in DOMAIN Req[t].columns, NEW j \in DOMAIN Req[t].columns[i].permissions
      PROVE  PermissionGrant(t, i, j) \in Grant
    <2>1. Req[t].columns[i].permissions \in Seq(Permission)
        BY <1>2
    <2>2. Req[t].columns[i].permissions[j] \in Permission
        BY <2>1
    <2>3. Req[t].columns[i].permissions[j].user \in Party
        BY <2>2 DEF Permission
    <2> QED
        BY <1>2, <1>3, <2>3 DEF PermissionGrant, GrantCCL, Grant
<1> QED
    BY <1>3, <1>4, <1>5, <1>6, <1>7

----------------------------------------------------------------------------
\* A column that waits for its permissions is a column of the request.
ColumnInv == \A t \in Task : at[t] = "permit" => col[t] \in DOMAIN Req[t].columns

LEMMA ColumnNext == TypeOK /\ ColumnInv /\ [Next]_vars => ColumnInv'
<1> SUFFICES ASSUME TypeOK, ColumnInv, [Next]_vars, NEW t \in Task, at'[t] = "permit"
             PROVE  col'[t] \in DOMAIN Req[t].columns
    BY DEF ColumnInv
<1>1. CASE at[t] = "permit" /\ UNCHANGED col
    BY <1>1 DEF ColumnInv
<1>2. ASSUME NEW s \in Task, GrantSelf(s) PROVE col'[t] \in DOMAIN Req[t].columns
    BY <1>2 DEF GrantSelf, NextColumn, Goto, TypeOK, ColumnInv, dataVars
<1>3. ASSUME NEW s \in Task, GrantPermission(s) \/ FinishColumn(s) PROVE col'[t] \in DOMAIN Req[t].columns
    BY <1>3 DEF GrantPermission, FinishColumn, NextColumn, Goto, TypeOK, ColumnInv, dataVars
<1>4. ASSUME NEW s \in Task,
             \/ Submit(s) \/ ReadConfig(s) \/ TruncateConfig(s) \/ WriteConfig(s)
             \/ RestartBroker(s) \/ WaitMysql(s) \/ Download(s)
             \/ StoreData(s) \/ ReadHeader(s) \/ DropTable(s) \/ CreateMysqlTable(s)
             \/ ClearTable(s) \/ LoadData(s) \/ WaitPorts(s)
      PROVE  at[t] = "permit" /\ UNCHANGED col
    BY <1>4 DEF Submit, ReadConfig, TruncateConfig, WriteConfig, RestartBroker, WaitMysql,
                Download, ReadFile, Reply, StoreData, ReadHeader, Kill, DropTable,
                CreateMysqlTable, ClearTable, LoadData, Statement, WaitPorts, Goto, TypeOK,
                dataVars
<1>5. ASSUME NEW s \in Task,
             \/ CreateProject(s) \/ InviteMember(s) \/ AwaitJoined(s) \/ JoinProject(s)
             \/ CreateTable(s) \/ FinishGrants(s) \/ RunQuery(s) \/ GiveUp(s) \/ UploadResult(s)
      PROVE  at[t] = "permit" /\ UNCHANGED col
    BY <1>5 DEF CreateProject, InviteMember, AwaitJoined, JoinProject, CreateTable, FinishGrants,
                RunQuery, GiveUp, UploadResult, WriteFile, Reply, Goto, TypeOK, localVars,
                dataVars
<1> QED
    BY <1>1, <1>2, <1>3, <1>4, <1>5
       DEF Next, Step, vars, taskVars, MysqlReady, BrokerStart

\* The rendered file consists of lines of tasks.
LEMMA RenderedType ==
    ASSUME NEW t \in Task, NEW old \in Seq(Task) PROVE Rendered(t, old) \in Seq(Task)
<1> DEFINE n == Req[t].size
           m == IF n > Len(old) THEN n ELSE Len(old)
<1>1. n \in Nat /\ m \in Nat /\ \A i \in 1..m : i <= n \/ i \in 1..Len(old)
    BY TaskAssumption DEF Request
<1>2. \A i \in 1..m : (IF i <= n THEN t ELSE old[i]) \in Task
    BY <1>1
<1>3. Rendered(t, old) = [i \in 1..m |-> IF i <= n THEN t ELSE old[i]]
    BY DEF Rendered
<1> HIDE DEF m, n
<1>4. Rendered(t, old) \in [1..m -> Task]
    BY <1>2, <1>3
<1> QED
    BY <1>1, <1>4, SeqDef

----------------------------------------------------------------------------
\* Each step keeps the types; the helpers' lemmas cover most of it.
LEMMA TypeNext == TypeOK /\ ColumnInv /\ [Next]_vars => TypeOK'
<1> SUFFICES ASSUME TypeOK, ColumnInv, [Next]_vars PROVE TypeOK'
    OBVIOUS
<1> USE TaskAssumption DEF TypeOK
<1>l. /\ "read" \in Place /\ "truncate" \in Place /\ "write" \in Place /\ "restart" \in Place /\ "mysql" \in Place /\ "download" \in Place
      /\ "store" \in Place /\ "header" \in Place /\ "drop" \in Place /\ "create" \in Place
      /\ "clear" \in Place /\ "load" \in Place /\ "ports" \in Place /\ "project" \in Place
      /\ "invite" \in Place /\ "joined" \in Place /\ "join" \in Place /\ "table" \in Place
      /\ "grant" \in Place /\ "permit" \in Place /\ "query" \in Place /\ "result" \in Place
      /\ "failed" \in Place /\ "killed" \in Place /\ "uploaded" \in Place
      /\ "granted" \in Place /\ "exhausted" \in Place
    BY DEF Place, Ended, Running, Configuring, Preparing, Joining, Granting, Querying
<1>0. CASE UNCHANGED vars
    BY <1>0 DEF vars, taskVars, brokerVars, BrokerTypeOK
<1>1. ASSUME NEW t \in Task, Submit(t) PROVE TypeOK'
    BY <1>1, <1>l, GotoType, SameBrokers DEF Submit, dataVars
<1>2. ASSUME NEW t \in Task, ReadConfig(t) PROVE TypeOK'
    <2>1. conf[Req[t].user][file[t]] \in Text
        BY RequestTypes DEF BrokerTypeOK
    <2> QED
        BY <1>2, <1>l, <2>1, GotoType, SameBrokers DEF ReadConfig, dataVars
<1>26. ASSUME NEW t \in Task, TruncateConfig(t) PROVE TypeOK'
    <2>1. BrokerTypeOK'
        BY <1>26, ConfType DEF TruncateConfig, Text
    <2> QED
        BY <1>26, <1>l, <2>1, GotoType DEF TruncateConfig, dataVars
<1>27. ASSUME NEW t \in Task, WriteConfig(t) PROVE TypeOK'
    <2> DEFINE p == Req[t].user
               f == file[t]
    <2>1. PICK new \in Overwritten(conf[p][f], Replaced(text[t], Settings(t, f))) :
              conf' = [conf EXCEPT ![p][f] = new]
        BY <1>27 DEF WriteConfig
    <2>2. conf[p][f] \in Text /\ text[t] \in Text /\ Settings(t, f) \in Text
        BY RequestTypes DEF BrokerTypeOK, Text
    <2>3. new \in Text
        BY <2>1, <2>2 DEF Overwritten, Replaced, Text
    <2>4. BrokerTypeOK'
        BY <1>27, <2>1, <2>3, ConfType DEF WriteConfig
    <2>5. text' \in [Task -> Text] /\ file' \in [Task -> File]
        BY <1>27 DEF WriteConfig, Text, File
    <2> QED
        BY <1>27, <1>l, <2>4, <2>5, GotoType DEF WriteConfig, dataVars
<1>3. ASSUME NEW t \in Task, RestartBroker(t) PROVE TypeOK'
    BY <1>3, <1>l, GotoType, StopType, RequestTypes DEF RestartBroker, dataVars
<1>4. ASSUME NEW t \in Task, WaitMysql(t) PROVE TypeOK'
    BY <1>4, <1>l, GotoType, AwaitBound, SameBrokers DEF WaitMysql
<1>5. ASSUME NEW t \in Task, Download(t) PROVE TypeOK'
    <2>1. at' \in [Task -> Place] /\ faults' \in 0..MaxFaults
        BY <1>5, <1>l, ReplyType DEF Download, ReadFile
    <2>2. datafile' \in [Party -> Content]
        BY <1>5 DEF Download, Content
    <2> QED
        BY <1>5, <2>1, <2>2, SameBrokers DEF Download
<1>6. ASSUME NEW t \in Task, StoreData(t) PROVE TypeOK'
    <2>1. datafile' \in [Party -> Content]
        BY <1>6 DEF StoreData, Request
    <2> QED
        BY <1>6, <1>l, <2>1, GotoType, SameBrokers DEF StoreData
<1>7. ASSUME NEW t \in Task, ReadHeader(t) PROVE TypeOK'
    <2>1. at' \in [Task -> Place]
        BY <1>7, <1>l, GotoType DEF ReadHeader, Kill
    <2>2. pinged' \in [Party -> BOOLEAN]
        BY <1>7 DEF ReadHeader, Kill
    <2>3. header' \in [Task -> SUBSET Column]
        BY <1>7, RequestTypes DEF ReadHeader, Content
    <2> QED
        BY <1>7, <2>1, <2>2, <2>3, SameBrokers DEF ReadHeader
<1>8. ASSUME NEW t \in Task, DropTable(t) PROVE TypeOK'
    <2>1. table' \in [Party -> Table \cup {NoTable}]
        BY <1>8 DEF DropTable
    <2> QED
        BY <1>8, <1>l, <2>1, GotoType, SameBrokers DEF DropTable, Statement
<1>9. ASSUME NEW t \in Task, CreateMysqlTable(t) PROVE TypeOK'
    <2>1. [columns |-> header[t], rows |-> <<>>] \in Table
        BY DEF Table
    <2>2. table' \in [Party -> Table \cup {NoTable}]
        BY <1>9, <2>1, RequestTypes DEF CreateMysqlTable
    <2> QED
        BY <1>9, <1>l, <2>2, GotoType, SameBrokers DEF CreateMysqlTable, Statement
<1>10. ASSUME NEW t \in Task, ClearTable(t) PROVE TypeOK'
    <2> DEFINE p == Req[t].user
    <2>1. CASE table[p] = NoTable
        BY <1>10, <1>l, <2>1, GotoType, SameBrokers, RequestTypes DEF ClearTable, Statement
    <2>2. CASE table[p] # NoTable
        <3>1. [columns |-> table[p].columns, rows |-> <<>>] \in Table
            BY <2>2, RequestTypes DEF Table
        <3>2. table' \in [Party -> Table \cup {NoTable}]
            BY <1>10, <2>2, <3>1, RequestTypes DEF ClearTable
        <3> QED
            BY <1>10, <1>l, <3>2, GotoType, SameBrokers DEF ClearTable, Statement
    <2> QED
        BY <2>1, <2>2
<1>11. ASSUME NEW t \in Task, LoadData(t) PROVE TypeOK'
    <2> DEFINE p == Req[t].user
    <2>1. CASE ~(Loadable(t) /\ datafile[p] # Empty)
        <3>1. table' = table
            BY <1>11, <2>1, RequestTypes DEF LoadData
        <3> QED
            BY <1>11, <1>l, <3>1, GotoType, SameBrokers DEF LoadData, Statement
    <2>2. CASE Loadable(t) /\ datafile[p] # Empty
        <3>1. table[p] \in Table /\ datafile[p] \in Content
            BY <2>2, RequestTypes DEF Loadable
        <3>2. Append(table[p].rows, datafile[p]) \in Seq(Content)
            BY <3>1 DEF Table
        <3>3. [columns |-> table[p].columns, rows |-> Append(table[p].rows, datafile[p])] \in Table
            BY <3>1, <3>2 DEF Table
        <3>4. table' \in [Party -> Table \cup {NoTable}]
            BY <1>11, <2>2, <3>3, RequestTypes DEF LoadData
        <3> QED
            BY <1>11, <1>l, <3>4, GotoType, SameBrokers DEF LoadData, Statement
    <2> QED
        BY <2>1, <2>2
<1>12. ASSUME NEW t \in Task, WaitPorts(t) PROVE TypeOK'
    BY <1>12, <1>l, GotoType, AwaitBound, SameBrokers DEF WaitPorts
<1>13. ASSUME NEW t \in Task, CreateProject(t) PROVE TypeOK'
    <2>1. BrokerTypeOK'
        BY <1>13, RequestTypes, CreateProjectType, SameBrokers DEF CreateProject
    <2>2. at' \in [Task -> Place] /\ faults' \in 0..MaxFaults
        BY <1>13, <1>l, ReplyType, GotoType, FaultBound DEF CreateProject
    <2> QED
        BY <1>13, <2>1, <2>2 DEF CreateProject, localVars, dataVars
<1>14. ASSUME NEW t \in Task, InviteMember(t) PROVE TypeOK'
    <2>1. BrokerTypeOK'
        BY <1>14, RequestTypes, InviteType, SameBrokers DEF InviteMember
    <2>2. at' \in [Task -> Place] /\ faults' \in 0..MaxFaults
        BY <1>14, <1>l, ReplyType, GotoType, FaultBound DEF InviteMember
    <2> QED
        BY <1>14, <2>1, <2>2 DEF InviteMember, localVars, dataVars
<1>15. ASSUME NEW t \in Task, AwaitJoined(t) PROVE TypeOK'
    BY <1>15, <1>l, GotoType, SameBrokers DEF AwaitJoined, localVars, dataVars
<1>16. ASSUME NEW t \in Task, JoinProject(t) PROVE TypeOK'
    <2>1. BrokerTypeOK'
        BY <1>16, RequestTypes, AcceptType, SameBrokers DEF JoinProject
    <2>2. at' \in [Task -> Place] /\ faults' \in 0..MaxFaults
        BY <1>16, <1>l, ReplyType, GotoType, FaultBound DEF JoinProject
    <2> QED
        BY <1>16, <2>1, <2>2 DEF JoinProject, localVars, dataVars
<1>17. ASSUME NEW t \in Task, CreateTable(t) PROVE TypeOK'
    <2>1. BrokerTypeOK'
        BY <1>17, RequestTypes, CreateTableType, SameBrokers DEF CreateTable
    <2>2. at' \in [Task -> Place] /\ faults' \in 0..MaxFaults
        BY <1>17, <1>l, ReplyType, GotoType, FaultBound DEF CreateTable
    <2> QED
        BY <1>17, <2>1, <2>2 DEF CreateTable, localVars, dataVars
<1>18. ASSUME NEW t \in Task, GrantSelf(t) PROVE TypeOK'
    <2>1. {OwnGrant(t, col[t])} \subseteq Grant
        BY <1>18, RequestTypes DEF GrantSelf, dataVars
    <2>2. BrokerTypeOK'
        BY <1>18, <2>1, GrantType, SameBrokers DEF GrantSelf, dataVars
    <2>3. at' \in [Task -> Place] /\ faults' \in 0..MaxFaults
        BY <1>18, <1>l, GotoType, FaultBound DEF GrantSelf, NextColumn, dataVars
    <2>4. NextColumn(t) => col' \in [Task -> Nat] /\ per' \in [Task -> Nat]
        BY DEF NextColumn
    <2>5. NextColumn(t) \/ UNCHANGED <<col, per>>
        BY <1>18 DEF GrantSelf
    <2>6. col' \in [Task -> Nat] /\ per' \in [Task -> Nat]
        BY <2>4, <2>5
    <2> QED
        BY <1>18, <2>2, <2>3, <2>6 DEF GrantSelf, dataVars
<1>19. ASSUME NEW t \in Task, GrantPermission(t) PROVE TypeOK'
    <2>1. {PermissionGrant(t, col[t], per[t])} \subseteq Grant
        BY <1>19, RequestTypes DEF GrantPermission, ColumnInv
    <2>2. BrokerTypeOK'
        BY <1>19, <2>1, GrantType, SameBrokers DEF GrantPermission
    <2>3. faults' \in 0..MaxFaults /\ per' \in [Task -> Nat]
        BY <1>19, FaultBound DEF GrantPermission
    <2> QED
        BY <1>19, <2>2, <2>3 DEF GrantPermission, dataVars
<1>28. ASSUME NEW t \in Task, FinishColumn(t) PROVE TypeOK'
    BY <1>28, <1>l, GotoType, SameBrokers DEF FinishColumn, NextColumn, dataVars
<1>20. ASSUME NEW t \in Task, FinishGrants(t) PROVE TypeOK'
    BY <1>20, <1>l, GotoType, SameBrokers DEF FinishGrants, localVars, dataVars
<1>21. ASSUME NEW t \in Task, RunQuery(t) PROVE TypeOK'
    <2>1. Rendered(t, resfile[Req[t].user]) \in Seq(Task)
        BY RenderedType, RequestTypes
    <2>2. resfile' \in [Party -> Seq(Task)]
        BY <1>21, <2>1 DEF RunQuery
    <2>3. at' \in [Task -> Place] /\ faults' \in 0..MaxFaults
        BY <1>21, <1>l, GotoType, FaultBound DEF RunQuery
    <2>4. tries' \in [Task -> 0..MaxTries]
        <3>1. tries[t] \in 0..MaxTries /\ tries[t] < MaxTries
            BY <1>21 DEF RunQuery, MoreTries
        <3>2. tries[t] + 1 \in 0..MaxTries
            BY <3>1
        <3> QED
            BY <1>21, <3>2 DEF RunQuery
    <2> QED
        BY <1>21, <2>2, <2>3, <2>4, SameBrokers DEF RunQuery
<1>22. ASSUME NEW t \in Task, GiveUp(t) PROVE TypeOK'
    BY <1>22, <1>l, GotoType, SameBrokers DEF GiveUp, localVars, dataVars
<1>23. ASSUME NEW t \in Task, UploadResult(t) PROVE TypeOK'
    <2>1. uploaded' \in [Task -> Seq(Task)]
        BY <1>23, RequestTypes DEF UploadResult, WriteFile
    <2>2. at' \in [Task -> Place] /\ faults' \in 0..MaxFaults
        BY <1>23, <1>l, ReplyType, GotoType, FaultBound DEF UploadResult, WriteFile
    <2> QED
        BY <1>23, <2>1, <2>2, SameBrokers DEF UploadResult
<1>24. ASSUME NEW p \in Party, MysqlReady(p) PROVE TypeOK'
    BY <1>24, SameBrokers DEF MysqlReady
<1>25. ASSUME NEW p \in Party, BrokerStart(p) PROVE TypeOK'
    BY <1>25, ReadyType DEF BrokerStart, taskVars
<1> QED
    BY <1>0, <1>1, <1>2, <1>3, <1>4, <1>5, <1>6, <1>7, <1>8, <1>9, <1>10, <1>11, <1>12, <1>13,
       <1>14, <1>15, <1>16, <1>17, <1>18, <1>19, <1>20, <1>21, <1>22, <1>23, <1>24, <1>25, <1>26,
       <1>27, <1>28
       DEF Next, Step

\* Every variable of the tasks and of the brokers keeps its type, whatever the
\* requests are and however their steps interleave.
THEOREM TypeCorrect == Spec => []TypeOK
<1>1. Init => TypeOK /\ ColumnInv
    BY TypeInit DEF Init, ColumnInv
<1>2. TypeOK /\ ColumnInv /\ [Next]_vars => (TypeOK /\ ColumnInv)'
    BY TypeNext, ColumnNext
<1> QED
    BY <1>1, <1>2, PTL DEF Spec

----------------------------------------------------------------------------
\* Membership.  A broker that has the project is a member of it, and the two
\* sides of an accepted invitation know each other as members.
SelfInv == \A p \in Party : HasProject(p) => p \in members[p]

InvitationInv ==
    \A q \in Party : IsInvited(q) =>
        LET i == FirstInvitation(q) IN
        /\ i.from # q /\ HasProject(i.from)
        /\ i.status = "accepted" => {i.from, q} \subseteq members[i.from] \cap members[q]

\* only an initiator invites, only a partner joins
RoleInv ==
    \A t \in Task : /\ at[t] \in {"project", "invite", "joined"} => Initiator(t)
                    /\ at[t] = "join" => ~Initiator(t)

MemberInv == SelfInv /\ InvitationInv /\ RoleInv /\ PastJoiningIsMember

LEMMA MemberInit == Init => MemberInv
BY DEF Init, BrokerInit, MemberInv, SelfInv, InvitationInv, RoleInv, PastJoiningIsMember,
       HasProject, IsInvited, PastJoining, Granting, Querying

\* Three actions touch the projects and invitations.
LEMMA MembersChange ==
    ASSUME [Next]_vars
    PROVE  \/ UNCHANGED <<members, invites>>
           \/ \E t \in Task : CreateProject(t) /\ BrokerCreateProject(Req[t].user)
           \/ \E t \in Task : InviteMember(t) /\ BrokerInvite(Req[t].user, Req[t].peer)
           \/ \E t \in Task : JoinProject(t) /\ BrokerAccept(Req[t].user)
<1>1. CASE UNCHANGED vars
    BY <1>1 DEF vars, brokerVars
<1>2. ASSUME NEW t \in Task, CreateProject(t)
      PROVE  UNCHANGED <<members, invites>> \/ BrokerCreateProject(Req[t].user)
    BY <1>2 DEF CreateProject, brokerVars
<1>3. ASSUME NEW t \in Task, InviteMember(t)
      PROVE  UNCHANGED <<members, invites>> \/ BrokerInvite(Req[t].user, Req[t].peer)
    BY <1>3 DEF InviteMember, brokerVars
<1>4. ASSUME NEW t \in Task, JoinProject(t)
      PROVE  UNCHANGED <<members, invites>> \/ BrokerAccept(Req[t].user)
    BY <1>4 DEF JoinProject, brokerVars
<1>5. ASSUME NEW t \in Task,
             \/ Submit(t) \/ ReadConfig(t) \/ TruncateConfig(t) \/ WriteConfig(t)
             \/ RestartBroker(t) \/ WaitMysql(t) \/ Download(t)
             \/ StoreData(t) \/ ReadHeader(t) \/ DropTable(t) \/ CreateMysqlTable(t)
             \/ ClearTable(t) \/ LoadData(t) \/ WaitPorts(t) \/ AwaitJoined(t)
      PROVE  UNCHANGED <<members, invites>>
    BY <1>5 DEF Submit, ReadConfig, TruncateConfig, WriteConfig, RestartBroker, StopBroker,
                WaitMysql, Download, StoreData, ReadHeader, DropTable, CreateMysqlTable,
                ClearTable, LoadData, Statement, WaitPorts, AwaitJoined, brokerVars, dataVars
<1>6. ASSUME NEW t \in Task,
             \/ CreateTable(t) \/ GrantSelf(t) \/ GrantPermission(t) \/ FinishColumn(t) \/ FinishGrants(t)
             \/ RunQuery(t) \/ GiveUp(t) \/ UploadResult(t)
      PROVE  UNCHANGED <<members, invites>>
    BY <1>6 DEF CreateTable, BrokerCreateTable, GrantSelf, GrantPermission, FinishColumn,
                BrokerGrant, FinishGrants, RunQuery, GiveUp, UploadResult, brokerVars, dataVars
<1>7. ASSUME NEW p \in Party, MysqlReady(p) \/ BrokerStart(p)
      PROVE  UNCHANGED <<members, invites>>
    BY <1>7 DEF MysqlReady, BrokerStart, BrokerReady, brokerVars
<1> QED
    BY <1>1, <1>2, <1>3, <1>4, <1>5, <1>6, <1>7 DEF Next, Step

\* What the three actions leave of the invariants of the brokers.
LEMMA MembersNext ==
    ASSUME TypeOK, SelfInv, InvitationInv, [Next]_vars
    PROVE  SelfInv' /\ InvitationInv' /\ \A p \in Party : members[p] \subseteq members'[p]
<1> USE DEF TypeOK, BrokerTypeOK, HasProject, IsInvited
<1>1. CASE UNCHANGED <<members, invites>>
    BY <1>1 DEF SelfInv, InvitationInv, FirstInvitation
<1>2. ASSUME NEW p \in Party, BrokerCreateProject(p)
      PROVE  SelfInv' /\ InvitationInv' /\ \A q \in Party : members[q] \subseteq members'[q]
    <2>1. members' = [members EXCEPT ![p] = {p}] /\ members[p] = {} /\ invites' = invites
        BY <1>2 DEF BrokerCreateProject
    <2>2. \A q \in Party : members[q] \subseteq members'[q] /\ (q # p => members'[q] = members[q])
        BY <2>1
    <2>3. SelfInv'
        BY <2>1, <2>2 DEF SelfInv
    <2>4. InvitationInv'
        <3> SUFFICES ASSUME NEW q \in Party, invites'[q] # <<>>
                     PROVE  LET i == Head(invites'[q]) IN
                            /\ i.from # q /\ members'[i.from] # {}
                            /\ i.status = "accepted" => {i.from, q} \subseteq members'[i.from] \cap members'[q]
            BY DEF InvitationInv, FirstInvitation
        <3> DEFINE i == Head(invites[q])
        <3>1. i \in Invitation
            BY <2>1
        <3>2. i.from \in Party
            BY <3>1 DEF Invitation
        <3> QED
            BY <2>1, <2>2, <3>2 DEF InvitationInv, FirstInvitation
    <2> QED
        BY <2>2, <2>3, <2>4
<1>3. ASSUME NEW p \in Party, NEW q \in Party, p # q, BrokerInvite(p, q)
      PROVE  SelfInv' /\ InvitationInv' /\ \A s \in Party : members[s] \subseteq members'[s]
    <2> DEFINE new == [from |-> p, status |-> "undecided"]
    <2>1. members' = members /\ members[p] # {} /\ invites' = [invites EXCEPT ![q] = Append(@, new)]
        BY <1>3 DEF BrokerInvite
    <2>2. new \in Invitation
        BY DEF Invitation
    <2>3. ASSUME NEW s \in Party, invites'[s] # <<>>
          PROVE  (Head(invites'[s]) = new /\ s = q) \/ (Head(invites'[s]) = Head(invites[s]) /\ invites[s] # <<>>)
        <3>1. CASE s # q
            BY <2>1, <2>3, <3>1
        <3>2. CASE s = q
            <4>1. invites'[q] = Append(invites[q], new) /\ invites[q] \in Seq(Invitation)
                BY <2>1
            <4> HIDE DEF new
            <4>2. Head(invites'[q]) = IF invites[q] = <<>> THEN new ELSE Head(invites[q])
                BY <4>1, <2>2, AppendProperties
            <4> QED
                BY <3>2, <4>2
        <3> QED
            BY <3>1, <3>2
    <2>4. InvitationInv'
        <3> SUFFICES ASSUME NEW s \in Party, invites'[s] # <<>>
                     PROVE  LET i == Head(invites'[s]) IN
                            /\ i.from # s /\ members[i.from] # {}
                            /\ i.status = "accepted" => {i.from, s} \subseteq members[i.from] \cap members[s]
            BY <2>1 DEF InvitationInv, FirstInvitation
        <3>1. CASE Head(invites'[s]) = new /\ s = q
            <4>1. new.from = p /\ new.status = "undecided"
                OBVIOUS
            <4> HIDE DEF new
            <4> QED
                BY <1>3, <2>1, <3>1, <4>1
        <3>2. CASE Head(invites'[s]) = Head(invites[s]) /\ invites[s] # <<>>
            BY <3>2 DEF InvitationInv, FirstInvitation
        <3> QED
            BY <2>3, <3>1, <3>2
    <2>5. SelfInv'
        BY <2>1 DEF SelfInv
    <2> QED
        BY <2>1, <2>4, <2>5
<1>4. ASSUME NEW q \in Party, BrokerAccept(q)
      PROVE  SelfInv' /\ InvitationInv' /\ \A s \in Party : members[s] \subseteq members'[s]
    <2> DEFINE p == FirstInvitation(q).from
               joined == members[p] \cup members[q] \cup {q}
    <2>1. invites[q] \in Seq(Invitation) /\ invites[q] # <<>>
        BY <1>4 DEF BrokerAccept
    <2>2. FirstInvitation(q) = invites[q][1] /\ FirstInvitation(q) \in Invitation /\ p \in Party
        <3>1. FirstInvitation(q) = invites[q][1] /\ FirstInvitation(q) \in Invitation
            BY <2>1 DEF FirstInvitation
        <3>2. FirstInvitation(q).from \in Party
            BY <3>1 DEF Invitation
        <3> QED
            BY <3>1, <3>2
    <2>3. p # q /\ p \in members[p]
        BY <2>1, <2>2 DEF InvitationInv, SelfInv
    <2>4. members' = [members EXCEPT ![p] = joined, ![q] = joined]
        BY <1>4 DEF BrokerAccept
    <2>5. members'[p] = joined /\ members'[q] = joined /\ \A s \in Party \ {p, q} : members'[s] = members[s]
        BY <2>2, <2>3, <2>4
    <2>6. \A s \in Party : members[s] \subseteq members'[s]
        BY <2>5
    <2>7. SelfInv'
        BY <2>3, <2>5 DEF SelfInv
    <2>8. invites' = [invites EXCEPT ![q][1].status = "accepted"]
        BY <1>4 DEF BrokerAccept
    <2>9. invites'[q] # <<>> /\ Head(invites'[q]).from = p
        <3>1. invites'[q] = [invites[q] EXCEPT ![1].status = "accepted"]
            BY <2>8
        <3>2. 1 \in DOMAIN invites[q]
            BY <2>1
        <3>3. invites'[q][1] = [invites[q][1] EXCEPT !.status = "accepted"] /\ 1 \in DOMAIN invites'[q]
            BY <3>1, <3>2
        <3>4. invites'[q] # <<>> /\ Head(invites'[q]) = invites'[q][1]
            BY <3>3
        <3> QED
            BY <2>2, <3>3, <3>4 DEF Invitation
    <2>10. InvitationInv'
        <3> SUFFICES ASSUME NEW s \in Party, invites'[s] # <<>>
                     PROVE  LET i == Head(invites'[s]) IN
                            /\ i.from # s /\ members'[i.from] # {}
                            /\ i.status = "accepted" => {i.from, s} \subseteq members'[i.from] \cap members'[s]
            BY DEF InvitationInv, FirstInvitation
        <3>1. CASE s = q
            BY <2>3, <2>5, <2>9, <3>1
        <3>2. CASE s # q
            <4>1. invites'[s] = invites[s]
                BY <2>8, <3>2
            <4>2. invites[s] \in Seq(Invitation) /\ invites[s] # <<>>
                BY <4>1
            <4>3. Head(invites[s]) \in Invitation
                BY <4>2
            <4>4. Head(invites[s]).from \in Party
                BY <4>3 DEF Invitation
            <4> QED
                BY <2>6, <4>1, <4>2, <4>4 DEF InvitationInv, FirstInvitation
        <3> QED
            BY <3>1, <3>2
    <2> QED
        BY <2>6, <2>7, <2>10
<1> QED
    BY <1>1, <1>2, <1>3, <1>4, MembersChange, RequestTypes

\* Where a task goes from the stages of the protocol.
LEMMA RoleNext == ASSUME TypeOK, RoleInv, [Next]_vars PROVE RoleInv'
<1> USE DEF RoleInv
<1>1. CASE UNCHANGED vars
    BY <1>1 DEF vars, taskVars
<1> DEFINE Stays == \A s \in Task : at'[s] = at[s] \/ at'[s] \notin Joining
<1>2. ASSUME Stays PROVE RoleInv'
    BY <1>2 DEF Joining
<1>3. ASSUME NEW t \in Task,
             \/ Submit(t) \/ ReadConfig(t) \/ TruncateConfig(t) \/ WriteConfig(t)
             \/ RestartBroker(t) \/ WaitMysql(t) \/ Download(t)
             \/ StoreData(t) \/ DropTable(t) \/ CreateMysqlTable(t)
             \/ ClearTable(t) \/ LoadData(t)
      PROVE  Stays
    BY <1>3 DEF Submit, ReadConfig, TruncateConfig, WriteConfig, RestartBroker, WaitMysql,
                Download, ReadFile, Reply, StoreData, DropTable, CreateMysqlTable, ClearTable,
                LoadData, Statement, Goto, TypeOK, Joining, dataVars
<1>4. ASSUME NEW t \in Task, ReadHeader(t) PROVE Stays
    BY <1>4 DEF ReadHeader, Kill, Goto, TypeOK, Joining
<1>5. ASSUME NEW t \in Task,
             \/ AwaitJoined(t) \/ CreateTable(t) \/ GrantSelf(t) \/ GrantPermission(t) \/ FinishColumn(t)
             \/ FinishGrants(t) \/ RunQuery(t) \/ GiveUp(t) \/ UploadResult(t)
      PROVE  Stays
    BY <1>5 DEF AwaitJoined, CreateTable, GrantSelf, GrantPermission, FinishColumn, NextColumn,
                FinishGrants, RunQuery, GiveUp, UploadResult, WriteFile, Reply, Goto, TypeOK,
                Joining, dataVars
<1>6. ASSUME NEW t \in Task, WaitPorts(t) PROVE RoleInv'
    BY <1>6 DEF WaitPorts, Goto, TypeOK
<1>7. ASSUME NEW t \in Task, CreateProject(t) \/ InviteMember(t) PROVE RoleInv'
    BY <1>7 DEF CreateProject, InviteMember, Reply, Goto, TypeOK
<1>8. ASSUME NEW t \in Task, JoinProject(t) PROVE RoleInv'
    BY <1>8 DEF JoinProject, Reply, Goto, TypeOK
<1>9. ASSUME NEW p \in Party, MysqlReady(p) \/ BrokerStart(p) PROVE Stays
    BY <1>9 DEF MysqlReady, BrokerStart, taskVars
<1> HIDE DEF Stays
<1> QED
    BY <1>1, <1>2, <1>3, <1>4, <1>5, <1>6, <1>7, <1>8, <1>9 DEF Next, Step

\* A task leaves the joining stages through two actions.
LEMMA PastJoiningNext ==
    ASSUME TypeOK, [Next]_vars, NEW t \in Task, PastJoining(t)', ~PastJoining(t)
    PROVE  AwaitJoined(t) \/ JoinProject(t)
<1> USE DEF PastJoining, Granting, Querying
<1>1. ASSUME UNCHANGED at PROVE FALSE
    BY <1>1
<1>2. ASSUME NEW s \in Task, s # t, at'[t] = at[t] PROVE FALSE
    BY <1>2
<1>3. ASSUME NEW s \in Task,
             \/ Submit(s) \/ ReadConfig(s) \/ TruncateConfig(s) \/ WriteConfig(s)
             \/ RestartBroker(s) \/ WaitMysql(s) \/ Download(s)
             \/ StoreData(s) \/ DropTable(s) \/ CreateMysqlTable(s)
             \/ ClearTable(s) \/ LoadData(s) \/ WaitPorts(s)
      PROVE  FALSE
    BY <1>3 DEF Submit, ReadConfig, TruncateConfig, WriteConfig, RestartBroker, WaitMysql,
                Download, ReadFile, Reply, StoreData, DropTable, CreateMysqlTable, ClearTable,
                LoadData, WaitPorts, Statement, Goto, TypeOK, dataVars
<1>4. ASSUME NEW s \in Task, ReadHeader(s) PROVE FALSE
    BY <1>4 DEF ReadHeader, Kill, Goto, TypeOK
<1>5. ASSUME NEW s \in Task, CreateProject(s) \/ InviteMember(s) PROVE FALSE
    BY <1>5 DEF CreateProject, InviteMember, Reply, Goto, TypeOK
<1>6. ASSUME NEW s \in Task,
             \/ CreateTable(s) \/ GrantSelf(s) \/ GrantPermission(s) \/ FinishColumn(s)
             \/ FinishGrants(s) \/ RunQuery(s) \/ GiveUp(s) \/ UploadResult(s)
      PROVE  FALSE
    BY <1>6 DEF CreateTable, GrantSelf, GrantPermission, FinishColumn, NextColumn, FinishGrants,
                RunQuery, GiveUp, UploadResult, WriteFile, Reply, Goto, TypeOK, dataVars
<1>7. ASSUME NEW s \in Task, AwaitJoined(s) PROVE AwaitJoined(t)
    BY <1>7 DEF AwaitJoined, Goto, TypeOK
<1>8. ASSUME NEW s \in Task, JoinProject(s) PROVE JoinProject(t)
    BY <1>8 DEF JoinProject, Reply, Goto, TypeOK
<1>9. ASSUME NEW p \in Party, MysqlReady(p) \/ BrokerStart(p) PROVE UNCHANGED at
    BY <1>9 DEF MysqlReady, BrokerStart, taskVars
<1> QED
    BY <1>1, <1>3, <1>4, <1>5, <1>6, <1>7, <1>8, <1>9 DEF Next, Step, vars, taskVars

LEMMA MemberNext ==
    ASSUME TypeOK, MemberInv, [Next]_vars
    PROVE  MemberInv'
<1>1. SelfInv /\ InvitationInv /\ RoleInv /\ PastJoiningIsMember
    BY DEF MemberInv
<1>2. SelfInv' /\ InvitationInv' /\ \A p \in Party : members[p] \subseteq members'[p]
    BY <1>1, MembersNext
<1>3. RoleInv'
    BY <1>1, RoleNext
<1>4. PastJoiningIsMember'
    <2> SUFFICES ASSUME NEW t \in Task, PastJoining(t)'
                 PROVE  IF Initiator(t)
                        THEN {Req[t].user, Req[t].peer} \subseteq members'[Req[t].user]
                        ELSE \E p \in Party \ {Req[t].user} :
                                 {p, Req[t].user} \subseteq members'[p] \cap members'[Req[t].user]
        BY DEF PastJoiningIsMember, Initiator
    <2>0. Req[t].user \in Party /\ Req[t].peer \in Party
        BY RequestTypes
    <2>1. CASE PastJoining(t)
        BY <1>1, <1>2, <2>0, <2>1 DEF PastJoiningIsMember
    <2>2. CASE AwaitJoined(t)
        BY <1>1, <2>0, <2>2 DEF AwaitJoined, ProjectMemberJoined, RoleInv, SelfInv, brokerVars
    <2>3. ASSUME JoinProject(t), AlreadyHandled(Req[t].user), UNCHANGED brokerVars PROVE
              \E p \in Party \ {Req[t].user} :
                 {p, Req[t].user} \subseteq members'[p] \cap members'[Req[t].user]
        <3> DEFINE q == Req[t].user
                   i == FirstInvitation(q)
        <3>1. invites[q] \in Seq(Invitation) /\ invites[q] # <<>> /\ i.status = "accepted"
            BY <2>0, <2>3 DEF TypeOK, BrokerTypeOK, AlreadyHandled, IsInvited
        <3>2. i \in Invitation
            BY <3>1 DEF FirstInvitation
        <3>3. i.from \in Party
            BY <3>2 DEF Invitation
        <3>4. i.from # q /\ {i.from, q} \subseteq members[i.from] \cap members[q]
            BY <1>1, <2>0, <3>1 DEF InvitationInv, IsInvited
        <3> QED
            BY <2>3, <3>3, <3>4 DEF brokerVars
    <2>4. ASSUME JoinProject(t), BrokerAccept(Req[t].user) PROVE
              \E p \in Party \ {Req[t].user} :
                 {p, Req[t].user} \subseteq members'[p] \cap members'[Req[t].user]
        <3> DEFINE q == Req[t].user
                   p == FirstInvitation(q).from
                   joined == members[p] \cup members[q] \cup {q}
        <3>1. invites[q] \in Seq(Invitation) /\ invites[q] # <<>>
            BY <2>0, <2>4 DEF TypeOK, BrokerTypeOK, BrokerAccept, IsInvited
        <3>2. FirstInvitation(q) \in Invitation
            BY <3>1 DEF FirstInvitation
        <3>3. p \in Party
            BY <3>2 DEF Invitation
        <3>4. p # q /\ p \in members[p]
            BY <1>1, <2>0, <3>1, <3>3 DEF InvitationInv, SelfInv, IsInvited
        <3>5. members' = [members EXCEPT ![p] = joined, ![q] = joined]
            BY <2>4 DEF BrokerAccept
        <3>6. members'[p] = joined /\ members'[q] = joined
            BY <2>0, <3>3, <3>4, <3>5 DEF TypeOK, BrokerTypeOK
        <3>7. {p, q} \subseteq joined
            BY <3>4
        <3> QED
            BY <3>3, <3>4, <3>6, <3>7
    <2>5. ASSUME JoinProject(t), PastJoining(t)', ~PastJoining(t)
          PROVE  BrokerAccept(Req[t].user) \/ (AlreadyHandled(Req[t].user) /\ UNCHANGED brokerVars)
        BY <2>5 DEF JoinProject
    <2>6. JoinProject(t) => ~Initiator(t)
        BY <1>1 DEF RoleInv, JoinProject
    <2> QED
        BY <2>1, <2>2, <2>3, <2>4, <2>5, <2>6, PastJoiningNext
<1> QED
    BY <1>2, <1>3, <1>4 DEF MemberInv

\* Whatever broker replies get lost and however many tasks run, a partner that
\* leaves the join loop, and an initiator that leaves the wait for its peer,
\* are members of a common project.
THEOREM PartnersAreMembers == Spec => []PastJoiningIsMember
<1>1. Init => TypeOK /\ ColumnInv /\ MemberInv
    BY TypeInit, MemberInit DEF Init, ColumnInv
<1>2. TypeOK /\ ColumnInv /\ MemberInv /\ [Next]_vars => (TypeOK /\ ColumnInv /\ MemberInv)'
    BY TypeNext, ColumnNext, MemberNext
<1>3. MemberInv => PastJoiningIsMember
    BY DEF MemberInv
<1> QED
    BY <1>1, <1>2, <1>3, PTL DEF Spec

----------------------------------------------------------------------------
\* Disclosure.  A task that has been submitted stays submitted, and what it
\* grants is in its request.
LEMMA StartedNext ==
    ASSUME TypeOK, [Next]_vars, NEW t \in Task, at[t] # "new"
    PROVE  at'[t] # "new"
<1>1. CASE UNCHANGED vars
    BY <1>1 DEF vars, taskVars
<1>2. ASSUME NEW s \in Task,
             \/ Submit(s) \/ ReadConfig(s) \/ TruncateConfig(s) \/ WriteConfig(s)
             \/ RestartBroker(s) \/ WaitMysql(s) \/ Download(s)
             \/ StoreData(s) \/ DropTable(s) \/ CreateMysqlTable(s)
             \/ ClearTable(s) \/ LoadData(s) \/ WaitPorts(s)
      PROVE  at'[t] # "new"
    BY <1>2 DEF Submit, ReadConfig, TruncateConfig, WriteConfig, RestartBroker, WaitMysql,
                Download, ReadFile, Reply, StoreData, DropTable, CreateMysqlTable, ClearTable,
                LoadData, WaitPorts, Statement, Goto, TypeOK, dataVars
<1>3. ASSUME NEW s \in Task, ReadHeader(s) PROVE at'[t] # "new"
    BY <1>3 DEF ReadHeader, Kill, Goto, TypeOK
<1>4. ASSUME NEW s \in Task,
             CreateProject(s) \/ InviteMember(s) \/ AwaitJoined(s) \/ JoinProject(s)
      PROVE  at'[t] # "new"
    BY <1>4 DEF CreateProject, InviteMember, AwaitJoined, JoinProject, Reply, Goto, TypeOK
<1>5. ASSUME NEW s \in Task,
             \/ CreateTable(s) \/ GrantSelf(s) \/ GrantPermission(s) \/ FinishColumn(s)
             \/ FinishGrants(s) \/ RunQuery(s) \/ GiveUp(s) \/ UploadResult(s)
      PROVE  at'[t] # "new"
    BY <1>5 DEF CreateTable, GrantSelf, GrantPermission, FinishColumn, NextColumn, FinishGrants,
                RunQuery, GiveUp, UploadResult, WriteFile, Reply, Goto, TypeOK, dataVars
<1>6. ASSUME NEW p \in Party, MysqlReady(p) \/ BrokerStart(p) PROVE at'[t] # "new"
    BY <1>6 DEF MysqlReady, BrokerStart, taskVars
<1> QED
    BY <1>1, <1>2, <1>3, <1>4, <1>5, <1>6 DEF Next, Step

LEMMA DisclosureStep ==
    ASSUME ColumnInv, [Next]_vars
    PROVE  \/ UNCHANGED ccl
           \/ \E t \in Task : at[t] # "new" /\ ccl' \subseteq ccl \cup RequestedGrants(t)
<1>1. CASE UNCHANGED vars
    BY <1>1 DEF vars, brokerVars
<1>2. ASSUME NEW t \in Task,
             \/ Submit(t) \/ ReadConfig(t) \/ TruncateConfig(t) \/ WriteConfig(t)
             \/ RestartBroker(t) \/ WaitMysql(t) \/ Download(t)
             \/ StoreData(t) \/ ReadHeader(t) \/ DropTable(t) \/ CreateMysqlTable(t)
             \/ ClearTable(t) \/ LoadData(t) \/ WaitPorts(t) \/ AwaitJoined(t)
      PROVE  UNCHANGED ccl
    BY <1>2 DEF Submit, ReadConfig, TruncateConfig, WriteConfig, RestartBroker, StopBroker,
                WaitMysql, Download, StoreData, ReadHeader, DropTable, CreateMysqlTable,
                ClearTable, LoadData, Statement, WaitPorts, AwaitJoined, brokerVars, dataVars
<1>3. ASSUME NEW t \in Task,
             \/ CreateProject(t) \/ InviteMember(t) \/ JoinProject(t) \/ CreateTable(t)
             \/ FinishGrants(t) \/ RunQuery(t) \/ GiveUp(t) \/ UploadResult(t)
      PROVE  UNCHANGED ccl
    BY <1>3 DEF CreateProject, BrokerCreateProject, InviteMember, BrokerInvite, JoinProject,
                BrokerAccept, CreateTable, BrokerCreateTable, FinishGrants, RunQuery, GiveUp,
                UploadResult, brokerVars
<1>4. ASSUME NEW t \in Task, GrantSelf(t)
      PROVE  UNCHANGED ccl \/ (at[t] # "new" /\ ccl' \subseteq ccl \cup RequestedGrants(t))
    <2>1. at[t] = "grant" /\ col[t] \in DOMAIN Req[t].columns
        BY <1>4 DEF GrantSelf, dataVars
    <2>2. OwnGrant(t, col[t]) \in RequestedGrants(t)
        BY <2>1 DEF RequestedGrants, ColumnGrants
    <2>3. UNCHANGED ccl \/ ccl' = ccl \cup {OwnGrant(t, col[t])}
        BY <1>4 DEF GrantSelf, BrokerGrant, brokerVars, dataVars
    <2> QED
        BY <2>1, <2>2, <2>3
<1>5. ASSUME NEW t \in Task, GrantPermission(t)
      PROVE  UNCHANGED ccl \/ (at[t] # "new" /\ ccl' \subseteq ccl \cup RequestedGrants(t))
    <2> DEFINE g == PermissionGrant(t, col[t], per[t])
    <2>1. at[t] = "permit" /\ col[t] \in DOMAIN Req[t].columns
        BY <1>5 DEF GrantPermission, ColumnInv
    <2>2. UNCHANGED ccl \/ (per[t] \in Supported(t, col[t]) /\ ccl' = ccl \cup {g})
        BY <1>5 DEF GrantPermission, BrokerGrant, brokerVars
    <2>3. ASSUME per[t] \in Supported(t, col[t]) PROVE g \in RequestedGrants(t)
        <3>1. g \in ColumnGrants(t, col[t])
            BY <2>3 DEF ColumnGrants
        <3> QED
            BY <2>1, <3>1 DEF RequestedGrants
    <2> QED
        BY <2>1, <2>2, <2>3
<1>7. ASSUME NEW t \in Task, FinishColumn(t) PROVE UNCHANGED ccl
    BY <1>7 DEF FinishColumn, brokerVars
<1>6. ASSUME NEW p \in Party, MysqlReady(p) \/ BrokerStart(p)
      PROVE  UNCHANGED ccl
    BY <1>6 DEF MysqlReady, BrokerStart, BrokerReady, brokerVars
<1> QED
    BY <1>1, <1>2, <1>3, <1>4, <1>5, <1>6, <1>7 DEF Next, Step

\* No column is ever disclosed to a party that no submitted request of the
\* owner's container names, for all requests and every interleaving.
THEOREM OnlyRequestedDisclosure == Spec => []OnlyRequestedGrants
<1>1. Init => TypeOK /\ ColumnInv /\ OnlyRequestedGrants
    BY TypeInit DEF Init, BrokerInit, ColumnInv, OnlyRequestedGrants
<1>2. ASSUME TypeOK, ColumnInv, OnlyRequestedGrants, [Next]_vars
      PROVE  OnlyRequestedGrants'
    <2> DEFINE Started == {s \in Task : at[s] # "new"}
               Requested == UNION {RequestedGrants(t) : t \in Started}
    <2>1. Started \subseteq Started'
        BY <1>2, StartedNext
    <2>2. \A t \in Task : RequestedGrants(t)' = RequestedGrants(t)
        BY DEF RequestedGrants, ColumnGrants, OwnGrant, PermissionGrant, Supported,
               GrantCCL
    <2> HIDE DEF Started
    <2>3. UNION {RequestedGrants(t) : t \in Started} \subseteq UNION {RequestedGrants(t) : t \in Started'}
        BY <2>1
    <2>4. ccl \subseteq UNION {RequestedGrants(t) : t \in Started}
        BY <1>2 DEF OnlyRequestedGrants, Started
    <2>5. ccl' \subseteq UNION {RequestedGrants(t) : t \in Started'}
        <3>1. ASSUME NEW t \in Task, at[t] # "new"
              PROVE  RequestedGrants(t) \subseteq UNION {RequestedGrants(s) : s \in Started}
            BY <3>1 DEF Started
        <3> QED
            BY <1>2, <2>3, <2>4, <3>1, DisclosureStep
    <2> QED
        BY <2>5 DEF OnlyRequestedGrants, Started, RequestedGrants, ColumnGrants, OwnGrant, PermissionGrant, Supported,
               GrantCCL
<1> QED
    BY <1>1, <1>2, TypeNext, ColumnNext, PTL DEF Spec

\* while a task grants a column's permissions, the owner's own grant is there
OwnGrantInv == \A t \in Task : at[t] = "permit" => OwnGrant(t, col[t]) \in ccl

\* Where a task comes from that grants permissions.
LEMMA PermitStep ==
    ASSUME TypeOK, [Next]_vars, NEW t \in Task, at'[t] = "permit"
    PROVE  \/ at[t] = "permit" /\ col'[t] = col[t]
           \/ GrantSelf(t)
<1>1. CASE UNCHANGED <<at, col>>
    BY <1>1
<1>2. ASSUME NEW s \in Task, GrantSelf(s) PROVE (at[t] = "permit" /\ col'[t] = col[t]) \/ s = t
    BY <1>2 DEF GrantSelf, NextColumn, Goto, TypeOK
<1>3. ASSUME NEW s \in Task, GrantPermission(s) PROVE UNCHANGED <<at, col>>
    BY <1>3 DEF GrantPermission
<1>4. ASSUME NEW s \in Task, FinishColumn(s) PROVE at[t] = "permit" /\ col'[t] = col[t]
    BY <1>4 DEF FinishColumn, NextColumn, Goto, TypeOK
<1>5. ASSUME NEW s \in Task,
             \/ Submit(s) \/ ReadConfig(s) \/ TruncateConfig(s) \/ WriteConfig(s)
             \/ RestartBroker(s) \/ WaitMysql(s) \/ Download(s)
             \/ StoreData(s) \/ ReadHeader(s) \/ DropTable(s) \/ CreateMysqlTable(s)
             \/ ClearTable(s) \/ LoadData(s) \/ WaitPorts(s)
      PROVE  at[t] = "permit" /\ UNCHANGED col
    BY <1>5 DEF Submit, ReadConfig, TruncateConfig, WriteConfig, RestartBroker, WaitMysql,
                Download, ReadFile, Reply, StoreData, ReadHeader, Kill, DropTable,
                CreateMysqlTable, ClearTable, LoadData, Statement, WaitPorts, Goto, TypeOK
<1>6. ASSUME NEW s \in Task,
             \/ CreateProject(s) \/ InviteMember(s) \/ AwaitJoined(s) \/ JoinProject(s)
             \/ CreateTable(s) \/ FinishGrants(s) \/ RunQuery(s) \/ GiveUp(s) \/ UploadResult(s)
      PROVE  at[t] = "permit" /\ UNCHANGED col
    BY <1>6 DEF CreateProject, InviteMember, AwaitJoined, JoinProject, CreateTable, FinishGrants,
                RunQuery, GiveUp, UploadResult, WriteFile, Reply, Goto, TypeOK, localVars
<1>7. ASSUME NEW p \in Party, MysqlReady(p) \/ BrokerStart(p) PROVE UNCHANGED <<at, col>>
    BY <1>7 DEF MysqlReady, BrokerStart, taskVars
<1> QED
    BY <1>1, <1>2, <1>3, <1>4, <1>5, <1>6, <1>7 DEF Next, Step, vars, taskVars

\* Which grant a step adds.
LEMMA GrantStep ==
    ASSUME [Next]_vars
    PROVE  \/ UNCHANGED ccl
           \/ \E t \in Task : ccl' = ccl \cup {OwnGrant(t, col[t])}
           \/ \E t \in Task : /\ at[t] = "permit"
                             /\ ccl' = ccl \cup {PermissionGrant(t, col[t], per[t])}
<1>1. CASE UNCHANGED vars
    BY <1>1 DEF vars, brokerVars
<1>2. ASSUME NEW t \in Task,
             \/ Submit(t) \/ ReadConfig(t) \/ TruncateConfig(t) \/ WriteConfig(t)
             \/ RestartBroker(t) \/ WaitMysql(t) \/ Download(t)
             \/ StoreData(t) \/ ReadHeader(t) \/ DropTable(t) \/ CreateMysqlTable(t)
             \/ ClearTable(t) \/ LoadData(t) \/ WaitPorts(t) \/ AwaitJoined(t)
      PROVE  UNCHANGED ccl
    BY <1>2 DEF Submit, ReadConfig, TruncateConfig, WriteConfig, RestartBroker, StopBroker,
                WaitMysql, Download, StoreData, ReadHeader, DropTable, CreateMysqlTable,
                ClearTable, LoadData, Statement, WaitPorts, AwaitJoined, brokerVars
<1>3. ASSUME NEW t \in Task,
             \/ CreateProject(t) \/ InviteMember(t) \/ JoinProject(t) \/ CreateTable(t)
             \/ FinishColumn(t) \/ FinishGrants(t) \/ RunQuery(t) \/ GiveUp(t) \/ UploadResult(t)
      PROVE  UNCHANGED ccl
    BY <1>3 DEF CreateProject, BrokerCreateProject, InviteMember, BrokerInvite, JoinProject,
                BrokerAccept, CreateTable, BrokerCreateTable, FinishColumn, FinishGrants, RunQuery,
                GiveUp, UploadResult, brokerVars
<1>4. ASSUME NEW t \in Task, GrantSelf(t)
      PROVE  UNCHANGED ccl \/ ccl' = ccl \cup {OwnGrant(t, col[t])}
    BY <1>4 DEF GrantSelf, BrokerGrant, brokerVars
<1>5. ASSUME NEW t \in Task, GrantPermission(t)
      PROVE  UNCHANGED ccl \/ (at[t] = "permit" /\ ccl' = ccl \cup {PermissionGrant(t, col[t], per[t])})
    BY <1>5 DEF GrantPermission, BrokerGrant, brokerVars
<1>6. ASSUME NEW p \in Party, MysqlReady(p) \/ BrokerStart(p) PROVE UNCHANGED ccl
    BY <1>6 DEF MysqlReady, BrokerStart, BrokerReady, brokerVars
<1> QED
    BY <1>1, <1>2, <1>3, <1>4, <1>5, <1>6 DEF Next, Step

\* Whatever tasks overlap, restart the broker and lose replies, a column is granted
\* to a party only after its owner's own grant.  (task.go, lines 290-294)
THEOREM OwnGrantFirst == Spec => []PermissionsFollowOwn
<1> DEFINE Inv == TypeOK /\ ColumnInv /\ OwnGrantInv /\ PermissionsFollowOwn
<1>1. Init => Inv
    BY TypeInit DEF Init, BrokerInit, ColumnInv, OwnGrantInv, PermissionsFollowOwn
<1>2. ASSUME Inv, [Next]_vars PROVE Inv'
    <2>1. TypeOK' /\ ColumnInv'
        BY <1>2, TypeNext, ColumnNext
    <2>2. ccl \subseteq ccl'
        BY <1>2, GrantStep
    <2>3. OwnGrantInv'
        <3> SUFFICES ASSUME NEW t \in Task, at'[t] = "permit" PROVE OwnGrant(t, col'[t]) \in ccl'
            BY DEF OwnGrantInv, OwnGrant, GrantCCL
        <3>1. CASE at[t] = "permit" /\ col'[t] = col[t]
            BY <1>2, <2>2, <3>1 DEF OwnGrantInv
        <3>2. CASE GrantSelf(t)
            <4>1. at[t] = "grant"
                BY <3>2 DEF GrantSelf
            <4>2. ~NextColumn(t)
                BY <1>2, <4>1 DEF NextColumn, Goto, TypeOK
            <4>3. ccl' = ccl \cup {OwnGrant(t, col[t])} /\ UNCHANGED col
                BY <3>2, <4>2 DEF GrantSelf, BrokerGrant
            <4> QED
                BY <4>3
        <3> QED
            BY <1>2, <3>1, <3>2, PermitStep
    <2>4. PermissionsFollowOwn'
        <3> SUFFICES ASSUME NEW g \in ccl', g \notin ccl PROVE <<g[1], g[2], g[1]>> \in ccl'
            BY <1>2, <2>2 DEF PermissionsFollowOwn
        <3>1. ASSUME NEW t \in Task, g = OwnGrant(t, col[t]) PROVE g = <<g[1], g[2], g[1]>>
            BY <3>1 DEF OwnGrant, GrantCCL
        <3>2. ASSUME NEW t \in Task, at[t] = "permit", g = PermissionGrant(t, col[t], per[t])
              PROVE  <<g[1], g[2], g[1]>> \in ccl
            <4>1. OwnGrant(t, col[t]) \in ccl
                BY <1>2, <3>2 DEF OwnGrantInv
            <4> QED
                BY <3>2, <4>1 DEF OwnGrant, PermissionGrant, GrantCCL
        <3>3. \/ \E t \in Task : g = OwnGrant(t, col[t])
              \/ \E t \in Task : at[t] = "permit" /\ g = PermissionGrant(t, col[t], per[t])
            BY <1>2, GrantStep
        <3> QED
            BY <2>2, <3>1, <3>2, <3>3
    <2> QED
        BY <2>1, <2>3, <2>4
<1> QED
    BY <1>1, <1>2, PTL DEF Spec

----------------------------------------------------------------------------
(***************************************************************************)
(* Frames                                                                   *)
(***************************************************************************)

\* Only a running task takes a step.
LEMMA StepRuns == ASSUME NEW s \in Task, Step(s) PROVE at[s] \in Running
<1> USE DEF Running, Configuring, Preparing, Joining, Granting, Querying
<1>1. ASSUME \/ ReadConfig(s) \/ TruncateConfig(s) \/ WriteConfig(s) \/ RestartBroker(s)
             \/ WaitMysql(s) \/ Download(s) \/ StoreData(s)
      PROVE  at[s] \in Running
    BY <1>1 DEF ReadConfig, TruncateConfig, WriteConfig, RestartBroker, WaitMysql, Download,
                StoreData, dataVars
<1>2. ASSUME \/ ReadHeader(s) \/ DropTable(s) \/ CreateMysqlTable(s) \/ ClearTable(s)
             \/ LoadData(s) \/ WaitPorts(s)
      PROVE  at[s] \in Running
    BY <1>2 DEF ReadHeader, DropTable, CreateMysqlTable, ClearTable, LoadData, Statement,
                WaitPorts
<1>3. ASSUME CreateProject(s) \/ InviteMember(s) \/ AwaitJoined(s) \/ JoinProject(s) \/ CreateTable(s)
      PROVE  at[s] \in Running
    BY <1>3 DEF CreateProject, InviteMember, AwaitJoined, JoinProject, CreateTable
<1>4. ASSUME \/ GrantSelf(s) \/ GrantPermission(s) \/ FinishColumn(s) \/ FinishGrants(s)
             \/ RunQuery(s) \/ GiveUp(s) \/ UploadResult(s)
      PROVE  at[s] \in Running
    BY <1>4 DEF GrantSelf, GrantPermission, FinishColumn, FinishGrants, RunQuery, GiveUp,
                UploadResult, dataVars
<1> QED
    BY <1>1, <1>2, <1>3, <1>4 DEF Step

\* What a step of task s leaves alone: the position of the other tasks, unless
\* it ends the process of their container ...
LEMMA OtherPosition ==
    ASSUME TypeOK, NEW s \in Task, Submit(s) \/ Step(s), NEW t \in Task \ {s}
    PROVE  \/ at'[t] = at[t]
           \/ /\ at[t] \in Running /\ at'[t] = "killed"
              /\ Req[t].user = Req[s].user /\ at[s] = "header"
<1> USE DEF TypeOK, Goto
<1>1. ASSUME \/ Submit(s) \/ ReadConfig(s) \/ TruncateConfig(s) \/ WriteConfig(s)
             \/ RestartBroker(s) \/ WaitMysql(s) \/ Download(s)
             \/ StoreData(s) \/ DropTable(s) \/ CreateMysqlTable(s) \/ ClearTable(s)
             \/ LoadData(s) \/ WaitPorts(s)
      PROVE  at'[t] = at[t]
    BY <1>1 DEF Submit, ReadConfig, TruncateConfig, WriteConfig, RestartBroker, WaitMysql,
                Download, ReadFile, Reply, StoreData, DropTable, CreateMysqlTable, ClearTable,
                LoadData, WaitPorts, Statement, dataVars
<1>2. ASSUME \/ CreateProject(s) \/ InviteMember(s) \/ AwaitJoined(s) \/ JoinProject(s)
             \/ CreateTable(s) \/ GrantSelf(s) \/ GrantPermission(s) \/ FinishColumn(s)
      PROVE  at'[t] = at[t]
    BY <1>2 DEF CreateProject, InviteMember, AwaitJoined, JoinProject, CreateTable, GrantSelf,
                GrantPermission, FinishColumn, NextColumn, Reply, dataVars
<1>3. ASSUME FinishGrants(s) \/ RunQuery(s) \/ GiveUp(s) \/ UploadResult(s)
      PROVE  at'[t] = at[t]
    BY <1>3 DEF FinishGrants, RunQuery, GiveUp, UploadResult, WriteFile, Reply
<1>4. ASSUME ReadHeader(s), at'[t] # at[t]
      PROVE  /\ at[t] \in Running /\ at'[t] = "killed"
             /\ Req[t].user = Req[s].user /\ at[s] = "header"
    BY <1>4 DEF ReadHeader, Kill
<1> QED
    BY <1>1, <1>2, <1>3, <1>4 DEF Step

\* ... what the other tasks keep for themselves ...
LEMMA OtherLocals ==
    ASSUME TypeOK, NEW s \in Task, Submit(s) \/ Step(s), NEW t \in Task \ {s}
    PROVE  /\ header'[t] = header[t] /\ col'[t] = col[t] /\ uploaded'[t] = uploaded[t]
           /\ file'[t] = file[t] /\ text'[t] = text[t] /\ per'[t] = per[t]
<1> USE DEF TypeOK
<1>1. ASSUME \/ Submit(s) \/ TruncateConfig(s)
             \/ RestartBroker(s) \/ WaitMysql(s) \/ Download(s)
             \/ StoreData(s) \/ DropTable(s) \/ CreateMysqlTable(s) \/ ClearTable(s)
             \/ LoadData(s) \/ WaitPorts(s)
      PROVE  UNCHANGED <<header, col, uploaded, file, text, per>>
    BY <1>1 DEF Submit, TruncateConfig, RestartBroker, WaitMysql,
                Download, StoreData, DropTable, CreateMysqlTable, ClearTable, LoadData, WaitPorts,
                Statement, dataVars
<1>2. ASSUME ReadHeader(s)
      PROVE  header'[t] = header[t] /\ UNCHANGED <<col, uploaded, file, text, per>>
    BY <1>2 DEF ReadHeader
<1>3. ASSUME \/ CreateProject(s) \/ InviteMember(s) \/ AwaitJoined(s) \/ JoinProject(s)
             \/ CreateTable(s) \/ FinishGrants(s) \/ RunQuery(s) \/ GiveUp(s)
      PROVE  UNCHANGED <<header, col, uploaded, file, text, per>>
    BY <1>3 DEF CreateProject, InviteMember, AwaitJoined, JoinProject, CreateTable, FinishGrants,
                RunQuery, GiveUp, localVars, dataVars
<1>4. ASSUME GrantSelf(s) \/ GrantPermission(s) \/ FinishColumn(s)
      PROVE  col'[t] = col[t] /\ per'[t] = per[t] /\ UNCHANGED <<header, uploaded, file, text>>
    BY <1>4 DEF GrantSelf, GrantPermission, FinishColumn, NextColumn, dataVars
<1>5. ASSUME UploadResult(s)
      PROVE  uploaded'[t] = uploaded[t] /\ UNCHANGED <<header, col, file, text, per>>
    BY <1>5 DEF UploadResult, WriteFile
<1>6. ASSUME ReadConfig(s) \/ WriteConfig(s)
      PROVE  file'[t] = file[t] /\ text'[t] = text[t] /\ UNCHANGED <<header, col, uploaded, per>>
    BY <1>6 DEF ReadConfig, WriteConfig, dataVars
<1> QED
    BY <1>1, <1>2, <1>3, <1>4, <1>5, <1>6 DEF Step

\* ... and the files, the table and the broker process of other containers.
LEMMA OtherContainer ==
    ASSUME TypeOK, NEW s \in Task, Submit(s) \/ Step(s), NEW p \in Party \ {Req[s].user}
    PROVE  /\ datafile'[p] = datafile[p] /\ table'[p] = table[p]
           /\ resfile'[p] = resfile[p] /\ running'[p] = running[p] /\ conf'[p] = conf[p]
<1> USE DEF TypeOK, BrokerTypeOK
<1>1. ASSUME \/ Submit(s) \/ ReadConfig(s)
             \/ WaitMysql(s) \/ ReadHeader(s) \/ WaitPorts(s)
             \/ AwaitJoined(s) \/ FinishColumn(s) \/ FinishGrants(s) \/ GiveUp(s) \/ UploadResult(s)
      PROVE  UNCHANGED <<datafile, table, resfile, running, conf>>
    BY <1>1 DEF Submit, ReadConfig, WaitMysql, ReadHeader, WaitPorts, AwaitJoined, FinishColumn,
                FinishGrants, GiveUp, UploadResult, localVars, brokerVars, dataVars
<1>2. ASSUME RestartBroker(s)
      PROVE  running'[p] = running[p] /\ UNCHANGED <<datafile, table, resfile, conf>>
    BY <1>2 DEF RestartBroker, StopBroker, dataVars
<1>3. ASSUME Download(s) \/ StoreData(s)
      PROVE  datafile'[p] = datafile[p] /\ UNCHANGED <<table, resfile, running, conf>>
    BY <1>3 DEF Download, StoreData, brokerVars
<1>4. ASSUME DropTable(s) \/ CreateMysqlTable(s) \/ ClearTable(s) \/ LoadData(s)
      PROVE  table'[p] = table[p] /\ UNCHANGED <<datafile, resfile, running, conf>>
    BY <1>4 DEF DropTable, CreateMysqlTable, ClearTable, LoadData, Statement, brokerVars
<1>5. ASSUME CreateProject(s) \/ InviteMember(s) \/ JoinProject(s) \/ CreateTable(s)
      PROVE  UNCHANGED <<datafile, table, resfile, running, conf>>
    BY <1>5 DEF CreateProject, BrokerCreateProject, InviteMember, BrokerInvite, JoinProject,
                BrokerAccept, CreateTable, BrokerCreateTable, localVars, brokerVars, dataVars
<1>6. ASSUME GrantSelf(s) \/ GrantPermission(s)
      PROVE  UNCHANGED <<datafile, table, resfile, running, conf>>
    BY <1>6 DEF GrantSelf, GrantPermission, BrokerGrant, brokerVars, dataVars
<1>7. ASSUME RunQuery(s)
      PROVE  resfile'[p] = resfile[p] /\ UNCHANGED <<datafile, table, running, conf>>
    BY <1>7 DEF RunQuery, brokerVars
<1>8. ASSUME TruncateConfig(s) \/ WriteConfig(s)
      PROVE  conf'[p] = conf[p] /\ UNCHANGED <<datafile, table, resfile, running>>
    BY <1>8 DEF TruncateConfig, WriteConfig, dataVars
<1> QED
    BY <1>1, <1>2, <1>3, <1>4, <1>5, <1>6, <1>7, <1>8 DEF Step

\* The steps of a container's services: MySQL comes up, or the broker does.
LEMMA ServiceStep ==
    ASSUME TypeOK, NEW p \in Party, MysqlReady(p) \/ BrokerStart(p)
    PROVE  /\ UNCHANGED <<at, file, text, header, col, per, uploaded, datafile, table, resfile>>
           /\ UNCHANGED <<conf, members, invites, vtable, ccl, faults>>
           /\ \A q \in Party : Up(q) => Up(q)'
<1>1. ASSUME MysqlReady(p) PROVE UNCHANGED running
    BY <1>1 DEF MysqlReady, brokerVars
<1>2. ASSUME BrokerStart(p) PROVE \A q \in Party : Up(q) => Up(q)'
    BY <1>2, LinkAssumption DEF BrokerStart, BrokerReady, Up, TypeOK, BrokerTypeOK
<1> QED
    BY <1>1, <1>2 DEF MysqlReady, BrokerStart, BrokerReady, taskVars, brokerVars, Up
----------------------------------------------------------------------------
(***************************************************************************)
(* The first query of a container                                           *)
(***************************************************************************)
QueryInv == \A t \in Task : at[t] \in Querying \cup {"uploaded"} => Initiator(t)

\* the result file of a container in which t is the only task with a query
OwnFileInv(t) ==
    /\ resfile[Req[t].user] \in {<<>>, OwnResult(t)}
    /\ at[t] = "result" => resfile[Req[t].user] = OwnResult(t)
    /\ at[t] = "uploaded" => uploaded[t] = OwnResult(t)

\* Written into no file, or over itself, a result is the whole file.
LEMMA RenderedOwn ==
    ASSUME NEW t \in Task, NEW old \in {<<>>, OwnResult(t)} PROVE Rendered(t, old) = OwnResult(t)
<1> DEFINE n == Req[t].size
<1>1. n \in Nat
    BY TaskAssumption DEF Request
<1> HIDE DEF n
<1>2. Len(old) \in {0, n}
    <2>1. CASE old = <<>>
        BY <2>1
    <2>2. CASE old = OwnResult(t)
        <3>1. old = [i \in 1..n |-> t]
            BY <2>2 DEF OwnResult, n
        <3> QED
            BY <1>1, <3>1
    <2> QED
        BY <2>1, <2>2
<1>3. (IF n > Len(old) THEN n ELSE Len(old)) = n
    BY <1>1, <1>2
<1>4. Rendered(t, old) = [i \in 1..n |-> IF i <= n THEN t ELSE old[i]]
    BY <1>3 DEF Rendered, n
<1>5. Rendered(t, old) = [i \in 1..n |-> t]
    BY <1>1, <1>4
<1> QED
    BY <1>5 DEF OwnResult, n

\* Where a task comes from that queries or has uploaded.
LEMMA QueryStep ==
    ASSUME TypeOK, [Next]_vars, NEW t \in Task, at'[t] \in Querying \cup {"uploaded"}
    PROVE  \/ at'[t] = at[t] /\ uploaded'[t] = uploaded[t]
           \/ FinishGrants(t) /\ at'[t] = "query"
           \/ RunQuery(t) \/ UploadResult(t)
<1> USE DEF Querying
<1>1. CASE UNCHANGED vars
    BY <1>1 DEF vars, taskVars
<1>2. ASSUME NEW s \in Task \ {t}, Submit(s) \/ Step(s)
      PROVE  at'[t] = at[t] /\ uploaded'[t] = uploaded[t]
    BY <1>2, OtherPosition, OtherLocals
<1>3. ASSUME \/ Submit(t) \/ ReadConfig(t) \/ TruncateConfig(t) \/ WriteConfig(t)
             \/ RestartBroker(t) \/ WaitMysql(t) \/ Download(t)
             \/ StoreData(t) \/ DropTable(t) \/ CreateMysqlTable(t) \/ ClearTable(t)
             \/ LoadData(t) \/ WaitPorts(t)
      PROVE  FALSE
    BY <1>3 DEF Submit, ReadConfig, TruncateConfig, WriteConfig, RestartBroker, WaitMysql,
                Download, ReadFile, Reply, StoreData, DropTable, CreateMysqlTable, ClearTable,
                LoadData, WaitPorts, Statement, Goto, TypeOK, dataVars
<1>4. ASSUME ReadHeader(t) PROVE FALSE
    BY <1>4 DEF ReadHeader, Kill, Goto, TypeOK
<1>5. ASSUME \/ CreateProject(t) \/ InviteMember(t) \/ AwaitJoined(t) \/ JoinProject(t)
             \/ CreateTable(t) \/ GrantSelf(t) \/ GrantPermission(t) \/ FinishColumn(t) \/ GiveUp(t)
      PROVE  FALSE
    BY <1>5 DEF CreateProject, InviteMember, AwaitJoined, JoinProject, CreateTable, GrantSelf,
                GrantPermission, FinishColumn, NextColumn, GiveUp, Reply, Goto, TypeOK, dataVars
<1>6. ASSUME FinishGrants(t) PROVE at'[t] = "query"
    BY <1>6 DEF FinishGrants, Goto, TypeOK
<1>7. ASSUME NEW p \in Party, MysqlReady(p) \/ BrokerStart(p)
      PROVE  at'[t] = at[t] /\ uploaded'[t] = uploaded[t]
    BY <1>7, ServiceStep
<1> QED
    BY <1>1, <1>2, <1>3, <1>4, <1>5, <1>6, <1>7 DEF Next, Step

LEMMA QueryNext == ASSUME TypeOK, QueryInv, [Next]_vars PROVE QueryInv'
<1> SUFFICES ASSUME NEW t \in Task, at'[t] \in Querying \cup {"uploaded"} PROVE Initiator(t)
    BY DEF QueryInv, Initiator
<1>1. CASE FinishGrants(t) /\ at'[t] = "query"
    BY <1>1 DEF FinishGrants, Goto, TypeOK
<1>2. CASE RunQuery(t) \/ UploadResult(t)
    BY <1>2 DEF RunQuery, UploadResult, QueryInv, Querying
<1> QED
    BY <1>1, <1>2, QueryStep DEF QueryInv

\* A result file changes when a query of its container is answered.
LEMMA ResultFileStep ==
    ASSUME TypeOK, [Next]_vars, NEW p \in Party
    PROVE  \/ resfile'[p] = resfile[p]
           \/ \E t \in Task : RunQuery(t) /\ Req[t].user = p /\ resfile'[p] = Rendered(t, resfile[p])
<1>1. CASE UNCHANGED vars
    BY <1>1 DEF vars, taskVars
<1>2. ASSUME NEW s \in Task, Submit(s) \/ Step(s), Req[s].user # p PROVE resfile'[p] = resfile[p]
    BY <1>2, OtherContainer
<1>3. ASSUME NEW s \in Task,
             \/ Submit(s) \/ ReadConfig(s) \/ TruncateConfig(s) \/ WriteConfig(s)
             \/ RestartBroker(s) \/ WaitMysql(s) \/ Download(s)
             \/ StoreData(s) \/ ReadHeader(s) \/ DropTable(s) \/ CreateMysqlTable(s)
             \/ ClearTable(s) \/ LoadData(s) \/ WaitPorts(s)
      PROVE  UNCHANGED resfile
    BY <1>3 DEF Submit, ReadConfig, TruncateConfig, WriteConfig, RestartBroker, WaitMysql,
                Download, StoreData, ReadHeader, DropTable, CreateMysqlTable, ClearTable,
                LoadData, WaitPorts, Statement, dataVars
<1>4. ASSUME NEW s \in Task,
             \/ CreateProject(s) \/ InviteMember(s) \/ AwaitJoined(s) \/ JoinProject(s)
             \/ CreateTable(s) \/ GrantSelf(s) \/ GrantPermission(s) \/ FinishColumn(s) \/ FinishGrants(s)
             \/ GiveUp(s) \/ UploadResult(s)
      PROVE  UNCHANGED resfile
    BY <1>4 DEF CreateProject, InviteMember, AwaitJoined, JoinProject, CreateTable, GrantSelf,
                GrantPermission, FinishColumn, FinishGrants, GiveUp, UploadResult, localVars,
                dataVars
<1>5. ASSUME NEW s \in Task, RunQuery(s), Req[s].user = p
      PROVE  resfile'[p] = resfile[p] \/ resfile'[p] = Rendered(s, resfile[p])
    BY <1>5 DEF RunQuery, TypeOK
<1>6. ASSUME NEW q \in Party, MysqlReady(q) \/ BrokerStart(q) PROVE UNCHANGED resfile
    BY <1>6, ServiceStep
<1> QED
    BY <1>1, <1>2, <1>3, <1>4, <1>5, <1>6 DEF Next, Step

LEMMA OwnFileNext ==
    ASSUME TypeOK, QueryInv, [Next]_vars,
           NEW t \in Task, OwnFileInv(t),
           \A s \in Task : Initiator(s) /\ Req[s].user = Req[t].user => s = t
    PROVE  OwnFileInv(t)'
<1> DEFINE p == Req[t].user
           own == OwnResult(t)
<1>0. p \in Party
    BY RequestTypes
<1>1. resfile[p] \in {<<>>, own} /\ (resfile'[p] = resfile[p] \/ resfile'[p] = own)
    <2>1. ASSUME NEW s \in Task, RunQuery(s), Req[s].user = p PROVE s = t
        BY <2>1 DEF RunQuery, QueryInv, Querying
    <2> QED
        BY <1>0, <2>1, ResultFileStep, RenderedOwn DEF OwnFileInv
<1>2. ASSUME at'[t] = "result" PROVE resfile'[p] = own
    <2>1. CASE at'[t] = at[t]
        BY <1>1, <1>2, <2>1 DEF OwnFileInv
    <2>2. CASE FinishGrants(t) \/ UploadResult(t)
        BY <1>2, <2>2 DEF FinishGrants, UploadResult, WriteFile, Reply, Goto, TypeOK
    <2>3. CASE RunQuery(t)
        <3>1. at[t] = "query"
            BY <2>3 DEF RunQuery
        <3>2. resfile' = [resfile EXCEPT ![p] = Rendered(t, @)]
            BY <1>2, <2>3, <3>1 DEF RunQuery
        <3> QED
            BY <1>0, <1>1, <3>2, RenderedOwn DEF TypeOK
    <2> QED
        BY <1>2, <2>1, <2>2, <2>3, QueryStep DEF Querying
<1>3. ASSUME at'[t] = "uploaded" PROVE uploaded'[t] = own
    <2>1. CASE at'[t] = at[t] /\ uploaded'[t] = uploaded[t]
        BY <1>3, <2>1 DEF OwnFileInv
    <2>2. CASE FinishGrants(t) \/ RunQuery(t)
        BY <1>3, <2>2 DEF FinishGrants, RunQuery, Goto, TypeOK
    <2>3. CASE UploadResult(t)
        BY <1>3, <2>3 DEF UploadResult, WriteFile, Reply, Goto, TypeOK, OwnFileInv
    <2> QED
        BY <1>3, <2>1, <2>2, <2>3, QueryStep
<1>4. OwnResult(t)' = own
    BY DEF OwnResult
<1> HIDE DEF own
<1> QED
    BY <1>1, <1>2, <1>3, <1>4 DEF OwnFileInv

\* What is uploaded is the result of the task's own query and nothing else when
\* no other task of the container ever queries, whatever partners and repeated
\* attempts do; a second query is where an older, longer result shows.
\* (broker_util.go runQuery: the file is opened without O_TRUNC)
THEOREM OnlyQueryUploadsOwn ==
    ASSUME \A s, t \in Task :
               Initiator(s) /\ Initiator(t) /\ Req[s].user = Req[t].user => s = t
    PROVE  Spec => []UploadIsOwnResult
<1> DEFINE Inv == TypeOK /\ ColumnInv /\ QueryInv /\ \A t \in Task : Initiator(t) => OwnFileInv(t)
<1>1. ASSUME Init PROVE Inv
    <2>1. QueryInv /\ \A t \in Task : OwnFileInv(t)
        BY <1>1, RequestTypes DEF Init, QueryInv, OwnFileInv, Querying
    <2> QED
        BY <1>1, <2>1, TypeInit DEF Init, ColumnInv
<1>2. ASSUME Inv, [Next]_vars PROVE Inv'
    <2>1. TypeOK' /\ ColumnInv' /\ QueryInv'
        BY <1>2, TypeNext, ColumnNext, QueryNext
    <2>2. ASSUME NEW t \in Task, Initiator(t) PROVE OwnFileInv(t)'
        BY <1>2, <2>2, OwnFileNext
    <2> QED
        BY <2>1, <2>2 DEF Initiator
<1>3. Inv => UploadIsOwnResult
    BY DEF QueryInv, OwnFileInv, UploadIsOwnResult
<1> QED
    BY <1>1, <1>2, <1>3, PTL DEF Spec
=============================================================================
