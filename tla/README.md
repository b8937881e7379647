# TLA+ models and proofs of the privacy computing agent

The repository runs federated SQL (private set intersection) between two users.  Each user has
a *privacy container* with MySQL, a SecretFlow SCQL broker and engine, and a Go service that
drives them; a LangGraph agent creates the containers and submits the tasks; a Go proxy in front
of the agent knows the users' Nexus keys.  This directory holds TLA+ models of the parts that
have state and concurrency of their own, TLC runs over small instances, and TLAPS proofs.

## The system

| part | source | state | operations | who calls it |
|---|---|---|---|---|
| agent proxy | `agent_proxy/main.go` | user -> Nexus key table behind a `sync.RWMutex`, saved as `mappings.json` through `mappings.json.tmp` | `/register`; any other POST: auto-register, look up the target user, rewrite the metadata, forward | users, and the agent itself when it talks to a partner's agent |
| agent | `langgraph/react_agent.py` | the conversation | the workflow of the system prompt, carried out by a language model | proxy |
| container tools | `langgraph/docker_tools.py`, `nexus_tools.py` | Docker containers, their names, the private keys in them | `create_docker_container`, `stop_and_remove_container`, `query_log` | agent |
| partner calls | `langgraph/nexus_tools.py` | `PARTNER_THREADS`, shared by all conversations of the process | `send_to_partner_agent` | agent; its answer is a run of the partner's agent, which has the same tools |
| task and file tools | `langgraph/nexus_tools.py` | none | `start_privacy_run`, `glob_files`, `read_csv_header`, `check_container_file` | agent |
| privacy task service | `privacy_computing/*.go` | one goroutine per task; `data.csv`, `config.yml`, `party_info.json`, the result file and the MySQL table are shared by all tasks of a container | `POST /api/privacy/run` starts `startPrivacyTask` | agent tools |
| SCQL broker and engine | binaries; `supervisord.conf`, `config.yml`, `party_info.json`, `init.sql` | projects, members, invitations, tables, column grants (CCL) in MySQL | `CreateProject`, `InviteMember`, `ProcessInvitation`, `CreateTable`, `GrantCCL`, `DoQuery` | the service of the same container and the peer's broker |
| Nexus | external | files | read, write | service, tools |

What is hard about it:

* *Two containers, one protocol.*  Initiator and partner run the same function in two containers
  with no coordinator.  They meet through their brokers only, poll in unbounded loops, and decide
  by error texts ("already contains invitee", "record not found", "already exists") whether a call
  that failed was served before.  Replies get lost, brokers are restarted at the start of each task.
* *One container, several tasks.*  Nothing serialises tasks: they share files, a table, a broker
  and a process that `log.Fatalf` ends.  A task also finds what earlier ones left.
* *Configuration by placeholders.*  Each task reads, truncates and rewrites two files to replace
  placeholders that only the first one finds; whoever reads meanwhile reads an empty file.
* *The proxy's file.*  `Save` runs under the read lock, so saves overlap on one temporary file;
  the process may be killed between any two system calls.
* *Containers by name.*  Every step of a session addresses `tsql_{user}` by name, and every create
  call replaces whatever has the name.  Sessions of a user take each other's containers away,
  between any two requests to the Docker daemon.
* *One conversation for all.*  The cache of partner threads is keyed by a URL that all calls have in
  common: the sends of all users to all partners are runs of one thread until it expires.  A stream
  begins with what others said there, a run waits for the runs before it, and a partner's agent may
  send in a run of its own.
* *Three readers of one header.*  The agent, the privacy service and MySQL read the first line of the
  data file by rules of their own.
* *The proxy's lock.*  A request takes the read lock, the write lock and the read lock again; a
  waiting writer keeps new readers out.

What makes each part correct: the two sides of a computation never take a membership for granted
that does not exist, never wait for each other forever, and disclose no column that no request
names; a task computes on its own data and uploads its own result; the mapping file can always
be loaded and holds what was acknowledged; the agent never runs under one user's name with
another's key; a reported public key belongs to the container that has the name, and overlapping
creates leave one; a send returns the reply to it and returns at all; a container's configuration is
whole and of one request, and a result comes from two containers that belong together.

## The modules

| module | models | state |
|---|---|---|
| `ScqlBroker` | the brokers, **external**: what `broker_util.go` and `task.go` take for granted of them | `conf` (the two files), `running` (the files the broker loaded), `members`, `invites`, `vtable`, `ccl` |
| `PrivacyTask` | `startPrivacyTask` and all it calls, over `ScqlBroker` | `at` and locals of each task; files, MySQL table and process state of each container |
| `MCPrivacyTask` | instances of `PrivacyTask` | |
| `PrivacyTaskProofs` | theorems about `PrivacyTask`, for tasks that overlap at will | |
| `PrivacySerialProofs` | theorems about `PrivacyTask` in containers that get one task at a time | |
| `AgentProxy` | `agent_proxy/main.go` | table, lock (derived from `at`), inodes and the two file names, per-request state |
| `MCAgentProxy` | instances of `AgentProxy` | |
| `AgentProxyProofs` | theorems about `AgentProxy` | |
| `KeyTable` | what the proxy promises: a table and a copy that is replaced as a whole | `up`, `table`, `copy`, `acked`, `failed` |
| `ProxyTable` | `AgentProxy` seen as a `KeyTable` (refinement mapping) | |
| `MCProxyTable` | instance of `ProxyTable` | |
| `ProxyTableProofs` | theorems about one request at a time: the file, the refinement | |
| `Containers` | `create_docker_container` and `stop_and_remove_container` over the Docker daemon | names, containers and the key in each, `at` and `found` of each call |
| `PartnerThreads` | `send_to_partner_agent`, its thread cache, the runs of the agent server | cache, clock, `at` and thread of each call, run, last message of each thread, `seen` |
| `Workflow` | sessions of the prompt's workflow, composed of `Containers` and `PartnerThreads` | stage, partner key and tasks of each session, the services that are up, the configuration of each container, the results in its log |
| `CsvDataset` | one CSV file and its three readers | file, the agent's columns, header, MySQL columns and rows |
| `MCContainers`, `MCPartnerThreads`, `MCWorkflow`, `MCCsvDataset` | instances | |
| `ContainersProofs`, `PartnerThreadsProofs`, `WorkflowProofs`, `CsvDatasetProofs` | theorems about them | |

### PrivacyTask

A task's `at` is its program point; the table gives the code for each.

| `at` | action | `task.go` |
|---|---|---|
| new | `Submit` | 52-83, the handler |
| read, truncate, write | `ReadConfig`, `TruncateConfig`, `WriteConfig` | 86-99 and `util.go` 82-92: first for `config.yml`, then for `party_info.json`; placeholders are replaced only where they are still there |
| restart | `RestartBroker` | 164-172: repeated until the broker starts |
| mysql | `WaitMysql` | 174-182 |
| download, store | `Download`, `StoreData` | 184-195: `os.WriteFile` truncates, then writes |
| header ... load | `ReadHeader`, `DropTable`, `CreateMysqlTable`, `ClearTable`, `LoadData` | 101-154, each SQL statement a step |
| ports | `WaitPorts` | 202-212 |
| project, invite, joined | `CreateProject`, `InviteMember`, `AwaitJoined` | 212-249, the initiator |
| join | `JoinProject` | 251-270, the partner |
| table | `CreateTable` | 273-287 |
| grant | `GrantSelf`, `FinishGrants` | 289-294, 303-308: a column without its owner's grant is skipped |
| permit | `GrantPermission`, `FinishColumn` | 295-302 and `broker_util.go` 108-111: a call for each permission, refused when the broker does not know the constraint |
| query | `RunQuery`, `GiveUp` | 310-324 |
| result | `UploadResult` | 325-338 |

The ends of a task are `uploaded`, `granted` (the partner's), `exhausted` (too many query
attempts), `failed` (an early return after an error) and `killed` (the process ended).

Abstractions.  An iteration of a retry loop that fails and changes nothing is a stuttering step, so
the loops appear as actions that wait for their guard.  A lost reply is a step of the broker with
the task left where it was (`Reply`); lost replies, failed Nexus calls and waits that expire share
the bound `MaxFaults`.  A file of the configuration is the template, empty, the settings of a
request, or garbled (`Spoilt`): one text over the beginning of another that was written between the
truncation and the write.  A public key and the URLs that come with it are one `Address`, so that
an outdated one can be told from the true one.  A permission is a user and whether the broker knows
the constraint.  A dataset is a model value whose header is `HeaderOf`; a result is a sequence of
cells that name the task that wrote them, so that the tail of an older result shows.  SQL is the
set of columns it reads.  A query is answered when every column it reads is registered, granted,
and in the MySQL table of its owner.

What is assumed of the broker is listed at the head of `ScqlBroker`: that it reads its two files
when it starts and exits when one is empty or garbled, which links it has with them (both sides need
the true key and URLs of the other), the order of the invitations, what it answers to a repeated
call, and what survives a restart.  The
`brokerutil` library has no mocks in the repository to compare with, so these assumptions stand
where the error texts of `task.go` lead.

### AgentProxy

One action per critical section or file system call: `Arrive`, `Lookup`, `CallLock`, `Register`,
`RLock`, `CreateTmp`, `Encode`, `Rename`, `AckRegister`, `Forward`, `Respond`, and `Crash` and
`Load` for the process.  The agent is external: it answers (`Respond`), fails, or never answers.
The lock is not a variable: a request holds the read lock while it is
saving, and waits for the write lock at `wait`.  `GetNexusKeyByUser` and `Register` are one step
each, since nothing in them leaves the process.  Files are inodes with names: `os.Create`
truncates the inode the name stands for, or makes a new one that is called after the request,
and `os.Rename` moves whatever the name stands for at that moment.  This is where overlapping
saves become visible.

`KeyTable` is the table a user of the proxy may think of: `Put`, `Save` (the copy becomes the
table), `Ack` (only of a key that is in the copy), `Kill` and `Restart` (the table becomes the
copy).  `ProxyTable` maps the proxy to it: the table is `mem`, the copy is whatever the inode named
`mappings.json` holds, a registration is acknowledged when its answer is "ok".  Under the mapping
`Register` is `Put`, `Rename` is `Save`, `AckRegister` is `Ack`, and the steps on the temporary
file disappear, except that one that fails is `Fail`: both handlers acknowledge a key they could not
save, so `Ack` is free afterwards.  The mapping fits only a proxy that serves one request at a
time: overlapping saves tear the file (`proxy_torn_file`).

### Containers

The tools are synchronous: the agent server runs them in threads and nothing serialises them.  Each
request to the daemon is a step, so `containers.get`, `remove`, the two halves of `containers.run`
(create, start), the upload, and the `get` and the operation of both halves of
`stop_and_remove_container` interleave freely.  A container is called after the create call that
made it; a name belongs to one container until its removal is over, which takes the daemon a while
(`RemovalEnds`).  A looked-up container is kept by id (`found`).  A request can fail for reasons of
the daemon's own (`CreateFails`, `RemoveFails`, bound `MaxFaults`).  The key pair is fresh for each
call, so a key is called after its call.

| `at` | action | code |
|---|---|---|
| find, force | `Find`, `ForceRemove` | `docker_tools.py` 44-49: `NotFound` is passed over in both |
| run, start | `Run`, `Start` | `docker_tools.py` 51-62 |
| upload | `Upload` | `nexus_tools.py` 352-366, `docker_tools.py` 120-153 |
| find stop, stop | `FindStop`, `Stop` | `docker_tools.py` 86-96, its outcome ignored |
| find remove, remove | `FindRemove`, `Remove` | `docker_tools.py` 105-115, without `force` |
| removal | `RemovalAnswered` | the daemon's answer to a removal |

### PartnerThreads

The tool is a coroutine, so a step lasts from one `await` to the next: `Hit` (cached thread), `Miss`
(up to `threads.create`), `Store` (from its answer to the next await), `Post`, the chunks of the
stream, and `Break` for any exception.  The agent server is external, as the code uses it: a thread
is a conversation, one run of it is active at a time, a run posted meanwhile is queued or refused,
each chunk of the stream holds the conversation, beginning with what it held before, and an error
event ends the stream without an exception.  A message is known by the send whose run said it and
by whether it is the last of that run.  `Parent` nests the sends that a run makes.

### Workflow

A session is one run of the prompt's workflow: `CreateOwn`, `AskCreate` (with `PartnerCreates` in
the partner's run), `ExchangeKeys`, `PartnerStarts`, `PartnerStarted`, `StartOwn`, `QueryLog`, and
`Interrupt` after a failed step, as the prompt demands.  The module has one instance of
`Containers` and one of `PartnerThreads`, whose actions it takes up: each session has two create
calls and two sends.  What an agent knows of its partner is the text a send returned (`Told`): if
it is another session's final message, the agent takes that one's key.  A task goes to the service
of whatever container has the name now; its answer may be lost, after which it is started again.
(The error answers of lines 205-215 of `start_privacy_run` need a service that refuses a request or
leaves out the task's id; the handler does neither for the requests of the prompt, so a call that
fails is the one error here.)  The first task of a container configures it, and for good
(`Configure`, `conf`): the placeholders are gone for the tasks after it, whichever session they are
of.  A computation is one step (`Compute`) of a task with a query and one without, and asks what
the brokers ask: that the files of the two containers, whoever filled them in, name each other and
each other's keys.  A session whose containers were replaced may so compute in those of another.
What happens in a task and a computation is the subject of `PrivacyTask`.  That the language model
follows the prompt is an assumption.

### CsvDataset

A file is the sequence of its characters over a letter, comma, blank, CR and LF.  `AgentHeader` is
`read_csv_header`; `Records`, `Names` and `Loaded` are what `encoding/csv`, `CREATE TABLE` and `LOAD
DATA ... IGNORE 1 LINES` make of the file.  The agent's read can fail, and then there is no task.
Files with quotes are left out.  `Split` and `NonEmpty`
go through the file with recursive functions, which the proofs can reason about.

## The runs

| run | what it asks | instance |
|---|---|---|
| `task_protocol` | membership, grants complete up to the lost ones, own result, and that both sides end | one initiator, one partner, 3 faults, 3 query attempts; of two permissions of a column the broker knows the second |
| `task_rerun` | what a task leaves behind does not leak into the next; the configuration is of one request and members stay linked | two tasks in each container, one after the other, 1 fault; the second partner task has an empty file, the second query another dataset, a shorter result and an outdated key of the partner |
| `task_overlap` | membership and grants when tasks overlap in a container; that they end, or a file of the configuration is lost | two equal tasks of the initiator at once, one partner, 1 fault |
| `task_stale_result` | *violated*: the upload is exactly the task's own result | the requests of `task_rerun`, no faults |
| `proxy_concurrent` | what the file holds, identities, that every request is answered or gets to the agent | three requests at once, 1 crash, 1 failed file operation |
| `proxy_serial` | the file survives crashes; the proxy implements `KeyTable` | five requests one at a time, 2 crashes, 1 failed file operation |
| `proxy_torn_file` | *violated*: the file can always be loaded | two requests at once |
| `containers` | keys stay with containers, creates converge, removals do not hit running containers | three creates and a removal of one name, a create of another, 1 failed request |
| `threads` | whose reply a send returns, the age of a thread, that every send returns | two sends, each with a nested one, clock to 3, time to live 2, 1 fault |
| `threads_stale_reply` | *violated*: a returned text is the reply to this send | two sends, 1 fault |
| `workflow` | computations in containers that belong together, keys of the own session, results of undisturbed sessions | two sessions, of the same users or of four, 1 fault or tick |
| `csv_header` | the three readers of a file agree | all files of up to 8 characters |

Bounds.  Two parties are the protocol's own number.  Two tasks in a container are the least that
meet, and the shared state has no history beyond the last writer, except the result file, whose
first and second writer both appear.  Two columns, of which one is opened to the peer, tell
a skipped column from a skipped permission, and an unsupported permission before a supported one
tells a call that is refused from a loop that ends.  Whichever request is first in Alice's container
configures it in `task_rerun`: with the outdated key first no membership comes about, with it second
one is there to be kept.  `MaxTries` of 2 or 3 stands for 30: the loop does
the same each time.  The faults are placed anywhere, so three of them reach every retry loop of
one task and combinations of a loss on both sides.  In the proxy, two users, one with an explicit
and an automatic registration, and a request without a key exercise every branch of the two
handlers; two savers are enough to share a file, three requests keep one of them between lookup
and registration.  `SerialSubmit` is a restriction of the environment, not of the code: the runs
that have it ask what holds when the agent gives a container one task at a time, as its prompt
says, and the others what is left without it.

Three creates of one name are one that is replaced, one that replaces it and one that meets the
removal; the removal call gets in between any two of their requests.  Two sends with a nested one
each share a thread in every combination, also both parents and one child; a clock that passes the
time to live by one has entries that are fresh, expiring and expired.  Two sessions of the same
users in opposite roles share both containers and the thread, two of four users only the thread:
`Together` lists the pairs.  `UndisturbedSessionReports` is checked of one session, `s1`, which is
alone, disturbed by `s2` or shares the thread with `s3`: exchanging names in the instance makes
each of the others the first one.  In `workflow` the cached thread expires at most once, between
two sends; its expiry at any moment is the question of `threads`.  Eight characters hold a header
of two columns and a row with its line end, or one column and three rows, with any one CR, blank or
empty line in them.

`CHECK_DEADLOCK FALSE` is in every configuration because the instances have finitely many tasks,
requests, calls and sessions: they stop when all have ended.

### Fairness

Weak fairness of every task's steps and of every request's steps: the Go scheduler runs each
goroutine that can run.  Weak fairness of `Submit`: a liveness question is asked of tasks that are
submitted.  Weak fairness of `MysqlReady` and `BrokerStart`: `supervisord.conf` has
`autorestart=true` for both.  Weak fairness of the proxy's `Load`: `docker-compose.yml` has
`restart: unless-stopped`.  No fairness for arrivals, crashes and faults, and none for the agent
behind the proxy: neither its server nor its client has a timeout (`main.go` 168-173), so an agent
may never answer.  `AllServed` therefore ends at the call of the agent.

`PartnerThreads`: weak fairness of `Store` and `Post`, since the event loop runs each coroutine that
can run, and of `RunStarts` and `RunFinishes`, since the agent server starts the next run of a free
thread and a run that waits for no tool comes to its end (the agent's recursion limit).  None for
sends, ticks and faults.  `AllReturn` is conditional on no run sending into its own thread, which does
block both (`WaitsForItself`).

`Workflow`: some session's work goes on as long as there is any and nothing has gone wrong, which is
weaker than fairness to each session, and enough since each has finitely many steps: the agents, the
daemon, `supervisord` (`autostart`, `autorestart`), the event loop and the server do what they can,
and the user confirms.  Nothing is assumed after a fault.  `UndisturbedSessionReports` excepts a
partner's service that is not up yet, and a send the server refuses because others use the thread.

`AllEnd` is conditional: when no task fails or is killed, all of them end.  The condition is
needed, since `createProject` is the one call without a retry and a partner whose initiator has
failed polls forever.  The condition is met by most behaviours, also by those with lost replies.
When tasks overlap there is a second way not to end, without an error of anybody: two of them
rewrite a file of the configuration at once and leave it empty or garbled, `supervisorctl` fails to
start the broker from then on, and both sides poll forever.  `AllEndOrFileLost` says that
it is the only one.

## What the checks show

Holding: the shortcut of taking "record not found" for a membership is sound; lost replies never
make the two sides wait for each other forever; a task that starts on a used container has its own
data in MySQL, once; grants stay within the requests, follow their owner's own, and are complete
but for one column per lost call and for the constraints the broker does not know; requests one at
a time leave the files of the configuration whole and of one request, and members linked;
overlapping savers of the proxy leave the right table on disk once the last of them is done; a
proxy that serves one request at a time survives a kill at any instant; the lock is never the cause
of an unanswered request, also next to requests that wait for the agent forever; the agent is never
given a mixed identity, and is given the target's unless that user was registered with an empty
key.  Overlapping creates of a container leave a running, reported one with its key in it, and
`stop_and_remove_container` never removes a container that runs.  A send whose run finishes returns
its own reply, whoever shares the thread, and sends wait forever only behind a run that sends into
its own thread.  Sessions that replace each other's containers may compute in one they did not
create, configured by another session's task, but never in one container of one session and one of
another.  A file without empty lines is read alike by the agent, the service and MySQL, up to a
carriage return in the last column.

Not holding, each with a run and a quotation in `PROJECT.json`: a shorter result keeps the tail of
the longer one before it and is uploaded with it; two overlapping saves can leave a mapping file
that no restart loads; a send whose run fails returns the last reply in the shared thread, to
whoever it was.  Not holding and seen from the hypotheses of the properties: a grant that is lost
drops the permissions of its column, and one with an unknown constraint is missing, while the task
reports success; a container keeps the configuration of its first request, with a partner, keys and
URLs that may be outdated; overlapping tasks can end a service, the one that restarts the broker
makes the other skip grants unnoticed, and both can leave a configuration no broker starts with; a
request whose agent never answers is never answered; a session can report the result of another
one; a run that sends to the thread it is in blocks; a CSV file that begins with an empty line has
its header loaded as a row.

`UploadIsOwnResult` appears in a passing and in a violated run: it holds on a fresh container and
fails on a reused one.  The same is true of `MappingsFileLoadable` (one request at a time, two at
once); `FinishedReplyIsOwn` is `ReplyIsOwn` for the runs that finish.

## What is proved

All theorems hold for every value of the constants that the named assumptions allow
(`LinkAssumption`, `TaskAssumption`, `ProxyAssumption`, `ContainerAssumption`, `ThreadAssumption`,
`WorkflowAssumption`, `CsvAssumption`: sentinels differ from values, requests and calls are well
formed, a task's peer is not its user, a session's partner is not its initiator, the separators of a
file are four characters).  A theorem that needs more says so in its ASSUME, and below.

`AgentProxyProofs`

* `TypeCorrect`: `Spec => []TypeOK`.
* `TableIsSaved`: `Spec => []DurableWhenQuiet`, for any number of overlapping savers.  The property
  is not inductive: it says nothing while savers are at work.  `SaveInv`
  adds what the program points of `Save` own, as long as no file operation has failed: a saver at
  `rename` has an open file that holds the table (`WrittenInv`); a saver whose file was renamed away
  from under it finds `mappings.json` holding the table already (`RenamedInv`); a temporary file
  with savers at work has one that will rename it (`OwnedInv`).  These rest on the write lock being
  refused while anybody saves, so that all savers at work write the same table.
* `NoMixedIdentity`: `Spec => []IdentityIsGenuine`.  `GenuineInv` adds that every entry of the
  table, of every readable inode and of every forwarded request was sent by a client as such.
* `TargetUsed`: `Spec => []TargetIdentityUsed`, inductive together with `GenuineInv`: a key that is
  empty in the table was sent empty by a request of that user.

`ProxyTableProofs`, for any number of requests served one at a time (`MaxInFlight = 1`)

* `MappingsLoadable`: `Spec => []MappingsFileLoadable`, also when file operations fail.  `FileInv`
  says that the temporary file is never the one named `mappings.json`, and that the saver has it
  open and, at `rename`, has written the table to it.  It needs `SerialInv` (no two requests in
  flight, from the bound of `Arrive` by way of the cardinality of a finite set).
* `AcknowledgedIsDurable`: `Spec => []AckedIsDurable`.  `AckInv` demands an acknowledged key both of
  the table and of the file: a save copies the first to the second, a restart the second to the first,
  and only a request of the same user replaces it.
* `ImplementsKeyTable`: `Spec => IsKeyTable`.
  `EntryInv` (a user under automatic registration is still unknown; what is being saved is in the
  table) and `RouteInv` (which program points a kind of request reaches) give the guards of `Put`;
  `DurableWhenQuiet`, proved above, gives the guard of `Ack`.

`PrivacyTaskProofs`

* `TypeCorrect`: `Spec => []TypeOK`, with `ColumnInv` (the column whose permissions come next is
  one of the request).
* `PartnersAreMembers`: `Spec => []PastJoiningIsMember`.  `MemberInv` adds `SelfInv` (a broker that
  has the project is a member of it), `InvitationInv` (an invitation comes from another party that
  has the project; once accepted, both ends know both as members) and `RoleInv` (only an initiator
  invites, only a partner joins).  "Record not found" means an accepted first invitation, so
  `InvitationInv` gives the membership; memberships only grow (`MembersNext`).
* `OnlyRequestedDisclosure`: `Spec => []OnlyRequestedGrants`; only two actions add grants
  (`DisclosureStep`) and a submitted task stays submitted (`StartedNext`).

* `OwnGrantFirst`: `Spec => []PermissionsFollowOwn`.  `OwnGrantInv`: a task at the permissions of a
  column has made the owner's grant, and grants are never taken back.
* `OnlyQueryUploadsOwn`: `Spec => []UploadIsOwnResult`, for a container whose requests include one
  query; its partner tasks and repeated attempts write the same cells or none (`OwnFileInv`).

`PrivacySerialProofs`, when a container gets one task at a time (`SerialSubmit`), any number in turn

All of these rest on `SerialInv` (one running task per container) and `Frame`, what the steps of the
others leave alone: a running task's position, its data file, table and result file, and a broker that
is up.  Each property is false without `SerialSubmit`.

* `TableIsOwnData`: `Spec => []TableHoldsDatasetOnce`, and `DeathIsOwn`: `Spec => []KilledByOwnData`.
  `DataInv` says at each program point how far the task has replaced what it found: the file is
  its dataset after `store`, the table is absent after `drop`, empty after `clear`.
* `UploadBeginsWithOwn`: `Spec => []UploadBeginsWithOwnResult`.  `ResultInv`: from the answer to
  the upload the file begins with the task's cells, however long the rest is.
* `SameLengthUploadsOwn`: `Spec => []UploadIsOwnResult`, when all queries of a container have
  results of one length; `FileLengthInv` bounds the file by that length.
* `GrantsAreComplete`: `Spec => []GrantsCompleteUpToFaults`, for any number of columns, permissions,
  of which the broker knows any, and faults.  `GrantInv` counts the columns that have lost a grant so
  far (`Skipped`): a step adds at most the one that is open, and then it is a fault
  (`SkippedStep`).  `UpInv` (a broker the task has waited for stays up) closes the one way to skip a
  grant without a lost call or a foreign column: the restart of the broker by an overlapping task.
* `ConfigIsOneRequest`: `Spec => []ConfigOfOneRequest`, whatever peers, keys and URLs the requests of
  a container name.  While a file is truncated its content is in the memory of the task that will
  write it back, so the argument is about what a container `Held`, in the file or in the task.
  `ReaderInv` says what the one task at work knows of it.  A container holds two templates
  (`Fresh`), then the settings of the first request in one file (`Half`), then in both (`Whole`), and
  stays there: settings hold no placeholders (`HeldForever`).
* `MembersKeepLinks`: `Spec => []MembersStayConfigured`.  Only two brokers that have loaded each
  other's true addresses become members of one project (`MembersStep`), what a broker has loaded
  was in its file (`RunningStep`), and what its file held it holds forever (`LinkInv`).

`ContainersProofs`, for any number of calls

* `TypeCorrect`: `Spec => []TypeOK`.
* `KeysInstalled`: `Spec => []ReportedKeyInstalled`, with `RouteInv` (which program points a tool
  reaches): only a create call gets to `upload`, and it uploads by the id of its own container.
* `CreatesAlwaysConverge`: `Spec => []CreatesConverge`, the hardest.  The property speaks of the
  end of a race; `RaceInv` says what is true of a name during it, while only creates are at work
  and no request failed: either a container has the name and its own call is about to succeed, has
  succeeded, or a call that replaces it waits for its removal; or nobody has the name and a call is
  still to create it; or no call has begun.  It rests on `FoundInv` (a looked-up container had the
  name), `NamedInv` and `HeldInv` (a container that is not removed has its name, and its call is
  past `run`).  A call that loses at `run`, `start` or `force` loses to another that is in one of
  these states.
* `OnlyReplaced`: `Spec => RunningOnlyReplaced`, an action property from `RouteInv`.

`PartnerThreadsProofs`, for any number and nesting of sends, any time to live

* `TypeCorrect`: `Spec => []TypeOK`, with `SendInv` (a send that has posted has a thread; the state of
  the run that goes with each program point).
* `OwnReply`: `Spec => []FinishedReplyIsOwn`, inductive together with `SendInv`.
* `YoungThreads`: `Spec => ThreadIsYoung`, from `CacheInv`: whichever creator stored last, the entry
  expires `CACHE_TTL` after the moment its own creator found nothing.

`WorkflowProofs`, for any number of sessions and users

* `ComputedTogether`: `Spec => []ComputedWithinASession`.  `PairInv`: a container has no key but its
  own, it is configured by a task that a service accepted, and the two keys of a task are those of one
  session's containers as long as no send has failed, which is where `PeerInv` below comes in.  Two
  containers that know each other by the keys of such tasks are the two of one session, though not
  always of the one that computes.
* `KeysOfSession`: `Spec => []KeysAreOfThisSession`.  `PeerInv` carries over from `PartnerThreads`
  that a finished send returns its own final message (`SendsInv`), and adds that without faults no
  run fails, so a text an agent can take a key from is the reply to its own request.

* `ComponentsOfWorkflow`: `Spec => D!Spec /\ T!Spec`.  Each step of a session is a step of one call
  of `Containers` or of `PartnerThreads`, or of neither, and initial states are initial states.  The
  theorems of the components, instantiated, then hold of the workflow: `ComponentsHold` carries over
  `ReportedKeyInstalled`, `CreatesConverge` and `FinishedReplyIsOwn`.
* `TypeCorrect`: `Spec => []TypeOK`: the types of the components are carried over in the same way, and
  `SessionInv` adds that a session that has exchanged keys, and a partner asked to start, knows a key.

`CsvDatasetProofs`, for files of any length over any letters

* `TypeCorrect`: `Spec => []TypeOK`.
* `AgentKnows`: `Spec => []AgentKnowsColumns`.  `Found` says which of the readers' results each stage
  has; `AgentReads` that the agent's header and the names of the first record are the same.
  That rests on `CellsDropCR`: the cells of a line with and without its carriage return are the
  same except that the last one keeps it, where `Strip` takes it away.
* `RowsFit`: `Spec => []RowsFollowHeader`, from `RowsFollow`: both programs cut the same lines, except
  for the empty one behind the last line end, which each drops by a rule of its own.

What the recursive `Split` and `NonEmpty` compute is an induction, and the library's induction
theorems are about predicates, which the provers cannot instantiate.  The module therefore proves
induction for sets, from the well-foundedness of `<`: a set of numbers that has 0 and all
successors is `Nat` (`NatSetInduction`), a set of sequences that has `<<>>` and all extensions is
`Seq(S)` (`SeqSetInduction`).  `Recursion` gives the existence of the functions, `SplitAppend` and
`NonEmptyAppend` their equations for one more element, from which the rest follows.

Only model-checked: liveness (`AllEnd`, `AllEndOrFileLost`, `AllServed`, `AllReturn`,
`UndisturbedSessionReports`), which needs fairness and is out of the prover's reach.

## Not modelled

* What the language model does beside the prompt's workflow, the SQL it writes, and the removal of
  containers at the end, which is commented out in the prompt.
* `glob_files` and `check_container_file`, which read and keep nothing, and the `KeyError` of
  `query_log` when `cat` fails.
* A container that is replaced under a running task, request by request: `Workflow` has the
  replacement, with the task as one step; `PrivacyTask` has the task, in a container that stays.
* Data files with quotes or backslashes.
* The `brokerutil` library, query evaluation, cryptography, the SCQL schema: external.
* Time, except for the thread cache: the polling intervals, how long ten seconds are (that an
  answer may come later is modelled), the resolution of one second of the result's name.
* HTTP, JSON and logging, requests that change no state, and helpers nobody calls.
* Build, images and certificates.

## What could be added

* An abstract specification of a computation of two parties (invited, joined, granted, answered),
  which `PrivacyTask` would implement as the proxy implements `KeyTable`.
* A composition of `Containers` with `PrivacyTask`, if the state space can be kept small enough.
