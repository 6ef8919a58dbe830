# ks-installer in TLA+

Formal models of ks-installer, a Go service that registers servers in a
database: a client posts the IPMI address of a server and the MAC addresses of
its ports, and jobs executed in the background find the server's name in the
DNS, ask *rsview* where each MAC is plugged in, compare what the switch sees
with the name, and link ports to hosts. The process is also a member of a Raft
cluster with a small replicated map.

Run a model with `tlc -config queue_safety.cfg MCJobQueue.tla`, check the proofs
with `tlapm JobQueueProofs.tla`.

## 1. Inventory

| Component | Code | State | Operations |
|---|---|---|---|
| Job queue | `app/server/queue.go` | `jobQueue`, `pool`, one `inbox` per worker, `nextWorker`, the `queueJob` objects, tables `jobs` and `errors` | `newQueueJob`, `addToQueue`, `dispatch` and its handoff goroutines, `spawn`, `doJob`, `appendAppError`, `setFailed`, `stateUpdate`, `destruct` |
| Job report | `http.go` (GET `/v1/job/<id>`), `queue.go` | what one request has read so far | `getJobById`, `getResponseErrors` |
| Provisioning | `http.go` (POST `/v1/host`), `host.go`, `port.go` | tables `hosts`, `macs`, one `baseHost` per request, one `basePort` per port | `httpHandlerHostCreate`, the host job (`resolveIpmiHostname`, `updateOrCreate`), the port job (`parseRsviewProperties`, `linkWithHost`) |
| API requests | `http.go`, `request.go`, `error.go` | the `httpRequest`: status and errors; tables `requests`, `errors` | `httpMiddlewareRequestLog`, `httpMiddlewareAPIAuthentication`, `respondJSON`, `saveErrors`, `respondApiErrors`, `createAndSave`, `updateAndSave` |
| rsview client | `rsview.go` | an HTTP client; buffer and two flags of a lookup | `newRsviewClient`, `getPortAttributes`, the token machine `parseResponseHTML` |
| Raft store | `core/raft/store.go` | the map `m`, snapshots | `Get`, `Set`, `Del`, `Apply`, `Snapshot`, `Restore`, `Persist` |
| Raft service | `core/raft/raft.go` | node list, `raft`, `donePipe` | `Init`, `Bootstrap`, `join`, `DeInit` |
| Core | `core/core.go`, `main.go` | `epipe`, `kernSignal`, `appWg`, the services | `Construct`, `Bootstrap`, `Destruct` |
| HTTP service | `core/http/http.go` | `done`, the server, the error `e` of `Bootstrap` and `httpServe` | `Bootstrap`, `httpServe`, `Destruct` |
| Configuration | `core/config/config.go` | constants | `SetDefaults` |
| Schema | `extras/migrations` | the keys of the tables | |
| Drivers | `core/sql`, `core/boltdb` | connections | open, close |
| Not in use | `app/server/task.go`, `model.go`, `puppet.go`, `system/system.go` | | |

How they interact:

    client --POST /v1/host--> handler --SELECT/INSERT--> hosts, macs, jobs
                                 |  addToQueue (blocks while jobQueue is full)
                                 v
                             jobQueue --> dispatch --go--> handoff --inbox--> worker
                                 ^                            ^                 | doJob
                                 |                            '---- pool <------' DNS, rsview,
                                 '------ appendAppError (retry) <---------------' hosts, macs, jobs, errors
    client --GET /v1/job/<id>--> SELECT jobs; SELECT errors
    every request: INSERT requests; handler; INSERT errors; answer; UPDATE requests

    main --go--> RaftService.Bootstrap --epipe--> main;  signal --kernSignal--> main
    main --Destruct: close donePipe, raft.Shutdown--> the raft service;  then boltdb
    hashicorp/raft --Apply, Snapshot, Restore--> Store;  join --RemoveServer, AddVoter--> hashicorp/raft

Everything above shares memory (the channels, the `baseHost` of a request) or
the database; no lock and no transaction is used anywhere in `app/server`.

At this commit `core.go` starts only the Raft service: the calls that start the
HTTP service and the app are commented out. The models of `app/server` and of
`core/http` describe these packages as they behave when `App.Bootstrap`,
`SetSqlDb` and `HttpService.Bootstrap` are called, which is what their code is
written for.

What is hard here, and what makes each component correct:

* **Job queue.** `nextWorker` is one variable of `dispatch()`, captured and
  written by every handoff goroutine; a retry is enqueued by a goroutine that
  still holds the job; `len(errors) == JobRetryMaxFails` is tested with `==`; the
  outcome is written in up to four statements whose errors are ignored; workers
  close their inboxes while handoffs may be sending to them. Correct means: one
  holder per job, no job dropped, never more attempts than allowed, an outcome
  that is final and, while the database works, complete.
* **Job report.** State and errors are read in two queries between which the job
  may fail, be retried or finish. Correct means: what one report says of an
  outcome no later report takes back, and a client that keeps asking learns it.
* **Provisioning.** A job reads several rows in several statements and then
  writes by a key it read in the first; two requests may name the same host or
  the same MAC; answers of DNS and rsview may differ from attempt to attempt.
  Correct means: the identity of a host never changes by accident, a link is
  made only on the word of one request, and what is answered 201 or marked Done
  is in the database.
* **API requests.** The errors of a request are saved one by one before the
  answer, each save may fail and becomes an error itself, and the log is updated
  after the answer. Correct means: the client is told what the tables say.
* **rsview client.** A page that is cut off or leaves cells open must not be read
  as another page: the port job takes the columns by their number.
* **Raft store.** Every replica must hold the map its log says, after a restart
  and after a snapshot too, while commands arrive during a snapshot, and when
  writing one fails.
* **Raft service.** A forced start removes members before it adds them, against a
  configuration it has read some time ago, and any of its calls may fail. Correct
  means: no listed member is removed, and success means all are there.
* **Core and HTTP service.** Ends of goroutines, signals and errors race on
  channels without a buffer, on a channel that is closed twice, and on a shared
  error. Correct means: every shutdown path ends, and reports what ended it.

`PROJECT.json` lists the hazards, line by line.

## 2. The modules

* **JobLife** — the promise of the queue: a job is attempted, one attempt after
  the other, until it succeeds or `JobRetryMaxFails` attempts have failed, and
  never again after that. Two variables, four actions.
* **JobQueue** — `queue.go`, one action per step of a goroutine. `at[j]` says
  which goroutine or channel has the only reference to job `j`: `created` (in the
  handler), `queued`, `marking`/`waiting`/`taken`/`sending` (the lines of its
  handoff goroutine: `stateUpdate`, `<-pool`, the evaluation of the channel
  operand, the send), `inbox`, `running` (`doJob`), `requeue`/`failing`/
  `flagging`/`saving` (`appendAppError`; its errors are saved one per step),
  `finished`, `lost`. `pc[w]` is the place of a worker in the loop of `spawn()`.
  `queue`, `pool` and `inbox[w]` are the channels, with their capacities; `row`,
  `flagged` and `errRows` are the columns of `jobs` and `errors` that a client
  sees. `nextWorker` and `target[j]` keep the read of the shared variable apart
  from the write before it.
* **JobReport** — extends JobQueue by the clients of GET `/v1/job/<id>`: one
  action per query, `read[j]` between the two, `report[j]` the last report.
* **Provisioning** — the request handler and the two kinds of jobs, one action
  per SQL statement, DNS lookup or rsview query. The queue is reduced to what
  JobLife promises: a job is `open` until one of `Workers` takes it, and a failed
  attempt makes it `open` again or gives it up; that this reduction keeps
  JobLife's promise is checked (`LifeSpec`). `hosts`, `known` (the keys of `macs`)
  and `macs` are the tables, `host[r]` the `baseHost` that handler and job of
  request `r` share, `port[j]` the `basePort` of a port job, which survives from
  one attempt to the next. A statement that violates a key of the schema in
  `extras/migrations` is refused, as MySQL does; any other may be refused too, or
  be executed although it fails, its acknowledgement being lost (`Outcomes`).
  `writes` is auxiliary: the rows for which the statement of a host job was
  executed, and whether it was acknowledged.
* **ApiRequest** — one request of any route through the middleware, as far as errors
  and the answer go, one action per statement; a statement may fail, and may have been
  executed although it fails. The handlers are reduced to the errors they may
  add: what they do to hosts, ports and jobs is in Provisioning.
* **HttpService** — `Bootstrap`, `httpServe` and `Destruct` as three goroutines
  that share `done` and the error `e`; connections are counted.
* **ApiService** — composes the two: one of the connections carries the request
  of ApiRequest, so that a stop or a panic of the service may come between any
  two of its statements.
* **RsviewClient** — login, lookup and `parseResponseHTML`. The page is chosen
  token by token and kept, so that the properties can read it in another way
  than the parser does: by the positions of the tags (`TextsOf`, `Rank`).
* **ReplicatedMap** — what `store.go` promises: one history of the map, of which
  each running node shows ever later states. Stopping may hit several nodes at
  once.
* **RaftStore** — `Set`, `Del`, `Apply`, `Snapshot`, `Persist` and `Restore` on
  each node. The library is reduced to what it does with them: one committed log,
  of which `stored[n]` entries are on the disk of `n` from `first[n]` on, with the
  snapshot `snap[n]`; `m[n]` is the map after `applied[n]` of them. `history` and
  `lost` are auxiliary: the maps the log gives, and the nodes on which `Persist()`
  has returned nil for a snapshot it had failed to write.
* **RaftMembership** — the node list, `Bootstrap()` and `join()` on every node,
  over one agreed configuration `conf`, of which each node knows an older or newer
  version. `join()` is a loop of single calls, with its place in `todo`, `peer` and
  `seen`. Names that do not resolve give addresses `None` (in the code `<nil>`): at
  each start of a node that has state any of `Unresolved`, and at a first start those
  in `missing`, since the library asks that all nodes bootstrap one list. A change
  that fails because the leadership was lost may be committed by the next leader
  (`CommitsLate`).
* **CoreLifecycle** — the main goroutine line by line, from `Construct()` to the
  exit code, beside the goroutine of the raft service, and signals at any point.
* **JobQueueProofs**, **JobReportProofs**, **ProvisioningProofs**,
  **ApiServiceProofs**, **RaftStoreProofs**, **RaftMembershipProofs**,
  **CoreLifecycleProofs**, **RsviewProofs** — the theorems (section 4).
* **MCJobQueue**, **MCJobReport**, **MCProvisioning**, **MCRaftStore**,
  **MCRaftMembership**, **MCRsviewClient** — instances for TLC. CoreLifecycle and
  ApiService need none.

The operators called *mutant* are plausible bugs of the operator they stand
before. They are used by no action; each shows that a property notices such a bug.

## 3. The runs

| Run | Instance | Shows |
|---|---|---|
| `queue_safety` | 3 host jobs, 2 workers, pool and inboxes of 2, a queue of 1, 2 failures; database faults, shutdown, restart | no job has two holders; offers and waiting workers balance; no handoff blocks on another worker's inbox; a failure becomes visible in order; a panic only in a shutdown |
| `queue_report` | a host job and a watched port job, 2 workers, all buffers of 1, 2 failures; database faults, shutdown, restart | no buffer is overfilled and no job dropped; Done and Failed are final although port jobs are marked Blocked; a report that says Done is clean; no report is taken back |
| `queue_settles` | a host job and a watched port job, 2 workers, pool and inboxes of 2; restart | JobQueue implements JobLife, its steps and its fairness; a job that leaves the queue has its outcome in all four places; torn reports are followed by whole ones and the client learns the outcome |
| `prov_safety` | 2 requests for 1 MAC and 1 host, DNS answers that name either of 2 hosts, 2 workers, 2 failures, lost acknowledgements | identity of hosts; two hosts of one creator only behind a lost acknowledgement; links as reported; what a port job has put on record no other job takes away; JobLife's safety |
| `prov_settles` | 1 request, 2 MACs, 1 worker, incomplete and changing pages, a VLAN that is no number, two hosts at one address, one address outside of the CIDR block; database faults, lost acknowledgements | a clean response means all jobs are queued; every request is answered and its jobs end |
| `store_safety` | 3 nodes, 2 of them crashing, one of these with a bad disk, 2 commands | maps and snapshots are what the log gives; a node can start from its disk unless a snapshot was lost there; RaftStore implements ReplicatedMap; nodes catch up |
| `raft_join` | 3 nodes, no cluster or one in which everybody is somewhere else, one forced node, names that fail at any start, changes that are committed although they fail, `SkipJoinErrors` or not | a forced start removes nothing that is listed, and has added everything when it succeeds |
| `core_stop` | up to 2 signals, a raft service that may fail at any line | success only after a signal; raft before boltdb; the process ends |
| `api_service` | 2 connections, every route, up to 3 ports, statements that fail or only seem to | errors, answer and tables agree; the error of serving is returned; nothing is cut off; the service ends |
| `rsview_page` | every page of up to 6 tokens, 2 columns, 2 words | cells in the order of the markup; what is accepted has the columns |

Two runs show a place where the code does not do what its own text says:

* `prov_host_not_found` — a port job finds its host only by the job that last
  wrote the row. If the host job of its request has not run, or a later request
  has taken the row over, the client reads "The requested Host was not found in
  the database!" (`error.go:100`) about a host that is there.
* `prov_conflict` — "The current App policy will overwrite the server!"
  (`host.go:171`): three lines later the address found in the table replaces the
  one the request gave, and the UPDATE writes it back.

Two smaller ones are seen while reading and have no run: `host.go:143` announces
an INSERT that the schema always refuses (it leaves out `hostname` and
`created_by`), and the warning of `port.go:79`, "Given VLANs have two or more
configuration matches!", is also logged when an earlier attempt has left its VLAN
in the port.

Some of the properties say under which condition the code keeps them, because it
does not keep them without: `ListedServersStay` and `AllJoined` ask for at most
one forced node, which is a member (`OneMemberForced`); `SnapshotsCover`, `CatchUp`
and `AbstractSpec` except what follows a snapshot that `Persist()` has lost;
`RaftStopsFirst` excepts a `DeInit()` that overtakes `NewRaft()`; `ServiceEnds` allows
the two panics once `Destruct()` has closed `done`; `UniqueCreator` excepts the row of
an UPDATE that was executed although it failed, behind which a retry under another DNS
name makes a second one ("Rows is not equal to 1. The DB has broken!" is then what a
port job reports); `AnswerOnRecord` excepts the test route, whose 500 is logged as a
200. TLC finds each of them violated without its condition.

### Bounds

Jobs, workers, requests, MACs, nodes, addresses and names are small sets. The
counters that would grow for ever have a named bound: `MaxLog` (commands),
`MaxSignals`, `MaxConns`, `MaxPorts`, `MaxTokens`; the others are bounded by
`JobRetryMaxFails`.

* Two workers and three jobs are the least that put two jobs into one inbox while
  a third is on its way, with room for all workers in the pool; buffers of one make
  every send block, and have less room than workers; two failures are the least that
  let an attempt see what the one before has left.
* Two requests for one MAC and two hosts are the least in which one takes over
  the host or the MAC of the other; both ask for the same host, as the DNS may name
  the other one. The switch names one host, so that links to the right and to the
  wrong host are told apart. `prov_safety` leaves the codes of the errors out of the
  state by a VIEW: no guard and, but for their type, no property reads them.
* Two commands with `TrailingLogs` 1 let a snapshot of the first compact the log
  so far that a follower must be sent it, and a lost one leave a gap. Of three
  nodes one at a time can be missing while the others have a majority; two that
  crash cover the leader and a follower.
* Three nodes are the least where a removal leaves a majority, two addresses may
  be exchanged and a third is a bystander; two unresolved names are the case that
  makes the list invalid. The clusters with an address `<nil>`, and those with a
  member missing, arise in the run itself: from a first start that does not resolve
  a name, and from a forced start that ends between removal and joining.
* Two signals are one that ends the loop and one that comes in `Destruct()`; two
  connections are the request and another that keeps the server from draining;
  three ports have a good one between two bad ones. Six tokens are two closed
  cells with their texts.

Each run takes less than three minutes on two cores. A capacity of 0 (a rendezvous channel) and
`JobRetryMaxFails = 0` (endless retries) are not run; the theorems say where they
need `JobRetryMaxFails # 0`.

`CHECK_DEADLOCK FALSE`: the queue rests when every job is settled, a request that
never comes leaves nothing to do, a log of `MaxLog` commands that everyone has
executed takes no more, and a process that has ended is at rest.

### Fairness

Weak fairness for each goroutine's steps: the Go scheduler runs what can run, a
blocked send or receive on a channel is served in its turn, and DNS, rsview and
SQL calls return (the rsview client and the SQL driver have timeouts, the
resolver its own). No fairness for what clients and operators do: `Create`,
`Enqueue` of a request, `Accept`, `Arrive`, signals, `Destruct`, `Restart`.

* Provisioning: a request that has come in is served to its end, and an open job
  is taken while a worker is free. That last assumption is JobQueue's business:
  `queue_settles` shows it with a pool as large as the crew.
* JobReport: a client that keeps asking is answered while the process lives.
* RaftStore: the library applies what is committed and serves every follower
  (`Apply`, `Replicate`, `InstallSnapshot`); elections, crashes, restarts and
  snapshots are left to happen or not, so that `CatchUp` has their end as its
  hypothesis.
* CoreLifecycle and ApiService: the goroutines run, and `NewRaft()`,
  `BootstrapCluster()` and the handlers return.

## 4. What is proved

Every safety invariant and every action property of the passing runs is a theorem,
and so are the three safety refinements: `queue_safety` and the other runs show them
on a small instance, the theorems for every value of the constants that the named
`ASSUME` of the module admits. There is one module of proofs for each component. In
each, the invariant that is inductive (`...Inv`, or the named parts) has been
checked by TLC on the runs of the component before it was proved.

**JobQueueProofs**, for all finite sets of jobs and workers and all capacities,
from `QueueConfig`:

* `TypeCorrect` — the types, and the capacities of the queue, the pool and each inbox;
* `OneHolderCorrect` — no job in two channels, twice in one, or with two workers;
* `NoJobDroppedCorrect` — a job on its way is in the channel it was sent to, or
  has a worker;
* `TokenBalanceCorrect` — `Len(pool)` plus the jobs in flight is the number of
  waiting workers, which is why the race on `nextWorker` loses no offer; with one
  worker it means that an idle worker is on offer or being sent to;
* `HandoffNeverBlocksCorrect` — with room for all workers in the pool, nobody
  waits for room in it or in an inbox;
* `PanicCorrect` — a send on a closed inbox needs a shutdown;
* `RetriesCorrect` — the count of errors never passes the maximum;
* `FailureOrderCorrect` — the parts of a failure become visible in their order;
* `OutcomeFinalCorrect` — Done and Failed are final;
* `OutcomeRecordedCorrect` — while no statement is refused, a job leaves the queue
  with its outcome in all four places;
* `ImplementsJobLife` — under `JobRetryMaxFails # 0`, JobQueue implements JobLife.

The argument: `TypeOK` is inductive by itself. `OneHolder` is its three parts
together: a job is in a channel only while `at` says so, and its position
determines it; each action moves one job, so the parts are carried through the
actions one after the other. `TokenBalance` needs the types, `OneHolder` and the
finiteness of the sets, as each action changes at most one term on each side, by
one. `RetriesBounded` is inductive with the types: `requeue` with the maximal
count is what it excludes. `OutcomeFinal` needs that Done and Failed rows belong
to jobs that have left `running` or will not return to it (`OutcomeAt`). The
refinement uses `RetriesBounded` for JobLife's guard `fails[j] # JobRetryMaxFails`.

`PanicOnlyInShutdown` is strengthened to `HandoffTargets`: `nextWorker` has been
set before anyone reads it, so that a goroutine that sends does so to a worker
there is, and a worker returns only once `workerDone` is closed. `FailureOrder` is
carried with `FailurePath`: the last three steps of a failing job come after the
last permitted failure, and each finds what the one before has written, if no
statement was refused. `OutcomeRecorded` looks at the two steps that finish a job,
a success and the saving of its last error (`FinishedBy`); after them nothing about
the job changes. `HandoffNeverBlocks` is a pigeonhole: the jobs of an inbox are
different, are all in flight, and are not the one being sent; by `TokenBalance`
there are no more jobs in flight than workers.

**JobReportProofs**, for every set of clients (`WatchedJobs`): `DoneIsCleanCorrect`,
`ReportsAgreeCorrect`, `TornOnceCorrect`. A client changes nothing of the queue
(`ReportIsQueue`), so the theorems about JobQueue hold while it asks. `ReportInv`
relates what a client has read, and was told, to the row as it is now: a state that
is final is still in the row, and error rows are only added (`TableGrows`). A client
whose report showed errors, of a job whose statements were not refused, has
therefore read Failed, or will.

**ProvisioningProofs**, for any requests, MACs, names, addresses and VLANs and any
answers of DNS and rsview, from `ProvisioningConfig`:

* `ProvisioningTypeCorrect` — the types, and that no two hosts share an id or a name;
* `UniqueCreatorCorrect` — a job is the creator of two hosts only where one of them is
  the row of an UPDATE that was executed although it failed;
* `HostIdentityCorrect` — an UPDATE changes the creator of a host at most;
* `LinkedAsReportedCorrect` — a port is linked on the word of one request: to a host
  that its host job has recorded, and of the name that the switch has seen;
* `PortDoneIsOnRecordCorrect`, `CreatedMeansQueuedCorrect` — what is Done or
  answered is in the tables;
* `RequestJobsLive` — under `JobRetryMaxFails # 0`, what Provisioning assumes of the
  queue is JobLife.

Here the types are not inductive alone: that no two rows have one name depends on
what a host job is about to write being what its row has. `ProvInv` adds
`JobsInOrder` (the jobs of a request are made after its ports are known, the host
job first), `ObjectIsRow` (the `baseHost` of a request is a row once it has been
looked up), `CreatorsRecorded` and `DoneOnce` (who is the creator of a host has had it
recorded, and ends with the statement that is acknowledged), `PortProgress`
(what a port job has found out by each of its steps), `NothingLost` (no MAC is lost
between body, ports and jobs) and `JobsQueued`. A step changes the places of the
jobs in one of few ways (`JobMoves`), and the rows of one request or one port
(`HandlerFrame`, `HostFrame`, `PortFrame`); each part of the invariant is proved
from these frames, not from the actions again. That the first match in the order of
the configuration is a VLAN (`FirstVlan`) uses that numbers are well-founded.

**ApiServiceProofs**, for any number of connections and ports and all faults:
`ServiceTypeCorrect`, `CrashHasCauseCorrect`, `ServeErrorCorrect`,
`NothingCutOffCorrect`, and of the request `ApiTypeCorrect`,
`AnswerMatchesErrorsCorrect`, `AnswerOnRecordCorrect`. Each step of the composition
is a step of HttpService or leaves it unchanged, so the first invariant is that of
the service: as long as `Destruct()` was not the first to close `done`, only an error
of serving closes it and only that error is in `e` (`OwnEnd`); and Bootstrap()
returns any other value of `e` only behind a server that is closing and has no
connection (`Drained`). The second is that of the request (`RequestInv`): how many
errors it can have at each place (`ErrorsBounded`), that the arguments of
`respondJSON()` are a success just when there is none (`BeforeAnswer`), and how far
the saving of the errors and the log of the request have come (`SavedSoFar`,
`LoggedSoFar`). The status of the answer is the greatest of the statuses of its
errors, whichever way they are ordered (`WorstWins`).

**RaftStoreProofs**, for every set of nodes, keys and values, every `MaxLog` and
`TrailingLogs`, and any set of crashing nodes and bad disks, from `StoreConfig`:

* `StoreTypeCorrect` — the types, and `Bounds`: no index leaves the log;
* `MapIsHistoryCorrect`, `SnapshotsCoverCorrect`;
* `ImplementsReplicatedMap` — RaftStore implements ReplicatedMap, with no other
  hypothesis.

The inductive invariant is `TypeOK`, `HistoryOfLog` (each entry of `history` follows
from the one before by its command), `Bounds` (no node has executed, or has a
snapshot of, more than it stores, nor stores more than is committed) and
`MapIsHistory`: an Apply takes `m[n]` from one entry of the history to the next
because both `log` and `history` only grow. `SnapshotsCover` follows in a second
step. In the refinement a command is a Write, an Apply or an installed snapshot a
Follow, and the step that loses a snapshot is one Stop of all the nodes that are
shown, since nothing is promised from there on.

**RaftMembershipProofs**, for any finite set of nodes, any list and any cluster
there was before, from `MembershipConfig`: `MembershipTypeCorrect` (the
configuration stays one the library accepts), `ListedServersStayCorrect`,
`AllJoinedCorrect`. The properties have the hypothesis `OneMemberForced`. It makes one
node the author of every change of `conf`, and that is what the invariant says:
what this node knows is the configuration, or it knows none and the cluster is the
list as every first start resolves it; what is left to scan is a part of it, however
long ago it was read (`UpToDate`); what the loop has passed is in the cluster
(`Joined`). Without it `known` may be stale, which is the case that TLC finds.

**CoreLifecycleProofs**, for any `MaxSignals`: `CoreTypeCorrect`,
`SuccessNeedsSignalCorrect` and `RaftStopsFirstCorrect`. The invariant ties the
places of the two goroutines together: the service returns nil only when
`donePipe` is closed, which is after the loop has been left for another reason;
and after `Shutdown()` the raft is down, or was not there (`missed`).

**RsviewProofs**, for pages of any length, any words and any number of columns:
`ClientTypeCorrect`, `CellsInOrderCorrect`, `AnswerFitsPageCorrect`. The properties
read the page by the positions of its tags, the parser one token at a time; the
invariant relates the two for the page read so far. On any page the entries of
the buffer, and the one that is pending, are no more than the cells that have opened
(`CellsCounted`); on a page that closes each cell before the next, they are as many,
and each has the texts between its tags (`CellsRead`). A token adds one position
at the end, which leaves the rank of every other as it was (`RankKept`), so the
induction is over the steps of the parser, and there is none over pages.

Only model-checked is what the prover does not treat, liveness: `LifeFairSpec`,
`ClientLearns`, `RequestsSettle`, `CatchUp`, `ProcessEnds` and `ServiceEnds`; and the two
properties that the code violates.

## 5. What is left out

* In Provisioning, bodies, addresses and MACs that do not parse, and the HMAC
  check: refused before anything is written (in ApiRequest they are errors). The
  same MAC twice in one request.
* In Provisioning there is one name of a port and one of a switch, since no job
  compares them; VLANs are numbered in the order of the configuration.
* DNS and rsview: any answer of a small set, at any time.
* In JobQueue, what a job does; in Provisioning, the channels, the steps of
  setFailed() and the state column, all in JobQueue.
* A restart in Provisioning: jobs are lost with the process (JobQueue), and no
  property of the tables depends on a job going on.
* Of the API, the wording of errors; `apiError` and `newApiError2`, which nothing
  calls.
* The headers and the query of a request to rsview; a nil client is a panic of the
  first lookup (`server.go:43` only logs the error), as RsviewClient has it.
* Of the store: what `Set` and `Del` return; commands in flight; `InMemoryStore`,
  which is a choice of the library's stores; buckets, which the code ignores.
  Nothing assigns `Store.rft` at this commit, so `Set` and `Del` have a constant,
  `Wired`, for the nodes that can be written at.
* Of the membership: two forced nodes and a forced newcomer are modelled, and
  excluded by `OneMemberForced` from what is claimed. Nodes that resolve different
  lists at their first start bootstrap different clusters, which the library does not
  admit. A failed change of the configuration is committed or not at once: the time in
  which `GetConfiguration()` shows a change that may be taken back is left out, and
  nothing is claimed of a `join()` in it. The consensus itself.
* `core/sql`, `core/boltdb`: they open and close connections. `puppet.go` copies
  configuration. `task.go`, `model.go` and `system/` are called by nothing.

## 6. Plan

No safety property of a passing run is without its theorem. What is left:

1. a statement of ApiRequest as its client sees it — a request, one answer — with
   the refinement, as JobLife and ReplicatedMap are for the queue and the store;
2. shorter proofs: JobQueue has the case split over its actions once for each
   invariant, where frames like those of Provisioning would do it once.
