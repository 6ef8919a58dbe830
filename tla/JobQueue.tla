------------------------------ MODULE JobQueue ------------------------------
(***************************************************************************)
(* The job queue of app/server/queue.go, one action per step of one        *)
(* goroutine: the request handler that enqueues a job, the dispatcher, the *)
(* goroutine the dispatcher starts for every job it receives, and the      *)
(* workers.  What a job does (doJob) is left to a choice between success   *)
(* and failure; Provisioning.tla models it.                                *)
(*                                                                         *)
(*   handler --jobQueue--> dispatcher --go--> handoff --inbox--> worker    *)
(*                 ^                            ^  takes an inbox   |      *)
(*                 |                            +------ pool <------+      *)
(*                 +------------- appendAppError: retry ------------+      *)
(*                                                                         *)
(* A Go channel with a buffer is a sequence with a capacity.  nextWorker   *)
(* is one variable of dispatch() that every handoff goroutine captures and *)
(* writes: a goroutine sends to the inbox it finds there, which may not be *)
(* the inbox it took.                                                      *)
(***************************************************************************)
EXTENDS Naturals, Sequences, FiniteSets

CONSTANTS
  Jobs,              (* the queueJob objects                               *)
  PortJobs,          (* those whose action is jobActRsviewParse            *)
  Workers,           (* Base.Queue.Workers, as a set of workers            *)
  JobChanBuffer,     (* Base.Queue.JobChanBuffer, capacity of jobQueue     *)
  WorkersCapacity,   (* Base.Queue.WorkersCapacity: of pool and each inbox *)
  JobRetryMaxFails,  (* Base.Queue.JobRetryMaxFails                        *)
  Disturbances,      (* what the environment may do to the queue           *)
  None               (* no job, no worker                                  *)

\* Base.Queue as config.go reads it; a capacity of 0 (a rendezvous channel) is
\* not modelled.
ASSUME QueueConfig ==
  /\ PortJobs \subseteq Jobs
  /\ IsFiniteSet(Jobs) /\ IsFiniteSet(Workers)
  /\ JobChanBuffer \in Nat \ {0}
  /\ WorkersCapacity \in Nat \ {0}
  /\ JobRetryMaxFails \in Nat
  /\ Disturbances \subseteq {"dbfault", "stop", "restart"}
  /\ None \notin Jobs \cup Workers

VARIABLES
  queue,       (* dispatcher.jobQueue                                      *)
  pool,        (* dispatcher.pool, an inbox being named by its worker      *)
  inbox,       (* inbox[w], the channel of worker w                        *)
  nextWorker,  (* the variable of dispatch() shared by the handoffs        *)
  target,      (* target[j]: the inbox the handoff of j is sending to      *)
  at,          (* at[j]: where the only reference to job j is              *)
  pc,          (* pc[w]: where worker w is in spawn()                      *)
  serving,     (* serving[w]: the job worker w is executing                *)
  fails,       (* fails[j] = len(j.errors)                                 *)
  row,         (* row[j]: column state of the row of j in table jobs       *)
  flagged,     (* the jobs whose row has is_failed = 1                     *)
  errRows,     (* errRows[j]: rows of table errors with job_id = j         *)
  saved,       (* saved[j]: how many of j's errors the last loop has tried *)
  stopped,     (* "no", "done" (done is closed), "workerDone" (both are)   *)
  panicked     (* a goroutine has panicked, which ends the process         *)

chans == <<queue, pool, inbox>>
hands == <<nextWorker, target>>
crew  == <<pc, serving>>
table == <<row, flagged, errRows, saved>>
proc  == <<stopped, panicked>>
vars  == <<chans, hands, at, crew, fails, table, proc>>

Location == {"none", "created", "queued", "marking", "waiting", "taken",
             "sending", "inbox", "running", "requeue", "failing", "flagging",
             "saving", "finished", "lost"}

\* The locations in which a worker executes the job; in all of them but
\* "running" the holder can also be the goroutine of the dispatcher.
Served == {"running", "requeue", "failing", "flagging", "saving"}

JobState == {"none", "Created", "Pending", "Failed", "Blocked", "Done"}

\* No channel holds more than its capacity, and each holds what its Go type
\* says: jobQueue and the inboxes jobs, the pool inboxes (queueDispatcher).
TypeOK ==
  /\ queue \in Seq(Jobs) /\ Len(queue) <= JobChanBuffer
  /\ pool \in Seq(Workers) /\ Len(pool) <= WorkersCapacity
  /\ inbox \in [Workers -> Seq(Jobs)]
  /\ \A w \in Workers : Len(inbox[w]) <= WorkersCapacity
  /\ nextWorker \in Workers \cup {None}
  /\ target \in [Jobs -> Workers \cup {None}]
  /\ at \in [Jobs -> Location]
  /\ pc \in [Workers -> {"register", "select", "busy", "exited"}]
  /\ serving \in [Workers -> Jobs \cup {None}]
  /\ fails \in [Jobs -> Nat]
  /\ row \in [Jobs -> JobState]
  /\ flagged \subseteq Jobs
  /\ errRows \in [Jobs -> Nat] /\ saved \in [Jobs -> Nat]
  /\ stopped \in {"no", "done", "workerDone"}
  /\ panicked \in BOOLEAN

Init ==
  /\ queue = <<>> /\ pool = <<>> /\ inbox = [w \in Workers |-> <<>>]
  /\ nextWorker = None
  /\ target = [j \in Jobs |-> None]
  /\ at = [j \in Jobs |-> "none"]
  /\ pc = [w \in Workers |-> "register"]
  /\ serving = [w \in Workers |-> None]
  /\ fails = [j \in Jobs |-> 0]
  /\ row = [j \in Jobs |-> "none"]
  /\ flagged = {}
  /\ errRows = [j \in Jobs |-> 0] /\ saved = [j \in Jobs |-> 0]
  /\ stopped = "no"
  /\ panicked = FALSE

-----------------------------------------------------------------------------
(* Helpers of the steps. *)

Move(j, to) == at' = [at EXCEPT ![j] = to]

\* A database statement of the step may fail only if the database may.
DbFault == "dbfault" \in Disturbances

\* The statement sets the state column of j, or is refused and leaves it.
StateUpdate(j, state) ==
  \/ row' = [row EXCEPT ![j] = state]
  \/ DbFault /\ UNCHANGED row

\* The holder of j is finished with it: a worker returns from doJob and goes
\* back to the head of its loop, a handoff goroutine just ends.
Release(j) ==
  /\ pc' = [w \in Workers |-> IF serving[w] = j THEN "register" ELSE pc[w]]
  /\ serving' = [w \in Workers |-> IF serving[w] = j THEN None ELSE serving[w]]

\* addToQueue(): the send blocks its goroutine while the buffer is full.
Push(j) == /\ Len(queue) < JobChanBuffer
           /\ queue' = Append(queue, j)
           /\ Move(j, "queued")

\* Mutant of AppendAppError: a retry starts with an empty list of errors.
AppendAppErrorForgets(j) ==
  IF fails[j] + 1 = JobRetryMaxFails
  THEN fails' = [fails EXCEPT ![j] = @ + 1] /\ Move(j, "failing")
  ELSE fails' = [fails EXCEPT ![j] = 0] /\ Move(j, "requeue")

\* appendAppError(): one more error; the JobRetryMaxFails-th is the last, any
\* other sends the job back to the queue at once.
AppendAppError(j) ==
  /\ fails' = [fails EXCEPT ![j] = @ + 1]
  /\ Move(j, IF fails[j] + 1 = JobRetryMaxFails THEN "failing" ELSE "requeue")

-----------------------------------------------------------------------------
(* The request handler, httpHandlerHostCreate. *)

\* newQueueJob(): the row is inserted (a failed INSERT creates no job).
Create(j) ==
  /\ at[j] = "none"
  /\ Move(j, "created")
  /\ row' = [row EXCEPT ![j] = "Created"]
  /\ UNCHANGED <<chans, hands, crew, fails, flagged, errRows, saved, proc>>

\* The handler returns early: a later job of the request was not created, or
\* the INSERT of this one was executed although it failed.
Abandon(j) ==
  /\ at[j] = "created"
  /\ DbFault
  /\ Move(j, "lost")
  /\ UNCHANGED <<chans, hands, crew, fails, table, proc>>

Enqueue(j) ==
  /\ at[j] = "created"
  /\ Push(j)
  /\ UNCHANGED <<pool, inbox, hands, crew, fails, table, proc>>

-----------------------------------------------------------------------------
(* The dispatcher and the goroutine it starts for a job. *)

\* dispatch() receives a job and starts its handoff goroutine.
Dispatch ==
  /\ stopped # "workerDone"
  /\ queue # <<>>
  /\ queue' = Tail(queue)
  /\ Move(Head(queue), "marking")
  /\ UNCHANGED <<pool, inbox, hands, crew, fails, table, proc>>

MarkPending(j) ==
  /\ at[j] = "marking"
  /\ row' = [row EXCEPT ![j] = "Pending"]
  /\ Move(j, "waiting")
  /\ UNCHANGED <<chans, hands, crew, fails, flagged, errRows, saved, proc>>

\* Mutant of MarkPendingFails: the row is marked after the inbox is taken.
MarkPendingFailsLate(j) ==
  /\ at[j] = "taken"
  /\ DbFault
  /\ AppendAppError(j)
  /\ UNCHANGED <<chans, hands, crew, table, proc>>

\* stateUpdate(jobStatusPending) fails, executed or not: an attempt is spent
\* before any worker has seen the job.
MarkPendingFails(j) ==
  /\ at[j] = "marking"
  /\ DbFault
  /\ StateUpdate(j, "Pending")
  /\ AppendAppError(j)
  /\ UNCHANGED <<chans, hands, crew, flagged, errRows, saved, proc>>

\* nextWorker = <-m.pool: the receive stores into the shared variable.
TakeInbox(j) ==
  /\ at[j] = "waiting"
  /\ pool # <<>>
  /\ nextWorker' = Head(pool)
  /\ pool' = Tail(pool)
  /\ Move(j, "taken")
  /\ UNCHANGED <<queue, inbox, target, crew, fails, table, proc>>

\* nextWorker <- job: the channel operand is evaluated first ...
ReadNextWorker(j) ==
  /\ at[j] = "taken"
  /\ target' = [target EXCEPT ![j] = nextWorker]
  /\ Move(j, "sending")
  /\ UNCHANGED <<chans, nextWorker, crew, fails, table, proc>>

\* Mutant of SendJob: a send that does not wait for room.
SendJobUnbounded(j) ==
  /\ at[j] = "sending"
  /\ pc[target[j]] # "exited"
  /\ inbox' = [inbox EXCEPT ![target[j]] = Append(@, j)]
  /\ target' = [target EXCEPT ![j] = None]
  /\ Move(j, "inbox")
  /\ UNCHANGED <<queue, pool, nextWorker, crew, fails, table, proc>>

\* Mutant of SendJob: a send in a select with a default case.
SendJobOrDrop(j) ==
  /\ at[j] = "sending"
  /\ pc[target[j]] # "exited"
  /\ inbox' = [inbox EXCEPT ![target[j]] =
                  IF Len(@) < WorkersCapacity THEN Append(@, j) ELSE @]
  /\ target' = [target EXCEPT ![j] = None]
  /\ Move(j, "inbox")
  /\ UNCHANGED <<queue, pool, nextWorker, crew, fails, table, proc>>

\* ... then the job is sent, when that inbox has room.
SendJob(j) ==
  /\ at[j] = "sending"
  /\ pc[target[j]] # "exited"
  /\ Len(inbox[target[j]]) < WorkersCapacity
  /\ inbox' = [inbox EXCEPT ![target[j]] = Append(@, j)]
  /\ target' = [target EXCEPT ![j] = None]
  /\ Move(j, "inbox")
  /\ UNCHANGED <<queue, pool, nextWorker, crew, fails, table, proc>>

\* The worker has returned and closed its inbox: the send panics.
SendOnClosed(j) ==
  /\ at[j] = "sending"
  /\ pc[target[j]] = "exited"
  /\ panicked' = TRUE
  /\ UNCHANGED <<chans, hands, at, crew, fails, table, stopped>>

-----------------------------------------------------------------------------
(* A worker. *)

\* Mutant of Register: the inbox is offered again while the worker waits.
RegisterAgain(w) ==
  /\ pc[w] \in {"register", "select"}
  /\ Len(pool) < WorkersCapacity
  /\ pool' = Append(pool, w)
  /\ pc' = [pc EXCEPT ![w] = "select"]
  /\ UNCHANGED <<queue, inbox, hands, at, serving, fails, table, proc>>

\* m.pool <- m.inbox
Register(w) ==
  /\ pc[w] = "register"
  /\ Len(pool) < WorkersCapacity
  /\ pool' = Append(pool, w)
  /\ pc' = [pc EXCEPT ![w] = "select"]
  /\ UNCHANGED <<queue, inbox, hands, at, serving, fails, table, proc>>

Receive(w) ==
  /\ pc[w] = "select"
  /\ inbox[w] # <<>>
  /\ inbox' = [inbox EXCEPT ![w] = Tail(@)]
  /\ serving' = [serving EXCEPT ![w] = Head(inbox[w])]
  /\ pc' = [pc EXCEPT ![w] = "busy"]
  /\ Move(Head(inbox[w]), "running")
  /\ UNCHANGED <<queue, pool, hands, fails, table, proc>>

\* Mutant of Exit: the worker listens to done and not to workerDone.
ExitOnDone(w) ==
  /\ pc[w] = "select"
  /\ stopped # "no"
  /\ pc' = [pc EXCEPT ![w] = "exited"]
  /\ UNCHANGED <<chans, hands, at, serving, fails, table, proc>>

\* workerDone is closed: spawn() returns and closes the inbox, with whatever
\* is still in it.
Exit(w) ==
  /\ pc[w] = "select"
  /\ stopped = "workerDone"
  /\ pc' = [pc EXCEPT ![w] = "exited"]
  /\ UNCHANGED <<chans, hands, at, serving, fails, table, proc>>

\* doJob() finds the host job of its request still Pending and says so.
Block(j) ==
  /\ j \in PortJobs
  /\ at[j] = "running"
  /\ row' = [row EXCEPT ![j] = "Blocked"]
  /\ UNCHANGED <<chans, hands, at, crew, fails, flagged, errRows, saved,
                 proc>>

\* doJob() succeeds; the result of stateUpdate(jobStatusDone) is ignored.
Complete(j) ==
  /\ at[j] = "running"
  /\ StateUpdate(j, "Done")
  /\ Move(j, "finished")
  /\ Release(j)
  /\ UNCHANGED <<chans, hands, fails, flagged, errRows, saved, proc>>

\* doJob() fails and calls appendAppError().
JobError(j) ==
  /\ at[j] = "running"
  /\ AppendAppError(j)
  /\ UNCHANGED <<chans, hands, crew, table, proc>>

-----------------------------------------------------------------------------
(* appendAppError(), in a worker or in a handoff goroutine. *)

\* Mutant of Requeue: doJob() does not return after appendAppError().
RequeueAndGoOn(j) ==
  /\ at[j] = "requeue"
  /\ Push(j)
  /\ UNCHANGED <<pool, inbox, hands, crew, fails, table, proc>>

Requeue(j) ==
  /\ at[j] = "requeue"
  /\ Push(j)
  /\ Release(j)
  /\ UNCHANGED <<pool, inbox, hands, fails, table, proc>>

\* Mutant of SetFailed: the test of its error is inverted.
SetFailedInverted(j) ==
  /\ at[j] = "failing"
  /\ \/ row' = [row EXCEPT ![j] = "Failed"] /\ Move(j, "saving")
     \/ DbFault /\ Move(j, "flagging") /\ UNCHANGED row
  /\ UNCHANGED <<chans, hands, crew, fails, flagged, errRows, saved, proc>>

\* setFailed(), first statement; if it fails, executed or not, the second is
\* skipped.
SetFailed(j) ==
  /\ at[j] = "failing"
  /\ \/ row' = [row EXCEPT ![j] = "Failed"] /\ Move(j, "flagging")
     \/ DbFault /\ Move(j, "saving") /\ StateUpdate(j, "Failed")
  /\ UNCHANGED <<chans, hands, crew, fails, flagged, errRows, saved, proc>>

SetIsFailed(j) ==
  /\ at[j] = "flagging"
  /\ flagged' = flagged \cup {j} \/ (DbFault /\ UNCHANGED flagged)
  /\ Move(j, "saving")
  /\ UNCHANGED <<chans, hands, crew, fails, row, errRows, saved, proc>>

\* Mutant of SaveErrors: appendAppError() does not return after giving up.
SaveErrorsAndRetry(j) ==
  /\ at[j] = "saving"
  /\ saved' = [saved EXCEPT ![j] = @ + 1]
  /\ errRows' = [errRows EXCEPT ![j] = @ + 1]
  /\ \/ saved[j] + 1 < fails[j] /\ UNCHANGED at
     \/ saved[j] + 1 = fails[j] /\ Move(j, "requeue")
  /\ UNCHANGED <<chans, hands, crew, fails, row, flagged, proc>>

\* The collected errors are inserted one after the other; a failed INSERT is
\* logged and skipped.  After the last one the job is given up.
SaveErrors(j) ==
  /\ at[j] = "saving"
  /\ saved' = [saved EXCEPT ![j] = @ + 1]
  /\ errRows' = [errRows EXCEPT ![j] = @ + 1] \/ (DbFault /\ UNCHANGED errRows)
  /\ \/ saved[j] + 1 < fails[j] /\ UNCHANGED <<at, crew>>
     \/ saved[j] + 1 = fails[j] /\ Move(j, "finished") /\ Release(j)
  /\ UNCHANGED <<chans, hands, fails, row, flagged, proc>>

-----------------------------------------------------------------------------
(* Shutdown, and the end of the process. *)

\* destruct(): close(m.done)
Destruct ==
  /\ "stop" \in Disturbances
  /\ stopped = "no"
  /\ stopped' = "done"
  /\ UNCHANGED <<chans, hands, at, crew, fails, table, panicked>>

\* dispatch() selects done and returns; its goroutine closes workerDone.
DispatcherReturns ==
  /\ stopped = "done"
  /\ stopped' = "workerDone"
  /\ UNCHANGED <<chans, hands, at, crew, fails, table, panicked>>

\* The process ends, at any point, and is started again: the tables are kept,
\* and no job is loaded from them.
Restart ==
  /\ "restart" \in Disturbances
  /\ at' = [j \in Jobs |->
                   IF at[j] \in {"none", "finished"} THEN at[j] ELSE "lost"]
  /\ queue' = <<>> /\ pool' = <<>> /\ inbox' = [w \in Workers |-> <<>>]
  /\ nextWorker' = None
  /\ target' = [j \in Jobs |-> None]
  /\ pc' = [w \in Workers |-> "register"]
  /\ serving' = [w \in Workers |-> None]
  /\ stopped' = "no"
  /\ panicked' = FALSE
  /\ UNCHANGED <<fails, table>>

-----------------------------------------------------------------------------
HandlerStep(j) == Create(j) \/ Abandon(j) \/ Enqueue(j)

HandoffStep(j) == \/ MarkPending(j) \/ MarkPendingFails(j) \/ TakeInbox(j)
                  \/ ReadNextWorker(j) \/ SendJob(j) \/ SendOnClosed(j)

DoJobStep(j) == Block(j) \/ Complete(j) \/ JobError(j)

FailureStep(j) == \/ Requeue(j) \/ SetFailed(j) \/ SetIsFailed(j)
                  \/ SaveErrors(j)

WorkerStep(w) == Register(w) \/ Receive(w) \/ Exit(w)

\* A panic ends every goroutine of the process.
Next ==
  \/ /\ ~panicked
     /\ \/ \E j \in Jobs : \/ HandlerStep(j) \/ HandoffStep(j)
                           \/ DoJobStep(j) \/ FailureStep(j)
        \/ \E w \in Workers : WorkerStep(w)
        \/ Dispatch \/ Destruct \/ DispatcherReturns
  \/ Restart

Spec == Init /\ [][Next]_vars

\* The Go scheduler runs every runnable goroutine, and doJob() returns: the
\* resolver, the rsview client and the SQL driver all have timeouts.
Fairness ==
  /\ \A j \in Jobs : /\ WF_vars(~panicked /\ HandoffStep(j))
                     /\ WF_vars(~panicked /\ (Complete(j) \/ JobError(j)))
                     /\ WF_vars(~panicked /\ FailureStep(j))
  /\ \A w \in Workers : WF_vars(~panicked /\ (Register(w) \/ Receive(w)))
  /\ WF_vars(~panicked /\ Dispatch)

FairSpec == Spec /\ Fairness

-----------------------------------------------------------------------------
(* Properties. *)

\* The jobs whose handoff has taken an inbox from the pool and that no worker
\* has received, and the workers that have offered an inbox and wait.
InFlight == {j \in Jobs : at[j] \in {"taken", "sending", "inbox"}}
Parked   == {w \in Workers : pc[w] \in {"select", "exited"}}

QueuedOnce ==
  \A i \in 1 .. Len(queue) :
    /\ at[queue[i]] = "queued"
    /\ \A k \in 1 .. Len(queue) : queue[i] = queue[k] => i = k

InboxOnce ==
  \A w \in Workers : \A i \in 1 .. Len(inbox[w]) :
    /\ at[inbox[w][i]] = "inbox"
    /\ \A v \in Workers : \A k \in 1 .. Len(inbox[v]) :
         inbox[w][i] = inbox[v][k] => w = v /\ i = k

ServedOnce ==
  \A w \in Workers :
    /\ pc[w] = "busy" <=> serving[w] # None
    /\ serving[w] # None => at[serving[w]] \in Served
    /\ \A v \in Workers : serving[w] = serving[v] /\ w # v => serving[w] = None

\* No job is executed twice at a time: a worker's job is in no channel, no two
\* workers have the same job, and no channel holds a job twice.  A retry is
\* enqueued by its holder while the holder still runs (appendAppError), so a
\* reference kept too long would show here.
OneHolder == QueuedOnce /\ InboxOnce /\ ServedOnce

\* No accepted job falls out of the program: whatever the handoffs do to
\* nextWorker, a job on its way is in the channel it was sent to, or has a
\* worker.
NoJobDropped ==
  \A j \in Jobs :
    /\ at[j] = "queued" => \E i \in 1 .. Len(queue) : queue[i] = j
    /\ at[j] = "inbox" => \E w \in Workers : \E i \in 1 .. Len(inbox[w]) :
                             inbox[w][i] = j
    /\ at[j] = "running" => \E w \in Workers : serving[w] = j

\* Inboxes on offer and inboxes taken are as many as waiting workers.  The race
\* on nextWorker can put two jobs into one inbox, but it neither makes nor
\* loses an offer.
TokenBalance == Len(pool) + Cardinality(InFlight) = Cardinality(Parked)

\* If the pool can hold an inbox of every worker (config.go: 10 and 1), no
\* worker blocks on offering its inbox, and no handoff blocks on an inbox
\* another handoff has filled.
HandoffNeverBlocks ==
  WorkersCapacity >= Cardinality(Workers) =>
    /\ \A w \in Workers : pc[w] = "register" => Len(pool) < WorkersCapacity
    /\ \A j \in Jobs : at[j] = "sending" =>
                           Len(inbox[target[j]]) < WorkersCapacity

\* len(m.errors) is compared with ==: the count never jumps over the maximum,
\* no attempt follows the last one, and only the last one saves the errors.
RetriesBounded ==
  JobRetryMaxFails # 0 =>
    \A j \in Jobs :
      /\ fails[j] <= JobRetryMaxFails
      /\ at[j] \in {"failing", "flagging", "saving"} => fails[j] = JobRetryMaxFails
      /\ fails[j] = JobRetryMaxFails =>
           at[j] \in {"failing", "flagging", "saving", "finished", "lost"}

\* What a client polling GET /job/<id> may conclude: is_failed and error rows
\* are only ever found on a job that has used up its attempts, and, if the
\* database has refused nothing, only on one whose state already says Failed.
FailureOrder ==
  \A j \in Jobs :
    /\ j \in flagged => row[j] = "Failed"
    /\ errRows[j] > 0 => fails[j] = JobRetryMaxFails
    /\ errRows[j] > 0 /\ ~DbFault => row[j] = "Failed" /\ j \in flagged

\* While the database works, a job leaves the program only with its outcome on
\* record, and the four places that record it agree.
OutcomeRecorded ==
  ~DbFault /\ JobRetryMaxFails # 0 =>
    \A j \in Jobs : at[j] = "finished" =>
      IF fails[j] = JobRetryMaxFails
      THEN row[j] = "Failed" /\ j \in flagged /\ errRows[j] = JobRetryMaxFails
      ELSE row[j] = "Done" /\ j \notin flagged /\ errRows[j] = 0

\* Done and Failed are final: no late stateUpdate of a retry, of a blocked port
\* job or of another goroutine overwrites an outcome.
OutcomeFinal ==
  [][\A j \in Jobs : row[j] \in {"Done", "Failed"} => row'[j] = row[j]]_vars

\* A send on the inbox of a worker that has returned can only happen in a
\* shutdown: the queue never takes the running program down.
PanicOnlyInShutdown == panicked => stopped = "workerDone"

\* The phase of JobLife a job is in while it is at a location.
Phase(loc) == CASE loc \in {"none", "created"} -> "new"
                [] loc = "finished"            -> "settled"
                [] loc = "lost"                -> "lost"
                [] OTHER                       -> "open"

Life == INSTANCE JobLife WITH phase <- [j \in Jobs |-> Phase(at[j])]

\* Seen job by job, the queue of queue.go is JobLife: at most JobRetryMaxFails
\* attempts follow one another, and a settled job is never attempted again.
LifeSpec == Life!Spec

\* And it keeps attempting an open job until it settles it.
LifeFairSpec == Life!FairSpec
=============================================================================
