--------------------------- MODULE JobQueueProofs ---------------------------
(* Theorems about JobQueue for every set of jobs and workers and every     *)
(* configuration of the queue.                                             *)
EXTENDS JobQueue, FiniteSetTheorems, SequenceTheorems, TLAPS

-----------------------------------------------------------------------------
(* Type correctness. *)

LEMMA EmptyChannels ==
  /\ <<>> \in Seq(Jobs) /\ <<>> \in Seq(Workers)
  /\ Len(<<>>) = 0
  /\ [w \in Workers |-> <<>>] \in [Workers -> Seq(Jobs)]
<1>1. <<>> \in Seq(Jobs) /\ <<>> \in Seq(Workers) /\ Len(<<>>) = 0
  BY EmptySeq
<1>2. QED BY <1>1

LEMMA TypeInit == Init => TypeOK
<1>1. ASSUME Init PROVE TypeOK
  <2>1. Len(<<>>) <= JobChanBuffer /\ Len(<<>>) <= WorkersCapacity
    BY QueueConfig, EmptyChannels DEF QueueConfig
  <2>2. QED BY <1>1, <2>1, EmptyChannels DEF Init, TypeOK, Location, JobState
<1>2. QED BY <1>1

LEMMA TypeHandler ==
  ASSUME TypeOK, NEW j \in Jobs, HandlerStep(j) PROVE TypeOK'
<1> USE QueueConfig
    DEF QueueConfig, TypeOK, Location, JobState, Move, chans, hands, crew, proc, table
<1>1. CASE Create(j)  BY <1>1 DEF Create
<1>2. CASE Abandon(j) BY <1>2 DEF Abandon
<1>3. CASE Enqueue(j)
  <2>1. queue' \in Seq(Jobs) /\ Len(queue') <= JobChanBuffer
    <3>1. queue' = Append(queue, j) /\ Len(queue) < JobChanBuffer
      BY <1>3 DEF Enqueue, Push
    <3>2. QED BY <3>1, AppendProperties, LenProperties
  <2>2. QED BY <1>3, <2>1 DEF Enqueue, Push
<1>4. QED BY <1>1, <1>2, <1>3 DEF HandlerStep

LEMMA TypeHandoff ==
  ASSUME TypeOK, NEW j \in Jobs, HandoffStep(j) PROVE TypeOK'
<1> USE QueueConfig
    DEF QueueConfig, TypeOK, Location, JobState, Move, chans, hands, crew, proc, table
<1>1. CASE MarkPending(j)      BY <1>1 DEF MarkPending
<1>2. CASE MarkPendingFails(j)
  <2>1. row' \in [Jobs -> JobState]
    BY <1>2 DEF MarkPendingFails, StateUpdate
  <2>2. at' \in [Jobs -> Location] /\ fails' \in [Jobs -> Nat]
    BY <1>2, SMTT(30) DEF MarkPendingFails, AppendAppError
  <2>3. QED BY <1>2, <2>1, <2>2 DEF MarkPendingFails
<1>3. CASE TakeInbox(j)        BY <1>3, HeadTailProperties, SMTT(30) DEF TakeInbox
<1>4. CASE ReadNextWorker(j)   BY <1>4 DEF ReadNextWorker
<1>5. CASE SendJob(j)
  <2>1. inbox' \in [Workers -> Seq(Jobs)]
    <3>1. CASE target[j] \in Workers
      <4>1. Append(inbox[target[j]], j) \in Seq(Jobs)
        BY <3>1, AppendProperties
      <4>2. QED BY <1>5, <3>1, <4>1 DEF SendJob
    <3>2. CASE target[j] \notin Workers
      BY <1>5, <3>2 DEF SendJob
    <3>3. QED BY <3>1, <3>2
  <2>2. \A w \in Workers : Len(inbox'[w]) <= WorkersCapacity
    <3>1. ASSUME NEW w \in Workers PROVE Len(inbox'[w]) <= WorkersCapacity
      <4>1. CASE w = target[j]
        <5>1. inbox[w] \in Seq(Jobs) /\ Len(inbox[w]) < WorkersCapacity
              /\ inbox'[w] = Append(inbox[w], j)
          BY <1>5, <4>1 DEF SendJob
        <5>2. Len(inbox'[w]) = Len(inbox[w]) + 1 /\ Len(inbox[w]) \in Nat
          BY <5>1, AppendProperties, LenProperties
        <5>3. QED BY <5>1, <5>2
      <4>2. CASE w # target[j]
        BY <1>5, <4>2 DEF SendJob
      <4>3. QED BY <4>1, <4>2
    <3>2. QED BY <3>1
  <2>3. QED BY <1>5, <2>1, <2>2 DEF SendJob
<1>6. CASE SendOnClosed(j)     BY <1>6 DEF SendOnClosed
<1>7. QED BY <1>1, <1>2, <1>3, <1>4, <1>5, <1>6 DEF HandoffStep

LEMMA TypeDoJob ==
  ASSUME TypeOK, NEW j \in Jobs, DoJobStep(j) PROVE TypeOK'
<1> USE QueueConfig
    DEF QueueConfig, TypeOK, Location, JobState, Move, chans, hands, crew, proc, table
<1>1. CASE Block(j)    BY <1>1 DEF Block
<1>2. CASE Complete(j) BY <1>2 DEF Complete, StateUpdate, Release
<1>3. CASE JobError(j) BY <1>3, SMTT(30) DEF JobError, AppendAppError
<1>4. QED BY <1>1, <1>2, <1>3 DEF DoJobStep

LEMMA TypeSaveErrors ==
  ASSUME TypeOK, NEW j \in Jobs, SaveErrors(j) PROVE TypeOK'
<1>1. /\ errRows \in [Jobs -> Nat] /\ saved \in [Jobs -> Nat]
      /\ at \in [Jobs -> Location]
      /\ pc \in [Workers -> {"register", "select", "busy", "exited"}]
      /\ serving \in [Workers -> Jobs \cup {None}]
  BY DEF TypeOK
<1>2. /\ errRows' = errRows \/ errRows' = [errRows EXCEPT ![j] = @ + 1]
      /\ saved' = [saved EXCEPT ![j] = @ + 1]
      /\ at' = at \/ at' = [at EXCEPT ![j] = "finished"]
      /\ (pc' = pc /\ serving' = serving) \/ Release(j)
      /\ UNCHANGED <<queue, pool, inbox, nextWorker, target, fails, row, flagged,
                     stopped, panicked>>
  BY DEF SaveErrors, Move, chans, hands, crew, proc
<1>3. errRows' \in [Jobs -> Nat] BY <1>1, <1>2
<1>4. saved' \in [Jobs -> Nat]   BY <1>1, <1>2
<1>5. at' \in [Jobs -> Location] BY <1>1, <1>2 DEF Location
<1>6. /\ pc' \in [Workers -> {"register", "select", "busy", "exited"}]
      /\ serving' \in [Workers -> Jobs \cup {None}]
  BY <1>1, <1>2 DEF Release
<1>7. QED BY <1>2, <1>3, <1>4, <1>5, <1>6 DEF TypeOK

LEMMA TypeFailure ==
  ASSUME TypeOK, NEW j \in Jobs, FailureStep(j) PROVE TypeOK'
<1> USE QueueConfig
    DEF QueueConfig, TypeOK, Location, JobState, Move, chans, hands, crew, proc, table
<1>1. CASE Requeue(j)
  <2>1. queue' \in Seq(Jobs) /\ Len(queue') <= JobChanBuffer
    BY <1>1, AppendProperties, LenProperties DEF Requeue, Push
  <2>2. /\ pc' \in [Workers -> {"register", "select", "busy", "exited"}]
        /\ serving' \in [Workers -> Jobs \cup {None}]
    BY <1>1 DEF Requeue, Release
  <2>3. at' \in [Jobs -> Location] BY <1>1 DEF Requeue, Push
  <2>4. QED BY <1>1, <2>1, <2>2, <2>3 DEF Requeue
<1>2. CASE SetFailed(j)
  <2>1. /\ row \in [Jobs -> JobState] /\ at \in [Jobs -> Location]
        /\ row' = row \/ row' = [row EXCEPT ![j] = "Failed"]
        /\ at' = [at EXCEPT ![j] = "flagging"] \/ at' = [at EXCEPT ![j] = "saving"]
    BY <1>2 DEF SetFailed, StateUpdate
  <2>2. UNCHANGED <<queue, pool, inbox, nextWorker, target, pc, serving, fails,
                    flagged, errRows, saved, stopped, panicked>>
    BY <1>2 DEF SetFailed
  <2>3. row' \in [Jobs -> JobState] BY <2>1 DEF JobState
  <2>4. at' \in [Jobs -> Location] BY <2>1 DEF Location
  <2>5. QED BY <2>2, <2>3, <2>4
<1>3. CASE SetIsFailed(j) BY <1>3 DEF SetIsFailed
<1>4. CASE SaveErrors(j) BY <1>4, TypeSaveErrors
<1>5. QED BY <1>1, <1>2, <1>3, <1>4 DEF FailureStep

LEMMA TypeWorker ==
  ASSUME TypeOK, NEW w \in Workers, WorkerStep(w) PROVE TypeOK'
<1> USE QueueConfig
    DEF QueueConfig, TypeOK, Location, JobState, Move, chans, hands, crew, proc, table
<1>1. CASE Register(w) BY <1>1 DEF Register
<1>2. CASE Receive(w)
  <2>1. inbox[w] \in Seq(Jobs) /\ inbox[w] # <<>> /\ Len(inbox[w]) <= WorkersCapacity
    BY <1>2 DEF Receive
  <2>2. /\ Head(inbox[w]) \in Jobs /\ Tail(inbox[w]) \in Seq(Jobs)
        /\ Len(Tail(inbox[w])) <= WorkersCapacity
    BY <2>1, HeadTailProperties, LenProperties
  <2>3. /\ inbox' \in [Workers -> Seq(Jobs)]
        /\ \A v \in Workers : Len(inbox'[v]) <= WorkersCapacity
    BY <1>2, <2>2 DEF Receive
  <2>4. QED BY <1>2, <2>2, <2>3 DEF Receive
<1>3. CASE Exit(w)     BY <1>3 DEF Exit
<1>4. QED BY <1>1, <1>2, <1>3 DEF WorkerStep

LEMMA TypeDispatch == TypeOK /\ Dispatch => TypeOK'
<1> SUFFICES ASSUME TypeOK, Dispatch PROVE TypeOK'
  OBVIOUS
<1>1. /\ queue \in Seq(Jobs) /\ queue # <<>> /\ Len(queue) <= JobChanBuffer
      /\ at \in [Jobs -> Location] /\ JobChanBuffer \in Nat
  BY QueueConfig DEF TypeOK, Dispatch, QueueConfig
<1>2. /\ queue' = Tail(queue) /\ at' = [at EXCEPT ![Head(queue)] = "marking"]
      /\ UNCHANGED <<pool, inbox, nextWorker, target, pc, serving, fails, row,
                     flagged, errRows, saved, stopped, panicked>>
  BY DEF Dispatch, Move, hands, crew, table, proc
<1>3. /\ Tail(queue) \in Seq(Jobs) /\ Len(Tail(queue)) = Len(queue) - 1
      /\ Len(queue) \in Nat
  BY <1>1, HeadTailProperties, LenProperties
<1>4. queue' \in Seq(Jobs) /\ Len(queue') <= JobChanBuffer BY <1>1, <1>2, <1>3
<1>5. at' \in [Jobs -> Location] BY <1>1, <1>2 DEF Location
<1>6. QED BY <1>2, <1>4, <1>5 DEF TypeOK

LEMMA TypeGlobal ==
  ASSUME TypeOK, Dispatch \/ Destruct \/ DispatcherReturns \/ Restart
  PROVE  TypeOK'
<1> USE QueueConfig
    DEF QueueConfig, TypeOK, Location, JobState, Move, chans, hands, crew, proc, table
<1>1. CASE Dispatch          BY <1>1, TypeDispatch
<1>2. CASE Destruct          BY <1>2 DEF Destruct
<1>3. CASE DispatcherReturns BY <1>3 DEF DispatcherReturns
<1>4. CASE Restart
  <2>1. Len(<<>>) <= JobChanBuffer /\ Len(<<>>) <= WorkersCapacity
    BY EmptyChannels
  <2>2. QED BY <1>4, <2>1, EmptyChannels DEF Restart
<1>5. QED BY <1>1, <1>2, <1>3, <1>4

LEMMA TypeStep == TypeOK /\ [Next]_vars => TypeOK'
<1> SUFFICES ASSUME TypeOK, [Next]_vars PROVE TypeOK'
  OBVIOUS
<1>1. CASE UNCHANGED vars BY <1>1 DEF vars, chans, hands, crew, table, proc, TypeOK
<1>2. CASE Next
  BY <1>2, TypeHandler, TypeHandoff, TypeDoJob, TypeFailure, TypeWorker,
     TypeGlobal DEF Next
<1>3. QED BY <1>1, <1>2

\* The channels never exceed their capacity and every reference of the queue is
\* to a job or a worker: queue.go, all of it.
THEOREM TypeCorrect == Spec => []TypeOK
<1>1. QED BY TypeInit, TypeStep, PTL DEF Spec

-----------------------------------------------------------------------------
(* One holder per job. *)

\* A job that is in no channel, and that its holder keeps if it has one, may
\* move without disturbing the others.
LEMMA MoveAside ==
  ASSUME TypeOK, OneHolder, NEW j \in Jobs, NEW to,
         at' = [at EXCEPT ![j] = to],
         at[j] \notin {"queued", "inbox"}, at[j] \in Served => to \in Served,
         UNCHANGED <<queue, inbox, pc, serving>>
  PROVE  OneHolder'
<1>0. at \in [Jobs -> Location] /\ queue \in Seq(Jobs) /\ inbox \in [Workers -> Seq(Jobs)]
  BY DEF TypeOK
<1>1. QueuedOnce'
  <2>1. \A i \in 1 .. Len(queue) : queue[i] \in Jobs /\ at[queue[i]] = "queued"
    BY <1>0, ElementOfSeq DEF OneHolder, QueuedOnce
  <2>2. \A i \in 1 .. Len(queue) : queue[i] # j /\ at'[queue[i]] = "queued"
    BY <1>0, <2>1
  <2>3. QED BY <2>2 DEF OneHolder, QueuedOnce
<1>2. InboxOnce'
  <2>1. \A w \in Workers : \A i \in 1 .. Len(inbox[w]) :
          inbox[w][i] \in Jobs /\ at[inbox[w][i]] = "inbox"
    BY <1>0, ElementOfSeq DEF OneHolder, InboxOnce
  <2>2. \A w \in Workers : \A i \in 1 .. Len(inbox[w]) :
          inbox[w][i] # j /\ at'[inbox[w][i]] = "inbox"
    BY <1>0, <2>1
  <2>3. QED BY <2>2 DEF OneHolder, InboxOnce
<1>3. ServedOnce'
  <2> USE DEF TypeOK
  <2>1. \A w \in Workers : serving[w] # None => at'[serving[w]] \in Served
    BY DEF OneHolder, ServedOnce, Served
  <2>2. QED BY <2>1 DEF OneHolder, ServedOnce
<1>4. QED BY <1>1, <1>2, <1>3 DEF OneHolder

\* The holder of a job, if it has one, puts it down and enqueues it.
LEMMA PushOnce ==
  ASSUME TypeOK, OneHolder, NEW j \in Jobs, Push(j), at[j] \notin {"queued", "inbox"},
         Release(j) \/ (at[j] \notin Served /\ UNCHANGED <<pc, serving>>),
         UNCHANGED inbox
  PROVE  OneHolder'
<1>0. /\ queue \in Seq(Jobs) /\ queue' = Append(queue, j)
      /\ at \in [Jobs -> Location] /\ at' = [at EXCEPT ![j] = "queued"]
      /\ inbox \in [Workers -> Seq(Jobs)]
      /\ pc \in [Workers -> {"register", "select", "busy", "exited"}]
      /\ serving \in [Workers -> Jobs \cup {None}]
  BY DEF TypeOK, Push, Move
<1>1. QueuedOnce'
  <2>1. /\ Len(queue') = Len(queue) + 1
        /\ \A i \in 1 .. Len(queue) : queue'[i] = queue[i]
        /\ queue'[Len(queue) + 1] = j
    BY <1>0, AppendProperties
  <2>2. \A i \in 1 .. Len(queue) : queue[i] \in Jobs /\ queue[i] # j
    BY <1>0, ElementOfSeq DEF OneHolder, QueuedOnce
  <2>3. /\ \A i \in 1 .. Len(queue') :
             i \in 1 .. Len(queue) \/ i = Len(queue) + 1
        /\ Len(queue) \in Nat
    BY <1>0, <2>1, LenProperties
  <2>4. \A i \in 1 .. Len(queue') : at'[queue'[i]] = "queued"
    BY <1>0, <2>1, <2>2, <2>3 DEF OneHolder, QueuedOnce
  <2>5. \A i \in 1 .. Len(queue') : \A k \in 1 .. Len(queue') :
          queue'[i] = queue'[k] => i = k
    BY <2>1, <2>2, <2>3 DEF OneHolder, QueuedOnce
  <2>6. QED BY <2>4, <2>5 DEF QueuedOnce
<1>2. InboxOnce'
  <2>1. \A w \in Workers : \A i \in 1 .. Len(inbox[w]) : at'[inbox[w][i]] = "inbox"
    BY <1>0, ElementOfSeq DEF OneHolder, InboxOnce
  <2>2. QED BY <2>1 DEF OneHolder, InboxOnce
<1>3. ServedOnce'
  <2>1. CASE Release(j)
    BY <1>0, <2>1, QueueConfig DEF QueueConfig, Release, OneHolder, ServedOnce
  <2>2. CASE at[j] \notin Served /\ UNCHANGED <<pc, serving>>
    BY <1>0, <2>2 DEF OneHolder, ServedOnce
  <2>3. QED BY <2>1, <2>2
<1>4. QED BY <1>1, <1>2, <1>3 DEF OneHolder

\* The holder of a job puts it down for good.
LEMMA ReleaseOnce ==
  ASSUME TypeOK, OneHolder, NEW j \in Jobs, Release(j), Move(j, "finished"),
         at[j] \in Served, UNCHANGED <<queue, inbox>>
  PROVE  OneHolder'
<1>0. /\ queue \in Seq(Jobs) /\ inbox \in [Workers -> Seq(Jobs)]
      /\ at \in [Jobs -> Location] /\ at' = [at EXCEPT ![j] = "finished"]
      /\ pc \in [Workers -> {"register", "select", "busy", "exited"}]
      /\ serving \in [Workers -> Jobs \cup {None}]
  BY DEF TypeOK, Move
<1>1. QueuedOnce' BY <1>0, ElementOfSeq DEF OneHolder, QueuedOnce, Served
<1>2. InboxOnce'
  <2>1. \A w \in Workers : \A i \in 1 .. Len(inbox[w]) : at'[inbox[w][i]] = "inbox"
    BY <1>0, ElementOfSeq DEF OneHolder, InboxOnce, Served
  <2>2. QED BY <2>1 DEF OneHolder, InboxOnce
<1>3. ServedOnce'
  BY <1>0, QueueConfig DEF QueueConfig, Release, OneHolder, ServedOnce
<1>4. QED BY <1>1, <1>2, <1>3 DEF OneHolder

LEMMA InInbox ==
  ASSUME OneHolder, NEW w \in Workers, NEW i \in 1 .. Len(inbox[w])
  PROVE  at[inbox[w][i]] = "inbox"
BY DEF OneHolder, InboxOnce

LEMMA InboxDistinct ==
  ASSUME OneHolder, NEW w \in Workers, NEW i \in 1 .. Len(inbox[w]),
         NEW v \in Workers, NEW k \in 1 .. Len(inbox[v]),
         inbox[w][i] = inbox[v][k]
  PROVE  w = v /\ i = k
BY DEF OneHolder, InboxOnce

LEMMA SendOnce ==
  ASSUME TypeOK, OneHolder, NEW j \in Jobs, SendJob(j) PROVE OneHolder'
<1>1. /\ at[j] = "sending" /\ at' = [at EXCEPT ![j] = "inbox"]
      /\ at \in [Jobs -> Location]
      /\ UNCHANGED <<queue, pc, serving>>
  BY DEF TypeOK, SendJob, Move, hands, crew
<1>2. QueuedOnce' BY <1>1, ElementOfSeq DEF TypeOK, OneHolder, QueuedOnce
<1>3. InboxOnce'
  <2> DEFINE t == target[j]
  <2>1. \A w \in Workers : \A i \in 1 .. Len(inbox[w]) :
          inbox[w][i] \in Jobs /\ inbox[w][i] # j
    BY <1>1, ElementOfSeq, InInbox DEF TypeOK
  <2>2. \A w \in Workers : \A i \in 1 .. Len(inbox'[w]) :
          \/ i \in 1 .. Len(inbox[w]) /\ inbox'[w][i] = inbox[w][i]
          \/ w = t /\ i = Len(inbox[t]) + 1 /\ inbox'[w][i] = j
    <3>1. CASE t \in Workers
      <4>1. inbox[t] \in Seq(Jobs) /\ inbox' = [inbox EXCEPT ![t] = Append(@, j)]
        BY <3>1 DEF TypeOK, SendJob
      <4>2. /\ Len(Append(inbox[t], j)) = Len(inbox[t]) + 1
            /\ \A i \in 1 .. Len(inbox[t]) : Append(inbox[t], j)[i] = inbox[t][i]
            /\ Append(inbox[t], j)[Len(inbox[t]) + 1] = j
        BY <4>1, AppendProperties
      <4>3. inbox \in [Workers -> Seq(Jobs)] BY DEF TypeOK
      <4>4. \A w \in Workers : inbox'[w] = IF w = t THEN Append(inbox[t], j) ELSE inbox[w]
        BY <3>1, <4>1, <4>3
      <4>5. Len(inbox[t]) \in Nat BY <4>1, LenProperties
      <4>6. ASSUME NEW w \in Workers, NEW i \in 1 .. Len(inbox'[w])
            PROVE  \/ i \in 1 .. Len(inbox[w]) /\ inbox'[w][i] = inbox[w][i]
                   \/ w = t /\ i = Len(inbox[t]) + 1 /\ inbox'[w][i] = j
        <5>1. CASE w = t
          <6>1. inbox'[w] = Append(inbox[t], j) BY <4>4, <5>1
          <6>2. i \in 1 .. Len(inbox[t]) \/ i = Len(inbox[t]) + 1
            BY <4>2, <4>5, <4>6, <6>1
          <6>3. QED BY <4>2, <5>1, <6>1, <6>2
        <5>2. CASE w # t  BY <4>4, <5>2
        <5>3. QED BY <5>1, <5>2
      <4>7. QED BY <4>6
    <3>2. CASE t \notin Workers
      BY <3>2 DEF TypeOK, SendJob
    <3>3. QED BY <3>1, <3>2
  <2>3. \A w \in Workers : \A i \in 1 .. Len(inbox'[w]) : at'[inbox'[w][i]] = "inbox"
    <3>1. \A k \in Jobs : at'[k] = IF k = j THEN "inbox" ELSE at[k]
      BY <1>1
    <3>2. QED BY <2>1, <2>2, <3>1, InInbox
  <2>4. ASSUME NEW w \in Workers, NEW i \in 1 .. Len(inbox'[w]),
               NEW v \in Workers, NEW k \in 1 .. Len(inbox'[v]),
               inbox'[w][i] = inbox'[v][k]
        PROVE  w = v /\ i = k
    <3>1. CASE i \in 1 .. Len(inbox[w]) /\ inbox'[w][i] = inbox[w][i]
      <4>1. k \in 1 .. Len(inbox[v]) /\ inbox'[v][k] = inbox[v][k]
        <5>1. inbox'[v][k] # j BY <2>1, <2>4, <3>1
        <5>2. QED BY <2>2, <2>4, <5>1
      <4>2. inbox[w][i] = inbox[v][k] BY <2>4, <3>1, <4>1
      <4>3. QED BY <3>1, <4>1, <4>2, InboxDistinct
    <3>2. CASE w = t /\ i = Len(inbox[t]) + 1 /\ inbox'[w][i] = j
      BY <2>1, <2>2, <2>4, <3>2
    <3>3. QED BY <2>2, <3>1, <3>2
  <2>5. QED BY <2>3, <2>4 DEF InboxOnce
<1>4. ServedOnce' BY <1>1 DEF OneHolder, ServedOnce, Served
<1>5. QED BY <1>2, <1>3, <1>4 DEF OneHolder

LEMMA ReceiveOnce ==
  ASSUME TypeOK, OneHolder, NEW w \in Workers, Receive(w) PROVE OneHolder'
<1> DEFINE h == Head(inbox[w])
<1>1. /\ h \in Jobs /\ h # None /\ h = inbox[w][1] /\ 1 \in 1 .. Len(inbox[w])
      /\ inbox' = [inbox EXCEPT ![w] = Tail(@)]
      /\ Len(Tail(inbox[w])) = Len(inbox[w]) - 1
      /\ \A i \in 1 .. Len(Tail(inbox[w])) : Tail(inbox[w])[i] = inbox[w][i + 1]
  <2>1. inbox[w] \in Seq(Jobs) /\ inbox[w] # <<>>
    BY DEF TypeOK, Receive
  <2>2. Len(inbox[w]) \in Nat \ {0} BY <2>1, EmptySeq
  <2>3. QED BY <2>1, <2>2, HeadTailProperties, QueueConfig DEF Receive, QueueConfig
<1>2. /\ at[h] = "inbox" /\ at' = [at EXCEPT ![h] = "running"]
      /\ at \in [Jobs -> Location] /\ UNCHANGED queue
  <2>1. at[h] = "inbox" BY <1>1, InInbox
  <2>2. QED BY <2>1 DEF TypeOK, Receive, Move
<1>3. QueuedOnce' BY <1>1, <1>2, ElementOfSeq DEF TypeOK, OneHolder, QueuedOnce
<1>4. InboxOnce'
  <2>1. \A v \in Workers : \A i \in 1 .. Len(inbox'[v]) :
          LET k == IF v = w THEN i + 1 ELSE i
          IN  k \in 1 .. Len(inbox[v]) /\ inbox'[v][i] = inbox[v][k]
    <3>1. ASSUME NEW v \in Workers, v # w, NEW i \in 1 .. Len(inbox'[v])
          PROVE  i \in 1 .. Len(inbox[v]) /\ inbox'[v][i] = inbox[v][i]
      BY <1>1, <3>1
    <3>2. ASSUME NEW i \in 1 .. Len(inbox'[w])
          PROVE  i + 1 \in 1 .. Len(inbox[w]) /\ inbox'[w][i] = inbox[w][i + 1]
      <4>1. Len(inbox[w]) \in Nat
        <5>1. inbox[w] \in Seq(Jobs) BY DEF TypeOK
        <5>2. QED BY <5>1, LenProperties
      <4>2. Len(inbox'[w]) = Len(inbox[w]) - 1 BY <1>1 DEF TypeOK
      <4>3. i \in 1 .. Len(inbox[w]) - 1 BY <4>2, <3>2
      <4>4. QED BY <1>1, <4>1, <4>2, <4>3 DEF TypeOK
    <3>3. QED BY <3>1, <3>2
  <2>2. ASSUME NEW v \in Workers, NEW i \in 1 .. Len(inbox'[v]) PROVE inbox'[v][i] # h
    <3>1. CASE v # w BY <1>1, <2>1, <3>1, InboxDistinct
    <3>2. CASE v = w
      <4>1. i + 1 \in 1 .. Len(inbox[w]) /\ inbox'[w][i] = inbox[w][i + 1] /\ i + 1 # 1
        BY <2>1, <3>2
      <4>2. QED BY <1>1, <3>2, <4>1, InboxDistinct
    <3>3. QED BY <3>1, <3>2
  <2>3. \A v \in Workers : \A i \in 1 .. Len(inbox'[v]) : at'[inbox'[v][i]] = "inbox"
    <3>1. \A v \in Workers : \A k \in 1 .. Len(inbox[v]) :
            inbox[v][k] \in Jobs /\ at[inbox[v][k]] = "inbox"
      BY InInbox, ElementOfSeq DEF TypeOK
    <3>2. QED BY <1>2, <2>1, <2>2, <3>1
  <2>4. ASSUME NEW u \in Workers, NEW i \in 1 .. Len(inbox'[u]),
               NEW v \in Workers, NEW k \in 1 .. Len(inbox'[v]),
               inbox'[u][i] = inbox'[v][k]
        PROVE  u = v /\ i = k
    <3>1. PICK m \in 1 .. Len(inbox[u]) :
            inbox'[u][i] = inbox[u][m] /\ m = IF u = w THEN i + 1 ELSE i
      BY <2>1
    <3>2. PICK n \in 1 .. Len(inbox[v]) :
            inbox'[v][k] = inbox[v][n] /\ n = IF v = w THEN k + 1 ELSE k
      BY <2>1
    <3>3. u = v /\ m = n
      <4>1. inbox[u][m] = inbox[v][n] BY <2>4, <3>1, <3>2
      <4>2. QED BY <4>1, InboxDistinct
    <3>4. QED BY <3>1, <3>2, <3>3
  <2>5. QED BY <2>3, <2>4 DEF InboxOnce
<1>5. ServedOnce'
  <2>1. \A v \in Workers : serving[v] # h
    BY <1>1, <1>2 DEF OneHolder, ServedOnce, Served
  <2>2. /\ serving' = [serving EXCEPT ![w] = h] /\ pc' = [pc EXCEPT ![w] = "busy"]
        /\ serving \in [Workers -> Jobs \cup {None}] /\ DOMAIN pc = Workers
    BY DEF TypeOK, Receive
  <2>3. QED BY <1>1, <1>2, <2>1, <2>2 DEF OneHolder, ServedOnce, Served
<1>6. QED BY <1>3, <1>4, <1>5 DEF OneHolder

LEMMA DispatchOnce ==
  ASSUME TypeOK, OneHolder, Dispatch PROVE OneHolder'
<1> DEFINE h == Head(queue)
<1>1. /\ h \in Jobs /\ h = queue[1] /\ 1 \in 1 .. Len(queue)
      /\ Len(queue') = Len(queue) - 1
      /\ \A i \in 1 .. Len(queue') : queue'[i] = queue[i + 1]
  <2>1. queue \in Seq(Jobs) /\ queue # <<>> /\ queue' = Tail(queue)
    BY DEF TypeOK, Dispatch
  <2>2. QED BY <2>1, HeadTailProperties, EmptySeq, LenProperties
<1>2. /\ at[h] = "queued" /\ at' = [at EXCEPT ![h] = "marking"]
      /\ at \in [Jobs -> Location] /\ UNCHANGED <<inbox, pc, serving>>
  BY <1>1 DEF OneHolder, QueuedOnce, TypeOK, Dispatch, Move, crew, hands, proc
<1>3. QueuedOnce'
  <2>1. \A i \in 1 .. Len(queue') :
          i + 1 \in 1 .. Len(queue) /\ queue'[i] = queue[i + 1] /\ queue[i + 1] \in Jobs
    <3>1. queue \in Seq(Jobs) BY DEF TypeOK
    <3>2. Len(queue) \in Nat BY <3>1, LenProperties
    <3>3. QED BY <1>1, <3>1, <3>2, ElementOfSeq
  <2>2. \A i \in 1 .. Len(queue') : queue'[i] # h
    BY <1>1, <2>1 DEF OneHolder, QueuedOnce
  <2>3. \A i \in 1 .. Len(queue') : at'[queue'[i]] = "queued"
    BY <1>2, <2>1, <2>2 DEF OneHolder, QueuedOnce
  <2>4. ASSUME NEW i \in 1 .. Len(queue'), NEW k \in 1 .. Len(queue'),
               queue'[i] = queue'[k]
        PROVE  i = k
    <3>1. i + 1 = k + 1 BY <2>1, <2>4 DEF OneHolder, QueuedOnce
    <3>2. QED BY <3>1
  <2>5. QED BY <2>3, <2>4 DEF QueuedOnce
<1>4. InboxOnce'
  <2>1. \A w \in Workers : \A i \in 1 .. Len(inbox[w]) : inbox[w][i] \in Jobs
    BY ElementOfSeq DEF TypeOK
  <2>2. QED BY <1>1, <1>2, <2>1 DEF OneHolder, InboxOnce
<1>5. ServedOnce' BY <1>1, <1>2, SMTT(30) DEF TypeOK, OneHolder, ServedOnce, Served
<1>6. QED BY <1>3, <1>4, <1>5 DEF OneHolder

LEMMA OnceStep == TypeOK /\ OneHolder /\ [Next]_vars => OneHolder'
<1> SUFFICES ASSUME TypeOK, OneHolder, [Next]_vars PROVE OneHolder'
  OBVIOUS
<1> USE DEF Move, chans, hands, crew, proc, Served
<1>1. ASSUME NEW j \in Jobs, HandlerStep(j) PROVE OneHolder'
  <2>1. CASE Create(j)  BY <2>1, MoveAside DEF Create
  <2>2. CASE Abandon(j) BY <2>2, MoveAside DEF Abandon
  <2>3. CASE Enqueue(j) BY <2>3, PushOnce DEF Enqueue
  <2>4. QED BY <1>1, <2>1, <2>2, <2>3 DEF HandlerStep
<1>2. ASSUME NEW j \in Jobs, HandoffStep(j) PROVE OneHolder'
  <2>1. CASE MarkPending(j)
    BY <2>1, MoveAside DEF MarkPending
  <2>2. CASE MarkPendingFails(j)
    BY <2>2, MoveAside DEF MarkPendingFails, StateUpdate, AppendAppError
  <2>3. CASE TakeInbox(j)
    BY <2>3, MoveAside DEF TakeInbox
  <2>4. CASE ReadNextWorker(j)
    BY <2>4, MoveAside DEF ReadNextWorker
  <2>5. CASE SendJob(j) BY <2>5, SendOnce
  <2>6. CASE SendOnClosed(j)
    BY <2>6 DEF SendOnClosed, OneHolder, QueuedOnce, InboxOnce, ServedOnce
  <2>7. QED BY <1>2, <2>1, <2>2, <2>3, <2>4, <2>5, <2>6 DEF HandoffStep
<1>3. ASSUME NEW j \in Jobs, DoJobStep(j) PROVE OneHolder'
  <2>1. CASE Block(j)
    BY <2>1 DEF Block, OneHolder, QueuedOnce, InboxOnce, ServedOnce
  <2>2. CASE Complete(j) BY <2>2, ReleaseOnce DEF Complete
  <2>3. CASE JobError(j)
    BY <2>3, MoveAside DEF JobError, AppendAppError
  <2>4. QED BY <1>3, <2>1, <2>2, <2>3 DEF DoJobStep
<1>4. ASSUME NEW j \in Jobs, FailureStep(j) PROVE OneHolder'
  <2>1. CASE Requeue(j) BY <2>1, PushOnce DEF Requeue
  <2>2. CASE SetFailed(j)
    <3>1. \E to \in Served : at' = [at EXCEPT ![j] = to]
      BY <2>2 DEF SetFailed
    <3>2. QED BY <2>2, <3>1, MoveAside DEF SetFailed
  <2>3. CASE SetIsFailed(j)
    BY <2>3, MoveAside DEF SetIsFailed
  <2>4. CASE SaveErrors(j)
    <3>1. CASE UNCHANGED <<at, crew>>
      BY <2>4, <3>1 DEF SaveErrors, chans, crew, OneHolder, QueuedOnce, InboxOnce,
                        ServedOnce
    <3>2. CASE Move(j, "finished") /\ Release(j)
      BY <2>4, <3>2, ReleaseOnce DEF SaveErrors, chans, Served
    <3>3. QED BY <2>4, <3>1, <3>2 DEF SaveErrors
  <2>5. QED BY <1>4, <2>1, <2>2, <2>3, <2>4 DEF FailureStep
<1>5. ASSUME NEW w \in Workers, WorkerStep(w) PROVE OneHolder'
  <2>1. ASSUME UNCHANGED <<queue, inbox, at, serving>>,
               pc[w] # "busy", NEW to, to # "busy", pc' = [pc EXCEPT ![w] = to]
        PROVE  OneHolder'
    <3>1. QueuedOnce' /\ InboxOnce' BY <2>1 DEF OneHolder, QueuedOnce, InboxOnce
    <3>2. DOMAIN pc = Workers BY DEF TypeOK
    <3>3. ServedOnce' BY <2>1, <3>2 DEF OneHolder, ServedOnce
    <3>4. QED BY <3>1, <3>3 DEF OneHolder
  <2>2. CASE Register(w) BY <2>1, <2>2 DEF Register
  <2>3. CASE Receive(w)  BY <2>3, ReceiveOnce
  <2>4. CASE Exit(w)     BY <2>1, <2>4 DEF Exit
  <2>5. QED BY <1>5, <2>2, <2>3, <2>4 DEF WorkerStep
<1>6. CASE Dispatch BY <1>6, DispatchOnce
<1>7. CASE Destruct \/ DispatcherReturns \/ UNCHANGED vars
  BY <1>7 DEF Destruct, DispatcherReturns, vars, table, OneHolder, QueuedOnce,
              InboxOnce, ServedOnce
<1>8. CASE Restart
  BY <1>8, EmptyChannels DEF Restart, OneHolder, QueuedOnce, InboxOnce, ServedOnce
<1>9. QED BY <1>1, <1>2, <1>3, <1>4, <1>5, <1>6, <1>7, <1>8 DEF Next

\* No two goroutines hold the same job, and no job is in two channels or twice
\* in one: every send and receive of queue.go hands the reference over.
THEOREM OneHolderCorrect == Spec => []OneHolder
<1>1. Init => OneHolder
  BY EmptyChannels DEF Init, OneHolder, QueuedOnce, InboxOnce, ServedOnce
<1>2. QED BY <1>1, TypeCorrect, OnceStep, PTL DEF Spec

-----------------------------------------------------------------------------
(* The retry limit, and the finality of an outcome. *)

\* Where the heads of the channels are, which Dispatch and Receive move.
LEMMA Heads ==
  ASSUME TypeOK, OneHolder
  PROVE  /\ queue # <<>> => Head(queue) \in Jobs /\ at[Head(queue)] = "queued"
         /\ \A w \in Workers : inbox[w] # <<>> =>
              Head(inbox[w]) \in Jobs /\ at[Head(inbox[w])] = "inbox"
<1>1. queue # <<>> => Head(queue) \in Jobs /\ at[Head(queue)] = "queued"
  BY HeadTailProperties, EmptySeq DEF TypeOK, OneHolder, QueuedOnce
<1>2. ASSUME NEW w \in Workers, inbox[w] # <<>>
      PROVE  Head(inbox[w]) \in Jobs /\ at[Head(inbox[w])] = "inbox"
  <2>1. inbox[w] \in Seq(Jobs) BY DEF TypeOK
  <2>2. 1 \in 1 .. Len(inbox[w]) /\ Head(inbox[w]) = inbox[w][1]
    BY <1>2, <2>1, EmptySeq
  <2>3. QED BY <1>2, <2>1, <2>2, HeadTailProperties, InInbox
<1>3. QED BY <1>1, <1>2

LEMMA RetryStep ==
  TypeOK /\ OneHolder /\ RetriesBounded /\ [Next]_vars => RetriesBounded'
<1> SUFFICES ASSUME TypeOK, OneHolder, RetriesBounded, [Next]_vars
             PROVE  RetriesBounded'
  OBVIOUS
<1> USE QueueConfig DEF QueueConfig, TypeOK, RetriesBounded, Move, chans, hands, crew, proc, table
<1>1. ASSUME NEW j \in Jobs, HandlerStep(j) PROVE RetriesBounded'
  <2>1. CASE Create(j)  BY <2>1 DEF Create
  <2>2. CASE Abandon(j) BY <2>2 DEF Abandon
  <2>3. CASE Enqueue(j) BY <2>3 DEF Enqueue, Push
  <2>4. QED BY <1>1, <2>1, <2>2, <2>3 DEF HandlerStep
<1>2. ASSUME NEW j \in Jobs, HandoffStep(j) PROVE RetriesBounded'
  <2>1. CASE MarkPendingFails(j) BY <2>1 DEF MarkPendingFails, StateUpdate, AppendAppError
  <2>2. CASE MarkPending(j)    BY <2>2 DEF MarkPending
  <2>3. CASE TakeInbox(j)      BY <2>3 DEF TakeInbox
  <2>4. CASE ReadNextWorker(j) BY <2>4 DEF ReadNextWorker
  <2>5. CASE SendJob(j)        BY <2>5 DEF SendJob
  <2>6. CASE SendOnClosed(j)   BY <2>6 DEF SendOnClosed
  <2>7. QED BY <1>2, <2>1, <2>2, <2>3, <2>4, <2>5, <2>6 DEF HandoffStep
<1>3. ASSUME NEW j \in Jobs, DoJobStep(j) PROVE RetriesBounded'
  <2>1. CASE Block(j)    BY <2>1 DEF Block
  <2>2. CASE Complete(j) BY <2>2 DEF Complete
  <2>3. CASE JobError(j) BY <2>3 DEF JobError, AppendAppError
  <2>4. QED BY <1>3, <2>1, <2>2, <2>3 DEF DoJobStep
<1>4. ASSUME NEW j \in Jobs, FailureStep(j) PROVE RetriesBounded'
  <2>1. CASE Requeue(j)     BY <2>1 DEF Requeue, Push
  <2>2. CASE SetFailed(j)   BY <2>2, ZenonT(60) DEF SetFailed
  <2>3. CASE SetIsFailed(j) BY <2>3 DEF SetIsFailed
  <2>4. CASE SaveErrors(j)  BY <2>4 DEF SaveErrors
  <2>5. QED BY <1>4, <2>1, <2>2, <2>3, <2>4 DEF FailureStep
<1>5. ASSUME NEW w \in Workers, WorkerStep(w) PROVE RetriesBounded'
  <2>1. CASE Register(w) BY <2>1, Heads DEF Register
  <2>2. CASE Receive(w)
    <3>1. PICK k \in Jobs : at[k] = "inbox" /\ at' = [at EXCEPT ![k] = "running"]
      BY <2>2, Heads DEF Receive
    <3>2. QED BY <2>2, <3>1 DEF Receive
  <2>3. CASE Exit(w)     BY <2>3, Heads DEF Exit
  <2>4. QED BY <1>5, <2>1, <2>2, <2>3 DEF WorkerStep
<1>6. CASE Dispatch BY <1>6, Heads DEF Dispatch
<1>7. CASE Destruct \/ DispatcherReturns \/ UNCHANGED vars
  BY <1>7 DEF Destruct, DispatcherReturns, vars
<1>8. CASE Restart BY <1>8 DEF Restart
<1>9. QED BY <1>1, <1>2, <1>3, <1>4, <1>5, <1>6, <1>7, <1>8 DEF Next

\* A job never fails more than JobRetryMaxFails times, and after the last
\* failure it is only given up: the equality of appendAppError() is enough.
THEOREM RetriesCorrect == Spec => []RetriesBounded
<1>1. Init => RetriesBounded
  BY QueueConfig DEF QueueConfig, Init, RetriesBounded
<1>2. QED BY <1>1, TypeCorrect, OneHolderCorrect, RetryStep, PTL DEF Spec

\* An outcome on record has its job on the way out of the program.
OutcomeAt ==
  \A j \in Jobs :
    /\ row[j] = "Done" => at[j] = "finished"
    /\ row[j] = "Failed" => at[j] \in {"flagging", "saving", "finished", "lost"}

LEMMA OutcomeStep ==
  TypeOK /\ OneHolder /\ OutcomeAt /\ [Next]_vars =>
    OutcomeAt' /\ \A j \in Jobs : row[j] \in {"Done", "Failed"} => row'[j] = row[j]
<1> SUFFICES ASSUME TypeOK, OneHolder, OutcomeAt, [Next]_vars
             PROVE  /\ OutcomeAt'
                    /\ \A j \in Jobs : row[j] \in {"Done", "Failed"} => row'[j] = row[j]
  OBVIOUS
<1> DEFINE Kept ==
      /\ OutcomeAt'
      /\ \A j \in Jobs : row[j] \in {"Done", "Failed"} => row'[j] = row[j]
<1> USE DEF TypeOK, OutcomeAt, Move, chans, hands, crew, proc, table
<1>1. ASSUME NEW j \in Jobs, HandlerStep(j) PROVE Kept
  <2>1. CASE Create(j)  BY <2>1 DEF Create
  <2>2. CASE Abandon(j) BY <2>2 DEF Abandon
  <2>3. CASE Enqueue(j) BY <2>3 DEF Enqueue, Push
  <2>4. QED BY <1>1, <2>1, <2>2, <2>3 DEF HandlerStep
<1>2. ASSUME NEW j \in Jobs, HandoffStep(j) PROVE Kept
  <2>1. CASE MarkPendingFails(j) BY <2>1 DEF MarkPendingFails, StateUpdate, AppendAppError
  <2>2. CASE MarkPending(j)    BY <2>2 DEF MarkPending
  <2>3. CASE TakeInbox(j)      BY <2>3 DEF TakeInbox
  <2>4. CASE ReadNextWorker(j) BY <2>4 DEF ReadNextWorker
  <2>5. CASE SendJob(j)        BY <2>5 DEF SendJob
  <2>6. CASE SendOnClosed(j)   BY <2>6 DEF SendOnClosed
  <2>7. QED BY <1>2, <2>1, <2>2, <2>3, <2>4, <2>5, <2>6 DEF HandoffStep
<1>3. ASSUME NEW j \in Jobs, DoJobStep(j) PROVE Kept
  <2>1. CASE Block(j)    BY <2>1 DEF Block
  <2>2. CASE Complete(j) BY <2>2 DEF Complete, StateUpdate
  <2>3. CASE JobError(j) BY <2>3 DEF JobError, AppendAppError
  <2>4. QED BY <1>3, <2>1, <2>2, <2>3 DEF DoJobStep
<1>4. ASSUME NEW j \in Jobs, FailureStep(j) PROVE Kept
  <2>1. CASE Requeue(j)     BY <2>1 DEF Requeue, Push
  <2>2. CASE SetFailed(j)   BY <2>2 DEF SetFailed, StateUpdate
  <2>3. CASE SetIsFailed(j) BY <2>3 DEF SetIsFailed
  <2>4. CASE SaveErrors(j)  BY <2>4 DEF SaveErrors
  <2>5. QED BY <1>4, <2>1, <2>2, <2>3, <2>4 DEF FailureStep
<1>5. ASSUME NEW w \in Workers, WorkerStep(w) PROVE Kept
  BY <1>5, Heads DEF WorkerStep, Register, Receive, Exit
<1>6. CASE Dispatch BY <1>6, Heads DEF Dispatch
<1>7. CASE Destruct \/ DispatcherReturns \/ UNCHANGED vars
  BY <1>7 DEF Destruct, DispatcherReturns, vars
<1>8. CASE Restart BY <1>8 DEF Restart
<1>9. QED BY <1>1, <1>2, <1>3, <1>4, <1>5, <1>6, <1>7, <1>8 DEF Next

\* Once the table says Done or Failed of a job, no statement of queue.go writes
\* another state over it: not even that of a goroutine that started earlier.
THEOREM OutcomeFinalCorrect == Spec => OutcomeFinal
<1>1. Init => OutcomeAt BY DEF Init, OutcomeAt
<1>2. TypeOK /\ OneHolder /\ OutcomeAt /\ [Next]_vars
        => [\A j \in Jobs : row[j] \in {"Done", "Failed"} => row'[j] = row[j]]_vars
  BY OutcomeStep
<1>3. QED BY <1>1, <1>2, TypeCorrect, OneHolderCorrect, OutcomeStep, PTL
          DEF Spec, OutcomeFinal

-----------------------------------------------------------------------------
(* The queue implements JobLife. *)

\* What the move of one job is in JobLife.
LEMMA PhaseMove ==
  ASSUME TypeOK, NEW j \in Jobs, NEW to \in Location, at' = [at EXCEPT ![j] = to]
  PROVE  [k \in Jobs |-> Phase(at'[k])]
           = [[k \in Jobs |-> Phase(at[k])] EXCEPT ![j] = Phase(to)]
BY DEF TypeOK

LEMMA PhaseKept ==
  ASSUME TypeOK, NEW j \in Jobs, NEW to \in Location, at' = [at EXCEPT ![j] = to],
         Phase(to) = Phase(at[j])
  PROVE  [k \in Jobs |-> Phase(at'[k])] = [k \in Jobs |-> Phase(at[k])]
BY DEF TypeOK

\* The step leaves every job in its phase, with its failures.
Stutter == UNCHANGED <<[k \in Jobs |-> Phase(at[k])], fails>>

LEMMA LifeStutter ==
  ASSUME TypeOK, NEW j \in Jobs, UNCHANGED fails,
         \/ UNCHANGED at
         \/ \E to \in Location : /\ at' = [at EXCEPT ![j] = to]
                                 /\ Phase(to) = Phase(at[j])
  PROVE  Stutter
<1>1. CASE UNCHANGED at BY <1>1 DEF Stutter
<1>2. ASSUME NEW to \in Location, at' = [at EXCEPT ![j] = to], Phase(to) = Phase(at[j])
      PROVE  Stutter
  BY <1>2, PhaseKept DEF Stutter
<1>3. QED BY <1>1, <1>2

LEMMA LifeFailAttempt ==
  ASSUME TypeOK, RetriesBounded, JobRetryMaxFails # 0, NEW j \in Jobs,
         at[j] \in {"marking", "running"}, AppendAppError(j)
  PROVE  Life!FailAttempt(j)
<1>1. PICK to \in {"failing", "requeue"} : at' = [at EXCEPT ![j] = to]
  BY DEF AppendAppError, Move
<1>2. [k \in Jobs |-> Phase(at'[k])] = [k \in Jobs |-> Phase(at[k])]
  <2>1. to \in Location /\ Phase(to) = Phase(at[j])
    BY <1>1 DEF Location, Phase
  <2>2. QED BY <1>1, <2>1, PhaseKept
<1>3. fails[j] # JobRetryMaxFails BY DEF RetriesBounded
<1>4. Phase(at[j]) = "open" BY DEF Phase
<1>5. QED BY <1>2, <1>3, <1>4 DEF Life!FailAttempt, AppendAppError

LEMMA LifeSettle ==
  ASSUME TypeOK, NEW j \in Jobs, at[j] \in Served, Move(j, "finished"), UNCHANGED fails
  PROVE  Life!Settle(j)
<1>1. "finished" \in Location BY DEF Location
<1>2. [k \in Jobs |-> Phase(at'[k])]
        = [[k \in Jobs |-> Phase(at[k])] EXCEPT ![j] = Phase("finished")]
  BY <1>1, PhaseMove DEF Move
<1>3. Phase(at[j]) = "open" /\ Phase("finished") = "settled" BY DEF Phase, Served
<1>4. QED BY <1>2, <1>3 DEF Life!Settle

LEMMA LifeStep ==
  ASSUME TypeOK, OneHolder, RetriesBounded, JobRetryMaxFails # 0, [Next]_vars
  PROVE  [Life!Next]_(Life!vars)
<1> USE DEF Move, chans, hands, crew, proc, table
<1>1. ASSUME NEW j \in Jobs, HandlerStep(j) PROVE Life!Next \/ Stutter
  <2>1. CASE Create(j)
    <3>1. "created" \in Location /\ Phase("created") = Phase(at[j])
      BY <2>1 DEF Create, Location, Phase
    <3>2. QED BY <2>1, <3>1, LifeStutter DEF Create
  <2>2. CASE Abandon(j)
    <3>1. "lost" \in Location BY DEF Location
    <3>2. [k \in Jobs |-> Phase(at'[k])]
            = [[k \in Jobs |-> Phase(at[k])] EXCEPT ![j] = Phase("lost")]
      BY <2>2, <3>1, PhaseMove DEF Abandon
    <3>3. Phase(at[j]) = "new" /\ Phase("lost") = "lost"
      BY <2>2 DEF Abandon, Phase
    <3>4. Life!Lose
      <4>1. {j} \in SUBSET {k \in Jobs : [i \in Jobs |-> Phase(at[i])][k] # "settled"}
        BY <3>3
      <4>2. [k \in Jobs |-> Phase(at'[k])]
              = [k \in Jobs |-> IF k \in {j} THEN "lost"
                                ELSE [i \in Jobs |-> Phase(at[i])][k]]
        BY <3>2, <3>3
      <4>3. QED BY <2>2, <4>1, <4>2 DEF Abandon, Life!Lose
    <3>5. QED BY <3>4 DEF Life!Next
  <2>3. CASE Enqueue(j)
    <3>1. "queued" \in Location BY DEF Location
    <3>2. [k \in Jobs |-> Phase(at'[k])]
            = [[k \in Jobs |-> Phase(at[k])] EXCEPT ![j] = Phase("queued")]
      BY <2>3, <3>1, PhaseMove DEF Enqueue, Push
    <3>3. Phase(at[j]) = "new" /\ Phase("queued") = "open"
      BY <2>3 DEF Enqueue, Phase
    <3>4. Life!Open(j) BY <2>3, <3>2, <3>3 DEF Enqueue, Life!Open
    <3>5. QED BY <3>4 DEF Life!Next
  <2>4. QED BY <1>1, <2>1, <2>2, <2>3 DEF HandlerStep
<1>2. ASSUME NEW j \in Jobs, HandoffStep(j) PROVE Life!Next \/ Stutter
  <2>1. CASE MarkPendingFails(j)
    BY <2>1, LifeFailAttempt DEF MarkPendingFails, Life!Next
  <2>2. CASE ~MarkPendingFails(j)
    <3>1. \/ UNCHANGED at
          \/ \E to \in Location : /\ at' = [at EXCEPT ![j] = to]
                                  /\ Phase(to) = Phase(at[j])
      BY <1>2, <2>2 DEF HandoffStep, MarkPending, TakeInbox, ReadNextWorker, SendJob,
                        SendOnClosed, Location, Phase
    <3>2. UNCHANGED fails
      BY <1>2, <2>2 DEF HandoffStep, MarkPending, TakeInbox, ReadNextWorker, SendJob,
                        SendOnClosed
    <3>3. QED BY <3>1, <3>2, LifeStutter
  <2>3. QED BY <2>1, <2>2
<1>3. ASSUME NEW j \in Jobs, DoJobStep(j) PROVE Life!Next \/ Stutter
  <2>1. CASE Block(j)    BY <2>1, LifeStutter DEF Block
  <2>2. CASE Complete(j) BY <2>2, LifeSettle DEF Complete, Served, Life!Next
  <2>3. CASE JobError(j) BY <2>3, LifeFailAttempt DEF JobError, Life!Next
  <2>4. QED BY <1>3, <2>1, <2>2, <2>3 DEF DoJobStep
<1>4. ASSUME NEW j \in Jobs, FailureStep(j) PROVE Life!Next \/ Stutter
  <2>1. CASE SaveErrors(j)
    <3>1. CASE UNCHANGED at
      BY <2>1, <3>1, LifeStutter DEF SaveErrors
    <3>2. CASE Move(j, "finished")
      BY <2>1, <3>2, LifeSettle DEF SaveErrors, Served, Life!Next
    <3>3. QED BY <2>1, <3>1, <3>2 DEF SaveErrors
  <2>2. CASE ~SaveErrors(j)
    <3>1. \E to \in Location : /\ at' = [at EXCEPT ![j] = to]
                               /\ Phase(to) = Phase(at[j])
      BY <1>4, <2>2 DEF FailureStep, Requeue, Push, SetFailed, SetIsFailed,
                        Location, Phase
    <3>2. UNCHANGED fails
      BY <1>4, <2>2 DEF FailureStep, Requeue, SetFailed, SetIsFailed
    <3>3. QED BY <3>1, <3>2, LifeStutter
  <2>3. QED BY <2>1, <2>2
<1>5. ASSUME NEW w \in Workers, WorkerStep(w) PROVE Stutter
  <2>1. CASE Receive(w)
    <3>1. "running" \in Location /\ Phase("running") = Phase(at[Head(inbox[w])])
      BY <2>1, Heads DEF Receive, Location, Phase
    <3>2. QED BY <2>1, <3>1, Heads, LifeStutter DEF Receive
  <2>2. CASE ~Receive(w)
    BY <1>5, <2>2 DEF WorkerStep, Register, Exit, Stutter
  <2>3. QED BY <2>1, <2>2
<1>6. CASE Dispatch
  <2>1. "marking" \in Location /\ Phase("marking") = Phase(at[Head(queue)])
    BY <1>6, Heads DEF Dispatch, Location, Phase
  <2>2. Stutter BY <1>6, <2>1, Heads, LifeStutter DEF Dispatch
  <2>3. QED BY <2>2 DEF Stutter, Life!vars
<1>7. CASE Destruct \/ DispatcherReturns \/ UNCHANGED vars
  BY <1>7 DEF Destruct, DispatcherReturns, vars, Life!vars
<1>8. CASE Restart
  <2> DEFINE lost == {k \in Jobs : at[k] \notin {"none", "finished"}}
  <2>1. \A k \in Jobs : at'[k] = IF k \in lost THEN "lost" ELSE at[k]
    BY <1>8 DEF Restart
  <2>2. \A k \in lost : Phase(at[k]) # "settled"
    BY DEF Phase
  <2>3. Phase("lost") = "lost" BY DEF Phase
  <2>4. [k \in Jobs |-> Phase(at'[k])]
          = [k \in Jobs |-> IF k \in lost THEN "lost"
                            ELSE [i \in Jobs |-> Phase(at[i])][k]]
    BY <2>1, <2>3
  <2>5. lost \in SUBSET {k \in Jobs : [i \in Jobs |-> Phase(at[i])][k] # "settled"}
    BY <2>2
  <2>6. Life!Lose BY <1>8, <2>4, <2>5 DEF Restart, Life!Lose
  <2>7. QED BY <2>6 DEF Life!Next
<1>9. Stutter => UNCHANGED Life!vars BY DEF Stutter, Life!vars
<1>10. QED BY <1>1, <1>2, <1>3, <1>4, <1>5, <1>6, <1>7, <1>8, <1>9 DEF Next

\* Job by job, every run of the queue is a run of JobLife, if a maximum of
\* failures is configured (0 would be one no count of errors ever equals).
THEOREM ImplementsJobLife ==
  ASSUME JobRetryMaxFails # 0 PROVE Spec => LifeSpec
<1>1. Init => Life!Init
  BY DEF Init, Life!Init, Phase
<1>2. TypeOK /\ OneHolder /\ RetriesBounded /\ [Next]_vars => [Life!Next]_(Life!vars)
  BY LifeStep
<1>3. QED BY <1>1, <1>2, TypeCorrect, OneHolderCorrect, RetriesCorrect, PTL
          DEF Spec, LifeSpec, Life!Spec

-----------------------------------------------------------------------------
(* The inboxes on offer. *)

LEMMA FiniteParties ==
  /\ IsFiniteSet(InFlight) /\ Cardinality(InFlight) \in Nat
  /\ IsFiniteSet(Parked) /\ Cardinality(Parked) \in Nat
<1>1. IsFiniteSet(InFlight) /\ IsFiniteSet(Parked)
  BY QueueConfig, FS_Subset DEF QueueConfig, InFlight, Parked
<1>2. QED BY <1>1, FS_CardinalityType

\* A job that stays in, or out of, the hands of the handoffs leaves the balance.
LEMMA BalanceAside ==
  ASSUME TypeOK, TokenBalance, NEW j \in Jobs, NEW to, at' = [at EXCEPT ![j] = to],
         at[j] \in {"taken", "sending", "inbox"} <=> to \in {"taken", "sending", "inbox"},
         UNCHANGED pool, Parked' = Parked
  PROVE  TokenBalance'
<1>1. InFlight' = InFlight BY DEF TypeOK, InFlight
<1>2. QED BY <1>1 DEF TokenBalance

LEMMA ReleaseParked ==
  ASSUME TypeOK, OneHolder, NEW j \in Jobs, Release(j) PROVE Parked' = Parked
BY QueueConfig DEF QueueConfig, TypeOK, OneHolder, ServedOnce, Release, Parked

LEMMA BalanceTake ==
  ASSUME TypeOK, TokenBalance, NEW j \in Jobs, TakeInbox(j) PROVE TokenBalance'
<1>1. InFlight' = InFlight \cup {j} /\ j \notin InFlight
  BY DEF TypeOK, TakeInbox, Move, InFlight
<1>2. Cardinality(InFlight') = Cardinality(InFlight) + 1
  BY <1>1, FiniteParties, FS_AddElement
<1>3. Len(pool') = Len(pool) - 1 /\ Len(pool) \in Nat
  BY HeadTailProperties, LenProperties DEF TypeOK, TakeInbox
<1>4. Parked' = Parked BY DEF TakeInbox, crew, Parked
<1>5. QED BY <1>2, <1>3, <1>4, FiniteParties DEF TokenBalance

LEMMA BalanceRegister ==
  ASSUME TypeOK, TokenBalance, NEW w \in Workers, Register(w) PROVE TokenBalance'
<1>1. Parked' = Parked \cup {w} /\ w \notin Parked
  BY DEF TypeOK, Register, Parked
<1>2. Cardinality(Parked') = Cardinality(Parked) + 1
  BY <1>1, FiniteParties, FS_AddElement
<1>3. Len(pool') = Len(pool) + 1 /\ Len(pool) \in Nat
  BY AppendProperties, LenProperties DEF TypeOK, Register
<1>4. InFlight' = InFlight BY DEF Register, InFlight
<1>5. QED BY <1>2, <1>3, <1>4, FiniteParties DEF TokenBalance

LEMMA BalanceReceive ==
  ASSUME TypeOK, OneHolder, TokenBalance, NEW w \in Workers, Receive(w)
  PROVE  TokenBalance'
<1> DEFINE h == Head(inbox[w])
<1>1. h \in Jobs /\ at[h] = "inbox" BY Heads DEF Receive
<1>2. InFlight' = InFlight \ {h} /\ h \in InFlight
  BY <1>1 DEF TypeOK, Receive, Move, InFlight
<1>3. Parked' = Parked \ {w} /\ w \in Parked
  BY DEF TypeOK, Receive, Parked
<1>4. Cardinality(InFlight') = Cardinality(InFlight) - 1
  BY <1>2, FiniteParties, FS_RemoveElement
<1>5. Cardinality(Parked') = Cardinality(Parked) - 1
  BY <1>3, FiniteParties, FS_RemoveElement
<1>6. Len(pool') = Len(pool) /\ Len(pool) \in Nat
  BY LenProperties DEF TypeOK, Receive
<1>7. QED BY <1>4, <1>5, <1>6, FiniteParties DEF TokenBalance

LEMMA BalanceStep ==
  TypeOK /\ OneHolder /\ TokenBalance /\ [Next]_vars => TokenBalance'
<1> SUFFICES ASSUME TypeOK, OneHolder, TokenBalance, [Next]_vars PROVE TokenBalance'
  OBVIOUS
<1> USE DEF Move, chans, hands, crew, proc
<1>1. ASSUME NEW j \in Jobs, HandlerStep(j) PROVE TokenBalance'
  <2>1. \E to \in Location \ {"taken", "sending", "inbox"} : at' = [at EXCEPT ![j] = to]
    BY <1>1 DEF HandlerStep, Create, Abandon, Enqueue, Push, Location
  <2>2. at[j] \in {"none", "created"} /\ UNCHANGED <<pool, Parked>>
    BY <1>1 DEF HandlerStep, Create, Abandon, Enqueue, Parked
  <2>3. QED BY <2>1, <2>2, BalanceAside
<1>2. ASSUME NEW j \in Jobs, HandoffStep(j) PROVE TokenBalance'
  <2>1. CASE TakeInbox(j) BY <2>1, BalanceTake
  <2>2. CASE MarkPending(j) \/ MarkPendingFails(j)
    <3>1. \E to \in Location \ {"taken", "sending", "inbox"} : at' = [at EXCEPT ![j] = to]
      BY <2>2 DEF MarkPending, MarkPendingFails, StateUpdate, AppendAppError, Location
    <3>2. at[j] = "marking" /\ UNCHANGED <<pool, Parked>>
      BY <2>2 DEF MarkPending, MarkPendingFails, Parked
    <3>3. QED BY <3>1, <3>2, BalanceAside
  <2>3. CASE ReadNextWorker(j) \/ SendJob(j)
    <3>1. \E to \in {"taken", "sending", "inbox"} : at' = [at EXCEPT ![j] = to]
      BY <2>3 DEF ReadNextWorker, SendJob
    <3>2. at[j] \in {"taken", "sending"} /\ UNCHANGED <<pool, Parked>>
      BY <2>3 DEF ReadNextWorker, SendJob, Parked
    <3>3. QED BY <3>1, <3>2, BalanceAside
  <2>4. CASE SendOnClosed(j)
    BY <2>4 DEF SendOnClosed, TokenBalance, InFlight, Parked
  <2>5. QED BY <1>2, <2>1, <2>2, <2>3, <2>4 DEF HandoffStep
<1>3. ASSUME NEW j \in Jobs, DoJobStep(j) PROVE TokenBalance'
  <2>1. CASE Block(j) BY <2>1 DEF Block, TokenBalance, InFlight, Parked
  <2>2. CASE Complete(j) \/ JobError(j)
    <3>1. \E to \in Location \ {"taken", "sending", "inbox"} : at' = [at EXCEPT ![j] = to]
      BY <2>2 DEF Complete, JobError, AppendAppError, Location
    <3>2. at[j] = "running" /\ UNCHANGED pool
      BY <2>2 DEF Complete, JobError
    <3>3. Parked' = Parked
      BY <2>2, ReleaseParked DEF Complete, JobError, Parked
    <3>4. QED BY <3>1, <3>2, <3>3, BalanceAside
  <2>3. QED BY <1>3, <2>1, <2>2 DEF DoJobStep
<1>4. ASSUME NEW j \in Jobs, FailureStep(j) PROVE TokenBalance'
  <2>0. at = [at EXCEPT ![j] = at[j]] BY DEF TypeOK
  <2>1. \E to \in Location \ {"taken", "sending", "inbox"} : at' = [at EXCEPT ![j] = to]
    BY <1>4, <2>0 DEF FailureStep, Requeue, Push, SetFailed, SetIsFailed, SaveErrors,
                      Location
  <2>2. at[j] \in {"requeue", "failing", "flagging", "saving"} /\ UNCHANGED pool
    BY <1>4 DEF FailureStep, Requeue, SetFailed, SetIsFailed, SaveErrors
  <2>3. Parked' = Parked
    BY <1>4, ReleaseParked DEF FailureStep, Requeue, SetFailed, SetIsFailed,
                               SaveErrors, Parked
  <2>4. QED BY <2>1, <2>2, <2>3, BalanceAside
<1>5. ASSUME NEW w \in Workers, WorkerStep(w) PROVE TokenBalance'
  <2>1. CASE Register(w) BY <2>1, BalanceRegister
  <2>2. CASE Receive(w)  BY <2>2, BalanceReceive
  <2>3. CASE Exit(w)
    <3>1. Parked' = Parked BY <2>3 DEF TypeOK, Exit, Parked
    <3>2. QED BY <2>3, <3>1 DEF Exit, TokenBalance, InFlight
  <2>4. QED BY <1>5, <2>1, <2>2, <2>3 DEF WorkerStep
<1>6. CASE Dispatch
  <2>1. Head(queue) \in Jobs /\ at[Head(queue)] = "queued"
    BY <1>6, Heads DEF Dispatch
  <2>2. UNCHANGED <<pool, Parked>> BY <1>6 DEF Dispatch, Parked
  <2>3. QED BY <1>6, <2>1, <2>2, BalanceAside DEF Dispatch
<1>7. CASE Destruct \/ DispatcherReturns \/ UNCHANGED vars
  BY <1>7 DEF Destruct, DispatcherReturns, vars, TokenBalance, InFlight, Parked
<1>8. CASE Restart
  <2>1. InFlight' = {} /\ Parked' = {}
    BY <1>8 DEF Restart, InFlight, Parked
  <2>2. QED BY <1>8, <2>1, EmptyChannels, FS_EmptySet DEF Restart, TokenBalance
<1>9. QED BY <1>1, <1>2, <1>3, <1>4, <1>5, <1>6, <1>7, <1>8 DEF Next

\* Whatever the handoffs do to the nextWorker they share, an inbox taken from
\* the pool is paid for by one job sent to a waiting worker.
THEOREM TokenBalanceCorrect == Spec => []TokenBalance
<1>1. Init => TokenBalance
  <2> SUFFICES ASSUME Init PROVE TokenBalance
    OBVIOUS
  <2>1. InFlight = {} /\ Parked = {} BY DEF Init, InFlight, Parked
  <2>2. Len(pool) = 0 BY EmptyChannels DEF Init
  <2>3. Cardinality({}) = 0 BY FS_EmptySet
  <2>4. QED BY <2>1, <2>2, <2>3 DEF TokenBalance
<1>2. QED BY <1>1, TypeCorrect, OneHolderCorrect, BalanceStep, PTL DEF Spec

-----------------------------------------------------------------------------
(* A handoff sends to an inbox that is there. *)

\* nextWorker is set before anyone reads it, a goroutine sends to what it has
\* read, and a worker returns only when workerDone is closed.
HandoffTargets ==
  /\ \A j \in Jobs : at[j] = "taken" => nextWorker \in Workers
  /\ \A j \in Jobs : at[j] = "sending" => target[j] \in Workers
  /\ \A w \in Workers : pc[w] = "exited" => stopped = "workerDone"
  /\ PanicOnlyInShutdown

LEMMA TargetsStep == TypeOK /\ OneHolder /\ HandoffTargets /\ [Next]_vars => HandoffTargets'
<1> SUFFICES ASSUME TypeOK, OneHolder, HandoffTargets, [Next]_vars PROVE HandoffTargets'
  OBVIOUS
<1> USE DEF TypeOK, HandoffTargets, PanicOnlyInShutdown, Move, chans, hands, crew, proc,
            table
<1>1. ASSUME NEW j \in Jobs, HandlerStep(j) PROVE HandoffTargets'
  BY <1>1 DEF HandlerStep, Create, Abandon, Enqueue, Push
<1>2. ASSUME NEW j \in Jobs, HandoffStep(j) PROVE HandoffTargets'
  <2>1. CASE MarkPendingFails(j) BY <2>1 DEF MarkPendingFails, StateUpdate, AppendAppError
  <2>2. CASE MarkPending(j)    BY <2>2 DEF MarkPending
  <2>3. CASE TakeInbox(j)      BY <2>3, HeadTailProperties DEF TakeInbox
  <2>4. CASE ReadNextWorker(j) BY <2>4 DEF ReadNextWorker
  <2>5. CASE SendJob(j)        BY <2>5 DEF SendJob
  <2>6. CASE SendOnClosed(j)   BY <2>6 DEF SendOnClosed
  <2>7. QED BY <1>2, <2>1, <2>2, <2>3, <2>4, <2>5, <2>6 DEF HandoffStep
<1>3. ASSUME NEW j \in Jobs, DoJobStep(j) PROVE HandoffTargets'
  <2>1. CASE Block(j)    BY <2>1 DEF Block
  <2>2. CASE Complete(j) BY <2>2 DEF Complete, Release
  <2>3. CASE JobError(j) BY <2>3 DEF JobError, AppendAppError
  <2>4. QED BY <1>3, <2>1, <2>2, <2>3 DEF DoJobStep
<1>4. ASSUME NEW j \in Jobs, FailureStep(j) PROVE HandoffTargets'
  <2>1. CASE Requeue(j)     BY <2>1 DEF Requeue, Push, Release
  <2>2. CASE SetFailed(j)   BY <2>2 DEF SetFailed, StateUpdate
  <2>3. CASE SetIsFailed(j) BY <2>3 DEF SetIsFailed
  <2>4. CASE SaveErrors(j)  BY <2>4 DEF SaveErrors, Release
  <2>5. QED BY <1>4, <2>1, <2>2, <2>3, <2>4 DEF FailureStep
<1>5. ASSUME NEW w \in Workers, WorkerStep(w) PROVE HandoffTargets'
  <2>1. CASE Register(w) BY <2>1 DEF Register
  <2>2. CASE Receive(w)  BY <2>2, Heads DEF Receive
  <2>3. CASE Exit(w)     BY <2>3 DEF Exit
  <2>4. QED BY <1>5, <2>1, <2>2, <2>3 DEF WorkerStep
<1>6. CASE Dispatch BY <1>6, Heads DEF Dispatch
<1>7. CASE Destruct \/ DispatcherReturns \/ UNCHANGED vars
  BY <1>7 DEF Destruct, DispatcherReturns, vars
<1>8. CASE Restart BY <1>8 DEF Restart
<1>9. QED BY <1>1, <1>2, <1>3, <1>4, <1>5, <1>6, <1>7, <1>8 DEF Next

LEMMA TargetsCorrect == Spec => []HandoffTargets
<1>1. Init => HandoffTargets BY DEF Init, HandoffTargets, PanicOnlyInShutdown
<1>2. QED BY <1>1, TypeCorrect, OneHolderCorrect, TargetsStep, PTL DEF Spec

\* A send on a closed inbox, which takes the program down, comes after
\* workerDone is closed: never while the queue is meant to run.
THEOREM PanicCorrect == Spec => []PanicOnlyInShutdown
<1>1. HandoffTargets => PanicOnlyInShutdown BY DEF HandoffTargets
<1>2. QED BY <1>1, TargetsCorrect, PTL

-----------------------------------------------------------------------------
(* No job is dropped. *)

\* A step that moves no job into or out of a channel or a worker's hands.
LEMMA KeepAside ==
  ASSUME TypeOK, NoJobDropped, NEW j \in Jobs, NEW to,
         to \notin {"queued", "inbox", "running"}, at' = [at EXCEPT ![j] = to],
         UNCHANGED <<queue, inbox>>,
         UNCHANGED serving \/ (Release(j) /\ at[j] \notin {"queued", "inbox"})
  PROVE  NoJobDropped'
<1>1. \A k \in Jobs : k # j => at'[k] = at[k] BY DEF TypeOK
<1>2. at'[j] = to BY DEF TypeOK
<1>3. \A k \in Jobs : k # j /\ at[k] = "running" => \E w \in Workers : serving'[w] = k
  BY DEF NoJobDropped, Release
<1>4. QED BY <1>1, <1>2, <1>3 DEF NoJobDropped

\* The queue grows at its end.
LEMMA KeepPush ==
  ASSUME TypeOK, NoJobDropped, NEW j \in Jobs, Push(j), UNCHANGED inbox,
         UNCHANGED serving \/ Release(j)
  PROVE  NoJobDropped'
<1>1. /\ Len(queue') = Len(queue) + 1 /\ Len(queue) \in Nat
      /\ \A i \in 1 .. Len(queue) : queue'[i] = queue[i]
      /\ queue'[Len(queue) + 1] = j
  BY AppendProperties, LenProperties DEF TypeOK, Push
<1>2. \A k \in Jobs : at'[k] = IF k = j THEN "queued" ELSE at[k]
  BY DEF TypeOK, Push, Move
<1>3. ASSUME NEW k \in Jobs, at'[k] = "queued"
      PROVE  \E i \in 1 .. Len(queue') : queue'[i] = k
  <2>1. CASE k = j
    <3>1. Len(queue) + 1 \in 1 .. Len(queue') BY <1>1
    <3>2. QED BY <1>1, <2>1, <3>1
  <2>2. CASE k # j
    <3>1. PICK i \in 1 .. Len(queue) : queue[i] = k
      BY <1>2, <1>3, <2>2 DEF NoJobDropped
    <3>2. i \in 1 .. Len(queue') BY <1>1
    <3>3. QED BY <1>1, <3>1, <3>2
  <2>3. QED BY <2>1, <2>2
<1>4. ASSUME NEW k \in Jobs, at'[k] = "running" PROVE \E w \in Workers : serving'[w] = k
  BY <1>2, <1>4 DEF NoJobDropped, Release
<1>5. ASSUME NEW k \in Jobs, at'[k] = "inbox"
      PROVE  \E w \in Workers : \E i \in 1 .. Len(inbox'[w]) : inbox'[w][i] = k
  BY <1>2, <1>5 DEF NoJobDropped
<1>6. QED BY <1>3, <1>4, <1>5 DEF NoJobDropped

\* The job sent is the last of an inbox that is there.
LEMMA KeepSend ==
  ASSUME TypeOK, HandoffTargets, NoJobDropped, NEW j \in Jobs, SendJob(j)
  PROVE  NoJobDropped'
<1> DEFINE t == target[j]
<1>1. /\ t \in Workers /\ inbox[t] \in Seq(Jobs)
      /\ \A w \in Workers : inbox'[w] = IF w = t THEN Append(inbox[t], j) ELSE inbox[w]
      /\ UNCHANGED <<queue, serving>>
  BY DEF TypeOK, HandoffTargets, SendJob, crew
<1>2. /\ Len(Append(inbox[t], j)) = Len(inbox[t]) + 1 /\ Len(inbox[t]) \in Nat
      /\ \A i \in 1 .. Len(inbox[t]) : Append(inbox[t], j)[i] = inbox[t][i]
      /\ Append(inbox[t], j)[Len(inbox[t]) + 1] = j
  BY <1>1, AppendProperties, LenProperties
<1>3. \A k \in Jobs : at'[k] = IF k = j THEN "inbox" ELSE at[k]
  BY DEF TypeOK, SendJob, Move
<1>4. ASSUME NEW k \in Jobs, at'[k] = "inbox"
      PROVE  \E w \in Workers : \E i \in 1 .. Len(inbox'[w]) : inbox'[w][i] = k
  <2>1. CASE k = j
    <3>1. inbox'[t] = Append(inbox[t], j) BY <1>1
    <3>2. Len(inbox[t]) + 1 \in 1 .. Len(inbox'[t]) /\ inbox'[t][Len(inbox[t]) + 1] = k
      BY <1>2, <2>1, <3>1
    <3>3. QED BY <1>1, <3>2
  <2>2. CASE k # j
    <3>1. PICK w \in Workers : \E i \in 1 .. Len(inbox[w]) : inbox[w][i] = k
      BY <1>3, <1>4, <2>2 DEF NoJobDropped
    <3>2. PICK i \in 1 .. Len(inbox[w]) : inbox[w][i] = k
      BY <3>1
    <3>3. i \in 1 .. Len(inbox'[w]) /\ inbox'[w][i] = k
      <4>1. CASE w = t
        <5>1. i \in 1 .. Len(inbox[t]) + 1 BY <1>2, <3>2, <4>1
        <5>2. QED BY <1>1, <1>2, <3>2, <4>1, <5>1
      <4>2. CASE w # t BY <1>1, <3>2, <4>2
      <4>3. QED BY <4>1, <4>2
    <3>4. QED BY <3>3
  <2>3. QED BY <2>1, <2>2
<1>5. QED BY <1>1, <1>3, <1>4 DEF NoJobDropped

\* Behind the head of a channel every job is where it was, one place further up.
LEMMA BehindHead ==
  ASSUME NEW c \in Seq(Jobs), c # <<>>, NEW k \in Jobs, k # Head(c),
         \E i \in 1 .. Len(c) : c[i] = k
  PROVE  \E i \in 1 .. Len(Tail(c)) : Tail(c)[i] = k
<1>1. PICK i \in 1 .. Len(c) : c[i] = k OBVIOUS
<1>2. i # 1 BY <1>1
<1>3. /\ Len(Tail(c)) = Len(c) - 1 /\ Len(c) \in Nat
      /\ \A n \in 1 .. Len(Tail(c)) : Tail(c)[n] = c[n + 1]
  BY HeadTailProperties, LenProperties
<1>4. i - 1 \in 1 .. Len(Tail(c)) BY <1>1, <1>2, <1>3
<1>5. Tail(c)[i - 1] = k BY <1>1, <1>3, <1>4
<1>6. QED BY <1>4, <1>5

LEMMA KeepDispatch ==
  ASSUME TypeOK, OneHolder, NoJobDropped, Dispatch PROVE NoJobDropped'
<1>1. /\ queue \in Seq(Jobs) /\ queue # <<>> /\ queue' = Tail(queue)
      /\ Head(queue) \in Jobs
      /\ UNCHANGED <<inbox, serving>>
  BY Heads DEF TypeOK, Dispatch, crew
<1>2. \A k \in Jobs : at'[k] = IF k = Head(queue) THEN "marking" ELSE at[k]
  BY <1>1 DEF TypeOK, Dispatch, Move
<1>3. ASSUME NEW k \in Jobs, at'[k] = "queued"
      PROVE  \E i \in 1 .. Len(queue') : queue'[i] = k
  BY <1>1, <1>2, <1>3, BehindHead DEF NoJobDropped
<1>4. QED BY <1>1, <1>2, <1>3 DEF NoJobDropped

LEMMA KeepReceive ==
  ASSUME TypeOK, OneHolder, NoJobDropped, NEW w \in Workers, Receive(w)
  PROVE  NoJobDropped'
<1> DEFINE h == Head(inbox[w])
<1>1. /\ inbox[w] \in Seq(Jobs) /\ inbox[w] # <<>> /\ h \in Jobs /\ UNCHANGED queue
      /\ \A v \in Workers : inbox'[v] = IF v = w THEN Tail(inbox[w]) ELSE inbox[v]
  BY Heads DEF TypeOK, Receive
<1>2. /\ \A k \in Jobs : at'[k] = IF k = h THEN "running" ELSE at[k]
      /\ \A v \in Workers : serving'[v] = IF v = w THEN h ELSE serving[v]
      /\ serving[w] = None
  BY <1>1 DEF TypeOK, Receive, Move, OneHolder, ServedOnce
<1>3. ASSUME NEW k \in Jobs, at'[k] = "inbox"
      PROVE  \E v \in Workers : \E i \in 1 .. Len(inbox'[v]) : inbox'[v][i] = k
  <2>1. k # h /\ at[k] = "inbox" BY <1>2, <1>3
  <2>2. PICK v \in Workers : \E i \in 1 .. Len(inbox[v]) : inbox[v][i] = k
    BY <2>1 DEF NoJobDropped
  <2>3. CASE v = w
    <3>1. \E i \in 1 .. Len(Tail(inbox[w])) : Tail(inbox[w])[i] = k
      BY <1>1, <2>1, <2>2, <2>3, BehindHead
    <3>2. QED BY <1>1, <3>1
  <2>4. CASE v # w BY <1>1, <2>2, <2>4
  <2>5. QED BY <2>3, <2>4
<1>4. ASSUME NEW k \in Jobs, at'[k] = "running" PROVE \E v \in Workers : serving'[v] = k
  <2>1. CASE k = h BY <1>2, <2>1
  <2>2. CASE k # h
    <3>1. PICK v \in Workers : serving[v] = k
      BY <1>2, <1>4, <2>2 DEF NoJobDropped
    <3>2. v # w BY <1>2, <3>1, QueueConfig DEF QueueConfig
    <3>3. QED BY <1>2, <3>1, <3>2
  <2>3. QED BY <2>1, <2>2
<1>5. QED BY <1>1, <1>2, <1>3, <1>4 DEF NoJobDropped

LEMMA KeepStep ==
  TypeOK /\ OneHolder /\ HandoffTargets /\ NoJobDropped /\ [Next]_vars => NoJobDropped'
<1> SUFFICES ASSUME TypeOK, OneHolder, HandoffTargets, NoJobDropped, [Next]_vars
             PROVE  NoJobDropped'
  OBVIOUS
<1> USE DEF Move, chans, hands, crew, proc
<1>1. ASSUME NEW j \in Jobs, HandlerStep(j) PROVE NoJobDropped'
  <2>1. CASE Create(j)  BY <2>1, KeepAside DEF Create
  <2>2. CASE Abandon(j) BY <2>2, KeepAside DEF Abandon
  <2>3. CASE Enqueue(j) BY <2>3, KeepPush DEF Enqueue
  <2>4. QED BY <1>1, <2>1, <2>2, <2>3 DEF HandlerStep
<1>2. ASSUME NEW j \in Jobs, HandoffStep(j) PROVE NoJobDropped'
  <2>1. CASE MarkPending(j)      BY <2>1, KeepAside DEF MarkPending
  <2>2. CASE MarkPendingFails(j)
    BY <2>2, KeepAside DEF MarkPendingFails, StateUpdate, AppendAppError
  <2>3. CASE TakeInbox(j)        BY <2>3, KeepAside DEF TakeInbox
  <2>4. CASE ReadNextWorker(j)   BY <2>4, KeepAside DEF ReadNextWorker
  <2>5. CASE SendJob(j)          BY <2>5, KeepSend
  <2>6. CASE SendOnClosed(j)     BY <2>6 DEF SendOnClosed, NoJobDropped
  <2>7. QED BY <1>2, <2>1, <2>2, <2>3, <2>4, <2>5, <2>6 DEF HandoffStep
<1>3. ASSUME NEW j \in Jobs, DoJobStep(j) PROVE NoJobDropped'
  <2>1. CASE Block(j)    BY <2>1 DEF Block, NoJobDropped
  <2>2. CASE Complete(j) BY <2>2, KeepAside DEF Complete
  <2>3. CASE JobError(j)
    <3>1. \E to \in {"failing", "requeue"} : at' = [at EXCEPT ![j] = to]
      BY <2>3 DEF JobError, AppendAppError
    <3>2. QED BY <2>3, <3>1, KeepAside DEF JobError
  <2>4. QED BY <1>3, <2>1, <2>2, <2>3 DEF DoJobStep
<1>4. ASSUME NEW j \in Jobs, FailureStep(j) PROVE NoJobDropped'
  <2>1. CASE Requeue(j) BY <2>1, KeepPush DEF Requeue
  <2>2. CASE SetFailed(j)
    <3>1. \E to \in {"flagging", "saving"} : at' = [at EXCEPT ![j] = to]
      BY <2>2 DEF SetFailed
    <3>2. QED BY <2>2, <3>1, KeepAside DEF SetFailed
  <2>3. CASE SetIsFailed(j) BY <2>3, KeepAside DEF SetIsFailed
  <2>4. CASE SaveErrors(j)
    <3>1. CASE UNCHANGED <<at, crew>> BY <2>4, <3>1 DEF SaveErrors, NoJobDropped
    <3>2. CASE Move(j, "finished") /\ Release(j)
      BY <2>4, <3>2, KeepAside DEF SaveErrors
    <3>3. QED BY <2>4, <3>1, <3>2 DEF SaveErrors
  <2>5. QED BY <1>4, <2>1, <2>2, <2>3, <2>4 DEF FailureStep
<1>5. ASSUME NEW w \in Workers, WorkerStep(w) PROVE NoJobDropped'
  <2>1. CASE Receive(w) BY <2>1, KeepReceive
  <2>2. CASE Register(w) BY <2>2 DEF Register, NoJobDropped
  <2>3. CASE Exit(w)     BY <2>3 DEF Exit, NoJobDropped
  <2>4. QED BY <1>5, <2>1, <2>2, <2>3 DEF WorkerStep
<1>6. CASE Dispatch BY <1>6, KeepDispatch
<1>7. CASE Destruct \/ DispatcherReturns \/ UNCHANGED vars
  BY <1>7 DEF Destruct, DispatcherReturns, vars, NoJobDropped
<1>8. CASE Restart BY <1>8 DEF Restart, NoJobDropped
<1>9. QED BY <1>1, <1>2, <1>3, <1>4, <1>5, <1>6, <1>7, <1>8 DEF Next

\* A job that says it is queued, sent or running is in the queue, in an inbox or
\* with a worker: whatever the handoffs write over each other in nextWorker, no
\* send loses its job.
THEOREM NoJobDroppedCorrect == Spec => []NoJobDropped
<1>1. Init => NoJobDropped BY DEF Init, NoJobDropped
<1>2. QED BY <1>1, TypeCorrect, OneHolderCorrect, TargetsCorrect, KeepStep, PTL DEF Spec

-----------------------------------------------------------------------------
(* What the tables say of a job that fails. *)

\* setFailed() and the saving of the errors are reached with the last permitted
\* failure, one statement after the other; error rows are written by the last.
FailurePath ==
  \A j \in Jobs :
    /\ at[j] \in {"failing", "flagging", "saving"} => fails[j] = JobRetryMaxFails
    /\ at[j] = "flagging" => row[j] = "Failed"
    /\ at[j] = "saving" /\ ~DbFault => row[j] = "Failed" /\ j \in flagged
    /\ errRows[j] > 0 => at[j] \in {"saving", "finished", "lost"}

LEMMA OrderStep ==
  /\ TypeOK /\ OneHolder /\ OutcomeAt /\ FailurePath /\ FailureOrder /\ [Next]_vars
  => FailurePath' /\ FailureOrder'
<1> SUFFICES ASSUME TypeOK, OneHolder, OutcomeAt, FailurePath, FailureOrder, [Next]_vars
             PROVE  FailurePath' /\ FailureOrder'
  OBVIOUS
<1> DEFINE Kept == FailurePath' /\ FailureOrder'
<1> USE QueueConfig DEF QueueConfig, TypeOK, OutcomeAt, FailurePath, FailureOrder, DbFault,
                        Move, chans, hands, crew, proc, table
<1>1. ASSUME NEW j \in Jobs, HandlerStep(j) PROVE Kept
  <2>1. CASE Create(j)  BY <2>1 DEF Create
  <2>2. CASE Abandon(j) BY <2>2 DEF Abandon
  <2>3. CASE Enqueue(j) BY <2>3 DEF Enqueue, Push
  <2>4. QED BY <1>1, <2>1, <2>2, <2>3 DEF HandlerStep
<1>2. ASSUME NEW j \in Jobs, HandoffStep(j) PROVE Kept
  <2>1. CASE MarkPendingFails(j)
    <3>1. j \notin flagged /\ ~(errRows[j] > 0) /\ at[j] = "marking"
      BY <2>1 DEF MarkPendingFails
    <3>2. /\ \A k \in Jobs : k # j => at'[k] = at[k] /\ fails'[k] = fails[k]
                                    /\ row'[k] = row[k]
          /\ at'[j] = IF fails[j] + 1 = JobRetryMaxFails THEN "failing" ELSE "requeue"
          /\ fails'[j] = fails[j] + 1
          /\ UNCHANGED <<flagged, errRows>>
      <4>1. \A k \in Jobs : k # j => row'[k] = row[k]
        BY <2>1 DEF MarkPendingFails, StateUpdate
      <4>2. /\ at' = [at EXCEPT ![j] = IF fails[j] + 1 = JobRetryMaxFails
                                        THEN "failing" ELSE "requeue"]
            /\ fails' = [fails EXCEPT ![j] = @ + 1]
            /\ UNCHANGED <<flagged, errRows>>
        BY <2>1 DEF MarkPendingFails, AppendAppError
      <4>3. QED BY <4>1, <4>2
    <3>3. QED BY <3>1, <3>2, ZenonT(60)
  <2>2. CASE MarkPending(j)    BY <2>2, ZenonT(60) DEF MarkPending
  <2>3. CASE TakeInbox(j)      BY <2>3 DEF TakeInbox
  <2>4. CASE ReadNextWorker(j) BY <2>4 DEF ReadNextWorker
  <2>5. CASE SendJob(j)        BY <2>5 DEF SendJob
  <2>6. CASE SendOnClosed(j)   BY <2>6 DEF SendOnClosed
  <2>7. QED BY <1>2, <2>1, <2>2, <2>3, <2>4, <2>5, <2>6 DEF HandoffStep
<1>3. ASSUME NEW j \in Jobs, DoJobStep(j) PROVE Kept
  <2>1. CASE Block(j)    BY <2>1 DEF Block
  <2>2. CASE Complete(j) BY <2>2, ZenonT(60) DEF Complete, StateUpdate
  <2>3. CASE JobError(j) BY <2>3, SMTT(30) DEF JobError, AppendAppError
  <2>4. QED BY <1>3, <2>1, <2>2, <2>3 DEF DoJobStep
<1>4. ASSUME NEW j \in Jobs, FailureStep(j) PROVE Kept
  <2>1. CASE Requeue(j)     BY <2>1 DEF Requeue, Push
  <2>2. CASE SetFailed(j)
    <3>1. CASE row' = [row EXCEPT ![j] = "Failed"] /\ Move(j, "flagging")
      BY <2>2, <3>1 DEF SetFailed
    <3>2. CASE DbFault /\ Move(j, "saving") /\ StateUpdate(j, "Failed")
      BY <2>2, <3>2 DEF SetFailed, StateUpdate
    <3>3. QED BY <2>2, <3>1, <3>2 DEF SetFailed
  <2>3. CASE SetIsFailed(j) BY <2>3 DEF SetIsFailed
  <2>4. CASE SaveErrors(j)
    <3>1. /\ \A k \in Jobs : k # j => errRows'[k] = errRows[k] /\ at'[k] = at[k]
          /\ at[j] = "saving" /\ at'[j] \in {"saving", "finished"}
          /\ UNCHANGED <<fails, row, flagged>>
      BY <2>4 DEF SaveErrors
    <3>2. QED BY <3>1, ZenonT(60)
  <2>5. QED BY <1>4, <2>1, <2>2, <2>3, <2>4 DEF FailureStep
<1>5. ASSUME NEW w \in Workers, WorkerStep(w) PROVE Kept
  <2>1. CASE Register(w) BY <2>1 DEF Register
  <2>2. CASE Receive(w)  BY <2>2, Heads DEF Receive
  <2>3. CASE Exit(w)     BY <2>3 DEF Exit
  <2>4. QED BY <1>5, <2>1, <2>2, <2>3 DEF WorkerStep
<1>6. CASE Dispatch BY <1>6, Heads DEF Dispatch
<1>7. CASE Destruct \/ DispatcherReturns \/ UNCHANGED vars
  BY <1>7 DEF Destruct, DispatcherReturns, vars
<1>8. CASE Restart BY <1>8 DEF Restart
<1>9. QED BY <1>1, <1>2, <1>3, <1>4, <1>5, <1>6, <1>7, <1>8 DEF Next

LEMMA OrderCorrect == Spec => [](OutcomeAt /\ FailurePath /\ FailureOrder)
<1>1. Init => OutcomeAt /\ FailurePath /\ FailureOrder
  BY DEF Init, OutcomeAt, FailurePath, FailureOrder
<1>2. QED BY <1>1, TypeCorrect, OneHolderCorrect, OrderStep, OutcomeStep, PTL DEF Spec

\* is_failed and error rows are found only on a job that has failed for good, and
\* without a refused statement only behind a state that says so: setFailed() and
\* the saving of the errors, in the order of their statements.
THEOREM FailureOrderCorrect == Spec => []FailureOrder
<1>1. QED BY OrderCorrect, PTL

-----------------------------------------------------------------------------
(* The outcome of a finished job. *)

\* What the tables hold of a job, and how often it has failed.
Account(j) == <<row[j], j \in flagged, errRows[j], saved[j], fails[j]>>

\* A job is finished by its success or by the last of its errors, and nothing
\* is written about a finished job.
LEMMA FinishedBy ==
  ASSUME TypeOK, OneHolder, [Next]_vars, NEW k \in Jobs, at'[k] = "finished"
  PROVE  \/ at[k] = "finished" /\ UNCHANGED Account(k)
         \/ Complete(k)
         \/ SaveErrors(k) /\ saved[k] + 1 = fails[k]
<1> DEFINE Result == \/ at[k] = "finished" /\ UNCHANGED Account(k)
                     \/ Complete(k)
                     \/ SaveErrors(k) /\ saved[k] + 1 = fails[k]
<1> USE DEF TypeOK, Account, Move, chans, hands, crew, proc, table
<1>1. ASSUME NEW j \in Jobs, HandlerStep(j) PROVE Result
  <2>1. CASE Create(j)  BY <2>1 DEF Create
  <2>2. CASE Abandon(j) BY <2>2 DEF Abandon
  <2>3. CASE Enqueue(j) BY <2>3 DEF Enqueue, Push
  <2>4. QED BY <1>1, <2>1, <2>2, <2>3 DEF HandlerStep
<1>2. ASSUME NEW j \in Jobs, HandoffStep(j) PROVE Result
  <2>1. CASE MarkPendingFails(j) BY <2>1 DEF MarkPendingFails, StateUpdate, AppendAppError
  <2>2. CASE MarkPending(j)    BY <2>2 DEF MarkPending
  <2>3. CASE TakeInbox(j)      BY <2>3 DEF TakeInbox
  <2>4. CASE ReadNextWorker(j) BY <2>4 DEF ReadNextWorker
  <2>5. CASE SendJob(j)        BY <2>5 DEF SendJob
  <2>6. CASE SendOnClosed(j)   BY <2>6 DEF SendOnClosed
  <2>7. QED BY <1>2, <2>1, <2>2, <2>3, <2>4, <2>5, <2>6 DEF HandoffStep
<1>3. ASSUME NEW j \in Jobs, DoJobStep(j) PROVE Result
  <2>1. CASE Block(j)    BY <2>1 DEF Block
  <2>2. CASE Complete(j)
    <3>1. CASE k = j BY <2>2, <3>1
    <3>2. CASE k # j BY <2>2, <3>2 DEF Complete, StateUpdate
    <3>3. QED BY <3>1, <3>2
  <2>3. CASE JobError(j) BY <2>3 DEF JobError, AppendAppError
  <2>4. QED BY <1>3, <2>1, <2>2, <2>3 DEF DoJobStep
<1>4. ASSUME NEW j \in Jobs, FailureStep(j) PROVE Result
  <2>1. CASE Requeue(j)     BY <2>1 DEF Requeue, Push
  <2>2. CASE SetFailed(j)   BY <2>2 DEF SetFailed, StateUpdate
  <2>3. CASE SetIsFailed(j) BY <2>3 DEF SetIsFailed
  <2>4. CASE SaveErrors(j)
    <3>1. CASE k = j BY <1>4, <2>4, <3>1 DEF SaveErrors
    <3>2. CASE k # j BY <2>4, <3>2 DEF SaveErrors
    <3>3. QED BY <3>1, <3>2
  <2>5. QED BY <1>4, <2>1, <2>2, <2>3, <2>4 DEF FailureStep
<1>5. ASSUME NEW w \in Workers, WorkerStep(w) PROVE Result
  <2>1. CASE Register(w) BY <2>1 DEF Register
  <2>2. CASE Receive(w)  BY <2>2, Heads DEF Receive
  <2>3. CASE Exit(w)     BY <2>3 DEF Exit
  <2>4. QED BY <1>5, <2>1, <2>2, <2>3 DEF WorkerStep
<1>6. CASE Dispatch BY <1>6, Heads DEF Dispatch
<1>7. CASE Destruct \/ DispatcherReturns \/ UNCHANGED vars
  BY <1>7 DEF Destruct, DispatcherReturns, vars
<1>8. CASE Restart BY <1>8 DEF Restart
<1>9. QED BY <1>1, <1>2, <1>3, <1>4, <1>5, <1>6, <1>7, <1>8 DEF Next

\* While the database works, the loop over the errors inserts each that it tries.
ErrorsSaved == ~DbFault => \A j \in Jobs : errRows[j] = saved[j]

LEMMA OnlySaveErrors ==
  [Next]_vars => UNCHANGED <<errRows, saved>> \/ \E j \in Jobs : SaveErrors(j)
BY DEF Next, vars, table, HandlerStep, Create, Abandon, Enqueue, HandoffStep,
       MarkPending, MarkPendingFails, TakeInbox, ReadNextWorker, SendJob, SendOnClosed,
       DoJobStep, Block, Complete, JobError, FailureStep, Requeue, SetFailed,
       SetIsFailed, WorkerStep, Register, Receive, Exit, Dispatch, Destruct,
       DispatcherReturns, Restart

LEMMA SavedStep == TypeOK /\ ErrorsSaved /\ [Next]_vars => ErrorsSaved'
<1> SUFFICES ASSUME TypeOK, ErrorsSaved, [Next]_vars, ~DbFault
             PROVE  \A k \in Jobs : errRows'[k] = saved'[k]
  BY DEF ErrorsSaved, DbFault
<1>1. CASE UNCHANGED <<errRows, saved>> BY <1>1 DEF ErrorsSaved
<1>2. ASSUME NEW j \in Jobs, SaveErrors(j) PROVE \A k \in Jobs : errRows'[k] = saved'[k]
  BY <1>2 DEF SaveErrors, ErrorsSaved, TypeOK
<1>3. QED BY <1>1, <1>2, OnlySaveErrors

LEMMA RecordedStep ==
  /\ TypeOK /\ OneHolder /\ RetriesBounded /\ OutcomeAt /\ FailurePath /\ FailureOrder
  /\ ErrorsSaved /\ OutcomeRecorded /\ [Next]_vars
  => OutcomeRecorded'
<1> SUFFICES ASSUME TypeOK, OneHolder, RetriesBounded, OutcomeAt, FailurePath, FailureOrder,
                    ErrorsSaved, OutcomeRecorded, [Next]_vars,
                    ~DbFault, JobRetryMaxFails # 0, NEW k \in Jobs, at'[k] = "finished"
             PROVE  IF fails'[k] = JobRetryMaxFails
                    THEN row'[k] = "Failed" /\ k \in flagged' /\ errRows'[k] = JobRetryMaxFails
                    ELSE row'[k] = "Done" /\ k \notin flagged' /\ errRows'[k] = 0
  BY DEF OutcomeRecorded, DbFault
<1> USE DEF TypeOK
<1>1. CASE at[k] = "finished" /\ UNCHANGED Account(k)
  BY <1>1 DEF Account, OutcomeRecorded
<1>2. CASE Complete(k)
  <2>1. at[k] = "running" BY <1>2 DEF Complete
  <2>2. fails[k] # JobRetryMaxFails BY <2>1 DEF RetriesBounded
  <2>3. errRows[k] = 0
    <3>1. errRows[k] \in Nat OBVIOUS
    <3>2. ~(errRows[k] > 0) BY <2>1 DEF FailurePath
    <3>3. QED BY <3>1, <3>2
  <2>4. k \notin flagged BY <2>1 DEF FailureOrder, OutcomeAt
  <2>5. row'[k] = "Done" /\ UNCHANGED <<fails, errRows, flagged>>
    BY <1>2 DEF Complete, StateUpdate, DbFault, chans, hands, proc
  <2>6. QED BY <2>2, <2>3, <2>4, <2>5
<1>3. CASE SaveErrors(k) /\ saved[k] + 1 = fails[k]
  <2>1. fails[k] = JobRetryMaxFails /\ row[k] = "Failed" /\ k \in flagged
    BY <1>3 DEF SaveErrors, FailurePath
  <2>2. errRows'[k] = saved[k] + 1 /\ UNCHANGED <<fails, row, flagged>>
    BY <1>3 DEF SaveErrors, ErrorsSaved
  <2>3. QED BY <1>3, <2>1, <2>2
<1>4. QED BY <1>1, <1>2, <1>3, FinishedBy

\* Without a refused statement a job leaves the queue with its outcome on record:
\* Done and no errors, or Failed, is_failed and an error row for each attempt.
THEOREM OutcomeRecordedCorrect == Spec => []OutcomeRecorded
<1>1. Init => ErrorsSaved /\ OutcomeRecorded BY DEF Init, ErrorsSaved, OutcomeRecorded
<1>2. QED BY <1>1, TypeCorrect, OneHolderCorrect, RetriesCorrect, OrderCorrect, SavedStep,
             RecordedStep, PTL DEF Spec

-----------------------------------------------------------------------------
(* Nobody waits for room. *)

\* An inbox holds fewer jobs than are in flight, as long as one is still sending.
LEMMA RoomInInbox ==
  ASSUME TypeOK, OneHolder, NEW w \in Workers, NEW j \in Jobs, at[j] = "sending"
  PROVE  Len(inbox[w]) < Cardinality(InFlight)
<1> DEFINE Sent == InFlight \ {j}
<1>1. /\ IsFiniteSet(Sent) /\ Cardinality(Sent) \in Nat
      /\ Cardinality(Sent) = Cardinality(InFlight) - 1 /\ Cardinality(InFlight) \in Nat
  <2>1. j \in InFlight BY DEF InFlight
  <2>2. QED BY <2>1, FiniteParties, FS_RemoveElement, FS_CardinalityType
<1>2. /\ inbox[w] \in Seq(Jobs) /\ Len(inbox[w]) \in Nat
      /\ inbox[w] \in [1 .. Len(inbox[w]) -> Jobs]
  <2>1. inbox[w] \in Seq(Jobs) BY DEF TypeOK
  <2>2. QED BY <2>1, LenProperties
<1>3. \A i \in 1 .. Len(inbox[w]) : inbox[w][i] \in Sent
  BY <1>2, InInbox DEF InFlight
<1>4. inbox[w] \in [1 .. Len(inbox[w]) -> Sent] BY <1>2, <1>3
<1>5. IsFiniteSet(1 .. Len(inbox[w])) /\ Cardinality(1 .. Len(inbox[w])) = Len(inbox[w])
  <2> DEFINE n == Len(inbox[w])
  <2>1. 1 \in Int /\ n \in Int BY <1>2
  <2> HIDE DEF n
  <2>2. IsFiniteSet(1 .. n) /\ Cardinality(1 .. n) = IF 1 > n THEN 0 ELSE n - 1 + 1
    BY <2>1, FS_Interval, Zenon
  <2>3. QED BY <1>2, <2>2 DEF n
<1>6. ~(Cardinality(Sent) < Len(inbox[w]))
  <2> DEFINE Places == 1 .. Len(inbox[w])
  <2>1. SUFFICES ASSUME Cardinality(Sent) < Cardinality(Places) PROVE FALSE
    BY <1>5
  <2>2. IsFiniteSet(Places) /\ IsFiniteSet(Sent) /\ inbox[w] \in [Places -> Sent]
    BY <1>1, <1>4, <1>5
  <2> HIDE DEF Places, Sent
  <2>3. \E i, k \in Places : i # k /\ inbox[w][i] = inbox[w][k]
    BY <2>1, <2>2, FS_PigeonHole
  <2>4. QED BY <2>3, InboxDistinct DEF Places
<1>7. QED BY <1>1, <1>2, <1>6

\* With room in the pool for every worker, neither a worker that offers its inbox
\* nor a handoff that sends to one waits for room: there are no more offers and
\* jobs on the way than workers, whichever inbox the shared nextWorker names.
THEOREM HandoffNeverBlocksCorrect == Spec => []HandoffNeverBlocks
<1>1. TypeOK /\ OneHolder /\ TokenBalance /\ HandoffTargets => HandoffNeverBlocks
  <2> SUFFICES ASSUME TypeOK, OneHolder, TokenBalance, HandoffTargets,
                      WorkersCapacity >= Cardinality(Workers)
               PROVE  /\ \A w \in Workers : pc[w] = "register" => Len(pool) < WorkersCapacity
                      /\ \A j \in Jobs : at[j] = "sending" =>
                           Len(inbox[target[j]]) < WorkersCapacity
    BY DEF HandoffNeverBlocks
  <2>1. /\ Cardinality(Workers) \in Nat /\ WorkersCapacity \in Nat /\ Len(pool) \in Nat
        /\ Cardinality(Parked) \in Nat /\ Cardinality(InFlight) \in Nat
        /\ Cardinality(Parked) <= Cardinality(Workers)
        /\ Cardinality(Parked) = Cardinality(Workers) => Parked = Workers
    <3>1. IsFiniteSet(Workers) /\ WorkersCapacity \in Nat BY QueueConfig DEF QueueConfig
    <3>2. Parked \in SUBSET Workers BY DEF Parked
    <3>3. Len(pool) \in Nat BY LenProperties DEF TypeOK
    <3>4. QED BY <3>1, <3>2, <3>3, FiniteParties, FS_Subset, FS_CardinalityType
  <2>2. Len(pool) + Cardinality(InFlight) = Cardinality(Parked) BY DEF TokenBalance
  <2>3. ASSUME NEW w \in Workers, pc[w] = "register" PROVE Len(pool) < WorkersCapacity
    <3>1. Parked # Workers BY <2>3 DEF Parked
    <3>2. QED BY <2>1, <2>2, <3>1
  <2>4. ASSUME NEW j \in Jobs, at[j] = "sending"
        PROVE  Len(inbox[target[j]]) < WorkersCapacity
    <3>1. target[j] \in Workers BY <2>4 DEF HandoffTargets
    <3>2. Len(inbox[target[j]]) < Cardinality(InFlight) BY <2>4, <3>1, RoomInInbox
    <3>3. Len(inbox[target[j]]) \in Nat
      <4>1. inbox[target[j]] \in Seq(Jobs) BY <3>1 DEF TypeOK
      <4>2. QED BY <4>1, LenProperties
    <3>4. QED BY <2>1, <2>2, <3>2, <3>3
  <2>5. QED BY <2>3, <2>4
<1>2. QED BY <1>1, TypeCorrect, OneHolderCorrect, TokenBalanceCorrect, TargetsCorrect, PTL
=============================================================================
