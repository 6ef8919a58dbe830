------------------------- MODULE CoreLifecycleProofs -------------------------
(***************************************************************************)
(* Theorems about CoreLifecycle.  Both properties depend on the order of   *)
(* Destruct(): what a goroutine of the raft service may have done by the   *)
(* time the main goroutine is at one of its lines.                         *)
(***************************************************************************)
EXTENDS CoreLifecycle, TLAPS

Constructing == {"bolt", "app", "raft", "notify", "start"}
Destructing  == {"stopApp", "closePipe", "shutdown", "closeBolt", "wait"}

\* The service is not started before the loop, and it has no raft before NewRaft().
ServiceStarts ==
  /\ main \in Constructing => svc = "none"
  /\ svc \in {"none", "newRaft"} => raft = "nil"

\* Bootstrap() returns nil only after DeInit() has closed donePipe, when the loop
\* has been left for another reason.
NilNeedsDone ==
  /\ done => main \in {"shutdown", "closeBolt", "wait", "exited"}
  /\ answer = "nil" => done
  /\ main \in Destructing => ended \in {"signal", "error"}

\* Past Shutdown() the raft is down, or there was none to shut down.
RaftHandled ==
  /\ main \in {"closeBolt", "wait"} \/ bolt = "closed" => raft = "down" \/ missed
  /\ bolt = "closed" => main \in {"wait", "exited"}

IInv == TypeOK /\ ServiceStarts /\ NilNeedsDone /\ RaftHandled /\ SuccessNeedsSignal

\* The bound is all the model has of numbers.
LEMMA SignalsBounded ==
  /\ Init => signals \in 0..MaxSignals
  /\ signals \in 0..MaxSignals /\ [Next]_vars => signals' \in 0..MaxSignals
  <1>1. Init => signals \in 0..MaxSignals
    BY CoreConfig DEF Init
  <1>2. ASSUME signals \in 0..MaxSignals, [Next]_vars
        PROVE  signals' \in {signals} \cup {i \in {signals + 1} : signals < MaxSignals}
    BY <1>2 DEF Next, vars, Main, ConstructFails, Signal, ReceiveAnswer, RaftService,
         NewBoltDB, NewApp, InitRaft, Notify, StartService, StopApp, ClosePipe,
         Shutdown, CloseBolt, Exit, NewRaft, BootstrapCluster, WaitDone
  <1> QED
    BY <1>1, <1>2, CoreConfig

LEMMA InitInv == Init => IInv
  BY CoreNone, SignalsBounded
  DEF Init, IInv, TypeOK, ServiceStarts, NilNeedsDone, RaftHandled,
      SuccessNeedsSignal, Constructing, Destructing, Errors

\* Every step preserves the invariant.  The steps of the main goroutine move from
\* one line to the next, so that each part is settled by where it is.
LEMMA StepInv == IInv /\ [Next]_vars => IInv'
  <1> SUFFICES ASSUME IInv, [Next]_vars PROVE IInv'
    OBVIOUS
  <1>0. signals' \in 0..MaxSignals
    BY SignalsBounded DEF IInv, TypeOK
  <1> USE <1>0, CoreNone
      DEF IInv, TypeOK, ServiceStarts, NilNeedsDone, RaftHandled,
          SuccessNeedsSignal, Constructing, Destructing, Errors, service
  <1>1. CASE NewBoltDB \/ NewApp \/ InitRaft \/ Notify \/ StartService
    BY <1>1 DEF NewBoltDB, NewApp, InitRaft, Notify, StartService
  <1>2. CASE StopApp
    BY <1>2 DEF StopApp
  <1>3. CASE ClosePipe
    BY <1>3 DEF ClosePipe
  <1>4. CASE Shutdown
    <2>1. CASE raft = "nil"
      BY <1>4, <2>1 DEF Shutdown
    <2>2. CASE raft # "nil"
      BY <1>4, <2>2 DEF Shutdown
    <2> QED
      BY <2>1, <2>2
  <1>5. CASE CloseBolt
    BY <1>5 DEF CloseBolt
  <1>6. CASE Exit
    BY <1>6 DEF Exit
  <1>7. CASE ConstructFails
    BY <1>7 DEF ConstructFails
  <1>8. CASE Signal
    <2>1. CASE main \in {"bolt", "app", "raft", "notify"}
      BY <1>8, <2>1 DEF Signal
    <2>2. CASE main = "select"
      BY <1>8, <2>2 DEF Signal
    <2>3. CASE main \notin {"bolt", "app", "raft", "notify", "select"}
      BY <1>8, <2>3 DEF Signal
    <2> QED
      BY <2>1, <2>2, <2>3
  <1>9. CASE ReceiveAnswer
    BY <1>9 DEF ReceiveAnswer
  <1>10. CASE NewRaft
    BY <1>10 DEF NewRaft, Return
  <1>11. CASE BootstrapCluster \/ WaitDone
    BY <1>11 DEF BootstrapCluster, WaitDone, Return
  <1>12. CASE UNCHANGED vars
    BY <1>12 DEF vars
  <1> QED
    BY <1>1, <1>2, <1>3, <1>4, <1>5, <1>6, <1>7, <1>8, <1>9, <1>10, <1>11, <1>12
    DEF Next, Main, RaftService

\* Every variable of the process keeps its type, and main has exited exactly when
\* there is an exit code.
THEOREM CoreTypeCorrect == Spec => []TypeOK
  <1>1. IInv => TypeOK
    BY DEF IInv
  <1> QED
    BY <1>1, InitInv, StepInv, PTL DEF Spec

\* core.go:90-98, for any number of signals at any points: a process that was not
\* signalled in its loop does not report success.
THEOREM SuccessNeedsSignalCorrect == Spec => []SuccessNeedsSignal
  <1>1. IInv => SuccessNeedsSignal
    BY DEF IInv
  <1> QED
    BY <1>1, InitInv, StepInv, PTL DEF Spec

\* core.go, Destruct(): no raft runs over a closed boltdb but one that NewRaft() has
\* started after DeInit() looked for it.
THEOREM RaftStopsFirstCorrect == Spec => []RaftStopsFirst
  <1>1. IInv => RaftStopsFirst
    BY DEF IInv, TypeOK, RaftHandled, RaftStopsFirst
  <1> QED
    BY <1>1, InitInv, StepInv, PTL DEF Spec
=============================================================================
