---------------------------- MODULE CoreLifecycle ----------------------------
(***************************************************************************)
(* The life of the process: Construct(), Bootstrap() and Destruct() of     *)
(* core/core.go beside the one service that Bootstrap() starts, the raft   *)
(* service, and the signals it may get.  The main goroutine waits for a    *)
(* signal or for the end of a service; then it takes everything down, in   *)
(* the order app, raft, boltdb, while the service may be anywhere.         *)
(***************************************************************************)
EXTENDS Naturals

CONSTANTS
  MaxSignals,  (* bound: signals the process gets                          *)
  None

ASSUME CoreConfig == MaxSignals \in Nat
ASSUME CoreNone   == None \notin {"nil", "error", "signal", "ok", "fatal", "killed"}

VARIABLES
  main,    (* where the main goroutine is                                  *)
  bolt,    (* Core.bolt                                                    *)
  app,     (* Core.app: its queue can be told to stop                      *)
  raft,    (* RaftService.raft: nil until NewRaft() has returned           *)
  svc,     (* where the goroutine of the raft service is                   *)
  answer,  (* what its Bootstrap() returned                                *)
  done,    (* donePipe is closed                                           *)
  missed,  (* DeInit() found no raft, and recovered from the panic         *)
  ended,   (* what ended the loop of the main goroutine                    *)
  code,    (* how the process has ended                                    *)
  signals  (* how many signals it got                                      *)

service == <<raft, svc, answer>>
vars    == <<main, bolt, app, service, done, missed, ended, code, signals>>

Errors == {"nil", "error"}

TypeOK ==
  /\ main \in {"bolt", "app", "raft", "notify", "start", "select",
               "stopApp", "closePipe", "shutdown", "closeBolt", "wait", "exited"}
  /\ bolt \in {"none", "open", "closed"}
  /\ app \in {"none", "made", "stopped"}
  /\ raft \in {"nil", "running", "down"}
  /\ svc \in {"none", "newRaft", "cluster", "waiting", "send", "sent"}
  /\ answer \in Errors \cup {None} /\ (answer = None <=> svc \notin {"send", "sent"})
  /\ done \in BOOLEAN /\ missed \in BOOLEAN
  /\ ended \in Errors \cup {"signal", None}
  /\ code \in {"ok", "fatal", "killed", None} /\ (code = None <=> main # "exited")
  /\ signals \in 0..MaxSignals

Init ==
  /\ main = "bolt"
  /\ bolt = "none" /\ app = "none" /\ raft = "nil"
  /\ svc = "none" /\ answer = None
  /\ done = FALSE /\ missed = FALSE
  /\ ended = None /\ code = None
  /\ signals = 0

-----------------------------------------------------------------------------
(* Construct(). *)

\* An error ends the process: main() of main.go logs it as fatal.
ConstructFails ==
  /\ main \in {"bolt", "app", "raft"}
  /\ main' = "exited" /\ code' = "fatal"
  /\ UNCHANGED <<bolt, app, service, done, missed, ended, signals>>

NewBoltDB ==
  /\ main = "bolt"
  /\ bolt' = "open" /\ main' = "app"
  /\ UNCHANGED <<app, service, done, missed, ended, code, signals>>

\* The client of rsview may be nil afterwards: its error is only logged.
NewApp ==
  /\ main = "app"
  /\ app' = "made" /\ main' = "raft"
  /\ UNCHANGED <<bolt, service, done, missed, ended, code, signals>>

\* RaftService.Init(), and the http service, which no one starts.
InitRaft ==
  /\ main = "raft"
  /\ main' = "notify"
  /\ UNCHANGED <<bolt, app, service, done, missed, ended, code, signals>>

-----------------------------------------------------------------------------
(* Bootstrap(): the main goroutine. *)

Notify ==
  /\ main = "notify"
  /\ main' = "start"
  /\ UNCHANGED <<bolt, app, service, done, missed, ended, code, signals>>

StartService ==
  /\ main = "start"
  /\ main' = "select" /\ svc' = "newRaft"
  /\ UNCHANGED <<bolt, app, raft, answer, done, missed, ended, code, signals>>

\* A signal kills the process before signal.Notify(); afterwards it is given to
\* kernSignal, which has no buffer: without a receiver it is dropped.
Signal ==
  /\ main # "exited" /\ signals < MaxSignals
  /\ signals' = signals + 1
  /\ CASE main \in {"bolt", "app", "raft", "notify"} ->
            main' = "exited" /\ code' = "killed" /\ UNCHANGED ended
       [] main = "select" ->
            main' = "stopApp" /\ ended' = "signal" /\ UNCHANGED code
       [] OTHER -> UNCHANGED <<main, ended, code>>
  /\ UNCHANGED <<bolt, app, service, done, missed>>

\* e = <-epipe, which has no buffer either.
ReceiveAnswer ==
  /\ main = "select" /\ svc = "send"
  /\ ended' = answer /\ svc' = "sent" /\ main' = "stopApp"
  /\ UNCHANGED <<bolt, app, raft, answer, done, missed, code, signals>>

-----------------------------------------------------------------------------
(* RaftService.Bootstrap() in its goroutine. *)

Return(e) == svc' = "send" /\ answer' = e

NewRaft ==
  /\ svc = "newRaft" /\ main # "exited"
  /\ \/ raft' = "running" /\ svc' = "cluster" /\ UNCHANGED answer
     \/ Return("error") /\ UNCHANGED raft
  /\ UNCHANGED <<main, bolt, app, done, missed, ended, code, signals>>

\* Mutant of BootstrapCluster: Bootstrap() returns when the cluster is there.
BootstrapReturns ==
  /\ svc = "cluster" /\ main # "exited"
  /\ Return("nil") \/ Return("error")
  /\ UNCHANGED <<main, bolt, app, raft, done, missed, ended, code, signals>>

\* BootstrapCluster() and the joins of RaftMembership.tla.
BootstrapCluster ==
  /\ svc = "cluster" /\ main # "exited"
  /\ \/ svc' = "waiting" /\ UNCHANGED answer
     \/ Return("error")
  /\ UNCHANGED <<main, bolt, app, raft, done, missed, ended, code, signals>>

WaitDone ==
  /\ svc = "waiting" /\ done /\ main # "exited"
  /\ Return("nil")
  /\ UNCHANGED <<main, bolt, app, raft, done, missed, ended, code, signals>>

-----------------------------------------------------------------------------
(* Destruct(). *)

StopApp ==
  /\ main = "stopApp"
  /\ app' = "stopped" /\ main' = "closePipe"
  /\ UNCHANGED <<bolt, service, done, missed, ended, code, signals>>

ClosePipe ==
  /\ main = "closePipe"
  /\ done' = TRUE /\ main' = "shutdown"
  /\ UNCHANGED <<bolt, app, service, missed, ended, code, signals>>

\* Mutant of Shutdown: the future of raft.Shutdown() is not waited for.
ShutdownNoWait ==
  /\ main = "shutdown"
  /\ main' = "closeBolt"
  /\ missed' = (raft = "nil")
  /\ UNCHANGED <<bolt, app, service, done, ended, code, signals>>

\* m.raft.Shutdown().Error(): with a nil raft the panic is recovered.
Shutdown ==
  /\ main = "shutdown"
  /\ main' = "closeBolt"
  /\ missed' = (raft = "nil")
  /\ raft' = IF raft = "running" THEN "down" ELSE raft
  /\ UNCHANGED <<bolt, app, svc, answer, done, ended, code, signals>>

CloseBolt ==
  /\ main = "closeBolt"
  /\ bolt' = "closed" /\ main' = "wait"
  /\ UNCHANGED <<app, service, done, missed, ended, code, signals>>

\* Mutant of Exit: appWg is shared with the goroutine, and waited for.
ExitJoins ==
  /\ main = "wait" /\ svc = "sent"
  /\ main' = "exited" /\ code' = IF ended = "error" THEN "fatal" ELSE "ok"
  /\ UNCHANGED <<bolt, app, service, done, missed, ended, signals>>

\* The goroutine has a copy of appWg: Wait() returns at once, and the error of the
\* loop is returned up to main().
Exit ==
  /\ main = "wait"
  /\ main' = "exited" /\ code' = IF ended = "error" THEN "fatal" ELSE "ok"
  /\ UNCHANGED <<bolt, app, service, done, missed, ended, signals>>

-----------------------------------------------------------------------------

Main == \/ NewBoltDB \/ NewApp \/ InitRaft \/ Notify \/ StartService
        \/ StopApp \/ ClosePipe \/ Shutdown \/ CloseBolt \/ Exit
RaftService == NewRaft \/ BootstrapCluster \/ WaitDone

Next == Main \/ ConstructFails \/ Signal \/ ReceiveAnswer \/ RaftService

Spec == Init /\ [][Next]_vars

\* The goroutines run, and what they call returns; a signal need not come.
FairSpec == /\ Spec /\ WF_vars(Main \/ ConstructFails)
            /\ WF_vars(ReceiveAnswer) /\ WF_vars(RaftService)

-----------------------------------------------------------------------------
(* Properties. *)

\* A process that was not signalled in its loop does not report success: the raft
\* service ends without an error only when it is told to, and an error of it that
\* ended the loop is in the exit code.
SuccessNeedsSignal == code = "ok" => ended = "signal"

\* boltdb is not closed under a running raft, except when Destruct() overtakes
\* NewRaft(): then no one is left to shut that raft down.
RaftStopsFirst == bolt = "closed" /\ raft = "running" => missed

\* A service that has ended ends the process, whether it is heard or not; and
\* whatever ends the loop, Destruct() gets to its end, though the goroutine of the
\* service may be stuck for ever on its send to epipe.
ProcessEnds == ended # None \/ svc = "send" ~> main = "exited"
=============================================================================
