------------------------------- MODULE JobLife -------------------------------
(***************************************************************************)
(* What the job queue of app/server/queue.go promises about one job, with  *)
(* no channel, worker or table in sight.  A job that was handed to the     *)
(* queue is attempted, one attempt after the other, until an attempt       *)
(* succeeds or JobRetryMaxFails attempts have failed; then it is settled   *)
(* and never attempted again.  A job can only be lost with the process     *)
(* that holds it in memory: nothing reloads the jobs table at start.       *)
(***************************************************************************)
EXTENDS Naturals

CONSTANTS Jobs,             (* the jobs                                    *)
          JobRetryMaxFails  (* Base.Queue.JobRetryMaxFails                 *)

VARIABLES phase,  (* phase[j]: "new", "open", "settled" or "lost"          *)
          fails   (* fails[j]: attempts that have failed, len(m.errors)    *)

vars == <<phase, fails>>

Init == /\ phase = [j \in Jobs |-> "new"]
        /\ fails = [j \in Jobs |-> 0]

\* The job is handed to the queue.
Open(j) == /\ phase[j] = "new"
           /\ phase' = [phase EXCEPT ![j] = "open"]
           /\ UNCHANGED fails

\* One more attempt fails; no attempt starts after the last permitted one.
FailAttempt(j) == /\ phase[j] = "open"
                  /\ fails[j] # JobRetryMaxFails
                  /\ fails' = [fails EXCEPT ![j] = @ + 1]
                  /\ UNCHANGED phase

\* The job leaves the queue: its attempt succeeded, or it has failed for good.
Settle(j) == /\ phase[j] = "open"
             /\ phase' = [phase EXCEPT ![j] = "settled"]
             /\ UNCHANGED fails

\* A set of jobs disappears with the process, or a job was never handed over.
Lose == \E lost \in SUBSET {j \in Jobs : phase[j] # "settled"} :
          /\ phase' = [j \in Jobs |-> IF j \in lost THEN "lost" ELSE phase[j]]
          /\ UNCHANGED fails

Next == (\E j \in Jobs : Open(j) \/ FailAttempt(j) \/ Settle(j)) \/ Lose

Spec == Init /\ [][Next]_vars

FairSpec == Spec /\ \A j \in Jobs : WF_vars(Settle(j) \/ FailAttempt(j))
=============================================================================
