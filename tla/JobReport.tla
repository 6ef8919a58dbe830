----------------------------- MODULE JobReport ------------------------------
(***************************************************************************)
(* GET /v1/job/<id> beside the running queue: httpHandlerJobGet of         *)
(* app/server/http.go reads the row of the job, then its error rows, in    *)
(* two queries between which the queue goes on.  A client has at most one  *)
(* request for a job under way; clients of different jobs do not wait for  *)
(* one another.                                                            *)
(***************************************************************************)
EXTENDS JobQueue

LOCAL INSTANCE FiniteSetsExt

CONSTANT Watched   (* the jobs whose clients ask for reports               *)

ASSUME WatchedJobs == Watched \subseteq Jobs

VARIABLES
  read,    (* read[j]: the state the handler has read for the request under  *)
           (* way, "none" if there is no request                             *)
  report   (* report[j]: the last report the client of j has received        *)

reader     == <<read, report>>
reportVars == <<vars, reader>>

NoReport == [state |-> "none", errors |-> 0]

ReportInit ==
  /\ Init
  /\ read = [j \in Jobs |-> "none"]
  /\ report = [j \in Jobs |-> NoReport]

\* Mutant of GetJobById: a state that has been reported is not read again.
GetJobByIdCached(j) ==
  /\ read[j] = "none" /\ row[j] # "none"
  /\ read' = [read EXCEPT ![j] =
                IF report[j] = NoReport THEN row[j] ELSE report[j].state]
  /\ UNCHANGED report

\* getJobById(): a job without a row, and a query that fails, are answered with
\* an error and report nothing.
GetJobById(j) ==
  /\ read[j] = "none" /\ row[j] # "none"
  /\ read' = [read EXCEPT ![j] = row[j]]
  /\ UNCHANGED report

\* Mutant of GetResponseErrors: the handler reports the rows it has got although
\* the query has failed.
GetResponseErrorsAnyway(j) ==
  /\ read[j] # "none"
  /\ \E n \in IF DbFault THEN {0, errRows[j]} ELSE {errRows[j]} :
       report' = [report EXCEPT ![j] = [state |-> read[j], errors |-> n]]
  /\ read' = [read EXCEPT ![j] = "none"]

\* Mutant of GetResponseErrors: the list stops at the first row.
GetFirstError(j) ==
  /\ read[j] # "none"
  /\ report' = [report EXCEPT ![j] =
                  [state |-> read[j], errors |-> IF errRows[j] = 0 THEN 0 ELSE 1]]
  /\ read' = [read EXCEPT ![j] = "none"]

\* Mutant of GetResponseErrors: the query is not restricted to the job.
GetErrorsOfAll(j) ==
  /\ read[j] # "none"
  /\ report' = [report EXCEPT ![j] =
        [state |-> read[j], errors |-> MapThenSumSet(LAMBDA k : errRows[k], Jobs)]]
  /\ read' = [read EXCEPT ![j] = "none"]

\* getResponseErrors(): the report joins the state read before with the errors
\* there are now; a query that fails drops both.
GetResponseErrors(j) ==
  /\ read[j] # "none"
  /\ read' = [read EXCEPT ![j] = "none"]
  /\ \/ report' = [report EXCEPT ![j] = [state |-> read[j], errors |-> errRows[j]]]
     \/ DbFault /\ UNCHANGED report

Reader(j) == GetJobById(j) \/ GetResponseErrors(j)

\* Handlers end with the process: a restart leaves no request under way.
ReportNext ==
  \/ /\ Next
     /\ read' = IF Restart THEN [j \in Jobs |-> "none"] ELSE read
     /\ UNCHANGED report
  \/ ~panicked /\ (\E j \in Watched : Reader(j)) /\ UNCHANGED vars

ReportSpec == ReportInit /\ [][ReportNext]_reportVars

\* Every client keeps asking, and is answered while the process lives.
ReportFairSpec ==
  /\ ReportSpec /\ Fairness
  /\ \A j \in Watched : WF_reportVars(~panicked /\ Reader(j) /\ UNCHANGED vars)

-----------------------------------------------------------------------------
(* Properties. *)

\* No report is taken back: the outcome of a job once reported stays, and so do
\* its errors, across retries, failed statements and restarts.
ReportsAgree ==
  [][\A j \in Jobs :
       /\ report[j].state \in {"Done", "Failed"} => report'[j].state = report[j].state
       /\ report'[j].errors >= report[j].errors]_reportVars

\* A report that says Done lists no errors, although a job may have failed some
\* attempts before and the errors are read after the state.
DoneIsClean ==
  \A j \in Jobs : report[j].state = "Done" => report[j].errors = 0

\* A report may be torn: errors beside a state that is not yet Failed.  While the
\* database works the next report of that job is whole again, since the errors
\* are written after the state and read after it.
TornOnce ==
  [][~DbFault =>
       \A j \in Jobs : report[j].errors > 0 /\ report'[j] # report[j] =>
                         report'[j].state = "Failed"]_reportVars

\* What the client of a settled job should see in the end.
WholeReport(j) ==
  report[j] = IF fails[j] = JobRetryMaxFails
              THEN [state |-> "Failed", errors |-> JobRetryMaxFails]
              ELSE [state |-> "Done", errors |-> 0]

\* A client that keeps asking for a queued job learns its outcome with all of
\* its errors, unless the process is stopped, is restarted before the job is
\* settled, or never stays up; the database works.
ClientLearns ==
  <>[][~Restart]_vars =>
    \A j \in Watched : at[j] = "queued" ~> \/ WholeReport(j)
                                           \/ stopped # "no" \/ at[j] = "lost"
=============================================================================
