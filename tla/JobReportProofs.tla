--------------------------- MODULE JobReportProofs ---------------------------
(* Theorems about what the clients of JobReport are told, for every set of *)
(* jobs, workers and clients and every configuration of the queue.         *)
EXTENDS JobReport, JobQueueProofs

-----------------------------------------------------------------------------
(* The queue goes on as if nobody asked. *)

LEMMA ReportIsQueueStep == [ReportNext]_reportVars => [Next]_vars
BY DEF ReportNext, reportVars

LEMMA ReportIsQueue == ReportSpec => Spec
<1>1. ReportInit => Init BY DEF ReportInit
<1>2. QED BY <1>1, ReportIsQueueStep, PTL DEF ReportSpec, Spec

\* What the queue says of the tables, whoever reads them.
TableInv == TypeOK /\ OneHolder /\ OutcomeAt /\ FailurePath /\ FailureOrder

\* A job that is Done has no error rows.
DoneRowIsClean == \A j \in Jobs : row[j] = "Done" => errRows[j] = 0

LEMMA DoneRowStep ==
  TableInv /\ DoneRowIsClean /\ [Next]_vars /\ OutcomeAt' => DoneRowIsClean'
<1> SUFFICES ASSUME TableInv, DoneRowIsClean, [Next]_vars, OutcomeAt',
                    NEW k \in Jobs, row'[k] = "Done"
             PROVE  errRows'[k] = 0
  BY DEF DoneRowIsClean
<1>1. at'[k] = "finished" BY DEF OutcomeAt
<1>2. CASE at[k] = "finished" /\ UNCHANGED Account(k)
  BY <1>2 DEF Account, DoneRowIsClean
<1>3. CASE Complete(k)
  <2>1. errRows[k] \in Nat BY DEF TableInv, TypeOK
  <2>2. ~(errRows[k] > 0) /\ UNCHANGED errRows
    BY <1>3 DEF Complete, TableInv, FailurePath
  <2>3. QED BY <2>1, <2>2
<1>4. CASE SaveErrors(k)
  BY <1>4 DEF SaveErrors, TableInv, OutcomeAt
<1>5. QED BY <1>1, <1>2, <1>3, <1>4, FinishedBy DEF TableInv

LEMMA TableCorrect == ReportSpec => [](TableInv /\ DoneRowIsClean)
<1>1. Init => DoneRowIsClean BY DEF Init, DoneRowIsClean
<1>2. Spec => []TableInv
  BY TypeCorrect, OneHolderCorrect, OrderCorrect, PTL DEF TableInv
<1>3. TableInv => OutcomeAt BY DEF TableInv
<1>4. QED BY <1>1, <1>2, <1>3, DoneRowStep, ReportIsQueue, PTL DEF Spec

\* From one step to the next an outcome stays, and error rows are only added.
LEMMA TableGrows ==
  ASSUME TableInv, [Next]_vars, NEW j \in Jobs
  PROVE  /\ row[j] \in {"Done", "Failed"} => row'[j] = row[j]
         /\ errRows[j] \in Nat /\ errRows'[j] \in Nat /\ errRows[j] <= errRows'[j]
<1>1. errRows \in [Jobs -> Nat] BY DEF TableInv, TypeOK
<1>2. row[j] \in {"Done", "Failed"} => row'[j] = row[j] BY OutcomeStep DEF TableInv
<1>3. ASSUME NEW k \in Jobs, SaveErrors(k)
      PROVE  errRows'[j] \in Nat /\ errRows[j] <= errRows'[j]
  BY <1>1, <1>3 DEF SaveErrors
<1>4. QED BY <1>1, <1>2, <1>3, OnlySaveErrors

-----------------------------------------------------------------------------
(* What has been read and reported is still so. *)

ReportTypeOK ==
  /\ read \in [Jobs -> JobState]
  /\ report \in [Jobs -> [state : JobState, errors : Nat]]

ReportInv ==
  /\ ReportTypeOK
  /\ \A j \in Jobs :
       /\ read[j] \in {"Done", "Failed"} => row[j] = read[j]
       /\ report[j].state \in {"Done", "Failed"} =>
            row[j] = report[j].state /\ read[j] \in {"none", report[j].state}
       /\ report[j].errors <= errRows[j]
       /\ ~DbFault /\ report[j].errors > 0 => read[j] \in {"none", "Failed"}
  /\ DoneIsClean

\* What a step does for the client of one job.
ReportStepOf(j) ==
  \/ [Next]_vars /\ read'[j] \in {"none", read[j]} /\ report'[j] = report[j]
  \/ /\ UNCHANGED vars /\ read[j] = "none" /\ read'[j] = row[j]
     /\ report'[j] = report[j]
  \/ /\ UNCHANGED vars /\ read[j] # "none" /\ read'[j] = "none"
     /\ report'[j] \in {report[j], [state |-> read[j], errors |-> errRows[j]]}

LEMMA ReportStepCases ==
  ASSUME TypeOK, ReportTypeOK, [ReportNext]_reportVars
  PROVE  ReportTypeOK' /\ \A j \in Jobs : ReportStepOf(j)
<1> USE DEF ReportTypeOK
<1>1. CASE UNCHANGED reportVars
  BY <1>1 DEF reportVars, reader, ReportStepOf
<1>2. CASE Next /\ read' = (IF Restart THEN [j \in Jobs |-> "none"] ELSE read)
           /\ UNCHANGED report
  <2>1. read' = [j \in Jobs |-> "none"] \/ read' = read BY <1>2
  <2>2. "none" \in JobState BY DEF JobState
  <2>3. QED BY <1>2, <2>1, <2>2 DEF ReportStepOf
<1>3. ASSUME NEW k \in Watched, Reader(k), UNCHANGED vars
      PROVE  ReportTypeOK' /\ \A j \in Jobs : ReportStepOf(j)
  <2>0. k \in Jobs /\ row \in [Jobs -> JobState] /\ errRows \in [Jobs -> Nat]
    BY WatchedJobs DEF TypeOK
  <2>1. CASE GetJobById(k)
    BY <1>3, <2>0, <2>1 DEF GetJobById, ReportStepOf
  <2>2. CASE GetResponseErrors(k)
    <3>1. [state |-> read[k], errors |-> errRows[k]] \in [state : JobState, errors : Nat]
      BY <2>0
    <3>2. ReportTypeOK' BY <2>0, <2>2, <3>1, SMTT(30) DEF GetResponseErrors, JobState
    <3>3. \A j \in Jobs : ReportStepOf(j)
      BY <1>3, <2>0, <2>2 DEF GetResponseErrors, ReportStepOf
    <3>4. QED BY <3>2, <3>3
  <2>3. QED BY <1>3, <2>1, <2>2 DEF Reader
<1>4. QED BY <1>1, <1>2, <1>3 DEF ReportNext

\* The two promises of a step about the report of one job, and the torn report.
Agrees(j) ==
  /\ report[j].state \in {"Done", "Failed"} => report'[j].state = report[j].state
  /\ report'[j].errors >= report[j].errors

WholeAgain(j) ==
  ~DbFault /\ report[j].errors > 0 /\ report'[j] # report[j]
    => report'[j].state = "Failed"

LEMMA ReportStep ==
  /\ TableInv /\ DoneRowIsClean /\ ReportInv /\ [ReportNext]_reportVars
  => ReportInv' /\ \A j \in Jobs : Agrees(j) /\ WholeAgain(j)
<1> SUFFICES ASSUME TableInv, DoneRowIsClean, ReportInv, [ReportNext]_reportVars
             PROVE  ReportInv' /\ \A j \in Jobs : Agrees(j) /\ WholeAgain(j)
  OBVIOUS
<1>1. ReportTypeOK' /\ \A j \in Jobs : ReportStepOf(j)
  BY ReportStepCases DEF TableInv, ReportInv
<1> DEFINE Told(j) ==
      /\ read[j] \in {"Done", "Failed"} => row[j] = read[j]
      /\ report[j].state \in {"Done", "Failed"} =>
           row[j] = report[j].state /\ read[j] \in {"none", report[j].state}
      /\ report[j].errors <= errRows[j]
      /\ ~DbFault /\ report[j].errors > 0 => read[j] \in {"none", "Failed"}
      /\ report[j].state = "Done" => report[j].errors = 0
<1>2. ASSUME NEW j \in Jobs PROVE Told(j)' /\ Agrees(j) /\ WholeAgain(j)
  <2>1. /\ Told(j) /\ report[j] \in [state : JobState, errors : Nat]
        /\ report'[j] \in [state : JobState, errors : Nat]
    BY <1>1, <1>2 DEF ReportInv, ReportTypeOK, DoneIsClean
  <2>2. /\ errRows[j] \in Nat /\ (row[j] = "Done" => errRows[j] = 0)
        /\ ~DbFault /\ errRows[j] > 0 => row[j] = "Failed"
    BY DEF TableInv, TypeOK, DoneRowIsClean, FailureOrder
  <2>3. CASE [Next]_vars /\ read'[j] \in {"none", read[j]} /\ report'[j] = report[j]
    <3>1. /\ row[j] \in {"Done", "Failed"} => row'[j] = row[j]
          /\ errRows'[j] \in Nat /\ errRows[j] <= errRows'[j]
      BY <2>3, TableGrows
    <3>2. Told(j)' BY <2>1, <2>2, <2>3, <3>1 DEF DbFault
    <3>3. QED BY <2>1, <2>3, <3>2 DEF Agrees, WholeAgain
  <2>4. CASE /\ UNCHANGED vars /\ read[j] = "none" /\ read'[j] = row[j]
             /\ report'[j] = report[j]
    <3>1. UNCHANGED <<row, errRows>> BY <2>4 DEF vars, table
    <3>2. Told(j)' BY <2>1, <2>2, <2>4, <3>1 DEF DbFault
    <3>3. QED BY <2>1, <2>4, <3>2 DEF Agrees, WholeAgain
  <2>5. CASE /\ UNCHANGED vars /\ read[j] # "none" /\ read'[j] = "none"
             /\ report'[j] \in {report[j], [state |-> read[j], errors |-> errRows[j]]}
    <3>1. UNCHANGED <<row, errRows>> BY <2>5 DEF vars, table
    <3>2. CASE report'[j] = report[j]
      BY <2>1, <2>2, <2>5, <3>1, <3>2 DEF DbFault, Agrees, WholeAgain
    <3>3. CASE report'[j] = [state |-> read[j], errors |-> errRows[j]]
      <4>1. report'[j].state = read[j] /\ report'[j].errors = errRows[j] BY <3>3
      <4>2. Told(j)' BY <2>1, <2>2, <2>5, <3>1, <4>1 DEF DbFault
      <4>3. Agrees(j) /\ WholeAgain(j) BY <2>1, <2>5, <4>1 DEF Agrees, WholeAgain
      <4>4. QED BY <4>2, <4>3
    <3>4. QED BY <2>5, <3>2, <3>3
  <2>6. QED BY <1>1, <2>3, <2>4, <2>5 DEF ReportStepOf
<1>3. ReportInv' BY <1>1, <1>2 DEF ReportInv, DoneIsClean
<1>4. QED BY <1>2, <1>3

LEMMA ReportCorrect == ReportSpec => [](TableInv /\ DoneRowIsClean /\ ReportInv)
<1>1. ReportInit => ReportInv
  BY DEF ReportInit, Init, ReportInv, ReportTypeOK, DoneIsClean, NoReport, JobState
<1>2. QED BY <1>1, TableCorrect, ReportStep, PTL DEF ReportSpec

\* A report that says Done lists no errors, although the errors are read after the
\* state: no job that has error rows is ever marked Done, and none gets them after.
THEOREM DoneIsCleanCorrect == ReportSpec => []DoneIsClean
<1>1. ReportInv => DoneIsClean BY DEF ReportInv
<1>2. QED BY <1>1, ReportCorrect, PTL

\* No report takes back the outcome or an error of an earlier report of the job.
THEOREM ReportsAgreeCorrect == ReportSpec => ReportsAgree
<1>1. TableInv /\ DoneRowIsClean /\ ReportInv /\ [ReportNext]_reportVars
        => [\A j \in Jobs :
              /\ report[j].state \in {"Done", "Failed"} => report'[j].state = report[j].state
              /\ report'[j].errors >= report[j].errors]_reportVars
  BY ReportStep DEF Agrees
<1>2. QED BY <1>1, ReportCorrect, PTL DEF ReportSpec, ReportsAgree

\* While the database works, the report after a torn one, with errors beside a
\* state that is not yet Failed, says Failed.
THEOREM TornOnceCorrect == ReportSpec => TornOnce
<1>1. TableInv /\ DoneRowIsClean /\ ReportInv /\ [ReportNext]_reportVars
        => [~DbFault =>
              \A j \in Jobs : report[j].errors > 0 /\ report'[j] # report[j] =>
                                report'[j].state = "Failed"]_reportVars
  BY ReportStep DEF WholeAgain
<1>2. QED BY <1>1, ReportCorrect, PTL DEF ReportSpec, TornOnce
=============================================================================
