----------------------------- MODULE ApiRequest -----------------------------
(***************************************************************************)
(* One request of the API from its arrival to its end: the middleware that *)
(* logs it in the table requests and checks its signature, the handlers as *)
(* far as errors and the answer go, and respondJSON(), which first saves   *)
(* the errors of the request and then answers with them (http.go,          *)
(* request.go).  What the handlers do to hosts, ports and jobs is in       *)
(* Provisioning.tla, what GET /v1/job reads in JobReport.tla.              *)
(*                                                                         *)
(* A statement may fail, and may have been executed although it fails.     *)
(***************************************************************************)
EXTENDS Integers, Sequences, FiniteSetsExt

CONSTANTS
  MaxPorts,  (* bound: ports of a POST /v1/host                            *)
  Faults,    (* what may go wrong: "dbfault", "lost" (only the result is)  *)
  None

VARIABLES
  route,     (* which handler the request is for                           *)
  pc,        (* where its goroutine is                                     *)
  status,    (* httpRequest.status                                         *)
  errors,    (* httpRequest.errors: their codes                            *)
  left,      (* ports to parse, and then errors to save                    *)
  good,      (* a port has been parsed                                     *)
  want,      (* the arguments of respondJSON()                             *)
  sent,      (* the response, None before and without one                  *)
  row,       (* the column status in its row of requests, None without row *)
  recorded,  (* the positions in errors that have a row in table errors    *)
  failed     (* a statement has failed                                     *)

answer   == <<want, sent>>
handling == <<left, good>>
vars     == <<route, pc, status, errors, handling, answer, row, recorded, failed>>

\* apiErrorsStatus; the codes with status 400 are one, as are those with 404.
StatusOf == [common |-> 500, sql |-> 500, notAuthorized |-> 401,
             badRequest |-> 400, notFound |-> 404]
Codes == DOMAIN StatusOf

Statuses == {0, 200, 201} \cup {StatusOf[c] : c \in Codes}

TypeOK ==
  /\ route \in {"root", "hostGet", "jobGet", "hostPost", "test"}
  /\ pc \in {"arrive", "auth", "handler", "ports", "jobs", "save",
             "update", "end", "panic"}
  /\ status \in Statuses
  /\ errors \in Seq(Codes)
  /\ left \in 0 .. MaxPorts + 3 /\ good \in BOOLEAN
  /\ want \in [status : {0, 200, 201}, data : BOOLEAN] \cup {None}
  /\ sent \in [status : Statuses \ {0}, data : BOOLEAN, errors : Seq(Codes)] \cup {None}
  /\ row \in Statuses \cup {None}
  /\ recorded \subseteq DOMAIN errors
  /\ failed \in BOOLEAN

Init ==
  /\ route \in {"root", "hostGet", "jobGet", "hostPost", "test"}
  /\ pc = "arrive" /\ status = 0 /\ errors = <<>> /\ left = 0 /\ good = FALSE
  /\ want = None /\ sent = None
  /\ row = None /\ recorded = {}
  /\ failed = FALSE

\* A statement: executed or not, and reported as such or not.
Statement(executed, reported) ==
  /\ ~reported => IF executed THEN "lost" \in Faults ELSE "dbfault" \in Faults
  /\ reported => executed
  /\ failed' = (failed \/ ~reported)

-----------------------------------------------------------------------------
(* httpMiddlewareRequestLog, first half, and httpMiddlewareAPIAuthentication. *)

\* createAndSave(): the row has the status 0.  The request goes on without it.
CreateAndSave ==
  /\ pc = "arrive"
  /\ \E executed, reported \in BOOLEAN :
       /\ Statement(executed, reported)
       /\ row' = IF executed THEN 0 ELSE None
       /\ status' = IF reported THEN 200 ELSE 0
       /\ errors' = IF reported THEN <<>> ELSE <<"common">>
  /\ pc' = "auth"
  /\ UNCHANGED <<route, handling, answer, recorded>>

\* respondJSON(w, req, data, s) is called, after the error c, if any, is appended.
Respond(c, data, s) ==
  /\ errors' = IF c = None THEN errors ELSE Append(errors, c)
  /\ want' = [status |-> s, data |-> data]
  /\ left' = Len(errors')
  /\ pc' = "save"
  /\ UNCHANGED <<route, status, good, sent, row, recorded, failed>>

\* The panic of a handler ends the goroutine: net/http recovers it and closes the
\* connection, and updateAndSave() is not called, which is not deferred.
Panic == /\ pc' = "panic"
         /\ UNCHANGED <<route, status, errors, handling, answer, row, recorded, failed>>

Goto(to) == /\ pc' = to
            /\ UNCHANGED <<route, status, errors, handling, answer, row, recorded, failed>>

\* The body cannot be read, the signature is not hexadecimal, or not the right one;
\* without a second word in the header the index is out of range.
Authenticate ==
  /\ pc = "auth"
  /\ \/ \E c \in {"common", "notAuthorized"} : Respond(c, FALSE, 0)
     \/ Panic
     \/ Goto("handler")

-----------------------------------------------------------------------------
(* The handlers. *)

\* httpHandlerRootV1, and httpHandlerHostGet for the MACs the route admits: net/http
\* sends an empty 200.
EmptyAnswer ==
  /\ pc = "handler" /\ route \in {"root", "hostGet"}
  /\ sent' = [status |-> 200, data |-> FALSE, errors |-> <<>>]
  /\ pc' = "update"
  /\ UNCHANGED <<route, status, errors, handling, want, row, recorded, failed>>

\* httpHandlerTest: http.Error() sends a 500, and the status of the request is left at
\* what the log has made it.
TestAnswer ==
  /\ pc = "handler" /\ route = "test"
  /\ sent' = [status |-> 500, data |-> FALSE, errors |-> <<>>]
  /\ pc' = "update"
  /\ UNCHANGED <<route, status, errors, handling, want, row, recorded, failed>>

JobGet ==
  /\ pc = "handler" /\ route = "jobGet"
  /\ \/ Respond("notFound", FALSE, 0)
     \/ "dbfault" \in Faults /\ Respond("sql", FALSE, 0)
     \/ Respond(None, TRUE, 200)

\* httpHandlerHostCreate up to the ports: an error ends it; a body "null" is
\* dereferenced.
HostPost ==
  /\ pc = "handler" /\ route = "hostPost"
  /\ \/ \E c \in {"common", "badRequest"} : Respond(c, FALSE, 0)
     \/ "dbfault" \in Faults /\ Respond("sql", FALSE, 0)
     \/ Panic
     \/ /\ left' \in 1 .. MaxPorts
        /\ pc' = "ports"
        /\ UNCHANGED <<route, status, errors, good, answer, row, recorded, failed>>

\* newPortWithMAC(): a bad port is an error, and the others go on.
Port ==
  /\ pc = "ports" /\ left > 0
  /\ left' = left - 1
  /\ \/ good' = TRUE /\ UNCHANGED errors
     \/ /\ \E c \in {"badRequest"} \cup IF "dbfault" \in Faults THEN {"sql"} ELSE {} :
             errors' = Append(errors, c)
        /\ UNCHANGED good
  /\ UNCHANGED <<route, pc, status, answer, row, recorded, failed>>

PortsDone ==
  /\ pc = "ports" /\ left = 0
  /\ IF good THEN Goto("jobs") ELSE Respond(None, FALSE, 0)

\* newQueueJob() for each job, and addToQueue(): a job needs the row of its request.
MakeJobs ==
  /\ pc = "jobs"
  /\ \/ /\ row # None
        /\ Respond(None, TRUE, 201)
     \/ (row = None \/ "dbfault" \in Faults) /\ Respond("common", FALSE, 0)

-----------------------------------------------------------------------------
(* respondJSON(), and httpMiddlewareRequestLog, second half. *)

\* Mutant of SaveError: an error that is not saved is only logged.
SaveErrorQuietly ==
  LET i == Len(errors) - left + 1
  IN  /\ pc = "save" /\ left > 0
      /\ \E executed, reported \in BOOLEAN :
           /\ IF row = None THEN ~executed /\ ~reported /\ failed' = TRUE
                            ELSE Statement(executed, reported)
           /\ recorded' = IF executed THEN recorded \cup {i} ELSE recorded
           /\ left' = left - 1
      /\ UNCHANGED <<route, pc, status, errors, good, answer, row>>

\* saveErrors(), one error at a time: the first that cannot be saved, as none can
\* without the row of the request, is followed by a database error, and ends it.
SaveError ==
  LET i == Len(errors) - left + 1
  IN  /\ pc = "save" /\ left > 0
      /\ \E executed, reported \in BOOLEAN :
           /\ IF row = None THEN ~executed /\ ~reported /\ failed' = TRUE
                            ELSE Statement(executed, reported)
           /\ recorded' = IF executed THEN recorded \cup {i} ELSE recorded
           /\ IF reported THEN left' = left - 1 /\ UNCHANGED errors
                          ELSE left' = 0 /\ errors' = Append(errors, "sql")
      /\ UNCHANGED <<route, pc, status, good, answer, row>>

\* Mutant of RespondErrors: the last error decides.
RespondErrorsLast ==
  /\ pc = "save" /\ left = 0
  /\ LET worst == IF errors = <<>> THEN status ELSE StatusOf[errors[Len(errors)]]
         wins  == worst > want.status
     IN  /\ status' = IF wins THEN worst ELSE want.status
         /\ sent' = [status |-> status', data |-> want.data /\ ~wins, errors |-> errors]
  /\ pc' = "update"
  /\ UNCHANGED <<route, errors, handling, want, row, recorded, failed>>

\* respondApiErrors(): the worst status wins over that of the handler, whose data is
\* dropped then.
RespondErrors ==
  /\ pc = "save" /\ left = 0
  /\ LET worst == Max({status} \cup {StatusOf[errors[i]] : i \in DOMAIN errors})
         wins  == worst > want.status
     IN  /\ status' = IF wins THEN worst ELSE want.status
         /\ sent' = [status |-> status', data |-> want.data /\ ~wins, errors |-> errors]
  /\ pc' = "update"
  /\ UNCHANGED <<route, errors, handling, want, row, recorded, failed>>

\* updateAndSave(): its errors are only logged.
UpdateAndSave ==
  /\ pc = "update"
  /\ \E executed, reported \in BOOLEAN :
       /\ Statement(executed, reported)
       /\ row' = IF executed /\ row # None THEN status ELSE row
  /\ pc' = "end"
  /\ UNCHANGED <<route, status, errors, handling, answer, recorded>>

Next == \/ CreateAndSave \/ Authenticate
        \/ EmptyAnswer \/ TestAnswer \/ JobGet \/ HostPost \/ Port \/ PortsDone \/ MakeJobs
        \/ SaveError \/ RespondErrors \/ UpdateAndSave

Spec == Init /\ [][Next]_vars

-----------------------------------------------------------------------------
(* Properties. *)

\* An answer of respondJSON() carries data or errors, never both and never neither,
\* and its status is that of its worst error: whatever the request log, the handler
\* and the saving of the errors have added, in whatever order.
AnswerMatchesErrors ==
  sent # None /\ want # None =>
    /\ sent.data <=> sent.errors = <<>>
    /\ sent.status = IF sent.data THEN want.status
                     ELSE Max({StatusOf[sent.errors[i]] : i \in DOMAIN sent.errors})

\* What the database keeps of a request is what its client was told: each error of
\* the answer is in the table errors by its id, or the last of them is a database
\* error, and as long as the database works the log of requests has the status that
\* was sent; a 0 there is a request whose handler has panicked.  The one exception is
\* the handler of the test route, whose 500 is in the log as a 200.
AnswerOnRecord ==
  /\ sent # None => \A i \in DOMAIN sent.errors :
       i \in recorded \/ sent.errors[Len(sent.errors)] = "sql"
  /\ ~failed => /\ pc = "end" => row = IF route = "test" /\ want = None THEN 200
                                        ELSE sent.status
                /\ pc = "panic" => row = 0 /\ sent = None
=============================================================================
