--------------------------- MODULE ApiServiceProofs ---------------------------
(***************************************************************************)
(* Theorems about ApiService: what the http service does whatever its      *)
(* requests do, and what becomes of a request whatever the service does.   *)
(***************************************************************************)
EXTENDS ApiService, Integers, Sequences, TLAPS

-----------------------------------------------------------------------------
(* The service. *)

ConnsCounted ==
  /\ conns \in Nat /\ accepted \in Nat /\ conns <= accepted
  /\ conns <= MaxConns /\ accepted <= MaxConns

\* As long as Destruct() was not the first to close done, only an error of serving
\* closes it, and it is that error Bootstrap() then finds in e.
OwnEnd ==
  stop # "closed" =>
    /\ ~closing
    /\ done => serve = "returned"
    /\ serve \in {"failed", "returned"} => e = "serve"
    /\ boot \in {"waiting", "returned"}
    /\ boot = "returned" => answer = "serve"

\* Bootstrap() returns no other error than that of serving before it has told the
\* server to shut down, and after that not before the last connection is gone.
Drained ==
  /\ boot = "waiting" => ~closing
  /\ boot = "closing" => done
  /\ e = "closed" => closing
  /\ boot \in {"draining", "stored"} => closing
  /\ boot = "stored" \/ answer \in {"nil", "closed"} => closing /\ conns = 0

HttpInv == TypeOK /\ ConnsCounted /\ OwnEnd /\ Drained /\ CrashHasCause

LEMMA HttpInit == Init => HttpInv
  <1> SUFFICES ASSUME Init PROVE HttpInv
    OBVIOUS
  <1>1. conns \in 0..MaxConns /\ accepted \in 0..MaxConns /\ ConnsCounted
    BY HttpConfig DEF Init, ConnsCounted
  <1> QED
    BY <1>1, HttpNone
    DEF Init, HttpInv, TypeOK, OwnEnd, Drained, CrashHasCause, Errors

\* A step counts at most one connection, and none while the server is closing.
LEMMA ConnsStep ==
  ASSUME ConnsCounted, [Next]_vars
  PROVE  /\ ConnsCounted'
         /\ conns' \in 0..MaxConns /\ accepted' \in 0..MaxConns
         /\ closing /\ conns = 0 => conns' = 0
         /\ accepted > 0 => accepted' > 0
  <1>1. CASE Accept
    BY <1>1, HttpConfig DEF Accept, ConnsCounted
  <1>2. CASE Answered
    BY <1>2, HttpConfig DEF Answered, ConnsCounted
  <1>3. ASSUME ~Accept, ~Answered PROVE UNCHANGED <<conns, accepted>>
    BY <1>3 DEF Next, vars, server, Serve, Bootstrap, Listen, ServeFails, CloseDone,
                ServeClosed, Wake, Shutdown, Drain, ReturnError, Destruct
  <1> QED
    BY <1>1, <1>2, <1>3, HttpConfig DEF ConnsCounted

LEMMA HttpStep == HttpInv /\ [Next]_vars => HttpInv'
  <1> SUFFICES ASSUME HttpInv, [Next]_vars PROVE HttpInv'
    OBVIOUS
  <1>0. /\ ConnsCounted'
        /\ conns' \in 0..MaxConns /\ accepted' \in 0..MaxConns
        /\ closing /\ conns = 0 => conns' = 0
        /\ accepted > 0 => accepted' > 0
    BY ConnsStep DEF HttpInv
  <1> USE <1>0, HttpNone
      DEF HttpInv, TypeOK, OwnEnd, Drained, CrashHasCause, Errors, server
  <1>1. CASE Listen \/ ServeFails \/ ServeClosed
    BY <1>1 DEF Listen, ServeFails, ServeClosed
  <1>2. CASE CloseDone
    BY <1>2 DEF CloseDone
  <1>3. CASE Wake
    BY <1>3 DEF Wake, Return
  <1>4. CASE Shutdown
    BY <1>4 DEF Shutdown
  <1>5. CASE Drain
    <2>1. CASE conns = 0
      BY <1>5, <2>1 DEF Drain
    <2>2. CASE conns # 0
      <3>1. accepted > 0
        BY <2>2 DEF ConnsCounted
      <3> QED
        BY <1>5, <2>2, <3>1 DEF Drain
    <2> QED
      BY <2>1, <2>2
  <1>6. CASE ReturnError
    BY <1>6 DEF ReturnError, Return
  <1>7. CASE Destruct
    BY <1>7 DEF Destruct
  <1>8. CASE Accept \/ Answered
    BY <1>8 DEF Accept, Answered
  <1>9. CASE UNCHANGED vars
    BY <1>9 DEF vars
  <1> QED
    BY <1>1, <1>2, <1>3, <1>4, <1>5, <1>6, <1>7, <1>8, <1>9 DEF Next, Serve, Bootstrap

-----------------------------------------------------------------------------
(* The service with the request. *)

\* To the service the request is one of its connections.
LEMMA ServiceStep == [ApiNext]_apiVars => [Next]_vars
  BY DEF ApiNext, apiVars, vars, Arrive, Handle, Leave, Other, Next, server

VisitCounted == visit \in {"none", "open", "over"} /\ (visit = "open" => conns > 0)

LEMMA VisitStep ==
  HttpInv /\ HttpInv' /\ VisitCounted /\ [ApiNext]_apiVars => VisitCounted'
  <1> SUFFICES ASSUME HttpInv, HttpInv', VisitCounted, [ApiNext]_apiVars
               PROVE  VisitCounted'
    OBVIOUS
  <1> USE DEF VisitCounted
  <1>1. CASE Arrive
    BY <1>1 DEF Arrive, Accept, HttpInv, ConnsCounted
  <1>2. CASE Handle
    BY <1>2 DEF Handle, vars, server
  <1>3. CASE Leave
    BY <1>3 DEF Leave
  <1>4. CASE Other
    BY <1>4 DEF Other, Aside
  <1>5. CASE UNCHANGED apiVars
    BY <1>5 DEF apiVars, vars, server
  <1> QED
    BY <1>1, <1>2, <1>3, <1>4, <1>5 DEF ApiNext

ServiceInv == HttpInv /\ VisitCounted

LEMMA ServiceInvariant == ApiSpec => []ServiceInv
  <1>1. ApiInit => ServiceInv
    BY HttpInit DEF ApiInit, ServiceInv, VisitCounted
  <1>2. ServiceInv /\ [ApiNext]_apiVars => ServiceInv'
    BY HttpStep, ServiceStep, VisitStep DEF ServiceInv
  <1> QED
    BY <1>1, <1>2, PTL DEF ApiSpec

\* core/http/http.go keeps its types, for any number of connections.
THEOREM ServiceTypeCorrect == ApiSpec => []TypeOK
  <1>1. ServiceInv => TypeOK
    BY DEF ServiceInv, HttpInv
  <1> QED
    BY <1>1, ServiceInvariant, PTL

\* Neither of the two panics happens before Destruct() has been called first, and
\* that of Shutdown(nil) only if a connection was accepted.
THEOREM CrashHasCauseCorrect == ApiSpec => []CrashHasCause
  <1>1. ServiceInv => CrashHasCause
    BY DEF ServiceInv, HttpInv
  <1> QED
    BY <1>1, ServiceInvariant, PTL

\* The shared error e: unless Destruct() closed done first, Bootstrap() returns what
\* ListenAndServe() has returned.
THEOREM ServeErrorCorrect == ApiSpec => []ServeErrorReturned
  <1>1. ServiceInv => ServeErrorReturned
    BY DEF ServiceInv, HttpInv, TypeOK, OwnEnd, ServeErrorReturned
  <1> QED
    BY <1>1, ServiceInvariant, PTL

\* No request is left half done by a service that ends without an error of its own.
THEOREM NothingCutOffCorrect == ApiSpec => []NothingCutOff
  <1>1. ServiceInv => NothingCutOff
    BY DEF ServiceInv, HttpInv, Drained, VisitCounted, NothingCutOff
  <1> QED
    BY <1>1, ServiceInvariant, PTL

-----------------------------------------------------------------------------
(* The request. *)

\* The greatest of some statuses is one of them, and there is only one.
LEMMA WorstStatus ==
  ASSUME NEW S \in SUBSET Request!Statuses, S # {}
  PROVE  /\ Request!Max(S) \in S
         /\ \A s \in S : s <= Request!Max(S)
  <1>1. Request!Statuses = {0, 200, 201, 400, 401, 404, 500}
    BY DEF Request!Statuses, Request!Codes, Request!StatusOf
  <1>2. \E x \in S : \A y \in S : x >= y
    <2>1. CASE 500 \in S
      BY <2>1, <1>1
    <2>2. CASE 500 \notin S /\ 404 \in S
      BY <2>2, <1>1
    <2>3. CASE 500 \notin S /\ 404 \notin S /\ 401 \in S
      BY <2>3, <1>1
    <2>4. CASE 500 \notin S /\ 404 \notin S /\ 401 \notin S /\ 400 \in S
      BY <2>4, <1>1
    <2>5. CASE S \subseteq {0, 200, 201} /\ 201 \in S
      BY <2>5
    <2>6. CASE S \subseteq {0, 200} /\ 200 \in S
      BY <2>6
    <2>7. CASE S \subseteq {0}
      <3>1. 0 \in S
        BY <2>7
      <3> QED
        BY <2>7, <3>1
    <2> QED
      BY <1>1, <2>1, <2>2, <2>3, <2>4, <2>5, <2>6, <2>7
  <1>3. Request!Max(S) \in S /\ \A y \in S : Request!Max(S) >= y
    BY <1>2 DEF Request!Max
  <1>4. \A s \in S : s \in Int
    BY <1>1
  <1> QED
    BY <1>3, <1>4

\* How many errors a request can have: one of the request log, one of each port that
\* is bad, one that ends the handler, and one of saving the others.
ErrorsBounded ==
  /\ pc = "arrive" => errors = <<>>
  /\ pc \in {"auth", "handler"} => Len(errors) <= 1
  /\ pc = "ports" => Len(errors) + left <= MaxPorts + 1
  /\ pc = "jobs" => Len(errors) <= MaxPorts + 1
  /\ pc = "save" => left <= Len(errors)

\* Before respondApiErrors() the status is that of the request log, which is 200 just
\* when no error was made there; the arguments of respondJSON() are set once, and are
\* data and a status of success unless there is an error.
BeforeAnswer ==
  /\ pc = "ports" => left > 0 \/ good \/ errors # <<>>
  /\ pc \notin {"update", "end"} => status \in {0, 200} /\ sent = None
  /\ pc \notin {"arrive", "update", "end"} => (errors = <<>> => status = 200)
  /\ pc \notin {"save", "update", "end"} => want = None
  /\ pc = "save" =>
       /\ want \in [status : {0, 200, 201}, data : BOOLEAN]
       /\ errors = <<>> => want.data /\ want.status # 0

\* The errors saveErrors() has passed are recorded, unless it was ended by one.
SavedSoFar ==
  pc = "save" => \/ \A i \in DOMAIN errors : i \in recorded \/ i > Len(errors) - left
                 \/ left = 0 /\ errors # <<>> /\ errors[Len(errors)] = "sql"

\* Without a failing statement the request has a row in the log from its arrival on.
LoggedSoFar ==
  ~failed => /\ pc \in {"auth", "handler"} => status = 200
             /\ pc \notin {"arrive", "end"} => row = 0
             /\ pc = "update" => status = IF route = "test" /\ want = None THEN 200
                                          ELSE sent.status

RequestInv ==
  /\ Request!TypeOK
  /\ ErrorsBounded /\ BeforeAnswer /\ SavedSoFar /\ LoggedSoFar
  /\ Request!AnswerMatchesErrors /\ Request!AnswerOnRecord

LEMMA RequestInit == Request!Init => RequestInv
  <1> SUFFICES ASSUME Request!Init PROVE RequestInv
    OBVIOUS
  <1>1. 0 \in Request!Statuses /\ 0 \in 0..MaxPorts + 3
    BY ApiConfig DEF Request!Statuses
  <1>2. errors \in Seq(Request!Codes) /\ recorded \subseteq DOMAIN errors
    BY DEF Request!Init
  <1>3. Request!TypeOK
    BY <1>1, <1>2 DEF Request!Init, Request!TypeOK
  <1> QED
    BY <1>3, ApiConfig, ApiNone
    DEF Request!Init, RequestInv, ErrorsBounded, BeforeAnswer, SavedSoFar, LoggedSoFar,
        Request!AnswerMatchesErrors, Request!AnswerOnRecord

\* The error appended to some is the last of them, and the others stay where they are.
LEMMA OneMoreError ==
  ASSUME errors \in Seq(Request!Codes), NEW c \in Request!Codes
  PROVE  LET more == Append(errors, c)
         IN  /\ more \in Seq(Request!Codes) /\ more # <<>>
             /\ Len(more) = Len(errors) + 1 /\ Len(errors) \in Nat
             /\ DOMAIN errors \subseteq DOMAIN more
             /\ more[Len(more)] = c
  OBVIOUS

LEMMA RespondKeeps ==
  ASSUME RequestInv, pc \in {"auth", "handler", "ports", "jobs"},
         NEW c \in Request!Codes \cup {None},
         NEW data \in BOOLEAN, NEW s \in {0, 200, 201},
         Request!Respond(c, data, s),
         c # None => pc # "ports",
         c = None => errors # <<>> \/ (data /\ s # 0)
  PROVE  RequestInv'
  <1> USE DEF Request!Respond, Request!handling, Request!answer
  <1>0. /\ errors \in Seq(Request!Codes) /\ Len(errors) \in Nat
        /\ Len(errors) <= MaxPorts + 1 /\ left \in 0..MaxPorts + 3
    BY ApiConfig DEF RequestInv, Request!TypeOK, ErrorsBounded
  <1>1. /\ errors' \in Seq(Request!Codes)
        /\ Len(errors') \in Nat /\ Len(errors') <= MaxPorts + 2
        /\ DOMAIN errors \subseteq DOMAIN errors'
        /\ errors' = <<>> => errors = <<>> /\ c = None
    BY <1>0, OneMoreError, ApiConfig
  <1>2. want' \in [status : {0, 200, 201}, data : BOOLEAN]
    OBVIOUS
  <1>3. Request!TypeOK'
    BY <1>0, <1>1, <1>2, ApiConfig DEF RequestInv, Request!TypeOK
  <1>4. ErrorsBounded' /\ SavedSoFar'
    BY <1>0, <1>1 DEF ErrorsBounded, SavedSoFar
  <1>5. BeforeAnswer'
    BY <1>1, <1>2 DEF RequestInv, BeforeAnswer
  <1>6. LoggedSoFar' /\ Request!AnswerMatchesErrors' /\ Request!AnswerOnRecord'
    BY DEF RequestInv, BeforeAnswer, LoggedSoFar, Request!AnswerMatchesErrors,
           Request!AnswerOnRecord
  <1> QED
    BY <1>3, <1>4, <1>5, <1>6 DEF RequestInv

LEMMA ArriveKeeps == RequestInv /\ Request!CreateAndSave => RequestInv'
  <1> SUFFICES ASSUME RequestInv, Request!CreateAndSave PROVE RequestInv'
    OBVIOUS
  <1> USE DEF Request!CreateAndSave, Request!handling, Request!answer
  <1>0. 0 \in Request!Statuses /\ 200 \in Request!Statuses /\ "common" \in Request!Codes
    BY DEF Request!Statuses, Request!Codes, Request!StatusOf
  <1>1. PICK executed, reported \in BOOLEAN :
          /\ Request!Statement(executed, reported)
          /\ row' = IF executed THEN 0 ELSE None
          /\ status' = IF reported THEN 200 ELSE 0
          /\ errors' = IF reported THEN <<>> ELSE <<"common">>
    OBVIOUS
  <1>2. /\ errors' \in Seq(Request!Codes) /\ Len(errors') <= 1
        /\ errors' = <<>> <=> reported
        /\ DOMAIN errors = {}
    BY <1>0, <1>1 DEF RequestInv, ErrorsBounded
  <1>3. failed' \in BOOLEAN /\ (~failed' => ~failed /\ reported /\ executed)
    BY <1>1 DEF RequestInv, Request!TypeOK, Request!Statement
  <1>4. Request!TypeOK'
    BY <1>0, <1>1, <1>2, <1>3 DEF RequestInv, Request!TypeOK
  <1>5. ErrorsBounded' /\ SavedSoFar'
    BY <1>2 DEF ErrorsBounded, SavedSoFar
  <1>6. BeforeAnswer'
    BY <1>1, <1>2 DEF RequestInv, BeforeAnswer
  <1>7. LoggedSoFar'
    BY <1>1, <1>3 DEF LoggedSoFar
  <1>8. Request!AnswerMatchesErrors' /\ Request!AnswerOnRecord'
    BY DEF RequestInv, BeforeAnswer, Request!AnswerMatchesErrors, Request!AnswerOnRecord
  <1> QED
    BY <1>4, <1>5, <1>6, <1>7, <1>8 DEF RequestInv

LEMMA PanicKeeps ==
  RequestInv /\ pc \in {"auth", "handler"} /\ Request!Panic => RequestInv'
  BY DEF Request!Panic, Request!handling, Request!answer, RequestInv, Request!TypeOK,
         ErrorsBounded, BeforeAnswer, SavedSoFar, LoggedSoFar,
         Request!AnswerMatchesErrors, Request!AnswerOnRecord

LEMMA AuthenticateKeeps == RequestInv /\ Request!Authenticate => RequestInv'
  <1> SUFFICES ASSUME RequestInv, Request!Authenticate PROVE RequestInv'
    OBVIOUS
  <1>1. pc = "auth"
    BY DEF Request!Authenticate
  <1>2. CASE \E c \in {"common", "notAuthorized"} : Request!Respond(c, FALSE, 0)
    <2>1. PICK c \in {"common", "notAuthorized"} : Request!Respond(c, FALSE, 0)
      BY <1>2
    <2>2. c \in Request!Codes /\ c # None
      BY ApiNone DEF Request!Codes, Request!StatusOf
    <2> QED
      BY <1>1, <2>1, <2>2, RespondKeeps
  <1>3. CASE Request!Panic
    BY <1>1, <1>3, PanicKeeps
  <1>4. CASE Request!Goto("handler")
    BY <1>1, <1>4
    DEF Request!Goto, Request!handling, Request!answer, RequestInv, Request!TypeOK,
        ErrorsBounded, BeforeAnswer, SavedSoFar, LoggedSoFar,
        Request!AnswerMatchesErrors, Request!AnswerOnRecord
  <1> QED
    BY <1>2, <1>3, <1>4 DEF Request!Authenticate

\* The errors a handler ends a request with are codes, and None is not one.
LEMMA HandlerCodes ==
  /\ {"common", "sql", "notAuthorized", "badRequest", "notFound"} = Request!Codes
  /\ None \notin Request!Codes
  BY ApiNone DEF Request!Codes, Request!StatusOf

LEMMA AnswerKeeps ==
  ASSUME RequestInv, pc \in {"handler", "jobs"},
         NEW s \in {200, 201}, Request!Respond(None, TRUE, s)
  PROVE  RequestInv'
  <1>1. /\ TRUE \in BOOLEAN /\ s \in {0, 200, 201} /\ s # 0
        /\ None \in Request!Codes \cup {None}
    OBVIOUS
  <1> QED
    BY <1>1, RespondKeeps

LEMMA JobGetKeeps == RequestInv /\ Request!JobGet => RequestInv'
  <1> SUFFICES ASSUME RequestInv, Request!JobGet PROVE RequestInv'
    OBVIOUS
  <1>1. pc = "handler"
    BY DEF Request!JobGet
  <1>2. CASE Request!Respond("notFound", FALSE, 0)
    <2>1. "notFound" \in Request!Codes /\ "notFound" # None
      BY HandlerCodes
    <2> QED
      BY <1>1, <1>2, <2>1, RespondKeeps
  <1>3. CASE Request!Respond("sql", FALSE, 0)
    <2>1. "sql" \in Request!Codes /\ "sql" # None
      BY HandlerCodes
    <2> QED
      BY <1>1, <1>3, <2>1, RespondKeeps
  <1>4. CASE Request!Respond(None, TRUE, 200)
    BY <1>1, <1>4, AnswerKeeps
  <1> QED
    BY <1>2, <1>3, <1>4 DEF Request!JobGet

LEMMA HostPostKeeps == RequestInv /\ Request!HostPost => RequestInv'
  <1> SUFFICES ASSUME RequestInv, Request!HostPost PROVE RequestInv'
    OBVIOUS
  <1>1. pc = "handler"
    BY DEF Request!HostPost
  <1>2. ASSUME NEW c \in {"common", "badRequest", "sql"}, Request!Respond(c, FALSE, 0)
        PROVE  RequestInv'
    <2>1. c \in Request!Codes /\ c # None
      BY HandlerCodes
    <2> QED
      BY <1>1, <1>2, <2>1, RespondKeeps
  <1>3. CASE Request!Panic
    BY <1>1, <1>3, PanicKeeps
  <1>4. CASE /\ left' \in 1 .. MaxPorts
             /\ pc' = "ports"
             /\ UNCHANGED <<route, status, errors, good, Request!answer, row, recorded, failed>>
    <2> USE <1>4 DEF Request!answer
    <2>1. errors \in Seq(Request!Codes) /\ Len(errors) \in Nat /\ Len(errors) <= 1
      BY <1>1 DEF RequestInv, Request!TypeOK, ErrorsBounded
    <2>2. left' \in Nat /\ left' > 0 /\ left' <= MaxPorts /\ left' \in 0..MaxPorts + 3
      BY ApiConfig
    <2>3. Request!TypeOK'
      BY <2>2 DEF RequestInv, Request!TypeOK
    <2>4. ErrorsBounded' /\ SavedSoFar'
      BY <2>1, <2>2, ApiConfig DEF ErrorsBounded, SavedSoFar
    <2>5. BeforeAnswer' /\ LoggedSoFar'
      BY <1>1, <2>2 DEF RequestInv, BeforeAnswer, LoggedSoFar
    <2>6. Request!AnswerMatchesErrors' /\ Request!AnswerOnRecord'
      BY <1>1 DEF RequestInv, Request!AnswerMatchesErrors, Request!AnswerOnRecord
    <2> QED
      BY <2>3, <2>4, <2>5, <2>6 DEF RequestInv
  <1> QED
    BY <1>2, <1>3, <1>4 DEF Request!HostPost

LEMMA PortKeeps == RequestInv /\ Request!Port => RequestInv'
  <1> SUFFICES ASSUME RequestInv, Request!Port PROVE RequestInv'
    OBVIOUS
  <1> USE DEF Request!Port, Request!answer
  <1>1. /\ errors \in Seq(Request!Codes) /\ Len(errors) \in Nat
        /\ left \in Nat /\ left > 0 /\ left <= MaxPorts + 3
        /\ Len(errors) + left <= MaxPorts + 1
        /\ left' = left - 1
    BY ApiConfig DEF RequestInv, Request!TypeOK, ErrorsBounded
  <1>2. /\ errors' \in Seq(Request!Codes)
        /\ Len(errors') \in Nat /\ Len(errors') <= Len(errors) + 1
        /\ DOMAIN errors \subseteq DOMAIN errors'
        /\ errors' = <<>> => errors = <<>>
        /\ good' \in BOOLEAN
        /\ good' \/ errors' # <<>>
    <2>1. CASE good' = TRUE /\ UNCHANGED errors
      BY <1>1, <2>1
    <2>2. CASE /\ \E c \in {"badRequest", "sql"} : errors' = Append(errors, c)
               /\ UNCHANGED good
      <3>1. PICK c \in Request!Codes : errors' = Append(errors, c)
        BY <2>2, HandlerCodes
      <3> QED
        BY <1>1, <2>2, <3>1, OneMoreError DEF RequestInv, Request!TypeOK
    <2> QED
      BY <2>1, <2>2
  <1>3. Request!TypeOK'
    BY <1>1, <1>2, ApiConfig DEF RequestInv, Request!TypeOK
  <1>4. ErrorsBounded' /\ SavedSoFar'
    BY <1>1, <1>2, ApiConfig DEF ErrorsBounded, SavedSoFar
  <1>5. BeforeAnswer' /\ LoggedSoFar'
    BY <1>2 DEF RequestInv, BeforeAnswer, LoggedSoFar
  <1>6. Request!AnswerMatchesErrors' /\ Request!AnswerOnRecord'
    BY DEF RequestInv, BeforeAnswer, Request!AnswerMatchesErrors, Request!AnswerOnRecord
  <1> QED
    BY <1>3, <1>4, <1>5, <1>6 DEF RequestInv

LEMMA PortsDoneKeeps == RequestInv /\ Request!PortsDone => RequestInv'
  <1> SUFFICES ASSUME RequestInv, Request!PortsDone PROVE RequestInv'
    OBVIOUS
  <1>1. pc = "ports" /\ left = 0
    BY DEF Request!PortsDone
  <1>2. CASE good
    <2> USE <1>2 DEF Request!PortsDone, Request!Goto, Request!handling, Request!answer
    <2>1. Request!TypeOK'
      BY <1>1 DEF RequestInv, Request!TypeOK
    <2>2. ErrorsBounded' /\ SavedSoFar'
      BY <1>1, ApiConfig DEF RequestInv, Request!TypeOK, ErrorsBounded, SavedSoFar
    <2>3. BeforeAnswer' /\ LoggedSoFar'
      BY <1>1 DEF RequestInv, BeforeAnswer, LoggedSoFar
    <2>4. Request!AnswerMatchesErrors' /\ Request!AnswerOnRecord'
      BY <1>1 DEF RequestInv, Request!AnswerMatchesErrors, Request!AnswerOnRecord
    <2> QED
      BY <2>1, <2>2, <2>3, <2>4 DEF RequestInv
  <1>3. CASE ~good
    <2>1. errors # <<>>
      BY <1>1, <1>3 DEF RequestInv, BeforeAnswer
    <2>2. Request!Respond(None, FALSE, 0)
      BY <1>3 DEF Request!PortsDone
    <2>3. FALSE \in BOOLEAN /\ 0 \in {0, 200, 201} /\ None \in Request!Codes \cup {None}
      OBVIOUS
    <2> QED
      BY <1>1, <2>1, <2>2, <2>3, RespondKeeps
  <1> QED
    BY <1>2, <1>3

LEMMA MakeJobsKeeps == RequestInv /\ Request!MakeJobs => RequestInv'
  <1> SUFFICES ASSUME RequestInv, Request!MakeJobs PROVE RequestInv'
    OBVIOUS
  <1>1. pc = "jobs"
    BY DEF Request!MakeJobs
  <1>2. CASE Request!Respond(None, TRUE, 201)
    BY <1>1, <1>2, AnswerKeeps
  <1>3. CASE Request!Respond("common", FALSE, 0)
    <2>1. "common" \in Request!Codes /\ "common" # None
      BY HandlerCodes
    <2> QED
      BY <1>1, <1>3, <2>1, RespondKeeps
  <1> QED
    BY <1>2, <1>3 DEF Request!MakeJobs

LEMMA EmptyAnswerKeeps == RequestInv /\ Request!EmptyAnswer => RequestInv'
  <1> SUFFICES ASSUME RequestInv, Request!EmptyAnswer PROVE RequestInv'
    OBVIOUS
  <1> USE DEF Request!EmptyAnswer, Request!handling
  <1>1. 200 \in Request!Statuses \ {0} /\ <<>> \in Seq(Request!Codes)
    BY DEF Request!Statuses
  <1>2. Request!TypeOK'
    BY <1>1 DEF RequestInv, Request!TypeOK
  <1>3. ErrorsBounded' /\ SavedSoFar' /\ BeforeAnswer'
    BY DEF ErrorsBounded, SavedSoFar, BeforeAnswer
  <1>4. LoggedSoFar' /\ Request!AnswerMatchesErrors'
    BY DEF RequestInv, BeforeAnswer, LoggedSoFar, Request!AnswerMatchesErrors
  <1>5. Request!AnswerOnRecord'
    BY DEF Request!AnswerOnRecord
  <1> QED
    BY <1>2, <1>3, <1>4, <1>5 DEF RequestInv

LEMMA TestAnswerKeeps == RequestInv /\ Request!TestAnswer => RequestInv'
  <1> SUFFICES ASSUME RequestInv, Request!TestAnswer PROVE RequestInv'
    OBVIOUS
  <1> USE DEF Request!TestAnswer, Request!handling
  <1>1. 500 \in Request!Statuses \ {0} /\ <<>> \in Seq(Request!Codes)
    BY DEF Request!Statuses, Request!Codes, Request!StatusOf
  <1>2. Request!TypeOK'
    BY <1>1 DEF RequestInv, Request!TypeOK
  <1>3. ErrorsBounded' /\ SavedSoFar' /\ BeforeAnswer'
    BY DEF ErrorsBounded, SavedSoFar, BeforeAnswer
  <1>4. LoggedSoFar' /\ Request!AnswerMatchesErrors'
    BY DEF RequestInv, BeforeAnswer, LoggedSoFar, Request!AnswerMatchesErrors
  <1>5. Request!AnswerOnRecord'
    BY DEF Request!AnswerOnRecord
  <1> QED
    BY <1>2, <1>3, <1>4, <1>5 DEF RequestInv

LEMMA SaveErrorKeeps == RequestInv /\ Request!SaveError => RequestInv'
  <1> SUFFICES ASSUME RequestInv, Request!SaveError PROVE RequestInv'
    OBVIOUS
  <1> DEFINE i == Len(errors) - left + 1
  <1>1. /\ errors \in Seq(Request!Codes) /\ Len(errors) \in Nat
        /\ left \in Nat /\ left > 0 /\ left <= Len(errors) /\ left <= MaxPorts + 3
        /\ pc = "save" /\ errors # <<>>
        /\ i \in DOMAIN errors
    BY ApiConfig DEF Request!SaveError, RequestInv, Request!TypeOK, ErrorsBounded
  <1>2. PICK executed, reported \in BOOLEAN :
          /\ IF row = None THEN ~executed /\ ~reported /\ failed' = TRUE
                           ELSE Request!Statement(executed, reported)
          /\ recorded' = IF executed THEN recorded \cup {i} ELSE recorded
          /\ IF reported THEN left' = left - 1 /\ UNCHANGED errors
                         ELSE left' = 0 /\ errors' = Append(errors, "sql")
    BY DEF Request!SaveError
  <1>3. /\ failed' \in BOOLEAN /\ (~failed' => ~failed)
        /\ reported => executed
    BY <1>2 DEF RequestInv, Request!TypeOK, Request!Statement
  <1>4. /\ errors' \in Seq(Request!Codes) /\ errors' # <<>>
        /\ Len(errors') \in Nat /\ left' \in Nat
        /\ left' <= Len(errors') /\ left' <= MaxPorts + 3
        /\ DOMAIN errors \subseteq DOMAIN errors'
        /\ ~reported => left' = 0 /\ errors'[Len(errors')] = "sql"
    <2>1. CASE reported
      BY <1>1, <1>2, <2>1, ApiConfig
    <2>2. CASE ~reported
      <3>1. "sql" \in Request!Codes
        BY HandlerCodes
      <3>2. errors' = Append(errors, "sql") /\ left' = 0
        BY <1>2, <2>2
      <3> QED
        BY <1>1, <2>2, <3>1, <3>2, OneMoreError, ApiConfig
    <2> QED
      BY <2>1, <2>2
  <1>5. recorded \subseteq recorded' /\ recorded' \subseteq DOMAIN errors'
    BY <1>1, <1>2, <1>4 DEF RequestInv, Request!TypeOK
  <1> USE DEF Request!SaveError, Request!answer
  <1>6. Request!TypeOK'
    BY <1>3, <1>4, <1>5, ApiConfig DEF RequestInv, Request!TypeOK
  <1>7. ErrorsBounded' /\ BeforeAnswer' /\ LoggedSoFar'
    BY <1>1, <1>3, <1>4 DEF RequestInv, ErrorsBounded, BeforeAnswer, LoggedSoFar
  <1>8. SavedSoFar'
    <2>1. CASE reported
      <3>1. \A k \in DOMAIN errors : k \in recorded \/ k > Len(errors) - left
        BY <1>1 DEF RequestInv, SavedSoFar
      <3>2. /\ errors' = errors /\ left' = left - 1 /\ recorded' = recorded \cup {i}
            /\ DOMAIN errors \subseteq Nat
        BY <1>1, <1>2, <1>3, <2>1
      <3>3. ASSUME NEW k \in DOMAIN errors PROVE k \in recorded' \/ k > Len(errors) - left'
        BY <1>1, <3>1, <3>2, <3>3
      <3> QED
        BY <3>2, <3>3 DEF SavedSoFar
    <2>2. CASE ~reported
      BY <1>4, <2>2 DEF SavedSoFar
    <2> QED
      BY <2>1, <2>2
  <1>9. Request!AnswerMatchesErrors' /\ Request!AnswerOnRecord'
    BY <1>1, <1>3 DEF RequestInv, BeforeAnswer, Request!AnswerMatchesErrors,
                      Request!AnswerOnRecord
  <1> QED
    BY <1>6, <1>7, <1>8, <1>9 DEF RequestInv

\* An error is worse than any status without one.
LEMMA ErrorsAreWorse ==
  ASSUME NEW s \in {0, 200}, NEW E \in SUBSET {x \in Request!Statuses : x >= 400},
         E # {}
  PROVE  /\ Request!Max({s} \cup E) = Request!Max(E)
         /\ Request!Max(E) \in E
  <1>1. 0 \in Request!Statuses /\ 200 \in Request!Statuses /\ Request!Statuses \subseteq Nat
    BY DEF Request!Statuses, Request!Codes, Request!StatusOf
  <1>2. /\ Request!Max(E) \in E
        /\ \A x \in E : x <= Request!Max(E)
    BY WorstStatus
  <1>3. /\ Request!Max({s} \cup E) \in {s} \cup E
        /\ \A x \in {s} \cup E : x <= Request!Max({s} \cup E)
    BY <1>1, WorstStatus
  <1>4. \A x \in E : x \in Nat /\ x >= 400
    BY <1>1
  <1>5. Request!Max({s} \cup E) \in E
    BY <1>2, <1>3, <1>4
  <1> QED
    BY <1>2, <1>3, <1>4, <1>5

\* What respondApiErrors() chooses: without an error the status of the handler and its
\* data, with errors the status of the worst and no data.
LEMMA WorstWins ==
  ASSUME RequestInv, pc = "save", left = 0,
         NEW worst, worst = Request!Max({status} \cup
                              {Request!StatusOf[errors[i]] : i \in DOMAIN errors})
  PROVE  /\ want.status \in {0, 200, 201} /\ want.data \in BOOLEAN
         /\ errors = <<>> => want.data /\ want.status # 0 /\ ~(worst > want.status)
         /\ errors # <<>> =>
              /\ worst > want.status
              /\ worst \in Request!Statuses \ {0}
              /\ worst = Request!Max({Request!StatusOf[errors[i]] : i \in DOMAIN errors})
  <1> DEFINE E == {Request!StatusOf[errors[i]] : i \in DOMAIN errors}
  <1>1. /\ want \in [status : {0, 200, 201}, data : BOOLEAN]
        /\ want.status \in {0, 200, 201} /\ want.data \in BOOLEAN
        /\ status \in {0, 200}
        /\ errors = <<>> => want.data /\ want.status # 0 /\ status = 200
        /\ errors \in Seq(Request!Codes)
    BY DEF RequestInv, Request!TypeOK, BeforeAnswer
  <1>2. \A c \in Request!Codes : /\ Request!StatusOf[c] \in Request!Statuses
                                 /\ Request!StatusOf[c] >= 400
    BY DEF Request!Statuses, Request!Codes, Request!StatusOf
  <1>3. CASE errors = <<>>
    <2>1. E = {}
      BY <1>3
    <2>2. status = 200 /\ 200 \in Request!Statuses
      BY <1>1, <1>3 DEF Request!Statuses
    <2>3. {status} \cup E = {200} /\ {200} \in SUBSET Request!Statuses
      BY <2>1, <2>2
    <2>4. worst = 200
      BY <2>3, WorstStatus
    <2> QED
      BY <1>1, <1>3, <2>4
  <1>4. CASE errors # <<>>
    <2>1. \A i \in DOMAIN errors : errors[i] \in Request!Codes
      BY <1>1
    <2>2. E \in SUBSET {x \in Request!Statuses : x >= 400}
      BY <1>2, <2>1
    <2>3. E # {}
      <3>1. 1 \in DOMAIN errors
        BY <1>1, <1>4
      <3> QED
        BY <3>1
    <2> HIDE DEF E
    <2>4. Request!Max({status} \cup E) = Request!Max(E) /\ Request!Max(E) \in E
      BY <1>1, <2>2, <2>3, ErrorsAreWorse
    <2>5. worst = Request!Max(E) /\ worst \in Request!Statuses /\ worst >= 400
      BY <2>2, <2>4 DEF E
    <2>6. Request!Statuses \subseteq Nat
      BY DEF Request!Statuses, Request!Codes, Request!StatusOf
    <2> QED
      BY <1>1, <1>4, <2>5, <2>6 DEF E
  <1> QED
    BY <1>3, <1>4

LEMMA RespondErrorsKeeps == RequestInv /\ Request!RespondErrors => RequestInv'
  <1> SUFFICES ASSUME RequestInv, Request!RespondErrors PROVE RequestInv'
    OBVIOUS
  <1> DEFINE worst == Request!Max({status} \cup
                        {Request!StatusOf[errors[i]] : i \in DOMAIN errors})
             wins  == worst > want.status
  <1>1. /\ pc = "save" /\ left = 0 /\ pc' = "update"
        /\ status' = IF wins THEN worst ELSE want.status
        /\ sent' = [status |-> status', data |-> want.data /\ ~wins, errors |-> errors]
        /\ UNCHANGED <<route, errors, left, good, want, row, recorded, failed>>
    BY DEF Request!RespondErrors, Request!handling
  <1>2. /\ want.status \in {0, 200, 201} /\ want.data \in BOOLEAN
        /\ errors = <<>> => ~wins /\ want.data /\ want.status # 0
        /\ errors # <<>> =>
             /\ wins
             /\ worst \in Request!Statuses \ {0}
             /\ worst = Request!Max({Request!StatusOf[errors[i]] : i \in DOMAIN errors})
    BY <1>1, WorstWins, Zenon
  <1> HIDE DEF worst, wins
  <1>3. /\ status' \in Request!Statuses \ {0}
        /\ sent'.status = status' /\ sent'.errors = errors
        /\ sent'.data = (want.data /\ ~wins)
    BY <1>1, <1>2 DEF Request!Statuses
  <1>4. sent' \in [status : Request!Statuses \ {0}, data : BOOLEAN,
                   errors : Seq(Request!Codes)]
    BY <1>1, <1>2, <1>3 DEF RequestInv, Request!TypeOK
  <1>5. Request!TypeOK'
    BY <1>1, <1>3, <1>4 DEF RequestInv, Request!TypeOK
  <1>6. ErrorsBounded' /\ BeforeAnswer' /\ SavedSoFar'
    BY <1>1 DEF ErrorsBounded, BeforeAnswer, SavedSoFar
  <1>7. LoggedSoFar'
    <2>1. want # None
      BY <1>1, ApiNone DEF RequestInv, BeforeAnswer
    <2> QED
      BY <1>1, <1>3, <2>1 DEF RequestInv, LoggedSoFar
  <1>8. Request!AnswerMatchesErrors'
    <2>1. sent'.data <=> sent'.errors = <<>>
      BY <1>2, <1>3
    <2>2. sent'.status = IF sent'.data THEN want.status
            ELSE Request!Max({Request!StatusOf[sent'.errors[i]] : i \in DOMAIN sent'.errors})
      <3>1. CASE errors = <<>>
        BY <1>1, <1>2, <1>3, <3>1
      <3>2. CASE errors # <<>>
        <4>1. ~sent'.data /\ sent'.status = worst
          BY <1>1, <1>2, <1>3, <3>2
        <4>2. worst = Request!Max({Request!StatusOf[errors[i]] : i \in DOMAIN errors})
          BY <1>2, <3>2
        <4>3. worst = Request!Max({Request!StatusOf[sent'.errors[i]] :
                                     i \in DOMAIN sent'.errors})
          BY <1>3, <4>2
        <4> QED
          BY <4>1, <4>3
      <3> QED
        BY <3>1, <3>2
    <2> QED
      BY <1>1, <2>1, <2>2 DEF Request!AnswerMatchesErrors
  <1>9. Request!AnswerOnRecord'
    <2>1. Len(errors) \in Nat /\ errors \in Seq(Request!Codes)
      BY DEF RequestInv, Request!TypeOK
    <2>2. \A i \in DOMAIN errors : i \in recorded \/ errors[Len(errors)] = "sql"
      BY <1>1, <2>1 DEF RequestInv, SavedSoFar
    <2> QED
      BY <1>1, <1>3, <2>2 DEF Request!AnswerOnRecord
  <1> QED
    BY <1>5, <1>6, <1>7, <1>8, <1>9 DEF RequestInv

LEMMA UpdateKeeps == RequestInv /\ Request!UpdateAndSave => RequestInv'
  <1> SUFFICES ASSUME RequestInv, Request!UpdateAndSave PROVE RequestInv'
    OBVIOUS
  <1> USE DEF Request!UpdateAndSave, Request!handling, Request!answer
  <1>1. PICK executed, reported \in BOOLEAN :
          /\ Request!Statement(executed, reported)
          /\ row' = IF executed /\ row # None THEN status ELSE row
    OBVIOUS
  <1>2. failed' \in BOOLEAN /\ (~failed' => ~failed /\ executed)
    BY <1>1 DEF RequestInv, Request!TypeOK, Request!Statement
  <1>3. Request!TypeOK'
    BY <1>1, <1>2 DEF RequestInv, Request!TypeOK
  <1>4. ErrorsBounded' /\ BeforeAnswer' /\ SavedSoFar' /\ LoggedSoFar'
    BY DEF ErrorsBounded, BeforeAnswer, SavedSoFar, LoggedSoFar
  <1>5. Request!AnswerMatchesErrors' /\ Request!AnswerOnRecord'
    BY <1>1, <1>2, ApiNone DEF RequestInv, LoggedSoFar, Request!AnswerMatchesErrors,
                               Request!AnswerOnRecord
  <1> QED
    BY <1>3, <1>4, <1>5 DEF RequestInv

LEMMA RequestStep == RequestInv /\ (Request!Next \/ UNCHANGED request) => RequestInv'
  <1>1. RequestInv /\ UNCHANGED request => RequestInv'
    BY DEF request, RequestInv, Request!TypeOK, ErrorsBounded, BeforeAnswer, SavedSoFar,
           LoggedSoFar, Request!AnswerMatchesErrors, Request!AnswerOnRecord
  <1> QED
    BY <1>1, ArriveKeeps, AuthenticateKeeps, EmptyAnswerKeeps, TestAnswerKeeps, JobGetKeeps,
       HostPostKeeps, PortKeeps, PortsDoneKeeps, MakeJobsKeeps, SaveErrorKeeps, RespondErrorsKeeps,
       UpdateKeeps
    DEF Request!Next

\* Only the steps of its own goroutine change the request, whatever the service does.
LEMMA RequestInvariant == ApiSpec => []RequestInv
  <1>1. ApiInit => RequestInv
    BY RequestInit DEF ApiInit
  <1>2. [ApiNext]_apiVars => Request!Next \/ UNCHANGED request
    BY DEF ApiNext, apiVars, Arrive, Handle, Leave, Other, Aside
  <1> QED
    BY <1>1, <1>2, RequestStep, PTL DEF ApiSpec

\* For any number of ports and connections an answer of respondJSON() has either data
\* or errors, and the status of the worst of them.
THEOREM AnswerMatchesErrorsCorrect == ApiSpec => []AnswerMatchesErrors
  <1>1. RequestInv => AnswerMatchesErrors
    BY DEF RequestInv, AnswerMatchesErrors
  <1> QED
    BY <1>1, RequestInvariant, PTL

\* What a client was told is what the tables errors and requests keep.
THEOREM AnswerOnRecordCorrect == ApiSpec => []AnswerOnRecord
  <1>1. RequestInv => AnswerOnRecord
    BY DEF RequestInv, AnswerOnRecord
  <1> QED
    BY <1>1, RequestInvariant, PTL

\* The service and its request keep their types, and an open request is one of the
\* connections counted.
THEOREM ApiTypeCorrect == ApiSpec => []ApiTypeOK
  <1>1. ServiceInv /\ RequestInv => ApiTypeOK
    BY DEF ServiceInv, HttpInv, VisitCounted, RequestInv, ApiTypeOK
  <1> QED
    BY <1>1, ServiceInvariant, RequestInvariant, PTL
=============================================================================
