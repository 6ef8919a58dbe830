----------------------------- MODULE ApiService -----------------------------
(***************************************************************************)
(* A request of the API while the http service comes up, fails or is taken *)
(* down: ApiRequest.tla inside of HttpService.tla.  One of the connections *)
(* the server accepts carries the request that ApiRequest follows from its *)
(* arrival to its end; the others are only counted.  A panic that no one   *)
(* recovers takes the request with it wherever it is.                      *)
(***************************************************************************)
EXTENDS HttpService

CONSTANTS
  MaxPorts,  (* bound: ports of a POST /v1/host                            *)
  Faults     (* what may go wrong with a statement, see ApiRequest         *)

ASSUME ApiConfig ==
  /\ MaxPorts \in Nat \ {0}
  /\ Faults \subseteq {"dbfault", "lost"}

VARIABLES
  route, pc, status, errors, left, good, want, sent, row, recorded, failed,
  visit      (* the request has not come, is "open" or is "over"           *)

Request == INSTANCE ApiRequest

ASSUME ApiNone ==
  None \notin Nat \cup Request!Codes \cup [status : {0, 200, 201}, data : BOOLEAN]

request == <<route, pc, status, errors, left, good, want, sent, row, recorded, failed>>
apiVars == <<vars, request, visit>>

ApiTypeOK ==
  /\ TypeOK /\ Request!TypeOK
  /\ visit \in {"none", "open", "over"}
  /\ visit = "open" => conns > 0

ApiInit == Init /\ Request!Init /\ visit = "none"

Arrive ==
  /\ visit = "none" /\ Accept
  /\ visit' = "open"
  /\ UNCHANGED request

Handle ==
  /\ visit = "open" /\ Request!Next
  /\ UNCHANGED <<vars, visit>>

\* net/http closes the connection when the handler has returned or panicked.
Leave ==
  /\ visit = "open" /\ pc \in {"end", "panic"} /\ Answered
  /\ visit' = "over"
  /\ UNCHANGED request

\* Everything else the service does, for other connections too.
Aside == UNCHANGED <<request, visit>>
Other == Next /\ (visit = "open" => conns' > 0) /\ Aside

ApiNext == (crash = None /\ (Arrive \/ Handle \/ Leave)) \/ Other

ApiSpec == ApiInit /\ [][ApiNext]_apiVars

\* The goroutines of the service run, and so does that of the request: what it
\* calls returns.
ApiFairSpec ==
  /\ ApiSpec
  /\ WF_apiVars(crash = None /\ Bootstrap /\ Aside)
  /\ WF_apiVars(crash = None /\ (CloseDone \/ ServeClosed) /\ Aside)
  /\ WF_apiVars(crash = None /\ (Handle \/ Leave))

-----------------------------------------------------------------------------
(* Properties. *)

\* What ApiRequest says of a request, whatever becomes of the service meanwhile:
\* its answer agrees with its errors, ...
AnswerMatchesErrors == Request!AnswerMatchesErrors

\* ... and with what the tables errors and requests keep of it.
AnswerOnRecord == Request!AnswerOnRecord

\* A service that ends without an error of its own leaves no request half done:
\* Bootstrap() returns after the last answer, or the process is gone.
NothingCutOff == answer \in {"nil", "closed"} => conns = 0 /\ visit # "open"

=============================================================================
