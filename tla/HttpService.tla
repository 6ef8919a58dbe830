----------------------------- MODULE HttpService -----------------------------
(***************************************************************************)
(* core/http/http.go: Bootstrap() waits until the channel done is closed   *)
(* and shuts the server down; httpServe() serves in a goroutine of its own *)
(* and closes done when it cannot serve; Destruct() closes done from a     *)
(* third goroutine.  The error e is shared by the first two, without a     *)
(* lock.                                                                   *)
(*                                                                         *)
(* net/http is external: Shutdown() closes the listener, whereupon         *)
(* ListenAndServe() returns ErrServerClosed, and then waits for the open   *)
(* connections, for which it looks at its context: here a nil one.         *)
(***************************************************************************)
EXTENDS Naturals

CONSTANTS
  MaxConns,  (* bound: connections the server has had                      *)
  None

ASSUME HttpConfig == MaxConns \in Nat
ASSUME HttpNone   ==
  None \notin {"nil", "serve", "closed", "doneTwice", "nilContext"}

VARIABLES
  boot,      (* where Bootstrap() is                                       *)
  serve,     (* where httpServe() is                                       *)
  done,      (* the channel done is closed                                 *)
  e,         (* the error both of them write                               *)
  answer,    (* what Bootstrap() has returned                              *)
  closing,   (* the server has been told to shut down                      *)
  stop,      (* what Destruct() has done                                   *)
  conns,     (* connections with a request in progress                     *)
  accepted,  (* connections so far                                         *)
  crash      (* a panic no one recovers: the process is gone               *)

server == <<closing, conns, accepted>>
vars   == <<boot, serve, done, e, answer, server, stop, crash>>

Errors == {"nil", "serve", "closed"}

TypeOK ==
  /\ boot \in {"waiting", "closing", "draining", "stored", "returned"}
  /\ serve \in {"listen", "serving", "failed", "returned"}
  /\ done \in BOOLEAN /\ closing \in BOOLEAN /\ (closing => done)
  /\ e \in Errors
  /\ answer \in Errors \cup {None} /\ (answer = None <=> boot # "returned")
  /\ stop \in {"no", "closed", "recovered"}
  /\ conns \in 0..MaxConns /\ accepted \in 0..MaxConns
  /\ crash \in {None, "doneTwice", "nilContext"}

Init ==
  /\ boot = "waiting" /\ serve = "listen"
  /\ done = FALSE /\ e = "nil" /\ answer = None
  /\ closing = FALSE /\ conns = 0 /\ accepted = 0
  /\ stop = "no" /\ crash = None

-----------------------------------------------------------------------------
(* httpServe(). *)

\* A server that is shutting down does not begin to listen.
Listen ==
  /\ serve = "listen" /\ ~closing
  /\ serve' = "serving"
  /\ UNCHANGED <<boot, done, e, answer, server, stop, crash>>

\* The address cannot be bound, or accept() fails for good: the error is stored,
\* and logged, before done is closed.
ServeFails ==
  /\ serve \in {"listen", "serving"} /\ ~closing
  /\ e' = "serve" /\ serve' = "failed"
  /\ UNCHANGED <<boot, done, answer, server, stop, crash>>

\* Mutant of CloseDone: it is left to Destruct() to close done.
CloseDoneNot ==
  /\ serve = "failed"
  /\ serve' = "returned"
  /\ UNCHANGED <<boot, done, e, answer, server, stop, crash>>

CloseDone ==
  /\ serve = "failed"
  /\ IF done THEN crash' = "doneTwice" /\ UNCHANGED done
             ELSE done' = TRUE /\ UNCHANGED crash
  /\ serve' = "returned"
  /\ UNCHANGED <<boot, e, answer, server, stop>>

\* ErrServerClosed is stored too.
ServeClosed ==
  /\ serve \in {"listen", "serving"} /\ closing
  /\ e' = "closed" /\ serve' = "returned"
  /\ UNCHANGED <<boot, done, answer, server, stop, crash>>

-----------------------------------------------------------------------------
(* Bootstrap(). *)

Return(x) == boot' = "returned" /\ answer' = x

\* Mutant of Wake: the error that is there is not looked at.
WakeBlind ==
  /\ boot = "waiting" /\ done
  /\ boot' = "closing"
  /\ UNCHANGED <<serve, done, e, answer, server, stop, crash>>

\* <-done, and the test of e.
Wake ==
  /\ boot = "waiting" /\ done
  /\ IF e = "nil" THEN boot' = "closing" /\ UNCHANGED answer ELSE Return(e)
  /\ UNCHANGED <<serve, done, e, server, stop, crash>>

Shutdown ==
  /\ boot = "closing"
  /\ closing' = TRUE /\ boot' = "draining"
  /\ UNCHANGED <<serve, done, e, answer, conns, accepted, stop, crash>>

\* e = Shutdown(nil): with a request in progress it calls nil.Done().
Drain ==
  /\ boot = "draining"
  /\ IF conns = 0 THEN e' = "nil" /\ boot' = "stored" /\ UNCHANGED crash
                  ELSE crash' = "nilContext" /\ UNCHANGED <<e, boot>>
  /\ UNCHANGED <<serve, done, answer, server, stop>>

\* return e: by now httpServe() may have stored its own error.
ReturnError ==
  /\ boot = "stored"
  /\ Return(e)
  /\ UNCHANGED <<serve, done, e, server, stop, crash>>

-----------------------------------------------------------------------------
(* Destruct(), and the clients. *)

Destruct ==
  /\ stop = "no"
  /\ IF done THEN stop' = "recovered" /\ UNCHANGED done
             ELSE stop' = "closed" /\ done' = TRUE
  /\ UNCHANGED <<boot, serve, e, answer, server, crash>>

\* Mutant of Accept: a server that shuts down goes on accepting.
AcceptLate ==
  /\ serve = "serving" /\ accepted < MaxConns
  /\ conns' = conns + 1 /\ accepted' = accepted + 1
  /\ UNCHANGED <<boot, serve, done, e, answer, closing, stop, crash>>

Accept ==
  /\ serve = "serving" /\ ~closing /\ accepted < MaxConns
  /\ conns' = conns + 1 /\ accepted' = accepted + 1
  /\ UNCHANGED <<boot, serve, done, e, answer, closing, stop, crash>>

Answered ==
  /\ conns > 0
  /\ conns' = conns - 1
  /\ UNCHANGED <<boot, serve, done, e, answer, closing, accepted, stop, crash>>

Serve     == Listen \/ ServeFails \/ CloseDone \/ ServeClosed
Bootstrap == Wake \/ Shutdown \/ Drain \/ ReturnError

Next == crash = None /\ (Serve \/ Bootstrap \/ Destruct \/ Accept \/ Answered)

Spec == Init /\ [][Next]_vars

-----------------------------------------------------------------------------
(* Properties. *)

\* The process survives the end of the service unless serving failed after
\* Destruct() had closed done (httpServe() does not recover the second close) or a
\* request was in progress during Shutdown(nil).
CrashHasCause ==
  /\ crash = "doneTwice" => stop = "closed"
  /\ crash = "nilContext" => stop = "closed" /\ accepted > 0

\* An error of ListenAndServe() that made done close is what Bootstrap() returns: no
\* later write of e, and no Destruct(), hides it.
ServeErrorReturned ==
  serve = "returned" /\ stop \in {"no", "recovered"} /\ answer # None => answer = "serve"

\* A service that cannot serve, and one that is told to stop, ends: Bootstrap()
\* returns, and that without a panic as long as Destruct() was not the first to
\* close done.
ServiceEnds ==
  done \/ serve = "failed" ~> boot = "returned" \/ (crash # None /\ stop = "closed")
=============================================================================
