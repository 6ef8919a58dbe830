-------------------------- MODULE ProvisioningProofs --------------------------
(***************************************************************************)
(* Theorems about Provisioning: what the handlers and the jobs of any      *)
(* number of requests may do to the tables hosts and macs in any order,    *)
(* under any answers of the DNS and of rsview.                             *)
(***************************************************************************)
EXTENDS Provisioning, WellFoundedInduction, TLAPS

-----------------------------------------------------------------------------
(* The inductive invariant, beyond the types. *)

SameHost(g, h) == g.id = h.id /\ g.hostname = h.hostname /\ g.ipmi = h.ipmi

\* The jobs of a request are made when its ports are known, the host job first.
Ordered(r) ==
  /\ step[r] \in {"new", "lookup"} => at[HostJob(r)] = "none"
  /\ at[HostJob(r)] # "none" => todo[r] = {} /\ step[r] # "insertMac"
  /\ \A m \in Macs : at[<<r, m>>] # "none" =>
       m \in ports[r] /\ at[HostJob(r)] # "none"
  /\ ports[r] \subseteq known
  /\ step[r] = "insertMac" <=> missing[r] # None

\* Once its address has been looked up the id of a host object is that of a row, and
\* what the host job is about to write is what the row has.
Filled(r) ==
  /\ step[r] \in {"macs", "insertMac", "enqueue", "respond"} \/ at[HostJob(r)] # "none" =>
       \E h \in hosts : h.id = host[r].id
  /\ at[HostJob(r)] = "update" => \E h \in hosts : SameHost(h, host[r])

\* As long as the request has no error none of its MACs is lost on its way from the
\* body to a port, and from the port to a job in the queue.
Complete(r) ==
  ~erred[r] =>
    /\ asked[r].macs \subseteq todo[r] \cup ports[r] \cup {missing[r]}
    /\ step[r] \in {"enqueue", "respond", "done"} => todo[r] = {} /\ missing[r] = None

Queued(r) ==
  /\ step[r] = "enqueue" => \A j \in RequestJobs(r) : at[j] # "none"
  /\ step[r] = "respond" \/ (step[r] = "done" /\ ~erred[r]) =>
       \A j \in RequestJobs(r) : at[j] \notin {"none", "made"}
  /\ step[r] = "done" /\ ~erred[r] => \E h \in hosts : h.id = answered[r]

Placed(p) == p.vlan # None /\ p.name # None /\ p.jun # None

\* What a port job has found out when it is there.
Progress(j) ==
  /\ at[j] \in {"save", "creator", "link", "finished"} => Placed(port[j])
  /\ at[j] \in {"creator", "link", "finished"} => Placed(macs[j[2]])
  /\ at[j] = "link" =>
       \E h \in hosts : /\ h.id = port[j].link /\ h.hostname = port[j].lldp
                        /\ Recorded(j[1], h.id)
  /\ at[j] = "finished" => macs[j[2]].host # None

JobsInOrder  == \A r \in Requests : Ordered(r)
ObjectIsRow  == \A r \in Requests : Filled(r)
NothingLost  == \A r \in Requests : Complete(r)
JobsQueued   == \A r \in Requests : Queued(r)
PortProgress == \A j \in PortJobs : Progress(j)

\* A host job that is the creator of a row has had it recorded, and one whose statement
\* was acknowledged is finished and has no other such statement.
CreatorsRecorded ==
  \A r \in Requests, h \in hosts : h.created_by = HostJob(r) => Recorded(r, h.id)

DoneOnce ==
  \A r \in Requests, i \in HostIds : <<r, i, "done">> \in writes =>
    /\ at[HostJob(r)] = "finished"
    /\ \A k \in HostIds : <<r, k, "done">> \in writes => i = k

\* The last permitted failure leads to the end of the job.
RetriesCounted ==
  JobRetryMaxFails # 0 =>
    \A j \in Jobs : fails[j] = JobRetryMaxFails => at[j] \in {"failing", "failed"}

ProvInv ==
  /\ TypeOK
  /\ JobsInOrder /\ ObjectIsRow
  /\ CreatorsRecorded /\ DoneOnce
  /\ PortProgress
  /\ NothingLost /\ JobsQueued

LEMMA ProvInit == Init => ProvInv
  <1> SUFFICES ASSUME Init PROVE ProvInv
    OBVIOUS
  <1> USE ProvisioningConfig DEF Init
  <1>0. /\ \A r \in Requests : r \in HostIds
        /\ \A r \in Requests : HostJob(r) \in Jobs
        /\ \A r \in Requests, m \in Macs : <<r, m>> \in Jobs /\ <<r, m>> \in PortJobs
    BY DEF HostIds, HostJob, Jobs, PortJobs
  <1>1. hosts \subseteq HostRow /\ (\A g, h \in hosts : g.id = h.id \/ g.hostname = h.hostname => g = h)
    OBVIOUS
  <1>2. /\ host \in [Requests -> [id: HostIds, hostname: Names \cup {None}, ipmi: Ipmis \cup {None}]]
        /\ port \in [PortJobs -> [vlan: Nat \cup {None}, name: {"port", None},
                                  jun: {"jun", None}, lldp: Names \cup {None},
                                  link: HostIds \cup {None}]]
        /\ macs \in [Macs -> [vlan: Nat \cup {None}, name: {"port", None},
                              jun: {"jun", None},
                              host: {h.id : h \in hosts} \cup {None}]]
        /\ asked \in [Requests -> [ipmi: Ipmis \cup {None}, macs: SUBSET Macs]]
    BY <1>0 DEF NoPort
  <1>3. /\ at \in [Jobs -> {"none", "made", "open", "finished", "failed"} \cup Running]
        /\ fails \in [Jobs -> Nat] /\ err \in [Jobs -> Codes]
    BY DEF Codes
  <1>4. /\ step \in [Requests -> Steps]
        /\ todo \in [Requests -> SUBSET Macs] /\ ports \in [Requests -> SUBSET Macs]
        /\ missing \in [Requests -> Macs \cup {None}]
        /\ erred \in [Requests -> BOOLEAN]
        /\ answered \in [Requests -> HostIds \cup {None}]
    BY DEF Steps
  <1>5. TypeOK
    BY <1>1, <1>2, <1>3, <1>4 DEF TypeOK
  <1>6. JobsInOrder /\ ObjectIsRow
    BY <1>0 DEF JobsInOrder, Ordered, ObjectIsRow, Filled
  <1>7. CreatorsRecorded /\ DoneOnce
    BY <1>0 DEF CreatorsRecorded, DoneOnce
  <1>8. PortProgress
    BY <1>0 DEF PortProgress, Progress, PortJobs, Jobs
  <1>9. NothingLost /\ JobsQueued
    BY DEF NothingLost, Complete, JobsQueued, Queued
  <1> QED
    BY <1>5, <1>6, <1>7, <1>8, <1>9 DEF ProvInv

-----------------------------------------------------------------------------
(* What a step does to the jobs. *)

LEMMA JobsAre ==
  /\ \A r \in Requests : HostJob(r) \in Jobs /\ HostJob(r) \notin PortJobs
  /\ \A q, r \in Requests : HostJob(q) = HostJob(r) => q = r
  /\ \A j \in PortJobs : j \in Jobs /\ j[1] \in Requests /\ j[2] \in Macs /\ j = <<j[1], j[2]>>
  /\ \A r \in Requests, m \in Macs : <<r, m>> \in PortJobs
  BY ProvisioningConfig DEF HostJob, Jobs, PortJobs

\* A job is made, put in the queue, executed statement by statement, and given up.
JobMove(j) ==
  \/ at[j] = "none" /\ GoTo(j, "made")
  \/ at[j] = "made" /\ GoTo(j, "open")
  \/ at[j] = "failing" /\ GoTo(j, "failed")
  \/ /\ at[j] \in {"open"} \cup (Running \ {"failing"})
     /\ \/ \E to \in (Running \ {"failing"}) \cup {"finished"} : GoTo(j, to)
        \/ \E code \in Codes : Fail(j, code)

LEMMA JobMoves ==
  ASSUME TypeOK, [Next]_vars
  PROVE  UNCHANGED job \/ \E j \in Jobs : JobMove(j)
  <1> USE JobsAre
  <1>1. ASSUME NEW r \in Requests, HostStep(r) PROVE JobMove(HostJob(r))
    <2>1. CASE Resolve(r)
      BY <2>1 DEF Resolve, JobMove, Running, Codes
    <2>2. CASE Find(r)
      BY <2>2 DEF Find, JobMove, Running, Codes
    <2>3. CASE Reread(r)
      BY <2>3 DEF Reread, JobMove, Running, Codes
    <2>4. CASE Update(r)
      <3>1. GoTo(HostJob(r), "finished") \/ Fail(HostJob(r), "sql")
        BY <2>4 DEF Update, EndHostJob
      <3> QED
        BY <2>4, <3>1 DEF Update, JobMove, Running, Codes
    <2>5. CASE CreateHost(r)
      <3>1. GoTo(HostJob(r), "finished") \/ Fail(HostJob(r), "sql")
        BY <2>5 DEF CreateHost, EndHostJob
      <3> QED
        BY <2>5, <3>1 DEF CreateHost, JobMove, Running, Codes
    <2> QED
      BY <1>1, <2>1, <2>2, <2>3, <2>4, <2>5 DEF HostStep
  <1>2. ASSUME NEW j \in PortJobs, PortStep(j) PROVE JobMove(j)
    <2>1. CASE Query(j)
      <3>1. GoTo(j, "save") \/ \E code \in Codes : Fail(j, code)
        BY <2>1 DEF Query, Lacks, Codes
      <3> QED
        BY <2>1, <3>1 DEF Query, JobMove, Running
    <2>2. CASE SaveMac(j)
      BY <2>2 DEF SaveMac, EndStatement, JobMove, Running, Codes
    <2>3. CASE FindHost(j)
      BY <2>3 DEF FindHost, JobMove, Running, Codes
    <2>4. CASE Link(j)
      BY <2>4 DEF Link, EndStatement, JobMove, Running, Codes
    <2> QED
      BY <1>2, <2>1, <2>2, <2>3, <2>4 DEF PortStep
  <1>3. ASSUME NEW j \in Jobs, GiveUp(j) PROVE JobMove(j)
    BY <1>3 DEF GiveUp, JobMove
  <1>4. ASSUME NEW r \in Requests, HandlerStep(r)
        PROVE  UNCHANGED job \/ \E j \in RequestJobs(r) : JobMove(j)
    <2>1. CASE Accept(r) \/ LookupIpmi(r) \/ InsertMac(r) \/ RefusePorts(r) \/ Respond(r)
      BY <2>1 DEF Accept, LookupIpmi, InsertMac, RefusePorts, Respond, job
    <2>2. CASE \E m \in Macs : CheckMac(r, m)
      BY <2>2 DEF CheckMac, job
    <2>3. CASE MakeJob(r)
      BY <2>3 DEF MakeJob, JobMove, GoTo, job
    <2>4. CASE Enqueue(r)
      BY <2>4 DEF Enqueue, JobMove, GoTo
    <2> QED
      BY <1>4, <2>1, <2>2, <2>3, <2>4 DEF HandlerStep
  <1>5. \A r \in Requests : RequestJobs(r) \subseteq Jobs
    BY DEF TypeOK, RequestJobs
  <1>6. UNCHANGED vars => UNCHANGED job
    BY DEF vars
  <1> QED
    BY <1>1, <1>2, <1>3, <1>4, <1>5, <1>6 DEF Next

\* Of each move only the job that makes it is concerned.
LEMMA JobMoveEffect ==
  ASSUME TypeOK, NEW j \in Jobs, JobMove(j)
  PROVE  /\ \A k \in Jobs \ {j} : at'[k] = at[k] /\ fails'[k] = fails[k] /\ err'[k] = err[k]
         /\ at[j] \notin {"finished", "failed"}
         /\ at'[j] \notin {"none"}
         /\ at'[j] = "made" => at[j] = "none"
         /\ at' \in [Jobs -> {"none", "made", "open", "finished", "failed"} \cup Running]
         /\ fails' \in [Jobs -> Nat] /\ err' \in [Jobs -> Codes]
  <1> USE DEF TypeOK, Running
  <1>1. ASSUME NEW to \in {"made", "open", "failed", "finished"} \cup Running, GoTo(j, to)
        PROVE  /\ at' = [at EXCEPT ![j] = to] /\ at'[j] = to
               /\ at' \in [Jobs -> {"none", "made", "open", "finished", "failed"} \cup Running]
               /\ fails' = fails /\ err' = err
    BY <1>1 DEF GoTo
  <1>2. ASSUME NEW code \in Codes, Fail(j, code)
        PROVE  /\ \E to \in {"failing", "open"} : at' = [at EXCEPT ![j] = to] /\ at'[j] = to
               /\ at' \in [Jobs -> {"none", "made", "open", "finished", "failed"} \cup Running]
               /\ fails' = [fails EXCEPT ![j] = fails[j] + 1]
               /\ err' = [err EXCEPT ![j] = code]
               /\ fails' \in [Jobs -> Nat] /\ err' \in [Jobs -> Codes]
    <2>1. PICK to \in {"failing", "open"} : at' = [at EXCEPT ![j] = to]
      BY <1>2 DEF Fail
    <2>2. /\ at'[j] = to
          /\ at' \in [Jobs -> {"none", "made", "open", "finished", "failed"} \cup Running]
      BY <2>1
    <2>3. fails' = [fails EXCEPT ![j] = fails[j] + 1] /\ fails[j] + 1 \in Nat
      BY <1>2 DEF Fail
    <2>4. fails' \in [Jobs -> Nat]
      BY <2>3
    <2>5. err' = [err EXCEPT ![j] = code] /\ err' \in [Jobs -> Codes]
      BY <1>2 DEF Fail
    <2> HIDE DEF TypeOK, Running
    <2> QED
      BY <2>1, <2>2, <2>3, <2>4, <2>5
  <1>3. CASE \E code \in Codes : Fail(j, code) /\ at[j] \in {"open"} \cup (Running \ {"failing"})
    BY <1>2, <1>3
  <1>4. CASE at[j] = "none" /\ GoTo(j, "made")
    BY <1>1, <1>4
  <1>5. CASE at[j] = "made" /\ GoTo(j, "open")
    BY <1>1, <1>5
  <1>6. CASE at[j] = "failing" /\ GoTo(j, "failed")
    BY <1>1, <1>6
  <1>7. CASE /\ at[j] \in {"open"} \cup (Running \ {"failing"})
             /\ \E to \in (Running \ {"failing"}) \cup {"finished"} : GoTo(j, to)
    BY <1>1, <1>7
  <1> QED
    BY <1>3, <1>4, <1>5, <1>6, <1>7 DEF JobMove

-----------------------------------------------------------------------------
(* What a step does to the tables and the objects. *)

\* getOrCreate() never creates: hostname and created_by of the new row are NULL.
LEMMA GetOrCreateFinds ==
  ASSUME TypeOK, NEW r \in Requests, GetOrCreate(r)
  PROVE  /\ hosts' = hosts
         /\ \E h \in hosts :
              /\ h.ipmi = host[r].ipmi
              /\ host' = [host EXCEPT ![r] = [@ EXCEPT !.id = h.id, !.hostname = h.hostname]]
  <1>1. ~Admissible(FreshRow(r))
    BY DEF Admissible, FreshRow
  <1> DEFINE found == ByIpmi(host[r].ipmi)
             h == CHOOSE h \in found : TRUE
  <1>2. found # {} /\ hosts' = hosts
    BY <1>1 DEF GetOrCreate
  <1>3. h \in found
    BY <1>2
  <1>4. host' = [host EXCEPT ![r] = [@ EXCEPT !.id = h.id, !.hostname = h.hostname]]
    BY <1>2 DEF GetOrCreate, FilledFrom
  <1> HIDE DEF h
  <1>5. h \in hosts /\ h.ipmi = host[r].ipmi
    BY <1>3 DEF ByIpmi
  <1> QED
    BY <1>2, <1>4, <1>5

\* The object is filled from a row, also if a second row makes getOrCreate() fail.
LEMMA FilledFromRow ==
  ASSUME TypeOK, NEW r \in Requests, NEW h \in hosts, host' = FilledFrom(r, h)
  PROVE  /\ host' \in [Requests -> [id: HostIds, hostname: Names \cup {None},
                                    ipmi: Ipmis \cup {None}]]
         /\ \A q \in Requests \ {r} : host'[q] = host[q]
         /\ host'[r].id = h.id /\ host'[r].hostname = h.hostname
         /\ host'[r].ipmi = host[r].ipmi
  <1>1. /\ h.id \in HostIds /\ h.hostname \in Names
        /\ host[r] \in [id: HostIds, hostname: Names \cup {None}, ipmi: Ipmis \cup {None}]
        /\ host \in [Requests -> [id: HostIds, hostname: Names \cup {None},
                                  ipmi: Ipmis \cup {None}]]
    BY DEF TypeOK, HostRow
  <1> QED
    BY <1>1 DEF FilledFrom

\* The object that getOrCreate() has filled is a row.
LEMMA FilledIsRow ==
  ASSUME TypeOK, NEW r \in Requests, GetOrCreate(r)
  PROVE  /\ host' \in [Requests -> [id: HostIds, hostname: Names \cup {None},
                                    ipmi: Ipmis \cup {None}]]
         /\ \A q \in Requests \ {r} : host'[q] = host[q]
         /\ \E h \in hosts : SameHost(h, host'[r])
  <1>1. PICK h \in hosts : h.ipmi = host[r].ipmi /\ host' = FilledFrom(r, h)
    BY GetOrCreateFinds DEF FilledFrom
  <1> QED
    BY <1>1, FilledFromRow DEF SameHost

\* A failed getOrCreate() leaves the object what it was, or with the id of a row.
LEMMA FailedIsRow ==
  ASSUME TypeOK, NEW r \in Requests, GetOrCreateFails(r)
  PROVE  /\ hosts' = hosts
         /\ host' \in [Requests -> [id: HostIds, hostname: Names \cup {None},
                                    ipmi: Ipmis \cup {None}]]
         /\ \A q \in Requests \ {r} : host'[q] = host[q]
         /\ host'[r] = host[r] \/ \E h \in hosts : h.id = host'[r].id
  <1>1. CASE host' = host
    BY <1>1 DEF GetOrCreateFails, TypeOK
  <1>2. CASE \E h \in ByIpmi(host[r].ipmi) : host' = FilledFrom(r, h)
    BY <1>2, FilledFromRow DEF GetOrCreateFails, ByIpmi
  <1> QED
    BY <1>1, <1>2 DEF GetOrCreateFails

\* updateProperties() writes the creator of one row and nothing else.
Recreated(n, j) == {IF h.hostname = n THEN [h EXCEPT !.created_by = j] ELSE h : h \in hosts}

LEMMA UpdateWritesCreator ==
  ASSUME TypeOK, ObjectIsRow, NEW r \in Requests, Update(r)
  PROVE  /\ UNCHANGED <<known, macs, request, objects>>
         /\ \/ /\ Fail(HostJob(r), "sql") /\ hosts' = hosts /\ writes' = writes
            \/ \E row \in hosts, o \in {"done", "lost"} :
                 /\ SameHost(row, host[r])
                 /\ hosts' = Recreated(row.hostname, HostJob(r))
                 /\ writes' = writes \cup {<<r, row.id, o>>}
                 /\ IF o = "done" THEN GoTo(HostJob(r), "finished")
                    ELSE Fail(HostJob(r), "sql")
  <1> DEFINE rows   == ByName(host[r].hostname)
             Set(h) == [h EXCEPT !.id = host[r].id, !.ipmi = host[r].ipmi,
                                 !.created_by = HostJob(r)]
  <1>1. PICK row \in hosts : SameHost(row, host[r])
    BY DEF Update, ObjectIsRow, Filled
  <1>2. /\ rows = {row} /\ row \in HostRow
        /\ row.id = host[r].id /\ row.ipmi = host[r].ipmi /\ row.hostname = host[r].hostname
    BY <1>1 DEF SameHost, ByName, TypeOK
  <1>3. Set(row) = [row EXCEPT !.created_by = HostJob(r)]
    BY <1>2 DEF HostRow
  <1>4. ASSUME hosts' = (hosts \ rows) \cup {Set(h) : h \in rows}
        PROVE  hosts' = Recreated(row.hostname, HostJob(r))
    <2> HIDE DEF Set
    <2>1. hosts' = (hosts \ {row}) \cup {Set(row)}
      BY <1>2, <1>4
    <2>2. \A h \in hosts : h.hostname = host[r].hostname <=> h = row
      BY <1>2 DEF ByName
    <2>3. hosts' = (hosts \ {row}) \cup {[row EXCEPT !.created_by = HostJob(r)]}
      BY <1>3, <2>1
    <2> QED
      BY <1>2, <2>2, <2>3 DEF Recreated
  <1>5. ASSUME macs' = [m \in Macs |-> IF \E h \in rows : h.id = macs[m].host
                                       THEN [macs[m] EXCEPT !.host = host[r].id]
                                       ELSE macs[m]]
        PROVE  macs' = macs
    <2> DEFINE Row == [vlan: Nat \cup {None}, name: {"port", None}, jun: {"jun", None},
                       host: {h.id : h \in hosts} \cup {None}]
    <2>1. macs \in [Macs -> Row]
      BY DEF TypeOK
    <2>2. ASSUME NEW m \in Macs PROVE macs'[m] = macs[m]
      <3>1. macs[m] \in Row
        BY <2>1
      <3>2. CASE \E h \in rows : h.id = macs[m].host
        <4>1. macs'[m] = [macs[m] EXCEPT !.host = host[r].id] /\ macs[m].host = host[r].id
          BY <1>2, <1>5, <3>2
        <4> QED
          BY <3>1, <4>1
      <3>3. CASE ~\E h \in rows : h.id = macs[m].host
        BY <1>5, <3>3
      <3> QED
        BY <3>2, <3>3
    <2> QED
      BY <1>5, <2>1, <2>2
  <1>6. PICK o \in {"done", "refused", "lost"} :
          /\ IF o = "refused" THEN UNCHANGED <<hosts, macs>>
             ELSE /\ hosts' = (hosts \ rows) \cup {Set(h) : h \in rows}
                  /\ macs' = [m \in Macs |-> IF \E h \in rows : h.id = macs[m].host
                                             THEN [macs[m] EXCEPT !.host = host[r].id]
                                             ELSE macs[m]]
          /\ EndHostJob(r, o)
    BY DEF Update, Outcomes
  <1>7. CASE o = "refused"
    BY <1>6, <1>7 DEF Update, EndHostJob
  <1>8. CASE o # "refused"
    <2>1. hosts' = Recreated(row.hostname, HostJob(r)) /\ macs' = macs
      BY <1>4, <1>5, <1>6, <1>8
    <2>2. /\ writes' = writes \cup {<<r, row.id, o>>}
          /\ IF o = "done" THEN GoTo(HostJob(r), "finished") ELSE Fail(HostJob(r), "sql")
      BY <1>2, <1>6, <1>8 DEF EndHostJob
    <2>3. UNCHANGED <<known, request, objects>>
      BY DEF Update
    <2> QED
      BY <1>1, <1>6, <1>8, <2>1, <2>2, <2>3
  <1> QED
    BY <1>7, <1>8

\* ... so that the rows stay the hosts they are.
LEMMA RecreatedIsSame ==
  ASSUME TypeOK, NEW n, NEW j \in Jobs, hosts' = Recreated(n, j)
  PROVE  /\ hosts' \subseteq HostRow
         /\ \A g \in hosts' : \E h \in hosts :
              SameHost(g, h) /\ (g.created_by = h.created_by \/ (g.created_by = j /\ g.hostname = n))
         /\ \A h \in hosts : \E g \in hosts' : SameHost(g, h)
  <1> DEFINE New(h) == IF h.hostname = n THEN [h EXCEPT !.created_by = j] ELSE h
  <1>1. hosts' = {New(h) : h \in hosts} /\ hosts \subseteq HostRow
    BY DEF Recreated, TypeOK
  <1>2. ASSUME NEW h \in hosts
        PROVE  /\ New(h) \in HostRow /\ SameHost(New(h), h)
               /\ \/ New(h).created_by = h.created_by
                  \/ New(h).created_by = j /\ New(h).hostname = n
    BY <1>1 DEF HostRow, SameHost
  <1> HIDE DEF New
  <1> QED
    BY <1>1, <1>2

\* createProperties() never creates: the id is that of a row.
LEMMA NeverCreated ==
  ASSUME TypeOK, ObjectIsRow, NEW r \in Requests, CreateHost(r)
  PROVE  Fail(HostJob(r), "sql") /\ UNCHANGED <<db, request, objects>>
  <1> DEFINE row == [id |-> host[r].id, hostname |-> host[r].hostname,
                     ipmi |-> host[r].ipmi, created_by |-> HostJob(r)]
  <1>1. \E h \in hosts : h.id = host[r].id
    BY DEF CreateHost, ObjectIsRow, Filled
  <1>2. ~Admissible(row)
    BY <1>1 DEF Admissible
  <1>3. EndHostJob(r, "refused") /\ hosts' = hosts
    BY <1>2 DEF CreateHost, Outcomes
  <1> QED
    BY <1>3 DEF CreateHost, EndHostJob, db

-----------------------------------------------------------------------------
(* What each of the goroutines leaves alone. *)

HostObject == [id: HostIds, hostname: Names \cup {None}, ipmi: Ipmis \cup {None}]
PortObject == [vlan: Nat \cup {None}, name: {"port", None}, jun: {"jun", None},
               lldp: Names \cup {None}, link: HostIds \cup {None}]
MacRow     == [vlan: Nat \cup {None}, name: {"port", None}, jun: {"jun", None},
               host: {h.id : h \in hosts} \cup {None}]

\* The handler of r: no row of hosts, and of the jobs only its own, which it makes
\* or puts in the queue.
HandlerEffect(r) ==
  /\ UNCHANGED <<hosts, macs, writes, port, fails, err>>
  /\ known \subseteq known' /\ known' \subseteq Macs
  /\ host' \in [Requests -> HostObject]
  /\ \A q \in Requests \ {r} :
       /\ asked'[q] = asked[q] /\ step'[q] = step[q] /\ todo'[q] = todo[q]
       /\ ports'[q] = ports[q] /\ missing'[q] = missing[q] /\ erred'[q] = erred[q]
       /\ answered'[q] = answered[q] /\ host'[q] = host[q]
  /\ \A j \in Jobs : \/ at'[j] = at[j]
                     \/ /\ j \in RequestJobs(r)
                        /\ \/ at[j] = "none" /\ at'[j] = "made"
                           \/ at[j] = "made" /\ at'[j] = "open"

\* The host job of r: its object, and by its last statement, which may be executed and
\* fail, the creator of one row.
HostEffect(r) ==
  /\ UNCHANGED <<known, macs, request, port>>
  /\ host' \in [Requests -> HostObject]
  /\ \A q \in Requests \ {r} : host'[q] = host[q]
  /\ \A j \in Jobs \ {HostJob(r)} : at'[j] = at[j]
  /\ at[HostJob(r)] \in {"open", "find", "reread", "create", "update"}
  /\ at'[HostJob(r)] \notin {"none", "made"}
  /\ \E h \in hosts : h.id = host'[r].id
  /\ at'[HostJob(r)] = "update" => \E h \in hosts : SameHost(h, host'[r])
  /\ \/ UNCHANGED <<hosts, writes>>
     \/ \E row \in hosts, o \in {"done", "lost"} :
          /\ hosts' = Recreated(row.hostname, HostJob(r))
          /\ writes' = writes \cup {<<r, row.id, o>>}
          /\ o = "done" => at'[HostJob(r)] = "finished"

\* A port job: its own object and the row of its MAC, in which it resets nothing.
PortEffect(j) ==
  /\ UNCHANGED <<hosts, known, writes, request, host>>
  /\ \A k \in Jobs \ {j} : at'[k] = at[k]
  /\ at[j] \in {"open", "save", "creator", "link"} /\ at'[j] \notin {"none", "made"}
  /\ port' \in [PortJobs -> PortObject]
  /\ \A k \in PortJobs \ {j} : port'[k] = port[k]
  /\ macs' \in [Macs -> MacRow]
  /\ \A m \in Macs \ {j[2]} : macs'[m] = macs[m]
  /\ Placed(macs[j[2]]) => Placed(macs'[j[2]])
  /\ macs[j[2]].host # None => macs'[j[2]].host # None
  /\ macs'[j[2]].host # macs[j[2]].host => at[j] = "link"

LEMMA HandlerFrame ==
  ASSUME TypeOK, JobsInOrder, NEW r \in Requests, HandlerStep(r)
  PROVE  HandlerEffect(r)
  <1>0. /\ host \in [Requests -> HostObject]
        /\ known \subseteq Macs
        /\ at \in [Jobs -> {"none", "made", "open", "finished", "failed"} \cup Running]
        /\ RequestJobs(r) \subseteq Jobs
    BY JobsAre DEF TypeOK, HostObject, RequestJobs
  <1>t. /\ asked \in [Requests -> [ipmi: Ipmis \cup {None}, macs: SUBSET Macs]]
        /\ step \in [Requests -> Steps] /\ todo \in [Requests -> SUBSET Macs]
        /\ ports \in [Requests -> SUBSET Macs] /\ missing \in [Requests -> Macs \cup {None}]
        /\ erred \in [Requests -> BOOLEAN] /\ answered \in [Requests -> HostIds \cup {None}]
    BY DEF TypeOK
  <1> USE <1>0, <1>t DEF HandlerEffect, db, objects, job
  <1>1. CASE Accept(r)
    <2>1. host' \in [Requests -> HostObject] /\ \A q \in Requests \ {r} : host'[q] = host[q]
      <3>1. CASE UNCHANGED host
        BY <3>1
      <3>2. CASE \E a \in Ipmis : host' = [host EXCEPT ![r] = [@ EXCEPT !.ipmi = a]]
        <4>1. \A a \in Ipmis : [host[r] EXCEPT !.ipmi = a] \in HostObject
          BY DEF HostObject
        <4> QED
          BY <3>2, <4>1
      <3> QED
        BY <1>1, <3>1, <3>2, ProvisioningConfig DEF Accept
    <2>2. \A q \in Requests \ {r} :
            asked'[q] = asked[q] /\ step'[q] = step[q] /\ todo'[q] = todo[q] /\ erred'[q] = erred[q]
      BY <1>1 DEF Accept, Refuse
    <2> QED
      BY <1>1, <2>1, <2>2 DEF Accept
  <1>2. CASE LookupIpmi(r)
    <2>1. CASE GetOrCreate(r)
      <3>1. hosts' = hosts /\ host' \in [Requests -> HostObject]
            /\ \A q \in Requests \ {r} : host'[q] = host[q]
        BY <2>1, GetOrCreateFinds, FilledIsRow DEF HostObject
      <3> QED
        BY <1>2, <3>1 DEF LookupIpmi, Refuse
    <2>2. CASE GetOrCreateFails(r) /\ Refuse(r)
      <3>1. hosts' = hosts /\ host' \in [Requests -> HostObject]
            /\ \A q \in Requests \ {r} : host'[q] = host[q]
        BY <2>2, FailedIsRow DEF HostObject
      <3> QED
        BY <1>2, <2>2, <3>1 DEF LookupIpmi, Refuse
    <2> QED
      BY <1>2, <2>1, <2>2 DEF LookupIpmi
  <1>3. CASE \E m \in Macs : CheckMac(r, m)
    BY <1>3 DEF CheckMac
  <1>4. CASE InsertMac(r)
    <2>1. known' \subseteq Macs /\ known \subseteq known'
      <3>1. missing[r] \in Macs
        BY <1>4 DEF InsertMac, JobsInOrder, Ordered
      <3> QED
        BY <1>4, <3>1 DEF InsertMac
    <2>2. \A q \in Requests \ {r} : ports'[q] = ports[q] /\ erred'[q] = erred[q]
      BY <1>4 DEF InsertMac
    <2> QED
      BY <1>4, <2>1, <2>2 DEF InsertMac
  <1>5. CASE RefusePorts(r)
    BY <1>5 DEF RefusePorts, Refuse
  <1>6. CASE MakeJob(r)
    BY <1>6 DEF MakeJob, Refuse
  <1>7. CASE Enqueue(r)
    BY <1>7 DEF Enqueue
  <1>8. CASE Respond(r)
    BY <1>8 DEF Respond
  <1> QED
    BY <1>1, <1>2, <1>3, <1>4, <1>5, <1>6, <1>7, <1>8 DEF HandlerStep

LEMMA HostFrame ==
  ASSUME TypeOK, JobsInOrder, ObjectIsRow, NEW r \in Requests, HostStep(r)
  PROVE  HostEffect(r)
  <1>0. /\ host \in [Requests -> HostObject]
        /\ at \in [Jobs -> {"none", "made", "open", "finished", "failed"} \cup Running]
        /\ HostJob(r) \in Jobs
    BY JobsAre DEF TypeOK, HostObject
  <1>g. ASSUME NEW to, GoTo(HostJob(r), to)
        PROVE  at'[HostJob(r)] = to /\ \A j \in Jobs \ {HostJob(r)} : at'[j] = at[j]
    BY <1>0, <1>g DEF GoTo
  <1>f. ASSUME NEW code, Fail(HostJob(r), code)
        PROVE  /\ at'[HostJob(r)] \in {"failing", "open"}
               /\ \A j \in Jobs \ {HostJob(r)} : at'[j] = at[j]
    BY <1>0, <1>f DEF Fail
  <1>i. at[HostJob(r)] # "none" => \E h \in hosts : h.id = host[r].id
    BY DEF ObjectIsRow, Filled
  <1> USE <1>0 DEF HostEffect, db, objects
  <1>1. CASE Resolve(r)
    <2> USE <1>1 DEF Resolve
    <2>1. CASE Fail(HostJob(r), "common") /\ UNCHANGED host
      BY <1>f, <1>i, <2>1
    <2>2. CASE \E n \in Names : /\ host' = [host EXCEPT ![r] = [@ EXCEPT !.hostname = n]]
                                /\ GoTo(HostJob(r), "find")
      <3>1. PICK n \in Names : host' = [host EXCEPT ![r] = [@ EXCEPT !.hostname = n]]
        BY <2>2
      <3>2. [host[r] EXCEPT !.hostname = n] \in HostObject
        BY DEF HostObject
      <3>3. /\ host' \in [Requests -> HostObject] /\ host'[r].id = host[r].id
            /\ \A q \in Requests \ {r} : host'[q] = host[q]
        BY <3>1, <3>2 DEF HostObject
      <3> QED
        BY <1>g, <1>i, <2>2, <3>3
    <2> QED
      BY <2>1, <2>2, ProvisioningConfig
  <1>2. CASE Find(r)
    <2> USE <1>2 DEF Find
    <2>1. CASE UNCHANGED host /\ (GoTo(HostJob(r), "create") \/ \E code : Fail(HostJob(r), code))
      BY <1>g, <1>f, <1>i, <2>1
    <2>2. CASE \E h \in hosts : /\ host' = [host EXCEPT ![r] = [@ EXCEPT !.ipmi = h.ipmi]]
                                /\ GoTo(HostJob(r), "reread")
      <3>1. PICK h \in hosts : host' = [host EXCEPT ![r] = [@ EXCEPT !.ipmi = h.ipmi]]
        BY <2>2
      <3>2. [host[r] EXCEPT !.ipmi = h.ipmi] \in HostObject
        <4>1. h.ipmi \in Ipmis
          BY DEF TypeOK, HostRow
        <4> QED
          BY <4>1 DEF HostObject
      <3>3. /\ host' \in [Requests -> HostObject] /\ host'[r].id = host[r].id
            /\ \A q \in Requests \ {r} : host'[q] = host[q]
        BY <3>1, <3>2 DEF HostObject
      <3> QED
        BY <1>g, <1>i, <2>2, <3>3
    <2> QED
      BY <2>1, <2>2 DEF ByName
  <1>3. CASE Reread(r)
    <2> USE <1>3 DEF Reread
    <2>1. CASE GetOrCreate(r) /\ GoTo(HostJob(r), "update")
      <3>1. /\ hosts' = hosts /\ host' \in [Requests -> HostObject]
            /\ \A q \in Requests \ {r} : host'[q] = host[q]
            /\ \E h \in hosts : SameHost(h, host'[r])
        BY <2>1, GetOrCreateFinds, FilledIsRow DEF HostObject
      <3>2. \E h \in hosts : h.id = host'[r].id
        BY <3>1 DEF SameHost
      <3> QED
        BY <1>g, <2>1, <3>1, <3>2
    <2>2. CASE GetOrCreateFails(r) /\ Fail(HostJob(r), "sql")
      <3>1. /\ hosts' = hosts /\ host' \in [Requests -> HostObject]
            /\ \A q \in Requests \ {r} : host'[q] = host[q]
            /\ \E h \in hosts : h.id = host'[r].id
        BY <1>i, <2>2, FailedIsRow DEF HostObject
      <3> QED
        BY <1>f, <2>2, <3>1
    <2> QED
      BY <2>1, <2>2
  <1>4. CASE Update(r)
    <2>1. UNCHANGED <<known, macs, request, objects>> /\ at[HostJob(r)] = "update"
      BY <1>4, UpdateWritesCreator DEF Update
    <2>2. CASE Fail(HostJob(r), "sql") /\ hosts' = hosts /\ writes' = writes
      BY <1>f, <1>i, <2>1, <2>2
    <2>3. ASSUME NEW row \in hosts, NEW o \in {"done", "lost"},
                 hosts' = Recreated(row.hostname, HostJob(r)),
                 writes' = writes \cup {<<r, row.id, o>>},
                 IF o = "done" THEN GoTo(HostJob(r), "finished") ELSE Fail(HostJob(r), "sql")
          PROVE  HostEffect(r)
      <3>1. /\ at'[HostJob(r)] \in {"finished", "failing", "open"}
            /\ o = "done" => at'[HostJob(r)] = "finished"
            /\ \A j \in Jobs \ {HostJob(r)} : at'[j] = at[j]
        BY <1>g, <1>f, <2>3
      <3> QED
        BY <1>i, <2>1, <2>3, <3>1
    <2> QED
      BY <1>4, <2>2, <2>3, UpdateWritesCreator
  <1>5. CASE CreateHost(r)
    <2>1. Fail(HostJob(r), "sql") /\ UNCHANGED <<db, request, objects>>
      BY <1>5, NeverCreated
    <2> QED
      BY <1>5, <1>f, <1>i, <2>1 DEF CreateHost
  <1> QED
    BY <1>1, <1>2, <1>3, <1>4, <1>5 DEF HostStep

\* Of some VLANs one is the first.
LEMMA FirstVlan ==
  ASSUME NEW S \in SUBSET Nat, S # {}
  PROVE  \E v \in S : \A w \in S : v <= w
  <1> DEFINE Less == {p \in Nat \X Nat : p[1] < p[2]}
  <1>1. IsWellFoundedOn(Less, Nat)
    BY NatLessThanWellFounded DEF OpToRel
  <1> HIDE DEF Less
  <1>2. PICK v \in S : \A w \in S : <<w, v>> \notin Less
    BY <1>1, WFMin
  <1>3. ASSUME NEW w \in S PROVE v <= w
    <2>1. ~(w < v)
      BY <1>2 DEF Less
    <2> QED
      BY <2>1
  <1> QED
    BY <1>3

LEMMA ParsedType ==
  ASSUME NEW p \in PortObject, NEW page \in Answer
  PROVE  Parsed(p, page) \in PortObject /\ Parsed(p, page).link = p.link
  <1> DEFINE vlan == IF p.vlan # None \/ page.vlans = {} \/ First(page.vlans) \in BadVlans
                     THEN p.vlan ELSE First(page.vlans)
             name == IF p.name = None /\ vlan # None THEN page.name ELSE p.name
             jun  == IF p.jun = None /\ vlan # None /\ name # None THEN page.jun ELSE p.jun
             lldp == IF page.lldp # None /\ None \notin {vlan, name, jun}
                     THEN page.lldp ELSE p.lldp
  <1>1. /\ page.vlans \in SUBSET Nat /\ page.name \in {"port", None}
        /\ page.jun \in {"jun", None} /\ page.lldp \in Names \cup {None}
        /\ p.vlan \in Nat \cup {None} /\ p.name \in {"port", None}
        /\ p.jun \in {"jun", None} /\ p.lldp \in Names \cup {None}
    BY DEF Answer, PortObject
  <1>2. vlan \in Nat \cup {None}
    <2>1. ASSUME page.vlans # {} PROVE First(page.vlans) \in Nat
      <3>1. \E v \in page.vlans : \A w \in page.vlans : v <= w
        BY <1>1, <2>1, FirstVlan
      <3>2. First(page.vlans) \in page.vlans
        BY <3>1 DEF First
      <3> QED
        BY <1>1, <3>2
    <2> QED
      BY <1>1, <2>1
  <1> HIDE DEF vlan
  <1>3. name \in {"port", None}
    BY <1>1
  <1> HIDE DEF name
  <1>4. jun \in {"jun", None}
    BY <1>1
  <1> HIDE DEF jun
  <1>5. lldp \in Names \cup {None}
    BY <1>1
  <1> HIDE DEF lldp
  <1>6. Parsed(p, page) = [p EXCEPT !.vlan = vlan, !.name = name, !.jun = jun, !.lldp = lldp]
    BY DEF Parsed, vlan, name, jun, lldp
  <1> QED
    BY <1>2, <1>3, <1>4, <1>5, <1>6 DEF PortObject

\* A query leaves a port that is complete, or another error.
LEMMA QueryOutcome ==
  ASSUME TypeOK, NEW j \in PortJobs, Query(j)
  PROVE  /\ port' \in [PortJobs -> PortObject]
         /\ \A k \in PortJobs \ {j} : port'[k] = port[k]
         /\ \/ \E code \in Codes : Fail(j, code)
            \/ GoTo(j, "save") /\ Placed(port'[j])
  <1>0. port \in [PortJobs -> PortObject]
    BY DEF TypeOK, PortObject
  <1>1. PICK page \in RsviewAnswers :
          IF page = None THEN Fail(j, "rsview") /\ UNCHANGED port
          ELSE LET p == Parsed(port[j], page)
               IN  /\ port' = [port EXCEPT ![j] = p]
                   /\ IF Lacks(p, page) = None THEN GoTo(j, "save")
                      ELSE Fail(j, Lacks(p, page))
    BY DEF Query
  <1>2. CASE page = None
    BY <1>0, <1>1, <1>2 DEF Codes
  <1>3. CASE page # None
    <2> DEFINE p == Parsed(port[j], page)
    <2>1. page \in Answer
      BY <1>3, ProvisioningConfig
    <2>2. p \in PortObject
      BY <1>0, <2>1, ParsedType
    <2> HIDE DEF p
    <2>3. port' = [port EXCEPT ![j] = p]
      BY <1>1, <1>3 DEF p
    <2>4. IF Lacks(p, page) = None THEN GoTo(j, "save") ELSE Fail(j, Lacks(p, page))
      BY <1>1, <1>3 DEF p
    <2>5. Lacks(p, page) \in Codes /\ (Placed(p) \/ Lacks(p, page) \in {"vlan", "common", "port", "jun"})
      BY DEF Lacks, Codes, Placed
    <2>6. Lacks(p, page) = None => Placed(p)
      BY <2>5, ProvisioningConfig
    <2> QED
      BY <1>0, <2>2, <2>3, <2>4, <2>5, <2>6
  <1> QED
    BY <1>2, <1>3

LEMMA PortFrame ==
  ASSUME TypeOK, PortProgress, NEW j \in PortJobs, PortStep(j)
  PROVE  PortEffect(j)
  <1>0. /\ port \in [PortJobs -> PortObject] /\ macs \in [Macs -> MacRow]
        /\ at \in [Jobs -> {"none", "made", "open", "finished", "failed"} \cup Running]
        /\ j \in Jobs /\ j[2] \in Macs
    BY JobsAre DEF TypeOK, PortObject, MacRow
  <1>g. ASSUME NEW to, GoTo(j, to)
        PROVE  at'[j] = to /\ \A k \in Jobs \ {j} : at'[k] = at[k]
    BY <1>0, <1>g DEF GoTo
  <1>f. ASSUME NEW code, Fail(j, code)
        PROVE  /\ at'[j] \in {"failing", "open"}
               /\ \A k \in Jobs \ {j} : at'[k] = at[k]
    BY <1>0, <1>f DEF Fail
  <1> USE <1>0 DEF PortEffect, db, objects
  <1>1. CASE Query(j)
    <2>1. /\ port' \in [PortJobs -> PortObject]
          /\ \A k \in PortJobs \ {j} : port'[k] = port[k]
          /\ \/ \E code \in Codes : Fail(j, code)
             \/ GoTo(j, "save")
      BY <1>1, QueryOutcome
    <2>2. at'[j] \in {"failing", "open", "save"} /\ \A k \in Jobs \ {j} : at'[k] = at[k]
      BY <1>g, <1>f, <2>1
    <2> QED
      BY <1>1, <2>1, <2>2 DEF Query
  <1>2. CASE SaveMac(j)
    <2>1. /\ at[j] = "save" /\ UNCHANGED <<hosts, known, writes, request, objects>>
          /\ GoTo(j, "creator") \/ Fail(j, "sql")
          /\ \/ macs' = macs
             \/ macs' = [macs EXCEPT ![j[2]] =
                           [@ EXCEPT !.vlan = port[j].vlan, !.name = port[j].name,
                                     !.jun = port[j].jun]]
      BY <1>2 DEF SaveMac, EndStatement
    <2>2. at'[j] \in {"failing", "open", "creator"} /\ \A k \in Jobs \ {j} : at'[k] = at[k]
      BY <1>g, <1>f, <2>1
    <2>3. CASE macs' = macs
      BY <2>1, <2>2, <2>3
    <2>4. CASE macs' = [macs EXCEPT ![j[2]] =
                          [@ EXCEPT !.vlan = port[j].vlan, !.name = port[j].name,
                                    !.jun = port[j].jun]]
      <3> DEFINE new == [macs[j[2]] EXCEPT !.vlan = port[j].vlan, !.name = port[j].name,
                                           !.jun = port[j].jun]
      <3>1. Placed(port[j]) /\ port[j] \in PortObject
        BY <2>1 DEF PortProgress, Progress
      <3>2. macs[j[2]] \in MacRow
        OBVIOUS
      <3>3. new \in MacRow /\ Placed(new) /\ new.host = macs[j[2]].host
        BY <3>1, <3>2 DEF MacRow, PortObject, Placed
      <3> HIDE DEF new
      <3>4. macs' = [macs EXCEPT ![j[2]] = new]
        BY <2>4 DEF new
      <3>5. /\ macs' \in [Macs -> MacRow] /\ \A m \in Macs \ {j[2]} : macs'[m] = macs[m]
            /\ Placed(macs'[j[2]]) /\ macs'[j[2]].host = macs[j[2]].host
        BY <3>3, <3>4
      <3> QED
        BY <2>1, <2>2, <3>5
    <2> QED
      BY <2>1, <2>3, <2>4
  <1>3. CASE FindHost(j)
    <2>1. /\ \/ UNCHANGED port
             \/ \E h \in hosts : port' = [port EXCEPT ![j] = [@ EXCEPT !.link = h.id]]
          /\ \/ GoTo(j, "link")
             \/ \E code \in Codes : Fail(j, code)
          /\ at[j] = "creator" /\ UNCHANGED <<db, request, host>>
      BY <1>3 DEF FindHost, Codes
    <2>2. /\ port' \in [PortJobs -> PortObject]
          /\ \A k \in PortJobs \ {j} : port'[k] = port[k]
      <3>1. \A h \in hosts : [port[j] EXCEPT !.link = h.id] \in PortObject
        <4>1. \A h \in hosts : h.id \in HostIds
          BY DEF TypeOK, HostRow
        <4> QED
          BY <4>1 DEF PortObject
      <3> QED
        BY <2>1, <3>1
    <2>3. at'[j] \in {"failing", "open", "link"} /\ \A k \in Jobs \ {j} : at'[k] = at[k]
      BY <1>g, <1>f, <2>1
    <2> QED
      BY <2>1, <2>2, <2>3
  <1>4. CASE Link(j)
    <2>1. /\ at[j] = "link" /\ UNCHANGED <<hosts, known, writes, request, objects>>
          /\ GoTo(j, "finished") \/ Fail(j, "sql")
          /\ \/ macs' = macs
             \/ /\ \E h \in hosts : h.id = port[j].link
                /\ macs' = [macs EXCEPT ![j[2]] = [@ EXCEPT !.host = port[j].link]]
      BY <1>4 DEF Link, EndStatement, Outcomes
    <2>2. at'[j] \in {"failing", "open", "finished"} /\ \A k \in Jobs \ {j} : at'[k] = at[k]
      BY <1>g, <1>f, <2>1
    <2>3. CASE macs' = macs
      BY <2>1, <2>2, <2>3
    <2>4. CASE /\ \E h \in hosts : h.id = port[j].link
               /\ macs' = [macs EXCEPT ![j[2]] = [@ EXCEPT !.host = port[j].link]]
      <3> DEFINE new == [macs[j[2]] EXCEPT !.host = port[j].link]
      <3>1. port[j].link # None
        BY <2>4, ProvisioningConfig DEF TypeOK, HostRow
      <3>2. macs[j[2]] \in MacRow
        OBVIOUS
      <3>3. /\ new \in MacRow /\ new.host # None
            /\ Placed(macs[j[2]]) => Placed(new)
        BY <2>4, <3>1, <3>2 DEF MacRow, Placed
      <3> HIDE DEF new
      <3>4. macs' = [macs EXCEPT ![j[2]] = new]
        BY <2>4 DEF new
      <3>5. /\ macs' \in [Macs -> MacRow] /\ \A m \in Macs \ {j[2]} : macs'[m] = macs[m]
            /\ macs'[j[2]] = new
        BY <3>3, <3>4
      <3> QED
        BY <2>1, <2>2, <3>3, <3>5
    <2> QED
      BY <2>1, <2>3, <2>4
  <1> QED
    BY <1>1, <1>2, <1>3, <1>4 DEF PortStep

-----------------------------------------------------------------------------
(* Every step keeps the invariant. *)

StepCase == \/ \E r \in Requests : HandlerStep(r) /\ HandlerEffect(r)
            \/ \E r \in Requests : HostStep(r) /\ HostEffect(r)
            \/ \E j \in PortJobs : PortStep(j) /\ PortEffect(j)
            \/ \E j \in Jobs : GiveUp(j)
            \/ UNCHANGED vars

LEMMA StepCases ==
  ASSUME ProvInv, [Next]_vars
  PROVE  StepCase
  BY HandlerFrame, HostFrame, PortFrame DEF ProvInv, Next, StepCase

\* Whatever runs, the hosts stay the same.
LEMMA HostsStay ==
  ASSUME ProvInv, StepCase
  PROVE  /\ \A g \in hosts' : \E h \in hosts : SameHost(g, h)
         /\ \A h \in hosts : \E g \in hosts' : SameHost(g, h)
         /\ hosts' \subseteq HostRow
  <1>1. CASE hosts' = hosts
    BY <1>1 DEF SameHost, ProvInv, TypeOK
  <1>2. ASSUME NEW r \in Requests, HostEffect(r), hosts' # hosts
        PROVE  /\ \A g \in hosts' : \E h \in hosts : SameHost(g, h)
               /\ \A h \in hosts : \E g \in hosts' : SameHost(g, h)
               /\ hosts' \subseteq HostRow
    <2>1. PICK row \in hosts : hosts' = Recreated(row.hostname, HostJob(r))
      BY <1>2 DEF HostEffect
    <2>2. HostJob(r) \in Jobs
      BY JobsAre
    <2> QED
      BY <2>1, <2>2, RecreatedIsSame DEF ProvInv
  <1>3. hosts' # hosts => \E r \in Requests : HostEffect(r)
    BY DEF StepCase, HandlerEffect, PortEffect, GiveUp, vars, db
  <1> QED
    BY <1>1, <1>2, <1>3

\* Only its own moves change where a job is, and a job that is finished stays so.
LEMMA FinishedStays ==
  ASSUME ProvInv, [Next]_vars, NEW j \in Jobs
  PROVE  /\ at[j] = "finished" => at'[j] = "finished"
         /\ at[j] # "none" => at'[j] # "none"
         /\ at[j] \notin {"none", "made"} => at'[j] \notin {"none", "made"}
  <1>1. CASE UNCHANGED job
    BY <1>1 DEF job
  <1>2. CASE \E k \in Jobs : JobMove(k)
    <2>1. PICK k \in Jobs : JobMove(k)
      BY <1>2
    <2> QED
      BY <2>1, JobMoveEffect DEF ProvInv
  <1> QED
    BY <1>1, <1>2, JobMoves DEF ProvInv

LEMMA RequestTypes ==
  ASSUME ProvInv, NEW r \in Requests, HandlerStep(r)
  PROVE  /\ asked' \in [Requests -> [ipmi: Ipmis \cup {None}, macs: SUBSET Macs]]
         /\ step' \in [Requests -> Steps] /\ todo' \in [Requests -> SUBSET Macs]
         /\ ports' \in [Requests -> SUBSET Macs]
         /\ missing' \in [Requests -> Macs \cup {None}]
         /\ erred' \in [Requests -> BOOLEAN]
         /\ answered' \in [Requests -> HostIds \cup {None}]
  <1>0. /\ asked \in [Requests -> [ipmi: Ipmis \cup {None}, macs: SUBSET Macs]]
        /\ step \in [Requests -> Steps] /\ todo \in [Requests -> SUBSET Macs]
        /\ ports \in [Requests -> SUBSET Macs] /\ missing \in [Requests -> Macs \cup {None}]
        /\ erred \in [Requests -> BOOLEAN] /\ answered \in [Requests -> HostIds \cup {None}]
        /\ host[r].id \in HostIds
    BY DEF ProvInv, TypeOK
  <1> USE <1>0 DEF Refuse, Steps
  <1>1. CASE Accept(r)
    <2>1. PICK a \in Ipmis, ms \in (SUBSET Macs) \ {{}} :
            /\ asked' = [asked EXCEPT ![r] = [ipmi |-> a, macs |-> ms]]
            /\ todo' = [todo EXCEPT ![r] = ms] \/ todo' = todo
      BY <1>1, ProvisioningConfig DEF Accept
    <2>2. /\ asked' \in [Requests -> [ipmi: Ipmis \cup {None}, macs: SUBSET Macs]]
          /\ todo' \in [Requests -> SUBSET Macs]
      BY <2>1
    <2>3. step' \in [Requests -> Steps] /\ erred' \in [Requests -> BOOLEAN]
      BY <1>1, ZenonT(60) DEF Accept
    <2> QED
      BY <1>1, <2>2, <2>3 DEF Accept
  <1>2. CASE LookupIpmi(r)
    BY <1>2 DEF LookupIpmi
  <1>3. CASE \E m \in Macs : CheckMac(r, m)
    <2>1. PICK m \in Macs : CheckMac(r, m)
      BY <1>3
    <2>2. todo' \in [Requests -> SUBSET Macs] /\ ports' \in [Requests -> SUBSET Macs]
      BY <2>1 DEF CheckMac
    <2>3. step' \in [Requests -> Steps]
      BY <2>1 DEF CheckMac
    <2>4. erred' \in [Requests -> BOOLEAN]
      BY <2>1 DEF CheckMac
    <2>5. missing' \in [Requests -> Macs \cup {None}]
      BY <2>1 DEF CheckMac
    <2> QED
      BY <2>1, <2>2, <2>3, <2>4, <2>5 DEF CheckMac
  <1>4. CASE InsertMac(r)
    <2>1. missing[r] \in Macs
      BY <1>4 DEF InsertMac, ProvInv, JobsInOrder, Ordered
    <2>2. ports' \in [Requests -> SUBSET Macs]
      BY <1>4, <2>1 DEF InsertMac
    <2>3. step' \in [Requests -> Steps] /\ erred' \in [Requests -> BOOLEAN]
      BY <1>4 DEF InsertMac
    <2>4. missing' \in [Requests -> Macs \cup {None}]
      BY <1>4 DEF InsertMac
    <2> QED
      BY <1>4, <2>2, <2>3, <2>4 DEF InsertMac
  <1>5. CASE RefusePorts(r)
    BY <1>5 DEF RefusePorts
  <1>6. CASE MakeJob(r)
    BY <1>6 DEF MakeJob
  <1>7. CASE Enqueue(r)
    BY <1>7 DEF Enqueue
  <1>8. CASE Respond(r)
    BY <1>8 DEF Respond
  <1> QED
    BY <1>1, <1>2, <1>3, <1>4, <1>5, <1>6, <1>7, <1>8 DEF HandlerStep

LEMMA TypeStep ==
  ASSUME ProvInv, [Next]_vars
  PROVE  TypeOK'
  <1>0. StepCase
    BY StepCases
  <1>1. hosts' \subseteq HostRow /\ {h.id : h \in hosts'} = {h.id : h \in hosts}
    BY <1>0, HostsStay DEF SameHost
  <1>2. \A g, h \in hosts' : g.id = h.id \/ g.hostname = h.hostname => g = h
    <2>1. CASE hosts' = hosts
      BY <2>1 DEF ProvInv, TypeOK
    <2>2. ASSUME NEW n, NEW j, hosts' = Recreated(n, j),
                 NEW g \in hosts', NEW h \in hosts', g.id = h.id \/ g.hostname = h.hostname
          PROVE  g = h
      <3> DEFINE New(k) == IF k.hostname = n THEN [k EXCEPT !.created_by = j] ELSE k
      <3>1. \A k \in hosts : k \in HostRow
        BY DEF ProvInv, TypeOK
      <3>2. \A k \in hosts : New(k).id = k.id /\ New(k).hostname = k.hostname
        BY <3>1 DEF HostRow
      <3>3. hosts' = {New(k) : k \in hosts}
        BY <2>2 DEF Recreated
      <3> HIDE DEF New
      <3>4. PICK g0 \in hosts, h0 \in hosts : g = New(g0) /\ h = New(h0)
        BY <3>3
      <3>5. g0 = h0
        BY <2>2, <3>2, <3>4 DEF ProvInv, TypeOK
      <3> QED
        BY <3>4, <3>5
    <2>3. hosts' = hosts \/ \E row \in hosts, j \in Jobs : hosts' = Recreated(row.hostname, j)
      BY <1>0, JobsAre DEF StepCase, HandlerEffect, HostEffect, PortEffect, GiveUp, vars, db
    <2> QED
      BY <2>1, <2>2, <2>3
  <1>3. known' \subseteq Macs /\ macs' \in [Macs -> MacRow]
    BY <1>0 DEF StepCase, HandlerEffect, HostEffect, PortEffect, GiveUp, vars, db, ProvInv,
                TypeOK, MacRow
  <1>4. host' \in [Requests -> HostObject] /\ port' \in [PortJobs -> PortObject]
    BY <1>0 DEF StepCase, HandlerEffect, HostEffect, PortEffect, GiveUp, vars, objects, ProvInv,
                TypeOK, HostObject, PortObject
  <1>5. /\ at' \in [Jobs -> {"none", "made", "open", "finished", "failed"} \cup Running]
        /\ fails' \in [Jobs -> Nat] /\ err' \in [Jobs -> Codes]
    <2>1. CASE UNCHANGED job
      BY <2>1 DEF job, ProvInv, TypeOK
    <2>2. CASE \E j \in Jobs : JobMove(j)
      BY <2>2, JobMoveEffect DEF ProvInv
    <2> QED
      BY <2>1, <2>2, JobMoves DEF ProvInv
  <1>6. /\ asked' \in [Requests -> [ipmi: Ipmis \cup {None}, macs: SUBSET Macs]]
        /\ step' \in [Requests -> Steps] /\ todo' \in [Requests -> SUBSET Macs]
        /\ ports' \in [Requests -> SUBSET Macs]
        /\ missing' \in [Requests -> Macs \cup {None}]
        /\ erred' \in [Requests -> BOOLEAN]
        /\ answered' \in [Requests -> HostIds \cup {None}]
    <2>1. CASE UNCHANGED request
      BY <2>1 DEF request, ProvInv, TypeOK
    <2>2. CASE \E r \in Requests : HandlerStep(r)
      BY <2>2, RequestTypes
    <2> QED
      BY <1>0, <2>1, <2>2 DEF StepCase, HostEffect, PortEffect, GiveUp, vars
  <1>7. macs' \in [Macs -> [vlan: Nat \cup {None}, name: {"port", None}, jun: {"jun", None},
                            host: {h.id : h \in hosts'} \cup {None}]]
    BY <1>1, <1>3 DEF MacRow
  <1>8. writes' \subseteq Requests \X HostIds \X {"done", "lost"}
    <2>1. CASE writes' = writes
      BY <2>1 DEF ProvInv, TypeOK
    <2>2. ASSUME NEW r \in Requests, NEW row \in hosts, NEW o \in {"done", "lost"},
                 writes' = writes \cup {<<r, row.id, o>>}
          PROVE  writes' \subseteq Requests \X HostIds \X {"done", "lost"}
      <3>1. row.id \in HostIds
        BY DEF ProvInv, TypeOK, HostRow
      <3> QED
        BY <2>2, <3>1 DEF ProvInv, TypeOK
    <2> QED
      BY <1>0, <2>1, <2>2
      DEF StepCase, HandlerEffect, HostEffect, PortEffect, GiveUp, vars, db
  <1> QED
    BY <1>1, <1>2, <1>3, <1>4, <1>5, <1>6, <1>7, <1>8 DEF TypeOK, HostObject, PortObject

\* Other goroutines than the handler of r leave the request alone, and neither make
\* a job of it nor put one in the queue.
LEMMA OtherSteps ==
  ASSUME ProvInv, [Next]_vars, NEW r \in Requests, ~HandlerStep(r)
  PROVE  /\ asked'[r] = asked[r] /\ step'[r] = step[r] /\ todo'[r] = todo[r]
         /\ ports'[r] = ports[r] /\ missing'[r] = missing[r] /\ erred'[r] = erred[r]
         /\ answered'[r] = answered[r]
         /\ known \subseteq known'
         /\ \A j \in {HostJob(r)} \cup {<<r, m>> : m \in Macs} :
              at'[j] = at[j] \/ {at[j], at'[j]} \cap {"none", "made"} = {}
  <1> DEFINE own == {HostJob(r)} \cup {<<r, m>> : m \in Macs}
  <1>0. own \subseteq Jobs
    BY JobsAre
  <1> HIDE DEF own
  <1>1. CASE \E q \in Requests : HandlerStep(q) /\ HandlerEffect(q)
    <2>1. PICK q \in Requests : q # r /\ HandlerEffect(q)
      BY <1>1
    <2>2. own \cap RequestJobs(q) = {}
      BY <2>1 DEF own, RequestJobs, HostJob
    <2>3. \A j \in own : at'[j] = at[j]
      BY <1>0, <2>1, <2>2 DEF HandlerEffect
    <2> QED
      BY <2>1, <2>3 DEF HandlerEffect, own
  <1>2. CASE \E q \in Requests : HostEffect(q)
    <2>1. PICK q \in Requests : HostEffect(q)
      BY <1>2
    <2>2. \A j \in own : at'[j] = at[j] \/ {at[j], at'[j]} \cap {"none", "made"} = {}
      BY <1>0, <2>1 DEF HostEffect
    <2> QED
      BY <2>1, <2>2 DEF HostEffect, request, own
  <1>3. CASE \E k \in PortJobs : PortEffect(k)
    <2>1. PICK k \in PortJobs : PortEffect(k)
      BY <1>3
    <2>2. \A j \in own : at'[j] = at[j] \/ {at[j], at'[j]} \cap {"none", "made"} = {}
      BY <1>0, <2>1 DEF PortEffect
    <2> QED
      BY <2>1, <2>2 DEF PortEffect, request, own
  <1>4. CASE \E k \in Jobs : GiveUp(k)
    <2>1. PICK k \in Jobs : GiveUp(k)
      BY <1>4
    <2>2. \A j \in own : at'[j] = at[j] \/ {at[j], at'[j]} \cap {"none", "made"} = {}
      BY <1>0, <2>1 DEF GiveUp, GoTo, ProvInv, TypeOK
    <2> QED
      BY <2>1, <2>2 DEF GiveUp, request, db, own
  <1>5. CASE UNCHANGED vars
    BY <1>5 DEF vars, request, db, job, own
  <1> QED
    BY <1>1, <1>2, <1>3, <1>4, <1>5, StepCases DEF StepCase

LEMMA OrderedStep ==
  ASSUME ProvInv, [Next]_vars, NEW r \in Requests
  PROVE  Ordered(r)'
  <1>0. /\ Ordered(r) /\ HostJob(r) \in Jobs /\ \A m \in Macs : <<r, m>> \in Jobs
        /\ step \in [Requests -> Steps] /\ todo \in [Requests -> SUBSET Macs]
        /\ ports \in [Requests -> SUBSET Macs] /\ missing \in [Requests -> Macs \cup {None}]
        /\ at \in [Jobs -> {"none", "made", "open", "finished", "failed"} \cup Running]
        /\ None \notin Macs /\ "host" \notin Macs
    BY JobsAre, ProvisioningConfig DEF ProvInv, TypeOK, JobsInOrder
  <1>1. CASE ~HandlerStep(r)
    <2>1. HostJob(r)' = HostJob(r)
      BY DEF HostJob
    <2> QED
      BY <1>0, <1>1, <2>1, OtherSteps, ZenonT(60) DEF Ordered
  <1> USE <1>0 DEF Ordered, Refuse, HostJob
  <1>2. CASE Accept(r)
    BY <1>2 DEF Accept, job, db
  <1>3. CASE LookupIpmi(r)
    BY <1>3 DEF LookupIpmi, job
  <1>4. CASE \E m \in Macs : CheckMac(r, m)
    BY <1>4 DEF CheckMac, job, db
  <1>5. CASE InsertMac(r)
    BY <1>5 DEF InsertMac, job
  <1>6. CASE RefusePorts(r) \/ Respond(r)
    BY <1>6 DEF RefusePorts, Respond, job, db
  <1>7. CASE MakeJob(r)
    BY <1>7 DEF MakeJob, RequestJobs, db
  <1>8. CASE Enqueue(r)
    BY <1>8 DEF Enqueue, RequestJobs, db
  <1> QED
    BY <1>1, <1>2, <1>3, <1>4, <1>5, <1>6, <1>7, <1>8 DEF HandlerStep

LEMMA FilledStep ==
  ASSUME ProvInv, [Next]_vars, NEW r \in Requests
  PROVE  Filled(r)'
  <1>0. Filled(r) /\ Ordered(r) /\ HostJob(r) \in Jobs
    BY JobsAre DEF ProvInv, JobsInOrder, ObjectIsRow
  <1>1. /\ \A id : (\E h \in hosts : h.id = id) => \E g \in hosts' : g.id = id
        /\ \A o : (\E h \in hosts : SameHost(h, o)) => \E g \in hosts' : SameHost(g, o)
    BY StepCases, HostsStay DEF SameHost
  <1>2. CASE HostEffect(r)
    BY <1>1, <1>2 DEF HostEffect, Filled, HostJob, SameHost
  <1>3. CASE ~HandlerStep(r) /\ ~HostEffect(r)
    <2>1. host'[r] = host[r]
      BY <1>3, StepCases DEF StepCase, HandlerEffect, HostEffect, PortEffect, GiveUp, vars,
                             objects
    <2>2. at'[HostJob(r)] = at[HostJob(r)] \/ (at[HostJob(r)] # "none" /\ at'[HostJob(r)] # "update")
      <3>1. CASE \E j \in PortJobs : PortEffect(j)
        BY <1>0, <3>1, JobsAre DEF PortEffect
      <3>2. CASE \E j \in Jobs : GiveUp(j)
        BY <1>0, <3>2 DEF GiveUp, GoTo, ProvInv, TypeOK
      <3>3. CASE \E q \in Requests \ {r} : HandlerEffect(q)
        BY <1>0, <3>3 DEF HandlerEffect, RequestJobs, HostJob
      <3>4. CASE \E q \in Requests \ {r} : HostEffect(q)
        BY <1>0, <3>4, JobsAre DEF HostEffect
      <3>5. CASE UNCHANGED vars
        BY <3>5 DEF vars, job
      <3> QED
        BY <1>3, <3>1, <3>2, <3>3, <3>4, <3>5, StepCases DEF StepCase
    <2>3. step'[r] = step[r]
      BY <1>3, OtherSteps
    <2> QED
      BY <1>0, <1>1, <2>1, <2>2, <2>3 DEF Filled, HostJob, SameHost
  <1>4. CASE HandlerStep(r)
    <2>0. HandlerEffect(r)
      BY <1>4, HandlerFrame DEF ProvInv
    <2>1. /\ at'[HostJob(r)] = "update" <=> at[HostJob(r)] = "update"
          /\ at'[HostJob(r)] # "none" =>
               at[HostJob(r)] # "none" \/ step[r] = "macs"
      <3>1. CASE at'[HostJob(r)] = at[HostJob(r)]
        BY <3>1
      <3>2. CASE at'[HostJob(r)] # at[HostJob(r)]
        <4>1. \/ at[HostJob(r)] = "none" /\ at'[HostJob(r)] = "made"
              \/ at[HostJob(r)] = "made" /\ at'[HostJob(r)] = "open"
          BY <1>0, <2>0, <3>2 DEF HandlerEffect
        <4>2. at[HostJob(r)] = "none" => MakeJob(r)
          <5>1. at[HostJob(r)] = "none" => ~Enqueue(r)
            BY <1>0, <3>2, <4>1 DEF Enqueue, ProvInv, TypeOK
          <5>2. job' # job
            BY <3>2 DEF job
          <5> QED
            BY <1>4, <5>1, <5>2
            DEF HandlerStep, Accept, LookupIpmi, InsertMac, CheckMac, RefusePorts, Respond
        <4> QED
          BY <4>1, <4>2 DEF MakeJob
      <3> QED
        BY <3>1, <3>2
    <2>2. CASE step[r] \in {"new", "lookup"}
      <3>1. at'[HostJob(r)] = "none"
        BY <1>0, <2>1, <2>2 DEF Ordered
      <3>2. step'[r] \notin {"macs", "insertMac", "enqueue", "respond"} \/ GetOrCreate(r)
        BY <1>4, <2>2
        DEF HandlerStep, Accept, LookupIpmi, InsertMac, CheckMac, RefusePorts, MakeJob, Enqueue,
            Respond, Refuse, ProvInv, TypeOK
      <3>3. CASE GetOrCreate(r)
        <4>1. \E h \in hosts : h.id = host'[r].id
          BY <3>3, FilledIsRow DEF SameHost, ProvInv
        <4> QED
          BY <1>1, <3>1, <4>1 DEF Filled, HostJob
      <3> QED
        BY <3>1, <3>2, <3>3 DEF Filled, HostJob
    <2>3. CASE step[r] \notin {"new", "lookup"}
      <3>1. /\ host'[r] = host[r]
            /\ step[r] \in {"macs", "insertMac", "enqueue", "respond"}
        BY <1>4, <2>3
        DEF HandlerStep, Accept, LookupIpmi, InsertMac, CheckMac, RefusePorts, MakeJob, Enqueue,
            Respond, objects
      <3> QED
        BY <1>0, <1>1, <2>1, <3>1 DEF Filled, HostJob, SameHost
    <2> QED
      BY <2>2, <2>3
  <1> QED
    BY <1>2, <1>3, <1>4

LEMMA CompleteStep ==
  ASSUME ProvInv, [Next]_vars, NEW r \in Requests
  PROVE  Complete(r)'
  <1>0. /\ Complete(r) /\ Ordered(r)
        /\ asked \in [Requests -> [ipmi: Ipmis \cup {None}, macs: SUBSET Macs]]
        /\ step \in [Requests -> Steps] /\ todo \in [Requests -> SUBSET Macs]
        /\ ports \in [Requests -> SUBSET Macs] /\ missing \in [Requests -> Macs \cup {None}]
        /\ erred \in [Requests -> BOOLEAN]
        /\ asked[r].macs \subseteq Macs /\ None \notin Macs
    BY ProvisioningConfig DEF ProvInv, TypeOK, JobsInOrder, NothingLost
  <1>1. CASE ~HandlerStep(r)
    BY <1>0, <1>1, OtherSteps DEF Complete
  <1> USE <1>0 DEF Complete, Ordered, Refuse
  <1>2. CASE Accept(r)
    <2>1. PICK a \in Given, ms \in (SUBSET Macs) \ {{}} :
            /\ asked' = [asked EXCEPT ![r] = [ipmi |-> a, macs |-> ms]]
            /\ \/ todo' = [todo EXCEPT ![r] = ms] /\ step' = [step EXCEPT ![r] = "lookup"]
               \/ erred' = [erred EXCEPT ![r] = TRUE]
      BY <1>2 DEF Accept
    <2>2. asked'[r].macs = ms
      BY <2>1
    <2> QED
      BY <2>1, <2>2
  <1>3. CASE LookupIpmi(r)
    BY <1>3 DEF LookupIpmi
  <1>4. CASE \E m \in Macs : CheckMac(r, m)
    BY <1>4 DEF CheckMac
  <1>5. CASE InsertMac(r)
    BY <1>5 DEF InsertMac
  <1>6. CASE RefusePorts(r) \/ Respond(r)
    BY <1>6 DEF RefusePorts, Respond
  <1>7. CASE MakeJob(r)
    BY <1>7 DEF MakeJob
  <1>8. CASE Enqueue(r)
    BY <1>8 DEF Enqueue
  <1> QED
    BY <1>1, <1>2, <1>3, <1>4, <1>5, <1>6, <1>7, <1>8 DEF HandlerStep

LEMMA QueuedStep ==
  ASSUME ProvInv, [Next]_vars, NEW r \in Requests
  PROVE  Queued(r)'
  <1>0. /\ Queued(r) /\ Ordered(r) /\ Filled(r)
        /\ step \in [Requests -> Steps] /\ erred \in [Requests -> BOOLEAN]
        /\ answered \in [Requests -> HostIds \cup {None}]
        /\ at \in [Jobs -> {"none", "made", "open", "finished", "failed"} \cup Running]
        /\ RequestJobs(r) \subseteq Jobs
        /\ RequestJobs(r) \subseteq {HostJob(r)} \cup {<<r, m>> : m \in Macs}
    BY JobsAre DEF ProvInv, TypeOK, JobsInOrder, ObjectIsRow, JobsQueued, RequestJobs
  <1>1. ports'[r] = ports[r] => RequestJobs(r)' = RequestJobs(r)
    BY DEF RequestJobs, HostJob
  <1>2. \A id : (\E h \in hosts : h.id = id) => \E g \in hosts' : g.id = id
    BY StepCases, HostsStay DEF SameHost
  <1>3. CASE ~HandlerStep(r)
    BY <1>0, <1>1, <1>2, <1>3, OtherSteps, ZenonT(60) DEF Queued
  <1>4. CASE Accept(r) \/ LookupIpmi(r) \/ InsertMac(r) \/ RefusePorts(r)
    BY <1>0, <1>4 DEF Accept, LookupIpmi, InsertMac, RefusePorts, Refuse, Queued
  <1>5. CASE \E m \in Macs : CheckMac(r, m)
    BY <1>0, <1>5 DEF CheckMac, Queued
  <1>6. CASE MakeJob(r)
    <2>1. CASE Refuse(r)
      BY <1>0, <1>6, <2>1 DEF Refuse, MakeJob, Queued
    <2>2. CASE step' = [step EXCEPT ![r] = IF \E j \in RequestJobs(r) : at'[j] = "none"
                                           THEN "macs" ELSE "enqueue"]
      BY <1>0, <1>1, <1>6, <2>2 DEF MakeJob, Queued
    <2> QED
      BY <1>6, <2>1, <2>2 DEF MakeJob
  <1>7. CASE Enqueue(r)
    <2>1. /\ \A j \in RequestJobs(r) : at[j] # "none" /\ at'[j] # "none"
          /\ RequestJobs(r)' = RequestJobs(r)
      BY <1>0, <1>1, <1>7 DEF Enqueue, Queued
    <2> QED
      BY <1>0, <1>7, <2>1 DEF Enqueue, Queued
  <1>8. CASE Respond(r)
    <2>1. /\ \A j \in RequestJobs(r) : at'[j] \notin {"none", "made"}
          /\ RequestJobs(r)' = RequestJobs(r)
      BY <1>0, <1>1, <1>8 DEF Respond, Queued, job
    <2>2. ~erred'[r] => \E h \in hosts' : h.id = answered'[r]
      BY <1>0, <1>2, <1>8 DEF Respond, Filled
    <2> QED
      BY <1>0, <1>8, <2>1, <2>2 DEF Respond, Queued
  <1> QED
    BY <1>3, <1>4, <1>5, <1>6, <1>7, <1>8 DEF HandlerStep

\* Only the last statement of a host job makes it a creator, and is on record; what
\* is on record stays.
LEMMA WritesStay ==
  ASSUME ProvInv, [Next]_vars
  PROVE  /\ writes \subseteq writes'
         /\ \A r \in Requests : \A id : Recorded(r, id) => Recorded(r, id)'
  <1>1. writes \subseteq writes'
    BY StepCases
    DEF StepCase, HandlerEffect, HostEffect, PortEffect, GiveUp, vars, db
  <1> QED
    BY <1>1 DEF Recorded

LEMMA CreatorStep ==
  ASSUME ProvInv, [Next]_vars
  PROVE  CreatorsRecorded' /\ DoneOnce'
  <1>0. /\ \A q \in Requests : at[HostJob(q)] = "finished" => at'[HostJob(q)] = "finished"
        /\ CreatorsRecorded /\ DoneOnce
    BY JobsAre, FinishedStays DEF ProvInv
  <1>1. CASE UNCHANGED <<hosts, writes>>
    BY <1>0, <1>1 DEF CreatorsRecorded, DoneOnce, Recorded, HostJob
  <1>2. ASSUME NEW r \in Requests, NEW row \in hosts, NEW o \in {"done", "lost"},
               hosts' = Recreated(row.hostname, HostJob(r)),
               writes' = writes \cup {<<r, row.id, o>>},
               at[HostJob(r)] # "finished",
               o = "done" => at'[HostJob(r)] = "finished"
        PROVE  CreatorsRecorded' /\ DoneOnce'
    <2> DEFINE New(h) == IF h.hostname = row.hostname THEN [h EXCEPT !.created_by = HostJob(r)]
                                                      ELSE h
    <2>1. hosts' = {New(h) : h \in hosts}
      BY <1>2 DEF Recreated
    <2>2. \A h \in hosts : /\ New(h).id = h.id
                           /\ New(h).created_by = IF h = row THEN HostJob(r) ELSE h.created_by
      BY DEF ProvInv, TypeOK, HostRow
    <2> HIDE DEF New
    <2>3. ASSUME NEW q \in Requests, NEW h \in hosts, New(h).created_by = HostJob(q)
          PROVE  \E w \in {"done", "lost"} : <<q, h.id, w>> \in writes'
      <3>1. CASE h = row
        <4>1. q = r
          BY <2>2, <2>3, <3>1, JobsAre
        <4> QED
          BY <1>2, <3>1, <4>1
      <3>2. CASE h # row
        BY <1>0, <1>2, <2>2, <2>3, <3>2 DEF CreatorsRecorded, Recorded
      <3> QED
        BY <3>1, <3>2
    <2>4. CreatorsRecorded'
      BY <2>1, <2>2, <2>3 DEF CreatorsRecorded, Recorded, HostJob
    <2>5. \A i : <<r, i, "done">> \in writes' => o = "done" /\ i = row.id
      <3>1. \A i : <<r, i, "done">> \in writes => i \in HostIds
        BY DEF ProvInv, TypeOK
      <3> QED
        BY <1>0, <1>2, <3>1 DEF DoneOnce
    <2>6. \A q \in Requests \ {r} : \A i : <<q, i, "done">> \in writes' <=> <<q, i, "done">> \in writes
      BY <1>2
    <2>7. ASSUME NEW q \in Requests, NEW i \in HostIds, <<q, i, "done">> \in writes'
          PROVE  /\ at'[HostJob(q)] = "finished"
                 /\ \A k \in HostIds : <<q, k, "done">> \in writes' => i = k
      <3>1. CASE q = r
        BY <1>2, <2>5, <2>7, <3>1
      <3>2. CASE q # r
        BY <1>0, <2>6, <2>7, <3>2 DEF DoneOnce
      <3> QED
        BY <3>1, <3>2
    <2>8. DoneOnce'
      BY <2>7 DEF DoneOnce, HostJob
    <2> QED
      BY <2>4, <2>8
  <1>3. ASSUME NEW r \in Requests, HostEffect(r)
        PROVE  CreatorsRecorded' /\ DoneOnce'
    <2>1. at[HostJob(r)] # "finished"
      BY <1>3 DEF HostEffect
    <2> QED
      BY <1>1, <1>2, <1>3, <2>1 DEF HostEffect
  <1>4. ~(\E r \in Requests : HostEffect(r)) => UNCHANGED <<hosts, writes>>
    BY StepCases DEF StepCase, HandlerEffect, PortEffect, GiveUp, vars, db
  <1> QED
    BY <1>1, <1>3, <1>4

LEMMA ProgressStep ==
  ASSUME ProvInv, [Next]_vars, NEW j \in PortJobs
  PROVE  Progress(j)'
  <1>0. /\ Progress(j) /\ j \in Jobs /\ j[2] \in Macs /\ j[1] \in Requests
        /\ at \in [Jobs -> {"none", "made", "open", "finished", "failed"} \cup Running]
        /\ port \in [PortJobs -> PortObject] /\ macs \in [Macs -> MacRow]
    BY JobsAre DEF ProvInv, PortProgress, TypeOK, PortObject, MacRow
  <1>1. (\E h \in hosts : /\ h.id = port[j].link /\ h.hostname = port[j].lldp
                         /\ Recorded(j[1], h.id))
          => \E g \in hosts' : /\ g.id = port[j].link /\ g.hostname = port[j].lldp
                              /\ Recorded(j[1], g.id)'
    <2>1. \A id : Recorded(j[1], id) => Recorded(j[1], id)'
      BY <1>0, WritesStay
    <2>2. \A h \in hosts : \E g \in hosts' : g.id = h.id /\ g.hostname = h.hostname
      BY StepCases, HostsStay DEF SameHost
    <2> QED
      BY <2>1, <2>2
  <1>2. at[j] # "none" => j[2] \in known
    BY JobsAre DEF ProvInv, JobsInOrder, Ordered
  <1>3. CASE /\ at'[j] \in {at[j], "made", "open", "failing", "failed"}
             /\ port'[j] = port[j]
             /\ Placed(macs[j[2]]) => Placed(macs'[j[2]])
             /\ macs[j[2]].host # None => macs'[j[2]].host # None
    BY <1>0, <1>1, <1>3 DEF Progress, Placed
  <1>4. CASE \E r \in Requests : HandlerEffect(r) \/ HostEffect(r)
    <2>1. /\ at'[j] \in {at[j], "made", "open"}
          /\ UNCHANGED <<port, macs>>
      BY <1>0, <1>4, JobsAre DEF HandlerEffect, HostEffect
    <2> QED
      BY <1>3, <2>1
  <1>5. CASE (\E k \in Jobs : GiveUp(k)) \/ UNCHANGED vars
    <2>1. /\ at'[j] \in {at[j], "failed"}
          /\ UNCHANGED <<port, macs>>
      BY <1>0, <1>5 DEF GiveUp, GoTo, vars, job, db, objects
    <2> QED
      BY <1>3, <2>1
  <1>6. CASE \E k \in PortJobs \ {j} : PortEffect(k)
    <2>1. PICK k \in PortJobs \ {j} : PortEffect(k)
      BY <1>6
    <2>2. at'[j] = at[j] /\ port'[j] = port[j]
      BY <1>0, <2>1 DEF PortEffect
    <2>3. /\ Placed(macs[j[2]]) => Placed(macs'[j[2]])
          /\ macs[j[2]].host # None => macs'[j[2]].host # None
      <3>1. CASE j[2] = k[2]
        BY <2>1, <3>1 DEF PortEffect
      <3>2. CASE j[2] # k[2]
        BY <1>0, <2>1, <3>2 DEF PortEffect
      <3> QED
        BY <3>1, <3>2
    <2> QED
      BY <1>3, <2>2, <2>3
  <1>7. CASE PortStep(j)
    <2>g. \A to : GoTo(j, to) => at'[j] = to
      BY <1>0 DEF GoTo
    <2>f. \A code : Fail(j, code) => at'[j] \in {"failing", "open"}
      BY <1>0 DEF Fail
    <2>e. CASE \E code : Fail(j, code)
      BY <2>e, <2>f DEF Progress
    <2>1. CASE Query(j)
      <3>1. CASE GoTo(j, "save") /\ Placed(port'[j])
        BY <2>g, <3>1 DEF Progress, Placed
      <3> QED
        BY <2>1, <2>e, <3>1, QueryOutcome DEF ProvInv
    <2>2. CASE SaveMac(j)
      <3>1. CASE GoTo(j, "creator") /\ Placed(macs'[j[2]])
        <4>1. Placed(port'[j])
          BY <1>0, <2>2 DEF SaveMac, Progress, objects, Placed
        <4> QED
          BY <2>g, <3>1, <4>1 DEF Progress, Placed
      <3>2. ASSUME GoTo(j, "creator") PROVE Placed(macs'[j[2]])
        <4>1. at'[j] = "creator" /\ at[j] = "save" /\ Placed(port[j]) /\ j[2] \in known
          BY <1>0, <1>2, <2>g, <2>2, <3>2 DEF SaveMac, Progress
        <4>2. PICK o \in Outcomes(TRUE) :
                /\ macs' = IF o = "refused" \/ j[2] \notin known THEN macs
                           ELSE [macs EXCEPT ![j[2]] =
                                   [@ EXCEPT !.vlan = port[j].vlan, !.name = port[j].name,
                                             !.jun = port[j].jun]]
                /\ EndStatement(j, o, "creator")
          BY <2>2 DEF SaveMac
        <4>3. o = "done"
          BY <2>f, <4>1, <4>2 DEF EndStatement
        <4>4. macs'[j[2]] = [macs[j[2]] EXCEPT !.vlan = port[j].vlan, !.name = port[j].name,
                                               !.jun = port[j].jun]
          BY <1>0, <4>1, <4>2, <4>3
        <4>5. macs[j[2]] \in MacRow
          BY <1>0
        <4> QED
          BY <4>1, <4>4, <4>5 DEF MacRow, Placed
      <3> QED
        BY <2>2, <2>e, <3>1, <3>2 DEF SaveMac, EndStatement
    <2>3. CASE FindHost(j)
      <3>1. CASE \E h \in hosts : /\ {g \in hosts : g.created_by = HostJob(j[1])} = {h}
                                  /\ port' = [port EXCEPT ![j] = [@ EXCEPT !.link = h.id]]
                                  /\ port[j].lldp = h.hostname /\ GoTo(j, "link")
        <4>1. PICK h \in hosts : /\ h.created_by = HostJob(j[1])
                                 /\ port' = [port EXCEPT ![j] = [@ EXCEPT !.link = h.id]]
                                 /\ port[j].lldp = h.hostname /\ GoTo(j, "link")
          BY <3>1
        <4>2. /\ port'[j].link = h.id /\ port'[j].lldp = h.hostname
              /\ Placed(port[j]) => Placed(port'[j])
          BY <1>0, <4>1 DEF PortObject, Placed
        <4>3. at[j] = "creator" /\ UNCHANGED macs /\ hosts' = hosts /\ writes' = writes
          BY <2>3 DEF FindHost, db
        <4>4. Recorded(j[1], h.id)'
          BY <1>0, <4>1, <4>3 DEF ProvInv, CreatorsRecorded, Recorded
        <4> QED
          BY <1>0, <2>g, <4>1, <4>2, <4>3, <4>4 DEF Progress, Placed
      <3> QED
        BY <2>3, <2>e, <3>1 DEF FindHost
    <2>4. CASE Link(j)
      <3>1. ASSUME GoTo(j, "finished")
            PROVE  Placed(macs'[j[2]]) /\ Placed(port'[j]) /\ macs'[j[2]].host # None
        <4>1. /\ at'[j] = "finished" /\ at[j] = "link" /\ j[2] \in known
              /\ Placed(port[j]) /\ Placed(macs[j[2]]) /\ port' = port
          BY <1>0, <1>2, <2>g, <2>4, <3>1 DEF Link, Progress, objects
        <4>2. PICK o \in Outcomes(\E h \in hosts : h.id = port[j].link) :
                /\ macs' = IF o = "refused" \/ j[2] \notin known THEN macs
                           ELSE [macs EXCEPT ![j[2]].host = port[j].link]
                /\ EndStatement(j, o, "finished")
          BY <2>4 DEF Link
        <4>3. o = "done" /\ \E h \in hosts : h.id = port[j].link
          BY <2>f, <4>1, <4>2 DEF EndStatement, Outcomes
        <4>4. macs'[j[2]] = [macs[j[2]] EXCEPT !.host = port[j].link]
          BY <1>0, <4>1, <4>2, <4>3
        <4>5. macs[j[2]] \in MacRow /\ port[j].link # None
          BY <1>0, <4>3, ProvisioningConfig DEF ProvInv, TypeOK, HostRow
        <4> QED
          BY <4>1, <4>4, <4>5 DEF MacRow, Placed
      <3>2. CASE GoTo(j, "finished")
        BY <2>g, <3>1, <3>2 DEF Progress
      <3> QED
        BY <2>4, <2>e, <3>2 DEF Link, EndStatement
    <2> QED
      BY <1>7, <2>1, <2>2, <2>3, <2>4 DEF PortStep
  <1> QED
    BY <1>4, <1>5, <1>6, <1>7, StepCases DEF StepCase

\* A link is only written by linkWithHost(), of the host that was compared before.
LEMMA LinkedStep ==
  ASSUME ProvInv, [Next]_vars, NEW m \in Macs, macs'[m].host # macs[m].host
  PROVE  \E r \in Requests, h \in hosts' :
           /\ h.id = macs'[m].host /\ h.hostname = port'[<<r, m>>].lldp
           /\ Recorded(r, h.id)
  <1>1. PICK j \in PortJobs : PortStep(j) /\ PortEffect(j)
    BY StepCases DEF StepCase, HandlerEffect, HostEffect, GiveUp, vars, db
  <1>2. /\ m = j[2] /\ at[j] = "link" /\ hosts' = hosts /\ j = <<j[1], m>> /\ j[1] \in Requests
    BY <1>1, JobsAre DEF PortEffect
  <1>3. Link(j)
    BY <1>1, <1>2 DEF PortStep, Query, SaveMac, FindHost
  <1>4. UNCHANGED port /\ macs'[m].host = port[j].link
    <2>1. macs[m] \in MacRow /\ macs \in [Macs -> MacRow]
      BY DEF ProvInv, TypeOK, MacRow
    <2>2. macs' = [macs EXCEPT ![m] = [@ EXCEPT !.host = port[j].link]]
      BY <1>2, <1>3 DEF Link
    <2> QED
      BY <1>3, <2>1, <2>2 DEF Link, objects, MacRow
  <1>5. PICK h \in hosts : /\ h.id = port[j].link /\ h.hostname = port[j].lldp
                           /\ Recorded(j[1], h.id)
    BY <1>1, <1>2 DEF ProvInv, PortProgress, Progress
  <1> QED
    BY <1>2, <1>4, <1>5

LEMMA ProvStep == ProvInv /\ [Next]_vars => ProvInv'
  <1> SUFFICES ASSUME ProvInv, [Next]_vars PROVE ProvInv'
    OBVIOUS
  <1>1. JobsInOrder' /\ ObjectIsRow' /\ NothingLost' /\ JobsQueued'
    BY OrderedStep, FilledStep, CompleteStep, QueuedStep
    DEF JobsInOrder, ObjectIsRow, NothingLost, JobsQueued
  <1>2. PortProgress'
    BY ProgressStep DEF PortProgress, PortJobs
  <1> QED
    BY <1>1, <1>2, TypeStep, CreatorStep DEF ProvInv

LEMMA ProvInvariant == Spec => []ProvInv
  BY ProvInit, ProvStep, PTL DEF Spec

-----------------------------------------------------------------------------
(* The theorems. *)

\* For any number of requests, jobs and workers, rows and objects keep their types,
\* and the rows their keys.
THEOREM ProvisioningTypeCorrect == Spec => []TypeOK
  <1>1. ProvInv => TypeOK
    BY DEF ProvInv
  <1> QED
    BY <1>1, ProvInvariant, PTL

\* Two rows of one creator, which getTinyHostByJobId() reports as a broken DB, are only
\* there when the acknowledgement of an UPDATE of one of them was lost.
THEOREM UniqueCreatorCorrect == Spec => []UniqueCreator
  <1>1. ProvInv => UniqueCreator
    <2> SUFFICES ASSUME ProvInv, NEW r \in Requests, NEW g \in hosts, NEW h \in hosts,
                        g.created_by = HostJob(r), h.created_by = HostJob(r), g # h
                 PROVE  \E k \in {g, h} : <<r, k.id, "lost">> \in writes
      BY DEF UniqueCreator
    <2>1. Recorded(r, g.id) /\ Recorded(r, h.id)
      BY DEF ProvInv, CreatorsRecorded
    <2>2. g.id \in HostIds /\ h.id \in HostIds /\ g.id # h.id
      BY DEF ProvInv, TypeOK, HostRow
    <2> QED
      BY <2>1, <2>2 DEF Recorded, ProvInv, DoneOnce
  <1> QED
    BY <1>1, ProvInvariant, PTL

\* A MAC gets another host only when the host job of one request has had that host
\* recorded and the switch has given its name to the port job of the same request.
THEOREM LinkedAsReportedCorrect == Spec => LinkedAsReported
  <1>1. ProvInv /\ [Next]_vars
          => \A m \in Macs : macs'[m].host # macs[m].host =>
               \E r \in Requests, h \in hosts' :
                 /\ h.id = macs'[m].host /\ h.hostname = port'[<<r, m>>].lldp
                 /\ Recorded(r, h.id)
    BY LinkedStep
  <1> QED
    BY <1>1, ProvInvariant, PTL DEF Spec, LinkedAsReported

\* What a finished port job has written stays in the table macs.
THEOREM PortDoneIsOnRecordCorrect == Spec => []PortDoneIsOnRecord
  <1>1. ProvInv => PortDoneIsOnRecord
    <2> SUFFICES ASSUME ProvInv, NEW j \in PortJobs, at[j] = "finished"
                 PROVE  j[2] \in known /\ Placed(macs[j[2]]) /\ macs[j[2]].host # None
      BY DEF PortDoneIsOnRecord, Placed
    <2>1. j[1] \in Requests /\ j[2] \in Macs /\ j = <<j[1], j[2]>>
      BY JobsAre
    <2>2. j[2] \in known
      BY <2>1 DEF ProvInv, JobsInOrder, Ordered
    <2> QED
      BY <2>2 DEF ProvInv, PortProgress, Progress
  <1> QED
    BY <1>1, ProvInvariant, PTL

\* A response without errors is only sent when each MAC of the request and its host
\* have a job in the queue, and names a host of the database.
THEOREM CreatedMeansQueuedCorrect == Spec => []CreatedMeansQueued
  <1>1. ProvInv => CreatedMeansQueued
    <2> SUFFICES ASSUME ProvInv, NEW r \in Requests, step[r] = "done", ~erred[r]
                 PROVE  /\ \A j \in {HostJob(r)} \cup {<<r, m>> : m \in asked[r].macs} :
                             at[j] \notin {"none", "made"}
                        /\ \E h \in hosts : h.id = answered[r]
      BY DEF CreatedMeansQueued
    <2>1. asked[r].macs \subseteq Macs /\ None \notin Macs
      BY ProvisioningConfig DEF ProvInv, TypeOK
    <2>2. asked[r].macs \subseteq ports[r]
      BY <2>1 DEF ProvInv, NothingLost, Complete
    <2>3. {HostJob(r)} \cup {<<r, m>> : m \in asked[r].macs} \subseteq RequestJobs(r)
      BY <2>2 DEF RequestJobs
    <2> QED
      BY <2>3 DEF ProvInv, JobsQueued, Queued
  <1> QED
    BY <1>1, ProvInvariant, PTL

\* In any order of any requests no host gets another id, name or address, none is
\* added and none is taken away.
THEOREM HostIdentityCorrect == Spec => HostIdentity
  <1>1. ProvInv /\ [Next]_vars
          => {<<h.id, h.hostname, h.ipmi>> : h \in hosts}'
               = {<<h.id, h.hostname, h.ipmi>> : h \in hosts}
    <2> SUFFICES ASSUME ProvInv, [Next]_vars
                 PROVE  {<<h.id, h.hostname, h.ipmi>> : h \in hosts'}
                          = {<<h.id, h.hostname, h.ipmi>> : h \in hosts}
      OBVIOUS
    <2> QED
      BY StepCases, HostsStay DEF SameHost
  <1> QED
    BY <1>1, ProvInvariant, PTL DEF Spec, HostIdentity

-----------------------------------------------------------------------------
(* The jobs of the requests are jobs of JobLife. *)

Phases == [j \in Jobs |-> Phase(at[j])]

LEMMA RetriesStep ==
  ASSUME TypeOK, RetriesCounted, [Next]_vars
  PROVE  RetriesCounted'
  <1>1. CASE UNCHANGED job
    BY <1>1 DEF RetriesCounted, job
  <1>2. ASSUME NEW j \in Jobs, JobMove(j), JobRetryMaxFails # 0,
               NEW k \in Jobs, fails'[k] = JobRetryMaxFails
        PROVE  at'[k] \in {"failing", "failed"}
    <2>1. CASE k # j
      BY <1>2, <2>1, JobMoveEffect DEF RetriesCounted
    <2>2. CASE k = j /\ \E to : GoTo(j, to)
      <3>1. at[j] \in {"failing", "failed"}
        BY <1>2, <2>2 DEF GoTo, RetriesCounted
      <3>2. at[j] = "failing" /\ GoTo(j, "failed")
        BY <1>2, <2>2, <3>1 DEF JobMove, Fail, GoTo, TypeOK, Running
      <3> QED
        BY <2>2, <3>2 DEF GoTo, TypeOK
    <2>3. CASE k = j /\ \E code \in Codes : Fail(j, code)
      BY <1>2, <2>3 DEF Fail, TypeOK
    <2> QED
      BY <1>2, <2>1, <2>2, <2>3 DEF JobMove
  <1> QED
    BY <1>1, <1>2, JobMoves DEF RetriesCounted

LEMMA LifeMove ==
  ASSUME TypeOK, RetriesCounted, JobRetryMaxFails # 0, NEW j \in Jobs, JobMove(j)
  PROVE  Life!Next \/ UNCHANGED Life!vars
  <1>1. ASSUME NEW to, at' = [at EXCEPT ![j] = to]
        PROVE  Phases' = [Phases EXCEPT ![j] = Phase(to)]
    BY <1>1 DEF Phases, TypeOK
  <1>2. CASE at[j] = "none" /\ GoTo(j, "made")
    <2>1. Phase("made") = Phases[j]
      BY <1>2 DEF Phase, Phases
    <2>2. Phases' = Phases /\ fails' = fails
      BY <1>1, <1>2, <2>1 DEF GoTo, Phases
    <2> QED
      BY <2>2 DEF Life!vars, Phases
  <1>3. CASE at[j] = "made" /\ GoTo(j, "open")
    <2>1. Phases[j] = "new" /\ Phase("open") = "open"
      BY <1>3 DEF Phase, Phases
    <2>2. Life!Open(j)
      BY <1>1, <1>3, <2>1 DEF GoTo, Life!Open, Phases
    <2> QED
      BY <2>2 DEF Life!Next
  <1>4. CASE /\ at[j] \in {"open"} \cup Running
             /\ \E to \in {"failed", "finished"} : GoTo(j, to)
    <2>1. PICK to \in {"failed", "finished"} : GoTo(j, to)
      BY <1>4
    <2>2. Phases[j] = "open" /\ Phase(to) = "settled"
      BY <1>4 DEF Phase, Phases, Running
    <2>3. Life!Settle(j)
      BY <1>1, <2>1, <2>2 DEF GoTo, Life!Settle, Phases
    <2> QED
      BY <2>3 DEF Life!Next
  <1>5. CASE /\ at[j] \in {"open"} \cup (Running \ {"failing"})
             /\ \E to \in Running \ {"failing"} : GoTo(j, to)
    <2>1. PICK to \in Running \ {"failing"} : GoTo(j, to)
      BY <1>5
    <2>2. Phase(to) = Phases[j]
      BY <1>5 DEF Phase, Phases, Running
    <2>3. Phases' = Phases /\ fails' = fails
      BY <1>1, <2>1, <2>2 DEF GoTo, Phases
    <2> QED
      BY <2>3 DEF Life!vars, Phases
  <1>6. CASE /\ at[j] \in {"open"} \cup (Running \ {"failing"})
             /\ \E code \in Codes : Fail(j, code)
    <2>1. PICK to \in {"failing", "open"} : at' = [at EXCEPT ![j] = to]
      BY <1>6 DEF Fail
    <2>2. Phases[j] = "open" /\ Phase(to) = "open"
      BY <1>6 DEF Phase, Phases, Running
    <2>3. Phases' = Phases
      BY <1>1, <2>1, <2>2 DEF Phases
    <2>4. fails[j] # JobRetryMaxFails /\ fails' = [fails EXCEPT ![j] = @ + 1]
      BY <1>6 DEF Fail, RetriesCounted, Running
    <2>5. Life!FailAttempt(j)
      BY <2>2, <2>3, <2>4 DEF Life!FailAttempt, Phases
    <2> QED
      BY <2>5 DEF Life!Next
  <1>7. CASE at[j] = "failing" /\ GoTo(j, "failed")
    BY <1>4, <1>7 DEF Running
  <1> QED
    BY <1>2, <1>3, <1>4, <1>5, <1>6, <1>7 DEF JobMove

\* To each job of a request the queue keeps the promise of JobLife, if a maximum of
\* failures is configured.
THEOREM RequestJobsLive ==
  ASSUME JobRetryMaxFails # 0 PROVE Spec => LifeSpec
  <1>1. Init => Life!Init /\ RetriesCounted
    BY DEF Init, Life!Init, RetriesCounted, Phase
  <1>2. TypeOK /\ RetriesCounted /\ [Next]_vars => RetriesCounted'
    BY RetriesStep
  <1>3. TypeOK /\ RetriesCounted /\ [Next]_vars => [Life!Next]_(Life!vars)
    <2> SUFFICES ASSUME TypeOK, RetriesCounted, [Next]_vars
                 PROVE  Life!Next \/ UNCHANGED Life!vars
      OBVIOUS
    <2>1. CASE UNCHANGED job
      BY <2>1 DEF job, Life!vars
    <2>2. CASE \E j \in Jobs : JobMove(j)
      BY <2>2, LifeMove
    <2> QED
      BY <2>1, <2>2, JobMoves
  <1> QED
    BY <1>1, <1>2, <1>3, ProvisioningTypeCorrect, PTL DEF Spec, LifeSpec, Life!Spec
=============================================================================
