---------------------------- MODULE Provisioning ----------------------------
(***************************************************************************)
(* What the requests of app/server do to the tables hosts and macs:        *)
(* POST /v1/host (httpHandlerHostCreate) and the two kinds of jobs it      *)
(* queues, the host job (host.go) and one port job per MAC (port.go).      *)
(* Every SQL statement is a step; between two statements of one goroutine  *)
(* any other goroutine may run.  The queue itself is JobQueue.tla: here a  *)
(* job waits, is executed by one of the workers, and is retried.           *)
(*                                                                         *)
(*   request --ipmi--> hosts <--- host job of the request (created_by)     *)
(*      |                 ^                                                *)
(*      +-----mac----> macs.host <--- port job: finds the host by its      *)
(*                                    created_by, compares, links          *)
(***************************************************************************)
EXTENDS Integers, FiniteSets

CONSTANTS
  Requests,          (* the requests; each names the uuid of its newHost() *)
  Macs,              (* MAC addresses                                      *)
  Ipmis,             (* IPMI addresses                                     *)
  Given,             (* those that a request may give                      *)
  CIDRBlock,         (* those in Base.Ipmi.CIDRBlock                       *)
  Names,             (* host names                                         *)
  OldHosts,          (* the rows of hosts at the start                     *)
  DnsAnswers,        (* what a reverse lookup may answer; None: no one name *)
  RsviewAnswers,     (* what rsview may answer about a MAC; None: an error *)
  BadVlans,          (* the configured VLANs that are no 16-bit numbers    *)
  Workers,           (* Base.Queue.Workers, a number                       *)
  JobRetryMaxFails,  (* Base.Queue.JobRetryMaxFails                        *)
  Disturbances,      (* what the environment may do                        *)
  None               (* NULL, nil, the empty string                        *)

HostIds == Requests \cup {h.id : h \in OldHosts}
Jobs    == Requests \X ({"host"} \cup Macs)

\* created_by None: by a job from before these requests.
HostRow == [id: HostIds, hostname: Names, ipmi: Ipmis, created_by: Jobs \cup {None}]

\* What an rsview page says that Base.Rsview.AllowRules allows: the name of the
\* port, that of the switch (jun), and VLANs, numbered in the order of the rules.
Answer == [vlans: SUBSET Nat, name: {"port", None}, jun: {"jun", None},
           lldp: Names \cup {None}]

\* OldHosts respects the keys of the table hosts; an address may occur twice.
ASSUME ProvisioningConfig ==
  /\ Given \cup CIDRBlock \subseteq Ipmis
  /\ DnsAnswers \subseteq Names \cup {None}
  /\ RsviewAnswers \subseteq Answer \cup {None}
  /\ BadVlans \subseteq Nat
  /\ OldHosts \subseteq HostRow
  /\ \A g, h \in OldHosts :
       g.id = h.id \/ g.hostname = h.hostname => g = h
  /\ \A h \in OldHosts : h.id \notin Requests /\ h.created_by = None
  /\ Workers \in Nat \ {0}
  /\ JobRetryMaxFails \in Nat
  /\ Disturbances \subseteq {"dbfault", "lost"}
  /\ "host" \notin Macs
  /\ None \notin HostIds \cup Macs \cup Ipmis \cup Names \cup Nat \cup Jobs
  /\ None \notin {"vlan", "common", "port", "jun", "lldp"}

VARIABLES
  hosts,    (* table hosts                                                 *)
  known,    (* the keys of table macs                                      *)
  macs,     (* macs[m]: the other columns of row m: vlan, name, jun, host  *)
  writes,   (* auxiliary, read by properties only: the rows of hosts the   *)
            (* statement of a host job was executed for, and its outcome   *)
  asked,    (* asked[r]: the addresses request r gives                     *)
  step,     (* step[r]: where the handler of r is                          *)
  todo,     (* todo[r]: the MACs the handler has still to parse            *)
  ports,    (* ports[r]: the MACs that have a basePort                     *)
  missing,  (* missing[r]: the MAC it has looked up and must insert        *)
  erred,    (* erred[r]: errors were appended to the request               *)
  answered, (* answered[r]: the host id in the 201 response                *)
  host,     (* host[r]: the baseHost shared by the handler and the job     *)
  port,     (* port[j]: the basePort of a port job                         *)
  at,       (* at[j]: where job j is                                       *)
  fails,    (* fails[j] = len(j.errors)                                    *)
  err       (* err[j]: the code of its last error                          *)

db      == <<hosts, known, macs, writes>>
request == <<asked, step, todo, ports, missing, erred, answered>>
objects == <<host, port>>
job     == <<at, fails, err>>
vars    == <<db, request, objects, job>>

Steps   == {"new", "lookup", "macs", "insertMac", "enqueue",
            "respond", "done"}
Running == {"find", "reread", "create", "update", "save", "creator", "link",
            "failing"}
Codes   == {"sql", "common", "cidr", "vlan", "port", "jun", "lldp", "mismatch",
            "rsview", "hostNotFound", None}

HostJob(r) == <<r, "host">>
PortJobs   == Requests \X Macs
NoPort     == [vlan |-> None, name |-> None, jun |-> None, lldp |-> None,
               link |-> None]

\* Rows and objects have the types of their columns and fields, and every row
\* satisfies the NOT NULL, primary, unique and foreign keys of extras/migrations.
TypeOK ==
  /\ hosts \subseteq HostRow
  /\ \A g, h \in hosts : g.id = h.id \/ g.hostname = h.hostname => g = h
  /\ known \subseteq Macs
  /\ macs \in [Macs -> [vlan: Nat \cup {None}, name: {"port", None},
                        jun: {"jun", None},
                        host: {h.id : h \in hosts} \cup {None}]]
  /\ writes \subseteq Requests \X HostIds \X {"done", "lost"}
  /\ asked \in [Requests -> [ipmi: Ipmis \cup {None}, macs: SUBSET Macs]]
  /\ step \in [Requests -> Steps]
  /\ todo \in [Requests -> SUBSET Macs]
  /\ ports \in [Requests -> SUBSET Macs]
  /\ missing \in [Requests -> Macs \cup {None}]
  /\ erred \in [Requests -> BOOLEAN]
  /\ answered \in [Requests -> HostIds \cup {None}]
  /\ host \in [Requests -> [id: HostIds, hostname: Names \cup {None},
                            ipmi: Ipmis \cup {None}]]
  /\ port \in [PortJobs -> [vlan: Nat \cup {None}, name: {"port", None},
                            jun: {"jun", None}, lldp: Names \cup {None},
                            link: HostIds \cup {None}]]
  /\ at \in [Jobs -> {"none", "made", "open", "finished", "failed"} \cup Running]
  /\ fails \in [Jobs -> Nat]
  /\ err \in [Jobs -> Codes]

Init ==
  /\ hosts = OldHosts
  /\ known = {}
  /\ macs = [m \in Macs |-> [vlan |-> None, name |-> None, jun |-> None,
                          host |-> None]]
  /\ writes = {}
  /\ asked = [r \in Requests |-> [ipmi |-> None, macs |-> {}]]
  /\ step = [r \in Requests |-> "new"]
  /\ todo = [r \in Requests |-> {}]
  /\ ports = [r \in Requests |-> {}]
  /\ missing = [r \in Requests |-> None]
  /\ erred = [r \in Requests |-> FALSE]
  /\ answered = [r \in Requests |-> None]
  /\ host = [r \in Requests |-> [id |-> r, hostname |-> None, ipmi |-> None]]
  /\ port = [j \in PortJobs |-> NoPort]
  /\ at = [j \in Jobs |-> "none"]
  /\ fails = [j \in Jobs |-> 0]
  /\ err = [j \in Jobs |-> None]

-----------------------------------------------------------------------------
(* The statements, and the table hosts. *)

\* A statement may fail only if the database may.
DbFault == "dbfault" \in Disturbances

\* What becomes of a statement that the keys of the tables allow or not: it is
\* done, refused, or executed although it fails, its acknowledgement being lost.
Outcomes(allowed) ==
  {o \in {"done", "refused", "lost"} :
     /\ o = "done" => allowed
     /\ o = "refused" => DbFault \/ ~allowed
     /\ o = "lost" => allowed /\ "lost" \in Disturbances}

ByIpmi(a) == {h \in hosts : h.ipmi = a}
ByName(n) == {h \in hosts : h.hostname = n}

\* INSERT INTO hosts: hostname and created_by are NOT NULL, id is the primary
\* key and hostname unique.
Admissible(row) ==
  /\ row.hostname # None /\ row.created_by # None
  /\ \A h \in hosts : h.id # row.id /\ h.hostname # row.hostname

\* What getOrCreate() inserts for an address no row has.
FreshRow(r) == [id |-> host[r].id, hostname |-> None, ipmi |-> host[r].ipmi,
                created_by |-> None]

\* MUTANT of GetOrCreate: rws.Scan() is given the two fields in the other order.
GetOrCreateSwapped(r) ==
  \E h \in ByIpmi(host[r].ipmi) :
    /\ host' = [host EXCEPT ![r].id = h.hostname, ![r].hostname = h.id]
    /\ UNCHANGED hosts

\* rws.Scan(&m.id, &m.hostname)
FilledFrom(r, h) == [host EXCEPT ![r] = [@ EXCEPT !.id = h.id, !.hostname = h.hostname]]

\* getOrCreate() succeeds: the object takes the id and the name of the one row
\* with its address, or a row is inserted.
GetOrCreate(r) ==
  LET found == ByIpmi(host[r].ipmi)
  IN  /\ Cardinality(found) <= 1
      /\ found = {} => Admissible(FreshRow(r))
      /\ hosts' = IF found = {} THEN hosts \cup {FreshRow(r)} ELSE hosts
      /\ host' = IF found = {} THEN host ELSE FilledFrom(r, CHOOSE h \in found : TRUE)

\* getOrCreate() fails: a statement does, or there is a second row with the
\* address, after the object has been filled from one of them.
GetOrCreateFails(r) ==
  LET found == ByIpmi(host[r].ipmi)
  IN  /\ DbFault \/ Cardinality(found) > 1 \/ (found = {} /\ ~Admissible(FreshRow(r)))
      /\ host' \in IF Cardinality(found) > 1 THEN {FilledFrom(r, h) : h \in found}
                  ELSE {host}
      /\ UNCHANGED hosts

-----------------------------------------------------------------------------
(* httpHandlerHostCreate *)

\* The response carries an error and no job was enqueued for it.
Refuse(r) == /\ step' = [step EXCEPT ![r] = "done"]
             /\ erred' = [erred EXCEPT ![r] = TRUE]

\* A well-formed request; parseIpmiAddress() first compares the network.
Accept(r) ==
  /\ step[r] = "new"
  /\ \E a \in Given, ms \in (SUBSET Macs) \ {{}} :
       /\ asked' = [asked EXCEPT ![r] = [ipmi |-> a, macs |-> ms]]
       /\ IF a \in CIDRBlock
          THEN /\ host' = [host EXCEPT ![r].ipmi = a]
               /\ todo' = [todo EXCEPT ![r] = ms]
               /\ step' = [step EXCEPT ![r] = "lookup"]
               /\ UNCHANGED erred
          ELSE Refuse(r) /\ UNCHANGED <<host, todo>>
  /\ UNCHANGED <<db, ports, missing, answered, port, job>>

\* parseIpmiAddress() ends with getOrCreate().
LookupIpmi(r) ==
  /\ step[r] = "lookup"
  /\ \/ /\ GetOrCreate(r)
        /\ step' = [step EXCEPT ![r] = "macs"]
        /\ UNCHANGED erred
     \/ GetOrCreateFails(r) /\ Refuse(r)
  /\ UNCHANGED <<known, macs, writes, asked, todo, ports, missing, answered, port,
                 job>>

\* MUTANT of CheckMac: a MAC that is not in the table is not inserted.
CheckMacOnly(r, m) ==
  /\ step[r] = "macs"
  /\ m \in todo[r]
  /\ todo' = [todo EXCEPT ![r] = @ \ {m}]
  /\ ports' = [ports EXCEPT ![r] = @ \cup {m}]
  /\ UNCHANGED <<db, asked, step, missing, erred, answered, objects, job>>

\* newPortWithMAC() looks the MAC up.
CheckMac(r, m) ==
  /\ step[r] = "macs"
  /\ m \in todo[r]
  /\ todo' = [todo EXCEPT ![r] = @ \ {m}]
  /\ \/ /\ m \in known
        /\ ports' = [ports EXCEPT ![r] = @ \cup {m}]
        /\ UNCHANGED <<step, missing, erred>>
     \/ /\ m \notin known
        /\ step' = [step EXCEPT ![r] = "insertMac"]
        /\ missing' = [missing EXCEPT ![r] = m]
        /\ UNCHANGED <<ports, erred>>
     \/ /\ DbFault
        /\ erred' = [erred EXCEPT ![r] = TRUE]
        /\ UNCHANGED <<step, ports, missing>>
  /\ UNCHANGED <<db, asked, answered, objects, job>>

\* MUTANT of InsertMac: the error of a port is not appended to the request.
InsertMacSilently(r) ==
  LET m == missing[r]
  IN  /\ step[r] = "insertMac"
      /\ step' = [step EXCEPT ![r] = "macs"]
      /\ missing' = [missing EXCEPT ![r] = None]
      /\ \/ /\ m \notin known
            /\ known' = known \cup {m}
            /\ ports' = [ports EXCEPT ![r] = @ \cup {m}]
         \/ (DbFault \/ m \in known) /\ UNCHANGED <<known, ports>>
      /\ UNCHANGED <<hosts, macs, writes, asked, todo, erred, answered, objects, job>>

\* It was not there: it is inserted, unless another request has been faster.
InsertMac(r) ==
  LET m == missing[r]
  IN  /\ step[r] = "insertMac"
      /\ step' = [step EXCEPT ![r] = "macs"]
      /\ missing' = [missing EXCEPT ![r] = None]
      /\ \E o \in Outcomes(m \notin known) :
           /\ known' = IF o = "refused" THEN known ELSE known \cup {m}
           /\ IF o = "done"
              THEN ports' = [ports EXCEPT ![r] = @ \cup {m}] /\ UNCHANGED erred
              ELSE erred' = [erred EXCEPT ![r] = TRUE] /\ UNCHANGED ports
      /\ UNCHANGED <<hosts, macs, writes, asked, todo, answered, objects, job>>

\* No MAC is left, and no port.
RefusePorts(r) ==
  /\ step[r] = "macs" /\ todo[r] = {} /\ ports[r] = {}
  /\ Refuse(r)
  /\ UNCHANGED <<db, asked, todo, ports, missing, answered, objects, job>>

RequestJobs(r) == {HostJob(r)} \cup {<<r, m>> : m \in ports[r]}

\* newQueueJob(), first for the host, then for every port.  When an INSERT fails,
\* executed or not, the handler returns, and the rows made so far stay behind.
MakeJob(r) ==
  /\ step[r] = "macs" /\ todo[r] = {} /\ ports[r] # {}
  /\ \/ /\ \E j \in RequestJobs(r) :
             /\ at[j] = "none"
             /\ at[HostJob(r)] = "none" => j = HostJob(r)
             /\ at' = [at EXCEPT ![j] = "made"]
        /\ step' = [step EXCEPT ![r] = IF \E j \in RequestJobs(r) : at'[j] = "none"
                                       THEN "macs" ELSE "enqueue"]
        /\ UNCHANGED erred
     \/ DbFault /\ Refuse(r) /\ UNCHANGED at
  /\ UNCHANGED <<db, asked, todo, ports, missing, answered, objects, fails, err>>

\* addToQueue() for each of them, in the same order; the workers take the first
\* ones while the handler is still at work.
Enqueue(r) ==
  /\ step[r] = "enqueue"
  /\ \E j \in RequestJobs(r) :
       /\ at[j] = "made"
       /\ at[HostJob(r)] = "made" => j = HostJob(r)
       /\ at' = [at EXCEPT ![j] = "open"]
  /\ step' = [step EXCEPT ![r] = IF \E j \in RequestJobs(r) : at'[j] = "made"
                                 THEN "enqueue" ELSE "respond"]
  /\ UNCHANGED <<db, asked, todo, ports, missing, erred, answered, objects, fails, err>>

\* respondJSON(): the id is read from the host, which its job may have changed
\* by now; a response with errors has no data.
Respond(r) ==
  /\ step[r] = "respond"
  /\ step' = [step EXCEPT ![r] = "done"]
  /\ answered' = [answered EXCEPT ![r] = IF erred[r] THEN None ELSE host[r].id]
  /\ UNCHANGED <<db, asked, todo, ports, missing, erred, objects, job>>

-----------------------------------------------------------------------------
(* The jobs. *)

\* MUTANT of FreeWorker: a worker does not come back from a job that has failed.
FreeWorkerLeaks == Cardinality({j \in Jobs : at[j] \in Running \cup {"failed"}}) < Workers

\* One of the workers has no job.
FreeWorker == Cardinality({j \in Jobs : at[j] \in Running}) < Workers

GoTo(j, to) == at' = [at EXCEPT ![j] = to] /\ UNCHANGED <<fails, err>>

\* appendAppError(): the job is retried, or is given up.
Fail(j, code) ==
  /\ fails' = [fails EXCEPT ![j] = @ + 1]
  /\ err' = [err EXCEPT ![j] = code]
  /\ at' = [at EXCEPT ![j] = IF fails[j] + 1 = JobRetryMaxFails THEN "failing" ELSE "open"]

\* MUTANT of GiveUp: a job that is given up is put in the queue again.
GiveUpNot(j) == /\ at[j] = "failing"
                /\ at' = [at EXCEPT ![j] = "open"]
                /\ fails' = [fails EXCEPT ![j] = @ + 1]
                /\ UNCHANGED <<err, db, request, objects>>

\* setFailed() and the saving of the errors, step by step in JobQueue.
GiveUp(j) == /\ at[j] = "failing"
             /\ GoTo(j, "failed")
             /\ UNCHANGED <<db, request, objects>>

\* resolveIpmiHostname(): one PTR record, or an error.
Resolve(r) ==
  /\ at[HostJob(r)] = "open" /\ FreeWorker
  /\ \E n \in DnsAnswers :
       IF n = None THEN Fail(HostJob(r), "common") /\ UNCHANGED host
       ELSE /\ host' = [host EXCEPT ![r].hostname = n]
            /\ GoTo(HostJob(r), "find")
  /\ UNCHANGED <<db, request, port>>

\* MUTANT of Find: the id of the found row is taken, and the address asked for
\* stays: the policy its log message announces.
FindOverwrites(r) ==
  /\ at[HostJob(r)] = "find"
  /\ \E h \in ByName(host[r].hostname) :
       /\ host' = [host EXCEPT ![r].id = h.id]
       /\ GoTo(HostJob(r), "update")
  /\ UNCHANGED <<db, request, port>>

\* findProperties(): the address of the row with this name becomes that of the
\* object, if it passes parseIpmiAddress().
Find(r) ==
  /\ at[HostJob(r)] = "find"
  /\ \/ \E h \in ByName(host[r].hostname) :
          IF h.ipmi \in CIDRBlock
          THEN host' = [host EXCEPT ![r].ipmi = h.ipmi] /\ GoTo(HostJob(r), "reread")
          ELSE Fail(HostJob(r), "cidr") /\ UNCHANGED host
     \/ /\ ByName(host[r].hostname) = {}
        /\ GoTo(HostJob(r), "create")
        /\ UNCHANGED host
     \/ DbFault /\ Fail(HostJob(r), "sql") /\ UNCHANGED host
  /\ UNCHANGED <<db, request, port>>

\* ... whose getOrCreate() then takes the id and the name from that address.
Reread(r) ==
  /\ at[HostJob(r)] = "reread"
  /\ \/ GetOrCreate(r) /\ GoTo(HostJob(r), "update")
     \/ GetOrCreateFails(r) /\ Fail(HostJob(r), "sql")
  /\ UNCHANGED <<known, macs, writes, request, port>>

\* The statement of the host job of r on hosts ends: the job does, or fails.
EndHostJob(r, o) ==
  /\ writes' = IF o = "refused" THEN writes ELSE writes \cup {<<r, host[r].id, o>>}
  /\ IF o = "done" THEN GoTo(HostJob(r), "finished") ELSE Fail(HostJob(r), "sql")

\* MUTANT of Update: the creator is written ahead of the statement that fails.
UpdateThenFail(r) ==
  /\ at[HostJob(r)] = "update"
  /\ hosts' = {IF h.hostname = host[r].hostname
               THEN [h EXCEPT !.created_by = HostJob(r)] ELSE h : h \in hosts}
  /\ \E o \in {"done", "refused"} : EndHostJob(r, o)
  /\ UNCHANGED <<known, macs, request, objects>>

\* updateProperties(): UPDATE hosts SET id, ipmi_address, created_by WHERE
\* hostname; macs.host follows the id (ON UPDATE CASCADE).
Update(r) ==
  LET rows == ByName(host[r].hostname)
      Set(h) == [h EXCEPT !.id = host[r].id, !.ipmi = host[r].ipmi,
                          !.created_by = HostJob(r)]
      clash == \E h \in hosts \ rows : h.id = host[r].id
  IN  /\ at[HostJob(r)] = "update"
      /\ \E o \in Outcomes(~clash) :
           /\ IF o = "refused" THEN UNCHANGED <<hosts, macs>>
              ELSE /\ hosts' = (hosts \ rows) \cup {Set(h) : h \in rows}
                   /\ macs' = [m \in Macs |-> IF \E h \in rows : h.id = macs[m].host
                                              THEN [macs[m] EXCEPT !.host = host[r].id]
                                              ELSE macs[m]]
           /\ EndHostJob(r, o)
      /\ UNCHANGED <<known, request, objects>>

\* createProperties(): no row has the name.  The id of the object is that of the
\* row with its address, which has another one: the INSERT is refused.
CreateHost(r) ==
  LET row == [id |-> host[r].id, hostname |-> host[r].hostname,
              ipmi |-> host[r].ipmi, created_by |-> HostJob(r)]
  IN  /\ at[HostJob(r)] = "create"
      /\ \E o \in Outcomes(Admissible(row)) :
           /\ hosts' = IF o = "refused" THEN hosts ELSE hosts \cup {row}
           /\ EndHostJob(r, o)
      /\ UNCHANGED <<known, macs, request, objects>>

First(vlans) == CHOOSE v \in vlans : \A w \in vlans : v <= w

\* parseRsviewProperties() goes from the VLAN to the names of port and switch and
\* to that of the host, and stops where it has none.  What was found in an earlier
\* attempt stays, but for the LLDP name, which is replaced when the page has one.
Parsed(p, page) ==
  LET vlan == IF p.vlan # None \/ page.vlans = {} \/ First(page.vlans) \in BadVlans
              THEN p.vlan ELSE First(page.vlans)
      name == IF p.name = None /\ vlan # None THEN page.name ELSE p.name
      jun  == IF p.jun = None /\ vlan # None /\ name # None THEN page.jun ELSE p.jun
      lldp == IF page.lldp # None /\ None \notin {vlan, name, jun}
              THEN page.lldp ELSE p.lldp
  IN  [p EXCEPT !.vlan = vlan, !.name = name, !.jun = jun, !.lldp = lldp]

\* The first thing the port lacks decides the error; a VLAN that the page has and
\* the port has not is none that strconv.ParseUint() accepts.
Lacks(p, page) ==
  CASE p.vlan = None -> IF page.vlans = {} THEN "vlan" ELSE "common"
    [] p.vlan # None /\ p.name = None -> "port"
    [] None \notin {p.vlan, p.name} /\ p.jun = None -> "jun"
    [] None \notin {p.vlan, p.name, p.jun} /\ p.lldp = None -> "lldp"
    [] OTHER -> None

Query(j) ==
  /\ at[j] = "open" /\ FreeWorker
  /\ \E page \in RsviewAnswers :
       IF page = None THEN Fail(j, "rsview") /\ UNCHANGED port
       ELSE LET p == Parsed(port[j], page)
            IN  /\ port' = [port EXCEPT ![j] = p]
                /\ IF Lacks(p, page) = None THEN GoTo(j, "save")
                   ELSE Fail(j, Lacks(p, page))
  /\ UNCHANGED <<db, request, host>>

\* A statement of port job j ends: the job goes on, or fails.
EndStatement(j, o, to) == IF o = "done" THEN GoTo(j, to) ELSE Fail(j, "sql")

\* updateRsviewProperties()
SaveMac(j) ==
  /\ at[j] = "save"
  /\ \E o \in Outcomes(TRUE) :
       /\ macs' = IF o = "refused" \/ j[2] \notin known THEN macs
                  ELSE [macs EXCEPT ![j[2]] =
                          [@ EXCEPT !.vlan = port[j].vlan, !.name = port[j].name,
                                    !.jun = port[j].jun]]
       /\ EndStatement(j, o, "creator")
  /\ UNCHANGED <<hosts, known, writes, request, objects>>

\* MUTANT of FindHost: the host of the request is linked without asking its job.
FindHostById(j) ==
  /\ at[j] = "creator"
  /\ \E h \in hosts :
       /\ h.id = host[j[1]].id
       /\ port' = [port EXCEPT ![j].link = h.id]
       /\ IF port[j].lldp = h.hostname THEN GoTo(j, "link") ELSE Fail(j, "mismatch")
  /\ UNCHANGED <<db, request, host>>

\* getTinyHostByJobId() of the host job of the request, and the comparison.
FindHost(j) ==
  LET found == {h \in hosts : h.created_by = HostJob(j[1])}
  IN  /\ at[j] = "creator"
      /\ \/ /\ found = {}
            /\ Fail(j, "hostNotFound")
            /\ UNCHANGED port
         \/ \E h \in found :
              /\ found = {h}
              /\ port' = [port EXCEPT ![j].link = h.id]
              /\ IF port[j].lldp = h.hostname THEN GoTo(j, "link") ELSE Fail(j, "mismatch")
         \/ /\ DbFault \/ Cardinality(found) > 1
            /\ Fail(j, "sql")
            /\ UNCHANGED port
      /\ UNCHANGED <<db, request, host>>

\* linkWithHost(): macs.host references hosts.id.
Link(j) ==
  /\ at[j] = "link"
  /\ \E o \in Outcomes(\E h \in hosts : h.id = port[j].link) :
       /\ macs' = IF o = "refused" \/ j[2] \notin known THEN macs
                  ELSE [macs EXCEPT ![j[2]].host = port[j].link]
       /\ EndStatement(j, o, "finished")
  /\ UNCHANGED <<hosts, known, writes, request, objects>>

-----------------------------------------------------------------------------
HandlerStep(r) == \/ Accept(r) \/ LookupIpmi(r) \/ InsertMac(r)
                  \/ (\E m \in Macs : CheckMac(r, m))
                  \/ RefusePorts(r) \/ MakeJob(r) \/ Enqueue(r) \/ Respond(r)

HostStep(r) == Resolve(r) \/ Find(r) \/ Reread(r) \/ Update(r) \/ CreateHost(r)

PortStep(j) == Query(j) \/ SaveMac(j) \/ FindHost(j) \/ Link(j)

Next == \/ \E r \in Requests : HandlerStep(r) \/ HostStep(r)
        \/ \E j \in PortJobs : PortStep(j)
        \/ \E j \in Jobs : GiveUp(j)

Spec == Init /\ [][Next]_vars

\* A request that has come in is served to its end, and every job is executed
\* while there is a worker for it.
Fairness ==
  /\ \A r \in Requests : /\ WF_vars(step[r] # "new" /\ HandlerStep(r))
                         /\ WF_vars(HostStep(r))
  /\ \A j \in PortJobs : WF_vars(PortStep(j))
  /\ \A j \in Jobs : WF_vars(GiveUp(j))

FairSpec == Spec /\ Fairness

-----------------------------------------------------------------------------
(* Properties. *)

\* updateProperties() writes the id, the address and the creator of a host, but
\* only ever changes the creator: the three SELECTs before it read the id and
\* the address back from the row it writes, whatever the DNS says in between.
HostIdentity ==
  [][{<<h.id, h.hostname, h.ipmi>> : h \in hosts}'
       = {<<h.id, h.hostname, h.ipmi>> : h \in hosts}]_vars

\* The host job of r has had host id written, acknowledged or not.
Recorded(r, id) == \E o \in {"done", "lost"} : <<r, id, o>> \in writes

\* Two rows of one creator, which getTinyHostByJobId() calls "Rows is not equal to
\* 1. The DB has broken!", need an UPDATE that was executed although it failed,
\* and a retry under another name: of two such rows one is that of such an UPDATE.
UniqueCreator ==
  \A r \in Requests, g, h \in hosts :
    g.created_by = HostJob(r) /\ h.created_by = HostJob(r) =>
      \/ g = h
      \/ \E k \in {g, h} : <<r, k.id, "lost">> \in writes

\* A MAC gets another host only when one request says both: its host job has had
\* that very host recorded, and its port job was told the host's name by the
\* switch.  So nothing is linked through the host object, which any attempt
\* rewrites, and no change of an id carries a MAC along to another host.
LinkedAsReported ==
  [][\A m \in Macs : macs'[m].host # macs[m].host =>
       \E r \in Requests, h \in hosts' :
         /\ h.id = macs'[m].host /\ h.hostname = port'[<<r, m>>].lldp
         /\ Recorded(r, h.id)]_vars

\* A port job that reports Done has left its MAC in the table with the place
\* and the host, and no job of another request takes them away again.
PortDoneIsOnRecord ==
  \A j \in PortJobs : at[j] = "finished" =>
    /\ j[2] \in known
    /\ None \notin {macs[j[2]].vlan, macs[j[2]].name, macs[j[2]].jun, macs[j[2]].host}

\* A response without errors means what it says: every MAC of the request and
\* its host have a job in the queue, and the host it names is in the database.
CreatedMeansQueued ==
  \A r \in Requests : step[r] = "done" /\ ~erred[r] =>
    /\ \A j \in {HostJob(r)} \cup {<<r, m>> : m \in asked[r].macs} :
         at[j] \notin {"none", "made"}
    /\ \E h \in hosts : h.id = answered[r]

\* Every request is answered, and either every job of it comes to an end, or its
\* response carries an error and the rest of its jobs is never executed.
RequestsSettle ==
  \A r \in Requests : step[r] = "lookup" ~>
    /\ step[r] = "done"
    /\ \A j \in RequestJobs(r) : \/ at[j] \in {"finished", "failed"}
                                 \/ erred[r] /\ at[j] \in {"none", "made"}

Phase(loc) == CASE loc \in {"none", "made"}       -> "new"
                [] loc \in {"finished", "failed"} -> "settled"
                [] OTHER                          -> "open"

Life == INSTANCE JobLife WITH phase <- [j \in Jobs |-> Phase(at[j])]

\* To each job of a request the queue keeps the promise of JobLife.
LifeSpec == Life!Spec

(* What the code says of itself and does not do. *)

\* error.go:100, on errHostsNotFound: "The requested Host was not found in the
\* database!"
HostNotFoundIsTrue ==
  \A j \in PortJobs : err[j] = "hostNotFound" => ByIpmi(asked[j[1]].ipmi) = {}

\* host.go:171: "Found a conflict in the DB! The current App policy will
\* overwrite the server!"
ConflictOverwrites ==
  \A r \in Requests, h \in hosts :
    h.created_by = HostJob(r) => h.ipmi = asked[r].ipmi
=============================================================================
