--------------------------- MODULE RaftMembership ---------------------------
(***************************************************************************)
(* Who is in the Raft cluster: Bootstrap(), join() and DeInit() of         *)
(* core/raft/raft.go on every node, over the configuration the cluster has *)
(* agreed on.  A node that has no state bootstraps the listed cluster; a   *)
(* node that has one, and is started with --master, removes from the       *)
(* cluster what contradicts its list and adds what is missing, one call of *)
(* the library at a time.  An address of the list that does not resolve is *)
(* logged, kept as nil, and printed as "<nil>" from then on: here, None.    *)
(*                                                                         *)
(* hashicorp/raft is external: a change of the configuration succeeds on   *)
(* the leader only, no id and no address is in a configuration twice, and  *)
(* a leader that is removed stops.                                         *)
(***************************************************************************)
EXTENDS Naturals, FiniteSets

CONSTANTS
  Nodes,         (* the keys of Base.Raft.Nodes                             *)
  Addrs,         (* addresses                                               *)
  Lists,         (* what the lists may say: an address per id               *)
  Clusters,      (* the configurations the cluster may have at first        *)
  Forced,        (* the nodes started with --master                         *)
  Unresolved,    (* which sets of names may fail to resolve at a start      *)
  None

Server == [id : Nodes, addr : Addrs \cup {None}]
Ids(c) == {s.id : s \in c}

\* A configuration as the library accepts it: no id and no address twice.
Valid(c) == \A s, t \in c : s.id = t.id \/ s.addr = t.addr => s = t

\* Two nodes cannot listen on one address, so a list has none twice.
ASSUME MembershipConfig ==
  /\ IsFiniteSet(Nodes)
  /\ Lists \subseteq [Nodes -> Addrs]
  /\ \A f \in Lists : \A i, k \in Nodes : f[i] = f[k] => i = k
  /\ \A c \in Clusters : c \subseteq Server /\ Valid(c)
  /\ Forced \subseteq Nodes
  /\ Unresolved \subseteq SUBSET Nodes /\ {} \in Unresolved
  /\ None \notin Nodes \cup Addrs

VARIABLES
  listed,  (* Base.Raft.Nodes, the same on every node: an address per id    *)
  skip,    (* Base.Raft.SkipJoinErrors, the same on every node              *)
  missing, (* the names no node resolves while it has no state              *)
  addrs,   (* addrs[n]: m.nodes while Bootstrap() of n uses it               *)
  conf,    (* the configuration of the cluster, {} before it is bootstrapped *)
  leader,  (* the node that may change it                                   *)
  known,   (* known[n]: what GetConfiguration() returns on node n           *)
  pc,      (* pc[n]: where Bootstrap() is on node n                         *)
  todo,    (* todo[n]: the ids the loop over m.nodes has still to join      *)
  peer,    (* peer[n]: the id join() was called with                        *)
  seen     (* seen[n]: the servers join() has still to look at              *)

raft  == <<conf, leader, known>>
loop  == <<todo, peer, seen>>
config == <<listed, skip, missing>>
vars  == <<config, addrs, raft, pc, loop>>

NoAddrs   == [i \in Nodes |-> None]
List(f)   == {[id |-> i, addr |-> f[i]] : i \in Nodes}
\* m.nodes of a start that cannot resolve the names lost.
Resolved(lost) == [i \in Nodes |-> IF i \in lost THEN None ELSE listed[i]]
Target(n) == [id |-> peer[n], addr |-> addrs[n][peer[n]]]

TypeOK ==
  /\ listed \in [Nodes -> Addrs] /\ skip \in BOOLEAN /\ missing \subseteq Nodes
  /\ addrs \in [Nodes -> [Nodes -> Addrs \cup {None}]]
  /\ conf \subseteq Server /\ Valid(conf)
  /\ leader \in Nodes \cup {None}
  /\ known \in [Nodes -> SUBSET Server]
  /\ pc \in [Nodes -> {"down", "started", "joining", "scan", "serving", "failed"}]
  /\ todo \in [Nodes -> SUBSET Nodes]
  /\ peer \in [Nodes -> Nodes \cup {None}]
  /\ seen \in [Nodes -> SUBSET Server]

\* Members of an old cluster have their state on disk, the others have none.
Init ==
  /\ listed \in Lists /\ skip \in BOOLEAN /\ missing \in Unresolved
  /\ addrs = [n \in Nodes |-> NoAddrs]
  /\ conf \in Clusters
  /\ leader = None
  /\ known = [n \in Nodes |-> IF n \in Ids(conf) THEN conf ELSE {}]
  /\ pc = [n \in Nodes |-> "down"]
  /\ todo = [n \in Nodes |-> {}]
  /\ peer = [n \in Nodes |-> None]
  /\ seen = [n \in Nodes |-> {}]

Goto(n, to) == pc' = [pc EXCEPT ![n] = to]
\* The list is not read any more.
End(n, to)  == Goto(n, to) /\ addrs' = [addrs EXCEPT ![n] = NoAddrs]

-----------------------------------------------------------------------------
(* Init() and Bootstrap(). *)

\* Init() and NewRaft().  A node whose own address fails listens nowhere, and ends.
\* The library asks that all nodes bootstrap the same list: what fails for one node
\* without state fails for all of them.
InitNode(n) ==
  /\ pc[n] = "down"
  /\ \E lost \in Unresolved :
       /\ n \notin lost /\ (known[n] = {} => lost = missing)
       /\ addrs' = [addrs EXCEPT ![n] = Resolved(lost)]
  /\ Goto(n, "started")
  /\ UNCHANGED <<config, raft, loop>>

\* BootstrapCluster() on a node without state: with or without --master.
BootstrapCluster(n) ==
  /\ pc[n] = "started" /\ known[n] = {}
  /\ Valid(List(addrs[n]))
  /\ known' = [known EXCEPT ![n] = List(addrs[n])]
  /\ conf' = IF conf = {} THEN List(addrs[n]) ELSE conf
  /\ End(n, "serving")
  /\ UNCHANGED <<config, leader, loop>>

\* Two names of the list have failed: two servers have the address "<nil>".
ListRefused(n) ==
  /\ pc[n] = "started" /\ ~Valid(List(addrs[n]))
  /\ End(n, "failed")
  /\ UNCHANGED <<config, raft, loop>>

\* ErrCantBootstrap: the node has state.
Reconnect(n) ==
  /\ pc[n] = "started" /\ known[n] # {} /\ Valid(List(addrs[n]))
  /\ IF n \in Forced
     THEN todo' = [todo EXCEPT ![n] = Nodes] /\ Goto(n, "joining") /\ UNCHANGED addrs
     ELSE End(n, "serving") /\ UNCHANGED todo
  /\ UNCHANGED <<config, raft, peer, seen>>

\* The loop over m.nodes, a map: in any order.
JoinNext(n) ==
  /\ pc[n] = "joining"
  /\ \E i \in todo[n] : /\ todo' = [todo EXCEPT ![n] = @ \ {i}]
                        /\ peer' = [peer EXCEPT ![n] = i]
  /\ seen' = [seen EXCEPT ![n] = known[n]]
  /\ Goto(n, "scan")
  /\ UNCHANGED <<config, addrs, raft>>

JoinsDone(n) ==
  /\ pc[n] = "joining" /\ todo[n] = {}
  /\ End(n, "serving")
  /\ UNCHANGED <<config, raft, loop>>

\* An error of join() ends Bootstrap(), and the process, unless it is skipped.
JoinFails(n) ==
  /\ IF skip THEN Goto(n, "joining") /\ UNCHANGED addrs ELSE End(n, "failed")
  /\ UNCHANGED <<config, loop>>

-----------------------------------------------------------------------------
(* join(). *)

Conflicts(s, n) == s.id = peer[n] \/ s.addr = addrs[n][peer[n]]

\* The leader n has made c the configuration of the cluster.
Commit(n, c) == conf' = c /\ known' = [known EXCEPT ![n] = c]

\* ErrLeadershipLost: the leader is deposed before c is committed.  The call has failed,
\* and the next leader commits c all the same; if it does not, n was Deposed before.
CommitsLate(n, c) == leader = n /\ leader' = None /\ Commit(n, c) /\ JoinFails(n)

\* A server of the configuration that has nothing to do with the peer.
Pass(n, s) ==
  /\ ~Conflicts(s, n)
  /\ seen' = [seen EXCEPT ![n] = @ \ {s}]
  /\ UNCHANGED <<config, addrs, raft, pc, todo, peer>>

\* "remote node already member of the cluster, ignoring join request"
Ignore(n, s) ==
  /\ s = Target(n)
  /\ Goto(n, "joining")
  /\ UNCHANGED <<config, addrs, raft, loop>>

\* Mutant of RemoveServer: every server that conflicts is removed, the peer itself
\* included.
RemoveServerAlways(n, s) ==
  /\ leader = n
  /\ Conflicts(s, n)
  /\ LET rest == {t \in conf : t.id # s.id} IN
     /\ rest # {}
     /\ Commit(n, rest)
     /\ leader' = IF s.id = n THEN None ELSE leader
  /\ seen' = [seen EXCEPT ![n] = @ \ {s}]
  /\ UNCHANGED <<config, addrs, pc, todo, peer>>

\* RemoveServer(srv.ID, 0, 0) removes whatever server has the id by then: the
\* 0 asks for no check that the configuration is still the one join() read.  The
\* library refuses to remove the last server.
RemoveServer(n, s) ==
  /\ leader = n
  /\ Conflicts(s, n) /\ s # Target(n)
  /\ LET rest == {t \in conf : t.id # s.id} IN
     /\ rest # {}
     /\ Commit(n, rest)
     /\ leader' = IF s.id = n THEN None ELSE leader
  /\ seen' = [seen EXCEPT ![n] = @ \ {s}]
  /\ UNCHANGED <<config, addrs, pc, todo, peer>>

RemoveFails(n, s) ==
  /\ Conflicts(s, n) /\ s # Target(n)
  /\ LET rest == {t \in conf : t.id # s.id} IN
     \/ (leader # n \/ rest = {}) /\ JoinFails(n) /\ UNCHANGED raft
     \/ rest # {} /\ CommitsLate(n, rest)

Scan(n) ==
  /\ pc[n] = "scan"
  /\ \E s \in seen[n] : Pass(n, s) \/ Ignore(n, s) \/ RemoveServer(n, s) \/ RemoveFails(n, s)

\* Mutant of AddVoter: its error is not returned.
AddVoterUnchecked(n) ==
  /\ pc[n] = "scan" /\ seen[n] = {}
  /\ LET more == {t \in conf : t.id # peer[n]} \cup {Target(n)} IN
     IF leader = n /\ Valid(more)
     THEN Commit(n, more)
     ELSE UNCHANGED <<conf, known>>
  /\ Goto(n, "joining")
  /\ UNCHANGED <<config, addrs, leader, loop>>

\* AddVoter() gives an id that is there the new address.
AddVoter(n) ==
  /\ pc[n] = "scan" /\ seen[n] = {}
  /\ LET more == {t \in conf : t.id # peer[n]} \cup {Target(n)} IN
     IF leader = n /\ Valid(more)
     THEN \/ /\ Commit(n, more)
             /\ Goto(n, "joining")
             /\ UNCHANGED <<config, addrs, leader, loop>>
          \/ CommitsLate(n, more)
     ELSE JoinFails(n) /\ UNCHANGED raft

-----------------------------------------------------------------------------
(* The library, and the end of the process. *)

Running == {n \in Nodes : pc[n] \notin {"down", "failed"}}

\* A node that knows the configuration is elected by a majority of it, or deposed.
Elect(n) ==
  /\ n \in Running \cap Ids(conf) /\ known[n] = conf /\ leader # n
  /\ 2 * Cardinality(Running \cap Ids(conf)) > Cardinality(conf)
  /\ leader' = n
  /\ UNCHANGED <<config, addrs, conf, known, pc, loop>>

Depose == leader # None /\ leader' = None /\ UNCHANGED <<config, addrs, conf, known, pc, loop>>

Learn(n) ==
  /\ n \in Running \cap Ids(conf) /\ leader # None /\ known[n] # conf
  /\ known' = [known EXCEPT ![n] = conf]
  /\ UNCHANGED <<config, addrs, conf, leader, pc, loop>>

\* DeInit() from any place of Bootstrap(), also before m.raft is set (the nil
\* dereference is recovered) and after Bootstrap() has failed.
DeInit(n) ==
  /\ pc[n] # "down"
  /\ End(n, "down")
  /\ leader' = IF leader = n THEN None ELSE leader
  /\ todo' = [todo EXCEPT ![n] = {}] /\ seen' = [seen EXCEPT ![n] = {}]
  /\ peer' = [peer EXCEPT ![n] = None]
  /\ UNCHANGED <<config, conf, known>>

Bootstrap(n) == \/ BootstrapCluster(n) \/ ListRefused(n) \/ Reconnect(n)
                \/ JoinNext(n) \/ JoinsDone(n) \/ Scan(n) \/ AddVoter(n)

Next == \/ \E n \in Nodes : \/ InitNode(n) \/ Bootstrap(n) \/ DeInit(n)
                            \/ Elect(n) \/ Learn(n)
        \/ Depose

Spec == Init /\ [][Next]_vars

-----------------------------------------------------------------------------
(* Properties. *)

\* One node is forced, and it is a member of the cluster if there is one already.  A
\* node that is not, and is started, bootstraps the list for itself and takes itself
\* for a member from then on, so that its forced starts join nobody; and with two
\* forced nodes one would undo what the other has joined.
OneMemberForced ==
  /\ Cardinality(Forced) <= 1
  /\ \A c \in Clusters : c = {} \/ Forced \subseteq Ids(c)

\* No forced start that has resolved its list removes a server that is where the
\* list wants it, although join() removes by id what it has read some time before.
ListedServersStay ==
  [][OneMemberForced /\ (\A n \in Forced : addrs[n] \in {listed, NoAddrs}) =>
       \A s \in List(listed) : s \in conf => s \in conf']_vars

\* When the loop of a forced start that has resolved its list has ended without an
\* error, all that is listed is in the cluster: also where ids have exchanged their
\* addresses, or a start that could not resolve the list has put "<nil>" there.
AllJoined ==
  [][OneMemberForced /\ ~skip =>
       \A n \in Forced :
         pc[n] = "joining" /\ pc'[n] = "serving" /\ addrs[n] = listed
           => List(listed) \subseteq conf]_vars
=============================================================================
