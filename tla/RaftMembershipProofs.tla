------------------------- MODULE RaftMembershipProofs -------------------------
(***************************************************************************)
(* Theorems about RaftMembership: what the joins of a forced start do to   *)
(* the configuration of the cluster, for any number of nodes, any list,    *)
(* any cluster there was before, and any elections meanwhile.              *)
(***************************************************************************)
EXTENDS RaftMembership, FiniteSetTheorems, TLAPS

-----------------------------------------------------------------------------
(* The inductive invariant. *)

\* Only a forced node joins; the list it uses has at least its own address, and is
\* the one all nodes without state have resolved where it has none.
Joining(n) ==
  /\ pc[n] \in {"joining", "scan"} => n \in Forced
  /\ pc[n] = "scan" => peer[n] \in Nodes
  /\ pc[n] \in {"started", "joining", "scan"} => addrs[n][n] = listed[n]
  /\ pc[n] = "started" /\ known[n] = {} => addrs[n] = Resolved(missing)

\* The one forced node makes every change of the configuration itself: what it knows
\* is not stale, nor is what is left of it to scan, however long ago it was read.
UpToDate(n) ==
  /\ known[n] = conf \/ (known[n] = {} /\ conf = List(Resolved(missing)))
  /\ pc[n] = "scan" => seen[n] \subseteq conf

Listed(i) == [id |-> i, addr |-> listed[i]]

\* What the loop has passed is in the cluster.
Joined(n) ==
  pc[n] \in {"joining", "scan"} /\ ~skip /\ addrs[n] = listed =>
    \A i \in Nodes \ todo[n] : (pc[n] = "scan" /\ i = peer[n]) \/ Listed(i) \in conf

MemberInv ==
  /\ TypeOK
  /\ \A n \in Nodes : Joining(n)
  /\ listed \in Lists
  /\ OneMemberForced => \A n \in Forced : UpToDate(n) /\ Joined(n)

-----------------------------------------------------------------------------
(* Lemmas. *)

\* With one node forced, whoever joins is that node.
LEMMA OneForced ==
  ASSUME Cardinality(Forced) <= 1, NEW f \in Forced, NEW g \in Forced
  PROVE  f = g
<1>1. SUFFICES ASSUME f # g PROVE FALSE
  OBVIOUS
<1>2. IsFiniteSet(Forced) /\ Cardinality(Forced) \in Nat
  BY MembershipConfig, FS_Subset, FS_CardinalityType
<1>3. IsFiniteSet({f}) /\ Cardinality({f}) = 1
  BY FS_Singleton
<1>4. Cardinality({f} \cup {g}) = 2
  BY <1>1, <1>3, FS_AddElement
<1>5. {f} \cup {g} \in SUBSET Forced
  OBVIOUS
<1>6. Cardinality({f} \cup {g}) <= Cardinality(Forced)
  BY <1>2, <1>5, FS_Subset
<1> QED
  BY <1>2, <1>4, <1>6

\* A list is a configuration the library accepts.
LEMMA ListIsValid ==
  ASSUME NEW f \in Lists
  PROVE  List(f) \subseteq Server /\ Valid(List(f))
BY MembershipConfig DEF List, Server, Valid

\* A list is never empty, but where there is no node.
LEMMA ListOfNode ==
  ASSUME NEW f, NEW n \in Nodes
  PROVE  List(f) # {}
BY DEF List

\* What is left when a server is removed, or put in the place of another, is a part of
\* what there was, and accepted by the library.
LEMMA RestIsValid ==
  ASSUME NEW c, c \subseteq Server, Valid(c), NEW i
  PROVE  LET rest == {t \in c : t.id # i}
         IN  rest \subseteq Server /\ Valid(rest)
BY DEF Valid

-----------------------------------------------------------------------------
(* Types. *)

LEMMA TargetIsServer ==
  ASSUME TypeOK, NEW n \in Nodes, peer[n] \in Nodes
  PROVE  Target(n) \in Server
BY DEF TypeOK, Target, Server

LEMMA TypeInit ==
  Init => TypeOK
<1> SUFFICES ASSUME Init PROVE TypeOK
  OBVIOUS
<1>1. /\ conf \subseteq Server /\ Valid(conf) /\ listed \in [Nodes -> Addrs]
      /\ missing \subseteq Nodes
  BY MembershipConfig DEF Init
<1>2. known \in [Nodes -> SUBSET Server]
  BY <1>1 DEF Init
<1>3. addrs \in [Nodes -> [Nodes -> Addrs \cup {None}]]
  BY DEF Init, NoAddrs
<1> QED
  BY <1>1, <1>2, <1>3 DEF Init, TypeOK

\* The places End() and Goto() go to, and the addresses it drops, keep their types.
LEMMA EndTypes ==
  ASSUME TypeOK, NEW n \in Nodes,
         NEW to \in {"down", "started", "joining", "scan", "serving", "failed"}
  PROVE  /\ Goto(n, to) =>
              pc' \in [Nodes -> {"down", "started", "joining", "scan", "serving", "failed"}]
         /\ End(n, to) =>
              /\ pc' \in [Nodes -> {"down", "started", "joining", "scan", "serving", "failed"}]
              /\ addrs' \in [Nodes -> [Nodes -> Addrs \cup {None}]]
<1>1. Goto(n, to) =>
        pc' \in [Nodes -> {"down", "started", "joining", "scan", "serving", "failed"}]
  BY DEF TypeOK, Goto
<1>2. NoAddrs \in [Nodes -> Addrs \cup {None}]
  BY DEF NoAddrs
<1>3. addrs' = [addrs EXCEPT ![n] = NoAddrs] =>
        addrs' \in [Nodes -> [Nodes -> Addrs \cup {None}]]
  BY <1>2 DEF TypeOK
<1> QED
  BY <1>1, <1>3 DEF End

LEMMA TypeStep ==
  MemberInv /\ [Next]_vars => TypeOK'
<1> SUFFICES ASSUME MemberInv, [Next]_vars PROVE TypeOK'
  OBVIOUS
<1>0. TypeOK /\ listed \in Lists /\ \A n \in Nodes : Joining(n)
  BY DEF MemberInv
<1> USE DEF config, raft, loop
<1>1. ASSUME NEW n \in Nodes, InitNode(n) PROVE TypeOK'
  <2>1. addrs' \in [Nodes -> [Nodes -> Addrs \cup {None}]]
    BY <1>0, <1>1 DEF InitNode, Resolved, TypeOK
  <2> QED
    BY <1>0, <1>1, <2>1, EndTypes DEF InitNode, TypeOK
<1>2. ASSUME NEW n \in Nodes, BootstrapCluster(n) PROVE TypeOK'
  <2>1. List(addrs[n]) \subseteq Server /\ Valid(List(addrs[n]))
    BY <1>0, <1>2 DEF BootstrapCluster, TypeOK, List, Server
  <2>2. conf' \subseteq Server /\ Valid(conf') /\ known' \in [Nodes -> SUBSET Server]
    BY <1>0, <1>2, <2>1 DEF BootstrapCluster, TypeOK
  <2> QED
    BY <1>0, <1>2, <2>2, EndTypes DEF BootstrapCluster, TypeOK
<1>3. ASSUME NEW n \in Nodes, ListRefused(n) PROVE TypeOK'
  BY <1>0, <1>3, EndTypes DEF ListRefused, TypeOK
<1>4. ASSUME NEW n \in Nodes, Reconnect(n) PROVE TypeOK'
  <2>1. todo' \in [Nodes -> SUBSET Nodes]
    BY <1>0, <1>4 DEF Reconnect, TypeOK
  <2> QED
    BY <1>0, <1>4, <2>1, EndTypes DEF Reconnect, TypeOK
<1>5. ASSUME NEW n \in Nodes, JoinNext(n) PROVE TypeOK'
  <2>1. /\ todo' \in [Nodes -> SUBSET Nodes]
        /\ peer' \in [Nodes -> Nodes \cup {None}]
        /\ seen' \in [Nodes -> SUBSET Server]
    BY <1>0, <1>5 DEF JoinNext, TypeOK
  <2> QED
    BY <1>0, <1>5, <2>1, EndTypes DEF JoinNext, TypeOK
<1>6. ASSUME NEW n \in Nodes, JoinsDone(n) PROVE TypeOK'
  BY <1>0, <1>6, EndTypes DEF JoinsDone, TypeOK
<1>7. ASSUME NEW n \in Nodes, JoinFails(n), conf' \subseteq Server, Valid(conf)',
             leader' \in Nodes \cup {None}, known' \in [Nodes -> SUBSET Server]
      PROVE  TypeOK'
  BY <1>0, <1>7, EndTypes DEF JoinFails, TypeOK
<1>7a. ASSUME NEW n \in Nodes, JoinFails(n), UNCHANGED raft PROVE TypeOK'
  <2>1. /\ conf' \subseteq Server /\ Valid(conf)' /\ leader' \in Nodes \cup {None}
        /\ known' \in [Nodes -> SUBSET Server]
    BY <1>0, <1>7a DEF TypeOK
  <2> QED
    BY <1>7, <1>7a, <2>1
<1>7b. ASSUME NEW n \in Nodes, NEW c \in SUBSET Server, Valid(c), CommitsLate(n, c)
       PROVE  TypeOK'
  <2>1. /\ conf' = c /\ leader' = None /\ known' = [known EXCEPT ![n] = c]
        /\ JoinFails(n)
    BY <1>7b DEF CommitsLate, Commit
  <2>2. /\ conf' \subseteq Server /\ Valid(conf)' /\ leader' \in Nodes \cup {None}
        /\ known' \in [Nodes -> SUBSET Server]
    BY <1>0, <1>7b, <2>1 DEF TypeOK
  <2> QED
    BY <1>7, <2>1, <2>2
<1>8. ASSUME NEW n \in Nodes, Scan(n) PROVE TypeOK'
  <2>1. PICK s \in seen[n] : Pass(n, s) \/ Ignore(n, s) \/ RemoveServer(n, s)
                               \/ RemoveFails(n, s)
    BY <1>8 DEF Scan
  <2>2. CASE Pass(n, s)
    BY <1>0, <2>2 DEF Pass, TypeOK
  <2>3. CASE Ignore(n, s)
    BY <1>0, <2>3, EndTypes DEF Ignore, TypeOK
  <2>4. CASE RemoveServer(n, s)
    <3> DEFINE rest == {t \in conf : t.id # s.id}
    <3>1. rest \subseteq Server /\ Valid(rest)
      BY <1>0, RestIsValid DEF TypeOK
    <3>2. /\ conf' = rest /\ known' = [known EXCEPT ![n] = rest]
          /\ leader' = (IF s.id = n THEN None ELSE leader)
          /\ seen' = [seen EXCEPT ![n] = @ \ {s}]
          /\ UNCHANGED <<config, addrs, pc, todo, peer>>
      BY <2>4 DEF RemoveServer, Commit
    <3> HIDE DEF rest
    <3> QED
      BY <1>0, <3>1, <3>2 DEF TypeOK
  <2>5. CASE RemoveFails(n, s)
    <3> DEFINE rest == {t \in conf : t.id # s.id}
    <3>1. rest \in SUBSET Server /\ Valid(rest)
      BY <1>0, RestIsValid DEF TypeOK
    <3>2. (JoinFails(n) /\ UNCHANGED raft) \/ CommitsLate(n, rest)
      BY <2>5 DEF RemoveFails
    <3> HIDE DEF rest
    <3> QED
      BY <1>7a, <1>7b, <3>1, <3>2
  <2> QED
    BY <2>1, <2>2, <2>3, <2>4, <2>5
<1>9. ASSUME NEW n \in Nodes, AddVoter(n) PROVE TypeOK'
  <2> DEFINE more == {t \in conf : t.id # peer[n]} \cup {Target(n)}
  <2>1. more \in SUBSET Server
    BY <1>0, <1>9, TargetIsServer DEF AddVoter, Joining, TypeOK
  <2>2. \/ Valid(more) /\ Commit(n, more) /\ Goto(n, "joining")
           /\ UNCHANGED <<config, addrs, leader, loop>>
        \/ Valid(more) /\ CommitsLate(n, more)
        \/ JoinFails(n) /\ UNCHANGED raft
    BY <1>9 DEF AddVoter
  <2> HIDE DEF more
  <2>3. CASE Valid(more) /\ Commit(n, more) /\ Goto(n, "joining")
             /\ UNCHANGED <<config, addrs, leader, loop>>
    BY <1>0, <2>1, <2>3, EndTypes DEF Commit, TypeOK
  <2> QED
    BY <1>7a, <1>7b, <2>1, <2>2, <2>3
<1>10. ASSUME NEW n \in Nodes, Elect(n) PROVE TypeOK'
  BY <1>0, <1>10 DEF Elect, TypeOK
<1>11. ASSUME NEW n \in Nodes, Learn(n) PROVE TypeOK'
  BY <1>0, <1>11 DEF Learn, TypeOK
<1>12. ASSUME NEW n \in Nodes, DeInit(n) PROVE TypeOK'
  <2>1. /\ todo' \in [Nodes -> SUBSET Nodes] /\ seen' \in [Nodes -> SUBSET Server]
        /\ peer' \in [Nodes -> Nodes \cup {None}] /\ leader' \in Nodes \cup {None}
    BY <1>0, <1>12 DEF DeInit, TypeOK
  <2> QED
    BY <1>0, <1>12, <2>1, EndTypes DEF DeInit, TypeOK
<1>13. ASSUME Depose PROVE TypeOK'
  BY <1>0, <1>13 DEF Depose, TypeOK
<1>14. ASSUME UNCHANGED vars PROVE TypeOK'
  BY <1>0, <1>14 DEF TypeOK, vars
<1> QED
  BY <1>1, <1>2, <1>3, <1>4, <1>5, <1>6, <1>8, <1>9, <1>10, <1>11, <1>12, <1>13, <1>14
  DEF Next, Bootstrap

-----------------------------------------------------------------------------
(* The joins of one node. *)

\* Only JoinNext() and the end of a call of join() leave a node joining, so a step
\* that moves one node leaves what Joining() says of the others.
LEMMA JoiningInit ==
  Init => \A n \in Nodes : Joining(n)
BY DEF Init, Joining

LEMMA JoiningKept ==
  ASSUME NEW n \in Nodes, Joining(n), UNCHANGED config,
         pc'[n] = pc[n], peer'[n] = peer[n], addrs'[n] = addrs[n],
         pc[n] = "started" => (known'[n] = known[n] \/ known'[n] # {})
  PROVE  Joining(n)'
BY DEF Joining, Resolved, config

\* A step of one node does not move another.
LEMMA OnlyMoves ==
  ASSUME TypeOK, NEW n \in Nodes, NEW m \in Nodes, m # n,
         \/ InitNode(n) \/ Bootstrap(n) \/ DeInit(n) \/ Elect(n) \/ Learn(n)
  PROVE  /\ pc'[m] = pc[m] /\ peer'[m] = peer[m] /\ addrs'[m] = addrs[m]
         /\ known'[m] = known[m] /\ todo'[m] = todo[m] /\ seen'[m] = seen[m]
         /\ UNCHANGED config
<1> USE DEF config, raft, loop
<1>1. CASE InitNode(n)
  BY <1>1 DEF InitNode, Goto, TypeOK
<1>2. CASE BootstrapCluster(n) \/ ListRefused(n) \/ JoinsDone(n)
  BY <1>2 DEF BootstrapCluster, ListRefused, JoinsDone, End, Goto, TypeOK
<1>3. CASE Reconnect(n)
  BY <1>3 DEF Reconnect, End, Goto, TypeOK
<1>4. CASE JoinNext(n)
  BY <1>4 DEF JoinNext, Goto, TypeOK
<1>5. ASSUME JoinFails(n), known'[m] = known[m]
      PROVE  /\ pc'[m] = pc[m] /\ peer'[m] = peer[m] /\ addrs'[m] = addrs[m]
             /\ known'[m] = known[m] /\ todo'[m] = todo[m] /\ seen'[m] = seen[m]
             /\ UNCHANGED config
  BY <1>5 DEF JoinFails, End, Goto, TypeOK
<1>6. CASE Scan(n)
  <2>1. PICK s \in seen[n] : Pass(n, s) \/ Ignore(n, s) \/ RemoveServer(n, s)
                               \/ RemoveFails(n, s)
    BY <1>6 DEF Scan
  <2>2. CASE Pass(n, s) \/ Ignore(n, s) \/ RemoveServer(n, s)
    BY <2>2 DEF Pass, Ignore, RemoveServer, Commit, Goto, TypeOK
  <2>3. CASE RemoveFails(n, s)
    <3>1. JoinFails(n) /\ known'[m] = known[m]
      BY <2>3 DEF RemoveFails, CommitsLate, Commit, TypeOK
    <3> QED
      BY <1>5, <3>1
  <2> QED
    BY <2>1, <2>2, <2>3
<1>7. CASE AddVoter(n)
  <2>1. known'[m] = known[m]
    BY <1>7 DEF AddVoter, CommitsLate, Commit, TypeOK
  <2>2. CASE JoinFails(n)
    BY <1>5, <2>1, <2>2
  <2>3. CASE Goto(n, "joining") /\ UNCHANGED <<config, addrs, leader, loop>>
    BY <2>1, <2>3 DEF Goto, TypeOK
  <2> QED
    BY <1>7, <2>2, <2>3 DEF AddVoter, CommitsLate
<1>8. CASE DeInit(n)
  BY <1>8 DEF DeInit, End, Goto, TypeOK
<1>9. CASE Elect(n) \/ Learn(n)
  BY <1>9 DEF Elect, Learn, TypeOK
<1> QED
  BY <1>1, <1>2, <1>3, <1>4, <1>6, <1>7, <1>8, <1>9 DEF Bootstrap

\* Where Bootstrap() ends, Joining() asks for nothing.
LEMMA JoiningAtEnd ==
  ASSUME NEW n \in Nodes, pc'[n] \in {"down", "serving", "failed"}
  PROVE  Joining(n)'
BY DEF Joining

LEMMA JoiningStep ==
  MemberInv /\ [Next]_vars => \A n \in Nodes : Joining(n)'
<1> SUFFICES ASSUME MemberInv, [Next]_vars, NEW m \in Nodes PROVE Joining(m)'
  OBVIOUS
<1>0. TypeOK /\ Joining(m)
  BY DEF MemberInv
<1> USE DEF config, raft, loop
<1>1. CASE UNCHANGED vars \/ Depose
  BY <1>0, <1>1, JoiningKept DEF vars, Depose
<1>2. ASSUME NEW n \in Nodes, n # m,
             InitNode(n) \/ Bootstrap(n) \/ DeInit(n) \/ Elect(n) \/ Learn(n)
      PROVE  Joining(m)'
  BY <1>0, <1>2, OnlyMoves, JoiningKept
<1>3. CASE InitNode(m)
  <2>1. PICK lost \in Unresolved :
          /\ m \notin lost /\ (known[m] = {} => lost = missing)
          /\ addrs' = [addrs EXCEPT ![m] = Resolved(lost)]
    BY <1>3 DEF InitNode
  <2>2. addrs'[m] = Resolved(lost)
    BY <1>0, <2>1 DEF TypeOK
  <2>3. addrs'[m][m] = listed[m] /\ (known[m] = {} => addrs'[m] = Resolved(missing))
    BY <1>0, <2>1, <2>2 DEF Resolved
  <2>4. pc'[m] = "started" /\ UNCHANGED <<listed, missing, known>>
    BY <1>0, <1>3 DEF InitNode, Goto, TypeOK
  <2> QED
    BY <2>3, <2>4 DEF Joining, Resolved
<1>4. CASE BootstrapCluster(m) \/ ListRefused(m) \/ JoinsDone(m) \/ DeInit(m)
  <2>1. pc'[m] \in {"down", "serving", "failed"}
    BY <1>0, <1>4 DEF BootstrapCluster, ListRefused, JoinsDone, DeInit, End, Goto, TypeOK
  <2> QED
    BY <2>1, JoiningAtEnd
<1>5. CASE Reconnect(m)
  <2>1. CASE m \in Forced
    <3>1. pc[m] = "started" /\ pc'[m] = "joining" /\ UNCHANGED <<addrs, listed>>
      BY <1>0, <1>5, <2>1 DEF Reconnect, Goto, TypeOK
    <3> QED
      BY <1>0, <2>1, <3>1 DEF Joining
  <2>2. CASE m \notin Forced
    <3>1. pc'[m] = "serving"
      BY <1>0, <1>5, <2>2 DEF Reconnect, End, Goto, TypeOK
    <3> QED
      BY <3>1, JoiningAtEnd
  <2> QED
    BY <2>1, <2>2
<1>6. CASE JoinNext(m)
  <2>1. /\ pc[m] = "joining" /\ pc'[m] = "scan" /\ UNCHANGED <<addrs, listed>>
        /\ peer'[m] \in Nodes
    BY <1>0, <1>6 DEF JoinNext, Goto, TypeOK
  <2> QED
    BY <1>0, <2>1 DEF Joining
<1>7. ASSUME JoinFails(m), pc[m] = "scan" PROVE Joining(m)'
  <2>1. CASE skip
    <3>1. pc'[m] = "joining" /\ UNCHANGED <<addrs, listed>>
      BY <1>0, <1>7, <2>1 DEF JoinFails, Goto, TypeOK
    <3> QED
      BY <1>0, <1>7, <3>1 DEF Joining
  <2>2. CASE ~skip
    <3>1. pc'[m] = "failed"
      BY <1>0, <1>7, <2>2 DEF JoinFails, End, Goto, TypeOK
    <3> QED
      BY <3>1, JoiningAtEnd
  <2> QED
    BY <2>1, <2>2
<1>8. ASSUME pc[m] = "scan", pc'[m] \in {"joining", "scan"},
             UNCHANGED <<addrs, listed, peer>>
      PROVE  Joining(m)'
  BY <1>0, <1>8 DEF Joining
<1>9. CASE Scan(m)
  <2>1. PICK s \in seen[m] : Pass(m, s) \/ Ignore(m, s) \/ RemoveServer(m, s)
                               \/ RemoveFails(m, s)
    BY <1>9 DEF Scan
  <2>2. pc[m] = "scan"
    BY <1>9 DEF Scan
  <2>3. CASE Pass(m, s)
    BY <1>8, <2>2, <2>3 DEF Pass
  <2>4. CASE Ignore(m, s)
    BY <1>0, <1>8, <2>2, <2>4 DEF Ignore, Goto, TypeOK
  <2>5. CASE RemoveServer(m, s)
    BY <1>8, <2>2, <2>5 DEF RemoveServer
  <2>6. CASE RemoveFails(m, s)
    BY <1>7, <2>2, <2>6 DEF RemoveFails, CommitsLate
  <2> QED
    BY <2>1, <2>3, <2>4, <2>5, <2>6
<1>10. CASE AddVoter(m)
  <2>1. pc[m] = "scan"
    BY <1>10 DEF AddVoter
  <2>2. JoinFails(m) \/ (Goto(m, "joining") /\ UNCHANGED <<config, addrs, leader, loop>>)
    BY <1>10 DEF AddVoter, CommitsLate
  <2> QED
    BY <1>0, <1>7, <1>8, <2>1, <2>2 DEF Goto, TypeOK
<1>11. CASE Elect(m)
  BY <1>0, <1>11, JoiningKept DEF Elect
<1>12. CASE Learn(m)
  <2>1. known'[m] # {}
    BY <1>0, <1>12 DEF Learn, Ids, TypeOK
  <2> QED
    BY <1>0, <1>12, <2>1, JoiningKept DEF Learn
<1> QED
  BY <1>1, <1>2, <1>3, <1>4, <1>5, <1>6, <1>9, <1>10, <1>11, <1>12 DEF Next, Bootstrap

-----------------------------------------------------------------------------
(* What the forced node knows. *)

LEMMA KnowsInit ==
  Init /\ OneMemberForced => \A n \in Forced : UpToDate(n) /\ Joined(n)
<1> SUFFICES ASSUME Init, OneMemberForced, NEW n \in Forced PROVE UpToDate(n) /\ Joined(n)
  OBVIOUS
<1>1. n \in Nodes
  BY MembershipConfig
<1>2. pc[n] = "down" /\ conf \in Clusters
  BY <1>1 DEF Init
<1>3. known[n] = conf
  <2>1. conf = {} \/ n \in Ids(conf)
    BY <1>2 DEF OneMemberForced
  <2> QED
    BY <1>1, <2>1 DEF Init
<1> QED
  BY <1>2, <1>3 DEF UpToDate, Joined

\* What is not in a place of the loop has nothing left to scan and has passed nothing.
LEMMA KnowsAtEnd ==
  ASSUME NEW n \in Nodes, UpToDate(n), UNCHANGED <<conf, known, listed, missing>>,
         pc'[n] \notin {"joining", "scan"}
  PROVE  UpToDate(n)' /\ Joined(n)'
BY DEF UpToDate, Joined, List, Resolved

LEMMA KnowsKept ==
  ASSUME NEW n \in Nodes, UpToDate(n), Joined(n), UNCHANGED <<config, conf>>,
         pc'[n] = pc[n], peer'[n] = peer[n], addrs'[n] = addrs[n],
         known'[n] = known[n], todo'[n] = todo[n], seen'[n] \subseteq seen[n]
  PROVE  UpToDate(n)' /\ Joined(n)'
BY DEF UpToDate, Joined, List, Resolved, Listed, config

\* Another node changes the configuration by its BootstrapCluster() only, and that
\* makes the first one: of what every node without state resolves of the list.
LEMMA OthersBootstrapOnly ==
  ASSUME MemberInv, Cardinality(Forced) <= 1, NEW f \in Forced,
         NEW n \in Nodes, n # f,
         \/ InitNode(n) \/ Bootstrap(n) \/ DeInit(n) \/ Elect(n) \/ Learn(n)
  PROVE  UNCHANGED conf \/ (conf = {} /\ conf' = List(Resolved(missing)))
<1>0. pc[n] \notin {"joining", "scan"}
  BY OneForced DEF MemberInv, Joining
<1>1. CASE BootstrapCluster(n)
  <2>1. addrs[n] = Resolved(missing)
    BY <1>1 DEF MemberInv, Joining, BootstrapCluster
  <2> QED
    BY <1>1, <2>1 DEF BootstrapCluster
<1>2. CASE ~BootstrapCluster(n)
  BY <1>0, <1>2 DEF InitNode, Bootstrap, ListRefused, Reconnect, JoinNext, JoinsDone,
     Scan, AddVoter, DeInit, Elect, Learn, raft
<1> QED
  BY <1>1, <1>2

LEMMA KnowsOthers ==
  ASSUME MemberInv, Cardinality(Forced) <= 1, NEW f \in Forced, UpToDate(f), Joined(f),
         NEW n \in Nodes, n # f,
         \/ InitNode(n) \/ Bootstrap(n) \/ DeInit(n) \/ Elect(n) \/ Learn(n)
  PROVE  UpToDate(f)' /\ Joined(f)'
<1>0. f \in Nodes /\ TypeOK
  BY MembershipConfig DEF MemberInv
<1>1. /\ pc'[f] = pc[f] /\ peer'[f] = peer[f] /\ addrs'[f] = addrs[f]
      /\ known'[f] = known[f] /\ todo'[f] = todo[f] /\ seen'[f] = seen[f]
      /\ UNCHANGED config
  BY <1>0, OnlyMoves
<1>2. UNCHANGED conf \/ (conf = {} /\ conf' = List(Resolved(missing)))
  BY OthersBootstrapOnly
<1>3. CASE UNCHANGED conf
  BY <1>0, <1>1, <1>3, KnowsKept
<1>4. CASE conf = {} /\ conf' = List(Resolved(missing))
  <2>1. List(Resolved(missing))' = List(Resolved(missing)) /\ UNCHANGED <<listed, skip, missing>>
    BY <1>1 DEF List, Resolved, config
  <2>2. UpToDate(f)'
    BY <1>1, <1>4, <2>1 DEF UpToDate
  <2>3. Joined(f)'
    BY <1>1, <1>4, <2>1 DEF Joined, Listed
  <2> QED
    BY <2>2, <2>3
<1> QED
  BY <1>2, <1>3, <1>4

\* RemoveServer() takes out of the configuration no server that is left to scan, and
\* none of the list but the peer: what contradicts Listed(peer) is not in the list.
LEMMA KnowsRemove ==
  ASSUME MemberInv, NEW f \in Forced, UpToDate(f), Joined(f), pc[f] = "scan",
         NEW s \in seen[f], RemoveServer(f, s)
  PROVE  UpToDate(f)' /\ Joined(f)'
<1> DEFINE rest == {t \in conf : t.id # s.id}
<1>0. f \in Nodes /\ TypeOK /\ peer[f] \in Nodes /\ listed \in Lists
  BY MembershipConfig DEF MemberInv, Joining
<1>1. /\ conf' = rest /\ known'[f] = rest /\ seen'[f] = seen[f] \ {s}
      /\ UNCHANGED <<listed, skip, missing, addrs, pc, todo, peer>>
  BY <1>0 DEF RemoveServer, Commit, TypeOK, config
<1>2. s \in conf /\ seen[f] \subseteq conf /\ Valid(conf)
  BY <1>0 DEF UpToDate, TypeOK
<1>3. seen'[f] \subseteq rest
  BY <1>1, <1>2 DEF Valid
<1>4. UpToDate(f)'
  BY <1>1, <1>3 DEF UpToDate
<1>5. Joined(f)'
  <2>1. SUFFICES ASSUME ~skip, addrs[f] = listed, NEW i \in Nodes \ todo[f], i # peer[f]
                 PROVE  Listed(i) \in rest
    BY <1>0, <1>1 DEF Joined, Listed
  <2>2. Listed(i) \in conf
    BY <1>0, <2>1 DEF Joined
  <2>3. i # s.id
    <3>1. SUFFICES ASSUME i = s.id PROVE FALSE
      OBVIOUS
    <3>2. s = Listed(i)
      BY <1>2, <2>2, <3>1 DEF Valid, Listed
    <3>3. s.addr = listed[i] /\ s.id # peer[f]
      BY <2>1, <3>2 DEF Listed
    <3>4. listed[i] = listed[peer[f]]
      BY <2>1, <3>3 DEF RemoveServer, Conflicts
    <3> QED
      BY <1>0, <2>1, <3>4, MembershipConfig
  <2> QED
    BY <2>2, <2>3 DEF Listed
<1> QED
  BY <1>4, <1>5

LEMMA KnowsJoinFails ==
  ASSUME MemberInv, NEW f \in Forced, UpToDate(f), Joined(f), pc[f] = "scan",
         JoinFails(f), UNCHANGED raft
  PROVE  UpToDate(f)' /\ Joined(f)'
<1>0. f \in Nodes /\ TypeOK
  BY MembershipConfig DEF MemberInv
<1>1. UNCHANGED <<listed, skip, missing, conf, known, todo, peer, seen>>
  BY DEF JoinFails, config, raft, loop
<1>2. CASE skip
  <2>1. pc'[f] = "joining"
    BY <1>0, <1>2 DEF JoinFails, Goto, TypeOK
  <2> QED
    BY <1>1, <1>2, <2>1 DEF UpToDate, Joined, List, Resolved
<1>3. CASE ~skip
  <2>1. pc'[f] = "failed"
    BY <1>0, <1>3 DEF JoinFails, End, Goto, TypeOK
  <2> QED
    BY <1>0, <1>1, <2>1, KnowsAtEnd
<1> QED
  BY <1>2, <1>3

\* A change that is made although it has failed is known to the node that asked for it,
\* and ends the loop, or leaves a loop that skips errors.
LEMMA KnowsCommitsLate ==
  ASSUME MemberInv, NEW f \in Forced, NEW c, CommitsLate(f, c)
  PROVE  UpToDate(f)' /\ Joined(f)'
<1>0. f \in Nodes /\ TypeOK
  BY MembershipConfig DEF MemberInv
<1>1. conf' = c /\ known'[f] = c /\ UNCHANGED <<listed, skip, missing>>
  BY <1>0 DEF CommitsLate, Commit, JoinFails, TypeOK, config
<1>2. IF skip THEN pc'[f] = "joining" ELSE pc'[f] = "failed"
  BY <1>0 DEF CommitsLate, JoinFails, End, Goto, TypeOK
<1> QED
  BY <1>1, <1>2 DEF UpToDate, Joined

\* The peer is in the configuration when its join has ended: it was there, and nothing
\* has taken it away since it was read, or AddVoter() has put it there.
LEMMA KnowsScan ==
  ASSUME MemberInv, NEW f \in Forced, UpToDate(f), Joined(f), Scan(f)
  PROVE  UpToDate(f)' /\ Joined(f)'
<1>0. f \in Nodes /\ TypeOK /\ pc[f] = "scan" /\ peer[f] \in Nodes
  BY MembershipConfig DEF MemberInv, Joining, Scan
<1>1. PICK s \in seen[f] : Pass(f, s) \/ Ignore(f, s) \/ RemoveServer(f, s)
                             \/ RemoveFails(f, s)
  BY DEF Scan
<1>2. CASE Pass(f, s)
  <2>1. seen'[f] \subseteq seen[f] /\ UNCHANGED <<config, addrs, conf, known, pc, todo, peer>>
    BY <1>0, <1>2 DEF Pass, TypeOK, raft
  <2> QED
    BY <1>0, <2>1, KnowsKept
<1>3. CASE Ignore(f, s)
  <2>1. /\ pc'[f] = "joining"
        /\ UNCHANGED <<listed, skip, missing, addrs, conf, known, todo, peer, seen>>
    BY <1>0, <1>3 DEF Ignore, Goto, TypeOK, config, raft, loop
  <2>2. Target(f) \in conf
    BY <1>0, <1>3 DEF Ignore, UpToDate
  <2> QED
    BY <1>0, <2>1, <2>2 DEF UpToDate, Joined, List, Resolved, Listed, Target
<1>4. CASE RemoveServer(f, s)
  BY <1>0, <1>4, KnowsRemove
<1>5. CASE RemoveFails(f, s)
  BY <1>0, <1>5, KnowsJoinFails, KnowsCommitsLate DEF RemoveFails
<1> QED
  BY <1>1, <1>2, <1>3, <1>4, <1>5

LEMMA KnowsAddVoter ==
  ASSUME MemberInv, NEW f \in Forced, UpToDate(f), Joined(f), AddVoter(f)
  PROVE  UpToDate(f)' /\ Joined(f)'
<1> DEFINE more == {t \in conf : t.id # peer[f]} \cup {Target(f)}
<1>0. f \in Nodes /\ TypeOK /\ pc[f] = "scan" /\ peer[f] \in Nodes
  BY MembershipConfig DEF MemberInv, Joining, AddVoter
<1>1. CASE Commit(f, more) /\ Goto(f, "joining") /\ UNCHANGED <<config, addrs, leader, loop>>
  <2>1. /\ conf' = more /\ known'[f] = more /\ pc'[f] = "joining"
        /\ UNCHANGED <<listed, skip, missing, addrs, todo, peer>>
    BY <1>0, <1>1 DEF Commit, Goto, TypeOK, config, loop
  <2>2. UpToDate(f)'
    BY <2>1 DEF UpToDate
  <2>3. Joined(f)'
    <3>1. SUFFICES ASSUME ~skip, addrs[f] = listed, NEW i \in Nodes \ todo[f]
                   PROVE  Listed(i) \in more
      BY <1>0, <2>1 DEF Joined, Listed
    <3>2. CASE i = peer[f]
      BY <3>1, <3>2 DEF Listed, Target
    <3>3. CASE i # peer[f]
      BY <1>0, <3>1, <3>3 DEF Joined, Listed
    <3> QED
      BY <3>2, <3>3
  <2> QED
    BY <2>2, <2>3
<1>2. CASE JoinFails(f) /\ UNCHANGED raft
  BY <1>0, <1>2, KnowsJoinFails
<1>3. CASE CommitsLate(f, more)
  BY <1>3, KnowsCommitsLate
<1> QED
  BY <1>1, <1>2, <1>3 DEF AddVoter

LEMMA KnowsStep ==
  MemberInv /\ [Next]_vars =>
    (OneMemberForced' => \A n \in Forced : UpToDate(n)' /\ Joined(n)')
<1> SUFFICES ASSUME MemberInv, [Next]_vars, OneMemberForced, NEW f \in Forced
             PROVE  UpToDate(f)' /\ Joined(f)'
  BY DEF OneMemberForced
<1>0. /\ f \in Nodes /\ TypeOK /\ UpToDate(f) /\ Joined(f)
      /\ Cardinality(Forced) <= 1
  BY MembershipConfig DEF MemberInv, OneMemberForced
<1> USE DEF config, raft, loop
<1>1. CASE UNCHANGED vars \/ Depose
  BY <1>0, <1>1, KnowsKept DEF vars, Depose
<1>2. ASSUME NEW n \in Nodes, n # f,
             InitNode(n) \/ Bootstrap(n) \/ DeInit(n) \/ Elect(n) \/ Learn(n)
      PROVE  UpToDate(f)' /\ Joined(f)'
  BY <1>0, <1>2, KnowsOthers
<1>3. CASE InitNode(f) \/ ListRefused(f) \/ JoinsDone(f) \/ DeInit(f)
  <2>1. /\ pc'[f] \in {"started", "failed", "serving", "down"}
        /\ UNCHANGED <<conf, known, listed, missing>>
    BY <1>0, <1>3 DEF InitNode, ListRefused, JoinsDone, DeInit, End, Goto, TypeOK
  <2> QED
    BY <1>0, <2>1, KnowsAtEnd
<1>4. CASE BootstrapCluster(f)
  <2> DEFINE first == List(Resolved(missing))
  <2>1. addrs[f] = Resolved(missing)
    BY <1>0, <1>4 DEF MemberInv, Joining, BootstrapCluster
  <2>2. /\ pc'[f] = "serving" /\ known'[f] = first /\ UNCHANGED <<listed, skip, missing>>
        /\ conf' = IF conf = {} THEN first ELSE conf
    BY <1>0, <1>4, <2>1 DEF BootstrapCluster, End, Goto, TypeOK
  <2>3. conf = {} \/ conf = first
    BY <1>0, <1>4 DEF UpToDate, BootstrapCluster
  <2> QED
    BY <2>2, <2>3 DEF UpToDate, Joined
<1>5. CASE Reconnect(f)
  <2>1. /\ pc'[f] = "joining" /\ todo'[f] = Nodes
        /\ UNCHANGED <<listed, skip, missing, addrs, conf, known, peer, seen>>
    BY <1>0, <1>5 DEF Reconnect, Goto, TypeOK
  <2> QED
    BY <1>0, <2>1 DEF UpToDate, Joined, List, Resolved
<1>6. CASE JoinNext(f)
  <2>1. PICK i \in todo[f] : /\ todo' = [todo EXCEPT ![f] = @ \ {i}]
                             /\ peer' = [peer EXCEPT ![f] = i]
    BY <1>6 DEF JoinNext
  <2>2. /\ pc[f] = "joining" /\ pc'[f] = "scan" /\ seen'[f] = known[f]
        /\ todo'[f] = todo[f] \ {i} /\ peer'[f] = i
        /\ UNCHANGED <<listed, skip, missing, addrs, conf, known>>
    BY <1>0, <1>6, <2>1 DEF JoinNext, Goto, TypeOK
  <2>3. UpToDate(f)'
    BY <1>0, <2>2 DEF UpToDate, List, Resolved
  <2>4. Joined(f)'
    BY <1>0, <2>2 DEF Joined, Listed
  <2> QED
    BY <2>3, <2>4
<1>7. CASE Scan(f)
  BY <1>0, <1>7, KnowsScan
<1>8. CASE AddVoter(f)
  BY <1>0, <1>8, KnowsAddVoter
<1>9. CASE Elect(f)
  BY <1>0, <1>9, KnowsKept DEF Elect
<1>10. CASE Learn(f)
  <2>1. known'[f] = conf /\ UNCHANGED <<config, addrs, conf, pc, loop>>
    BY <1>0, <1>10 DEF Learn, TypeOK
  <2> QED
    BY <1>0, <2>1 DEF UpToDate, Joined, Listed
<1> QED
  BY <1>1, <1>2, <1>3, <1>4, <1>5, <1>6, <1>7, <1>8, <1>9, <1>10 DEF Next, Bootstrap

-----------------------------------------------------------------------------
(* The theorems. *)

LEMMA MemberInit ==
  Init => MemberInv
BY TypeInit, JoiningInit, KnowsInit DEF MemberInv, Init

LEMMA MemberStep ==
  MemberInv /\ [Next]_vars => MemberInv'
<1> SUFFICES ASSUME MemberInv, [Next]_vars PROVE MemberInv'
  OBVIOUS
<1>1. listed' \in Lists
  <2>1. UNCHANGED config
    BY ZenonT(60) DEF Next, vars, InitNode, Bootstrap, BootstrapCluster, ListRefused, Reconnect,
       JoinNext, JoinsDone, Scan, Pass, Ignore, RemoveServer, RemoveFails, AddVoter,
       CommitsLate, JoinFails, DeInit, Elect, Learn, Depose
  <2> QED
    BY <2>1 DEF MemberInv, config
<1> QED
  BY <1>1, TypeStep, JoiningStep, KnowsStep DEF MemberInv

\* The invariant holds throughout.
LEMMA MemberAlways ==
  Spec => []MemberInv
BY MemberInit, MemberStep, PTL DEF Spec

\* Whatever is started, forced, lost or deposed, the configuration of the cluster stays
\* one the library accepts, and every place of Bootstrap() and join() keeps its type.
THEOREM MembershipTypeCorrect ==
  Spec => []TypeOK
<1>1. MemberInv => TypeOK
  BY DEF MemberInv
<1> QED
  BY <1>1, MemberAlways, PTL

\* The configuration loses a server in a forced node's scan only, to AddVoter() or to a
\* RemoveServer() of a server that contradicts the peer, reported as failed or not.
Removes(n, t) ==
  /\ pc[n] = "scan" /\ t \in seen[n]
  /\ Conflicts(t, n) /\ t # Target(n)
  /\ conf' = {u \in conf : u.id # t.id}

LEMMA OnlyScanRemoves ==
  ASSUME TypeOK, [Next]_vars, NEW s \in conf, s \notin conf'
  PROVE  \E n \in Nodes : AddVoter(n) \/ \E t \in seen[n] : Removes(n, t)
<1>1. ASSUME NEW n \in Nodes,
             InitNode(n) \/ ListRefused(n) \/ Reconnect(n) \/ JoinNext(n)
               \/ JoinsDone(n) \/ DeInit(n) \/ Elect(n) \/ Learn(n)
      PROVE  FALSE
  BY <1>1 DEF InitNode, ListRefused, Reconnect, JoinNext, JoinsDone, DeInit, Elect,
     Learn, raft
<1>2. ASSUME NEW n \in Nodes, BootstrapCluster(n) PROVE FALSE
  BY <1>2 DEF BootstrapCluster
<1>3. ASSUME NEW n \in Nodes, Scan(n)
      PROVE  \E t \in seen[n] : Removes(n, t)
  <2>1. PICK t \in seen[n] : RemoveServer(n, t) \/ RemoveFails(n, t)
    BY <1>3 DEF Scan, Pass, Ignore, raft
  <2>2. Removes(n, t)
    BY <1>3, <2>1 DEF Scan, RemoveServer, RemoveFails, CommitsLate, Commit, Removes, raft
  <2> QED
    BY <2>2
<1>4. CASE UNCHANGED vars \/ Depose
  BY <1>4 DEF vars, Depose, raft
<1> QED
  BY <1>1, <1>2, <1>3, <1>4 DEF Next, Bootstrap

\* No forced start that has resolved its list removes a server that is where the list
\* wants it: for any number of nodes, any list and any cluster, with one node forced.
THEOREM ListedServersStayCorrect ==
  Spec => ListedServersStay
<1> DEFINE Stay == OneMemberForced /\ (\A n \in Forced : addrs[n] \in {listed, NoAddrs}) =>
                     \A s \in List(listed) : s \in conf => s \in conf'
<1>1. MemberInv /\ [Next]_vars => Stay
  <2> SUFFICES ASSUME MemberInv, [Next]_vars, OneMemberForced,
                      \A n \in Forced : addrs[n] \in {listed, NoAddrs},
                      NEW s \in List(listed), s \in conf, s \notin conf'
               PROVE  FALSE
    OBVIOUS
  <2>0. TypeOK /\ listed \in Lists
    BY DEF MemberInv
  <2>1. PICK n \in Nodes : AddVoter(n) \/ \E t \in seen[n] : Removes(n, t)
    BY <2>0, OnlyScanRemoves
  <2>2. pc[n] = "scan"
    BY <2>1 DEF AddVoter, Removes
  <2>3. n \in Forced /\ peer[n] \in Nodes /\ addrs[n][n] = listed[n]
    BY <2>2 DEF MemberInv, Joining
  <2>4. addrs[n] = listed
    <3>1. listed[n] # None
      BY <2>0, MembershipConfig DEF TypeOK
    <3> QED
      BY <2>3, <3>1 DEF NoAddrs
  <2>5. UpToDate(n) /\ Target(n) = Listed(peer[n])
    BY <2>3, <2>4 DEF MemberInv, Target, Listed
  <2>6. PICK i \in Nodes : s = Listed(i)
    BY DEF List, Listed
  <2>7. CASE AddVoter(n)
    <3>1. conf' = {t \in conf : t.id # peer[n]} \cup {Target(n)}
      BY <2>7 DEF AddVoter, CommitsLate, Commit, raft
    <3>2. s.id = peer[n]
      BY <3>1
    <3> QED
      BY <2>5, <2>6, <3>1, <3>2 DEF Listed
  <2>8. CASE \E t \in seen[n] : Removes(n, t)
    <3>1. PICK t \in seen[n] : Removes(n, t)
      BY <2>8
    <3>2. t \in conf /\ Valid(conf)
      BY <2>0, <2>2, <2>5 DEF UpToDate, TypeOK
    <3>3. s.id = t.id
      BY <3>1 DEF Removes
    <3>4. t = Listed(i)
      BY <2>6, <3>2, <3>3 DEF Valid
    <3>5. i = peer[n]
      <4>1. t.id = i /\ t.addr = listed[i]
        BY <3>4 DEF Listed
      <4>2. i = peer[n] \/ listed[i] = listed[peer[n]]
        BY <2>4, <3>1, <4>1 DEF Removes, Conflicts
      <4> QED
        BY <2>0, <2>3, <4>2, MembershipConfig
    <3> QED
      BY <2>5, <3>1, <3>4, <3>5 DEF Removes
  <2> QED
    BY <2>1, <2>7, <2>8
<1> QED
  BY <1>1, MemberAlways, PTL DEF Spec, ListedServersStay

\* When the loop of the forced start has ended without an error, all that is listed is
\* in the cluster, however the elections went and whatever was there before.
THEOREM AllJoinedCorrect ==
  Spec => AllJoined
<1> DEFINE Joins == OneMemberForced /\ ~skip =>
                      \A n \in Forced :
                        pc[n] = "joining" /\ pc'[n] = "serving" /\ addrs[n] = listed
                          => List(listed) \subseteq conf
<1>1. MemberInv /\ [Next]_vars => Joins
  <2> SUFFICES ASSUME MemberInv, [Next]_vars, OneMemberForced, ~skip, NEW f \in Forced,
                      pc[f] = "joining", pc'[f] = "serving", addrs[f] = listed
               PROVE  List(listed) \subseteq conf
    OBVIOUS
  <2>0. f \in Nodes /\ TypeOK /\ Joined(f)
    BY MembershipConfig DEF MemberInv
  <2>1. todo[f] = {}
    <3>1. CASE UNCHANGED vars \/ Depose
      BY <3>1 DEF vars, Depose
    <3>2. ASSUME NEW n \in Nodes, n # f,
                 InitNode(n) \/ Bootstrap(n) \/ DeInit(n) \/ Elect(n) \/ Learn(n)
          PROVE  FALSE
      BY <2>0, <3>2, OnlyMoves
    <3>3. CASE InitNode(f) \/ BootstrapCluster(f) \/ ListRefused(f) \/ Reconnect(f)
                 \/ Scan(f) \/ AddVoter(f)
      BY <3>3 DEF InitNode, BootstrapCluster, ListRefused, Reconnect, Scan, AddVoter
    <3>4. CASE JoinNext(f) \/ DeInit(f) \/ Elect(f) \/ Learn(f)
      BY <2>0, <3>4 DEF JoinNext, DeInit, Elect, Learn, End, Goto, TypeOK
    <3>5. CASE JoinsDone(f)
      BY <3>5 DEF JoinsDone
    <3> QED
      BY <3>1, <3>2, <3>3, <3>4, <3>5 DEF Next, Bootstrap
  <2>2. \A i \in Nodes : Listed(i) \in conf
    BY <2>0, <2>1 DEF Joined
  <2> QED
    BY <2>2 DEF List, Listed
<1> QED
  BY <1>1, MemberAlways, PTL DEF Spec, AllJoined
=============================================================================
