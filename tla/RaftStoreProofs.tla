-------------------------- MODULE RaftStoreProofs ---------------------------
(* Theorems about RaftStore for every set of nodes, keys and values, and   *)
(* any number of commands, snapshots and restarts.                         *)
EXTENDS RaftStore, SequenceTheorems, TLAPS

\* How far each node is: it has executed no more than it stores, has no snapshot
\* of more than that, and stores no more than has been committed.
Bounds ==
  \A n \in Nodes :
    /\ stored[n] <= Len(log)
    /\ applied[n] <= stored[n]
    /\ snap[n].index <= stored[n]
    /\ taking[n] # None => taking[n].index <= stored[n]

\* The inductive invariant.
IInv == TypeOK /\ HistoryOfLog /\ Bounds /\ MapIsHistory

-----------------------------------------------------------------------------
(* The operators. *)

LEMMA ExecType ==
  ASSUME NEW cmd \in Commands, NEW map \in Maps PROVE Exec(cmd, map) \in Maps
BY DEF Commands, Maps, Exec

LEMMA EmptyType == Empty \in Maps
BY DEF Empty, Maps

LEMMA NewerOf ==
  ASSUME NEW s \in Snapshots, NEW t \in Snapshots
  PROVE  /\ Newer(s, t) \in {s, t}
         /\ Newer(s, t).index >= s.index /\ Newer(s, t).index >= t.index
BY DEF Newer, Snapshots

LEMMA SnapshotParts ==
  ASSUME NEW s \in Snapshots PROVE s.index \in Nat /\ s.store \in Maps
BY DEF Snapshots

LEMMA KeptBound ==
  ASSUME TypeOK, NEW n \in Nodes, NEW i \in Nat
  PROVE  /\ Kept(n, i) \in Nat
         /\ Kept(n, i) <= first[n] \/ Kept(n, i) <= i + 1
<1>1. stored[n] \in Nat /\ first[n] \in Nat /\ TrailingLogs \in Nat
  BY StoreConfig DEF StoreConfig, TypeOK
<1>2. QED BY <1>1 DEF Kept

\* A snapshot that is being taken is one.
LEMMA TakingType ==
  ASSUME TypeOK, NEW n \in Nodes, taking[n] # None
  PROVE  taking[n] \in Snapshots
BY DEF TypeOK

-----------------------------------------------------------------------------
(* Every action preserves the types. *)

LEMMA InitType == Init => TypeOK
<1> SUFFICES ASSUME Init PROVE TypeOK
  OBVIOUS
<1>1. log \in Seq(Commands) BY EmptySeq DEF Init
<1>2. history \in Seq(Maps) BY EmptyType DEF Init
<1>3. snap \in [Nodes -> Snapshots] BY EmptyType DEF Init, Snapshots
<1>4. m \in [Nodes -> Maps] BY EmptyType DEF Init
<1>5. QED BY <1>1, <1>2, <1>3, <1>4 DEF Init, TypeOK

LEMMA CommitType ==
  ASSUME IInv, NEW cmd \in Commands, NEW Q \in SUBSET Nodes, Commit(cmd, Q)
  PROVE  TypeOK'
<1>1. /\ log \in Seq(Commands) /\ history \in Seq(Maps)
      /\ stored \in [Nodes -> Nat]
      /\ Len(history) = Len(log) + 1 /\ Len(log) \in Nat
  BY LenProperties DEF IInv, TypeOK, HistoryOfLog
<1>2. history[Len(history)] \in Maps BY <1>1, ElementOfSeq
<1>3. log' \in Seq(Commands) BY <1>1, AppendProperties DEF Commit
<1>4. history' \in Seq(Maps)
  BY <1>1, <1>2, ExecType, AppendProperties DEF Commit
<1>5. stored' \in [Nodes -> Nat] BY <1>1 DEF Commit
<1>6. UNCHANGED <<leader, up, first, snap, taking, applied, m>>
  BY DEF Commit, fsm
<1>7. lost' \subseteq Nodes BY DEF Commit, IInv, TypeOK
<1>8. QED BY <1>3, <1>4, <1>5, <1>6, <1>7 DEF IInv, TypeOK

LEMMA ApplyType == ASSUME IInv, NEW n \in Nodes, Apply(n) PROVE TypeOK'
<1>1. /\ log \in Seq(Commands) /\ applied \in [Nodes -> Nat]
      /\ m \in [Nodes -> Maps] /\ stored \in [Nodes -> Nat]
      /\ applied[n] < stored[n] /\ stored[n] <= Len(log) /\ Len(log) \in Nat
  BY LenProperties DEF IInv, TypeOK, Bounds, Apply
<1>2. log[applied[n] + 1] \in Commands BY <1>1, ElementOfSeq
<1>3. /\ applied' = [applied EXCEPT ![n] = @ + 1]
      /\ m' = [m EXCEPT ![n] = Exec(log[applied[n] + 1], @)]
      /\ UNCHANGED <<log, history, leader, up, stored, first, snap, lost, taking>>
  BY DEF Apply, disk
<1>4. applied' \in [Nodes -> Nat] BY <1>1, <1>3
<1>5. m' \in [Nodes -> Maps] BY <1>1, <1>2, <1>3, ExecType
<1>6. QED BY <1>3, <1>4, <1>5 DEF IInv, TypeOK

LEMMA SnapshotType == ASSUME IInv, NEW n \in Nodes, Snapshot(n) PROVE TypeOK'
<1>1. /\ taking \in [Nodes -> Snapshots \cup {None}]
      /\ applied[n] \in Nat /\ m[n] \in Maps
  BY DEF IInv, TypeOK
<1>2. [index |-> applied[n], store |-> m[n]] \in Snapshots BY <1>1 DEF Snapshots
<1>3. taking' \in [Nodes -> Snapshots \cup {None}] BY <1>1, <1>2 DEF Snapshot
<1>4. QED BY <1>3 DEF IInv, TypeOK, Snapshot, disk, fsm

LEMMA PersistType == ASSUME IInv, NEW n \in Nodes, Persist(n) PROVE TypeOK'
<1>1. /\ snap \in [Nodes -> Snapshots] /\ first \in [Nodes -> Nat]
      /\ taking \in [Nodes -> Snapshots \cup {None}]
  BY DEF IInv, TypeOK
<1>2. taking[n] \in Snapshots /\ taking[n].index \in Nat
  BY TakingType, SnapshotParts DEF IInv, Persist
<1>3. Newer(taking[n], snap[n]) \in Snapshots BY <1>1, <1>2, NewerOf
<1>4. snap' \in [Nodes -> Snapshots] BY <1>1, <1>3 DEF Persist
<1>5. Kept(n, taking[n].index) \in Nat BY <1>2, KeptBound DEF IInv
<1>6. first' \in [Nodes -> Nat] BY <1>1, <1>5 DEF Persist
<1>7. taking' \in [Nodes -> Snapshots \cup {None}] BY <1>1 DEF Persist
<1>8. UNCHANGED <<log, history, leader, up, stored, applied, m>>
  BY DEF Persist, fsm
<1>9. lost' \subseteq Nodes BY DEF Persist, IInv, TypeOK
<1>10. QED BY <1>4, <1>6, <1>7, <1>8, <1>9 DEF IInv, TypeOK

LEMMA InstallType ==
  ASSUME IInv, NEW n \in Nodes, InstallSnapshot(n) PROVE TypeOK'
<1> DEFINE s == snap[leader]
<1>1. /\ snap \in [Nodes -> Snapshots] /\ first \in [Nodes -> Nat]
      /\ stored \in [Nodes -> Nat] /\ applied \in [Nodes -> Nat]
      /\ m \in [Nodes -> Maps] /\ leader \in Nodes
  BY DEF IInv, TypeOK, InstallSnapshot
<1>2. s \in Snapshots /\ s.index \in Nat /\ s.store \in Maps
  BY <1>1, SnapshotParts
<1>3. Newer(s, snap[n]) \in Snapshots BY <1>1, <1>2, NewerOf
<1>4. snap' \in [Nodes -> Snapshots] BY <1>1, <1>3 DEF InstallSnapshot
<1>5. m' \in [Nodes -> Maps] BY <1>1, <1>2 DEF InstallSnapshot, Restore
<1>6. applied' \in [Nodes -> Nat] BY <1>1, <1>2 DEF InstallSnapshot, Restore
<1>7. Kept(n, s.index) \in Nat BY <1>2, KeptBound DEF IInv
<1>8. first' \in [Nodes -> Nat] BY <1>1, <1>2, <1>7 DEF InstallSnapshot
<1>9. stored' \in [Nodes -> Nat] BY <1>1, <1>2 DEF InstallSnapshot
<1>10. UNCHANGED <<log, history, leader, up, lost, taking>> BY DEF InstallSnapshot
<1>11. QED BY <1>4, <1>5, <1>6, <1>8, <1>9, <1>10 DEF IInv, TypeOK

LEMMA OtherType ==
  ASSUME IInv, NEW n \in Nodes,
         Replicate(n) \/ Elect(n) \/ Crash(n) \/ Restart(n)
  PROVE  TypeOK'
<1>0. /\ snap \in [Nodes -> Snapshots] /\ stored \in [Nodes -> Nat]
      /\ applied \in [Nodes -> Nat] /\ m \in [Nodes -> Maps]
      /\ up \in [Nodes -> BOOLEAN] /\ taking \in [Nodes -> Snapshots \cup {None}]
  BY DEF IInv, TypeOK
<1>1. CASE Replicate(n)
  <2>1. stored' \in [Nodes -> Nat] BY <1>0, <1>1 DEF Replicate
  <2>2. QED BY <1>1, <2>1 DEF IInv, TypeOK, Replicate, fsm
<1>2. CASE Elect(n) BY <1>2 DEF IInv, TypeOK, Elect, disk, fsm
<1>3. CASE Crash(n)
  <2>1. up' \in [Nodes -> BOOLEAN] BY <1>0, <1>3 DEF Crash
  <2>2. taking' \in [Nodes -> Snapshots \cup {None}] BY <1>0, <1>3 DEF Crash
  <2>3. QED BY <1>3, <2>1, <2>2 DEF IInv, TypeOK, Crash, disk, fsm
<1>4. CASE Restart(n)
  <2>1. snap[n].index \in Nat /\ snap[n].store \in Maps BY <1>0, SnapshotParts
  <2>2. up' \in [Nodes -> BOOLEAN] BY <1>0, <1>4 DEF Restart
  <2>3. m' \in [Nodes -> Maps] BY <1>0, <1>4, <2>1 DEF Restart, Restore
  <2>4. applied' \in [Nodes -> Nat] BY <1>0, <1>4, <2>1 DEF Restart, Restore
  <2>5. QED BY <1>4, <2>2, <2>3, <2>4 DEF IInv, TypeOK, Restart, disk
<1>5. QED BY <1>1, <1>2, <1>3, <1>4
-----------------------------------------------------------------------------
(* Every action preserves the bounds. *)

\* What a step that leaves log and storage alone has to show.
LEMMA BoundsKept ==
  ASSUME Bounds, UNCHANGED <<log, stored>>,
         \A n \in Nodes :
           /\ applied'[n] = applied[n] \/ applied'[n] <= stored[n]
           /\ snap'[n] = snap[n] \/ snap'[n].index <= stored[n]
           /\ taking'[n] \in {taking[n], None} \/ taking'[n].index <= stored[n]
  PROVE  Bounds'
BY DEF Bounds

LEMMA CommitBounds ==
  ASSUME IInv, NEW cmd, NEW Q \in SUBSET Nodes, Commit(cmd, Q)
  PROVE  Bounds'
<1>1. /\ log \in Seq(Commands) /\ Len(log) \in Nat
      /\ stored \in [Nodes -> Nat] /\ applied \in [Nodes -> Nat]
      /\ snap \in [Nodes -> Snapshots] /\ taking \in [Nodes -> Snapshots \cup {None}]
  BY LenProperties DEF IInv, TypeOK
<1>2. Len(log') = Len(log) + 1
  BY <1>1, LenProperties DEF Commit
<1>3. /\ stored' = [n \in Nodes |-> IF n \in Q THEN Len(log) + 1 ELSE stored[n]]
      /\ UNCHANGED <<applied, snap, taking>>
  BY DEF Commit, fsm
<1>4. ASSUME NEW n \in Nodes
      PROVE  /\ stored'[n] <= Len(log') /\ stored[n] <= stored'[n]
             /\ stored[n] \in Nat /\ stored'[n] \in Nat
  <2>1. stored[n] \in Nat /\ stored[n] <= Len(log)
    BY <1>1 DEF IInv, Bounds
  <2>2. stored'[n] = Len(log) + 1 \/ stored'[n] = stored[n] BY <1>3
  <2>3. QED BY <1>1, <1>2, <2>1, <2>2
<1>5. ASSUME NEW n \in Nodes
      PROVE  /\ applied[n] <= stored'[n]
             /\ snap[n].index <= stored'[n]
             /\ taking[n] # None => taking[n].index <= stored'[n]
  <2>1. applied[n] \in Nat /\ applied[n] <= stored[n]
    BY <1>1 DEF IInv, Bounds
  <2>2. snap[n].index \in Nat /\ snap[n].index <= stored[n]
    BY <1>1, SnapshotParts DEF IInv, Bounds
  <2>3. taking[n] # None => taking[n].index \in Nat /\ taking[n].index <= stored[n]
    BY TakingType, SnapshotParts DEF IInv, Bounds
  <2>4. QED BY <1>4, <2>1, <2>2, <2>3
<1>6. QED BY <1>3, <1>4, <1>5 DEF Bounds

LEMMA FsmBounds ==
  ASSUME IInv, NEW n \in Nodes, Apply(n) \/ Snapshot(n) \/ Persist(n)
  PROVE  Bounds'
<1>0. /\ applied \in [Nodes -> Nat] /\ stored \in [Nodes -> Nat]
      /\ snap \in [Nodes -> Snapshots]
      /\ taking \in [Nodes -> Snapshots \cup {None}] /\ Bounds
  BY DEF IInv, TypeOK
<1>1. CASE Apply(n)
  <2>1. \A k \in Nodes : applied'[k] = applied[k] \/ applied'[k] <= stored[k]
    BY <1>0, <1>1 DEF Apply
  <2>2. QED BY <1>0, <1>1, <2>1, BoundsKept DEF Apply, disk
<1>2. CASE Snapshot(n)
  <2>1. taking' = [taking EXCEPT ![n] = [index |-> applied[n], store |-> m[n]]]
    BY <1>2 DEF Snapshot
  <2>2. \A k \in Nodes : taking'[k] \in {taking[k], None} \/ taking'[k].index <= stored[k]
    BY <1>0, <2>1 DEF Bounds
  <2>3. QED BY <1>0, <1>2, <2>2, BoundsKept DEF Snapshot, disk, fsm
<1>3. CASE Persist(n)
  <2>1. taking[n] \in Snapshots /\ taking[n].index <= stored[n]
    BY <1>0, <1>3, TakingType DEF IInv, Bounds, Persist
  <2>2. Newer(taking[n], snap[n]).index <= stored[n]
    BY <1>0, <2>1, NewerOf DEF Bounds
  <2>3. /\ snap' = snap \/ snap' = [snap EXCEPT ![n] = Newer(taking[n], snap[n])]
        /\ taking' = [taking EXCEPT ![n] = None]
    BY <1>3 DEF Persist
  <2>4. \A k \in Nodes : snap'[k] = snap[k] \/ snap'[k].index <= stored[k]
    BY <1>0, <2>2, <2>3
  <2>5. \A k \in Nodes : taking'[k] \in {taking[k], None}
    BY <1>0, <2>3
  <2>6. QED BY <1>0, <1>3, <2>4, <2>5, BoundsKept DEF Persist, fsm
<1>4. QED BY <1>1, <1>2, <1>3

LEMMA InstallBounds ==
  ASSUME IInv, NEW n \in Nodes, InstallSnapshot(n) PROVE Bounds'
<1> DEFINE s == snap[leader]
<1>1. /\ snap \in [Nodes -> Snapshots] /\ stored \in [Nodes -> Nat]
      /\ applied \in [Nodes -> Nat] /\ leader \in Nodes
      /\ taking \in [Nodes -> Snapshots \cup {None}]
  BY DEF IInv, TypeOK, InstallSnapshot
<1>2. s \in Snapshots /\ s.index \in Nat /\ s.index <= Len(log) /\ Len(log) \in Nat
  <2>1. s \in Snapshots /\ s.index \in Nat BY <1>1, SnapshotParts
  <2>2. s.index <= stored[leader] /\ stored[leader] <= Len(log) /\ stored[leader] \in Nat
    BY <1>1 DEF IInv, Bounds
  <2>3. Len(log) \in Nat BY LenProperties DEF IInv, TypeOK
  <2>4. QED BY <2>1, <2>2, <2>3
<1>3. /\ stored' = [stored EXCEPT ![n] = IF @ < s.index THEN s.index ELSE @]
      /\ snap' = [snap EXCEPT ![n] = Newer(s, @)]
      /\ applied' = [applied EXCEPT ![n] = s.index]
      /\ UNCHANGED <<log, taking>>
  BY DEF InstallSnapshot, Restore
<1>4. /\ stored'[n] \in Nat /\ stored[n] <= stored'[n]
      /\ s.index <= stored'[n] /\ stored'[n] <= Len(log)
  BY <1>1, <1>2, <1>3 DEF IInv, Bounds
<1>5. Newer(s, snap[n]).index <= stored'[n]
  <2>1. Newer(s, snap[n]) \in {s, snap[n]} BY <1>1, <1>2, NewerOf
  <2>2. snap[n].index <= stored[n] /\ snap[n].index \in Nat
    BY <1>1, SnapshotParts DEF IInv, Bounds
  <2>3. stored[n] \in Nat BY <1>1
  <2>4. QED BY <1>2, <1>4, <2>1, <2>2, <2>3
<1>6. taking[n] # None => taking[n].index <= stored'[n]
  <2>1. taking[n] # None => taking[n].index \in Nat /\ taking[n].index <= stored[n]
    BY TakingType, SnapshotParts DEF IInv, Bounds
  <2>2. QED BY <1>1, <1>4, <2>1
<1>7. ASSUME NEW k \in Nodes, k # n
      PROVE  /\ stored'[k] = stored[k] /\ applied'[k] = applied[k]
             /\ snap'[k] = snap[k]
  BY <1>1, <1>3, <1>7
<1>8. applied'[n] = s.index /\ snap'[n] = Newer(s, snap[n]) BY <1>1, <1>3
<1>9. QED BY <1>3, <1>4, <1>5, <1>6, <1>7, <1>8 DEF IInv, Bounds

LEMMA OtherBounds ==
  ASSUME IInv, NEW n \in Nodes,
         Replicate(n) \/ Elect(n) \/ Crash(n) \/ Restart(n)
  PROVE  Bounds'
<1>0. /\ snap \in [Nodes -> Snapshots] /\ stored \in [Nodes -> Nat]
      /\ applied \in [Nodes -> Nat] /\ taking \in [Nodes -> Snapshots \cup {None}]
      /\ Bounds
  BY DEF IInv, TypeOK
<1>1. CASE Replicate(n)
  <2>1. /\ stored' = [stored EXCEPT ![n] = @ + 1] /\ leader \in Nodes
        /\ stored[n] < stored[leader] /\ UNCHANGED <<log, applied, snap, taking>>
    BY <1>1 DEF IInv, TypeOK, Replicate, fsm
  <2>2. stored[n] + 1 <= Len(log)
    <3>1. stored[leader] <= Len(log) /\ stored[leader] \in Nat /\ Len(log) \in Nat
      BY <1>0, <2>1, LenProperties DEF Bounds, IInv, TypeOK
    <3>2. QED BY <1>0, <2>1, <3>1
  <2>3. \A k \in Nodes : /\ stored[k] \in Nat /\ stored[k] <= stored'[k]
                         /\ stored'[k] \in Nat /\ stored'[k] <= Len(log)
    BY <1>0, <2>1, <2>2 DEF Bounds
  <2>4. \A k \in Nodes :
          /\ applied[k] \in Nat /\ snap[k].index \in Nat
          /\ taking[k] # None => taking[k].index \in Nat
    BY <1>0, SnapshotParts
  <2>5. QED BY <1>0, <2>1, <2>3, <2>4 DEF Bounds
<1>2. CASE Elect(n) BY <1>0, <1>2 DEF Elect, disk, fsm, Bounds
<1>3. CASE Crash(n)
  <2>1. \A k \in Nodes : taking'[k] \in {taking[k], None} BY <1>0, <1>3 DEF Crash
  <2>2. QED BY <1>0, <1>3, <2>1, BoundsKept DEF Crash, disk, fsm
<1>4. CASE Restart(n)
  <2>1. \A k \in Nodes : applied'[k] = applied[k] \/ applied'[k] <= stored[k]
    BY <1>0, <1>4 DEF Restart, Restore, Bounds
  <2>2. QED BY <1>0, <1>4, <2>1, BoundsKept DEF Restart, disk
<1>5. QED BY <1>1, <1>2, <1>3, <1>4
-----------------------------------------------------------------------------
(* Every action preserves the history and the maps. *)

LEMMA CommitHistory ==
  ASSUME IInv, NEW cmd \in Commands, NEW Q \in SUBSET Nodes, Commit(cmd, Q)
  PROVE  HistoryOfLog'
<1> DEFINE len == Len(log)
           new == Exec(cmd, history[Len(history)])
<1>1. /\ log \in Seq(Commands) /\ history \in Seq(Maps) /\ len \in Nat
      /\ Len(history) = len + 1 /\ history[1] = Empty
  BY LenProperties DEF IInv, TypeOK, HistoryOfLog
<1>2. new \in Maps BY <1>1, ElementOfSeq, ExecType
<1>3. log' = Append(log, cmd) /\ history' = Append(history, new)
  BY DEF Commit
<1>4. /\ Len(log') = len + 1 /\ log'[len + 1] = cmd
      /\ \A i \in 1 .. len : log'[i] = log[i]
  BY <1>1, <1>3, AppendProperties
<1>5. /\ Len(history') = len + 2 /\ history'[len + 2] = new
      /\ \A i \in 1 .. len + 1 : history'[i] = history[i]
  <2>1. /\ Len(history') = Len(history) + 1 /\ history'[Len(history) + 1] = new
        /\ \A i \in 1 .. Len(history) : history'[i] = history[i]
    BY <1>1, <1>2, <1>3, AppendProperties
  <2>2. QED BY <1>1, <2>1
<1>6. ASSUME NEW i \in 1 .. Len(log')
      PROVE  history'[i + 1] = Exec(log'[i], history'[i])
  <2>1. CASE i \in 1 .. len
    <3>1. history[i + 1] = Exec(log[i], history[i])
      BY <2>1 DEF IInv, HistoryOfLog
    <3>2. /\ history'[i + 1] = history[i + 1] /\ history'[i] = history[i]
          /\ log'[i] = log[i]
      BY <1>1, <1>4, <1>5, <2>1
    <3>3. QED BY <3>1, <3>2
  <2>2. CASE i = len + 1 BY <1>1, <1>4, <1>5, <2>2
  <2>3. QED BY <1>1, <1>4, <2>1, <2>2
<1>7. Len(history') = Len(log') + 1 /\ history'[1] = Empty
  BY <1>1, <1>4, <1>5
<1>8. QED BY <1>6, <1>7 DEF HistoryOfLog

\* A longer history says the same of the states it had.
LEMMA CommitMaps ==
  ASSUME IInv, NEW cmd \in Commands, NEW Q \in SUBSET Nodes, Commit(cmd, Q)
  PROVE  MapIsHistory'
<1> DEFINE new == Exec(cmd, history[Len(history)])
<1>1. /\ history \in Seq(Maps) /\ Len(history) \in Nat /\ Len(history) # 0
      /\ history' = Append(history, new)
  BY LenProperties DEF IInv, TypeOK, HistoryOfLog, Commit
<1>2. new \in Maps BY <1>1, ElementOfSeq, ExecType
<1>3. /\ Len(history') = Len(history) + 1
      /\ \A i \in 1 .. Len(history) : history'[i] = history[i]
  BY <1>1, <1>2, AppendProperties
<1>4. ASSUME NEW map, NEW i \in Nat, AtIndex(map, i)
      PROVE  i < Len(history') /\ map = history'[i + 1]
  BY <1>1, <1>3, <1>4 DEF AtIndex
<1>5. ASSUME NEW n \in Nodes
      PROVE  /\ applied[n] \in Nat /\ snap[n].index \in Nat
             /\ taking[n] # None => taking[n].index \in Nat
  BY TakingType, SnapshotParts DEF IInv, TypeOK
<1>6. UNCHANGED <<m, applied, snap, taking>> BY DEF Commit, fsm
<1>7. QED BY <1>4, <1>5, <1>6 DEF IInv, MapIsHistory, AtIndex

LEMMA ApplyMaps == ASSUME IInv, NEW n \in Nodes, Apply(n) PROVE MapIsHistory'
<1> DEFINE i == applied[n]
<1>1. /\ applied' = [applied EXCEPT ![n] = i + 1] /\ applied \in [Nodes -> Nat]
      /\ m' = [m EXCEPT ![n] = Exec(log[i + 1], m[n])] /\ m \in [Nodes -> Maps]
      /\ UNCHANGED <<history, snap, taking>>
  BY DEF IInv, TypeOK, Apply, disk
<1>2. i \in Nat /\ i + 1 \in 1 .. Len(log) /\ Len(history) = Len(log) + 1
  <2>1. /\ i \in Nat /\ stored[n] \in Nat /\ Len(log) \in Nat
        /\ i < stored[n] /\ stored[n] <= Len(log)
    BY LenProperties DEF IInv, TypeOK, Bounds, Apply
  <2>2. QED BY <2>1 DEF IInv, HistoryOfLog
<1>3. m[n] = history[i + 1] BY DEF IInv, MapIsHistory, AtIndex
<1>4. history[(i + 1) + 1] = Exec(log[i + 1], history[i + 1])
  BY <1>2 DEF IInv, HistoryOfLog
<1>5. AtIndex(m[n], applied[n])'
  <2>1. m'[n] = history[(i + 1) + 1] /\ applied'[n] = i + 1 BY <1>1, <1>3, <1>4
  <2>2. i + 1 < Len(history) BY <1>2
  <2>3. QED BY <1>1, <2>1, <2>2 DEF AtIndex
<1>6. ASSUME NEW k \in Nodes, k # n PROVE AtIndex(m[k], applied[k])'
  BY <1>1, <1>6 DEF IInv, MapIsHistory, AtIndex
<1>7. QED BY <1>1, <1>5, <1>6 DEF IInv, MapIsHistory, AtIndex

\* What a step that leaves the history alone has to show of one node.
LEMMA MapsKept ==
  ASSUME MapIsHistory, UNCHANGED history, NEW n \in Nodes,
         \A k \in Nodes \ {n} :
           m'[k] = m[k] /\ applied'[k] = applied[k] /\ snap'[k] = snap[k]
           /\ taking'[k] = taking[k],
         AtIndex(m'[n], applied'[n]),
         AtIndex(snap'[n].store, snap'[n].index),
         taking'[n] # None => AtIndex(taking'[n].store, taking'[n].index)
  PROVE  MapIsHistory'
BY DEF MapIsHistory, AtIndex

LEMMA SnapshotMaps ==
  ASSUME IInv, NEW n \in Nodes, Snapshot(n) \/ Persist(n) \/ Crash(n) \/ Restart(n)
  PROVE  MapIsHistory'
<1>0. /\ snap \in [Nodes -> Snapshots] /\ applied \in [Nodes -> Nat]
      /\ m \in [Nodes -> Maps] /\ taking \in [Nodes -> Snapshots \cup {None}]
      /\ MapIsHistory
      /\ AtIndex(m[n], applied[n]) /\ AtIndex(snap[n].store, snap[n].index)
      /\ taking[n] # None => AtIndex(taking[n].store, taking[n].index)
  BY DEF IInv, TypeOK, MapIsHistory
<1>1. CASE Snapshot(n)
  <2>1. /\ taking' = [taking EXCEPT ![n] = [index |-> applied[n], store |-> m[n]]]
        /\ UNCHANGED <<history, m, applied, snap>>
    BY <1>1 DEF Snapshot, disk, fsm
  <2>2. /\ AtIndex(taking'[n].store, taking'[n].index)
        /\ \A k \in Nodes \ {n} : taking'[k] = taking[k]
    BY <1>0, <2>1
  <2>3. QED BY <1>0, <2>1, <2>2, MapsKept
<1>2. CASE Persist(n)
  <2>1. /\ snap' = snap \/ snap' = [snap EXCEPT ![n] = Newer(taking[n], snap[n])]
        /\ taking' = [taking EXCEPT ![n] = None] /\ taking[n] # None
        /\ UNCHANGED <<history, m, applied>>
    BY <1>2 DEF Persist, fsm
  <2>2. snap'[n] \in {taking[n], snap[n]}
    BY <1>0, <2>1, TakingType, NewerOf DEF IInv
  <2>3. AtIndex(snap'[n].store, snap'[n].index) /\ taking'[n] = None
    BY <1>0, <2>1, <2>2
  <2>4. \A k \in Nodes \ {n} : taking'[k] = taking[k] /\ snap'[k] = snap[k]
    BY <1>0, <2>1
  <2>5. QED BY <1>0, <2>1, <2>3, <2>4, MapsKept
<1>3. CASE Crash(n)
  <2>1. taking' = [taking EXCEPT ![n] = None] /\ UNCHANGED <<history, m, applied, snap>>
    BY <1>3 DEF Crash, disk, fsm
  <2>2. taking'[n] = None /\ \A k \in Nodes \ {n} : taking'[k] = taking[k]
    BY <1>0, <2>1
  <2>3. QED BY <1>0, <2>1, <2>2, MapsKept
<1>4. CASE Restart(n)
  <2>1. /\ m' = [m EXCEPT ![n] = snap[n].store]
        /\ applied' = [applied EXCEPT ![n] = snap[n].index]
        /\ UNCHANGED <<history, snap, taking>>
    BY <1>4 DEF Restart, Restore, disk
  <2>2. /\ m'[n] = snap[n].store /\ applied'[n] = snap[n].index
        /\ \A k \in Nodes \ {n} : m'[k] = m[k] /\ applied'[k] = applied[k]
    BY <1>0, <2>1
  <2>3. QED BY <1>0, <2>1, <2>2, MapsKept
<1>5. QED BY <1>1, <1>2, <1>3, <1>4

LEMMA InstallMaps ==
  ASSUME IInv, NEW n \in Nodes, InstallSnapshot(n) PROVE MapIsHistory'
<1> DEFINE s == snap[leader]
<1>1. /\ snap \in [Nodes -> Snapshots] /\ applied \in [Nodes -> Nat]
      /\ m \in [Nodes -> Maps] /\ leader \in Nodes /\ MapIsHistory
  BY DEF IInv, TypeOK, InstallSnapshot
<1>2. /\ snap' = [snap EXCEPT ![n] = Newer(s, snap[n])]
      /\ m' = [m EXCEPT ![n] = s.store] /\ applied' = [applied EXCEPT ![n] = s.index]
      /\ UNCHANGED <<history, taking>>
  BY DEF InstallSnapshot, Restore
<1>3. Newer(s, snap[n]) \in {s, snap[n]} BY <1>1, NewerOf
<1>4. AtIndex(s.store, s.index) /\ AtIndex(snap[n].store, snap[n].index)
      /\ (taking[n] # None => AtIndex(taking[n].store, taking[n].index))
  BY <1>1 DEF MapIsHistory
<1>5. /\ m'[n] = s.store /\ applied'[n] = s.index /\ snap'[n] \in {s, snap[n]}
      /\ \A k \in Nodes \ {n} :
           m'[k] = m[k] /\ applied'[k] = applied[k] /\ snap'[k] = snap[k]
  BY <1>1, <1>2, <1>3
<1>6. QED BY <1>1, <1>2, <1>4, <1>5, MapsKept
-----------------------------------------------------------------------------
(* The invariant. *)

LEMMA InitInv == Init => IInv
<1> SUFFICES ASSUME Init PROVE IInv
  OBVIOUS
<1>1. TypeOK BY InitType
<1>2. Len(log) = 0 /\ history = <<Empty>> BY EmptySeq DEF Init
<1>3. Len(history) = 1 /\ history[1] = Empty
  BY <1>2
<1>4. HistoryOfLog BY <1>2, <1>3 DEF HistoryOfLog
<1>5. Bounds BY <1>2 DEF Init, Bounds
<1>6. MapIsHistory BY <1>3 DEF Init, MapIsHistory, AtIndex
<1>7. QED BY <1>1, <1>4, <1>5, <1>6 DEF IInv

\* A command as Set and Del make it.
LEMMA CommandStep ==
  ASSUME NEW n \in Nodes, NEW k \in Keys,
         (\E v \in Values : Set(n, k, v)) \/ Del(n, k)
  PROVE  \E cmd \in Commands, Q \in SUBSET Nodes : Commit(cmd, Q)
<1>1. \A Q \in Quorums(n) : Q \in SUBSET Nodes BY DEF Quorums, Running
<1>2. CASE \E v \in Values : Set(n, k, v)
  BY <1>1, <1>2 DEF Set, Commands
<1>3. CASE Del(n, k) BY <1>1, <1>3 DEF Del, Commands
<1>4. QED BY <1>2, <1>3

LEMMA HistoryKept ==
  ASSUME IInv, UNCHANGED <<log, history>> PROVE HistoryOfLog'
BY DEF IInv, HistoryOfLog

LEMMA StepInv == IInv /\ [Next]_vars => IInv'
<1> SUFFICES ASSUME IInv, [Next]_vars PROVE IInv'
  OBVIOUS
<1>1. CASE UNCHANGED vars
  <2>1. TypeOK' BY <1>1 DEF vars, disk, fsm, IInv, TypeOK
  <2>2. HistoryOfLog' BY <1>1, HistoryKept DEF vars
  <2>3. Bounds' BY <1>1 DEF vars, disk, fsm, IInv, Bounds
  <2>4. MapIsHistory' BY <1>1 DEF vars, disk, fsm, IInv, MapIsHistory, AtIndex
  <2>5. QED BY <2>1, <2>2, <2>3, <2>4 DEF IInv
<1>2. ASSUME NEW n \in Nodes, NEW k \in Keys,
             (\E v \in Values : Set(n, k, v)) \/ Del(n, k)
      PROVE  IInv'
  <2>1. PICK cmd \in Commands, Q \in SUBSET Nodes : Commit(cmd, Q)
    BY <1>2, CommandStep
  <2>2. QED BY <2>1, CommitType, CommitBounds, CommitHistory, CommitMaps DEF IInv
<1>3. ASSUME NEW n \in Nodes, Apply(n) PROVE IInv'
  <2>1. HistoryOfLog' BY <1>3, HistoryKept DEF Apply
  <2>2. QED BY <1>3, <2>1, ApplyType, FsmBounds, ApplyMaps DEF IInv
<1>4. ASSUME NEW n \in Nodes, Snapshot(n) PROVE IInv'
  <2>1. HistoryOfLog' BY <1>4, HistoryKept DEF Snapshot
  <2>2. QED BY <1>4, <2>1, SnapshotType, FsmBounds, SnapshotMaps DEF IInv
<1>5. ASSUME NEW n \in Nodes, Persist(n) PROVE IInv'
  <2>1. HistoryOfLog' BY <1>5, HistoryKept DEF Persist
  <2>2. QED BY <1>5, <2>1, PersistType, FsmBounds, SnapshotMaps DEF IInv
<1>6. ASSUME NEW n \in Nodes, InstallSnapshot(n) PROVE IInv'
  <2>1. HistoryOfLog' BY <1>6, HistoryKept DEF InstallSnapshot
  <2>2. QED BY <1>6, <2>1, InstallType, InstallBounds, InstallMaps DEF IInv
<1>7. ASSUME NEW n \in Nodes, Replicate(n) \/ Elect(n) PROVE IInv'
  <2>1. HistoryOfLog' BY <1>7, HistoryKept DEF Replicate, Elect
  <2>2. MapIsHistory'
    BY <1>7 DEF IInv, MapIsHistory, AtIndex, Replicate, Elect, disk, fsm
  <2>3. QED BY <1>7, <2>1, <2>2, OtherType, OtherBounds DEF IInv
<1>8. ASSUME NEW n \in Nodes, Crash(n) \/ Restart(n) PROVE IInv'
  <2>1. HistoryOfLog' BY <1>8, HistoryKept DEF Crash, Restart
  <2>2. QED BY <1>8, <2>1, OtherType, OtherBounds, SnapshotMaps DEF IInv
<1>9. QED BY <1>1, <1>2, <1>3, <1>4, <1>5, <1>6, <1>7, <1>8 DEF Next

\* Every variable keeps its type, and no index leaves the log: Apply finds a command at
\* every index it reaches, no node stores or has applied more than was committed, and no
\* snapshot, taken or being written, is ahead of what its node stores.
THEOREM StoreTypeCorrect == Spec => [](TypeOK /\ Bounds)
<1>1. IInv => TypeOK /\ Bounds BY DEF IInv
<1>2. QED BY <1>1, InitInv, StepInv, PTL DEF Spec

\* store.go, all of it: the map of a node, its snapshot on disk and the one it is
\* writing are what the log gives at their index, whatever write errors, crashes
\* and snapshots of other nodes come between.
THEOREM MapIsHistoryCorrect == Spec => []MapIsHistory
<1>1. IInv => MapIsHistory BY DEF IInv
<1>2. QED BY <1>1, InitInv, StepInv, PTL DEF Spec

-----------------------------------------------------------------------------
(* Nothing is compacted that is not in a snapshot. *)

LEMMA CoverStep == IInv /\ SnapshotsCover /\ [Next]_vars => SnapshotsCover'
<1> SUFFICES ASSUME IInv, SnapshotsCover, [Next]_vars
             PROVE  \A k \in Nodes \ lost' : first'[k] <= snap'[k].index + 1
  BY DEF SnapshotsCover
<1>0. /\ snap \in [Nodes -> Snapshots] /\ first \in [Nodes -> Nat]
      /\ stored \in [Nodes -> Nat]
      /\ \A k \in Nodes : snap[k].index \in Nat
      /\ \A k \in Nodes \ lost : first[k] <= snap[k].index + 1
  BY SnapshotParts DEF IInv, TypeOK, SnapshotsCover
<1>1. CASE UNCHANGED <<first, snap, lost>> BY <1>0, <1>1
<1>2. ASSUME NEW n \in Nodes, Persist(n)
      PROVE  \A k \in Nodes \ lost' : first'[k] <= snap'[k].index + 1
  <2> DEFINE t == taking[n]
  <2>1. t \in Snapshots /\ t.index \in Nat
    BY <1>2, TakingType, SnapshotParts DEF Persist, IInv
  <2>2. /\ first' = [first EXCEPT ![n] = Kept(n, t.index)]
        /\ \/ snap' = [snap EXCEPT ![n] = Newer(t, snap[n])] /\ lost' = lost
           \/ snap' = snap /\ lost' = lost \cup {n}
    BY <1>2 DEF Persist
  <2>3. /\ Newer(t, snap[n]) \in Snapshots /\ Newer(t, snap[n]).index \in Nat
        /\ Newer(t, snap[n]).index >= t.index
        /\ Newer(t, snap[n]).index >= snap[n].index
    BY <1>0, <2>1, NewerOf, SnapshotParts
  <2>4. /\ Kept(n, t.index) \in Nat
        /\ Kept(n, t.index) <= first[n] \/ Kept(n, t.index) <= t.index + 1
    BY <2>1, KeptBound DEF IInv
  <2>5. n \notin lost => Kept(n, t.index) <= Newer(t, snap[n]).index + 1
    BY <1>0, <2>1, <2>3, <2>4
  <2>6. CASE snap' = [snap EXCEPT ![n] = Newer(t, snap[n])] /\ lost' = lost
    <3>1. \A k \in Nodes \ {n} : first'[k] = first[k] /\ snap'[k] = snap[k]
      BY <1>0, <2>2, <2>6
    <3>2. first'[n] = Kept(n, t.index) /\ snap'[n] = Newer(t, snap[n])
      BY <1>0, <2>2, <2>6
    <3>3. QED BY <1>0, <2>5, <2>6, <3>1, <3>2
  <2>7. CASE snap' = snap /\ lost' = lost \cup {n}
    <3>1. \A k \in Nodes \ {n} : first'[k] = first[k] BY <1>0, <2>2
    <3>2. QED BY <1>0, <2>7, <3>1
  <2>8. QED BY <2>2, <2>6, <2>7
<1>3. ASSUME NEW n \in Nodes, InstallSnapshot(n)
      PROVE  \A k \in Nodes \ lost' : first'[k] <= snap'[k].index + 1
  <2> DEFINE s == snap[leader]
             kept == IF stored[n] < s.index THEN s.index + 1 ELSE Kept(n, s.index)
  <2>1. s \in Snapshots /\ s.index \in Nat
    BY <1>0, <1>3, SnapshotParts DEF InstallSnapshot, IInv, TypeOK
  <2>2. snap' = [snap EXCEPT ![n] = Newer(s, snap[n])] /\ first' = [first EXCEPT ![n] = kept]
    BY <1>3 DEF InstallSnapshot
  <2>3. /\ Newer(s, snap[n]).index \in Nat
        /\ Newer(s, snap[n]).index >= s.index
        /\ Newer(s, snap[n]).index >= snap[n].index
    BY <1>0, <2>1, NewerOf, SnapshotParts
  <2>4. /\ Kept(n, s.index) \in Nat
        /\ Kept(n, s.index) <= first[n] \/ Kept(n, s.index) <= s.index + 1
    BY <2>1, KeptBound DEF IInv
  <2>5. n \notin lost => kept <= Newer(s, snap[n]).index + 1
    BY <1>0, <2>1, <2>3, <2>4
  <2>6. lost' = lost BY <1>3 DEF InstallSnapshot
  <2>7. \A k \in Nodes \ {n} : first'[k] = first[k] /\ snap'[k] = snap[k]
    BY <1>0, <2>2
  <2>8. first'[n] = kept /\ snap'[n] = Newer(s, snap[n]) BY <1>0, <2>2
  <2>9. QED BY <1>0, <2>5, <2>6, <2>7, <2>8
<1>4. Next => \/ UNCHANGED <<first, snap, lost>>
              \/ \E n \in Nodes : Persist(n) \/ InstallSnapshot(n)
  BY DEF Next, Set, Del, Commit, Apply, Snapshot, Replicate, Elect, Crash, Restart, disk
<1>5. UNCHANGED vars => UNCHANGED <<first, snap, lost>> BY DEF vars, disk
<1>6. QED BY <1>1, <1>2, <1>3, <1>4, <1>5

\* The log of every node goes on from its newest snapshot, so that NewRaft() never
\* panics on a missing entry, unless Persist() has swallowed a write error on that
\* very node.
THEOREM SnapshotsCoverCorrect == Spec => []SnapshotsCover
<1>1. Init => SnapshotsCover BY DEF Init, SnapshotsCover
<1>2. QED BY <1>1, InitInv, StepInv, CoverStep, PTL DEF Spec
-----------------------------------------------------------------------------
(* The store implements the replicated map. *)


\* Where a node is in the history, and what it shows, as AbstractSpec sees it.
Pos  == [n \in Nodes |-> IF Shown(n) THEN applied[n] + 1 ELSE 0]
View == [n \in Nodes |-> IF Shown(n) THEN m[n] ELSE Empty]

LEMMA RefineInit == Init => Abstract!Init
BY DEF Init, Shown, Abstract!Init

\* After a snapshot was lost no node shows anything, and a command is all that the
\* replicated map sees.
LEMMA RefineLost ==
  ASSUME lost # {}, lost' # {}, UNCHANGED history PROVE UNCHANGED Abstract!vars
<1>1. \A n \in Nodes : ~Shown(n) BY DEF Shown
<1>2. \A n \in Nodes : ~Shown(n)' BY DEF Shown
<1>3. QED BY <1>1, <1>2 DEF Abstract!vars

\* A running node that shows a later state of the history has followed it.
LEMMA RefineFollow ==
  ASSUME IInv, IInv', NEW n \in Nodes, up[n], lost = {},
         UNCHANGED <<history, up, lost>>,
         applied'[n] >= applied[n],
         applied' = [applied EXCEPT ![n] = applied'[n]],
         m' = [m EXCEPT ![n] = m'[n]]
  PROVE  [Abstract!Next]_Abstract!vars
<1>1. /\ applied[n] \in Nat /\ applied'[n] \in Nat /\ history \in Seq(Maps)
      /\ applied \in [Nodes -> Nat] /\ m \in [Nodes -> Maps] /\ Len(history) \in Nat
  BY LenProperties DEF IInv, TypeOK
<1>2. /\ applied'[n] < Len(history) /\ m'[n] = history[applied'[n] + 1]
      /\ m[n] = history[applied[n] + 1]
  BY DEF IInv, MapIsHistory, AtIndex
<1>3. CASE applied'[n] = applied[n]
  <2>1. m'[n] = m[n] BY <1>2, <1>3
  <2>2. m' = m BY <1>1, <2>1
  <2>3. applied' = applied BY <1>1, <1>3
  <2>4. \A k \in Nodes : Shown(k)' <=> Shown(k) BY DEF Shown
  <2>5. QED BY <2>2, <2>3, <2>4 DEF Abstract!vars
<1>4. CASE applied'[n] > applied[n]
  <2> DEFINE i == applied'[n] + 1
  <2>0. Shown(n) /\ \A k \in Nodes : Shown(k)' <=> Shown(k) BY DEF Shown
  <2>1. Pos[n] = applied[n] + 1 BY <2>0 DEF Pos
  <2>2. i \in Pos[n] + 1 .. Len(history) /\ Pos[n] # 0 BY <1>1, <1>2, <1>4, <2>1
  <2>3. Pos' = [Pos EXCEPT ![n] = i]
    <3>1. \A k \in Nodes \ {n} : applied'[k] = applied[k] BY <1>1
    <3>2. QED BY <2>0, <3>1 DEF Pos
  <2>4. View' = [View EXCEPT ![n] = history[i]]
    <3>1. \A k \in Nodes \ {n} : m'[k] = m[k] BY <1>1
    <3>2. QED BY <1>2, <2>0, <3>1 DEF View
  <2>5. Abstract!Follow(n)
    BY <2>2, <2>3, <2>4 DEF Abstract!Follow, Abstract!Shows, Pos, View
  <2>6. QED BY <2>5 DEF Abstract!Next
<1>5. QED BY <1>1, <1>3, <1>4

LEMMA RefineCommit ==
  ASSUME IInv, NEW cmd \in Commands, NEW Q, Commit(cmd, Q)
  PROVE  Abstract!Next
<1>1. history[Len(history)] \in Maps
  <2>1. history \in Seq(Maps) /\ Len(history) \in 1 .. Len(history)
    BY LenProperties DEF IInv, TypeOK, HistoryOfLog
  <2>2. QED BY <2>1, ElementOfSeq
<1>2. Exec(cmd, history[Len(history)]) \in Maps BY <1>1, ExecType
<1>3. UNCHANGED <<up, lost, applied, m>> BY DEF Commit, fsm
<1>4. \A k \in Nodes : Shown(k)' <=> Shown(k) BY <1>3 DEF Shown
<1>5. Abstract!Write BY <1>2, <1>3, <1>4 DEF Commit, Abstract!Write
<1>6. QED BY <1>5 DEF Abstract!Next

\* Nodes that no longer show a state have stopped.
LEMMA RefineStop ==
  ASSUME IInv, NEW S \in SUBSET Nodes, S # {},
         \A k \in S : Shown(k) /\ ~Shown(k)',
         \A k \in Nodes \ S : Shown(k)' <=> Shown(k),
         UNCHANGED <<applied, m, history>>
  PROVE  Abstract!Next
<1>1. \A k \in S : Pos[k] # 0
  <2>1. ASSUME NEW k \in S PROVE Pos[k] # 0
    <3>1. applied[k] \in Nat BY DEF IInv, TypeOK
    <3>2. Pos[k] = applied[k] + 1 BY DEF Pos
    <3>3. QED BY <3>1, <3>2
  <2>2. QED BY <2>1
<1>2. Pos' = [k \in Nodes |-> IF k \in S THEN 0 ELSE Pos[k]] BY DEF Pos
<1>3. View' = [k \in Nodes |-> IF k \in S THEN Empty ELSE View[k]] BY DEF View
<1>4. Abstract!Stop(S) BY <1>1, <1>2, <1>3 DEF Abstract!Stop, Pos, View
<1>5. QED BY <1>4 DEF Abstract!Next

LEMMA RefineCrash ==
  ASSUME IInv, NEW n \in Nodes, Crash(n), lost = {} PROVE Abstract!Next
<1>1. /\ up \in [Nodes -> BOOLEAN] /\ up[n] /\ up' = [up EXCEPT ![n] = FALSE]
      /\ UNCHANGED <<applied, m, history, lost>>
  BY DEF IInv, TypeOK, Crash, disk, fsm
<1>2. \A k \in Nodes : up'[k] = IF k = n THEN FALSE ELSE up[k] BY <1>1
<1>3. \A k \in {n} : Shown(k) /\ ~Shown(k)' BY <1>1, <1>2 DEF Shown
<1>4. \A k \in Nodes \ {n} : Shown(k)' <=> Shown(k) BY <1>1, <1>2 DEF Shown
<1>5. QED BY <1>1, <1>3, <1>4, RefineStop, ZenonT(60)

\* A lost snapshot takes from view whatever ran.
LEMMA RefinePersist ==
  ASSUME IInv, NEW n \in Nodes, Persist(n), lost = {} PROVE [Abstract!Next]_Abstract!vars
<1>1. up[n] /\ UNCHANGED <<up, applied, m, history>> /\ lost' \in {{}, {n}}
  BY DEF Persist, fsm
<1>2. CASE lost' = {}
  <2>1. \A k \in Nodes : Shown(k)' <=> Shown(k) BY <1>1, <1>2 DEF Shown
  <2>2. QED BY <1>1, <2>1 DEF Abstract!vars
<1>3. CASE lost' = {n}
  <2> DEFINE S == {k \in Nodes : up[k]}
  <2>1. S \in SUBSET Nodes /\ S # {} BY <1>1
  <2>2. \A k \in S : Shown(k) /\ ~Shown(k)' BY <1>3 DEF Shown
  <2>3. \A k \in Nodes \ S : Shown(k)' <=> Shown(k) BY <1>1 DEF Shown
  <2>4. Abstract!Next
    <3> HIDE DEF S
    <3> QED BY <1>1, <2>1, <2>2, <2>3, RefineStop
  <2>5. QED BY <2>4
<1>4. QED BY <1>1, <1>2, <1>3

LEMMA RefineRestart ==
  ASSUME IInv, NEW n \in Nodes, Restart(n), lost = {} PROVE Abstract!Next
<1> DEFINE i == snap[n].index + 1
<1>1. /\ applied \in [Nodes -> Nat] /\ m \in [Nodes -> Maps]
      /\ up \in [Nodes -> BOOLEAN] /\ ~up[n] /\ snap[n].index \in Nat
      /\ up' = [up EXCEPT ![n] = TRUE] /\ UNCHANGED <<history, lost>>
      /\ applied' = [applied EXCEPT ![n] = snap[n].index]
      /\ m' = [m EXCEPT ![n] = snap[n].store]
  BY SnapshotParts DEF IInv, TypeOK, Restart, Restore, disk
<1>2. snap[n].store = history[i] /\ i \in 1 .. Len(history)
  <2>1. Len(history) \in Nat BY LenProperties DEF IInv, TypeOK
  <2>2. QED BY <1>1, <2>1 DEF IInv, MapIsHistory, AtIndex
<1>3. /\ ~Shown(n) /\ Shown(n)'
      /\ applied'[n] = snap[n].index /\ m'[n] = snap[n].store
  BY <1>1 DEF Shown
<1>4. \A k \in Nodes \ {n} :
        /\ Shown(k)' <=> Shown(k)
        /\ applied'[k] = applied[k] /\ m'[k] = m[k]
  BY <1>1 DEF Shown
<1>5. Pos[n] = 0 /\ Pos' = [Pos EXCEPT ![n] = i] BY <1>3, <1>4 DEF Pos
<1>6. View' = [View EXCEPT ![n] = history[i]] BY <1>2, <1>3, <1>4 DEF View
<1>7. Abstract!Start(n)
  BY <1>1, <1>2, <1>5, <1>6 DEF Abstract!Start, Abstract!Shows, Pos, View
<1>8. QED BY <1>7 DEF Abstract!Next

\* A snapshot that is sent is never behind the follower.
LEMMA InstallAhead ==
  ASSUME IInv, SnapshotsCover, lost = {}, NEW n \in Nodes, InstallSnapshot(n)
  PROVE  applied'[n] >= applied[n]
<1>1. /\ leader \in Nodes /\ applied \in [Nodes -> Nat] /\ first \in [Nodes -> Nat]
      /\ stored \in [Nodes -> Nat] /\ snap \in [Nodes -> Snapshots]
  BY DEF IInv, TypeOK, InstallSnapshot
<1>2. applied'[n] = snap[leader].index /\ snap[leader].index \in Nat
  BY <1>1, SnapshotParts DEF InstallSnapshot, Restore
<1>3. /\ first[leader] > stored[n] /\ first[leader] <= snap[leader].index + 1
      /\ applied[n] <= stored[n]
  BY <1>1 DEF InstallSnapshot, SnapshotsCover, IInv, Bounds
<1>4. QED BY <1>1, <1>2, <1>3

\* The steps of a node, none of which changes the history.
NodeNext(n) ==
  Apply(n) \/ Snapshot(n) \/ Persist(n) \/ InstallSnapshot(n) \/ Replicate(n)
    \/ Elect(n) \/ Crash(n) \/ Restart(n)

LEMMA RefineNode ==
  ASSUME IInv, IInv', SnapshotsCover, lost = {}, NEW n \in Nodes, NodeNext(n)
  PROVE  [Abstract!Next]_Abstract!vars
<1>1. CASE Apply(n)
  <2>1. /\ applied' = [applied EXCEPT ![n] = applied[n] + 1]
        /\ m' = [m EXCEPT ![n] = Exec(log[applied[n] + 1], m[n])]
        /\ up[n] /\ UNCHANGED <<history, up, lost>>
        /\ applied \in [Nodes -> Nat] /\ m \in [Nodes -> Maps]
    BY <1>1 DEF IInv, TypeOK, Apply, disk
  <2>2. applied'[n] >= applied[n] BY <2>1
  <2>3. /\ applied' = [applied EXCEPT ![n] = applied'[n]]
        /\ m' = [m EXCEPT ![n] = m'[n]]
    BY <2>1
  <2>4. QED BY <2>1, <2>2, <2>3, RefineFollow
<1>2. CASE InstallSnapshot(n)
  <2>1. /\ applied' = [applied EXCEPT ![n] = snap[leader].index]
        /\ m' = [m EXCEPT ![n] = snap[leader].store]
        /\ up[n] /\ UNCHANGED <<history, up, lost>>
        /\ applied \in [Nodes -> Nat] /\ m \in [Nodes -> Maps]
    BY <1>2 DEF IInv, TypeOK, InstallSnapshot, Restore
  <2>2. applied'[n] >= applied[n] BY <1>2, InstallAhead
  <2>3. /\ applied' = [applied EXCEPT ![n] = applied'[n]]
        /\ m' = [m EXCEPT ![n] = m'[n]]
    BY <2>1
  <2>4. QED BY <2>1, <2>2, <2>3, RefineFollow
<1>3. CASE Snapshot(n) \/ Replicate(n) \/ Elect(n)
  <2>1. UNCHANGED <<history, up, lost, applied, m>>
    BY <1>3 DEF Snapshot, Replicate, Elect, disk, fsm
  <2>2. \A k \in Nodes : Shown(k)' <=> Shown(k) BY <2>1 DEF Shown
  <2>3. QED BY <2>1, <2>2 DEF Abstract!vars
<1>4. QED
  BY <1>1, <1>2, <1>3, RefineCrash, RefinePersist, RefineRestart DEF NodeNext

LEMMA RefineNext ==
  ASSUME IInv, IInv', SnapshotsCover, [Next]_vars
  PROVE  [Abstract!Next]_Abstract!vars
<1>1. CASE UNCHANGED vars
  <2>1. UNCHANGED <<history, up, lost, applied, m>> BY <1>1 DEF vars, disk, fsm
  <2>2. \A k \in Nodes : Shown(k)' <=> Shown(k) BY <2>1 DEF Shown
  <2>3. QED BY <2>1, <2>2 DEF Abstract!vars
<1>2. ASSUME NEW n \in Nodes, NEW k \in Keys,
             (\E v \in Values : Set(n, k, v)) \/ Del(n, k)
      PROVE  Abstract!Next
  BY <1>2, CommandStep, RefineCommit
<1>3. ASSUME NEW n \in Nodes, NodeNext(n) PROVE [Abstract!Next]_Abstract!vars
  <2>1. CASE lost = {} BY <1>3, <2>1, RefineNode
  <2>2. CASE lost # {}
    <3>1. UNCHANGED history /\ lost' \in {lost, lost \cup {n}}
      BY <1>3 DEF NodeNext, Apply, Snapshot, Persist, InstallSnapshot, Replicate,
                  Elect, Crash, Restart, disk
    <3>2. QED BY <2>2, <3>1, RefineLost
  <2>3. QED BY <2>1, <2>2
<1>4. QED BY <1>1, <1>2, <1>3 DEF Next, NodeNext

\* store.go, all of it: the store is a replicated map, with one history of which a
\* node that runs shows ever later states, up to a write error that Persist()
\* swallows.
THEOREM ImplementsReplicatedMap == Spec => AbstractSpec
<1>1. Init => SnapshotsCover BY DEF Init, SnapshotsCover
<1>2. IInv /\ IInv' /\ SnapshotsCover /\ [Next]_vars => [Abstract!Next]_Abstract!vars
  BY RefineNext
<1>3. QED BY <1>1, <1>2, InitInv, StepInv, CoverStep, RefineInit, PTL
          DEF Spec, AbstractSpec, Abstract!Spec
=============================================================================
