----------------------------- MODULE RaftStore ------------------------------
(***************************************************************************)
(* The replicated map of core/raft/store.go on a fixed set of nodes:       *)
(* commands, the FSM that applies them, snapshots, their restoration, and  *)
(* nodes that stop and start.                                              *)
(*                                                                         *)
(* hashicorp/raft is external.  It is reduced to what it promises: one     *)
(* committed log, of which every node stores a prefix, and a leader that   *)
(* stores all of it; and to what it does with snapshots: it compacts the   *)
(* log behind a snapshot that Persist() has reported as written, it sends  *)
(* a snapshot to a follower its log no longer reaches, and a node starts   *)
(* from its newest snapshot and needs every entry of its log after that.   *)
(***************************************************************************)
EXTENDS Integers, Sequences, FiniteSets

CONSTANTS
  Nodes,          (* the members of the cluster                             *)
  Keys, Values,   (* what is stored; buckets are ignored by the code        *)
  Wired,          (* the nodes whose Store.rft is set: without it Set and   *)
                  (* Del dereference nil (this commit sets it nowhere)      *)
  TrailingLogs,   (* entries the library keeps behind a snapshot            *)
  MaxLog,         (* bound: the number of commands                          *)
  Crashing,       (* the nodes that may stop and start again                *)
  BadDisks,       (* the nodes on which writing a snapshot may fail         *)
  None            (* no value, no node, no snapshot                         *)

ASSUME StoreConfig ==
  /\ Wired \subseteq Nodes
  /\ TrailingLogs \in Nat \ {0}
  /\ MaxLog \in Nat
  /\ Crashing \subseteq Nodes /\ BadDisks \subseteq Nodes
  /\ None \notin Values \cup Nodes

VARIABLES
  log,       (* the committed raftCmds                                      *)
  history,   (* history[i]: the map after i - 1 of them (auxiliary)         *)
  leader,    (* the node whose State() is Leader                            *)
  up,        (* the nodes that run                                          *)
  stored,    (* stored[n]: how many commands node n has on disk             *)
  first,     (* first[n]: from which command on, older ones being compacted *)
  snap,      (* snap[n]: the newest snapshot on disk                        *)
  lost,      (* the nodes that have compacted their log behind a snapshot   *)
             (* that was not written (auxiliary)                            *)
  taking,    (* taking[n]: the fsmSnapshot that is being persisted          *)
  applied,   (* applied[n]: how many commands its FSM has executed          *)
  m          (* m[n]: Store.m                                               *)

disk == <<stored, first, snap, lost>>
fsm  == <<applied, m>>
vars == <<log, history, leader, up, disk, taking, fsm>>

\* A key that is not in the map reads as the empty string; None stands for it.
Maps  == [Keys -> Values \cup {None}]
Empty == [k \in Keys |-> None]

Commands == [act : {"set"}, key : Keys, value : Values]
              \cup [act : {"del"}, key : Keys, value : {None}]

Snapshots == [index : Nat, store : Maps]

Running == {n \in Nodes : up[n]}
Majority == 2 * Cardinality(Running) > Cardinality(Nodes)

TypeOK ==
  /\ log \in Seq(Commands)
  /\ history \in Seq(Maps)
  /\ leader \in Nodes \cup {None}
  /\ up \in [Nodes -> BOOLEAN]
  /\ stored \in [Nodes -> Nat] /\ first \in [Nodes -> Nat]
  /\ snap \in [Nodes -> Snapshots]
  /\ lost \subseteq Nodes
  /\ taking \in [Nodes -> Snapshots \cup {None}]
  /\ applied \in [Nodes -> Nat]
  /\ m \in [Nodes -> Maps]

Init ==
  /\ log = <<>> /\ history = <<Empty>>
  /\ leader = None
  /\ up = [n \in Nodes |-> TRUE]
  /\ stored = [n \in Nodes |-> 0] /\ first = [n \in Nodes |-> 1]
  /\ snap = [n \in Nodes |-> [index |-> 0, store |-> Empty]]
  /\ lost = {}
  /\ taking = [n \in Nodes |-> None]
  /\ applied = [n \in Nodes |-> 0]
  /\ m = [n \in Nodes |-> Empty]

\* The snapshot store orders snapshots by their index and gives the newest.
Newer(s, t) == IF s.index > t.index THEN s ELSE t

-----------------------------------------------------------------------------
(* Commands. *)

\* applySet() and applyDel().
Exec(cmd, map) == [map EXCEPT ![cmd.key] = cmd.value]

\* The library commits a command once a majority stores it; which of its
\* followers have stored it by then is the library's choice.
Commit(cmd, Q) ==
  /\ Len(log) < MaxLog
  /\ log' = Append(log, cmd)
  /\ history' = Append(history, Exec(cmd, history[Len(history)]))
  /\ stored' = [n \in Nodes |-> IF n \in Q THEN Len(log) + 1 ELSE stored[n]]
  /\ UNCHANGED <<leader, up, first, snap, lost, taking, fsm>>

\* The nodes that store a command of leader n together with it.
Quorums(n) ==
  {Q \in SUBSET {v \in Running : stored[v] = Len(log)} :
     n \in Q /\ 2 * Cardinality(Q) > Cardinality(Nodes)}

\* Set() and Del() refuse on a node that is not the leader.  A command that is
\* not committed in time, or on a leader that is deposed, changes nothing here; a
\* client that is told of a timeout cannot know which of the two happened.
Set(n, k, v) ==
  /\ n \in Wired /\ leader = n
  /\ \E Q \in Quorums(n) : Commit([act |-> "set", key |-> k, value |-> v], Q)

Del(n, k) ==
  /\ n \in Wired /\ leader = n
  /\ \E Q \in Quorums(n) : Commit([act |-> "del", key |-> k, value |-> None], Q)

\* Mutant of Apply: the FSM skips a command it cannot read.
ApplyMaySkip(n) ==
  /\ up[n] /\ leader # None
  /\ applied[n] < stored[n] /\ first[n] <= applied[n] + 1
  /\ applied' = [applied EXCEPT ![n] = @ + 1]
  /\ m' = [m EXCEPT ![n] = Exec(log[applied[n] + 1], @)] \/ UNCHANGED m
  /\ UNCHANGED <<log, history, leader, up, disk, taking>>

\* raftFSM.Apply(); a node hears from a leader how far the log is committed, and
\* the library panics on a command that is no longer in its log.
Apply(n) ==
  /\ up[n] /\ leader # None
  /\ applied[n] < stored[n] /\ first[n] <= applied[n] + 1
  /\ applied' = [applied EXCEPT ![n] = @ + 1]
  /\ m' = [m EXCEPT ![n] = Exec(log[applied[n] + 1], @)]
  /\ UNCHANGED <<log, history, leader, up, disk, taking>>

-----------------------------------------------------------------------------
(* Snapshots. *)

\* raftFSM.Snapshot(): a copy of the map, with the index it is at.
Snapshot(n) ==
  /\ up[n] /\ taking[n] = None
  /\ applied[n] > snap[n].index
  /\ taking' = [taking EXCEPT ![n] = [index |-> applied[n], store |-> m[n]]]
  /\ UNCHANGED <<log, history, leader, up, disk, fsm>>

\* The first command the library keeps after compacting behind the index.
Kept(n, index) ==
  LET behind == stored[n] - TrailingLogs
      last   == IF index < behind THEN index ELSE behind
  IN IF last + 1 > first[n] THEN last + 1 ELSE first[n]

\* Mutant of Persist: the snapshot holds the map itself, not a copy, and writes
\* what has become of it.
PersistAlias(n) ==
  /\ up[n] /\ taking[n] # None
  /\ snap' = [snap EXCEPT ![n] = [index |-> taking[n].index, store |-> m[n]]]
  /\ first' = [first EXCEPT ![n] = Kept(n, taking[n].index)]
  /\ taking' = [taking EXCEPT ![n] = None]
  /\ UNCHANGED <<log, history, leader, up, stored, lost, fsm>>

\* Mutant of Persist: the sink is closed before it is written in full, so that a
\* snapshot may be on record that is not on disk.
PersistUnsynced(n) ==
  /\ up[n] /\ taking[n] # None
  /\ snap' = [snap EXCEPT ![n] = Newer(taking[n], @)] \/ UNCHANGED snap
  /\ first' = [first EXCEPT ![n] = Kept(n, taking[n].index)]
  /\ taking' = [taking EXCEPT ![n] = None]
  /\ UNCHANGED <<log, history, leader, up, stored, lost, fsm>>

\* fsmSnapshot.Persist() returns nil also when it has cancelled the sink: the
\* library then compacts the log behind a snapshot that is not there.  The FSM
\* may go on while the snapshot is written.
Persist(n) ==
  /\ up[n] /\ taking[n] # None
  /\ \/ snap' = [snap EXCEPT ![n] = Newer(taking[n], @)] /\ UNCHANGED lost
     \/ n \in BadDisks /\ lost' = lost \cup {n} /\ UNCHANGED snap
  /\ first' = [first EXCEPT ![n] = Kept(n, taking[n].index)]
  /\ taking' = [taking EXCEPT ![n] = None]
  /\ UNCHANGED <<log, history, leader, up, stored, fsm>>

\* Mutant of Restore: a snapshot of the empty map leaves no map to write to.
RestoreNil(n, s) ==
  /\ m' = [m EXCEPT ![n] = IF s.store = Empty THEN None ELSE s.store]
  /\ applied' = [applied EXCEPT ![n] = s.index]

\* raftFSM.Restore(): the map is replaced by the one of the snapshot.
Restore(n, s) ==
  /\ m' = [m EXCEPT ![n] = s.store]
  /\ applied' = [applied EXCEPT ![n] = s.index]

\* A follower that needs a command the leader has compacted gets the leader's
\* newest snapshot, whatever its index, and restores it at once.
InstallSnapshot(n) ==
  /\ up[n] /\ leader \notin {None, n}
  /\ first[leader] > stored[n] /\ first[leader] > 1 /\ snap[leader].index > 0
  /\ LET s == snap[leader] IN
     /\ snap' = [snap EXCEPT ![n] = Newer(s, @)]
     /\ Restore(n, s)
     /\ first' = [first EXCEPT ![n] =
                    IF stored[n] < s.index THEN s.index + 1 ELSE Kept(n, s.index)]
     /\ stored' = [stored EXCEPT ![n] = IF @ < s.index THEN s.index ELSE @]
  /\ UNCHANGED <<log, history, leader, up, lost, taking>>

Replicate(n) ==
  /\ up[n] /\ leader \notin {None, n}
  /\ stored[n] < stored[leader] /\ first[leader] <= stored[n] + 1
  /\ stored' = [stored EXCEPT ![n] = @ + 1]
  /\ UNCHANGED <<log, history, leader, up, first, snap, lost, taking, fsm>>

-----------------------------------------------------------------------------
(* Leaders, and nodes that stop. *)

\* Only a node that stores every committed command is elected.
Elect(n) ==
  /\ up[n] /\ Majority /\ leader # n /\ stored[n] = Len(log)
  /\ leader' = n
  /\ UNCHANGED <<log, history, up, disk, taking, fsm>>

Crash(n) ==
  /\ n \in Crashing /\ up[n]
  /\ up' = [up EXCEPT ![n] = FALSE]
  /\ leader' = IF leader = n THEN None ELSE leader
  /\ taking' = [taking EXCEPT ![n] = None]
  /\ UNCHANGED <<log, history, disk, fsm>>

\* newStore() and NewRaft(), which restores the newest snapshot and panics if
\* the log does not go on from there.
Restart(n) ==
  /\ ~up[n]
  /\ first[n] <= snap[n].index + 1
  /\ up' = [up EXCEPT ![n] = TRUE]
  /\ Restore(n, snap[n])
  /\ UNCHANGED <<log, history, leader, disk, taking>>

Next ==
  \E n \in Nodes :
    \/ \E k \in Keys : (\E v \in Values : Set(n, k, v)) \/ Del(n, k)
    \/ Apply(n) \/ Snapshot(n) \/ Persist(n)
    \/ InstallSnapshot(n) \/ Replicate(n)
    \/ Elect(n) \/ Crash(n) \/ Restart(n)

Spec == Init /\ [][Next]_vars

\* The library serves every follower and its FSM, and a cluster that can elect a
\* leader does; nodes are started again when somebody starts them.
Fairness ==
  \A n \in Nodes : /\ WF_vars(Apply(n))
                   /\ WF_vars(Replicate(n) \/ InstallSnapshot(n))

FairSpec == Spec /\ Fairness

-----------------------------------------------------------------------------
(* Properties. *)

\* Every entry of the history follows from the one before by its command.
HistoryOfLog ==
  /\ Len(history) = Len(log) + 1 /\ history[1] = Empty
  /\ \A i \in 1 .. Len(log) : history[i + 1] = Exec(log[i], history[i])

\* A map, a snapshot on disk and one that is being written are all the map that
\* the log gives at their index: commands executed while a snapshot is written do
\* not get into it, and nothing a restored node knew before does.
AtIndex(map, index) == index < Len(history) /\ map = history[index + 1]

MapIsHistory ==
  \A n \in Nodes :
    /\ AtIndex(m[n], applied[n])
    /\ AtIndex(snap[n].store, snap[n].index)
    /\ taking[n] # None => AtIndex(taking[n].store, taking[n].index)

\* What a node has on disk goes on from its newest snapshot to its last command:
\* it can be started again, and a leader can bring every follower up to date.
\* A write error that Persist() swallows breaks this for the node it happens on,
\* and nothing else does.
SnapshotsCover ==
  \A n \in Nodes \ lost : first[n] <= snap[n].index + 1

\* A node that keeps running, and somebody who leads, means that the node
\* executes every command there is, from the log or by way of a snapshot, unless
\* a swallowed write error has cost somebody a snapshot.
CatchUp ==
  \A n \in Nodes :
    <>[](up[n] /\ leader # None /\ lost = {}) => []<>(applied[n] = Len(log))

\* The store is a replicated map: one history, of which each running node shows
\* ever later states, until a swallowed write error has cost a node a snapshot.
Shown(n) == up[n] /\ lost = {}

Abstract == INSTANCE ReplicatedMap WITH
              pos  <- [n \in Nodes |-> IF Shown(n) THEN applied[n] + 1 ELSE 0],
              view <- [n \in Nodes |-> IF Shown(n) THEN m[n] ELSE Empty]

AbstractSpec == Abstract!Spec
=============================================================================
