--------------------------- MODULE ReplicatedMap ----------------------------
(***************************************************************************)
(* What core/raft/store.go promises to those who call Store.Get: there is  *)
(* one history of the map, every node that runs shows a state of it, and   *)
(* while it runs it only moves forward.  Nodes that stop, one or several   *)
(* at once, may come back with any state of the history.                   *)
(***************************************************************************)
EXTENDS Naturals, Sequences

CONSTANTS
  Nodes,   (* the members of the cluster                                    *)
  Maps,    (* the values the map may have                                   *)
  Empty    (* the one it has at first                                       *)

VARIABLES
  history,   (* the states of the map, oldest first                         *)
  pos,       (* pos[n]: the state node n shows, 0 if it does not run        *)
  view       (* view[n]: what node n shows                                 *)

vars == <<history, pos, view>>

Shows(n, i) == pos' = [pos EXCEPT ![n] = i] /\ view' = [view EXCEPT ![n] = history[i]]

Init ==
  /\ history = <<Empty>>
  /\ pos = [n \in Nodes |-> 1]
  /\ view = [n \in Nodes |-> Empty]

\* A command is agreed upon: it maps the newest state to the next.
Write == /\ \E map \in Maps : history' = Append(history, map)
         /\ UNCHANGED <<pos, view>>

Follow(n) ==
  /\ pos[n] # 0
  /\ \E i \in pos[n] + 1 .. Len(history) : Shows(n, i)
  /\ UNCHANGED history

Stop(S) ==
  /\ S # {} /\ \A n \in S : pos[n] # 0
  /\ pos' = [n \in Nodes |-> IF n \in S THEN 0 ELSE pos[n]]
  /\ view' = [n \in Nodes |-> IF n \in S THEN Empty ELSE view[n]]
  /\ UNCHANGED history

Start(n) ==
  /\ pos[n] = 0
  /\ \E i \in 1 .. Len(history) : Shows(n, i)
  /\ UNCHANGED history

Next ==
  \/ Write
  \/ \E n \in Nodes : Follow(n) \/ Start(n)
  \/ \E S \in SUBSET Nodes : Stop(S)

Spec == Init /\ [][Next]_vars
=============================================================================
