-------------------------- MODULE MCRaftMembership --------------------------
(* Instances of RaftMembership for TLC. *)
EXTENDS RaftMembership, TLC

CONSTANTS n1, n2, n3, a1, a2, a3

ThreeNodes == {n1, n2, n3}
ThreeAddrs == {a1, a2, a3}

At(n, a) == [id |-> n, addr |-> a]

\* n1 is at a1, and so on.
OneList == {(n1 :> a1) @@ (n2 :> a2) @@ (n3 :> a3)}

\* Without a cluster the nodes bootstrap the list, or the list with n2 at "<nil>"; the
\* old one has everyone somewhere else.  A cluster with a member missing is what a
\* forced start leaves that is stopped between RemoveServer() and AddVoter().
OldClusters == {{}, {At(n1, a2), At(n2, a3), At(n3, a1)}}

OneForced == {n1}

\* One name, and two of them: those a list is refused for.
NamesLost == {{}, {n2}, {n2, n3}}
=============================================================================
