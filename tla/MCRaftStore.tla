---------------------------- MODULE MCRaftStore -----------------------------
(* The instance of RaftStore for TLC. *)
EXTENDS RaftStore

CONSTANTS n1, n2, n3, k1, v1

ThreeNodes == {n1, n2, n3}
OneKey   == {k1}
OneValue == {v1}
=============================================================================
