--------------------------- MODULE MCRsviewClient ---------------------------
(* Instances of RsviewClient for TLC. *)
EXTENDS RsviewClient

TwoWords == {"a", "b"}
=============================================================================
