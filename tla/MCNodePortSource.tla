-------------------------- MODULE MCNodePortSource --------------------------
(***************************************************************************)
(* Small instances of NodePortSource: one entry of a user, the public and  *)
(* a private address, and a second spelling of the public one.             *)
(***************************************************************************)
EXTENDS NodePortSource

Nets == [c \in CIDRs |-> IF c = "public*" THEN "public" ELSE c]
=============================================================================
