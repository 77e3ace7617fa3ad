----------------------------- MODULE MCPresence -----------------------------
(***************************************************************************)
(* Presence for TLC: two colleagues.                                       *)
(***************************************************************************)
EXTENDS Presence

CONSTANTS u1, u2

MCOrgOf == [u \in {u1, u2} |-> "org"]
=============================================================================
