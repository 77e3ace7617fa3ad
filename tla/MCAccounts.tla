----------------------------- MODULE MCAccounts -----------------------------
(***************************************************************************)
(* Accounts for TLC: two organizations, whose founders have one email and  *)
(* two passwords.  The requests that come are interchangeable.             *)
(***************************************************************************)
EXTENDS Accounts, TLC

CONSTANTS f1, f2, e1, p1, p2

MCFounders == (f1 :> <<e1, p1>>) @@ (f2 :> <<e1, p2>>)
Alike == Permutations(Requests \ {f1, f2})
=============================================================================
