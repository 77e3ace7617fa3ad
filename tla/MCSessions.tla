----------------------------- MODULE MCSessions -----------------------------
(***************************************************************************)
(* Sessions for TLC: values of its constants.                              *)
(***************************************************************************)
EXTENDS Sessions, TLC

CONSTANTS r1, r2, r3, s1, s2, u1, u2

\* r1 and r2 may log, start and stop; r3, whose seconds would be refused, may start
\* and stop.
MCSecs == [a \in ActivityIds |-> (r1 :> 30 @@ r2 :> 60 @@ r3 :> 0)[a[1]]]
MCOpened == (s1 :> NewRow(u1, 0))
MCNothingOpened == [s \in {} |-> NewRow(u1, 0)]
MCTimes == {}
=============================================================================
