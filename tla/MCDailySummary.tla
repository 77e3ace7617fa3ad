--------------------------- MODULE MCDailySummary ---------------------------
(***************************************************************************)
(* DailySummary for TLC: a user who has stopped one session of the day     *)
(* before and is at work in another.                                       *)
(***************************************************************************)
EXTENDS DailySummary, TLC

CONSTANTS r1, s1, s2, u1

MCQueues == {"daily"}
\* r1 may log, start and stop; r2, whose seconds logActivity would refuse, may start
\* and stop.
MCSecs == [a \in ActivityIds |-> IF a[1] = r1 THEN 2 ELSE 0]
MCOpened == (s1 :> NewRow(u1, -1)) @@
            (s2 :> [NewRow(u1, -2) EXCEPT !.status = "stopped", !.end = -1])
MCYesterday == {-1}
MCNoTimes == {}
MCMigrated == 0
MCNoBatches == {}
MCAll == ActivityIds
=============================================================================
