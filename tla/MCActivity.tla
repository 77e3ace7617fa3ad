----------------------------- MODULE MCActivity -----------------------------
(***************************************************************************)
(* Activity for TLC: a session s1 that u1 opened at time 0, and batches    *)
(* with ties, with activities out of order and with times no partition     *)
(* exists for.                                                             *)
(***************************************************************************)
EXTENDS Activity, TLC

CONSTANTS r1, r2, s1, s2, u1, c1, c2

\* The durations of a bulk upload may be anything: two that cancel each other, and
\* one that is zero.
MCSecs == (<<r1, 1>> :> 30) @@ (<<r1, 2>> :> -30) @@
          (<<r2, 1>> :> 60) @@ (<<r2, 2>> :> 0)
MCOpened == (s1 :> NewRow(u1, 0))
\* The last of the four months is that of the times 0 and 1.
MCMigrated == -6
MCNoTimes == {}
\* before the start, and where no partition is
MCTimes == {-1, 2}
Act(c, t) == [client |-> c, ts |-> t, type |-> "active"]
Rest(c, t) == [client |-> c, ts |-> t, type |-> "idle"]

\* ties in both orders
Tie12 == <<Act(c1, 1), Rest(c2, 1)>>
Tie21 == <<Rest(c2, 1), Act(c1, 1)>>
\* one activity twice
Twice == <<Act(c1, 0), Act(c1, 0)>>
\* sorted and not
Early == <<Act(c1, 0), Rest(c2, 1)>>
Late == <<Rest(c2, 1), Act(c1, 0)>>
\* both in one column
Column == <<Act(c1, 1), Act(c2, 0)>>
One == <<Act(c1, 0)>>
NoClient == <<Act(None, 0)>>
\* no partition for the second
Unpartitioned == <<Act(c1, 1), Act(c2, 2)>>
Gap == <<Act(c1, 2)>>
\* beyond the skew
Future == <<Act(c1, 3)>>

MCBatches == {Tie12, Tie21, Early, Late, Column, Twice, One, NoClient, Unpartitioned,
              Gap, Future, << >>}
MCOne == {One}
MCRepeated == {Tie12}
=============================================================================
