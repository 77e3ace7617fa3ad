------------------------------ MODULE MCAlerts ------------------------------
(***************************************************************************)
(* Alerts for TLC: two users whose sessions s1 and s2 have long been       *)
(* without activity when the clock starts.                                 *)
(***************************************************************************)
EXTENDS Alerts, TLC

CONSTANTS s1, s2, u1, u2, api, worker

MCQueues == {"idle", "overtime"}
MCIdle == {"idle"}
MCSecs == [a \in ActivityIds |-> 2]
Abandon(u) == [NewRow(u, -4) EXCEPT !.last = -4]
MCOpened == (s1 :> Abandon(u1)) @@ (s2 :> Abandon(u2))
\* One user, who may start the second session.
MCOneOpened == (s1 :> Abandon(u1))
MCNoTimes == {}
MCMigrated == 0
Item1(t, type) == <<[client |-> None, ts |-> t, type |-> type]>>
MCBatches == {Item1(1, "active"), Item1(0, "idle"), Item1(-2, "active")}
MCNoBatches == {}
Swap == (s1 :> s2) @@ (s2 :> s1) @@ (u1 :> u2) @@ (u2 :> u1)
\* The processes, and the users with their sessions.
Alike == Permutations({api, worker}) \cup {Swap}
\* All activities have the same duration.
Anonymous == Permutations(Requests) \cup Permutations(JobIds)
=============================================================================
