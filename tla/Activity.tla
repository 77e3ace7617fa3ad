------------------------------ MODULE Activity ------------------------------
(***************************************************************************)
(* ActivityService (modules/activity/activity.service.ts): logActivity and *)
(* bulkUploadActivities, together with the session handlers of Sessions    *)
(* they run beside and whose updateSessionTotals and save they call.       *)
(*                                                                         *)
(* Two more queries a handler awaits:                                      *)
(*   log    the INSERT of logActivity, a transaction of its own            *)
(*   item   inside the transaction of bulkUploadActivities, the INSERT of  *)
(*          the next activity, or after the last one the findOne           *)
(* The table activity_logs is the set logs of the activities stored in it; *)
(* what a row says is found in the body of the request that sent it, and   *)
(* its duration in Secs.                                                   *)
(***************************************************************************)
EXTENDS Sessions, Sequences

CONSTANTS
    Batches,      \* the bodies a bulk upload may have
    Migrated,     \* the time at which the migration ran
    MonthLength,
    Skew          \* how far in the future a timestamp may be (5 minutes)

VARIABLES
    logs,  \* the table activity_logs
    body,  \* of each request: the activities it carries
    tx     \* the transaction of bulkUploadActivities

avars == <<vars, logs, body, tx>>

Types == {"active", "idle"}
Clients == UNION {{b[i].client : i \in DOMAIN b} : b \in Batches}

\* client: client_activity_id;  ts: timestamp
Item == [client : Clients \cup {None}, ts : Int, type : Types]

ASSUME ActivityAssumption ==
    /\ \A b \in Batches : b \in Seq(Item) /\ Len(b) <= MaxBatch
    /\ Migrated \in Int
    /\ MonthLength \in Nat \ {0}
    /\ Skew \in Nat

\* at: the loop index;  uploaded: the activities whose INSERT succeeded (the
\* variables uploadedCount, totalActiveSeconds and totalIdleSeconds are made of
\* them);  poisoned: a statement failed, and PostgreSQL refuses any further one.
Transaction == [at : 1..MaxBatch + 1, uploaded : SUBSET (1..MaxBatch),
                poisoned : BOOLEAN]

NoTx == [at |-> 1, uploaded |-> {}, poisoned |-> FALSE]

\* Transaction t after one more turn of the loop, which has inserted U or failed.
Advanced(t, U, failed) ==
    [at |-> t.at + 1, uploaded |-> t.uploaded \cup U, poisoned |-> failed]

\* The tables, the local variables and the transactions have their types.
ActivityTypeOK ==
    /\ TablesOK
    /\ HistoryOK
    /\ pc \in [Requests -> {"new", "log", "item"} \cup Awaiting \cup Done]
    /\ logs \subseteq ActivityIds
    /\ body \in [Requests -> Seq(Item)]
    /\ tx \in [Requests -> Transaction]

ActivityInit ==
    /\ Init
    /\ logs = {}
    /\ body = [r \in Requests |-> << >>]
    /\ tx = [r \in Requests |-> NoTx]

-----------------------------------------------------------------------------
ItemOf(a) == body[a[1]][a[2]]

Month(t) == t \div MonthLength

\* Is there a partition of activity_logs for ts?  The migration makes one for the
\* month it runs in and for each of the next three; nothing ever makes another.
HasPartition(ts) == Month(ts) \in Month(Migrated)..Month(Migrated) + 3

\* The columns of the unique index of activity_logs.
Key(a) == <<frame[a[1]].sid, ItemOf(a).client, ItemOf(a).ts>>

\* Mutant: the index is not unique.
NeverClashes(a, A) == FALSE

\* Does the unique index, which leaves out rows without a client id, refuse the
\* row of a because of a row in A?
Clashes(a, A) == ItemOf(a).client # None /\ \E b \in A : Key(b) = Key(a)

\* The rows r has inserted and not committed.  A failed statement aborts the
\* transaction at once, and its rows with it.
HeldBy(r) == IF tx[r].poisoned THEN {} ELSE {<<r, i>> : i \in tx[r].uploaded}

\* Mutant: the activities are not sorted.
SentOrder(b) == [i \in DOMAIN b |-> i]

\* activities.sort((a, b) => a.timestamp - b.timestamp), a stable sort: the
\* position in b of the activity that comes i-th.
SortedOrder(b) ==
    CHOOSE p \in Bijection(DOMAIN b, DOMAIN b) :
        \A i, j \in DOMAIN b : i < j =>
            \/ b[p[i]].ts < b[p[j]].ts
            \/ b[p[i]].ts = b[p[j]].ts /\ p[i] < p[j]

\* The activity whose INSERT comes next in the transaction of r.
Current(r) == <<r, SortedOrder(body[r])[tx[r].at]>>

Inserting(r) == pc[r] = "item" /\ tx[r].at <= Len(body[r])

\* An INSERT waits for the transaction that has inserted the same key.
WaitsFor(r, q) ==
    /\ q # r
    /\ Inserting(r)
    /\ ~tx[r].poisoned
    /\ Clashes(Current(r), HeldBy(q))

\* The transactions of C wait for each other in a circle: every part of C has
\* one that waits for the rest.
WaitCycle(C) == /\ Cardinality(C) > 1
                /\ \A D \in (SUBSET C) \ {{}, C} :
                      \E r \in D, q \in C \ D : WaitsFor(r, q)

\* The timestamp checks of both handlers.
TimesValid(b, row) ==
    \A i \in DOMAIN b : /\ b[i].ts >= row.start
                        /\ row.end # None => b[i].ts <= row.end
                        /\ b[i].ts <= now + Skew

\* The activities whose seconds go to one of the two columns.
OfType(A, type) == {a \in A : ItemOf(a).type = type}

Rollback(r) ==
    /\ Finish(r, "failed")
    /\ tx' = [tx EXCEPT ![r] = NoTx]

-----------------------------------------------------------------------------
\* logActivity: the findOne and the checks.  Before them the body is validated,
\* and with it the duration; that of a bulk upload is not.
LogActivity(r, u, s, t, type) ==
    LET b == <<[client |-> None, ts |-> TimeOr(t), type |-> type]>>
    IN  /\ Arrives(r)
        /\ Secs[<<r, 1>>] > 0
        /\ \/ /\ ~(MayChange(u, s) /\ TimesValid(b, sessions[s]))
              /\ Finish(r, "rejected")
              /\ UNCHANGED body
           \/ /\ MayChange(u, s)
              /\ TimesValid(b, sessions[s])
              /\ Await(r, "log", NewFrame("log", s))
              /\ body' = [body EXCEPT ![r] = b]
        /\ UNCHANGED <<now, sessions, logs, tx>>
        /\ History

\* logActivity: save(activityLog), then the call of updateSessionTotals.  An
\* INSERT without a partition for its timestamp fails.
LogInsert(r) ==
    LET a == <<r, 1>>
    IN  /\ pc[r] = "log"
        /\ \/ /\ HasPartition(ItemOf(a).ts)
              /\ logs' = logs \cup {a}
              /\ Await(r, "totals", [frame[r] EXCEPT
                     !.active = OfType({a}, "active"),
                     !.idle   = OfType({a}, "idle")])
           \/ /\ ~HasPartition(ItemOf(a).ts)
              /\ Finish(r, "failed")
              /\ UNCHANGED logs
        /\ UNCHANGED <<now, sessions, body, tx>>
        /\ History

\* bulkUploadActivities: the findOne, the sort and the checks.
BulkUpload(r, u, s, b) ==
    /\ Arrives(r)
    /\ \/ /\ ~(MayChange(u, s) /\ TimesValid(b, sessions[s]))
          /\ Finish(r, "rejected")
          /\ UNCHANGED body
       \/ /\ MayChange(u, s)
          /\ TimesValid(b, sessions[s])
          /\ Await(r, "item", NewFrame("bulk", s))
          /\ body' = [body EXCEPT ![r] = b]
    /\ UNCHANGED <<now, sessions, logs, tx>>
    /\ History

\* Mutant: activityLogRepository.save, outside of the transaction.
AutocommitItemStored(r) ==
    LET a == Current(r)
    IN  /\ Inserting(r)
        /\ ~tx[r].poisoned
        /\ HasPartition(ItemOf(a).ts)
        /\ ~Clashes(a, logs \cup HeldBy(r))
        /\ \A q \in Requests : ~WaitsFor(r, q)
        /\ logs' = logs \cup {a}
        /\ tx' = [tx EXCEPT ![r] = Advanced(@, {a[2]}, FALSE)]
        /\ UNCHANGED <<now, sessions, pc, frame, body>>
        /\ History

\* manager.save(ActivityLog, ..) inserts the row.
ItemStored(r) ==
    LET a == Current(r)
    IN  /\ Inserting(r)
        /\ ~tx[r].poisoned
        /\ HasPartition(ItemOf(a).ts)
        /\ ~Clashes(a, logs \cup HeldBy(r))
        /\ \A q \in Requests : ~WaitsFor(r, q)
        /\ tx' = [tx EXCEPT ![r] = Advanced(@, {a[2]}, FALSE)]
        /\ UNCHANGED <<now, sessions, pc, frame, logs, body>>
        /\ History

\* Mutant: the loop index is counted up in the catch block, too.
DoubleItemDuplicate(r) ==
    /\ Inserting(r)
    /\ ~tx[r].poisoned
    /\ Clashes(Current(r), logs \cup HeldBy(r))
    /\ tx' = [tx EXCEPT ![r] = Advanced(Advanced(@, {}, TRUE), {}, TRUE)]
    /\ UNCHANGED <<now, sessions, pc, frame, logs, body>>
    /\ History

\* It fails with 23505: "silently skip", but the transaction is aborted.
ItemDuplicate(r) ==
    /\ Inserting(r)
    /\ ~tx[r].poisoned
    /\ Clashes(Current(r), logs \cup HeldBy(r))
    /\ tx' = [tx EXCEPT ![r] = Advanced(@, {}, TRUE)]
    /\ UNCHANGED <<now, sessions, pc, frame, logs, body>>
    /\ History

\* Mutant: every error is taken for a duplicate.
IgnoredItemFails(r) ==
    /\ Inserting(r)
    /\ tx[r].poisoned \/ ~HasPartition(ItemOf(Current(r)).ts)
    /\ tx' = [tx EXCEPT ![r] = Advanced(@, {}, TRUE)]
    /\ UNCHANGED <<now, sessions, pc, frame, logs, body>>
    /\ History

\* It fails with any other code, which is thrown on: the transaction is aborted
\* already, or no partition exists for the timestamp.
ItemFails(r) ==
    /\ Inserting(r)
    /\ tx[r].poisoned \/ ~HasPartition(ItemOf(Current(r)).ts)
    /\ Rollback(r)
    /\ UNCHANGED <<now, sessions, logs, body>>
    /\ History

\* PostgreSQL ends a cycle of waiting transactions by failing one of them.
DeadlockVictim(r) ==
    /\ \E C \in SUBSET Requests : r \in C /\ WaitCycle(C)
    /\ Rollback(r)
    /\ UNCHANGED <<now, sessions, logs, body>>
    /\ History

\* After the loop: the findOne of the session and the additions, if any activity
\* was uploaded; otherwise the COMMIT (of nothing).
BulkTotals(r) ==
    LET s == frame[r].sid
        A == OfType({<<r, i>> : i \in tx[r].uploaded}, "active")
        I == OfType({<<r, i>> : i \in tx[r].uploaded}, "idle")
    IN  /\ pc[r] = "item"
        /\ tx[r].at > Len(body[r])
        /\ \/ /\ tx[r].uploaded = {}
              /\ Finish(r, "reply")
              /\ tx' = [tx EXCEPT ![r] = NoTx]
           \/ /\ tx[r].uploaded # {}
              /\ tx[r].poisoned
              /\ Rollback(r)
           \/ /\ tx[r].uploaded # {}
              /\ ~tx[r].poisoned
              /\ Await(r, "load", [frame[r] EXCEPT
                     !.active = A, !.idle = I,
                     !.entity = Credited(sessions[s], A, I, now)])
              /\ UNCHANGED tx
        /\ UNCHANGED <<now, sessions, logs, body>>
        /\ History

\* Mutant: the totals are saved outside of the transaction, which rolls back.
EarlyCommitRows(r) ==
    /\ UNCHANGED <<logs, body>>
    /\ tx' = [tx EXCEPT ![r] = NoTx]

\* The COMMIT after the UPDATE of work_sessions makes the rows of r visible.
CommitRows(r) ==
    /\ logs' = logs \cup HeldBy(r)
    /\ tx' = [tx EXCEPT ![r] = NoTx]
    /\ UNCHANGED body

ActivityArrival(r) ==
    \/ \E u \in Users, s \in SessionIds, t \in ClientTimes \cup {None}, type \in Types :
          LogActivity(r, u, s, t, type)
    \/ \E u \in Users, s \in SessionIds, b \in Batches : BulkUpload(r, u, s, b)
    \/ /\ \E u \in Users, t \in ClientTimes \cup {None} :
             \/ StartSession(r, u, t)
             \/ \E s \in SessionIds : StopSession(r, u, s, t)
       /\ UNCHANGED <<logs, body, tx>>

ActivityStep(r) ==
    \/ LogInsert(r)
    \/ ItemStored(r)
    \/ ItemDuplicate(r)
    \/ ItemFails(r)
    \/ DeadlockVictim(r)
    \/ BulkTotals(r)
    \/ SaveUpdate(r) /\ CommitRows(r)
    \/ /\ InsertSession(r) \/ TotalsRead(r) \/ SaveLoad(r) \/ Reply(r)
       /\ UNCHANGED <<logs, body, tx>>

ActivityFails(r) ==
    /\ QueryFails(r)
    /\ tx' = [tx EXCEPT ![r] = NoTx]
    /\ UNCHANGED <<logs, body>>

ActivityCrash ==
    /\ Crash
    /\ tx' = [r \in Requests |-> NoTx]
    /\ UNCHANGED <<logs, body>>

\* What the handlers, a crash and the clock do.
RequestsNext ==
    \/ \E r \in Requests : ActivityArrival(r) \/ ActivityStep(r) \/ ActivityFails(r)
    \/ ActivityCrash
    \/ Tick /\ UNCHANGED <<logs, body, tx>>

ActivityNext == RequestsNext \/ (Terminated /\ UNCHANGED <<logs, body, tx>>)

ActivitySpec == ActivityInit /\ [][ActivityNext]_avars

\* As in Sessions; a waiting INSERT is woken when the other transaction ends,
\* and a cycle of waits is broken after deadlock_timeout.
ActivityFairSpec ==
    ActivitySpec /\ \A r \in Requests : WF_avars(ActivityStep(r))

-----------------------------------------------------------------------------
(***************************************************************************)
(* What a session counts is in its log: a crash, a failure or a rollback   *)
(* between the two tables never leaves seconds without the activity they   *)
(* come from.                                                              *)
(***************************************************************************)
CountedIsLogged ==
    \A s \in SessionIds, a \in ActivityIds :
        sessions[s] # None /\ Counted(sessions[s], a) > 0 => a \in logs

(***************************************************************************)
(* What is logged is counted: every row a bulk upload left, however the    *)
(* upload ended ("Use transaction for atomicity", activity.service.ts),    *)
(* and every row of a single activity whose request succeeded, unless a    *)
(* save of the session was computed before another handler changed it.     *)
(***************************************************************************)
LoggedUnlessRaced ==
    \A a \in logs :
        LET f == frame[a[1]]
        IN  (f.op = "bulk" \/ pc[a[1]] = "ok") /\ f.sid \notin raced =>
                HasSecondsOf(sessions[f.sid], a[1])

(***************************************************************************)
(* A bulk upload leaves all of its activities or none.                     *)
(***************************************************************************)
AllOrNothing ==
    \A r \in Requests : frame[r].op = "bulk" =>
        {i \in DOMAIN body[r] : <<r, i>> \in logs} \in {{}, DOMAIN body[r]}

(***************************************************************************)
(* A bulk upload answered with success has every one of its activities in  *)
(* the log: the row it inserted, or the row of an earlier upload with the  *)
(* same client id and timestamp.                                           *)
(***************************************************************************)
SuccessMeansStored ==
    \A r \in Requests : frame[r].op = "bulk" /\ pc[r] = "ok" =>
        \A i \in DOMAIN body[r] :
            <<r, i>> \in logs \/ Clashes(<<r, i>>, logs)

(***************************************************************************)
(* Uploads that run into each other, or are repeated, never leave two rows *)
(* with one client id and timestamp.                                       *)
(***************************************************************************)
NoDuplicateRows ==
    \A a, b \in logs : ItemOf(a).client # None /\ a # b =>
        Key(a) # Key(b)

(***************************************************************************)
(* The sort before the transaction orders the locks: uploads that wait for *)
(* each other in a circle all wait at activities with the same timestamp.  *)
(***************************************************************************)
DeadlockOnlyOnTies ==
    \A C \in SUBSET Requests : WaitCycle(C) =>
        \A r, q \in C : ItemOf(Current(r)).ts = ItemOf(Current(q)).ts

(***************************************************************************)
(* No bulk upload is stored for a stopped session ("Cannot upload          *)
(* activities for stopped session", activity.service.ts).                  *)
(***************************************************************************)
StoppedTakesNoUploads ==
    [][\A a \in logs' \ logs : frame[a[1]].op = "bulk" =>
          sessions[frame[a[1]].sid].status = "active"]_avars

(***************************************************************************)
(* An upload whose activities are known already is answered with success:  *)
(* duplicates are skipped.                                                 *)
(***************************************************************************)
DuplicatesAreSkipped ==
    \A r \in Requests : frame[r].op = "bulk" => pc[r] # "failed"
=============================================================================
