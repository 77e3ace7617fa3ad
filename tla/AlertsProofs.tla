---------------------------- MODULE AlertsProofs ----------------------------
(***************************************************************************)
(* Theorems about Alerts, for every number of processes, jobs, users,      *)
(* sessions and activities, whatever fails.                                *)
(***************************************************************************)
EXTENDS Alerts, BackgroundProofs

-----------------------------------------------------------------------------
(* Days. *)

LEMMA DayType ==
    /\ \A t \in Int : Day(t) \in Int
    /\ \A t \in Nat : Day(t) \in Nat
BY AlertsAssumption DEF Day

\* The day does not go back when the clock goes on.
LEMMA DayGrows ==
    ASSUME NEW t \in Nat
    PROVE  Day(t) <= Day(t + 1)
BY AlertsAssumption DEF Day

-----------------------------------------------------------------------------
(* Type correctness of the processors. *)

\* A consumer at work has a job, one that is to decide or to insert has a
\* session it has read, and the times it has taken are not in the future.
WorkOK ==
    \A c \in Consumers :
        /\ at[c] # "free" => run[c] \in JobIds
        /\ at[c] \in {"recent", "save"} => local[c].cur \in Snapshot
        /\ local[c].today <= Day(now)
        /\ local[c].started <= now

\* The types of the variables that are not those of the handlers, the queues or
\* the history.
LoopTypeOK ==
    /\ alerts \in Seq(Alert)
    /\ at \in [Consumers -> {"free"} \cup JobQueries]
    /\ local \in [Consumers -> Local]
    /\ faults \in 0..MaxFaults

AlertsInv == ActivityInv /\ LoopTypeOK /\ QueueOK({Nil}) /\ WorkOK

LEMMA AlertsInvInit ==
    ASSUME AlertsInit
    PROVE  AlertsInv
<1> USE SessionsAssumption, JobsAssumption, AlertsAssumption
<1>1. ActivityInv /\ now = 0
  BY ActivityInvInit DEF AlertsInit, ActivityInit, Init
<1>2. QueueOK({Nil})
  BY InitQueueOK DEF AlertsInit
<1>3. local \in [Consumers -> Local]
  BY DEF AlertsInit, NoLocal, Local
<1>4. WorkOK
  BY <1>1, DayType DEF AlertsInit, WorkOK, NoLocal
<1>5. /\ alerts \in Seq(Alert)
      /\ at \in [Consumers -> {"free"} \cup JobQueries]
      /\ faults \in 0..MaxFaults
  BY DEF AlertsInit
<1> QED
  BY <1>1, <1>2, <1>3, <1>4, <1>5 DEF AlertsInv, LoopTypeOK

\* What a step of consumer c alone leaves of the invariant: it goes on at query
\* p with local variables f.
LEMMA GoInv ==
    ASSUME AlertsInv, NEW c \in Consumers, NEW p \in {"free"} \cup JobQueries,
           NEW f \in Local, Go(c, p, f), f.today <= Day(now), f.started <= now,
           p \in {"recent", "save"} => f.cur \in Snapshot,
           QueueOK({Nil})', p # "free" => run'[c] \in JobIds,
           \A d \in Consumers \ {c} : run'[d] = run[d],
           UNCHANGED avars,
           alerts' \in Seq(Alert), faults' \in 0..MaxFaults
    PROVE  AlertsInv'
<1>1. /\ at' = [at EXCEPT ![c] = p]
      /\ local' = [local EXCEPT ![c] = f]
  BY DEF Go
<1>2. /\ at' \in [Consumers -> {"free"} \cup JobQueries]
      /\ local' \in [Consumers -> Local]
  BY <1>1 DEF AlertsInv, LoopTypeOK
<1>3. ActivityInv' /\ now' = now
  BY HandlersNext DEF AlertsInv, avars, vars, handlers
<1>4. LoopTypeOK'
  BY <1>2 DEF LoopTypeOK
<1>5. ASSUME NEW d \in Consumers
      PROVE  /\ at'[d] # "free" => run'[d] \in JobIds
             /\ at'[d] \in {"recent", "save"} => local'[d].cur \in Snapshot
             /\ local'[d].today <= Day(now')
             /\ local'[d].started <= now'
  <2>1. CASE d = c
    BY <1>1, <1>3, <2>1 DEF AlertsInv, LoopTypeOK
  <2>2. CASE d # c
    <3>1. at'[d] = at[d] /\ local'[d] = local[d] /\ run'[d] = run[d] /\ now' = now
      BY <1>1, <1>3, <2>2 DEF AlertsInv, LoopTypeOK
    <3> QED
      BY <3>1 DEF AlertsInv, WorkOK
  <2> QED
    BY <2>1, <2>2
<1>6. WorkOK'
  BY <1>3, <1>5 DEF WorkOK, Day
<1> QED
  BY <1>3, <1>4, <1>6 DEF AlertsInv

\* The head of the loop.
LEMMA LoopInv ==
    ASSUME AlertsInv, NEW c \in Consumers, at[c] # "free",
           NEW rest \in SUBSET Snapshot, Loop(c, rest),
           UNCHANGED <<avars, jobs, run, faults>>,
           alerts' \in Seq(Alert)
    PROVE  AlertsInv'
<1> DEFINE p == IF rest = {} THEN "end" ELSE "check"
           t == IF c[2] = "idle" \/ rest = {} THEN 0 ELSE Day(now)
           f == [local[c] EXCEPT !.today = t, !.list = rest, !.cur = None]
<1>1. now \in Nat /\ Day(now) \in Nat
  <2>1. now \in Nat
    BY ClockType DEF AlertsInv
  <2> QED
    BY <2>1, DayType
<1>2. t \in Nat /\ t <= Day(now)
  BY <1>1
<1>3. local[c] \in Local
  BY DEF AlertsInv, LoopTypeOK
<1>4. Go(c, p, f)
  BY DEF Loop
<1> HIDE DEF t
<1>5. f \in Local /\ f.today = t /\ f.started <= now
  BY <1>2, <1>3 DEF Local, AlertsInv, WorkOK
<1>6. p \in JobQueries /\ p \notin {"recent", "save", "free"}
  BY DEF JobQueries
<1>7. QueueOK({Nil})' /\ run[c] \in JobIds /\ faults \in 0..MaxFaults
  BY DEF AlertsInv, LoopTypeOK, QueueOK, WorkOK
<1> HIDE DEF p, f
<1> QED
  BY <1>2, <1>4, <1>5, <1>6, <1>7, GoInv

\* A step of the queue alone, or of the handlers alone.
LEMMA OutsideInv ==
    ASSUME AlertsInv, QueueOK({Nil})', ActivityInv', now' \in {now, now + 1},
           UNCHANGED <<run, alerts, at, local>>, faults' \in 0..MaxFaults
    PROVE  AlertsInv'
<1>1. LoopTypeOK'
  BY DEF AlertsInv, LoopTypeOK
<1>2. now \in Nat
  BY ClockType DEF AlertsInv
<1>3. /\ Day(now) \in Int
      /\ Day(now + 1) \in Int
      /\ Day(now) <= Day(now + 1)
  BY <1>2, DayType, DayGrows
<1>4. Day(now)' \in Int /\ Day(now) <= Day(now)'
  <2>1. CASE now' = now
    BY <1>3, <2>1 DEF Day
  <2>2. CASE now' = now + 1
    BY <1>3, <2>2 DEF Day
  <2> QED
    BY <2>1, <2>2
<1>5. \A c \in Consumers : local[c].today \in Nat /\ local[c].started \in Int
  BY DEF AlertsInv, LoopTypeOK, Local
<1>6. WorkOK'
  BY <1>2, <1>3, <1>4, <1>5 DEF AlertsInv, WorkOK
<1> QED
  BY <1>1, <1>6 DEF AlertsInv

\* The local variables of a consumer that is free.
LEMMA NoLocalType ==
    ASSUME AlertsInv
    PROVE  NoLocal \in Local /\ NoLocal.today <= Day(now) /\ NoLocal.started <= now
<1>1. now \in Nat
  BY ClockType DEF AlertsInv
<1>2. Day(now) \in Nat
  BY <1>1, DayType
<1>3. 0 \in 0..MaxTime
  BY SessionsAssumption
<1> QED
  BY <1>1, <1>2, <1>3 DEF NoLocal, Local

LEMMA BeginInv ==
    ASSUME AlertsInv, NEW c \in Consumers, NEW j \in JobIds, Begin(c, j)
    PROVE  AlertsInv'
<1> DEFINE f == [NoLocal EXCEPT !.started = IF c[2] = "idle" THEN now ELSE 0]
<1>1. QueueOK({Nil})'
  BY TakeQueueOK DEF AlertsInv, Begin
<1>2. f \in Local /\ f.today <= Day(now) /\ f.started <= now
  <2>1. now \in 0..MaxTime /\ now \in Nat
    BY ClockType DEF AlertsInv
  <2> QED
    BY <2>1, NoLocalType DEF NoLocal, Local
<1>3. run'[c] = j /\ \A d \in Consumers \ {c} : run'[d] = run[d]
  BY DEF Begin, Take, AlertsInv, QueueOK
<1>4. Go(c, "list", f)
  BY DEF Begin
<1>5. alerts' \in Seq(Alert) /\ faults' \in 0..MaxFaults
  BY DEF Begin, AlertsInv, LoopTypeOK
<1> HIDE DEF f
<1> QED
  BY <1>1, <1>2, <1>3, <1>4, <1>5, GoInv DEF Begin, JobQueries

LEMMA ListSessionsInv ==
    ASSUME AlertsInv, NEW c \in Consumers, ListSessions(c)
    PROVE  AlertsInv'
<1> DEFINE rest == {SnapshotOf(c, s) : s \in Listed(c)}
<1>1. ASSUME NEW s \in Listed(c)
      PROVE  SnapshotOf(c, s) \in Snapshot
  <2>1. s \in SessionIds /\ sessions[s] \in Row
    BY <1>1, SessionType DEF Listed, Running, AlertsInv
  <2> QED
    BY <2>1 DEF SnapshotOf, Snapshot, Row
<1>2. rest \in SUBSET Snapshot
  BY <1>1
<1>3. Loop(c, rest)
  BY DEF ListSessions
<1>4. alerts' \in Seq(Alert)
  BY DEF ListSessions, AlertsInv, LoopTypeOK
<1> HIDE DEF rest
<1> QED
  BY <1>2, <1>3, <1>4, LoopInv DEF ListSessions

LEMMA CheckAlertInv ==
    ASSUME AlertsInv, NEW c \in Consumers, CheckAlert(c)
    PROVE  AlertsInv'
<1>1. PICK e \in local[c].list :
          \/ /\ Existing(c, e.user) # {}
             /\ Loop(c, local[c].list \ {e})
          \/ /\ Existing(c, e.user) = {}
             /\ Go(c, IF c[2] = "idle" THEN "recent" ELSE "save",
                      [local[c] EXCEPT !.list = @ \ {e}, !.cur = e])
  BY DEF CheckAlert
<1>2. /\ local[c] \in Local
      /\ local[c].today <= Day(now)
      /\ local[c].started <= now
      /\ run[c] \in JobIds
      /\ QueueOK({Nil})'
      /\ alerts' \in Seq(Alert)
      /\ faults' \in 0..MaxFaults
  BY DEF CheckAlert, AlertsInv, LoopTypeOK, WorkOK, QueueOK
<1>3. e \in Snapshot /\ local[c].list \ {e} \in SUBSET Snapshot
  BY <1>1, <1>2 DEF Local
<1>4. CASE Loop(c, local[c].list \ {e})
  BY <1>2, <1>3, <1>4, LoopInv DEF CheckAlert
<1>5. CASE Go(c, IF c[2] = "idle" THEN "recent" ELSE "save",
                 [local[c] EXCEPT !.list = @ \ {e}, !.cur = e])
  <2> DEFINE p == IF c[2] = "idle" THEN "recent" ELSE "save"
             f == [local[c] EXCEPT !.list = @ \ {e}, !.cur = e]
  <2>1. p \in {"free"} \cup JobQueries
    BY DEF JobQueries
  <2>2. f \in Local /\ f.today = local[c].today /\ f.cur = e
        /\ f.started = local[c].started
    BY <1>2, <1>3 DEF Local
  <2>3. Go(c, p, f)
    BY <1>5
  <2> HIDE DEF p, f
  <2> QED
    BY <1>2, <1>3, <2>1, <2>2, <2>3, GoInv DEF CheckAlert
<1> QED
  BY <1>1, <1>4, <1>5

LEMMA ReadRecentInv ==
    ASSUME AlertsInv, NEW c \in Consumers, ReadRecent(c)
    PROVE  AlertsInv'
<1>1. /\ local[c] \in Local
      /\ local[c].today <= Day(now)
      /\ local[c].started <= now
      /\ local[c].cur \in Snapshot
      /\ run[c] \in JobIds
      /\ QueueOK({Nil})'
      /\ alerts' \in Seq(Alert)
      /\ faults' \in 0..MaxFaults
  BY DEF ReadRecent, AlertsInv, LoopTypeOK, WorkOK, QueueOK
<1>2. CASE Go(c, "save", local[c])
  BY <1>1, <1>2, GoInv DEF ReadRecent, JobQueries
<1>3. CASE Loop(c, local[c].list)
  BY <1>1, <1>3, LoopInv DEF ReadRecent, Local
<1> QED
  BY <1>2, <1>3 DEF ReadRecent

\* The row SaveAlert inserts.
NewAlert(c) == [type |-> c[2], user |-> local[c].cur.user, created |-> now,
                by |-> c[1]]

LEMMA NewAlertType ==
    ASSUME AlertsInv, NEW c \in Consumers, SaveAlert(c)
    PROVE  /\ NewAlert(c) \in Alert
           /\ alerts' = Append(alerts, NewAlert(c))
<1>2. local[c].cur.user \in Users
  BY DEF SaveAlert, AlertsInv, WorkOK, Snapshot
<1>3. now \in 0..MaxTime
  BY ClockType DEF AlertsInv
<1>4. c[1] \in Processes /\ c[2] \in Queues
  BY DEF Consumers
<1> QED
  BY <1>2, <1>3, <1>4 DEF NewAlert, Alert, SaveAlert

LEMMA SaveAlertInv ==
    ASSUME AlertsInv, NEW c \in Consumers, SaveAlert(c)
    PROVE  AlertsInv'
<1>1. alerts' \in Seq(Alert)
  <2>1. /\ NewAlert(c) \in Alert
        /\ alerts' = Append(alerts, NewAlert(c))
    BY NewAlertType
  <2>2. alerts \in Seq(Alert)
    BY DEF AlertsInv, LoopTypeOK
  <2> QED
    BY <2>1, <2>2
<1>2. local[c].list \in SUBSET Snapshot
  BY DEF AlertsInv, LoopTypeOK, Local
<1> QED
  BY <1>1, <1>2, LoopInv DEF SaveAlert

\* A consumer that ends its job, in whatever way.
LEMMA LeaveInv ==
    ASSUME AlertsInv, NEW c \in Consumers, Leave(c), QueueOK({Nil})',
           run' = [run EXCEPT ![c] = Nil],
           UNCHANGED <<avars, alerts>>, faults' \in 0..MaxFaults
    PROVE  AlertsInv'
<1>1. \A d \in Consumers \ {c} : run'[d] = run[d]
  BY DEF AlertsInv, QueueOK
<1>2. alerts' \in Seq(Alert)
  BY DEF AlertsInv, LoopTypeOK
<1> QED
  BY <1>1, <1>2, NoLocalType, GoInv DEF Leave

LEMMA RestartInv ==
    ASSUME AlertsInv, NEW p \in Processes, Restart(p)
    PROVE  AlertsInv'
<1>1. QueueOK({Nil})'
  BY StopQueueOK DEF AlertsInv, Restart
<1>2. /\ at' \in [Consumers -> {"free"} \cup JobQueries]
      /\ local' \in [Consumers -> Local]
  BY NoLocalType DEF AlertsInv, LoopTypeOK, Restart
<1>3. faults' \in 0..MaxFaults
  BY AlertsAssumption DEF AlertsInv, LoopTypeOK, Restart, Fault
<1>4. LoopTypeOK' /\ ActivityInv'
  BY <1>2, <1>3, HandlersNext DEF AlertsInv, LoopTypeOK, Restart
<1>5. ASSUME NEW d \in Consumers
      PROVE  /\ at'[d] # "free" => run'[d] \in JobIds
             /\ at'[d] \in {"recent", "save"} => local'[d].cur \in Snapshot
             /\ local'[d].today <= Day(now)
             /\ local'[d].started <= now
  <2>1. CASE d[1] = p
    BY <2>1, NoLocalType DEF Restart
  <2>2. CASE d[1] # p
    BY <2>2 DEF Restart, StopProcess, AlertsInv, WorkOK
  <2> QED
    BY <2>1, <2>2
<1>6. now' = now /\ Day(now)' = Day(now)
  BY DEF Restart, avars, vars, handlers, Day
<1>7. WorkOK'
  BY <1>5, <1>6 DEF WorkOK
<1> QED
  BY <1>1, <1>4, <1>7 DEF AlertsInv

LEMMA FaultsType ==
    ASSUME AlertsInv, Fault
    PROVE  faults' \in 0..MaxFaults
BY AlertsAssumption DEF AlertsInv, LoopTypeOK, Fault

LEMMA AlertsInvNext ==
    ASSUME AlertsInv, [AlertsNext]_alvars
    PROVE  AlertsInv'
<1>0. /\ QueueOK({Nil})
      /\ ActivityInv
      /\ alerts \in Seq(Alert)
      /\ faults \in 0..MaxFaults
      /\ \A c \in Consumers : at[c] # "free" => run[c] \in JobIds
  BY DEF AlertsInv, LoopTypeOK, WorkOK
<1>1. ASSUME NEW c \in Consumers, Process(c)
      PROVE  AlertsInv'
  <2>1. CASE ListSessions(c)
    BY <2>1, ListSessionsInv
  <2>2. CASE CheckAlert(c)
    BY <2>2, CheckAlertInv
  <2>3. CASE ReadRecent(c)
    BY <2>3, ReadRecentInv
  <2>4. CASE SaveAlert(c)
    BY <2>4, SaveAlertInv
  <2>5. CASE Return(c)
    <3>1. QueueOK({Nil})'
      BY <1>0, <2>5, CompleteQueueOK DEF Return
    <3> QED
      BY <1>0, <2>5, <3>1, LeaveInv DEF Return, Complete
  <2> QED
    BY <1>1, <2>1, <2>2, <2>3, <2>4, <2>5 DEF Process
<1>2. ASSUME NEW c \in Consumers, JobFails(c)
      PROVE  AlertsInv'
  <2>1. QueueOK({Nil})'
    BY <1>0, <1>2, ThrowQueueOK DEF JobFails, JobQueries
  <2>2. faults' \in 0..MaxFaults
    BY <1>2, FaultsType DEF JobFails
  <2> QED
    BY <1>2, <2>1, <2>2, LeaveInv DEF JobFails, Throw
<1>3. ASSUME NEW c \in Consumers, NEW j \in JobIds, Begin(c, j)
      PROVE  AlertsInv'
  BY <1>3, BeginInv
<1>4. ASSUME NEW j \in JobIds, NEW q \in Queues, Trigger(j, q)
      PROVE  AlertsInv'
  <2>1. QueueOK({Nil})'
    BY <1>0, <1>4, AddQueueOK DEF Trigger
  <2>2. ActivityInv' /\ now' = now
    BY <1>0, <1>4, HandlersNext DEF Trigger, avars, vars, handlers
  <2> QED
    BY <1>0, <1>4, <2>1, <2>2, OutsideInv DEF Trigger, Add
<1>5. ASSUME NEW j \in JobIds, Retry(j)
      PROVE  AlertsInv'
  <2>1. QueueOK({Nil})'
    BY <1>0, <1>5, PromoteQueueOK DEF Retry
  <2>2. ActivityInv' /\ now' = now
    BY <1>0, <1>5, HandlersNext DEF Retry, avars, vars, handlers
  <2> QED
    BY <1>0, <1>5, <2>1, <2>2, OutsideInv DEF Retry, Promote
<1>6. ASSUME NEW j \in JobIds, Recover(j) \/ LockExpires(j)
      PROVE  AlertsInv'
  <2>1. QueueOK({Nil})'
    BY <1>0, <1>6, StallQueueOK DEF Recover, LockExpires
  <2>2. ActivityInv' /\ now' = now
    BY <1>0, <1>6, HandlersNext DEF Recover, LockExpires, avars, vars, handlers
  <2>3. faults' \in 0..MaxFaults
    BY <1>0, <1>6, FaultsType DEF Recover, LockExpires
  <2> QED
    BY <1>6, <2>1, <2>2, <2>3, OutsideInv DEF Recover, LockExpires, Stall
<1>7. ASSUME NEW p \in Processes, Restart(p)
      PROVE  AlertsInv'
  BY <1>7, RestartInv
<1>8. CASE UserStep
  <2>1. ActivityInv' /\ now' \in {now, now + 1}
    BY <1>0, <1>8, HandlersNext DEF UserStep
  <2>2. QueueOK({Nil})'
    BY <1>0, <1>8, SameQueueOK DEF UserStep
  <2> QED
    BY <1>0, <1>8, <2>1, <2>2, OutsideInv DEF UserStep
<1>9. CASE UNCHANGED alvars
  <2>1. QueueOK({Nil})' /\ ActivityInv' /\ now' = now
    BY <1>0, <1>9, SameQueueOK, HandlersNext DEF alvars, avars, vars, handlers
  <2> QED
    BY <1>0, <1>9, <2>1, OutsideInv DEF alvars
<1> QED
  BY <1>1, <1>2, <1>3, <1>4, <1>5, <1>6, <1>7, <1>8, <1>9 DEF AlertsNext, JobsEnded

\* Every step keeps the history.
LEMMA HistoryStep ==
    ASSUME [AlertsNext]_alvars
    PROVE  JobHistory \/ UNCHANGED alvars
BY DEF AlertsNext, Process, ListSessions, CheckAlert, ReadRecent, SaveAlert, Return,
   JobFails, Begin, Trigger, Retry, Recover, LockExpires, Restart, UserStep, JobsEnded

HistoryTypeOK ==
    /\ changed \in [Consumers -> SUBSET SessionIds]
    /\ known \in [Consumers -> SUBSET ActivityIds]

LEMMA NextHistoryType ==
    ASSUME ActivityInv, HistoryTypeOK, [AlertsNext]_alvars
    PROVE  HistoryTypeOK'
<1>1. logs \subseteq ActivityIds
  BY DEF ActivityInv, ActivityTypeInv
<1>2. CASE JobHistory
  BY <1>1, <1>2 DEF JobHistory, HistoryTypeOK
<1>3. CASE UNCHANGED alvars
  BY <1>3 DEF alvars, HistoryTypeOK
<1> QED
  BY <1>2, <1>3, HistoryStep

(***************************************************************************)
(* Tables, queue, processors and history keep their types, and no attempt  *)
(* is made of a job that has none left, however jobs fail, stall and are   *)
(* resumed.                                                                *)
(***************************************************************************)
THEOREM AlertsTypes == AlertsSpec => [](AlertsTypeOK /\ QueueOK({Nil}))
<1> DEFINE IInv == AlertsInv /\ HistoryTypeOK
<1>1. AlertsInit => IInv
  BY AlertsInvInit DEF AlertsInit, HistoryTypeOK
<1>2. IInv /\ [AlertsNext]_alvars => IInv'
  BY AlertsInvNext, NextHistoryType DEF AlertsInv
<1>3. IInv => AlertsTypeOK /\ QueueOK({Nil})
  BY DEF AlertsInv, LoopTypeOK, HistoryTypeOK, AlertsTypeOK, QueueOK
<1> QED
  BY <1>1, <1>2, <1>3, PTL DEF AlertsSpec

-----------------------------------------------------------------------------
(* No process repeats an alert. *)

\* A consumer that is to decide or to insert knows that its process has not
\* alerted the user, or, of overtime, not on the day it has taken.
NoneBefore ==
    \A c \in Consumers : at[c] \in {"recent", "save"} =>
        \A i \in DOMAIN alerts :
            /\ alerts[i].by = c[1]
            /\ alerts[i].type = c[2]
            /\ alerts[i].user = local[c].cur.user
            => /\ c[2] = "overtime"
               /\ Day(alerts[i].created) < local[c].today

\* A step that inserts nothing and brings no consumer to a decision.
LEMMA StableNoneBefore ==
    ASSUME NoneBefore, UNCHANGED alerts,
           \A d \in Consumers : at'[d] \in {"recent", "save"} =>
               at[d] \in {"recent", "save"} /\ local'[d] = local[d]
    PROVE  NoneBefore'
BY DEF NoneBefore

\* A consumer that goes on to anything else takes no decision.
LEMMA GoStable ==
    ASSUME AlertsInv, NEW c \in Consumers, NEW p, NEW f, Go(c, p, f),
           p \notin {"recent", "save"}
    PROVE  \A d \in Consumers : at'[d] \in {"recent", "save"} =>
               d # c /\ at[d] \in {"recent", "save"} /\ local'[d] = local[d]
BY DEF AlertsInv, LoopTypeOK, Go

LEMMA LoopStable ==
    ASSUME AlertsInv, NEW c \in Consumers, NEW rest, Loop(c, rest)
    PROVE  \A d \in Consumers : at'[d] \in {"recent", "save"} =>
               d # c /\ at[d] \in {"recent", "save"} /\ local'[d] = local[d]
<1> DEFINE p == IF rest = {} THEN "end" ELSE "check"
           f == [local[c] EXCEPT !.today = IF c[2] = "idle" \/ rest = {} THEN 0 ELSE Day(now),
                                 !.list = rest, !.cur = None]
<1>1. Go(c, p, f) /\ p \notin {"recent", "save"}
  BY DEF Loop
<1> HIDE DEF p, f
<1> QED
  BY <1>1, GoStable

\* The search for an existing alert finds none: what CheckAlert makes of it.
LEMMA CheckAlertNoneBefore ==
    ASSUME AlertsInv, NoneBefore, NEW c \in Consumers, CheckAlert(c)
    PROVE  NoneBefore'
<1>1. PICK e \in local[c].list :
          \/ Loop(c, local[c].list \ {e})
          \/ /\ Existing(c, e.user) = {}
             /\ Go(c, IF c[2] = "idle" THEN "recent" ELSE "save",
                      [local[c] EXCEPT !.list = @ \ {e}, !.cur = e])
  BY DEF CheckAlert
<1>2. alerts' = alerts
  BY DEF CheckAlert
<1>3. CASE Loop(c, local[c].list \ {e})
  BY <1>2, <1>3, LoopStable, StableNoneBefore
<1>4. CASE /\ Existing(c, e.user) = {}
           /\ Go(c, IF c[2] = "idle" THEN "recent" ELSE "save",
                    [local[c] EXCEPT !.list = @ \ {e}, !.cur = e])
  <2>1. /\ local'[c].cur = e
        /\ local'[c].today = local[c].today
        /\ local[c].today \in Nat
    BY <1>4 DEF Go, AlertsInv, LoopTypeOK, Local
  <2>2. \A d \in Consumers \ {c} : at'[d] = at[d] /\ local'[d] = local[d]
    BY <1>4 DEF Go, AlertsInv, LoopTypeOK
  <2>3. ASSUME NEW i \in DOMAIN alerts,
               alerts[i].by = c[1],
               alerts[i].type = c[2],
               alerts[i].user = e.user
        PROVE  c[2] = "overtime" /\ Day(alerts[i].created) < local[c].today
    <3>1. c[2] = "overtime" /\ ~(Day(alerts[i].created) >= local[c].today)
      BY <1>4, <2>3 DEF Existing
    <3>2. alerts[i] \in Alert
      BY DEF AlertsInv, LoopTypeOK
    <3>3. alerts[i].created \in Int
      BY <3>2 DEF Alert
    <3>4. Day(alerts[i].created) \in Int
      BY <3>3, DayType
    <3> QED
      BY <2>1, <3>1, <3>4
  <2> QED
    BY <1>2, <2>1, <2>2, <2>3 DEF NoneBefore
<1> QED
  BY <1>1, <1>3, <1>4

\* An alert that is inserted concerns its own consumer only.
LEMMA SaveAlertNoneBefore ==
    ASSUME AlertsInv, NoneBefore, NEW c \in Consumers, SaveAlert(c)
    PROVE  NoneBefore'
<1>1. /\ NewAlert(c) \in Alert
      /\ alerts' = Append(alerts, NewAlert(c))
  BY NewAlertType
<1>2. \A d \in Consumers : at'[d] \in {"recent", "save"} =>
          d # c /\ at[d] \in {"recent", "save"} /\ local'[d] = local[d]
  BY LoopStable DEF SaveAlert
<1>3. \A d \in Consumers : d # c => NewAlert(c).by # d[1] \/ NewAlert(c).type # d[2]
  BY DEF NewAlert, Consumers
<1>4. alerts \in Seq(Alert)
  BY DEF AlertsInv, LoopTypeOK
<1>5. \A i \in DOMAIN alerts' : \/ i \in DOMAIN alerts /\ alerts'[i] = alerts[i]
                                \/ alerts'[i] = NewAlert(c)
  BY <1>1, <1>4
<1> QED
  BY <1>2, <1>3, <1>5 DEF NoneBefore

LEMMA NextNoneBefore ==
    ASSUME AlertsInv, NoneBefore, [AlertsNext]_alvars
    PROVE  NoneBefore'
<1>1. ASSUME NEW c \in Consumers, Process(c)
      PROVE  NoneBefore'
  <2>1. CASE ListSessions(c)
    BY <2>1, LoopStable, StableNoneBefore DEF ListSessions
  <2>2. CASE CheckAlert(c)
    BY <2>2, CheckAlertNoneBefore
  <2>3. CASE ReadRecent(c)
    <3>1. CASE Loop(c, local[c].list)
      BY <2>3, <3>1, LoopStable, StableNoneBefore DEF ReadRecent
    <3>2. CASE Go(c, "save", local[c])
      <4>1. \A d \in Consumers : at'[d] \in {"recent", "save"} =>
                at[d] \in {"recent", "save"} /\ local'[d] = local[d]
        BY <2>3, <3>2 DEF ReadRecent, Go, AlertsInv, LoopTypeOK
      <4> QED
        BY <2>3, <4>1, StableNoneBefore DEF ReadRecent
    <3> QED
      BY <2>3, <3>1, <3>2 DEF ReadRecent
  <2>4. CASE SaveAlert(c)
    BY <2>4, SaveAlertNoneBefore
  <2>5. CASE Return(c)
    BY <2>5, GoStable, StableNoneBefore DEF Return, Leave
  <2> QED
    BY <1>1, <2>1, <2>2, <2>3, <2>4, <2>5 DEF Process
<1>2. ASSUME NEW c \in Consumers, JobFails(c)
      PROVE  NoneBefore'
  BY <1>2, GoStable, StableNoneBefore DEF JobFails, Leave
<1>3. ASSUME NEW c \in Consumers, NEW j \in JobIds, Begin(c, j)
      PROVE  NoneBefore'
  BY <1>3, GoStable, StableNoneBefore DEF Begin
<1>4. ASSUME NEW p \in Processes, Restart(p)
      PROVE  NoneBefore'
  <2>1. \A d \in Consumers : at'[d] \in {"recent", "save"} =>
            at[d] \in {"recent", "save"} /\ local'[d] = local[d]
    BY <1>4 DEF Restart
  <2> QED
    BY <1>4, <2>1, StableNoneBefore DEF Restart
<1>5. CASE UNCHANGED <<alerts, at, local>>
  BY <1>5, StableNoneBefore
<1> QED
  BY <1>1, <1>2, <1>3, <1>4, <1>5
  DEF AlertsNext, alvars, Trigger, Retry, Recover, LockExpires, UserStep, JobsEnded

\* The row SaveAlert inserts repeats none of its process.
LEMMA SaveAlertNoRepeat ==
    ASSUME AlertsInv, NoneBefore, NoRepeatByProcess, NEW c \in Consumers, SaveAlert(c)
    PROVE  NoRepeatByProcess'
<1> DEFINE n == NewAlert(c)
<1>1. /\ n \in Alert
      /\ alerts' = Append(alerts, n)
  BY NewAlertType
<1>2. alerts \in Seq(Alert)
  BY DEF AlertsInv, LoopTypeOK
<1>3. now \in Nat /\ Day(now) \in Int /\ local[c].today \in Nat /\ local[c].today <= Day(now)
  <2>1. now \in Nat
    BY ClockType DEF AlertsInv
  <2> QED
    BY <2>1, DayType DEF AlertsInv, LoopTypeOK, WorkOK, Local
<1>4. ASSUME NEW i \in DOMAIN alerts, alerts[i].by = n.by,
             Repeats(alerts[i], n) \/ Repeats(n, alerts[i])
      PROVE  FALSE
  <2>1. c[2] = "overtime" /\ Day(alerts[i].created) < local[c].today
    BY <1>4 DEF NoneBefore, SaveAlert, NewAlert, Repeats
  <2>2. Day(alerts[i].created) = Day(now)
    BY <1>4, <2>1 DEF NewAlert, Repeats
  <2> QED
    BY <1>3, <2>1, <2>2
<1>5. \A i \in DOMAIN alerts' : \/ i \in DOMAIN alerts /\ alerts'[i] = alerts[i]
                                \/ i = Len(alerts) + 1 /\ alerts'[i] = n
  BY <1>1, <1>2
<1> HIDE DEF n
<1> QED
  BY <1>4, <1>5 DEF NoRepeatByProcess

(***************************************************************************)
(* However many processes, jobs and users there are, and however jobs      *)
(* fail, stall, restart and overlap: no process inserts an idle alert for  *)
(* a user twice, or two overtime alerts for a user on one day.             *)
(***************************************************************************)
THEOREM NoRepeatWithinProcess == AlertsSpec => []NoRepeatByProcess
<1> DEFINE IInv == AlertsInv /\ NoneBefore /\ NoRepeatByProcess
<1>1. AlertsInit => IInv
  BY AlertsInvInit DEF AlertsInit, NoneBefore, NoRepeatByProcess
<1>2. IInv /\ [AlertsNext]_alvars => IInv'
  <2> SUFFICES ASSUME IInv, [AlertsNext]_alvars
               PROVE  IInv'
    OBVIOUS
  <2>1. AlertsInv'
    BY AlertsInvNext
  <2>2. NoneBefore'
    BY NextNoneBefore
  <2>3. NoRepeatByProcess'
    <3>1. CASE \E c \in Consumers : SaveAlert(c)
      BY <3>1, SaveAlertNoRepeat
    <3>2. CASE UNCHANGED alerts
      BY <3>2 DEF NoRepeatByProcess
    <3> QED
      BY <3>1, <3>2
      DEF AlertsNext, alvars, Process, ListSessions, CheckAlert, ReadRecent, Return,
          JobFails, Begin, Trigger, Retry, Recover, LockExpires, Restart, UserStep,
      JobsEnded
  <2> QED
    BY <2>1, <2>2, <2>3
<1> QED
  BY <1>1, <1>2, PTL DEF AlertsSpec

-----------------------------------------------------------------------------
(* What a step of the system is to a consumer, to the tables and to alerts. *)

\* A consumer ends its job or begins one, takes a step of its own, or stays.
LEMMA ConsumerStep ==
    ASSUME AlertsInv, [AlertsNext]_alvars, NEW c \in Consumers
    PROVE  \/ at'[c] \in {"free", "list"}
           \/ ListSessions(c) \/ CheckAlert(c) \/ ReadRecent(c) \/ SaveAlert(c)
           \/ at'[c] = at[c] /\ local'[c] = local[c]
<1> DEFINE Goal == \/ at'[c] \in {"free", "list"}
                   \/ ListSessions(c) \/ CheckAlert(c) \/ ReadRecent(c) \/ SaveAlert(c)
                   \/ at'[c] = at[c] /\ local'[c] = local[c]
<1>0. ASSUME NEW d \in Consumers, NEW p, NEW f, Go(d, p, f)
      PROVE  IF d = c THEN at'[c] = p ELSE at'[c] = at[c] /\ local'[c] = local[c]
  BY <1>0 DEF Go, AlertsInv, LoopTypeOK
<1>1. ASSUME NEW d \in Consumers, ListSessions(d) \/ CheckAlert(d) \/ ReadRecent(d) \/ SaveAlert(d)
      PROVE  Goal
  <2>1. CASE d = c
    BY <1>1, <2>1
  <2>2. CASE d # c
    <3>1. ASSUME NEW rest, Loop(d, rest)
          PROVE  at'[c] = at[c] /\ local'[c] = local[c]
      BY <1>0, <2>2, <3>1 DEF Loop
    <3>2. CASE ListSessions(d)
      BY <3>1, <3>2 DEF ListSessions
    <3>3. CASE CheckAlert(d)
      BY <1>0, <2>2, <3>1, <3>3 DEF CheckAlert
    <3>4. CASE ReadRecent(d)
      BY <1>0, <2>2, <3>1, <3>4 DEF ReadRecent
    <3>5. CASE SaveAlert(d)
      BY <3>1, <3>5 DEF SaveAlert
    <3> QED
      BY <1>1, <3>2, <3>3, <3>4, <3>5
  <2> QED
    BY <2>1, <2>2
<1>2. ASSUME NEW d \in Consumers, Return(d) \/ JobFails(d)
      PROVE  Goal
  BY <1>0, <1>2 DEF Return, JobFails, Leave
<1>3. ASSUME NEW d \in Consumers, NEW j \in JobIds, Begin(d, j)
      PROVE  Goal
  BY <1>0, <1>3 DEF Begin
<1>4. ASSUME NEW p \in Processes, Restart(p)
      PROVE  Goal
  BY <1>4 DEF Restart
<1>5. CASE UNCHANGED <<at, local>>
  BY <1>5
<1> QED
  BY <1>1, <1>2, <1>3, <1>4, <1>5
  DEF AlertsNext, Process, alvars, Trigger, Retry, Recover, LockExpires, UserStep, JobsEnded

\* The tables of the handlers change in steps of the handlers only.
LEMMA TablesStep ==
    ASSUME [AlertsNext]_alvars
    PROVE  [RequestsNext]_avars
BY DEF AlertsNext, alvars, Process, ListSessions, CheckAlert, ReadRecent, SaveAlert, Return,
   JobFails, Begin, Trigger, Retry, Recover, LockExpires, Restart, UserStep, JobsEnded

\* No alert goes away.
LEMMA AlertsStay ==
    ASSUME AlertsInv, [AlertsNext]_alvars
    PROVE  \A i \in DOMAIN alerts : i \in DOMAIN alerts' /\ alerts'[i] = alerts[i]
<1>1. ASSUME NEW c \in Consumers, SaveAlert(c)
      PROVE  \A i \in DOMAIN alerts : i \in DOMAIN alerts' /\ alerts'[i] = alerts[i]
  <2>1. alerts' = Append(alerts, NewAlert(c)) /\ alerts \in Seq(Alert)
    BY <1>1, NewAlertType DEF AlertsInv, LoopTypeOK
  <2> QED
    BY <2>1
<1>2. CASE UNCHANGED alerts
  BY <1>2
<1> QED
  BY <1>1, <1>2
  DEF AlertsNext, alvars, Process, ListSessions, CheckAlert, ReadRecent, Return,
      JobFails, Begin, Trigger, Retry, Recover, LockExpires, Restart, UserStep,
      JobsEnded

\* Where the head of the loop leaves its consumer.
LEMMA LoopAt ==
    ASSUME AlertsInv, NEW c \in Consumers, NEW rest, Loop(c, rest)
    PROVE  /\ at'[c] = IF rest = {} THEN "end" ELSE "check"
           /\ local'[c].list = rest
           /\ local'[c].started = local[c].started
<1>1. local[c] \in Local /\ c \in DOMAIN local /\ c \in DOMAIN at
  BY DEF AlertsInv, LoopTypeOK
<1> QED
  BY <1>1 DEF Loop, Go, Local

-----------------------------------------------------------------------------
(* Nobody is called idle who has worked. *)

\* What a job knew to be in the log is in the log.
KnownLogged == \A c \in Consumers : known[c] \subseteq logs

LEMMA NextKnownLogged ==
    ASSUME AlertsInv, KnownLogged, [AlertsNext]_alvars
    PROVE  /\ KnownLogged'
           /\ \A c \in Consumers : at[c] # "free" /\ at'[c] # "free" => known'[c] = known[c]
<1>1. /\ \A c \in Consumers : known'[c] \in {{}, logs, known[c]}
      /\ \A c \in Consumers : at[c] # "free" /\ at'[c] # "free" => known'[c] = known[c]
  <2>1. CASE JobHistory
    BY <2>1 DEF JobHistory
  <2>2. CASE UNCHANGED alvars
    BY <2>2 DEF alvars
  <2> QED
    BY <2>1, <2>2, HistoryStep
<1>2. logs \subseteq logs'
  BY TablesStep, LogKept DEF AlertsInv
<1> QED
  BY <1>1, <1>2 DEF KnownLogged

LEMMA NextNoFalseAlarm ==
    ASSUME AlertsInv, KnownLogged, NoFalseAlarm, [AlertsNext]_alvars
    PROVE  NoFalseAlarm'
<1> SUFFICES ASSUME NEW c \in Consumers, c[2] = "idle", at'[c] = "save",
                    NEW a \in known'[c],
                    a \in logs',
                    frame'[a[1]].sid = local'[c].cur.sid,
                    ItemOf(a)'.ts > local'[c].started - IdleThreshold,
                    ItemOf(a)'.type = "active"
             PROVE  FALSE
  BY DEF NoFalseAlarm, Recent, LogsOf
<1>1. /\ local'[c] = local[c]
      /\ \/ at[c] = "save"
         \/ /\ at[c] = "recent"
            /\ ShouldAlert(local[c].cur, local[c].started)
  <2>1. CASE ListSessions(c) \/ SaveAlert(c)
    BY <2>1, LoopAt DEF ListSessions, SaveAlert
  <2>2. CASE CheckAlert(c)
    BY <2>2, LoopAt DEF CheckAlert, Go, AlertsInv, LoopTypeOK
  <2>3. CASE ReadRecent(c)
    BY <2>3, LoopAt DEF ReadRecent, Go, AlertsInv, LoopTypeOK
  <2> QED
    BY <2>1, <2>2, <2>3, ConsumerStep
<1>2. a \in known[c] /\ a \in logs
  BY <1>1, NextKnownLogged DEF KnownLogged
<1>3. frame'[a[1]].sid = frame[a[1]].sid /\ ItemOf(a)' = ItemOf(a)
  BY <1>2, TablesStep, LogKept DEF AlertsInv
<1>4. a \in Recent(local[c].cur.sid, local[c].started) /\ ItemOf(a).type = "active"
  BY <1>1, <1>2, <1>3 DEF Recent, LogsOf
<1>5. CASE ShouldAlert(local[c].cur, local[c].started)
  BY <1>4, <1>5 DEF ShouldAlert
<1>6. CASE at[c] = "save"
  BY <1>2, <1>4, <1>6 DEF NoFalseAlarm
<1> QED
  BY <1>1, <1>5, <1>6

(***************************************************************************)
(* Whatever is logged, counted and uploaded while a job is at work, and    *)
(* whatever fails: when it inserts an idle alert, no active time within    *)
(* the threshold was in the log before it began.                           *)
(***************************************************************************)
THEOREM IdleAlertsAreTrue == AlertsSpec => []NoFalseAlarm
<1> DEFINE IInv == AlertsInv /\ KnownLogged /\ NoFalseAlarm
<1>1. AlertsInit => IInv
  BY AlertsInvInit DEF AlertsInit, NoFalseAlarm, KnownLogged
<1>2. IInv /\ [AlertsNext]_alvars => IInv'
  BY AlertsInvNext, NextKnownLogged, NextNoFalseAlarm
<1> QED
  BY <1>1, <1>2, PTL DEF AlertsSpec

-----------------------------------------------------------------------------
(* No quiet session is overlooked. *)

\* The entry of session s in the list, if it was read as it is now.
Entry(s) == [sid |-> s, user |-> sessions[s].user, last |-> sessions[s].last]

IdleAlerted(u) == \E i \in DOMAIN alerts : alerts[i].type = "idle" /\ alerts[i].user = u

\* A session that is quiet since the job began is still to be looked at, is
\* being looked at, or its user has an alert.
NoneOverlooked ==
    \A c \in Consumers : c[2] = "idle" /\ at[c] \in {"check", "recent", "save", "end"} =>
        \A s \in SessionIds : Quiet(s, c) =>
            \/ IdleAlerted(sessions[s].user)
            \/ Entry(s) \in local[c].list
            \/ at[c] \in {"recent", "save"} /\ local[c].cur = Entry(s)

\* A job that comes to its end has nothing left to do.
EndsDone == \A c \in Consumers : at[c] = "end" => local[c].list = {}

LEMMA NextEndsDone ==
    ASSUME AlertsInv, EndsDone, [AlertsNext]_alvars
    PROVE  EndsDone'
<1> SUFFICES ASSUME NEW c \in Consumers, at'[c] = "end"
             PROVE  local'[c].list = {}
  BY DEF EndsDone
<1>1. CASE ListSessions(c) \/ SaveAlert(c)
  BY <1>1, LoopAt DEF ListSessions, SaveAlert
<1>2. CASE CheckAlert(c)
  BY <1>2, LoopAt DEF CheckAlert, Go, AlertsInv, LoopTypeOK
<1>3. CASE ReadRecent(c)
  BY <1>3, LoopAt DEF ReadRecent, Go, AlertsInv, LoopTypeOK
<1> QED
  BY <1>1, <1>2, <1>3, ConsumerStep DEF EndsDone

\* A session that is quiet for a job now was as quiet before the last step.
LEMMA QuietBefore ==
    ASSUME AlertsInv, [AlertsNext]_alvars, NEW c \in Consumers, NEW s \in SessionIds,
           at[c] # "free", at'[c] # "free", local'[c].started = local[c].started,
           Quiet(s, c)'
    PROVE  Quiet(s, c) /\ sessions'[s] = sessions[s]
<1>1. s \notin changed[c] /\ sessions'[s] = sessions[s]
  <2>1. CASE JobHistory
    BY <2>1 DEF JobHistory, Quiet
  <2>2. CASE UNCHANGED alvars
    BY <2>2 DEF alvars, avars, vars, handlers, Quiet
  <2> QED
    BY <2>1, <2>2, HistoryStep
<1>2. Recent(s, local[c].started) = {}
  <2> SUFFICES ASSUME NEW a \in Recent(s, local[c].started)
               PROVE  FALSE
    OBVIOUS
  <2>1. a \in logs
    BY DEF Recent, LogsOf
  <2>2. a \in logs' /\ frame'[a[1]].sid = frame[a[1]].sid /\ ItemOf(a)' = ItemOf(a)
    BY <2>1, TablesStep, LogKept DEF AlertsInv
  <2>3. a \in Recent(s, local[c].started)'
    BY <2>2 DEF Recent, LogsOf
  <2> QED
    BY <2>3 DEF Quiet
<1> QED
  BY <1>1, <1>2 DEF Quiet, Running

\* One step of a consumer's own, between the tables as they are.
LEMMA StepOverlooksNone ==
    ASSUME AlertsInv, NoneOverlooked, NEW c \in Consumers, c[2] = "idle",
           ListSessions(c) \/ CheckAlert(c) \/ ReadRecent(c) \/ SaveAlert(c),
           NEW s \in SessionIds, Quiet(s, c)
    PROVE  \/ IdleAlerted(sessions[s].user)'
           \/ Entry(s) \in local'[c].list
           \/ at'[c] \in {"recent", "save"} /\ local'[c].cur = Entry(s)
<1>0. PICK e : e = Entry(s)
  OBVIOUS
<1> SUFFICES \/ IdleAlerted(sessions[s].user)'
             \/ e \in local'[c].list
             \/ at'[c] \in {"recent", "save"} /\ local'[c].cur = e
  BY <1>0
<1>1. e.sid = s /\ e.user = sessions[s].user /\ e.last = sessions[s].last
  BY <1>0 DEF Entry
<1>2. local[c] \in Local /\ c \in DOMAIN local /\ c \in DOMAIN at
  BY DEF AlertsInv, LoopTypeOK
<1>3. at[c] \in {"check", "recent", "save"} =>
          \/ IdleAlerted(sessions[s].user)
          \/ e \in local[c].list
          \/ at[c] \in {"recent", "save"} /\ local[c].cur = e
  BY <1>0 DEF NoneOverlooked
<1>a. sessions'[s] = sessions[s]
  BY DEF ListSessions, CheckAlert, ReadRecent, SaveAlert, avars, vars, handlers
<1>4. UNCHANGED alerts /\ IdleAlerted(sessions[s].user) => IdleAlerted(sessions[s].user)'
  BY <1>a DEF IdleAlerted
<1>5. CASE ListSessions(c)
  <2>1. s \in Listed(c) /\ e = SnapshotOf(c, s)
    BY <1>0 DEF Quiet, Listed, Entry, SnapshotOf
  <2>2. e \in local'[c].list
    BY <1>5, <2>1, LoopAt DEF ListSessions
  <2> QED
    BY <2>2
<1>6. CASE CheckAlert(c)
  <2>1. PICK x \in local[c].list :
            \/ Existing(c, x.user) # {} /\ Loop(c, local[c].list \ {x})
            \/ Go(c, IF c[2] = "idle" THEN "recent" ELSE "save",
                     [local[c] EXCEPT !.list = @ \ {x}, !.cur = x])
    BY <1>6 DEF CheckAlert
  <2>2. UNCHANGED alerts /\ at[c] = "check"
    BY <1>6 DEF CheckAlert
  <2>3. IdleAlerted(sessions[s].user) \/ e \in local[c].list
    BY <1>3, <2>2
  <2>4. CASE Existing(c, x.user) # {} /\ Loop(c, local[c].list \ {x})
    <3>1. IdleAlerted(x.user)
      BY <2>4 DEF Existing, IdleAlerted
    <3>2. local'[c].list = local[c].list \ {x}
      BY <2>4, LoopAt
    <3> QED
      BY <1>1, <1>4, <2>2, <2>3, <3>1, <3>2
  <2>5. CASE Go(c, IF c[2] = "idle" THEN "recent" ELSE "save",
                   [local[c] EXCEPT !.list = @ \ {x}, !.cur = x])
    <3>1. /\ at'[c] = "recent"
          /\ local'[c].list = local[c].list \ {x}
          /\ local'[c].cur = x
      BY <1>2, <2>5 DEF Go, Local
    <3> QED
      BY <1>4, <2>2, <2>3, <3>1
  <2> QED
    BY <2>1, <2>4, <2>5
<1>7. CASE ReadRecent(c)
  <2>1. UNCHANGED alerts /\ at[c] = "recent"
    BY <1>7 DEF ReadRecent
  <2>2. CASE local[c].cur = e
    <3>1. ShouldAlert(local[c].cur, local[c].started)
      BY <1>1, <2>2 DEF ShouldAlert, Quiet
    <3>2. at'[c] = "save" /\ local'[c] = local[c]
      BY <1>2, <1>7, <3>1 DEF ReadRecent, Go
    <3> QED
      BY <2>2, <3>2
  <2>3. CASE local[c].cur # e
    <3>1. local'[c].list = local[c].list
      BY <1>2, <1>7, LoopAt DEF ReadRecent, Go
    <3> QED
      BY <1>3, <1>4, <2>1, <2>3, <3>1
  <2> QED
    BY <2>2, <2>3
<1>8. CASE SaveAlert(c)
  <2>1. /\ at[c] = "save"
        /\ alerts' = Append(alerts, NewAlert(c))
        /\ alerts \in Seq(Alert)
        /\ local'[c].list = local[c].list
    BY <1>8, NewAlertType, LoopAt DEF SaveAlert, AlertsInv, LoopTypeOK
  <2>2. CASE local[c].cur = e
    <3>1. /\ alerts'[Len(alerts) + 1] = NewAlert(c)
          /\ Len(alerts) + 1 \in DOMAIN alerts'
      BY <2>1
    <3>2. NewAlert(c).type = "idle" /\ NewAlert(c).user = sessions[s].user
      BY <1>1, <2>2 DEF NewAlert
    <3> QED
      BY <1>a, <3>1, <3>2 DEF IdleAlerted
  <2>3. CASE IdleAlerted(sessions[s].user)
    BY <1>a, <2>1, <2>3 DEF IdleAlerted
  <2> QED
    BY <1>3, <2>1, <2>2, <2>3
<1> QED
  BY <1>5, <1>6, <1>7, <1>8

LEMMA NextNoneOverlooked ==
    ASSUME AlertsInv, NoneOverlooked, [AlertsNext]_alvars
    PROVE  NoneOverlooked'
<1> SUFFICES ASSUME NEW c \in Consumers, c[2] = "idle",
                    at'[c] \in {"check", "recent", "save", "end"},
                    NEW s \in SessionIds, Quiet(s, c)'
             PROVE  \/ IdleAlerted(sessions[s].user)'
                    \/ Entry(s)' \in local'[c].list
                    \/ at'[c] \in {"recent", "save"} /\ local'[c].cur = Entry(s)'
  BY DEF NoneOverlooked
<1>2. /\ local'[c].started = local[c].started
      /\ \/ ListSessions(c) \/ CheckAlert(c) \/ ReadRecent(c) \/ SaveAlert(c)
         \/ at'[c] = at[c] /\ local'[c] = local[c]
  <2>1. CASE ListSessions(c) \/ SaveAlert(c)
    BY <2>1, LoopAt DEF ListSessions, SaveAlert
  <2>2. CASE CheckAlert(c)
    <3>1. local[c] \in Local /\ c \in DOMAIN local
      BY DEF AlertsInv, LoopTypeOK
    <3>2. ASSUME NEW x, NEW p, Go(c, p, [local[c] EXCEPT !.list = @ \ {x}, !.cur = x])
          PROVE  local'[c].started = local[c].started
      BY <3>1, <3>2 DEF Go, Local
    <3> QED
      BY <2>2, <3>2, LoopAt DEF CheckAlert
  <2>3. CASE ReadRecent(c)
    BY <2>3, LoopAt DEF ReadRecent, Go, AlertsInv, LoopTypeOK
  <2> QED
    BY <2>1, <2>2, <2>3, ConsumerStep
<1>3. at[c] # "free"
  BY <1>2 DEF ListSessions, CheckAlert, ReadRecent, SaveAlert
<1>5. Quiet(s, c) /\ sessions'[s] = sessions[s]
  BY <1>2, <1>3, QuietBefore
<1>6. Entry(s)' = Entry(s)
  BY <1>5 DEF Entry
<1>7. CASE ListSessions(c) \/ CheckAlert(c) \/ ReadRecent(c) \/ SaveAlert(c)
  BY <1>5, <1>6, <1>7, StepOverlooksNone
<1>8. CASE at'[c] = at[c] /\ local'[c] = local[c]
  <2>1. \/ IdleAlerted(sessions[s].user)
        \/ Entry(s) \in local[c].list
        \/ at[c] \in {"recent", "save"} /\ local[c].cur = Entry(s)
    BY <1>5, <1>8 DEF NoneOverlooked
  <2>2. IdleAlerted(sessions[s].user) => IdleAlerted(sessions[s].user)'
    BY <1>5, AlertsStay DEF IdleAlerted
  <2> QED
    BY <1>6, <1>8, <2>1, <2>2
<1> QED
  BY <1>2, <1>7, <1>8

(***************************************************************************)
(* However many processes and jobs work at once, and whatever the handlers *)
(* commit meanwhile: an idle job that comes to its end leaves an alert for *)
(* the user of every session that was quiet when it began, and still is.   *)
(***************************************************************************)
THEOREM NoQuietSessionOverlooked == AlertsSpec => []QuietIsAlerted
<1> DEFINE IInv == AlertsInv /\ NoneOverlooked /\ EndsDone
<1>1. AlertsInit => IInv
  BY AlertsInvInit DEF AlertsInit, NoneOverlooked, EndsDone
<1>2. IInv /\ [AlertsNext]_alvars => IInv'
  BY AlertsInvNext, NextNoneOverlooked, NextEndsDone
<1>3. IInv => QuietIsAlerted
  BY DEF NoneOverlooked, EndsDone, QuietIsAlerted, IdleAlerted
<1> QED
  BY <1>1, <1>2, <1>3, PTL DEF AlertsSpec
=============================================================================
