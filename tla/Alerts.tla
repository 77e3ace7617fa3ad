------------------------------- MODULE Alerts -------------------------------
(***************************************************************************)
(* IdleDetectionProcessor and OvertimeCheckerProcessor                     *)
(* (jobs/processors/): two jobs that read the sessions and the log and     *)
(* insert into the table alerts, while the handlers of Activity run.       *)
(*                                                                         *)
(* Both walk through a list of sessions they have read once.  at[c] is the *)
(* query a consumer c awaits:                                              *)
(*   list    the find of the sessions                                      *)
(*   check   the findOne of an alert of the next session's user            *)
(*   recent  (idle) the find of the session's recent activities            *)
(*   save    the INSERT of the alert                                       *)
(*   end     nothing: the return of process() is on its way to Redis       *)
(* Nothing in the program puts a job into the overtime queue; the model    *)
(* lets somebody do it, as README.md says it happens.                      *)
(***************************************************************************)
EXTENDS Activity, Jobs

CONSTANTS
    IdleThreshold,      \* app.idleThresholdSeconds
    InactiveThreshold,  \* app.inactiveThresholdSeconds
    OvertimeThreshold,  \* app.overtimeThresholdHours, in units of the clock
    DayLength,          \* units of the clock from midnight to midnight
    MaxFaults           \* bound: queries that fail, processes that stop, locks that run out

ASSUME AlertsAssumption ==
    /\ Queues \subseteq {"idle", "overtime"}
    /\ IdleThreshold \in Nat
    /\ InactiveThreshold \in Nat
    /\ OvertimeThreshold \in Nat
    /\ DayLength \in Nat \ {0}
    /\ MaxFaults \in Nat

VARIABLES
    alerts,   \* the table alerts, in the order of its rows
    at,       \* where the consumer's process() is
    local,    \* its local variables
    faults,   \* counts what went wrong, for the bound
    changed,  \* history: the sessions changed since the consumer took its job
    known     \* history: the rows in the log when it took its job

alvars == <<avars, jobs, run, alerts, at, local, faults, changed, known>>

\* by: the process that inserted the row.  resolved_at is left out: no code
\* sets it.
Alert == [type : Queues, user : Users, created : 0..MaxTime, by : Processes]

\* What the loop needs of a session it has read.
Snapshot == [sid : SessionIds, user : Users, last : Int \cup {None}]

\* started: (idle) the new Date() of process();  today: (overtime) the last
\* midnight, as a day;  list: the sessions still to do;  cur: the one the loop is
\* at.
Local == [started : 0..MaxTime, today : Nat, list : SUBSET Snapshot,
          cur : Snapshot \cup {None}]

NoLocal == [started |-> 0, today |-> 0, list |-> {}, cur |-> None]

JobQueries == {"list", "check", "recent", "save", "end"}

\* The table, the queue, the local variables and the history have their types.
AlertsTypeOK ==
    /\ jobs \in [JobIds -> Job({Nil})]
    /\ run \in [Consumers -> JobIds \cup {Nil}]
    /\ alerts \in Seq(Alert)
    /\ at \in [Consumers -> {"free"} \cup JobQueries]
    /\ local \in [Consumers -> Local]
    /\ faults \in 0..MaxFaults
    /\ changed \in [Consumers -> SUBSET SessionIds]
    /\ known \in [Consumers -> SUBSET ActivityIds]

AlertsInit ==
    /\ ActivityInit
    /\ JobsInit
    /\ alerts = << >>
    /\ at = [c \in Consumers |-> "free"]
    /\ local = [c \in Consumers |-> NoLocal]
    /\ faults = 0
    /\ changed = [c \in Consumers |-> {}]
    /\ known = [c \in Consumers |-> {}]

-----------------------------------------------------------------------------
Day(t) == t \div DayLength

\* The process() of consumer c goes on to await query p with local variables f.
Go(c, p, f) ==
    /\ at' = [at EXCEPT ![c] = p]
    /\ local' = [local EXCEPT ![c] = f]

\* What a step adds to the history.
JobHistory ==
    /\ changed' = [c \in Consumers |->
           IF at[c] = "free" \/ at'[c] = "free" THEN {}
           ELSE changed[c] \cup {s \in SessionIds : sessions'[s] # sessions[s]}]
    /\ known' = [c \in Consumers |->
           CASE at'[c] = "free" -> {}
             [] at[c] = "free" /\ at'[c] # "free" -> logs
             [] OTHER -> known[c]]

\* The head of the loop, with the sessions of rest still to do.
Loop(c, rest) ==
    Go(c, IF rest = {} THEN "end" ELSE "check",
          [local[c] EXCEPT !.today = IF c[2] = "idle" \/ rest = {} THEN 0 ELSE Day(now),
                           !.list = rest, !.cur = None])

\* The consumer c is free again.
Leave(c) == Go(c, "free", NoLocal)

\* The rows of activity_logs of session s.
LogsOf(s) == {a \in logs : frame[a[1]].sid = s}

Running(s) == sessions[s] # None /\ sessions[s].status = "active"

Worked(s) == Total(sessions[s].active) + Total(sessions[s].idle)

\* The rows the first query finds: the active sessions, or those with overtime.
Listed(c) == {s \in SessionIds : /\ Running(s)
                                 /\ c[2] = "overtime" => Worked(s) > OvertimeThreshold}

SnapshotOf(c, s) == [sid |-> s, user |-> sessions[s].user,
                     last |-> IF c[2] = "idle" THEN sessions[s].last ELSE None]

\* The alerts that keep consumer c from alerting user u: for idle any alert
\* (TypeORM drops resolved_at: null from the WHERE clause, and no alert is ever
\* resolved), for overtime one that was created today.
Existing(c, u) ==
    {i \in DOMAIN alerts : /\ alerts[i].type = c[2]
                           /\ alerts[i].user = u
                           /\ c[2] = "overtime" => Day(alerts[i].created) >= local[c].today}

\* The logs of session s newer than the idle threshold.
Recent(s, started) == {a \in LogsOf(s) : ItemOf(a).ts > started - IdleThreshold}

\* Mutant: the type of the activities is not looked at.
AnyTime(e, started) ==
    LET R == Recent(e.sid, started)
    IN  \/ R = {} /\ e.last # None /\ e.last < started - InactiveThreshold
        \/ R # {} /\ Amount(R) >= IdleThreshold

\* Should the session e be alerted?  No log and no write for a while, or logs of
\* idle time only, and enough of it.
ShouldAlert(e, started) ==
    LET R == Recent(e.sid, started)
    IN  \/ R = {} /\ e.last # None /\ e.last < started - InactiveThreshold
        \/ /\ R # {}
           /\ \A a \in R : ItemOf(a).type = "idle"
           /\ Amount(R) >= IdleThreshold

-----------------------------------------------------------------------------
\* triggerIdleDetection; for the overtime queue, somebody outside of the program.
Trigger(j, q) ==
    /\ Add(j, q, Nil)
    /\ UNCHANGED <<avars, alerts, at, local, faults>>
    /\ JobHistory

\* process() is called.
Begin(c, j) ==
    /\ Take(c, j)
    /\ Go(c, "list", [NoLocal EXCEPT !.started = IF c[2] = "idle" THEN now ELSE 0])
    /\ UNCHANGED <<avars, alerts, faults>>
    /\ JobHistory

\* The sessions to look at, as they were read.
ListSessions(c) ==
    /\ at[c] = "list"
    /\ Loop(c, {SnapshotOf(c, s) : s \in Listed(c)})
    /\ UNCHANGED <<avars, jobs, run, alerts, faults>>
    /\ JobHistory

\* Mutant: the search for an existing alert is missing.
UncheckedCheckAlert(c) ==
    /\ at[c] = "check"
    /\ \E e \in local[c].list :
          Go(c, IF c[2] = "idle" THEN "recent" ELSE "save",
                [local[c] EXCEPT !.list = @ \ {e}, !.cur = e])
    /\ UNCHANGED <<avars, jobs, run, alerts, faults>>
    /\ JobHistory

\* Mutant: "return" instead of "continue".
ReturningCheckAlert(c) ==
    /\ at[c] = "check"
    /\ \E e \in local[c].list :
          \/ /\ Existing(c, e.user) # {}
             /\ Loop(c, {})
          \/ /\ Existing(c, e.user) = {}
             /\ Go(c, IF c[2] = "idle" THEN "recent" ELSE "save",
                      [local[c] EXCEPT !.list = @ \ {e}, !.cur = e])
    /\ UNCHANGED <<avars, jobs, run, alerts, faults>>
    /\ JobHistory

\* The next session, and whether its user has an alert already.
CheckAlert(c) ==
    /\ at[c] = "check"
    /\ \E e \in local[c].list :
          \/ /\ Existing(c, e.user) # {}
             /\ Loop(c, local[c].list \ {e})
          \/ /\ Existing(c, e.user) = {}
             /\ Go(c, IF c[2] = "idle" THEN "recent" ELSE "save",
                      [local[c] EXCEPT !.list = @ \ {e}, !.cur = e])
    /\ UNCHANGED <<avars, jobs, run, alerts, faults>>
    /\ JobHistory

\* The recent activities of the session, and the decision.
ReadRecent(c) ==
    /\ at[c] = "recent"
    /\ \/ /\ ShouldAlert(local[c].cur, local[c].started)
          /\ Go(c, "save", local[c])
       \/ /\ ~ShouldAlert(local[c].cur, local[c].started)
          /\ Loop(c, local[c].list)
    /\ UNCHANGED <<avars, jobs, run, alerts, faults>>
    /\ JobHistory

\* Mutant: the session's id in the place of the user's.
MisaddressedSaveAlert(c) ==
    /\ at[c] = "save"
    /\ alerts' = Append(alerts, [type |-> c[2], user |-> local[c].cur.sid,
                                 created |-> now, by |-> c[1]])
    /\ Loop(c, local[c].list)
    /\ UNCHANGED <<avars, jobs, run, faults>>
    /\ JobHistory

\* alertRepository.save; the event that is emitted then reaches only sockets of
\* this process.
SaveAlert(c) ==
    /\ at[c] = "save"
    /\ alerts' = Append(alerts, [type |-> c[2], user |-> local[c].cur.user,
                                 created |-> now, by |-> c[1]])
    /\ Loop(c, local[c].list)
    /\ UNCHANGED <<avars, jobs, run, faults>>
    /\ JobHistory

\* process() returns.
Return(c) ==
    /\ at[c] = "end"
    /\ Complete(c)
    /\ Leave(c)
    /\ UNCHANGED <<avars, alerts, faults>>
    /\ JobHistory

Fault == faults < MaxFaults /\ faults' = faults + 1

\* The query the job awaits fails; nothing is caught.
JobFails(c) ==
    /\ Fault
    /\ at[c] \in JobQueries \ {"end"}
    /\ Throw(c)
    /\ Leave(c)
    /\ UNCHANGED <<avars, alerts>>
    /\ JobHistory

Restart(p) ==
    /\ Fault
    /\ \E c \in Consumers : c[1] = p /\ ~Free(c)
    /\ StopProcess(p)
    /\ at' = [c \in Consumers |-> IF c[1] = p THEN "free" ELSE at[c]]
    /\ local' = [c \in Consumers |-> IF c[1] = p THEN NoLocal ELSE local[c]]
    /\ UNCHANGED <<avars, alerts>>
    /\ JobHistory

\* The lock of a job whose process has stopped runs out.
Recover(j) ==
    /\ Abandoned(j)
    /\ Stall(j)
    /\ UNCHANGED <<avars, alerts, at, local, faults>>
    /\ JobHistory

\* The process of a job is too slow to renew its lock, and goes on.
LockExpires(j) ==
    /\ Fault
    /\ ~Abandoned(j)
    /\ Stall(j)
    /\ UNCHANGED <<avars, alerts, at, local>>
    /\ JobHistory

Retry(j) ==
    /\ Promote(j)
    /\ UNCHANGED <<avars, alerts, at, local, faults>>
    /\ JobHistory

Process(c) ==
    \/ ListSessions(c)
    \/ CheckAlert(c)
    \/ ReadRecent(c)
    \/ SaveAlert(c)
    \/ Return(c)

\* All jobs have ended: the model ends, the program waits.
JobsEnded ==
    /\ \A j \in JobIds : Ended(j)
    /\ UNCHANGED alvars

\* The handlers, and the clock, go on beside the jobs.
UserStep ==
    /\ RequestsNext
    /\ UNCHANGED <<jobs, run, alerts, at, local, faults>>
    /\ JobHistory

AlertsNext ==
    \/ \E c \in Consumers : Process(c) \/ JobFails(c) \/ \E j \in JobIds : Begin(c, j)
    \/ \E j \in JobIds :
          \/ \E q \in Queues : Trigger(j, q)
          \/ Retry(j)
          \/ Recover(j)
          \/ LockExpires(j)
    \/ \E p \in Processes : Restart(p)
    \/ UserStep
    \/ JobsEnded

AlertsSpec == AlertsInit /\ [][AlertsNext]_alvars

-----------------------------------------------------------------------------
\* Two alerts that should be one: of one type and user, and for overtime of one
\* day.
Repeats(a, b) ==
    /\ a.type = b.type
    /\ a.user = b.user
    /\ a.type = "overtime" => Day(a.created) = Day(b.created)

(***************************************************************************)
(* A process never repeats an alert, however its jobs fail, are attempted  *)
(* again or stopped: a job that is done again finds what it has inserted.  *)
(***************************************************************************)
NoRepeatByProcess ==
    \A i, k \in DOMAIN alerts :
        Repeats(alerts[i], alerts[k]) /\ alerts[i].by = alerts[k].by => i = k

(***************************************************************************)
(* No alert is ever repeated (README.md: "Idempotent: Checks for existing  *)
(* unresolved alerts").                                                    *)
(***************************************************************************)
NoRepeat ==
    \A i, k \in DOMAIN alerts : Repeats(alerts[i], alerts[k]) => i = k

\* For the idle job of c: session s is active, its row has not changed since the
\* job began and was old enough then, and its log has nothing newer than the idle
\* threshold.
Quiet(s, c) ==
    /\ Running(s)
    /\ s \notin changed[c]
    /\ sessions[s].last # None
    /\ sessions[s].last < local[c].started - InactiveThreshold
    /\ Recent(s, local[c].started) = {}

(***************************************************************************)
(* An idle job that comes to its end has overlooked nobody: every user     *)
(* with a session that was quiet when the job began, and still is, has an  *)
(* alert (README.md: "Finds sessions with last_activity_at > 5 minutes     *)
(* ago").                                                                  *)
(***************************************************************************)
QuietIsAlerted ==
    \A c \in Consumers : c[2] = "idle" /\ at[c] = "end" =>
        \A s \in SessionIds : Quiet(s, c) =>
            \E i \in DOMAIN alerts : /\ alerts[i].type = "idle"
                                    /\ alerts[i].user = sessions[s].user

(***************************************************************************)
(* As QuietIsAlerted, for each session: an alert of an earlier session of  *)
(* the user does not count ("Check if alert already exists for this        *)
(* session", idle-detection.processor.ts).                                 *)
(***************************************************************************)
QuietSessionIsAlerted ==
    \A c \in Consumers : c[2] = "idle" /\ at[c] = "end" =>
        \A s \in SessionIds : Quiet(s, c) =>
            \E i \in DOMAIN alerts : /\ alerts[i].type = "idle"
                                    /\ alerts[i].user = sessions[s].user
                                    /\ alerts[i].created >= sessions[s].start

(***************************************************************************)
(* Nobody is called idle who has worked: when the job inserts an alert, no *)
(* active time within the idle threshold was in the log before it began.   *)
(***************************************************************************)
NoFalseAlarm ==
    \A c \in Consumers : c[2] = "idle" /\ at[c] = "save" =>
        \A a \in known[c] \cap Recent(local[c].cur.sid, local[c].started) :
            ItemOf(a).type # "active"
=============================================================================
