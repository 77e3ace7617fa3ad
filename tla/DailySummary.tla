---------------------------- MODULE DailySummary ----------------------------
(***************************************************************************)
(* DailySummaryProcessor (jobs/processors/daily-summary.processor.ts): the *)
(* job that sums up the sessions a day began with, user by user, and       *)
(* upserts the table daily_summaries, while the handlers of Activity run.  *)
(*                                                                         *)
(* at[c] is the query a consumer c awaits:                                 *)
(*   sessions  the find of the sessions of the day                         *)
(*   usage     the find of the activity logs of the next user's sessions   *)
(*   upsert    the upsert of the user's summary                            *)
(*   end       nothing: the return of process() is on its way to Redis     *)
(* A sum of seconds is the set of the activities it is made of: none is    *)
(* counted twice in a session (CountedOnce).                               *)
(***************************************************************************)
EXTENDS Activity, Jobs

CONSTANTS
    Dates,      \* the days jobs are triggered for
    DayLength,  \* units of the clock from midnight to midnight
    WithApp,    \* the activities that name an application (url)
    JobFaults   \* may a query of a job fail, its process stop, its lock run out?

ASSUME SummaryAssumption ==
    /\ Queues = {"daily"}
    /\ Dates \subseteq Int
    /\ DayLength \in Nat \ {0}
    /\ WithApp \subseteq ActivityIds
    /\ JobFaults \in BOOLEAN

VARIABLES
    summaries,  \* the table daily_summaries, by its unique index
    at,         \* where the consumer's process() is
    local,      \* its local variables
    changed     \* history: the sessions whose totals changed since no job ran

svars == <<avars, jobs, run, summaries, at, local, changed>>

\* counted: active_seconds and idle_seconds, from the sessions;  usage:
\* app_usage, from the logs.
Summary == [counted : SUBSET ActivityIds, usage : SUBSET ActivityIds]

\* NULL is not a row.
ASSUME SummaryRowAssumption == None \notin Summary

\* An entry of userSessionsMap: the rows as they were read.
Group == [user : Users, sids : SUBSET SessionIds, counted : SUBSET ActivityIds]

\* list: the users still to do;  cur: the one the loop is at;  usage: his logs.
Local == [list : SUBSET Group, cur : Group \cup {None}, usage : SUBSET ActivityIds]

NoLocal == [list |-> {}, cur |-> None, usage |-> {}]

JobQueries == {"sessions", "usage", "upsert", "end"}

\* The table, the queue, the local variables and the history have their types.
SummaryTypeOK ==
    /\ jobs \in [JobIds -> Job(Dates \cup {Nil})]
    /\ run \in [Consumers -> JobIds \cup {Nil}]
    /\ summaries \in [Users \X Dates -> Summary \cup {None}]
    /\ at \in [Consumers -> {"free"} \cup JobQueries]
    /\ local \in [Consumers -> Local]
    /\ changed \subseteq SessionIds

SummaryInit ==
    /\ ActivityInit
    /\ JobsInit
    /\ summaries = [k \in Users \X Dates |-> None]
    /\ at = [c \in Consumers |-> "free"]
    /\ local = [c \in Consumers |-> NoLocal]
    /\ changed = {}

-----------------------------------------------------------------------------
Day(t) == t \div DayLength

\* The activities in total_active_seconds and total_idle_seconds of a row.
CountedIn(row) == IF row = None THEN {} ELSE {a \in ActivityIds : Counted(row, a) > 0}

\* The rows of activity_logs of session s.
LogsOf(s) == {a \in logs : frame[a[1]].sid = s}

SessionsOn(d) == {s \in SessionIds : sessions[s] # None /\ Day(sessions[s].start) = d}

SessionsOf(u, d) == {s \in SessionsOn(d) : sessions[s].user = u}

TotalOf(S) == UNION {CountedIn(sessions[s]) : s \in S}

\* userSessionsMap: the sessions of a day by user.
Groups(d) ==
    {[user |-> u, sids |-> SessionsOf(u, d), counted |-> TotalOf(SessionsOf(u, d))] :
        u \in {sessions[s].user : s \in SessionsOn(d)}}

DateOf(c) == jobs[run[c]].data

\* The process() of consumer c goes on to await query p with local variables f.
Go(c, p, f) ==
    /\ at' = [at EXCEPT ![c] = p]
    /\ local' = [local EXCEPT ![c] = f]

\* What a step adds to the history, which is forgotten when no job runs.
JobHistory ==
    changed' = IF \A c \in Consumers : at'[c] = "free" THEN {}
               ELSE changed \cup {s \in SessionIds :
                                     CountedIn(sessions'[s]) # CountedIn(sessions[s])}

\* The head of the loop, with the users of rest still to do.
Loop(c, rest) ==
    Go(c, IF rest = {} THEN "end" ELSE "usage",
          [local[c] EXCEPT !.list = rest, !.cur = None, !.usage = {}])

\* The consumer c is free again.
Leave(c) == Go(c, "free", NoLocal)

-----------------------------------------------------------------------------
\* triggerDailySummary
Trigger(j, d) ==
    /\ Add(j, "daily", d)
    /\ UNCHANGED <<avars, summaries, at, local>>
    /\ JobHistory

\* process() is called.
Begin(c, j) ==
    /\ Take(c, j)
    /\ Go(c, "sessions", NoLocal)
    /\ UNCHANGED <<avars, summaries>>
    /\ JobHistory

\* The sessions of the day, grouped by user.
ReadSessions(c) ==
    /\ at[c] = "sessions"
    /\ Loop(c, Groups(DateOf(c)))
    /\ UNCHANGED <<avars, jobs, run, summaries>>
    /\ JobHistory

\* The activity logs of the next user's sessions; those without an application
\* are skipped.
ReadUsage(c) ==
    /\ at[c] = "usage"
    /\ \E g \in local[c].list :
          Go(c, "upsert", [local[c] EXCEPT
              !.list = @ \ {g}, !.cur = g,
              !.usage = WithApp \cap UNION {LogsOf(s) : s \in g.sids}])
    /\ UNCHANGED <<avars, jobs, run, summaries>>
    /\ JobHistory

\* Mutant: the sums are taken from the sessions as they are after the logs.
LateUpsert(c) ==
    /\ at[c] = "upsert"
    /\ summaries' = [summaries EXCEPT ![<<local[c].cur.user, DateOf(c)>>] =
           [counted |-> TotalOf(local[c].cur.sids), usage |-> local[c].usage]]
    /\ Loop(c, local[c].list)
    /\ UNCHANGED <<avars, jobs, run>>
    /\ JobHistory

\* Mutant: the user stays in the list.
EndlessUpsert(c) ==
    /\ at[c] = "upsert"
    /\ summaries' = [summaries EXCEPT ![<<local[c].cur.user, DateOf(c)>>] =
           [counted |-> local[c].cur.counted, usage |-> local[c].usage]]
    /\ Loop(c, local[c].list \cup {local[c].cur})
    /\ UNCHANGED <<avars, jobs, run>>
    /\ JobHistory

\* Mutant: a summary that exists is left as it is.
IgnoringUpsert(c) ==
    LET k == <<local[c].cur.user, DateOf(c)>>
    IN  /\ at[c] = "upsert"
        /\ summaries' = IF summaries[k] # None THEN summaries ELSE
               [summaries EXCEPT ![k] =
                   [counted |-> local[c].cur.counted, usage |-> local[c].usage]]
        /\ Loop(c, local[c].list)
        /\ UNCHANGED <<avars, jobs, run>>
        /\ JobHistory

\* dailySummaryRepository.upsert
Upsert(c) ==
    /\ at[c] = "upsert"
    /\ summaries' = [summaries EXCEPT ![<<local[c].cur.user, DateOf(c)>>] =
           [counted |-> local[c].cur.counted, usage |-> local[c].usage]]
    /\ Loop(c, local[c].list)
    /\ UNCHANGED <<avars, jobs, run>>
    /\ JobHistory

\* process() returns.
Return(c) ==
    /\ at[c] = "end"
    /\ Complete(c)
    /\ Leave(c)
    /\ UNCHANGED <<avars, summaries>>
    /\ JobHistory

\* The query the job awaits fails; nothing is caught.
JobFails(c) ==
    /\ JobFaults
    /\ at[c] \in JobQueries \ {"end"}
    /\ Throw(c)
    /\ Leave(c)
    /\ UNCHANGED <<avars, summaries>>
    /\ JobHistory

Restart(p) ==
    /\ JobFaults
    /\ \E c \in Consumers : c[1] = p /\ ~Free(c)
    /\ StopProcess(p)
    /\ at' = [c \in Consumers |-> IF c[1] = p THEN "free" ELSE at[c]]
    /\ local' = [c \in Consumers |-> IF c[1] = p THEN NoLocal ELSE local[c]]
    /\ UNCHANGED <<avars, summaries>>
    /\ JobHistory

\* The lock of a job whose process has stopped runs out.
Recover(j) ==
    /\ Abandoned(j)
    /\ Stall(j)
    /\ UNCHANGED <<avars, summaries, at, local>>
    /\ JobHistory

\* The process of a job is too slow to renew its lock, and goes on.
LockExpires(j) ==
    /\ JobFaults
    /\ ~Abandoned(j)
    /\ Stall(j)
    /\ UNCHANGED <<avars, summaries, at, local>>
    /\ JobHistory

Retry(j) ==
    /\ Promote(j)
    /\ UNCHANGED <<avars, summaries, at, local>>
    /\ JobHistory

Process(c) ==
    \/ ReadSessions(c)
    \/ ReadUsage(c)
    \/ Upsert(c)
    \/ Return(c)

\* All jobs have ended: the model ends, the program waits.
JobsEnded ==
    /\ \A j \in JobIds : Ended(j)
    /\ UNCHANGED svars

\* The handlers, and the clock, go on beside the jobs.
UserStep ==
    /\ RequestsNext
    /\ UNCHANGED <<jobs, run, summaries, at, local>>
    /\ JobHistory

SummaryNext ==
    \/ \E c \in Consumers : Process(c) \/ JobFails(c) \/ \E j \in JobIds : Begin(c, j)
    \/ \E j \in JobIds :
          \/ \E d \in Dates : Trigger(j, d)
          \/ Retry(j)
          \/ Recover(j)
          \/ LockExpires(j)
    \/ \E p \in Processes : Restart(p)
    \/ UserStep
    \/ JobsEnded

SummarySpec == SummaryInit /\ [][SummaryNext]_svars

\* The event loop resumes a job whose query is answered; a free consumer takes a
\* waiting job; delays and the locks of stopped processes run out.
SummaryFairSpec ==
    /\ SummarySpec
    /\ \A c \in Consumers : WF_svars(Process(c))
    /\ \A j \in JobIds :
          /\ WF_svars(\E c \in Consumers : Begin(c, j))
          /\ WF_svars(Retry(j))
          /\ WF_svars(Recover(j))

-----------------------------------------------------------------------------
(***************************************************************************)
(* The two halves of a summary fit: every second of its totals that has an *)
(* application is in its application usage, although sessions and logs are *)
(* read by two queries while activities arrive.                            *)
(***************************************************************************)
UsageCoversTotals ==
    \A k \in Users \X Dates : summaries[k] # None =>
        summaries[k].counted \cap WithApp \subseteq summaries[k].usage

(***************************************************************************)
(* A job leaves the exact totals of a user's day, if no handler has        *)
(* changed a total of the sessions of that day, adding to it or writing an *)
(* old one back, since it and every job that overlapped it began: failed,  *)
(* repeated and overlapping jobs do no harm then (README.md: "Idempotent:  *)
(* Uses upsert to prevent duplicate summaries").                           *)
(***************************************************************************)
QuietDayIsExact ==
    \A c \in Consumers : at[c] = "end" =>
        \A u \in Users : SessionsOf(u, DateOf(c)) \cap changed = {} =>
            LET k == <<u, DateOf(c)>>
                total == TotalOf(SessionsOf(u, DateOf(c)))
            IN  IF summaries[k] = None THEN total = {}
                                       ELSE summaries[k].counted = total
=============================================================================
