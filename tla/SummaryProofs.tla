---------------------------- MODULE SummaryProofs ----------------------------
(***************************************************************************)
(* Theorems about DailySummary, for every number of processes, jobs,       *)
(* users, sessions and activities, whatever fails.                         *)
(***************************************************************************)
EXTENDS DailySummary, BackgroundProofs

-----------------------------------------------------------------------------
(* Type correctness. *)

\* A consumer at work has a job, and one that is to upsert a user it has read.
\* Nothing is left to do for one that has read nothing, or comes to its end.
WorkOK ==
    \A c \in Consumers :
        /\ at[c] # "free" => run[c] \in JobIds
        /\ at[c] = "upsert" => local[c].cur \in Group
        /\ at[c] \in {"free", "sessions", "end"} => local[c].list = {}

SummaryInv ==
    /\ ActivityInv
    /\ QueueOK(Dates)
    /\ summaries \in [Users \X Dates -> Summary \cup {None}]
    /\ at \in [Consumers -> {"free"} \cup JobQueries]
    /\ local \in [Consumers -> Local]
    /\ changed \subseteq SessionIds
    /\ WorkOK

\* The local variables of a consumer that is free.
LEMMA NoLocalType == NoLocal \in Local /\ NoLocal.list = {}
BY DEF NoLocal, Local

\* Every step keeps the history.
LEMMA HistoryStep ==
    ASSUME [SummaryNext]_svars
    PROVE  JobHistory \/ UNCHANGED svars
BY DEF SummaryNext, Process, ReadSessions, ReadUsage, Upsert, Return, JobFails, Begin,
   Trigger, Retry, Recover, LockExpires, Restart, UserStep, JobsEnded

LEMMA HistoryStays ==
    ASSUME SummaryInv, JobHistory
    PROVE  changed' \subseteq SessionIds
BY DEF JobHistory, SummaryInv

\* The tables of the handlers change in steps of the handlers only.
LEMMA TablesStep ==
    ASSUME [SummaryNext]_svars
    PROVE  [RequestsNext]_avars
BY DEF SummaryNext, svars, Process, ReadSessions, ReadUsage, Upsert, Return, JobFails,
   Begin, Trigger, Retry, Recover, LockExpires, Restart, UserStep, JobsEnded

LEMMA SummaryInvInit ==
    ASSUME SummaryInit
    PROVE  SummaryInv
<1> USE DEF SummaryInit
<1>1. ActivityInv /\ QueueOK(Dates)
  BY ActivityInvInit, InitQueueOK
<1>3. local \in [Consumers -> Local] /\ WorkOK
  BY NoLocalType DEF WorkOK
<1> QED
  BY <1>1, <1>3 DEF SummaryInv

\* What a step of consumer c alone leaves of the invariant: it goes on at query
\* p with local variables f.
LEMMA GoInv ==
    ASSUME SummaryInv, NEW c \in Consumers, NEW p \in {"free"} \cup JobQueries,
           NEW f \in Local, Go(c, p, f),
           p = "upsert" => f.cur \in Group,
           p \in {"free", "sessions", "end"} => f.list = {},
           QueueOK(Dates)', p # "free" => run'[c] \in JobIds,
           \A d \in Consumers \ {c} : run'[d] = run[d],
           UNCHANGED avars, JobHistory,
           summaries' \in [Users \X Dates -> Summary \cup {None}]
    PROVE  SummaryInv'
<1>1. /\ at' = [at EXCEPT ![c] = p]
      /\ local' = [local EXCEPT ![c] = f]
  BY DEF Go
<1>2. /\ at' \in [Consumers -> {"free"} \cup JobQueries]
      /\ local' \in [Consumers -> Local]
  BY <1>1 DEF SummaryInv
<1>3. ActivityInv' /\ changed' \subseteq SessionIds
  BY HandlersNext, HistoryStays DEF SummaryInv
<1>4. ASSUME NEW d \in Consumers
      PROVE  /\ at'[d] # "free" => run'[d] \in JobIds
             /\ at'[d] = "upsert" => local'[d].cur \in Group
             /\ at'[d] \in {"free", "sessions", "end"} => local'[d].list = {}
  <2>1. CASE d = c
    BY <1>1, <2>1 DEF SummaryInv
  <2>2. CASE d # c
    <3>1. at'[d] = at[d] /\ local'[d] = local[d] /\ run'[d] = run[d]
      BY <1>1, <2>2 DEF SummaryInv
    <3> QED
      BY <3>1 DEF SummaryInv, WorkOK
  <2> QED
    BY <2>1, <2>2
<1> QED
  BY <1>2, <1>3, <1>4 DEF SummaryInv, WorkOK

\* The head of the loop.
LEMMA LoopInv ==
    ASSUME SummaryInv, NEW c \in Consumers, at[c] # "free", NEW rest \in SUBSET Group,
           Loop(c, rest), UNCHANGED <<avars, jobs, run>>, JobHistory,
           summaries' \in [Users \X Dates -> Summary \cup {None}]
    PROVE  SummaryInv'
<1> DEFINE p == IF rest = {} THEN "end" ELSE "usage"
           f == [local[c] EXCEPT !.list = rest, !.cur = None, !.usage = {}]
<1>1. local[c] \in Local /\ run[c] \in JobIds
  BY DEF SummaryInv, WorkOK
<1>2. f \in Local /\ f.list = rest
  BY <1>1 DEF Local
<1>3. Go(c, p, f)
  BY DEF Loop
<1>4. p \in {"free"} \cup JobQueries /\ p \notin {"upsert", "free", "sessions"}
      /\ (p = "end" => rest = {})
  BY DEF JobQueries
<1>5. QueueOK(Dates)'
  BY DEF SummaryInv, QueueOK
<1> HIDE DEF p, f
<1> QED
  BY <1>1, <1>2, <1>3, <1>4, <1>5, GoInv

\* A step of the queue alone, or of the handlers alone.
LEMMA OutsideInv ==
    ASSUME SummaryInv, QueueOK(Dates)', [RequestsNext]_avars,
           UNCHANGED <<run, summaries, at, local>>, changed' \subseteq SessionIds
    PROVE  SummaryInv'
<1>1. ActivityInv'
  BY HandlersNext DEF SummaryInv
<1> QED
  BY <1>1 DEF SummaryInv, WorkOK

LEMMA BeginInv ==
    ASSUME SummaryInv, NEW c \in Consumers, NEW j \in JobIds, Begin(c, j)
    PROVE  SummaryInv'
<1>1. Go(c, "sessions", NoLocal)
  BY DEF Begin
<1>2. QueueOK(Dates)'
  BY TakeQueueOK DEF SummaryInv, Begin
<1>3. run'[c] = j /\ \A d \in Consumers \ {c} : run'[d] = run[d]
  BY DEF Begin, Take, SummaryInv, QueueOK
<1>4. UNCHANGED <<avars, summaries>> /\ JobHistory
      /\ summaries \in [Users \X Dates -> Summary \cup {None}]
  BY DEF Begin, SummaryInv
<1> QED
  BY <1>1, <1>2, <1>3, <1>4, NoLocalType, GoInv DEF JobQueries

LEMMA GroupsType ==
    ASSUME SummaryInv, NEW d
    PROVE  Groups(d) \in SUBSET Group
<1> SUFFICES ASSUME NEW s \in SessionsOn(d)
             PROVE  [user |-> sessions[s].user, sids |-> SessionsOf(sessions[s].user, d),
                     counted |-> TotalOf(SessionsOf(sessions[s].user, d))] \in Group
  BY DEF Groups
<1>1. sessions[s].user \in Users
  BY SessionType DEF SessionsOn, SummaryInv, Row
<1>2. \A S : TotalOf(S) \subseteq ActivityIds
  BY DEF TotalOf, CountedIn
<1>3. SessionsOf(sessions[s].user, d) \subseteq SessionIds
  BY DEF SessionsOf, SessionsOn
<1> QED
  BY <1>1, <1>2, <1>3 DEF Group

LEMMA ReadSessionsInv ==
    ASSUME SummaryInv, NEW c \in Consumers, ReadSessions(c)
    PROVE  SummaryInv'
<1>1. PICK rest \in SUBSET Group : Loop(c, rest)
  BY GroupsType DEF ReadSessions
<1>2. summaries' \in [Users \X Dates -> Summary \cup {None}]
  BY DEF ReadSessions, SummaryInv
<1> QED
  BY <1>1, <1>2, LoopInv DEF ReadSessions

\* The user whose logs are read.
LEMMA ReadUsageGoes ==
    ASSUME SummaryInv, NEW c \in Consumers, ReadUsage(c)
    PROVE  \E g \in local[c].list, f \in Local :
              /\ Go(c, "upsert", f)
              /\ f.list = local[c].list \ {g}
              /\ f.cur = g
              /\ f.usage = WithApp \cap UNION {LogsOf(s) : s \in g.sids}
<1>1. PICK g \in local[c].list :
          Go(c, "upsert", [local[c] EXCEPT
              !.list = @ \ {g}, !.cur = g,
              !.usage = WithApp \cap UNION {LogsOf(s) : s \in g.sids}])
  BY DEF ReadUsage
<1>2. PICK usage : usage = WithApp \cap UNION {LogsOf(s) : s \in g.sids}
  OBVIOUS
<1> DEFINE f == [local[c] EXCEPT !.list = @ \ {g}, !.cur = g, !.usage = usage]
<1>3. local[c] \in Local /\ usage \in SUBSET ActivityIds
  BY <1>2, SummaryAssumption DEF SummaryInv
<1>4. /\ f \in Local
      /\ f.list = local[c].list \ {g}
      /\ f.cur = g
      /\ f.usage = usage
  BY <1>3 DEF Local
<1>5. Go(c, "upsert", f)
  BY <1>1, <1>2
<1> HIDE DEF f
<1> QED
  BY <1>2, <1>4, <1>5

LEMMA ReadUsageInv ==
    ASSUME SummaryInv, NEW c \in Consumers, ReadUsage(c)
    PROVE  SummaryInv'
<1>1. PICK g \in local[c].list, f \in Local :
          Go(c, "upsert", f) /\ f.cur = g
  BY ReadUsageGoes
<1>2. g \in Group /\ run[c] \in JobIds
  BY DEF ReadUsage, SummaryInv, WorkOK, Local
<1>3. UNCHANGED <<avars, jobs, run, summaries>> /\ JobHistory
  BY DEF ReadUsage
<1>4. QueueOK(Dates)' /\ summaries \in [Users \X Dates -> Summary \cup {None}]
  BY <1>3 DEF SummaryInv, QueueOK
<1> QED
  BY <1>1, <1>2, <1>3, <1>4, GoInv DEF JobQueries

LEMMA UpsertInv ==
    ASSUME SummaryInv, NEW c \in Consumers, Upsert(c)
    PROVE  SummaryInv'
<1>1. local[c] \in Local /\ local[c].cur \in Group
  BY DEF Upsert, SummaryInv, WorkOK
<1>2. [counted |-> local[c].cur.counted, usage |-> local[c].usage] \in Summary
  BY <1>1 DEF Local, Group, Summary
<1>3. summaries' \in [Users \X Dates -> Summary \cup {None}]
  BY <1>2 DEF Upsert, SummaryInv
<1>4. local[c].list \in SUBSET Group
  BY <1>1 DEF Local
<1> QED
  BY <1>3, <1>4, LoopInv DEF Upsert

\* A consumer that ends its job, in whatever way.
LEMMA LeaveInv ==
    ASSUME SummaryInv, NEW c \in Consumers, Leave(c), QueueOK(Dates)',
           run' = [run EXCEPT ![c] = Nil],
           UNCHANGED <<avars, summaries>>, JobHistory
    PROVE  SummaryInv'
<1>1. \A d \in Consumers \ {c} : run'[d] = run[d]
  BY DEF SummaryInv, QueueOK
<1>2. summaries' \in [Users \X Dates -> Summary \cup {None}]
  BY DEF SummaryInv
<1> QED
  BY <1>1, <1>2, NoLocalType, GoInv DEF Leave

LEMMA RestartInv ==
    ASSUME SummaryInv, NEW p \in Processes, Restart(p)
    PROVE  SummaryInv'
<1>1. QueueOK(Dates)'
  BY StopQueueOK DEF SummaryInv, Restart
<1>2. ActivityInv' /\ changed' \subseteq SessionIds
  BY HandlersNext, HistoryStays DEF Restart, SummaryInv
<1>3. /\ at' \in [Consumers -> {"free"} \cup JobQueries]
      /\ local' \in [Consumers -> Local]
  BY NoLocalType DEF SummaryInv, Restart
<1>4. ASSUME NEW d \in Consumers
      PROVE  /\ at'[d] # "free" => run'[d] \in JobIds
             /\ at'[d] = "upsert" => local'[d].cur \in Group
             /\ at'[d] \in {"free", "sessions", "end"} => local'[d].list = {}
  <2>1. CASE d[1] = p
    BY <2>1, NoLocalType DEF Restart
  <2>2. CASE d[1] # p
    BY <2>2 DEF Restart, StopProcess, SummaryInv, WorkOK
  <2> QED
    BY <2>1, <2>2
<1> QED
  BY <1>1, <1>2, <1>3, <1>4 DEF SummaryInv, WorkOK, Restart

\* Every step keeps the queue, and what the jobs at work are.
LEMMA NextQueue ==
    ASSUME SummaryInv, [SummaryNext]_svars
    PROVE  QueueOK(Dates)' /\ KeepsJobs
<1>0. QueueOK(Dates) /\ \A c \in Consumers : at[c] # "free" => run[c] \in JobIds
  BY DEF SummaryInv, WorkOK
<1>1. CASE \E c \in Consumers : Return(c)
  BY <1>0, <1>1, CompleteQueueOK DEF Return
<1>2. CASE \E c \in Consumers : JobFails(c)
  BY <1>0, <1>2, ThrowQueueOK DEF JobFails, JobQueries
<1>3. CASE \E c \in Consumers, j \in JobIds : Begin(c, j)
  BY <1>0, <1>3, TakeQueueOK DEF Begin
<1>4. CASE \E j \in JobIds, d \in Dates : Trigger(j, d)
  BY <1>0, <1>4, AddQueueOK, SummaryAssumption DEF Trigger
<1>5. CASE \E j \in JobIds : Retry(j)
  BY <1>0, <1>5, PromoteQueueOK DEF Retry
<1>6. CASE \E j \in JobIds : Recover(j) \/ LockExpires(j)
  BY <1>0, <1>6, StallQueueOK DEF Recover, LockExpires
<1>7. CASE \E p \in Processes : Restart(p)
  BY <1>0, <1>7, StopQueueOK DEF Restart
<1>8. CASE UNCHANGED <<jobs, run>>
  BY <1>0, <1>8, SameQueueOK
<1> QED
  BY <1>1, <1>2, <1>3, <1>4, <1>5, <1>6, <1>7, <1>8
  DEF SummaryNext, Process, svars, ReadSessions, ReadUsage, Upsert, UserStep, JobsEnded

LEMMA SummaryInvNext ==
    ASSUME SummaryInv, [SummaryNext]_svars
    PROVE  SummaryInv'
<1>0. QueueOK(Dates)' /\ [RequestsNext]_avars /\ changed' \subseteq SessionIds
  BY NextQueue, TablesStep, HistoryStep, HistoryStays DEF svars, SummaryInv
<1>1. ASSUME NEW c \in Consumers, Process(c)
      PROVE  SummaryInv'
  <2>1. CASE Return(c)
    BY <1>0, <2>1, LeaveInv DEF Return, Complete
  <2> QED
    BY <1>1, <2>1, ReadSessionsInv, ReadUsageInv, UpsertInv DEF Process
<1>2. ASSUME NEW c \in Consumers, JobFails(c)
      PROVE  SummaryInv'
  BY <1>0, <1>2, LeaveInv DEF JobFails, Throw
<1>3. ASSUME NEW c \in Consumers, NEW j \in JobIds, Begin(c, j)
      PROVE  SummaryInv'
  BY <1>3, BeginInv
<1>4. ASSUME NEW p \in Processes, Restart(p)
      PROVE  SummaryInv'
  BY <1>4, RestartInv
<1>5. CASE UNCHANGED <<run, summaries, at, local>>
  BY <1>0, <1>5, OutsideInv
<1> QED
  BY <1>1, <1>2, <1>3, <1>4, <1>5
  DEF SummaryNext, svars, Trigger, Add, Retry, Promote, Recover, LockExpires, Stall,
      UserStep, JobsEnded

(***************************************************************************)
(* Tables, queue and processors keep their types, however jobs fail, stall *)
(* and are resumed.                                                        *)
(***************************************************************************)
THEOREM SummaryTypes == SummarySpec => []SummaryTypeOK
<1>1. SummaryInit => SummaryInv
  BY SummaryInvInit
<1>2. SummaryInv /\ [SummaryNext]_svars => SummaryInv'
  BY SummaryInvNext
<1>3. SummaryInv => SummaryTypeOK
  BY DEF SummaryInv, QueueOK, SummaryTypeOK
<1> QED
  BY <1>1, <1>2, <1>3, PTL DEF SummarySpec

-----------------------------------------------------------------------------
(* What a step of the system is to a consumer, to the tables and to a summary. *)

\* A consumer ends its job or begins one, takes a step of its own, or stays.
LEMMA ConsumerStep ==
    ASSUME SummaryInv, [SummaryNext]_svars, NEW c \in Consumers
    PROVE  \/ at'[c] = "free"
           \/ \E j \in JobIds : Begin(c, j)
           \/ ReadSessions(c) \/ ReadUsage(c) \/ Upsert(c)
           \/ at'[c] = at[c] /\ local'[c] = local[c] /\ run'[c] = run[c]
<1> DEFINE Same == at'[c] = at[c] /\ local'[c] = local[c] /\ run'[c] = run[c]
<1>0. ASSUME NEW d \in Consumers, NEW p, NEW f, Go(d, p, f)
      PROVE  IF d = c THEN at'[c] = p ELSE at'[c] = at[c] /\ local'[c] = local[c]
  BY <1>0 DEF Go, SummaryInv
<1>1. ASSUME NEW d \in Consumers, ReadSessions(d) \/ ReadUsage(d) \/ Upsert(d), d # c
      PROVE  Same
  <2>1. CASE ReadSessions(d) \/ Upsert(d)
    BY <1>0, <1>1, <2>1 DEF ReadSessions, Upsert, Loop
  <2>2. CASE ReadUsage(d)
    BY <1>0, <1>1, <2>2 DEF ReadUsage
  <2> QED
    BY <1>1, <2>1, <2>2
<1>2. ASSUME NEW d \in Consumers, Return(d) \/ JobFails(d)
      PROVE  at'[c] = "free" \/ Same
  <2>1. run'[d] = Nil /\ (d # c => run'[c] = run[c])
    BY <1>2 DEF Return, Complete, JobFails, Throw, SummaryInv, QueueOK
  <2> QED
    BY <1>0, <1>2, <2>1 DEF Return, JobFails, Leave
<1>3. ASSUME NEW d \in Consumers, NEW j \in JobIds, Begin(d, j), d # c
      PROVE  Same
  <2>1. run'[c] = run[c]
    BY <1>3 DEF Begin, Take, SummaryInv, QueueOK
  <2> QED
    BY <1>0, <1>3, <2>1 DEF Begin
<1>4. ASSUME NEW p \in Processes, Restart(p)
      PROVE  at'[c] = "free" \/ Same
  BY <1>4 DEF Restart, StopProcess
<1>5. CASE UNCHANGED <<at, local, run>>
  BY <1>5
<1> QED
  BY <1>1, <1>2, <1>3, <1>4, <1>5
  DEF SummaryNext, Process, svars, Trigger, Add, Retry, Promote, Recover, LockExpires,
      Stall, UserStep, JobsEnded

\* The day of a job at work.
LEMMA DateType ==
    ASSUME SummaryInv, NEW c \in Consumers, at[c] # "free"
    PROVE  run[c] \in JobIds /\ DateOf(c) \in Dates
<1>1. run[c] \in JobIds /\ run[c] # Nil
  BY JobsAssumption DEF SummaryInv, WorkOK
<1> QED
  BY <1>1 DEF SummaryInv, QueueOK, DateOf

\* A job at work stays the job of its day.
LEMMA DateStays ==
    ASSUME SummaryInv, [SummaryNext]_svars, NEW c \in Consumers,
           at[c] # "free", at'[c] # "free"
    PROVE  /\ DateOf(c)' = DateOf(c)
           /\ \/ ReadSessions(c) \/ ReadUsage(c) \/ Upsert(c)
              \/ at'[c] = at[c] /\ local'[c] = local[c]
<1>1. run[c] \in JobIds /\ run[c] # Nil /\ jobs[run[c]].state # "none"
  BY JobsAssumption DEF SummaryInv, WorkOK, QueueOK
<1>2. ~\E j \in JobIds : Begin(c, j)
  BY <1>1 DEF Begin, Take, Free
<1>3. run'[c] = run[c]
  BY <1>2, ConsumerStep DEF ReadSessions, ReadUsage, Upsert
<1> QED
  BY <1>1, <1>2, <1>3, ConsumerStep, NextQueue DEF KeepsJobs, DateOf

\* A summary changes in an upsert of its user and day only.
LEMMA SummaryStep ==
    ASSUME SummaryInv, [SummaryNext]_svars, NEW u \in Users, NEW d \in Dates
    PROVE  \/ summaries'[<<u, d>>] = summaries[<<u, d>>]
           \/ \E c \in Consumers :
                 /\ Upsert(c)
                 /\ u = local[c].cur.user
                 /\ d = DateOf(c)
                 /\ summaries'[<<u, d>>] =
                        [counted |-> local[c].cur.counted, usage |-> local[c].usage]
<1>1. CASE UNCHANGED summaries
  BY <1>1
<1>2. ASSUME NEW c \in Consumers, Upsert(c)
      PROVE  \/ summaries'[<<u, d>>] = summaries[<<u, d>>]
             \/ /\ u = local[c].cur.user
                /\ d = DateOf(c)
                /\ summaries'[<<u, d>>] =
                       [counted |-> local[c].cur.counted, usage |-> local[c].usage]
  <2>1. <<u, d>> \in DOMAIN summaries
    BY DEF SummaryInv
  <2> QED
    BY <1>2, <2>1 DEF Upsert
<1> QED
  BY <1>1, <1>2
  DEF SummaryNext, svars, Process, ReadSessions, ReadUsage, Return, JobFails,
      Begin, Trigger, Retry, Recover, LockExpires, Restart, UserStep, JobsEnded

\* The users a job has read and not upserted.
Entries(c) == local[c].list \cup (IF at[c] = "upsert" THEN {local[c].cur} ELSE {})

\* The steps of a job: it takes the next user, writes its summary, or has read
\* the list.
LEMMA LoopEntries ==
    ASSUME SummaryInv, NEW c \in Consumers, NEW rest, Loop(c, rest)
    PROVE  Entries(c)' = rest
<1>1. local[c] \in Local /\ c \in DOMAIN local /\ c \in DOMAIN at
  BY DEF SummaryInv
<1>2. at'[c] # "upsert" /\ local'[c].list = rest
  BY <1>1 DEF Loop, Go, Local
<1> QED
  BY <1>2 DEF Entries

LEMMA StepEntries ==
    ASSUME SummaryInv, [SummaryNext]_svars, NEW c \in Consumers,
           at[c] # "free", at'[c] # "free"
    PROVE  \/ ReadSessions(c) /\ Entries(c)' = Groups(DateOf(c))
           \/ Upsert(c) /\ Entries(c)' = local[c].list /\ local[c].cur \in Entries(c)
           \/ at[c] # "sessions" /\ at'[c] # "sessions" /\ Entries(c)' = Entries(c)
           \/ at[c] = "sessions" /\ at'[c] = "sessions" /\ Entries(c)' = {}
<1>1. CASE ReadSessions(c)
  BY <1>1, LoopEntries DEF ReadSessions
<1>2. CASE Upsert(c)
  BY <1>2, LoopEntries DEF Upsert, Entries
<1>3. CASE ReadUsage(c)
  <2>1. PICK g \in local[c].list, f \in Local :
            /\ Go(c, "upsert", f)
            /\ f.list = local[c].list \ {g}
            /\ f.cur = g
    BY <1>3, ReadUsageGoes
  <2>2. at'[c] = "upsert" /\ local'[c] = f /\ at[c] = "usage"
    BY <1>3, <2>1 DEF Go, ReadUsage, SummaryInv
  <2> QED
    BY <2>1, <2>2 DEF Entries
<1>4. CASE at'[c] = at[c] /\ local'[c] = local[c]
  BY <1>4 DEF Entries, SummaryInv, WorkOK
<1> QED
  BY <1>1, <1>2, <1>3, <1>4, DateStays

\* A job that begins has read nothing.
LEMMA BeginEntries ==
    ASSUME SummaryInv, NEW c \in Consumers, NEW j \in JobIds, Begin(c, j)
    PROVE  Entries(c)' = {} /\ at'[c] = "sessions"
<1>1. Go(c, "sessions", NoLocal)
  BY DEF Begin
<1>2. at'[c] = "sessions" /\ local'[c] = NoLocal
  BY <1>1 DEF Go, SummaryInv
<1> QED
  BY <1>2, NoLocalType DEF Entries

\* A job comes to work by beginning.
LEMMA FreeStep ==
    ASSUME SummaryInv, [SummaryNext]_svars, NEW c \in Consumers,
           at[c] = "free", at'[c] # "free"
    PROVE  \E j \in JobIds : Begin(c, j)
BY ConsumerStep DEF ReadSessions, ReadUsage, Upsert

-----------------------------------------------------------------------------
(* The sessions of a day, and their totals. *)

\* Once started, a session stays a session of its user and day.
LEMMA SessionsGrow ==
    ASSUME ActivityInv, [RequestsNext]_avars, NEW u, NEW d
    PROVE  /\ SessionsOf(u, d) \subseteq SessionsOf(u, d)'
           /\ \A s \in SessionsOf(u, d)' \ SessionsOf(u, d) : sessions[s] = None
<1>1. \A s \in SessionIds : sessions[s] # None =>
          /\ sessions'[s] # None
          /\ sessions'[s].user = sessions[s].user
          /\ sessions'[s].start = sessions[s].start
  BY SessionKept
<1> QED
  BY <1>1 DEF SessionsOf, SessionsOn, Day

\* No total of a session of user u on day d has changed while jobs were at work.
Quiet(u, d) == SessionsOf(u, d) \cap changed = {}

\* What is quiet while a job is at work was quiet before the last step, and has
\* the totals it had.
LEMMA QuietBefore ==
    ASSUME SummaryInv, [SummaryNext]_svars, NEW c \in Consumers, at'[c] # "free",
           NEW u, NEW d, Quiet(u, d)'
    PROVE  /\ Quiet(u, d)
           /\ TotalOf(SessionsOf(u, d))' = TotalOf(SessionsOf(u, d))
<1>1. /\ SessionsOf(u, d) \subseteq SessionsOf(u, d)'
      /\ \A s \in SessionsOf(u, d)' \ SessionsOf(u, d) : sessions[s] = None
  BY TablesStep, SessionsGrow DEF SummaryInv
<1>2. /\ changed \subseteq changed'
      /\ \A s \in SessionIds \ changed' : CountedIn(sessions'[s]) = CountedIn(sessions[s])
  <2>1. CASE JobHistory
    BY <2>1 DEF JobHistory
  <2>2. CASE UNCHANGED svars
    BY <2>2 DEF svars, avars, vars, handlers
  <2> QED
    BY <2>1, <2>2, HistoryStep
<1>3. \A s \in SessionsOf(u, d)' : CountedIn(sessions'[s]) = CountedIn(sessions[s])
  BY <1>2 DEF Quiet, SessionsOf, SessionsOn
<1>4. \A s \in SessionsOf(u, d)' \ SessionsOf(u, d) : CountedIn(sessions[s]) = {}
  BY <1>1 DEF CountedIn
<1>5. TotalOf(SessionsOf(u, d))' = UNION {CountedIn(sessions'[s]) : s \in SessionsOf(u, d)'}
  BY DEF TotalOf, CountedIn
<1>6. TotalOf(SessionsOf(u, d))' = TotalOf(SessionsOf(u, d))
  BY <1>1, <1>3, <1>4, <1>5 DEF TotalOf
<1> QED
  BY <1>1, <1>2, <1>6 DEF Quiet

-----------------------------------------------------------------------------
(* The usage covers the totals. *)

\* What is counted in a session is a row in the log of that session.
LEMMA CountedLogged ==
    ASSUME ActivityInv, NEW s \in SessionIds, NEW a \in CountedIn(sessions[s])
    PROVE  a \in logs /\ frame[a[1]].sid = s
<1>1. /\ sessions[s] # None
      /\ a \in ActivityIds
      /\ sessions[s].active[a] # 0 \/ sessions[s].idle[a] # 0
  BY DEF CountedIn, Counted
<1> QED
  BY <1>1 DEF ActivityInv, WithinInv, RowsWithin, Within, CountInv, RowsInv, Sound

\* A group is one of sessions of its user and the day, and its sum one of
\* activities in their logs.
GroupOK(g, d) ==
    /\ g.sids # {}
    /\ g.sids \subseteq SessionsOf(g.user, d)
    /\ \A a \in g.counted : a \in logs /\ frame[a[1]].sid \in g.sids

GroupsOK == \A c \in Consumers : at[c] # "free" => \A g \in Entries(c) : GroupOK(g, DateOf(c))

\* The usage of the user that is to be upserted covers his total.
UsageOK ==
    \A c \in Consumers : at[c] = "upsert" =>
        local[c].cur.counted \cap WithApp \subseteq local[c].usage

LEMMA NewGroupsOK ==
    ASSUME ActivityInv, NEW d, NEW g \in Groups(d)
    PROVE  GroupOK(g, d) /\ g.counted = TotalOf(SessionsOf(g.user, d))
<1>1. PICK s \in SessionsOn(d) :
          g = [user |-> sessions[s].user, sids |-> SessionsOf(sessions[s].user, d),
               counted |-> TotalOf(SessionsOf(sessions[s].user, d))]
  BY DEF Groups
<1>2. s \in SessionsOf(sessions[s].user, d)
  BY DEF SessionsOf
<1>3. ASSUME NEW a \in g.counted
      PROVE  a \in logs /\ frame[a[1]].sid \in g.sids
  <2>1. PICK q \in g.sids : q \in SessionIds /\ a \in CountedIn(sessions[q])
    BY <1>1 DEF TotalOf, SessionsOf, SessionsOn
  <2> QED
    BY <2>1, CountedLogged
<1> QED
  BY <1>1, <1>2, <1>3 DEF GroupOK

LEMMA GroupStays ==
    ASSUME ActivityInv, [RequestsNext]_avars, NEW g, NEW d, GroupOK(g, d)
    PROVE  GroupOK(g, d)'
<1>1. \A a \in g.counted : a \in logs' /\ frame'[a[1]].sid = frame[a[1]].sid
  BY LogKept DEF GroupOK
<1>2. SessionsOf(g.user, d) \subseteq SessionsOf(g.user, d)'
  BY SessionsGrow
<1> QED
  BY <1>1, <1>2 DEF GroupOK

LEMMA NextGroupsOK ==
    ASSUME SummaryInv, GroupsOK, [SummaryNext]_svars
    PROVE  GroupsOK'
<1> SUFFICES ASSUME NEW c \in Consumers, at'[c] # "free", NEW g \in Entries(c)'
             PROVE  GroupOK(g, DateOf(c))'
  BY DEF GroupsOK
<1>1. at[c] # "free"
  BY FreeStep, BeginEntries
<1>2. PICK d \in Dates : d = DateOf(c)
  BY <1>1, DateType
<1>3. DateOf(c)' = d
  BY <1>1, <1>2, DateStays
<1>4. g \in Entries(c) \/ g \in Groups(d)
  BY <1>1, <1>2, StepEntries DEF Entries
<1>5. GroupOK(g, d)
  BY <1>1, <1>2, <1>4, NewGroupsOK DEF GroupsOK, SummaryInv
<1>6. GroupOK(g, d)'
  BY <1>5, TablesStep, GroupStays DEF SummaryInv
<1> QED
  BY <1>3, <1>6 DEF GroupOK

LEMMA NextUsageOK ==
    ASSUME SummaryInv, GroupsOK, UsageOK, [SummaryNext]_svars
    PROVE  UsageOK'
<1> SUFFICES ASSUME NEW c \in Consumers, at'[c] = "upsert"
             PROVE  local'[c].cur.counted \cap WithApp \subseteq local'[c].usage
  BY DEF UsageOK
<1>1. at[c] # "free"
  BY FreeStep, BeginEntries
<1>2. CASE ReadUsage(c)
  <2>1. PICK g \in local[c].list, f \in Local :
            /\ Go(c, "upsert", f)
            /\ f.cur = g
            /\ f.usage = WithApp \cap UNION {LogsOf(s) : s \in g.sids}
    BY <1>2, ReadUsageGoes
  <2>2. local'[c] = f
    BY <2>1 DEF Go, SummaryInv
  <2>3. \A a \in g.counted : a \in logs /\ frame[a[1]].sid \in g.sids
    BY <1>1, <2>1 DEF GroupsOK, GroupOK, Entries
  <2>4. g.counted \subseteq UNION {LogsOf(s) : s \in g.sids}
    BY <2>3 DEF LogsOf
  <2> QED
    BY <2>1, <2>2, <2>4
<1>3. CASE at'[c] = at[c] /\ local'[c] = local[c]
  BY <1>3 DEF UsageOK
<1>4. CASE ReadSessions(c) \/ Upsert(c)
  BY <1>4 DEF ReadSessions, Upsert, Loop, Go, SummaryInv
<1> QED
  BY <1>1, <1>2, <1>3, <1>4, DateStays

LEMMA NextUsageCovers ==
    ASSUME SummaryInv, UsageOK, UsageCoversTotals, [SummaryNext]_svars
    PROVE  UsageCoversTotals'
<1> SUFFICES ASSUME NEW u \in Users, NEW d \in Dates, summaries'[<<u, d>>] # None
             PROVE  summaries'[<<u, d>>].counted \cap WithApp \subseteq summaries'[<<u, d>>].usage
  BY DEF UsageCoversTotals
<1>1. CASE summaries'[<<u, d>>] = summaries[<<u, d>>]
  BY <1>1 DEF UsageCoversTotals
<1>2. ASSUME NEW c \in Consumers, Upsert(c),
             summaries'[<<u, d>>] =
                 [counted |-> local[c].cur.counted, usage |-> local[c].usage]
      PROVE  summaries'[<<u, d>>].counted \cap WithApp \subseteq summaries'[<<u, d>>].usage
  BY <1>2 DEF UsageOK, Upsert
<1> QED
  BY <1>1, <1>2, SummaryStep

UsageInv == SummaryInv /\ GroupsOK /\ UsageOK /\ UsageCoversTotals

(***************************************************************************)
(* Although sessions and logs are read by two queries, whatever arrives    *)
(* between them, and however many jobs write one summary: every second of  *)
(* its totals that has an application is in its application usage.         *)
(***************************************************************************)
THEOREM UsageIsComplete == SummarySpec => []UsageCoversTotals
<1>1. SummaryInit => UsageInv
  <2> SUFFICES ASSUME SummaryInit
               PROVE  UsageInv
    OBVIOUS
  <2>1. \A c \in Consumers : at[c] = "free"
    BY DEF SummaryInit
  <2>2. UsageCoversTotals
    BY DEF SummaryInit, UsageCoversTotals
  <2> QED
    BY <2>1, <2>2, SummaryInvInit DEF UsageInv, GroupsOK, UsageOK
<1>2. UsageInv /\ [SummaryNext]_svars => UsageInv'
  BY SummaryInvNext, NextGroupsOK, NextUsageOK, NextUsageCovers DEF UsageInv
<1>3. UsageInv => UsageCoversTotals
  BY DEF UsageInv
<1> QED
  BY <1>1, <1>2, <1>3, PTL DEF SummarySpec

-----------------------------------------------------------------------------
(* A quiet day is exact. *)

\* A summary is one of sessions.
KnownOK ==
    \A u \in Users, d \in Dates : summaries[<<u, d>>] # None => SessionsOf(u, d) # {}

\* What a job at work has read of a user whose totals have not changed since, is
\* his total.
Fresh ==
    \A c \in Consumers : at[c] # "free" =>
        \A g \in Entries(c) : Quiet(g.user, DateOf(c)) =>
            g.counted = TotalOf(SessionsOf(g.user, DateOf(c)))

\* The summary of user u on day d has the total of his sessions.
Exact(u, d) ==
    IF summaries[<<u, d>>] = None
    THEN TotalOf(SessionsOf(u, d)) = {}
    ELSE summaries[<<u, d>>].counted = TotalOf(SessionsOf(u, d))

\* A user whose totals have not changed since the job began is still to be
\* upserted, or his summary is exact.
DoneOK ==
    \A c \in Consumers : at[c] \in {"usage", "upsert", "end"} =>
        \A u \in Users : Quiet(u, DateOf(c)) =>
            (\E g \in Entries(c) : g.user = u) \/ Exact(u, DateOf(c))

QuietInv == SummaryInv /\ GroupsOK /\ KnownOK /\ Fresh /\ DoneOK

LEMMA NextKnownOK ==
    ASSUME SummaryInv, GroupsOK, KnownOK, [SummaryNext]_svars
    PROVE  KnownOK'
<1> SUFFICES ASSUME NEW u \in Users, NEW d \in Dates, summaries'[<<u, d>>] # None
             PROVE  SessionsOf(u, d)' # {}
  BY DEF KnownOK
<1>1. SessionsOf(u, d) # {}
  <2>1. CASE summaries'[<<u, d>>] = summaries[<<u, d>>]
    BY <2>1 DEF KnownOK
  <2>2. ASSUME NEW c \in Consumers, Upsert(c), u = local[c].cur.user, d = DateOf(c)
        PROVE  SessionsOf(u, d) # {}
    BY <2>2 DEF GroupsOK, GroupOK, Upsert, Entries
  <2> QED
    BY <2>1, <2>2, SummaryStep
<1> QED
  BY <1>1, TablesStep, SessionsGrow DEF SummaryInv

LEMMA NextFresh ==
    ASSUME SummaryInv, Fresh, [SummaryNext]_svars
    PROVE  Fresh'
<1> SUFFICES ASSUME NEW c \in Consumers, at'[c] # "free", NEW g \in Entries(c)',
                    Quiet(g.user, DateOf(c))'
             PROVE  g.counted = TotalOf(SessionsOf(g.user, DateOf(c)))'
  BY DEF Fresh
<1>1. at[c] # "free"
  BY FreeStep, BeginEntries
<1>2. PICK d \in Dates : d = DateOf(c)
  BY <1>1, DateType
<1>3. DateOf(c)' = d
  BY <1>1, <1>2, DateStays
<1>4. Quiet(g.user, d)'
  BY <1>3 DEF Quiet, SessionsOf, SessionsOn, Day
<1>5. SUFFICES g.counted = TotalOf(SessionsOf(g.user, d))'
  BY <1>3 DEF TotalOf, SessionsOf, SessionsOn, CountedIn, Day
<1>6. /\ Quiet(g.user, d)
      /\ TotalOf(SessionsOf(g.user, d))' = TotalOf(SessionsOf(g.user, d))
  BY <1>4, QuietBefore
<1>7. CASE g \in Groups(d)
  BY <1>6, <1>7, NewGroupsOK DEF SummaryInv
<1>8. CASE g \in Entries(c)
  BY <1>1, <1>2, <1>6, <1>8 DEF Fresh
<1> QED
  BY <1>1, <1>2, <1>7, <1>8, StepEntries DEF Entries

\* An exact summary of a user whose totals do not change stays exact, whoever
\* writes it again.
LEMMA ExactStays ==
    ASSUME SummaryInv, GroupsOK, Fresh, [SummaryNext]_svars,
           NEW u \in Users, NEW d \in Dates, Quiet(u, d),
           TotalOf(SessionsOf(u, d))' = TotalOf(SessionsOf(u, d)),
           \/ Exact(u, d)
           \/ \E e \in Consumers : Upsert(e) /\ local[e].cur.user = u /\ DateOf(e) = d
    PROVE  Exact(u, d)'
<1>1. PICK total : total = TotalOf(SessionsOf(u, d))
  OBVIOUS
<1>2. ASSUME NEW e \in Consumers, Upsert(e), local[e].cur.user = u, DateOf(e) = d
      PROVE  local[e].cur.counted = total
  <2>1. at[e] # "free" /\ local[e].cur \in Entries(e)
    BY <1>2 DEF Upsert, Entries
  <2> QED
    BY <1>1, <1>2, <2>1 DEF Fresh
<1>3. ASSUME NEW e \in Consumers, Upsert(e), u = local[e].cur.user, d = DateOf(e),
             summaries'[<<u, d>>] =
                 [counted |-> local[e].cur.counted, usage |-> local[e].usage]
      PROVE  Exact(u, d)'
  <2>1. summaries'[<<u, d>>].counted = total
    BY <1>2, <1>3
  <2>2. summaries'[<<u, d>>] # None
    <3>1. local[e] \in Local /\ local[e].cur \in Group
      BY <1>3 DEF Upsert, SummaryInv, WorkOK
    <3>2. summaries'[<<u, d>>] \in Summary
      BY <1>3, <3>1 DEF Local, Group, Summary
    <3> QED
      BY <3>2, SummaryRowAssumption
  <2> QED
    BY <1>1, <2>1, <2>2 DEF Exact
<1>4. CASE summaries'[<<u, d>>] = summaries[<<u, d>>] /\ Exact(u, d)
  BY <1>4 DEF Exact
<1>5. ASSUME NEW e \in Consumers, Upsert(e), local[e].cur.user = u, DateOf(e) = d
      PROVE  Exact(u, d)'
  <2>1. <<u, d>> \in DOMAIN summaries
    BY DEF SummaryInv
  <2>2. summaries'[<<u, d>>] =
            [counted |-> local[e].cur.counted, usage |-> local[e].usage]
    BY <1>5, <2>1 DEF Upsert
  <2> QED
    BY <1>3, <1>5, <2>2
<1> QED
  BY <1>3, <1>4, <1>5, SummaryStep

LEMMA NextDoneOK ==
    ASSUME QuietInv, [SummaryNext]_svars
    PROVE  DoneOK'
<1> SUFFICES ASSUME NEW c \in Consumers, at'[c] \in {"usage", "upsert", "end"},
                    NEW u \in Users, Quiet(u, DateOf(c))'
             PROVE  (\E g \in Entries(c)' : g.user = u) \/ Exact(u, DateOf(c))'
  BY DEF DoneOK
<1> USE DEF QuietInv
<1>1. at[c] # "free"
  BY FreeStep, BeginEntries
<1>2. PICK d \in Dates : d = DateOf(c)
  BY <1>1, DateType
<1>3. DateOf(c)' = d
  BY <1>1, <1>2, DateStays
<1>5. Quiet(u, d)'
  BY <1>3 DEF Quiet, SessionsOf, SessionsOn, Day
<1>6. /\ Quiet(u, d)
      /\ TotalOf(SessionsOf(u, d))' = TotalOf(SessionsOf(u, d))
  BY <1>1, <1>5, QuietBefore
<1>7. SUFFICES (\E g \in Entries(c)' : g.user = u) \/ Exact(u, d)'
  BY <1>3 DEF Exact, TotalOf, SessionsOf, SessionsOn, CountedIn, Day
<1>8. ASSUME \/ Exact(u, d)
             \/ \E e \in Consumers : Upsert(e) /\ local[e].cur.user = u /\ DateOf(e) = d
      PROVE  Exact(u, d)'
  BY <1>6, <1>8, ExactStays
<1>9. CASE ReadSessions(c) /\ Entries(c)' = Groups(d)
  <2>1. CASE \E s \in SessionsOn(d) : sessions[s].user = u
    <3> DEFINE g == [user |-> u, sids |-> SessionsOf(u, d),
                     counted |-> TotalOf(SessionsOf(u, d))]
    <3>1. g \in Groups(d) /\ g.user = u
      BY <2>1 DEF Groups
    <3> QED
      BY <1>9, <3>1
  <2>2. CASE ~\E s \in SessionsOn(d) : sessions[s].user = u
    <3>1. SessionsOf(u, d) = {}
      BY <2>2 DEF SessionsOf
    <3>2. summaries[<<u, d>>] = None /\ TotalOf(SessionsOf(u, d)) = {}
      BY <3>1 DEF KnownOK, TotalOf
    <3> QED
      BY <1>8, <3>2 DEF Exact
  <2> QED
    BY <2>1, <2>2
<1>10. at[c] # "sessions" => (\E g \in Entries(c) : g.user = u) \/ Exact(u, d)
  BY <1>1, <1>2, <1>6 DEF DoneOK, SummaryInv, JobQueries
<1>11. CASE Upsert(c) /\ Entries(c)' = local[c].list
  BY <1>2, <1>8, <1>10, <1>11 DEF Entries, Upsert
<1>12. CASE at[c] # "sessions" /\ Entries(c)' = Entries(c)
  BY <1>8, <1>10, <1>12
<1> QED
  BY <1>1, <1>2, <1>9, <1>11, <1>12, StepEntries

(***************************************************************************)
(* However jobs of one day fail, are repeated and overlap: one that comes  *)
(* to its end leaves the exact total of every user whose totals no handler *)
(* has changed since the oldest of the jobs that overlapped it began.      *)
(***************************************************************************)
THEOREM QuietDaysAreExact == SummarySpec => []QuietDayIsExact
<1>1. SummaryInit => QuietInv
  <2> SUFFICES ASSUME SummaryInit
               PROVE  QuietInv
    OBVIOUS
  <2>1. \A c \in Consumers : at[c] = "free"
    BY DEF SummaryInit
  <2>2. KnownOK
    BY DEF SummaryInit, KnownOK
  <2> QED
    BY <2>1, <2>2, SummaryInvInit DEF QuietInv, GroupsOK, Fresh, DoneOK
<1>2. QuietInv /\ [SummaryNext]_svars => QuietInv'
  BY SummaryInvNext, NextGroupsOK, NextKnownOK, NextFresh, NextDoneOK DEF QuietInv
<1>3. QuietInv => QuietDayIsExact
  <2> SUFFICES ASSUME QuietInv, NEW c \in Consumers, at[c] = "end", NEW u \in Users,
                      Quiet(u, DateOf(c))
               PROVE  Exact(u, DateOf(c))
    BY DEF QuietDayIsExact, Quiet, Exact
  <2>1. Entries(c) = {}
    BY DEF QuietInv, SummaryInv, WorkOK, Entries
  <2> QED
    BY <2>1 DEF QuietInv, DoneOK
<1> QED
  BY <1>1, <1>2, <1>3, PTL DEF SummarySpec
=============================================================================
