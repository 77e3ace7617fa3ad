-------------------------- MODULE BackgroundProofs --------------------------
(***************************************************************************)
(* Lemmas about Activity and Jobs, for the proofs about the background     *)
(* jobs that are composed with them.                                       *)
(***************************************************************************)
EXTENDS ActivityProofs, Jobs

-----------------------------------------------------------------------------
(* What the handlers do to the tables the jobs read. *)

LEMMA ClockType ==
    ASSUME ActivityInv
    PROVE  now \in Nat /\ now \in 0..MaxTime
BY SessionsAssumption DEF ActivityInv, ActivityTypeInv, TypeInv, TablesOK

LEMMA SessionType ==
    ASSUME ActivityInv, NEW s \in SessionIds, sessions[s] # None
    PROVE  sessions[s] \in Row
BY DEF ActivityInv, ActivityTypeInv, TypeInv, TablesOK

LEMMA HandlersNext ==
    ASSUME ActivityInv, [RequestsNext]_avars
    PROVE  ActivityInv' /\ now' \in {now, now + 1}
BY ActivityInvNext, WhoWrites DEF ActivityNext

\* save() does not touch whose session it is, and when it began.
LEMMA WrittenKeeps ==
    ASSUME NEW row \in Row, NEW e, NEW cols
    PROVE  Written(row, e, cols).user = row.user /\ Written(row, e, cols).start = row.start
BY DEF Written, Row

\* A session that was started stays, with its user and its start.
LEMMA SessionKept ==
    ASSUME ActivityInv, [RequestsNext]_avars, NEW s \in SessionIds, sessions[s] # None
    PROVE  /\ sessions'[s] # None
           /\ sessions'[s].user = sessions[s].user
           /\ sessions'[s].start = sessions[s].start
<1>1. /\ sessions[s] \in Row
      /\ sessions \in [SessionIds -> Row \cup {None}]
  BY SessionType DEF ActivityInv, ActivityTypeInv, TypeInv, TablesOK
<1>2. CASE UNCHANGED sessions
  BY <1>2
<1>3. ASSUME NEW r \in Requests, InsertSession(r)
      PROVE  sessions'[s] = sessions[s]
  BY <1>1, <1>3 DEF InsertSession
<1>4. ASSUME NEW r \in Requests, SaveUpdate(r)
      PROVE  \/ sessions'[s] = sessions[s]
             \/ /\ frame[r].entity \in Row
                /\ sessions'[s] = Written(sessions[s], frame[r].entity, frame[r].cols)
  BY <1>1, <1>4 DEF SaveUpdate, ActivityInv, ActivityTypeInv, TypeInv, FrameOK
<1>5. \A e \in Row : \A cols : Written(sessions[s], e, cols) # None
  BY <1>1, WrittenType, RowAssumption
<1>6. [ActivityNext]_avars
  BY DEF ActivityNext
<1> QED
  BY <1>1, <1>2, <1>3, <1>4, <1>5, <1>6, WhoWrites, WrittenKeeps

\* A row of the log stays, and says what it said.
LEMMA LogKept ==
    ASSUME ActivityInv, [RequestsNext]_avars, NEW a \in logs
    PROVE  /\ a \in logs'
           /\ frame'[a[1]].sid = frame[a[1]].sid
           /\ ItemOf(a)' = ItemOf(a)
<1>1. ActivityTypeInv /\ OpInv /\ LogInv /\ [ActivityNext]_avars
  BY DEF ActivityInv, ActivityNext
<1>2. a[1] \in Requests /\ pc[a[1]] \notin {"new", "insert"}
  BY <1>1, RowsOfWhom DEF AllRows
<1>3. Moves(a[1]) \/ Stays(a[1])
  BY <1>1, <1>2, EveryoneMoves
<1> QED
  BY <1>1, <1>2, <1>3, EveryoneMoves, WorkKept, RowKept

-----------------------------------------------------------------------------
(* The queues.  Data is what their jobs carry. *)

\* Jobs and consumers have their types, a job that can be taken has an attempt
\* left, and one that was added, as a consumer's job was, carries data.
QueueOK(Data) ==
    /\ jobs \in [JobIds -> Job(Data \cup {Nil})]
    /\ run \in [Consumers -> JobIds \cup {Nil}]
    /\ \A j \in JobIds : jobs[j].state # "failed" /\ jobs[j].state # "completed"
                            => jobs[j].made < Attempts
    /\ \A j \in JobIds : jobs[j].state # "none" => jobs[j].data \in Data
    /\ \A c \in Consumers : run[c] # Nil => jobs[run[c]].state # "none"

\* The job of a consumer stays what it is.
KeepsJobs ==
    \A j \in JobIds : jobs[j].state # "none" =>
        jobs'[j].state # "none" /\ jobs'[j].data = jobs[j].data

\* The record x is a job that was added, with an attempt left, unless it has ended.
GoodJob(x, Data) ==
    /\ x \in Job(Data \cup {Nil})
    /\ x.state # "none"
    /\ x.data \in Data
    /\ x.state # "failed" /\ x.state # "completed" => x.made < Attempts

\* A step of the queue that changes one job.
LEMMA OneJobQueueOK ==
    ASSUME NEW Data, QueueOK(Data), NEW j \in JobIds, NEW x, GoodJob(x, Data),
           jobs[j].state # "none" => x.data = jobs[j].data,
           jobs' = [jobs EXCEPT ![j] = x],
           run' \in [Consumers -> JobIds \cup {Nil}],
           \A c \in Consumers : run'[c] \in {run[c], Nil, j}
    PROVE  QueueOK(Data)' /\ KeepsJobs
<1>1. jobs' \in [JobIds -> Job(Data \cup {Nil})] /\ jobs'[j] = x
      /\ \A k \in JobIds \ {j} : jobs'[k] = jobs[k]
  BY DEF QueueOK, GoodJob
<1>2. ASSUME NEW c \in Consumers, run'[c] # Nil
      PROVE  jobs'[run'[c]].state # "none"
  <2>1. run'[c] = j \/ (run'[c] = run[c] /\ run[c] \in JobIds /\ run[c] # Nil)
    BY <1>2 DEF QueueOK
  <2>2. CASE run'[c] = j
    BY <1>1, <2>2 DEF GoodJob
  <2>3. CASE run'[c] # j
    BY <1>1, <2>1, <2>3 DEF QueueOK
  <2> QED
    BY <2>2, <2>3
<1>3. /\ \A k \in JobIds : jobs'[k].state # "failed" /\ jobs'[k].state # "completed"
                               => jobs'[k].made < Attempts
      /\ \A k \in JobIds : jobs'[k].state # "none" => jobs'[k].data \in Data
  BY <1>1 DEF QueueOK, GoodJob
<1>4. KeepsJobs
  BY <1>1 DEF KeepsJobs, GoodJob
<1> QED
  BY <1>1, <1>2, <1>3, <1>4 DEF QueueOK

\* A step that leaves the queue alone.
LEMMA SameQueueOK ==
    ASSUME NEW Data, QueueOK(Data), UNCHANGED <<jobs, run>>
    PROVE  QueueOK(Data)' /\ KeepsJobs
BY DEF QueueOK, KeepsJobs

LEMMA InitQueueOK ==
    ASSUME NEW Data, JobsInit
    PROVE  QueueOK(Data)
BY JobsAssumption DEF JobsInit, QueueOK, Job, NoJob, States

LEMMA AddQueueOK ==
    ASSUME NEW Data, QueueOK(Data), NEW j \in JobIds, NEW q \in Queues, NEW d \in Data,
           Add(j, q, d)
    PROVE  QueueOK(Data)' /\ KeepsJobs
<1> DEFINE x == [jobs[j] EXCEPT !.state = "waiting", !.queue = q, !.data = d]
<1>1. GoodJob(x, Data)
  BY DEF QueueOK, GoodJob, Add, Job, States
<1>2. jobs' = [jobs EXCEPT ![j] = x] /\ jobs[j].state = "none" /\ run' = run
  BY DEF QueueOK, Add, Job
<1> HIDE DEF x
<1> QED
  BY <1>1, <1>2, OneJobQueueOK DEF QueueOK

LEMMA TakeQueueOK ==
    ASSUME NEW Data, QueueOK(Data), NEW c \in Consumers, NEW j \in JobIds, Take(c, j)
    PROVE  QueueOK(Data)' /\ KeepsJobs
<1> DEFINE x == [jobs[j] EXCEPT !.state = "active", !.holder = c]
<1>1. GoodJob(x, Data) /\ x.data = jobs[j].data
  BY DEF QueueOK, GoodJob, Take, Job, States
<1>2. jobs' = [jobs EXCEPT ![j] = x]
  BY DEF QueueOK, Take, Job
<1>3. /\ run' \in [Consumers -> JobIds \cup {Nil}]
      /\ \A d \in Consumers : run'[d] \in {run[d], Nil, j}
  BY DEF QueueOK, Take
<1> HIDE DEF x
<1> QED
  BY <1>1, <1>2, <1>3, OneJobQueueOK

\* A consumer that ends its job.
LEMMA FreedConsumer ==
    ASSUME NEW Data, QueueOK(Data), NEW c \in Consumers, run' = [run EXCEPT ![c] = Nil]
    PROVE  /\ run' \in [Consumers -> JobIds \cup {Nil}]
           /\ \A d \in Consumers : run'[d] \in {run[d], Nil}
BY DEF QueueOK

\* ... and does not hold it any more.
LEMMA LostJobQueueOK ==
    ASSUME NEW Data, QueueOK(Data), NEW c \in Consumers, run' = [run EXCEPT ![c] = Nil],
           jobs' = jobs
    PROVE  QueueOK(Data)' /\ KeepsJobs
<1>1. /\ run' \in [Consumers -> JobIds \cup {Nil}]
      /\ \A d \in Consumers : run'[d] \in {run[d], Nil}
  BY FreedConsumer
<1> QED
  BY <1>1 DEF QueueOK, KeepsJobs

LEMMA CompleteQueueOK ==
    ASSUME NEW Data, QueueOK(Data), NEW c \in Consumers, run[c] \in JobIds, Complete(c)
    PROVE  QueueOK(Data)' /\ KeepsJobs
<1> DEFINE x == [jobs[run[c]] EXCEPT !.state = "completed", !.holder = Nil]
<1>1. CASE ~Holds(c)
  BY <1>1, LostJobQueueOK DEF Complete, Release
<1>2. CASE Holds(c)
  <2>1. GoodJob(x, Data) /\ x.data = jobs[run[c]].data
    <3>1. jobs[run[c]] \in Job(Data \cup {Nil}) /\ jobs[run[c]].data \in Data
      BY <1>2 DEF QueueOK, Holds
    <3> QED
      BY <3>1 DEF GoodJob, Job, States
  <2>2. jobs' = [jobs EXCEPT ![run[c]] = x]
    BY <1>2 DEF QueueOK, Complete, Release, Job
  <2>3. /\ run' \in [Consumers -> JobIds \cup {Nil}]
        /\ \A d \in Consumers : run'[d] \in {run[d], Nil}
    BY FreedConsumer DEF Complete
  <2> HIDE DEF x
  <2>4. PICK j \in JobIds : j = run[c]
    OBVIOUS
  <2> QED
    BY <2>1, <2>2, <2>3, <2>4, OneJobQueueOK
<1> QED
  BY <1>1, <1>2

\* The attempt that has failed is one of those the job had left.
LEMMA ThrowQueueOK ==
    ASSUME NEW Data, QueueOK(Data), NEW c \in Consumers, run[c] \in JobIds, Throw(c)
    PROVE  QueueOK(Data)' /\ KeepsJobs
<1>1. PICK j \in JobIds : j = run[c]
  OBVIOUS
<1> DEFINE x(s) == [jobs[j] EXCEPT !.state = s, !.holder = Nil, !.made = @ + 1]
<1>2. /\ run' \in [Consumers -> JobIds \cup {Nil}]
      /\ \A d \in Consumers : run'[d] \in {run[d], Nil}
  BY FreedConsumer DEF Throw
<1>3. CASE ~Holds(c)
  BY <1>3, LostJobQueueOK DEF Throw
<1>4. CASE Holds(c)
  <2>1. /\ jobs[j] \in Job(Data \cup {Nil})
        /\ jobs[j].data \in Data
        /\ jobs[j].made + 1 \in 0..Attempts
    BY <1>1, <1>4, JobsAssumption DEF QueueOK, Holds, Job
  <2>2. \A s \in States : [Release(c, s) EXCEPT ![j].made = @ + 1]
                              = [jobs EXCEPT ![j] = x(s)]
    BY <1>1, <1>4, <2>1 DEF QueueOK, Release, Job
  <2>3. \A s \in States : x(s).data = jobs[j].data
    BY <2>1 DEF Job
  <2>4. CASE jobs[j].made + 1 < Attempts
    <3>1. GoodJob(x("delayed"), Data)
      BY <2>1, <2>4 DEF GoodJob, Job, States
    <3>2. jobs' = [Release(c, "delayed") EXCEPT ![j].made = @ + 1]
      BY <1>1, <1>4, <2>1, <2>4, JobsAssumption DEF Throw, Job
    <3>3. jobs' = [jobs EXCEPT ![j] = x("delayed")]
      BY <2>2, <3>2 DEF States
    <3>4. x("delayed").data = jobs[j].data
      BY <2>3 DEF States
    <3> HIDE DEF x
    <3> QED
      BY <1>2, <3>1, <3>3, <3>4, OneJobQueueOK
  <2>5. CASE ~(jobs[j].made + 1 < Attempts)
    <3>1. GoodJob(x("failed"), Data)
      BY <2>1 DEF GoodJob, Job, States
    <3>2. jobs' = [Release(c, "failed") EXCEPT ![j].made = @ + 1]
      BY <1>1, <1>4, <2>1, <2>5, JobsAssumption DEF Throw, Job
    <3>3. jobs' = [jobs EXCEPT ![j] = x("failed")]
      BY <2>2, <3>2 DEF States
    <3>4. x("failed").data = jobs[j].data
      BY <2>3 DEF States
    <3> HIDE DEF x
    <3> QED
      BY <1>2, <3>1, <3>3, <3>4, OneJobQueueOK
  <2> QED
    BY <2>4, <2>5
<1> QED
  BY <1>3, <1>4

LEMMA PromoteQueueOK ==
    ASSUME NEW Data, QueueOK(Data), NEW j \in JobIds, Promote(j)
    PROVE  QueueOK(Data)' /\ KeepsJobs
<1> DEFINE x == [jobs[j] EXCEPT !.state = "waiting"]
<1>1. GoodJob(x, Data) /\ x.data = jobs[j].data
  BY DEF QueueOK, GoodJob, Promote, Job, States
<1>2. jobs' = [jobs EXCEPT ![j] = x] /\ run' = run
  BY DEF QueueOK, Promote, Job
<1> HIDE DEF x
<1> QED
  BY <1>1, <1>2, OneJobQueueOK DEF QueueOK

LEMMA StallQueueOK ==
    ASSUME NEW Data, QueueOK(Data), NEW j \in JobIds, Stall(j)
    PROVE  QueueOK(Data)' /\ KeepsJobs
<1> DEFINE x == [jobs[j] EXCEPT !.state = "waiting", !.holder = Nil, !.stalls = @ + 1]
           y == [jobs[j] EXCEPT !.state = "failed", !.holder = Nil]
<1>1. run' = run /\ run \in [Consumers -> JobIds \cup {Nil}]
  BY DEF QueueOK, Stall
<1>2. CASE jobs[j].stalls < MaxStalls
  <2>1. GoodJob(x, Data) /\ x.data = jobs[j].data
    BY <1>2, JobsAssumption DEF QueueOK, GoodJob, Stall, Job, States
  <2>2. jobs' = [jobs EXCEPT ![j] = x]
    BY <1>2, JobsAssumption DEF QueueOK, Stall, Job
  <2> HIDE DEF x
  <2> QED
    BY <1>1, <2>1, <2>2, OneJobQueueOK
<1>3. CASE ~(jobs[j].stalls < MaxStalls)
  <2>1. GoodJob(y, Data) /\ y.data = jobs[j].data
    BY DEF QueueOK, GoodJob, Stall, Job, States
  <2>2. jobs' = [jobs EXCEPT ![j] = y]
    BY <1>3, JobsAssumption DEF QueueOK, Stall, Job
  <2> HIDE DEF y
  <2> QED
    BY <1>1, <2>1, <2>2, OneJobQueueOK
<1> QED
  BY <1>2, <1>3

LEMMA StopQueueOK ==
    ASSUME NEW Data, QueueOK(Data), NEW p \in Processes, StopProcess(p)
    PROVE  QueueOK(Data)' /\ KeepsJobs
BY DEF QueueOK, StopProcess, KeepsJobs
=============================================================================
