-------------------------------- MODULE Jobs --------------------------------
(***************************************************************************)
(* The BullMQ queues of jobs/jobs.module.ts and their consumers.  Both     *)
(* containers, api and worker, run the same program, so every process has  *)
(* one consumer for each queue, which processes one job at a time.         *)
(*                                                                         *)
(* A job is delivered at least once: a consumer holds a lock on it, and    *)
(* when the lock runs out, because the process stopped or did not renew it *)
(* in time, the job goes back to the queue.  A job whose process() throws  *)
(* is attempted again after a delay, until its attempts are used up.       *)
(***************************************************************************)
EXTENDS Integers, FiniteSets

CONSTANTS
    Processes,  \* the containers that run the program
    Queues,     \* the names of the queues
    JobIds,     \* bound: the jobs that are added
    Attempts,   \* defaultJobOptions.attempts
    MaxStalls,  \* how often a job may lose its lock (BullMQ's default is 1)
    Nil         \* no job, no consumer, no data

ASSUME JobsAssumption ==
    /\ Attempts \in Nat \ {0}
    /\ MaxStalls \in Nat
    /\ Nil \notin JobIds
    /\ Nil \notin Processes \X Queues

VARIABLES
    jobs,  \* the jobs in Redis
    run    \* of each consumer: the job it processes

jvars == <<jobs, run>>

Consumers == Processes \X Queues

States == {"none", "waiting", "active", "delayed", "completed", "failed"}

\* data: what the job carries;  made: attempts that have failed;  stalls: how
\* often its lock ran out;  holder: the consumer that holds the lock.
Job(Data) == [state  : States,
              queue  : Queues \cup {Nil},
              data   : Data,
              made   : 0..Attempts,
              stalls : 0..MaxStalls,
              holder : Consumers \cup {Nil}]

NoJob == [state |-> "none", queue |-> Nil, data |-> Nil, made |-> 0,
          stalls |-> 0, holder |-> Nil]

JobsInit ==
    /\ jobs = [j \in JobIds |-> NoJob]
    /\ run = [c \in Consumers |-> Nil]

Free(c) == run[c] = Nil

Holds(c) == jobs[run[c]].state = "active" /\ jobs[run[c]].holder = c

\* The job leaves its consumer, if it is still its job, in state s.
Release(c, s) ==
    IF Holds(c) THEN [jobs EXCEPT ![run[c]].state = s, ![run[c]].holder = Nil]
                ELSE jobs

\* queue.add
Add(j, q, data) ==
    /\ jobs[j].state = "none"
    /\ jobs' = [jobs EXCEPT ![j].state = "waiting", ![j].queue = q, ![j].data = data]
    /\ UNCHANGED run

\* A free consumer takes a waiting job and calls process().
Take(c, j) ==
    /\ Free(c)
    /\ jobs[j].state = "waiting"
    /\ jobs[j].queue = c[2]
    /\ jobs' = [jobs EXCEPT ![j].state = "active", ![j].holder = c]
    /\ run' = [run EXCEPT ![c] = j]

\* process() has returned.
Complete(c) ==
    /\ jobs' = Release(c, "completed")
    /\ run' = [run EXCEPT ![c] = Nil]

\* Mutant: the first attempt is not counted.
GenerousThrow(c) ==
    LET j == run[c]
    IN  /\ run' = [run EXCEPT ![c] = Nil]
        /\ \/ /\ ~Holds(c)
              /\ UNCHANGED jobs
           \/ /\ Holds(c)
              /\ jobs[j].made < Attempts
              /\ jobs' = [Release(c, "delayed") EXCEPT ![j].made = @ + 1]
           \/ /\ Holds(c)
              /\ jobs[j].made >= Attempts
              /\ jobs' = [Release(c, "failed") EXCEPT ![j].made = @ + 1]

\* process() has thrown.
Throw(c) ==
    LET j == run[c]
    IN  /\ run' = [run EXCEPT ![c] = Nil]
        /\ \/ /\ ~Holds(c)
              /\ UNCHANGED jobs
           \/ /\ Holds(c)
              /\ jobs[j].made + 1 < Attempts
              /\ jobs' = [Release(c, "delayed") EXCEPT ![j].made = @ + 1]
           \/ /\ Holds(c)
              /\ jobs[j].made + 1 >= Attempts
              /\ jobs' = [Release(c, "failed") EXCEPT ![j].made = @ + 1]

\* The backoff is over.
Promote(j) ==
    /\ jobs[j].state = "delayed"
    /\ jobs' = [jobs EXCEPT ![j].state = "waiting"]
    /\ UNCHANGED run

\* Nobody processes the active job j: the process of its holder has stopped.
Abandoned(j) == jobs[j].state = "active" /\ run[jobs[j].holder] # j

\* The lock of j has run out: it waits again, or has stalled too often.
Stall(j) ==
    /\ jobs[j].state = "active"
    /\ \/ /\ jobs[j].stalls < MaxStalls
          /\ jobs' = [jobs EXCEPT ![j].state = "waiting", ![j].holder = Nil,
                                  ![j].stalls = @ + 1]
       \/ /\ jobs[j].stalls >= MaxStalls
          /\ jobs' = [jobs EXCEPT ![j].state = "failed", ![j].holder = Nil]
    /\ UNCHANGED run

\* A process stops and is started again; its jobs keep their locks for a while.
StopProcess(p) ==
    /\ run' = [c \in Consumers |-> IF c[1] = p THEN Nil ELSE run[c]]
    /\ UNCHANGED jobs

Ended(j) == jobs[j].state \in {"completed", "failed"}

-----------------------------------------------------------------------------
(***************************************************************************)
(* A job that is added ends: it is processed, has used its attempts ("3    *)
(* retry attempts with exponential backoff", README.md) or has lost its    *)
(* lock once too often, whatever the processes that take it do.            *)
(***************************************************************************)
EveryJobEnds ==
    \A j \in JobIds : jobs[j].state \in {"waiting", "active", "delayed"} ~> Ended(j)
=============================================================================
