------------------------------ MODULE Sessions ------------------------------
(***************************************************************************)
(* SessionsService (modules/sessions/sessions.service.ts): start, stop and *)
(* updateSessionTotals over the table work_sessions.                       *)
(*                                                                         *)
(* Every request is one handler call in one of the API processes.  Between *)
(* two awaited queries of a handler any other handler may run, so each     *)
(* query is a step of its own, with the code that follows it up to the     *)
(* next query.  frame[r] holds the local variables of request r; pc[r] is  *)
(* the query it awaits:                                                    *)
(*   insert   the INSERT of startSession                                   *)
(*   totals   the findOne of updateSessionTotals                           *)
(*   load     the SELECT with which save() finds out what changed          *)
(*   update   the UPDATE and COMMIT of save()                              *)
(*   reply    nothing: all is written, the answer is not sent yet          *)
(* UPDATE and COMMIT are one step: no statement of the same transaction    *)
(* lies between them, and a second UPDATE of the row waits for the COMMIT. *)
(*                                                                         *)
(* Nothing compares the row a handler has read with the row it writes, so  *)
(* whatever another handler writes in between is lost or repeated.  Two    *)
(* history variables record where that happened; no action depends on them.*)
(***************************************************************************)
EXTENDS WorkSession

CONSTANTS
    SessionIds,   \* bound: the ids the database hands out
    Opened,       \* the sessions that exist at the start: id -> row
    ClientTimes,  \* start and end times a client may send
    MaxTime,      \* bound on the clock
    MaxInFlight,  \* bound: requests that run at the same time
    Faults        \* may a process stop, or a query fail?

ASSUME SessionsAssumption ==
    /\ None \notin SessionIds
    /\ None \notin Users
    /\ IsFiniteSet(SessionIds)
    /\ Opened \in [DOMAIN Opened -> Row]
    /\ DOMAIN Opened \subseteq SessionIds
    /\ \A s \in DOMAIN Opened :
          Opened[s].active = EmptyTally /\ Opened[s].idle = EmptyTally
    /\ \A s, q \in {t \in DOMAIN Opened : Opened[t].status = "active"} :
          Opened[s].user = Opened[q].user => s = q
    /\ ClientTimes \subseteq Int
    /\ MaxTime \in Nat
    /\ MaxInFlight \in Nat
    /\ Faults \in BOOLEAN

VARIABLES
    now,       \* the clock
    sessions,  \* the table work_sessions: id -> row, None before the INSERT
    pc,        \* where the handler of a request is
    frame,     \* its local variables
    since,     \* history: the sessions changed since it read the row it holds
    raced      \* history: the sessions written by a handler that read too early

handlers == <<now, sessions, pc, frame>>
vars == <<handlers, since, raced>>

Ops == {"none", "start", "stop", "log", "bulk"}
Awaiting == {"insert", "totals", "load", "update", "reply"}
Done == {"ok", "rejected", "failed", "lost"}

\* entity: the row object in memory;  cols: the columns its save() will write;
\* active, idle: the activities whose seconds the request adds.
Frame == [op     : Ops,
          sid    : SessionIds \cup {None},
          entity : Row \cup {None},
          cols   : SUBSET Columns,
          active : SUBSET ActivityIds,
          idle   : SUBSET ActivityIds]

NewFrame(o, s) == [op |-> o, sid |-> s, entity |-> None, cols |-> {},
                   active |-> {}, idle |-> {}]

TablesOK ==
    /\ now \in 0..MaxTime
    /\ sessions \in [SessionIds -> Row \cup {None}]
    /\ frame \in [Requests -> Frame]

HistoryOK == since \in [Requests -> SUBSET SessionIds] /\ raced \subseteq SessionIds

\* The clock, the table and the local variables have their types, and a handler
\* is at one of its queries.
TypeOK ==
    /\ TablesOK
    /\ HistoryOK
    /\ pc \in [Requests -> {"new"} \cup Awaiting \cup Done]

Init ==
    /\ now = 0
    /\ sessions = [s \in SessionIds |->
                      IF s \in DOMAIN Opened THEN Opened[s] ELSE None]
    /\ pc = [r \in Requests |-> "new"]
    /\ frame = [r \in Requests |-> NewFrame("none", None)]
    /\ since = [r \in Requests |-> {}]
    /\ raced = {}

-----------------------------------------------------------------------------
InFlight == {r \in Requests : pc[r] \notin {"new"} \cup Done}

\* findOne({ where: { user_id: u, status: ACTIVE } })
ActiveOf(u) == {s \in SessionIds : /\ sessions[s] # None
                                   /\ sessions[s].user = u
                                   /\ sessions[s].status = "active"}

\* session found, owned by the caller and not stopped
MayChange(u, s) == s \in ActiveOf(u)

\* Mutant: a time the client leaves out stays undefined.
SentTime(t) == t

\* dto.time ? new Date(dto.time) : new Date()
TimeOr(t) == IF t = None THEN now ELSE t

\* Has the request read too early: is the row it is about to write over no longer
\* the one it read, or has the user it found without a session got one?
Outdated(r) ==
    \/ pc[r] = "update" /\ frame[r].sid \in since[r]
    \/ pc[r] = "insert" /\ \E s \in since[r] : sessions[s].user = frame[r].entity.user

\* What a step of the program adds to the history.
History ==
    /\ since' = [r \in Requests |->
           IF frame[r].entity = None \/ frame'[r].entity = None THEN {}
           ELSE since[r] \cup {s \in SessionIds : sessions'[s] # sessions[s]}]
    /\ raced' = raced \cup {s \in SessionIds :
           \E r \in Requests : Outdated(r) /\ pc'[r] = "reply" /\ frame'[r].sid = s}

Arrives(r) == pc[r] = "new" /\ Cardinality(InFlight) < MaxInFlight

\* The handler of r goes on to await query p with local variables f.
Await(r, p, f) ==
    /\ pc' = [pc EXCEPT ![r] = p]
    /\ frame' = [frame EXCEPT ![r] = f]

\* The handler of r ends; a row object it held is garbage.
Finish(r, outcome) ==
    Await(r, outcome, [frame[r] EXCEPT !.entity = None, !.cols = {}])

\* Bound: startSession runs only while an id is left for its row.
IdLeft == Cardinality({s \in SessionIds : sessions[s] = None})
              > Cardinality({r \in Requests : pc[r] = "insert"})

\* Mutant: startSession without its check.
UncheckedStartSession(r, u, t) ==
    /\ Arrives(r)
    /\ IdLeft
    /\ Await(r, "insert", [NewFrame("start", None)
                              EXCEPT !.entity = NewRow(u, TimeOr(t))])
    /\ UNCHANGED <<now, sessions>>
    /\ History

\* startSession: the findOne and what follows it.
StartSession(r, u, t) ==
    /\ Arrives(r)
    /\ IdLeft
    /\ \/ /\ ActiveOf(u) # {}
          /\ Finish(r, "rejected")
       \/ /\ ActiveOf(u) = {}
          /\ Await(r, "insert", [NewFrame("start", None)
                                    EXCEPT !.entity = NewRow(u, TimeOr(t))])
    /\ UNCHANGED <<now, sessions>>
    /\ History

\* startSession: save(session) of a new row.
InsertSession(r) ==
    /\ pc[r] = "insert"
    /\ \E s \in SessionIds :
          /\ sessions[s] = None
          /\ sessions' = [sessions EXCEPT ![s] = frame[r].entity]
          /\ Await(r, "reply", NewFrame("start", s))
    /\ UNCHANGED now
    /\ History

\* stopSession: the findOne and what follows it.
StopSession(r, u, s, t) ==
    /\ Arrives(r)
    /\ \/ /\ ~MayChange(u, s)
          /\ Finish(r, "rejected")
       \/ /\ MayChange(u, s)
          /\ Await(r, "load", [NewFrame("stop", s) EXCEPT
                 !.entity = [sessions[s] EXCEPT !.status = "stopped",
                                                !.end    = TimeOr(t)]])
    /\ UNCHANGED <<now, sessions>>
    /\ History

\* A call of updateSessionTotals for a session its caller has found.  The
\* duration of a single activity is validated.
CallTotals(r, s, A, I) ==
    /\ Arrives(r)
    /\ sessions[s] # None
    /\ \A a \in A \cup I : Secs[a] > 0
    /\ Await(r, "totals", [NewFrame("log", s) EXCEPT !.active = A, !.idle = I])
    /\ UNCHANGED <<now, sessions>>
    /\ History

-----------------------------------------------------------------------------
\* Mutant: an error other than a version conflict does not leave the loop.
ForeverTotalsRead(r) ==
    LET row == sessions[frame[r].sid]
    IN  /\ pc[r] = "totals"
        /\ row.status = "active"
        /\ Await(r, "load", [frame[r] EXCEPT
               !.entity = Credited(row, frame[r].active, frame[r].idle, now)])
        /\ UNCHANGED <<now, sessions>>
        /\ History

\* Mutant: the check for a stopped session is missing.
UncheckedTotalsRead(r) ==
    /\ pc[r] = "totals"
    /\ Await(r, "load", [frame[r] EXCEPT
           !.entity = Credited(sessions[frame[r].sid],
                               frame[r].active, frame[r].idle, now)])
    /\ UNCHANGED <<now, sessions>>
    /\ History

\* updateSessionTotals: the findOne, the check and the additions.  Rows are
\* never deleted, so a session its caller found is found here.
TotalsRead(r) ==
    LET row == sessions[frame[r].sid]
    IN  /\ pc[r] = "totals"
        /\ \/ /\ row.status = "stopped"
              /\ Finish(r, "failed")
           \/ /\ row.status # "stopped"
              /\ Await(r, "load", [frame[r] EXCEPT
                     !.entity = Credited(row, frame[r].active, frame[r].idle, now)])
        /\ UNCHANGED <<now, sessions>>
        /\ History

\* save(session), first half.
SaveLoad(r) ==
    /\ pc[r] = "load"
    /\ Await(r, "update", [frame[r] EXCEPT
           !.cols = ChangedColumns(frame[r].entity, sessions[frame[r].sid])])
    /\ UNCHANGED <<now, sessions>>
    /\ History

\* Mutant: "return" is missing before "await save(session)" in the loop.
RepeatedSaveUpdate(r) ==
    LET s == frame[r].sid
    IN  /\ pc[r] = "update"
        /\ sessions' = [sessions EXCEPT
               ![s] = Written(@, frame[r].entity, frame[r].cols)]
        /\ Await(r, IF frame[r].op = "log" THEN "totals" ELSE "reply",
                 [frame[r] EXCEPT !.entity = None, !.cols = {}])
        /\ UNCHANGED now
        /\ History

\* save(session), second half.
SaveUpdate(r) ==
    LET s == frame[r].sid
    IN  /\ pc[r] = "update"
        /\ sessions' = [sessions EXCEPT
               ![s] = Written(@, frame[r].entity, frame[r].cols)]
        /\ Finish(r, "reply")
        /\ UNCHANGED now
        /\ History

\* The answer is sent.
Reply(r) ==
    /\ pc[r] = "reply"
    /\ Finish(r, "ok")
    /\ UNCHANGED <<now, sessions>>
    /\ History

\* The query a handler awaits fails (connection, pool, server) and the exception
\* filter answers 500.  Its transaction is rolled back, or, at "reply", it was
\* committed and the acknowledgement is what got lost.
QueryFails(r) ==
    /\ Faults
    /\ r \in InFlight
    /\ Finish(r, "failed")
    /\ UNCHANGED <<now, sessions>>
    /\ History

\* The container stops and is started again: whatever ran in it is gone.
Crash ==
    /\ Faults
    /\ InFlight # {}
    /\ pc' = [r \in Requests |-> IF r \in InFlight THEN "lost" ELSE pc[r]]
    /\ frame' = [r \in Requests |-> [frame[r] EXCEPT !.entity = None, !.cols = {}]]
    /\ UNCHANGED <<now, sessions>>
    /\ History

Tick ==
    /\ now < MaxTime
    /\ now' = now + 1
    /\ UNCHANGED <<sessions, pc, frame>>
    /\ History

\* All requests are answered: the model ends, the program waits.
Terminated ==
    /\ \A r \in Requests : pc[r] \in Done
    /\ UNCHANGED vars

Arrival(r) ==
    \/ \E u \in Users, t \in ClientTimes \cup {None} : StartSession(r, u, t)
    \/ \E u \in Users, s \in SessionIds, t \in ClientTimes \cup {None} :
          StopSession(r, u, s, t)
    \/ \E s \in SessionIds :
          \/ CallTotals(r, s, {<<r, 1>>}, {})
          \/ CallTotals(r, s, {}, {<<r, 1>>})

Step(r) ==
    \/ InsertSession(r)
    \/ TotalsRead(r)
    \/ SaveLoad(r)
    \/ SaveUpdate(r)
    \/ Reply(r)

Next ==
    \/ \E r \in Requests : Arrival(r) \/ Step(r) \/ QueryFails(r)
    \/ Crash
    \/ Tick
    \/ Terminated

Spec == Init /\ [][Next]_vars

\* The event loop resumes a handler whose query is answered, and the database
\* answers.  Nothing makes a client call, a process stop or the clock move.
FairSpec == Spec /\ \A r \in Requests : WF_vars(Step(r))

-----------------------------------------------------------------------------
Counted(row, a) == row.active[a] + row.idle[a]

(***************************************************************************)
(* No activity is counted twice, however saves run into each other; it is  *)
(* counted in the column it belongs to, in the session it was sent for,    *)
(* and only after its request has written (README.md, "No Double           *)
(* Counting").                                                             *)
(***************************************************************************)
CountedOnce ==
    \A s \in SessionIds : sessions[s] # None =>
        \A a \in ActivityIds : Counted(sessions[s], a) > 0 =>
            /\ Counted(sessions[s], a) = 1
            /\ frame[a[1]].sid = s
            /\ sessions[s].active[a] = 1 => a \in frame[a[1]].active
            /\ sessions[s].idle[a] = 1 => a \in frame[a[1]].idle
            /\ pc[a[1]] \in {"reply", "ok", "failed", "lost"}

\* Both columns have the seconds of request r: each of its activities is counted,
\* or the column was not to change.
HasSecondsOf(row, r) ==
    /\ Amount(frame[r].active) # 0 => \A a \in frame[r].active : row.active[a] = 1
    /\ Amount(frame[r].idle) # 0 => \A a \in frame[r].idle : row.idle[a] = 1

(***************************************************************************)
(* Once a request that adds seconds is answered with success, the session  *)
(* counts them for good, unless a save of the session was computed from a  *)
(* row that another handler changed before it was written: such a save is  *)
(* the only thing that can lose seconds.  Failures, crashes, overlapping   *)
(* requests as such and saves that leave columns out cannot.               *)
(***************************************************************************)
AccurateUnlessRaced ==
    \A r \in Requests : pc[r] = "ok" /\ frame[r].sid \notin raced =>
        HasSecondsOf(sessions[frame[r].sid], r)

(***************************************************************************)
(* As AccurateUnlessRaced, without the exception, for sessions that are    *)
(* running (README.md, "ensures accurate totals even with concurrent       *)
(* updates").                                                              *)
(***************************************************************************)
AccurateTotals ==
    \A r \in Requests :
        pc[r] = "ok" /\ sessions[frame[r].sid].status = "active" =>
            HasSecondsOf(sessions[frame[r].sid], r)

(***************************************************************************)
(* A stopped session stays as it is ("Cannot update stopped session",      *)
(* sessions.service.ts): the only step that changes its row is a save that *)
(* was computed before another handler stopped it.                         *)
(***************************************************************************)
StoppedUnlessRaced ==
    [][\A s \in SessionIds :
          sessions[s] # None /\ sessions[s].status = "stopped" =>
              \/ sessions'[s] = sessions[s]
              \/ \E r \in Requests : frame[r].sid = s /\ Outdated(r)]_vars

(***************************************************************************)
(* A user has at most one active session ("User already has an active      *)
(* session", sessions.service.ts).                                         *)
(***************************************************************************)
OneActivePerUser == \A u \in Users : Cardinality(ActiveOf(u)) <= 1

(***************************************************************************)
(* Where a user has two active sessions, one of them was inserted after a  *)
(* session of the user had appeared that its startSession did not see, or  *)
(* brought back by a save that was computed before it was stopped.         *)
(***************************************************************************)
OneActiveUnlessRaced ==
    \A u \in Users : \A s, q \in ActiveOf(u) \ raced : s = q

(***************************************************************************)
(* Every handler that has begun ends: it awaits finitely many queries, and *)
(* uploads that wait for each other's rows do not wait for ever.           *)
(***************************************************************************)
EveryRequestEnds ==
    \A r \in Requests : r \in InFlight ~> pc[r] \in Done

\* The refinement mapping: the row's status, and its two columns together.
Standing == [s \in SessionIds |->
                IF sessions[s] = None THEN "none" ELSE sessions[s].status]
Balance == [s \in SessionIds |-> [a \in ActivityIds |->
                IF sessions[s] = None THEN 0 ELSE Counted(sessions[s], a)]]

L == INSTANCE Ledger WITH Activities <- ActivityIds, overwritten <- raced,
                          standing <- Standing, credited <- Balance

(***************************************************************************)
(* The session handlers implement the ledger: whatever finds, saves,       *)
(* failures and crashes do, what is stored changes as a ledger does, and   *)
(* a save computed from a row that has changed since does no worse than    *)
(* overwrite that one entry.                                               *)
(***************************************************************************)
ImplementsLedger == L!Spec
=============================================================================
