--------------------------- MODULE SessionsProofs ---------------------------
(***************************************************************************)
(* Theorems about Sessions, for every number of requests, users, sessions  *)
(* and activities, with and without faults.                                *)
(***************************************************************************)
EXTENDS Sessions, TLAPS

-----------------------------------------------------------------------------
(* The operators of WorkSession keep rows rows. *)

\* Adding durations to a column gives a column.
LEMMA PlusType ==
    ASSUME NEW t \in Tally, NEW A
    PROVE  Plus(t, A) \in Tally
BY DEF Plus, Tally

\* A new session is a row.
LEMMA NewRowType ==
    ASSUME NEW u \in Users, NEW t \in Int
    PROVE  NewRow(u, t) \in Row
BY DEF NewRow, Row, Status, EmptyTally, Tally

\* updateSessionTotals makes a row of a row.
LEMMA CreditedType ==
    ASSUME NEW row \in Row, NEW A, NEW I, NEW t \in Int
    PROVE  Credited(row, A, I, t) \in Row
<1>1. Plus(row.active, A) \in Tally /\ Plus(row.idle, I) \in Tally
  BY PlusType DEF Row
<1> QED
  BY <1>1 DEF Credited, Row

\* save() writes a row over a row.
LEMMA WrittenType ==
    ASSUME NEW row \in Row, NEW e \in Row, NEW cols
    PROVE  Written(row, e, cols) \in Row
<1> DEFINE st == IF "status" \in cols THEN e.status ELSE row.status
           en == IF "end"    \in cols THEN e.end    ELSE row.end
           ac == IF "active" \in cols THEN e.active ELSE row.active
           id == IF "idle"   \in cols THEN e.idle   ELSE row.idle
           la == IF "last"   \in cols THEN e.last   ELSE row.last
<1>1. st \in Status /\ en \in Int \cup {None} /\ la \in Int \cup {None}
  BY DEF Row
<1>2. ac \in Tally /\ id \in Tally
  BY DEF Row
<1>3. Written(row, e, cols) = [row EXCEPT !.status = st, !.end = en, !.active = ac,
                                          !.idle = id, !.last = la]
  BY DEF Written
<1> HIDE DEF st, en, ac, id, la
<1> QED
  BY <1>1, <1>2, <1>3 DEF Row

-----------------------------------------------------------------------------
\* Where a handler may be, here and in the modules that extend Sessions.
Places == {"new", "log", "item"} \cup Awaiting \cup Done

\* Where it has a session.
Bound == {"log", "item", "totals", "load", "update"}

\* A handler that is past its first query has a session, and one that is about
\* to write has a row object.
FrameOK ==
    \A r \in Requests :
        /\ pc[r] \in Bound =>
              frame[r].sid \in SessionIds /\ sessions[frame[r].sid] \in Row
        /\ pc[r] \in {"insert", "load", "update"} => frame[r].entity \in Row

TypeInv == TablesOK /\ pc \in [Requests -> Places] /\ FrameOK

\* The types hold at the start.
LEMMA TypeInit == Init => TypeInv
<1> SUFFICES ASSUME Init PROVE TypeInv
  OBVIOUS
<1>1. now \in 0..MaxTime
  BY SessionsAssumption DEF Init
<1>2. sessions \in [SessionIds -> Row \cup {None}]
  BY SessionsAssumption DEF Init
<1>3. frame \in [Requests -> Frame]
  BY SessionsAssumption DEF Init, NewFrame, Frame, Ops
<1>4. pc \in [Requests -> Places]
  BY DEF Init, Places
<1>5. FrameOK
  BY DEF Init, FrameOK, Bound
<1> QED
  BY <1>1, <1>2, <1>3, <1>4, <1>5 DEF TypeInv, TablesOK

\* A handler that goes on from one query to the next keeps the types, if its new
\* local variables are what the next query needs and no row is lost.
LEMMA AwaitType ==
    ASSUME TypeInv,
           NEW r \in Requests, NEW p \in Places, NEW f \in Frame,
           Await(r, p, f),
           now' \in 0..MaxTime,
           sessions' \in [SessionIds -> Row \cup {None}],
           \A s \in SessionIds : sessions[s] \in Row => sessions'[s] \in Row,
           p \in Bound =>
               f.sid \in SessionIds /\ sessions'[f.sid] \in Row,
           p \in {"insert", "load", "update"} => f.entity \in Row
    PROVE  TypeInv'
<1>1. pc' = [pc EXCEPT ![r] = p] /\ frame' = [frame EXCEPT ![r] = f]
  BY DEF Await
<1>2. TablesOK' /\ pc' \in [Requests -> Places]
  BY <1>1 DEF TypeInv, TablesOK
<1>3. FrameOK'
  <2> SUFFICES ASSUME NEW q \in Requests
               PROVE  /\ pc'[q] \in Bound =>
                            frame'[q].sid \in SessionIds /\ sessions'[frame'[q].sid] \in Row
                      /\ pc'[q] \in {"insert", "load", "update"} => frame'[q].entity \in Row
    BY DEF FrameOK
  <2>1. CASE q = r
    BY <1>1, <2>1 DEF TypeInv, TablesOK
  <2>2. CASE q # r
    <3>1. pc'[q] = pc[q] /\ frame'[q] = frame[q]
      BY <1>1, <2>2 DEF TypeInv, TablesOK
    <3> QED
      BY <3>1 DEF TypeInv, FrameOK
  <2> QED
    BY <2>1, <2>2
<1> QED
  BY <1>2, <1>3 DEF TypeInv

\* So does a handler that ends, whatever it wrote before.
LEMMA FinishType ==
    ASSUME TypeInv,
           NEW r \in Requests, NEW p \in Done \cup {"reply"},
           Finish(r, p),
           now' \in 0..MaxTime,
           sessions' \in [SessionIds -> Row \cup {None}],
           \A s \in SessionIds : sessions[s] \in Row => sessions'[s] \in Row
    PROVE  TypeInv'
<1>1. frame[r] \in Frame
  BY DEF TypeInv, TablesOK
<1>2. [frame[r] EXCEPT !.entity = None, !.cols = {}] \in Frame
  BY <1>1 DEF Frame
<1>3. p \in Places /\ p \notin Bound \cup {"insert", "load", "update"}
  BY DEF Places, Awaiting, Done, Bound
<1> QED
  BY <1>2, <1>3, AwaitType DEF Finish

\* A time is a number, whether the client sends it or not.
LEMMA TimeOrType ==
    ASSUME TypeInv, NEW t \in ClientTimes \cup {None}
    PROVE  TimeOr(t) \in Int
BY SessionsAssumption DEF TimeOr, TypeInv, TablesOK

\* The first step of a handler keeps the types.
LEMMA ArrivalType ==
    ASSUME TypeInv, NEW r \in Requests, Arrival(r) PROVE TypeInv'
<1>0. /\ sessions \in [SessionIds -> Row \cup {None}]
      /\ now \in 0..MaxTime
  BY DEF TypeInv, TablesOK
<1>1. ASSUME NEW u \in Users, NEW t \in ClientTimes \cup {None}, StartSession(r, u, t)
      PROVE  TypeInv'
  <2>0. UNCHANGED <<now, sessions>>
    BY <1>1 DEF StartSession
  <2>1. CASE Finish(r, "rejected")
    BY <1>0, <2>0, <2>1, FinishType DEF Done
  <2>2. CASE Await(r, "insert", [NewFrame("start", None) EXCEPT !.entity = NewRow(u, TimeOr(t))])
    <3>1. NewRow(u, TimeOr(t)) \in Row
      BY TimeOrType, NewRowType
    <3>2. [NewFrame("start", None) EXCEPT !.entity = NewRow(u, TimeOr(t))] \in Frame
      BY <3>1, <1>0 DEF NewFrame, Frame, Ops
    <3>3. [NewFrame("start", None) EXCEPT !.entity = NewRow(u, TimeOr(t))].entity \in Row
      BY <3>1 DEF NewFrame
    <3> QED
      BY <1>0, <2>0, <2>2, <3>2, <3>3, AwaitType DEF Places, Awaiting, Bound
  <2> QED
    BY <1>1, <2>1, <2>2 DEF StartSession
<1>2. ASSUME NEW u \in Users, NEW s \in SessionIds, NEW t \in ClientTimes \cup {None},
             StopSession(r, u, s, t)
      PROVE  TypeInv'
  <2> DEFINE e == [sessions[s] EXCEPT !.status = "stopped", !.end = TimeOr(t)]
             f == [NewFrame("stop", s) EXCEPT !.entity = e]
  <2>0. UNCHANGED <<now, sessions>>
    BY <1>2 DEF StopSession
  <2>1. CASE Finish(r, "rejected")
    BY <1>0, <2>0, <2>1, FinishType DEF Done
  <2>2. CASE MayChange(u, s) /\ Await(r, "load", f)
    <3>1. sessions[s] \in Row
      BY <1>0, <2>2 DEF MayChange, ActiveOf
    <3>2. e \in Row
      BY <3>1, TimeOrType DEF Row, Status
    <3>3. f \in Frame /\ f.entity = e /\ f.sid = s
      BY <3>2, <1>0 DEF NewFrame, Frame, Ops
    <3> QED
      BY <1>0, <2>0, <2>2, <3>1, <3>2, <3>3, AwaitType DEF Places, Awaiting, Bound
  <2> QED
    BY <1>2, <2>1, <2>2 DEF StopSession
<1>3. ASSUME NEW s \in SessionIds, NEW A \in SUBSET ActivityIds, NEW I \in SUBSET ActivityIds,
             CallTotals(r, s, A, I)
      PROVE  TypeInv'
  <2> DEFINE f == [NewFrame("log", s) EXCEPT !.active = A, !.idle = I]
  <2>0. UNCHANGED <<now, sessions>>
    BY <1>3 DEF CallTotals
  <2>1. f \in Frame /\ f.sid = s
    BY <1>0 DEF NewFrame, Frame, Ops
  <2>2. sessions[s] \in Row
    BY <1>0, <1>3 DEF CallTotals
  <2>3. Await(r, "totals", f)
    BY <1>3 DEF CallTotals
  <2> QED
    BY <1>0, <2>0, <2>1, <2>2, <2>3, AwaitType DEF Places, Awaiting, Bound
<1>4. {<<r, 1>>} \in SUBSET ActivityIds /\ {} \in SUBSET ActivityIds
  BY ConstantsAssumption DEF ActivityIds
<1> QED
  BY <1>1, <1>2, <1>3, <1>4 DEF Arrival

\* Every further step of a handler keeps the types.
LEMMA StepType ==
    ASSUME TypeInv, NEW r \in Requests, Step(r) PROVE TypeInv'
<1> DEFINE f == frame[r]
           s == f.sid
<1>0. /\ sessions \in [SessionIds -> Row \cup {None}]
      /\ now \in 0..MaxTime /\ now \in Int
      /\ f \in Frame
      /\ pc[r] \in {"totals", "load", "update"} => s \in SessionIds /\ sessions[s] \in Row
      /\ pc[r] \in {"insert", "load", "update"} => f.entity \in Row
  BY SessionsAssumption DEF TypeInv, TablesOK, FrameOK, Bound
<1> HIDE DEF f, s
<1>1. CASE InsertSession(r)
  <2>1. pc[r] = "insert" /\ now' = now
    BY <1>1 DEF InsertSession
  <2>2. PICK n \in SessionIds : /\ sessions' = [sessions EXCEPT ![n] = f.entity]
                                /\ Await(r, "reply", NewFrame("start", n))
    BY <1>1 DEF InsertSession, f
  <2>3. NewFrame("start", n) \in Frame
    BY SessionsAssumption DEF NewFrame, Frame, Ops
  <2>4. /\ sessions' \in [SessionIds -> Row \cup {None}]
        /\ \A k \in SessionIds : sessions[k] \in Row => sessions'[k] \in Row
    BY <1>0, <2>1, <2>2
  <2> QED
    BY <1>0, <2>1, <2>2, <2>3, <2>4, AwaitType DEF Places, Awaiting, Bound
<1>2. CASE TotalsRead(r)
  <2> DEFINE e == Credited(sessions[s], f.active, f.idle, now)
  <2>0. pc[r] = "totals" /\ UNCHANGED <<now, sessions>>
    BY <1>2 DEF TotalsRead
  <2>1. CASE Finish(r, "failed")
    BY <1>0, <2>0, <2>1, FinishType DEF Done
  <2>2. CASE Await(r, "load", [f EXCEPT !.entity = e])
    <3>1. e \in Row
      BY <1>0, <2>0, CreditedType
    <3>2. /\ [f EXCEPT !.entity = e] \in Frame
          /\ [f EXCEPT !.entity = e].sid = s
          /\ [f EXCEPT !.entity = e].entity = e
      BY <1>0, <3>1 DEF Frame, s
    <3> QED
      BY <1>0, <2>0, <2>2, <3>1, <3>2, AwaitType DEF Places, Awaiting, Bound
  <2> QED
    BY <1>2, <2>1, <2>2 DEF TotalsRead, f, s
<1>3. CASE SaveLoad(r)
  <2> DEFINE g == [f EXCEPT !.cols = ChangedColumns(f.entity, sessions[s])]
  <2>1. pc[r] = "load" /\ UNCHANGED <<now, sessions>> /\ Await(r, "update", g)
    BY <1>3 DEF SaveLoad, f, s
  <2>2. ChangedColumns(f.entity, sessions[s]) \subseteq Columns
    BY DEF ChangedColumns, Columns
  <2>3. g \in Frame /\ g.sid = s /\ g.entity = f.entity
    BY <1>0, <2>2 DEF Frame, s
  <2> QED
    BY <1>0, <2>1, <2>3, AwaitType DEF Places, Awaiting, Bound
<1>4. CASE SaveUpdate(r)
  <2>1. /\ pc[r] = "update" /\ now' = now /\ Finish(r, "reply")
        /\ sessions' = [sessions EXCEPT ![s] = Written(sessions[s], f.entity, f.cols)]
    BY <1>4 DEF SaveUpdate, f, s
  <2>2. Written(sessions[s], f.entity, f.cols) \in Row
    BY <1>0, <2>1, WrittenType
  <2>3. /\ sessions' \in [SessionIds -> Row \cup {None}]
        /\ \A k \in SessionIds : sessions[k] \in Row => sessions'[k] \in Row
    BY <1>0, <2>1, <2>2
  <2> QED
    BY <1>0, <2>1, <2>3, FinishType
<1>5. CASE Reply(r)
  <2>1. Finish(r, "ok") /\ UNCHANGED <<now, sessions>>
    BY <1>5 DEF Reply
  <2> QED
    BY <1>0, <2>1, FinishType DEF Done
<1> QED
  BY <1>1, <1>2, <1>3, <1>4, <1>5 DEF Step

\* A query that fails, a crash and the clock keep the types.
LEMMA FaultType ==
    ASSUME TypeInv, (\E r \in Requests : QueryFails(r)) \/ Crash \/ Tick PROVE TypeInv'
<1>0. /\ sessions \in [SessionIds -> Row \cup {None}]
      /\ now \in 0..MaxTime
      /\ frame \in [Requests -> Frame]
      /\ pc \in [Requests -> Places]
  BY DEF TypeInv, TablesOK, Places
<1>1. ASSUME NEW r \in Requests, QueryFails(r) PROVE TypeInv'
  <2>1. Finish(r, "failed") /\ UNCHANGED <<now, sessions>>
    BY <1>1 DEF QueryFails
  <2> QED
    BY <1>0, <2>1, FinishType DEF Done
<1>2. CASE Crash
  <2>1. /\ pc' = [r \in Requests |-> IF r \in InFlight THEN "lost" ELSE pc[r]]
        /\ frame' = [r \in Requests |-> [frame[r] EXCEPT !.entity = None, !.cols = {}]]
        /\ UNCHANGED <<now, sessions>>
    BY <1>2 DEF Crash
  <2>2. \A r \in Requests : pc'[r] \in {"new"} \cup Done
    BY <1>0, <2>1 DEF InFlight, Done
  <2>3. \A r \in Requests : [frame[r] EXCEPT !.entity = None, !.cols = {}] \in Frame
    BY <1>0 DEF Frame
  <2>4. frame' \in [Requests -> Frame]
    BY <2>1, <2>3
  <2>5. pc' \in [Requests -> Places]
    BY <2>1, <2>2 DEF Places
  <2> QED
    BY <1>0, <2>1, <2>2, <2>4, <2>5 DEF TypeInv, TablesOK, FrameOK, Bound, Done
<1>3. CASE Tick
  <2>1. now' \in 0..MaxTime
    BY <1>0, <1>3, SessionsAssumption DEF Tick
  <2> QED
    BY <1>3, <2>1 DEF Tick, TypeInv, TablesOK, FrameOK
<1> QED
  BY <1>1, <1>2, <1>3

\* Every step keeps the types.
LEMMA TypeNext == TypeInv /\ [Next]_vars => TypeInv'
<1>1. ASSUME TypeInv, UNCHANGED vars PROVE TypeInv'
  BY <1>1 DEF vars, handlers, TypeInv, TablesOK, FrameOK
<1> QED
  BY <1>1, ArrivalType, StepType, FaultType DEF Next, Terminated

(***************************************************************************)
(* Clock, table and local variables keep their types, and a handler about  *)
(* to save holds a row object of a session that exists.                    *)
(***************************************************************************)
THEOREM TypeInvariant == Spec => []TypeInv
BY TypeInit, TypeNext, PTL DEF Spec

\* No handler of Sessions is at a query of another module.
AtOwnQuery == pc \in [Requests -> {"new"} \cup Awaiting \cup Done]

LEMMA OwnQueryNext == AtOwnQuery /\ [Next]_vars => AtOwnQuery'
<1> SUFFICES ASSUME AtOwnQuery, [Next]_vars PROVE AtOwnQuery'
  OBVIOUS
<1> USE DEF AtOwnQuery
<1>1. ASSUME NEW r \in Requests, NEW p \in Awaiting \cup Done, NEW f, Await(r, p, f)
      PROVE  AtOwnQuery'
  BY <1>1 DEF Await
<1>2. ASSUME NEW r \in Requests, Arrival(r) \/ Step(r) \/ QueryFails(r)
      PROVE  \E p \in Awaiting \cup Done : \E f : Await(r, p, f)
  BY <1>2 DEF Arrival, StartSession, StopSession, CallTotals, Step, InsertSession,
              TotalsRead, SaveLoad, SaveUpdate, Reply, QueryFails,
              Finish, Awaiting, Done
<1>3. CASE Crash
  BY <1>3 DEF Crash, Done
<1>4. CASE Tick \/ UNCHANGED vars
  BY <1>4 DEF Tick, vars, handlers
<1> QED
  BY <1>1, <1>2, <1>3, <1>4 DEF Next, Terminated

\* Whatever a step does is recorded.
LEMMA NextHistory == [Next]_vars => History \/ UNCHANGED vars
<1>1. ASSUME NEW r \in Requests, Arrival(r) \/ Step(r) \/ QueryFails(r) PROVE History
  BY <1>1 DEF Arrival, StartSession, StopSession, CallTotals, Step, InsertSession,
              TotalsRead, SaveLoad, SaveUpdate, Reply, QueryFails
<1>2. Crash \/ Tick => History
  BY DEF Crash, Tick
<1> QED
  BY <1>1, <1>2 DEF Next, Terminated

\* The history has its types.
LEMMA HistoryType == HistoryOK /\ (History \/ UNCHANGED vars) => HistoryOK'
BY DEF HistoryOK, History, vars

LEMMA HistoryInit == Init => HistoryOK
BY DEF Init, HistoryOK

(***************************************************************************)
(* Type correctness of the session handlers.                               *)
(***************************************************************************)
THEOREM TypeCorrect == Spec => []TypeOK
<1>1. Init => AtOwnQuery /\ HistoryOK
  BY HistoryInit DEF Init, AtOwnQuery
<1>2. TypeInv /\ AtOwnQuery /\ HistoryOK => TypeOK
  BY DEF TypeInv, AtOwnQuery, TypeOK
<1> QED
  BY <1>1, <1>2, OwnQueryNext, NextHistory, HistoryType, TypeInvariant, PTL DEF Spec

-----------------------------------------------------------------------------
(***************************************************************************)
(* No double counting.  CountedOnce is not inductive: it speaks of the     *)
(* table, and what a save writes was computed earlier, in a row object of  *)
(* the handler.  The inductive invariant says of every row object what     *)
(* CountedOnce says of the rows: it counts what settled requests added,    *)
(* each activity once, and besides these only its own request's.           *)
(***************************************************************************)

\* A request at one of these places will not write any more.
Settled == {"reply", "ok", "failed", "lost"}

\* Row object row of session s counts, each once and in its column, activities
\* of settled requests and of the requests R; p and f are pc and frame.
Sound(row, s, R, p, f) ==
    \A a \in ActivityIds :
        /\ row.active[a] # 0 =>
              /\ row.active[a] = 1
              /\ a \in f[a[1]].active
              /\ f[a[1]].sid = s
              /\ a[1] \in R \/ p[a[1]] \in Settled
        /\ row.idle[a] # 0 =>
              /\ row.idle[a] = 1
              /\ a \in f[a[1]].idle
              /\ f[a[1]].sid = s
              /\ a[1] \in R \/ p[a[1]] \in Settled

\* The activities f adds are those of request r, and none is both active and idle.
OwnAdds(f, r) == /\ f.active \cap f.idle = {}
                 /\ \A a \in f.active \cup f.idle : a[1] = r

\* A row object that counts nothing.
Uncounted(row) == \A a \in ActivityIds : row.active[a] = 0 /\ row.idle[a] = 0

AddsInv == \A r \in Requests : OwnAdds(frame[r], r)
RowsInv == \A s \in SessionIds : sessions[s] # None => Sound(sessions[s], s, {}, pc, frame)
EntitiesInv ==
    \A r \in Requests :
        /\ pc[r] \in {"load", "update"} =>
              Sound(frame[r].entity, frame[r].sid, {r}, pc, frame)
        /\ pc[r] = "insert" => Uncounted(frame[r].entity)

CountInv == AddsInv /\ RowsInv /\ EntitiesInv

\* What a step of r does not take away from a sound row object: r has not
\* settled before, or it stays settled and keeps its session and activities.
Keeps(r, p, f) ==
    pc[r] \in Settled => /\ p \in Settled
                         /\ f.sid = frame[r].sid
                         /\ f.active = frame[r].active
                         /\ f.idle = frame[r].idle

\* A row object without r's activities stays sound when r takes a step.
LEMMA SoundForOthers ==
    ASSUME TypeInv, NEW r \in Requests, NEW p, NEW f, Await(r, p, f), Keeps(r, p, f),
           NEW row, NEW s, NEW R \in SUBSET Requests, r \notin R,
           NEW S \in SUBSET Requests, R \subseteq S,
           Sound(row, s, R, pc, frame)
    PROVE  Sound(row, s, S, pc', frame')
<1> SUFFICES ASSUME NEW a \in ActivityIds, row.active[a] # 0 \/ row.idle[a] # 0
             PROVE  /\ frame'[a[1]].active = frame[a[1]].active
                    /\ frame'[a[1]].idle = frame[a[1]].idle
                    /\ frame'[a[1]].sid = frame[a[1]].sid
                    /\ a[1] \in R \/ pc[a[1]] \in Settled => a[1] \in S \/ pc'[a[1]] \in Settled
  BY DEF Sound
<1>1. a[1] \in Requests
  BY DEF ActivityIds
<1>2. a[1] \in R \/ pc[a[1]] \in Settled
  BY DEF Sound
<1>3. pc' = [pc EXCEPT ![r] = p] /\ frame' = [frame EXCEPT ![r] = f]
  BY DEF Await
<1>4. CASE a[1] = r
  BY <1>1, <1>2, <1>3, <1>4 DEF Keeps, TypeInv, TablesOK
<1>5. CASE a[1] # r
  BY <1>1, <1>2, <1>3, <1>5 DEF TypeInv, TablesOK
<1> QED
  BY <1>4, <1>5

\* A row object with r's activities stays sound when r takes a step, provided r
\* keeps its session and activities, and settles or is still among those allowed.
LEMMA SoundForOwner ==
    ASSUME TypeInv, NEW r \in Requests, NEW p, NEW f, Await(r, p, f),
           f.sid = frame[r].sid, f.active = frame[r].active, f.idle = frame[r].idle,
           NEW row, NEW s, NEW S, p \in Settled \/ r \in S,
           Sound(row, s, {r}, pc, frame)
    PROVE  Sound(row, s, S, pc', frame')
<1> SUFFICES ASSUME NEW a \in ActivityIds, row.active[a] # 0 \/ row.idle[a] # 0
             PROVE  /\ frame'[a[1]].active = frame[a[1]].active
                    /\ frame'[a[1]].idle = frame[a[1]].idle
                    /\ frame'[a[1]].sid = frame[a[1]].sid
                    /\ a[1] \in S \/ pc'[a[1]] \in Settled
  BY DEF Sound
<1>1. a[1] \in Requests
  BY DEF ActivityIds
<1>2. a[1] = r \/ pc[a[1]] \in Settled
  BY DEF Sound
<1>3. pc' = [pc EXCEPT ![r] = p] /\ frame' = [frame EXCEPT ![r] = f]
  BY DEF Await
<1>4. CASE a[1] = r
  BY <1>1, <1>3, <1>4 DEF TypeInv, TablesOK
<1>5. CASE a[1] # r
  BY <1>1, <1>2, <1>3, <1>5 DEF TypeInv, TablesOK
<1> QED
  BY <1>4, <1>5

\* The invariant after a step of r, if the rows are sound and so is r's own row
\* object.
LEMMA CountAwait ==
    ASSUME TypeInv, CountInv, NEW r \in Requests, NEW p, NEW f,
           Await(r, p, f), Keeps(r, p, f), OwnAdds(f, r),
           \A s \in SessionIds : sessions'[s] # None => Sound(sessions'[s], s, {}, pc', frame'),
           p \in {"load", "update"} => Sound(f.entity, f.sid, {r}, pc', frame'),
           p = "insert" => Uncounted(f.entity)
    PROVE  CountInv'
<1>1. pc' = [pc EXCEPT ![r] = p] /\ frame' = [frame EXCEPT ![r] = f]
  BY DEF Await
<1>2. AddsInv'
  BY <1>1 DEF AddsInv, CountInv, TypeInv, TablesOK
<1>3. RowsInv'
  BY DEF RowsInv
<1>4. EntitiesInv'
  <2> SUFFICES ASSUME NEW q \in Requests
               PROVE  /\ pc'[q] \in {"load", "update"} =>
                            Sound(frame'[q].entity, frame'[q].sid, {q}, pc', frame')
                      /\ pc'[q] = "insert" => Uncounted(frame'[q].entity)
    BY DEF EntitiesInv
  <2>1. CASE q = r
    <3>1. pc'[q] = p /\ frame'[q] = f
      BY <1>1, <2>1 DEF TypeInv, TablesOK
    <3> QED
      BY <2>1, <3>1
  <2>2. CASE q # r
    <3>1. pc'[q] = pc[q] /\ frame'[q] = frame[q]
      BY <1>1, <2>2 DEF TypeInv, TablesOK
    <3>2. ASSUME pc[q] \in {"load", "update"}
          PROVE  Sound(frame[q].entity, frame[q].sid, {q}, pc', frame')
      <4>1. Sound(frame[q].entity, frame[q].sid, {q}, pc, frame)
        BY <3>2 DEF CountInv, EntitiesInv
      <4>2. {q} \in SUBSET Requests /\ r \notin {q} /\ {q} \subseteq {q}
        BY <2>2
      <4> QED
        BY <4>1, <4>2, SoundForOthers
    <3> QED
      BY <3>1, <3>2 DEF CountInv, EntitiesInv
  <2> QED
    BY <2>1, <2>2
<1> QED
  BY <1>2, <1>3, <1>4 DEF CountInv

\* The rows a step leaves alone stay sound.
LEMMA RowsKept ==
    ASSUME TypeInv, CountInv, NEW r \in Requests, NEW p, NEW f,
           Await(r, p, f), Keeps(r, p, f),
           NEW s \in SessionIds, sessions[s] # None
    PROVE  Sound(sessions[s], s, {}, pc', frame')
<1>1. Sound(sessions[s], s, {}, pc, frame)
  BY DEF CountInv, RowsInv
<1>2. {} \in SUBSET Requests /\ r \notin {} /\ {} \subseteq {}
  OBVIOUS
<1> QED
  BY <1>1, <1>2, SoundForOthers

\* A handler that ends without a write.
LEMMA CountFinish ==
    ASSUME TypeInv, CountInv, NEW r \in Requests, NEW p \in Done,
           Finish(r, p), UNCHANGED sessions, pc[r] \in Settled => p \in Settled
    PROVE  CountInv'
<1> DEFINE f == [frame[r] EXCEPT !.entity = None, !.cols = {}]
<1>1. f.sid = frame[r].sid /\ f.active = frame[r].active /\ f.idle = frame[r].idle
  BY DEF TypeInv, TablesOK, Frame
<1>2. Await(r, p, f) /\ Keeps(r, p, f) /\ OwnAdds(f, r)
  BY <1>1 DEF Finish, Keeps, OwnAdds, CountInv, AddsInv
<1>3. p \notin {"load", "update", "insert"}
  BY DEF Done
<1> HIDE DEF f
<1>4. \A s \in SessionIds : sessions'[s] # None => Sound(sessions'[s], s, {}, pc', frame')
  BY <1>2, RowsKept
<1> QED
  BY <1>2, <1>3, <1>4, CountAwait

\* At the start no session counts anything.
LEMMA CountInit == Init => CountInv
<1> SUFFICES ASSUME Init PROVE CountInv
  OBVIOUS
<1>1. AddsInv
  BY DEF Init, AddsInv, OwnAdds, NewFrame
<1>2. RowsInv
  <2>1. \A s \in SessionIds : sessions[s] # None => Uncounted(sessions[s])
    BY SessionsAssumption DEF Init, Uncounted, EmptyTally
  <2> QED
    BY <2>1 DEF RowsInv, Sound, Uncounted
<1>3. EntitiesInv
  BY DEF Init, EntitiesInv
<1> QED
  BY <1>1, <1>2, <1>3 DEF CountInv

\* The first step of a handler.
LEMMA CountArrival ==
    ASSUME TypeInv, CountInv, NEW r \in Requests, Arrival(r) PROVE CountInv'
<1>0. /\ sessions \in [SessionIds -> Row \cup {None}]
      /\ pc[r] = "new" /\ pc[r] \notin Settled
  <2>1. pc[r] = "new"
    BY DEF Arrival, StartSession, StopSession, CallTotals, Arrives
  <2> QED
    BY <2>1 DEF TypeInv, TablesOK, Settled
<1>1. ASSUME NEW u \in Users, NEW t \in ClientTimes \cup {None}, StartSession(r, u, t)
      PROVE  CountInv'
  <2> DEFINE f == [NewFrame("start", None) EXCEPT !.entity = NewRow(u, TimeOr(t))]
  <2>0. UNCHANGED sessions
    BY <1>1 DEF StartSession
  <2>1. CASE Finish(r, "rejected")
    BY <1>0, <2>0, <2>1, CountFinish DEF Done
  <2>2. CASE Await(r, "insert", f)
    <3>1. f.active = {} /\ f.idle = {} /\ f.entity = NewRow(u, TimeOr(t))
      BY DEF NewFrame
    <3>2. OwnAdds(f, r) /\ Uncounted(f.entity) /\ Keeps(r, "insert", f)
      BY <1>0, <3>1 DEF OwnAdds, Uncounted, NewRow, EmptyTally, Keeps
    <3> HIDE DEF f
    <3>3. \A s \in SessionIds : sessions'[s] # None => Sound(sessions'[s], s, {}, pc', frame')
      BY <2>0, <2>2, <3>2, RowsKept
    <3> QED
      BY <2>2, <3>2, <3>3, CountAwait
  <2> QED
    BY <1>1, <2>1, <2>2 DEF StartSession
<1>2. ASSUME NEW u \in Users, NEW s \in SessionIds, NEW t \in ClientTimes \cup {None},
             StopSession(r, u, s, t)
      PROVE  CountInv'
  <2> DEFINE e == [sessions[s] EXCEPT !.status = "stopped", !.end = TimeOr(t)]
             f == [NewFrame("stop", s) EXCEPT !.entity = e]
  <2>0. UNCHANGED sessions
    BY <1>2 DEF StopSession
  <2>1. CASE Finish(r, "rejected")
    BY <1>0, <2>0, <2>1, CountFinish DEF Done
  <2>2. CASE MayChange(u, s) /\ Await(r, "load", f)
    <3>1. sessions[s] # None /\ sessions[s] \in Row
      BY <1>0, <2>2 DEF MayChange, ActiveOf
    <3>2. f.active = {} /\ f.idle = {} /\ f.entity = e /\ f.sid = s
      BY DEF NewFrame
    <3>3. e.active = sessions[s].active /\ e.idle = sessions[s].idle
      BY <3>1 DEF Row
    <3>4. OwnAdds(f, r) /\ Keeps(r, "load", f)
      BY <1>0, <3>2 DEF OwnAdds, Keeps
    <3> HIDE DEF e, f
    <3>5. \A q \in SessionIds : sessions'[q] # None => Sound(sessions'[q], q, {}, pc', frame')
      BY <2>0, <2>2, <3>4, RowsKept
    <3>6. Sound(f.entity, f.sid, {r}, pc', frame')
      BY <2>0, <3>1, <3>2, <3>3, <3>5 DEF Sound
    <3> QED
      BY <2>2, <3>4, <3>5, <3>6, CountAwait
  <2> QED
    BY <1>2, <2>1, <2>2 DEF StopSession
<1>3. ASSUME NEW s \in SessionIds, NEW A, NEW I, A \cap I = {},
             \A a \in A \cup I : a[1] = r,
             CallTotals(r, s, A, I)
      PROVE  CountInv'
  <2> DEFINE f == [NewFrame("log", s) EXCEPT !.active = A, !.idle = I]
  <2>0. UNCHANGED sessions /\ Await(r, "totals", f)
    BY <1>3 DEF CallTotals
  <2>1. f.active = A /\ f.idle = I
    BY DEF NewFrame
  <2>2. OwnAdds(f, r) /\ Keeps(r, "totals", f)
    BY <1>0, <1>3, <2>1 DEF OwnAdds, Keeps
  <2> HIDE DEF f
  <2>3. \A q \in SessionIds : sessions'[q] # None => Sound(sessions'[q], q, {}, pc', frame')
    BY <2>0, <2>2, RowsKept
  <2> QED
    BY <2>0, <2>2, <2>3, CountAwait
<1>4. /\ {<<r, 1>>} \cap {} = {} /\ {} \cap {<<r, 1>>} = {}
      /\ \A a \in {<<r, 1>>} \cup {} : a[1] = r
      /\ \A a \in {} \cup {<<r, 1>>} : a[1] = r
  OBVIOUS
<1> QED
  BY <1>1, <1>2, <1>3, <1>4 DEF Arrival

\* Adding the activities of a request that has not settled to a sound row.
LEMMA CreditedSound ==
    ASSUME NEW row \in Row, NEW s, NEW r \in Requests, NEW t, NEW p, NEW f,
           p[r] \notin Settled, OwnAdds(f[r], r), f[r].sid = s,
           Sound(row, s, {}, p, f)
    PROVE  Sound(Credited(row, f[r].active, f[r].idle, t), s, {r}, p, f)
<1> DEFINE e == Credited(row, f[r].active, f[r].idle, t)
<1>1. e.active = Plus(row.active, f[r].active) /\ e.idle = Plus(row.idle, f[r].idle)
  BY DEF Credited, Row
<1>2. ASSUME NEW a \in f[r].active \cup f[r].idle, a \in ActivityIds
      PROVE  a[1] = r /\ row.active[a] = 0 /\ row.idle[a] = 0
  BY <1>2 DEF Sound, OwnAdds
<1> HIDE DEF e
<1>3. \A a \in ActivityIds :
        /\ e.active[a] = IF a \in f[r].active THEN row.active[a] + 1 ELSE row.active[a]
        /\ e.idle[a] = IF a \in f[r].idle THEN row.idle[a] + 1 ELSE row.idle[a]
  BY <1>1 DEF Plus
<1>4. Sound(e, s, {r}, p, f)
  BY <1>2, <1>3 DEF Sound
<1> QED
  BY <1>4 DEF e

\* Every column save() writes, and every column it leaves, is sound.
LEMMA WrittenSound ==
    ASSUME NEW row \in Row, NEW e \in Row, NEW cols, NEW s, NEW p, NEW f,
           Sound(row, s, {}, p, f), Sound(e, s, {}, p, f)
    PROVE  Sound(Written(row, e, cols), s, {}, p, f)
<1>1. /\ Written(row, e, cols).active \in {row.active, e.active}
      /\ Written(row, e, cols).idle \in {row.idle, e.idle}
  BY DEF Written, Row
<1> QED
  BY <1>1 DEF Sound

\* Every further step of a handler.
LEMMA CountStep ==
    ASSUME TypeInv, CountInv, NEW r \in Requests, Step(r) PROVE CountInv'
<1> DEFINE f == frame[r]
           s == f.sid
<1>0. /\ sessions \in [SessionIds -> Row \cup {None}]
      /\ f \in Frame
      /\ pc[r] \in {"totals", "load", "update"} => s \in SessionIds /\ sessions[s] \in Row
      /\ pc[r] \in {"insert", "load", "update"} => f.entity \in Row
      /\ OwnAdds(f, r)
      /\ \A q \in SessionIds : sessions[q] # None => Sound(sessions[q], q, {}, pc, frame)
      /\ pc[r] \in {"load", "update"} => Sound(f.entity, s, {r}, pc, frame)
  BY DEF TypeInv, TablesOK, FrameOK, Bound, CountInv, AddsInv, RowsInv, EntitiesInv
<1> HIDE DEF f, s
<1>1. CASE InsertSession(r)
  <2>1. pc[r] = "insert" /\ pc[r] \notin Settled
    BY <1>1 DEF InsertSession, Settled
  <2>2. PICK n \in SessionIds : /\ sessions' = [sessions EXCEPT ![n] = f.entity]
                                /\ Await(r, "reply", NewFrame("start", n))
    BY <1>1 DEF InsertSession, f
  <2>3. OwnAdds(NewFrame("start", n), r) /\ Keeps(r, "reply", NewFrame("start", n))
    BY <2>1 DEF OwnAdds, NewFrame, Keeps
  <2>4. Uncounted(f.entity)
    BY <2>1 DEF CountInv, EntitiesInv, f
  <2>5. \A q \in SessionIds : sessions'[q] # None => Sound(sessions'[q], q, {}, pc', frame')
    <3> SUFFICES ASSUME NEW q \in SessionIds, sessions'[q] # None
                 PROVE  Sound(sessions'[q], q, {}, pc', frame')
      OBVIOUS
    <3>1. CASE q = n
      BY <1>0, <2>2, <2>4, <3>1 DEF Sound, Uncounted
    <3>2. CASE q # n
      <4>1. sessions'[q] = sessions[q]
        BY <1>0, <2>2, <3>2
      <4> QED
        BY <2>2, <2>3, <4>1, RowsKept
    <3> QED
      BY <3>1, <3>2
  <2> QED
    BY <2>2, <2>3, <2>5, CountAwait
<1>2. CASE TotalsRead(r)
  <2> DEFINE e == Credited(sessions[s], f.active, f.idle, now)
             g == [f EXCEPT !.entity = e]
  <2>0. pc[r] = "totals" /\ pc[r] \notin Settled /\ UNCHANGED sessions
    BY <1>2 DEF TotalsRead, Settled
  <2>1. CASE Finish(r, "failed")
    BY <2>0, <2>1, CountFinish DEF Done
  <2>2. CASE Await(r, "load", g)
    <3>1. g.active = f.active /\ g.idle = f.idle /\ g.sid = s /\ g.entity = e
      BY <1>0 DEF Frame, s
    <3>2. OwnAdds(g, r) /\ Keeps(r, "load", g)
      BY <1>0, <2>0, <3>1 DEF OwnAdds, Keeps
    <3>3. Sound(sessions[s], s, {}, pc, frame) /\ sessions[s] \in Row
      BY <1>0, <2>0, RowAssumption
    <3>4. Sound(e, s, {r}, pc, frame)
      BY <1>0, <2>0, <3>3, CreditedSound DEF f, s
    <3>5. g.sid = frame[r].sid /\ g.active = frame[r].active /\ g.idle = frame[r].idle
      BY <3>1 DEF f, s
    <3> HIDE DEF e, g
    <3>6. Sound(e, s, {r}, pc', frame')
      BY <2>2, <3>4, <3>5, SoundForOwner
    <3>7. \A q \in SessionIds : sessions'[q] # None => Sound(sessions'[q], q, {}, pc', frame')
      BY <2>0, <2>2, <3>2, RowsKept
    <3> QED
      BY <2>2, <3>1, <3>2, <3>6, <3>7, CountAwait
  <2> QED
    BY <1>2, <2>1, <2>2 DEF TotalsRead, f, s
<1>3. CASE SaveLoad(r)
  <2> DEFINE g == [f EXCEPT !.cols = ChangedColumns(f.entity, sessions[s])]
  <2>1. /\ pc[r] = "load" /\ pc[r] \notin Settled
        /\ UNCHANGED sessions /\ Await(r, "update", g)
    BY <1>3 DEF SaveLoad, Settled, f, s
  <2>2. g.active = f.active /\ g.idle = f.idle /\ g.sid = s /\ g.entity = f.entity
    BY <1>0 DEF Frame, s
  <2>3. OwnAdds(g, r) /\ Keeps(r, "update", g)
    BY <1>0, <2>1, <2>2 DEF OwnAdds, Keeps
  <2>4. g.sid = frame[r].sid /\ g.active = frame[r].active /\ g.idle = frame[r].idle
    BY <2>2 DEF f, s
  <2> HIDE DEF g
  <2>5. Sound(f.entity, s, {r}, pc', frame')
    BY <1>0, <2>1, <2>4, SoundForOwner
  <2>6. \A q \in SessionIds : sessions'[q] # None => Sound(sessions'[q], q, {}, pc', frame')
    BY <2>1, <2>3, RowsKept
  <2> QED
    BY <2>1, <2>2, <2>3, <2>5, <2>6, CountAwait
<1>4. CASE SaveUpdate(r)
  <2> DEFINE g == [f EXCEPT !.entity = None, !.cols = {}]
             w == Written(sessions[s], f.entity, f.cols)
  <2>1. /\ pc[r] = "update" /\ pc[r] \notin Settled /\ Await(r, "reply", g)
        /\ sessions' = [sessions EXCEPT ![s] = w]
    BY <1>4 DEF SaveUpdate, Finish, Settled, f, s
  <2>2. g.active = f.active /\ g.idle = f.idle /\ g.sid = s
    BY <1>0 DEF Frame, s
  <2>3. OwnAdds(g, r) /\ Keeps(r, "reply", g)
    BY <1>0, <2>1, <2>2 DEF OwnAdds, Keeps
  <2>4. g.sid = frame[r].sid /\ g.active = frame[r].active /\ g.idle = frame[r].idle
    BY <2>2 DEF f, s
  <2> HIDE DEF g
  <2>5. Sound(f.entity, s, {}, pc', frame')
    BY <1>0, <2>1, <2>4, SoundForOwner DEF Settled
  <2>6. s \in SessionIds /\ sessions[s] \in Row /\ sessions[s] # None /\ f.entity \in Row
    BY <1>0, <2>1, RowAssumption
  <2>7. Sound(sessions[s], s, {}, pc', frame')
    BY <2>1, <2>3, <2>6, RowsKept
  <2>8. Sound(w, s, {}, pc', frame')
    BY <2>5, <2>6, <2>7, WrittenSound
  <2> HIDE DEF w
  <2>9. \A q \in SessionIds : sessions'[q] # None => Sound(sessions'[q], q, {}, pc', frame')
    <3> SUFFICES ASSUME NEW q \in SessionIds, sessions'[q] # None
                 PROVE  Sound(sessions'[q], q, {}, pc', frame')
      OBVIOUS
    <3>1. CASE q = s
      BY <1>0, <2>1, <2>8, <3>1
    <3>2. CASE q # s
      <4>1. sessions'[q] = sessions[q]
        BY <1>0, <2>1, <3>2
      <4> QED
        BY <2>1, <2>3, <4>1, RowsKept
    <3> QED
      BY <3>1, <3>2
  <2> QED
    BY <2>1, <2>3, <2>9, CountAwait
<1>5. CASE Reply(r)
  <2>1. Finish(r, "ok") /\ UNCHANGED sessions
    BY <1>5 DEF Reply
  <2> QED
    BY <2>1, CountFinish DEF Done, Settled
<1> QED
  BY <1>1, <1>2, <1>3, <1>4, <1>5 DEF Step

\* A query that fails, a crash and the clock.
LEMMA CountFault ==
    ASSUME TypeInv, CountInv, (\E r \in Requests : QueryFails(r)) \/ Crash \/ Tick
    PROVE  CountInv'
<1>1. ASSUME NEW r \in Requests, QueryFails(r) PROVE CountInv'
  <2>1. Finish(r, "failed") /\ UNCHANGED sessions
    BY <1>1 DEF QueryFails
  <2> QED
    BY <2>1, CountFinish DEF Done, Settled
<1>2. CASE Crash
  <2>1. /\ pc' = [r \in Requests |-> IF r \in InFlight THEN "lost" ELSE pc[r]]
        /\ frame' = [r \in Requests |-> [frame[r] EXCEPT !.entity = None, !.cols = {}]]
        /\ UNCHANGED sessions
    BY <1>2 DEF Crash
  <2>2. \A r \in Requests : /\ frame'[r].sid = frame[r].sid
                            /\ frame'[r].active = frame[r].active
                            /\ frame'[r].idle = frame[r].idle
    BY <2>1 DEF TypeInv, TablesOK, Frame
  <2>3. \A r \in Requests : /\ pc[r] \in Settled => pc'[r] \in Settled
                            /\ pc'[r] \notin {"load", "update", "insert"}
    BY <2>1 DEF InFlight, Settled, Done, TypeInv
  <2>4. AddsInv'
    BY <2>2 DEF CountInv, AddsInv, OwnAdds
  <2>5. RowsInv'
    <3> SUFFICES ASSUME NEW s \in SessionIds, sessions[s] # None
                 PROVE  Sound(sessions[s], s, {}, pc', frame')
      BY <2>1 DEF RowsInv
    <3>1. Sound(sessions[s], s, {}, pc, frame)
      BY DEF CountInv, RowsInv
    <3>2. \A a \in ActivityIds : a[1] \in Requests
      BY DEF ActivityIds
    <3> QED
      BY <2>2, <2>3, <3>1, <3>2 DEF Sound
  <2>6. EntitiesInv'
    BY <2>3 DEF EntitiesInv
  <2> QED
    BY <2>4, <2>5, <2>6 DEF CountInv
<1>3. CASE Tick
  BY <1>3 DEF Tick, CountInv, AddsInv, RowsInv, EntitiesInv
<1> QED
  BY <1>1, <1>2, <1>3

\* Every step keeps the row objects sound.
LEMMA CountNext == TypeInv /\ CountInv /\ [Next]_vars => CountInv'
<1>1. ASSUME CountInv, UNCHANGED vars PROVE CountInv'
  BY <1>1 DEF vars, handlers, CountInv, AddsInv, RowsInv, EntitiesInv
<1> QED
  BY <1>1, CountArrival, CountStep, CountFault DEF Next, Terminated

\* The invariant implies the property.
LEMMA CountImplies == TypeInv /\ CountInv => CountedOnce
<1> SUFFICES ASSUME TypeInv, CountInv,
                    NEW s \in SessionIds, sessions[s] # None,
                    NEW a \in ActivityIds, Counted(sessions[s], a) > 0
             PROVE  /\ Counted(sessions[s], a) = 1
                    /\ frame[a[1]].sid = s
                    /\ sessions[s].active[a] = 1 => a \in frame[a[1]].active
                    /\ sessions[s].idle[a] = 1 => a \in frame[a[1]].idle
                    /\ pc[a[1]] \in {"reply", "ok", "failed", "lost"}
  BY DEF CountedOnce
<1>1. Sound(sessions[s], s, {}, pc, frame)
  BY DEF CountInv, RowsInv
<1>2. sessions[s].active[a] \in Nat /\ sessions[s].idle[a] \in Nat
  BY DEF TypeInv, TablesOK, Row, Tally
<1>3. sessions[s].active[a] # 0 \/ sessions[s].idle[a] # 0
  BY <1>2 DEF Counted
<1>4. frame[a[1]].active \cap frame[a[1]].idle = {}
  BY DEF CountInv, AddsInv, OwnAdds, ActivityIds
<1> QED
  BY <1>1, <1>2, <1>3, <1>4 DEF Sound, Counted, Settled

(***************************************************************************)
(* No double counting: however requests interleave, overwrite each other   *)
(* or fail, a session counts an activity at most once,                     *)
(* in its column, and only one that was sent for it and has been saved.    *)
(***************************************************************************)
THEOREM NoDoubleCounting == Spec => []CountedOnce
<1>1. Init => TypeInv /\ CountInv
  BY TypeInit, CountInit
<1>2. (TypeInv /\ CountInv) /\ [Next]_vars => (TypeInv /\ CountInv)'
  BY TypeNext, CountNext
<1>3. TypeInv /\ CountInv => CountedOnce
  BY CountImplies
<1> QED
  BY <1>1, <1>2, <1>3, PTL DEF Spec

=============================================================================
