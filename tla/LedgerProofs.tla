---------------------------- MODULE LedgerProofs ----------------------------
(***************************************************************************)
(* What the session handlers promise although nothing keeps their saves    *)
(* apart: totals are accurate, stopped sessions are frozen and a user has  *)
(* one active session, but for what a handler wrote that had read too      *)
(* early; and the handlers implement Ledger.                               *)
(***************************************************************************)
EXTENDS SessionsProofs, WorkSessionProofs

-----------------------------------------------------------------------------
(* The inductive invariant.  A save writes absolute values, computed from a *)
(* row that was read before.  As long as nobody has changed that row, the   *)
(* row object is the row with the request's seconds added, and what save()  *)
(* is about to write is exactly that difference.                            *)

\* The row object of f is row with the seconds of f's activities added.
Built(f, row) == /\ f.entity.active = Plus(row.active, f.active)
                 /\ f.entity.idle = Plus(row.idle, f.idle)
                 /\ f.entity.status # row.status => f.active = {} /\ f.idle = {}

\* What save() at query p can rely on when it meets row.
Saveable(p, f, row) ==
    /\ Built(f, row)
    /\ p = "update" => f.cols = ChangedColumns(f.entity, row)

FreshInv ==
    \A r \in Requests : pc[r] \in {"load", "update"} =>
        frame[r].sid \in since[r] \/ Saveable(pc[r], frame[r], sessions[frame[r].sid])

\* Nor was the session stopped meanwhile.
OpenInv ==
    \A r \in Requests : pc[r] \in {"load", "update"} =>
        frame[r].sid \in since[r] \/ sessions[frame[r].sid].status = "active"

\* The columns of f's session have its seconds.
Kept(f, table) ==
    /\ f.active \cup f.idle # {} => f.sid \in SessionIds /\ table[f.sid] \in Row
    /\ Amount(f.active) # 0 => \A a \in f.active : table[f.sid].active[a] # 0
    /\ Amount(f.idle) # 0 => \A a \in f.idle : table[f.sid].idle[a] # 0

KeptInv ==
    \A r \in Requests : pc[r] \in {"reply", "ok"} /\ frame[r].sid \notin raced =>
        Kept(frame[r], sessions)

SaveInv == FreshInv /\ KeptInv

-----------------------------------------------------------------------------
(* What the history says of a step of one request. *)

\* It remembers the sessions it has on record.
LEMMA RacedGrows == History => raced \subseteq raced'
BY DEF History

\* A request that has read goes on collecting the sessions that change.
LEMMA SinceGrows ==
    ASSUME History, NEW q \in Requests, frame[q].entity # None, frame'[q].entity # None
    PROVE  /\ since[q] \subseteq since'[q]
           /\ \A s \in SessionIds : sessions'[s] # sessions[s] => s \in since'[q]
BY DEF History

\* The one request that takes the step is the one that may have read too early.
LEMMA RacedBy ==
    ASSUME TypeInv, History, NEW r \in Requests, NEW p, NEW f, Await(r, p, f)
    PROVE  /\ p # "reply" \/ ~Outdated(r) => raced' = raced
           /\ p = "reply" /\ Outdated(r) /\ f.sid \in SessionIds =>
                 raced' = raced \cup {f.sid}
<1>1. pc' = [pc EXCEPT ![r] = p] /\ frame' = [frame EXCEPT ![r] = f]
  BY DEF Await
<1>2. pc'[r] = p /\ frame'[r] = f
  BY <1>1 DEF TypeInv, TablesOK
<1>3. \A q \in Requests : Outdated(q) /\ pc'[q] = "reply" => q = r
  <2> SUFFICES ASSUME NEW q \in Requests, Outdated(q), q # r PROVE pc'[q] # "reply"
    OBVIOUS
  <2>1. pc[q] # "reply"
    BY DEF Outdated
  <2> QED
    BY <1>1, <2>1 DEF TypeInv
<1>4. raced' = raced \cup {s \in SessionIds :
          \E q \in Requests : Outdated(q) /\ pc'[q] = "reply" /\ frame'[q].sid = s}
  BY DEF History
<1> QED
  BY <1>2, <1>3, <1>4

-----------------------------------------------------------------------------
(* How the invariant outlives a step of one request. *)

\* The saves of the others stay sound, or their row is among those that changed;
\* and so do all if r's is.
LEMMA SaveAwait ==
    ASSUME TypeInv, FreshInv, History, NEW r \in Requests, NEW p, NEW f,
           Await(r, p, f),
           p \in {"load", "update"} =>
               f.sid \in since'[r] \/ Saveable(p, f, sessions'[f.sid])
    PROVE  /\ FreshInv'
           /\ /\ OpenInv
              /\ p \in {"load", "update"} =>
                    f.sid \in since'[r] \/ sessions'[f.sid].status = "active"
              => OpenInv'
<1>1. pc' = [pc EXCEPT ![r] = p] /\ frame' = [frame EXCEPT ![r] = f]
  BY DEF Await
<1>2. ASSUME NEW q \in Requests, q # r, pc'[q] \in {"load", "update"}
      PROVE  /\ \/ frame'[q].sid \in since'[q]
                \/ Saveable(pc'[q], frame'[q], sessions'[frame'[q].sid])
             /\ OpenInv => \/ frame'[q].sid \in since'[q]
                           \/ sessions'[frame'[q].sid].status = "active"
  <2> DEFINE s == frame[q].sid
  <2>1. pc'[q] = pc[q] /\ frame'[q] = frame[q]
    BY <1>1, <1>2 DEF TypeInv, TablesOK
  <2>2. s \in SessionIds /\ frame[q].entity # None
    BY <1>2, <2>1, RowAssumption DEF TypeInv, FrameOK, Bound
  <2>3. s \in since[q] \/ sessions'[s] # sessions[s] => s \in since'[q]
    BY <2>1, <2>2, SinceGrows
  <2>4. s \notin since[q] => Saveable(pc[q], frame[q], sessions[s])
    BY <1>2, <2>1 DEF FreshInv
  <2>5. OpenInv /\ s \notin since[q] => sessions[s].status = "active"
    BY <1>2, <2>1 DEF OpenInv
  <2> QED
    BY <2>1, <2>3, <2>4, <2>5
<1>3. pc'[r] = p /\ frame'[r] = f
  BY <1>1 DEF TypeInv, TablesOK
<1>4. FreshInv'
  BY <1>2, <1>3 DEF FreshInv
<1>5. /\ OpenInv
      /\ p \in {"load", "update"} =>
            f.sid \in since'[r] \/ sessions'[f.sid].status = "active"
      => OpenInv'
  BY <1>2, <1>3 DEF OpenInv
<1> QED
  BY <1>4, <1>5

\* What is counted stays counted, where it is not overwritten.
Grows ==
    \A s \in SessionIds : sessions[s] \in Row =>
        /\ sessions'[s] \in Row
        /\ s \notin raced' => \A a \in ActivityIds :
              /\ sessions[s].active[a] # 0 => sessions'[s].active[a] # 0
              /\ sessions[s].idle[a] # 0 => sessions'[s].idle[a] # 0

\* Who has its seconds in the table has them there after the step.
LEMMA KeptStays ==
    ASSUME Grows, NEW f, f.active \subseteq ActivityIds, f.idle \subseteq ActivityIds,
           Kept(f, sessions), f.sid \notin raced'
    PROVE  Kept(f, sessions')
<1>1. CASE f.active \cup f.idle = {}
  BY <1>1 DEF Kept
<1>2. CASE f.active \cup f.idle # {}
  <2>1. f.sid \in SessionIds /\ sessions[f.sid] \in Row
    BY <1>2 DEF Kept
  <2>2. /\ sessions'[f.sid] \in Row
        /\ \A a \in ActivityIds :
              /\ sessions[f.sid].active[a] # 0 => sessions'[f.sid].active[a] # 0
              /\ sessions[f.sid].idle[a] # 0 => sessions'[f.sid].idle[a] # 0
    BY <2>1 DEF Grows
  <2> QED
    BY <2>1, <2>2 DEF Kept
<1> QED
  BY <1>1, <1>2

LEMMA KeptAwait ==
    ASSUME TypeInv, KeptInv, History, NEW r \in Requests, NEW p, NEW f,
           Await(r, p, f), Grows,
           p \in {"reply", "ok"} /\ f.sid \notin raced' => Kept(f, sessions')
    PROVE  KeptInv'
<1>1. pc' = [pc EXCEPT ![r] = p] /\ frame' = [frame EXCEPT ![r] = f]
  BY DEF Await
<1>2. ASSUME NEW q \in Requests, q # r, pc'[q] \in {"reply", "ok"},
             frame'[q].sid \notin raced'
      PROVE  Kept(frame'[q], sessions')
  <2> DEFINE g == frame[q]
  <2>1. pc'[q] = pc[q] /\ frame'[q] = g
    BY <1>1, <1>2 DEF TypeInv, TablesOK
  <2>2. Kept(g, sessions)
    BY <1>2, <2>1, RacedGrows DEF KeptInv
  <2>3. g.active \subseteq ActivityIds /\ g.idle \subseteq ActivityIds
    BY DEF TypeInv, TablesOK, Frame
  <2> HIDE DEF g
  <2>4. Kept(g, sessions')
    BY <1>2, <2>1, <2>2, <2>3, KeptStays
  <2> QED
    BY <2>1, <2>4
<1>3. pc'[r] = p /\ frame'[r] = f
  BY <1>1 DEF TypeInv, TablesOK
<1> QED
  BY <1>2, <1>3 DEF KeptInv

\* A handler that ends without a write keeps the invariant.
LEMMA FinishSaves ==
    ASSUME TypeInv, SaveInv, History, NEW r \in Requests, NEW p \in Done,
           Finish(r, p), UNCHANGED sessions, p = "ok" => pc[r] = "reply"
    PROVE  SaveInv' /\ (OpenInv => OpenInv')
<1> DEFINE f == [frame[r] EXCEPT !.entity = None, !.cols = {}]
<1>1. f.sid = frame[r].sid /\ f.active = frame[r].active /\ f.idle = frame[r].idle
  BY DEF TypeInv, TablesOK, Frame
<1>2. Await(r, p, f) /\ p \notin {"load", "update", "reply"}
  BY DEF Finish, Done
<1> HIDE DEF f
<1>3. Grows
  BY DEF Grows
<1>4. p = "ok" /\ f.sid \notin raced' => Kept(f, sessions')
  BY <1>1, RacedGrows DEF SaveInv, KeptInv, Kept
<1> QED
  BY <1>2, <1>3, <1>4, SaveAwait, KeptAwait DEF SaveInv

\* So does one that goes on to a query without a write.
LEMMA GoOnSaves ==
    ASSUME TypeInv, SaveInv, History, NEW r \in Requests,
           NEW p \in {"insert", "log", "item", "totals", "load", "update"}, NEW f,
           Await(r, p, f), UNCHANGED sessions,
           p \in {"load", "update"} => f.sid \in since'[r] \/ Saveable(p, f, sessions[f.sid])
    PROVE  /\ SaveInv'
           /\ /\ OpenInv
              /\ p \in {"load", "update"} =>
                    f.sid \in since'[r] \/ sessions[f.sid].status = "active"
              => OpenInv'
<1>1. Grows
  BY DEF Grows
<1>2. p \notin {"reply", "ok"}
  OBVIOUS
<1> QED
  BY <1>1, <1>2, SaveAwait, KeptAwait DEF SaveInv

\* So does one that has written and can answer.
LEMMA ReplySaves ==
    ASSUME TypeInv, SaveInv, History, NEW r \in Requests, NEW f,
           Await(r, "reply", f), Grows, f.sid \notin raced' => Kept(f, sessions')
    PROVE  SaveInv' /\ (OpenInv => OpenInv')
<1>1. "reply" \notin {"load", "update"}
  OBVIOUS
<1>2. FreshInv' /\ (OpenInv => OpenInv')
  BY <1>1, SaveAwait DEF SaveInv
<1>3. KeptInv'
  BY KeptAwait DEF SaveInv
<1> QED
  BY <1>2, <1>3 DEF SaveInv

-----------------------------------------------------------------------------
(* What one save does. *)

\* Adding nothing.
LEMMA PlusNothing ==
    ASSUME NEW t \in Tally
    PROVE  Plus(t, {}) = t
BY DEF Plus, Tally

\* What save() makes of a column to which the activities A were added: if their
\* seconds cancel each other, it leaves the column alone.
Recorded(t, A) == IF Amount(A) = 0 THEN t ELSE Plus(t, A)

(***************************************************************************)
(* A save whose row object was built from the row as it is adds exactly    *)
(* the request's activities, and no column it should write is missed.      *)
(***************************************************************************)
LEMMA SaveAdds ==
    ASSUME NEW row \in Row, NEW f \in Frame, f.entity \in Row, Built(f, row),
           f.cols = ChangedColumns(f.entity, row)
    PROVE  LET w == Written(row, f.entity, f.cols)
           IN  /\ w.active = Recorded(row.active, f.active)
               /\ w.idle = Recorded(row.idle, f.idle)
               /\ w.status = f.entity.status
<1> DEFINE e == f.entity
           cols == f.cols
           w == Written(row, e, cols)
<1>1. /\ w.active = IF "active" \in cols THEN e.active ELSE row.active
      /\ w.idle = IF "idle" \in cols THEN e.idle ELSE row.idle
      /\ w.status = IF "status" \in cols THEN e.status ELSE row.status
  BY DEF Written, Row
<1>2. w.status = e.status
  BY <1>1 DEF ChangedColumns
<1>3. row.active \in Tally /\ row.idle \in Tally
  BY DEF Row
<1>4. /\ e.active = Plus(row.active, f.active)
      /\ e.idle = Plus(row.idle, f.idle)
      /\ "active" \in cols <=> Total(e.active) # Total(row.active)
      /\ "idle" \in cols <=> Total(e.idle) # Total(row.idle)
  BY DEF Built, ChangedColumns
<1>5. /\ "active" \in cols <=> Amount(f.active) # 0
      /\ "idle" \in cols <=> Amount(f.idle) # 0
  BY <1>3, <1>4, ChangeSeen
<1>6. w.active = Recorded(row.active, f.active) /\ w.idle = Recorded(row.idle, f.idle)
  BY <1>1, <1>4, <1>5 DEF Recorded
<1> QED
  BY <1>2, <1>6

\* The UPDATE of save() in the table.
LEMMA UpdateWrites ==
    ASSUME TypeInv, NEW r \in Requests, SaveUpdate(r)
    PROVE  LET f == frame[r]
               row == sessions[f.sid]
               w == Written(row, f.entity, f.cols)
               g == [f EXCEPT !.entity = None, !.cols = {}]
           IN  /\ pc[r] = "update" /\ History /\ Await(r, "reply", g)
               /\ f \in Frame /\ f.entity \in Row /\ f.entity # None
               /\ f.sid \in SessionIds /\ row \in Row /\ row # None
               /\ w \in Row /\ w # None /\ w.user = row.user
               /\ sessions' = [sessions EXCEPT ![f.sid] = w]
               /\ g.sid = f.sid /\ g.active = f.active /\ g.idle = f.idle
               /\ IF f.sid \in since[r] THEN raced' = raced \cup {f.sid}
                                        ELSE raced' = raced
<1> DEFINE f == frame[r]
           row == sessions[f.sid]
           w == Written(row, f.entity, f.cols)
           g == [f EXCEPT !.entity = None, !.cols = {}]
<1>1. /\ pc[r] = "update" /\ History /\ Await(r, "reply", g)
      /\ sessions' = [sessions EXCEPT ![f.sid] = w]
  BY DEF SaveUpdate, Finish
<1>2. f \in Frame /\ f.sid \in SessionIds /\ row \in Row /\ f.entity \in Row
  BY <1>1 DEF TypeInv, TablesOK, FrameOK, Bound
<1>3. w \in Row /\ w.user = row.user
  <2>1. w \in Row
    BY <1>2, WrittenType
  <2>2. w.user = row.user
    BY <1>2 DEF Written, Row
  <2> QED
    BY <2>1, <2>2
<1>4. g.sid = f.sid /\ g.active = f.active /\ g.idle = f.idle
  BY <1>2 DEF Frame
<1>5. Outdated(r) <=> f.sid \in since[r]
  BY <1>1 DEF Outdated
<1> HIDE DEF f, w, g
<1>6. IF f.sid \in since[r] THEN raced' = raced \cup {f.sid} ELSE raced' = raced
  BY <1>1, <1>2, <1>4, <1>5, RacedBy
<1> QED
  BY <1>1, <1>2, <1>3, <1>4, <1>6, RowAssumption DEF f, w, g

\* One that was not overtaken adds the seconds of its request.
LEMMA FreshUpdate ==
    ASSUME TypeInv, FreshInv, NEW r \in Requests, SaveUpdate(r),
           frame[r].sid \notin since[r]
    PROVE  LET f == frame[r]
               row == sessions[f.sid]
               w == Written(row, f.entity, f.cols)
           IN  /\ w.active = Recorded(row.active, f.active)
               /\ w.idle = Recorded(row.idle, f.idle)
               /\ w.status = f.entity.status
               /\ w.status # row.status => f.active = {} /\ f.idle = {}
<1> DEFINE f == frame[r]
           row == sessions[f.sid]
<1>1. /\ pc[r] = "update" /\ f \in Frame /\ f.entity \in Row /\ row \in Row
  BY UpdateWrites
<1>2. Built(f, row) /\ f.cols = ChangedColumns(f.entity, row)
  BY <1>1 DEF FreshInv, Saveable
<1> QED
  BY <1>1, <1>2, SaveAdds DEF Built

\* Nothing that is counted is lost, unless the session goes on record.
LEMMA UpdateKeeps ==
    ASSUME TypeInv, FreshInv, NEW r \in Requests, SaveUpdate(r)
    PROVE  LET g == [frame[r] EXCEPT !.entity = None, !.cols = {}]
           IN  Grows /\ (g.sid \notin raced' => Kept(g, sessions'))
<1> DEFINE f == frame[r]
           s == f.sid
           row == sessions[s]
           w == Written(row, f.entity, f.cols)
           g == [f EXCEPT !.entity = None, !.cols = {}]
<1>1. /\ s \in SessionIds /\ row \in Row /\ w \in Row /\ f \in Frame
      /\ sessions' = [sessions EXCEPT ![s] = w]
      /\ g.sid = s /\ g.active = f.active /\ g.idle = f.idle
      /\ s \in since[r] => s \in raced'
  BY UpdateWrites
<1>2. /\ sessions \in [SessionIds -> Row \cup {None}]
      /\ f.active \subseteq ActivityIds /\ f.idle \subseteq ActivityIds
  BY <1>1 DEF TypeInv, TablesOK, Frame
<1>3. s \notin raced' => /\ w.active = Recorded(row.active, f.active)
                         /\ w.idle = Recorded(row.idle, f.idle)
  BY <1>1, FreshUpdate
<1> HIDE DEF f, row, w, g
<1>4. ASSUME s \notin raced', NEW a \in ActivityIds
      PROVE  /\ row.active[a] # 0 => w.active[a] # 0
             /\ row.idle[a] # 0 => w.idle[a] # 0
             /\ a \in f.active /\ Amount(f.active) # 0 => w.active[a] # 0
             /\ a \in f.idle /\ Amount(f.idle) # 0 => w.idle[a] # 0
  <2>1. row.active[a] \in Nat /\ row.idle[a] \in Nat
    BY <1>1 DEF Row, Tally
  <2> QED
    BY <1>3, <1>4, <2>1 DEF Recorded, Plus
<1>5. Grows
  <2> SUFFICES ASSUME NEW q \in SessionIds, sessions[q] \in Row
               PROVE  /\ sessions'[q] \in Row
                      /\ q \notin raced' => \A a \in ActivityIds :
                            /\ sessions[q].active[a] # 0 => sessions'[q].active[a] # 0
                            /\ sessions[q].idle[a] # 0 => sessions'[q].idle[a] # 0
    BY DEF Grows
  <2>1. CASE q = s
    BY <1>1, <1>2, <1>4, <2>1 DEF row
  <2>2. CASE q # s
    BY <1>1, <1>2, <2>2
  <2> QED
    BY <2>1, <2>2
<1>6. s \notin raced' => Kept(g, sessions')
  <2>1. sessions'[s] = w
    BY <1>1, <1>2
  <2> QED
    BY <1>1, <1>2, <1>4, <2>1 DEF Kept
<1> QED
  BY <1>1, <1>5, <1>6 DEF f, g

\* The INSERT of a session leaves the other rows alone.
LEMMA InsertGrows ==
    ASSUME TypeInv, NEW r \in Requests, InsertSession(r)
    PROVE  Grows
<1>1. PICK n \in SessionIds : /\ sessions[n] = None
                              /\ sessions' = [sessions EXCEPT ![n] = frame[r].entity]
  BY DEF InsertSession
<1>2. \A q \in SessionIds : sessions[q] \in Row => sessions'[q] = sessions[q]
  BY <1>1, RowAssumption DEF TypeInv, TablesOK
<1> QED
  BY <1>2 DEF Grows

-----------------------------------------------------------------------------
(* Every step keeps the invariant. *)

\* The first step of a handler.
LEMMA ArrivalSaves ==
    ASSUME TypeInv, SaveInv, NEW r \in Requests, Arrival(r)
    PROVE  SaveInv' /\ (OpenInv => OpenInv')
<1>0. sessions \in [SessionIds -> Row \cup {None}]
  BY DEF TypeInv, TablesOK
<1>1. ASSUME NEW u \in Users, NEW t \in ClientTimes \cup {None}, StartSession(r, u, t)
      PROVE  SaveInv' /\ (OpenInv => OpenInv')
  <2>1. History /\ UNCHANGED sessions
    BY <1>1 DEF StartSession
  <2>2. CASE Finish(r, "rejected")
    BY <2>1, <2>2, FinishSaves DEF Done
  <2>3. ASSUME NEW f, Await(r, "insert", f) PROVE SaveInv' /\ (OpenInv => OpenInv')
    BY <2>1, <2>3, GoOnSaves
  <2> QED
    BY <1>1, <2>2, <2>3 DEF StartSession
<1>2. ASSUME NEW u \in Users, NEW s \in SessionIds, NEW t \in ClientTimes \cup {None},
             StopSession(r, u, s, t)
      PROVE  SaveInv' /\ (OpenInv => OpenInv')
  <2> DEFINE e == [sessions[s] EXCEPT !.status = "stopped", !.end = TimeOr(t)]
             f == [NewFrame("stop", s) EXCEPT !.entity = e]
  <2>1. History /\ UNCHANGED sessions
    BY <1>2 DEF StopSession
  <2>2. CASE Finish(r, "rejected")
    BY <2>1, <2>2, FinishSaves DEF Done
  <2>3. CASE MayChange(u, s) /\ Await(r, "load", f)
    <3>1. sessions[s] \in Row /\ sessions[s].status = "active"
      BY <1>0, <2>3 DEF MayChange, ActiveOf
    <3>2. f.active = {} /\ f.idle = {} /\ f.entity = e /\ f.sid = s
      BY DEF NewFrame
    <3>3. /\ e.active = sessions[s].active /\ e.idle = sessions[s].idle
          /\ sessions[s].active \in Tally /\ sessions[s].idle \in Tally
      BY <3>1 DEF Row
    <3> HIDE DEF e, f
    <3>4. Saveable("load", f, sessions[s])
      BY <3>2, <3>3, PlusNothing DEF Saveable, Built
    <3> QED
      BY <2>1, <2>3, <3>1, <3>2, <3>4, GoOnSaves
  <2> QED
    BY <1>2, <2>2, <2>3 DEF StopSession
<1>3. ASSUME NEW s \in SessionIds, NEW A, NEW I, CallTotals(r, s, A, I)
      PROVE  SaveInv' /\ (OpenInv => OpenInv')
  <2>1. History /\ UNCHANGED sessions
    BY <1>3 DEF CallTotals
  <2>2. \E f : Await(r, "totals", f)
    BY <1>3 DEF CallTotals
  <2> QED
    BY <2>1, <2>2, GoOnSaves
<1> QED
  BY <1>1, <1>2, <1>3 DEF Arrival

\* A handler has read a row and made its additions.
LEMMA CreditedSaveable ==
    ASSUME NEW row \in Row, NEW A, NEW I, NEW t, NEW g,
           g.entity = Credited(row, A, I, t), g.active = A, g.idle = I
    PROVE  Saveable("load", g, row)
<1>1. /\ g.entity.active = Plus(row.active, A)
      /\ g.entity.idle = Plus(row.idle, I)
      /\ g.entity.status = row.status
  BY DEF Credited, Row
<1> QED
  BY <1>1 DEF Saveable, Built

\* Every further step of a handler.
LEMMA StepSaves ==
    ASSUME TypeInv, SaveInv, NEW r \in Requests, Step(r)
    PROVE  SaveInv' /\ (OpenInv => OpenInv')
<1> DEFINE f == frame[r]
           s == f.sid
           row == sessions[s]
<1>0. /\ sessions \in [SessionIds -> Row \cup {None}]
      /\ now \in Int
      /\ f \in Frame
      /\ pc[r] \in {"totals", "load", "update"} => s \in SessionIds /\ row \in Row
      /\ pc[r] \in {"insert", "load", "update"} => f.entity \in Row /\ f.entity # None
  BY SessionsAssumption, RowAssumption DEF TypeInv, TablesOK, FrameOK, Bound
<1>1. CASE InsertSession(r)
  <2>1. History
    BY <1>1 DEF InsertSession
  <2>2. PICK n \in SessionIds : Await(r, "reply", NewFrame("start", n))
    BY <1>1 DEF InsertSession
  <2>3. Kept(NewFrame("start", n), sessions')
    BY DEF Kept, NewFrame
  <2> QED
    BY <1>1, <2>1, <2>2, <2>3, InsertGrows, ReplySaves
<1>2. CASE TotalsRead(r)
  <2> DEFINE g == [f EXCEPT !.entity = Credited(row, f.active, f.idle, now)]
  <2>1. pc[r] = "totals" /\ History /\ UNCHANGED sessions
    BY <1>2 DEF TotalsRead
  <2>2. CASE Finish(r, "failed")
    BY <2>1, <2>2, FinishSaves DEF Done
  <2>3. CASE row.status # "stopped" /\ Await(r, "load", g)
    <3>1. /\ g.entity = Credited(row, f.active, f.idle, now)
          /\ g.active = f.active /\ g.idle = f.idle /\ g.sid = s
      BY <1>0 DEF Frame
    <3>2. row.status = "active"
      BY <1>0, <2>1, <2>3 DEF Row, Status
    <3>3. Saveable("load", g, row)
      BY <1>0, <2>1, <3>1, CreditedSaveable
    <3> QED
      BY <2>1, <2>3, <3>1, <3>2, <3>3, GoOnSaves
  <2> QED
    BY <1>2, <2>2, <2>3 DEF TotalsRead
<1>3. CASE SaveLoad(r)
  <2> DEFINE g == [f EXCEPT !.cols = ChangedColumns(f.entity, row)]
  <2>1. pc[r] = "load" /\ History /\ UNCHANGED sessions /\ Await(r, "update", g)
    BY <1>3 DEF SaveLoad
  <2>2. /\ g.cols = ChangedColumns(f.entity, row) /\ g.entity = f.entity
        /\ g.active = f.active /\ g.idle = f.idle /\ g.sid = s
    BY <1>0 DEF Frame
  <2>3. frame'[r] = g
    BY <2>1 DEF Await, TypeInv, TablesOK
  <2>4. /\ s \in since[r] \/ Saveable("load", f, row)
        /\ OpenInv => s \in since[r] \/ row.status = "active"
    BY <2>1 DEF SaveInv, FreshInv, OpenInv
  <2> HIDE DEF g
  <2>5. s \in since[r] => s \in since'[r]
    BY <1>0, <2>1, <2>2, <2>3, SinceGrows
  <2>6. Saveable("load", f, row) => Saveable("update", g, row)
    BY <2>2 DEF Saveable, Built
  <2> QED
    BY <2>1, <2>2, <2>4, <2>5, <2>6, GoOnSaves
<1>4. CASE SaveUpdate(r)
  <2> DEFINE g == [f EXCEPT !.entity = None, !.cols = {}]
  <2>1. History /\ Await(r, "reply", g)
    BY <1>4, UpdateWrites
  <2>2. Grows /\ (g.sid \notin raced' => Kept(g, sessions'))
    BY <1>4, UpdateKeeps DEF SaveInv
  <2> HIDE DEF g
  <2> QED
    BY <2>1, <2>2, ReplySaves
<1>5. CASE Reply(r)
  BY <1>5, FinishSaves DEF Reply, Done
<1> QED
  BY <1>1, <1>2, <1>3, <1>4, <1>5 DEF Step

\* A step that leaves the handlers where they are.
LEMMA StillSaves ==
    ASSUME TypeInv, SaveInv, History, UNCHANGED <<sessions, pc, frame>>
    PROVE  SaveInv' /\ (OpenInv => OpenInv')
<1>1. ASSUME NEW r \in Requests, pc[r] \in {"load", "update"}, frame[r].sid \in since[r]
      PROVE  frame[r].sid \in since'[r]
  <2>1. frame[r].entity # None
    BY <1>1, RowAssumption DEF TypeInv, FrameOK
  <2> QED
    BY <1>1, <2>1, SinceGrows
<1> QED
  BY <1>1, RacedGrows DEF SaveInv, FreshInv, OpenInv, KeptInv

\* A query that fails, a crash and the clock.
LEMMA FaultSaves ==
    ASSUME TypeInv, SaveInv, (\E r \in Requests : QueryFails(r)) \/ Crash \/ Tick
    PROVE  SaveInv' /\ (OpenInv => OpenInv')
<1>1. ASSUME NEW r \in Requests, QueryFails(r)
      PROVE  SaveInv' /\ (OpenInv => OpenInv')
  BY <1>1, FinishSaves DEF QueryFails, Done
<1>2. CASE Crash
  <2>1. /\ pc' = [r \in Requests |-> IF r \in InFlight THEN "lost" ELSE pc[r]]
        /\ frame' = [r \in Requests |-> [frame[r] EXCEPT !.entity = None, !.cols = {}]]
        /\ UNCHANGED sessions
        /\ raced \subseteq raced'
    BY <1>2, RacedGrows DEF Crash
  <2>2. \A r \in Requests : /\ pc'[r] \notin {"load", "update", "reply"}
                            /\ pc'[r] = "ok" => pc[r] = "ok"
    BY <2>1 DEF InFlight, Done
  <2>3. \A r \in Requests : /\ frame'[r].sid = frame[r].sid
                            /\ frame'[r].active = frame[r].active
                            /\ frame'[r].idle = frame[r].idle
    BY <2>1 DEF TypeInv, TablesOK, Frame
  <2>4. FreshInv' /\ OpenInv'
    BY <2>2 DEF FreshInv, OpenInv
  <2>5. KeptInv'
    <3> SUFFICES ASSUME NEW r \in Requests, pc'[r] \in {"reply", "ok"},
                        frame'[r].sid \notin raced'
                 PROVE  Kept(frame'[r], sessions')
      BY DEF KeptInv
    <3>1. Kept(frame[r], sessions)
      BY <2>1, <2>2, <2>3 DEF KeptInv, SaveInv
    <3> QED
      BY <2>1, <2>3, <3>1 DEF Kept
  <2> QED
    BY <2>4, <2>5 DEF SaveInv
<1>3. CASE Tick
  BY <1>3, StillSaves DEF Tick
<1> QED
  BY <1>1, <1>2, <1>3

\* The start, and every step.
LEMMA SaveInit == Init => SaveInv /\ OpenInv
BY DEF Init, SaveInv, FreshInv, OpenInv, KeptInv

LEMMA SaveNext ==
    TypeInv /\ SaveInv /\ OpenInv /\ [Next]_vars => (SaveInv /\ OpenInv)'
<1>1. ASSUME SaveInv, OpenInv, UNCHANGED vars PROVE (SaveInv /\ OpenInv)'
  BY <1>1 DEF vars, handlers, SaveInv, FreshInv, OpenInv, KeptInv
<1> QED
  BY <1>1, ArrivalSaves, StepSaves, FaultSaves DEF Next, Terminated

-----------------------------------------------------------------------------
(* What the invariant is for. *)

LEMMA SaveHolds == Spec => [](TypeInv /\ CountInv /\ SaveInv /\ OpenInv)
<1>1. Init => TypeInv /\ CountInv /\ SaveInv /\ OpenInv
  BY TypeInit, CountInit, SaveInit
<1>2. TypeInv /\ CountInv /\ SaveInv /\ OpenInv /\ [Next]_vars
          => (TypeInv /\ CountInv /\ SaveInv /\ OpenInv)'
  BY TypeNext, CountNext, SaveNext
<1> QED
  BY <1>1, <1>2, PTL DEF Spec

\* What is counted at all is counted once.
LEMMA KeptSeconds ==
    ASSUME TypeInv, CountInv, NEW r \in Requests, Kept(frame[r], sessions)
    PROVE  HasSecondsOf(sessions[frame[r].sid], r)
<1> DEFINE f == frame[r]
           row == sessions[f.sid]
<1>1. f.active \subseteq ActivityIds /\ f.idle \subseteq ActivityIds
  BY DEF TypeInv, TablesOK, Frame
<1>2. ASSUME NEW a \in f.active \cup f.idle
      PROVE  /\ row.active[a] # 0 => row.active[a] = 1
             /\ row.idle[a] # 0 => row.idle[a] = 1
  <2>1. f.sid \in SessionIds /\ row # None
    BY <1>2, RowAssumption DEF Kept
  <2>2. Sound(row, f.sid, {}, pc, frame)
    BY <2>1 DEF CountInv, RowsInv
  <2> QED
    BY <1>1, <1>2, <2>2 DEF Sound
<1> QED
  BY <1>2 DEF HasSecondsOf, Kept

LEMMA KeptAccurate == TypeInv /\ CountInv /\ KeptInv => AccurateUnlessRaced
BY KeptSeconds DEF KeptInv, AccurateUnlessRaced

(***************************************************************************)
(* Accurate totals: seconds that were answered with success stay in the    *)
(* session, for any number of overlapping requests, failures and crashes,  *)
(* as long as no handler writes the session that read it before another    *)
(* one changed it.                                                         *)
(***************************************************************************)
THEOREM TotalsAreAccurate == Spec => []AccurateUnlessRaced
<1>1. TypeInv /\ CountInv /\ SaveInv /\ OpenInv => AccurateUnlessRaced
  BY KeptAccurate DEF SaveInv
<1> QED
  BY <1>1, SaveHolds, PTL

\* No other step changes the table but the INSERT of a new session and the UPDATE
\* of save().
LEMMA OnlyWrites ==
    [Next]_vars => \/ UNCHANGED sessions
                   \/ \E r \in Requests : InsertSession(r) \/ SaveUpdate(r)
BY DEF Next, vars, handlers, Arrival, StartSession, StopSession, CallTotals, Step,
       TotalsRead, SaveLoad, Reply, QueryFails, Crash, Tick, Terminated

\* Nothing but a save that was overtaken changes a stopped session.
LEMMA FrozenStep ==
    TypeInv /\ CountInv /\ SaveInv /\ OpenInv /\ [Next]_vars
        => \A s \in SessionIds :
              sessions[s] # None /\ sessions[s].status = "stopped" =>
                  \/ sessions'[s] = sessions[s]
                  \/ \E r \in Requests : frame[r].sid = s /\ Outdated(r)
<1> SUFFICES ASSUME TypeInv, OpenInv, [Next]_vars, NEW s \in SessionIds,
                    sessions[s] # None, sessions[s].status = "stopped"
             PROVE  \/ sessions'[s] = sessions[s]
                    \/ \E r \in Requests : frame[r].sid = s /\ Outdated(r)
  OBVIOUS
<1>0. sessions \in [SessionIds -> Row \cup {None}]
  BY DEF TypeInv, TablesOK
<1>1. ASSUME NEW r \in Requests, InsertSession(r)
      PROVE  sessions'[s] = sessions[s]
  BY <1>0, <1>1 DEF InsertSession
<1>2. ASSUME NEW r \in Requests, SaveUpdate(r), frame[r].sid # s
      PROVE  sessions'[s] = sessions[s]
  BY <1>0, <1>2, UpdateWrites
<1>3. ASSUME NEW r \in Requests, SaveUpdate(r), frame[r].sid = s
      PROVE  Outdated(r)
  BY <1>3 DEF SaveUpdate, OpenInv, Outdated
<1> QED
  BY <1>1, <1>2, <1>3, OnlyWrites

(***************************************************************************)
(* Stopped sessions are frozen, but for a save that was computed before    *)
(* another handler stopped the session: an update that reads the session   *)
(* after it was stopped is never written.                                  *)
(***************************************************************************)
THEOREM StoppedAreFrozen == Spec => StoppedUnlessRaced
BY FrozenStep, SaveHolds, PTL DEF Spec, StoppedUnlessRaced

-----------------------------------------------------------------------------
(* One active session per user: startSession looks before it inserts.  What *)
(* it did not see has changed since it looked.                             *)

\* A row that waits for its INSERT is an active session of a user.
NewInv == \A r \in Requests : pc[r] = "insert" =>
             frame[r].entity.status = "active" /\ frame[r].entity.user \in Users

\* The active sessions of its user.
Rivals(r) == ActiveOf(frame[r].entity.user)

\* They have appeared since the handler looked.
RivalsInv == \A r \in Requests : pc[r] = "insert" => Rivals(r) \subseteq since[r]

OneInv == OneActiveUnlessRaced

\* What a step brings to its INSERT.
LEMMA InsertNext ==
    ASSUME TypeInv, [Next]_vars, NEW r \in Requests, pc'[r] = "insert"
    PROVE  \/ pc[r] = "insert" /\ frame'[r] = frame[r]
           \/ /\ frame'[r].entity.status = "active"
              /\ frame'[r].entity.user \in Users
              /\ ActiveOf(frame'[r].entity.user) = {}
              /\ UNCHANGED sessions
<1>1. ASSUME NEW q \in Requests, NEW p, NEW f, Await(q, p, f), p # "insert"
      PROVE  pc[r] = "insert" /\ frame'[r] = frame[r]
  BY <1>1 DEF Await, TypeInv, TablesOK
<1>2. ASSUME NEW q \in Requests, NEW u \in Users, NEW t \in ClientTimes \cup {None},
             StartSession(q, u, t)
      PROVE  \/ pc[r] = "insert" /\ frame'[r] = frame[r]
             \/ /\ frame'[r].entity.status = "active"
                /\ frame'[r].entity.user = u
                /\ ActiveOf(u) = {}
                /\ UNCHANGED sessions
  <2> DEFINE f == [NewFrame("start", None) EXCEPT !.entity = NewRow(u, TimeOr(t))]
  <2>1. CASE Finish(q, "rejected")
    BY <1>1, <2>1 DEF Finish
  <2>2. CASE Await(q, "insert", f) /\ ActiveOf(u) = {}
    <3>1. f.entity.status = "active" /\ f.entity.user = u
      BY DEF NewFrame, NewRow
    <3> HIDE DEF f
    <3>2. frame'[r] = IF r = q THEN f ELSE frame[r]
      BY <2>2 DEF Await, TypeInv, TablesOK
    <3>3. r # q => pc[r] = "insert"
      BY <2>2 DEF Await, TypeInv
    <3> QED
      BY <1>2, <2>2, <3>1, <3>2, <3>3 DEF StartSession
  <2> QED
    BY <1>2, <2>1, <2>2 DEF StartSession
<1>3. ASSUME NEW q \in Requests,
             \/ \E u \in Users, s \in SessionIds, t \in ClientTimes \cup {None} :
                   StopSession(q, u, s, t)
             \/ \E s \in SessionIds, A, I \in SUBSET ActivityIds : CallTotals(q, s, A, I)
             \/ Step(q)
             \/ QueryFails(q)
      PROVE  pc[r] = "insert" /\ frame'[r] = frame[r]
  <2>1. \E p \in (Awaiting \cup Done) \ {"insert"} : \E f : Await(q, p, f)
    BY <1>3 DEF StopSession, CallTotals, Step, InsertSession, TotalsRead, SaveLoad,
                SaveUpdate, Reply, QueryFails, Finish, Awaiting, Done
  <2> QED
    BY <1>1, <2>1
<1>4. ASSUME NEW q \in Requests, NEW s \in SessionIds,
             \/ CallTotals(q, s, {<<q, 1>>}, {})
             \/ CallTotals(q, s, {}, {<<q, 1>>})
      PROVE  \E A, I \in SUBSET ActivityIds : CallTotals(q, s, A, I)
  <2>1. <<q, 1>> \in ActivityIds
    BY ConstantsAssumption DEF ActivityIds
  <2> QED
    BY <1>4, <2>1
<1>5. CASE Crash
  BY <1>5 DEF Crash, InFlight, Done, TypeInv
<1>6. CASE Tick \/ Terminated \/ UNCHANGED vars
  BY <1>6 DEF Tick, Terminated, vars, handlers
<1> QED
  BY <1>2, <1>3, <1>4, <1>5, <1>6 DEF Next, Arrival

LEMMA NewNext == TypeInv /\ NewInv /\ [Next]_vars => NewInv'
BY InsertNext DEF NewInv

\* A session that becomes active has changed.
LEMMA RivalsNext == TypeInv /\ RivalsInv /\ [Next]_vars => RivalsInv'
<1> SUFFICES ASSUME TypeInv, RivalsInv, [Next]_vars, NEW r \in Requests, pc'[r] = "insert"
             PROVE  Rivals(r)' \subseteq since'[r]
  BY DEF RivalsInv
<1>1. CASE UNCHANGED vars
  BY <1>1 DEF vars, handlers, RivalsInv, Rivals, ActiveOf
<1>2. CASE History /\ pc[r] = "insert" /\ frame'[r] = frame[r]
  <2>1. frame[r].entity # None
    BY <1>2, RowAssumption DEF TypeInv, FrameOK
  <2>2. /\ since[r] \subseteq since'[r]
        /\ \A s \in SessionIds : sessions'[s] # sessions[s] => s \in since'[r]
    BY <1>2, <2>1, SinceGrows
  <2>3. Rivals(r) \subseteq since[r]
    BY <1>2 DEF RivalsInv
  <2> QED
    BY <1>2, <2>2, <2>3 DEF Rivals, ActiveOf
<1>3. CASE ActiveOf(frame'[r].entity.user) = {} /\ UNCHANGED sessions
  BY <1>3 DEF Rivals, ActiveOf
<1> QED
  BY <1>1, <1>2, <1>3, NextHistory, InsertNext

LEMMA OneNext ==
    TypeInv /\ OpenInv /\ RivalsInv /\ OneInv /\ [Next]_vars => OneInv'
<1> SUFFICES ASSUME TypeInv, OpenInv, RivalsInv, OneInv, [Next]_vars,
                    NEW u \in Users
             PROVE  \A s, q \in (ActiveOf(u) \ raced)' : s = q
  BY DEF OneInv, OneActiveUnlessRaced
<1>0. /\ sessions \in [SessionIds -> Row \cup {None}]
      /\ raced \subseteq raced'
      /\ \A s, q \in ActiveOf(u) \ raced : s = q
  BY NextHistory, RacedGrows DEF TypeInv, TablesOK, vars, OneInv, OneActiveUnlessRaced
<1>1. ASSUME (ActiveOf(u) \ raced)' \subseteq ActiveOf(u) \ raced
      PROVE  \A s, q \in (ActiveOf(u) \ raced)' : s = q
  BY <1>0, <1>1
<1>2. CASE UNCHANGED sessions
  BY <1>0, <1>1, <1>2 DEF ActiveOf
<1>3. ASSUME NEW r \in Requests, SaveUpdate(r)
      PROVE  (ActiveOf(u) \ raced)' \subseteq ActiveOf(u) \ raced
  <2> DEFINE s == frame[r].sid
             w == Written(sessions[s], frame[r].entity, frame[r].cols)
  <2>1. /\ pc[r] = "update" /\ s \in SessionIds
        /\ sessions[s] \in Row /\ sessions[s] # None
        /\ w.user = sessions[s].user
        /\ sessions' = [sessions EXCEPT ![s] = w]
        /\ s \in since[r] => s \in raced'
    BY <1>3, UpdateWrites
  <2>2. s \in raced' \/ sessions[s].status = "active"
    BY <2>1 DEF OpenInv
  <2> HIDE DEF s, w
  <2> QED
    BY <1>0, <2>1, <2>2 DEF ActiveOf
<1>4. ASSUME NEW r \in Requests, InsertSession(r)
      PROVE  \A s, q \in (ActiveOf(u) \ raced)' : s = q
  <2> DEFINE e == frame[r].entity
  <2>1. pc[r] = "insert" /\ e \in Row /\ History /\ ActiveOf(e.user) \subseteq since[r]
    BY <1>4 DEF InsertSession, TypeInv, FrameOK, RivalsInv, Rivals
  <2>2. PICK n \in SessionIds : /\ sessions[n] = None
                                /\ sessions' = [sessions EXCEPT ![n] = e]
                                /\ Await(r, "reply", NewFrame("start", n))
    BY <1>4 DEF InsertSession
  <2>3. ActiveOf(u)' \subseteq ActiveOf(u) \cup (IF u = e.user THEN {n} ELSE {})
    BY <1>0, <2>1, <2>2 DEF ActiveOf
  <2>4. CASE u = e.user /\ ActiveOf(u) = {}
    BY <2>3, <2>4
  <2>5. CASE u = e.user /\ ActiveOf(u) # {}
    <3>1. Outdated(r)
      BY <2>1, <2>5 DEF Outdated, ActiveOf
    <3>2. NewFrame("start", n).sid = n
      BY DEF NewFrame
    <3>3. n \in raced'
      BY <2>1, <2>2, <3>1, <3>2, RacedBy
    <3> QED
      BY <1>0, <1>1, <2>3, <3>3
  <2>6. CASE u # e.user
    BY <1>0, <1>1, <2>3, <2>6
  <2> QED
    BY <2>4, <2>5, <2>6
<1> QED
  BY <1>1, <1>2, <1>3, <1>4, OnlyWrites

LEMMA OneInit == Init => NewInv /\ RivalsInv /\ OneInv
<1> SUFFICES ASSUME Init PROVE NewInv /\ RivalsInv /\ OneInv
  OBVIOUS
<1>1. \A s \in SessionIds : sessions[s] # None =>
         s \in DOMAIN Opened /\ sessions[s] = Opened[s]
  BY DEF Init
<1>2. \A u \in Users : \A s, t \in ActiveOf(u) : s = t
  BY <1>1, SessionsAssumption DEF ActiveOf
<1> QED
  BY <1>2 DEF Init, NewInv, RivalsInv, OneInv, OneActiveUnlessRaced

(***************************************************************************)
(* One active session per user, but for those that an overtaken handler    *)
(* inserted or brought back.  The run TwoActiveSessions shows that two     *)
(* requests are enough for that.                                           *)
(***************************************************************************)
THEOREM OneActiveSession == Spec => []OneActiveUnlessRaced
<1>1. Init => NewInv /\ RivalsInv /\ OneInv
  BY OneInit
<1>2. TypeInv /\ CountInv /\ SaveInv /\ OpenInv /\ RivalsInv /\ OneInv /\ [Next]_vars
          => (RivalsInv /\ OneInv)'
  BY RivalsNext, OneNext
<1> QED
  BY <1>1, <1>2, SaveHolds, PTL DEF Spec, OneInv

-----------------------------------------------------------------------------
(* Sessions implements Ledger: an INSERT opens a session, the UPDATE of    *)
(* stopSession closes it, that of updateSessionTotals credits the request's *)
(* activities, one that was overtaken overwrites it, and all else stutters. *)

\* What a handler is about to add is counted nowhere.
LEMMA NotYetCounted ==
    ASSUME TypeInv, CountInv, NEW r \in Requests, pc[r] = "update",
           NEW a \in frame[r].active \cup frame[r].idle, NEW s \in SessionIds
    PROVE  Balance[s][a] = 0
<1>1. a \in ActivityIds /\ a[1] = r /\ r \notin {} /\ pc[a[1]] \notin Settled
  BY DEF CountInv, AddsInv, OwnAdds, TypeInv, TablesOK, Frame, Settled
<1>2. ASSUME sessions[s] # None
      PROVE  sessions[s].active[a] = 0 /\ sessions[s].idle[a] = 0
  <2>1. Sound(sessions[s], s, {}, pc, frame)
    BY <1>2 DEF CountInv, RowsInv
  <2> QED
    BY <1>1, <2>1 DEF Sound
<1> QED
  BY <1>1, <1>2 DEF Balance, Counted

\* The INSERT.
LEMMA InsertOpens ==
    ASSUME TypeInv, CountInv, NewInv, NEW r \in Requests, InsertSession(r)
    PROVE  \E s \in SessionIds : L!Open(s)
<1> DEFINE e == frame[r].entity
<1>0. sessions \in [SessionIds -> Row \cup {None}]
  BY DEF TypeInv, TablesOK
<1>1. e \in Row /\ e.status = "active" /\ Uncounted(e) /\ e # None
  BY RowAssumption DEF InsertSession, TypeInv, FrameOK, NewInv, CountInv, EntitiesInv
<1>2. PICK n \in SessionIds : /\ sessions[n] = None
                              /\ sessions' = [sessions EXCEPT ![n] = e]
                              /\ Await(r, "reply", NewFrame("start", n))
  BY DEF InsertSession
<1>3. Standing' = [Standing EXCEPT ![n] = "active"]
  BY <1>0, <1>1, <1>2 DEF Standing
<1>4. \A a \in ActivityIds : Counted(e, a) = 0
  BY <1>1 DEF Uncounted, Counted
<1> HIDE DEF e
<1>5. Balance' = Balance
  BY <1>0, <1>1, <1>2, <1>4 DEF Balance
<1>6. History /\ NewFrame("start", n).sid = n
  BY DEF InsertSession, NewFrame
<1>7. raced' \in {raced, raced \cup {n}}
  BY <1>2, <1>6, RacedBy
<1> QED
  BY <1>2, <1>3, <1>5, <1>7 DEF L!Open, Standing

\* What an UPDATE of row w makes of the mapping.
LEMMA UpdateMaps ==
    ASSUME TypeInv, NEW s \in SessionIds, sessions[s] # None,
           NEW w \in Row, sessions' = [sessions EXCEPT ![s] = w]
    PROVE  /\ Standing' = [Standing EXCEPT ![s] = w.status]
           /\ Standing[s] = sessions[s].status
           /\ Balance' = [Balance EXCEPT ![s] = [a \in ActivityIds |-> Counted(w, a)]]
           /\ \A a \in ActivityIds : Balance[s][a] = Counted(sessions[s], a)
<1>1. sessions \in [SessionIds -> Row \cup {None}] /\ w # None
  BY RowAssumption DEF TypeInv, TablesOK
<1>2. Standing' = [Standing EXCEPT ![s] = w.status] /\ Standing[s] = sessions[s].status
  BY <1>1 DEF Standing
<1>3. \A a \in ActivityIds : Balance[s][a] = Counted(sessions[s], a)
  BY DEF Balance
<1> DEFINE b == [a \in ActivityIds |-> Counted(w, a)]
<1>4. \A q \in SessionIds : Balance'[q] = IF q = s THEN b ELSE Balance[q]
  BY <1>1 DEF Balance
<1>5. /\ Balance' = [q \in SessionIds |-> Balance'[q]]
      /\ Balance = [q \in SessionIds |-> Balance[q]]
  BY DEF Balance
<1> HIDE DEF b
<1>6. Balance' = [Balance EXCEPT ![s] = b]
  BY <1>4, <1>5
<1> QED
  BY <1>2, <1>3, <1>6 DEF b

\* The UPDATE of a handler that was not overtaken.
LEMMA UpdateCreditsOrCloses ==
    ASSUME TypeInv, CountInv, SaveInv, OpenInv, NEW r \in Requests, SaveUpdate(r),
           frame[r].sid \notin since[r]
    PROVE  \E s \in SessionIds : \/ L!Close(s)
                                 \/ \E A \in SUBSET ActivityIds : L!Credit(s, A)
<1> DEFINE f == frame[r]
           s == f.sid
           row == sessions[s]
           w == Written(row, f.entity, f.cols)
           act == IF Amount(f.active) = 0 THEN {} ELSE f.active
           idl == IF Amount(f.idle) = 0 THEN {} ELSE f.idle
           A == act \cup idl
<1>1. /\ pc[r] = "update" /\ f \in Frame
      /\ s \in SessionIds /\ row \in Row /\ row # None /\ w \in Row
      /\ sessions' = [sessions EXCEPT ![s] = w]
      /\ raced' = raced
  BY UpdateWrites
<1>2. /\ row.status = "active"
      /\ w.active = Recorded(row.active, f.active)
      /\ w.idle = Recorded(row.idle, f.idle)
      /\ w.status # row.status => f.active = {} /\ f.idle = {}
  BY <1>1, FreshUpdate DEF SaveInv, OpenInv
<1>3. /\ Standing' = [Standing EXCEPT ![s] = w.status]
      /\ Standing[s] = "active"
      /\ Balance' = [Balance EXCEPT ![s] = [a \in ActivityIds |-> Counted(w, a)]]
      /\ \A a \in ActivityIds : Balance[s][a] = Counted(row, a)
  BY <1>1, <1>2, UpdateMaps
<1>4. A \subseteq L!Nowhere /\ A \subseteq ActivityIds
  BY <1>1, NotYetCounted DEF L!Nowhere, Frame
<1>5. act \cap idl = {}
  BY DEF CountInv, AddsInv, OwnAdds
<1>6. ASSUME NEW a \in ActivityIds
      PROVE  Counted(w, a) = IF a \in A THEN 1 ELSE Balance[s][a]
  <2>1. row.active[a] \in Nat /\ row.idle[a] \in Nat
    BY <1>1 DEF Row, Tally
  <2>2. a \in A => Balance[s][a] = 0
    BY <1>1, NotYetCounted
  <2>3. /\ w.active[a] = IF a \in act THEN row.active[a] + 1 ELSE row.active[a]
        /\ w.idle[a] = IF a \in idl THEN row.idle[a] + 1 ELSE row.idle[a]
    BY <1>2 DEF Recorded, Plus
  <2> HIDE DEF row, w, act, idl
  <2> QED
    BY <1>3, <1>5, <2>1, <2>2, <2>3 DEF Counted
<1>7. w.status \in {"active", "stopped"}
  BY <1>1 DEF Row, Status
<1> HIDE DEF w, act, idl
<1>8. Balance' = [Balance EXCEPT
          ![s] = [a \in ActivityIds |-> IF a \in A THEN 1 ELSE @[a]]]
  <2>1. [a \in ActivityIds |-> Counted(w, a)]
            = [a \in ActivityIds |-> IF a \in A THEN 1 ELSE Balance[s][a]]
    BY <1>6
  <2> QED
    BY <1>3, <2>1
<1>9. CASE w.status = "active"
  <2>1. Standing' = Standing
    BY <1>3, <1>9 DEF Standing
  <2> QED
    BY <1>1, <1>3, <1>4, <1>8, <2>1 DEF L!Credit
<1>10. CASE w.status = "stopped"
  <2>1. A = {}
    BY <1>2, <1>10 DEF act, idl
  <2>2. [a \in ActivityIds |-> IF a \in A THEN 1 ELSE Balance[s][a]] = Balance[s]
    BY <1>1, <2>1 DEF Balance
  <2>3. Balance' = Balance
    BY <1>8, <2>2 DEF Balance
  <2>4. Standing' = [Standing EXCEPT ![s] = "stopped"]
    BY <1>3, <1>10
  <2>5. L!Close(s)
    BY <1>1, <1>3, <2>3, <2>4 DEF L!Close
  <2> QED
    BY <1>1, <2>5
<1> QED
  BY <1>7, <1>9, <1>10

\* The UPDATE of a handler that was overtaken.  What it writes is a row as any
\* other: it counts activities of this session, each once.
LEMMA UpdateOverwrites ==
    ASSUME TypeInv, CountedOnce', NEW r \in Requests, SaveUpdate(r),
           frame[r].sid \in since[r]
    PROVE  \E s \in SessionIds, A \in SUBSET ActivityIds, status \in {"active", "stopped"} :
              L!Overwrite(s, A, status)
<1> DEFINE f == frame[r]
           s == f.sid
           w == Written(sessions[s], f.entity, f.cols)
           A == {a \in ActivityIds : Counted(w, a) > 0}
<1>1. /\ s \in SessionIds /\ sessions[s] \in Row /\ sessions[s] # None
      /\ w \in Row /\ w # None
      /\ sessions' = [sessions EXCEPT ![s] = w]
      /\ raced' = raced \cup {s}
  BY UpdateWrites
<1> HIDE DEF w
<1>2. /\ sessions \in [SessionIds -> Row \cup {None}]
      /\ sessions'[s] = w
      /\ \A q \in SessionIds \ {s} : sessions'[q] = sessions[q]
  BY <1>1 DEF TypeInv, TablesOK
<1>3. /\ Standing' = [Standing EXCEPT ![s] = w.status]
      /\ Standing[s] = sessions[s].status
      /\ Balance' = [Balance EXCEPT ![s] = [a \in ActivityIds |-> Counted(w, a)]]
  BY <1>1, UpdateMaps
<1>4. /\ w.status \in {"active", "stopped"} /\ sessions[s].status # "none"
      /\ \A a \in ActivityIds : Counted(w, a) \in Nat
  BY <1>1 DEF Row, Status, Tally, Counted
<1>5. ASSUME NEW a \in A
      PROVE  Counted(w, a) = 1 /\ frame'[a[1]].sid = s
  BY <1>1, <1>2 DEF CountedOnce
<1>6. [a \in ActivityIds |-> Counted(w, a)]
          = [a \in ActivityIds |-> IF a \in A THEN 1 ELSE 0]
  BY <1>4, <1>5
<1>7. A \subseteq L!Free(s)
  <2> SUFFICES ASSUME NEW a \in A, NEW q \in SessionIds \ {s}
               PROVE  Balance[q][a] = 0
    BY DEF L!Free
  <2>1. CASE sessions[q] = None
    BY <2>1 DEF Balance
  <2>2. CASE sessions[q] # None
    <3>1. ~(Counted(sessions[q], a) > 0)
      BY <1>2, <1>5, <2>2 DEF CountedOnce
    <3>2. Counted(sessions[q], a) \in Nat
      BY <1>2, <2>2 DEF Row, Tally, Counted
    <3> QED
      BY <2>2, <3>1, <3>2 DEF Balance
  <2> QED
    BY <2>1, <2>2
<1> HIDE DEF A
<1>8. A \subseteq ActivityIds
  BY DEF A
<1>9. L!Overwrite(s, A, w.status)
  BY <1>1, <1>3, <1>4, <1>6, <1>7 DEF L!Overwrite
<1> QED
  BY <1>1, <1>4, <1>8, <1>9

\* Nothing goes on record but by a write.
LEMMA OnlyWritesRace ==
    TypeInv /\ [Next]_vars =>
        \/ UNCHANGED <<sessions, raced>>
        \/ \E r \in Requests : InsertSession(r) \/ SaveUpdate(r)
<1> SUFFICES ASSUME TypeInv, [Next]_vars, UNCHANGED sessions, History,
                    ~ \E r \in Requests : InsertSession(r) \/ SaveUpdate(r)
             PROVE  raced' = raced
  BY OnlyWrites, NextHistory DEF vars
<1>1. ASSUME NEW q \in Requests, NEW p, NEW f, Await(q, p, f), p # "reply"
      PROVE  raced' = raced
  BY <1>1, RacedBy
<1>2. ASSUME NEW q \in Requests, Arrival(q) \/ Step(q) \/ QueryFails(q)
      PROVE  \E p : p # "reply" /\ \E f : Await(q, p, f)
  BY <1>2 DEF Arrival, StartSession, StopSession, CallTotals, Step, TotalsRead, SaveLoad,
              Reply, QueryFails, Finish
<1>3. CASE Crash \/ Tick \/ UNCHANGED vars
  <2>1. \A r \in Requests : ~(Outdated(r) /\ pc'[r] = "reply")
    BY <1>3 DEF Crash, Tick, vars, handlers, Outdated, InFlight, Done
  <2> QED
    BY <2>1 DEF History
<1> QED
  BY <1>1, <1>2, <1>3 DEF Next, Terminated

LEMMA LedgerStep ==
    TypeInv /\ CountInv /\ SaveInv /\ OpenInv /\ NewInv /\ CountedOnce' /\ [Next]_vars
        => [L!Next]_(L!ledger)
<1> SUFFICES ASSUME TypeInv, CountInv, SaveInv, OpenInv, NewInv, CountedOnce', [Next]_vars
             PROVE  [L!Next]_(L!ledger)
  OBVIOUS
<1>1. CASE UNCHANGED <<sessions, raced>>
  BY <1>1 DEF L!ledger, Standing, Balance
<1>2. ASSUME NEW r \in Requests, InsertSession(r) PROVE L!Next
  BY <1>2, InsertOpens DEF L!Next
<1>3. ASSUME NEW r \in Requests, SaveUpdate(r) PROVE L!Next
  BY <1>3, UpdateCreditsOrCloses, UpdateOverwrites DEF L!Next
<1> QED
  BY <1>1, <1>2, <1>3, OnlyWritesRace

LEMMA LedgerInit == Init => L!Init
<1> SUFFICES ASSUME Init PROVE L!Init
  OBVIOUS
<1>1. \A s \in SessionIds :
         \/ sessions[s] = None
         \/ /\ sessions[s].status \in Status
            /\ \A a \in ActivityIds : sessions[s].active[a] = 0 /\ sessions[s].idle[a] = 0
  BY SessionsAssumption DEF Init, EmptyTally, Row
<1>2. Standing \in [SessionIds -> {"none", "active", "stopped"}]
  BY <1>1 DEF Standing, Status
<1>3. \A s \in SessionIds, a \in ActivityIds :
         (IF sessions[s] = None THEN 0 ELSE Counted(sessions[s], a)) = 0
  BY <1>1 DEF Counted
<1>4. Balance = [s \in SessionIds |-> [a \in ActivityIds |-> 0]]
  BY <1>3 DEF Balance
<1>5. raced = {}
  BY DEF Init
<1> QED
  BY <1>2, <1>4, <1>5 DEF L!Init

(***************************************************************************)
(* The session handlers implement the ledger: whatever finds, saves,       *)
(* failures and crashes do in between, every step opens, credits or closes *)
(* a session as Ledger allows, changes nothing a user sees, or is a save   *)
(* that was overtaken and overwrites the one session it is a save of.      *)
(***************************************************************************)
THEOREM LedgerImplemented == Spec => ImplementsLedger
<1>1. Init => L!Init /\ NewInv
  BY LedgerInit, OneInit
<1>2. TypeInv /\ NewInv /\ [Next]_vars => NewInv'
  BY NewNext
<1> QED
  BY <1>1, <1>2, LedgerStep, SaveHolds, NoDoubleCounting, PTL
     DEF Spec, ImplementsLedger, L!Spec
=============================================================================
