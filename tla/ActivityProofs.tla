--------------------------- MODULE ActivityProofs ---------------------------
(***************************************************************************)
(* Theorems about Activity: what a bulk upload leaves in activity_logs and *)
(* in work_sessions, whatever runs beside it, waits for it, fails or stops. *)
(***************************************************************************)
EXTENDS Activity, LedgerProofs, FunctionTheorems

-----------------------------------------------------------------------------
(* The inductive invariant. *)

Bodies == {b \in Seq(Item) : Len(b) <= MaxBatch}

ActivityTypeInv ==
    /\ TypeInv
    /\ logs \subseteq ActivityIds
    /\ body \in [Requests -> Bodies]
    /\ tx \in [Requests -> Transaction]

\* Which handler is where.  Only a bulk upload has a transaction of several
\* statements.
OpOK(r) ==
    /\ pc[r] \in {"log", "totals"} => frame[r].op = "log"
    /\ pc[r] = "log" => DOMAIN body[r] = {1} /\ body[r][1].client = None
    /\ pc[r] = "item" =>
          frame[r].op = "bulk" /\ frame[r].active = {} /\ frame[r].idle = {}
    /\ pc[r] = "insert" => frame[r].op = "start"
    /\ tx[r] # NoTx => frame[r].op = "bulk" /\ pc[r] \in {"item", "load", "update"}

OpInv == \A r \in Requests : OpOK(r)

\* How far a bulk upload is: its rows are a prefix of the sorted activities, and
\* if it has none after a duplicate, the duplicate was the first activity.
Uploading(r) ==
    /\ pc[r] = "item" =>
          /\ tx[r].at <= Len(body[r]) + 1
          /\ ~tx[r].poisoned =>
                tx[r].uploaded = {SortedOrder(body[r])[i] : i \in 1..(tx[r].at - 1)}
          /\ tx[r].poisoned /\ tx[r].uploaded = {} =>
                tx[r].at = 2 /\ Clashes(<<r, SortedOrder(body[r])[1]>>, logs)
    /\ pc[r] \in {"load", "update"} /\ frame[r].op = "bulk" =>
          /\ ~tx[r].poisoned
          /\ tx[r].uploaded = DOMAIN body[r]
          /\ HeldBy(r) = frame[r].active \cup frame[r].idle

UploadInv == \A r \in Requests : Uploading(r)

\* Where the rows of activity_logs come from.
LogOK(a) ==
    /\ a[2] \in DOMAIN body[a[1]]
    /\ \/ /\ frame[a[1]].op = "log"
          /\ pc[a[1]] \notin {"new", "log"}
          /\ ItemOf(a).client = None
       \/ /\ frame[a[1]].op = "bulk"
          /\ pc[a[1]] \in Settled
          /\ \A i \in DOMAIN body[a[1]] : <<a[1], i>> \in logs

LogInv == \A a \in logs : LogOK(a)

\* An upload that is about to be answered with success.
Stored(r) ==
    frame[r].op = "bulk" /\ pc[r] \in {"reply", "ok"} =>
        \A i \in DOMAIN body[r] : <<r, i>> \in logs \/ Clashes(<<r, i>>, logs)

StoredInv == \A r \in Requests : Stored(r)

\* The rows of the table, and those inserted and not committed.
AllRows == logs \cup UNION {HeldBy(r) : r \in Requests}

UniqueInv ==
    \A a, b \in AllRows : ItemOf(a).client # None /\ a # b => Key(a) # Key(b)

\* Row object row counts nothing but activities of A.
Within(row, A) == \A a \in ActivityIds : row.active[a] # 0 \/ row.idle[a] # 0 => a \in A

\* The rows of work_sessions count logged activities only; a row object, and the
\* request it belongs to, add besides these those of their own transaction.
RowsWithin == \A s \in SessionIds : sessions[s] # None => Within(sessions[s], logs)

EntityWithin(r) ==
    pc[r] \in {"load", "update"} => Within(frame[r].entity, logs \cup HeldBy(r))

AddsWithin(r) ==
    pc[r] \in {"totals", "load", "update"} =>
        frame[r].active \cup frame[r].idle \subseteq logs \cup HeldBy(r)

WithinInv == RowsWithin /\ \A r \in Requests : EntityWithin(r) /\ AddsWithin(r)

ActivityInv ==
    /\ ActivityTypeInv /\ CountInv /\ OpInv /\ UploadInv /\ LogInv /\ StoredInv
    /\ UniqueInv /\ WithinInv

\* Once a bulk upload has committed its rows, its seconds stay in the session.
Owned(r) ==
    \A i \in 1..MaxBatch :
        <<r, i>> \in logs /\ frame[r].op = "bulk" /\ frame[r].sid \notin raced =>
            Kept(frame[r], sessions)

OwnedInv == \A r \in Requests : Owned(r)

-----------------------------------------------------------------------------
(* The sort. *)

\* The order of a stable sort by timestamp.
Before(b, i, j) == b[i].ts < b[j].ts \/ (b[i].ts = b[j].ts /\ i < j)

Predecessors(b, i) == {j \in DOMAIN b : Before(b, j, i)}

\* A body has finitely many activities with numbers for timestamps.
LEMMA BodyType ==
    ASSUME NEW b \in Bodies
    PROVE  /\ Len(b) \in Nat /\ Len(b) <= MaxBatch /\ DOMAIN b = 1..Len(b)
           /\ IsFiniteSet(DOMAIN b) /\ Cardinality(DOMAIN b) = Len(b)
           /\ \A i \in DOMAIN b : b[i] \in Item /\ b[i].ts \in Int
<1>1. b \in Seq(Item) /\ Len(b) <= MaxBatch
  BY DEF Bodies
<1>2. Len(b) \in Nat /\ DOMAIN b = 1..Len(b)
  BY <1>1
<1>3. \A i \in DOMAIN b : b[i] \in Item
  BY <1>1
<1>4. \A x \in Item : x.ts \in Int
  BY DEF Item
<1>5. IsFiniteSet(1..Len(b)) /\ Cardinality(1..Len(b)) = IF 1 > Len(b) THEN 0 ELSE Len(b) - 1 + 1
  BY <1>2, FS_Interval
<1> QED
  BY <1>1, <1>2, <1>3, <1>4, <1>5

LEMMA BeforeIsOrder ==
    ASSUME NEW b \in Bodies, NEW i \in DOMAIN b, NEW j \in DOMAIN b, NEW k \in DOMAIN b
    PROVE  /\ ~Before(b, i, i)
           /\ Before(b, i, j) \/ Before(b, j, i) \/ i = j
           /\ Before(b, i, j) /\ Before(b, j, k) => Before(b, i, k)
<1>1. i \in Int /\ j \in Int /\ k \in Int /\ b[i].ts \in Int /\ b[j].ts \in Int /\ b[k].ts \in Int
  BY BodyType
<1> DEFINE ti == b[i].ts
           tj == b[j].ts
           tk == b[k].ts
<1> HIDE DEF ti, tj, tk
<1>2. ti \in Int /\ tj \in Int /\ tk \in Int
  BY <1>1 DEF ti, tj, tk
<1>3. /\ ~(ti < ti \/ (ti = ti /\ i < i))
      /\ (ti < tj \/ (ti = tj /\ i < j)) \/ (tj < ti \/ (tj = ti /\ j < i)) \/ i = j
      /\ (ti < tj \/ (ti = tj /\ i < j)) /\ (tj < tk \/ (tj = tk /\ j < k))
             => (ti < tk \/ (ti = tk /\ i < k))
  BY <1>1, <1>2
<1> QED
  BY <1>3 DEF Before, ti, tj, tk

\* Its place in the order is one more than the number of its predecessors.
LEMMA PlacesAreDistinct ==
    ASSUME NEW b \in Bodies, NEW i \in DOMAIN b, NEW j \in DOMAIN b, Before(b, i, j)
    PROVE  /\ Cardinality(Predecessors(b, i)) \in Nat
           /\ Cardinality(Predecessors(b, j)) \in Nat
           /\ Cardinality(Predecessors(b, i)) < Cardinality(Predecessors(b, j))
           /\ Cardinality(Predecessors(b, j)) < Len(b)
<1> DEFINE P == Predecessors(b, i)
           Q == Predecessors(b, j)
<1>1. IsFiniteSet(DOMAIN b) /\ Cardinality(DOMAIN b) = Len(b)
  BY BodyType
<1>2. P \subseteq Q /\ i \in Q /\ i \notin P /\ Q \subseteq DOMAIN b /\ j \notin Q
  BY BeforeIsOrder DEF Predecessors
<1> HIDE DEF P, Q
<1>3. P \in SUBSET (Q \ {i}) /\ Q \in SUBSET ((DOMAIN b) \ {j})
  BY <1>2
<1>4. IsFiniteSet(Q) /\ IsFiniteSet((DOMAIN b) \ {j})
      /\ Cardinality((DOMAIN b) \ {j}) = Len(b) - 1
  BY <1>1, <1>2, FS_Subset, FS_RemoveElement
<1>5. IsFiniteSet(Q \ {i}) /\ Cardinality(Q \ {i}) = Cardinality(Q) - 1
  BY <1>2, <1>4, FS_RemoveElement
<1>6. IsFiniteSet(P) /\ Cardinality(P) <= Cardinality(Q) - 1
  BY <1>3, <1>5, FS_Subset
<1>7. Cardinality(Q) <= Len(b) - 1
  BY <1>3, <1>4, FS_Subset
<1>8. Cardinality(P) \in Nat /\ Cardinality(Q) \in Nat /\ Len(b) \in Nat
  BY <1>4, <1>6, FS_CardinalityType, BodyType
<1> QED
  BY <1>6, <1>7, <1>8 DEF P, Q

(***************************************************************************)
(* SortedOrder is the order it claims to be: a permutation of the          *)
(* activities with no later timestamp before an earlier one.               *)
(***************************************************************************)
LEMMA SortedOrderSorts ==
    ASSUME NEW b \in Bodies
    PROVE  /\ SortedOrder(b) \in [DOMAIN b -> DOMAIN b]
           /\ \A i, j \in DOMAIN b : SortedOrder(b)[i] = SortedOrder(b)[j] => i = j
           /\ \A k \in DOMAIN b : \E i \in DOMAIN b : SortedOrder(b)[i] = k
           /\ \A i, j \in DOMAIN b :
                 i < j => b[SortedOrder(b)[i]].ts <= b[SortedOrder(b)[j]].ts
<1> DEFINE D == DOMAIN b
           place == [i \in D |-> Cardinality(Predecessors(b, i)) + 1]
           p == Inverse(place, D, D)
<1>0. D = 1..Len(b) /\ Len(b) \in Nat /\ \A i \in D : b[i].ts \in Int
  BY BodyType
<1>1. \A i \in D : IsFiniteSet(Predecessors(b, i)) /\ Cardinality(Predecessors(b, i)) \in 0..Len(b)-1
  <2> SUFFICES ASSUME NEW i \in D
               PROVE  /\ IsFiniteSet(Predecessors(b, i))
                      /\ Cardinality(Predecessors(b, i)) \in 0..Len(b)-1
    OBVIOUS
  <2>1. IsFiniteSet(D) /\ Cardinality(D) = Len(b)
    BY BodyType
  <2>2. Predecessors(b, i) \in SUBSET (D \ {i})
    BY BeforeIsOrder DEF Predecessors
  <2>3. IsFiniteSet(D \ {i}) /\ Cardinality(D \ {i}) = Len(b) - 1
    BY <2>1, FS_RemoveElement
  <2>4. IsFiniteSet(Predecessors(b, i)) /\ Cardinality(Predecessors(b, i)) <= Len(b) - 1
    BY <2>2, <2>3, FS_Subset
  <2> QED
    BY <1>0, <2>4, FS_CardinalityType
<1>2. place \in [D -> D]
  BY <1>0, <1>1
<1>3. \A i, j \in D : Before(b, i, j) => place[i] < place[j]
  BY PlacesAreDistinct
<1>4. \A i, j \in D : place[i] = place[j] => i = j
  <2> SUFFICES ASSUME NEW i \in D, NEW j \in D, place[i] = place[j], i # j PROVE FALSE
    OBVIOUS
  <2>1. place[i] \in Int /\ place[j] \in Int
    BY <1>0, <1>2
  <2>2. place[i] < place[j] \/ place[j] < place[i]
    BY <1>3, BeforeIsOrder
  <2> HIDE DEF place
  <2> QED
    BY <2>1, <2>2
<1> HIDE DEF place
<1>5. place \in Bijection(D, D)
  <2>1. place \in Injection(D, D)
    BY <1>2, <1>4, Fun_IsInj
  <2>2. IsFiniteSet(D)
    BY BodyType
  <2>3. place \in Surjection(D, D)
    BY <2>1, <2>2, FS_Injection
  <2> QED
    BY <2>1, <2>3 DEF Bijection
<1>6. p \in Bijection(D, D) /\ \A i \in D : p[place[i]] = i
  BY <1>5, Fun_BijInverse
<1> HIDE DEF p
<1>7. \A i, j \in D : i < j => Before(b, p[i], p[j])
  <2> SUFFICES ASSUME NEW i \in D, NEW j \in D, i < j PROVE Before(b, p[i], p[j])
    OBVIOUS
  <2>1. PICK k \in D : place[k] = i
    BY <1>5, Fun_BijectionProperties
  <2>2. PICK l \in D : place[l] = j
    BY <1>5, Fun_BijectionProperties
  <2>3. p[i] = k /\ p[j] = l
    BY <1>6, <2>1, <2>2
  <2>4. i \in Int /\ j \in Int
    BY <1>0
  <2>5. k # l /\ ~(place[l] < place[k])
    BY <2>1, <2>2, <2>4
  <2> QED
    BY <1>3, <2>3, <2>5, BeforeIsOrder
<1> DEFINE Sorts(q) == \A i, j \in DOMAIN b : i < j =>
                           \/ b[q[i]].ts < b[q[j]].ts
                           \/ b[q[i]].ts = b[q[j]].ts /\ q[i] < q[j]
<1>8. Sorts(p)
  BY <1>7 DEF Before
<1>9. SortedOrder(b) \in Bijection(D, D) /\ Sorts(SortedOrder(b))
  <2>1. SortedOrder(b) = CHOOSE q \in Bijection(D, D) : Sorts(q)
    BY DEF SortedOrder
  <2> HIDE DEF Sorts
  <2> QED
    BY <1>6, <1>8, <2>1
<1>10. /\ SortedOrder(b) \in [D -> D]
       /\ \A i, j \in D : SortedOrder(b)[i] = SortedOrder(b)[j] => i = j
       /\ \A k \in D : \E i \in D : SortedOrder(b)[i] = k
  BY <1>9, Fun_BijectionProperties
<1>11. ASSUME NEW i \in D, NEW j \in D, i < j
       PROVE  b[SortedOrder(b)[i]].ts <= b[SortedOrder(b)[j]].ts
  <2>1. b[SortedOrder(b)[i]].ts \in Int /\ b[SortedOrder(b)[j]].ts \in Int
    BY <1>0, <1>10
  <2>2. \/ b[SortedOrder(b)[i]].ts < b[SortedOrder(b)[j]].ts
        \/ b[SortedOrder(b)[i]].ts = b[SortedOrder(b)[j]].ts
    BY <1>9, <1>11
  <2> QED
    BY <2>1, <2>2
<1> QED
  BY <1>10, <1>11

-----------------------------------------------------------------------------
(* Types. *)

\* The activity whose INSERT comes next is one of the body.
LEMMA CurrentType ==
    ASSUME ActivityTypeInv, NEW r \in Requests, Inserting(r)
    PROVE  /\ body[r] \in Bodies
           /\ tx[r].at \in DOMAIN body[r]
           /\ tx[r].at \in Nat
           /\ SortedOrder(body[r])[tx[r].at] \in DOMAIN body[r]
           /\ SortedOrder(body[r])[tx[r].at] \in 1..MaxBatch
           /\ tx[r].at + 1 \in 1..MaxBatch + 1
           /\ Current(r) \in ActivityIds
<1> DEFINE b == body[r]
           at == tx[r].at
           k == SortedOrder(b)[at]
<1>1. b \in Bodies /\ at \in 1..MaxBatch + 1 /\ at <= Len(b)
  BY DEF ActivityTypeInv, Inserting, Transaction
<1>2. Len(b) \in Nat /\ Len(b) <= MaxBatch /\ DOMAIN b = 1..Len(b)
  BY <1>1, BodyType
<1> HIDE DEF at, b
<1>3. at \in DOMAIN b /\ at \in Nat /\ at + 1 \in 1..MaxBatch + 1
  BY <1>1, <1>2, ConstantsAssumption
<1>4. k \in DOMAIN b
  BY <1>1, <1>3, SortedOrderSorts
<1>5. k \in 1..MaxBatch
  BY <1>2, <1>4, ConstantsAssumption
<1> HIDE DEF k
<1>6. <<r, k>> \in ActivityIds
  BY <1>5 DEF ActivityIds
<1> QED
  BY <1>1, <1>3, <1>4, <1>5, <1>6 DEF Current, b, at, k

\* What the INSERT of an activity does to the transaction.
LEMMA AdvancedType ==
    ASSUME ActivityTypeInv, NEW r \in Requests, Inserting(r),
           NEW U \in SUBSET {SortedOrder(body[r])[tx[r].at]}, NEW failed \in BOOLEAN,
           tx' = [tx EXCEPT ![r] = Advanced(@, U, failed)]
    PROVE  /\ tx' \in [Requests -> Transaction]
           /\ tx'[r].at = tx[r].at + 1
           /\ tx'[r].uploaded = tx[r].uploaded \cup U
           /\ tx'[r].poisoned = failed
           /\ \A q \in Requests \ {r} : tx'[q] = tx[q]
<1> DEFINE n == Advanced(tx[r], U, failed)
<1>1. tx \in [Requests -> Transaction] /\ tx[r].uploaded \subseteq 1..MaxBatch
  BY DEF ActivityTypeInv, Transaction
<1>2. tx[r].at + 1 \in 1..MaxBatch + 1 /\ U \subseteq 1..MaxBatch
  BY CurrentType
<1>3. n \in Transaction
  BY <1>1, <1>2 DEF Advanced, Transaction
<1>4. n.at = tx[r].at + 1 /\ n.uploaded = tx[r].uploaded \cup U /\ n.poisoned = failed
  BY DEF Advanced
<1>5. tx' = [tx EXCEPT ![r] = n]
  OBVIOUS
<1> HIDE DEF n
<1> QED
  BY <1>1, <1>3, <1>4, <1>5

LEMMA NoTxType == NoTx \in Transaction
BY ConstantsAssumption DEF NoTx, Transaction

\* The rows a request holds are rows.
LEMMA HeldByType ==
    ASSUME ActivityTypeInv, NEW r \in Requests
    PROVE  HeldBy(r) \subseteq ActivityIds
<1>1. tx[r].uploaded \subseteq 1..MaxBatch
  BY DEF ActivityTypeInv, Transaction
<1> QED
  BY <1>1 DEF HeldBy, ActivityIds

\* Finish, and Await of a query without a session, when nothing is written.
LEMMA QuietFinishType ==
    ASSUME TypeInv, NEW r \in Requests, NEW p \in Done \cup {"reply"}, Finish(r, p),
           UNCHANGED <<now, sessions>>
    PROVE  TypeInv'
<1>1. now \in 0..MaxTime /\ sessions \in [SessionIds -> Row \cup {None}]
  BY DEF TypeInv, TablesOK
<1> QED
  BY <1>1, FinishType

LEMMA QuietAwaitType ==
    ASSUME TypeInv, NEW r \in Requests, NEW p \in {"log", "item", "totals", "load"},
           NEW f \in Frame, Await(r, p, f), UNCHANGED <<now, sessions>>,
           f.sid \in SessionIds, sessions[f.sid] \in Row,
           p = "load" => f.entity \in Row
    PROVE  TypeInv'
<1>1. now \in 0..MaxTime /\ sessions \in [SessionIds -> Row \cup {None}]
  BY DEF TypeInv, TablesOK
<1>2. p \in Places /\ p \notin {"insert", "update"}
  BY DEF Places, Awaiting
<1> QED
  BY <1>1, <1>2, AwaitType

LEMMA LogActivityType ==
    ASSUME ActivityTypeInv, NEW r \in Requests, NEW u \in Users, NEW s \in SessionIds,
           NEW t \in ClientTimes \cup {None}, NEW type \in Types,
           LogActivity(r, u, s, t, type)
    PROVE  ActivityTypeInv'
<1> DEFINE b == <<[client |-> None, ts |-> TimeOr(t), type |-> type]>>
           f == NewFrame("log", s)
<1>0. TypeInv /\ UNCHANGED <<now, sessions, logs, tx>>
  BY DEF ActivityTypeInv, LogActivity
<1>1. CASE Finish(r, "rejected") /\ UNCHANGED body
  BY <1>0, <1>1, QuietFinishType DEF ActivityTypeInv, Done
<1>2. CASE MayChange(u, s) /\ Await(r, "log", f) /\ body' = [body EXCEPT ![r] = b]
  <2>1. TimeOr(t) \in Int
    BY <1>0, TimeOrType
  <2>2. [client |-> None, ts |-> TimeOr(t), type |-> type] \in Item
    BY <2>1 DEF Item
  <2>3. b \in Bodies
    BY <2>2, ConstantsAssumption DEF Bodies
  <2>4. f \in Frame /\ f.sid = s
    BY SessionsAssumption DEF NewFrame, Frame, Ops
  <2>5. sessions[s] \in Row
    BY <1>0, <1>2 DEF MayChange, ActiveOf, TypeInv, TablesOK
  <2>6. TypeInv'
    BY <1>0, <1>2, <2>4, <2>5, QuietAwaitType
  <2> HIDE DEF b
  <2> QED
    BY <1>0, <1>2, <2>3, <2>6 DEF ActivityTypeInv
<1> QED
  BY <1>1, <1>2 DEF LogActivity

LEMMA BulkUploadType ==
    ASSUME ActivityTypeInv, NEW r \in Requests, NEW u \in Users, NEW s \in SessionIds,
           NEW b \in Batches, BulkUpload(r, u, s, b)
    PROVE  ActivityTypeInv'
<1> DEFINE f == NewFrame("bulk", s)
<1>0. TypeInv /\ UNCHANGED <<now, sessions, logs, tx>>
  BY DEF ActivityTypeInv, BulkUpload
<1>1. CASE Finish(r, "rejected") /\ UNCHANGED body
  BY <1>0, <1>1, QuietFinishType DEF ActivityTypeInv, Done
<1>2. CASE MayChange(u, s) /\ Await(r, "item", f) /\ body' = [body EXCEPT ![r] = b]
  <2>1. b \in Bodies
    BY ActivityAssumption DEF Bodies
  <2>2. f \in Frame /\ f.sid = s
    BY SessionsAssumption DEF NewFrame, Frame, Ops
  <2>3. sessions[s] \in Row
    BY <1>0, <1>2 DEF MayChange, ActiveOf, TypeInv, TablesOK
  <2>4. TypeInv'
    BY <1>0, <1>2, <2>2, <2>3, QuietAwaitType
  <2> QED
    BY <1>0, <1>2, <2>1, <2>4 DEF ActivityTypeInv
<1> QED
  BY <1>1, <1>2 DEF BulkUpload

LEMMA LogInsertType ==
    ASSUME ActivityTypeInv, NEW r \in Requests, LogInsert(r)
    PROVE  ActivityTypeInv'
<1> DEFINE A == OfType({<<r, 1>>}, "active")
           I == OfType({<<r, 1>>}, "idle")
           f == frame[r]
           g == [f EXCEPT !.active = A, !.idle = I]
<1>0. /\ TypeInv /\ UNCHANGED <<now, sessions, body, tx>>
      /\ f \in Frame /\ f.sid \in SessionIds /\ sessions[f.sid] \in Row
  BY DEF ActivityTypeInv, LogInsert, TypeInv, TablesOK, FrameOK, Bound
<1>1. <<r, 1>> \in ActivityIds
  BY ConstantsAssumption DEF ActivityIds
<1>2. CASE Finish(r, "failed") /\ UNCHANGED logs
  BY <1>0, <1>2, QuietFinishType DEF ActivityTypeInv, Done
<1>3. CASE Await(r, "totals", g) /\ logs' = logs \cup {<<r, 1>>}
  <2>1. A \subseteq ActivityIds /\ I \subseteq ActivityIds
    BY <1>1 DEF OfType
  <2> HIDE DEF A, I
  <2>2. g \in Frame /\ g.sid = f.sid
    BY <1>0, <2>1 DEF Frame
  <2> HIDE DEF f, g
  <2>3. TypeInv'
    BY <1>0, <1>3, <2>2, QuietAwaitType
  <2> QED
    BY <1>0, <1>1, <1>3, <2>3 DEF ActivityTypeInv
<1> QED
  BY <1>2, <1>3 DEF LogInsert

LEMMA BulkTotalsType ==
    ASSUME ActivityTypeInv, NEW r \in Requests, BulkTotals(r)
    PROVE  ActivityTypeInv'
<1> DEFINE A == OfType({<<r, i>> : i \in tx[r].uploaded}, "active")
           I == OfType({<<r, i>> : i \in tx[r].uploaded}, "idle")
           f == frame[r]
           e == Credited(sessions[f.sid], A, I, now)
           g == [f EXCEPT !.active = A, !.idle = I, !.entity = e]
<1>0. /\ TypeInv /\ UNCHANGED <<now, sessions, logs, body>>
      /\ f \in Frame /\ f.sid \in SessionIds /\ sessions[f.sid] \in Row
      /\ now \in Int
      /\ tx[r].uploaded \subseteq 1..MaxBatch
  BY SessionsAssumption
     DEF ActivityTypeInv, BulkTotals, TypeInv, TablesOK, FrameOK, Bound, Transaction
<1>1. ASSUME NEW p \in {"failed", "reply"}, Finish(r, p), tx' = [tx EXCEPT ![r] = NoTx]
      PROVE  ActivityTypeInv'
  <2>1. TypeInv'
    BY <1>0, <1>1, QuietFinishType DEF Done
  <2> QED
    BY <1>0, <1>1, <2>1, NoTxType DEF ActivityTypeInv
<1>2. CASE Await(r, "load", g) /\ UNCHANGED tx
  <2>1. A \subseteq ActivityIds /\ I \subseteq ActivityIds
    BY <1>0 DEF OfType, ActivityIds
  <2>2. e \in Row
    BY <1>0, CreditedType
  <2> HIDE DEF A, I, e
  <2>3. g \in Frame /\ g.sid = f.sid /\ g.entity = e
    BY <1>0, <2>1, <2>2 DEF Frame
  <2> HIDE DEF f, g
  <2>4. TypeInv'
    BY <1>0, <1>2, <2>2, <2>3, QuietAwaitType
  <2> QED
    BY <1>0, <1>2, <2>4 DEF ActivityTypeInv
<1> QED
  BY <1>1, <1>2 DEF BulkTotals, Rollback

\* The first step of a handler keeps the types.
LEMMA ActivityArrivalType ==
    ASSUME ActivityTypeInv, NEW r \in Requests, ActivityArrival(r)
    PROVE  ActivityTypeInv'
<1>1. ASSUME Arrival(r), UNCHANGED <<logs, body, tx>>
      PROVE  ActivityTypeInv'
  BY <1>1, ArrivalType DEF ActivityTypeInv
<1> QED
  BY <1>1, LogActivityType, BulkUploadType DEF ActivityArrival, Arrival

\* The handler of r does nothing but go back and forth in its transaction.
LEMMA ItemType ==
    ASSUME ActivityTypeInv, NEW r \in Requests,
           \/ ItemStored(r) \/ ItemDuplicate(r) \/ ItemFails(r) \/ DeadlockVictim(r)
    PROVE  ActivityTypeInv'
<1>0. TypeInv /\ tx \in [Requests -> Transaction]
  BY DEF ActivityTypeInv
<1>1. CASE ItemStored(r)
  <2>1. /\ Inserting(r)
        /\ tx' = [tx EXCEPT ![r] = Advanced(@, {SortedOrder(body[r])[tx[r].at]}, FALSE)]
        /\ UNCHANGED <<now, sessions, pc, frame, logs, body>>
    BY <1>1 DEF ItemStored, Current
  <2>2. tx' \in [Requests -> Transaction]
    BY <2>1, AdvancedType
  <2> QED
    BY <1>0, <2>1, <2>2 DEF ActivityTypeInv, TypeInv, TablesOK, FrameOK
<1>2. CASE ItemDuplicate(r)
  <2>1. /\ Inserting(r)
        /\ tx' = [tx EXCEPT ![r] = Advanced(@, {}, TRUE)]
        /\ UNCHANGED <<now, sessions, pc, frame, logs, body>>
    BY <1>2 DEF ItemDuplicate
  <2>2. tx' \in [Requests -> Transaction]
    BY <2>1, AdvancedType
  <2> QED
    BY <1>0, <2>1, <2>2 DEF ActivityTypeInv, TypeInv, TablesOK, FrameOK
<1>3. CASE ItemFails(r) \/ DeadlockVictim(r)
  <2>1. Finish(r, "failed") /\ tx' = [tx EXCEPT ![r] = NoTx]
        /\ UNCHANGED <<now, sessions, logs, body>>
    BY <1>3 DEF ItemFails, DeadlockVictim, Rollback
  <2>2. TypeInv'
    BY <1>0, <2>1, QuietFinishType DEF Done
  <2> QED
    BY <1>0, <2>1, <2>2, NoTxType DEF ActivityTypeInv
<1> QED
  BY <1>1, <1>2, <1>3

\* Every further step of a handler keeps the types.
LEMMA ActivityStepType ==
    ASSUME ActivityTypeInv, NEW r \in Requests, ActivityStep(r)
    PROVE  ActivityTypeInv'
<1>0. TypeInv /\ tx \in [Requests -> Transaction] /\ NoTx \in Transaction
  BY NoTxType DEF ActivityTypeInv
<1>1. CASE SaveUpdate(r) /\ CommitRows(r)
  BY <1>0, <1>1, StepType, HeldByType DEF Step, CommitRows, ActivityTypeInv
<1>2. CASE /\ InsertSession(r) \/ TotalsRead(r) \/ SaveLoad(r) \/ Reply(r)
           /\ UNCHANGED <<logs, body, tx>>
  <2>1. Step(r)
    BY <1>2 DEF Step
  <2> QED
    BY <1>0, <1>2, <2>1, StepType DEF ActivityTypeInv
<1> QED
  BY <1>1, <1>2, LogInsertType, ItemType, BulkTotalsType DEF ActivityStep

\* A query that fails, a crash and the clock keep the types.
LEMMA ActivityFaultType ==
    ASSUME ActivityTypeInv,
           (\E r \in Requests : ActivityFails(r)) \/ ActivityCrash
               \/ (Tick /\ UNCHANGED <<logs, body, tx>>)
    PROVE  ActivityTypeInv'
<1>1. tx' \in [Requests -> Transaction] /\ UNCHANGED <<logs, body>>
  BY NoTxType DEF ActivityTypeInv, ActivityFails, ActivityCrash
<1>2. (\E r \in Requests : QueryFails(r)) \/ Crash \/ Tick
  BY DEF ActivityFails, ActivityCrash
<1> QED
  BY <1>1, <1>2, FaultType DEF ActivityTypeInv

LEMMA ActivityTypeInit == ActivityInit => ActivityTypeInv
<1> SUFFICES ASSUME ActivityInit PROVE ActivityTypeInv
  OBVIOUS
<1>1. << >> \in Bodies
  BY ConstantsAssumption DEF Bodies
<1> QED
  BY <1>1, TypeInit, NoTxType DEF ActivityInit, ActivityTypeInv

LEMMA ActivityTypeNext == ActivityTypeInv /\ [ActivityNext]_avars => ActivityTypeInv'
<1>1. ASSUME ActivityTypeInv, UNCHANGED avars PROVE ActivityTypeInv'
  BY <1>1 DEF handlers, vars, avars, ActivityTypeInv, TypeInv, TablesOK, FrameOK
<1>2. Terminated /\ UNCHANGED <<logs, body, tx>> => UNCHANGED avars
  BY DEF Terminated, vars, handlers, avars
<1> QED
  BY <1>1, <1>2, ActivityArrivalType, ActivityStepType, ActivityFaultType DEF ActivityNext, RequestsNext

\* Every step is on record.
LEMMA ActivityHistory == [ActivityNext]_avars => History \/ UNCHANGED vars
<1>1. ASSUME NEW r \in Requests, ActivityArrival(r) \/ ActivityStep(r) \/ ActivityFails(r)
      PROVE  History
  BY <1>1 DEF ActivityArrival, LogActivity, BulkUpload, StartSession, StopSession,
       ActivityStep, LogInsert, ItemStored, ItemDuplicate, ItemFails, DeadlockVictim,
       BulkTotals, SaveUpdate, InsertSession, TotalsRead, SaveLoad, Reply, ActivityFails,
       QueryFails
<1>2. ActivityCrash \/ Tick => History
  BY DEF ActivityCrash, Crash, Tick
<1>3. Terminated \/ UNCHANGED avars => UNCHANGED vars
  BY DEF Terminated, avars
<1> QED
  BY <1>1, <1>2, <1>3 DEF ActivityNext, RequestsNext

(***************************************************************************)
(* Type correctness of logActivity and bulkUploadActivities.               *)
(***************************************************************************)
THEOREM ActivityTypes == ActivitySpec => []ActivityTypeOK
<1>1. ActivityTypeInv /\ HistoryOK => ActivityTypeOK
  <2>1. Bodies \subseteq Seq(Item)
    BY DEF Bodies
  <2> QED
    BY <2>1 DEF ActivityTypeInv, ActivityTypeOK, TypeInv, TablesOK, Places
<1>2. ActivityInit => HistoryOK
  BY HistoryInit DEF ActivityInit
<1>3. HistoryOK /\ [ActivityNext]_avars => HistoryOK'
  BY ActivityHistory, HistoryType DEF vars, HistoryOK
<1> QED
  BY <1>1, <1>2, <1>3, ActivityTypeInit, ActivityTypeNext, PTL DEF ActivitySpec

-----------------------------------------------------------------------------
(* No double counting. *)

\* A handler that goes on to a query that writes no totals.
LEMMA CountGoesOn ==
    ASSUME TypeInv, CountInv, NEW r \in Requests, NEW p \in {"log", "item", "totals", "reply"},
           NEW f, Await(r, p, f), UNCHANGED sessions, pc[r] \notin Settled, OwnAdds(f, r)
    PROVE  CountInv'
<1>1. Keeps(r, p, f) /\ p \notin {"load", "update", "insert"}
  BY DEF Keeps
<1>2. \A s \in SessionIds : sessions'[s] # None => Sound(sessions'[s], s, {}, pc', frame')
  BY <1>1, RowsKept
<1> QED
  BY <1>1, <1>2, CountAwait

\* The two columns of a request share no activity.
LEMMA OwnTypes ==
    ASSUME NEW r, NEW U, NEW f,
           f.active = OfType({<<r, i>> : i \in U}, "active"),
           f.idle = OfType({<<r, i>> : i \in U}, "idle")
    PROVE  OwnAdds(f, r)
BY DEF OwnAdds, OfType

LEMMA CountActivityArrival ==
    ASSUME ActivityTypeInv, CountInv, NEW r \in Requests, ActivityArrival(r)
    PROVE  CountInv'
<1>0. TypeInv
  BY DEF ActivityTypeInv
<1>1. ASSUME NEW s \in SessionIds, NEW o, NEW p \in {"log", "item"}, pc[r] = "new",
             Await(r, p, NewFrame(o, s)), UNCHANGED sessions
      PROVE  CountInv'
  <2> DEFINE f == NewFrame(o, s)
  <2>1. f.active = {} /\ f.idle = {}
    BY DEF NewFrame
  <2> HIDE DEF f
  <2>2. OwnAdds(f, r) /\ pc[r] \notin Settled
    BY <1>1, <2>1 DEF OwnAdds, Settled
  <2> QED
    BY <1>0, <1>1, <2>2, CountGoesOn DEF f
<1>2. ASSUME Finish(r, "rejected"), UNCHANGED sessions, pc[r] = "new" PROVE CountInv'
  BY <1>0, <1>2, CountFinish DEF Done, Settled
<1>3. ASSUME NEW u \in Users, NEW s \in SessionIds, NEW t \in ClientTimes \cup {None},
             NEW type \in Types, LogActivity(r, u, s, t, type)
      PROVE  CountInv'
  BY <1>1, <1>2, <1>3 DEF LogActivity, Arrives
<1>4. ASSUME NEW u \in Users, NEW s \in SessionIds, NEW b \in Batches, BulkUpload(r, u, s, b)
      PROVE  CountInv'
  BY <1>1, <1>2, <1>4 DEF BulkUpload, Arrives
<1>5. ASSUME Arrival(r) PROVE CountInv'
  BY <1>0, <1>5, CountArrival
<1> QED
  BY <1>3, <1>4, <1>5 DEF ActivityArrival, Arrival

LEMMA CountBulkTotals ==
    ASSUME ActivityTypeInv, CountInv, NEW r \in Requests, BulkTotals(r)
    PROVE  CountInv'
<1> DEFINE A == OfType({<<r, i>> : i \in tx[r].uploaded}, "active")
           I == OfType({<<r, i>> : i \in tx[r].uploaded}, "idle")
           f == frame[r]
           s == f.sid
           e == Credited(sessions[s], A, I, now)
           g == [f EXCEPT !.active = A, !.idle = I, !.entity = e]
<1>0. /\ TypeInv /\ UNCHANGED sessions
      /\ pc[r] = "item" /\ pc[r] \notin Settled
      /\ f \in Frame /\ s \in SessionIds /\ sessions[s] \in Row /\ sessions[s] # None
      /\ OwnAdds(f, r)
  BY RowAssumption DEF ActivityTypeInv, BulkTotals, TypeInv, TablesOK, FrameOK, Bound, Settled,
                       CountInv, AddsInv
<1>1. CASE Finish(r, "reply")
  <2> DEFINE h == [f EXCEPT !.entity = None, !.cols = {}]
  <2>1. h.active = f.active /\ h.idle = f.idle /\ Await(r, "reply", h)
    BY <1>0, <1>1 DEF Frame, Finish
  <2> HIDE DEF h
  <2>2. OwnAdds(h, r)
    BY <1>0, <2>1 DEF OwnAdds
  <2> QED
    BY <1>0, <2>1, <2>2, CountGoesOn
<1>2. CASE Finish(r, "failed")
  BY <1>0, <1>2, CountFinish DEF Done
<1>3. CASE Await(r, "load", g)
  <2>1. g.active = A /\ g.idle = I /\ g.entity = e /\ g.sid = s
    BY <1>0 DEF Frame
  <2>2. OwnAdds(g, r)
    BY <2>1, OwnTypes
  <2> HIDE DEF A, I, g
  <2>3. Keeps(r, "load", g)
    BY <1>0 DEF Keeps
  <2>4. \A q \in SessionIds : sessions'[q] # None => Sound(sessions'[q], q, {}, pc', frame')
    BY <1>0, <1>3, <2>3, RowsKept
  <2>5. Sound(g.entity, g.sid, {r}, pc', frame')
    <3>1. pc'[r] = "load" /\ frame'[r] = g
      BY <1>0, <1>3 DEF Await, TypeInv, TablesOK
    <3>2. Sound(sessions[s], s, {}, pc', frame')
      BY <1>0, <2>4
    <3>3. pc'[r] \notin Settled
      BY <3>1 DEF Settled
    <3>4. OwnAdds(frame'[r], r) /\ frame'[r].sid = s
      BY <2>1, <2>2, <3>1
    <3>5. Sound(Credited(sessions[s], frame'[r].active, frame'[r].idle, now), s, {r}, pc', frame')
      BY <1>0, <3>2, <3>3, <3>4, CreditedSound
    <3> QED
      BY <2>1, <3>1, <3>5
  <2> QED
    BY <1>0, <1>3, <2>2, <2>3, <2>4, <2>5, CountAwait
<1> QED
  BY <1>1, <1>2, <1>3 DEF BulkTotals, Rollback

LEMMA CountActivityStep ==
    ASSUME ActivityTypeInv, CountInv, NEW r \in Requests, ActivityStep(r)
    PROVE  CountInv'
<1>0. TypeInv
  BY DEF ActivityTypeInv
<1>1. CASE Step(r)
  BY <1>0, <1>1, CountStep
<1>2. CASE LogInsert(r)
  <2> DEFINE A == OfType({<<r, 1>>}, "active")
             I == OfType({<<r, 1>>}, "idle")
             f == frame[r]
             g == [f EXCEPT !.active = A, !.idle = I]
  <2>1. pc[r] \notin Settled /\ UNCHANGED sessions /\ f \in Frame
    BY <1>0, <1>2 DEF LogInsert, Settled, TypeInv, TablesOK
  <2>2. CASE Finish(r, "failed")
    BY <1>0, <2>1, <2>2, CountFinish DEF Done
  <2>3. CASE Await(r, "totals", g)
    <3>1. g.active = A /\ g.idle = I
      BY <2>1 DEF Frame
    <3>2. {<<r, 1>>} = {<<r, i>> : i \in {1}}
      OBVIOUS
    <3>3. OwnAdds(g, r)
      BY <3>1, <3>2, OwnTypes
    <3> HIDE DEF g
    <3> QED
      BY <1>0, <2>1, <2>3, <3>3, CountGoesOn
  <2> QED
    BY <1>2, <2>2, <2>3 DEF LogInsert
<1>3. CASE ItemStored(r) \/ ItemDuplicate(r)
  BY <1>3 DEF ItemStored, ItemDuplicate, CountInv, AddsInv, RowsInv, EntitiesInv
<1>4. CASE ItemFails(r) \/ DeadlockVictim(r)
  BY <1>0, <1>4, CountFinish DEF ItemFails, DeadlockVictim, Rollback, Done, Settled
<1> QED
  BY <1>1, <1>2, <1>3, <1>4, CountBulkTotals DEF ActivityStep, Step

LEMMA CountActivityNext == ActivityTypeInv /\ CountInv /\ [ActivityNext]_avars => CountInv'
<1>1. ASSUME CountInv, UNCHANGED <<sessions, pc, frame>> PROVE CountInv'
  BY <1>1 DEF CountInv, AddsInv, RowsInv, EntitiesInv
<1>2. ASSUME ActivityTypeInv, CountInv,
             (\E r \in Requests : ActivityFails(r)) \/ ActivityCrash \/ Tick
      PROVE  CountInv'
  BY <1>2, CountFault DEF ActivityTypeInv, ActivityFails, ActivityCrash
<1> QED
  BY <1>1, <1>2, CountActivityArrival, CountActivityStep
     DEF ActivityNext, RequestsNext, Terminated, vars, handlers, avars

(***************************************************************************)
(* No double counting with both handlers of activities, and both ways of   *)
(* saving totals, in play.                                                 *)
(***************************************************************************)
THEOREM ActivitiesCountedOnce == ActivitySpec => []CountedOnce
<1>1. ActivityInit => ActivityTypeInv /\ CountInv
  BY ActivityTypeInit, CountInit DEF ActivityInit
<1>2. ActivityTypeInv /\ CountInv /\ [ActivityNext]_avars => (ActivityTypeInv /\ CountInv)'
  BY ActivityTypeNext, CountActivityNext
<1>3. ActivityTypeInv /\ CountInv => CountedOnce
  BY CountImplies DEF ActivityTypeInv
<1> QED
  BY <1>1, <1>2, <1>3, PTL DEF ActivitySpec

-----------------------------------------------------------------------------
(* What one step does to the request that takes it, as far as the tables   *)
(* activity_logs and the transactions are concerned.                       *)

SameWork(r) == /\ frame'[r].sid = frame[r].sid
               /\ frame'[r].op = frame[r].op
               /\ frame'[r].active = frame[r].active
               /\ frame'[r].idle = frame[r].idle
               /\ body'[r] = body[r]

\* The request is rejected, fails, stops with its process or is answered.
Ends(r) == /\ pc'[r] \in Done
           /\ pc'[r] = "ok" => pc[r] = "reply"
           /\ pc[r] \in Settled => pc[r] = "reply" /\ pc'[r] \in Settled
           /\ SameWork(r)
           /\ tx'[r] = NoTx
           /\ logs' = logs

\* It passes the checks of its handler.
Begins(r) == /\ pc[r] = "new"
             /\ \/ pc'[r] = "insert" /\ frame'[r].op = "start"
                \/ pc'[r] = "load" /\ frame'[r].op = "stop"
                \/ /\ pc'[r] = "log" /\ frame'[r].op = "log"
                   /\ DOMAIN body'[r] = {1} /\ body'[r][1].client = None
                \/ pc'[r] = "item" /\ frame'[r].op = "bulk"
             /\ frame'[r].active = {} /\ frame'[r].idle = {}
             /\ tx'[r] = NoTx
             /\ logs' = logs

\* The INSERT of startSession.
Opens(r) == /\ pc[r] = "insert" /\ pc'[r] = "reply"
            /\ frame'[r].op = "start"
            /\ tx'[r] = NoTx
            /\ logs' = logs

\* The INSERT of logActivity.
LogsOne(r) == /\ pc[r] = "log" /\ pc'[r] = "totals"
              /\ frame'[r].sid = frame[r].sid
              /\ frame'[r].op = frame[r].op
              /\ frame'[r].active \cup frame'[r].idle = {<<r, 1>>}
              /\ body'[r] = body[r]
              /\ tx'[r] = NoTx
              /\ logs' = logs \cup {<<r, 1>>}

\* An INSERT of bulkUploadActivities that succeeds, or hits a duplicate.
Turns(r, U, failed) == /\ Inserting(r) /\ ~tx[r].poisoned
                       /\ pc'[r] = "item" /\ frame'[r] = frame[r] /\ body'[r] = body[r]
                       /\ tx'[r].at = tx[r].at + 1
                       /\ tx'[r].uploaded = tx[r].uploaded \cup U
                       /\ tx'[r].poisoned = failed
                       /\ logs' = logs

\* bulkUploadActivities has nothing to add.
SkipsAll(r) == /\ pc[r] = "item" /\ pc'[r] = "reply"
               /\ tx[r].at > Len(body[r]) /\ tx[r].uploaded = {}
               /\ SameWork(r)
               /\ tx'[r] = NoTx
               /\ logs' = logs

\* It adds the activities of its transaction.
Adds(r) == /\ pc[r] = "item" /\ pc'[r] = "load"
           /\ tx[r].at > Len(body[r]) /\ ~tx[r].poisoned
           /\ frame'[r].sid = frame[r].sid
           /\ frame'[r].op = frame[r].op
          
           /\ body'[r] = body[r]
           /\ frame'[r].active = OfType(HeldBy(r), "active")
           /\ frame'[r].idle = OfType(HeldBy(r), "idle")
           /\ tx'[r] = tx[r]
           /\ logs' = logs

\* updateSessionTotals adds, save() compares.
GoesOn(r) == /\ \/ pc[r] = "totals" /\ pc'[r] = "load"
                \/ pc[r] = "load" /\ pc'[r] = "update"
             /\ SameWork(r)
             /\ tx'[r] = tx[r]
             /\ logs' = logs

\* save() writes, and the transaction commits.
Writes(r) == /\ pc[r] = "update" /\ pc'[r] = "reply"
             /\ SameWork(r)
             /\ tx'[r] = NoTx
             /\ logs' = logs \cup HeldBy(r)

Moves(r) ==
    \/ Ends(r) \/ Begins(r) \/ Opens(r) \/ LogsOne(r)
    \/ Turns(r, {SortedOrder(body[r])[tx[r].at]}, FALSE) /\ ItemStored(r)
    \/ Turns(r, {}, TRUE) /\ ItemDuplicate(r)
    \/ SkipsAll(r) \/ Adds(r) \/ GoesOn(r) \/ Writes(r)

\* Nothing happens to it; a row object it held may be gone.
Stays(q) == /\ pc'[q] = pc[q]
            /\ SameWork(q)
            /\ tx'[q] = tx[q]

\* The others stay where they are.
Others(r) ==
    \A q \in Requests \ {r} : /\ pc'[q] = pc[q]
                              /\ frame'[q] = frame[q]
                              /\ body'[q] = body[q]
                              /\ tx'[q] = tx[q]

LEMMA OnlyOwn ==
    ASSUME ActivityTypeInv, NEW r \in Requests,
           ActivityArrival(r) \/ ActivityStep(r) \/ ActivityFails(r)
    PROVE  Others(r)
<1>1. UNCHANGED <<pc, frame>> \/ \E p, f : Await(r, p, f)
  BY DEF ActivityArrival, LogActivity, BulkUpload, StartSession, StopSession,
         ActivityStep, LogInsert, ItemStored, ItemDuplicate, ItemFails, DeadlockVictim,
         Rollback, BulkTotals, SaveUpdate, InsertSession, TotalsRead, SaveLoad, Reply,
         ActivityFails, QueryFails, Finish
<1>2. UNCHANGED body \/ \E b : body' = [body EXCEPT ![r] = b]
  BY DEF ActivityArrival, LogActivity, BulkUpload, ActivityStep, LogInsert, ItemStored,
         ItemDuplicate, ItemFails, DeadlockVictim, BulkTotals, CommitRows, ActivityFails
<1>3. UNCHANGED tx \/ \E t : tx' = [tx EXCEPT ![r] = t]
  BY DEF ActivityArrival, LogActivity, BulkUpload, ActivityStep, LogInsert, ItemStored,
         ItemDuplicate, ItemFails, DeadlockVictim, Rollback, BulkTotals, CommitRows,
         ActivityFails
<1>4. \A q \in Requests \ {r} : pc'[q] = pc[q] /\ frame'[q] = frame[q]
  BY <1>1 DEF Await, ActivityTypeInv, TypeInv, TablesOK
<1>5. \A q \in Requests \ {r} : body'[q] = body[q] /\ tx'[q] = tx[q]
  BY <1>2, <1>3 DEF ActivityTypeInv
<1> QED
  BY <1>4, <1>5 DEF Others

LEMMA AwaitOwn ==
    ASSUME TypeInv, NEW r \in Requests, NEW p, NEW f, Await(r, p, f)
    PROVE  pc'[r] = p /\ frame'[r] = f
BY DEF Await, TypeInv, TablesOK

LEMMA FinishOwn ==
    ASSUME TypeInv, NEW r \in Requests, NEW p, Finish(r, p)
    PROVE  /\ pc'[r] = p
           /\ frame'[r].sid = frame[r].sid
           /\ frame'[r].op = frame[r].op
           /\ frame'[r].active = frame[r].active
           /\ frame'[r].idle = frame[r].idle
          
<1> DEFINE f == [frame[r] EXCEPT !.entity = None, !.cols = {}]
<1>1. pc'[r] = p /\ frame'[r] = f
  BY AwaitOwn DEF Finish
<1>2. frame[r] \in Frame
  BY DEF TypeInv, TablesOK
<1> QED
  BY <1>1, <1>2 DEF Frame

LEMMA FailedMoves ==
    ASSUME TypeInv, NEW r \in Requests, Finish(r, "failed"), UNCHANGED <<logs, body>>,
           tx'[r] = NoTx, pc[r] \in {"log", "item", "totals", "load", "update"}
    PROVE  Moves(r)
<1>1. pc[r] \notin Settled /\ "failed" \in Done
  BY DEF Settled, Done
<1>2. Ends(r)
  BY <1>1, FinishOwn DEF Ends, SameWork
<1> QED
  BY <1>2 DEF Moves

LEMMA ArrivalMoves ==
    ASSUME ActivityTypeInv, OpInv, NEW r \in Requests, ActivityArrival(r)
    PROVE  Moves(r)
<1>0. /\ TypeInv
      /\ pc[r] = "new" /\ pc[r] \notin Settled
      /\ tx[r] = NoTx
      /\ body \in [Requests -> Bodies]
  <2>1. pc[r] = "new"
    BY DEF ActivityArrival, LogActivity, BulkUpload, StartSession, StopSession, Arrives
  <2> QED
    BY <2>1 DEF ActivityTypeInv, OpInv, OpOK, Settled
<1>1. UNCHANGED <<logs, tx>>
  BY DEF ActivityArrival, LogActivity, BulkUpload
<1>2. ASSUME Finish(r, "rejected"), UNCHANGED body PROVE Ends(r)
  BY <1>0, <1>1, <1>2, FinishOwn DEF Ends, SameWork, Done
<1>3. ASSUME NEW u \in Users, NEW s \in SessionIds, NEW t \in ClientTimes \cup {None},
             NEW type \in Types, LogActivity(r, u, s, t, type)
      PROVE  Ends(r) \/ Begins(r)
  <2> DEFINE b == <<[client |-> None, ts |-> TimeOr(t), type |-> type]>>
             f == NewFrame("log", s)
  <2>1. CASE Await(r, "log", f) /\ body' = [body EXCEPT ![r] = b]
    <3>1. f.op = "log" /\ f.active = {} /\ f.idle = {}
      BY DEF NewFrame
    <3>2. DOMAIN b = {1} /\ b[1].client = None
      OBVIOUS
    <3> HIDE DEF f, b
    <3> QED
      BY <1>0, <1>1, <2>1, <3>1, <3>2, AwaitOwn DEF Begins
  <2> QED
    BY <1>2, <1>3, <2>1 DEF LogActivity
<1>4. ASSUME NEW u \in Users, NEW s \in SessionIds, NEW b \in Batches, BulkUpload(r, u, s, b)
      PROVE  Ends(r) \/ Begins(r)
  <2>1. CASE Await(r, "item", NewFrame("bulk", s))
    BY <1>0, <1>1, <2>1, AwaitOwn DEF Begins, NewFrame
  <2> QED
    BY <1>2, <1>4, <2>1 DEF BulkUpload
<1>5. ASSUME NEW u \in Users, NEW t \in ClientTimes \cup {None}, StartSession(r, u, t),
             UNCHANGED body
      PROVE  Ends(r) \/ Begins(r)
  <2> DEFINE f == [NewFrame("start", None) EXCEPT !.entity = NewRow(u, TimeOr(t))]
  <2>1. CASE Await(r, "insert", f)
    <3>1. f.op = "start" /\ f.active = {} /\ f.idle = {}
      BY DEF NewFrame
    <3> HIDE DEF f
    <3> QED
      BY <1>0, <1>1, <2>1, <3>1, AwaitOwn DEF Begins
  <2> QED
    BY <1>2, <1>5, <2>1 DEF StartSession
<1>6. ASSUME NEW u \in Users, NEW s \in SessionIds, NEW t \in ClientTimes \cup {None},
             StopSession(r, u, s, t), UNCHANGED body
      PROVE  Ends(r) \/ Begins(r)
  <2> DEFINE e == [sessions[s] EXCEPT !.status = "stopped", !.end = TimeOr(t)]
             f == [NewFrame("stop", s) EXCEPT !.entity = e]
  <2>1. CASE Await(r, "load", f)
    <3> HIDE DEF e
    <3>1. f.op = "stop" /\ f.active = {} /\ f.idle = {}
      BY DEF NewFrame
    <3> HIDE DEF f
    <3> QED
      BY <1>0, <1>1, <2>1, <3>1, AwaitOwn DEF Begins
  <2> QED
    BY <1>2, <1>6, <2>1 DEF StopSession
<1> QED
  BY <1>3, <1>4, <1>5, <1>6 DEF ActivityArrival, Moves

\* Who is in a circle waits.
LEMMA CycleWaits ==
    ASSUME NEW C, WaitCycle(C), NEW r \in C
    PROVE  \E q \in C : WaitsFor(r, q)
<1>1. C # {r}
  BY FS_Singleton DEF WaitCycle
<1>2. {r} \in (SUBSET C) \ {{}, C}
  BY <1>1
<1> QED
  BY <1>2 DEF WaitCycle

\* A request at one of its INSERTs.
LEMMA ItemMoves ==
    ASSUME ActivityTypeInv, OpInv, NEW r \in Requests,
           ItemStored(r) \/ ItemDuplicate(r) \/ ItemFails(r) \/ DeadlockVictim(r)
    PROVE  Moves(r)
<1>0. TypeInv /\ tx \in [Requests -> Transaction]
  BY DEF ActivityTypeInv
<1>1. CASE ItemStored(r)
  <2> DEFINE k == SortedOrder(body[r])[tx[r].at]
  <2>1. /\ Inserting(r) /\ ~tx[r].poisoned
        /\ tx' = [tx EXCEPT ![r] = Advanced(@, {k}, FALSE)]
        /\ UNCHANGED <<pc, frame, logs, body>>
    BY <1>1 DEF ItemStored, Current
  <2>2. Turns(r, {k}, FALSE)
    <3> HIDE DEF k
    <3>1. /\ tx'[r].at = tx[r].at + 1
          /\ tx'[r].uploaded = tx[r].uploaded \cup {k}
          /\ tx'[r].poisoned = FALSE
      BY <2>1, AdvancedType DEF k
    <3> QED
      BY <2>1, <3>1 DEF Turns, Inserting
  <2> QED
    BY <1>1, <2>2 DEF Moves
<1>2. CASE ItemDuplicate(r)
  <2>1. /\ Inserting(r) /\ ~tx[r].poisoned
        /\ tx' = [tx EXCEPT ![r] = Advanced(@, {}, TRUE)]
        /\ UNCHANGED <<pc, frame, logs, body>>
    BY <1>2 DEF ItemDuplicate
  <2>2. Turns(r, {}, TRUE)
    BY <2>1, AdvancedType DEF Turns, Inserting
  <2> QED
    BY <1>2, <2>2 DEF Moves
<1>3. CASE ItemFails(r) \/ DeadlockVictim(r)
  <2>1. pc[r] = "item"
    BY <1>3, CycleWaits DEF ItemFails, DeadlockVictim, WaitsFor, Inserting
  <2>2. Finish(r, "failed") /\ tx'[r] = NoTx /\ UNCHANGED <<logs, body>>
    BY <1>0, <1>3 DEF ItemFails, DeadlockVictim, Rollback
  <2> QED
    BY <1>0, <2>1, <2>2, FailedMoves
<1> QED
  BY <1>1, <1>2, <1>3

LEMMA BulkTotalsMoves ==
    ASSUME ActivityTypeInv, OpInv, NEW r \in Requests, BulkTotals(r)
    PROVE  Moves(r)
<1> DEFINE B == {<<r, i>> : i \in tx[r].uploaded}
           A == OfType(B, "active")
           I == OfType(B, "idle")
           f == frame[r]
           e == Credited(sessions[f.sid], A, I, now)
           g == [f EXCEPT !.active = A, !.idle = I, !.entity = e]
<1>0. /\ TypeInv /\ tx \in [Requests -> Transaction]
      /\ pc[r] = "item" /\ tx[r].at > Len(body[r])
      /\ UNCHANGED <<logs, body>>
      /\ f \in Frame
  BY DEF ActivityTypeInv, BulkTotals, TypeInv, TablesOK
<1>1. CASE tx[r].uploaded = {} /\ Finish(r, "reply") /\ tx' = [tx EXCEPT ![r] = NoTx]
  <2>1. SkipsAll(r)
    BY <1>0, <1>1, FinishOwn DEF SkipsAll, SameWork
  <2> QED
    BY <2>1 DEF Moves
<1>2. CASE Rollback(r)
  BY <1>0, <1>2, FailedMoves DEF Rollback
<1>3. CASE ~tx[r].poisoned /\ Await(r, "load", g) /\ UNCHANGED tx
  <2>1. B = HeldBy(r)
    BY <1>3 DEF HeldBy
  <2> HIDE DEF e
  <2>2. g.active = A /\ g.idle = I /\ g.sid = f.sid /\ g.op = f.op
    BY <1>0 DEF Frame
  <2> HIDE DEF g
  <2>3. pc'[r] = "load" /\ frame'[r] = g
    BY <1>0, <1>3, AwaitOwn
  <2>4. Adds(r)
    BY <1>0, <1>3, <2>1, <2>2, <2>3 DEF Adds
  <2> QED
    BY <2>4 DEF Moves
<1> QED
  BY <1>1, <1>2, <1>3 DEF BulkTotals

LEMMA StepMoves ==
    ASSUME ActivityTypeInv, OpInv, NEW r \in Requests, ActivityStep(r)
    PROVE  Moves(r)
<1> DEFINE f == frame[r]
<1>0. TypeInv /\ tx \in [Requests -> Transaction] /\ f \in Frame
      /\ (pc[r] \notin {"item", "load", "update"} => tx[r] = NoTx)
  BY DEF ActivityTypeInv, TypeInv, TablesOK, OpInv, OpOK
<1>1. CASE LogInsert(r)
  <2> DEFINE a == <<r, 1>>
             A == OfType({a}, "active")
             I == OfType({a}, "idle")
             g == [f EXCEPT !.active = A, !.idle = I]
  <2>1. pc[r] = "log" /\ UNCHANGED <<body, tx>> /\ tx[r] = NoTx
    BY <1>0, <1>1 DEF LogInsert
  <2>2. CASE Finish(r, "failed") /\ UNCHANGED logs
    BY <1>0, <2>1, <2>2, FailedMoves
  <2>3. CASE Await(r, "totals", g) /\ logs' = logs \cup {a}
    <3>1. body[r][1].type \in Types
      <4>1. body[r] \in Bodies /\ 1 \in DOMAIN body[r]
        BY <2>1 DEF ActivityTypeInv, OpInv, OpOK
      <4> QED
        BY <4>1, BodyType DEF Item
    <3>2. ItemOf(a) = body[r][1]
      BY DEF ItemOf
    <3>3. A \cup I = {a}
      BY <3>1, <3>2 DEF OfType, Types
    <3> HIDE DEF A, I
    <3>4. g.active = A /\ g.idle = I /\ g.sid = f.sid /\ g.op = f.op
      BY <1>0 DEF Frame
    <3> HIDE DEF g
    <3>5. LogsOne(r)
      BY <1>0, <2>1, <2>3, <3>3, <3>4, AwaitOwn DEF LogsOne
    <3> QED
      BY <3>5 DEF Moves
  <2> QED
    BY <1>1, <2>2, <2>3 DEF LogInsert
<1>2. CASE SaveUpdate(r) /\ CommitRows(r)
  <2>1. Writes(r)
    BY <1>0, <1>2, FinishOwn DEF SaveUpdate, CommitRows, Writes, SameWork
  <2> QED
    BY <2>1 DEF Moves
<1>3. CASE InsertSession(r) /\ UNCHANGED <<logs, body, tx>>
  <2>1. PICK n \in SessionIds : Await(r, "reply", NewFrame("start", n))
    BY <1>3 DEF InsertSession
  <2>2. Opens(r)
    BY <1>0, <1>3, <2>1, AwaitOwn DEF InsertSession, Opens, NewFrame
  <2> QED
    BY <2>2 DEF Moves
<1>4. CASE TotalsRead(r) /\ UNCHANGED <<logs, body, tx>>
  <2> DEFINE e == Credited(sessions[f.sid], f.active, f.idle, now)
             g == [f EXCEPT !.entity = e]
  <2>1. pc[r] = "totals"
    BY <1>4 DEF TotalsRead
  <2>2. CASE Finish(r, "failed")
    BY <1>0, <1>4, <2>1, <2>2, FailedMoves
  <2>3. CASE Await(r, "load", g)
    <3> HIDE DEF e
    <3>1. /\ g.active = f.active /\ g.idle = f.idle /\ g.sid = f.sid /\ g.op = f.op
      BY <1>0 DEF Frame
    <3> HIDE DEF g
    <3>2. GoesOn(r)
      BY <1>0, <1>4, <2>1, <2>3, <3>1, AwaitOwn DEF GoesOn, SameWork
    <3> QED
      BY <3>2 DEF Moves
  <2> QED
    BY <1>4, <2>2, <2>3 DEF TotalsRead
<1>5. CASE SaveLoad(r) /\ UNCHANGED <<logs, body, tx>>
  <2> DEFINE c == ChangedColumns(f.entity, sessions[f.sid])
             g == [f EXCEPT !.cols = c]
  <2>1. pc[r] = "load" /\ Await(r, "update", g)
    BY <1>5 DEF SaveLoad
  <2> HIDE DEF c
  <2>2. /\ g.active = f.active /\ g.idle = f.idle /\ g.sid = f.sid /\ g.op = f.op
    BY <1>0 DEF Frame
  <2> HIDE DEF g
  <2>3. GoesOn(r)
    BY <1>0, <1>5, <2>1, <2>2, AwaitOwn DEF GoesOn, SameWork
  <2> QED
    BY <2>3 DEF Moves
<1>6. CASE Reply(r) /\ UNCHANGED <<logs, body, tx>>
  <2>1. pc[r] = "reply" /\ Finish(r, "ok") /\ tx'[r] = NoTx
    BY <1>0, <1>6 DEF Reply
  <2>2. Ends(r)
    BY <1>0, <1>6, <2>1, FinishOwn DEF Ends, SameWork, Done, Settled
  <2> QED
    BY <2>2 DEF Moves
<1> QED
  BY <1>1, <1>2, <1>3, <1>4, <1>5, <1>6, ItemMoves, BulkTotalsMoves DEF ActivityStep

\* A query that fails, and a crash, end requests.
LEMMA FailsMoves ==
    ASSUME ActivityTypeInv, NEW r \in Requests, ActivityFails(r)
    PROVE  Ends(r)
<1>1. /\ r \in InFlight /\ Finish(r, "failed") /\ UNCHANGED <<logs, body>>
      /\ tx'[r] = NoTx /\ TypeInv
  BY DEF ActivityFails, QueryFails, ActivityTypeInv
<1>2. pc[r] \in Settled => pc[r] = "reply"
  BY <1>1 DEF InFlight, Done, Settled
<1> QED
  BY <1>1, <1>2, FinishOwn DEF Ends, SameWork, Done, Settled

LEMMA CrashMoves ==
    ASSUME ActivityTypeInv, OpInv, ActivityCrash, NEW r \in Requests
    PROVE  Ends(r) \/ Stays(r)
<1>1. /\ pc' = [q \in Requests |-> IF q \in InFlight THEN "lost" ELSE pc[q]]
      /\ frame' = [q \in Requests |-> [frame[q] EXCEPT !.entity = None, !.cols = {}]]
      /\ tx'[r] = NoTx /\ UNCHANGED <<logs, body>>
  BY DEF ActivityCrash, Crash
<1>2. SameWork(r)
  BY <1>1 DEF SameWork, ActivityTypeInv, TypeInv, TablesOK, Frame
<1>3. CASE r \in InFlight
  BY <1>1, <1>2, <1>3 DEF Ends, InFlight, Done, Settled
<1>4. CASE r \notin InFlight
  <2>1. pc'[r] = pc[r] /\ pc[r] \notin {"item", "load", "update"}
    BY <1>1, <1>4 DEF InFlight, Done
  <2> QED
    BY <1>1, <1>2, <2>1 DEF Stays, OpInv, OpOK
<1> QED
  BY <1>3, <1>4

\* A step moves one request, or ends some.
LEMMA NextMoves ==
    ASSUME ActivityTypeInv, OpInv, [ActivityNext]_avars
    PROVE  \/ \E r \in Requests : /\ Moves(r)
                                  /\ \A q \in Requests \ {r} : Stays(q)
           \/ /\ \A q \in Requests : Ends(q) \/ Stays(q)
              /\ logs' = logs
<1>1. ASSUME NEW r \in Requests, ActivityArrival(r) \/ ActivityStep(r) \/ ActivityFails(r)
      PROVE  Moves(r) /\ \A q \in Requests \ {r} : Stays(q)
  BY <1>1, ArrivalMoves, StepMoves, FailsMoves, OnlyOwn DEF Moves, Others, Stays, SameWork
<1>2. CASE ActivityCrash
  BY <1>2, CrashMoves DEF ActivityCrash
<1>3. CASE UNCHANGED <<pc, frame, logs, body, tx>>
  BY <1>3 DEF Stays, SameWork
<1> QED
  BY <1>1, <1>2, <1>3 DEF ActivityNext, RequestsNext, Tick, Terminated, vars, handlers, avars

-----------------------------------------------------------------------------
(* The parts of the invariant, one after the other. *)

LEMMA OpKept ==
    ASSUME OpInv, NEW q \in Requests, Moves(q) \/ Stays(q)
    PROVE  OpOK(q)'
<1>0. OpOK(q)
  BY DEF OpInv
<1>1. CASE Stays(q)
  BY <1>0, <1>1 DEF Stays, SameWork, OpOK
<1>2. CASE Ends(q)
  BY <1>0, <1>2 DEF Ends, SameWork, OpOK, Done
<1>3. CASE Begins(q)
  BY <1>3 DEF Begins, OpOK
<1>4. CASE Opens(q) \/ LogsOne(q)
  BY <1>0, <1>4 DEF Opens, LogsOne, OpOK
<1>5. ASSUME NEW U, NEW failed, Turns(q, U, failed) PROVE OpOK(q)'
  BY <1>0, <1>5 DEF Turns, Inserting, OpOK
<1>6. CASE SkipsAll(q) \/ Adds(q) \/ GoesOn(q) \/ Writes(q)
  BY <1>0, <1>6 DEF SkipsAll, Adds, GoesOn, Writes, SameWork, OpOK
<1> QED
  BY <1>1, <1>2, <1>3, <1>4, <1>5, <1>6 DEF Moves

LEMMA OpInit == ActivityInit => OpInv
BY DEF ActivityInit, Init, OpInv, OpOK, NewFrame

\* What a step does to every request.
LEMMA EveryoneMoves ==
    ASSUME ActivityTypeInv, OpInv, [ActivityNext]_avars
    PROVE  /\ \A q \in Requests : Moves(q) \/ Stays(q)
           /\ logs \subseteq logs'
           /\ \A a \in logs' \ logs : \E r \in Requests :
                 \/ LogsOne(r) /\ a = <<r, 1>>
                 \/ Writes(r) /\ a \in HeldBy(r)
<1>1. ASSUME NEW r \in Requests, Moves(r)
      PROVE  \/ logs' = logs
             \/ LogsOne(r) /\ logs' = logs \cup {<<r, 1>>}
             \/ Writes(r) /\ logs' = logs \cup HeldBy(r)
  BY <1>1 DEF Moves, Ends, Begins, Opens, LogsOne, Turns, SkipsAll, Adds, GoesOn,
              Writes
<1>2. CASE \E r \in Requests : Moves(r) /\ \A q \in Requests \ {r} : Stays(q)
  BY <1>1, <1>2
<1>3. CASE (\A q \in Requests : Ends(q) \/ Stays(q)) /\ logs' = logs
  BY <1>3 DEF Moves
<1> QED
  BY <1>2, <1>3, NextMoves

LEMMA OpNext == ActivityTypeInv /\ OpInv /\ [ActivityNext]_avars => OpInv'
BY EveryoneMoves, OpKept DEF OpInv

\* The session and the activities of a request stay what they are.
LEMMA WorkKept ==
    ASSUME NEW q \in Requests, Moves(q) \/ Stays(q), pc[q] \notin {"new", "insert"}
    PROVE  /\ frame'[q].sid = frame[q].sid
           /\ frame'[q].op = frame[q].op
           /\ body'[q] = body[q]
BY DEF Moves, Stays, Ends, Begins, Opens, LogsOne, Turns, SkipsAll, Adds, GoesOn,
       Writes, SameWork

\* Who has rows, committed or not.
LEMMA RowsOfWhom ==
    ASSUME ActivityTypeInv, OpInv, LogInv, NEW a \in AllRows
    PROVE  a[1] \in Requests /\ pc[a[1]] \notin {"new", "insert"} /\ a = <<a[1], a[2]>>
<1>1. CASE a \in logs
  <2>1. a \in ActivityIds /\ LogOK(a)
    BY <1>1 DEF ActivityTypeInv, LogInv
  <2>2. a[1] \in Requests /\ a = <<a[1], a[2]>>
    BY <2>1 DEF ActivityIds
  <2> QED
    BY <2>1, <2>2 DEF LogOK, OpInv, OpOK, Settled
<1>2. ASSUME NEW r \in Requests, a \in HeldBy(r)
      PROVE  a[1] \in Requests /\ pc[a[1]] \notin {"new", "insert"} /\ a = <<a[1], a[2]>>
  <2>1. a[1] = r /\ a = <<a[1], a[2]>> /\ tx[r] # NoTx
    BY <1>2 DEF HeldBy, NoTx
  <2> QED
    BY <2>1 DEF OpInv, OpOK
<1> QED
  BY <1>1, <1>2 DEF AllRows

\* What a row says stays what it is.
LEMMA RowKept ==
    ASSUME NEW a, a[1] \in Requests, Moves(a[1]) \/ Stays(a[1]),
           pc[a[1]] \notin {"new", "insert"}
    PROVE  ItemOf(a)' = ItemOf(a) /\ Key(a)' = Key(a)
BY WorkKept DEF ItemOf, Key

LEMMA ClashKept ==
    ASSUME ActivityTypeInv, OpInv, LogInv, [ActivityNext]_avars,
           NEW a, a[1] \in Requests, pc[a[1]] \notin {"new", "insert"},
           Clashes(a, logs)
    PROVE  Clashes(a, logs)'
<1>1. /\ \A q \in Requests : Moves(q) \/ Stays(q)
      /\ logs \subseteq logs'
  BY EveryoneMoves
<1>2. PICK b \in logs : Key(b) = Key(a)
  BY DEF Clashes
<1>3. b[1] \in Requests /\ pc[b[1]] \notin {"new", "insert"}
  BY RowsOfWhom DEF AllRows
<1>4. ItemOf(a)' = ItemOf(a) /\ Key(a)' = Key(a) /\ Key(b)' = Key(b)
  BY <1>1, <1>3, RowKept
<1> QED
  BY <1>1, <1>2, <1>4 DEF Clashes

LEMMA LogNext ==
    ASSUME ActivityTypeInv, OpInv, UploadInv, LogInv, [ActivityNext]_avars
    PROVE  LogInv'
<1>1. /\ \A q \in Requests : Moves(q) \/ Stays(q)
      /\ logs \subseteq logs'
  BY EveryoneMoves
<1>2. ASSUME NEW a \in logs PROVE LogOK(a)'
  <2> DEFINE r == a[1]
  <2>1. /\ LogOK(a) /\ r \in Requests /\ pc[r] \notin {"new", "insert"}
    BY RowsOfWhom DEF AllRows, LogInv
  <2>2. /\ frame'[r].op = frame[r].op /\ body'[r] = body[r] /\ ItemOf(a)' = ItemOf(a)
    BY <1>1, <2>1, WorkKept, RowKept
  <2>3. Moves(r) \/ Stays(r)
    BY <1>1, <2>1
  <2>4. /\ frame[r].op = "log" /\ pc[r] \notin {"new", "log"} => pc'[r] \notin {"new", "log"}
        /\ frame[r].op = "bulk" /\ pc[r] \in Settled => pc'[r] \in Settled
    BY <2>1, <2>3 DEF Moves, Stays, Ends, Begins, Opens, LogsOne, Turns, Inserting, SkipsAll,
                      Adds, GoesOn, Writes, Done, Settled, OpInv, OpOK
  <2> QED
    BY <1>1, <2>1, <2>2, <2>4 DEF LogOK
<1>3. ASSUME NEW r \in Requests, LogsOne(r) PROVE LogOK(<<r, 1>>)'
  <2>1. /\ frame[r].op = "log" /\ DOMAIN body[r] = {1} /\ body[r][1].client = None
    BY <1>3 DEF LogsOne, OpInv, OpOK
  <2> QED
    BY <1>3, <2>1 DEF LogsOne, LogOK, ItemOf
<1>4. ASSUME NEW r \in Requests, Writes(r), NEW a \in HeldBy(r) PROVE LogOK(a)'
  <2>1. a[1] = r /\ a[2] \in tx[r].uploaded /\ tx[r] # NoTx
    BY <1>4 DEF HeldBy, NoTx
  <2>2. frame[r].op = "bulk" /\ pc[r] = "update" /\ ~tx[r].poisoned
        /\ tx[r].uploaded = DOMAIN body[r]
    BY <1>4, <2>1 DEF Writes, OpInv, OpOK, UploadInv, Uploading
  <2>3. \A i \in DOMAIN body[r] : <<r, i>> \in logs'
    BY <1>4, <2>2 DEF Writes, HeldBy
  <2> QED
    BY <1>4, <2>1, <2>2, <2>3 DEF Writes, SameWork, LogOK, Settled
<1>5. ASSUME NEW a \in logs' PROVE LogOK(a)'
  BY <1>2, <1>3, <1>4, EveryoneMoves
<1> QED
  BY <1>5 DEF LogInv

\* A transaction through its loop has inserted every activity.
LEMMA LoopDone ==
    ASSUME NEW b \in Bodies
    PROVE  {SortedOrder(b)[i] : i \in 1..Len(b)} = DOMAIN b
<1> DEFINE S == SortedOrder(b)
           D == DOMAIN b
<1>1. S \in [D -> D] /\ (\A k \in D : \E i \in D : S[i] = k) /\ 1..Len(b) = D
  BY SortedOrderSorts, BodyType
<1> HIDE DEF S, D
<1>2. {S[i] : i \in D} = D
  BY <1>1
<1> QED
  BY <1>1, <1>2 DEF S, D

LEMMA UploadKept ==
    ASSUME ActivityTypeInv, OpInv, UploadInv, LogInv, [ActivityNext]_avars,
           NEW q \in Requests
    PROVE  Uploading(q)'
<1>0. /\ Moves(q) \/ Stays(q)
      /\ Uploading(q)
      /\ body[q] \in Bodies /\ tx[q] \in Transaction
  BY EveryoneMoves DEF ActivityTypeInv, UploadInv
<1> DEFINE b == body[q]
           at == tx[q].at
           S == SortedOrder(b)
<1>1. /\ Len(b) \in Nat /\ DOMAIN b = 1..Len(b)
      /\ at \in Nat \ {0}
      /\ tx[q].uploaded \subseteq 1..MaxBatch
  BY <1>0, BodyType, ConstantsAssumption DEF Transaction
<1>2. ASSUME pc[q] = "item", Clashes(<<q, S[1]>>, logs)
      PROVE  Clashes(<<q, SortedOrder(body[q])[1]>>, logs)'
  <2>1. PICK k : k = S[1]
    OBVIOUS
  <2> DEFINE a == <<q, k>>
  <2>2. a[1] = q
    OBVIOUS
  <2>3. body'[q] = body[q]
    BY <1>0, <1>2, WorkKept
  <2>4. k = SortedOrder(body'[q])[1]
    BY <2>1, <2>3
  <2>5. Clashes(a, logs)
    BY <1>2, <2>1
  <2> HIDE DEF a
  <2>6. Clashes(a, logs)'
    BY <1>2, <2>2, <2>5, ClashKept
  <2> QED
    BY <2>4, <2>6 DEF a
<1> HIDE DEF S
<1>3. CASE Stays(q)
  <2>1. /\ pc'[q] = pc[q] /\ body'[q] = b /\ tx'[q] = tx[q] /\ frame'[q].op = frame[q].op
        /\ frame'[q].active = frame[q].active /\ frame'[q].idle = frame[q].idle
    BY <1>3 DEF Stays, SameWork
  <2>2. HeldBy(q)' = HeldBy(q)
    BY <2>1 DEF HeldBy
  <2> QED
    BY <1>0, <1>2, <2>1, <2>2 DEF Uploading, S
<1>4. CASE Ends(q) \/ Opens(q) \/ LogsOne(q) \/ SkipsAll(q) \/ Writes(q)
  BY <1>4 DEF Ends, Opens, LogsOne, SkipsAll, Writes, Done, Uploading
<1>5. CASE Begins(q)
  <2>1. CASE pc'[q] = "item"
    <3>1. tx'[q].at = 1 /\ tx'[q].uploaded = {} /\ tx'[q].poisoned = FALSE
      BY <1>5 DEF Begins, NoTx
    <3>2. Len(body'[q]) \in Nat
      BY ActivityTypeNext, BodyType DEF ActivityTypeInv
    <3>3. {SortedOrder(body'[q])[i] : i \in 1..(1 - 1)} = {}
      OBVIOUS
    <3> QED
      BY <2>1, <3>1, <3>2, <3>3 DEF Uploading
  <2> QED
    BY <1>5, <2>1 DEF Begins, Uploading
<1>6. CASE Turns(q, {SortedOrder(body[q])[tx[q].at]}, FALSE) /\ ItemStored(q)
  <2>1. /\ Inserting(q) /\ ~tx[q].poisoned /\ body'[q] = b /\ pc'[q] = "item"
        /\ tx'[q].at = at + 1 /\ tx'[q].uploaded = tx[q].uploaded \cup {S[at]}
        /\ tx'[q].poisoned = FALSE
    BY <1>6 DEF Turns, S
  <2>2. at <= Len(b) /\ tx[q].uploaded = {S[i] : i \in 1..(at - 1)}
    BY <1>0, <2>1 DEF Uploading, Inserting, S
  <2>3. 1..at = 1..(at - 1) \cup {at} /\ (at + 1) - 1 = at /\ at + 1 <= Len(b) + 1
    BY <1>1, <2>2
  <2> HIDE DEF at
  <2>4. tx'[q].uploaded = {S[i] : i \in 1..at}
    BY <2>1, <2>2, <2>3
  <2> QED
    BY <2>1, <2>3, <2>4 DEF Uploading, S
<1>7. CASE Turns(q, {}, TRUE) /\ ItemDuplicate(q)
  <2>1. /\ Inserting(q) /\ ~tx[q].poisoned /\ body'[q] = b /\ pc'[q] = "item"
        /\ tx'[q].at = at + 1 /\ tx'[q].uploaded = tx[q].uploaded
        /\ tx'[q].poisoned = TRUE
        /\ Clashes(<<q, S[at]>>, logs \cup HeldBy(q))
    BY <1>7 DEF Turns, ItemDuplicate, Current, S
  <2>2. at <= Len(b) /\ tx[q].uploaded = {S[i] : i \in 1..(at - 1)} /\ pc[q] = "item"
    BY <1>0, <2>1 DEF Uploading, Inserting, S
  <2>3. at + 1 <= Len(b) + 1 /\ (at = 1 \/ 1 \in 1..(at - 1)) /\ 1 + 1 = 2
    BY <1>1, <2>2
  <2>4. ASSUME tx[q].uploaded = {}
        PROVE  at = 1 /\ Clashes(<<q, SortedOrder(body[q])[1]>>, logs)'
    <3>1. at = 1
      BY <2>2, <2>3, <2>4
    <3>2. HeldBy(q) = {}
      BY <2>4 DEF HeldBy
    <3>3. Clashes(<<q, S[1]>>, logs)
      BY <2>1, <3>1, <3>2
    <3> QED
      BY <1>2, <2>2, <3>1, <3>3
  <2> HIDE DEF at
  <2>5. ASSUME tx[q].uploaded = {}
        PROVE  at + 1 = 2 /\ Clashes(<<q, SortedOrder(body[q])[1]>>, logs)'
    BY <2>3, <2>4, <2>5
  <2> QED
    BY <2>1, <2>3, <2>5 DEF Uploading
<1>8. CASE Adds(q)
  <2>1. /\ pc[q] = "item" /\ ~tx[q].poisoned /\ at > Len(b) /\ body'[q] = b
        /\ tx'[q] = tx[q] /\ pc'[q] = "load"
        /\ frame'[q].active = OfType(HeldBy(q), "active")
        /\ frame'[q].idle = OfType(HeldBy(q), "idle")
    BY <1>8 DEF Adds
  <2>2. at <= Len(b) + 1 /\ tx[q].uploaded = {S[i] : i \in 1..(at - 1)}
    BY <1>0, <2>1 DEF Uploading, S
  <2>3. at - 1 = Len(b)
    BY <1>1, <2>1, <2>2
  <2>4. tx[q].uploaded = DOMAIN b
    BY <1>0, <2>2, <2>3, LoopDone DEF S
  <2>5. HeldBy(q)' = HeldBy(q)
    BY <2>1 DEF HeldBy
  <2>6. \A a \in HeldBy(q) : ItemOf(a).type \in {"active", "idle"}
    <3> SUFFICES ASSUME NEW i \in DOMAIN b PROVE ItemOf(<<q, i>>).type \in {"active", "idle"}
      BY <2>1, <2>4 DEF HeldBy
    <3>1. b[i] \in Item
      BY <1>0, BodyType
    <3> QED
      BY <3>1 DEF ItemOf, Item, Types
  <2>7. HeldBy(q) = OfType(HeldBy(q), "active") \cup OfType(HeldBy(q), "idle")
    BY <2>6 DEF OfType
  <2> QED
    BY <2>1, <2>4, <2>5, <2>7 DEF Uploading
<1>9. CASE GoesOn(q)
  <2>1. /\ body'[q] = b /\ tx'[q] = tx[q] /\ frame'[q].op = frame[q].op /\ pc'[q] # "item"
        /\ frame'[q].active = frame[q].active /\ frame'[q].idle = frame[q].idle
        /\ frame[q].op = "bulk" => pc[q] = "load"
    BY <1>9 DEF GoesOn, SameWork, OpInv, OpOK
  <2>2. HeldBy(q)' = HeldBy(q)
    BY <2>1 DEF HeldBy
  <2> QED
    BY <1>0, <2>1, <2>2 DEF Uploading
<1> QED
  BY <1>0, <1>3, <1>4, <1>5, <1>6, <1>7, <1>8, <1>9 DEF Moves

LEMMA StoredKept ==
    ASSUME ActivityTypeInv, OpInv, UploadInv, LogInv, StoredInv, [ActivityNext]_avars,
           NEW q \in Requests
    PROVE  Stored(q)'
<1>0. /\ Moves(q) \/ Stays(q)
      /\ logs \subseteq logs'
      /\ Uploading(q) /\ Stored(q) /\ OpOK(q)
      /\ body[q] \in Bodies /\ tx[q] \in Transaction
  BY EveryoneMoves DEF ActivityTypeInv, UploadInv, StoredInv, OpInv
<1>1. /\ Len(body[q]) \in Nat /\ DOMAIN body[q] = 1..Len(body[q])
      /\ tx[q].at \in Nat \ {0}
  BY <1>0, BodyType, ConstantsAssumption DEF Transaction
<1>2. ASSUME pc[q] \notin {"new", "insert"}, NEW i, Clashes(<<q, i>>, logs)
      PROVE  Clashes(<<q, i>>, logs)'
  <2> DEFINE a == <<q, i>>
  <2>1. a[1] = q
    OBVIOUS
  <2> HIDE DEF a
  <2>2. Clashes(a, logs)'
    BY <1>2, <2>1, ClashKept DEF a
  <2> QED
    BY <2>2 DEF a
<1>3. CASE pc[q] \in {"reply", "ok"}
  <2>1. body'[q] = body[q] /\ frame'[q].op = frame[q].op
    BY <1>0, <1>3, WorkKept
  <2> QED
    BY <1>0, <1>2, <1>3, <2>1 DEF Stored
<1>4. CASE SkipsAll(q)
  <2> DEFINE b == body[q]
             at == tx[q].at
  <2>1. /\ pc[q] = "item" /\ at > Len(b) /\ tx[q].uploaded = {} /\ body'[q] = b
    BY <1>4 DEF SkipsAll, SameWork
  <2>2. CASE ~tx[q].poisoned
    <3>1. {SortedOrder(b)[i] : i \in 1..(at - 1)} = {}
      BY <1>0, <2>1, <2>2 DEF Uploading
    <3>2. at = 1 \/ 1 \in 1..(at - 1)
      BY <1>1
    <3> HIDE DEF b, at
    <3>3. at = 1
      BY <3>1, <3>2
    <3>4. DOMAIN b = {}
      BY <1>1, <2>1, <3>3 DEF b
    <3> QED
      BY <2>1, <3>4 DEF Stored, b
  <2>3. CASE tx[q].poisoned
    <3>1. at = 2 /\ at <= Len(b) + 1 /\ Clashes(<<q, SortedOrder(b)[1]>>, logs)
      BY <1>0, <2>1, <2>3 DEF Uploading
    <3>2. DOMAIN b = {1}
      BY <1>1, <2>1, <3>1
    <3>3. SortedOrder(b)[1] = 1
      BY <1>0, <3>2, SortedOrderSorts
    <3>4. Clashes(<<q, 1>>, logs)'
      BY <1>2, <2>1, <3>1, <3>3
    <3> QED
      BY <2>1, <3>2, <3>4 DEF Stored
  <2> QED
    BY <2>2, <2>3
<1>5. CASE Writes(q)
  <2>1. ASSUME frame[q].op = "bulk" PROVE \A i \in DOMAIN body[q] : <<q, i>> \in logs'
    BY <1>0, <1>5, <2>1 DEF Writes, Uploading, HeldBy
  <2> QED
    BY <1>5, <2>1 DEF Writes, SameWork, Stored
<1>6. CASE pc[q] \notin {"reply", "ok"} /\ ~SkipsAll(q) /\ ~Writes(q)
  BY <1>0, <1>6 DEF Moves, Stays, Ends, Begins, Opens, LogsOne, Turns, Adds, GoesOn,
                    Done, Stored
<1> QED
  BY <1>3, <1>4, <1>5, <1>6

\* The only new row that has a client id is the one an INSERT has just made.
LEMMA NewRows ==
    ASSUME ActivityTypeInv, OpInv, UploadInv, LogInv, [ActivityNext]_avars,
           NEW a \in AllRows', a \notin AllRows
    PROVE  \/ \E r \in Requests : ItemStored(r) /\ a = Current(r)
           \/ \E r \in Requests : LogsOne(r) /\ a = <<r, 1>>
<1>1. CASE a \in logs'
  <2>1. ASSUME NEW r \in Requests, a \in HeldBy(r) PROVE FALSE
    BY <2>1 DEF AllRows
  <2> QED
    BY <1>1, <2>1, EveryoneMoves DEF AllRows
<1>2. ASSUME NEW q \in Requests, a \in HeldBy(q)'
      PROVE  ItemStored(q) /\ a = Current(q)
  <2>1. /\ Moves(q) \/ Stays(q)
        /\ a \notin HeldBy(q)
        /\ ~tx'[q].poisoned
        /\ \E i \in tx'[q].uploaded : a = <<q, i>>
        /\ NoTx.uploaded = {}
    BY <1>2, EveryoneMoves DEF AllRows, HeldBy, NoTx
  <2>2. tx'[q] # NoTx /\ tx'[q] # tx[q]
    BY <2>1 DEF HeldBy
  <2>3. Turns(q, {SortedOrder(body[q])[tx[q].at]}, FALSE) /\ ItemStored(q)
    BY <2>1, <2>2 DEF Moves, Stays, Ends, Begins, Opens, LogsOne, Turns, SkipsAll, Adds,
                      GoesOn, Writes
  <2>4. /\ ~tx[q].poisoned
        /\ tx'[q].uploaded = tx[q].uploaded \cup {SortedOrder(body[q])[tx[q].at]}
    BY <2>3 DEF Turns
  <2> QED
    BY <2>1, <2>3, <2>4 DEF HeldBy, Current
<1> QED
  BY <1>1, <1>2 DEF AllRows

LEMMA UniqueNext ==
    ASSUME ActivityTypeInv, OpInv, UploadInv, LogInv, UniqueInv, [ActivityNext]_avars
    PROVE  UniqueInv'
<1> DEFINE New(a) == \E r \in Requests : ItemStored(r) /\ a = Current(r)
           Plain(a) == \E r \in Requests : LogsOne(r) /\ a = <<r, 1>>
<1>0. \A q \in Requests : Moves(q) \/ Stays(q)
  BY EveryoneMoves
<1>1. ASSUME NEW a \in AllRows' PROVE a \in AllRows \/ New(a) \/ Plain(a)
  BY NewRows
\* A row says the same before and after the step.
<1>2. ASSUME NEW a, a \in AllRows \/ New(a)
      PROVE  ItemOf(a)' = ItemOf(a) /\ Key(a)' = Key(a)
  <2>1. ASSUME NEW r \in Requests, ItemStored(r), a = Current(r)
        PROVE  a[1] \in Requests /\ pc[a[1]] \notin {"new", "insert"}
    <3>1. pc[r] = "item" /\ a[1] = r
      BY <2>1 DEF ItemStored, Inserting, Current
    <3> QED
      BY <3>1
  <2>2. a[1] \in Requests /\ pc[a[1]] \notin {"new", "insert"}
    BY <1>2, <2>1, RowsOfWhom
  <2> QED
    BY <1>0, <2>2, RowKept
<1>3. ASSUME NEW a, Plain(a) PROVE ItemOf(a)'.client = None
  BY <1>3 DEF LogsOne, OpInv, OpOK, ItemOf
\* The rows an INSERT finds have other keys.
<1>4. ASSUME NEW a, New(a), NEW b \in AllRows, ItemOf(a).client # None
      PROVE  Key(a) # Key(b)
  <2>1. PICK r \in Requests : ItemStored(r) /\ a = Current(r)
    BY <1>4
  <2>2. ~Clashes(a, logs \cup HeldBy(r))
    BY <2>1 DEF ItemStored
  <2>3. ASSUME NEW q \in Requests \ {r} PROVE ~Clashes(a, HeldBy(q))
    BY <2>1, <2>3 DEF ItemStored, WaitsFor
  <2> QED
    BY <1>4, <2>2, <2>3 DEF Clashes, AllRows
<1>5. ASSUME NEW a, NEW b, New(a), New(b) PROVE a = b
  <2>1. PICK r \in Requests : ItemStored(r) /\ a = Current(r)
    BY <1>5
  <2>2. PICK q \in Requests : ItemStored(q) /\ b = Current(q)
    BY <1>5
  <2>3. CASE q # r
    <3>1. tx'[r] = tx[r]
      BY <2>2, <2>3 DEF ItemStored, ActivityTypeInv
    <3>2. tx'[r].at = tx[r].at + 1
      BY <2>1, AdvancedType DEF ItemStored, Current
    <3>3. tx[r].at \in Int
      BY <2>1, CurrentType DEF ItemStored
    <3> QED
      BY <3>1, <3>2, <3>3
  <2> QED
    BY <2>1, <2>2, <2>3
<1> HIDE DEF New, Plain
<1>6. \A a : Key(a)'[2] = ItemOf(a)'.client
  BY DEF Key
<1>7. ASSUME NEW a \in AllRows', NEW b \in AllRows', ItemOf(a)'.client # None, a # b,
             Key(a)' = Key(b)'
      PROVE  FALSE
  <2>1. ItemOf(b)'.client # None
    BY <1>6, <1>7
  <2>2. (a \in AllRows \/ New(a)) /\ (b \in AllRows \/ New(b))
    BY <1>1, <1>3, <1>7, <2>1
  <2>3. /\ ItemOf(a).client # None /\ ItemOf(b).client # None
        /\ Key(a) = Key(b)
    BY <1>2, <1>7, <2>1, <2>2
  <2>4. ~(a \in AllRows /\ b \in AllRows)
    BY <1>7, <2>3 DEF UniqueInv
  <2> QED
    BY <1>4, <1>5, <1>7, <2>2, <2>3, <2>4
<1> QED
  BY <1>7 DEF UniqueInv

\* An INSERT waits for a row whose transaction has gone on to a later activity.
LEMMA WaitsForLater ==
    ASSUME ActivityTypeInv, UploadInv, NEW x \in Requests, NEW y \in Requests,
           WaitsFor(x, y), Inserting(y)
    PROVE  ItemOf(Current(x)).ts <= ItemOf(Current(y)).ts
<1> DEFINE b == body[y]
           at == tx[y].at
           S == SortedOrder(b)
<1>1. PICK i \in tx[y].uploaded : Key(<<y, i>>) = Key(Current(x)) /\ ~tx[y].poisoned
  BY DEF WaitsFor, Clashes, HeldBy
<1>2. b \in Bodies /\ at \in DOMAIN b /\ at \in Nat /\ DOMAIN b = 1..Len(b)
  BY CurrentType, BodyType
<1>3. tx[y].uploaded = {S[j] : j \in 1..(at - 1)}
  BY <1>1 DEF UploadInv, Uploading, Inserting
<1> HIDE DEF b, at, S
<1>4. PICK j \in 1..(at - 1) : i = S[j]
  BY <1>1, <1>3
<1>5. j \in DOMAIN b /\ j < at
  BY <1>2, <1>4
<1>6. b[S[j]].ts <= b[S[at]].ts
  BY <1>2, <1>5, SortedOrderSorts DEF S
<1>7. ItemOf(<<y, i>>) = b[S[j]] /\ ItemOf(Current(y)) = b[S[at]]
  BY <1>4 DEF ItemOf, Current, b, S, at
<1>8. ItemOf(Current(x)).ts = ItemOf(<<y, i>>).ts
  BY <1>1 DEF Key
<1> QED
  BY <1>6, <1>7, <1>8

-----------------------------------------------------------------------------
(* What is counted is logged. *)

LEMMA AddsWithinKept ==
    ASSUME ActivityTypeInv, OpInv, WithinInv, [ActivityNext]_avars, NEW q \in Requests
    PROVE  AddsWithin(q)'
<1>0. /\ Moves(q) \/ Stays(q)
      /\ logs \subseteq logs'
      /\ AddsWithin(q) /\ OpOK(q)
  BY EveryoneMoves DEF WithinInv, OpInv
<1>1. CASE Stays(q) \/ GoesOn(q)
  <2>1. /\ tx'[q] = tx[q]
        /\ frame'[q].active = frame[q].active /\ frame'[q].idle = frame[q].idle
        /\ pc'[q] \in {"totals", "load", "update"} => pc[q] \in {"totals", "load", "update"}
    BY <1>1 DEF Stays, GoesOn, SameWork
  <2>2. HeldBy(q)' = HeldBy(q)
    BY <2>1 DEF HeldBy
  <2> QED
    BY <1>0, <2>1, <2>2 DEF AddsWithin
<1>2. CASE LogsOne(q)
  BY <1>2 DEF LogsOne, AddsWithin
<1>3. CASE Adds(q)
  <2>1. HeldBy(q)' = HeldBy(q)
    BY <1>3 DEF Adds, HeldBy
  <2> QED
    BY <1>3, <2>1 DEF Adds, AddsWithin, OfType
<1>4. CASE Begins(q)
  BY <1>4 DEF Begins, AddsWithin
<1>5. CASE Ends(q) \/ Opens(q) \/ SkipsAll(q) \/ Writes(q)
           \/ Turns(q, {SortedOrder(body[q])[tx[q].at]}, FALSE) \/ Turns(q, {}, TRUE)
  BY <1>5 DEF Ends, Opens, SkipsAll, Writes, Turns, Done, AddsWithin
<1> QED
  BY <1>0, <1>1, <1>2, <1>3, <1>4, <1>5 DEF Moves

\* Adding activities of A to a row that counts activities of A.
LEMMA CreditedWithin ==
    ASSUME NEW row \in Row, NEW U, NEW V, NEW t, NEW A, Within(row, A), U \cup V \subseteq A
    PROVE  Within(Credited(row, U, V, t), A)
<1>1. /\ Credited(row, U, V, t).active = Plus(row.active, U)
      /\ Credited(row, U, V, t).idle = Plus(row.idle, V)
  BY DEF Credited, Row
<1>2. \A a \in ActivityIds : /\ a \notin U => Plus(row.active, U)[a] = row.active[a]
                             /\ a \notin V => Plus(row.idle, V)[a] = row.idle[a]
  BY DEF Plus
<1> QED
  BY <1>1, <1>2 DEF Within

LEMMA WrittenWithin ==
    ASSUME NEW row \in Row, NEW e \in Row, NEW cols, NEW A, Within(row, A), Within(e, A)
    PROVE  Within(Written(row, e, cols), A)
<1>1. /\ Written(row, e, cols).active \in {row.active, e.active}
      /\ Written(row, e, cols).idle \in {row.idle, e.idle}
  BY DEF Written, Row
<1> QED
  BY <1>1 DEF Within

\* A step of r: what is left to show is about the table and r's row object.
LEMMA WithinOwn ==
    ASSUME ActivityTypeInv, OpInv, WithinInv, [ActivityNext]_avars, NEW r \in Requests,
           Others(r), RowsWithin', EntityWithin(r)'
    PROVE  WithinInv'
<1>1. logs \subseteq logs'
  BY EveryoneMoves
<1>2. ASSUME NEW q \in Requests \ {r} PROVE EntityWithin(q)'
  <2>1. pc'[q] = pc[q] /\ frame'[q] = frame[q] /\ tx'[q] = tx[q]
    BY DEF Others
  <2>2. HeldBy(q)' = HeldBy(q)
    BY <2>1 DEF HeldBy
  <2>3. EntityWithin(q)
    BY DEF WithinInv
  <2> QED
    BY <1>1, <2>1, <2>2, <2>3 DEF EntityWithin, Within
<1> QED
  BY <1>2, AddsWithinKept DEF WithinInv

\* A step that leaves the table alone.
LEMMA TableWithin ==
    ASSUME ActivityTypeInv, OpInv, WithinInv, [ActivityNext]_avars, UNCHANGED sessions
    PROVE  RowsWithin'
<1>1. logs \subseteq logs'
  BY EveryoneMoves
<1> QED
  BY <1>1 DEF WithinInv, RowsWithin, Within

\* A step that leaves no row object to save.
LEMMA WithinNoEntity ==
    ASSUME ActivityTypeInv, OpInv, WithinInv, [ActivityNext]_avars, NEW r \in Requests,
           Others(r), NEW p, NEW f, Await(r, p, f), p \notin {"load", "update"},
           UNCHANGED sessions
    PROVE  WithinInv'
<1>1. pc'[r] = p
  BY AwaitOwn DEF ActivityTypeInv
<1> QED
  BY <1>1, TableWithin, WithinOwn DEF EntityWithin

LEMMA WithinArrival ==
    ASSUME ActivityTypeInv, OpInv, WithinInv, [ActivityNext]_avars, NEW r \in Requests,
           ActivityArrival(r)
    PROVE  WithinInv'
<1>0. Others(r) /\ TypeInv /\ UNCHANGED sessions
  BY OnlyOwn DEF ActivityTypeInv, ActivityArrival, LogActivity, BulkUpload, StartSession,
                 StopSession
<1>1. ASSUME NEW p \in {"rejected", "log", "item", "insert"}, NEW f, Await(r, p, f)
      PROVE  WithinInv'
  BY <1>0, <1>1, WithinNoEntity
<1>2. ASSUME Finish(r, "rejected") PROVE WithinInv'
  BY <1>1, <1>2 DEF Finish
<1>3. ASSUME NEW u \in Users, NEW s \in SessionIds, NEW t \in ClientTimes \cup {None},
             StopSession(r, u, s, t)
      PROVE  WithinInv'
  <2> DEFINE row == sessions[s]
             time == TimeOr(t)
             e == [row EXCEPT !.status = "stopped", !.end = time]
             f == [NewFrame("stop", s) EXCEPT !.entity = e]
  <2>1. CASE MayChange(u, s) /\ Await(r, "load", f)
    <3>1. row \in Row
      BY <1>0, <2>1 DEF MayChange, ActiveOf, TypeInv, TablesOK
    <3> HIDE DEF time
    <3>2. e.active = row.active /\ e.idle = row.idle
      BY <3>1 DEF Row
    <3>3. f.entity = e
      BY DEF NewFrame
    <3> HIDE DEF e, f
    <3>4. frame'[r].entity = e
      BY <1>0, <2>1, <3>3, AwaitOwn
    <3>5. Within(row, logs) /\ logs \subseteq logs'
      BY <3>1, EveryoneMoves, RowAssumption DEF WithinInv, RowsWithin
    <3>6. EntityWithin(r)'
      BY <3>2, <3>4, <3>5 DEF EntityWithin, Within
    <3> QED
      BY <1>0, <3>6, TableWithin, WithinOwn
  <2> QED
    BY <1>2, <1>3, <2>1 DEF StopSession
<1>4. ASSUME NEW u \in Users, NEW s \in SessionIds, NEW t \in ClientTimes \cup {None},
             NEW type \in Types, LogActivity(r, u, s, t, type)
      PROVE  WithinInv'
  BY <1>1, <1>2, <1>4 DEF LogActivity
<1>5. ASSUME NEW u \in Users, NEW s \in SessionIds, NEW b \in Batches, BulkUpload(r, u, s, b)
      PROVE  WithinInv'
  BY <1>1, <1>2, <1>5 DEF BulkUpload
<1>6. ASSUME NEW u \in Users, NEW t \in ClientTimes \cup {None}, StartSession(r, u, t)
      PROVE  WithinInv'
  BY <1>1, <1>2, <1>6 DEF StartSession
<1> QED
  BY <1>3, <1>4, <1>5, <1>6 DEF ActivityArrival

LEMMA WithinBulkTotals ==
    ASSUME ActivityTypeInv, OpInv, WithinInv, [ActivityNext]_avars, NEW r \in Requests,
           BulkTotals(r)
    PROVE  WithinInv'
<1> DEFINE B == {<<r, i>> : i \in tx[r].uploaded}
           A == OfType(B, "active")
           I == OfType(B, "idle")
           f == frame[r]
           row == sessions[f.sid]
           e == Credited(row, A, I, now)
           g == [f EXCEPT !.active = A, !.idle = I, !.entity = e]
<1>0. Others(r) /\ TypeInv /\ UNCHANGED sessions /\ f \in Frame /\ pc[r] = "item"
  BY OnlyOwn DEF ActivityTypeInv, ActivityStep, BulkTotals, TypeInv, TablesOK
<1>1. ASSUME NEW p \in {"failed", "reply"}, Finish(r, p) PROVE WithinInv'
  BY <1>0, <1>1, WithinNoEntity DEF Finish
<1>2. CASE ~tx[r].poisoned /\ Await(r, "load", g) /\ UNCHANGED tx
  <2>1. row \in Row /\ f.sid \in SessionIds
    BY <1>0 DEF TypeInv, FrameOK, Bound
  <2>2. B = HeldBy(r) /\ HeldBy(r)' = HeldBy(r)
    BY <1>2 DEF HeldBy
  <2>3. Within(row, logs) /\ logs \subseteq logs'
    BY <2>1, EveryoneMoves, RowAssumption DEF WithinInv, RowsWithin
  <2>4. A \cup I \subseteq HeldBy(r)
    BY <2>2 DEF OfType
  <2> HIDE DEF A, I, row
  <2>5. Within(row, logs' \cup HeldBy(r)')
    BY <2>3 DEF Within
  <2>6. Within(e, logs' \cup HeldBy(r)')
    BY <2>1, <2>2, <2>4, <2>5, CreditedWithin
  <2> HIDE DEF e
  <2>7. g.entity = e
    BY <1>0 DEF Frame
  <2> HIDE DEF g
  <2>8. frame'[r].entity = e
    BY <1>0, <1>2, <2>7, AwaitOwn
  <2>9. EntityWithin(r)'
    BY <2>6, <2>8 DEF EntityWithin
  <2> QED
    BY <1>0, <2>9, TableWithin, WithinOwn
<1> QED
  BY <1>1, <1>2 DEF BulkTotals, Rollback

LEMMA WithinStep ==
    ASSUME ActivityTypeInv, OpInv, CountInv, WithinInv, [ActivityNext]_avars,
           NEW r \in Requests, ActivityStep(r)
    PROVE  WithinInv'
<1> DEFINE f == frame[r]
<1>0. /\ Others(r) /\ TypeInv /\ f \in Frame /\ logs \subseteq logs'
      /\ sessions \in [SessionIds -> Row \cup {None}]
  BY OnlyOwn, EveryoneMoves DEF ActivityTypeInv, TypeInv, TablesOK
<1>1. ASSUME UNCHANGED sessions, NEW p \in Done \cup {"reply", "totals"}, NEW g,
             Await(r, p, g)
      PROVE  WithinInv'
  BY <1>0, <1>1, WithinNoEntity DEF Done
<1>2. CASE LogInsert(r)
  BY <1>1, <1>2 DEF LogInsert, Finish, Done
<1>3. CASE ItemStored(r) \/ ItemDuplicate(r)
  <2>1. UNCHANGED <<pc, frame, sessions>> /\ pc[r] = "item"
    BY <1>3 DEF ItemStored, ItemDuplicate, Inserting
  <2> QED
    BY <1>0, <2>1, TableWithin, WithinOwn DEF EntityWithin
<1>4. CASE ItemFails(r) \/ DeadlockVictim(r)
  BY <1>1, <1>4 DEF ItemFails, DeadlockVictim, Rollback, Finish, Done
<1>5. CASE SaveUpdate(r) /\ CommitRows(r)
  <2> DEFINE s == f.sid
             w == Written(sessions[s], f.entity, f.cols)
  <2>1. /\ pc[r] = "update" /\ s \in SessionIds /\ sessions[s] \in Row /\ f.entity \in Row
        /\ logs' = logs \cup HeldBy(r)
        /\ sessions' = [sessions EXCEPT ![s] = w]
        /\ pc'[r] = "reply"
    BY <1>0, <1>5, FinishOwn DEF SaveUpdate, CommitRows, TypeInv, FrameOK, Bound
  <2>2. Within(sessions[s], logs) /\ Within(f.entity, logs')
    BY <2>1, RowAssumption DEF WithinInv, RowsWithin, EntityWithin
  <2>3. Within(w, logs')
    <3>1. Within(sessions[s], logs')
      BY <1>0, <2>2 DEF Within
    <3> QED
      BY <2>1, <2>2, <3>1, WrittenWithin
  <2> HIDE DEF w
  <2>4. RowsWithin'
    BY <1>0, <2>1, <2>3 DEF WithinInv, RowsWithin, Within
  <2>5. EntityWithin(r)'
    BY <2>1 DEF EntityWithin
  <2> QED
    BY <1>0, <2>4, <2>5, WithinOwn
<1>6. CASE InsertSession(r)
  <2>1. PICK s \in SessionIds : /\ sessions' = [sessions EXCEPT ![s] = f.entity]
                                /\ Await(r, "reply", NewFrame("start", s))
    BY <1>6 DEF InsertSession
  <2>2. Uncounted(f.entity)
    BY <1>6 DEF InsertSession, CountInv, EntitiesInv
  <2>3. RowsWithin'
    BY <1>0, <2>1, <2>2 DEF WithinInv, RowsWithin, Within, Uncounted
  <2>4. pc'[r] = "reply"
    BY <1>0, <2>1, AwaitOwn
  <2> QED
    BY <1>0, <2>3, <2>4, WithinOwn DEF EntityWithin
<1>7. CASE TotalsRead(r) /\ UNCHANGED <<logs, body, tx>>
  <2> DEFINE row == sessions[f.sid]
             e == Credited(row, f.active, f.idle, now)
             g == [f EXCEPT !.entity = e]
  <2>1. CASE Finish(r, "failed")
    BY <1>1, <1>7, <2>1 DEF TotalsRead, Finish, Done
  <2>2. CASE Await(r, "load", g)
    <3>1. /\ pc[r] = "totals" /\ row \in Row /\ f.sid \in SessionIds /\ UNCHANGED sessions
          /\ HeldBy(r)' = HeldBy(r) /\ logs' = logs
      BY <1>0, <1>7 DEF TotalsRead, TypeInv, FrameOK, Bound, HeldBy
    <3> DEFINE A == logs \cup HeldBy(r)
    <3>2. f.active \cup f.idle \subseteq A /\ Within(row, logs)
      BY <3>1, RowAssumption DEF WithinInv, RowsWithin, AddsWithin
    <3> HIDE DEF row
    <3>3. Within(row, A)
      BY <3>2 DEF Within
    <3> HIDE DEF A
    <3>4. Within(e, A)
      BY <3>1, <3>2, <3>3, CreditedWithin
    <3> HIDE DEF e
    <3>5. g.entity = e
      BY <1>0 DEF Frame
    <3> HIDE DEF g
    <3>6. frame'[r].entity = e
      BY <1>0, <2>2, <3>5, AwaitOwn
    <3>7. EntityWithin(r)'
      BY <3>1, <3>4, <3>6 DEF EntityWithin, A
    <3> QED
      BY <1>0, <3>1, <3>7, TableWithin, WithinOwn
  <2> QED
    BY <1>7, <2>1, <2>2 DEF TotalsRead
<1>8. CASE SaveLoad(r) /\ UNCHANGED <<logs, body, tx>>
  <2> DEFINE c == ChangedColumns(f.entity, sessions[f.sid])
             g == [f EXCEPT !.cols = c]
  <2>1. /\ pc[r] = "load" /\ UNCHANGED sessions /\ HeldBy(r)' = HeldBy(r)
        /\ Await(r, "update", g)
    BY <1>8 DEF SaveLoad, HeldBy
  <2> HIDE DEF c
  <2>2. g.entity = f.entity
    BY <1>0 DEF Frame
  <2> HIDE DEF g
  <2>3. frame'[r].entity = f.entity
    BY <1>0, <2>1, <2>2, AwaitOwn
  <2>4. EntityWithin(r)'
    BY <1>8, <2>1, <2>3 DEF WithinInv, EntityWithin
  <2> QED
    BY <1>0, <2>1, <2>4, TableWithin, WithinOwn
<1>9. CASE Reply(r)
  BY <1>1, <1>9 DEF Reply, Finish, Done
<1> QED
  BY <1>2, <1>3, <1>4, <1>5, <1>6, <1>7, <1>8, <1>9, WithinBulkTotals DEF ActivityStep

LEMMA WithinNext ==
    ASSUME ActivityTypeInv, OpInv, CountInv, WithinInv, [ActivityNext]_avars
    PROVE  WithinInv'
<1>1. ASSUME NEW r \in Requests, ActivityFails(r) PROVE WithinInv'
  <2>1. PICK g : Await(r, "failed", g) /\ UNCHANGED sessions
    BY <1>1 DEF ActivityFails, QueryFails, Finish
  <2> QED
    BY <1>1, <2>1, OnlyOwn, WithinNoEntity
<1>2. CASE ActivityCrash
  <2>1. \A q \in Requests : pc'[q] \notin {"load", "update"}
    BY <1>2 DEF ActivityCrash, Crash, InFlight, Done
  <2>2. UNCHANGED sessions
    BY <1>2 DEF ActivityCrash, Crash
  <2> QED
    BY <2>1, <2>2, TableWithin, AddsWithinKept DEF WithinInv, EntityWithin
<1>3. CASE UNCHANGED <<sessions, pc, frame, logs, body, tx>>
  BY <1>3 DEF WithinInv, RowsWithin, EntityWithin, AddsWithin, HeldBy
<1> QED
  BY <1>1, <1>2, <1>3, WithinArrival, WithinStep
     DEF ActivityNext, RequestsNext, Tick, Terminated, vars, handlers, avars

-----------------------------------------------------------------------------
LEMMA ActivityInvInit == ActivityInit => ActivityInv
<1> SUFFICES ASSUME ActivityInit PROVE ActivityInv
  OBVIOUS
<1>1. ActivityTypeInv /\ CountInv /\ OpInv
  BY ActivityTypeInit, CountInit, OpInit DEF ActivityInit
<1>2. /\ logs = {}
      /\ \A r \in Requests : pc[r] = "new" /\ HeldBy(r) = {} /\ frame[r].op = "none"
  BY DEF ActivityInit, Init, NewFrame, HeldBy, NoTx
<1>3. UploadInv /\ LogInv /\ StoredInv
  BY <1>2 DEF UploadInv, Uploading, LogInv, StoredInv, Stored
<1>4. AllRows = {}
  BY <1>2 DEF AllRows
<1>5. \A s \in SessionIds : sessions[s] # None => Uncounted(sessions[s])
  BY SessionsAssumption DEF ActivityInit, Init, EmptyTally, Uncounted
<1> QED
  BY <1>1, <1>2, <1>3, <1>4, <1>5
     DEF ActivityInv, UniqueInv, WithinInv, RowsWithin, EntityWithin, AddsWithin, Within,
         Uncounted

LEMMA ActivityInvNext == ActivityInv /\ [ActivityNext]_avars => ActivityInv'
<1> SUFFICES ASSUME ActivityInv, [ActivityNext]_avars PROVE ActivityInv'
  OBVIOUS
<1> USE DEF ActivityInv
<1>1. ActivityTypeInv' /\ CountInv' /\ OpInv'
  BY ActivityTypeNext, CountActivityNext, OpNext
<1>2. UploadInv' /\ StoredInv'
  BY UploadKept, StoredKept DEF UploadInv, StoredInv
<1>3. LogInv' /\ UniqueInv' /\ WithinInv'
  BY LogNext, UniqueNext, WithinNext
<1> QED
  BY <1>1, <1>2, <1>3

\* The invariant of both tables, the bodies, the transactions and the handlers
\* between their queries holds in every state.
THEOREM ActivityInvariant == ActivitySpec => []ActivityInv
BY ActivityInvInit, ActivityInvNext, PTL DEF ActivitySpec

(***************************************************************************)
(* Every second a session counts comes from an activity in activity_logs,  *)
(* wherever a handler or a process stops between the two tables.           *)
(***************************************************************************)
THEOREM CountedComesFromLog == ActivitySpec => []CountedIsLogged
<1>1. ActivityInv => CountedIsLogged
  <2> SUFFICES ASSUME ActivityInv, NEW s \in SessionIds, NEW a \in ActivityIds,
                      sessions[s] # None, Counted(sessions[s], a) > 0
               PROVE  a \in logs
    BY DEF CountedIsLogged
  <2>1. sessions[s].active[a] # 0 \/ sessions[s].idle[a] # 0
    BY DEF Counted
  <2> QED
    BY <2>1 DEF ActivityInv, WithinInv, RowsWithin, Within
<1> QED
  BY <1>1, ActivityInvariant, PTL

(***************************************************************************)
(* The transaction of bulkUploadActivities is atomic: no crash, failure,   *)
(* duplicate or deadlock leaves a part of a batch in activity_logs.        *)
(***************************************************************************)
THEOREM UploadsAreAtomic == ActivitySpec => []AllOrNothing
<1>1. ActivityInv => AllOrNothing
  <2> SUFFICES ASSUME ActivityInv, NEW r \in Requests, frame[r].op = "bulk",
                      NEW i \in DOMAIN body[r], <<r, i>> \in logs
               PROVE  \A j \in DOMAIN body[r] : <<r, j>> \in logs
    BY DEF AllOrNothing
  <2>1. LogOK(<<r, i>>)
    BY DEF ActivityInv, LogInv
  <2> QED
    BY <2>1 DEF LogOK
<1> QED
  BY <1>1, ActivityInvariant, PTL

(***************************************************************************)
(* An upload answered with success has lost nothing, although a duplicate  *)
(* makes bulkUploadActivities answer with success and insert nothing.      *)
(***************************************************************************)
THEOREM SuccessIsStored == ActivitySpec => []SuccessMeansStored
<1>1. ActivityInv => SuccessMeansStored
  BY DEF ActivityInv, StoredInv, Stored, SuccessMeansStored
<1> QED
  BY <1>1, ActivityInvariant, PTL

(***************************************************************************)
(* The unique index holds for what concurrent transactions insert: no two  *)
(* rows of activity_logs have one client id and timestamp.                 *)
(***************************************************************************)
THEOREM RowsAreUnique == ActivitySpec => []NoDuplicateRows
<1>1. ActivityInv => NoDuplicateRows
  BY DEF ActivityInv, UniqueInv, AllRows, NoDuplicateRows
<1> QED
  BY <1>1, ActivityInvariant, PTL

\* Who is in a circle is at an INSERT of an activity.
LEMMA CycleTimes ==
    ASSUME ActivityTypeInv, NEW C \in SUBSET Requests, WaitCycle(C), NEW r \in C
    PROVE  Inserting(r) /\ ItemOf(Current(r)).ts \in Int
<1>1. Inserting(r)
  BY CycleWaits DEF WaitsFor
<1>2. body[r] \in Bodies /\ SortedOrder(body[r])[tx[r].at] \in DOMAIN body[r]
  BY <1>1, CurrentType
<1> QED
  BY <1>1, <1>2, BodyType DEF ItemOf, Current

(***************************************************************************)
(* What the sort of bulkUploadActivities is for: locks are taken in the    *)
(* order of timestamps, so a deadlock is one of activities with the same   *)
(* timestamp.  In a circle of waits, look at the uploads whose INSERT is   *)
(* at r's timestamp or later: none of them waits for the rest.             *)
(***************************************************************************)
THEOREM DeadlocksAreTies == ActivitySpec => []DeadlockOnlyOnTies
<1>1. ASSUME ActivityInv, NEW C \in SUBSET Requests, WaitCycle(C), NEW r \in C, NEW q \in C
      PROVE  ItemOf(Current(r)).ts <= ItemOf(Current(q)).ts
  <2> DEFINE Time(x) == ItemOf(Current(x)).ts
  <2>1. \A x \in C : Inserting(x) /\ Time(x) \in Int
    BY <1>1, CycleTimes DEF ActivityInv
  <2>2. \A x, y \in C : WaitsFor(x, y) => Time(x) <= Time(y)
    BY <1>1, <2>1, WaitsForLater DEF ActivityInv
  <2> HIDE DEF Time
  <2> DEFINE D == {x \in C : Time(r) <= Time(x)}
  <2> SUFFICES ASSUME q \notin D PROVE FALSE
    BY <1>1 DEF Time
  <2>3. D \in (SUBSET C) \ {{}, C}
    BY <1>1, <2>1
  <2>4. PICK x \in D, y \in C \ D : WaitsFor(x, y)
    BY <1>1, <2>3 DEF WaitCycle
  <2>5. Time(x) <= Time(y) /\ Time(r) <= Time(x) /\ ~(Time(r) <= Time(y))
    BY <2>2, <2>4
  <2> QED
    BY <1>1, <2>1, <2>4, <2>5
<1>2. ActivityInv => DeadlockOnlyOnTies
  <2> SUFFICES ASSUME ActivityInv, NEW C \in SUBSET Requests, WaitCycle(C),
                      NEW r \in C, NEW q \in C
               PROVE  ItemOf(Current(r)).ts = ItemOf(Current(q)).ts
    BY DEF DeadlockOnlyOnTies
  <2> DEFINE Time(x) == ItemOf(Current(x)).ts
  <2>1. Time(r) <= Time(q) /\ Time(q) <= Time(r)
    BY <1>1
  <2>2. Time(r) \in Int /\ Time(q) \in Int
    BY CycleTimes DEF ActivityInv
  <2> HIDE DEF Time
  <2>3. Time(r) = Time(q)
    BY <2>1, <2>2
  <2> QED
    BY <2>3 DEF Time
<1> QED
  BY <1>2, ActivityInvariant, PTL

-----------------------------------------------------------------------------
(* What is logged is counted, where saves do not run into each other.  A bulk *)
(* upload does not look at the status of its session again, so OpenInv of     *)
(* LedgerProofs is no invariant here; SaveInv is.                             *)

LEMMA SaveArrival ==
    ASSUME ActivityTypeInv, SaveInv, NEW r \in Requests, ActivityArrival(r)
    PROVE  SaveInv'
<1>0. TypeInv
  BY DEF ActivityTypeInv
<1>1. ASSUME History, UNCHANGED sessions,
             \/ Finish(r, "rejected")
             \/ \E f : Await(r, "log", f) \/ Await(r, "item", f)
      PROVE  SaveInv'
  BY <1>0, <1>1, FinishSaves, GoOnSaves DEF Done
<1>2. ASSUME NEW u \in Users, NEW s \in SessionIds, NEW t \in ClientTimes \cup {None},
             NEW type \in Types, LogActivity(r, u, s, t, type)
      PROVE  SaveInv'
  BY <1>1, <1>2 DEF LogActivity
<1>3. ASSUME NEW u \in Users, NEW s \in SessionIds, NEW b \in Batches, BulkUpload(r, u, s, b)
      PROVE  SaveInv'
  BY <1>1, <1>3 DEF BulkUpload
<1>4. ASSUME NEW u \in Users, NEW t \in ClientTimes \cup {None},
             StartSession(r, u, t) \/ \E s \in SessionIds : StopSession(r, u, s, t)
      PROVE  SaveInv'
  <2>1. Arrival(r)
    BY <1>4 DEF Arrival
  <2> QED
    BY <1>0, <2>1, ArrivalSaves
<1> QED
  BY <1>2, <1>3, <1>4 DEF ActivityArrival

LEMMA SaveBulkTotals ==
    ASSUME ActivityTypeInv, OpInv, SaveInv, NEW r \in Requests, BulkTotals(r)
    PROVE  SaveInv'
<1> DEFINE B == {<<r, i>> : i \in tx[r].uploaded}
           A == OfType(B, "active")
           I == OfType(B, "idle")
           f == frame[r]
           row == sessions[f.sid]
           e == Credited(row, A, I, now)
           g == [f EXCEPT !.active = A, !.idle = I, !.entity = e]
<1>0. /\ TypeInv /\ History /\ UNCHANGED sessions /\ f \in Frame
      /\ pc[r] = "item" /\ row \in Row
      /\ f.active = {} /\ f.idle = {}
  BY DEF ActivityTypeInv, BulkTotals, TypeInv, TablesOK, FrameOK, Bound, OpInv, OpOK
<1>1. CASE Finish(r, "failed")
  BY <1>0, <1>1, FinishSaves DEF Done
<1>2. CASE Finish(r, "reply")
  <2> DEFINE h == [f EXCEPT !.entity = None, !.cols = {}]
  <2>1. Await(r, "reply", h) /\ Grows
    BY <1>0, <1>2 DEF Finish, Grows
  <2>2. h.active = {} /\ h.idle = {}
    BY <1>0 DEF Frame
  <2> HIDE DEF h
  <2>3. Kept(h, sessions')
    BY <2>2 DEF Kept
  <2> QED
    BY <1>0, <2>1, <2>3, ReplySaves
<1>3. CASE Await(r, "load", g)
  <2> HIDE DEF A, I, row
  <2>1. /\ g.entity = e /\ g.active = A /\ g.idle = I /\ g.sid = f.sid
    BY <1>0 DEF Frame
  <2> HIDE DEF g
  <2>2. Saveable("load", g, row)
    BY <1>0, <2>1, CreditedSaveable
  <2> QED
    BY <1>0, <1>3, <2>1, <2>2, GoOnSaves DEF row
<1> QED
  BY <1>1, <1>2, <1>3 DEF BulkTotals, Rollback

LEMMA SaveActivityStep ==
    ASSUME ActivityTypeInv, OpInv, SaveInv, NEW r \in Requests, ActivityStep(r)
    PROVE  SaveInv'
<1>0. TypeInv
  BY DEF ActivityTypeInv
<1>1. CASE LogInsert(r)
  <2>1. History /\ UNCHANGED sessions
    BY <1>1 DEF LogInsert
  <2>2. Finish(r, "failed") \/ \E f : Await(r, "totals", f)
    BY <1>1 DEF LogInsert
  <2> QED
    BY <1>0, <2>1, <2>2, FinishSaves, GoOnSaves DEF Done
<1>2. CASE ItemStored(r) \/ ItemDuplicate(r)
  BY <1>0, <1>2, StillSaves DEF ItemStored, ItemDuplicate
<1>3. CASE ItemFails(r) \/ DeadlockVictim(r)
  BY <1>0, <1>3, FinishSaves DEF ItemFails, DeadlockVictim, Rollback, Done
<1>4. CASE Step(r)
  BY <1>0, <1>4, StepSaves
<1> QED
  BY <1>1, <1>2, <1>3, <1>4, SaveBulkTotals DEF ActivityStep, Step

LEMMA SaveActivityNext ==
    ActivityTypeInv /\ OpInv /\ SaveInv /\ [ActivityNext]_avars => SaveInv'
<1> SUFFICES ASSUME ActivityTypeInv, OpInv, SaveInv, [ActivityNext]_avars PROVE SaveInv'
  OBVIOUS
<1>1. CASE (\E r \in Requests : QueryFails(r)) \/ Crash \/ Tick
  BY <1>1, FaultSaves DEF ActivityTypeInv
<1>2. CASE UNCHANGED vars
  BY <1>2 DEF vars, handlers, SaveInv, FreshInv, KeptInv
<1>3. Terminated \/ UNCHANGED avars => UNCHANGED vars
  BY DEF Terminated, avars
<1> QED
  BY <1>1, <1>2, <1>3, SaveArrival, SaveActivityStep
     DEF ActivityNext, RequestsNext, ActivityFails, ActivityCrash

\* What is written to work_sessions, and when the clock moves.
LEMMA WhoWrites ==
    ASSUME [ActivityNext]_avars
    PROVE  /\ \/ UNCHANGED sessions
              \/ \E r \in Requests : InsertSession(r) \/ SaveUpdate(r)
           /\ UNCHANGED now \/ now' = now + 1
<1>1. ASSUME NEW r \in Requests, ActivityArrival(r) PROVE UNCHANGED <<now, sessions>>
  BY <1>1 DEF ActivityArrival, LogActivity, BulkUpload, StartSession, StopSession
<1>2. ASSUME NEW r \in Requests, ActivityStep(r)
      PROVE  /\ UNCHANGED now
             /\ UNCHANGED sessions \/ InsertSession(r) \/ SaveUpdate(r)
  BY <1>2 DEF ActivityStep, LogInsert, ItemStored, ItemDuplicate, ItemFails,
              DeadlockVictim, BulkTotals, InsertSession, TotalsRead, SaveLoad,
              SaveUpdate, Reply
<1>3. ASSUME (\E r \in Requests : ActivityFails(r)) \/ ActivityCrash
             \/ Tick \/ Terminated \/ UNCHANGED avars
      PROVE  UNCHANGED sessions /\ (UNCHANGED now \/ now' = now + 1)
  BY <1>3 DEF ActivityFails, QueryFails, ActivityCrash, Crash, Tick, Terminated, vars,
              handlers, avars
<1>4. \/ \E r \in Requests : ActivityArrival(r) \/ ActivityStep(r) \/ ActivityFails(r)
      \/ ActivityCrash \/ Tick \/ Terminated \/ UNCHANGED avars
  BY DEF ActivityNext, RequestsNext
<1> QED
  BY <1>1, <1>2, <1>3, <1>4

\* Nothing takes back what a row counts, unless the session goes on record.
LEMMA ActivityGrows ==
    ASSUME ActivityTypeInv, SaveInv, [ActivityNext]_avars
    PROVE  Grows /\ raced \subseteq raced'
<1>1. ASSUME UNCHANGED sessions PROVE Grows
  BY <1>1 DEF Grows
<1>2. ASSUME NEW r \in Requests, InsertSession(r) \/ SaveUpdate(r) PROVE Grows
  <2>1. TypeInv /\ FreshInv
    BY DEF ActivityTypeInv, SaveInv
  <2> QED
    BY <1>2, <2>1, InsertGrows, UpdateKeeps
<1>3. raced \subseteq raced'
  BY ActivityHistory, RacedGrows DEF vars
<1> QED
  BY <1>1, <1>2, <1>3, WhoWrites

LEMMA OwnedKept ==
    ASSUME ActivityInv, SaveInv, OwnedInv, [ActivityNext]_avars, KeptInv',
           NEW r \in Requests
    PROVE  Owned(r)'
<1>0. /\ Moves(r) \/ Stays(r)
      /\ Owned(r) /\ OpOK(r)
      /\ TypeInv
      /\ Grows /\ raced \subseteq raced'
  BY EveryoneMoves, ActivityGrows DEF ActivityInv, OwnedInv, OpInv, ActivityTypeInv
<1> SUFFICES ASSUME NEW i \in 1..MaxBatch, <<r, i>> \in logs', frame'[r].op = "bulk",
                    frame'[r].sid \notin raced'
             PROVE  Kept(frame'[r], sessions')
  BY DEF Owned
<1>1. CASE <<r, i>> \in logs
  <2>1. LogOK(<<r, i>>)
    BY <1>1 DEF ActivityInv, LogInv
  <2>2. \/ frame[r].op = "log" /\ pc[r] \notin {"new", "log"}
        \/ frame[r].op = "bulk" /\ pc[r] \in Settled
    BY <2>1 DEF LogOK
  <2>3. SameWork(r)
    BY <1>0, <2>2 DEF Moves, Stays, Ends, Begins, Opens, LogsOne, Turns, Inserting, SkipsAll,
                      Adds, GoesOn, Writes, Settled, OpOK
  <2>4. Kept(frame[r], sessions)
    BY <1>0, <1>1, <2>3 DEF Owned, SameWork
  <2>5. frame[r].active \subseteq ActivityIds /\ frame[r].idle \subseteq ActivityIds
    BY <1>0 DEF TypeInv, TablesOK, Frame
  <2>6. Kept(frame[r], sessions')
    BY <1>0, <2>3, <2>4, <2>5, KeptStays DEF SameWork
  <2> QED
    BY <2>3, <2>6 DEF SameWork, Kept
<1>2. CASE <<r, i>> \notin logs
  <2>1. PICK q \in Requests : \/ LogsOne(q) /\ <<r, i>> = <<q, 1>>
                              \/ Writes(q) /\ <<r, i>> \in HeldBy(q)
    BY <1>2, EveryoneMoves DEF ActivityInv
  <2>2. q = r
    BY <2>1 DEF HeldBy
  <2>3. CASE LogsOne(r)
    BY <1>0, <2>3 DEF LogsOne, OpOK
  <2>4. CASE Writes(r)
    BY <2>4 DEF Writes, KeptInv
  <2> QED
    BY <2>1, <2>2, <2>3, <2>4
<1> QED
  BY <1>1, <1>2

LEMMA SaveActivity == ActivitySpec => [](ActivityInv /\ SaveInv /\ OwnedInv)
<1>1. ActivityInit => ActivityInv /\ SaveInv /\ OwnedInv
  BY ActivityInvInit, SaveInit DEF ActivityInit, OwnedInv, Owned
<1>2. ActivityInv /\ SaveInv /\ OwnedInv /\ [ActivityNext]_avars
          => (ActivityInv /\ SaveInv /\ OwnedInv)'
  <2> SUFFICES ASSUME ActivityInv, SaveInv, OwnedInv, [ActivityNext]_avars
               PROVE  (ActivityInv /\ SaveInv /\ OwnedInv)'
    OBVIOUS
  <2>1. ActivityInv' /\ SaveInv'
    BY ActivityInvNext, SaveActivityNext DEF ActivityInv
  <2>2. KeptInv'
    BY <2>1 DEF SaveInv
  <2> QED
    BY <2>1, <2>2, OwnedKept DEF OwnedInv
<1> QED
  BY <1>1, <1>2, PTL DEF ActivitySpec

(***************************************************************************)
(* The transaction of bulkUploadActivities holds the two tables together,  *)
(* and a single activity that is answered with success is in both: what is *)
(* logged is counted, unless a save of the session was computed before     *)
(* another handler changed it.                                             *)
(***************************************************************************)
THEOREM LogIsCounted == ActivitySpec => []LoggedUnlessRaced
<1>1. ActivityInv /\ SaveInv /\ OwnedInv => LoggedUnlessRaced
  <2> SUFFICES ASSUME ActivityInv, SaveInv, OwnedInv, NEW a \in logs,
                      frame[a[1]].op = "bulk" \/ pc[a[1]] = "ok",
                      frame[a[1]].sid \notin raced
               PROVE  HasSecondsOf(sessions[frame[a[1]].sid], a[1])
    BY DEF LoggedUnlessRaced
  <2>1. a[1] \in Requests /\ a[2] \in 1..MaxBatch /\ a = <<a[1], a[2]>>
    BY DEF ActivityInv, ActivityTypeInv, ActivityIds
  <2>2. Kept(frame[a[1]], sessions)
    BY <2>1 DEF OwnedInv, Owned, SaveInv, KeptInv
  <2> QED
    BY <2>1, <2>2, KeptSeconds DEF ActivityInv, ActivityTypeInv
<1> QED
  BY <1>1, SaveActivity, PTL

(***************************************************************************)
(* Accurate totals, with bulk uploads among the requests.                  *)
(***************************************************************************)
THEOREM UploadsAreAccurate == ActivitySpec => []AccurateUnlessRaced
<1>1. ActivityInv /\ SaveInv /\ OwnedInv => AccurateUnlessRaced
  BY KeptAccurate DEF ActivityInv, ActivityTypeInv, SaveInv
<1> QED
  BY <1>1, SaveActivity, PTL
=============================================================================
