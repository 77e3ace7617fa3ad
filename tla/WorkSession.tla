---------------------------- MODULE WorkSession ----------------------------
(***************************************************************************)
(* A row of the table work_sessions, and the part of it that TypeORM's     *)
(* repository.save writes.                                                 *)
(*                                                                         *)
(* The two columns total_active_seconds and total_idle_seconds are sums of *)
(* durations.  The model keeps where a sum comes from: a column is a tally *)
(* that says how often each activity is counted in it, and Total is the    *)
(* integer the database stores.  Columns no handler changes after the      *)
(* insert (organization_id, project_id, created_at) are left out, and so   *)
(* is the column version: TypeORM 0.3.28 counts it up in save() and never  *)
(* compares it there, and nothing else reads it.                           *)
(***************************************************************************)
EXTENDS Integers, FiniteSets, Functions

CONSTANTS
    Requests,        \* the HTTP requests of a behaviour, each one handler call
    Users,
    MaxBatch,        \* bound: activities one request carries
    Secs,            \* duration_seconds of each activity
    None             \* SQL NULL, and the answer of a findOne without a row

\* The i-th activity carried by request r.
ActivityIds == Requests \X (1..MaxBatch)

ASSUME ConstantsAssumption ==
    /\ IsFiniteSet(Requests)
    /\ MaxBatch \in Nat \ {0}
    /\ Secs \in [ActivityIds -> Int]
    /\ None \notin Int

\* A column of seconds: how often each activity is counted in it.
Tally == [ActivityIds -> Nat]
EmptyTally == [a \in ActivityIds |-> 0]

\* The integer in the column.
Total(t) == SumFunction([a \in ActivityIds |-> t[a] * Secs[a]])

\* Mutant: the column is assigned the durations.
Assigned(t, A) == [a \in ActivityIds |-> IF a \in A THEN 1 ELSE 0]

\* column += the durations of the activities in A
Plus(t, A) == [a \in ActivityIds |-> IF a \in A THEN t[a] + 1 ELSE t[a]]

\* The seconds of the activities in A.
Amount(A) == Total(Plus(EmptyTally, A))

Status == {"active", "stopped"}

Row == [user   : Users,
        status : Status,
        start  : Int,
        end    : Int \cup {None},
        active : Tally,
        idle   : Tally,
        last   : Int \cup {None}]

\* NULL is not a row.
ASSUME RowAssumption == None \notin Row

Columns == {"status", "end", "active", "idle", "last"}

NewRow(u, t) == [user |-> u, status |-> "active", start |-> t, end |-> None,
                 active |-> EmptyTally, idle |-> EmptyTally, last |-> None]

\* session.total_active_seconds += .., session.total_idle_seconds += ..,
\* session.last_activity_at = new Date().
Credited(row, A, I, t) == [row EXCEPT !.active = Plus(@, A),
                                      !.idle   = Plus(@, I),
                                      !.last   = t]

\* The first half of save(): TypeORM loads the row again and collects the
\* columns in which the entity in memory differs from it.
ChangedColumns(e, row) ==
    {c \in {"status", "end", "last"} : e[c] # row[c]}
        \cup {c \in {"active", "idle"} : Total(e[c]) # Total(row[c])}

\* The second half of save(): UPDATE work_sessions SET <those columns> WHERE
\* id = ..; absolute values, the other columns keep what the table holds.  No
\* column, no UPDATE.
Written(row, e, cols) ==
    [row EXCEPT !.status = IF "status" \in cols THEN e.status ELSE @,
                !.end    = IF "end"    \in cols THEN e.end    ELSE @,
                !.active = IF "active" \in cols THEN e.active ELSE @,
                !.idle   = IF "idle"   \in cols THEN e.idle   ELSE @,
                !.last   = IF "last"   \in cols THEN e.last   ELSE @]
=============================================================================
