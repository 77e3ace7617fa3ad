------------------------------- MODULE Ledger -------------------------------
(***************************************************************************)
(* What the session handlers promise their users: a session is opened,     *)
(* credited with activities while it is open and closed for good, and no   *)
(* activity is credited twice or in two sessions.  The one exception has a *)
(* name: a session may be overwritten with what somebody remembers of it,  *)
(* and is on record as overwritten from then on.  Processes, queries and   *)
(* saves are not visible here.                                             *)
(***************************************************************************)
EXTENDS Integers

CONSTANTS SessionIds, Activities

VARIABLES
    standing,    \* of each session: "none", "active" or "stopped"
    credited,    \* how often each activity is counted in each session
    overwritten  \* the sessions that are on record as overwritten

ledger == <<standing, credited, overwritten>>

Nowhere == {a \in Activities : \A s \in SessionIds : credited[s][a] = 0}

\* The activities that are credited in no other session than s.
Free(s) == {a \in Activities : \A q \in SessionIds \ {s} : credited[q][a] = 0}

Init ==
    /\ standing \in [SessionIds -> {"none", "active", "stopped"}]
    /\ credited = [s \in SessionIds |-> [a \in Activities |-> 0]]
    /\ overwritten = {}

\* One that is opened beside another one of its user is on record, too.
Open(s) ==
    /\ standing[s] = "none"
    /\ standing' = [standing EXCEPT ![s] = "active"]
    /\ overwritten' \in {overwritten, overwritten \cup {s}}
    /\ UNCHANGED credited

Credit(s, A) ==
    /\ standing[s] = "active"
    /\ A \subseteq Nowhere
    /\ credited' = [credited EXCEPT
           ![s] = [a \in Activities |-> IF a \in A THEN 1 ELSE @[a]]]
    /\ UNCHANGED <<standing, overwritten>>

Close(s) ==
    /\ standing[s] = "active"
    /\ standing' = [standing EXCEPT ![s] = "stopped"]
    /\ UNCHANGED <<credited, overwritten>>

Overwrite(s, A, status) ==
    /\ standing[s] # "none"
    /\ standing' = [standing EXCEPT ![s] = status]
    /\ A \subseteq Free(s)
    /\ credited' = [credited EXCEPT
           ![s] = [a \in Activities |-> IF a \in A THEN 1 ELSE 0]]
    /\ overwritten' = overwritten \cup {s}

Next ==
    \E s \in SessionIds :
        \/ Open(s)
        \/ \E A \in SUBSET Activities : Credit(s, A)
        \/ Close(s)
        \/ \E A \in SUBSET Activities, status \in {"active", "stopped"} :
              Overwrite(s, A, status)

Spec == Init /\ [][Next]_ledger
=============================================================================
