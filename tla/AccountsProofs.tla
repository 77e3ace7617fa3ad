--------------------------- MODULE AccountsProofs ---------------------------
(***************************************************************************)
(* Theorems about Accounts, for every number of requests, emails,          *)
(* passwords and founders, however handlers interleave, fail or are cut    *)
(* off.                                                                    *)
(***************************************************************************)
EXTENDS Accounts, TLAPS

-----------------------------------------------------------------------------
(* The invariant. *)

\* A request that will change no table any more.
Settled == {"reply"} \cup Done

\* A handler is at queries of its own operation, and a checked token is of a user.
Control ==
    \A r \in Requests :
        /\ pc[r] = "new" => result[r] = {}
        /\ pc[r] \in {"organization", "existing", "insert"} => ask[r].op = "register"
        /\ pc[r] = "credentials" => ask[r].op = "login"
        /\ pc[r] = "token" => ask[r].op \in Guarded
        /\ pc[r] \in Guarded => ask[r].op = pc[r]
        /\ pc[r] \in {"token"} \cup Guarded => ask[r].by \in users

\* Rows belong to requests that are through, and an answer speaks of rows.
Rows ==
    /\ \A u \in users : pc[u] \in Settled
    /\ \A q \in projects : pc[q] \in Settled
    /\ \A r \in Requests :
          /\ pc[r] \in {"reply", "ok"} /\ ask[r].op = "register" => r \in users
          /\ pc[r] \in {"reply", "ok"} /\ ask[r].op = "create" => r \in projects
          /\ ask[r].op \in Guarded \/ result[r] \subseteq users

\* Nobody else has the id of an organization before its registration is through.
Private ==
    \A o, q \in Requests : pc[o] \notin Settled /\ q # o => org[q] # o

\* What a registration carries as organization_id.
Carries ==
    \A r \in Requests :
        /\ pc[r] = "organization" => ask[r].org = None
        /\ pc[r] \in {"existing", "insert"} =>
              \/ ask[r].org = None /\ org[r] = r
              \/ ask[r].org # None /\ org[r] = ask[r].org

\* An organization is that of its registration, and has a user or none yet.
Owned ==
    \A o \in organizations :
        /\ pc[o] \in {"existing", "insert"} \cup Settled
        /\ org[o] = o
        /\ \/ \E u \in users : org[u] = o
           \/ pc[o] \in {"existing", "insert", "SYSTEM_INTERNAL_ERROR", "lost"}

\* LoginIsThatUser, with the answer that is not sent yet.
LoginFound ==
    \A r \in Requests : pc[r] \in {"reply", "ok"} /\ ask[r].op = "login" =>
        \E u \in users :
            /\ result[r] = {u}
            /\ ask[u].email = ask[r].email
            /\ ask[u].password = ask[r].password
            /\ ask[r].org \in {None, org[u]}

AccountsInv ==
    /\ AccountsTypeOK
    /\ Control
    /\ Rows
    /\ Private
    /\ Carries
    /\ Owned
    /\ OneUserPerEmail
    /\ ConflictIsReal
    /\ LoginFound

-----------------------------------------------------------------------------
(* Lemmas. *)

\* The codes of the exceptions that are thrown.
LEMMA Codes ==
    /\ ErrorCode(400) = "VALIDATION_FAILED"
    /\ ErrorCode(401) = "AUTH_INVALID_TOKEN"
    /\ ErrorCode(403) = "AUTH_INSUFFICIENT_PERMISSIONS"
    /\ ErrorCode(409) = "AUTH_USER_EXISTS"
    /\ ErrorCode(500) = "SYSTEM_INTERNAL_ERROR"
BY DEF ErrorCode

\* Whoever holds a token is a user.
LEMMA HoldersAreUsers ==
    ASSUME Rows
    PROVE  TokenHolders \subseteq users
BY DEF Rows, TokenHolders, Guarded

\* The initial states satisfy the invariant.
LEMMA AccountsInitOK ==
    AccountsInit => AccountsInv
<1> SUFFICES ASSUME AccountsInit
             PROVE  AccountsInv
  OBVIOUS
<1> USE AccountsAssumption
<1> USE DEF AccountsInit
<1>1. AccountsTypeOK
  BY DEF AccountsTypeOK, Ask, NoAsk, RegisterDto, Roles, Organizations, Done
<1>2. Control /\ Rows
  BY DEF Control, Rows, Settled, Done, Guarded, NoAsk, RegisterDto
<1>3. Private /\ Carries /\ Owned
  BY DEF Private, Carries, Owned, Settled, Done
<1>4. OneUserPerEmail
  BY DEF OneUserPerEmail
<1>5. ConflictIsReal /\ LoginFound
  BY DEF ConflictIsReal, LoginFound, NoAsk, RegisterDto
<1> QED
  BY <1>1, <1>2, <1>3, <1>4, <1>5 DEF AccountsInv

-----------------------------------------------------------------------------
(* The steps. *)

\* register, up to its first query.
LEMMA RegisterOK ==
    ASSUME AccountsInv,
           NEW r \in Requests,
           NEW b \in Ask,
           b.op = "register",
           b.org \in {org[u] : u \in users} \cup {None, Elsewhere},
           NEW named \in BOOLEAN,
           Register(r, b, named)
    PROVE  AccountsInv'
<1> USE AccountsAssumption, Codes DEF AccountsInv, Register, Comes, Goes
<1>1. AccountsTypeOK'
  BY DEF AccountsTypeOK, InFlightAt, Queries, Guarded, Done, ErrorCodes, Organizations
<1>2. Control'
  BY DEF Control, Rows, AccountsTypeOK, Guarded, Done, ErrorCodes
<1>3. Rows'
  BY DEF Rows, Control, AccountsTypeOK, Settled, Guarded, Done, ErrorCodes
<1>4. Private'
  BY DEF Private, Rows, Control, AccountsTypeOK, Settled, Guarded, Done, ErrorCodes
<1>5. Carries'
  BY DEF Carries, Control, AccountsTypeOK, Guarded, Done, ErrorCodes
<1>6. Owned'
  BY DEF Owned, Rows, Carries, AccountsTypeOK, Settled, Guarded, Done, ErrorCodes
<1>7. OneUserPerEmail'
  BY DEF OneUserPerEmail, Rows, AccountsTypeOK, Settled, Done, ErrorCodes
<1>8. ConflictIsReal'
  BY DEF ConflictIsReal, Rows, AccountsTypeOK, Settled, Guarded, Done, ErrorCodes
<1>9. LoginFound'
  BY DEF LoginFound, Rows, Control, AccountsTypeOK, Settled, Guarded, Done, ErrorCodes
<1> QED
  BY <1>1, <1>2, <1>3, <1>4, <1>5, <1>6, <1>7, <1>8, <1>9

\* login, up to its query.
LEMMA LoginOK ==
    ASSUME AccountsInv,
           NEW r \in Requests,
           NEW b \in Ask,
           b.op = "login",
           Comes(r, b, "credentials"),
           UNCHANGED org
    PROVE  AccountsInv'
<1> USE AccountsAssumption, Codes DEF AccountsInv, Comes, Goes
<1>1. AccountsTypeOK'
  BY DEF AccountsTypeOK, InFlightAt, Queries, Guarded, Done, ErrorCodes, Organizations
<1>2. Control'
  BY DEF Control, Rows, AccountsTypeOK, Guarded, Done, ErrorCodes
<1>3. Rows'
  BY DEF Rows, Control, AccountsTypeOK, Settled, Guarded, Done, ErrorCodes
<1>4. Private'
  BY DEF Private, Rows, Control, AccountsTypeOK, Settled, Guarded, Done, ErrorCodes
<1>5. Carries'
  BY DEF Carries, Control, AccountsTypeOK, Guarded, Done, ErrorCodes
<1>6. Owned'
  BY DEF Owned, Rows, Carries, AccountsTypeOK, Settled, Guarded, Done, ErrorCodes
<1>7. OneUserPerEmail'
  BY DEF OneUserPerEmail, Rows, AccountsTypeOK, Settled, Done, ErrorCodes
<1>8. ConflictIsReal'
  BY DEF ConflictIsReal, Rows, AccountsTypeOK, Settled, Guarded, Done, ErrorCodes
<1>9. LoginFound'
  BY DEF LoginFound, Rows, Control, AccountsTypeOK, Settled, Guarded, Done, ErrorCodes
<1> QED
  BY <1>1, <1>2, <1>3, <1>4, <1>5, <1>6, <1>7, <1>8, <1>9

\* A request with a token.
LEMMA CallOK ==
    ASSUME AccountsInv,
           NEW r \in Requests,
           NEW b \in Ask,
           b.op \in Guarded,
           b.by \in users \cup {None},
           Call(r, b)
    PROVE  AccountsInv'
<1> USE AccountsAssumption, Codes DEF AccountsInv, Call, Comes, Goes
<1>1. AccountsTypeOK'
  BY DEF AccountsTypeOK, InFlightAt, Queries, Guarded, Done, ErrorCodes, Organizations
<1>2. Control'
  BY DEF Control, Rows, AccountsTypeOK, Guarded, Done, ErrorCodes
<1>3. Rows'
  BY DEF Rows, Control, AccountsTypeOK, Settled, Guarded, Done, ErrorCodes
<1>4. Private'
  BY DEF Private, Rows, Control, AccountsTypeOK, Settled, Guarded, Done, ErrorCodes
<1>5. Carries'
  BY DEF Carries, Control, AccountsTypeOK, Guarded, Done, ErrorCodes
<1>6. Owned'
  BY DEF Owned, Rows, Carries, AccountsTypeOK, Settled, Guarded, Done, ErrorCodes
<1>7. OneUserPerEmail'
  BY DEF OneUserPerEmail, Rows, AccountsTypeOK, Settled, Done, ErrorCodes
<1>8. ConflictIsReal'
  BY DEF ConflictIsReal, Rows, AccountsTypeOK, Settled, Guarded, Done, ErrorCodes
<1>9. LoginFound'
  BY DEF LoginFound, Rows, Control, AccountsTypeOK, Settled, Guarded, Done, ErrorCodes
<1> QED
  BY <1>1, <1>2, <1>3, <1>4, <1>5, <1>6, <1>7, <1>8, <1>9

\* SaveOrganization keeps the invariant.
LEMMA SaveOrganizationOK ==
    ASSUME AccountsInv,
           NEW r \in Requests,
           SaveOrganization(r)
    PROVE  AccountsInv'
<1> USE AccountsAssumption, Codes DEF AccountsInv, SaveOrganization, Goes
<1>1. AccountsTypeOK'
  BY DEF AccountsTypeOK, InFlightAt, Queries, Guarded, Done, ErrorCodes, Organizations
<1>2. Control'
  BY DEF Control, Rows, AccountsTypeOK, Guarded, Done, ErrorCodes
<1>3. Rows'
  BY DEF Rows, Control, AccountsTypeOK, Settled, Guarded, Done, ErrorCodes
<1>4. Private'
  BY DEF Private, Rows, Control, AccountsTypeOK, Settled, Guarded, Done, ErrorCodes
<1>5. Carries'
  BY DEF Carries, Control, AccountsTypeOK, Guarded, Done, ErrorCodes
<1>6. Owned'
  BY DEF Owned, Rows, Carries, AccountsTypeOK, Settled, Guarded, Done, ErrorCodes
<1>7. OneUserPerEmail'
  BY DEF OneUserPerEmail, Rows, AccountsTypeOK, Settled, Done, ErrorCodes
<1>8. ConflictIsReal'
  BY DEF ConflictIsReal, Rows, AccountsTypeOK, Settled, Guarded, Done, ErrorCodes
<1>9. LoginFound'
  BY DEF LoginFound, Rows, Control, AccountsTypeOK, Settled, Guarded, Done, ErrorCodes
<1> QED
  BY <1>1, <1>2, <1>3, <1>4, <1>5, <1>6, <1>7, <1>8, <1>9

\* FindExisting keeps the invariant.
LEMMA FindExistingOK ==
    ASSUME AccountsInv,
           NEW r \in Requests,
           FindExisting(r)
    PROVE  AccountsInv'
<1> USE AccountsAssumption, Codes DEF AccountsInv, FindExisting, Throws, UsersOf, Goes
<1>1. AccountsTypeOK'
  BY DEF AccountsTypeOK, InFlightAt, Queries, Guarded, Done, ErrorCodes, Organizations
<1>2. Control'
  BY DEF Control, Rows, AccountsTypeOK, Guarded, Done, ErrorCodes
<1>3. Rows'
  BY DEF Rows, Control, AccountsTypeOK, Settled, Guarded, Done, ErrorCodes
<1>4. Private'
  BY DEF Private, Rows, Control, AccountsTypeOK, Settled, Guarded, Done, ErrorCodes
<1>5. Carries'
  BY DEF Carries, Control, AccountsTypeOK, Guarded, Done, ErrorCodes
<1>6. Owned'
  BY DEF Owned, Rows, Carries, AccountsTypeOK, Settled, Guarded, Done, ErrorCodes
<1>7. OneUserPerEmail'
  BY DEF OneUserPerEmail, Rows, AccountsTypeOK, Settled, Done, ErrorCodes
<1>8. ConflictIsReal'
  BY DEF ConflictIsReal, Rows, AccountsTypeOK, Settled, Guarded, Done, ErrorCodes, Control, Private, Carries, OneUserPerEmail
<1>9. LoginFound'
  BY DEF LoginFound, Rows, Control, AccountsTypeOK, Settled, Guarded, Done, ErrorCodes
<1> QED
  BY <1>1, <1>2, <1>3, <1>4, <1>5, <1>6, <1>7, <1>8, <1>9

\* InsertUser keeps the invariant.
LEMMA InsertUserOK ==
    ASSUME AccountsInv,
           NEW r \in Requests,
           InsertUser(r)
    PROVE  AccountsInv'
<1> USE AccountsAssumption, Codes DEF AccountsInv, InsertUser, Throws, Admitted, UsersOf, Goes
<1>1. AccountsTypeOK'
  BY DEF AccountsTypeOK, InFlightAt, Queries, Guarded, Done, ErrorCodes, Organizations
<1>2. Control'
  BY DEF Control, Rows, AccountsTypeOK, Guarded, Done, ErrorCodes
<1>3. Rows'
  BY DEF Rows, Control, AccountsTypeOK, Settled, Guarded, Done, ErrorCodes
<1>4. Private'
  BY DEF Private, Rows, Control, AccountsTypeOK, Settled, Guarded, Done, ErrorCodes
<1>5. Carries'
  BY DEF Carries, Control, AccountsTypeOK, Guarded, Done, ErrorCodes
<1>6. Owned'
  BY DEF Owned, Rows, Carries, AccountsTypeOK, Settled, Guarded, Done, ErrorCodes
<1>7. OneUserPerEmail'
  BY DEF OneUserPerEmail, Rows, AccountsTypeOK, Settled, Done, ErrorCodes
<1>8. ConflictIsReal'
  BY DEF ConflictIsReal, Rows, AccountsTypeOK, Settled, Guarded, Done, ErrorCodes
<1>9. LoginFound'
  BY DEF LoginFound, Rows, Control, AccountsTypeOK, Settled, Guarded, Done, ErrorCodes
<1> QED
  BY <1>1, <1>2, <1>3, <1>4, <1>5, <1>6, <1>7, <1>8, <1>9

\* FindCredentials keeps the invariant.
LEMMA FindCredentialsOK ==
    ASSUME AccountsInv,
           NEW r \in Requests,
           FindCredentials(r)
    PROVE  AccountsInv'
<1> USE AccountsAssumption, Codes DEF AccountsInv, FindCredentials, Throws, UsersOf, Goes
<1>1. AccountsTypeOK'
  BY DEF AccountsTypeOK, InFlightAt, Queries, Guarded, Done, ErrorCodes, Organizations
<1>2. Control'
  BY DEF Control, Rows, AccountsTypeOK, Guarded, Done, ErrorCodes
<1>3. Rows'
  <2>1. ask[r].op = "login" /\ r \notin users /\ r \notin projects
    BY DEF Control, Rows, Settled, Done, ErrorCodes
  <2>2. /\ UNCHANGED <<users, projects, ask>>
        /\ \A q \in Requests \ {r} : pc'[q] = pc[q] /\ result'[q] = result[q]
    BY DEF AccountsTypeOK
  <2>3. result'[r] \subseteq users \/ result'[r] = result[r]
    BY DEF AccountsTypeOK
  <2> QED
    BY <2>1, <2>2, <2>3 DEF Rows, Guarded, AccountsTypeOK
<1>4. Private'
  BY DEF Private, Rows, Control, AccountsTypeOK, Settled, Guarded, Done, ErrorCodes
<1>5. Carries'
  BY DEF Carries, Control, AccountsTypeOK, Guarded, Done, ErrorCodes
<1>6. Owned'
  BY DEF Owned, Rows, Carries, AccountsTypeOK, Settled, Guarded, Done, ErrorCodes
<1>7. OneUserPerEmail'
  BY DEF OneUserPerEmail, Rows, AccountsTypeOK, Settled, Done, ErrorCodes
<1>8. ConflictIsReal'
  BY DEF ConflictIsReal, Rows, AccountsTypeOK, Settled, Guarded, Done, ErrorCodes
<1>9. LoginFound'
  BY DEF LoginFound, Rows, Control, AccountsTypeOK, Settled, Guarded, Done, ErrorCodes
<1> QED
  BY <1>1, <1>2, <1>3, <1>4, <1>5, <1>6, <1>7, <1>8, <1>9

\* Validate keeps the invariant.
LEMMA ValidateOK ==
    ASSUME AccountsInv,
           NEW r \in Requests,
           Validate(r)
    PROVE  AccountsInv'
<1> USE AccountsAssumption, Codes DEF AccountsInv, Validate, Throws, Goes
<1>1. AccountsTypeOK'
  BY DEF AccountsTypeOK, InFlightAt, Queries, Guarded, Done, ErrorCodes, Organizations, Control
<1>2. Control'
  BY DEF Control, Rows, AccountsTypeOK, Guarded, Done, ErrorCodes
<1>3. Rows'
  BY DEF Rows, Control, AccountsTypeOK, Settled, Guarded, Done, ErrorCodes
<1>4. Private'
  BY DEF Private, Rows, Control, AccountsTypeOK, Settled, Guarded, Done, ErrorCodes
<1>5. Carries'
  BY DEF Carries, Control, AccountsTypeOK, Guarded, Done, ErrorCodes
<1>6. Owned'
  BY DEF Owned, Rows, Carries, AccountsTypeOK, Settled, Guarded, Done, ErrorCodes
<1>7. OneUserPerEmail'
  BY DEF OneUserPerEmail, Rows, AccountsTypeOK, Settled, Done, ErrorCodes
<1>8. ConflictIsReal'
  BY DEF ConflictIsReal, Rows, AccountsTypeOK, Settled, Guarded, Done, ErrorCodes, Control
<1>9. LoginFound'
  BY DEF LoginFound, Rows, Control, AccountsTypeOK, Settled, Guarded, Done, ErrorCodes
<1> QED
  BY <1>1, <1>2, <1>3, <1>4, <1>5, <1>6, <1>7, <1>8, <1>9

\* SaveProject keeps the invariant.
LEMMA SaveProjectOK ==
    ASSUME AccountsInv,
           NEW r \in Requests,
           SaveProject(r)
    PROVE  AccountsInv'
<1> USE AccountsAssumption, Codes DEF AccountsInv, SaveProject, Goes
<1>1. AccountsTypeOK'
  BY DEF AccountsTypeOK, InFlightAt, Queries, Guarded, Done, ErrorCodes, Organizations, Control
<1>2. Control'
  BY DEF Control, Rows, AccountsTypeOK, Guarded, Done, ErrorCodes
<1>3. Rows'
  BY DEF Rows, Control, AccountsTypeOK, Settled, Guarded, Done, ErrorCodes
<1>4. Private'
  BY DEF Private, Rows, Control, AccountsTypeOK, Settled, Guarded, Done, ErrorCodes
<1>5. Carries'
  BY DEF Carries, Control, AccountsTypeOK, Guarded, Done, ErrorCodes
<1>6. Owned'
  BY DEF Owned, Rows, Carries, AccountsTypeOK, Settled, Guarded, Done, ErrorCodes
<1>7. OneUserPerEmail'
  BY DEF OneUserPerEmail, Rows, AccountsTypeOK, Settled, Done, ErrorCodes
<1>8. ConflictIsReal'
  BY DEF ConflictIsReal, Rows, AccountsTypeOK, Settled, Guarded, Done, ErrorCodes
<1>9. LoginFound'
  BY DEF LoginFound, Rows, Control, AccountsTypeOK, Settled, Guarded, Done, ErrorCodes
<1> QED
  BY <1>1, <1>2, <1>3, <1>4, <1>5, <1>6, <1>7, <1>8, <1>9

\* List keeps the invariant.
LEMMA ListOK ==
    ASSUME AccountsInv,
           NEW r \in Requests,
           List(r)
    PROVE  AccountsInv'
<1> USE AccountsAssumption, Codes DEF AccountsInv, List, InOrganization, Goes
<1>1. AccountsTypeOK'
  BY DEF AccountsTypeOK, InFlightAt, Queries, Guarded, Done, ErrorCodes, Organizations
<1>2. Control'
  BY DEF Control, Rows, AccountsTypeOK, Guarded, Done, ErrorCodes
<1>3. Rows'
  BY DEF Rows, Control, AccountsTypeOK, Settled, Guarded, Done, ErrorCodes
<1>4. Private'
  BY DEF Private, Rows, Control, AccountsTypeOK, Settled, Guarded, Done, ErrorCodes
<1>5. Carries'
  BY DEF Carries, Control, AccountsTypeOK, Guarded, Done, ErrorCodes
<1>6. Owned'
  BY DEF Owned, Rows, Carries, AccountsTypeOK, Settled, Guarded, Done, ErrorCodes
<1>7. OneUserPerEmail'
  BY DEF OneUserPerEmail, Rows, AccountsTypeOK, Settled, Done, ErrorCodes
<1>8. ConflictIsReal'
  BY DEF ConflictIsReal, Rows, AccountsTypeOK, Settled, Guarded, Done, ErrorCodes
<1>9. LoginFound'
  BY DEF LoginFound, Rows, Control, AccountsTypeOK, Settled, Guarded, Done, ErrorCodes
<1> QED
  BY <1>1, <1>2, <1>3, <1>4, <1>5, <1>6, <1>7, <1>8, <1>9

\* Reply keeps the invariant.
LEMMA ReplyOK ==
    ASSUME AccountsInv,
           NEW r \in Requests,
           Reply(r)
    PROVE  AccountsInv'
<1> USE AccountsAssumption, Codes DEF AccountsInv, Reply, Goes
<1>1. AccountsTypeOK'
  BY DEF AccountsTypeOK, InFlightAt, Queries, Guarded, Done, ErrorCodes, Organizations
<1>2. Control'
  BY DEF Control, Rows, AccountsTypeOK, Guarded, Done, ErrorCodes
<1>3. Rows'
  BY DEF Rows, Control, AccountsTypeOK, Settled, Guarded, Done, ErrorCodes
<1>4. Private'
  BY DEF Private, Rows, Control, AccountsTypeOK, Settled, Guarded, Done, ErrorCodes
<1>5. Carries'
  BY DEF Carries, Control, AccountsTypeOK, Guarded, Done, ErrorCodes
<1>6. Owned'
  BY DEF Owned, Rows, Carries, AccountsTypeOK, Settled, Guarded, Done, ErrorCodes
<1>7. OneUserPerEmail'
  BY DEF OneUserPerEmail, Rows, AccountsTypeOK, Settled, Done, ErrorCodes
<1>8. ConflictIsReal'
  BY DEF ConflictIsReal, Rows, AccountsTypeOK, Settled, Guarded, Done, ErrorCodes
<1>9. LoginFound'
  BY DEF LoginFound, Rows, Control, AccountsTypeOK, Settled, Guarded, Done, ErrorCodes
<1> QED
  BY <1>1, <1>2, <1>3, <1>4, <1>5, <1>6, <1>7, <1>8, <1>9

\* QueryFails keeps the invariant.
LEMMA QueryFailsOK ==
    ASSUME AccountsInv,
           NEW r \in Requests,
           QueryFails(r)
    PROVE  AccountsInv'
<1> USE AccountsAssumption, Codes DEF AccountsInv, QueryFails, Throws, InFlight, InFlightAt, Queries, Goes
<1>1. AccountsTypeOK'
  BY DEF AccountsTypeOK, InFlightAt, Queries, Guarded, Done, ErrorCodes, Organizations
<1>2. Control'
  BY DEF Control, Rows, AccountsTypeOK, Guarded, Done, ErrorCodes
<1>3. Rows'
  BY DEF Rows, Control, AccountsTypeOK, Settled, Guarded, Done, ErrorCodes
<1>4. Private'
  BY DEF Private, Rows, Control, AccountsTypeOK, Settled, Guarded, Done, ErrorCodes
<1>5. Carries'
  BY DEF Carries, Control, AccountsTypeOK, Guarded, Done, ErrorCodes
<1>6. Owned'
  BY DEF Owned, Rows, Carries, AccountsTypeOK, Settled, Guarded, Done, ErrorCodes
<1>7. OneUserPerEmail'
  BY DEF OneUserPerEmail, Rows, AccountsTypeOK, Settled, Done, ErrorCodes
<1>8. ConflictIsReal'
  BY DEF ConflictIsReal, Rows, AccountsTypeOK, Settled, Guarded, Done, ErrorCodes
<1>9. LoginFound'
  BY DEF LoginFound, Rows, Control, AccountsTypeOK, Settled, Guarded, Done, ErrorCodes
<1> QED
  BY <1>1, <1>2, <1>3, <1>4, <1>5, <1>6, <1>7, <1>8, <1>9

\* A crash keeps the invariant.
LEMMA CrashOK ==
    ASSUME AccountsInv,
           Crash
    PROVE  AccountsInv'
<1> USE AccountsAssumption, Codes DEF AccountsInv, Crash, InFlight, InFlightAt, Queries, Goes
<1>1. AccountsTypeOK'
  BY DEF AccountsTypeOK, InFlightAt, Queries, Guarded, Done, ErrorCodes, Organizations
<1>2. Control'
  BY DEF Control, Rows, AccountsTypeOK, Guarded, Done, ErrorCodes
<1>3. Rows'
  BY DEF Rows, Control, AccountsTypeOK, Settled, Guarded, Done, ErrorCodes
<1>4. Private'
  BY DEF Private, Rows, Control, AccountsTypeOK, Settled, Guarded, Done, ErrorCodes
<1>5. Carries'
  BY DEF Carries, Control, AccountsTypeOK, Guarded, Done, ErrorCodes
<1>6. Owned'
  BY DEF Owned, Rows, Carries, AccountsTypeOK, Settled, Guarded, Done, ErrorCodes
<1>7. OneUserPerEmail'
  BY DEF OneUserPerEmail, Rows, AccountsTypeOK, Settled, Done, ErrorCodes
<1>8. ConflictIsReal'
  BY DEF ConflictIsReal, Rows, AccountsTypeOK, Settled, Guarded, Done, ErrorCodes
<1>9. LoginFound'
  BY DEF LoginFound, Rows, Control, AccountsTypeOK, Settled, Guarded, Done, ErrorCodes
<1> QED
  BY <1>1, <1>2, <1>3, <1>4, <1>5, <1>6, <1>7, <1>8, <1>9


\* A request comes in.
LEMMA ArrivalOK ==
    ASSUME AccountsInv, NEW r \in Requests, Arrival(r)
    PROVE  AccountsInv'
<1>1. TokenHolders \subseteq users /\ users \subseteq Requests
  BY HoldersAreUsers DEF AccountsInv, AccountsTypeOK
<1>2. ASSUME NEW o \in KnownOrganizations \cup {None, Elsewhere}
      PROVE  /\ o \in Organizations
             /\ o \in {org[u] : u \in users} \cup {None, Elsewhere}
  BY <1>1, <1>2 DEF KnownOrganizations, Organizations, AccountsInv, AccountsTypeOK
<1>3. ASSUME NEW o \in KnownOrganizations \cup {None, Elsewhere}, NEW e \in Emails,
             NEW p \in Passwords, NEW role \in Roles, NEW named \in BOOLEAN,
             Register(r, RegisterDto(o, e, p, role), named)
      PROVE  AccountsInv'
  <2> DEFINE b == RegisterDto(o, e, p, role)
  <2>1. b \in Ask
    BY <1>2 DEF RegisterDto, Ask
  <2>2. b.op = "register" /\ b.org = o
    BY DEF RegisterDto
  <2> HIDE DEF b
  <2> QED
    BY <1>2, <1>3, <2>1, <2>2, RegisterOK DEF b
<1>4. ASSUME NEW o \in KnownOrganizations \cup {None, Elsewhere}, NEW e \in Emails,
             NEW p \in Passwords, Comes(r, LoginDto(o, e, p), "credentials"), UNCHANGED org
      PROVE  AccountsInv'
  <2>1. LoginDto(o, e, p) \in Ask
    BY <1>2 DEF LoginDto, Ask
  <2>2. LoginDto(o, e, p).op = "login"
    BY DEF LoginDto
  <2> QED
    BY <1>4, <2>1, <2>2, LoginOK
<1>5. ASSUME NEW op \in Guarded, NEW u \in TokenHolders \cup {None}, Call(r, Bearer(op, u))
      PROVE  AccountsInv'
  <2>1. Bearer(op, u) \in Ask
    <3>1. u \in Requests \cup {None}
      BY <1>1, <1>5
    <3> QED
      BY <1>5, <3>1 DEF Bearer, Ask, Organizations
  <2>2. Bearer(op, u).op = op /\ Bearer(op, u).by = u
    BY DEF Bearer
  <2> QED
    BY <1>1, <1>5, <2>1, <2>2, CallOK
<1> QED
  BY <1>3, <1>4, <1>5 DEF Arrival

\* Nothing changes.
LEMMA StutterOK ==
    ASSUME AccountsInv, UNCHANGED avars
    PROVE  AccountsInv'
<1> USE DEF AccountsInv, avars
<1>1. AccountsTypeOK' /\ Control' /\ Rows'
  BY DEF AccountsTypeOK, Control, Rows
<1>2. Private' /\ Carries' /\ Owned'
  BY DEF Private, Carries, Owned
<1>3. OneUserPerEmail' /\ ConflictIsReal' /\ LoginFound'
  BY DEF OneUserPerEmail, ConflictIsReal, LoginFound
<1> QED
  BY <1>1, <1>2, <1>3

\* Every step keeps the invariant.
LEMMA NextOK ==
    AccountsInv /\ [AccountsNext]_avars => AccountsInv'
<1> SUFFICES ASSUME AccountsInv, [AccountsNext]_avars
             PROVE  AccountsInv'
  OBVIOUS
<1>1. ASSUME NEW r \in Requests, Step(r)
      PROVE  AccountsInv'
  BY <1>1, SaveOrganizationOK, FindExistingOK, InsertUserOK, FindCredentialsOK, ValidateOK,
     SaveProjectOK, ListOK, ReplyOK DEF Step
<1>2. CASE Terminated
  BY <1>2, StutterOK DEF Terminated
<1> QED
  BY <1>1, <1>2, ArrivalOK, QueryFailsOK, CrashOK, StutterOK DEF AccountsNext

\* The invariant holds in every state.
THEOREM AccountsInvariant == AccountsSpec => []AccountsInv
BY AccountsInitOK, NextOK, PTL DEF AccountsSpec

-----------------------------------------------------------------------------
(* The properties. *)

\* Rows, bodies, answers and local variables have their types.
THEOREM TypeCorrect == AccountsSpec => []AccountsTypeOK
<1>1. AccountsInv => AccountsTypeOK
  BY DEF AccountsInv
<1> QED
  BY <1>1, AccountsInvariant, PTL

\* However registrations race, an email has one user in an organization.
THEOREM UniqueEmail == AccountsSpec => []OneUserPerEmail
<1>1. AccountsInv => OneUserPerEmail
  BY DEF AccountsInv
<1> QED
  BY <1>1, AccountsInvariant, PTL

\* Only a failure leaves an organization without a user.
THEOREM NoOrphans == AccountsSpec => []OrphanOnlyOnFailure
<1>1. AccountsInv => OrphanOnlyOnFailure
  BY DEF AccountsInv, Owned, OrphanOnlyOnFailure, InFlightAt, Queries
<1> QED
  BY <1>1, AccountsInvariant, PTL

\* A registration is told that the user exists only if somebody else does.
THEOREM HonestConflicts == AccountsSpec => []ConflictIsReal
<1>1. AccountsInv => ConflictIsReal
  BY DEF AccountsInv
<1> QED
  BY <1>1, AccountsInvariant, PTL

\* A login is answered with a token of the user whose credentials were sent.
THEOREM RightUser == AccountsSpec => []LoginIsThatUser
<1>1. AccountsInv => LoginIsThatUser
  BY DEF AccountsInv, LoginFound, LoginIsThatUser
<1> QED
  BY <1>1, AccountsInvariant, PTL

-----------------------------------------------------------------------------
(* The action properties. *)

\* A handler at a findOne is moved by that findOne, by a failure or by a crash.
LEMMA MovedBy ==
    ASSUME AccountsInv, NEW r \in Requests, AccountsNext, pc'[r] # pc[r],
           pc[r] \in {"credentials", "projects", "employees"}
    PROVE  FindCredentials(r) \/ List(r) \/ pc'[r] \in {"SYSTEM_INTERNAL_ERROR", "lost"}
<1> USE DEF Goes, AccountsInv, AccountsTypeOK
<1>1. ASSUME NEW q \in Requests, Arrival(q)
      PROVE  pc'[r] = pc[r]
  BY <1>1 DEF Arrival, Register, Comes, Call
<1>2. ASSUME NEW q \in Requests, Step(q), q # r
      PROVE  pc'[r] = pc[r]
  BY <1>2 DEF Step, SaveOrganization, FindExisting, InsertUser, FindCredentials, Validate,
     SaveProject, List, Reply, Throws
<1>3. ASSUME Step(r)
      PROVE  FindCredentials(r) \/ List(r)
  BY <1>3 DEF Step, SaveOrganization, FindExisting, InsertUser, Validate, SaveProject, Reply
<1>4. ASSUME NEW q \in Requests, QueryFails(q)
      PROVE  pc'[r] \in {pc[r], "SYSTEM_INTERNAL_ERROR"}
  BY <1>4, Codes DEF QueryFails, Throws
<1>5. CASE Crash
  BY <1>5 DEF Crash
<1>6. CASE Terminated
  BY <1>6 DEF Terminated, avars
<1> QED
  BY <1>1, <1>2, <1>3, <1>4, <1>5, <1>6 DEF AccountsNext

\* Who has been answered "registered" is not refused at login, unless the email
\* belongs to somebody else, too, and the login names no organization.
THEOREM Remembered == AccountsSpec => RegisteredCanLogIn
<1>1. ASSUME AccountsInv, AccountsNext, NEW r \in Requests, NEW u \in Requests,
             pc[r] = "credentials", pc'[r] = "AUTH_INVALID_TOKEN", pc[u] = "ok",
             ask[u].op = "register", ask[u].email = ask[r].email,
             ask[u].password = ask[r].password, ask[r].org \in {None, org[u]}
      PROVE  /\ ask[r].org = None
             /\ \E v \in users : /\ ask[v].email = ask[r].email
                                 /\ ask[v].password # ask[r].password
  <2>1. FindCredentials(r)
    BY <1>1, MovedBy DEF List
  <2>2. u \in UsersOf(ask[r].email, ask[r].org)
    BY <1>1 DEF AccountsInv, Rows, UsersOf
  <2>3. PICK v \in UsersOf(ask[r].email, ask[r].org) : ask[v].password # ask[r].password
    BY <1>1, <2>1, <2>2 DEF FindCredentials, Goes, AccountsInv, AccountsTypeOK
  <2>4. ask[r].org # None => u = v
    BY <1>1, <2>2, <2>3 DEF UsersOf, AccountsInv, OneUserPerEmail
  <2> QED
    BY <1>1, <2>3, <2>4 DEF UsersOf
<1>2. AccountsInv /\ [AccountsNext]_avars =>
        [\A r, u \in Requests :
          /\ pc[r] = "credentials"
          /\ pc'[r] = "AUTH_INVALID_TOKEN"
          /\ pc[u] = "ok"
          /\ ask[u].op = "register"
          /\ ask[u].email = ask[r].email
          /\ ask[u].password = ask[r].password
          /\ ask[r].org \in {None, org[u]}
          => /\ ask[r].org = None
             /\ \E v \in users : /\ ask[v].email = ask[r].email
                                 /\ ask[v].password # ask[r].password]_avars
  BY <1>1
<1> QED
  BY <1>2, AccountsInvariant, PTL DEF AccountsSpec, RegisteredCanLogIn

\* A list shows all rows of the organization that were answered, and no others.
THEOREM CompleteLists == AccountsSpec => ListsAreComplete
<1>1. ASSUME AccountsInv, AccountsNext, NEW r \in Requests,
             pc[r] \in {"projects", "employees"}, pc'[r] = "reply"
      PROVE  LET made == IF pc[r] = "projects" THEN "create" ELSE "register"
                 mine == {q \in Requests : org[q] = org[ask[r].by]}
             IN  /\ {q \in mine : ask[q].op = made /\ pc[q] = "ok"} \subseteq result'[r]
                 /\ result'[r] \subseteq mine
  <2>1. List(r)
    BY <1>1, MovedBy DEF FindCredentials
  <2>2. result'[r] = InOrganization(IF pc[r] = "projects" THEN projects ELSE users,
                                    org[ask[r].by])
    BY <1>1, <2>1 DEF List, AccountsInv, AccountsTypeOK
  <2>3. \A q \in Requests : pc[q] = "ok" =>
            /\ ask[q].op = "create" => q \in projects
            /\ ask[q].op = "register" => q \in users
    BY <1>1 DEF AccountsInv, Rows
  <2>4. projects \subseteq Requests /\ users \subseteq Requests
    BY <1>1 DEF AccountsInv, AccountsTypeOK
  <2> QED
    BY <1>1, <2>2, <2>3, <2>4 DEF InOrganization
<1>2. AccountsInv /\ [AccountsNext]_avars =>
        [\A r \in Requests : pc[r] \in {"projects", "employees"} /\ pc'[r] = "reply" =>
          LET made == IF pc[r] = "projects" THEN "create" ELSE "register"
              mine == {q \in Requests : org[q] = org[ask[r].by]}
          IN  /\ {q \in mine : ask[q].op = made /\ pc[q] = "ok"} \subseteq result'[r]
              /\ result'[r] \subseteq mine]_avars
  BY <1>1
<1> QED
  BY <1>2, AccountsInvariant, PTL DEF AccountsSpec, ListsAreComplete
=============================================================================
