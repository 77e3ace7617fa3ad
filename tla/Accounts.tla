------------------------------ MODULE Accounts ------------------------------
(***************************************************************************)
(* AuthService, ProjectsService and UsersService over the tables           *)
(* organizations, users and projects, with the guards in front of them and *)
(* the exception filter behind them.                                       *)
(*                                                                         *)
(* pc[r] is the query the handler of request r awaits, or its answer:      *)
(*   organization  the INSERT of the new organization of register          *)
(*   existing      the findOne of register                                 *)
(*   insert        the INSERT of the new user (after the hash of his       *)
(*                 password, which is awaited too)                         *)
(*   credentials   the findOne of login (and the compare of the hash)      *)
(*   token         the findOne of JwtStrategy.validate                     *)
(*   create        the INSERT of createProject                             *)
(*   projects, employees   the find of a list                              *)
(*   reply         nothing: the answer is not sent yet                     *)
(* register has no transaction: each INSERT is committed by itself.        *)
(*                                                                         *)
(* The id of a row is the request that inserted it; its columns are in     *)
(* ask and org.  Rows are never changed or deleted.                        *)
(***************************************************************************)
EXTENDS Naturals

CONSTANTS
    Requests,   \* bound: the requests that are made
    Emails,
    Passwords,
    Founders,   \* the registrations answered at the start: id -> <<email, password>>
    None,       \* what a request leaves out, or no token
    Elsewhere   \* an organization_id that is no row's id

ASSUME AccountsAssumption ==
    /\ None \notin Requests
    /\ Elsewhere \notin Requests \cup {None}
    /\ Founders \in [DOMAIN Founders -> Emails \X Passwords]
    /\ DOMAIN Founders \subseteq Requests

VARIABLES
    organizations, users, projects,  \* the ids in the three tables
    pc,
    ask,     \* of each request: its body and token
    org,     \* the organization_id its handler has found or its row carries
    result   \* the ids in its answer

avars == <<organizations, users, projects, pc, ask, org, result>>

Roles == {"admin", "employee"}
Guarded == {"create", "projects", "employees"}
Queries == {"organization", "existing", "insert", "credentials", "token"} \cup Guarded
InFlightAt == Queries \cup {"reply"}
Organizations == Requests \cup {None, Elsewhere}

\* by: the user the token was made for.
Ask == [op       : {"none", "register", "login"} \cup Guarded,
        org      : Organizations,
        email    : Emails \cup {None},
        password : Passwords \cup {None},
        role     : Roles \cup {None},
        by       : Requests \cup {None}]

NoAsk == [op |-> "none", org |-> None, email |-> None, password |-> None,
          role |-> None, by |-> None]

\* The bodies of register and login, and a request with a token of u.
RegisterDto(o, e, p, role) ==
    [op |-> "register", org |-> o, email |-> e, password |-> p, role |-> role, by |-> None]
LoginDto(o, e, p) ==
    [op |-> "login", org |-> o, email |-> e, password |-> p, role |-> None, by |-> None]
Bearer(op, u) ==
    [op |-> op, org |-> None, email |-> None, password |-> None, role |-> None, by |-> u]

\* Those codes of the enum that the filter can answer with.
ErrorCodes == {"AUTH_INVALID_TOKEN", "AUTH_INSUFFICIENT_PERMISSIONS", "AUTH_USER_EXISTS",
               "SESSION_NOT_FOUND", "VALIDATION_FAILED", "SYSTEM_SERVICE_UNAVAILABLE",
               "SYSTEM_INTERNAL_ERROR"}

Done == {"ok", "lost"} \cup ErrorCodes

\* The tables hold rows, and bodies, answers and local variables have their
\* types.
AccountsTypeOK ==
    /\ organizations \subseteq Requests
    /\ users \subseteq Requests
    /\ projects \subseteq Requests
    /\ pc \in [Requests -> {"new"} \cup InFlightAt \cup Done]
    /\ ask \in [Requests -> Ask]
    /\ org \in [Requests -> Organizations]
    /\ result \in [Requests -> SUBSET Requests]

\* Each founder has made an organization of his own.
AccountsInit ==
    /\ organizations = DOMAIN Founders
    /\ users = DOMAIN Founders
    /\ projects = {}
    /\ pc = [r \in Requests |-> IF r \in DOMAIN Founders THEN "ok" ELSE "new"]
    /\ ask = [r \in Requests |->
                  IF r \in DOMAIN Founders
                  THEN RegisterDto(None, Founders[r][1], Founders[r][2], "admin")
                  ELSE NoAsk]
    /\ org = [r \in Requests |-> IF r \in DOMAIN Founders THEN r ELSE None]
    /\ result = [r \in Requests |-> IF r \in DOMAIN Founders THEN {r} ELSE {}]

-----------------------------------------------------------------------------
\* Mutant: the switch has no default.
PartialErrorCode(status) ==
    CASE status = 401 -> "AUTH_INVALID_TOKEN"
      [] status = 403 -> "AUTH_INSUFFICIENT_PERMISSIONS"
      [] status = 409 -> "AUTH_USER_EXISTS"
      [] OTHER        -> "undefined"

\* Mutant: 401 is answered as 409 is.
MisplacedErrorCode(status) ==
    CASE status \in {401, 409} -> "AUTH_USER_EXISTS"
      [] status = 403           -> "AUTH_INSUFFICIENT_PERMISSIONS"
      [] status = 400           -> "VALIDATION_FAILED"
      [] OTHER                  -> "SYSTEM_INTERNAL_ERROR"

\* The code the exception filter answers with; an error that is no HttpException
\* has the status 500.
ErrorCode(status) ==
    CASE status = 401 -> "AUTH_INVALID_TOKEN"
      [] status = 403 -> "AUTH_INSUFFICIENT_PERMISSIONS"
      [] status = 404 -> "SESSION_NOT_FOUND"
      [] status = 409 -> "AUTH_USER_EXISTS"
      [] status = 400 -> "VALIDATION_FAILED"
      [] status = 503 -> "SYSTEM_SERVICE_UNAVAILABLE"
      [] OTHER        -> "SYSTEM_INTERNAL_ERROR"

InFlight == {r \in Requests : pc[r] \in InFlightAt}

\* The users of e, in o only if it is given.
UsersOf(e, o) == {u \in users : ask[u].email = e /\ (o = None \/ org[u] = o)}

\* The users somebody has been given a token for.
TokenHolders ==
    UNION {result[r] : r \in {r \in Requests :
                                 pc[r] = "ok" /\ ask[r].op \in {"register", "login"}}}

\* The organization_ids that clients have been sent.
KnownOrganizations == {org[u] : u \in TokenHolders}

Goes(r, p) == pc' = [pc EXCEPT ![r] = p]

\* The handler throws: an exception with a status, or another error (500).
Throws(r, status) ==
    /\ Goes(r, ErrorCode(status))
    /\ UNCHANGED <<organizations, users, projects, org, result>>

\* A request comes in with body b and is at p.
Comes(r, b, p) ==
    /\ pc[r] = "new"
    /\ Goes(r, p)
    /\ ask' = [ask EXCEPT ![r] = b]
    /\ UNCHANGED <<organizations, users, projects, result>>

-----------------------------------------------------------------------------
\* register, up to its first query; without organization_id a name is needed.
Register(r, b, named) ==
    \/ /\ b.org # None
       /\ Comes(r, b, "existing")
       /\ org' = [org EXCEPT ![r] = b.org]
    \/ /\ b.org = None
       /\ Comes(r, b, IF named THEN "organization" ELSE ErrorCode(400))
       /\ UNCHANGED org

\* register: save(organization)
SaveOrganization(r) ==
    /\ pc[r] = "organization"
    /\ organizations' = organizations \cup {r}
    /\ org' = [org EXCEPT ![r] = r]
    /\ Goes(r, "existing")
    /\ UNCHANGED <<users, projects, ask, result>>

\* Mutant: the email is searched in all organizations.
GlobalFindExisting(r) ==
    /\ pc[r] = "existing"
    /\ \/ /\ UsersOf(ask[r].email, None) # {}
          /\ Throws(r, 409)
       \/ /\ UsersOf(ask[r].email, None) = {}
          /\ Goes(r, "insert")
          /\ UNCHANGED <<organizations, users, projects, org, result>>
    /\ UNCHANGED ask

\* register: findOne of a user with the email in the organization
FindExisting(r) ==
    /\ pc[r] = "existing"
    /\ \/ /\ UsersOf(ask[r].email, org[r]) # {}
          /\ Throws(r, 409)
       \/ /\ UsersOf(ask[r].email, org[r]) = {}
          /\ Goes(r, "insert")
          /\ UNCHANGED <<organizations, users, projects, org, result>>
    /\ UNCHANGED ask

\* Mutant: the index on organization and email is not unique.
NoConstraint(r) == org[r] \in organizations

\* The foreign key and the unique index of users admit the row of r.
Admitted(r) == org[r] \in organizations /\ UsersOf(ask[r].email, org[r]) = {}

\* Mutant: the save of the user is not awaited.
UnawaitedInsertUser(r) ==
    /\ pc[r] = "insert"
    /\ \/ /\ Admitted(r)
          /\ result' = [result EXCEPT ![r] = {r}]
          /\ Goes(r, "ok")
          /\ UNCHANGED <<organizations, users, projects, org>>
       \/ /\ ~Admitted(r)
          /\ Throws(r, 500)
    /\ UNCHANGED ask

\* register: save(user), and the token for the new user
InsertUser(r) ==
    /\ pc[r] = "insert"
    /\ \/ /\ Admitted(r)
          /\ users' = users \cup {r}
          /\ result' = [result EXCEPT ![r] = {r}]
          /\ Goes(r, "reply")
          /\ UNCHANGED <<organizations, projects, org>>
       \/ /\ ~Admitted(r)
          /\ Throws(r, 500)
    /\ UNCHANGED ask

\* Mutant: the password is not compared.
TrustingFindCredentials(r) ==
    /\ pc[r] = "credentials"
    /\ \/ /\ UsersOf(ask[r].email, ask[r].org) = {}
          /\ Throws(r, 401)
       \/ \E u \in UsersOf(ask[r].email, ask[r].org) :
             /\ result' = [result EXCEPT ![r] = {u}]
             /\ Goes(r, "reply")
             /\ UNCHANGED <<organizations, users, projects, org>>
    /\ UNCHANGED ask

\* login: findOne, which takes any of several rows, and the check of the password
FindCredentials(r) ==
    /\ pc[r] = "credentials"
    /\ \/ /\ UsersOf(ask[r].email, ask[r].org) = {}
          /\ Throws(r, 401)
       \/ \E u \in UsersOf(ask[r].email, ask[r].org) :
             \/ /\ ask[u].password # ask[r].password
                /\ Throws(r, 401)
             \/ /\ ask[u].password = ask[r].password
                /\ result' = [result EXCEPT ![r] = {u}]
                /\ Goes(r, "reply")
                /\ UNCHANGED <<organizations, users, projects, org>>
    /\ UNCHANGED ask

-----------------------------------------------------------------------------
\* A request with a token, or without a valid one.
Call(r, b) ==
    /\ Comes(r, b, IF b.by = None THEN ErrorCode(401) ELSE "token")
    /\ UNCHANGED org

\* RolesGuard: has the user the role the handler of r requires?
HasRole(r) == ask[r].op = "employees" => ask[ask[r].by].role = "admin"

\* JwtStrategy.validate finds the user of the token.
Validate(r) ==
    /\ pc[r] = "token"
    /\ \/ /\ ~HasRole(r)
          /\ Throws(r, 403)
       \/ /\ HasRole(r)
          /\ Goes(r, ask[r].op)
          /\ UNCHANGED <<organizations, users, projects, org, result>>
    /\ UNCHANGED ask

\* createProject: save(project)
SaveProject(r) ==
    /\ pc[r] = "create"
    /\ projects' = projects \cup {r}
    /\ org' = [org EXCEPT ![r] = org[ask[r].by]]
    /\ Goes(r, "reply")
    /\ UNCHANGED <<organizations, users, ask, result>>

\* where: { organization_id }
InOrganization(rows, o) == {q \in rows : org[q] = o}

\* Mutant: the list of projects is that of all organizations.
UnfilteredList(r) ==
    /\ pc[r] \in {"projects", "employees"}
    /\ result' = [result EXCEPT ![r] =
           IF pc[r] = "projects" THEN projects ELSE InOrganization(users, org[ask[r].by])]
    /\ Goes(r, "reply")
    /\ UNCHANGED <<organizations, users, projects, ask, org>>

\* getProjects, getEmployeesByOrganization: find
List(r) ==
    /\ pc[r] \in {"projects", "employees"}
    /\ result' = [result EXCEPT ![r] =
           InOrganization(IF pc[r] = "projects" THEN projects ELSE users,
                          org[ask[r].by])]
    /\ Goes(r, "reply")
    /\ UNCHANGED <<organizations, users, projects, ask, org>>

Reply(r) ==
    /\ pc[r] = "reply"
    /\ Goes(r, "ok")
    /\ UNCHANGED <<organizations, users, projects, ask, org, result>>

\* The query fails; at "reply" its COMMIT succeeded and the acknowledgement is
\* what got lost.
QueryFails(r) ==
    /\ r \in InFlight
    /\ Throws(r, 500)
    /\ UNCHANGED ask

\* The container stops and is started again.
Crash ==
    /\ InFlight # {}
    /\ pc' = [r \in Requests |-> IF r \in InFlight THEN "lost" ELSE pc[r]]
    /\ UNCHANGED <<organizations, users, projects, ask, org, result>>

Terminated ==
    /\ \A r \in Requests : pc[r] \in Done
    /\ UNCHANGED avars

Arrival(r) ==
    \/ \E o \in KnownOrganizations \cup {None, Elsewhere}, e \in Emails, p \in Passwords :
          \/ \E role \in Roles, named \in BOOLEAN :
                Register(r, RegisterDto(o, e, p, role), named)
          \/ /\ Comes(r, LoginDto(o, e, p), "credentials")
             /\ UNCHANGED org
    \/ \E op \in Guarded, u \in TokenHolders \cup {None} : Call(r, Bearer(op, u))

Step(r) ==
    \/ SaveOrganization(r)
    \/ FindExisting(r)
    \/ InsertUser(r)
    \/ FindCredentials(r)
    \/ Validate(r)
    \/ SaveProject(r)
    \/ List(r)
    \/ Reply(r)

AccountsNext ==
    \/ \E r \in Requests : Arrival(r) \/ Step(r) \/ QueryFails(r)
    \/ Crash
    \/ Terminated

AccountsSpec == AccountsInit /\ [][AccountsNext]_avars

-----------------------------------------------------------------------------
(***************************************************************************)
(* An email has one user in an organization, although two registrations    *)
(* may both have found none ("Check if user already exists",               *)
(* auth.service.ts).                                                       *)
(***************************************************************************)
OneUserPerEmail ==
    \A u, v \in users : ask[u].email = ask[v].email /\ org[u] = org[v] => u = v

(***************************************************************************)
(* An organization without a user is left only by a registration that      *)
(* failed or was cut off between its two INSERTs: no answered one, with    *)
(* success or with a reason, leaves an organization nobody can enter.      *)
(***************************************************************************)
OrphanOnlyOnFailure ==
    \A o \in organizations :
        \/ \E u \in users : org[u] = o
        \/ pc[o] \in InFlightAt \cup {"SYSTEM_INTERNAL_ERROR", "lost"}

(***************************************************************************)
(* "User already exists in this organization" is said only of a user who   *)
(* does, and never to the founder of a new organization.                   *)
(***************************************************************************)
ConflictIsReal ==
    \A r \in Requests : pc[r] = "AUTH_USER_EXISTS" =>
        /\ ask[r].op = "register"
        /\ ask[r].org # None
        /\ \E u \in users : u # r /\ ask[u].email = ask[r].email /\ org[u] = ask[r].org

(***************************************************************************)
(* A token of login is for a user with the email and the password that     *)
(* were sent, in the organization if one was sent.                         *)
(***************************************************************************)
LoginIsThatUser ==
    \A r \in Requests : pc[r] = "ok" /\ ask[r].op = "login" =>
        \E u \in users :
            /\ result[r] = {u}
            /\ ask[u].email = ask[r].email
            /\ ask[u].password = ask[r].password
            /\ ask[r].org \in {None, org[u]}

(***************************************************************************)
(* Who has been answered "registered" can log in from then on.  The one    *)
(* exception the code leaves: a login without organization_id, when the    *)
(* email has a user with another password in another organization.         *)
(***************************************************************************)
RegisteredCanLogIn ==
    [][\A r, u \in Requests :
          /\ pc[r] = "credentials"
          /\ pc'[r] = "AUTH_INVALID_TOKEN"
          /\ pc[u] = "ok"
          /\ ask[u].op = "register"
          /\ ask[u].email = ask[r].email
          /\ ask[u].password = ask[r].password
          /\ ask[r].org \in {None, org[u]}
          => /\ ask[r].org = None
             /\ \E v \in users : /\ ask[v].email = ask[r].email
                                 /\ ask[v].password # ask[r].password]_avars

(***************************************************************************)
(* A list shows rows of the asker's organization only ("Organization-based *)
(* data isolation", README.md), and every project and colleague that had   *)
(* been answered with success before.                                      *)
(***************************************************************************)
ListsAreComplete ==
    [][\A r \in Requests : pc[r] \in {"projects", "employees"} /\ pc'[r] = "reply" =>
          LET made == IF pc[r] = "projects" THEN "create" ELSE "register"
              mine == {q \in Requests : org[q] = org[ask[r].by]}
          IN  /\ {q \in mine : ask[q].op = made /\ pc[q] = "ok"} \subseteq result'[r]
              /\ result'[r] \subseteq mine]_avars
=============================================================================
