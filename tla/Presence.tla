------------------------------ MODULE Presence ------------------------------
(***************************************************************************)
(* EventsGateway, EventsService and WsJwtGuard (websocket/): the sockets   *)
(* of one process, the rooms they join and the events sent to the rooms.   *)
(*                                                                         *)
(* handleConnection carries @UseGuards(WsJwtGuard).  NestJS runs guards    *)
(* for message handlers (@SubscribeMessage) and not for the methods of     *)
(* OnGatewayConnection and OnGatewayDisconnect, so the guard, which alone  *)
(* writes client.data.user, has not run when handleConnection reads it.    *)
(* What the gateway does for a socket it has let in is translated all the  *)
(* same, so that the module needs no change when the guard's check moves   *)
(* to where NestJS runs it.                                                *)
(***************************************************************************)
CONSTANTS
    Sockets,  \* bound: the connections that are made
    Users,
    OrgOf,    \* OrgOf[u]: the organization of u
    None

VARIABLES
    conn,     \* of each socket: new, handshake, open, closed or refused
    token,    \* the user its handshake has a valid token of
    user,     \* client.data.user
    joined,   \* has it joined the rooms of its user and his organization?
    awaits,   \* the handler that awaits getActiveSession for it: connect, request
    heard     \* the events it has been sent

pvars == <<conn, token, user, joined, awaits, heard>>

PresenceInit ==
    /\ conn = [k \in Sockets |-> "new"]
    /\ token = [k \in Sockets |-> None]
    /\ user = [k \in Sockets |-> None]
    /\ joined = [k \in Sockets |-> FALSE]
    /\ awaits = [k \in Sockets |-> "nothing"]
    /\ heard = [k \in Sockets |-> {}]

-----------------------------------------------------------------------------
\* The sockets in the rooms user:u and org:o.
UserRoom(u) == {k \in Sockets : joined[k] /\ user[k] = u}
OrgRoom(o) == {k \in Sockets : joined[k] /\ OrgOf[user[k]] = o}

\* server.to(room).emit(event)
Sent(K, event) == [k \in Sockets |-> IF k \in K THEN heard[k] \cup {event} ELSE heard[k]]

\* A client connects, with a valid token of u or without one.
Connect(k, u) ==
    /\ conn[k] = "new"
    /\ conn' = [conn EXCEPT ![k] = "handshake"]
    /\ token' = [token EXCEPT ![k] = u]
    /\ UNCHANGED <<user, joined, awaits, heard>>

\* handleConnection, up to its query
HandleConnection(k) ==
    /\ conn[k] = "handshake"
    /\ \/ /\ user[k] = None
          /\ conn' = [conn EXCEPT ![k] = "refused"]
          /\ UNCHANGED <<joined, awaits, heard>>
       \/ /\ user[k] # None
          /\ conn' = [conn EXCEPT ![k] = "open"]
          /\ joined' = [joined EXCEPT ![k] = TRUE]
          /\ heard' = Sent({k} \cup OrgRoom(OrgOf[user[k]]), <<"user:online", user[k]>>)
          /\ awaits' = [awaits EXCEPT ![k] = "connect"]
    /\ UNCHANGED <<token, user>>

\* handleSessionStateRequest, up to its query: the guard finds the user of the
\* token; without one the client is sent an exception.  Bound: one request of a
\* socket at a time.
RequestState(k) ==
    /\ conn[k] = "open"
    /\ awaits[k] = "nothing"
    /\ token[k] # None
    /\ user' = [user EXCEPT ![k] = token[k]]
    /\ awaits' = [awaits EXCEPT ![k] = "request"]
    /\ UNCHANGED <<conn, token, joined, heard>>

\* getActiveSession has found a session or not; on connection nothing is sent
\* for none.
SendState(k, found) ==
    /\ awaits[k] # "nothing"
    /\ heard' = IF conn[k] = "open" /\ (found \/ awaits[k] = "request")
                THEN Sent({k}, <<"session:state", found>>)
                ELSE heard
    /\ awaits' = [awaits EXCEPT ![k] = "nothing"]
    /\ UNCHANGED <<conn, token, user, joined>>

\* The query fails: handleConnection disconnects the client.
StateFails(k) ==
    /\ awaits[k] = "connect"
    /\ conn[k] = "open"
    /\ conn' = [conn EXCEPT ![k] = "closed"]
    /\ joined' = [joined EXCEPT ![k] = FALSE]
    /\ awaits' = [awaits EXCEPT ![k] = "nothing"]
    /\ heard' = Sent(OrgRoom(OrgOf[user[k]]) \ {k}, <<"user:offline", user[k]>>)
    /\ UNCHANGED <<token, user>>

\* The query of handleSessionStateRequest fails, and nothing in the handler
\* catches it: the client is sent an exception and stays.
RequestFails(k) ==
    /\ awaits[k] = "request"
    /\ awaits' = [awaits EXCEPT ![k] = "nothing"]
    /\ UNCHANGED <<conn, token, user, joined, heard>>

\* The client goes; handleDisconnect
HandleDisconnect(k) ==
    /\ conn[k] = "open"
    /\ conn' = [conn EXCEPT ![k] = "closed"]
    /\ joined' = [joined EXCEPT ![k] = FALSE]
    /\ heard' = IF user[k] = None THEN heard
                ELSE Sent(OrgRoom(OrgOf[user[k]]) \ {k}, <<"user:offline", user[k]>>)
    /\ UNCHANGED <<token, user, awaits>>

\* emitInactiveAlert, emitOvertimeAlert
Alert(u, event) ==
    /\ heard' = Sent(UserRoom(u), <<event, u>>)
    /\ UNCHANGED <<conn, token, user, joined, awaits>>

PresenceNext ==
    \/ \E k \in Sockets :
          \/ \E u \in Users \cup {None} : Connect(k, u)
          \/ HandleConnection(k)
          \/ RequestState(k)
          \/ \E found \in BOOLEAN : SendState(k, found)
          \/ StateFails(k)
          \/ RequestFails(k)
          \/ HandleDisconnect(k)
    \/ \E u \in Users, event \in {"alert:inactive", "alert:overtime"} : Alert(u, event)

PresenceSpec == PresenceInit /\ [][PresenceNext]_pvars

-----------------------------------------------------------------------------
(***************************************************************************)
(* A client that presents a valid token is let in ("WebSocket connections  *)
(* also require JWT", README.md).                                          *)
(***************************************************************************)
ValidTokenIsAdmitted == \A k \in Sockets : conn[k] = "refused" => token[k] = None
=============================================================================
