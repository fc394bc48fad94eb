----------------------------- MODULE WebBackend -----------------------------
(***************************************************************************)
(* The web backend, backend/chat_backend.py.  Its event handlers run one at *)
(* a time: the eventlet loop is not monkey-patched, so that a handler that  *)
(* waits in recv() holds it.  Each login gets a TCP connection to the chat  *)
(* server and a thread, tcp_receiver, which runs beside the handlers and    *)
(* shares active_connections with them under connection_lock.               *)
(*                                                                         *)
(* A member of Tcp is a connection and the session_id made for it.  The     *)
(* chat server behind it (ChatServer) is external here.                     *)
(*                                                                         *)
(* Bound: MaxSays messages of the server, replies apart.                     *)
(***************************************************************************)
EXTENDS WebSocket

CONSTANT MaxSays
ASSUME SaysAssumption == MaxSays \in Nat

VARIABLES
    loop,               \* the handler that runs: where it is, and for whom
    session,            \* session['session_id'] of each web connection
    active,             \* active_connections: the keys
    owner,              \* the web connection a TCP connection was made for
    account,            \* the name it logged in with
    sock,               \* tcp_sock: "none", "open", "closed"
    rpc,                \* its tcp_receiver: "off", "recv", "cleanup", "done"
    connectionActive,   \* connection_active in tcp_receiver
    srv,                \* the server's end of the connection
    rx,                 \* what it sent and recv() has not returned
    says,               \* messages sent by it, for the bound
    spoken              \* ghost: the page each message came from, whom it showed,
                        \* and the connection the message went out over

backendVars == <<loop, session, active, owner, account, sock, rpc,
                 connectionActive, srv, rx, says, spoken>>

Idle == [at |-> "idle", sid |-> NULL, conn |-> NULL, op |-> "none", as |-> NULL]

SrvState == {"none", "accepted", "prompted", "named", "asked", "tried",
             "member", "in", "ended"}

BackendInit ==
    /\ loop = Idle
    /\ session = [s \in Sid |-> NULL] /\ active = {}
    /\ owner   = [t \in Tcp |-> NULL] /\ account = [t \in Tcp |-> NULL]
    /\ sock = [t \in Tcp |-> "none"]  /\ rpc = [t \in Tcp |-> "off"]
    /\ connectionActive = [t \in Tcp |-> TRUE]
    /\ srv = [t \in Tcp |-> "none"]   /\ rx = [t \in Tcp |-> <<>>]
    /\ says = 0 /\ spoken = {}

-----------------------------------------------------------------------------
(* The chat server at the other end (external; see ChatServer).  It prompts *)
(* twice, answers, and sends messages to a member, the first of them maybe  *)
(* before AUTH_SUCCESS.  It may end at any time, and ends when it sees that *)
(* the backend closed.  A socket that a thread waits on in poll() stays     *)
(* open until that returns, whoever called close().                         *)

Put(t, item) == rx' = [rx EXCEPT ![t] = Append(@, item)]
SrvGoes(t, from, to) == srv[t] = from /\ srv' = [srv EXCEPT ![t] = to]

SrvOnly == UNCHANGED <<socketVars, loop, session, active, owner, account, sock,
                       rpc, connectionActive, spoken>>

SrvAnswers(t) ==
    /\ UNCHANGED says
    /\ \/ SrvGoes(t, "accepted", "prompted") /\ Put(t, "USERNAME")
       \/ SrvGoes(t, "named", "asked")       /\ Put(t, "PASSWORD")
       \/ SrvGoes(t, "tried", "member")      /\ UNCHANGED rx
       \/ SrvGoes(t, "member", "in")         /\ Put(t, "AUTH_SUCCESS")
       \/ SrvGoes(t, "tried", "ended")       /\ Put(t, "AUTH_FAILED")
    /\ SrvOnly

SrvSays(t) ==
    /\ srv[t] \in {"member", "in"} /\ says < MaxSays
    /\ says' = says + 1
    /\ Put(t, "chat")
    /\ UNCHANGED srv /\ SrvOnly

SrvStops(t) ==
    /\ srv[t] \notin {"none", "ended"}
    /\ srv' = [srv EXCEPT ![t] = "ended"]
    /\ UNCHANGED <<rx, says>> /\ SrvOnly

SrvSeesClose(t) ==
    /\ sock[t] = "closed" /\ rpc[t] # "recv" /\ srv[t] # "ended"
    /\ srv' = [srv EXCEPT ![t] = "ended"]
    /\ UNCHANGED <<rx, says>> /\ SrvOnly

-----------------------------------------------------------------------------
(* The event loop takes the next event of a web connection.                 *)

Takes(s, op) == /\ loop = Idle /\ events[s] # <<>> /\ Head(events[s]).op = op
                /\ events' = [events EXCEPT ![s] = Tail(@)]

NoTcp == UNCHANGED <<owner, account, sock, rpc, connectionActive, srv, rx, says>>

\* mutant: returns without an answer
LoginMute(s) ==
    /\ Takes(s, "login")
    /\ UNCHANGED <<web, emits, loop, session, active, spoken>> /\ NoTcp

\* handle_login, credentials not in DEMO_USERS or no server to connect to
LoginRefused(s) ==
    /\ Takes(s, "login") /\ Emit(s, Notice("refused"))
    /\ UNCHANGED <<web, loop, session, active, spoken>> /\ NoTcp

\* handle_login: connect_to_tcp_server
LoginConnects(s, t) ==
    /\ Takes(s, "login")
    /\ sock[t] = "none" /\ \A u \in 1 .. t - 1 : sock[u] # "none"
    /\ sock' = [sock EXCEPT ![t] = "open"] /\ srv' = [srv EXCEPT ![t] = "accepted"]
    /\ owner' = [owner EXCEPT ![t] = s]
    /\ account' = [account EXCEPT ![t] = Head(events[s]).user]
    /\ loop' = [Idle EXCEPT !.at = "USERNAME", !.sid = s, !.conn = t]
    /\ UNCHANGED <<web, emits, session, active, rpc, connectionActive, rx, says, spoken>>

\* recv_until finds the text and leaves out of the buffer what came with it.
Finds(t, text) ==
    \E i \in DOMAIN rx[t] : /\ rx[t][i] = text
                            /\ \E k \in i .. Len(rx[t]) :
                                  rx' = [rx EXCEPT ![t] = SubSeq(@, k + 1, Len(@))]

\* It returns without the text: the time is up, or the server has closed.
GivesUp(t, text) == \A i \in DOMAIN rx[t] : rx[t][i] # text

\* The prompt came: send the name, the password.
LoginPrompted ==
    /\ loop.at \in {"USERNAME", "PASSWORD"} /\ Finds(loop.conn, loop.at)
    /\ \/ /\ srv[loop.conn] \in {"prompted", "asked"}
          /\ srv' = [srv EXCEPT ![loop.conn] = IF @ = "prompted" THEN "named" ELSE "tried"]
       \/ srv[loop.conn] = "ended" /\ UNCHANGED srv
    /\ loop' = [loop EXCEPT !.at = IF @ = "USERNAME" THEN "PASSWORD" ELSE "AUTH_SUCCESS"]
    /\ UNCHANGED <<web, events, emits, session, active, owner, account, sock,
                   rpc, connectionActive, says, spoken>>

\* AUTH_SUCCESS: session and active_connections
LoginStores ==
    /\ loop.at = "AUTH_SUCCESS" /\ Finds(loop.conn, "AUTH_SUCCESS")
    /\ session' = [session EXCEPT ![loop.sid] = loop.conn]
    /\ active' = active \cup {loop.conn}

\* The receiver is started.
LoginStarts ==
    /\ LoginStores
    /\ rpc' = [rpc EXCEPT ![loop.conn] = "recv"]
    /\ loop' = [loop EXCEPT !.at = "welcome"]
    /\ UNCHANGED <<web, events, emits, owner, account, sock, connectionActive,
                   srv, says, spoken>>

\* start() raises: close and tell.  The entry and session_id stay.
LoginStartFails ==
    /\ LoginStores
    /\ sock' = [sock EXCEPT ![loop.conn] = "closed"]
    /\ Emit(loop.sid, Notice("refused")) /\ loop' = Idle
    /\ UNCHANGED <<web, events, owner, account, rpc, connectionActive, srv, says,
                   spoken>>

LoginWelcomes ==
    /\ loop.at = "welcome"
    /\ Emit(loop.sid, [Notice("welcome") EXCEPT !.user = account[loop.conn]])
    /\ loop' = Idle
    /\ UNCHANGED <<web, events, session, active, spoken>> /\ NoTcp

\* No prompt, AUTH_FAILED or no answer, or a send that fails: close and tell.
LoginFails ==
    /\ loop.at \in {"USERNAME", "PASSWORD", "AUTH_SUCCESS"}
    /\ \/ GivesUp(loop.conn, loop.at)
       \/ srv[loop.conn] = "ended" /\ loop.at # "AUTH_SUCCESS"
    /\ sock' = [sock EXCEPT ![loop.conn] = "closed"]
    /\ Emit(loop.sid, Notice("refused")) /\ loop' = Idle
    /\ UNCHANGED <<web, events, session, active, owner, account, rpc,
                   connectionActive, srv, rx, says, spoken>>

\* mutant: one session for all the web connections of a browser
LookUpShared(s, op) ==
    /\ op \in {"send", "private", "list"} /\ Takes(s, op)
    /\ \E r \in Sid : /\ session[r] \in active
                     /\ loop' = [at |-> "write", sid |-> s, conn |-> session[r],
                                 op |-> op, as |-> Head(events[s]).as]
    /\ UNCHANGED <<web, emits, session, active, spoken>> /\ NoTcp

\* handle_send_message, handle_send_private_message, handle_request_user_list:
\* look the connection up under the lock, without it tell the page.
LookUp(s, op) ==
    /\ op \in {"send", "private", "list"} /\ Takes(s, op)
    /\ IF session[s] \in active
       THEN /\ loop' = [at |-> "write", sid |-> s, conn |-> session[s], op |-> op,
                        as |-> Head(events[s]).as]
            /\ UNCHANGED emits
       ELSE Emit(s, Notice("error")) /\ UNCHANGED loop
    /\ UNCHANGED <<web, session, active, spoken>> /\ NoTcp

Spoke(t) == spoken' = spoken \cup {[sid |-> loop.sid, as |-> loop.as, conn |-> t]}

\* sendall, after the lock: the receiver may have closed the socket since, the
\* server may be gone or read nothing for 30 seconds.
Write ==
    LET t == loop.conn
    IN  /\ loop.at = "write" /\ loop' = Idle /\ UNCHANGED says
        /\ \/ /\ sock[t] = "open" /\ srv[t] = "in"
              /\ IF loop.op = "list" THEN Put(t, "list") /\ UNCHANGED spoken
                 ELSE Spoke(t) /\ UNCHANGED rx
              /\ UNCHANGED emits
           \/ sock[t] = "open" /\ srv[t] = "ended" /\ UNCHANGED <<emits, rx, spoken>>
           \/ Emit(loop.sid, Notice("error")) /\ UNCHANGED <<rx, spoken>>
        /\ UNCHANGED <<web, events, session, active, owner, account, sock, rpc,
                       connectionActive, srv>>

KeepEntry(t)   == sock' = [sock EXCEPT ![t] = "closed"] /\ UNCHANGED active  \* mutant
ForgetEntry(t) == active' = active \ {t} /\ UNCHANGED sock                   \* mutant

\* close and del, under the lock, of a session that is still there
Drop(t) ==
    IF t \in active
    THEN sock' = [sock EXCEPT ![t] = "closed"] /\ active' = active \ {t}
    ELSE UNCHANGED <<sock, active>>

\* handle_disconnect
Disconnect(s) ==
    /\ Takes(s, "disconnect") /\ Drop(session[s])
    /\ UNCHANGED <<web, emits, loop, session, owner, account, rpc,
                   connectionActive, srv, rx, says, spoken>>

-----------------------------------------------------------------------------
(* tcp_receiver.  A recv() that waits 30 seconds in vain goes on waiting.   *)

\* recv() returns the first k messages as one text: a list when it begins
\* with USERLIST, else one chat message.
Forward(t) ==
    /\ rpc[t] = "recv" /\ sock[t] = "open" /\ rx[t] # <<>>
    /\ \E k \in DOMAIN rx[t] :
          /\ Emit(owner[t], IF rx[t][1] = "list" THEN Notice("users")
                            ELSE [Notice("chat") EXCEPT !.from = t,
                                                        !.parts = SubSeq(rx[t], 1, k)])
          /\ rx' = [rx EXCEPT ![t] = SubSeq(@, k + 1, Len(@))]
    /\ UNCHANGED <<web, events, loop, session, active, owner, account, sock, rpc,
                   connectionActive, srv, says, spoken>>

\* The server has closed, or somebody here has: connection_active = False.
ReceiverEnds(t) ==
    /\ rpc[t] = "recv"
    /\ sock[t] = "closed" \/ (srv[t] = "ended" /\ rx[t] = <<>>)
    /\ rpc' = [rpc EXCEPT ![t] = "cleanup"]
    /\ connectionActive' = [connectionActive EXCEPT ![t] = FALSE]
    /\ UNCHANGED <<socketVars, loop, session, active, owner, account, sock, srv,
                   rx, says, spoken>>

\* finally: clean up, and tell the page if connection_active.
Cleanup(t) ==
    /\ rpc[t] = "cleanup" /\ rpc' = [rpc EXCEPT ![t] = "done"]
    /\ Drop(t)
    /\ IF connectionActive[t] THEN Emit(owner[t], Notice("lost")) ELSE UNCHANGED emits
    /\ UNCHANGED <<web, events, loop, session, owner, account, connectionActive,
                   srv, rx, says, spoken>>

EventLoop ==
    \/ \E s \in Sid : \/ LoginRefused(s) \/ \E t \in Tcp : LoginConnects(s, t)
                      \/ \E op \in Ops : LookUp(s, op)
                      \/ Disconnect(s)
    \/ LoginPrompted \/ LoginStarts \/ LoginStartFails \/ LoginWelcomes \/ LoginFails
    \/ Write

Receiver(t) == Forward(t) \/ ReceiverEnds(t) \/ Cleanup(t)
Server(t)   == SrvAnswers(t) \/ SrvSays(t) \/ SrvStops(t) \/ SrvSeesClose(t)
=============================================================================
