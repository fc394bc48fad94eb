----------------------------- MODULE ChatServer -----------------------------
(***************************************************************************)
(* The chat server, chat_server.c: the main thread that accepts            *)
(* connections, one handler thread per connection (handle_client), the     *)
(* table of clients they share under clients_mutex, the file descriptors   *)
(* of the sockets, and the peers at the other end of the connections.      *)
(*                                                                         *)
(* A member of Conn is one TCP connection and the client_t allocated for   *)
(* it; it connects at most once.  send() goes through the descriptor       *)
(* NUMBER kept in client_t.socket, as in the code: whom the bytes reach is *)
(* decided by the connection that owns that number when send() runs.       *)
(*                                                                         *)
(* Bounds: MAX_FDS descriptors, MaxLines lines typed per connection.       *)
(***************************************************************************)
EXTENDS Integers, Sequences, FiniteSets

CONSTANTS
    Conn,         \* connections
    User,         \* user names of user_db
    NoName,       \* a name that is not in user_db; also a username not yet written
    NULL,         \* no connection
    MAX_CLIENTS,  \* slots of the table clients[]
    MAX_FDS,      \* descriptors left to client sockets
    Typists,      \* the peers that may type lines
    MaxLines,     \* how many each of them types (bound)
    Lines,        \* the lines they may type
    Stallers,     \* the peers that may stop reading their socket
    Leavers       \* the peers that may end their connection

Slot == 0 .. MAX_CLIENTS - 1
Fd   == 1 .. MAX_FDS

\* One line of input as handle_client tells them apart.
Commands == {"blank", "text", "list", "msg", "usage", "help", "unknown"}
Line     == [cmd : Commands, to : User \cup {NoName}]

ASSUME NullAssumption   == NULL \notin Conn /\ NoName \notin User
ASSUME SlotsAssumption  == MAX_CLIENTS \in Nat \ {0}
ASSUME FdsAssumption    == MAX_FDS \in Nat \ {0}
ASSUME LinesAssumption  == MaxLines \in Nat /\ Lines \subseteq Line
ASSUME PeersAssumption  == Typists \cup Stallers \cup Leavers \subseteq Conn

Direct == {"PROMPT", "AUTH_SUCCESS", "AUTH_FAILED", "USERLIST", "CONFIRM",
           "NOTFOUND", "USAGE", "HELP", "UNKNOWN"}  \* server to its own peer
Room   == {"JOIN", "TEXT", "LEAVE"}                 \* send_message_to_all
Kinds  == Direct \cup Room \cup {"PRIVATE"}

\* from: the connection whose handler sent it; n: the number of the
\* send_message_to_all or send_private_message call it belongs to (ghost).
Message == [kind : Kinds, from : Conn, n : Nat, names : Seq(User \cup {NoName})]

PeerState == {"open", "closed", "reset", "broken"}

ThreadPc == {"hello", "user", "ask", "pass", "setauth", "welcome", "deny",
             "recv", "reply", "lock", "scan", "close", "remove"}
Pc       == ThreadPc \cup {"off", "backlog", "main", "gone"}
MainPc   == {"accept", "add", "spawn", "unadd", "undo"}

\* A call a handler is in: of send_message_to_all ("all"), send_user_list
\* ("list"), send_private_message ("one") or send ("reply").
Job   == [op : {"none", "all", "list", "one", "reply"},
          kind : Kinds \cup {"NONE"}, to : User \cup {NoName}, n : Nat]
NoJob == [op |-> "none", kind |-> "NONE", to |-> NoName, n |-> 0]

VARIABLES
    up,             \* the server process is running
    peer,           \* state of the connection as send and recv see it
    full,           \* the peer's receive window is full: send() blocks
    typed,          \* lines the peer has typed
    inq,            \* lines in the server's receive buffer
    out,            \* everything the connection has carried to the peer
    owner,          \* the connection behind each descriptor
    sock,           \* client_t.socket
    clients,        \* clients[]
    client_count,   \* client_count
    id,             \* client_t.id
    username,       \* client_t.username
    authenticated,  \* client_t.authenticated
    pc,             \* where the connection's handler is
    job,            \* the call the handler is in
    mutex,          \* the connection whose handler holds clients_mutex
    idx,            \* loop index of the scan under the mutex
    acc,            \* the list of names send_user_list has built so far
    found,          \* send_private_message: sent
    mainPc,         \* where main() is
    cur,            \* main(): client
    stamp,          \* ghost: broadcasts and private messages begun
    crowd           \* ghost: members of the room when the scan began

peerVars   == <<peer, full, typed, inq>>
fdVars     == <<owner, sock>>
tableVars  == <<clients, client_count, id>>
loginVars  == <<username, authenticated>>
scanVars   == <<mutex, idx, acc, found>>
mainVars   == <<mainPc, cur>>
ghostVars  == <<stamp, crowd>>
vars == <<up, peerVars, out, fdVars, tableVars, loginVars, pc, job, scanVars,
          mainVars, ghostVars>>

Members == {c \in Conn : authenticated[c] /\ \E i \in Slot : clients[i] = c}

Init ==
    /\ up = TRUE
    /\ peer  = [c \in Conn |-> "open"]
    /\ full  = [c \in Conn |-> FALSE]
    /\ typed = [c \in Conn |-> 0]
    /\ inq   = [c \in Conn |-> <<>>]
    /\ out   = [c \in Conn |-> <<>>]
    /\ owner = [f \in Fd |-> NULL]
    /\ sock  = [c \in Conn |-> 0]
    /\ clients = [i \in Slot |-> NULL]
    /\ client_count = 0
    /\ id = [c \in Conn |-> -1]
    /\ username = [c \in Conn |-> NoName]
    /\ authenticated = [c \in Conn |-> FALSE]
    /\ pc  = [c \in Conn |-> "off"]
    /\ job = [c \in Conn |-> NoJob]
    /\ mutex = NULL /\ idx = 0 /\ acc = <<>> /\ found = FALSE
    /\ mainPc = "accept" /\ cur = NULL
    /\ stamp = 0 /\ crowd = {}

-----------------------------------------------------------------------------
(* The peers (external): the clients at the other end of the sockets.      *)

PeerConnect(c) ==
    /\ pc[c] = "off"
    /\ pc' = [pc EXCEPT ![c] = "backlog"]
    /\ UNCHANGED <<up, peerVars, out, fdVars, tableVars, loginVars, job,
                   scanVars, mainVars, ghostVars>>

\* A peer types a line once it has seen AUTH_SUCCESS.
PeerSend(c) ==
    /\ c \in Typists /\ typed[c] < MaxLines
    /\ peer[c] = "open" /\ pc[c] \in ThreadPc
    /\ \E i \in DOMAIN out[c] : out[c][i].kind = "AUTH_SUCCESS"
    /\ \E l \in Lines : inq' = [inq EXCEPT ![c] = Append(@, l)]
    /\ typed' = [typed EXCEPT ![c] = @ + 1]
    /\ UNCHANGED <<up, peer, full, out, fdVars, tableVars, loginVars, pc, job,
                   scanVars, mainVars, ghostVars>>

\* The peer ends the connection: in order (FIN) or by a reset (RST).
PeerClose(c) ==
    /\ c \in Leavers /\ peer[c] = "open" /\ pc[c] \notin {"off", "gone"}
    /\ \E p \in {"closed", "reset"} : peer' = [peer EXCEPT ![c] = p]
    /\ UNCHANGED <<up, full, typed, inq, out, fdVars, tableVars, loginVars, pc,
                   job, scanVars, mainVars, ghostVars>>

\* A peer that had stopped reading reads again, and its window opens.
PeerResume(c) ==
    /\ full[c]
    /\ full' = [full EXCEPT ![c] = FALSE]
    /\ UNCHANGED <<up, peer, typed, inq, out, fdVars, tableVars, loginVars, pc,
                   job, scanVars, mainVars, ghostVars>>

-----------------------------------------------------------------------------
(* The kernel: send() on descriptor f (external).  A closed descriptor      *)
(* fails with EBADF.  A peer that closed in order answers the first bytes   *)
(* with a reset, which arrives at once or later; a reset fails one call     *)
(* with ECONNRESET; after it send() raises SIGPIPE, which the server        *)
(* neither catches nor ignores, and the process dies.  Bytes that fill the  *)
(* window of a peer that stopped reading make the next send() block.        *)

Message0(c, k) == [kind |-> k, from |-> c, n |-> 0, names |-> <<>>]

Deliver(f, m) ==
    LET d == owner[f]
        Now(p) == peer' = [peer EXCEPT ![d] = p]
    IN  \/ /\ d = NULL
           /\ UNCHANGED <<up, peer, full, out>>
        \/ /\ d # NULL /\ peer[d] = "open" /\ ~full[d]
           /\ out' = [out EXCEPT ![d] = Append(@, m)]
           /\ (full' = full) \/ (d \in Stallers /\ full' = [full EXCEPT ![d] = TRUE])
           /\ UNCHANGED <<up, peer>>
        \/ /\ d # NULL /\ peer[d] = "closed"
           /\ Now("closed") \/ Now("broken")
           /\ UNCHANGED <<up, full, out>>
        \/ /\ d # NULL /\ peer[d] = "reset"
           /\ Now("broken")
           /\ UNCHANGED <<up, full, out>>
        \/ /\ d # NULL /\ peer[d] = "broken"
           /\ up' = FALSE
           /\ UNCHANGED <<peer, full, out>>

ZeroMeansSent(f) == FALSE                                          \* mutant

\* The call returns a count of bytes, not -1.
Accepted(f) == owner[f] # NULL /\ peer[owner[f]] \in {"open", "closed"}

-----------------------------------------------------------------------------
(* main(): accept, malloc, add_client, pthread_create.                     *)

MainAccept(c) ==
    /\ mainPc = "accept" /\ pc[c] = "backlog"
    /\ \E f \in Fd : /\ owner[f] = NULL
                     /\ \A g \in 1 .. f - 1 : owner[g] # NULL
                     /\ owner' = [owner EXCEPT ![f] = c]
                     /\ sock' = [sock EXCEPT ![c] = f]
    /\ pc' = [pc EXCEPT ![c] = "main"]
    /\ mainPc' = "add" /\ cur' = c
    /\ UNCHANGED <<up, peerVars, out, tableVars, loginVars, job, scanVars,
                   ghostVars>>

\* malloc() fails: close the socket and go on accepting.
MainNoMemory ==
    /\ mainPc = "add"
    /\ mainPc' = "undo"
    /\ UNCHANGED <<up, peerVars, out, fdVars, tableVars, loginVars, pc, job,
                   scanVars, cur, ghostVars>>

\* add_client finds no free slot.
MainFull ==
    /\ mainPc = "add" /\ mutex = NULL
    /\ \A i \in Slot : clients[i] # NULL
    /\ mainPc' = "undo"
    /\ UNCHANGED <<up, peerVars, out, fdVars, tableVars, loginVars, pc, job,
                   scanVars, cur, ghostVars>>

\* mutant: numbered by the count, not by the slot
RegisterByCount(c, i) ==
    /\ clients' = [clients EXCEPT ![i] = c]
    /\ id' = [id EXCEPT ![c] = client_count]
    /\ client_count' = client_count + 1

\* mutant: not counted
RegisterUncounted(c, i) ==
    /\ clients' = [clients EXCEPT ![i] = c]
    /\ id' = [id EXCEPT ![c] = i]
    /\ UNCHANGED client_count

Register(c, i) ==
    /\ clients' = [clients EXCEPT ![i] = c]
    /\ id' = [id EXCEPT ![c] = i]
    /\ client_count' = client_count + 1

\* add_client: the first free slot, under the mutex.
MainAdd ==
    /\ mainPc = "add" /\ mutex = NULL
    /\ \E i \in Slot : /\ clients[i] = NULL
                       /\ \A j \in 0 .. i - 1 : clients[j] # NULL
                       /\ Register(cur, i)
    /\ mainPc' = "spawn"
    /\ UNCHANGED <<up, peerVars, out, fdVars, loginVars, pc, job, scanVars,
                   cur, ghostVars>>

MainSpawn ==
    /\ mainPc = "spawn"
    /\ pc' = [pc EXCEPT ![cur] = "hello"]
    /\ mainPc' = "accept" /\ cur' = NULL
    /\ UNCHANGED <<up, peerVars, out, fdVars, tableVars, loginVars, job,
                   scanVars, ghostVars>>

\* mutant: the client stays in the table
MainSpawnForgets ==
    /\ mainPc = "spawn"
    /\ mainPc' = "undo"
    /\ UNCHANGED <<up, peerVars, out, fdVars, tableVars, loginVars, pc, job,
                   scanVars, cur, ghostVars>>

MainSpawnFails ==
    /\ mainPc = "spawn"
    /\ mainPc' = "unadd"
    /\ UNCHANGED <<up, peerVars, out, fdVars, tableVars, loginVars, pc, job,
                   scanVars, cur, ghostVars>>

RemoveUncounted(i) ==                                              \* mutant
    mutex = NULL /\ clients' = [clients EXCEPT ![i] = NULL] /\ UNCHANGED client_count

RemoveUnlocked(i) ==                                               \* mutant
    clients' = [clients EXCEPT ![i] = NULL] /\ client_count' = client_count - 1

\* remove_client(i), which takes the mutex for itself.
RemoveClient(i) ==
    /\ mutex = NULL
    /\ clients' = [clients EXCEPT ![i] = NULL]
    /\ client_count' = IF clients[i] # NULL THEN client_count - 1
                                            ELSE client_count

MainRemove ==
    /\ mainPc = "unadd"
    /\ RemoveClient(id[cur])
    /\ mainPc' = "undo"
    /\ UNCHANGED <<up, peerVars, out, fdVars, id, loginVars, pc, job, scanVars,
                   cur, ghostVars>>

LeakSocket(c)  == UNCHANGED owner                                  \* mutant
CloseSocket(c) == owner' = [owner EXCEPT ![sock[c]] = NULL]

\* close(client_socket); free(client)
MainUndo ==
    /\ mainPc = "undo"
    /\ CloseSocket(cur)
    /\ pc' = [pc EXCEPT ![cur] = "gone"]
    /\ mainPc' = "accept" /\ cur' = NULL
    /\ UNCHANGED <<up, peerVars, out, sock, tableVars, loginVars, job,
                   scanVars, ghostVars>>

Main == \/ \E c \in Conn : MainAccept(c)
        \/ MainNoMemory \/ MainFull \/ MainAdd
        \/ MainSpawn \/ MainSpawnFails \/ MainRemove \/ MainUndo

-----------------------------------------------------------------------------
(* handle_client: the credentials.                                          *)

Goto(c, label) == pc' = [pc EXCEPT ![c] = label]
Call(c, j)     == job' = [job EXCEPT ![c] = j]

Broadcast(c, kind) == [op |-> "all", kind |-> kind, to |-> NoName, n |-> 0]
Private(to)        == [op |-> "one", kind |-> "PRIVATE", to |-> to, n |-> 0]
List               == [op |-> "list", kind |-> "NONE", to |-> NoName, n |-> 0]
Answer(kind)       == [op |-> "reply", kind |-> kind, to |-> NoName, n |-> 0]

\* send "USERNAME: " and send "PASSWORD: "
Prompt(c) ==
    /\ pc[c] \in {"hello", "ask"}
    /\ Deliver(sock[c], Message0(c, "PROMPT"))
    /\ Goto(c, IF pc[c] = "hello" THEN "user" ELSE "pass")
    /\ UNCHANGED <<typed, inq, fdVars, tableVars, loginVars, job,
                   scanVars, mainVars, ghostVars>>

\* The answer to the first prompt; which name it is is chosen below.  Answers
\* may have been in the buffer since before the peer ended the connection.
RecvUser(c) ==
    /\ pc[c] = "user"
    /\ Goto(c, "ask")
    /\ UNCHANGED <<up, peerVars, out, fdVars, tableVars, loginVars, job,
                   scanVars, mainVars, ghostVars>>

StoreName(c) ==
    /\ \E u \in User : username' = [username EXCEPT ![c] = u]
    /\ UNCHANGED authenticated
RaiseFlag(c) == authenticated' = [authenticated EXCEPT ![c] = TRUE] /\ UNCHANGED username

\* recv of the password; authenticate_user succeeds.  The name is copied and the
\* flag is raised without the mutex, by plain stores that nothing orders for the
\* other threads: either may be the first they see.  Both are made before the
\* send() that follows, a call that the compiler cannot see through.
RecvPassword(c) ==
    /\ pc[c] = "pass"
    /\ StoreName(c) \/ RaiseFlag(c)
    /\ Goto(c, "setauth")
    /\ UNCHANGED <<up, peerVars, out, fdVars, tableVars, job,
                   scanVars, mainVars, ghostVars>>

\* authenticate_user returns 0: unknown user, wrong password, MD5 failure.
AuthFails(c) ==
    /\ pc[c] = "pass"
    /\ Goto(c, "deny")
    /\ UNCHANGED <<up, peerVars, out, fdVars, tableVars, loginVars, job,
                   scanVars, mainVars, ghostVars>>

\* The other of the two stores.
SetAuthenticated(c) ==
    /\ pc[c] = "setauth"
    /\ IF authenticated[c] THEN StoreName(c) ELSE RaiseFlag(c)
    /\ Goto(c, "welcome")
    /\ UNCHANGED <<up, peerVars, out, fdVars, tableVars, job,
                   scanVars, mainVars, ghostVars>>

\* send "AUTH_SUCCESS", then announce the user.
Welcome(c) ==
    /\ pc[c] = "welcome"
    /\ Deliver(sock[c], Message0(c, "AUTH_SUCCESS"))
    /\ Call(c, Broadcast(c, "JOIN")) /\ Goto(c, "lock")
    /\ UNCHANGED <<typed, inq, fdVars, tableVars, loginVars, scanVars,
                   mainVars, ghostVars>>

\* The cleanup label: members are announced as leaving, others just close.
Leave(c) ==
    IF authenticated[c]
    THEN Call(c, Broadcast(c, "LEAVE")) /\ Goto(c, "lock")
    ELSE Call(c, NoJob) /\ Goto(c, "close")

Deny(c) ==
    /\ pc[c] = "deny"
    /\ Deliver(sock[c], Message0(c, "AUTH_FAILED"))
    /\ Leave(c)
    /\ UNCHANGED <<typed, inq, fdVars, tableVars, loginVars, scanVars,
                   mainVars, ghostVars>>

-----------------------------------------------------------------------------
(* handle_client: the message loop.                                         *)

OnlyOrderly(c) == peer[c] = "closed" /\ inq[c] = <<>>               \* mutant

\* recv() returns 0 or -1: nothing is left to read and the peer is gone.
Ended(c) == peer[c] # "open" /\ inq[c] = <<>>

\* That ends the handler at a prompt as in the loop.
RecvEnd(c) ==
    /\ pc[c] \in {"user", "pass", "recv"} /\ Ended(c)
    /\ peer' = [peer EXCEPT ![c] = IF @ = "reset" THEN "broken" ELSE @]
    /\ Leave(c)
    /\ UNCHANGED <<up, full, typed, inq, out, fdVars, tableVars, loginVars,
                   scanVars, mainVars, ghostVars>>

\* recv() returns the first k pending lines in one buffer; the buffer is cut
\* at the first newline, so that the line at its head is all that is handled.
RecvLine(c) ==
    /\ pc[c] = "recv" /\ inq[c] # <<>>
    /\ \E k \in 1 .. Len(inq[c]) :
          inq' = [inq EXCEPT ![c] = SubSeq(@, k + 1, Len(@))]
    /\ LET l == Head(inq[c])
           Do(j, label) == Call(c, j) /\ Goto(c, label)
       IN  CASE l.cmd = "blank" -> Do(NoJob, "recv")
             [] l.cmd = "text"  -> Do(Broadcast(c, "TEXT"), "lock")
             [] l.cmd = "list"  -> Do(List, "lock")
             [] l.cmd = "msg"   -> Do(Private(l.to), "lock")
             [] l.cmd = "usage"   -> Do(Answer("USAGE"), "reply")
             [] l.cmd = "help"    -> Do(Answer("HELP"), "reply")
             [] l.cmd = "unknown" -> Do(Answer("UNKNOWN"), "reply")
    /\ UNCHANGED <<up, peer, full, typed, out, fdVars, tableVars, loginVars,
                   scanVars, mainVars, ghostVars>>

\* An answer on the handler's own socket, outside the mutex.
Reply(c) ==
    /\ pc[c] = "reply"
    /\ Deliver(sock[c], [Message0(c, job[c].kind) EXCEPT !.n = job[c].n])
    /\ Call(c, NoJob) /\ Goto(c, "recv")
    /\ UNCHANGED <<typed, inq, fdVars, tableVars, loginVars, scanVars,
                   mainVars, ghostVars>>

-----------------------------------------------------------------------------
(* The three functions that scan clients[] under clients_mutex.             *)

EnterAnyway(c) == mutex' = c                                       \* mutant
Acquire(c)     == mutex = NULL /\ mutex' = c

Lock(c) ==
    /\ pc[c] = "lock" /\ Acquire(c)
    /\ idx' = 0 /\ acc' = <<>> /\ found' = FALSE
    /\ stamp' = IF job[c].op = "list" THEN stamp ELSE stamp + 1
    /\ Call(c, [job[c] EXCEPT !.n = stamp'])
    /\ crowd' = Members
    /\ Goto(c, "scan")
    /\ UNCHANGED <<up, peerVars, out, fdVars, tableVars, loginVars, mainVars>>

Connected(i) == clients[i] # NULL                                  \* mutant

\* clients[i] != NULL && clients[i]->authenticated
Visible(i) == clients[i] # NULL /\ authenticated[clients[i]]

\* What another thread reads as the user name of d.  client_t comes from malloc():
\* before the name is written it is whatever was there, another name included.
ReadName(d) == IF username[d] = NoName THEN User \cup {NoName} ELSE {username[d]}

Scanning(c, op) == pc[c] = "scan" /\ job[c].op = op /\ idx \in Slot

RoomMessage(c) == [Message0(c, job[c].kind) EXCEPT !.n = job[c].n]

\* mutant: the loop ends at the first send() that fails
StopAtError(f) == IF Accepted(f) THEN idx + 1 ELSE MAX_CLIENTS

\* A send() that fails is reported, and the loop goes on.
AfterSend(f) == idx + 1

\* send_message_to_all, one turn of the loop
VisitAll(c) ==
    /\ Scanning(c, "all")
    /\ IF Visible(idx) /\ idx # id[c]
       THEN /\ Deliver(sock[clients[idx]], RoomMessage(c))
            /\ idx' = AfterSend(sock[clients[idx]])
       ELSE /\ idx' = idx + 1
            /\ UNCHANGED <<up, peer, full, out>>
    /\ UNCHANGED <<typed, inq, fdVars, tableVars, loginVars, pc, job,
                   mutex, acc, found, mainVars, ghostVars>>

\* send_user_list, one turn of the loop
VisitList(c) ==
    /\ Scanning(c, "list")
    /\ IF Visible(idx)
       THEN \E u \in ReadName(clients[idx]) : acc' = Append(acc, u)
       ELSE UNCHANGED acc
    /\ idx' = idx + 1
    /\ UNCHANGED <<up, peerVars, out, fdVars, tableVars, loginVars, pc, job,
                   mutex, found, mainVars, ghostVars>>

NoBreak    == idx + 1                                              \* mutant
AfterMatch == MAX_CLIENTS  \* break

\* send_private_message, one turn of the loop: the first slot with the name
\* ends it, whether or not send() accepts the message.
VisitOne(c) ==
    /\ Scanning(c, "one")
    /\ \/ /\ Visible(idx) /\ job[c].to \in ReadName(clients[idx])
          /\ Deliver(sock[clients[idx]], RoomMessage(c))
          /\ found' = (found \/ Accepted(sock[clients[idx]]))
          /\ idx' = AfterMatch
       \/ /\ Visible(idx) => ReadName(clients[idx]) # {job[c].to}
          /\ idx' = idx + 1
          /\ UNCHANGED <<up, peer, full, out, found>>
    /\ UNCHANGED <<typed, inq, fdVars, tableVars, loginVars, pc, job,
                   mutex, acc, mainVars, ghostVars>>

ScanDone(c, op) == pc[c] = "scan" /\ job[c].op = op /\ idx = MAX_CLIENTS

KeepMutex == UNCHANGED mutex /\ idx' = 0 /\ acc' = <<>> /\ found' = FALSE \* mutant

Unlock == mutex' = NULL /\ idx' = 0 /\ acc' = <<>> /\ found' = FALSE

EndAll(c) ==
    /\ ScanDone(c, "all")
    /\ Unlock /\ crowd' = {}
    /\ Call(c, NoJob)
    /\ Goto(c, IF job[c].kind = "LEAVE" THEN "close" ELSE "recv")
    /\ UNCHANGED <<up, peerVars, out, fdVars, tableVars, loginVars, mainVars,
                   stamp>>

\* The list goes out before the mutex is released.
EndList(c) ==
    /\ ScanDone(c, "list")
    /\ Deliver(sock[clients[id[c]]], [Message0(c, "USERLIST") EXCEPT !.names = acc])
    /\ Unlock /\ crowd' = {}
    /\ Call(c, NoJob) /\ Goto(c, "recv")
    /\ UNCHANGED <<typed, inq, fdVars, tableVars, loginVars, mainVars,
                   stamp>>

EndOne(c) ==
    /\ ScanDone(c, "one")
    /\ Unlock /\ crowd' = {}
    /\ Call(c, [Answer(IF found THEN "CONFIRM" ELSE "NOTFOUND")
                  EXCEPT !.n = job[c].n])
    /\ Goto(c, "reply")
    /\ UNCHANGED <<up, peerVars, out, fdVars, tableVars, loginVars, mainVars,
                   stamp>>

-----------------------------------------------------------------------------
(* handle_client: the end of the thread.                                    *)

\* close(client->socket): the number is free for accept() from here on.
Close(c) ==
    /\ pc[c] = "close"
    /\ CloseSocket(c)
    /\ Goto(c, "remove")
    /\ UNCHANGED <<up, peerVars, out, sock, tableVars, loginVars, job,
                   scanVars, mainVars, ghostVars>>

\* remove_client(client->id); free(client)
Remove(c) ==
    /\ pc[c] = "remove"
    /\ RemoveClient(id[c])
    /\ Goto(c, "gone")
    /\ UNCHANGED <<up, peerVars, out, fdVars, id, loginVars, job, scanVars,
                   mainVars, ghostVars>>

Peer(c)   == \/ PeerConnect(c) \/ PeerSend(c) \/ PeerClose(c) \/ PeerResume(c)

\* Steps that wait for the peer to answer a prompt.
Login(c)  == RecvUser(c) \/ AuthFails(c) \/ RecvPassword(c)

\* Steps the handler takes on its own.
Thread(c) == \/ Prompt(c) \/ SetAuthenticated(c) \/ Welcome(c) \/ Deny(c)
             \/ RecvEnd(c) \/ RecvLine(c) \/ Reply(c)
             \/ Lock(c) \/ VisitAll(c) \/ VisitList(c) \/ VisitOne(c)
             \/ EndAll(c) \/ EndList(c) \/ EndOne(c)
             \/ Close(c) \/ Remove(c)

\* The process died, or there is nothing to do until some peer acts.
Quiet == /\ \/ ~up
            \/ \A c \in Conn : pc[c] \in {"off", "user", "pass", "recv", "gone"}
         /\ UNCHANGED vars

Next == \/ /\ up
           /\ \/ Main
              \/ \E c \in Conn : Peer(c) \/ Login(c) \/ Thread(c)
        \/ Quiet

Spec == Init /\ [][Next]_vars
=============================================================================
