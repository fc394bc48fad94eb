-------------------------- MODULE ChatServerProofs --------------------------
(***************************************************************************)
(* Theorems about ChatServer, for any number of connections, users, slots   *)
(* and descriptors.                                                         *)
(***************************************************************************)
EXTENDS ChatServerProperties, FiniteSetTheorems, TLAPS

(* The inductive invariant.  Types is TypeOK but for the range of           *)
(* client_count, which follows from counting the table.                     *)
Types ==
    /\ up \in BOOLEAN
    /\ peer \in [Conn -> PeerState] /\ full \in [Conn -> BOOLEAN]
    /\ typed \in [Conn -> 0 .. MaxLines] /\ inq \in [Conn -> Seq(Line)]
    /\ out \in [Conn -> Seq(Message)]
    /\ owner \in [Fd -> Conn \cup {NULL}] /\ sock \in [Conn -> Fd \cup {0}]
    /\ clients \in [Slot -> Conn \cup {NULL}]
    /\ client_count \in Int
    /\ id \in [Conn -> Slot \cup {-1}]
    /\ username \in [Conn -> User \cup {NoName}]
    /\ authenticated \in [Conn -> BOOLEAN]
    /\ pc \in [Conn -> Pc] /\ job \in [Conn -> Job]
    /\ mutex \in Conn \cup {NULL} /\ idx \in 0 .. MAX_CLIENTS
    /\ acc \in Seq(User \cup {NoName}) /\ found \in BOOLEAN
    /\ mainPc \in MainPc /\ cur \in Conn \cup {NULL}
    /\ stamp \in Nat /\ crowd \in SUBSET Conn

\* main() works on one connection at a time, the only one in its hands.
MainHolds ==
    /\ mainPc = "accept" <=> cur = NULL
    /\ \A c \in Conn : pc[c] = "main" <=> cur = c

\* A connection that main() or a handler works on has a descriptor number.
SocketsSet ==
    \A c \in Conn : pc[c] \in ThreadPc \cup {"main"} => sock[c] \in Fd

\* The mutex is held by the handler that is scanning, and by no other.
MutexIsScan == \A c \in Conn : mutex = c <=> pc[c] = "scan"

\* The call a handler waits or scans for is one of the three that scan, with
\* the kind of message it sends; an answer has a kind of its own.
JobFits ==
    \A c \in Conn :
        /\ pc[c] \in {"lock", "scan"} => job[c].op \in {"all", "list", "one"}
        /\ pc[c] \in {"lock", "scan"} /\ job[c].op = "all" => job[c].kind \in Room
        /\ pc[c] \in {"lock", "scan"} /\ job[c].op = "one" => job[c].kind = "PRIVATE"
        /\ pc[c] = "reply" => job[c].kind \in Direct

\* Between the two stores of a login one of them is made, and after them both.
NameSet ==
    \A c \in Conn :
        /\ pc[c] = "setauth" => authenticated[c] \/ username[c] \in User
        /\ pc[c] # "setauth" /\ authenticated[c] => username[c] \in User

TableInv == MainHolds /\ SocketsSet /\ SlotsAgree /\ TableIsLive /\ FdsAgree
IInv     == Types /\ TableInv /\ CountMatches /\ MutexIsScan /\ JobFits /\ NameSet

-----------------------------------------------------------------------------
(* Types.                                                                   *)

USE DEF Slot, Fd

LEMMA MessageFits ==
    ASSUME NEW c \in Conn, NEW k \in Kinds, NEW j \in Nat, NEW s \in Seq(User \cup {NoName})
    PROVE  /\ Message0(c, k) \in Message
           /\ [Message0(c, k) EXCEPT !.n = j] \in Message
           /\ [Message0(c, k) EXCEPT !.names = s] \in Message
  <1>1. <<>> \in Seq(User \cup {NoName})
    OBVIOUS
  <1>2. \A i \in Nat, q \in Seq(User \cup {NoName}) :
          [kind |-> k, from |-> c, n |-> i, names |-> q] \in Message
    BY DEF Message
  <1>3. Message0(c, k) = [kind |-> k, from |-> c, n |-> 0, names |-> <<>>]
    BY DEF Message0
  <1>4. [Message0(c, k) EXCEPT !.n = j]
          = [kind |-> k, from |-> c, n |-> j, names |-> <<>>]
    BY <1>3
  <1>5. [Message0(c, k) EXCEPT !.names = s]
          = [kind |-> k, from |-> c, n |-> 0, names |-> s]
    BY <1>3
  <1>6. Message0(c, k) \in Message
    BY <1>1, <1>2, <1>3
  <1>7. [Message0(c, k) EXCEPT !.n = j] \in Message
    BY <1>1, <1>2, <1>4
  <1>8. [Message0(c, k) EXCEPT !.names = s] \in Message
    BY <1>2, <1>5
  <1>9. QED
    BY <1>6, <1>7, <1>8

LEMMA DeliverFits ==
    ASSUME Types, NEW f \in Fd, NEW m \in Message, Deliver(f, m)
    PROVE  /\ up' \in BOOLEAN
           /\ peer' \in [Conn -> PeerState] /\ full' \in [Conn -> BOOLEAN]
           /\ out' \in [Conn -> Seq(Message)]
  <1> DEFINE d == owner[f]
  <1>1. d \in Conn \cup {NULL}
    BY DEF Types
  <1>2. CASE d = NULL
    BY <1>2, <1>1, NullAssumption DEF Types, Deliver
  <1>3. CASE d \in Conn /\ peer[d] = "open"
    <2>1. /\ out' = [out EXCEPT ![d] = Append(@, m)]
          /\ full' = full \/ full' = [full EXCEPT ![d] = TRUE]
          /\ UNCHANGED <<up, peer>>
      BY <1>3, NullAssumption DEF Deliver
    <2>2. Append(out[d], m) \in Seq(Message)
      BY <1>3 DEF Types
    <2>3. out' \in [Conn -> Seq(Message)]
      BY <2>1, <2>2, <1>3 DEF Types
    <2>4. full' \in [Conn -> BOOLEAN]
      BY <2>1, <1>3 DEF Types
    <2>5. QED
      BY <2>1, <2>3, <2>4 DEF Types
  <1>4. CASE d \in Conn /\ peer[d] # "open"
    <2>1. /\ UNCHANGED <<full, out>>
          /\ \/ UNCHANGED up /\ \E p \in PeerState : peer' = [peer EXCEPT ![d] = p]
             \/ up' = FALSE /\ UNCHANGED peer
      BY <1>4, NullAssumption DEF Deliver, PeerState
    <2>2. QED
      BY <2>1, <1>4 DEF Types
  <1>5. QED
    BY <1>1, <1>2, <1>3, <1>4

\* Whoever is in the table has a descriptor number and knows its slot.
LEMMA TableFits ==
    ASSUME Types, TableInv, NEW i \in Slot, clients[i] # NULL
    PROVE  /\ clients[i] \in Conn /\ sock[clients[i]] \in Fd
           /\ id[clients[i]] = i
  <1>1. clients[i] \in Conn
    BY DEF Types
  <1>2. pc[clients[i]] \in ThreadPc \cup {"main"}
    BY <1>1 DEF TableInv, TableIsLive, InTable, MainHolds
  <1>3. QED
    BY <1>1, <1>2 DEF TableInv, SocketsSet, SlotsAgree

LEMMA PeerTypes ==
    ASSUME Types, NEW c \in Conn, Peer(c)
    PROVE  Types'
  <1> USE DEF Types
  <1>1. CASE PeerConnect(c)
    BY <1>1 DEF PeerConnect, Pc, peerVars, fdVars, tableVars, loginVars,
                scanVars, mainVars, ghostVars
  <1>2. CASE PeerSend(c)
    <2>1. PICK l \in Lines : inq' = [inq EXCEPT ![c] = Append(@, l)]
      BY <1>2 DEF PeerSend
    <2>2. Append(inq[c], l) \in Seq(Line)
      BY LinesAssumption
    <2>3. inq' \in [Conn -> Seq(Line)]
      BY <2>1, <2>2
    <2>4. typed' \in [Conn -> 0 .. MaxLines]
      BY <1>2, LinesAssumption DEF PeerSend
    <2>5. UNCHANGED <<up, peer, full, out, fdVars, tableVars, loginVars, pc, job,
                      scanVars, mainVars, ghostVars>>
      BY <1>2 DEF PeerSend
    <2>6. QED
      BY <2>3, <2>4, <2>5 DEF fdVars, tableVars, loginVars, scanVars, mainVars,
                              ghostVars
  <1>3. CASE PeerClose(c)
    BY <1>3 DEF PeerClose, PeerState, fdVars, tableVars, loginVars, scanVars,
                mainVars, ghostVars
  <1>4. CASE PeerResume(c)
    BY <1>4 DEF PeerResume, fdVars, tableVars, loginVars, scanVars, mainVars,
                ghostVars
  <1>5. QED
    BY <1>1, <1>2, <1>3, <1>4 DEF Peer

LEMMA RemoveFits ==
    ASSUME Types, NEW i, RemoveClient(i)
    PROVE  clients' \in [Slot -> Conn \cup {NULL}] /\ client_count' \in Int
  <1>1. clients' \in [Slot -> Conn \cup {NULL}]
    BY DEF RemoveClient, Types
  <1>2. client_count' = client_count - 1 \/ client_count' = client_count
    BY DEF RemoveClient
  <1>3. QED
    BY <1>1, <1>2 DEF Types

LEMMA MainTypes ==
    ASSUME Types, MainHolds, Main
    PROVE  Types'
  <1> USE DEF Types, peerVars, fdVars, tableVars, loginVars, scanVars, mainVars,
              ghostVars
  <1>1. ASSUME NEW c \in Conn, MainAccept(c)
        PROVE  Types'
    BY <1>1 DEF MainAccept, Pc, MainPc
  <1>2. CASE MainNoMemory
    BY <1>2 DEF MainNoMemory, MainPc
  <1>3. CASE MainFull
    BY <1>3 DEF MainFull, MainPc
  <1>4. CASE MainAdd
    <2>1. PICK i \in Slot : Register(cur, i)
      BY <1>4 DEF MainAdd
    <2>2. clients' \in [Slot -> Conn \cup {NULL}]
      BY <2>1 DEF Register
    <2>3. id' \in [Conn -> Slot \cup {-1}]
      BY <2>1 DEF Register
    <2>4. client_count' \in Int
      BY <2>1 DEF Register
    <2>5. mainPc' \in MainPc
      BY <1>4 DEF MainAdd, MainPc
    <2>6. QED
      BY <1>4, <2>2, <2>3, <2>4, <2>5 DEF MainAdd
  <1>5. CASE MainSpawn
    BY <1>5 DEF MainSpawn, Pc, ThreadPc, MainPc
  <1>6. CASE MainSpawnFails
    BY <1>6 DEF MainSpawnFails, MainPc
  <1>7. CASE MainRemove
    <2>1. clients' \in [Slot -> Conn \cup {NULL}] /\ client_count' \in Int
      BY <1>7, RemoveFits DEF MainRemove
    <2>2. mainPc' \in MainPc
      BY <1>7 DEF MainRemove, MainPc
    <2>3. QED
      BY <1>7, <2>1, <2>2 DEF MainRemove
  <1>8. CASE MainUndo
    BY <1>8 DEF MainUndo, CloseSocket, Pc, MainPc
  <1>9. QED
    BY <1>1, <1>2, <1>3, <1>4, <1>5, <1>6, <1>7, <1>8 DEF Main

LEMMA LoginTypes ==
    ASSUME Types, NEW c \in Conn, Login(c)
    PROVE  Types'
  <1> USE DEF Types, peerVars, fdVars, tableVars, loginVars, scanVars, mainVars,
              ghostVars, Goto, Pc, ThreadPc
  <1>1. CASE RecvUser(c)
    BY <1>1 DEF RecvUser
  <1>2. CASE AuthFails(c)
    BY <1>2 DEF AuthFails
  <1>3. CASE RecvPassword(c)
    BY <1>3 DEF RecvPassword, StoreName, RaiseFlag
  <1>4. QED
    BY <1>1, <1>2, <1>3 DEF Login

LEMMA CallFits ==
    ASSUME NEW c \in Conn, NEW k \in Kinds, NEW t \in User \cup {NoName}
    PROVE  /\ NoJob \in Job /\ Broadcast(c, k) \in Job /\ Answer(k) \in Job
           /\ List \in Job /\ Private(t) \in Job
  <1>1. \A o \in {"none", "all", "list", "one", "reply"},
           x \in Kinds \cup {"NONE"}, y \in User \cup {NoName} :
          [op |-> o, kind |-> x, to |-> y, n |-> 0] \in Job
    BY DEF Job
  <1>2. "PRIVATE" \in Kinds
    BY DEF Kinds
  <1>3. QED
    BY <1>1, <1>2 DEF NoJob, Broadcast, Answer, List, Private

LEMMA NumberFits ==
    ASSUME NEW j \in Job, NEW n \in Nat
    PROVE  [j EXCEPT !.n = n] \in Job
  <1>1. [j EXCEPT !.n = n] = [op |-> j.op, kind |-> j.kind, to |-> j.to, n |-> n]
    BY DEF Job
  <1> DEFINE Ops == {"none", "all", "list", "one", "reply"}
             Ks  == Kinds \cup {"NONE"}
             Us  == User \cup {NoName}
  <1>2. j.op \in Ops /\ j.kind \in Ks /\ j.to \in Us
    BY DEF Job
  <1> HIDE DEF Ops, Ks, Us
  <1>3. [op |-> j.op, kind |-> j.kind, to |-> j.to, n |-> n]
          \in [op : Ops, kind : Ks, to : Us, n : Nat]
    BY <1>2
  <1>4. QED
    BY <1>1, <1>3 DEF Job, Ops, Ks, Us

LEMMA CallTypes ==
    ASSUME Types, NEW c \in Conn, NEW j \in Job, NEW l \in Pc,
           Call(c, j), Goto(c, l)
    PROVE  job' \in [Conn -> Job] /\ pc' \in [Conn -> Pc]
  BY DEF Call, Goto, Types

LEMMA LeaveTypes ==
    ASSUME Types, NEW c \in Conn, Leave(c)
    PROVE  job' \in [Conn -> Job] /\ pc' \in [Conn -> Pc]
  <1>1. "LEAVE" \in Kinds /\ "lock" \in Pc /\ "close" \in Pc
    BY DEF Kinds, Room, Pc, ThreadPc
  <1>2. NoJob \in Job /\ Broadcast(c, "LEAVE") \in Job
    BY <1>1, CallFits
  <1>3. CASE authenticated[c]
    BY <1>1, <1>2, <1>3, CallTypes DEF Leave
  <1>4. CASE ~authenticated[c]
    BY <1>1, <1>2, <1>4, CallTypes DEF Leave
  <1>5. QED
    BY <1>3, <1>4

\* Sends by a handler on its own socket.
LEMMA SendTypes ==
    ASSUME Types, SocketsSet, NEW c \in Conn,
           Prompt(c) \/ Welcome(c) \/ Deny(c) \/ Reply(c), JobFits
    PROVE  Types'
  <1> DEFINE Sent == /\ up' \in BOOLEAN
                     /\ peer' \in [Conn -> PeerState] /\ full' \in [Conn -> BOOLEAN]
                     /\ out' \in [Conn -> Seq(Message)]
             Called == job' \in [Conn -> Job] /\ pc' \in [Conn -> Pc]
             Rest == UNCHANGED <<typed, inq, fdVars, tableVars, loginVars,
                                 scanVars, mainVars, ghostVars>>
  <1>1. pc[c] \in ThreadPc => sock[c] \in Fd
    BY DEF SocketsSet
  <1>2. \A k \in Kinds, n \in Nat :
          /\ Message0(c, k) \in Message
          /\ [Message0(c, k) EXCEPT !.n = n] \in Message
    <2>1. <<>> \in Seq(User \cup {NoName})
      OBVIOUS
    <2>2. QED
      BY <2>1, MessageFits
  <1>3. CASE Prompt(c)
    <2>1. "PROMPT" \in Kinds /\ pc[c] \in ThreadPc
      BY <1>3 DEF Prompt, Kinds, Direct, ThreadPc
    <2>2. Sent
      BY <1>3, <2>1, <1>1, <1>2, DeliverFits DEF Prompt
    <2>3. Called /\ Rest
      BY <1>3 DEF Prompt, Goto, Pc, ThreadPc, Types
    <2>4. QED
      BY <2>2, <2>3 DEF Types, fdVars, tableVars, loginVars, scanVars, mainVars,
                        ghostVars
  <1>4. CASE Welcome(c)
    <2>1. "AUTH_SUCCESS" \in Kinds /\ "JOIN" \in Kinds /\ pc[c] \in ThreadPc
      BY <1>4 DEF Welcome, Kinds, Direct, Room, ThreadPc
    <2>2. Sent
      BY <1>4, <2>1, <1>1, <1>2, DeliverFits DEF Welcome
    <2>3. Broadcast(c, "JOIN") \in Job /\ "lock" \in Pc
      BY <2>1, CallFits DEF Pc, ThreadPc
    <2>4. Called /\ Rest
      BY <1>4, <2>3, CallTypes DEF Welcome
    <2>5. QED
      BY <2>2, <2>4 DEF Types, fdVars, tableVars, loginVars, scanVars, mainVars,
                        ghostVars
  <1>5. CASE Deny(c)
    <2>1. "AUTH_FAILED" \in Kinds /\ pc[c] \in ThreadPc
      BY <1>5 DEF Deny, Kinds, Direct, ThreadPc
    <2>2. Sent
      BY <1>5, <2>1, <1>1, <1>2, DeliverFits DEF Deny
    <2>3. Called /\ Rest
      BY <1>5, LeaveTypes DEF Deny
    <2>4. QED
      BY <2>2, <2>3 DEF Types, fdVars, tableVars, loginVars, scanVars, mainVars,
                        ghostVars
  <1>6. CASE Reply(c)
    <2>1. job[c].kind \in Kinds /\ job[c].n \in Nat /\ pc[c] \in ThreadPc
      BY <1>6 DEF Reply, JobFits, Kinds, Types, Job, ThreadPc
    <2>2. Sent
      BY <1>6, <2>1, <1>1, <1>2, DeliverFits DEF Reply
    <2>3. NoJob \in Job /\ "recv" \in Pc
      BY <2>1, CallFits DEF Pc, ThreadPc
    <2>4. Called /\ Rest
      BY <1>6, <2>3, CallTypes DEF Reply
    <2>5. QED
      BY <2>2, <2>4 DEF Types, fdVars, tableVars, loginVars, scanVars, mainVars,
                        ghostVars
  <1>7. QED
    BY <1>3, <1>4, <1>5, <1>6

\* What handle_client does with the line it received.
LEMMA RecvOutcome ==
    ASSUME Types, NEW c \in Conn, RecvLine(c)
    PROVE  LET h == Head(inq[c])
           IN  /\ h \in Line /\ pc[c] = "recv"
               /\ \/ Call(c, NoJob) /\ Goto(c, "recv")
                  \/ \E j \in {Broadcast(c, "TEXT"), List, Private(h.to)} :
                        Call(c, j) /\ Goto(c, "lock")
                  \/ \E j \in {Answer("USAGE"), Answer("HELP"), Answer("UNKNOWN")} :
                        Call(c, j) /\ Goto(c, "reply")
  <1> DEFINE h == Head(inq[c])
  <1>1. inq[c] \in Seq(Line) /\ inq[c] # <<>>
    BY DEF RecvLine, Types
  <1>2. h \in Line
    BY <1>1
  <1>3. h.cmd \in Commands
    BY <1>2 DEF Line
  <1>4. QED
    BY <1>2, <1>3 DEF RecvLine, Commands

LEMMA RecvTypes ==
    ASSUME Types, NEW c \in Conn, SetAuthenticated(c) \/ RecvEnd(c) \/ RecvLine(c)
    PROVE  Types'
  <1>1. CASE SetAuthenticated(c)
    BY <1>1 DEF SetAuthenticated, StoreName, RaiseFlag, Goto, Pc, ThreadPc, Types,
                peerVars, fdVars, tableVars, scanVars, mainVars, ghostVars
  <1>2. CASE RecvEnd(c)
    <2>1. job' \in [Conn -> Job] /\ pc' \in [Conn -> Pc]
      BY <1>2, LeaveTypes DEF RecvEnd
    <2>2. peer' \in [Conn -> PeerState]
      BY <1>2 DEF RecvEnd, Types, PeerState
    <2>3. QED
      BY <1>2, <2>1, <2>2 DEF RecvEnd, Types, fdVars, tableVars, loginVars,
                              scanVars, mainVars, ghostVars
  <1>3. CASE RecvLine(c)
    <2>1. inq[c] \in Seq(Line) /\ inq[c] # <<>>
      BY <1>3 DEF RecvLine, Types
    <2>2. PICK k \in 1 .. Len(inq[c]) :
            inq' = [inq EXCEPT ![c] = SubSeq(@, k + 1, Len(@))]
      BY <1>3 DEF RecvLine
    <2>3. SubSeq(inq[c], k + 1, Len(inq[c])) \in Seq(Line)
      BY <2>1
    <2>4. inq' \in [Conn -> Seq(Line)]
      BY <2>2, <2>3 DEF Types
    <2>5. \E j \in Job, l \in {"recv", "lock", "reply"} : Call(c, j) /\ Goto(c, l)
      <3> DEFINE h == Head(inq[c])
      <3>1. h.to \in User \cup {NoName}
        BY <1>3, RecvOutcome DEF Line
      <3>2. /\ "TEXT" \in Kinds /\ "USAGE" \in Kinds /\ "HELP" \in Kinds
            /\ "UNKNOWN" \in Kinds
        BY DEF Kinds, Direct, Room
      <3>3. /\ NoJob \in Job /\ Broadcast(c, "TEXT") \in Job /\ List \in Job
            /\ Private(h.to) \in Job /\ Answer("USAGE") \in Job
            /\ Answer("HELP") \in Job /\ Answer("UNKNOWN") \in Job
        BY <3>1, <3>2, CallFits
      <3>4. QED
        BY <1>3, <3>3, RecvOutcome
    <2>6. PICK j \in Job, l \in {"recv", "lock", "reply"} : Call(c, j) /\ Goto(c, l)
      BY <2>5
    <2>7. job' \in [Conn -> Job] /\ pc' \in [Conn -> Pc]
      BY <2>6, CallTypes DEF Pc, ThreadPc
    <2>8. QED
      BY <1>3, <2>4, <2>7 DEF RecvLine, Types, fdVars, tableVars, loginVars,
                              scanVars, mainVars, ghostVars
  <1>4. QED
    BY <1>1, <1>2, <1>3

\* The scans: whom they send to is in the table, and so has a descriptor.
LEMMA VisitTypes ==
    ASSUME Types, TableInv, JobFits, NEW c \in Conn,
           VisitAll(c) \/ VisitList(c) \/ VisitOne(c)
    PROVE  Types'
  <1> DEFINE d == clients[idx]
             Sent == /\ up' \in BOOLEAN
                     /\ peer' \in [Conn -> PeerState] /\ full' \in [Conn -> BOOLEAN]
                     /\ out' \in [Conn -> Seq(Message)]
  <1>1. pc[c] = "scan" /\ idx \in Slot /\ idx + 1 \in 0 .. MAX_CLIENTS
    BY SlotsAssumption DEF VisitAll, VisitList, VisitOne, Scanning
  <1>2. Visible(idx) => /\ d \in Conn /\ sock[d] \in Fd
                        /\ ReadName(d) \subseteq User \cup {NoName}
    BY <1>1, TableFits DEF Visible, ReadName, Types
  <1>3. ASSUME job[c].op # "list"
        PROVE  RoomMessage(c) \in Message
    <2>1. job[c].kind \in Kinds /\ job[c].n \in Nat
      BY <1>1, <1>3 DEF JobFits, Types, Job, Kinds
    <2>2. <<>> \in Seq(User \cup {NoName})
      OBVIOUS
    <2>3. QED
      BY <2>1, <2>2, MessageFits DEF RoomMessage
  <1>4. MAX_CLIENTS \in 0 .. MAX_CLIENTS
    BY SlotsAssumption
  <1>5. CASE VisitAll(c)
    <2>1. RoomMessage(c) \in Message
      BY <1>5, <1>3 DEF VisitAll, Scanning
    <2>2. CASE Visible(idx) /\ idx # id[c]
      <3>1. Deliver(sock[d], RoomMessage(c))
        BY <1>5, <2>2 DEF VisitAll
      <3>2. Sent
        BY <3>1, <2>1, <2>2, <1>2, DeliverFits
      <3>3. QED
        BY <1>5, <2>2, <3>2, <1>1 DEF VisitAll, AfterSend, Types, fdVars,
              tableVars, loginVars, mainVars, ghostVars
    <2>3. CASE ~(Visible(idx) /\ idx # id[c])
      BY <1>5, <2>3, <1>1 DEF VisitAll, Types, fdVars, tableVars, loginVars,
            mainVars, ghostVars
    <2>4. QED
      BY <2>2, <2>3
  <1>6. CASE VisitList(c)
    <2>1. acc' \in Seq(User \cup {NoName})
      <3>1. CASE Visible(idx)
        <4>1. PICK u \in ReadName(d) : acc' = Append(acc, u)
          BY <1>6, <3>1 DEF VisitList
        <4>2. QED
          BY <4>1, <3>1, <1>2 DEF Types
      <3>2. CASE ~Visible(idx)
        BY <1>6, <3>2 DEF VisitList, Types
      <3>3. QED
        BY <3>1, <3>2
    <2>2. QED
      BY <1>6, <2>1, <1>1 DEF VisitList, Types, peerVars, fdVars, tableVars,
            loginVars, mainVars, ghostVars
  <1>7. CASE VisitOne(c)
    <2>1. RoomMessage(c) \in Message
      BY <1>7, <1>3 DEF VisitOne, Scanning
    <2>2. CASE Visible(idx) /\ Deliver(sock[d], RoomMessage(c))
               /\ found' = (found \/ Accepted(sock[d])) /\ idx' = MAX_CLIENTS
      <3>1. Sent
        BY <2>1, <2>2, <1>2, DeliverFits
      <3>2. found' \in BOOLEAN
        BY <2>2, Zenon DEF Accepted, Types
      <3>3. QED
        BY <1>7, <2>2, <3>1, <3>2, <1>4 DEF VisitOne, Types, fdVars, tableVars,
              loginVars, mainVars, ghostVars
    <2>3. CASE idx' = idx + 1 /\ UNCHANGED <<up, peer, full, out, found>>
      BY <1>7, <2>3, <1>1 DEF VisitOne, Types, fdVars, tableVars, loginVars,
            mainVars, ghostVars
    <2>4. QED
      BY <1>7, <2>2, <2>3 DEF VisitOne, AfterMatch
  <1>8. QED
    BY <1>5, <1>6, <1>7

LEMMA LockTypes ==
    ASSUME Types, TableInv, JobFits, NEW c \in Conn,
           Lock(c) \/ EndAll(c) \/ EndList(c) \/ EndOne(c)
    PROVE  Types'
  <1>1. 0 \in 0 .. MAX_CLIENTS /\ <<>> \in Seq(User \cup {NoName})
    BY SlotsAssumption
  <1>2. ASSUME Unlock
        PROVE  /\ mutex' \in Conn \cup {NULL} /\ idx' \in 0 .. MAX_CLIENTS
               /\ acc' \in Seq(User \cup {NoName}) /\ found' \in BOOLEAN
    BY <1>1, <1>2 DEF Unlock
  <1>3. \A l \in {"scan", "close", "recv", "reply"} : l \in Pc
    BY DEF Pc, ThreadPc
  <1>4. CASE Lock(c)
    <2>1. stamp' \in Nat
      BY <1>4 DEF Lock, Types
    <2>2. [job[c] EXCEPT !.n = stamp'] \in Job
      BY <2>1, NumberFits DEF Types
    <2>3. job' \in [Conn -> Job] /\ pc' \in [Conn -> Pc]
      BY <1>4, <2>2, <1>3, CallTypes DEF Lock
    <2>4. mutex' \in Conn \cup {NULL} /\ idx' \in 0 .. MAX_CLIENTS
          /\ acc' \in Seq(User \cup {NoName}) /\ found' \in BOOLEAN
      BY <1>4, <1>1 DEF Lock, Acquire
    <2>5. crowd' \in SUBSET Conn
      BY <1>4 DEF Lock, Members
    <2>6. QED
      BY <1>4, <2>1, <2>3, <2>4, <2>5 DEF Lock, Types, peerVars, fdVars,
            tableVars, loginVars, mainVars
  <1>5. CASE EndAll(c)
    <2>1. NoJob \in Job
      <3>1. "TEXT" \in Kinds
        BY DEF Kinds, Room
      <3>2. QED
        BY <3>1, CallFits
    <2>2. job' \in [Conn -> Job] /\ pc' \in [Conn -> Pc]
      BY <1>5, <2>1, <1>3, CallTypes DEF EndAll
    <2>3. QED
      BY <1>5, <1>2, <2>2 DEF EndAll, Types, peerVars, fdVars, tableVars,
            loginVars, mainVars
  <1>6. CASE EndList(c)
    <2>1. "USERLIST" \in Kinds
      BY DEF Kinds, Direct
    <2>2. [Message0(c, "USERLIST") EXCEPT !.names = acc] \in Message
      <3>1. acc \in Seq(User \cup {NoName}) /\ 0 \in Nat
        BY DEF Types
      <3>2. QED
        BY <3>1, <2>1, MessageFits
    <2>3. id[c] \in Slot /\ clients[id[c]] = c /\ sock[c] \in Fd
      <3>1. pc[c] \in ThreadPc
        BY <1>6 DEF EndList, ScanDone, ThreadPc
      <3>2. PICK i \in Slot : clients[i] = c
        BY <3>1 DEF TableInv, TableIsLive, InTable
      <3>3. QED
        BY <3>1, <3>2, NullAssumption DEF TableInv, SlotsAgree, SocketsSet
    <2>4. /\ up' \in BOOLEAN
          /\ peer' \in [Conn -> PeerState] /\ full' \in [Conn -> BOOLEAN]
          /\ out' \in [Conn -> Seq(Message)]
      BY <1>6, <2>2, <2>3, DeliverFits DEF EndList
    <2>5. NoJob \in Job
      BY <2>1, CallFits
    <2>6. job' \in [Conn -> Job] /\ pc' \in [Conn -> Pc]
      BY <1>6, <2>5, <1>3, CallTypes DEF EndList
    <2>7. QED
      BY <1>6, <1>2, <2>4, <2>6 DEF EndList, Types, fdVars, tableVars,
            loginVars, mainVars
  <1>7. CASE EndOne(c)
    <2>1. [Answer(IF found THEN "CONFIRM" ELSE "NOTFOUND")
            EXCEPT !.n = job[c].n] \in Job
      <3>1. Answer("CONFIRM") \in Job /\ Answer("NOTFOUND") \in Job
        BY CallFits DEF Kinds, Direct
      <3>2. job[c].n \in Nat
        BY DEF Types, Job
      <3>3. QED
        BY <3>1, <3>2, NumberFits
    <2>2. job' \in [Conn -> Job] /\ pc' \in [Conn -> Pc]
      BY <1>7, <2>1, <1>3, CallTypes DEF EndOne
    <2>3. QED
      BY <1>7, <1>2, <2>2 DEF EndOne, Types, peerVars, fdVars, tableVars,
            loginVars, mainVars
  <1>8. QED
    BY <1>4, <1>5, <1>6, <1>7

LEMMA EndTypes ==
    ASSUME Types, NEW c \in Conn, Close(c) \/ Remove(c)
    PROVE  Types'
  <1>1. CASE Close(c)
    BY <1>1 DEF Close, CloseSocket, Goto, Pc, ThreadPc, Types, peerVars,
                tableVars, loginVars, scanVars, mainVars, ghostVars
  <1>2. CASE Remove(c)
    <2>1. clients' \in [Slot -> Conn \cup {NULL}] /\ client_count' \in Int
      BY <1>2, RemoveFits DEF Remove
    <2>2. pc' \in [Conn -> Pc]
      BY <1>2 DEF Remove, Goto, Pc, ThreadPc, Types
    <2>3. QED
      BY <1>2, <2>1, <2>2 DEF Remove, Types, peerVars, fdVars, loginVars,
                              scanVars, mainVars, ghostVars
  <1>3. QED
    BY <1>1, <1>2

LEMMA TypesStep ==
    ASSUME IInv, [Next]_vars
    PROVE  Types'
  <1> USE DEF IInv
  <1>1. CASE UNCHANGED vars
    BY <1>1 DEF Types, vars, peerVars, fdVars, tableVars, loginVars, scanVars,
                mainVars, ghostVars
  <1>2. CASE Main
    BY <1>2, MainTypes DEF TableInv
  <1>3. ASSUME NEW c \in Conn, Peer(c)
        PROVE  Types'
    BY <1>3, PeerTypes
  <1>4. ASSUME NEW c \in Conn, Login(c)
        PROVE  Types'
    BY <1>4, LoginTypes
  <1>5. ASSUME NEW c \in Conn, Thread(c)
        PROVE  Types'
    BY <1>5, SendTypes, RecvTypes, VisitTypes, LockTypes, EndTypes
       DEF Thread, TableInv
  <1>6. QED
    BY <1>1, <1>2, <1>3, <1>4, <1>5 DEF Next, Quiet

-----------------------------------------------------------------------------
(* The table and the descriptors.  Most steps touch neither: they move one  *)
(* handler from one place inside handle_client to another.                  *)

Busy == ThreadPc \ {"remove"}

Inner(c) ==
    /\ UNCHANGED <<fdVars, tableVars, mainVars>>
    /\ \/ pc' = pc
       \/ pc[c] \in Busy /\ \E l \in Busy : pc' = [pc EXCEPT ![c] = l]

LEMMA InnerSteps ==
    ASSUME Types, NEW c \in Conn,
           \/ PeerSend(c) \/ PeerClose(c) \/ PeerResume(c) \/ Login(c)
           \/ Thread(c) /\ ~Close(c) /\ ~Remove(c)
    PROVE  Inner(c)
  <1> USE DEF Inner, Busy, ThreadPc, Goto
  <1>1. CASE PeerSend(c) \/ PeerClose(c) \/ PeerResume(c)
    BY <1>1 DEF PeerSend, PeerClose, PeerResume
  <1>2. CASE Login(c)
    BY <1>2 DEF Login, RecvUser, RecvPassword, AuthFails
  <1>3. CASE Prompt(c) \/ SetAuthenticated(c) \/ Welcome(c) \/ Reply(c)
    BY <1>3 DEF Prompt, SetAuthenticated, Welcome, Reply
  <1>4. CASE Deny(c) \/ RecvEnd(c)
    BY <1>4 DEF Deny, RecvEnd, Leave
  <1>5. CASE RecvLine(c)
    <2>1. UNCHANGED <<fdVars, tableVars, mainVars>> /\ pc[c] = "recv"
      BY <1>5 DEF RecvLine
    <2>2. \E l \in {"recv", "lock", "reply"} : Goto(c, l)
      BY <1>5, RecvOutcome
    <2>3. QED
      BY <2>1, <2>2
  <1>6. CASE Lock(c) \/ VisitAll(c) \/ VisitList(c) \/ VisitOne(c)
    BY <1>6 DEF Lock, VisitAll, VisitList, VisitOne
  <1>7. CASE EndAll(c) \/ EndList(c) \/ EndOne(c)
    BY <1>7 DEF EndAll, EndList, EndOne, ScanDone
  <1>8. QED
    BY <1>1, <1>2, <1>3, <1>4, <1>5, <1>6, <1>7 DEF Thread

LEMMA InnerTable ==
    ASSUME Types, TableInv, NEW c \in Conn, Inner(c)
    PROVE  TableInv'
  <1>1. /\ owner' = owner /\ sock' = sock /\ clients' = clients /\ id' = id
        /\ mainPc' = mainPc /\ cur' = cur
    BY DEF Inner, fdVars, tableVars, mainVars
  <1>2. \A d \in Conn :
          \/ pc'[d] = pc[d]
          \/ pc[d] \in Busy /\ pc'[d] \in Busy
    BY DEF Inner, Types
  <1>3. \A d \in Conn :
          /\ (pc'[d] = "main") <=> (pc[d] = "main")
          /\ (pc'[d] \in ThreadPc) <=> (pc[d] \in ThreadPc)
          /\ (pc'[d] \in Busy) <=> (pc[d] \in Busy)
    BY <1>2 DEF Busy, ThreadPc
  <1>4. MainHolds'
    BY <1>1, <1>3 DEF TableInv, MainHolds
  <1>5. SocketsSet'
    BY <1>1, <1>3 DEF TableInv, SocketsSet
  <1>6. SlotsAgree'
    BY <1>1 DEF TableInv, SlotsAgree
  <1>7. TableIsLive'
    BY <1>1, <1>3 DEF TableInv, TableIsLive, InTable
  <1>8. FdsAgree'
    BY <1>1, <1>3 DEF TableInv, FdsAgree, Busy
  <1>9. QED
    BY <1>4, <1>5, <1>6, <1>7, <1>8 DEF TableInv

LEMMA ConnectTable ==
    ASSUME Types, TableInv, NEW c \in Conn, PeerConnect(c)
    PROVE  TableInv'
  <1> USE DEF TableInv, PeerConnect, Types, fdVars, tableVars, mainVars
  <1>1. MainHolds'
    BY DEF MainHolds
  <1>2. SocketsSet'
    BY DEF SocketsSet, ThreadPc
  <1>3. SlotsAgree'
    BY DEF SlotsAgree
  <1>4. TableIsLive'
    BY DEF TableIsLive, InTable, ThreadPc
  <1>5. FdsAgree'
    BY DEF FdsAgree, ThreadPc
  <1>6. QED
    BY <1>1, <1>2, <1>3, <1>4, <1>5

LEMMA AcceptTable ==
    ASSUME Types, TableInv, NEW c \in Conn, MainAccept(c)
    PROVE  TableInv'
  <1> USE DEF TableInv, Types
  <1>1. PICK f \in Fd : /\ owner[f] = NULL
                        /\ owner' = [owner EXCEPT ![f] = c]
                        /\ sock' = [sock EXCEPT ![c] = f]
    BY DEF MainAccept
  <1>2. /\ mainPc = "accept" /\ pc[c] = "backlog"
        /\ pc' = [pc EXCEPT ![c] = "main"]
        /\ mainPc' = "add" /\ cur' = c
        /\ clients' = clients /\ id' = id
    BY DEF MainAccept, tableVars
  <1>3. cur = NULL
    BY <1>2 DEF MainHolds
  <1>4. MainHolds'
    BY <1>2, <1>3, NullAssumption DEF MainHolds
  <1>5. SocketsSet'
    BY <1>1, <1>2 DEF SocketsSet, ThreadPc
  <1>6. SlotsAgree'
    BY <1>2 DEF SlotsAgree
  <1>7. TableIsLive'
    BY <1>2, <1>3, NullAssumption DEF TableIsLive, InTable, ThreadPc
  <1>8. FdsAgree'
    <2>1. \A g \in Fd : owner[g] # c
      BY <1>2 DEF FdsAgree, ThreadPc
    <2>2. \A g \in Fd : owner'[g] # NULL => sock'[owner'[g]] = g
      BY <1>1, <2>1 DEF FdsAgree
    <2>3. ASSUME NEW d \in Conn
          PROVE  (\E g \in Fd : owner'[g] = d)
                    <=> pc'[d] \in (ThreadPc \ {"remove"}) \cup {"main"}
      <3>1. CASE d = c
        BY <1>1, <1>2, <3>1
      <3>2. CASE d # c
        <4>1. pc'[d] = pc[d]
          BY <1>2, <3>2
        <4>2. (\E g \in Fd : owner'[g] = d) <=> (\E g \in Fd : owner[g] = d)
          BY <1>1, <3>2, NullAssumption
        <4>3. QED
          BY <4>1, <4>2 DEF FdsAgree
      <3>3. QED
        BY <3>1, <3>2
    <2>4. QED
      BY <2>2, <2>3 DEF FdsAgree
  <1>9. QED
    BY <1>4, <1>5, <1>6, <1>7, <1>8

\* Steps of main() that only change its own place between two calls.
LEMMA MainMoves ==
    ASSUME Types, TableInv, MainNoMemory \/ MainFull \/ MainSpawnFails
    PROVE  TableInv'
  <1> USE DEF TableInv, MainNoMemory, MainFull, MainSpawnFails
  <1>1. /\ owner' = owner /\ sock' = sock /\ clients' = clients /\ id' = id
        /\ cur' = cur /\ pc' = pc
        /\ mainPc # "accept" /\ mainPc' # "accept"
        /\ mainPc \in {"spawn", "unadd"} <=> mainPc' \in {"spawn", "unadd"}
    BY DEF fdVars, tableVars
  <1>2. QED
    BY <1>1 DEF MainHolds, SocketsSet, SlotsAgree, TableIsLive, InTable, FdsAgree

LEMMA AddTable ==
    ASSUME Types, TableInv, MainAdd
    PROVE  TableInv'
  <1> USE DEF TableInv, Types
  <1>1. PICK i \in Slot : clients[i] = NULL /\ Register(cur, i)
    BY DEF MainAdd
  <1>2. /\ mainPc = "add" /\ mainPc' = "spawn" /\ cur' = cur /\ pc' = pc
        /\ owner' = owner /\ sock' = sock
    BY DEF MainAdd, fdVars
  <1>3. cur \in Conn /\ pc[cur] = "main"
    BY <1>2, NullAssumption DEF MainHolds
  <1>4. clients' = [clients EXCEPT ![i] = cur] /\ id' = [id EXCEPT ![cur] = i]
    BY <1>1 DEF Register
  <1>5. ~InTable(cur)
    BY <1>2, <1>3 DEF TableIsLive, ThreadPc
  <1>6. MainHolds' /\ SocketsSet' /\ FdsAgree'
    BY <1>2, <1>3 DEF MainHolds, SocketsSet, FdsAgree
  <1>7. SlotsAgree'
    BY <1>3, <1>4, <1>5 DEF SlotsAgree, InTable
  <1>8. TableIsLive'
    <2>1. ASSUME NEW d \in Conn, d # cur
          PROVE  InTable(d)' <=> InTable(d)
      BY <1>1, <1>4, <2>1, NullAssumption DEF InTable
    <2>2. InTable(cur)'
      BY <1>2, <1>4 DEF InTable
    <2>3. QED
      BY <1>2, <1>3, <2>1, <2>2 DEF TableIsLive
  <1>9. QED
    BY <1>6, <1>7, <1>8

LEMMA SpawnTable ==
    ASSUME Types, TableInv, MainSpawn
    PROVE  TableInv'
  <1> USE DEF TableInv, Types
  <1>1. /\ mainPc = "spawn" /\ mainPc' = "accept" /\ cur' = NULL
        /\ pc' = [pc EXCEPT ![cur] = "hello"]
        /\ owner' = owner /\ sock' = sock /\ clients' = clients /\ id' = id
    BY DEF MainSpawn, fdVars, tableVars
  <1>2. cur \in Conn /\ pc[cur] = "main"
    BY <1>1, NullAssumption DEF MainHolds
  <1>3. MainHolds'
    BY <1>1, <1>2, NullAssumption DEF MainHolds
  <1>4. SocketsSet'
    BY <1>1, <1>2 DEF SocketsSet, ThreadPc
  <1>5. SlotsAgree'
    BY <1>1 DEF SlotsAgree
  <1>6. TableIsLive'
    BY <1>1, <1>2, NullAssumption DEF TableIsLive, InTable, ThreadPc
  <1>7. FdsAgree'
    BY <1>1, <1>2 DEF FdsAgree, ThreadPc
  <1>8. QED
    BY <1>3, <1>4, <1>5, <1>6, <1>7

\* remove_client on the slot its client occupies empties it for that client
\* alone.
LEMMA RemoveTable ==
    ASSUME Types, TableInv, NEW c \in Conn, InTable(c), RemoveClient(id[c])
    PROVE  /\ id[c] \in Slot /\ clients[id[c]] = c
           /\ ~InTable(c)'
           /\ \A d \in Conn : d # c => (InTable(d)' <=> InTable(d))
           /\ id' = id => SlotsAgree'
  <1>1. PICK i \in Slot : clients[i] = c
    BY DEF InTable
  <1>2. id[c] = i
    BY <1>1, NullAssumption DEF TableInv, SlotsAgree
  <1>3. clients' = [clients EXCEPT ![i] = NULL]
    BY <1>2 DEF RemoveClient
  <1>4. \A j \in Slot : clients[j] = c => j = i
    BY <1>2, NullAssumption DEF TableInv, SlotsAgree
  <1>5. ~InTable(c)'
    BY <1>3, <1>4, NullAssumption DEF InTable, Types
  <1>6. \A d \in Conn : d # c => (InTable(d)' <=> InTable(d))
    BY <1>1, <1>3, NullAssumption DEF InTable, Types
  <1>7. id' = id => SlotsAgree'
    BY <1>3 DEF TableInv, SlotsAgree, Types
  <1>8. QED
    BY <1>1, <1>2, <1>5, <1>6, <1>7

LEMMA UnaddTable ==
    ASSUME Types, TableInv, MainRemove
    PROVE  TableInv'
  <1>1. /\ mainPc = "unadd" /\ mainPc' = "undo" /\ cur' = cur /\ pc' = pc
        /\ owner' = owner /\ sock' = sock /\ id' = id
        /\ RemoveClient(id[cur])
    BY DEF MainRemove, fdVars
  <1>2. cur \in Conn /\ pc[cur] = "main"
    BY <1>1, NullAssumption DEF TableInv, MainHolds, Types
  <1>3. InTable(cur)
    BY <1>1, <1>2 DEF TableInv, TableIsLive
  <1>4. MainHolds' /\ SocketsSet' /\ FdsAgree'
    BY <1>1, <1>2 DEF TableInv, MainHolds, SocketsSet, FdsAgree
  <1>5. SlotsAgree' /\ ~InTable(cur)'
        /\ \A d \in Conn : d # cur => (InTable(d)' <=> InTable(d))
    BY <1>1, <1>2, <1>3, RemoveTable
  <1>6. TableIsLive'
    BY <1>1, <1>2, <1>5 DEF TableInv, TableIsLive, ThreadPc
  <1>7. QED
    BY <1>4, <1>5, <1>6 DEF TableInv

LEMMA UndoTable ==
    ASSUME Types, TableInv, MainUndo
    PROVE  TableInv'
  <1> USE DEF TableInv, Types
  <1>1. /\ mainPc = "undo" /\ mainPc' = "accept" /\ cur' = NULL
        /\ pc' = [pc EXCEPT ![cur] = "gone"]
        /\ owner' = [owner EXCEPT ![sock[cur]] = NULL]
        /\ sock' = sock /\ clients' = clients /\ id' = id
    BY DEF MainUndo, CloseSocket, tableVars
  <1>2. cur \in Conn /\ pc[cur] = "main" /\ sock[cur] \in Fd
    BY <1>1, NullAssumption DEF MainHolds, SocketsSet
  <1>3. MainHolds'
    BY <1>1, <1>2, NullAssumption DEF MainHolds
  <1>4. SocketsSet'
    BY <1>1, <1>2 DEF SocketsSet, ThreadPc
  <1>5. SlotsAgree'
    BY <1>1 DEF SlotsAgree
  <1>6. TableIsLive'
    BY <1>1, <1>2, NullAssumption DEF TableIsLive, InTable, ThreadPc
  <1>7. FdsAgree'
    <2>1. \A f \in Fd : owner'[f] # NULL => sock'[owner'[f]] = f
      BY <1>1, <1>2 DEF FdsAgree
    <2>2. \A f \in Fd : owner'[f] # cur
      BY <1>1, <1>2, NullAssumption DEF FdsAgree
    <2>3. ASSUME NEW d \in Conn, d # cur
          PROVE  (\E f \in Fd : owner'[f] = d) <=> (\E f \in Fd : owner[f] = d)
      <3>1. owner[sock[cur]] = cur
        <4>1. \E f \in Fd : owner[f] = cur
          BY <1>2 DEF FdsAgree
        <4>2. QED
          BY <4>1, <1>2, NullAssumption DEF FdsAgree
      <3>2. QED
        BY <1>1, <1>2, <2>3, <3>1, NullAssumption
    <2>4. QED
      BY <1>1, <1>2, <2>1, <2>2, <2>3 DEF FdsAgree, ThreadPc
  <1>8. QED
    BY <1>3, <1>4, <1>5, <1>6, <1>7

LEMMA CloseTable ==
    ASSUME Types, TableInv, NEW c \in Conn, Close(c)
    PROVE  TableInv'
  <1> USE DEF TableInv, Types
  <1>1. /\ pc[c] = "close" /\ pc' = [pc EXCEPT ![c] = "remove"]
        /\ owner' = [owner EXCEPT ![sock[c]] = NULL]
        /\ sock' = sock /\ clients' = clients /\ id' = id
        /\ mainPc' = mainPc /\ cur' = cur
    BY DEF Close, CloseSocket, Goto, tableVars, mainVars
  <1>2. sock[c] \in Fd
    BY <1>1 DEF SocketsSet, ThreadPc
  <1>3. MainHolds'
    BY <1>1 DEF MainHolds
  <1>4. SocketsSet'
    BY <1>1, <1>2 DEF SocketsSet, ThreadPc
  <1>5. SlotsAgree'
    BY <1>1 DEF SlotsAgree
  <1>6. TableIsLive'
    BY <1>1 DEF TableIsLive, InTable, ThreadPc
  <1>7. FdsAgree'
    <2>1. \A f \in Fd : owner'[f] # NULL => sock'[owner'[f]] = f
      BY <1>1, <1>2 DEF FdsAgree
    <2>2. \A f \in Fd : owner'[f] # c
      BY <1>1, <1>2, NullAssumption DEF FdsAgree
    <2>3. ASSUME NEW d \in Conn, d # c
          PROVE  (\E f \in Fd : owner'[f] = d) <=> (\E f \in Fd : owner[f] = d)
      <3>1. owner[sock[c]] = c
        <4>1. pc[c] \in (ThreadPc \ {"remove"}) \cup {"main"}
          BY <1>1 DEF ThreadPc
        <4>2. \E f \in Fd : owner[f] = c
          BY <4>1 DEF FdsAgree
        <4>3. QED
          BY <4>2, <1>2, NullAssumption DEF FdsAgree
      <3>2. QED
        BY <1>1, <1>2, <2>3, <3>1, NullAssumption
    <2>4. QED
      BY <1>1, <2>1, <2>2, <2>3 DEF FdsAgree, ThreadPc
  <1>8. QED
    BY <1>3, <1>4, <1>5, <1>6, <1>7

LEMMA RemovedTable ==
    ASSUME Types, TableInv, NEW c \in Conn, Remove(c)
    PROVE  TableInv'
  <1>1. /\ pc[c] = "remove" /\ pc' = [pc EXCEPT ![c] = "gone"]
        /\ owner' = owner /\ sock' = sock /\ id' = id
        /\ mainPc' = mainPc /\ cur' = cur /\ RemoveClient(id[c])
    BY DEF Remove, Goto, fdVars, mainVars
  <1>2. InTable(c)
    BY <1>1 DEF TableInv, TableIsLive, ThreadPc
  <1>3. MainHolds'
    BY <1>1 DEF TableInv, MainHolds, Types
  <1>4. SocketsSet'
    BY <1>1 DEF TableInv, SocketsSet, ThreadPc, Types
  <1>5. SlotsAgree' /\ ~InTable(c)'
        /\ \A d \in Conn : d # c => (InTable(d)' <=> InTable(d))
    BY <1>1, <1>2, RemoveTable
  <1>6. TableIsLive'
    <2>1. cur # c
      BY <1>1 DEF TableInv, MainHolds
    <2>2. QED
      BY <1>1, <1>5, <2>1 DEF TableInv, TableIsLive, ThreadPc, Types
  <1>7. FdsAgree'
    BY <1>1 DEF TableInv, FdsAgree, ThreadPc, Types
  <1>8. QED
    BY <1>3, <1>4, <1>5, <1>6, <1>7 DEF TableInv

LEMMA TableStep ==
    ASSUME IInv, [Next]_vars
    PROVE  TableInv'
  <1> USE DEF IInv
  <1>1. CASE UNCHANGED vars
    BY <1>1 DEF TableInv, MainHolds, SocketsSet, SlotsAgree, TableIsLive, InTable,
                FdsAgree, vars, fdVars, tableVars, mainVars
  <1>2. ASSUME NEW c \in Conn, MainAccept(c)
        PROVE  TableInv'
    BY <1>2, AcceptTable
  <1>3. CASE Main /\ ~ \E c \in Conn : MainAccept(c)
    BY <1>3, MainMoves, AddTable, SpawnTable, UnaddTable, UndoTable DEF Main
  <1>4. ASSUME NEW c \in Conn, Peer(c)
        PROVE  TableInv'
    BY <1>4, ConnectTable, InnerSteps, InnerTable DEF Peer
  <1>5. ASSUME NEW c \in Conn, Login(c)
        PROVE  TableInv'
    BY <1>5, InnerSteps, InnerTable
  <1>6. ASSUME NEW c \in Conn, Thread(c)
        PROVE  TableInv'
    BY <1>6, InnerSteps, InnerTable, CloseTable, RemovedTable
  <1>7. QED
    BY <1>1, <1>2, <1>3, <1>4, <1>5, <1>6 DEF Next, Quiet

-----------------------------------------------------------------------------
(* The mutex, the calls of the handlers, and the names.                     *)

\* A step of a handler that is not about the mutex.
LEMMA OutsideMutex ==
    ASSUME Types, MutexIsScan, mutex' = mutex, NEW c \in Conn,
           \/ pc' = pc
           \/ \E l \in Pc \ {"scan"} : pc[c] # "scan" /\ pc' = [pc EXCEPT ![c] = l]
    PROVE  MutexIsScan'
  BY DEF MutexIsScan, Types

LEMMA EndScan ==
    ASSUME Types, MutexIsScan, NEW c \in Conn, pc[c] = "scan", mutex' = NULL,
           NEW l \in Pc \ {"scan"}, pc' = [pc EXCEPT ![c] = l]
    PROVE  MutexIsScan'
  <1>1. \A d \in Conn : pc[d] = "scan" => d = c
    BY DEF MutexIsScan
  <1>2. QED
    BY <1>1, NullAssumption DEF MutexIsScan, Types

LEMMA MutexStep ==
    ASSUME IInv, [Next]_vars
    PROVE  MutexIsScan'
  <1> USE DEF IInv
  <1>1. CASE UNCHANGED vars
    BY <1>1 DEF MutexIsScan, vars, scanVars
  <1>2. CASE Main
    <2> USE DEF scanVars, Pc, ThreadPc
    <2>1. ASSUME NEW c \in Conn, MainAccept(c)
          PROVE  MutexIsScan'
      BY <2>1, OutsideMutex DEF MainAccept
    <2>2. CASE MainNoMemory \/ MainFull \/ MainAdd \/ MainSpawnFails \/ MainRemove
      BY <2>2 DEF MainNoMemory, MainFull, MainAdd, MainSpawnFails, MainRemove,
                  MutexIsScan
    <2>3. CASE MainSpawn \/ MainUndo
      <3>1. cur \in Conn /\ pc[cur] = "main"
        BY <2>3, NullAssumption DEF MainSpawn, MainUndo, TableInv, MainHolds, Types
      <3>2. QED
        BY <2>3, <3>1, OutsideMutex DEF MainSpawn, MainUndo
    <2>4. QED
      BY <1>2, <2>1, <2>2, <2>3 DEF Main
  <1>3. ASSUME NEW c \in Conn, Peer(c)
        PROVE  MutexIsScan'
    BY <1>3, OutsideMutex DEF Peer, PeerConnect, PeerSend, PeerClose, PeerResume,
                              scanVars, Pc
  <1>4. ASSUME NEW c \in Conn, Login(c)
        PROVE  MutexIsScan'
    BY <1>4, OutsideMutex DEF Login, RecvUser, AuthFails, RecvPassword, Goto,
                              scanVars, Pc, ThreadPc
  <1>5. ASSUME NEW c \in Conn, Thread(c)
        PROVE  MutexIsScan'
    <2> USE DEF Goto, scanVars, Pc, ThreadPc
    <2>1. CASE Prompt(c) \/ SetAuthenticated(c) \/ Welcome(c) \/ Reply(c)
      BY <2>1, OutsideMutex DEF Prompt, SetAuthenticated, Welcome, Reply
    <2>2. CASE Deny(c) \/ RecvEnd(c)
      BY <2>2, OutsideMutex DEF Deny, RecvEnd, Leave
    <2>3. CASE RecvLine(c)
      <3>1. Inner(c) /\ pc[c] = "recv" /\ mutex' = mutex
        BY <2>3, InnerSteps DEF Thread, RecvLine, Close, Remove
      <3>2. \E l \in {"recv", "lock", "reply"} : pc' = [pc EXCEPT ![c] = l]
        BY <2>3, RecvOutcome
      <3>3. QED
        BY <3>1, <3>2, OutsideMutex
    <2>4. CASE Lock(c)
      <3>1. mutex = NULL /\ mutex' = c /\ pc' = [pc EXCEPT ![c] = "scan"]
        BY <2>4 DEF Lock, Acquire
      <3>2. \A d \in Conn : pc[d] # "scan"
        BY <3>1, NullAssumption DEF MutexIsScan
      <3>3. QED
        BY <3>1, <3>2 DEF MutexIsScan, Types
    <2>5. CASE VisitAll(c) \/ VisitList(c) \/ VisitOne(c)
      BY <2>5, OutsideMutex DEF VisitAll, VisitList, VisitOne
    <2>6. CASE EndAll(c) \/ EndList(c) \/ EndOne(c)
      BY <2>6, EndScan DEF EndAll, EndList, EndOne, ScanDone, Unlock
    <2>7. CASE Close(c) \/ Remove(c)
      BY <2>7, OutsideMutex DEF Close, Remove
    <2>8. QED
      BY <1>5, <2>1, <2>2, <2>3, <2>4, <2>5, <2>6, <2>7 DEF Thread
  <1>6. QED
    BY <1>1, <1>2, <1>3, <1>4, <1>5 DEF Next, Quiet

LEMMA JobKept ==
    ASSUME Types, JobFits, job' = job, NEW c \in Conn,
           \/ pc' = pc
           \/ \E l \in Pc \ {"lock", "scan", "reply"} : pc' = [pc EXCEPT ![c] = l]
    PROVE  JobFits'
  <1>1. \A d \in Conn : pc'[d] = pc[d] \/ pc'[d] \notin {"lock", "scan", "reply"}
    BY DEF Types
  <1>2. QED
    BY <1>1 DEF JobFits

LEMMA JobSet ==
    ASSUME Types, JobFits, NEW c \in Conn, NEW j, NEW l, Call(c, j), Goto(c, l),
           l \in {"lock", "scan"} => j.op \in {"all", "list", "one"},
           l \in {"lock", "scan"} /\ j.op = "all" => j.kind \in Room,
           l \in {"lock", "scan"} /\ j.op = "one" => j.kind = "PRIVATE",
           l = "reply" => j.kind \in Direct
    PROVE  JobFits'
  <1>1. job'[c] = j /\ pc'[c] = l
    BY DEF Call, Goto, Types
  <1>2. \A d \in Conn \ {c} : job'[d] = job[d] /\ pc'[d] = pc[d]
    BY DEF Call, Goto, Types
  <1>3. QED
    BY <1>1, <1>2 DEF JobFits

LEMMA LeaveJob ==
    ASSUME Types, JobFits, NEW c \in Conn, Leave(c)
    PROVE  JobFits'
  <1>1. CASE authenticated[c]
    BY <1>1, JobSet DEF Leave, Broadcast, Room
  <1>2. CASE ~authenticated[c]
    BY <1>2, JobSet DEF Leave
  <1>3. QED
    BY <1>1, <1>2

LEMMA JobStep ==
    ASSUME IInv, [Next]_vars
    PROVE  JobFits'
  <1> USE DEF IInv, Pc, ThreadPc
  <1>1. CASE UNCHANGED vars
    BY <1>1 DEF JobFits, vars
  <1>2. CASE Main
    <2>1. ASSUME NEW c \in Conn, MainAccept(c)
          PROVE  JobFits'
      BY <2>1, JobKept DEF MainAccept
    <2>2. CASE MainNoMemory \/ MainFull \/ MainAdd \/ MainSpawnFails \/ MainRemove
      BY <2>2 DEF MainNoMemory, MainFull, MainAdd, MainSpawnFails, MainRemove,
                  JobFits
    <2>3. CASE MainSpawn \/ MainUndo
      <3>1. cur \in Conn
        BY <2>3, NullAssumption DEF MainSpawn, MainUndo, TableInv, MainHolds, Types
      <3>2. QED
        BY <2>3, <3>1, JobKept DEF MainSpawn, MainUndo
    <2>4. QED
      BY <1>2, <2>1, <2>2, <2>3 DEF Main
  <1>3. ASSUME NEW c \in Conn, Peer(c)
        PROVE  JobFits'
    BY <1>3, JobKept DEF Peer, PeerConnect, PeerSend, PeerClose, PeerResume
  <1>4. ASSUME NEW c \in Conn, Login(c)
        PROVE  JobFits'
    BY <1>4, JobKept DEF Login, RecvUser, AuthFails, RecvPassword, Goto
  <1>5. ASSUME NEW c \in Conn, Thread(c)
        PROVE  JobFits'
    <2>1. CASE Prompt(c) \/ SetAuthenticated(c) \/ Close(c) \/ Remove(c)
      BY <2>1, JobKept DEF Prompt, SetAuthenticated, Close, Remove, Goto
    <2>2. CASE Welcome(c)
      BY <2>2, JobSet DEF Welcome, Broadcast, Room
    <2>3. CASE Deny(c) \/ RecvEnd(c)
      BY <2>3, LeaveJob DEF Deny, RecvEnd
    <2>4. CASE Reply(c) \/ EndAll(c) \/ EndList(c)
      BY <2>4, JobSet DEF Reply, EndAll, EndList
    <2>5. CASE RecvLine(c)
      <3> DEFINE h == Head(inq[c])
      <3>2. \/ Call(c, NoJob) /\ Goto(c, "recv")
            \/ \E j \in {Broadcast(c, "TEXT"), List, Private(h.to)} :
                   Call(c, j) /\ Goto(c, "lock")
            \/ \E j \in {Answer("USAGE"), Answer("HELP"), Answer("UNKNOWN")} :
                   Call(c, j) /\ Goto(c, "reply")
        BY <2>5, RecvOutcome
      <3>3. \A j \in {Broadcast(c, "TEXT"), List, Private(h.to)} :
               /\ j.op \in {"all", "list", "one"}
               /\ j.op = "all" => j.kind \in Room
               /\ j.op = "one" => j.kind = "PRIVATE"
        BY DEF Broadcast, List, Private, Room
      <3>4. \A j \in {Answer("USAGE"), Answer("HELP"), Answer("UNKNOWN")} :
               j.kind \in Direct
        BY DEF Answer, Direct
      <3>5. QED
        BY <3>2, <3>3, <3>4, JobSet
    <2>6. CASE Lock(c)
      <3> DEFINE j == [job[c] EXCEPT !.n = stamp']
      <3>1. Call(c, j) /\ Goto(c, "scan") /\ pc[c] = "lock"
        BY <2>6 DEF Lock
      <3>2. j.op = job[c].op /\ j.kind = job[c].kind
        BY DEF Types, Job
      <3>3. /\ job[c].op \in {"all", "list", "one"}
            /\ job[c].op = "all" => job[c].kind \in Room
            /\ job[c].op = "one" => job[c].kind = "PRIVATE"
        BY <3>1 DEF JobFits
      <3> HIDE DEF j
      <3>4. QED
        BY <3>1, <3>2, <3>3, JobSet
    <2>7. CASE VisitAll(c) \/ VisitList(c) \/ VisitOne(c)
      BY <2>7, JobKept DEF VisitAll, VisitList, VisitOne
    <2>8. CASE EndOne(c)
      <3> DEFINE j == [Answer(IF found THEN "CONFIRM" ELSE "NOTFOUND")
                         EXCEPT !.n = job[c].n]
      <3>1. Call(c, j) /\ Goto(c, "reply")
        BY <2>8 DEF EndOne
      <3>2. j.kind \in Direct
        BY DEF Answer, Direct
      <3> HIDE DEF j
      <3>3. QED
        BY <3>1, <3>2, JobSet
    <2>9. QED
      BY <1>5, <2>1, <2>2, <2>3, <2>4, <2>5, <2>6, <2>7, <2>8 DEF Thread
  <1>6. QED
    BY <1>1, <1>2, <1>3, <1>4, <1>5 DEF Next, Quiet

LEMMA NameStep ==
    ASSUME IInv, [Next]_vars
    PROVE  NameSet'
  <1> USE DEF IInv, NameSet
  <1>1. ASSUME UNCHANGED <<username, authenticated>>,
               \A d \in Conn : pc'[d] = "setauth" <=> pc[d] = "setauth"
        PROVE  NameSet'
    BY <1>1
  <1>2. CASE UNCHANGED vars
    BY <1>2 DEF vars, loginVars
  <1>3. CASE Main
    <2> USE DEF loginVars, Types
    <2>1. ASSUME NEW c \in Conn, MainAccept(c)
          PROVE  NameSet'
      BY <2>1, <1>1 DEF MainAccept
    <2>2. CASE MainNoMemory \/ MainFull \/ MainAdd \/ MainSpawnFails \/ MainRemove
      BY <2>2, <1>1 DEF MainNoMemory, MainFull, MainAdd, MainSpawnFails, MainRemove
    <2>3. CASE MainSpawn \/ MainUndo
      <3>1. cur \in Conn /\ pc[cur] = "main"
        BY <2>3, NullAssumption DEF MainSpawn, MainUndo, TableInv, MainHolds
      <3>2. QED
        BY <2>3, <3>1, <1>1 DEF MainSpawn, MainUndo
    <2>4. QED
      BY <1>3, <2>1, <2>2, <2>3 DEF Main
  <1>4. ASSUME NEW c \in Conn, Peer(c)
        PROVE  NameSet'
    BY <1>4, <1>1 DEF Peer, PeerConnect, PeerSend, PeerClose, PeerResume,
                      loginVars, Types
  <1>5. ASSUME NEW c \in Conn, Login(c)
        PROVE  NameSet'
    <2>1. CASE RecvUser(c) \/ AuthFails(c)
      BY <2>1, <1>1 DEF RecvUser, AuthFails, Goto, loginVars, Types
    <2>2. CASE RecvPassword(c)
      BY <2>2 DEF RecvPassword, StoreName, RaiseFlag, Goto, Types
    <2>3. QED
      BY <1>5, <2>1, <2>2 DEF Login
  <1>6. ASSUME NEW c \in Conn, Thread(c)
        PROVE  NameSet'
    <2> USE DEF loginVars, Types, Goto
    <2>1. CASE SetAuthenticated(c)
      BY <2>1 DEF SetAuthenticated, StoreName, RaiseFlag
    <2>2. CASE RecvLine(c)
      <3>1. UNCHANGED <<username, authenticated>> /\ pc[c] = "recv"
        BY <2>2 DEF RecvLine
      <3>2. \E l \in {"recv", "lock", "reply"} : pc' = [pc EXCEPT ![c] = l]
        BY <2>2, RecvOutcome
      <3>3. QED
        BY <3>1, <3>2, <1>1
    <2>3. CASE Prompt(c) \/ Welcome(c) \/ Deny(c) \/ RecvEnd(c) \/ Reply(c)
      BY <2>3, <1>1 DEF Prompt, Welcome, Deny, RecvEnd, Reply, Leave
    <2>4. CASE Lock(c) \/ VisitAll(c) \/ VisitList(c) \/ VisitOne(c)
      BY <2>4, <1>1 DEF Lock, VisitAll, VisitList, VisitOne
    <2>5. CASE EndAll(c) \/ EndList(c) \/ EndOne(c) \/ Close(c) \/ Remove(c)
      BY <2>5, <1>1 DEF EndAll, EndList, EndOne, ScanDone, Close, Remove
    <2>6. QED
      BY <1>6, <2>1, <2>2, <2>3, <2>4, <2>5 DEF Thread
  <1>7. QED
    BY <1>2, <1>3, <1>4, <1>5, <1>6 DEF Next, Quiet

-----------------------------------------------------------------------------
(* The count of the table.                                                  *)

Occupied == {i \in Slot : clients[i] # NULL}

LEMMA OccupiedIsFinite ==
    /\ IsFiniteSet(Occupied) /\ Cardinality(Occupied) \in 0 .. MAX_CLIENTS
    /\ IsFiniteSet(Occupied')
  <1>1. IsFiniteSet(Slot) /\ Cardinality(Slot) = MAX_CLIENTS
    BY SlotsAssumption, FS_Interval
  <1>2. Occupied \subseteq Slot /\ Occupied' \subseteq Slot
    BY DEF Occupied
  <1>3. IsFiniteSet(Occupied) /\ Cardinality(Occupied) <= MAX_CLIENTS
    BY <1>1, <1>2, FS_Subset
  <1>4. IsFiniteSet(Occupied')
    BY <1>1, <1>2, FS_Subset
  <1>5. Cardinality(Occupied) \in Nat
    BY <1>3, FS_CardinalityType
  <1>6. QED
    BY <1>3, <1>4, <1>5, SlotsAssumption

LEMMA CountRemoved ==
    ASSUME Types, CountMatches, NEW i \in Slot, clients[i] # NULL, RemoveClient(i)
    PROVE  CountMatches'
  <1>1. Occupied' = Occupied \ {i} /\ i \in Occupied
    BY DEF RemoveClient, Types, Occupied
  <1>2. client_count' = client_count - 1
    BY DEF RemoveClient
  <1>3. Cardinality(Occupied') = Cardinality(Occupied) - 1
    BY <1>1, OccupiedIsFinite, FS_RemoveElement
  <1>4. QED
    BY <1>2, <1>3 DEF CountMatches, Occupied

LEMMA CountAdded ==
    ASSUME Types, CountMatches, NEW i \in Slot, NEW c \in Conn, clients[i] = NULL,
           Register(c, i)
    PROVE  CountMatches'
  <1>1. Occupied' = Occupied \cup {i} /\ i \notin Occupied
    BY NullAssumption DEF Register, Types, Occupied
  <1>2. client_count' = client_count + 1
    BY DEF Register
  <1>3. Cardinality(Occupied') = Cardinality(Occupied) + 1
    BY <1>1, OccupiedIsFinite, FS_AddElement
  <1>4. QED
    BY <1>2, <1>3 DEF CountMatches, Occupied

LEMMA CountStep ==
    ASSUME IInv, [Next]_vars
    PROVE  CountMatches'
  <1> USE DEF IInv
  <1>1. ASSUME UNCHANGED <<clients, client_count>>
        PROVE  CountMatches'
    BY <1>1 DEF CountMatches
  <1>2. CASE UNCHANGED vars
    BY <1>1, <1>2 DEF vars, tableVars
  <1>3. CASE Main
    <2> USE DEF tableVars
    <2>1. ASSUME NEW c \in Conn, MainAccept(c)
          PROVE  CountMatches'
      BY <2>1, <1>1 DEF MainAccept
    <2>2. CASE MainNoMemory \/ MainFull \/ MainSpawn \/ MainSpawnFails \/ MainUndo
      BY <2>2, <1>1 DEF MainNoMemory, MainFull, MainSpawn, MainSpawnFails, MainUndo
    <2>3. CASE MainAdd
      <3>1. cur \in Conn
        BY <2>3, NullAssumption DEF MainAdd, TableInv, MainHolds, Types
      <3>2. PICK i \in Slot : clients[i] = NULL /\ Register(cur, i)
        BY <2>3 DEF MainAdd
      <3>3. QED
        BY <3>1, <3>2, CountAdded
    <2>4. CASE MainRemove
      <3>1. cur \in Conn /\ InTable(cur) /\ RemoveClient(id[cur])
        BY <2>4, NullAssumption
           DEF MainRemove, TableInv, MainHolds, TableIsLive, Types
      <3>2. id[cur] \in Slot /\ clients[id[cur]] # NULL
        BY <3>1, RemoveTable, NullAssumption
      <3>3. QED
        BY <3>1, <3>2, CountRemoved
    <2>5. QED
      BY <1>3, <2>1, <2>2, <2>3, <2>4 DEF Main
  <1>4. ASSUME NEW c \in Conn, Peer(c)
        PROVE  CountMatches'
    BY <1>4, <1>1 DEF Peer, PeerConnect, PeerSend, PeerClose, PeerResume, tableVars
  <1>5. ASSUME NEW c \in Conn, Login(c) \/ (Thread(c) /\ ~Close(c) /\ ~Remove(c))
        PROVE  CountMatches'
    BY <1>5, <1>1, InnerSteps DEF Inner, tableVars
  <1>6. ASSUME NEW c \in Conn, Close(c)
        PROVE  CountMatches'
    BY <1>6, <1>1 DEF Close, tableVars
  <1>7. ASSUME NEW c \in Conn, Remove(c)
        PROVE  CountMatches'
    <2>1. InTable(c) /\ RemoveClient(id[c])
      BY <1>7 DEF Remove, TableInv, TableIsLive, ThreadPc
    <2>2. id[c] \in Slot /\ clients[id[c]] # NULL
      BY <2>1, RemoveTable, NullAssumption
    <2>3. QED
      BY <2>1, <2>2, CountRemoved
  <1>8. QED
    BY <1>2, <1>3, <1>4, <1>5, <1>6, <1>7 DEF Next, Quiet

-----------------------------------------------------------------------------
(* The theorems.                                                            *)

LEMMA InitIInv == Init => IInv
  <1> SUFFICES ASSUME Init PROVE IInv
    OBVIOUS
  <1> USE DEF Init
  <1>1. Types
    <2>1. 0 \in 0 .. MaxLines /\ 0 \in 0 .. MAX_CLIENTS
      BY LinesAssumption, SlotsAssumption
    <2>2. NoJob \in Job
      BY DEF NoJob, Job
    <2>3. <<>> \in Seq(Line) /\ <<>> \in Seq(Message) /\ <<>> \in Seq(User \cup {NoName})
      OBVIOUS
    <2>4. -1 \in {-1} /\ "off" \in Pc /\ "accept" \in MainPc /\ "open" \in PeerState
      BY DEF Pc, MainPc, PeerState
    <2>5. /\ peer \in [Conn -> PeerState] /\ full \in [Conn -> BOOLEAN]
          /\ typed \in [Conn -> 0 .. MaxLines] /\ inq \in [Conn -> Seq(Line)]
          /\ out \in [Conn -> Seq(Message)] /\ job \in [Conn -> Job]
      BY <2>1, <2>2, <2>3, <2>4
    <2>6. /\ owner \in [Fd -> Conn \cup {NULL}] /\ sock \in [Conn -> Fd \cup {0}]
          /\ clients \in [Slot -> Conn \cup {NULL}] /\ id \in [Conn -> Slot \cup {-1}]
          /\ username \in [Conn -> User \cup {NoName}]
          /\ authenticated \in [Conn -> BOOLEAN] /\ pc \in [Conn -> Pc]
      BY <2>4
    <2>7. /\ client_count \in Int /\ idx \in 0 .. MAX_CLIENTS /\ stamp \in Nat
          /\ mutex \in Conn \cup {NULL} /\ cur \in Conn \cup {NULL}
          /\ mainPc \in MainPc
      BY <2>1, <2>4
    <2>8. acc \in Seq(User \cup {NoName}) /\ crowd \in SUBSET Conn
      BY <2>3
    <2>9. up \in BOOLEAN /\ found \in BOOLEAN
      OBVIOUS
    <2>10. QED
      BY <2>5, <2>6, <2>7, <2>8, <2>9 DEF Types
  <1>2. \A c \in Conn : ~InTable(c)
    BY NullAssumption DEF InTable
  <1>3. TableInv
    BY <1>2, NullAssumption DEF TableInv, MainHolds, SocketsSet, SlotsAgree,
          TableIsLive, FdsAgree, ThreadPc
  <1>4. CountMatches
    <2>1. {i \in Slot : clients[i] # NULL} = {}
      OBVIOUS
    <2>2. QED
      BY <2>1, FS_EmptySet DEF CountMatches
  <1>5. MutexIsScan /\ JobFits /\ NameSet
    BY NullAssumption DEF MutexIsScan, JobFits, NameSet
  <1>6. QED
    BY <1>1, <1>3, <1>4, <1>5 DEF IInv

\* The inductive invariant holds in every state of the server: the table, its
\* count, the descriptors, the mutex and the calls of the handlers agree.
THEOREM Invariant == Spec => []IInv
  <1>1. Init => IInv
    BY InitIInv
  <1>2. IInv /\ [Next]_vars => IInv'
    BY TypesStep, TableStep, CountStep, MutexStep, JobStep, NameStep DEF IInv
  <1>3. QED
    BY <1>1, <1>2, PTL DEF Spec

\* TypeOK: the ranges of all variables hold in every state of the server.
THEOREM TypeCorrect == Spec => []TypeOK
  <1>1. IInv => TypeOK
    BY OccupiedIsFinite DEF IInv, Types, TypeOK, CountMatches, Occupied
  <1>2. QED
    BY <1>1, Invariant, PTL

\* A handler leaves clients[] by the index it kept, and that index names its
\* own slot, whoever came and went meanwhile.
THEOREM SlotsCorrect == Spec => []SlotsAgree
  <1>1. IInv => SlotsAgree
    BY DEF IInv, TableInv
  <1>2. QED
    BY <1>1, Invariant, PTL

\* No freed client in clients[] and no handler without its slot, however
\* main() and the handlers interleave.
THEOREM TableCorrect == Spec => []TableIsLive
  <1>1. IInv => TableIsLive
    BY DEF IInv, TableInv
  <1>2. QED
    BY <1>1, Invariant, PTL

\* No descriptor is leaked, closed twice or shared by two connections.
THEOREM FdsCorrect == Spec => []FdsAgree
  <1>1. IInv => FdsAgree
    BY DEF IInv, TableInv
  <1>2. QED
    BY <1>1, Invariant, PTL

\* client_count is the number of occupied slots.
THEOREM CountCorrect == Spec => []CountMatches
  <1>1. IInv => CountMatches
    BY DEF IInv
  <1>2. QED
    BY <1>1, Invariant, PTL

LEMMA TableStable ==
    ASSUME IInv, [Next]_vars, mutex # NULL
    PROVE  clients' = clients
  <1> USE DEF tableVars
  <1>1. CASE Main
    BY <1>1 DEF Main, MainAccept, MainNoMemory, MainFull, MainAdd, MainSpawn,
                MainSpawnFails, MainRemove, RemoveClient, MainUndo
  <1>2. ASSUME NEW c \in Conn, Peer(c)
        PROVE  clients' = clients
    BY <1>2 DEF Peer, PeerConnect, PeerSend, PeerClose, PeerResume
  <1>3. ASSUME NEW c \in Conn, Login(c) \/ (Thread(c) /\ ~Close(c) /\ ~Remove(c))
        PROVE  clients' = clients
    BY <1>3, InnerSteps DEF Inner, IInv
  <1>4. ASSUME NEW c \in Conn, Close(c) \/ Remove(c)
        PROVE  clients' = clients
    BY <1>4 DEF Close, Remove, RemoveClient
  <1>5. QED
    BY <1>1, <1>2, <1>3, <1>4 DEF Next, Quiet, vars

\* The table does not change under a handler that holds the mutex.
THEOREM ScanCorrect == Spec => TableStableDuringScan
  <1>1. IInv /\ [Next]_vars => [mutex # NULL /\ mutex' = mutex => UNCHANGED clients]_vars
    BY TableStable
  <1>2. QED
    BY <1>1, Invariant, PTL DEF Spec, TableStableDuringScan

-----------------------------------------------------------------------------
(* One order for all peers.  A scan works on the last message begun, and    *)
(* nobody has received a later one.                                         *)

ScanIsLast == \A c \in Conn : pc[c] = "scan" => job[c].n = stamp
SeenBefore == \A d \in Conn : \A i \in Seen(d, Shared) : out[d][i].n <= stamp
OrderInv   == ScanIsLast /\ SeenBefore /\ TotalOrder

LEMMA AppendOrder ==
    ASSUME Types, SeenBefore, TotalOrder, stamp' = stamp,
           NEW d \in Conn, NEW m \in Message, m.kind \in Shared => m.n = stamp,
           out' = [out EXCEPT ![d] = Append(@, m)]
    PROVE  SeenBefore' /\ TotalOrder'
  <1> DEFINE s == out[d]
  <1>1. s \in Seq(Message) /\ m.n \in Nat /\ stamp \in Nat
    BY DEF Types, Message
  <1>2. /\ out'[d] = Append(s, m)
        /\ \A e \in Conn \ {d} : out'[e] = out[e]
    BY DEF Types
  <1>3. /\ DOMAIN Append(s, m) = 1 .. Len(s) + 1 /\ DOMAIN s = 1 .. Len(s)
        /\ Len(s) \in Nat
        /\ Append(s, m)[Len(s) + 1] = m
        /\ \A i \in 1 .. Len(s) : Append(s, m)[i] = s[i] /\ s[i] \in Message
    BY <1>1
  <1>4. \A i \in 1 .. Len(s) : s[i].n \in Nat
    BY <1>3 DEF Message
  <1>5. \A i \in DOMAIN out'[d] : out'[d][i].kind \in Shared =>
          \/ i = Len(s) + 1 /\ out'[d][i].n = stamp
          \/ i \in Seen(d, Shared) /\ i <= Len(s) /\ out'[d][i] = out[d][i]
    BY <1>2, <1>3 DEF Seen
  <1>6. SeenBefore'
    <2>1. \A i \in Seen(d, Shared)' : out'[d][i].n <= stamp
      BY <1>1, <1>5 DEF SeenBefore, Seen
    <2>2. ASSUME NEW e \in Conn, NEW i \in Seen(e, Shared)'
          PROVE  out'[e][i].n <= stamp'
      <3>1. CASE e = d
        BY <3>1, <2>1
      <3>2. CASE e # d
        <4>1. out'[e] = out[e]
          BY <1>2, <3>2
        <4>2. i \in Seen(e, Shared)
          BY <4>1 DEF Seen
        <4>3. QED
          BY <4>1, <4>2 DEF SeenBefore
      <3>3. QED
        BY <3>1, <3>2
    <2>3. QED
      BY <2>2 DEF SeenBefore
  <1>7. TotalOrder'
    <2>1. ASSUME NEW i \in Seen(d, Shared)', NEW j \in Seen(d, Shared)', i < j
          PROVE  out'[d][i].n <= out'[d][j].n
      <3>1. i \in DOMAIN out'[d] /\ out'[d][i].kind \in Shared
            /\ j \in DOMAIN out'[d] /\ out'[d][j].kind \in Shared
        BY DEF Seen
      <3>2. i \in 1 .. Len(s) + 1 /\ j \in 1 .. Len(s) + 1
        BY <3>1, <1>2, <1>3
      <3>3. i \in Seen(d, Shared) /\ i <= Len(s) /\ out'[d][i] = out[d][i]
        BY <3>1, <3>2, <2>1, <1>3, <1>5
      <3>4. CASE j = Len(s) + 1
        BY <3>1, <3>3, <3>4, <1>3, <1>5 DEF SeenBefore
      <3>5. CASE j # Len(s) + 1
        BY <3>1, <3>3, <3>5, <2>1, <1>5 DEF TotalOrder
      <3>6. QED
        BY <3>4, <3>5
    <2>2. ASSUME NEW e \in Conn, NEW i \in Seen(e, Shared)',
                 NEW j \in Seen(e, Shared)', i < j
          PROVE  out'[e][i].n <= out'[e][j].n
      <3>1. CASE e = d
        BY <3>1, <2>1, <2>2
      <3>2. CASE e # d
        <4>1. out'[e] = out[e]
          BY <1>2, <3>2
        <4>2. i \in Seen(e, Shared) /\ j \in Seen(e, Shared)
          BY <4>1 DEF Seen
        <4>3. QED
          BY <4>1, <4>2, <2>2 DEF TotalOrder
      <3>3. QED
        BY <3>1, <3>2
    <2>3. QED
      BY <2>2 DEF TotalOrder
  <1>8. QED
    BY <1>6, <1>7

LEMMA DeliverOrder ==
    ASSUME Types, SeenBefore, TotalOrder, stamp' = stamp, NEW f \in Fd,
           NEW m \in Message, m.kind \in Shared => m.n = stamp, Deliver(f, m)
    PROVE  SeenBefore' /\ TotalOrder'
  <1>1. CASE out' = out
    BY <1>1 DEF SeenBefore, TotalOrder, Seen
  <1>2. CASE out' # out
    <2>1. owner[f] \in Conn /\ out' = [out EXCEPT ![owner[f]] = Append(@, m)]
      BY <1>2 DEF Deliver, Types
    <2>2. QED
      BY <2>1, AppendOrder
  <1>3. QED
    BY <1>1, <1>2

LEMMA OutKept ==
    ASSUME Types, SeenBefore, TotalOrder, out' = out, stamp' \in {stamp, stamp + 1}
    PROVE  SeenBefore' /\ TotalOrder'
  <1>1. TotalOrder'
    BY DEF TotalOrder, Seen
  <1>2. ASSUME NEW d \in Conn, NEW i \in Seen(d, Shared)'
        PROVE  out'[d][i].n <= stamp'
    <2>1. i \in Seen(d, Shared) /\ out[d][i].n <= stamp
      BY DEF Seen, SeenBefore
    <2>2. out[d][i].n \in Nat /\ stamp \in Nat
      <3>1. out[d] \in Seq(Message) /\ i \in DOMAIN out[d]
        BY DEF Seen, Types
      <3>2. out[d][i] \in Message
        BY <3>1
      <3>3. QED
        BY <3>2 DEF Message, Types
    <2>3. QED
      BY <2>1, <2>2
  <1>3. QED
    BY <1>1, <1>2 DEF SeenBefore

\* Answers on a handler's own socket are not messages of the room.
LEMMA DirectOrder ==
    ASSUME IInv, OrderInv, stamp' = stamp, NEW c \in Conn,
           Prompt(c) \/ Welcome(c) \/ Deny(c) \/ Reply(c)
    PROVE  SeenBefore' /\ TotalOrder'
  <1> USE DEF IInv, OrderInv, TableInv
  <1>1. sock[c] \in Fd
    BY DEF SocketsSet, ThreadPc, Prompt, Welcome, Deny, Reply
  <1>2. \A k \in Direct : k \in Kinds /\ k \notin Shared
    BY DEF Kinds, Direct, Shared, Room
  <1>3. \A k \in Direct, n \in Nat :
          /\ Message0(c, k) \in Message /\ Message0(c, k).kind = k
          /\ [Message0(c, k) EXCEPT !.n = n] \in Message
          /\ [Message0(c, k) EXCEPT !.n = n].kind = k
    <2>1. <<>> \in Seq(User \cup {NoName})
      OBVIOUS
    <2>2. QED
      BY <2>1, <1>2, MessageFits DEF Message0
  <1>4. CASE Prompt(c) \/ Welcome(c) \/ Deny(c)
    <2>1. PICK k \in {"PROMPT", "AUTH_SUCCESS", "AUTH_FAILED"} :
            Deliver(sock[c], Message0(c, k))
      BY <1>4 DEF Prompt, Welcome, Deny
    <2>2. k \in Direct
      BY DEF Direct
    <2>3. QED
      BY <2>1, <2>2, <1>1, <1>2, <1>3, DeliverOrder
  <1>5. CASE Reply(c)
    <2>1. job[c].kind \in Direct /\ job[c].n \in Nat
      BY <1>5 DEF Reply, JobFits, Types, Job
    <2>2. Deliver(sock[c], [Message0(c, job[c].kind) EXCEPT !.n = job[c].n])
      BY <1>5 DEF Reply
    <2>3. QED
      BY <2>1, <2>2, <1>1, <1>2, <1>3, DeliverOrder
  <1>6. QED
    BY <1>4, <1>5

\* A scan sends the message it is numbered for, or a list.
LEMMA ScanOrder ==
    ASSUME IInv, OrderInv, stamp' = stamp, NEW c \in Conn,
           VisitAll(c) \/ VisitOne(c) \/ EndList(c)
    PROVE  SeenBefore' /\ TotalOrder'
  <1> USE DEF IInv, OrderInv
  <1>1. CASE VisitAll(c) \/ VisitOne(c)
    <2>1. /\ pc[c] = "scan" /\ idx \in Slot /\ job[c].op # "list"
          /\ \/ out' = out
             \/ Visible(idx) /\ Deliver(sock[clients[idx]], RoomMessage(c))
      BY <1>1 DEF VisitAll, VisitOne, Scanning
    <2>2. RoomMessage(c) \in Message /\ RoomMessage(c).n = stamp
      <3>1. job[c].kind \in Kinds /\ job[c].n \in Nat /\ job[c].n = stamp
        BY <2>1 DEF JobFits, Types, Job, Kinds, ScanIsLast
      <3>2. <<>> \in Seq(User \cup {NoName})
        OBVIOUS
      <3>3. RoomMessage(c) \in Message
        BY <3>1, <3>2, MessageFits DEF RoomMessage
      <3>4. RoomMessage(c).n = job[c].n
        BY DEF RoomMessage, Message0
      <3>5. QED
        BY <3>1, <3>3, <3>4
    <2>3. CASE out' = out
      BY <2>3, OutKept
    <2>4. CASE Visible(idx) /\ Deliver(sock[clients[idx]], RoomMessage(c))
      BY <2>1, <2>2, <2>4, TableFits, DeliverOrder DEF Visible
    <2>5. QED
      BY <2>1, <2>3, <2>4
  <1>2. CASE EndList(c)
    <2> DEFINE m == [Message0(c, "USERLIST") EXCEPT !.names = acc]
    <2>1. sock[clients[id[c]]] \in Fd
      <3>1. pc[c] \in ThreadPc
        BY <1>2 DEF EndList, ScanDone, ThreadPc
      <3>2. PICK i \in Slot : clients[i] = c
        BY <3>1 DEF TableInv, TableIsLive, InTable
      <3>3. clients[id[c]] = c
        BY <3>2, NullAssumption DEF TableInv, SlotsAgree
      <3>4. QED
        BY <3>1, <3>3 DEF TableInv, SocketsSet
    <2>2. Deliver(sock[clients[id[c]]], m)
      BY <1>2 DEF EndList
    <2>3. m \in Message /\ m.kind \notin Shared
      <3>1. "USERLIST" \in Kinds /\ "USERLIST" \notin Shared
        BY DEF Kinds, Direct, Shared, Room
      <3>2. acc \in Seq(User \cup {NoName}) /\ 0 \in Nat
        BY DEF Types
      <3>3. m \in Message
        BY <3>1, <3>2, MessageFits
      <3>4. m.kind = "USERLIST"
        BY DEF Message0
      <3>5. QED
        BY <3>1, <3>3, <3>4
    <2> HIDE DEF m
    <2>4. QED
      BY <2>1, <2>2, <2>3, DeliverOrder
  <1>3. QED
    BY <1>1, <1>2

\* Who scans after a step scanned before it, in the same call.
ScansOn == \A d \in Conn : pc'[d] = "scan" => pc[d] = "scan" /\ job'[d] = job[d]

LEMMA ScansOnKeeps ==
    ASSUME ScanIsLast, ScansOn, stamp' = stamp
    PROVE  ScanIsLast'
  BY DEF ScanIsLast, ScansOn

\* A handler that goes anywhere but into a scan.
LEMMA GoneElsewhere ==
    ASSUME Types, NEW c \in Conn, NEW l, l # "scan", Goto(c, l),
           (job' = job) \/ (\E j : Call(c, j))
    PROVE  ScansOn
  <1>1. \A d \in Conn : d # c => pc'[d] = pc[d] /\ job'[d] = job[d]
    BY DEF Types, Goto, Call
  <1>2. pc'[c] = l
    BY DEF Types, Goto
  <1>3. QED
    BY <1>1, <1>2 DEF ScansOn

\* Steps that send nothing and number nothing.
LEMMA SilentOrder ==
    ASSUME IInv, OrderInv, ScansOn, UNCHANGED <<out, stamp>>
    PROVE  OrderInv'
  <1>1. ScanIsLast'
    BY ScansOnKeeps DEF OrderInv
  <1>2. SeenBefore' /\ TotalOrder'
    BY OutKept DEF OrderInv, IInv, Types
  <1>3. QED
    BY <1>1, <1>2 DEF OrderInv

\* A scan begins when no other is under way, with the next number.
LEMMA LockOrder ==
    ASSUME IInv, OrderInv, NEW c \in Conn, Lock(c)
    PROVE  OrderInv'
  <1> USE DEF IInv, OrderInv
  <1>1. /\ mutex = NULL /\ UNCHANGED out /\ stamp' \in {stamp, stamp + 1}
        /\ pc' = [pc EXCEPT ![c] = "scan"]
        /\ job' = [job EXCEPT ![c] = [job[c] EXCEPT !.n = stamp']]
    BY DEF Lock, Acquire, Goto, Call
  <1>2. \A d \in Conn : d # c => pc'[d] # "scan"
    BY <1>1, NullAssumption DEF MutexIsScan, Types
  <1>3. job'[c].n = stamp'
    BY <1>1 DEF Types, Job
  <1>4. ScanIsLast'
    BY <1>2, <1>3 DEF ScanIsLast
  <1>5. SeenBefore' /\ TotalOrder'
    BY <1>1, OutKept
  <1>6. QED
    BY <1>4, <1>5

LEMMA OrderStep ==
    ASSUME IInv, OrderInv, [Next]_vars
    PROVE  OrderInv'
  <1> USE DEF IInv, OrderInv, ghostVars
  <1>1. CASE UNCHANGED vars
    BY <1>1, SilentOrder DEF vars, ScansOn
  <1>2. CASE Main
    <2>1. UNCHANGED <<out, stamp, job>>
      BY <1>2 DEF Main, MainAccept, MainNoMemory, MainFull, MainAdd, MainSpawn,
                  MainSpawnFails, MainRemove, MainUndo
    <2>2. \/ pc' = pc
          \/ \E c \in Conn : \E l \in {"main", "hello", "gone"} : Goto(c, l)
      <3>1. CASE \E c \in Conn : MainAccept(c)
        BY <3>1 DEF MainAccept, Goto
      <3>2. CASE MainNoMemory \/ MainFull \/ MainAdd \/ MainSpawnFails \/ MainRemove
        BY <3>2 DEF MainNoMemory, MainFull, MainAdd, MainSpawnFails, MainRemove
      <3>3. CASE MainSpawn \/ MainUndo
        <4>1. cur \in Conn
          BY <3>3, NullAssumption
             DEF MainSpawn, MainUndo, TableInv, MainHolds, Types
        <4>2. QED
          BY <3>3, <4>1 DEF MainSpawn, MainUndo, Goto
      <3>4. QED
        BY <1>2, <3>1, <3>2, <3>3 DEF Main
    <2>3. ScansOn
      <3>1. CASE pc' = pc
        BY <3>1, <2>1 DEF ScansOn
      <3>2. CASE \E c \in Conn : \E l \in {"main", "hello", "gone"} : Goto(c, l)
        BY <3>2, <2>1, GoneElsewhere
      <3>3. QED
        BY <2>2, <3>1, <3>2
    <2>4. QED
      BY <2>1, <2>3, SilentOrder
  <1>3. ASSUME NEW c \in Conn, Peer(c)
        PROVE  OrderInv'
    <2>1. UNCHANGED <<out, stamp, job>>
      BY <1>3 DEF Peer, PeerConnect, PeerSend, PeerClose, PeerResume
    <2>2. (pc' = pc) \/ Goto(c, "backlog")
      BY <1>3 DEF Peer, PeerConnect, PeerSend, PeerClose, PeerResume, Goto
    <2>3. ScansOn
      BY <2>1, <2>2, GoneElsewhere DEF ScansOn
    <2>4. QED
      BY <2>1, <2>3, SilentOrder
  <1>4. ASSUME NEW c \in Conn, Login(c)
        PROVE  OrderInv'
    <2>1. UNCHANGED <<out, stamp, job>>
      BY <1>4 DEF Login, RecvUser, AuthFails, RecvPassword
    <2>2. \E l \in {"ask", "deny", "setauth"} : Goto(c, l)
      BY <1>4 DEF Login, RecvUser, AuthFails, RecvPassword
    <2>3. ScansOn
      BY <2>1, <2>2, GoneElsewhere
    <2>4. QED
      BY <2>1, <2>3, SilentOrder
  <1>5. ASSUME NEW c \in Conn, Thread(c)
        PROVE  OrderInv'
    <2>1. CASE Prompt(c) \/ Welcome(c) \/ Deny(c) \/ Reply(c)
      <3>1. stamp' = stamp
        BY <2>1 DEF Prompt, Welcome, Deny, Reply
      <3>2. /\ (job' = job) \/ (\E j : Call(c, j))
            /\ \E l \in ThreadPc \ {"scan"} : Goto(c, l)
        BY <2>1 DEF Prompt, Welcome, Deny, Reply, Leave, ThreadPc
      <3>3. ScansOn
        BY <3>2, GoneElsewhere
      <3>4. QED
        BY <2>1, <3>1, <3>3, DirectOrder, ScansOnKeeps
    <2>2. CASE SetAuthenticated(c) \/ RecvEnd(c) \/ Close(c) \/ Remove(c)
      <3>1. UNCHANGED <<out, stamp>>
        BY <2>2 DEF SetAuthenticated, RecvEnd, Close, Remove
      <3>2. /\ (job' = job) \/ (\E j : Call(c, j))
            /\ \E l \in Pc \ {"scan"} : Goto(c, l)
        BY <2>2 DEF SetAuthenticated, RecvEnd, Close, Remove, Leave, Pc, ThreadPc
      <3>3. QED
        BY <3>1, <3>2, GoneElsewhere, SilentOrder
    <2>3. CASE RecvLine(c)
      <3>1. UNCHANGED <<out, stamp>>
        BY <2>3 DEF RecvLine
      <3>2. /\ \E j : Call(c, j)
            /\ \E l \in {"recv", "lock", "reply"} : Goto(c, l)
        BY <2>3, RecvOutcome
      <3>3. QED
        BY <3>1, <3>2, GoneElsewhere, SilentOrder
    <2>4. CASE Lock(c)
      BY <2>4, LockOrder
    <2>5. CASE VisitList(c)
      <3>1. UNCHANGED <<out, stamp, pc, job>>
        BY <2>5 DEF VisitList
      <3>2. QED
        BY <3>1, SilentOrder DEF ScansOn
    <2>6. CASE VisitAll(c) \/ VisitOne(c)
      <3>1. UNCHANGED <<stamp, pc, job>>
        BY <2>6 DEF VisitAll, VisitOne
      <3>2. QED
        BY <2>6, <3>1, ScanOrder, ScansOnKeeps DEF ScansOn
    <2>7. CASE EndList(c)
      <3>1. stamp' = stamp /\ (\E j : Call(c, j)) /\ Goto(c, "recv")
        BY <2>7 DEF EndList
      <3>2. ScansOn
        BY <3>1, GoneElsewhere
      <3>3. QED
        BY <2>7, <3>1, <3>2, ScanOrder, ScansOnKeeps
    <2>8. CASE EndAll(c) \/ EndOne(c)
      <3>1. UNCHANGED <<out, stamp>>
        BY <2>8 DEF EndAll, EndOne
      <3>2. /\ \E j : Call(c, j)
            /\ \E l \in {"close", "recv", "reply"} : Goto(c, l)
        BY <2>8 DEF EndAll, EndOne
      <3>3. QED
        BY <3>1, <3>2, GoneElsewhere, SilentOrder
    <2>9. QED
      BY <1>5, <2>1, <2>2, <2>3, <2>4, <2>5, <2>6, <2>7, <2>8 DEF Thread
  <1>6. QED
    BY <1>1, <1>2, <1>3, <1>4, <1>5 DEF Next, Quiet

\* All peers see broadcasts and private messages in one order, whichever
\* handlers sent them, however many there are and whatever sends fail.
THEOREM OrderCorrect == Spec => []TotalOrder
  <1>1. Init => OrderInv
    <2> SUFFICES ASSUME Init PROVE OrderInv
      OBVIOUS
    <2>1. \A d \in Conn : out[d] = <<>> /\ pc[d] = "off"
      BY DEF Init
    <2>2. \A d \in Conn : Seen(d, Shared) = {}
      BY <2>1 DEF Seen
    <2>3. QED
      BY <2>1, <2>2 DEF OrderInv, ScanIsLast, SeenBefore, TotalOrder
  <1>2. IInv /\ OrderInv /\ [Next]_vars => OrderInv'
    BY OrderStep
  <1>3. OrderInv => TotalOrder
    BY DEF OrderInv
  <1>4. QED
    BY <1>1, <1>2, <1>3, Invariant, PTL DEF Spec

=============================================================================
