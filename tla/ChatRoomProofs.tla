--------------------------- MODULE ChatRoomProofs ---------------------------
(***************************************************************************)
(* The chat server implements the room of ChatRoom: threads, descriptors,   *)
(* table and mutex amount to one message published at a time.               *)
(***************************************************************************)
EXTENDS ChatServerProofs

\* Whoever has received a message of the room has received a last one.
HasLast ==
    \A d \in Conn : Seen(d, Shared) # {} =>
        \E i \in Seen(d, Shared) : \A j \in Seen(d, Shared) : j <= i

-----------------------------------------------------------------------------
(* The last message a client received.                                      *)

LEMMA Greatest ==
    ASSUME NEW S, S \subseteq Nat, NEW i \in S, \A j \in S : j <= i
    PROVE  (CHOOSE k \in S : \A j \in S : j <= k) = i
  <1> DEFINE k == CHOOSE k \in S : \A j \in S : j <= k
  <1>1. k \in S /\ \A j \in S : j <= k
    OBVIOUS
  <1> HIDE DEF k
  <1>2. k = i
    BY <1>1
  <1>3. QED
    BY <1>2 DEF k

\* The receipts of a client whose stream did not change.
LEMMA LastKept ==
    ASSUME NEW d \in Conn, out'[d] = out[d]
    PROVE  LastSeen(d)' = LastSeen(d) /\ Seen(d, Shared)' = Seen(d, Shared)
  BY DEF LastSeen, Seen

\* One more message on a stream is the last of the room if it is of the room.
LEMMA LastAppended ==
    ASSUME Types, HasLast, NEW d \in Conn, NEW m \in Message,
           out' = [out EXCEPT ![d] = Append(@, m)]
    PROVE  /\ HasLast'
           /\ \A e \in Conn \ {d} : LastSeen(e)' = LastSeen(e)
           /\ LastSeen(d)' = IF m.kind \in Shared THEN m.n ELSE LastSeen(d)
  <1> DEFINE s == out[d]
  <1>1. s \in Seq(Message)
    BY DEF Types
  <1>2. /\ out'[d] = Append(s, m)
        /\ \A e \in Conn \ {d} : out'[e] = out[e]
    BY DEF Types
  <1>3. /\ DOMAIN Append(s, m) = 1 .. Len(s) + 1 /\ DOMAIN s = 1 .. Len(s)
        /\ Len(s) \in Nat /\ Append(s, m)[Len(s) + 1] = m
        /\ \A i \in 1 .. Len(s) : Append(s, m)[i] = s[i]
    BY <1>1
  <1>0. Seen(d, Shared) \subseteq Nat /\ Seen(d, Shared)' \subseteq Nat
    BY <1>2, <1>3 DEF Seen
  <1>4. ASSUME NEW e \in Conn \ {d}
        PROVE  LastSeen(e)' = LastSeen(e) /\ Seen(e, Shared)' = Seen(e, Shared)
    BY <1>2, LastKept
  <1>5. CASE m.kind \in Shared
    <2>1. Len(s) + 1 \in Seen(d, Shared)' /\ out'[d][Len(s) + 1] = m
      BY <1>2, <1>3, <1>5 DEF Seen
    <2>2. \A j \in Seen(d, Shared)' : j <= Len(s) + 1
      BY <1>2, <1>3 DEF Seen
    <2>3. LastSeen(d)' = out'[d][Len(s) + 1].n
      <3>1. Len(s) + 1 = CHOOSE k \in Seen(d, Shared)' :
                            \A j \in Seen(d, Shared)' : j <= k
        BY <1>0, <2>1, <2>2, Greatest
      <3>2. QED
        BY <2>1, <3>1 DEF LastSeen
    <2>4. HasLast'
      BY <1>4, <2>1, <2>2 DEF HasLast
    <2>5. QED
      BY <1>4, <1>5, <2>1, <2>3, <2>4
  <1>6. CASE m.kind \notin Shared
    <2>1. Seen(d, Shared)' = Seen(d, Shared)
      BY <1>2, <1>3, <1>6 DEF Seen
    <2>2. HasLast'
      BY <1>4, <2>1 DEF HasLast
    <2>3. LastSeen(d)' = LastSeen(d)
      <3>1. CASE Seen(d, Shared) = {}
        BY <2>1, <3>1 DEF LastSeen
      <3>2. CASE Seen(d, Shared) # {}
        <4>1. PICK i \in Seen(d, Shared) : \A j \in Seen(d, Shared) : j <= i
          BY <3>2 DEF HasLast
        <4>2. i = CHOOSE k \in Seen(d, Shared) : \A j \in Seen(d, Shared) : j <= k
          BY <1>0, <4>1, Greatest
        <4>3. LastSeen(d) = out[d][i].n
          BY <3>2, <4>2 DEF LastSeen
        <4>4. LastSeen(d)' = out'[d][i].n
          BY <2>1, <3>2, <4>2 DEF LastSeen
        <4>5. out'[d][i] = out[d][i]
          BY <1>2, <1>3 DEF Seen
        <4>6. QED
          BY <4>3, <4>4, <4>5
      <3>3. QED
        BY <3>1, <3>2
    <2>4. QED
      BY <1>4, <1>6, <2>2, <2>3
  <1>7. QED
    BY <1>5, <1>6

LEMMA LastOutKept ==
    ASSUME HasLast, out' = out
    PROVE  HasLast' /\ \A d \in Conn : LastSeen(d)' = LastSeen(d)
  BY DEF HasLast, Seen, LastSeen

-----------------------------------------------------------------------------
(* The room, step by step.                                                  *)

RoomStep == [Abstract!RoomNext]_(Abstract!room)

\* Speaker depends on the mutex and on the call of the handler that holds it.
LEMMA SpeakerKept ==
    ASSUME IInv, mutex' = mutex,
           \A c \in Conn : pc[c] = "scan" => job'[c].op = job[c].op
    PROVE  Speaker' = Speaker
  <1>1. \A c \in Conn : mutex = c => job'[c].op = job[c].op
    BY DEF IInv, MutexIsScan
  <1>2. QED
    BY <1>1 DEF Speaker

LEMMA Stutters ==
    ASSUME HasLast, UNCHANGED <<up, out, stamp>>, Speaker' = Speaker
    PROVE  RoomStep /\ HasLast'
  <1>1. [d \in Conn |-> LastSeen(d)]' = [d \in Conn |-> LastSeen(d)]
    BY LastOutKept
  <1>2. UNCHANGED Abstract!room
    BY <1>1 DEF Abstract!room
  <1>3. QED
    BY <1>2, LastOutKept DEF RoomStep

\* A send that is not of the room, on any descriptor.
LEMMA DirectSends ==
    ASSUME IInv, HasLast, up, NEW f \in Fd, NEW m \in Message,
           m.kind \notin Shared, Deliver(f, m), stamp' = stamp, Speaker' = Speaker
    PROVE  RoomStep /\ HasLast'
  <1>1. CASE out' = out /\ up' = up
    BY <1>1, Stutters
  <1>2. CASE out' = out /\ up' # up
    <2>1. up' = FALSE
      BY <1>2 DEF Deliver
    <2>2. [d \in Conn |-> LastSeen(d)]' = [d \in Conn |-> LastSeen(d)]
      BY <1>2, LastOutKept
    <2>3. Abstract!Collapse
      BY <2>1, <2>2 DEF Abstract!Collapse
    <2>4. QED
      BY <1>2, <2>3, LastOutKept DEF RoomStep, Abstract!RoomNext
  <1>3. CASE out' # out
    <2>1. /\ owner[f] \in Conn /\ up' = up
          /\ out' = [out EXCEPT ![owner[f]] = Append(@, m)]
      BY <1>3 DEF Deliver, IInv, Types
    <2>2. HasLast' /\ \A d \in Conn : LastSeen(d)' = LastSeen(d)
      BY <2>1, LastAppended DEF IInv
    <2>3. [d \in Conn |-> LastSeen(d)]' = [d \in Conn |-> LastSeen(d)]
      BY <2>2
    <2>4. UNCHANGED Abstract!room
      BY <2>1, <2>3 DEF Abstract!room
    <2>5. QED
      BY <2>2, <2>4 DEF RoomStep
  <1>4. QED
    BY <1>1, <1>2, <1>3

\* A send of the message that is being published.
LEMMA RoomSends ==
    ASSUME IInv, HasLast, up, NEW f \in Fd, NEW m \in Message,
           m.kind \in Shared, m.n = stamp, Deliver(f, m), stamp' = stamp,
           Speaker' = Speaker, Speaker # NULL
    PROVE  RoomStep /\ HasLast'
  <1>1. CASE out' = out /\ up' = up
    BY <1>1, Stutters
  <1>2. CASE out' = out /\ up' # up
    <2>1. up' = FALSE
      BY <1>2 DEF Deliver
    <2>2. [d \in Conn |-> LastSeen(d)]' = [d \in Conn |-> LastSeen(d)]
      BY <1>2, LastOutKept
    <2>3. Abstract!Collapse
      BY <2>1, <2>2 DEF Abstract!Collapse
    <2>4. QED
      BY <1>2, <2>3, LastOutKept DEF RoomStep, Abstract!RoomNext
  <1>3. CASE out' # out
    <2>1. PICK e \in Conn : up' = up /\ out' = [out EXCEPT ![e] = Append(@, m)]
      BY <1>3 DEF Deliver, IInv, Types
    <2>2. /\ HasLast' /\ LastSeen(e)' = stamp
          /\ \A d \in Conn \ {e} : LastSeen(d)' = LastSeen(d)
      BY <2>1, LastAppended DEF IInv
    <2>3. [d \in Conn |-> LastSeen(d)]'
            = [[d \in Conn |-> LastSeen(d)] EXCEPT ![e] = stamp]
      <3>1. [d \in Conn |-> LastSeen(d)'] = [d \in Conn |->
               IF d = e THEN stamp ELSE LastSeen(d)]
        BY <2>2
      <3>2. QED
        BY <3>1
    <2>4. Abstract!Receive(e)
      BY <2>1, <2>3 DEF Abstract!Receive
    <2>5. QED
      BY <2>1, <2>2, <2>4 DEF RoomStep, Abstract!RoomNext
  <1>4. QED
    BY <1>1, <1>2, <1>3

-----------------------------------------------------------------------------
(* The steps of the server.                                                 *)

\* A scan takes the floor with the mutex, unless it only lists the members.
LEMMA LockBegins ==
    ASSUME IInv, HasLast, up, NEW c \in Conn, Lock(c)
    PROVE  RoomStep /\ HasLast'
  <1>1. /\ mutex = NULL /\ mutex' = c /\ up' = up /\ out' = out
        /\ stamp' = IF job[c].op = "list" THEN stamp ELSE stamp + 1
    BY DEF Lock, Acquire
  <1>2. job'[c].op = job[c].op /\ job[c].op \in {"all", "list", "one"}
    <2>1. job' = [job EXCEPT ![c] = [job[c] EXCEPT !.n = stamp']] /\ pc[c] = "lock"
      BY DEF Lock, Call
    <2>2. job[c] \in Job /\ job'[c] = [job[c] EXCEPT !.n = stamp']
      BY <2>1 DEF IInv, Types
    <2>3. job'[c].op = job[c].op
      BY <2>2 DEF Job
    <2>4. QED
      BY <2>1, <2>3 DEF IInv, JobFits
  <1>3. Speaker = NULL
    BY <1>1, NullAssumption DEF Speaker
  <1>4. CASE job[c].op = "list"
    <2>1. Speaker' = NULL
      BY <1>1, <1>2, <1>4 DEF Speaker
    <2>2. QED
      BY <1>1, <1>3, <1>4, <2>1, Stutters
  <1>5. CASE job[c].op # "list"
    <2>1. Speaker' = c
      BY <1>1, <1>2, <1>5 DEF Speaker
    <2>2. [d \in Conn |-> LastSeen(d)]' = [d \in Conn |-> LastSeen(d)]
      BY <1>1, LastOutKept
    <2>3. Abstract!Begin(c)
      BY <1>1, <1>3, <1>5, <2>1, <2>2 DEF Abstract!Begin
    <2>4. QED
      BY <1>1, <2>3, LastOutKept DEF RoomStep, Abstract!RoomNext
  <1>6. QED
    BY <1>4, <1>5

\* One turn of a scan that sends: its message has the floor.
LEMMA VisitReceives ==
    ASSUME IInv, OrderInv, HasLast, up, NEW c \in Conn, VisitAll(c) \/ VisitOne(c)
    PROVE  RoomStep /\ HasLast'
  <1> USE DEF IInv
  <1>1. /\ pc[c] = "scan" /\ idx \in Slot /\ job[c].op \in {"all", "one"}
        /\ UNCHANGED <<mutex, job, stamp>>
        /\ \/ UNCHANGED <<up, out>>
           \/ Visible(idx) /\ Deliver(sock[clients[idx]], RoomMessage(c))
    BY DEF VisitAll, VisitOne, Scanning, ghostVars
  <1>2. Speaker' = Speaker /\ Speaker # NULL
    <2>1. mutex = c
      BY <1>1 DEF MutexIsScan
    <2>2. QED
      BY <1>1, <2>1, NullAssumption DEF Speaker
  <1>3. CASE UNCHANGED <<up, out>>
    BY <1>1, <1>2, <1>3, Stutters
  <1>4. CASE Visible(idx) /\ Deliver(sock[clients[idx]], RoomMessage(c))
    <2>1. /\ job[c].kind \in Kinds /\ job[c].kind \in Shared
          /\ job[c].n \in Nat /\ job[c].n = stamp
      BY <1>1 DEF JobFits, Types, Job, Kinds, Shared, OrderInv, ScanIsLast
    <2>2. RoomMessage(c) \in Message
      <3>1. <<>> \in Seq(User \cup {NoName})
        OBVIOUS
      <3>2. QED
        BY <2>1, <3>1, MessageFits DEF RoomMessage
    <2>3. RoomMessage(c).n = stamp /\ RoomMessage(c).kind \in Shared
      BY <2>1 DEF RoomMessage, Message0
    <2>4. sock[clients[idx]] \in Fd
      BY <1>1, <1>4, TableFits DEF Visible
    <2>5. QED
      BY <1>1, <1>2, <1>4, <2>2, <2>3, <2>4, RoomSends
  <1>5. QED
    BY <1>1, <1>3, <1>4

\* The answers of a handler on its own socket, the list among them.
LEMMA AnswerIsSilent ==
    ASSUME IInv, HasLast, up, NEW c \in Conn,
           Prompt(c) \/ Welcome(c) \/ Deny(c) \/ Reply(c)
    PROVE  RoomStep /\ HasLast'
  <1> USE DEF IInv
  <1>1. sock[c] \in Fd
    BY DEF TableInv, SocketsSet, ThreadPc, Prompt, Welcome, Deny, Reply
  <1>2. /\ stamp' = stamp /\ mutex' = mutex /\ pc[c] # "scan"
        /\ (job' = job) \/ (\E j : Call(c, j))
    BY DEF Prompt, Welcome, Deny, Reply, Leave, scanVars, ghostVars
  <1>3. Speaker' = Speaker
    <2>1. \A d \in Conn : pc[d] = "scan" => job'[d] = job[d]
      BY <1>2 DEF Call, Types
    <2>2. QED
      BY <1>2, <2>1, SpeakerKept
  <1>4. PICK m \in Message : m.kind \notin Shared /\ Deliver(sock[c], m)
    <2>1. <<>> \in Seq(User \cup {NoName})
      OBVIOUS
    <2>2. \A k \in Direct : k \in Kinds /\ k \notin Shared
      BY DEF Kinds, Direct, Shared, Room
    <2>3. CASE Prompt(c) \/ Welcome(c) \/ Deny(c)
      <3>1. PICK k \in {"PROMPT", "AUTH_SUCCESS", "AUTH_FAILED"} :
              Deliver(sock[c], Message0(c, k))
        BY <2>3 DEF Prompt, Welcome, Deny
      <3>2. k \in Direct
        BY DEF Direct
      <3>3. Message0(c, k) \in Message /\ Message0(c, k).kind = k
        BY <2>1, <2>2, <3>2, MessageFits DEF Message0
      <3>4. QED
        BY <2>2, <3>1, <3>2, <3>3
    <2>4. CASE Reply(c)
      <3> DEFINE m == [Message0(c, job[c].kind) EXCEPT !.n = job[c].n]
      <3>1. job[c].kind \in Direct /\ job[c].n \in Nat /\ Deliver(sock[c], m)
        BY <2>4 DEF Reply, JobFits, Types, Job
      <3>2. m \in Message
        BY <2>1, <2>2, <3>1, MessageFits
      <3>3. m.kind = job[c].kind
        BY DEF Message0
      <3>4. QED
        BY <2>2, <3>1, <3>2, <3>3
    <2>5. QED
      BY <2>3, <2>4
  <1>5. QED
    BY <1>1, <1>2, <1>3, <1>4, DirectSends

LEMMA ListIsSilent ==
    ASSUME IInv, HasLast, up, NEW c \in Conn, EndList(c)
    PROVE  RoomStep /\ HasLast'
  <1> USE DEF IInv
  <1> DEFINE m == [Message0(c, "USERLIST") EXCEPT !.names = acc]
  <1>1. /\ pc[c] = "scan" /\ job[c].op = "list" /\ mutex' = NULL /\ stamp' = stamp
        /\ Deliver(sock[clients[id[c]]], m)
    BY DEF EndList, ScanDone, Unlock
  <1>2. Speaker = NULL /\ Speaker' = NULL
    <2>1. mutex = c
      BY <1>1 DEF MutexIsScan
    <2>2. QED
      BY <1>1, <2>1, NullAssumption DEF Speaker
  <1>3. sock[clients[id[c]]] \in Fd
    <2>1. pc[c] \in ThreadPc
      BY <1>1 DEF ThreadPc
    <2>2. PICK i \in Slot : clients[i] = c
      BY <2>1 DEF TableInv, TableIsLive, InTable
    <2>3. clients[id[c]] = c
      BY <2>2, NullAssumption DEF TableInv, SlotsAgree
    <2>4. QED
      BY <2>1, <2>3 DEF TableInv, SocketsSet
  <1>4. m \in Message /\ m.kind \notin Shared
    <2>1. "USERLIST" \in Kinds /\ "USERLIST" \notin Shared
      BY DEF Kinds, Direct, Shared, Room
    <2>2. acc \in Seq(User \cup {NoName}) /\ 0 \in Nat
      BY DEF Types
    <2>3. m \in Message
      BY <2>1, <2>2, MessageFits
    <2>4. m.kind = "USERLIST"
      BY DEF Message0
    <2>5. QED
      BY <2>1, <2>3, <2>4
  <1> HIDE DEF m
  <1>5. QED
    BY <1>1, <1>2, <1>3, <1>4, DirectSends

\* The end of a scan gives the floor back.
LEMMA EndEnds ==
    ASSUME IInv, HasLast, up, NEW c \in Conn, EndAll(c) \/ EndOne(c)
    PROVE  RoomStep /\ HasLast'
  <1>1. /\ pc[c] = "scan" /\ job[c].op \in {"all", "one"} /\ mutex' = NULL
        /\ UNCHANGED <<up, out, stamp>>
    BY DEF EndAll, EndOne, ScanDone, Unlock
  <1>2. Speaker = c /\ Speaker' = NULL
    <2>1. mutex = c
      BY <1>1 DEF IInv, MutexIsScan
    <2>2. QED
      BY <1>1, <2>1, NullAssumption DEF Speaker
  <1>3. [d \in Conn |-> LastSeen(d)]' = [d \in Conn |-> LastSeen(d)]
    BY <1>1, LastOutKept
  <1>4. Abstract!End
    BY <1>1, <1>2, <1>3, NullAssumption DEF Abstract!End
  <1>5. QED
    BY <1>1, <1>4, LastOutKept DEF RoomStep, Abstract!RoomNext

\* Every other step of a handler sends nothing and keeps the mutex as it is.
LEMMA ThreadRoom ==
    ASSUME IInv, OrderInv, HasLast, up, NEW c \in Conn, Thread(c)
    PROVE  RoomStep /\ HasLast'
  <1>1. CASE \/ SetAuthenticated(c) \/ RecvEnd(c) \/ RecvLine(c)
             \/ Close(c) \/ Remove(c) \/ VisitList(c)
    <2>1. UNCHANGED <<up, out, stamp, mutex>>
      BY <1>1 DEF SetAuthenticated, RecvEnd, RecvLine, Close, Remove, VisitList,
                  scanVars, ghostVars
    <2>2. (job' = job) \/ (pc[c] # "scan" /\ \E j : Call(c, j))
      <3>1. CASE RecvLine(c)
        BY <3>1, RecvOutcome DEF IInv
      <3>2. CASE RecvEnd(c)
        BY <3>2 DEF RecvEnd, Leave
      <3>3. CASE SetAuthenticated(c) \/ Close(c) \/ Remove(c) \/ VisitList(c)
        BY <3>3 DEF SetAuthenticated, Close, Remove, VisitList
      <3>4. QED
        BY <1>1, <3>1, <3>2, <3>3
    <2>3. \A d \in Conn : pc[d] = "scan" => job'[d] = job[d]
      BY <2>2 DEF Call, IInv, Types
    <2>4. QED
      BY <2>1, <2>3, SpeakerKept, Stutters
  <1>2. CASE Prompt(c) \/ Welcome(c) \/ Deny(c) \/ Reply(c)
    BY <1>2, AnswerIsSilent
  <1>3. CASE Lock(c) \/ VisitAll(c) \/ VisitOne(c)
    BY <1>3, LockBegins, VisitReceives
  <1>4. CASE EndAll(c) \/ EndOne(c) \/ EndList(c)
    BY <1>4, EndEnds, ListIsSilent
  <1>5. QED
    BY <1>1, <1>2, <1>3, <1>4 DEF Thread

LEMMA RoomRefined ==
    ASSUME IInv, OrderInv, HasLast, [Next]_vars
    PROVE  RoomStep /\ HasLast'
  <1>1. CASE UNCHANGED vars
    <2>1. UNCHANGED <<up, out, stamp, mutex, job>>
      BY <1>1 DEF vars, scanVars, ghostVars
    <2>2. QED
      BY <2>1, SpeakerKept, Stutters
  <1>2. CASE Main \/ \E c \in Conn : Peer(c) \/ Login(c)
    <2>1. UNCHANGED <<up, out, stamp, mutex, job>>
      <3>1. CASE Main
        BY <3>1 DEF Main, MainAccept, MainNoMemory, MainFull, MainAdd, MainSpawn,
                    MainSpawnFails, MainRemove, MainUndo, scanVars, ghostVars
      <3>2. CASE \E c \in Conn : Peer(c) \/ Login(c)
        BY <3>2 DEF Peer, PeerConnect, PeerSend, PeerClose, PeerResume, Login,
                    RecvUser, AuthFails, RecvPassword, scanVars, ghostVars
      <3>3. QED
        BY <1>2, <3>1, <3>2
    <2>2. QED
      BY <2>1, SpeakerKept, Stutters
  <1>3. ASSUME NEW c \in Conn, up, Thread(c)
        PROVE  RoomStep /\ HasLast'
    BY <1>3, ThreadRoom
  <1>4. QED
    BY <1>1, <1>2, <1>3 DEF Next, Quiet

\* ImplementsRoom: the server is an implementation of the room of ChatRoom,
\* for any number of connections, handlers and slots.  Whatever handlers and
\* main() interleave, messages are published one at a time, each client that
\* receives during a publication receives the message being published, and
\* the death of the process is the end of the room.
THEOREM RoomImplemented == Spec => ImplementsRoom
  <1>1. Init => OrderInv /\ HasLast /\ Abstract!RoomInit
    <2> SUFFICES ASSUME Init PROVE OrderInv /\ HasLast /\ Abstract!RoomInit
      OBVIOUS
    <2>1. \A d \in Conn : out[d] = <<>> /\ pc[d] = "off"
      BY DEF Init
    <2>2. \A d \in Conn : Seen(d, Shared) = {}
      BY <2>1 DEF Seen
    <2>3. OrderInv /\ HasLast
      BY <2>1, <2>2 DEF OrderInv, ScanIsLast, SeenBefore, TotalOrder, HasLast
    <2>4. up = TRUE /\ stamp = 0 /\ mutex = NULL
      BY DEF Init
    <2>5. Speaker = NULL /\ \A d \in Conn : LastSeen(d) = 0
      BY <2>2, <2>4, NullAssumption DEF Speaker, LastSeen
    <2>6. QED
      BY <2>3, <2>4, <2>5 DEF Abstract!RoomInit
  <1>2. IInv /\ OrderInv /\ HasLast /\ [Next]_vars
          => OrderInv' /\ HasLast' /\ [Abstract!RoomNext]_(Abstract!room)
    BY OrderStep, RoomRefined DEF RoomStep
  <1>3. QED
    BY <1>1, <1>2, Invariant, PTL DEF Spec, ImplementsRoom, Abstract!RoomSpec
=============================================================================
