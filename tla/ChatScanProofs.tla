--------------------------- MODULE ChatScanProofs ---------------------------
(***************************************************************************)
(* What a scan of clients[] achieves: the private message that goes to one  *)
(* connection and the answer that tells the truth about it, the broadcast   *)
(* that reaches the crowd, the list that names it.                          *)
(***************************************************************************)
EXTENDS ChatServerProofs

-----------------------------------------------------------------------------
(* What a stream gains.                                                     *)

\* Nothing of the kinds K was added to any stream.
Without(K) ==
    \A d \in Conn : /\ Seen(d, K)' = Seen(d, K)
                    /\ \A i \in Seen(d, K) : out'[d][i] = out[d][i]

\* One message m was added to the stream of e.
Gains(e, m) == out' = [out EXCEPT ![e] = Append(@, m)]

\* Streams only grow.
Grows(K) ==
    \A d \in Conn : \A i \in Seen(d, K) :
        i \in Seen(d, K)' /\ out'[d][i] = out[d][i]

LEMMA GainsOne ==
    ASSUME Types, NEW e \in Conn, NEW m \in Message, Gains(e, m), NEW K
    PROVE  /\ Grows(K)
           /\ m.kind \in K => \E i \in Seen(e, K)' : out'[e][i] = m
           /\ \A d \in Conn : \A i \in Seen(d, K)' :
                 \/ i \in Seen(d, K)
                 \/ d = e /\ i = Len(out[e]) + 1 /\ out'[d][i] = m /\ m.kind \in K
  <1> DEFINE s == out[e]
  <1>1. s \in Seq(Message)
    BY DEF Types
  <1>2. out'[e] = Append(s, m) /\ \A d \in Conn \ {e} : out'[d] = out[d]
    BY DEF Types, Gains
  <1>3. /\ DOMAIN Append(s, m) = 1 .. Len(s) + 1 /\ DOMAIN s = 1 .. Len(s)
        /\ Len(s) \in Nat /\ Append(s, m)[Len(s) + 1] = m
        /\ \A i \in 1 .. Len(s) : Append(s, m)[i] = s[i]
    BY <1>1
  <1>4. ASSUME NEW d \in Conn, d # e
        PROVE  Seen(d, K)' = Seen(d, K) /\ out'[d] = out[d]
    BY <1>2, <1>4 DEF Seen
  <1>5. \A i \in Seen(e, K) : i \in Seen(e, K)' /\ out'[e][i] = out[e][i]
    BY <1>2, <1>3 DEF Seen
  <1>6. \A i \in Seen(e, K)' :
           \/ i \in Seen(e, K)
           \/ i = Len(s) + 1 /\ out'[e][i] = m /\ m.kind \in K
    BY <1>2, <1>3 DEF Seen
  <1>7. m.kind \in K => Len(s) + 1 \in Seen(e, K)' /\ out'[e][Len(s) + 1] = m
    BY <1>2, <1>3 DEF Seen
  <1>8. Grows(K)
    BY <1>4, <1>5 DEF Grows
  <1>9. QED
    BY <1>4, <1>6, <1>7, <1>8

LEMMA GainsOther ==
    ASSUME Types, NEW e \in Conn, NEW m \in Message, Gains(e, m),
           NEW K, m.kind \notin K
    PROVE  Without(K)
  <1>1. ASSUME NEW d \in Conn
        PROVE  /\ Seen(d, K)' = Seen(d, K)
               /\ \A i \in Seen(d, K) : out'[d][i] = out[d][i]
    <2>1. \A i \in Seen(d, K) : i \in Seen(d, K)' /\ out'[d][i] = out[d][i]
      BY GainsOne DEF Grows
    <2>2. \A i \in Seen(d, K)' : i \in Seen(d, K)
      BY GainsOne
    <2>3. QED
      BY <2>1, <2>2
  <1>2. QED
    BY <1>1 DEF Without

LEMMA OutSame ==
    ASSUME out' = out, NEW K
    PROVE  Without(K)
  BY DEF Without, Seen

\* send() adds its message to the stream of the descriptor's owner, or nothing.
LEMMA DeliverGains ==
    ASSUME Types, NEW f \in Fd, NEW m, Deliver(f, m)
    PROVE  \/ out' = out
           \/ owner[f] \in Conn /\ Accepted(f) /\ Gains(owner[f], m)
  BY DEF Types, Deliver, Accepted, Gains

LEMMA DeliverOther ==
    ASSUME Types, NEW f \in Fd, NEW m \in Message, Deliver(f, m),
           NEW K, m.kind \notin K
    PROVE  Without(K)
  BY DeliverGains, GainsOther, OutSame

\* The numbers on a stream can be compared.
LEMMA NumberIsNat ==
    ASSUME Types, NEW d \in Conn, NEW K, NEW i \in Seen(d, K)
    PROVE  out[d][i].n \in Nat
  <1>1. out[d] \in Seq(Message) /\ i \in DOMAIN out[d]
    BY DEF Types, Seen
  <1>2. out[d][i] \in Message
    BY <1>1
  <1>3. QED
    BY <1>2 DEF Message

-----------------------------------------------------------------------------
(* Private messages and refusals.  A message is unsent until the scan finds *)
(* somebody, and the scan that found nobody leaves it unsent for good.      *)

Unsent(n)  == \A d \in Conn : \A i \in Seen(d, {"PRIVATE"}) : out[d][i].n # n
Refused(c) == pc[c] = "reply" /\ job[c].kind = "NOTFOUND"

OneUnsent ==
    \A c \in Conn : pc[c] = "scan" /\ job[c].op = "one" =>
        /\ idx \in Slot => ~found
        /\ ~found => Unsent(job[c].n)

RefusedBefore ==
    /\ \A d \in Conn : Refused(d) => job[d].n <= stamp
    /\ \A d \in Conn : \A i \in Seen(d, {"NOTFOUND"}) : out[d][i].n <= stamp

\* What is being sent now has not been refused.
RefusedOther ==
    \A c \in Conn : pc[c] = "scan" /\ job[c].op # "list" =>
        /\ \A d \in Conn : Refused(d) => job[d].n # stamp
        /\ \A d \in Conn : \A i \in Seen(d, {"NOTFOUND"}) : out[d][i].n # stamp

RefusedUnsent == \A c \in Conn : Refused(c) => Unsent(job[c].n)

PrivateInv ==
    /\ OneUnsent /\ RefusedBefore /\ RefusedOther /\ RefusedUnsent
    /\ PrivateToOne /\ RefusedIsUndelivered

\* Who scans or refuses after a step did so before it, in the same call.
CallsOn ==
    \A c \in Conn :
        /\ pc'[c] = "scan" => /\ pc[c] = "scan" /\ job'[c] = job[c]
                              /\ job[c].op = "one" => idx' = idx /\ found' = found
        /\ Refused(c)' => Refused(c) /\ job'[c] = job[c]

LEMMA UnsentKept ==
    ASSUME Without({"PRIVATE"}), NEW n, Unsent(n)
    PROVE  Unsent(n)'
  BY DEF Without, Unsent

\* Steps that send neither a private message nor a refusal.
LEMMA OthersKeep ==
    ASSUME PrivateInv, stamp' = stamp, CallsOn,
           Without({"PRIVATE"}), Without({"NOTFOUND"})
    PROVE  PrivateInv'
  <1> USE DEF PrivateInv
  <1>1. OneUnsent'
    <2>1. ASSUME NEW c \in Conn, pc'[c] = "scan", job'[c].op = "one"
          PROVE  (idx' \in Slot => ~found') /\ (~found' => Unsent(job[c].n)')
      BY <2>1, UnsentKept DEF OneUnsent, CallsOn
    <2>2. QED
      BY <2>1 DEF OneUnsent, CallsOn
  <1>2. RefusedBefore'
    BY DEF RefusedBefore, CallsOn, Without
  <1>3. RefusedOther'
    BY DEF RefusedOther, CallsOn, Without
  <1>4. RefusedUnsent'
    BY UnsentKept DEF RefusedUnsent, CallsOn
  <1>5. PrivateToOne'
    BY DEF PrivateToOne, Without
  <1>6. RefusedIsUndelivered'
    BY DEF RefusedIsUndelivered, Without
  <1>7. QED
    BY <1>1, <1>2, <1>3, <1>4, <1>5, <1>6

\* A handler that goes anywhere but into a scan or a refusal.
LEMMA CallsElsewhere ==
    ASSUME Types, NEW c \in Conn, NEW l, l # "scan", Goto(c, l),
           \/ (job' = job) /\ l # "reply"
           \/ \E j : Call(c, j) /\ (l = "reply" => j.kind # "NOTFOUND"),
           \A d \in Conn \ {c} : pc[d] = "scan" => idx' = idx /\ found' = found
    PROVE  CallsOn
  <1>1. \A d \in Conn : d # c => pc'[d] = pc[d] /\ job'[d] = job[d]
    BY DEF Types, Goto, Call
  <1>2. pc'[c] = l /\ (l = "reply" => job'[c].kind # "NOTFOUND")
    BY DEF Types, Goto, Call
  <1>3. QED
    BY <1>1, <1>2 DEF CallsOn, Refused

\* Steps that send nothing.
LEMMA SilentPrivate ==
    ASSUME PrivateInv, UNCHANGED <<out, stamp>>, CallsOn
    PROVE  PrivateInv'
  BY OutSame, OthersKeep

LEMMA MainPrivate ==
    ASSUME IInv, PrivateInv, Main
    PROVE  PrivateInv'
  <1> USE DEF IInv, ghostVars, scanVars
  <1>1. UNCHANGED <<out, stamp, job, idx, found>>
    BY DEF Main, MainAccept, MainNoMemory, MainFull, MainAdd, MainSpawn,
           MainSpawnFails, MainRemove, MainUndo
  <1>2. \/ pc' = pc
        \/ \E c \in Conn : \E l \in {"main", "hello", "gone"} : Goto(c, l)
    <2>1. CASE \E c \in Conn : MainAccept(c)
      BY <2>1 DEF MainAccept, Goto
    <2>2. CASE MainNoMemory \/ MainFull \/ MainAdd \/ MainSpawnFails \/ MainRemove
      BY <2>2 DEF MainNoMemory, MainFull, MainAdd, MainSpawnFails, MainRemove
    <2>3. CASE MainSpawn \/ MainUndo
      <3>1. cur \in Conn
        BY <2>3, NullAssumption
           DEF MainSpawn, MainUndo, TableInv, MainHolds, Types
      <3>2. QED
        BY <2>3, <3>1 DEF MainSpawn, MainUndo, Goto
    <2>4. QED
      BY <2>1, <2>2, <2>3 DEF Main
  <1>3. CallsOn
    <2>1. CASE pc' = pc
      BY <2>1, <1>1 DEF CallsOn, Refused
    <2>2. CASE \E c \in Conn : \E l \in {"main", "hello", "gone"} : Goto(c, l)
      BY <2>2, <1>1, CallsElsewhere
    <2>3. QED
      BY <1>2, <2>1, <2>2
  <1>4. QED
    BY <1>1, <1>3, SilentPrivate

LEMMA OutsidePrivate ==
    ASSUME IInv, PrivateInv, NEW c \in Conn,
           \/ Peer(c) \/ Login(c)
           \/ SetAuthenticated(c) \/ RecvEnd(c) \/ Close(c) \/ Remove(c)
    PROVE  PrivateInv'
  <1> USE DEF IInv, ghostVars, scanVars
  <1>1. UNCHANGED <<out, stamp, idx, found>>
    BY DEF Peer, PeerConnect, PeerSend, PeerClose, PeerResume, Login, RecvUser,
           AuthFails, RecvPassword, SetAuthenticated, RecvEnd, Close, Remove,
           RemoveClient
  <1>2. CASE Peer(c)
    <2>1. /\ job' = job
          /\ (pc' = pc) \/ Goto(c, "backlog")
      BY <1>2 DEF Peer, PeerConnect, PeerSend, PeerClose, PeerResume, Goto
    <2>2. CallsOn
      BY <1>1, <2>1, CallsElsewhere DEF CallsOn, Refused
    <2>3. QED
      BY <1>1, <2>2, SilentPrivate
  <1>3. CASE \/ Login(c) \/ SetAuthenticated(c) \/ RecvEnd(c) \/ Close(c) \/ Remove(c)
    <2>1. /\ (job' = job) \/ (\E j : Call(c, j))
          /\ \E l \in Pc \ {"scan", "reply"} : Goto(c, l)
      BY <1>3 DEF Login, RecvUser, AuthFails, RecvPassword, SetAuthenticated,
                  RecvEnd, Close, Remove, Leave, Pc, ThreadPc
    <2>2. CallsOn
      BY <1>1, <2>1, CallsElsewhere
    <2>3. QED
      BY <1>1, <2>2, SilentPrivate
  <1>4. QED
    BY <1>2, <1>3

LEMMA RecvPrivate ==
    ASSUME IInv, PrivateInv, NEW c \in Conn, RecvLine(c)
    PROVE  PrivateInv'
  <1> USE DEF IInv
  <1>1. UNCHANGED <<out, stamp, idx, found>>
    BY DEF RecvLine, scanVars, ghostVars
  <1>2. \/ \E j : \E l \in {"recv", "lock"} : Call(c, j) /\ Goto(c, l)
        \/ \E j : j.kind # "NOTFOUND" /\ Call(c, j) /\ Goto(c, "reply")
    <2>1. \A k \in {"USAGE", "HELP", "UNKNOWN"} : Answer(k).kind # "NOTFOUND"
      BY DEF Answer
    <2>2. QED
      BY <2>1, RecvOutcome
  <1>3. CallsOn
    BY <1>1, <1>2, CallsElsewhere
  <1>4. QED
    BY <1>1, <1>3, SilentPrivate

\* Answers on a handler's own socket, except a refusal.
LEMMA DirectPrivate ==
    ASSUME IInv, PrivateInv, NEW c \in Conn,
           Prompt(c) \/ Welcome(c) \/ Deny(c) \/ (Reply(c) /\ ~Refused(c))
    PROVE  PrivateInv'
  <1> USE DEF IInv, ghostVars, scanVars
  <1>1. sock[c] \in Fd
    BY DEF TableInv, SocketsSet, ThreadPc, Prompt, Welcome, Deny, Reply
  <1>2. PICK m \in Message : /\ m.kind \notin {"PRIVATE", "NOTFOUND"}
                             /\ Deliver(sock[c], m)
    <2>1. <<>> \in Seq(User \cup {NoName})
      OBVIOUS
    <2>2. \A k \in Direct : k \in Kinds /\ k # "PRIVATE"
      BY DEF Kinds, Direct
    <2>3. CASE Prompt(c) \/ Welcome(c) \/ Deny(c)
      <3>1. PICK k \in {"PROMPT", "AUTH_SUCCESS", "AUTH_FAILED"} :
              Deliver(sock[c], Message0(c, k))
        BY <2>3 DEF Prompt, Welcome, Deny
      <3>2. k \in Direct /\ k # "NOTFOUND"
        BY DEF Direct
      <3>3. Message0(c, k) \in Message /\ Message0(c, k).kind = k
        BY <2>1, <2>2, <3>2, MessageFits DEF Message0
      <3>4. QED
        BY <2>2, <3>1, <3>2, <3>3
    <2>4. CASE Reply(c) /\ ~Refused(c)
      <3> DEFINE m == [Message0(c, job[c].kind) EXCEPT !.n = job[c].n]
      <3>1. job[c].kind \in Direct /\ job[c].n \in Nat /\ Deliver(sock[c], m)
        BY <2>4 DEF Reply, JobFits, Types, Job
      <3>2. m \in Message
        BY <2>1, <2>2, <3>1, MessageFits
      <3>3. m.kind = job[c].kind /\ job[c].kind # "NOTFOUND"
        BY <2>4 DEF Message0, Refused, Reply
      <3>4. QED
        BY <2>2, <3>1, <3>2, <3>3
    <2>5. QED
      BY <2>3, <2>4
  <1>3. /\ UNCHANGED <<stamp, idx, found>>
        /\ (job' = job) \/ (\E j : Call(c, j))
        /\ \E l \in Pc \ {"scan", "reply"} : Goto(c, l)
    BY DEF Prompt, Welcome, Deny, Reply, Leave, Pc, ThreadPc
  <1>4. CallsOn
    BY <1>3, CallsElsewhere
  <1>5. Without({"PRIVATE"}) /\ Without({"NOTFOUND"})
    BY <1>1, <1>2, DeliverOther
  <1>6. QED
    BY <1>3, <1>4, <1>5, OthersKeep

\* A scan that is not for a private message, and its end.
LEMMA RoomPrivate ==
    ASSUME IInv, PrivateInv, NEW c \in Conn,
           VisitAll(c) \/ VisitList(c) \/ EndAll(c) \/ EndList(c)
    PROVE  PrivateInv'
  <1> USE DEF IInv
  <1>1. /\ pc[c] = "scan" /\ job[c].op \in {"all", "list"} /\ stamp' = stamp
        /\ \A d \in Conn : pc[d] = "scan" => d = c
    BY DEF VisitAll, VisitList, EndAll, EndList, Scanning, ScanDone, MutexIsScan,
           ghostVars
  <1>2. CallsOn
    <2>1. CASE VisitAll(c) \/ VisitList(c)
      <3>1. UNCHANGED <<pc, job>>
        BY <2>1 DEF VisitAll, VisitList
      <3>2. QED
        BY <1>1, <3>1 DEF CallsOn, Refused
    <2>2. CASE EndAll(c) \/ EndList(c)
      <3>1. /\ \E j : Call(c, j)
            /\ \E l \in {"close", "recv"} : Goto(c, l)
        BY <2>2 DEF EndAll, EndList
      <3>2. QED
        BY <1>1, <3>1, CallsElsewhere
    <2>3. QED
      BY <2>1, <2>2
  <1>3. \/ out' = out
        \/ \E f \in Fd, m \in Message : /\ m.kind \notin {"PRIVATE", "NOTFOUND"}
                                        /\ Deliver(f, m)
    <2>1. CASE VisitAll(c)
      <3>1. CASE Visible(idx) /\ Deliver(sock[clients[idx]], RoomMessage(c))
        <4>1. job[c].op = "all" /\ idx \in Slot
          BY <2>1 DEF VisitAll, Scanning
        <4>2. job[c].kind \in Room /\ job[c].n \in Nat
          BY <1>1, <4>1 DEF JobFits, Types, Job
        <4>3. RoomMessage(c) \in Message
          <5>1. <<>> \in Seq(User \cup {NoName})
            OBVIOUS
          <5>2. QED
            BY <4>2, <5>1, MessageFits DEF RoomMessage, Kinds
        <4>4. RoomMessage(c).kind = job[c].kind
          BY DEF RoomMessage, Message0
        <4>5. sock[clients[idx]] \in Fd
          BY <3>1, <4>1, TableFits DEF Visible
        <4>6. job[c].kind \notin {"PRIVATE", "NOTFOUND"}
          BY <4>2 DEF Room
        <4>7. QED
          BY <3>1, <4>3, <4>4, <4>5, <4>6
      <3>2. QED
        BY <2>1, <3>1 DEF VisitAll
    <2>2. CASE EndList(c)
      <3> DEFINE m == [Message0(c, "USERLIST") EXCEPT !.names = acc]
      <3>1. sock[clients[id[c]]] \in Fd /\ Deliver(sock[clients[id[c]]], m)
        <4>1. pc[c] \in ThreadPc
          BY <1>1 DEF ThreadPc
        <4>2. PICK i \in Slot : clients[i] = c
          BY <4>1 DEF TableInv, TableIsLive, InTable
        <4>3. clients[id[c]] = c
          BY <4>2, NullAssumption DEF TableInv, SlotsAgree
        <4>4. QED
          BY <2>2, <4>1, <4>3 DEF TableInv, SocketsSet, EndList
      <3>2. m \in Message
        <4>1. "USERLIST" \in Kinds /\ acc \in Seq(User \cup {NoName}) /\ 0 \in Nat
          BY DEF Kinds, Direct, Types
        <4>2. QED
          BY <4>1, MessageFits
      <3>3. m.kind = "USERLIST"
        BY DEF Message0
      <3> HIDE DEF m
      <3>4. QED
        BY <3>1, <3>2, <3>3
    <2>3. CASE VisitList(c) \/ EndAll(c)
      BY <2>3 DEF VisitList, EndAll
    <2>4. QED
      BY <2>1, <2>2, <2>3
  <1>4. Without({"PRIVATE"}) /\ Without({"NOTFOUND"})
    BY <1>3, DeliverOther, OutSame
  <1>5. QED
    BY <1>1, <1>2, <1>4, OthersKeep

\* A scan begins with a number that nothing bears yet.
LEMMA LockPrivate ==
    ASSUME IInv, OrderInv, PrivateInv, NEW c \in Conn, Lock(c)
    PROVE  PrivateInv'
  <1> USE DEF IInv, PrivateInv
  <1>1. /\ mutex = NULL /\ UNCHANGED out /\ found' = FALSE /\ stamp \in Nat
        /\ stamp' = IF job[c].op = "list" THEN stamp ELSE stamp + 1
        /\ pc' = [pc EXCEPT ![c] = "scan"]
        /\ job' = [job EXCEPT ![c] = [job[c] EXCEPT !.n = stamp']]
    BY DEF Lock, Acquire, Goto, Call, Types
  <1>2. \A d \in Conn : d # c => pc'[d] = pc[d] /\ pc[d] # "scan" /\ job'[d] = job[d]
    BY <1>1, NullAssumption DEF MutexIsScan, Types
  <1>3. pc'[c] = "scan" /\ job'[c].n = stamp' /\ job'[c].op = job[c].op
    BY <1>1 DEF Types, Job
  <1>4. Without({"PRIVATE"}) /\ Without({"NOTFOUND"})
    BY <1>1, OutSame
  <1>5. \A d \in Conn : Refused(d)' => Refused(d) /\ job'[d] = job[d]
    BY <1>2, <1>3 DEF Refused
  <1>6. OneUnsent'
    <2>1. CASE job[c].op = "one"
      <3>1. \A d \in Conn : \A i \in Seen(d, {"PRIVATE"}) :
               out[d][i].n <= stamp /\ out[d][i].n \in Nat
        BY NumberIsNat DEF OrderInv, SeenBefore, Seen, Shared
      <3>2. \A d \in Conn : \A i \in Seen(d, {"PRIVATE"}) : out[d][i].n # stamp'
        BY <1>1, <2>1, <3>1
      <3>3. \A d \in Conn : \A i \in Seen(d, {"PRIVATE"})' : out'[d][i].n # job'[c].n
        BY <1>3, <1>4, <3>2 DEF Without
      <3>4. Unsent(job[c].n)'
        BY <3>3 DEF Unsent
      <3>5. QED
        BY <1>1, <1>2, <3>4 DEF OneUnsent
    <2>2. CASE job[c].op # "one"
      BY <1>2, <1>3, <2>2 DEF OneUnsent
    <2>3. QED
      BY <2>1, <2>2
  <1>7. \A d \in Conn : Refused(d) => job[d].n \in Nat
    BY DEF Types, Job
  <1>8. \A d \in Conn : \A i \in Seen(d, {"NOTFOUND"}) : out[d][i].n \in Nat
    BY NumberIsNat
  <1>9. RefusedBefore'
    BY <1>1, <1>4, <1>5, <1>7, <1>8 DEF RefusedBefore, Without
  <1>10. RefusedOther'
    <2>1. ASSUME NEW b \in Conn, pc'[b] = "scan", job'[b].op # "list"
          PROVE  /\ \A d \in Conn : Refused(d)' => job'[d].n # stamp'
                 /\ \A d \in Conn : \A i \in Seen(d, {"NOTFOUND"})' :
                       out'[d][i].n # stamp'
      <3>1. stamp' = stamp + 1
        BY <1>1, <1>2, <1>3, <2>1
      <3>2. \A d \in Conn : Refused(d)' => job'[d].n # stamp'
        <4>1. ASSUME NEW d \in Conn, Refused(d)'
              PROVE  job'[d].n # stamp'
          <5>1. job'[d].n = job[d].n /\ job[d].n \in Nat /\ job[d].n <= stamp
            BY <1>5, <1>7, <4>1 DEF RefusedBefore
          <5>2. QED
            BY <1>1, <3>1, <5>1
        <4>2. QED
          BY <4>1
      <3>3. \A d \in Conn : \A i \in Seen(d, {"NOTFOUND"}) : out[d][i].n # stamp'
        BY <1>1, <1>8, <3>1 DEF RefusedBefore
      <3>4. QED
        BY <1>4, <3>2, <3>3 DEF Without
    <2>2. QED
      BY <2>1 DEF RefusedOther
  <1>11. RefusedUnsent'
    BY <1>4, <1>5, UnsentKept DEF RefusedUnsent
  <1>12. PrivateToOne' /\ RefusedIsUndelivered'
    BY <1>4 DEF PrivateToOne, RefusedIsUndelivered, Without
  <1>13. QED
    BY <1>6, <1>9, <1>10, <1>11, <1>12

\* The end of the search: a refusal if nobody was found.
LEMMA EndOnePrivate ==
    ASSUME IInv, OrderInv, PrivateInv, NEW c \in Conn, EndOne(c)
    PROVE  PrivateInv'
  <1> USE DEF IInv, PrivateInv
  <1>1. /\ pc[c] = "scan" /\ job[c].op = "one" /\ UNCHANGED <<out, stamp>>
        /\ pc' = [pc EXCEPT ![c] = "reply"]
        /\ job' = [job EXCEPT ![c] =
                     [Answer(IF found THEN "CONFIRM" ELSE "NOTFOUND")
                        EXCEPT !.n = job[c].n]]
    BY DEF EndOne, ScanDone, Goto, Call
  <1>2. \A d \in Conn : d # c => pc'[d] = pc[d] /\ pc[d] # "scan" /\ job'[d] = job[d]
    BY <1>1 DEF MutexIsScan, Types
  <1>3. /\ pc'[c] = "reply" /\ job'[c].n = job[c].n
        /\ job'[c].kind = IF found THEN "CONFIRM" ELSE "NOTFOUND"
    BY <1>1 DEF Types, Job, Answer
  <1>4. \A d \in Conn : pc'[d] # "scan"
    BY <1>2, <1>3
  <1>5. Without({"PRIVATE"}) /\ Without({"NOTFOUND"})
    BY <1>1, OutSame
  <1>6. job[c].n = stamp /\ (~found => Unsent(job[c].n))
    BY <1>1 DEF OrderInv, ScanIsLast, OneUnsent
  <1>7. \A d \in Conn : Refused(d)' =>
           \/ Refused(d) /\ job'[d] = job[d]
           \/ d = c /\ ~found
    BY <1>2, <1>3 DEF Refused
  <1>8. OneUnsent' /\ RefusedOther'
    BY <1>4 DEF OneUnsent, RefusedOther
  <1>9. RefusedBefore'
    <2>1. stamp <= stamp
      BY DEF Types
    <2>2. QED
      BY <1>1, <1>3, <1>5, <1>6, <1>7, <2>1 DEF RefusedBefore, Without
  <1>10. RefusedUnsent'
    BY <1>3, <1>5, <1>6, <1>7, UnsentKept DEF RefusedUnsent
  <1>11. PrivateToOne' /\ RefusedIsUndelivered'
    BY <1>5 DEF PrivateToOne, RefusedIsUndelivered, Without
  <1>12. QED
    BY <1>8, <1>9, <1>10, <1>11

\* A refusal goes out: nothing with its number was delivered, or will be.
LEMMA RefusePrivate ==
    ASSUME IInv, PrivateInv, NEW c \in Conn, Reply(c), Refused(c)
    PROVE  PrivateInv'
  <1> USE DEF IInv, PrivateInv
  <1> DEFINE m == [Message0(c, job[c].kind) EXCEPT !.n = job[c].n]
  <1>1. /\ sock[c] \in Fd /\ Deliver(sock[c], m)
        /\ Call(c, NoJob) /\ Goto(c, "recv")
        /\ UNCHANGED <<stamp, idx, found>>
    BY DEF TableInv, SocketsSet, ThreadPc, Reply, scanVars, ghostVars
  <1>2. m \in Message /\ m.kind = "NOTFOUND" /\ m.n = job[c].n
    <2>1. <<>> \in Seq(User \cup {NoName}) /\ job[c].kind \in Kinds /\ job[c].n \in Nat
      BY DEF Refused, Kinds, Direct, Types, Job
    <2>2. m \in Message
      BY <2>1, MessageFits
    <2>3. QED
      BY <2>2 DEF Message0, Refused
  <1> HIDE DEF m
  <1>3. CallsOn
    BY <1>1, CallsElsewhere
  <1>4. CASE out' = out
    BY <1>1, <1>3, <1>4, SilentPrivate
  <1>5. CASE out' # out
    <2>1. PICK e \in Conn : Gains(e, m)
      BY <1>1, <1>5, DeliverGains
    <2>2. Without({"PRIVATE"})
      BY <1>2, <2>1, GainsOther
    <2>3. ASSUME NEW d \in Conn, NEW i \in Seen(d, {"NOTFOUND"})'
          PROVE  \/ i \in Seen(d, {"NOTFOUND"}) /\ out'[d][i] = out[d][i]
                 \/ out'[d][i].n = job[c].n
      BY <1>2, <2>1, GainsOne DEF Grows
    <2>4. OneUnsent'
      <3>1. ASSUME NEW b \in Conn, pc'[b] = "scan", job'[b].op = "one"
            PROVE  (idx' \in Slot => ~found') /\ (~found' => Unsent(job[b].n)')
        BY <1>3, <2>2, <3>1, UnsentKept DEF OneUnsent, CallsOn
      <3>2. QED
        BY <1>3, <3>1 DEF OneUnsent, CallsOn
    <2>5. RefusedBefore'
      BY <1>1, <1>3, <2>3 DEF RefusedBefore, CallsOn
    <2>6. RefusedOther'
      BY <1>1, <1>3, <2>3 DEF RefusedOther, CallsOn
    <2>7. RefusedUnsent'
      BY <1>3, <2>2, UnsentKept DEF RefusedUnsent, CallsOn
    <2>8. PrivateToOne'
      BY <2>2 DEF PrivateToOne, Without
    <2>9. RefusedIsUndelivered'
      BY <2>2, <2>3 DEF RefusedIsUndelivered, RefusedUnsent, Unsent, Without
    <2>10. QED
      BY <2>4, <2>5, <2>6, <2>7, <2>8, <2>9
  <1>6. QED
    BY <1>4, <1>5

\* A turn of the search.  Who is found ends it, and only then is a message
\* sent, the first with its number.
LEMMA VisitOnePrivate ==
    ASSUME IInv, OrderInv, PrivateInv, NEW c \in Conn, VisitOne(c)
    PROVE  PrivateInv'
  <1> USE DEF IInv, PrivateInv
  <1>1. /\ pc[c] = "scan" /\ job[c].op = "one" /\ idx \in Slot
        /\ UNCHANGED <<pc, job, stamp>>
    BY DEF VisitOne, Scanning, ghostVars
  <1>2. \A d \in Conn : pc[d] = "scan" => d = c
    BY <1>1 DEF MutexIsScan
  <1>3. ~found /\ Unsent(job[c].n) /\ job[c].n = stamp
    BY <1>1 DEF OneUnsent, OrderInv, ScanIsLast
  <1>4. \A d \in Conn : Refused(d)' <=> Refused(d)
    BY <1>1 DEF Refused
  <1>5. CASE out' = out
    <2>1. Without({"PRIVATE"}) /\ Without({"NOTFOUND"})
      BY <1>5, OutSame
    <2>2. Unsent(job[c].n)'
      BY <1>1, <1>3, <1>5 DEF Unsent, Seen
    <2>3. idx' \in Slot => ~found'
      <3>1. idx' = MAX_CLIENTS \/ found' = found
        BY DEF VisitOne, AfterMatch
      <3>2. MAX_CLIENTS \notin Slot
        BY SlotsAssumption DEF Slot
      <3>3. QED
        BY <1>3, <3>1, <3>2
    <2>4. OneUnsent'
      BY <1>1, <1>2, <2>2, <2>3 DEF OneUnsent
    <2>5. RefusedBefore' /\ RefusedOther'
      BY <1>1, <1>4, <2>1 DEF RefusedBefore, RefusedOther, Without
    <2>6. RefusedUnsent'
      BY <1>1, <1>4, <1>5 DEF RefusedUnsent, Unsent, Seen
    <2>7. PrivateToOne' /\ RefusedIsUndelivered'
      BY <2>1 DEF PrivateToOne, RefusedIsUndelivered, Without
    <2>8. QED
      BY <2>4, <2>5, <2>6, <2>7
  <1>6. CASE out' # out
    <2> DEFINE f == sock[clients[idx]]
    <2>1. /\ Visible(idx) /\ Deliver(f, RoomMessage(c))
          /\ found' = (found \/ Accepted(f)) /\ idx' = MAX_CLIENTS
      BY <1>6 DEF VisitOne, AfterMatch
    <2>2. f \in Fd
      BY <1>1, <2>1, TableFits DEF Visible
    <2>3. RoomMessage(c) \in Message
      <3>1. <<>> \in Seq(User \cup {NoName})
        OBVIOUS
      <3>2. job[c].n \in Nat /\ job[c].kind = "PRIVATE"
        BY <1>1 DEF Types, Job, JobFits
      <3>3. QED
        BY <3>1, <3>2, MessageFits DEF RoomMessage, Kinds
    <2>4. RoomMessage(c).kind = "PRIVATE" /\ RoomMessage(c).n = stamp
      BY <1>1, <1>3 DEF RoomMessage, Message0, JobFits
    <2>5. owner[f] \in Conn /\ Accepted(f) /\ Gains(owner[f], RoomMessage(c))
      BY <1>6, <2>1, <2>2, DeliverGains
    <2> HIDE DEF f
    <2>6. found' /\ idx' \notin Slot
      <3>1. found'
        BY <2>1, <2>5, Zenon
      <3>2. idx' \notin Slot
        BY <2>1, SlotsAssumption DEF Slot
      <3>3. QED
        BY <3>1, <3>2
    <2>7. PICK e \in Conn : Gains(e, RoomMessage(c))
      BY <2>5
    <2>8. Without({"NOTFOUND"})
      BY <2>3, <2>4, <2>7, GainsOther
    <2>9. ASSUME NEW d \in Conn, NEW i \in Seen(d, {"PRIVATE"})'
          PROVE  \/ i \in Seen(d, {"PRIVATE"}) /\ out'[d][i] = out[d][i]
                 \/ d = e /\ i = Len(out[e]) + 1 /\ out'[d][i].n = stamp
      BY <2>3, <2>4, <2>7, GainsOne DEF Grows
    <2>10. \A d \in Conn : \A i \in Seen(d, {"PRIVATE"}) : out[d][i].n # stamp
      BY <1>3 DEF Unsent
    <2>11. OneUnsent'
      BY <1>1, <1>2, <2>6 DEF OneUnsent
    <2>12. RefusedBefore' /\ RefusedOther'
      BY <1>1, <1>4, <2>8 DEF RefusedBefore, RefusedOther, Without
    <2>13. RefusedUnsent'
      <3>1. ASSUME NEW b \in Conn, Refused(b), NEW d \in Conn,
                   NEW i \in Seen(d, {"PRIVATE"})'
            PROVE  out'[d][i].n # job'[b].n
        <4>1. job[b].n # stamp /\ Unsent(job[b].n) /\ job'[b] = job[b]
          BY <1>1, <3>1 DEF RefusedOther, RefusedUnsent
        <4>2. QED
          BY <2>9, <4>1 DEF Unsent
      <3>2. QED
        BY <1>4, <3>1 DEF RefusedUnsent, Unsent
    <2>14. PrivateToOne'
      BY <2>9, <2>10 DEF PrivateToOne
    <2>15. RefusedIsUndelivered'
      <3>1. \A d \in Conn : \A i \in Seen(d, {"NOTFOUND"}) : out[d][i].n # stamp
        BY <1>1 DEF RefusedOther
      <3>2. QED
        BY <2>8, <2>9, <3>1 DEF RefusedIsUndelivered, Without
    <2>16. QED
      BY <2>11, <2>12, <2>13, <2>14, <2>15
  <1>7. QED
    BY <1>5, <1>6

LEMMA PrivateStep ==
    ASSUME IInv, OrderInv, PrivateInv, [Next]_vars
    PROVE  PrivateInv'
  <1>1. CASE UNCHANGED vars
    <2>1. UNCHANGED <<out, stamp, pc, job, idx, found>>
      BY <1>1 DEF vars, scanVars, ghostVars
    <2>2. QED
      BY <2>1, SilentPrivate DEF CallsOn, Refused
  <1>2. CASE Main
    BY <1>2, MainPrivate
  <1>3. ASSUME NEW c \in Conn, Peer(c) \/ Login(c)
        PROVE  PrivateInv'
    BY <1>3, OutsidePrivate
  <1>4. ASSUME NEW c \in Conn, Thread(c)
        PROVE  PrivateInv'
    BY <1>4, OutsidePrivate, RecvPrivate, DirectPrivate, RefusePrivate, RoomPrivate,
       LockPrivate, VisitOnePrivate, EndOnePrivate DEF Thread
  <1>5. QED
    BY <1>1, <1>2, <1>3, <1>4 DEF Next, Quiet

LEMMA PrivateInvariant == Spec => [](OrderInv /\ PrivateInv)
  <1>1. Init => OrderInv /\ PrivateInv
    <2> SUFFICES ASSUME Init PROVE OrderInv /\ PrivateInv
      OBVIOUS
    <2>1. \A d \in Conn : out[d] = <<>> /\ pc[d] = "off"
      BY DEF Init
    <2>2. \A d \in Conn : \A K : Seen(d, K) = {}
      BY <2>1 DEF Seen
    <2>3. OrderInv
      BY <2>1, <2>2 DEF OrderInv, ScanIsLast, SeenBefore, TotalOrder
    <2>4. PrivateInv
      BY <2>1, <2>2 DEF PrivateInv, OneUnsent, RefusedBefore, RefusedOther,
         RefusedUnsent, Refused, PrivateToOne, RefusedIsUndelivered
    <2>5. QED
      BY <2>3, <2>4
  <1>2. IInv /\ OrderInv /\ PrivateInv /\ [Next]_vars => (OrderInv /\ PrivateInv)'
    BY OrderStep, PrivateStep
  <1>3. QED
    BY <1>1, <1>2, Invariant, PTL DEF Spec

\* One /msg is delivered to one connection and once, however many are logged
\* in under the name it is for.
THEOREM PrivateCorrect == Spec => []PrivateToOne
  <1>1. PrivateInv => PrivateToOne
    BY DEF PrivateInv
  <1>2. QED
    BY <1>1, PrivateInvariant, PTL

\* "User not found or offline" is the truth: the message it answers was not
\* delivered to anybody, and never will be.
THEOREM RefusalCorrect == Spec => []RefusedIsUndelivered
  <1>1. PrivateInv => RefusedIsUndelivered
    BY DEF PrivateInv
  <1>2. QED
    BY <1>1, PrivateInvariant, PTL

-----------------------------------------------------------------------------
(* The room during a scan: nobody in it leaves the table or changes his      *)
(* connection, or his name once his login is over.                          *)

Early == {"off", "backlog", "main", "hello", "user", "ask", "pass"}

\* The flag is raised at the end of a login, and it is never cleared.
FlagLast == \A c \in Conn : authenticated[c] => pc[c] \notin Early

\* No thread goes back to the login.
StaysEarly == \A c \in Conn : pc'[c] \in Early => pc[c] \in Early

LEMMA EarlyStep ==
    ASSUME IInv, [Next]_vars
    PROVE  StaysEarly
  <1> USE DEF IInv, Early, StaysEarly
  <1>1. CASE UNCHANGED vars
    BY <1>1 DEF vars
  <1>2. CASE Main
    <2>1. ASSUME NEW c \in Conn, MainAccept(c)
          PROVE  StaysEarly
      BY <2>1 DEF MainAccept, Types
    <2>2. CASE MainNoMemory \/ MainFull \/ MainAdd \/ MainSpawnFails \/ MainRemove
      BY <2>2 DEF MainNoMemory, MainFull, MainAdd, MainSpawnFails, MainRemove
    <2>3. CASE MainSpawn \/ MainUndo
      <3>1. cur \in Conn /\ pc[cur] = "main"
        BY <2>3, NullAssumption
           DEF MainSpawn, MainUndo, TableInv, MainHolds, Types
      <3>2. QED
        BY <2>3, <3>1 DEF MainSpawn, MainUndo, Types
    <2>4. QED
      BY <1>2, <2>1, <2>2, <2>3 DEF Main
  <1>3. ASSUME NEW c \in Conn, Peer(c) \/ Login(c)
        PROVE  StaysEarly
    BY <1>3 DEF Peer, PeerConnect, PeerSend, PeerClose, PeerResume, Login,
                RecvUser, AuthFails, RecvPassword, Goto, Types
  <1>4. ASSUME NEW c \in Conn, Thread(c)
        PROVE  StaysEarly
    <2>1. \/ pc' = pc
          \/ \E l \in Pc \ Early : pc' = [pc EXCEPT ![c] = l]
          \/ pc[c] \in Early /\ \E l \in Pc : pc' = [pc EXCEPT ![c] = l]
      <3>1. CASE RecvLine(c)
        BY <3>1, RecvOutcome DEF Goto, Pc, ThreadPc
      <3>2. CASE ~RecvLine(c)
        BY <1>4, <3>2 DEF Thread, Prompt, SetAuthenticated, Welcome, Deny, RecvEnd,
           Reply, Lock, VisitAll, VisitList, VisitOne, EndAll, EndList, EndOne,
           Close, Remove, Leave, Goto, Pc, ThreadPc
      <3>3. QED
        BY <3>1, <3>2
    <2>2. QED
      BY <2>1 DEF Types
  <1>5. QED
    BY <1>1, <1>2, <1>3, <1>4 DEF Next, Quiet

LEMMA FlagStep ==
    ASSUME IInv, FlagLast, [Next]_vars
    PROVE  FlagLast' /\ \A c \in Conn : authenticated[c] => authenticated'[c]
  <1>1. CASE authenticated' = authenticated
    BY <1>1, EarlyStep DEF FlagLast, StaysEarly
  <1>2. CASE authenticated' # authenticated
    <2>1. PICK c \in Conn : SetAuthenticated(c) \/ RecvPassword(c)
      BY <1>2 DEF Next, Quiet, vars, loginVars, Main, MainAccept, MainNoMemory,
         MainFull, MainAdd, MainSpawn, MainSpawnFails, MainRemove, MainUndo,
         Peer, PeerConnect, PeerSend, PeerClose, PeerResume, Login, RecvUser,
         AuthFails, Thread, Prompt, Welcome, Deny, RecvEnd,
         RecvLine, Reply, Lock, VisitAll, VisitList, VisitOne, EndAll, EndList,
         EndOne, Close, Remove
    <2>2. /\ authenticated' = [authenticated EXCEPT ![c] = TRUE]
          /\ \E l \in {"setauth", "welcome"} : pc' = [pc EXCEPT ![c] = l]
      BY <1>2, <2>1 DEF SetAuthenticated, RecvPassword, StoreName, RaiseFlag, Goto
    <2>3. QED
      BY <2>2 DEF FlagLast, Early, IInv, Types
  <1>3. QED
    BY <1>1, <1>2

LEMMA DeliverGrows ==
    ASSUME Types, NEW f, NEW m, Deliver(f, m), NEW K
    PROVE  Grows(K)
  <1>1. CASE out' = out
    BY <1>1 DEF Grows, Seen
  <1>2. CASE out' # out
    <2>1. PICK e : out' = [out EXCEPT ![e] = Append(out[e], m)]
      BY <1>2 DEF Deliver
    <2>2. ASSUME NEW d \in Conn, NEW i \in Seen(d, K)
          PROVE  i \in Seen(d, K)' /\ out'[d][i] = out[d][i]
      <3>1. CASE d # e
        BY <2>1, <3>1 DEF Seen, Types
      <3>2. CASE d = e
        <4>1. out'[d] = Append(out[d], m) /\ out[d] \in Seq(Message)
          BY <2>1, <3>2 DEF Types
        <4>2. i \in 1 .. Len(out[d]) /\ out[d][i].kind \in K /\ Len(out[d]) \in Nat
          BY <4>1 DEF Seen
        <4>3. i \in 1 .. Len(out[d]) + 1
          BY <4>2
        <4>4. DOMAIN out'[d] = 1 .. Len(out[d]) + 1 /\ out'[d][i] = out[d][i]
          BY <4>1, <4>2
        <4>5. QED
          BY <4>2, <4>3, <4>4 DEF Seen
      <3>3. QED
        BY <3>1, <3>2
    <2>3. QED
      BY <2>2 DEF Grows
  <1>3. QED
    BY <1>1, <1>2

LEMMA GrowsStep ==
    ASSUME IInv, [Next]_vars, NEW K
    PROVE  Grows(K)
  <1>1. (out' = out) \/ (\E f, m : Deliver(f, m))
    <2>1. CASE \E c \in Conn : Thread(c)
      BY <2>1 DEF Thread, Prompt, SetAuthenticated, Welcome, Deny, RecvEnd,
         RecvLine, Reply, Lock, VisitAll, VisitList, VisitOne, EndAll, EndList,
         EndOne, Close, Remove
    <2>2. CASE \/ UNCHANGED vars \/ Main \/ \E c \in Conn : Peer(c) \/ Login(c)
      BY <2>2 DEF vars, Main, MainAccept, MainNoMemory, MainFull, MainAdd,
         MainSpawn, MainSpawnFails, MainRemove, MainUndo, Peer, PeerConnect,
         PeerSend, PeerClose, PeerResume, Login, RecvUser, AuthFails, RecvPassword
    <2>3. QED
      BY <2>1, <2>2 DEF Next, Quiet
  <1>2. CASE out' = out
    BY <1>2 DEF Grows, Seen
  <1>3. QED
    BY <1>1, <1>2, DeliverGrows DEF IInv

\* A connection that is not up again once it went down.
LEMMA PeerStep ==
    ASSUME IInv, [Next]_vars, NEW d \in Conn, peer'[d] = "open"
    PROVE  peer[d] = "open"
  <1> USE DEF peerVars
  <1>1. ASSUME NEW f, NEW m, Deliver(f, m)
        PROVE  peer[d] = "open"
    BY <1>1 DEF Deliver, IInv, Types
  <1>2. CASE \E c \in Conn : Thread(c)
    <2>1. CASE \E c \in Conn : RecvEnd(c)
      BY <2>1 DEF RecvEnd, IInv, Types
    <2>2. CASE \A c \in Conn : ~RecvEnd(c)
      <3>1. (peer' = peer) \/ (\E f, m : Deliver(f, m))
        BY <1>2, <2>2 DEF Thread, Prompt, SetAuthenticated, Welcome, Deny,
           RecvLine, Reply, Lock, VisitAll, VisitList, VisitOne, EndAll, EndList,
           EndOne, Close, Remove
      <3>2. QED
        BY <3>1, <1>1
    <2>3. QED
      BY <2>1, <2>2
  <1>3. CASE \E c \in Conn : PeerClose(c)
    BY <1>3 DEF PeerClose, IInv, Types
  <1>4. CASE \/ UNCHANGED vars \/ Main
             \/ \E c \in Conn : \/ PeerConnect(c) \/ PeerSend(c) \/ PeerResume(c)
                                \/ Login(c)
    BY <1>4 DEF vars, Main, MainAccept, MainNoMemory, MainFull, MainAdd,
       MainSpawn, MainSpawnFails, MainRemove, MainUndo, PeerConnect, PeerSend,
       PeerResume, Login, RecvUser, AuthFails, RecvPassword
  <1>5. QED
    BY <1>2, <1>3, <1>4 DEF Next, Quiet, Peer

\* Only accept() gives a connection its descriptor.
LEMMA OwnerStep ==
    ASSUME IInv, [Next]_vars, NEW d \in Conn, pc[d] # "backlog",
           owner'[sock'[d]] = d
    PROVE  owner[sock[d]] = d
  <1> USE DEF IInv, fdVars
  <1>1. ASSUME NEW c \in Conn, MainAccept(c)
        PROVE  owner[sock[d]] = d
    <2>1. PICK f \in Fd : /\ owner[f] = NULL
                          /\ owner' = [owner EXCEPT ![f] = c]
                          /\ sock' = [sock EXCEPT ![c] = f]
      BY <1>1 DEF MainAccept
    <2>2. c # d
      BY <1>1 DEF MainAccept
    <2>3. sock'[d] = sock[d] /\ (sock[d] = f => owner'[f] = c)
      BY <2>1, <2>2 DEF Types
    <2>4. sock[d] # f
      BY <2>2, <2>3
    <2>5. QED
      BY <2>1, <2>3, <2>4 DEF Types
  <1>2. ASSUME NEW e \in Conn, CloseSocket(e), sock' = sock
        PROVE  owner[sock[d]] = d
    BY <1>2, NullAssumption DEF CloseSocket, Types
  <1>3. CASE MainUndo
    <2>1. cur \in Conn
      BY <1>3, NullAssumption DEF MainUndo, TableInv, MainHolds, Types
    <2>2. QED
      BY <1>2, <1>3, <2>1 DEF MainUndo
  <1>4. CASE \E c \in Conn : Close(c)
    BY <1>2, <1>4 DEF Close
  <1>5. CASE UNCHANGED <<owner, sock>>
    BY <1>5
  <1>6. QED
    <2>1. \/ UNCHANGED <<owner, sock>> \/ MainUndo
          \/ \E c \in Conn : MainAccept(c) \/ Close(c)
      <3>1. CASE \E c \in Conn : Thread(c)
        BY <3>1 DEF Thread, Prompt, SetAuthenticated, Welcome, Deny, RecvEnd,
           RecvLine, Reply, Lock, VisitAll, VisitList, VisitOne, EndAll, EndList,
           EndOne, Remove
      <3>2. CASE \/ UNCHANGED vars \/ Main \/ \E c \in Conn : Peer(c) \/ Login(c)
        BY <3>2 DEF vars, Main, MainNoMemory, MainFull, MainAdd, MainSpawn,
           MainSpawnFails, MainRemove, Peer, PeerConnect, PeerSend, PeerClose,
           PeerResume, Login, RecvUser, AuthFails, RecvPassword
      <3>3. QED
        BY <3>1, <3>2 DEF Next, Quiet
    <2>2. QED
      BY <2>1, <1>1, <1>3, <1>4, <1>5

\* Steps while a scan goes on, other than its own turns.
Beside ==
    /\ UNCHANGED <<crowd, id, idx, acc>>
    /\ \A c \in Conn : pc[c] = "scan" => job'[c] = job[c]
    /\ \A d \in Conn : pc[d] \notin {"pass", "setauth"} => username'[d] = username[d]

\* Handlers that do not scan touch nothing of a scan that is going on.
LEMMA BesideScan ==
    ASSUME IInv, mutex # NULL, NEW d \in Conn, pc[d] # "scan", Thread(d), ~Remove(d)
    PROVE  Beside
  <1> USE DEF IInv, tableVars, scanVars, ghostVars, loginVars
  <1>1. /\ UNCHANGED <<crowd, id, idx, acc>>
        /\ UNCHANGED username \/ SetAuthenticated(d)
        /\ (job' = job) \/ (\E j : Call(d, j))
    <2>1. CASE RecvLine(d)
      BY <2>1, RecvOutcome DEF RecvLine
    <2>2. CASE ~RecvLine(d)
      BY <2>2 DEF Thread, Prompt, SetAuthenticated, Welcome, Deny, RecvEnd, Reply,
         Leave, Lock, Acquire, VisitAll, VisitList, VisitOne, Scanning, EndAll,
         EndList, EndOne, ScanDone, Close
    <2>3. QED
      BY <2>1, <2>2
  <1>2. \A c \in Conn : pc[c] = "scan" => job'[c] = job[c]
    BY <1>1 DEF Call, Types
  <1>3. \A e \in Conn : pc[e] \notin {"pass", "setauth"} => username'[e] = username[e]
    BY <1>1 DEF SetAuthenticated, StoreName, RaiseFlag, Types
  <1>4. QED
    BY <1>1, <1>2, <1>3 DEF Beside

\* A login that is not yet over cannot end while another handler scans: it needs
\* the mutex next.
LEMMA JoiningStays ==
    ASSUME IInv, [Next]_vars, NEW c \in Conn, mutex = c, NEW d \in Joining
    PROVE  d \in Joining'
  <1> USE DEF IInv
  <1>1. /\ d \in Conn /\ mutex # NULL
        /\ \/ pc[d] \in {"setauth", "welcome"}
           \/ pc[d] = "lock" /\ job[d].kind = "JOIN"
    BY NullAssumption DEF Joining
  <1>2. CASE pc'[d] = pc[d] /\ job'[d] = job[d]
    BY <1>1, <1>2 DEF Joining
  <1>3. CASE Main
    <2> USE DEF Types
    <2>1. job' = job
      BY <1>3 DEF Main, MainAccept, MainNoMemory, MainFull, MainAdd, MainSpawn,
                  MainSpawnFails, MainRemove, MainUndo
    <2>2. ASSUME NEW e \in Conn, MainAccept(e)
          PROVE  pc'[d] = pc[d]
      BY <1>1, <2>2 DEF MainAccept
    <2>3. CASE MainNoMemory \/ MainFull \/ MainAdd \/ MainSpawnFails \/ MainRemove
      BY <1>2, <2>1, <2>3 DEF MainNoMemory, MainFull, MainAdd, MainSpawnFails, MainRemove
    <2>4. CASE MainSpawn \/ MainUndo
      <3>1. cur \in Conn /\ pc[cur] = "main"
        BY <2>4, NullAssumption DEF MainSpawn, MainUndo, TableInv, MainHolds
      <3>2. pc'[d] = pc[d]
        BY <1>1, <2>4, <3>1 DEF MainSpawn, MainUndo
      <3>3. QED
        BY <1>2, <2>1, <3>2
    <2>5. QED
      BY <1>2, <1>3, <2>1, <2>2, <2>3, <2>4 DEF Main
  <1>4. ASSUME NEW e \in Conn, e # d, Peer(e) \/ Login(e) \/ Thread(e)
        PROVE  pc'[d] = pc[d] /\ job'[d] = job[d]
    <2>1. /\ (pc' = pc) \/ (\E l : Goto(e, l))
          /\ (job' = job) \/ (\E j : Call(e, j))
      <3>1. CASE RecvLine(e)
        BY <3>1, RecvOutcome
      <3>2. CASE Thread(e) /\ ~RecvLine(e)
        BY <3>2 DEF Thread, Prompt, SetAuthenticated, Welcome, Deny, RecvEnd, Reply,
           Leave, Lock, VisitAll, VisitList, VisitOne, EndAll, EndList, EndOne,
           Close, Remove
      <3>3. CASE Peer(e) \/ Login(e)
        BY <3>3 DEF Peer, PeerConnect, PeerSend, PeerClose, PeerResume, Login,
           RecvUser, AuthFails, RecvPassword, Goto
      <3>4. QED
        BY <1>4, <3>1, <3>2, <3>3
    <2>2. QED
      BY <1>1, <1>4, <2>1 DEF Goto, Call, Types
  <1>5. CASE Peer(d) \/ Login(d)
    <2>1. ~Login(d) /\ ~PeerConnect(d)
      BY <1>1 DEF Login, RecvUser, AuthFails, RecvPassword, PeerConnect
    <2>2. UNCHANGED <<pc, job>>
      BY <1>5, <2>1 DEF Peer, PeerSend, PeerClose, PeerResume
    <2>3. QED
      BY <1>2, <2>2
  <1>6. CASE Thread(d)
    <2>1. SetAuthenticated(d) \/ Welcome(d)
      BY <1>1, <1>6 DEF Thread, Prompt, Deny, RecvEnd, RecvLine, Reply, Lock, Acquire,
         VisitAll, VisitList, VisitOne, Scanning, EndAll, EndList, EndOne, ScanDone,
         Close, Remove
    <2>2. CASE SetAuthenticated(d)
      BY <1>1, <2>2 DEF SetAuthenticated, Goto, Joining, Types
    <2>3. CASE Welcome(d)
      BY <1>1, <2>3 DEF Welcome, Call, Broadcast, Goto, Joining, Types
    <2>4. QED
      BY <2>1, <2>2, <2>3
  <1>7. CASE UNCHANGED vars
    BY <1>2, <1>7 DEF vars
  <1>8. QED
    BY <1>2, <1>3, <1>4, <1>5, <1>6, <1>7 DEF Next, Quiet

LEMMA WhileScanning ==
    ASSUME IInv, FlagLast, [Next]_vars,
           NEW c \in Conn, pc[c] = "scan", pc'[c] = "scan"
    PROVE  /\ UNCHANGED <<clients, crowd, id>> /\ job'[c] = job[c]
           /\ \A d \in Members : /\ d \in Members'
                                 /\ d \notin Joining => username'[d] = username[d]
                                 /\ Reachable(d)' => Reachable(d)
           /\ Joining \subseteq Joining'
           /\ \/ VisitAll(c) \/ VisitList(c) \/ VisitOne(c)
              \/ UNCHANGED <<idx, acc>>
  <1> USE DEF IInv
  <1>1. mutex = c /\ mutex # NULL /\ \A d \in Conn : pc[d] = "scan" => d = c
    BY NullAssumption DEF MutexIsScan
  <1>2. Beside \/ VisitAll(c) \/ VisitList(c) \/ VisitOne(c)
    <2> USE DEF tableVars, scanVars, ghostVars, loginVars
    <2>1. CASE UNCHANGED vars
      BY <2>1 DEF vars, Beside
    <2>2. CASE Main
      BY <1>1, <2>2 DEF Main, MainAccept, MainNoMemory, MainFull, MainAdd, MainSpawn,
                  MainSpawnFails, MainRemove, RemoveClient, MainUndo, Beside
    <2>3. ASSUME NEW d \in Conn, Peer(d) \/ Login(d)
          PROVE  Beside
      BY <2>3 DEF Peer, PeerConnect, PeerSend, PeerClose, PeerResume, Login,
                  RecvUser, AuthFails, RecvPassword, StoreName, RaiseFlag, Types, Beside
    <2>4. ASSUME NEW d \in Conn, Thread(d)
          PROVE  Beside \/ VisitAll(c) \/ VisitList(c) \/ VisitOne(c)
      <3>1. ~Remove(d)
        BY <1>1 DEF Remove, RemoveClient
      <3>2. CASE pc[d] # "scan"
        BY <1>1, <2>4, <3>1, <3>2, BesideScan
      <3>3. CASE pc[d] = "scan"
        <4>1. d = c
          BY <1>1, <3>3
        <4>2. ~(EndAll(c) \/ EndList(c) \/ EndOne(c))
          BY DEF EndAll, EndList, EndOne, Goto, Types
        <4>3. CASE RecvLine(c)
          BY <4>3, <3>3, <4>1 DEF RecvLine
        <4>4. QED
          BY <2>4, <3>1, <3>3, <4>1, <4>2, <4>3
             DEF Thread, Prompt, SetAuthenticated, Welcome, Deny, RecvEnd, Reply,
                 Lock, Close
      <3>4. QED
        BY <3>2, <3>3
    <2>5. QED
      BY <2>1, <2>2, <2>3, <2>4 DEF Next, Quiet
  <1>3. /\ UNCHANGED <<crowd, id>> /\ job'[c] = job[c]
        /\ \A d \in Conn : pc[d] \notin {"pass", "setauth"} => username'[d] = username[d]
    BY <1>2 DEF Beside, VisitAll, VisitList, VisitOne, tableVars, loginVars, ghostVars
  <1>4. clients' = clients
    BY <1>1, TableStable
  <1>5. ASSUME NEW d \in Members
        PROVE  /\ d \in Members'
               /\ d \notin Joining => username'[d] = username[d]
               /\ Reachable(d)' => Reachable(d)
    <2>1. d \in Conn /\ authenticated[d] /\ pc[d] \notin Early
      BY DEF Members, FlagLast
    <2>2. authenticated'[d]
      BY <2>1, FlagStep
    <2>3. d \in Members'
      BY <1>4, <2>1, <2>2 DEF Members
    <2>4. d \notin Joining => username'[d] = username[d]
      BY <1>3, <2>1 DEF Early, Joining
    <2>5. Reachable(d)' => Reachable(d)
      BY <2>1, PeerStep, OwnerStep DEF Reachable, Early
    <2>6. QED
      BY <2>3, <2>4, <2>5
  <1>6. Joining \subseteq Joining'
    BY <1>1, JoiningStays
  <1>7. QED
    BY <1>2, <1>3, <1>4, <1>5, <1>6 DEF Beside

\* A scan begins with the mutex and with the members of that moment.
LEMMA EntersByLock ==
    ASSUME IInv, [Next]_vars, NEW c \in Conn, pc[c] # "scan", pc'[c] = "scan"
    PROVE  Lock(c)
  <1> USE DEF IInv
  <1>1. ~UNCHANGED vars
    BY DEF vars
  <1>2. ~Main
    <2>1. \A d \in Conn : ~MainAccept(d)
      BY DEF MainAccept, Types
    <2>2. ~(MainNoMemory \/ MainFull \/ MainAdd \/ MainSpawnFails \/ MainRemove)
      BY DEF MainNoMemory, MainFull, MainAdd, MainSpawnFails, MainRemove
    <2>3. ~(MainSpawn \/ MainUndo)
      BY DEF MainSpawn, MainUndo, Types
    <2>4. QED
      BY <2>1, <2>2, <2>3 DEF Main
  <1>3. \A d \in Conn : ~Peer(d) /\ ~Login(d)
    BY DEF Peer, PeerConnect, PeerSend, PeerClose, PeerResume, Login, RecvUser,
           AuthFails, RecvPassword, Goto, Types
  <1>4. ASSUME NEW d \in Conn, Thread(d)
        PROVE  Lock(c)
    <2>1. CASE Lock(d)
      <3>1. pc' = [pc EXCEPT ![d] = "scan"]
        BY <2>1 DEF Lock, Goto
      <3>2. c = d
        BY <3>1 DEF Types
      <3>3. QED
        BY <2>1, <3>2
    <2>2. CASE RecvLine(d)
      <3>1. \E l \in {"recv", "lock", "reply"} : pc' = [pc EXCEPT ![d] = l]
        BY <2>2, RecvOutcome DEF Goto
      <3>2. QED
        BY <3>1 DEF Types
    <2>3. CASE ~Lock(d) /\ ~RecvLine(d)
      <3>1. \/ pc' = pc
            \/ \E l \in Pc \ {"scan"} : pc' = [pc EXCEPT ![d] = l]
        BY <1>4, <2>3 DEF Thread, Prompt, SetAuthenticated, Welcome, Deny, RecvEnd,
           Reply, VisitAll, VisitList, VisitOne, EndAll, EndList, EndOne, Close,
           Remove, Leave, Goto, Pc, ThreadPc
      <3>2. QED
        BY <3>1 DEF Types
    <2>4. QED
      BY <2>1, <2>2, <2>3
  <1>5. QED
    BY <1>1, <1>2, <1>3, <1>4 DEF Next, Quiet

\* Every member has a slot of its own.
LEMMA MemberSlot ==
    ASSUME IInv, NEW d \in Members
    PROVE  d \in Conn /\ id[d] \in Slot /\ clients[id[d]] = d
  BY NullAssumption DEF IInv, TableInv, SlotsAgree, Members

\* There are no more clients in the table than slots.
LEMMA TableFinite ==
    ASSUME IInv
    PROVE  IsFiniteSet({d \in Conn : InTable(d)})
  <1> DEFINE T == {d \in Conn : InTable(d)}
             f == [d \in T |-> id[d]]
  <1>1. \A d \in T : id[d] \in Slot /\ clients[id[d]] = d
    BY NullAssumption DEF IInv, TableInv, SlotsAgree, InTable
  <1>2. f \in Injection(T, Slot)
    BY <1>1 DEF Injection, IsInjective
  <1>3. IsFiniteSet(Slot)
    BY FS_Interval, SlotsAssumption DEF Slot
  <1>4. QED
    BY <1>2, <1>3, FS_Injection

LEMMA MembersFinite ==
    ASSUME IInv
    PROVE  IsFiniteSet(Members)
  <1>1. Members \in SUBSET {d \in Conn : InTable(d)}
    BY DEF Members, InTable
  <1>2. QED
    BY <1>1, TableFinite, FS_Subset

-----------------------------------------------------------------------------
(* The crowd of a broadcast, and the list of the room.                      *)

CrowdStays == \A c \in Conn : pc[c] = "scan" => crowd \subseteq Members

\* A broadcast has reached the crowd of the slots it visited.
Reached ==
    \A c \in Conn : pc[c] = "scan" /\ job[c].op = "all" =>
        \A d \in crowd \ {c} : id[d] < idx /\ Reachable(d) =>
            \E i \in Seen(d, Room) : out[d][i].n = job[c].n

Before(S) == {d \in S : id[d] < idx}

\* A list has an entry for each member of the slots it visited, and names those of
\* them whose login is over.
Listed ==
    \A c \in Conn : pc[c] = "scan" /\ job[c].op = "list" =>
        LET named == {acc[i] : i \in DOMAIN acc}
        IN  /\ {username[d] : d \in Before(crowd \ Joining)} \subseteq named
            /\ Members \cap Joining = {} =>
                  named \subseteq {username[d] : d \in Before(Members)}
            /\ Len(acc) \in Cardinality(Before(crowd)) .. Cardinality(Before(Members))

CrowdInv == FlagLast /\ CrowdStays /\ Reached /\ Listed

LEMMA CrowdStep ==
    ASSUME IInv, CrowdInv, [Next]_vars
    PROVE  CrowdStays'
  <1> SUFFICES ASSUME NEW c \in Conn, pc'[c] = "scan"
               PROVE  crowd' \subseteq Members'
    BY DEF CrowdStays
  <1>1. CASE pc[c] = "scan"
    BY <1>1, WhileScanning DEF CrowdInv, CrowdStays
  <1>2. CASE pc[c] # "scan"
    <2>1. Lock(c)
      BY <1>2, EntersByLock
    <2>2. crowd' = Members /\ Members' = Members
      BY <2>1 DEF Lock, Members, tableVars, loginVars
    <2>3. QED
      BY <2>2
  <1>3. QED
    BY <1>1, <1>2

\* The turn of a broadcast at the slot of a client whose connection is up.
LEMMA TurnReaches ==
    ASSUME IInv, CrowdInv, NEW c \in Conn, VisitAll(c), NEW d \in crowd \ {c},
           id[d] = idx, Reachable(d)
    PROVE  \E i \in Seen(d, Room)' : out'[d][i].n = job[c].n
  <1> USE DEF IInv
  <1>1. pc[c] = "scan" /\ job[c].op = "all" /\ idx \in Slot
    BY DEF VisitAll, Scanning
  <1>2. d \in Members /\ d \in Conn /\ clients[idx] = d /\ authenticated[d]
    BY <1>1, MemberSlot DEF CrowdInv, CrowdStays, Members
  <1>3. idx # id[c]
    <2>1. pc[c] \in ThreadPc
      BY <1>1 DEF ThreadPc
    <2>2. PICK i \in Slot : clients[i] = c
      BY <2>1 DEF TableInv, TableIsLive, InTable
    <2>3. clients[id[c]] = c
      BY <2>2, NullAssumption DEF TableInv, SlotsAgree
    <2>4. QED
      BY <1>2, <2>3
  <1>4. Deliver(sock[d], RoomMessage(c))
    BY <1>2, <1>3, NullAssumption DEF VisitAll, Visible
  <1>5. Gains(d, RoomMessage(c))
    BY <1>2, <1>4, NullAssumption DEF Deliver, Reachable, Gains
  <1>6. job[c].kind \in Room /\ job[c].n \in Nat
    BY <1>1 DEF JobFits, Types, Job
  <1>7. RoomMessage(c) \in Message
    <2>1. <<>> \in Seq(User \cup {NoName})
      OBVIOUS
    <2>2. QED
      BY <1>6, <2>1, MessageFits DEF RoomMessage, Kinds
  <1>8. RoomMessage(c).kind \in Room /\ RoomMessage(c).n = job[c].n
    BY <1>6 DEF RoomMessage, Message0
  <1>9. QED
    BY <1>2, <1>5, <1>7, <1>8, GainsOne

LEMMA ReachedStep ==
    ASSUME IInv, CrowdInv, [Next]_vars
    PROVE  Reached'
  <1> USE DEF IInv
  <1> SUFFICES ASSUME NEW c \in Conn, pc'[c] = "scan", job'[c].op = "all",
                      NEW d \in crowd' \ {c}, id'[d] < idx', Reachable(d)'
               PROVE  \E i \in Seen(d, Room)' : out'[d][i].n = job'[c].n
    BY DEF Reached
  <1>1. CASE pc[c] # "scan"
    <2>1. Lock(c)
      BY <1>1, EntersByLock
    <2>2. crowd' = Members /\ idx' = 0 /\ id' = id
      BY <2>1 DEF Lock, tableVars
    <2>3. id[d] \in Slot
      BY <2>2, MemberSlot
    <2>4. QED
      BY <2>2, <2>3 DEF Slot
  <1>2. CASE pc[c] = "scan"
    <2>1. /\ UNCHANGED <<clients, crowd, id>> /\ job'[c] = job[c]
          /\ \A e \in Members : Reachable(e)' => Reachable(e)
          /\ VisitAll(c) \/ VisitList(c) \/ VisitOne(c) \/ idx' = idx
      BY <1>2, WhileScanning DEF CrowdInv
    <2>2. d \in Members /\ d \in Conn /\ d \in crowd /\ Reachable(d) /\ id[d] \in Slot
      BY <1>2, <2>1, MemberSlot DEF CrowdInv, CrowdStays
    <2>3. CASE id[d] < idx
      <3>1. PICK i \in Seen(d, Room) : out[d][i].n = job[c].n
        BY <1>2, <2>1, <2>2, <2>3 DEF CrowdInv, Reached
      <3>2. i \in Seen(d, Room)' /\ out'[d][i] = out[d][i]
        BY <2>2, GrowsStep DEF Grows
      <3>3. QED
        BY <2>1, <3>1, <3>2
    <2>4. CASE ~(id[d] < idx)
      <3>1. VisitAll(c)
        BY <2>1, <2>4 DEF VisitList, VisitOne, Scanning
      <3>2. id[d] = idx
        <4>1. idx \in Nat /\ idx' = idx + 1 /\ id[d] \in Int
          BY <2>2, <3>1 DEF VisitAll, AfterSend, Types, Slot
        <4>2. QED
          BY <2>1, <2>4, <4>1
      <3>3. QED
        BY <2>1, <2>2, <3>1, <3>2, TurnReaches
    <2>5. QED
      BY <2>3, <2>4
  <1>3. QED
    BY <1>1, <1>2

\* Between the turns of a list the room may only gain members.
LEMMA ListBeside ==
    ASSUME IInv, CrowdInv, [Next]_vars, NEW c \in Conn,
           pc[c] = "scan", job[c].op = "list", pc'[c] = "scan",
           UNCHANGED <<idx, acc>>
    PROVE  /\ {username[d] : d \in Before(crowd \ Joining)}' \subseteq {acc[i] : i \in DOMAIN acc}'
           /\ (Members \cap Joining)' = {} =>
                 {acc[i] : i \in DOMAIN acc}' \subseteq {username[d] : d \in Before(Members)}'
           /\ Len(acc)' \in (Cardinality(Before(crowd)) .. Cardinality(Before(Members)))'
  <1> DEFINE named == {acc[i] : i \in DOMAIN acc}
  <1>1. /\ UNCHANGED <<clients, crowd, id>>
        /\ \A d \in Members : d \in Members'
                              /\ (d \notin Joining => username'[d] = username[d])
        /\ Joining \subseteq Joining'
    BY WhileScanning DEF CrowdInv
  <1>2. crowd \subseteq Members
    BY DEF CrowdInv, CrowdStays
  <1>3. /\ {username[d] : d \in Before(crowd \ Joining)} \subseteq named
        /\ Members \cap Joining = {} =>
              named \subseteq {username[d] : d \in Before(Members)}
        /\ Len(acc) \in Cardinality(Before(crowd)) .. Cardinality(Before(Members))
    BY DEF CrowdInv, Listed
  <1>4. Before(crowd)' = Before(crowd) /\ Before(Members) \subseteq Before(Members)'
    BY <1>1 DEF Before
  <1>5. /\ Before(crowd \ Joining)' \subseteq Before(crowd \ Joining)
        /\ \A d \in Before(crowd \ Joining) : username'[d] = username[d]
    BY <1>1, <1>2 DEF Before
  <1>6. {username[d] : d \in Before(crowd \ Joining)}'
          \subseteq {username[d] : d \in Before(crowd \ Joining)}
    BY <1>5
  <1>7. ASSUME (Members \cap Joining)' = {}
        PROVE  /\ Members \cap Joining = {}
               /\ {username[d] : d \in Before(Members)}
                    \subseteq {username[d] : d \in Before(Members)}'
    <2>1. Members \cap Joining = {}
      BY <1>1, <1>7
    <2>2. \A d \in Before(Members) : username'[d] = username[d]
      BY <1>1, <2>1 DEF Before
    <2>3. QED
      BY <1>4, <2>1, <2>2
  <1>8. /\ Cardinality(Before(Members)) <= Cardinality(Before(Members))'
        /\ Cardinality(Before(Members))' \in Nat
        /\ Cardinality(Before(Members)) \in Nat
        /\ Cardinality(Before(crowd)) \in Nat
    <2>1. IsFiniteSet(Members) /\ IsFiniteSet(Members')
      <3>1. IsFiniteSet(Members)
        BY MembersFinite
      <3>2. Members' \in SUBSET {d \in Conn : InTable(d)}
        BY <1>1 DEF Members, InTable
      <3>3. QED
        BY <3>1, <3>2, TableFinite, FS_Subset
    <2>2. /\ Before(Members) \in SUBSET Members /\ Before(crowd) \in SUBSET Members
          /\ Before(Members)' \in SUBSET Members'
          /\ Before(Members) \in SUBSET Before(Members)'
      BY <1>2, <1>4 DEF Before
    <2>3. /\ IsFiniteSet(Before(Members)) /\ IsFiniteSet(Before(crowd))
          /\ IsFiniteSet(Before(Members)')
      BY <2>1, <2>2, FS_Subset
    <2>4. QED
      BY <2>2, <2>3, FS_Subset, FS_CardinalityType
  <1>9. Len(acc)' = Len(acc) /\ named' = named
    OBVIOUS
  <1>10. Len(acc) \in Nat
    BY DEF IInv, Types
  <1>11. {username[d] : d \in Before(crowd \ Joining)}' \subseteq named'
    BY <1>3, <1>6, <1>9
  <1>12. (Members \cap Joining)' = {} => named' \subseteq {username[d] : d \in Before(Members)}'
    BY <1>3, <1>7, <1>9
  <1>13. Len(acc)' \in (Cardinality(Before(crowd)) .. Cardinality(Before(Members)))'
    <2>1. Cardinality(Before(crowd))' = Cardinality(Before(crowd))
      BY <1>4
    <2>2. /\ Cardinality(Before(crowd)) <= Len(acc)
          /\ Len(acc) <= Cardinality(Before(Members))'
      BY <1>3, <1>8, <1>10
    <2>3. QED
      BY <1>8, <1>9, <1>10, <2>1, <2>2
  <1>14. QED
    BY <1>11, <1>12, <1>13

\* A turn adds the member of its slot, if there is one, and nobody else.
LEMMA ListTurn ==
    ASSUME IInv, CrowdInv, NEW c \in Conn, VisitList(c)
    PROVE  /\ {username[d] : d \in Before(crowd \ Joining)}' \subseteq {acc[i] : i \in DOMAIN acc}'
           /\ (Members \cap Joining)' = {} =>
                 {acc[i] : i \in DOMAIN acc}' \subseteq {username[d] : d \in Before(Members)}'
           /\ Len(acc)' \in (Cardinality(Before(crowd)) .. Cardinality(Before(Members)))'
  <1> DEFINE named == {acc[i] : i \in DOMAIN acc}
  <1>1. /\ pc[c] = "scan" /\ job[c].op = "list" /\ idx \in Slot /\ idx' = idx + 1
        /\ UNCHANGED <<clients, crowd, id, username, authenticated, pc, job>>
    BY DEF VisitList, Scanning, tableVars, loginVars, ghostVars
  <1>2. Members' = Members /\ crowd \subseteq Members /\ Joining' = Joining
    BY <1>1 DEF Members, Joining, CrowdInv, CrowdStays
  <1>3. /\ {username[d] : d \in Before(crowd \ Joining)} \subseteq named
        /\ Members \cap Joining = {} =>
              named \subseteq {username[d] : d \in Before(Members)}
        /\ Len(acc) \in Cardinality(Before(crowd)) .. Cardinality(Before(Members))
    BY <1>1 DEF CrowdInv, Listed
  <1>4. /\ IsFiniteSet(Before(Members)) /\ IsFiniteSet(Before(crowd))
        /\ Cardinality(Before(Members)) \in Nat /\ Cardinality(Before(crowd)) \in Nat
    <2>1. Before(Members) \in SUBSET Members /\ Before(crowd) \in SUBSET Members
      BY <1>2 DEF Before
    <2>2. QED
      BY <2>1, MembersFinite, FS_Subset, FS_CardinalityType
  <1>5. acc \in Seq(User \cup {NoName}) /\ Len(acc) \in Nat /\ idx \in Nat
    BY <1>1 DEF IInv, Types, Slot
  <1>6. CASE Visible(idx)
    <2> DEFINE e == clients[idx]
    <2>1. e \in Members /\ id[e] = idx
      BY <1>1, <1>6, TableFits DEF Visible, Members, IInv
    <2>2. \A d \in Members : id[d] = idx => d = e
      BY MemberSlot
    <2>3. \A d \in Members : id[d] \in Nat
      BY MemberSlot DEF Slot
    <2> HIDE DEF e
    <2>4. /\ Before(Members)' = Before(Members) \cup {e} /\ e \notin Before(Members)
          /\ e \in crowd => Before(crowd)' = Before(crowd) \cup {e}
          /\ e \notin crowd => Before(crowd)' = Before(crowd)
          /\ e \notin Before(crowd)
      BY <1>1, <1>2, <1>5, <2>1, <2>2, <2>3 DEF Before
    <2>5. /\ \E u \in User \cup {NoName} : acc' = Append(acc, u)
          /\ e \notin Joining => acc' = Append(acc, username[e])
      <3>1. PICK u \in ReadName(e) : acc' = Append(acc, u)
        BY <1>6 DEF VisitList, e
      <3>2. username[e] \in User \cup {NoName} /\ ReadName(e) \subseteq User \cup {NoName}
        BY <2>1 DEF ReadName, IInv, Types, Members
      <3>3. e \notin Joining => username[e] \in User
        BY <2>1 DEF IInv, NameSet, Members, Joining
      <3>4. e \notin Joining => u = username[e]
        BY <3>1, <3>3, NullAssumption DEF ReadName
      <3>5. QED
        BY <3>1, <3>2, <3>4
    <2>6. /\ Len(acc)' = Len(acc) + 1 /\ named \subseteq named'
          /\ e \notin Joining => named' = named \cup {username[e]}
      <3> PICK u \in User \cup {NoName} :
             acc' = Append(acc, u) /\ (e \notin Joining => u = username[e])
        BY <2>5
      <3>1. /\ DOMAIN acc' = 1 .. Len(acc) + 1 /\ DOMAIN acc = 1 .. Len(acc)
            /\ \A i \in 1 .. Len(acc) : acc'[i] = acc[i]
            /\ acc'[Len(acc) + 1] = u /\ Len(acc)' = Len(acc) + 1
        BY <1>5
      <3>2. 1 .. Len(acc) + 1 = (1 .. Len(acc)) \cup {Len(acc) + 1}
        BY <1>5
      <3>3. QED
        BY <3>1, <3>2
    <2>7. /\ Cardinality(Before(Members)') = Cardinality(Before(Members)) + 1
          /\ Cardinality(Before(crowd)') \in Nat
          /\ Cardinality(Before(crowd)') <= Cardinality(Before(crowd)) + 1
      <3>1. Cardinality(Before(Members) \cup {e}) = Cardinality(Before(Members)) + 1
        BY <1>4, <2>4, FS_AddElement
      <3>2. Cardinality(Before(crowd) \cup {e}) = Cardinality(Before(crowd)) + 1
        BY <1>4, <2>4, FS_AddElement
      <3>3. QED
        BY <1>4, <2>4, <3>1, <3>2
    <2>8. Len(acc)' \in Cardinality(Before(crowd)') .. Cardinality(Before(Members)')
      BY <1>3, <1>4, <1>5, <2>6, <2>7
    <2>9. {username[d] : d \in Before(crowd \ Joining)}' \subseteq named'
      <3>1. ASSUME NEW d \in Before(crowd \ Joining)'
            PROVE  username[d] \in named'
        <4>1. d \in Before(crowd)' /\ d \notin Joining
          BY <1>2 DEF Before
        <4>2. CASE d = e
          BY <2>6, <4>1, <4>2
        <4>3. CASE d # e
          <5>1. d \in Before(crowd \ Joining)
            BY <2>4, <4>1, <4>3 DEF Before
          <5>2. QED
            BY <1>3, <2>6, <5>1
        <4>4. QED
          BY <4>2, <4>3
      <3>2. QED
        BY <1>1, <3>1
    <2>10. ASSUME (Members \cap Joining)' = {}
           PROVE  named' \subseteq {username[d] : d \in Before(Members)}'
      <3>1. \A d \in Before(Members) : d \in Before(Members)'
        BY <2>4
      <3>2. e \in Before(Members)' /\ e \notin Joining /\ Members \cap Joining = {}
        BY <1>2, <2>1, <2>4, <2>10
      <3>3. named \subseteq {username[d] : d \in Before(Members)'}
        BY <1>3, <3>1, <3>2
      <3>4. username[e] \in {username[d] : d \in Before(Members)'}
        BY <3>2
      <3>5. QED
        BY <1>1, <2>6, <3>2, <3>3, <3>4
    <2>11. QED
      BY <2>8, <2>9, <2>10
  <1>7. CASE ~Visible(idx)
    <2>1. \A d \in Members : id[d] # idx /\ id[d] \in Nat
      BY <1>7, NullAssumption, MemberSlot DEF Visible, Members, Slot
    <2>2. /\ Before(Members)' = Before(Members) /\ Before(crowd)' = Before(crowd)
          /\ Before(crowd \ Joining)' = Before(crowd \ Joining)
      BY <1>1, <1>2, <1>5, <2>1 DEF Before
    <2>3. acc' = acc
      BY <1>7 DEF VisitList
    <2>4. {username[d] : d \in Before(crowd \ Joining)}'
            = {username[d] : d \in Before(crowd \ Joining)}
      BY <1>1, <2>2
    <2>5. {username[d] : d \in Before(Members)}' = {username[d] : d \in Before(Members)}
      BY <1>1, <2>2
    <2>6. (Members \cap Joining)' = Members \cap Joining
      BY <1>2
    <2>7. QED
      BY <1>3, <2>2, <2>3, <2>4, <2>5, <2>6
  <1>8. QED
    BY <1>6, <1>7

LEMMA ListedStep ==
    ASSUME IInv, CrowdInv, [Next]_vars
    PROVE  Listed'
  <1> SUFFICES ASSUME NEW c \in Conn, pc'[c] = "scan", job'[c].op = "list"
               PROVE  /\ {username[d] : d \in Before(crowd \ Joining)}'
                            \subseteq {acc[i] : i \in DOMAIN acc}'
                      /\ (Members \cap Joining)' = {} =>
                            {acc[i] : i \in DOMAIN acc}'
                               \subseteq {username[d] : d \in Before(Members)}'
                      /\ Len(acc)' \in (Cardinality(Before(crowd))
                                          .. Cardinality(Before(Members)))'
    BY DEF Listed
  <1>1. CASE pc[c] # "scan"
    <2>1. Lock(c)
      BY <1>1, EntersByLock
    <2>2. crowd' = Members /\ Members' = Members /\ idx' = 0 /\ acc' = <<>> /\ id' = id
      BY <2>1 DEF Lock, Members, tableVars, loginVars
    <2>3. \A d \in Members : ~(id[d] < 0)
      BY MemberSlot DEF Slot
    <2>4. Before(crowd)' = {} /\ Before(Members)' = {} /\ Before(crowd \ Joining)' = {}
      BY <2>2, <2>3 DEF Before
    <2>5. Cardinality({}) = 0 /\ Len(<<>>) = 0 /\ DOMAIN <<>> = {}
      BY FS_EmptySet
    <2>6. /\ {username[d] : d \in Before(crowd \ Joining)}' = {}
          /\ {acc[i] : i \in DOMAIN acc}' = {}
      BY <2>2, <2>4, <2>5
    <2>7. Len(acc)' \in (Cardinality(Before(crowd)) .. Cardinality(Before(Members)))'
      BY <2>2, <2>4, <2>5
    <2>8. QED
      BY <2>6, <2>7
  <1>2. CASE pc[c] = "scan"
    <2>1. job[c].op = "list" /\ (VisitList(c) \/ UNCHANGED <<idx, acc>>)
      BY <1>2, WhileScanning DEF CrowdInv, VisitAll, VisitOne, Scanning
    <2>2. QED
      BY <1>2, <2>1, ListBeside, ListTurn
  <1>3. QED
    BY <1>1, <1>2

LEMMA CrowdInvariant == Spec => []CrowdInv
  <1>1. Init => CrowdInv
    BY DEF Init, CrowdInv, FlagLast, CrowdStays, Reached, Listed
  <1>2. IInv /\ CrowdInv /\ [Next]_vars => CrowdInv'
    BY FlagStep, CrowdStep, ReachedStep, ListedStep DEF CrowdInv
  <1>3. QED
    BY <1>1, <1>2, Invariant, PTL DEF Spec

\* A broadcast reaches everybody who was in the room when it began and is
\* still connected when it ends, whatever sends fail, whoever leaves and
\* whoever logs in while it is under way.
THEOREM BroadcastCorrect == Spec => []BroadcastReachesCrowd
  <1>1. IInv /\ CrowdInv => BroadcastReachesCrowd
    <2> SUFFICES ASSUME IInv, CrowdInv, NEW c \in Conn, ScanDone(c, "all"),
                        NEW d \in crowd \ {c}, Reachable(d)
                 PROVE  \E i \in Seen(d, Room) : out[d][i].n = job[c].n
      BY DEF BroadcastReachesCrowd
    <2>1. pc[c] = "scan" /\ job[c].op = "all" /\ idx = MAX_CLIENTS
      BY DEF ScanDone
    <2>2. id[d] \in Slot
      BY <2>1, MemberSlot DEF CrowdInv, CrowdStays
    <2>3. id[d] < idx
      BY <2>1, <2>2, SlotsAssumption DEF Slot
    <2>4. QED
      BY <2>1, <2>3 DEF CrowdInv, Reached
  <1>2. QED
    BY <1>1, Invariant, CrowdInvariant, PTL

\* USERLIST has an entry for each who is in the room, and names those of them whose
\* login is over, although logins do not take the mutex.
THEOREM ListCorrect == Spec => []ListFaithful
  <1>1. IInv /\ CrowdInv => ListFaithful
    <2> SUFFICES ASSUME IInv, CrowdInv, NEW c \in Conn, ScanDone(c, "list")
                 PROVE  LET named == {acc[i] : i \in DOMAIN acc}
                        IN  /\ {username[d] : d \in crowd \ Joining} \subseteq named
                            /\ Members \cap Joining = {} =>
                                  named \subseteq {username[d] : d \in Members}
                            /\ Len(acc) \in Cardinality(crowd) .. Cardinality(Members)
      BY DEF ListFaithful
    <2>1. pc[c] = "scan" /\ job[c].op = "list" /\ idx = MAX_CLIENTS
      BY DEF ScanDone
    <2>2. \A d \in Members : id[d] < idx
      BY <2>1, MemberSlot, SlotsAssumption DEF Slot
    <2>3. /\ Before(Members) = Members /\ Before(crowd) = crowd
          /\ Before(crowd \ Joining) = crowd \ Joining
      BY <2>1, <2>2 DEF Before, CrowdInv, CrowdStays
    <2>4. QED
      BY <2>1, <2>3 DEF CrowdInv, Listed
  <1>2. QED
    BY <1>1, Invariant, CrowdInvariant, PTL
=============================================================================
