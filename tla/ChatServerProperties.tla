------------------------ MODULE ChatServerProperties ------------------------
(***************************************************************************)
(* What chat_server.c is expected to guarantee, and what its documents say  *)
(* of it that it does not, stated over the model of ChatServer.             *)
(***************************************************************************)
EXTENDS ChatServer

-----------------------------------------------------------------------------
(* Types.                                                                   *)

\* Every variable of the server keeps the range the C declarations and the
\* control flow of main() and handle_client() give it.
TypeOK ==
    /\ up \in BOOLEAN
    /\ peer \in [Conn -> PeerState] /\ full \in [Conn -> BOOLEAN]
    /\ typed \in [Conn -> 0 .. MaxLines] /\ inq \in [Conn -> Seq(Line)]
    /\ out \in [Conn -> Seq(Message)]
    /\ owner \in [Fd -> Conn \cup {NULL}] /\ sock \in [Conn -> Fd \cup {0}]
    /\ clients \in [Slot -> Conn \cup {NULL}]
    /\ client_count \in 0 .. MAX_CLIENTS
    /\ id \in [Conn -> Slot \cup {-1}]
    /\ username \in [Conn -> User \cup {NoName}]
    /\ authenticated \in [Conn -> BOOLEAN]
    /\ pc \in [Conn -> Pc] /\ job \in [Conn -> Job]
    /\ mutex \in Conn \cup {NULL} /\ idx \in 0 .. MAX_CLIENTS
    /\ acc \in Seq(User \cup {NoName}) /\ found \in BOOLEAN
    /\ mainPc \in MainPc /\ cur \in Conn \cup {NULL}
    /\ stamp \in Nat /\ crowd \in SUBSET Conn

-----------------------------------------------------------------------------
(* The table of clients and the descriptors.                                *)

InTable(c) == \E i \in Slot : clients[i] = c

\* A handler leaves the table by the index it kept (remove_client(client->id)):
\* that index must still name its own slot, whoever came and went meanwhile.
SlotsAgree == \A i \in Slot : clients[i] # NULL => id[clients[i]] = i

\* send_message_to_all, send_user_list and send_private_message follow every
\* pointer in clients[]: a client_t is in the table from before its thread runs
\* until after its last broadcast, and never once it has been freed.
TableIsLive ==
    \A c \in Conn : InTable(c) <=> \/ pc[c] \in ThreadPc
                                   \/ cur = c /\ mainPc \in {"spawn", "unadd"}

\* client_count is kept by hand, in add_client and remove_client, through the
\* refusals and the failed pthread_create of main().
CountMatches == client_count = Cardinality({i \in Slot : clients[i] # NULL})

\* Every accepted socket is closed exactly once, on every path out of main()
\* and handle_client(); a descriptor in use belongs to one connection.
FdsAgree ==
    /\ \A f \in Fd : owner[f] # NULL => sock[owner[f]] = f
    /\ \A c \in Conn : (\E f \in Fd : owner[f] = c)
                          <=> pc[c] \in (ThreadPc \ {"remove"}) \cup {"main"}

\* No client is added, removed or freed while another handler walks the table
\* under clients_mutex.
TableStableDuringScan ==
    [][mutex # NULL /\ mutex' = mutex => UNCHANGED clients]_vars

-----------------------------------------------------------------------------
(* What the peers see.                                                      *)

Seen(d, kinds) == {i \in DOMAIN out[d] : out[d][i].kind \in kinds}
Shared         == Room \cup {"PRIVATE"}
Reachable(d)   == peer[d] = "open" /\ owner[sock[d]] = d

\* Broadcasts and private messages of different handlers reach all peers in
\* one and the same order: the mutex is held from the first send to the last.
TotalOrder ==
    \A d \in Conn : \A i, j \in Seen(d, Shared) :
        i < j => out[d][i].n <= out[d][j].n

\* A broadcast reaches every other client that was a member of the room when
\* it began and whose connection is still up when it ends, although sends to
\* others failed, connections ended and others logged in meanwhile.
BroadcastReachesCrowd ==
    \A c \in Conn : ScanDone(c, "all") =>
        \A d \in crowd \ {c} : Reachable(d) =>
            \E i \in Seen(d, Room) : out[d][i].n = job[c].n

\* The connections whose login the other threads may see in part: it stores name
\* and flag without the mutex, which its handler takes next for "X joined".
Joining == {d \in Conn : \/ pc[d] \in {"setauth", "welcome"}
                         \/ pc[d] = "lock" /\ job[d].kind = "JOIN"}

\* USERLIST has one entry for each member of the room: at least for those who were
\* in it when the scan began, and for nobody who was not by its end.  It names
\* them, except those whose login the scan met half stored, who may go by any name.
ListFaithful ==
    \A c \in Conn : ScanDone(c, "list") =>
        LET named == {acc[i] : i \in DOMAIN acc}
        IN  /\ {username[d] : d \in crowd \ Joining} \subseteq named
            /\ Members \cap Joining = {} =>
                  named \subseteq {username[d] : d \in Members}
            /\ Len(acc) \in Cardinality(crowd) .. Cardinality(Members)

\* One /msg is delivered once, to one connection, also when the user it names
\* is logged in on several: the scan stops at the first of them.
PrivateToOne ==
    \A d, e \in Conn : \A i \in Seen(d, {"PRIVATE"}), j \in Seen(e, {"PRIVATE"}) :
        out[d][i].n = out[e][j].n => d = e /\ i = j

\* "User not found or offline" is never answered to a message that was
\* delivered: the result of the scan is that of the send it made.
RefusedIsUndelivered ==
    \A c, d \in Conn :
        \A i \in Seen(c, {"NOTFOUND"}), j \in Seen(d, {"PRIVATE"}) :
            out[c][i].n # out[d][j].n

-----------------------------------------------------------------------------
(* The abstract room: mutex and scans as the publication of one message.    *)

Speaker == IF \E c \in Conn : mutex = c /\ job[c].op \in {"all", "one"}
           THEN mutex ELSE NULL
LastSeen(d) == IF Seen(d, Shared) = {} THEN 0
               ELSE out[d][CHOOSE i \in Seen(d, Shared) :
                              \A j \in Seen(d, Shared) : j <= i].n

Abstract == INSTANCE ChatRoom WITH
    alive <- up, count <- stamp, speaker <- Speaker,
    seen <- [d \in Conn |-> LastSeen(d)]

\* The threads, their scans under the mutex and the sends they make implement
\* the room of ChatRoom: one message at a time, received while it is published.
ImplementsRoom == Abstract!RoomSpec

-----------------------------------------------------------------------------
(* Liveness.  Every handler that can take a step of its own does, main()    *)
(* goes on accepting, and a peer that stopped reading resumes some day.     *)
(* Nothing is assumed about what peers type, or when they leave.            *)

ServerFairness ==
    /\ WF_vars(up /\ Main)
    /\ \A c \in Conn : WF_vars(up /\ Thread(c))

FairSpec == Spec /\ ServerFairness /\ \A c \in Conn : WF_vars(up /\ PeerResume(c))

\* A client whose peer went away is announced, closed and removed from the
\* table, wherever its handler was when the peer went.
DepartedIsReaped ==
    \A c \in Conn : (pc[c] \in ThreadPc /\ peer[c] # "open")
                        ~> (pc[c] = "gone" \/ ~up)

\* A connection in the backlog is accepted and gets its prompt, or is closed.
BacklogIsServed ==
    \A c \in Conn : pc[c] = "backlog" ~> (pc[c] \in {"user", "gone"} \/ ~up)

\* A handler that asks for clients_mutex gets it.
LockIsGranted == \A c \in Conn : pc[c] = "lock" ~> (pc[c] # "lock" \/ ~up)

-----------------------------------------------------------------------------
(* What the documents say and the code does not do.                         *)

\* DOCUMENTATION.md: messages go to authenticated clients.
MembersOnly == \A d \in Conn : Seen(d, Shared) # {} => authenticated[d]

\* ARCHITECTURE.md: socket errors are logged and the server continues.
ServerSurvives == up
=============================================================================
