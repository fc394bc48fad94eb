--------------------------- MODULE ChatLoginProofs ---------------------------
(***************************************************************************)
(* Theorems about ChatLogin, for any user_db, any lines typed and any number *)
(* of them.                                                                 *)
(***************************************************************************)
EXTENDS ChatLogin, CryptoModuleProofs, SequenceTheorems

(* What a recv() leaves is what was sent behind the texts it took.           *)
LEMMA LeftIsTail ==
    ASSUME NEW T, NEW s \in Seq(Item(T)), NEW r \in [n : 0 .. Len(s), tear : BOOLEAN],
           r.tear => r.n < Len(s)
    PROVE  /\ Left(s, r) \in Seq(Item(T))
           /\ Len(Left(s, r)) = Len(s) - r.n
           /\ \A i \in 1 .. Len(s) - r.n : Left(s, r)[i].what = s[r.n + i].what
  <1>1. CASE ~r.tear
    BY <1>1 DEF Left
  <1>2. CASE r.tear
    <2> DEFINE x == [what |-> s[r.n + 1].what, rest |-> TRUE]
    <2> DEFINE t == SubSeq(s, r.n + 2, Len(s))
    <2>1. x \in Item(T) /\ x.what = s[r.n + 1].what
      <3>1. s[r.n + 1] \in Item(T)
        BY <1>2
      <3> QED BY <3>1 DEF Item
    <2>2. t \in Seq(Item(T)) /\ Len(t) = Len(s) - r.n - 1
          /\ \A i \in 1 .. Len(t) : t[i] = s[r.n + 1 + i]
      BY <1>2
    <2>3. Left(s, r) = <<x>> \o t
      BY <1>2 DEF Left
    <2> HIDE DEF x, t
    <2>4. <<x>> \in Seq(Item(T)) /\ Len(<<x>>) = 1 /\ <<x>>[1] = x
      BY <2>1
    <2>5. Left(s, r) \in Seq(Item(T)) /\ Len(Left(s, r)) = Len(s) - r.n
      BY <2>2, <2>3, <2>4
    <2>6. Left(s, r)[1] = x
      BY <2>2, <2>3, <2>4
    <2>7. ASSUME NEW i \in 2 .. Len(s) - r.n
          PROVE  Left(s, r)[i] = s[r.n + i]
      <3>1. Left(s, r)[i] = t[i - 1]
        BY <2>2, <2>3, <2>4
      <3>2. i - 1 \in 1 .. Len(t) /\ r.n + 1 + (i - 1) = r.n + i
        BY <2>2
      <3> QED BY <2>2, <3>1, <3>2
    <2>8. ASSUME NEW i \in 1 .. Len(s) - r.n
          PROVE  Left(s, r)[i].what = s[r.n + i].what
      <3>1. CASE i = 1 BY <2>1, <2>6, <3>1
      <3>2. CASE i \in 2 .. Len(s) - r.n BY <2>7, <3>2
      <3> QED BY <3>1, <3>2
    <2> QED BY <2>5, <2>8
  <1> QED BY <1>1, <1>2


LEMMA ReadFacts ==
    ASSUME NEW T, NEW s \in Seq(Item(T)), NEW F, NEW r \in Reads(s, F)
    PROVE  /\ r.n \in 0 .. Len(s) /\ Len(s) > 0 /\ (~r.tear => r.n > 0)
           /\ r.tear \in BOOLEAN
           /\ Left(s, r) \in Seq(Item(T)) /\ Len(Left(s, r)) = Len(s) - r.n
           /\ \A i \in 1 .. Len(s) - r.n : Left(s, r)[i].what = s[r.n + i].what
  <1>1. /\ r \in [n : 0 .. Len(s), tear : BOOLEAN]
        /\ r.tear \/ r.n > 0
        /\ r.tear => r.n < Len(s)
    BY DEF Reads
  <1> QED BY <1>1, LeftIsTail

LEMMA HeadFacts ==
    ASSUME NEW T, NEW s \in Seq(Item(T)), Len(s) > 0
    PROVE  Head(s) = s[1] /\ Head(s) \in Item(T) /\ Head(s).what \in T
  <1>1. Head(s) = s[1] /\ s[1] \in Item(T)
    OBVIOUS
  <1> QED BY <1>1 DEF Item

-----------------------------------------------------------------------------
(* Types.                                                                   *)

\* LoginTypeOK by the part of the system, with where row is used.
ClientTypes ==
    /\ cpc \in ClientPc /\ rcv \in {"none", "recv", "print", "dead"}
    /\ fd \in BOOLEAN /\ eof \in BOOLEAN /\ chats \in 0 .. MaxChats
    /\ how \in {"running", "failure", "success", "exit", "signal"}
StreamTypes ==
    /\ port \in BOOLEAN /\ link \in LinkState /\ hung \in BOOLEAN /\ torn \in BOOLEAN
    /\ down \in Seq(Item(Texts)) /\ up \in Seq(Item(Line))
ServerTypes ==
    /\ srv \in SrvPc /\ row \in 1 .. DB + 1 /\ (srv = "ioctl" => row \in Rows)
    /\ password_hash \in [Rows -> Rows \cup {Unset}]
HandlerTypes ==
    /\ hpc \in Handler /\ username \in Read /\ password \in Read
    /\ authenticated \in BOOLEAN
    /\ said \subseteq {"name", "password", "chat"} /\ rooms \in 0 .. MaxRoom

LoginTypes == ClientTypes /\ StreamTypes /\ ServerTypes /\ HandlerTypes

\* What is read at a prompt was typed where the first text on its way was, and is
\* a line as it was typed only when one was taken from there.
LEMMA FirstLineFacts ==
    ASSUME NEW r, NEW x \in FirstLine(r)
    PROVE  /\ x = [at |-> x.at, val |-> x.val, whole |-> x.whole]
           /\ x.at = Head(up).what.at /\ x.val \in {Head(up).what.val} \cup 0 .. DB
           /\ x.whole \in BOOLEAN
           /\ x.whole => r.n > 0
  <1> DEFINE l == Head(up).what
  <1>1. CASE r.n > 0 /\ ~Head(up).rest
    <2>1. x = [at |-> l.at, val |-> l.val, whole |-> TRUE]
      BY <1>1 DEF FirstLine
    <2> QED BY <1>1, <2>1
  <1>2. CASE ~(r.n > 0 /\ ~Head(up).rest)
    <2>1. x \in [at : {l.at}, val : 0 .. DB, whole : {FALSE}]
      BY <1>2 DEF FirstLine
    <2> QED BY <2>1
  <1> QED BY <1>1, <1>2

LEMMA LineFits ==
    ASSUME StreamTypes
    PROVE  /\ \A T, x : x \in T => Sent(x) \in Item(T)
           /\ Nothing \in Read
           /\ \A F, r : r \in Reads(up, F) => FirstLine(r) \subseteq Read
  <1>1. \A T, x : x \in T => Sent(x) \in Item(T)
    BY DEF Sent, Item
  <1>2. Nothing \in Read
    BY StreamAssumption DEF Nothing, Read
  <1>3. ASSUME NEW F, NEW r \in Reads(up, F)
        PROVE  FirstLine(r) \subseteq Read
    <2>1. up \in Seq(Item(Line))
      BY DEF StreamTypes
    <2>2. /\ Head(up).what.at \in {"name", "password", "chat"}
          /\ Head(up).what.val \in 0 .. DB
      <3>1. Head(up).what \in Line
        BY <2>1, ReadFacts, HeadFacts
      <3> QED BY <3>1 DEF Line
    <2>3. ASSUME NEW x \in FirstLine(r)
          PROVE  x \in Read
      <3>1. x.at = Head(up).what.at /\ x.val \in 0 .. DB /\ x.whole \in BOOLEAN
            /\ x = [at |-> x.at, val |-> x.val, whole |-> x.whole]
        BY <2>2, FirstLineFacts
      <3> QED BY <2>2, <3>1 DEF Read
    <2> QED BY <2>3
  <1> QED BY <1>1, <1>2, <1>3

LEMMA TypesInit == LoginInit => LoginTypes
  <1> SUFFICES ASSUME LoginInit PROVE LoginTypes
    OBVIOUS
  <1> USE DEF LoginInit
  <1>1. StreamTypes
    <2>1. <<>> \in Seq(Item(Texts)) /\ <<>> \in Seq(Item(Line))
      OBVIOUS
    <2> QED BY <2>1, Zenon DEF StreamInit, StreamTypes, LinkState
  <1>2. ClientTypes
    <2>1. 0 \in 0 .. MaxChats
      BY TypedAssumption
    <2> QED BY <2>1, Zenon DEF ClientInit, ClientTypes, ClientPc
  <1>3. ServerTypes
    BY StreamAssumption DEF ServerInit, ServerTypes, SrvPc, Rows
  <1>4. HandlerTypes
    <2>1. 0 \in 0 .. MaxRoom
      BY ServerAssumption
    <2>2. Nothing \in Read
      BY <1>1, LineFits
    <2> QED BY <2>1, <2>2, Zenon DEF ServerInit, HandlerTypes, Handler
  <1> QED BY <1>1, <1>2, <1>3, <1>4 DEF LoginTypes

LEMMA ClientKeepsTypes ==
    ASSUME ClientTypes, StreamTypes, ClientSteps \/ Receiver \/ User
    PROVE  ClientTypes' /\ StreamTypes'
  <1> USE TypedAssumption DEF ClientTypes, StreamTypes, LinkState, ClientPc, stream
  <1>a. \A r : r \in Reads(down, Texts) => Left(down, r) \in Seq(Item(Texts)) /\ r.tear \in BOOLEAN
    BY ReadFacts
  <1>c. ASSUME NEW l \in Typed, NEW a \in ClientPc, NEW b \in ClientPc, SendLine(l, a, b)
        PROVE  /\ up' \in Seq(Item(Line)) /\ link' \in LinkState /\ cpc' \in ClientPc
               /\ hung' \in BOOLEAN
               /\ how' \in {"running", "failure", "success", "exit", "signal"}
    <2>1. Append(up, Sent(l)) \in Seq(Item(Line))
      BY LineFits
    <2> QED BY <1>c, <2>1 DEF SendLine, End
  <1>1. CASE Connect BY <1>1 DEF Connect, End
  <1>2. CASE RecvPrompt BY <1>2, <1>a DEF RecvPrompt, PromptReceived, After
  <1>3. CASE RecvVerdict BY <1>3, <1>a DEF RecvVerdict, End
  <1>4. CASE RecvNothing BY <1>4 DEF RecvNothing, Skip
  <1>5. CASE Answer
    <2>1. PICK l \in Typed : SendLine(l, After[cpc], After[cpc])
      BY <1>5 DEF Answer
    <2>2. cpc \in {"fgets1", "fgets2"} /\ UNCHANGED <<port, down, torn, rcv, fd, eof, chats>>
      BY <1>5 DEF Answer
    <2> QED BY <2>1, <2>2, <1>c DEF After
  <1>6. CASE NoAnswer BY <1>6 DEF NoAnswer, After
  <1>7. CASE Fork BY <1>7 DEF Fork, End
  <1>8. CASE Say
    <2>1. PICK l \in Typed : SendLine(l, "loop", "close")
      BY <1>8 DEF Say
    <2>2. chats < MaxChats /\ chats' = chats + 1 /\ UNCHANGED <<port, down, torn, rcv, fd, eof>>
      BY <1>8 DEF Say
    <2> QED BY <2>1, <2>2, <1>c
  <1>9. CASE Quit \/ InputEnds \/ CloseClient \/ Cancel \/ Join
    BY <1>9 DEF Quit, InputEnds, CloseClient, Cancel, Join, End
  <1>10. CASE ReceiverReads BY <1>10, <1>a DEF ReceiverReads
  <1>11. CASE ReceiverPrints \/ ReceiverEnds \/ ReceiverCancelled
    BY <1>11 DEF ReceiverPrints, ReceiverEnds, ReceiverCancelled, ExitAll, End
  <1> QED
    BY <1>1, <1>2, <1>3, <1>4, <1>5, <1>6, <1>7, <1>8, <1>9, <1>10, <1>11
    DEF ClientSteps, Receiver, User

LEMMA ServerKeepsTypes ==
    ASSUME StreamTypes, ServerTypes, HandlerTypes,
           StartServer \/ ServerSteps \/ ServerDies \/ HandlerSteps \/ RoomSpeaks
    PROVE  StreamTypes' /\ ServerTypes' /\ HandlerTypes'
  <1> USE StreamAssumption, ServerAssumption
      DEF StreamTypes, ServerTypes, HandlerTypes, LinkState, SrvPc, Handler, Rows,
          serverVars, handler, stream
  <1>b. \A F, r : r \in Reads(up, F) =>
          Left(up, r) \in Seq(Item(Line)) /\ r.tear \in BOOLEAN /\ FirstLine(r) \subseteq Read
    BY ReadFacts, LineFits
  <1>d. \A x \in Texts : Append(down, Sent(x)) \in Seq(Item(Texts))
    BY LineFits
  <1>e. \A r : r \in Reads(up, Line) => Head(up).what.at \in {"name", "password", "chat"}
    <2>1. \A r : r \in Reads(up, Line) => Head(up).what \in Line
      BY ReadFacts, HeadFacts
    <2> QED BY <2>1 DEF Line
  <1>12. CASE StartServer BY <1>12 DEF StartServer
  <1>13. CASE InitCryptoDriver
    <2>1. /\ srv' \in {"hash", "off"} /\ port' \in BOOLEAN /\ hpc' \in Handler
      BY <1>13 DEF InitCryptoDriver, ServerExit
    <2>2. UNCHANGED <<row, password_hash, link, hung, down, up, torn, username,
                      password, authenticated, said, rooms>>
      BY <1>13 DEF InitCryptoDriver
    <2> QED BY <2>1, <2>2
  <1>14. CASE HashRow BY <1>14 DEF HashRow, MoreRows
  <1>15. CASE RowHashed BY <1>15 DEF RowHashed
  <1>16. CASE DatabaseReady BY <1>16 DEF DatabaseReady
  <1>17. CASE SetUp
    <2>1. srv' \in SrvPc /\ srv' # "ioctl" /\ port' \in BOOLEAN /\ hpc' \in Handler
      <3>1. CASE srv' = SetUpOrder[srv] /\ port' = (srv = "listen") /\ UNCHANGED <<device, hpc>>
        BY <1>17, <3>1 DEF SetUp, SetUpOrder
      <3>2. CASE ServerExit
        BY <3>2 DEF ServerExit
      <3> QED BY <1>17, <3>1, <3>2 DEF SetUp
    <2> QED BY <1>17, <2>1 DEF SetUp
  <1>18. CASE ServerDies BY <1>18 DEF ServerDies, ServerExit
  <1>19. CASE Accept BY <1>19 DEF Accept, CloseLink
  <1>20. CASE Prompt
    <2>1. down' = down \/ \E x \in Texts : down' = Append(down, Sent(x))
      BY <1>20 DEF Prompt, Send, Texts
    <2>2. hpc' \in Handler
      BY <1>20 DEF Prompt
    <2>3. UNCHANGED <<serverVars, port, link, hung, torn, up, username, password,
                      authenticated, said, rooms>>
      BY <1>20 DEF Prompt
    <2>4. down' \in Seq(Item(Texts)) BY <2>1, <1>d
    <2> QED BY <2>2, <2>3, <2>4
  <1>21. CASE RecvName BY <1>21, <1>b DEF RecvName
  <1>22. CASE RecvPassword BY <1>22, <1>b DEF RecvPassword
  <1>23. CASE HashPassword BY <1>23 DEF HashPassword
  <1>24. CASE Authenticate BY <1>24 DEF Authenticate
  <1>25. CASE Oops BY <1>25 DEF Oops
  <1>26. CASE Welcome BY <1>26, <1>d DEF Welcome, Send, Texts
  <1>27. CASE Deny BY <1>27, <1>d DEF Deny, Send, Texts, HangUp, CloseLink
  <1>28. CASE RoomSpeaks BY <1>28, <1>d DEF RoomSpeaks, Send, Texts
  <1>29. CASE RecvChat BY <1>29, <1>b, <1>e DEF RecvChat
  <1>30. CASE RecvEnd BY <1>30 DEF RecvEnd, HangUp, CloseLink
  <1> QED
    BY <1>12, <1>13, <1>14, <1>15, <1>16, <1>17, <1>18, <1>19, <1>20, <1>21, <1>22,
       <1>23, <1>24, <1>25, <1>26, <1>27, <1>28, <1>29, <1>30
    DEF ServerSteps, HandlerSteps

LEMMA TypesStep ==
    ASSUME LoginTypes, [LoginNext]_login
    PROVE  LoginTypes'
  <1>1. CASE (ClientSteps \/ Receiver \/ User) /\ UNCHANGED <<device, serverVars, handler>>
    BY <1>1, ClientKeepsTypes DEF LoginTypes, ServerTypes, HandlerTypes, serverVars, handler
  <1>2. CASE /\ StartServer \/ ServerSteps \/ ServerDies \/ HandlerSteps \/ RoomSpeaks
             /\ UNCHANGED client
    BY <1>2, ServerKeepsTypes DEF LoginTypes, ClientTypes, client
  <1>3. CASE UNCHANGED <<client, serverVars, handler, stream>>
    BY <1>3 DEF LoginTypes, ClientTypes, StreamTypes, ServerTypes, HandlerTypes,
                client, serverVars, handler, stream
  <1> QED BY <1>1, <1>2, <1>3 DEF LoginNext, login

-----------------------------------------------------------------------------
(* Who is where.                                                            *)

Serving == {"hello", "user", "ask", "pass", "hash", "ioctl", "welcome", "deny", "recv"}

\* A handler serves an open connection, the socket and the thread of the client
\* belong to the later part of its main(), and nothing is sent before the first
\* prompt.
Places ==
    /\ hpc \in Serving => link = "open"
    /\ link = "none" => hpc = "none" /\ cpc \in {"start", "ended"}
    /\ rcv # "none" => cpc \in {"loop", "close", "cancel", "join", "ended"}
    /\ hung => cpc \in {"cancel", "join", "ended"}
    /\ ~fd => cpc \in {"start", "cancel", "join", "ended"}
    /\ hpc \in {"none", "hello"} => /\ up = <<>> /\ down = <<>>
                                    /\ link = "open" => cpc \in {"prompt1", "ended"}

\* What a recv() of the client does to its stream, and of the handler to the other.
LEMMA StreamReads ==
    ASSUME StreamTypes
    PROVE  /\ \A F, r : r \in Reads(down, F) =>
                 /\ Len(down) > 0 /\ down # <<>> /\ r.tear \in BOOLEAN
                 /\ Left(down, r) \in Seq(Item(Texts)) /\ Len(Left(down, r)) < Len(down) + 1
                 /\ ~r.tear => Len(Left(down, r)) < Len(down)
           /\ \A F, r : r \in Reads(up, F) =>
                 /\ Len(up) > 0 /\ up # <<>> /\ r.tear \in BOOLEAN
                 /\ r.n \in 0 .. Len(up) /\ (~r.tear => r.n > 0)
                 /\ Left(up, r) \in Seq(Item(Line)) /\ Len(Left(up, r)) = Len(up) - r.n
                 /\ \A i \in 1 .. Len(up) - r.n : Left(up, r)[i].what = up[r.n + i].what
                 /\ Head(up) = up[1] /\ up[1] \in Item(Line) /\ up[1].what \in Line
  <1>1. down \in Seq(Item(Texts)) /\ up \in Seq(Item(Line))
    BY DEF StreamTypes
  <1>2. ASSUME NEW F, NEW r \in Reads(down, F)
        PROVE  /\ Len(down) > 0 /\ down # <<>> /\ r.tear \in BOOLEAN
               /\ Left(down, r) \in Seq(Item(Texts)) /\ Len(Left(down, r)) < Len(down) + 1
               /\ ~r.tear => Len(Left(down, r)) < Len(down)
    <2>1. /\ r.n \in 0 .. Len(down) /\ Len(down) > 0 /\ (~r.tear => r.n > 0)
          /\ r.tear \in BOOLEAN
          /\ Left(down, r) \in Seq(Item(Texts)) /\ Len(Left(down, r)) = Len(down) - r.n
      BY <1>1, ReadFacts
    <2> QED BY <1>1, <2>1
  <1>3. ASSUME NEW F, NEW r \in Reads(up, F)
        PROVE  /\ Len(up) > 0 /\ up # <<>> /\ r.tear \in BOOLEAN
               /\ r.n \in 0 .. Len(up) /\ (~r.tear => r.n > 0)
               /\ Left(up, r) \in Seq(Item(Line)) /\ Len(Left(up, r)) = Len(up) - r.n
               /\ \A i \in 1 .. Len(up) - r.n : Left(up, r)[i].what = up[r.n + i].what
               /\ Head(up) = up[1] /\ up[1] \in Item(Line) /\ up[1].what \in Line
    <2>1. /\ r.n \in 0 .. Len(up) /\ Len(up) > 0 /\ (~r.tear => r.n > 0)
          /\ r.tear \in BOOLEAN
          /\ Left(up, r) \in Seq(Item(Line)) /\ Len(Left(up, r)) = Len(up) - r.n
          /\ \A i \in 1 .. Len(up) - r.n : Left(up, r)[i].what = up[r.n + i].what
      BY <1>1, ReadFacts
    <2>2. Head(up) = up[1] /\ Head(up) \in Item(Line) /\ Head(up).what \in Line
      BY <1>1, <2>1, HeadFacts
    <2> QED BY <1>1, <2>1, <2>2
  <1> QED BY <1>2, <1>3

LEMMA PlacesInit == LoginInit => Places
  BY DEF LoginInit, StreamInit, ServerInit, ClientInit, Places, Serving

LEMMA ClientKeepsPlaces ==
    ASSUME StreamTypes, ClientTypes, Places, ClientSteps \/ Receiver \/ User, UNCHANGED handler
    PROVE  Places'
  <1> USE DEF Places, Serving, handler, stream
  <1>a. \A r : r \in Reads(down, Texts) => down # <<>>
    BY StreamReads
  <1>1. CASE Connect BY <1>1 DEF Connect, End
  <1>2. CASE RecvPrompt BY <1>2, <1>a DEF RecvPrompt, PromptReceived, After
  <1>3. CASE RecvVerdict BY <1>3, <1>a DEF RecvVerdict, End
  <1>4. CASE RecvNothing BY <1>4 DEF RecvNothing, Skip, Finished
  <1>5. CASE Answer BY <1>5 DEF Answer, SendLine, After, End
  <1>6. CASE NoAnswer BY <1>6 DEF NoAnswer, After
  <1>7. CASE Fork BY <1>7 DEF Fork, End
  <1>8. CASE Say BY <1>8 DEF Say, SendLine, End
  <1>9. CASE Quit \/ InputEnds \/ CloseClient \/ Cancel \/ Join
    BY <1>9 DEF Quit, InputEnds, CloseClient, Cancel, Join, End
  <1>10. CASE ReceiverReads BY <1>10, <1>a DEF ReceiverReads
  <1>11. CASE ReceiverPrints BY <1>11 DEF ReceiverPrints
  <1>12. CASE ReceiverEnds BY <1>12 DEF ReceiverEnds, ExitAll, End
  <1>13. CASE ReceiverCancelled
    BY <1>13 DEF ReceiverCancelled, Cancelled
  <1> QED
    BY <1>1, <1>2, <1>3, <1>4, <1>5, <1>6, <1>7, <1>8, <1>9, <1>10, <1>11,
       <1>12, <1>13
    DEF ClientSteps, Receiver, User

LEMMA ServerKeepsPlaces ==
    ASSUME StreamTypes, HandlerTypes, Places, UNCHANGED client,
           StartServer \/ ServerSteps \/ ServerDies \/ HandlerSteps \/ RoomSpeaks
    PROVE  Places'
  <1> USE DEF Places, Serving, serverVars, handler, stream, client
  <1>1. CASE StartServer \/ ServerSteps
    BY <1>1 DEF StartServer, ServerSteps, InitCryptoDriver, HashRow, RowHashed, DatabaseReady,
                SetUp, ServerExit
  <1>2. CASE ServerDies BY <1>2 DEF ServerDies, ServerExit
  <1>3. CASE Accept BY <1>3 DEF Accept, CloseLink
  <1>4. CASE Prompt BY <1>4 DEF Prompt
  <1>5. CASE RecvName \/ RecvPassword \/ RecvChat
    BY <1>5 DEF RecvName, RecvPassword, RecvChat
  <1>6. CASE HashPassword \/ Authenticate \/ Oops \/ Welcome \/ RoomSpeaks
    BY <1>6 DEF HashPassword, Authenticate, Oops, Welcome, RoomSpeaks
  <1>7. CASE Deny \/ RecvEnd
    BY <1>7 DEF Deny, RecvEnd, HangUp, CloseLink, Waits
  <1> QED BY <1>1, <1>2, <1>3, <1>4, <1>5, <1>6, <1>7 DEF HandlerSteps

-----------------------------------------------------------------------------
(* Who is let in.                                                           *)

\* A digest of user_db is the right one or none, and the flag follows the place
\* of the handler.
Accepts ==
    /\ \A i \in Rows : password_hash[i] \in {i, Unset}
    /\ hpc \in {"none", "hello", "user", "ask", "pass", "hash", "ioctl", "deny"}
          => ~authenticated
    /\ hpc \in {"welcome", "recv"} => authenticated
    /\ AcceptedIsRight

LEMMA AcceptsInit == LoginInit => Accepts
  BY DEF LoginInit, ServerInit, Accepts, AcceptedIsRight

LEMMA ServerKeepsAccepts ==
    ASSUME LoginTypes, Places, Accepts,
           StartServer \/ ServerSteps \/ ServerDies \/ HandlerSteps \/ RoomSpeaks
    PROVE  Accepts'
  <1> USE DEF Accepts, AcceptedIsRight, serverVars, handler, stream
  <1>1. CASE StartServer
    BY <1>1 DEF StartServer, LoginTypes, ServerTypes
  <1>2. CASE RowHashed
    BY <1>2 DEF RowHashed, LoginTypes, ServerTypes
  <1>3. CASE InitCryptoDriver \/ HashRow \/ DatabaseReady \/ SetUp \/ ServerDies
    BY <1>3 DEF InitCryptoDriver, HashRow, DatabaseReady, SetUp, ServerDies, ServerExit
  <1>4. CASE Accept \/ Prompt
    BY <1>4 DEF Accept, Prompt
  <1>5. CASE RecvName \/ RecvPassword \/ RecvChat \/ RecvEnd
    BY <1>5 DEF RecvName, RecvPassword, RecvChat, RecvEnd, HangUp, Waits
  <1>6. CASE Authenticate
    <2>1. hpc = "ioctl" /\ UNCHANGED <<password_hash, username, password>>
      BY <1>6 DEF Authenticate
    <2>2. PICK hashed \in BOOLEAN :
            IF Authentic(hashed) THEN authenticated' = TRUE /\ hpc' = "welcome"
                                 ELSE hpc' = "deny" /\ UNCHANGED authenticated
      BY <1>6 DEF Authenticate
    <2>3. CASE Authentic(hashed)
      <3>1. username.val \in Rows /\ password_hash[username.val] = password.val
        BY <2>3 DEF Authentic
      <3>2. password.val \in 0 .. DB
        BY DEF LoginTypes, HandlerTypes, Read
      <3>3. password.val = username.val
        BY <3>1, <3>2, StreamAssumption DEF Rows, Unset
      <3> QED BY <2>1, <2>2, <2>3, <3>1, <3>3
    <2>4. CASE ~Authentic(hashed)
      BY <2>1, <2>2, <2>4
    <2> QED BY <2>3, <2>4
  <1>7. CASE HashPassword \/ Oops \/ Welcome \/ Deny \/ RoomSpeaks
    BY <1>7 DEF HashPassword, Oops, Welcome, Deny, RoomSpeaks, HangUp
  <1> QED BY <1>1, <1>2, <1>3, <1>4, <1>5, <1>6, <1>7 DEF ServerSteps, HandlerSteps

-----------------------------------------------------------------------------
(* The order of the lines.                                                  *)

Past1 == cpc \notin {"start", "prompt1", "fgets1"}
Past2 == Past1 /\ cpc \notin {"prompt2", "fgets2"}

AfterName     == {"ask", "pass", "hash", "ioctl", "welcome", "deny", "recv"}
AfterPassword == {"hash", "ioctl", "welcome", "deny", "recv"}

\* The lines on their way are the name, then the password, then the chat, none
\* of them before its place in main(); what the handler has read as a whole is not
\* on its way any more; and only who was let in says something.
InOrder ==
    /\ \A i \in 1 .. Len(up) : Past1 /\ (up[i].what.at # "name" => Past2)
    /\ \A i \in 2 .. Len(up) : up[i].what.at # "name"
    /\ \A i, j \in 1 .. Len(up) : i < j /\ up[i].what.at # "name" => up[j].what.at = "chat"
    /\ hpc \in AfterName => Past1
    /\ hpc \in AfterName /\ username.whole =>
          \A i \in 1 .. Len(up) : up[i].what.at # "name"
    /\ hpc \in AfterPassword /\ username.whole /\ password.whole =>
          Past2 /\ \A i \in 1 .. Len(up) : up[i].what.at = "chat"
    /\ ~authenticated => said = {}
    /\ PasswordStaysPrivate

LEMMA InOrderInit == LoginInit => InOrder
  BY DEF LoginInit, StreamInit, ServerInit, InOrder, AfterName, AfterPassword,
         PasswordStaysPrivate

LEMMA ClientKeepsOrder ==
    ASSUME LoginTypes, Places, InOrder, ClientSteps \/ Receiver \/ User,
           UNCHANGED handler
    PROVE  InOrder'
  <1> USE DEF InOrder, PasswordStaysPrivate, InByPieces, AfterName, AfterPassword, handler,
          stream
  <1>0. up \in Seq(Item(Line))
    BY DEF LoginTypes, StreamTypes
  <1>a. ASSUME NEW l \in Typed, NEW a, SendLine(l, a, a) \/ (cpc = "loop" /\ SendLine(l, "loop", "close")),
               cpc = "fgets1" => l.at = "name" /\ a = "prompt2",
               cpc = "fgets2" => l.at = "password" /\ a = "verdict",
               cpc = "loop" => l.at = "chat" /\ a = "loop",
               cpc \in {"fgets1", "fgets2", "loop"}
        PROVE  InOrder'
    <2>1. (Past1 => Past1') /\ (Past2 => Past2')
      BY <1>a DEF Past1, Past2, SendLine, End
    <2>2. CASE UNCHANGED up
      BY <2>1, <2>2
    <2>3. CASE up' = Append(up, Sent(l))
      <3>1. /\ Len(up') = Len(up) + 1 /\ up'[Len(up) + 1].what = l
            /\ \A i \in 1 .. Len(up) : up'[i] = up[i]
        BY <1>0, <2>3 DEF Sent
      <3>2. CASE cpc = "fgets1"
        <4>1. Len(up) = 0
          BY <1>0, <3>2 DEF Past1
        <4>2. Past1'
          BY <3>2, <1>a DEF Past1, SendLine, End
        <4>3. hpc \notin AfterName
          BY <3>2 DEF Past1
        <4> QED BY <1>a, <3>1, <3>2, <4>1, <4>2, <4>3
      <3>3. CASE cpc = "fgets2"
        <4>1. \A i \in 1 .. Len(up) : up[i].what.at = "name"
          BY <3>3 DEF Past2
        <4>2. Past1' /\ Past2'
          BY <3>3, <1>a DEF Past1, Past2, SendLine, End
        <4>3. ~(hpc \in AfterPassword /\ username.whole /\ password.whole)
          BY <3>3 DEF Past2
        <4> QED BY <1>0, <1>a, <3>1, <3>3, <4>1, <4>2, <4>3
      <3>4. CASE cpc = "loop"
        <4>1. Past1' /\ Past2'
          BY <3>4, <1>a DEF Past1, Past2, SendLine, End
        <4> QED BY <1>0, <1>a, <3>1, <3>4, <4>1
      <3> QED BY <1>a, <3>2, <3>3, <3>4
    <2> QED BY <1>a, <2>2, <2>3 DEF SendLine
  <1>b. ASSUME UNCHANGED up, Past1 => Past1', Past2 => Past2' PROVE InOrder'
    BY <1>b
  <1>1. CASE Connect BY <1>1, <1>b DEF Connect, End, Past1, Past2
  <1>2. CASE RecvPrompt BY <1>2, <1>b DEF RecvPrompt, After, Past1, Past2
  <1>3. CASE RecvVerdict BY <1>3, <1>b DEF RecvVerdict, End, Past1, Past2
  <1>4. CASE RecvNothing BY <1>4, <1>b DEF RecvNothing, Skip, Past1, Past2
  <1>5. CASE Answer
    <2>1. PICK l \in Typed : /\ l.at = IF cpc = "fgets1" THEN "name" ELSE "password"
                             /\ SendLine(l, After[cpc], After[cpc])
      BY <1>5 DEF Answer
    <2> QED BY <1>5, <1>a, <2>1 DEF Answer, After
  <1>6. CASE NoAnswer BY <1>6, <1>b DEF NoAnswer, After, Past1, Past2
  <1>7. CASE Fork BY <1>7, <1>b DEF Fork, End, Past1, Past2
  <1>8. CASE Say BY <1>8, <1>a DEF Say
  <1>9. CASE Quit \/ InputEnds \/ CloseClient \/ Cancel \/ Join
    BY <1>9, <1>b DEF Quit, InputEnds, CloseClient, Cancel, Join, End, Past1, Past2
  <1>10. CASE Receiver
    BY <1>10, <1>b DEF Receiver, ReceiverReads, ReceiverPrints, ReceiverEnds,
                       ReceiverCancelled, ExitAll, End, Past1, Past2
  <1> QED
    BY <1>1, <1>2, <1>3, <1>4, <1>5, <1>6, <1>7, <1>8, <1>9, <1>10 DEF ClientSteps, User

LEMMA ServerKeepsOrder ==
    ASSUME LoginTypes, Places, Accepts, InOrder, UNCHANGED client,
           StartServer \/ ServerSteps \/ ServerDies \/ HandlerSteps \/ RoomSpeaks
    PROVE  InOrder'
  <1> USE DEF InOrder, PasswordStaysPrivate, InByPieces, AfterName, AfterPassword, serverVars,
          stream
  <1>0. up \in Seq(Item(Line))
    BY DEF LoginTypes, StreamTypes
  <1>a. (Past1' <=> Past1) /\ (Past2' <=> Past2)
    BY DEF Past1, Past2, client
  \* A read that leaves the tail of what is on its way keeps the tail in order.
  <1>b. ASSUME NEW F, NEW r \in Reads(up, F), up' = Left(up, r)
        PROVE  /\ \A i \in 1 .. Len(up') : Past1' /\ (up'[i].what.at # "name" => Past2')
               /\ \A i \in 2 .. Len(up') : up'[i].what.at # "name"
               /\ \A i, j \in 1 .. Len(up') :
                     i < j /\ up'[i].what.at # "name" => up'[j].what.at = "chat"
               /\ \A i \in 1 .. Len(up') :
                     \E j \in 1 .. Len(up) : /\ up'[i].what = up[j].what
                                             /\ r.n > 0 => j > 1
               /\ Past1 /\ up[1].what.at \in {"name", "password", "chat"}
    <2>1. /\ r.n \in 0 .. Len(up) /\ Len(up') = Len(up) - r.n /\ Len(up) > 0
          /\ \A i \in 1 .. Len(up) - r.n : up'[i].what = up[r.n + i].what
          /\ up[1].what \in Line
      BY <1>b, StreamReads DEF LoginTypes
    <2>2. \A i \in 1 .. Len(up') : r.n + i \in 1 .. Len(up) /\ up'[i].what = up[r.n + i].what
      BY <2>1
    <2>3. \A i \in 1 .. Len(up') : Past1' /\ (up'[i].what.at # "name" => Past2')
      BY <1>a, <2>2
    <2>4. ASSUME NEW i \in 2 .. Len(up') PROVE up'[i].what.at # "name"
      <3>1. r.n + i \in 2 .. Len(up) /\ i \in 1 .. Len(up')
        BY <2>1
      <3> QED BY <2>2, <3>1
    <2>5. ASSUME NEW i \in 1 .. Len(up'), NEW j \in 1 .. Len(up'), i < j,
                 up'[i].what.at # "name"
          PROVE  up'[j].what.at = "chat"
      <3>1. r.n + i < r.n + j
        BY <2>1, <2>5
      <3> QED BY <2>2, <2>5, <3>1
    <2>6. ASSUME NEW i \in 1 .. Len(up')
          PROVE  \E j \in 1 .. Len(up) : up'[i].what = up[j].what /\ (r.n > 0 => j > 1)
      <3>1. r.n > 0 => r.n + i > 1
        BY <2>1
      <3> QED BY <2>2, <3>1
    <2>7. Past1 /\ up[1].what.at \in {"name", "password", "chat"}
      BY <2>1 DEF Line
    <2> QED BY <2>3, <2>4, <2>5, <2>6, <2>7
  <1>1. CASE StartServer \/ ServerSteps \/ ServerDies
    BY <1>1, <1>a DEF StartServer, ServerSteps, InitCryptoDriver, HashRow, RowHashed,
                      DatabaseReady, SetUp, ServerDies, ServerExit, handler
  <1>2. CASE Accept \/ Prompt
    BY <1>2, <1>a DEF Accept, Prompt
  <1>3. CASE RecvName
    <2>1. PICK r \in Reads(up, ShortLine) : username' \in FirstLine(r) /\ up' = Left(up, r)
      BY <1>3 DEF RecvName
    <2>2. username'.whole => r.n > 0
      BY <2>1, FirstLineFacts
    <2>3. hpc = "user" /\ hpc' = "ask" /\ UNCHANGED <<authenticated, said>>
      BY <1>3 DEF RecvName
    <2>4. ~authenticated /\ said = {}
      BY <2>3 DEF Accepts
    <2> QED BY <1>a, <1>b, <2>1, <2>2, <2>3, <2>4
  <1>4. CASE RecvPassword
    <2>1. PICK r \in Reads(up, ShortLine) : password' \in FirstLine(r) /\ up' = Left(up, r)
      BY <1>4 DEF RecvPassword
    <2>2. password'.whole => r.n > 0
      BY <2>1, FirstLineFacts
    <2>3. hpc = "pass" /\ hpc' = "hash" /\ UNCHANGED <<username, authenticated, said>>
      BY <1>4 DEF RecvPassword
    <2>4. ASSUME username.whole, password'.whole
          PROVE  Past2' /\ \A i \in 1 .. Len(up') : up'[i].what.at = "chat"
      <3>1. up[1].what.at # "name" /\ Len(up) > 0
        BY <1>0, <2>1, <2>3, <2>4, StreamReads DEF LoginTypes
      <3>2. Past2
        BY <1>0, <3>1
      <3> QED BY <1>0, <1>a, <1>b, <2>1, <2>2, <2>4, <3>1, <3>2
    <2>5. username.whole => \A i \in 1 .. Len(up') : up'[i].what.at # "name"
      BY <1>b, <2>1, <2>3
    <2>6. ~authenticated /\ said = {}
      BY <2>3 DEF Accepts
    <2> QED BY <1>a, <1>b, <2>1, <2>3, <2>4, <2>5, <2>6
  <1>5. CASE RecvChat
    <2>1. PICK r \in Reads(up, Line) : said' = said \cup {Head(up).what.at} /\ up' = Left(up, r)
      BY <1>5 DEF RecvChat
    <2>2. hpc = "recv" /\ authenticated
          /\ UNCHANGED <<hpc, username, password, authenticated>>
      BY <1>5 DEF RecvChat, Accepts
    <2>3. CASE InByPieces
      <3>1. username.whole => \A i \in 1 .. Len(up') : up'[i].what.at # "name"
        BY <1>b, <2>1, <2>2
      <3> QED BY <1>a, <1>b, <2>1, <2>2, <2>3, <3>1
    <2>4. CASE username.whole /\ password.whole
      <3>1. Past2 /\ \A i \in 1 .. Len(up) : up[i].what.at = "chat"
        BY <2>2, <2>4
      <3>2. Head(up).what.at = "chat"
        BY <1>0, <2>1, <3>1, StreamReads DEF LoginTypes
      <3>3. \A i \in 1 .. Len(up') : up'[i].what.at = "chat"
        BY <1>b, <2>1, <3>1
      <3> QED BY <1>a, <1>b, <2>1, <2>2, <2>4, <3>1, <3>2, <3>3
    <2> QED BY <2>2, <2>3, <2>4
  <1>6. CASE HashPassword \/ Authenticate \/ Oops \/ Welcome \/ Deny \/ RoomSpeaks \/ RecvEnd
    BY <1>6, <1>a DEF HashPassword, Authenticate, Oops, Welcome, Deny, RoomSpeaks, RecvEnd,
                      HangUp
  <1> QED BY <1>1, <1>2, <1>3, <1>4, <1>5, <1>6 DEF HandlerSteps

-----------------------------------------------------------------------------
(* Questions and answers.                                                   *)

\* As long as no recv() has ended inside a text, client and handler are never
\* more than one text apart during the login.
InStep ==
    ~torn =>
    /\ hpc = "user" =>
          /\ \A i \in 1 .. Len(up) : up[i].what.at = "name"
          /\ cpc \in {"prompt1", "fgets1", "prompt2", "ended"}
          /\ cpc = "prompt1" => Len(down) < 2
          /\ cpc \in {"fgets1", "prompt2"} => down = <<>>
    /\ hpc = "ask" => /\ up = <<>> /\ cpc \in {"prompt2", "ended"}
                      /\ cpc = "prompt2" => down = <<>>
    /\ hpc = "pass" =>
          /\ \A i \in 1 .. Len(up) : up[i].what.at = "password"
          /\ cpc \in {"prompt2", "fgets2", "verdict", "ended"}
          /\ cpc = "prompt2" => Len(down) < 2
          /\ cpc \in {"fgets2", "verdict"} => down = <<>>
    /\ AnswersReachPrompts

\* What has been sent to the client and not yet received, wherever both wait.
Pending ==
    /\ cpc = "prompt1" /\ hpc = "user" => down # <<>>
    /\ cpc = "prompt2" /\ hpc = "pass" => down # <<>>
    /\ cpc = "verdict" /\ hpc = "recv" => down # <<>> \/ InByPieces
    /\ cpc \in {"prompt2", "verdict"} /\ hpc = "user" /\ ~eof => up # <<>>
    /\ cpc = "verdict" /\ hpc = "pass" /\ ~eof => down # <<>> \/ up # <<>>

LEMMA DialogueInit == LoginInit => InStep /\ Pending
  BY DEF LoginInit, StreamInit, ServerInit, ClientInit, InStep, Pending, AnswersReachPrompts

LEMMA ClientKeepsDialogue ==
    ASSUME LoginTypes, Places, Accepts, InOrder, InStep, Pending, UNCHANGED handler,
           ClientSteps \/ Receiver \/ User
    PROVE  InStep' /\ Pending'
  <1> USE DEF handler, stream
  <1>0. up \in Seq(Item(Line)) /\ down \in Seq(Item(Texts))
    BY DEF LoginTypes, StreamTypes
  <1>1. CASE ~(cpc \in {"prompt1", "fgets1", "prompt2", "fgets2", "verdict"})
    <2>1. cpc' \notin {"fgets1", "prompt2", "fgets2", "verdict"}
          /\ (cpc' = "prompt1" => hpc = "none")
      BY <1>1 DEF ClientSteps, Receiver, User, Connect, RecvPrompt, RecvVerdict, RecvNothing,
              Answer, NoAnswer, Fork, Say, SendLine, Quit, InputEnds, CloseClient, Cancel, Join,
              ReceiverReads, ReceiverPrints, ReceiverEnds, ReceiverCancelled, ExitAll, End, Places
    <2>2. Pending'
      BY <2>1 DEF Pending
    <2>3. torn => torn'
      BY <1>1 DEF ClientSteps, Receiver, User, Connect, RecvPrompt, RecvVerdict, RecvNothing,
              Answer, NoAnswer, Fork, Say, SendLine, Quit, InputEnds, CloseClient, Cancel, Join,
              ReceiverReads, ReceiverPrints, ReceiverEnds, ReceiverCancelled, ExitAll, End, Places
    <2>4. cpc = "ended" => UNCHANGED <<cpc, up>>
      BY DEF ClientSteps, Receiver, User, Connect, RecvPrompt, RecvVerdict, RecvNothing,
              Answer, NoAnswer, Fork, Say, SendLine, Quit, InputEnds, CloseClient, Cancel, Join,
              ReceiverReads, ReceiverPrints, ReceiverEnds, ReceiverCancelled, ExitAll, End
    <2>5. cpc # "ended" /\ ~torn => hpc \notin {"user", "ask", "pass"}
      BY <1>1 DEF InStep
    <2> QED BY <1>1, <2>1, <2>2, <2>3, <2>4, <2>5 DEF InStep, AnswersReachPrompts
  <1>2. CASE cpc \in {"prompt1", "fgets1", "prompt2", "fgets2", "verdict"}
    <2>1. rcv = "none"
      BY <1>2 DEF Places
    <2>2. CASE RecvPrompt
      <3>1. PICK r \in Reads(down, Texts) : down' = Left(down, r) /\ torn' = (torn \/ r.tear)
        BY <2>2 DEF RecvPrompt, PromptReceived
      <3>2. /\ r.tear \in BOOLEAN /\ Len(down) > 0 /\ down' \in Seq(Item(Texts))
            /\ ~r.tear => Len(down') < Len(down)
        BY <3>1, StreamReads DEF LoginTypes
      <3>3. /\ \/ cpc = "prompt1" /\ cpc' = "fgets1"
               \/ cpc = "prompt2" /\ cpc' = "fgets2"
            /\ UNCHANGED <<up, eof>>
        BY <2>2 DEF RecvPrompt, After
      <3>4. Pending'
        BY <3>3 DEF Pending
      <3>5. ~torn' => ~torn /\ ~r.tear
        BY <3>1, <3>2
      <3>6. Len(down) < 2 /\ ~r.tear => down' = <<>>
        BY <1>0, <3>2
      <3> QED BY <1>0, <3>2, <3>3, <3>4, <3>5, <3>6 DEF InStep, AnswersReachPrompts
    <2>3. CASE RecvVerdict
      <3>1. PICK r \in Reads(down, Texts) : down' = Left(down, r) /\ torn' = (torn \/ r.tear)
        BY <2>3 DEF RecvVerdict
      <3>2. r.tear \in BOOLEAN /\ down # <<>>
        BY <3>1, StreamReads DEF LoginTypes
      <3>3. cpc = "verdict" /\ cpc' \in {"ended", "fork"} /\ UNCHANGED up
        BY <2>3 DEF RecvVerdict, End
      <3>4. Pending'
        BY <3>3 DEF Pending
      <3>5. ~torn' => ~torn
        BY <3>1, <3>2
      <3> QED BY <3>2, <3>3, <3>4, <3>5 DEF InStep, AnswersReachPrompts
    <2>4. CASE RecvNothing
      <3>1. hpc \notin Serving /\ UNCHANGED torn
        BY <2>4 DEF RecvNothing, Finished, Places
      <3> QED BY <3>1 DEF InStep, Pending, AnswersReachPrompts, Serving
    <2>5. CASE Answer
      <3>1. PICK l \in Typed : /\ l.at = IF cpc = "fgets1" THEN "name" ELSE "password"
                               /\ SendLine(l, After[cpc], After[cpc])
        BY <2>5 DEF Answer
      <3>2. /\ cpc = "fgets1" \/ cpc = "fgets2"
            /\ ~eof /\ UNCHANGED <<down, torn, eof>>
        BY <2>5 DEF Answer
      <3>3. CASE hpc \notin Serving
        BY <3>2, <3>3 DEF InStep, Pending, AnswersReachPrompts, Serving
      <3>4. CASE hpc \in Serving
        <4>1. up' = Append(up, Sent(l)) /\ cpc' = After[cpc]
          BY <3>1, <3>4 DEF SendLine, Places
        <4>2. /\ Len(up') = Len(up) + 1 /\ up'[Len(up) + 1].what = l
              /\ \A i \in 1 .. Len(up) : up'[i] = up[i]
          BY <1>0, <4>1 DEF Sent
        <4>3. up' # <<>>
          BY <1>0, <4>1
        <4>4. CASE cpc = "fgets1"
          <5>1. cpc' = "prompt2" /\ l.at = "name" /\ hpc \notin {"pass", "ask"}
            BY <3>1, <4>1, <4>4 DEF After, InOrder, Past1, AfterName
          <5>2. hpc \notin {"hash", "ioctl", "welcome", "deny", "recv"}
            BY <4>4 DEF InOrder, Past1, AfterName
          <5> QED BY <1>0, <3>2, <4>2, <4>3, <4>4, <5>1, <5>2 DEF InStep, Pending, AnswersReachPrompts
        <4>5. CASE cpc = "fgets2"
          <5>1. cpc' = "verdict" /\ l.at = "password"
            BY <3>1, <4>1, <4>5 DEF After
          <5>2. hpc = "recv" => InByPieces
            BY <4>5 DEF InOrder, Past2, AfterPassword, Accepts, InByPieces
          <5>3. \A i \in 1 .. Len(up) : up[i].what.at = "name"
            BY <4>5 DEF InOrder, Past2
          <5>4. ~torn /\ hpc = "pass" => Len(up) = 0
            BY <1>0, <5>3 DEF InStep
          <5> QED BY <1>0, <3>2, <4>2, <4>3, <4>5, <5>1, <5>2, <5>4
                  DEF InStep, Pending, AnswersReachPrompts, InByPieces
        <4> QED BY <3>2, <4>4, <4>5
      <3> QED BY <3>3, <3>4
    <2>6. CASE NoAnswer
      <3>1. /\ \/ cpc = "fgets1" /\ cpc' = "prompt2"
               \/ cpc = "fgets2" /\ cpc' = "verdict"
            /\ eof' = TRUE /\ UNCHANGED <<torn, up, down>>
        BY <2>6 DEF NoAnswer, After
      <3>2. cpc = "fgets1" => hpc # "pass"
        BY DEF InOrder, Past1, AfterName
      <3>3. cpc = "fgets2" /\ hpc = "recv" => InByPieces
        BY DEF InOrder, Past2, AfterPassword, Accepts, InByPieces
      <3> QED BY <3>1, <3>2, <3>3 DEF InStep, Pending, AnswersReachPrompts, InByPieces
    <2> QED
      BY <1>2, <2>1, <2>2, <2>3, <2>4, <2>5, <2>6
      DEF ClientSteps, Receiver, User, Connect, Fork, Say, Quit, InputEnds, CloseClient,
          Cancel, Join, ReceiverReads, ReceiverPrints, ReceiverEnds, ReceiverCancelled, Cancelled
  <1> QED BY <1>1, <1>2

LEMMA ServerKeepsDialogue ==
    ASSUME LoginTypes, Places, Accepts, InOrder, InStep, Pending, UNCHANGED client,
           StartServer \/ ServerSteps \/ ServerDies \/ HandlerSteps \/ RoomSpeaks
    PROVE  InStep' /\ Pending'
  <1> USE DEF client, stream
  <1>0. up \in Seq(Item(Line)) /\ down \in Seq(Item(Texts))
    BY DEF LoginTypes, StreamTypes
  <1>1. ASSUME UNCHANGED <<torn, hpc, username, password, authenticated, up, down>>
        PROVE  InStep' /\ Pending'
    BY <1>1 DEF InStep, Pending, AnswersReachPrompts, InByPieces
  <1>2. CASE StartServer \/ ServerSteps \/ ServerDies
    <2>1. UNCHANGED <<torn, username, password, authenticated, up, down>> /\ (hpc' = hpc \/ hpc' = "gone")
      BY <1>2 DEF StartServer, ServerSteps, InitCryptoDriver, HashRow, RowHashed, DatabaseReady,
                  SetUp, ServerDies, ServerExit, handler
    <2>2. CASE hpc' = "gone"
      BY <2>2 DEF InStep, Pending, AnswersReachPrompts
    <2> QED BY <1>1, <2>1, <2>2
  <1>3. CASE Accept
    BY <1>3 DEF Accept, InStep, Pending, AnswersReachPrompts
  <1>4. CASE Prompt
    <2>1. UNCHANGED <<torn, username, password, up>> /\ (hung => cpc \in {"cancel", "join", "ended"})
      BY <1>4 DEF Prompt, Places
    <2>2. CASE hpc = "hello"
      <3>1. /\ hpc' = "user" /\ up = <<>> /\ down = <<>> /\ cpc \in {"prompt1", "ended"}
            /\ down' = IF hung THEN down ELSE Append(down, Sent("USERNAME"))
        BY <1>4, <2>2 DEF Prompt, Send, Places, Serving
      <3>2. Len(down') < 2 /\ (~hung => down' # <<>>)
        BY <3>1
      <3> QED BY <2>1, <3>1, <3>2 DEF InStep, Pending, AnswersReachPrompts
    <2>3. CASE hpc = "ask"
      <3>1. hpc' = "pass" /\ down' = IF hung THEN down ELSE Append(down, Sent("PASSWORD"))
        BY <1>4, <2>3 DEF Prompt, Send
      <3>2. ~hung => down' # <<>>
        BY <1>0, <3>1
      <3>3. ~torn => up = <<>> /\ cpc \in {"prompt2", "ended"} /\ username.at = "name"
                     /\ (cpc = "prompt2" => Len(down') < 2)
        BY <2>3, <3>1 DEF InStep, AnswersReachPrompts
      <3> QED BY <2>1, <3>1, <3>2, <3>3 DEF InStep, Pending, AnswersReachPrompts
    <2> QED BY <1>4, <2>2, <2>3 DEF Prompt
  <1>5. CASE RecvName
    <2>1. PICK r \in Reads(up, ShortLine) :
            username' \in FirstLine(r) /\ up' = Left(up, r) /\ torn' = (torn \/ r.tear)
      BY <1>5 DEF RecvName
    <2>2. /\ r.tear \in BOOLEAN /\ Len(up) > 0 /\ r.n \in 0 .. Len(up) /\ (~r.tear => r.n > 0)
          /\ up' \in Seq(Item(Line)) /\ Len(up') = Len(up) - r.n /\ Head(up) = up[1]
      BY <2>1, StreamReads DEF LoginTypes
    <2>3. hpc = "user" /\ hpc' = "ask" /\ UNCHANGED <<down, password>>
      BY <1>5 DEF RecvName
    <2>4. Pending'
      BY <2>3 DEF Pending
    <2>5. ASSUME ~torn'
          PROVE  username'.at = "name" /\ up' = <<>> /\ cpc \in {"prompt2", "ended"}
                 /\ (cpc = "prompt2" => down = <<>>)
      <3>1. ~torn /\ ~r.tear
        BY <2>1, <2>2, <2>5
      <3>2. \A i \in 1 .. Len(up) : up[i].what.at = "name"
        BY <2>3, <3>1 DEF InStep
      <3>3. Len(up) < 2
        BY <1>0, <3>2 DEF InOrder
      <3>4. up' = <<>>
        BY <2>2, <3>1, <3>3
      <3>5. username'.at = up[1].what.at
        BY <2>1, <2>2, FirstLineFacts
      <3>6. Past1
        BY <2>2 DEF InOrder
      <3> QED BY <2>2, <2>3, <3>1, <3>2, <3>4, <3>5, <3>6 DEF InStep, Past1
    <2> QED BY <2>3, <2>4, <2>5 DEF InStep, AnswersReachPrompts
  <1>6. CASE RecvPassword
    <2>1. PICK r \in Reads(up, ShortLine) :
            password' \in FirstLine(r) /\ up' = Left(up, r) /\ torn' = (torn \/ r.tear)
      BY <1>6 DEF RecvPassword
    <2>2. r.tear \in BOOLEAN /\ Len(up) > 0 /\ Head(up) = up[1]
      BY <2>1, StreamReads DEF LoginTypes
    <2>3. hpc = "pass" /\ hpc' = "hash" /\ UNCHANGED <<down, username>>
      BY <1>6 DEF RecvPassword
    <2>4. Pending'
      BY <2>3 DEF Pending
    <2>5. ASSUME ~torn'
          PROVE  username'.at = "name" /\ password'.at = "password"
      <3>1. ~torn
        BY <2>1, <2>2, <2>5
      <3>2. up[1].what.at = "password" /\ username.at = "name"
        BY <2>2, <2>3, <3>1 DEF InStep, AnswersReachPrompts
      <3>3. password'.at = up[1].what.at
        BY <2>1, <2>2, FirstLineFacts
      <3> QED BY <2>3, <3>2, <3>3
    <2> QED BY <2>3, <2>4, <2>5 DEF InStep, AnswersReachPrompts
  <1>7. CASE HashPassword \/ Authenticate
    BY <1>7 DEF HashPassword, Authenticate, InStep, Pending, AnswersReachPrompts
  <1>8. CASE Oops
    BY <1>8 DEF Oops, InStep, Pending, AnswersReachPrompts
  <1>9. CASE Welcome \/ RoomSpeaks
    <2>1. /\ UNCHANGED <<torn, username, password, up>> /\ hpc \in {"welcome", "recv"}
          /\ hpc' \in {"welcome", "recv"} /\ (hpc' = "welcome" => hpc = "welcome")
          /\ \E x \in Texts : down' = IF hung THEN down ELSE Append(down, Sent(x))
      BY <1>9 DEF Welcome, RoomSpeaks, Send, Texts
    <2>2. ~hung => down' # <<>>
      BY <1>0, <2>1
    <2>3. cpc = "verdict" => ~hung
      BY DEF Places
    <2> QED BY <2>1, <2>2, <2>3 DEF InStep, Pending, AnswersReachPrompts
  <1>10. CASE Deny \/ RecvEnd
    <2>1. hpc' = "gone" /\ UNCHANGED torn
      BY <1>10 DEF Deny, RecvEnd, HangUp
    <2> QED BY <2>1 DEF InStep, Pending, AnswersReachPrompts
  <1>11. CASE RecvChat
    <2>1. PICK r \in Reads(up, Line) : torn' = (torn \/ r.tear)
      BY <1>11 DEF RecvChat
    <2>2. r.tear \in BOOLEAN
      BY <2>1, StreamReads DEF LoginTypes
    <2>3. hpc = "recv" /\ UNCHANGED <<hpc, down, username, password, authenticated>>
      BY <1>11 DEF RecvChat
    <2> QED BY <2>1, <2>2, <2>3 DEF InStep, Pending, AnswersReachPrompts, InByPieces
  <1> QED BY <1>2, <1>3, <1>4, <1>5, <1>6, <1>7, <1>8, <1>9, <1>10, <1>11 DEF HandlerSteps

-----------------------------------------------------------------------------
(* Chat and login.                                                          *)

\* Once the handler has the password the client can only wait for the verdict,
\* and what reaches it first was sent to a member.  A handler has its server,
\* which starts again only before the connection; one that is gone has closed.
Judged ==
    /\ srv \notin {"off", "accept"} => hpc = "none"
    /\ hpc = "gone" => link # "open"
    /\ hpc = "dead" => link = "open"
    /\ ~torn /\ hpc \in {"hash", "ioctl", "deny", "dead"} =>
          cpc \in {"verdict", "ended"} /\ (cpc = "verdict" => down = <<>>)

LEMMA JudgedInit == LoginInit => Judged
  BY DEF LoginInit, StreamInit, ServerInit, Judged

LEMMA ClientKeepsJudged ==
    ASSUME LoginTypes, Places, Judged, UNCHANGED <<serverVars, handler>>,
           ClientSteps \/ Receiver \/ User
    PROVE  Judged'
  <1> USE DEF handler, stream, serverVars
  <1>1. link' = "open" => link = "open" \/ hpc = "none"
    BY DEF ClientSteps, Receiver, User, Connect, RecvPrompt, RecvVerdict, RecvNothing,
           Answer, NoAnswer, Fork, Say, SendLine, Quit, InputEnds, CloseClient, Cancel, Join,
           ReceiverReads, ReceiverPrints, ReceiverEnds, ReceiverCancelled, ExitAll, End, Places
  <1>2. link = "open" => link' = "open"
    BY DEF ClientSteps, Receiver, User, Connect, RecvPrompt, RecvVerdict, RecvNothing, Finished,
           Answer, NoAnswer, Fork, Say, SendLine, Quit, InputEnds, CloseClient, Cancel, Join,
           ReceiverReads, ReceiverPrints, ReceiverEnds, ReceiverCancelled, ExitAll, End, Places
  <1>3. ~torn' => ~torn
    BY DEF ClientSteps, Receiver, User, Connect, RecvPrompt, PromptReceived, RecvVerdict,
           RecvNothing, Answer, NoAnswer, Fork, Say, Quit, InputEnds, CloseClient, Cancel,
           Join, ReceiverReads, ReceiverPrints, ReceiverEnds, ReceiverCancelled
  <1>4. CASE cpc = "ended"
    <2>1. cpc' = "ended"
      BY <1>4 DEF ClientSteps, Receiver, User, Connect, RecvPrompt, RecvVerdict, RecvNothing,
              Answer, NoAnswer, Fork, Say, Quit, InputEnds, CloseClient, Cancel, Join,
              ReceiverReads, ReceiverPrints, ReceiverEnds, ReceiverCancelled, Cancelled
    <2> QED BY <1>1, <1>2, <1>3, <2>1 DEF Judged
  <1>5. CASE cpc = "verdict" /\ down = <<>> /\ link = "open"
    <2>1. rcv = "none" /\ ~Finished /\ ~\E r \in Reads(down, Texts) : TRUE
      BY <1>5, StreamReads DEF Places, Finished, LoginTypes
    <2>2. FALSE
      BY <1>5, <2>1 DEF ClientSteps, Receiver, User, Connect, RecvPrompt, RecvVerdict,
              RecvNothing, Answer, NoAnswer, Fork, Say, Quit, InputEnds, CloseClient, Cancel, Join,
              ReceiverReads, ReceiverPrints, ReceiverEnds, ReceiverCancelled, Cancelled
    <2> QED BY <2>2
  <1>6. CASE torn \/ hpc \notin {"hash", "ioctl", "deny", "dead"}
    BY <1>1, <1>2, <1>3, <1>6 DEF Judged
  <1> QED BY <1>4, <1>5, <1>6 DEF Judged, Places, Serving

LEMMA ServerKeepsJudged ==
    ASSUME LoginTypes, Places, InOrder, InStep, Judged, UNCHANGED client,
           StartServer \/ ServerSteps \/ ServerDies \/ HandlerSteps \/ RoomSpeaks
    PROVE  Judged'
  <1> USE DEF client, stream, serverVars, handler
  <1>1. CASE StartServer \/ ServerSteps
    BY <1>1 DEF StartServer, ServerSteps, InitCryptoDriver, HashRow, RowHashed, DatabaseReady,
                SetUp, SetUpOrder, ServerExit, Judged, Places
  <1>2. CASE ServerDies
    BY <1>2 DEF ServerDies, ServerExit, Judged, Places, Serving
  <1>3. CASE Accept
    BY <1>3 DEF Accept, CloseLink, Judged
  <1>4. CASE Prompt \/ RecvName \/ Welcome \/ RoomSpeaks \/ RecvChat
    BY <1>4 DEF Prompt, RecvName, Welcome, RoomSpeaks, RecvChat, Judged
  <1>5. CASE RecvPassword
    <2>1. PICK r \in Reads(up, ShortLine) :
            password' \in FirstLine(r) /\ up' = Left(up, r) /\ torn' = (torn \/ r.tear)
      BY <1>5 DEF RecvPassword
    <2>2. r.tear \in BOOLEAN /\ Len(up) > 0 /\ Len(up) \in Nat
      BY <2>1, StreamReads DEF LoginTypes, StreamTypes
    <2>3. hpc = "pass" /\ hpc' = "hash" /\ UNCHANGED <<down, link, srv, cpc>>
      BY <1>5 DEF RecvPassword
    <2>4. ASSUME ~torn'
          PROVE  cpc \in {"verdict", "ended"} /\ (cpc = "verdict" => down = <<>>)
      <3>1. ~torn
        BY <2>1, <2>2, <2>4
      <3>2. up[1].what.at = "password"
        BY <2>2, <2>3, <3>1 DEF InStep
      <3>3. Past2
        BY <2>2, <3>2 DEF InOrder
      <3> QED BY <2>3, <3>1, <3>3 DEF InStep, Past2
    <2> QED BY <2>3, <2>4 DEF Judged
  <1>6. CASE HashPassword \/ Authenticate \/ Oops
    BY <1>6 DEF HashPassword, Authenticate, Oops, Judged, Places, Serving
  <1>7. CASE Deny \/ RecvEnd
    BY <1>7 DEF Deny, RecvEnd, HangUp, CloseLink, Waits, Judged
  <1> QED BY <1>1, <1>2, <1>3, <1>4, <1>5, <1>6, <1>7 DEF HandlerSteps

-----------------------------------------------------------------------------
(* The invariant, and what follows from it.                                 *)

LoginInv == LoginTypes /\ Places /\ Accepts /\ InOrder /\ InStep /\ Pending /\ Judged

\* The inductive invariant of a login from end to end.
THEOREM LoginInvariant == LoginSpec => []LoginInv
<1>1. LoginInit => LoginInv
  BY TypesInit, PlacesInit, AcceptsInit, InOrderInit, DialogueInit, JudgedInit DEF LoginInv
<1>2. LoginInv /\ [LoginNext]_login => LoginInv'
  <2> SUFFICES ASSUME LoginInv, [LoginNext]_login PROVE LoginInv'
    OBVIOUS
  <2> USE DEF LoginInv
  <2>1. LoginTypes'
    BY TypesStep
  <2>2. CASE (ClientSteps \/ Receiver \/ User) /\ UNCHANGED <<device, serverVars, handler>>
    <3>1. Places'
      BY <2>2, ClientKeepsPlaces DEF LoginTypes
    <3>2. Accepts'
      BY <2>2 DEF Accepts, AcceptedIsRight, serverVars, handler
    <3>3. InOrder'
      BY <2>2, ClientKeepsOrder
    <3>4. InStep' /\ Pending'
      BY <2>2, ClientKeepsDialogue
    <3>5. Judged'
      BY <2>2, ClientKeepsJudged
    <3> QED BY <2>1, <3>1, <3>2, <3>3, <3>4, <3>5
  <2>3. CASE /\ StartServer \/ ServerSteps \/ ServerDies \/ HandlerSteps \/ RoomSpeaks
             /\ UNCHANGED client
    <3>1. Places'
      BY <2>3, ServerKeepsPlaces DEF LoginTypes
    <3>2. Accepts'
      BY <2>3, ServerKeepsAccepts
    <3>3. InOrder'
      BY <2>3, ServerKeepsOrder
    <3>4. InStep' /\ Pending'
      BY <2>3, ServerKeepsDialogue
    <3>5. Judged'
      BY <2>3, ServerKeepsJudged
    <3> QED BY <2>1, <3>1, <3>2, <3>3, <3>4, <3>5
  <2>4. CASE UNCHANGED <<client, serverVars, handler, stream>>
    <3> USE <2>4 DEF client, serverVars, handler, stream
    <3>1. Places'
      BY DEF Places
    <3>2. Accepts'
      BY DEF Accepts, AcceptedIsRight
    <3>3. InOrder'
      BY DEF InOrder, Past1, Past2, PasswordStaysPrivate, InByPieces
    <3>4. InStep' /\ Pending'
      BY DEF InStep, Pending, AnswersReachPrompts, InByPieces
    <3>5. Judged'
      BY DEF Judged
    <3> QED BY <2>1, <3>1, <3>2, <3>3, <3>4, <3>5
  <2> QED BY <2>2, <2>3, <2>4 DEF LoginNext, login
<1> QED BY <1>1, <1>2, PTL DEF LoginSpec

\* Every variable of client, server and connection keeps its range.
THEOREM LoginTypeCorrect == LoginSpec => []LoginTypeOK
<1>1. LoginInv => LoginTypeOK
  BY DEF LoginInv, LoginTypes, ClientTypes, StreamTypes, ServerTypes, HandlerTypes, LoginTypeOK
<1> QED BY <1>1, LoginInvariant, PTL

\* Nobody is let in unless what was read for the name and for the password are a
\* name and its password, for any user_db, whatever digests could not be computed
\* and whatever the pieces of torn lines happen to be.
THEOREM AcceptCorrect == LoginSpec => []AcceptedIsRight
<1>1. LoginInv => AcceptedIsRight
  BY DEF LoginInv, Accepts
<1> QED BY <1>1, LoginInvariant, PTL

\* The answers reach the prompts they were typed at, as long as no read ends
\* inside a text.
THEOREM AnswersCorrect == LoginSpec => []AnswersReachPrompts
<1>1. LoginInv => AnswersReachPrompts
  BY DEF LoginInv, InStep, AnswersReachPrompts
<1> QED BY <1>1, LoginInvariant, PTL

\* Client and handler do not wait for each other unless the input ended or a piece
\* of a line let somebody in, however the streams are cut.
THEOREM NoStandoffCorrect == LoginSpec => []NoStandoff
<1>1. LoginInv => NoStandoff
  <2> SUFFICES ASSUME LoginInv, ~eof, ~InByPieces, link = "open", down = <<>>, up = <<>>,
                      cpc \in {"prompt1", "prompt2", "verdict"}, hpc \in Waits
               PROVE  FALSE
    BY DEF NoStandoff
  <2>1. CASE hpc = "user"
    BY <2>1 DEF LoginInv, Pending
  <2>2. CASE hpc = "pass"
    BY <2>2 DEF LoginInv, Pending, InOrder, Past1, AfterName
  <2>3. CASE hpc = "recv"
    <3>1. Past2
      BY <2>3 DEF LoginInv, Accepts, InOrder, AfterPassword, InByPieces
    <3> QED BY <2>3, <3>1 DEF LoginInv, Pending, Past1, Past2
  <2> QED BY <2>1, <2>2, <2>3 DEF Waits
<1> QED BY <1>1, LoginInvariant, PTL

\* The client lets its user chat only when he is logged in, as long as no read ends
\* inside a text and the server is there.
THEOREM ChatsCorrect == LoginSpec => []ChatsLoggedIn
<1>1. LoginInv => ChatsLoggedIn
  <2> SUFFICES ASSUME LoginInv, cpc \in {"fork", "loop"}, ~torn, link = "open"
               PROVE  authenticated
    BY DEF ChatsLoggedIn
  <2>1. hpc \notin {"none", "hello"}
    BY DEF LoginInv, Places
  <2>2. hpc \notin {"user", "ask", "pass"}
    BY DEF LoginInv, InStep
  <2>3. hpc \notin {"hash", "ioctl", "deny", "dead", "gone"}
    BY DEF LoginInv, Judged
  <2>4. hpc \in {"welcome", "recv"}
    BY <2>1, <2>2, <2>3 DEF LoginInv, LoginTypes, HandlerTypes, Handler
  <2> QED BY <2>4 DEF LoginInv, Accepts
<1> QED BY <1>1, LoginInvariant, PTL

\* Nothing that was typed at a prompt of the login is said in the room, however the
\* streams are cut and however long the lines are, unless a piece of a line let
\* somebody in.
THEOREM PasswordCorrect == LoginSpec => []PasswordStaysPrivate
<1>1. LoginInv => PasswordStaysPrivate
  BY DEF LoginInv, InOrder
<1> QED BY <1>1, LoginInvariant, PTL

\* Loading and unloading are all or nothing also while the server starts, runs and
\* dies with the device open.
THEOREM LoginDeviceCorrect == LoginSpec => [](NothingLeftBehind /\ NodeIsServed)
<1>1. LoginInit => ModuleInv
  BY ModuleStarts DEF LoginInit
<1>2. ModuleInv /\ [LoginNext]_login => ModuleInv'
  <2> SUFFICES ASSUME ModuleInv, [LoginNext]_login PROVE ModuleInv'
    OBVIOUS
  <2>1. CASE Module
    BY <2>1, ModuleKeeps
  <2>2. CASE UNCHANGED device
    BY <2>2, ProgramsKeep DEF device, vars
  <2>3. CASE StartServer \/ ServerSteps \/ ServerDies \/ HandlerSteps \/ RoomSpeaks
    <3>1. UNCHANGED <<mod, step, chrdev, class, node>>
      BY <2>3 DEF StartServer, ServerSteps, InitCryptoDriver, HashRow, RowHashed, DatabaseReady,
                  SetUp, ServerDies, ServerExit, HandlerSteps, Accept, Prompt, RecvName,
                  RecvPassword, HashPassword, Authenticate, Oops, Welcome, Deny, RoomSpeaks,
                  RecvChat, RecvEnd, Open, Enter, Leave, device, vars
    <3> QED BY <3>1, ProgramsKeep
  <2> QED BY <2>1, <2>2, <2>3 DEF LoginNext, login
<1> QED BY <1>1, <1>2, ModuleMeans, PTL DEF LoginSpec
=============================================================================
