--------------------------- MODULE WebChatProofs ---------------------------
(***************************************************************************)
(* Theorems about WebChat: the table of connections and the sockets agree;  *)
(* what is said and heard stays with the page it was made for; and on the   *)
(* connections of a page on which nobody logged in again before he was      *)
(* answered (those not in hasty) there is one login under way and one       *)
(* account, which keeps the names of page and connection the same.          *)
(***************************************************************************)
EXTENDS WebChat, FiniteSetTheorems, TLAPS

-----------------------------------------------------------------------------
(* What may stand in a queue of events.                                     *)

Logs(q)  == \E i \in 1 .. Len(q) : q[i].op = "login"
Talks(q) == \E i \in 1 .. Len(q) : q[i].op \in {"send", "private"}

\* At most one login.
Once(q) == \A i, j \in 1 .. Len(q) : q[i].op = "login" /\ q[j].op = "login" => i = j

\* "disconnect" is the last event of a connection that is closed.
Closes(q, w) ==
    \A i \in 1 .. Len(q) : q[i].op = "disconnect" <=> w = "closed" /\ i = Len(q)

\* What is said in it was typed as u.
SaidAs(q, u) == \A i \in 1 .. Len(q) : q[i].op \in {"send", "private"} => q[i].as = u

LEMMA QueueGrows ==
    ASSUME NEW q \in Seq(Event), NEW e \in Event
    PROVE  LET r == Append(q, e)
           IN  /\ r \in Seq(Event) /\ r # <<>>
               /\ Logs(r) <=> Logs(q) \/ e.op = "login"
               /\ Talks(r) <=> Talks(q) \/ e.op \in {"send", "private"}
               /\ Once(q) /\ (e.op = "login" => ~Logs(q)) => Once(r)
               /\ \A u : SaidAs(q, u) /\ (e.op \in {"send", "private"} => e.as = u)
                         => SaidAs(r, u)
               /\ Closes(q, "on") /\ e.op # "disconnect" => Closes(r, "on")
               /\ Closes(q, "on") /\ e.op = "disconnect" => Closes(r, "closed")
  <1> DEFINE r == Append(q, e)
  <1>1. /\ r \in Seq(Event) /\ r # <<>> /\ Len(q) \in Nat
        /\ Len(r) = Len(q) + 1 /\ r[Len(q) + 1] = e
        /\ \A i \in 1 .. Len(q) : r[i] = q[i]
    OBVIOUS
  <1> HIDE DEF r
  <1>2. /\ \A i \in 1 .. Len(q) : i \in 1 .. Len(r)
        /\ Len(q) + 1 \in 1 .. Len(r)
        /\ \A i \in 1 .. Len(r) : i \in 1 .. Len(q) \/ i = Len(r)
    BY <1>1
  <1>3. Logs(r) <=> Logs(q) \/ e.op = "login"
    BY <1>1, <1>2 DEF Logs
  <1>4. Talks(r) <=> Talks(q) \/ e.op \in {"send", "private"}
    BY <1>1, <1>2 DEF Talks
  <1>5. Once(q) /\ (e.op = "login" => ~Logs(q)) => Once(r)
    BY <1>1, <1>2 DEF Once, Logs
  <1>6. \A u : SaidAs(q, u) /\ (e.op \in {"send", "private"} => e.as = u) => SaidAs(r, u)
    BY <1>1, <1>2 DEF SaidAs
  <1>7. /\ Closes(q, "on") /\ e.op # "disconnect" => Closes(r, "on")
        /\ Closes(q, "on") /\ e.op = "disconnect" => Closes(r, "closed")
    BY <1>1, <1>2 DEF Closes
  <1>8. QED
    BY <1>1, <1>3, <1>4, <1>5, <1>6, <1>7 DEF r

LEMMA QueueShrinks ==
    ASSUME NEW q \in Seq(Event), q # <<>>
    PROVE  LET r == Tail(q)  e == Head(q)
           IN  /\ r \in Seq(Event) /\ e \in Event
               /\ Logs(q) <=> Logs(r) \/ e.op = "login"
               /\ Talks(q) <=> Talks(r) \/ e.op \in {"send", "private"}
               /\ Once(q) => Once(r) /\ (e.op = "login" => ~Logs(r))
               /\ \A u : SaidAs(q, u) => /\ SaidAs(r, u)
                                         /\ e.op \in {"send", "private"} => e.as = u
               /\ \A w : Closes(q, w) => /\ Closes(r, w)
                                         /\ w = "closed" /\ r = <<>> => e.op = "disconnect"
                                         /\ e.op = "disconnect" => w = "closed" /\ r = <<>>
  <1> DEFINE r == Tail(q)
             e == Head(q)
  <1>1. /\ r \in Seq(Event) /\ e \in Event /\ Len(q) \in Nat \ {0}
        /\ Len(r) = Len(q) - 1 /\ e = q[1]
        /\ \A i \in 1 .. Len(r) : r[i] = q[i + 1]
    OBVIOUS
  <1> HIDE DEF r, e
  <1>2. r = <<>> <=> Len(q) = 1
    BY <1>1
  <1>3. /\ \A i \in 1 .. Len(r) : i + 1 \in 1 .. Len(q)
        /\ \A i \in 1 .. Len(q) : i = 1 \/ (i - 1 \in 1 .. Len(r) /\ r[i - 1] = q[i])
        /\ 1 \in 1 .. Len(q)
    BY <1>1
  <1>4. Logs(q) <=> Logs(r) \/ e.op = "login"
    BY <1>1, <1>3 DEF Logs
  <1>5. Talks(q) <=> Talks(r) \/ e.op \in {"send", "private"}
    BY <1>1, <1>3 DEF Talks
  <1>6. Once(q) => Once(r) /\ (e.op = "login" => ~Logs(r))
    BY <1>1, <1>3 DEF Once, Logs
  <1>7. \A u : SaidAs(q, u) => SaidAs(r, u) /\ (e.op \in {"send", "private"} => e.as = u)
    BY <1>1, <1>3 DEF SaidAs
  <1>8. \A w : Closes(q, w) => /\ Closes(r, w)
                               /\ w = "closed" /\ r = <<>> => e.op = "disconnect"
                               /\ e.op = "disconnect" => w = "closed" /\ r = <<>>
    BY <1>1, <1>2, <1>3 DEF Closes
  <1>9. QED
    BY <1>1, <1>4, <1>5, <1>6, <1>7, <1>8 DEF r, e

LEMMA QueueCut ==
    ASSUME NEW q \in Seq(Event), NEW k \in 0 .. Len(q)
    PROVE  LET r == SubSeq(q, 1, k)
           IN  /\ r \in Seq(Event)
               /\ Logs(r) => Logs(q)
               /\ Talks(r) => Talks(q)
               /\ Once(q) => Once(r)
               /\ \A u : SaidAs(q, u) => SaidAs(r, u)
               /\ Closes(q, "on") => Closes(r, "on")
  <1> DEFINE r == SubSeq(q, 1, k)
  <1>1. /\ r \in Seq(Event) /\ Len(r) = k /\ k \in Nat /\ k <= Len(q) /\ Len(q) \in Nat
        /\ \A i \in 1 .. k : r[i] = q[i]
    OBVIOUS
  <1> HIDE DEF r
  <1>2. \A i \in 1 .. Len(r) : i \in 1 .. Len(q)
    BY <1>1
  <1>3. (Logs(r) => Logs(q)) /\ (Talks(r) => Talks(q))
    BY <1>1, <1>2 DEF Logs, Talks
  <1>4. Once(q) => Once(r)
    BY <1>1, <1>2 DEF Once
  <1>5. \A u : SaidAs(q, u) => SaidAs(r, u)
    BY <1>1, <1>2 DEF SaidAs
  <1>6. Closes(q, "on") => Closes(r, "on")
    BY <1>1, <1>2 DEF Closes
  <1>7. QED
    BY <1>1, <1>3, <1>4, <1>5, <1>6 DEF r

LEMMA QueueEmpty ==
    /\ ~Logs(<<>>) /\ ~Talks(<<>>) /\ Once(<<>>)
    /\ \A u : SaidAs(<<>>, u)
    /\ \A w : Closes(<<>>, w)
  BY DEF Logs, Talks, Once, SaidAs, Closes

-----------------------------------------------------------------------------
(* What may stand in the post for a page.                                   *)

Answer == {"welcome", "refused"}

Answers(q)  == \E i \in 1 .. Len(q) : q[i].kind \in Answer
Welcomes(q) == \E i \in 1 .. Len(q) : q[i].kind = "welcome"

\* At most one answer to a login.
OneAnswer(q) ==
    \A i, j \in 1 .. Len(q) : q[i].kind \in Answer /\ q[j].kind \in Answer => i = j

\* What comes for the session t of u: it is welcomed as u, and hears t.
Letter(e, t, u) == /\ e.kind = "welcome" => t # NULL /\ e.user = u
                   /\ e.kind = "chat" => t # NULL /\ e.from = t
Mail(q, t, u)   == \A i \in 1 .. Len(q) : Letter(q[i], t, u)

LEMMA MailGrows ==
    ASSUME NEW q \in Seq(Emission), NEW e \in Emission
    PROVE  LET r == Append(q, e)
           IN  /\ r \in Seq(Emission) /\ r # <<>>
               /\ Answers(r) <=> Answers(q) \/ e.kind \in Answer
               /\ Welcomes(r) <=> Welcomes(q) \/ e.kind = "welcome"
               /\ OneAnswer(q) /\ (e.kind \in Answer => ~Answers(q)) => OneAnswer(r)
               /\ \A t, u : Mail(q, t, u) /\ Letter(e, t, u) => Mail(r, t, u)
  <1> DEFINE r == Append(q, e)
  <1>1. /\ r \in Seq(Emission) /\ r # <<>> /\ Len(q) \in Nat
        /\ Len(r) = Len(q) + 1 /\ r[Len(q) + 1] = e
        /\ \A i \in 1 .. Len(q) : r[i] = q[i]
    OBVIOUS
  <1> HIDE DEF r
  <1>2. /\ \A i \in 1 .. Len(q) : i \in 1 .. Len(r)
        /\ Len(q) + 1 \in 1 .. Len(r)
        /\ \A i \in 1 .. Len(r) : i \in 1 .. Len(q) \/ i = Len(r)
    BY <1>1
  <1>3. Answers(r) <=> Answers(q) \/ e.kind \in Answer
    BY <1>1, <1>2 DEF Answers
  <1>4. Welcomes(r) <=> Welcomes(q) \/ e.kind = "welcome"
    BY <1>1, <1>2 DEF Welcomes
  <1>5. OneAnswer(q) /\ (e.kind \in Answer => ~Answers(q)) => OneAnswer(r)
    BY <1>1, <1>2 DEF OneAnswer, Answers
  <1>6. \A t, u : Mail(q, t, u) /\ Letter(e, t, u) => Mail(r, t, u)
    BY <1>1, <1>2 DEF Mail
  <1>7. QED
    BY <1>1, <1>3, <1>4, <1>5, <1>6 DEF r

LEMMA MailShrinks ==
    ASSUME NEW q \in Seq(Emission), q # <<>>
    PROVE  LET r == Tail(q)  e == Head(q)
           IN  /\ r \in Seq(Emission) /\ e \in Emission
               /\ Answers(q) <=> Answers(r) \/ e.kind \in Answer
               /\ Welcomes(q) <=> Welcomes(r) \/ e.kind = "welcome"
               /\ OneAnswer(q) => OneAnswer(r) /\ (e.kind \in Answer => ~Answers(r))
               /\ \A t, u : Mail(q, t, u) => Mail(r, t, u) /\ Letter(e, t, u)
  <1> DEFINE r == Tail(q)
             e == Head(q)
  <1>1. /\ r \in Seq(Emission) /\ e \in Emission /\ Len(q) \in Nat \ {0}
        /\ Len(r) = Len(q) - 1 /\ e = q[1]
        /\ \A i \in 1 .. Len(r) : r[i] = q[i + 1]
    OBVIOUS
  <1> HIDE DEF r, e
  <1>2. /\ \A i \in 1 .. Len(r) : i + 1 \in 1 .. Len(q)
        /\ \A i \in 1 .. Len(q) : i = 1 \/ (i - 1 \in 1 .. Len(r) /\ r[i - 1] = q[i])
        /\ 1 \in 1 .. Len(q)
    BY <1>1
  <1>3. Answers(q) <=> Answers(r) \/ e.kind \in Answer
    BY <1>1, <1>2 DEF Answers
  <1>4. Welcomes(q) <=> Welcomes(r) \/ e.kind = "welcome"
    BY <1>1, <1>2 DEF Welcomes
  <1>5. OneAnswer(q) => OneAnswer(r) /\ (e.kind \in Answer => ~Answers(r))
    BY <1>1, <1>2 DEF OneAnswer, Answers
  <1>6. \A t, u : Mail(q, t, u) => Mail(r, t, u) /\ Letter(e, t, u)
    BY <1>1, <1>2 DEF Mail
  <1>7. QED
    BY <1>1, <1>3, <1>4, <1>5, <1>6 DEF r, e

LEMMA MailEmpty ==
    /\ ~Answers(<<>>) /\ ~Welcomes(<<>>) /\ OneAnswer(<<>>)
    /\ \A t, u : Mail(<<>>, t, u)
  BY DEF Answers, Welcomes, OneAnswer, Mail

-----------------------------------------------------------------------------
(* Types.                                                                   *)

Entering == {"USERNAME", "PASSWORD", "AUTH_SUCCESS"}

LoopState == [at : {"idle", "welcome", "write"} \cup Entering, sid : Sid \cup {NULL},
              conn : Tcp \cup {NULL}, op : {"none", "send", "private", "list"},
              as : User \cup {NULL}]

Types ==
    /\ Ranges
    /\ loop \in LoopState
    /\ loop.at = "idle" => loop = Idle
    /\ loop.at # "idle" => loop.sid \in Sid /\ loop.conn \in Tcp

LEMMA NullApart == NULL \notin Sid /\ NULL \notin Tcp /\ NULL \notin User
  BY NullAssumption, SizeAssumption DEF Sid, Tcp

LEMMA IdleType == Idle \in LoopState /\ Idle.at = "idle" /\ Idle.sid = NULL /\ Idle.conn = NULL
  BY DEF Idle, LoopState

LEMMA PlainType ==
    ASSUME NEW op \in Ops, NEW u \in User \cup {NULL}
    PROVE  /\ Plain(op, u) \in Event /\ Plain(op, u).op = op /\ Plain(op, u).as = u
  BY DEF Plain, Event

LEMMA NoticeType ==
    ASSUME NEW k \in {"welcome", "refused", "chat", "users", "error", "lost"}
    PROVE  Notice(k) \in Emission /\ Notice(k).kind = k
  <1>1. <<>> \in Seq(Item)
    OBVIOUS
  <1>2. QED
    BY <1>1 DEF Notice, Emission

LEMMA WelcomeType ==
    ASSUME NEW u \in User \cup {NULL}
    PROVE  LET e == [Notice("welcome") EXCEPT !.user = u]
           IN  e \in Emission /\ e.kind = "welcome" /\ e.user = u
  <1>1. <<>> \in Seq(Item)
    OBVIOUS
  <1>2. QED
    BY <1>1 DEF Notice, Emission

LEMMA ChatType ==
    ASSUME NEW t \in Tcp, NEW p \in Seq(Item)
    PROVE  LET e == [Notice("chat") EXCEPT !.from = t, !.parts = p]
           IN  e \in Emission /\ e.kind = "chat" /\ e.from = t /\ e.parts = p
  BY DEF Notice, Emission

LEMMA TextsType ==
    ASSUME NEW e \in Emission
    PROVE  /\ Texts(e) \in Seq(Tcp \cup {NULL})
           /\ \A i \in 1 .. Len(Texts(e)) : Texts(e)[i] = e.from
  <1> DEFINE T == {i \in DOMAIN e.parts : e.parts[i] # "list"}
  <1>1. e.parts \in Seq(Item) /\ e.from \in Tcp \cup {NULL}
    BY DEF Emission
  <1>2. DOMAIN e.parts = 1 .. Len(e.parts) /\ Len(e.parts) \in Nat
    BY <1>1
  <1>3. IsFiniteSet(T)
    <2>1. IsFiniteSet(1 .. Len(e.parts)) /\ T \subseteq 1 .. Len(e.parts)
      BY <1>2, FS_Interval
    <2>2. QED
      BY <2>1, FS_Subset
  <1>4. Cardinality(T) \in Nat
    BY <1>3, FS_CardinalityType
  <1>5. Texts(e) = [i \in 1 .. Cardinality(T) |-> e.from]
    BY DEF Texts
  <1> HIDE DEF T
  <1>6. QED
    BY <1>1, <1>4, <1>5

\* What Emit and Hangup do to the post and to the queues.
LEMMA EmitType ==
    ASSUME emits \in [Sid -> Seq(Emission)], NEW s \in Sid, NEW e \in Emission, Emit(s, e)
    PROVE  /\ emits' \in [Sid -> Seq(Emission)]
           /\ \A r \in Sid : r # s \/ web[s] # "on" => emits'[r] = emits[r]
           /\ web[s] = "on" => emits'[s] = Append(emits[s], e)
  <1>1. Append(emits[s], e) \in Seq(Emission)
    OBVIOUS
  <1>2. QED
    BY <1>1 DEF Emit

LEMMA HangupType ==
    ASSUME events \in [Sid -> Seq(Event)], emits \in [Sid -> Seq(Emission)],
           web \in [Sid -> {"off", "on", "closed"}],
           NEW s \in Sid, NEW k \in 0 .. Len(events[s]), Hangup(s, k)
    PROVE  /\ web' \in [Sid -> {"off", "on", "closed"}]
           /\ events' \in [Sid -> Seq(Event)] /\ emits' \in [Sid -> Seq(Emission)]
           /\ web'[s] = "closed" /\ emits'[s] = <<>>
           /\ events'[s] = Append(SubSeq(events[s], 1, k), Plain("disconnect", NULL))
           /\ \A r \in Sid \ {s} : /\ web'[r] = web[r] /\ events'[r] = events[r]
                                   /\ emits'[r] = emits[r]
  <1>1. Plain("disconnect", NULL) \in Event
    BY PlainType DEF Ops
  <1>2. SubSeq(events[s], 1, k) \in Seq(Event)
    BY QueueCut
  <1>3. Append(SubSeq(events[s], 1, k), Plain("disconnect", NULL)) \in Seq(Event)
    BY <1>1, <1>2
  <1>4. <<>> \in Seq(Emission)
    OBVIOUS
  <1>5. QED
    BY <1>3, <1>4 DEF Hangup

\* The page's steps: what they send, and the rest.
LEMMA PageTypes == ASSUME Types, PageStep PROVE Types'
  <1> USE NullApart DEF Types, Ranges
  <1>1. ASSUME NEW e \in Event, sid \in Sid, ToBackend(e)
        PROVE  events' \in [Sid -> Seq(Event)]
    <2>1. Append(events[sid], e) \in Seq(Event)
      BY <1>1
    <2>2. QED
      BY <1>1, <2>1 DEF ToBackend
  <1>2. ASSUME NEW kind, Hears(kind)
        PROVE  /\ sid \in Sid /\ emits' \in [Sid -> Seq(Emission)]
               /\ Head(emits[sid]) \in Emission /\ Head(emits[sid]).kind = kind
    <2>1. sid \in Sid /\ emits[sid] # <<>>
      BY <1>2 DEF Hears
    <2>2. Head(emits[sid]) \in Emission /\ Tail(emits[sid]) \in Seq(Emission)
      BY <2>1, MailShrinks
    <2>3. QED
      BY <1>2, <2>1, <2>2 DEF Hears
  <1>3. UNCHANGED backendVars
    BY DEF PageStep
  <1>4. loop' = loop /\ session' = session /\ active' = active /\ owner' = owner
        /\ account' = account /\ sock' = sock /\ rpc' = rpc
        /\ connectionActive' = connectionActive /\ srv' = srv /\ rx' = rx /\ says' = says
    BY <1>3 DEF backendVars
  <1>5. CASE \E u \in User : Submit(u)
    <2>1. PICK u \in User : Submit(u)
      BY <1>5
    <2>2. [op |-> "login", user |-> u, as |-> NULL] \in Event /\ sid \in Sid
      BY <2>1 DEF Event, Ops, Submit
    <2>3. events' \in [Sid -> Seq(Event)]
      BY <2>1, <2>2, <1>1 DEF Submit
    <2>4. /\ disabled' \in BOOLEAN /\ asked' = sid /\ logins' \in 0 .. MaxLogins
          /\ hasty' \subseteq Sid
      BY <2>1, <2>2, SizeAssumption DEF Submit
    <2>5. QED
      BY <1>4, <2>1, <2>2, <2>3, <2>4 DEF Submit
  <1>6. CASE EnableAgain
    BY <1>6, <1>4 DEF EnableAgain, socketVars
  <1>7. CASE SendMessage
    <2>1. Plain(IF selectedUser = NULL THEN "send" ELSE "private", currentUsername) \in Event
      BY PlainType DEF Ops
    <2>2. events' \in [Sid -> Seq(Event)]
      BY <2>1, <1>7, <1>1 DEF SendMessage
    <2>3. QED
      BY <1>4, <1>7, <2>2, PageAssumption DEF SendMessage
  <1>8. CASE Tick
    <2>1. Plain("list", currentUsername) \in Event
      BY PlainType DEF Ops
    <2>2. events' \in [Sid -> Seq(Event)]
      BY <2>1, <1>8, <1>1 DEF Tick
    <2>3. QED
      BY <1>4, <1>8, <2>2, PageAssumption DEF Tick
  <1>9. CASE Logout
    <2>1. sid \in Sid /\ Len(events[sid]) \in 0 .. Len(events[sid])
      BY <1>9 DEF Logout
    <2>2. /\ web' \in [Sid -> {"off", "on", "closed"}]
          /\ events' \in [Sid -> Seq(Event)] /\ emits' \in [Sid -> Seq(Emission)]
      BY <1>9, <2>1, HangupType DEF Logout
    <2>3. <<>> \in Seq(Tcp)
      OBVIOUS
    <2>4. QED
      BY <1>4, <1>9, <2>2, <2>3 DEF Logout
  <1>10. CASE Lose
    <2>1. sid \in Sid
      BY <1>10 DEF Lose
    <2>2. /\ web' \in [Sid -> {"off", "on", "closed"}]
          /\ events' \in [Sid -> Seq(Event)] /\ emits' \in [Sid -> Seq(Emission)]
      BY <1>10, <2>1, HangupType DEF Lose
    <2>3. QED
      BY <1>4, <1>10, <2>2 DEF Lose
  <1>11. CASE \E u \in User \cup {NULL} : Select(u)
    BY <1>11, <1>4 DEF Select, socketVars
  <1>12. CASE \E s \in Sid : Connect(s)
    BY <1>12, <1>4 DEF Connect
  <1>13. CASE HearWelcome
    <2>1. /\ sid \in Sid /\ emits' \in [Sid -> Seq(Emission)]
          /\ Head(emits[sid]) \in Emission
      BY <1>13, <1>2 DEF HearWelcome
    <2>2. currentUsername' \in User \cup {NULL}
      BY <1>13, <2>1 DEF HearWelcome, Emission
    <2>3. Plain("list", currentUsername') \in Event
      BY <2>2, PlainType DEF Ops
    <2>4. events' \in [Sid -> Seq(Event)]
      BY <2>1, <2>3, <1>13, <1>1 DEF HearWelcome
    <2>5. timers' \in Nat
      BY <1>13 DEF HearWelcome
    <2>6. QED
      BY <1>4, <1>13, <2>1, <2>2, <2>4, <2>5 DEF HearWelcome
  <1>14. CASE HearRefused
    BY <1>14, <1>4, <1>2 DEF HearRefused
  <1>15. CASE HearChat
    <2>1. /\ sid \in Sid /\ emits' \in [Sid -> Seq(Emission)]
          /\ Head(emits[sid]) \in Emission
      BY <1>15, <1>2 DEF HearChat
    <2>2. Texts(Head(emits[sid])) \in Seq(Tcp \cup {NULL})
      BY <2>1, TextsType
    <2>3. shown \o Texts(Head(emits[sid])) \in Seq(Tcp \cup {NULL})
      BY <2>2
    <2>4. shown' \in Seq(Tcp \cup {NULL})
      BY <1>15, <2>3 DEF HearChat
    <2>5. QED
      BY <1>4, <1>15, <2>1, <2>4 DEF HearChat
  <1>16. CASE HearUsers
    BY <1>16, <1>4, <1>2 DEF HearUsers
  <1>17. CASE HearNotice
    BY <1>17, <1>4, <1>2 DEF HearNotice, pageVars
  <1>18. QED
    BY <1>5, <1>6, <1>7, <1>8, <1>9, <1>10, <1>11, <1>12, <1>13, <1>14, <1>15, <1>16, <1>17
       DEF PageStep, Page, Hear

LEMMA TakesType ==
    ASSUME Types, NEW s \in Sid, NEW op, Takes(s, op)
    PROVE  /\ loop = Idle /\ events[s] # <<>> /\ events[s] \in Seq(Event)
           /\ Head(events[s]) \in Event /\ Head(events[s]).op = op
           /\ events' \in [Sid -> Seq(Event)] /\ events'[s] = Tail(events[s])
           /\ \A r \in Sid \ {s} : events'[r] = events[r]
  <1>1. events[s] \in Seq(Event) /\ events \in [Sid -> Seq(Event)] /\ events[s] # <<>>
    BY DEF Types, Ranges, Takes
  <1>2. Tail(events[s]) \in Seq(Event) /\ Head(events[s]) \in Event
    BY <1>1, QueueShrinks
  <1>3. QED
    BY <1>1, <1>2 DEF Takes

LEMMA SentType ==
    ASSUME Types, NEW t \in Tcp, NEW k \in 0 .. Len(rx[t])
    PROVE  SubSeq(rx[t], k + 1, Len(rx[t])) \in Seq(Item)
  BY DEF Types, Ranges

LEMMA PutType ==
    ASSUME Types, NEW t \in Tcp, NEW i \in Item, Put(t, i)
    PROVE  rx' \in [Tcp -> Seq(Item)]
  <1>1. Append(rx[t], i) \in Seq(Item) /\ rx \in [Tcp -> Seq(Item)]
    BY DEF Types, Ranges
  <1>2. QED
    BY <1>1 DEF Put

\* The server's steps leave everything but srv, rx and says alone.
LEMMA ServerTypes ==
    ASSUME Types, NEW t \in Tcp, ServerStep(t)
    PROVE  Types' /\ SrvOnly /\ UNCHANGED pageVars
  <1> USE DEF Types, Ranges
  <1>1. SrvOnly /\ UNCHANGED pageVars
    BY DEF ServerStep, Server, SrvAnswers, SrvSays, SrvStops, SrvSeesClose
  <1>2. says' \in 0 .. MaxSays
    BY SaysAssumption DEF ServerStep, Server, SrvAnswers, SrvSays, SrvStops, SrvSeesClose
  <1>3. srv' \in [Tcp -> SrvState]
    <2>1. srv' = srv \/ \E x \in SrvState : srv' = [srv EXCEPT ![t] = x]
      BY DEF ServerStep, Server, SrvAnswers, SrvSays, SrvStops, SrvSeesClose, SrvGoes, SrvState
    <2>2. QED
      BY <2>1
  <1>4. rx' \in [Tcp -> Seq(Item)]
    <2>1. rx' = rx \/ \E i \in Item : Put(t, i)
      BY DEF ServerStep, Server, SrvAnswers, SrvSays, SrvStops, SrvSeesClose, Item
    <2>2. QED
      BY <2>1, PutType
  <1>5. QED
    BY <1>1, <1>2, <1>3, <1>4 DEF SrvOnly, socketVars, pageVars

LEMMA ReceiverTypes ==
    ASSUME Types, NEW t \in Tcp, ReceiverStep(t), rpc[t] = "off" \/ owner[t] \in Sid
    PROVE  Types' /\ UNCHANGED pageVars
  <1> USE DEF Types, Ranges
  <1>1. UNCHANGED pageVars
    BY DEF ReceiverStep
  <1>2. CASE Forward(t)
    <2>1. owner[t] \in Sid /\ rx[t] \in Seq(Item)
      BY <1>2 DEF Forward
    <2>2. PICK k \in DOMAIN rx[t] :
             /\ Emit(owner[t], IF rx[t][1] = "list" THEN Notice("users")
                               ELSE [Notice("chat") EXCEPT !.from = t,
                                                           !.parts = SubSeq(rx[t], 1, k)])
             /\ rx' = [rx EXCEPT ![t] = SubSeq(@, k + 1, Len(@))]
      BY <1>2 DEF Forward
    <2>3. k \in 0 .. Len(rx[t]) /\ SubSeq(rx[t], 1, k) \in Seq(Item)
      BY <2>1
    <2>4. emits' \in [Sid -> Seq(Emission)]
      BY <2>1, <2>2, <2>3, NoticeType, ChatType, EmitType
    <2>5. rx' \in [Tcp -> Seq(Item)]
      BY <2>2, <2>3, SentType
    <2>6. QED
      BY <1>1, <1>2, <2>4, <2>5 DEF Forward, pageVars
  <1>3. CASE ReceiverEnds(t)
    BY <1>1, <1>3 DEF ReceiverEnds, socketVars, pageVars
  <1>4. CASE Cleanup(t)
    <2>1. emits' \in [Sid -> Seq(Emission)]
      BY <1>4, NoticeType, EmitType DEF Cleanup
    <2>2. sock' \in [Tcp -> {"none", "open", "closed"}] /\ active' \subseteq Tcp
      BY <1>4 DEF Cleanup, Drop
    <2>3. QED
      BY <1>1, <1>4, <2>1, <2>2 DEF Cleanup, pageVars
  <1>5. QED
    BY <1>1, <1>2, <1>3, <1>4 DEF ReceiverStep, Receiver

LEMMA LoopTypes == ASSUME Types, LoopStep PROVE Types' /\ UNCHANGED pageVars
  <1> USE NullApart DEF Types, Ranges
  <1>1. UNCHANGED pageVars
    BY DEF LoopStep
  <1>2. ASSUME NEW s \in Sid, LoginRefused(s) PROVE Types'
    <2>1. events' \in [Sid -> Seq(Event)]
      BY <1>2, TakesType DEF LoginRefused
    <2>2. emits' \in [Sid -> Seq(Emission)]
      BY <1>2, NoticeType, EmitType DEF LoginRefused
    <2>3. QED
      BY <1>1, <1>2, <2>1, <2>2 DEF LoginRefused, NoTcp, pageVars
  <1>3. ASSUME NEW s \in Sid, NEW t \in Tcp, LoginConnects(s, t) PROVE Types'
    <2>1. events' \in [Sid -> Seq(Event)] /\ Head(events[s]) \in Event
      BY <1>3, TakesType DEF LoginConnects
    <2>2. account' \in [Tcp -> User \cup {NULL}]
      BY <1>3, <2>1 DEF LoginConnects, Event
    <2>3. loop' \in LoopState /\ loop'.at = "USERNAME" /\ loop'.sid = s /\ loop'.conn = t
      BY <1>3 DEF LoginConnects, Idle, LoopState, Entering
    <2>4. QED
      BY <1>1, <1>3, <2>1, <2>2, <2>3 DEF LoginConnects, pageVars, SrvState
  <1>4. ASSUME NEW s \in Sid, NEW op \in Ops, LookUp(s, op) PROVE Types'
    <2>1. events' \in [Sid -> Seq(Event)] /\ Head(events[s]) \in Event
      BY <1>4, TakesType DEF LookUp
    <2>2. emits' \in [Sid -> Seq(Emission)]
      BY <1>4, NoticeType, EmitType DEF LookUp
    <2>3. /\ loop' \in LoopState
          /\ loop'.at = "idle" => loop' = Idle
          /\ loop'.at # "idle" => loop'.sid \in Sid /\ loop'.conn \in Tcp
      <3>1. CASE session[s] \in active
        <4>1. Head(events[s]).as \in User \cup {NULL}
          BY <2>1 DEF Event
        <4>2. session[s] \in Tcp
          BY <3>1
        <4>3. op \in {"send", "private", "list"}
          BY <1>4 DEF LookUp
        <4>4. loop' = [at |-> "write", sid |-> s, conn |-> session[s], op |-> op,
                       as |-> Head(events[s]).as]
          BY <1>4, <3>1 DEF LookUp
        <4> HIDE DEF Types, Ranges
        <4>5. QED
          BY <4>1, <4>2, <4>3, <4>4 DEF LoopState
      <3>2. CASE session[s] \notin active
        <4>1. loop' = loop
          BY <1>4, <3>2 DEF LookUp
        <4>2. QED
          BY <4>1
      <3>3. QED
        BY <3>1, <3>2
    <2>4. QED
      BY <1>1, <1>4, <2>1, <2>2, <2>3 DEF LookUp, NoTcp, pageVars
  <1>5. ASSUME NEW s \in Sid, Disconnect(s) PROVE Types'
    <2>1. events' \in [Sid -> Seq(Event)]
      BY <1>5, TakesType DEF Disconnect
    <2>2. sock' \in [Tcp -> {"none", "open", "closed"}] /\ active' \subseteq Tcp
      BY <1>5 DEF Disconnect, Drop
    <2>3. QED
      BY <1>1, <1>5, <2>1, <2>2 DEF Disconnect, pageVars
  <1>6. ASSUME NEW t \in Tcp, NEW text, Finds(t, text) PROVE rx' \in [Tcp -> Seq(Item)]
    <2>1. PICK i \in DOMAIN rx[t] : \E k \in i .. Len(rx[t]) :
                  rx' = [rx EXCEPT ![t] = SubSeq(@, k + 1, Len(@))]
      BY <1>6 DEF Finds
    <2>2. rx[t] \in Seq(Item)
      OBVIOUS
    <2>3. PICK k \in i .. Len(rx[t]) : rx' = [rx EXCEPT ![t] = SubSeq(@, k + 1, Len(@))]
      BY <2>1
    <2>4. k \in 0 .. Len(rx[t])
      BY <2>2
    <2>5. QED
      BY <2>3, <2>4, SentType
  <1>7. CASE LoginPrompted
    <2>1. loop.conn \in Tcp /\ loop.sid \in Sid
      BY <1>7 DEF LoginPrompted
    <2>2. rx' \in [Tcp -> Seq(Item)]
      BY <1>6, <1>7, <2>1 DEF LoginPrompted
    <2>3. srv' \in [Tcp -> SrvState]
      <3>1. srv' = srv \/ \E x \in SrvState : srv' = [srv EXCEPT ![loop.conn] = x]
        BY <1>7 DEF LoginPrompted, SrvState
      <3>2. QED
        BY <3>1
    <2>4. /\ loop' \in LoopState /\ loop'.at # "idle"
          /\ loop'.sid = loop.sid /\ loop'.conn = loop.conn
      BY <1>7 DEF LoginPrompted, LoopState, Entering
    <2>5. QED
      BY <1>1, <1>7, <2>1, <2>2, <2>3, <2>4 DEF LoginPrompted, pageVars
  <1>8. CASE LoginStarts \/ LoginStartFails
    <2>1. loop.conn \in Tcp /\ loop.sid \in Sid
      BY <1>8 DEF LoginStarts, LoginStartFails, LoginStores
    <2>2. /\ rx' \in [Tcp -> Seq(Item)] /\ session' \in [Sid -> Tcp \cup {NULL}]
          /\ active' \subseteq Tcp
      BY <1>6, <1>8, <2>1 DEF LoginStarts, LoginStartFails, LoginStores
    <2>3. CASE LoginStarts
      <3>1. /\ loop' \in LoopState /\ loop'.at # "idle"
            /\ loop'.sid = loop.sid /\ loop'.conn = loop.conn
        BY <2>3 DEF LoginStarts, LoopState, Entering
      <3>2. QED
        BY <1>1, <2>1, <2>2, <2>3, <3>1 DEF LoginStarts, pageVars
    <2>4. CASE LoginStartFails
      <3>1. emits' \in [Sid -> Seq(Emission)]
        BY <2>1, <2>4, NoticeType, EmitType DEF LoginStartFails
      <3>2. QED
        BY <1>1, <2>1, <2>2, <2>4, <3>1, IdleType DEF LoginStartFails, pageVars
    <2>5. QED
      BY <1>8, <2>3, <2>4
  <1>9. CASE LoginWelcomes
    <2>1. loop.conn \in Tcp /\ loop.sid \in Sid
      BY <1>9 DEF LoginWelcomes
    <2>2. emits' \in [Sid -> Seq(Emission)]
      BY <1>9, <2>1, WelcomeType, EmitType DEF LoginWelcomes
    <2>3. QED
      BY <1>1, <1>9, <2>2, IdleType DEF LoginWelcomes, NoTcp, pageVars
  <1>10. CASE LoginFails
    <2>1. loop.conn \in Tcp /\ loop.sid \in Sid
      BY <1>10 DEF LoginFails
    <2>2. emits' \in [Sid -> Seq(Emission)]
      BY <1>10, <2>1, NoticeType, EmitType DEF LoginFails
    <2>3. QED
      BY <1>1, <1>10, <2>1, <2>2, IdleType DEF LoginFails, pageVars
  <1>11. CASE Write
    <2>1. loop.conn \in Tcp /\ loop.sid \in Sid
      BY <1>11 DEF Write
    <2>2. emits' = emits \/ Emit(loop.sid, Notice("error"))
      BY <1>11 DEF Write
    <2>3. emits' \in [Sid -> Seq(Emission)]
      BY <2>1, <2>2, NoticeType, EmitType
    <2>4. rx' = rx \/ Put(loop.conn, "list")
      BY <1>11 DEF Write
    <2>5. rx' \in [Tcp -> Seq(Item)]
      BY <2>1, <2>4, PutType DEF Item
    <2>6. QED
      BY <1>1, <1>11, <2>3, <2>5, IdleType DEF Write, pageVars
  <1>12. QED
    BY <1>1, <1>2, <1>3, <1>4, <1>5, <1>7, <1>8, <1>9, <1>10, <1>11 DEF LoopStep, EventLoop

-----------------------------------------------------------------------------
(* The table of connections, the sockets and the threads, whatever a page   *)
(* asks for.  A connection is opened by a login, which hands it to the      *)
(* table and to a thread of its own, or closes it.                          *)

Table ==
    /\ \A t \in active : \/ sock[t] = "open" /\ rpc[t] \in {"recv", "cleanup"}
                         \/ sock[t] = "closed" /\ rpc[t] = "off"
    /\ \A t \in Tcp : sock[t] = "open" /\ t \notin active
                      => loop.at \in Entering /\ loop.conn = t
    /\ \A t \in Tcp : rpc[t] # "off" => sock[t] # "none"
    /\ \A t \in Tcp : sock[t] # "none" => owner[t] \in Sid
    /\ \A t \in Tcp : sock[t] = "none" => owner[t] = NULL
    /\ loop.at \in Entering =>
          sock[loop.conn] = "open" /\ rpc[loop.conn] = "off" /\ owner[loop.conn] = loop.sid
    /\ loop.at = "welcome" => sock[loop.conn] # "none"

LEMMA TableStep == ASSUME Types, Table, [Next]_vars PROVE Table'
  <1> USE NullApart, IdleType DEF Types, Ranges, Table
  <1>1. CASE UNCHANGED <<loop, active, sock, rpc, owner>>
    BY <1>1
  <1>2. CASE PageStep
    BY <1>1, <1>2 DEF PageStep, backendVars
  <1>3. CASE UNCHANGED vars
    BY <1>1, <1>3 DEF vars, backendVars
  <1>4. ASSUME NEW t \in Tcp, ServerStep(t) PROVE Table'
    BY <1>1, <1>4, ServerTypes DEF SrvOnly
  <1>5. ASSUME NEW t \in Tcp, ReceiverStep(t) PROVE Table'
    <2>1. CASE Forward(t)
      BY <1>1, <2>1 DEF Forward
    <2>2. CASE ReceiverEnds(t)
      BY <2>2 DEF ReceiverEnds
    <2>3. CASE Cleanup(t)
      <3>1. /\ rpc[t] = "cleanup" /\ rpc'[t] = "done" /\ loop' = loop /\ owner' = owner
            /\ \A u \in Tcp \ {t} : rpc'[u] = rpc[u]
        BY <2>3 DEF Cleanup
      <3>2. loop.at \in Entering => loop.conn # t
        BY <3>1
      <3>3. CASE t \in active
        <4>1. /\ active' = active \ {t} /\ sock'[t] = "closed"
              /\ \A u \in Tcp \ {t} : sock'[u] = sock[u]
          BY <2>3, <3>3 DEF Cleanup, Drop
        <4>2. \A u \in active' : \/ sock'[u] = "open" /\ rpc'[u] \in {"recv", "cleanup"}
                                 \/ sock'[u] = "closed" /\ rpc'[u] = "off"
          BY <3>1, <4>1
        <4>3. \A u \in Tcp : sock'[u] = "open" /\ u \notin active' =>
                 loop'.at \in Entering /\ loop'.conn = u
          BY <3>1, <4>1
        <4>4. \A u \in Tcp : /\ rpc'[u] # "off" => sock'[u] # "none"
                             /\ sock'[u] # "none" => owner'[u] \in Sid
                             /\ sock'[u] = "none" => owner'[u] = NULL
          BY <3>1, <3>3, <4>1
        <4>5. loop'.at \in Entering =>
                 /\ sock'[loop'.conn] = "open" /\ rpc'[loop'.conn] = "off"
                 /\ owner'[loop'.conn] = loop'.sid
          BY <3>1, <3>2, <4>1 DEF Entering
        <4>6. loop'.at = "welcome" => sock'[loop'.conn] # "none"
          BY <3>1, <4>1
        <4>7. QED
          BY <4>2, <4>3, <4>4, <4>5, <4>6
      <3>4. CASE t \notin active
        <4>1. active' = active /\ sock' = sock
          BY <2>3, <3>4 DEF Cleanup, Drop
        <4>2. \A u \in active' : \/ sock'[u] = "open" /\ rpc'[u] \in {"recv", "cleanup"}
                                 \/ sock'[u] = "closed" /\ rpc'[u] = "off"
          <5> TAKE u \in active'
          <5>1. u \in active /\ u \in Tcp /\ u # t
            BY <3>4, <4>1
          <5>2. sock'[u] = sock[u] /\ rpc'[u] = rpc[u]
            BY <3>1, <4>1, <5>1
          <5>3. QED
            BY <5>1, <5>2
        <4>3. \A u \in Tcp : rpc'[u] # "off" => sock'[u] # "none"
          BY <3>1, <4>1
        <4>4. loop'.at \in Entering => rpc'[loop'.conn] = "off"
          BY <3>1, <3>2, <4>1 DEF Entering
        <4>5. QED
          BY <3>1, <4>1, <4>2, <4>3, <4>4
      <3>5. QED
        BY <3>3, <3>4
    <2>4. QED
      BY <1>5, <2>1, <2>2, <2>3 DEF ReceiverStep, Receiver
  <1>6. ASSUME NEW s \in Sid, LoginRefused(s) PROVE Table'
    BY <1>1, <1>6 DEF LoginRefused, NoTcp
  <1>7. ASSUME NEW s \in Sid, NEW t \in Tcp, LoginConnects(s, t) PROVE Table'
    <2>1. loop = Idle /\ loop'.at = "USERNAME" /\ loop'.sid = s /\ loop'.conn = t
      BY <1>7 DEF LoginConnects, Takes, Idle
    <2>2. t \notin active /\ rpc[t] = "off" /\ loop.at = "idle"
      BY <1>7, <2>1 DEF LoginConnects
    <2>3. /\ sock'[t] = "open" /\ owner'[t] = s /\ active' = active /\ rpc' = rpc
          /\ \A u \in Tcp \ {t} : sock'[u] = sock[u] /\ owner'[u] = owner[u]
      BY <1>7 DEF LoginConnects
    <2>4. "idle" \notin Entering /\ "USERNAME" \in Entering /\ t \in Tcp
      BY DEF Entering
    <2>5. \A u \in Tcp : sock'[u] = "open" /\ u \notin active' => u = t
      BY <2>2, <2>3, <2>4
    <2>6. \A u \in active' : \/ sock'[u] = "open" /\ rpc'[u] \in {"recv", "cleanup"}
                             \/ sock'[u] = "closed" /\ rpc'[u] = "off"
      BY <2>2, <2>3
    <2>7. \A u \in Tcp : /\ rpc'[u] # "off" => sock'[u] # "none"
                         /\ sock'[u] # "none" => owner'[u] \in Sid
                         /\ sock'[u] = "none" => owner'[u] = NULL
      BY <2>2, <2>3, <2>4
    <2>8. sock'[loop'.conn] = "open" /\ rpc'[loop'.conn] = "off" /\ owner'[loop'.conn] = s
      BY <2>1, <2>2, <2>3
    <2>9. QED
      BY <2>1, <2>4, <2>5, <2>6, <2>7, <2>8
  <1>8. ASSUME NEW s \in Sid, NEW op \in Ops, LookUp(s, op) PROVE Table'
    <2>1. /\ loop = Idle /\ loop'.at \in {"idle", "write"}
          /\ UNCHANGED <<active, sock, rpc, owner>>
      BY <1>8 DEF LookUp, Takes, NoTcp
    <2>2. QED
      BY <2>1 DEF Entering
  <1>9. ASSUME NEW s \in Sid, Disconnect(s) PROVE Table'
    <2>1. /\ loop = Idle /\ loop' = Idle /\ rpc' = rpc /\ owner' = owner
          /\ "idle" \notin Entering
      BY <1>9 DEF Disconnect, Takes, Entering
    <2>2. CASE session[s] \in active
      <3>1. /\ active' = active \ {session[s]} /\ sock'[session[s]] = "closed"
            /\ \A u \in Tcp \ {session[s]} : sock'[u] = sock[u]
        BY <1>9, <2>2 DEF Disconnect, Drop
      <3>2. QED
        BY <2>1, <2>2, <3>1
    <2>3. CASE session[s] \notin active
      BY <1>9, <2>1, <2>3 DEF Disconnect, Drop
    <2>4. QED
      BY <2>2, <2>3
  <1>10. CASE LoginPrompted
    <2>1. /\ loop'.at \in Entering /\ loop'.conn = loop.conn /\ loop'.sid = loop.sid
          /\ loop.at \in Entering /\ UNCHANGED <<active, sock, rpc, owner>>
      BY <1>10 DEF LoginPrompted, LoopState, Entering
    <2>2. QED
      BY <2>1
  <1>11. CASE LoginStarts
    <2>1. /\ loop'.at = "welcome" /\ loop'.conn = loop.conn /\ loop'.sid = loop.sid
          /\ loop.at \in Entering /\ loop.conn \in Tcp
      BY <1>11 DEF LoginStarts, LoginStores, LoopState, Entering
    <2>2. /\ active' = active \cup {loop.conn} /\ rpc'[loop.conn] = "recv"
          /\ \A t \in Tcp \ {loop.conn} : rpc'[t] = rpc[t]
          /\ UNCHANGED <<sock, owner>>
      BY <1>11, <2>1 DEF LoginStarts, LoginStores
    <2>3. QED
      BY <2>1, <2>2 DEF Entering
  <1>12. CASE LoginStartFails
    <2>1. /\ loop' = Idle /\ loop.at \in Entering /\ loop.conn \in Tcp
          /\ "idle" \notin Entering
      BY <1>12 DEF LoginStartFails, LoginStores, Entering
    <2>2. /\ active' = active \cup {loop.conn} /\ sock'[loop.conn] = "closed"
          /\ \A t \in Tcp \ {loop.conn} : sock'[t] = sock[t]
          /\ UNCHANGED <<rpc, owner>>
      BY <1>12, <2>1 DEF LoginStartFails, LoginStores
    <2>3. QED
      BY <2>1, <2>2
  <1>13. CASE LoginWelcomes
    BY <1>13 DEF LoginWelcomes, NoTcp, Entering
  <1>14. CASE LoginFails
    <2>1. loop.conn \in Tcp /\ loop.conn \notin active /\ loop' = Idle
      BY <1>14 DEF LoginFails, Entering
    <2>2. QED
      BY <1>14, <2>1 DEF LoginFails, Entering
  <1>15. CASE Write
    BY <1>15 DEF Write, Entering
  <1>16. QED
    BY <1>2, <1>3, <1>4, <1>5, <1>6, <1>7, <1>8, <1>9, <1>10, <1>11, <1>12, <1>13, <1>14,
       <1>15 DEF Next, LoopStep, EventLoop, Quiet

LEMMA TypesStep == ASSUME Types, Table, [Next]_vars PROVE Types'
  <1>1. CASE PageStep
    BY <1>1, PageTypes
  <1>2. CASE LoopStep
    BY <1>2, LoopTypes
  <1>3. ASSUME NEW t \in Tcp, ServerStep(t) PROVE Types'
    BY <1>3, ServerTypes
  <1>4. ASSUME NEW t \in Tcp, ReceiverStep(t) PROVE Types'
    <2>1. rpc[t] = "off" \/ owner[t] \in Sid
      BY DEF Table
    <2>2. QED
      BY <1>4, <2>1, ReceiverTypes
  <1>5. CASE UNCHANGED vars
    BY <1>5 DEF Types, Ranges, vars, socketVars, pageVars, backendVars, LoopState
  <1>6. QED
    BY <1>1, <1>2, <1>3, <1>4, <1>5 DEF Next, Quiet

LEMMA TableInit == Init => Types /\ Table
  <1> SUFFICES ASSUME Init PROVE Types /\ Table
    OBVIOUS
  <1> USE NullApart, IdleType, SizeAssumption DEF Init, SocketInit, PageInit, BackendInit
  <1>1. <<>> \in Seq(Event) /\ <<>> \in Seq(Emission) /\ <<>> \in Seq(Item)
        /\ <<>> \in Seq(Tcp \cup {NULL})
    OBVIOUS
  <1>2. Ranges
    <2>1. 0 \in 0 .. MaxLogins /\ 0 \in 0 .. MaxSends /\ 0 \in 0 .. MaxSays /\ 0 \in Nat
      BY PageAssumption, SaysAssumption
    <2>2. /\ events \in [Sid -> Seq(Event)] /\ emits \in [Sid -> Seq(Emission)]
          /\ rx \in [Tcp -> Seq(Item)] /\ shown \in Seq(Tcp \cup {NULL})
      BY <1>1
    <2>3. QED
      BY <2>1, <2>2 DEF Ranges, SrvState
  <1>3. Types
    BY <1>2 DEF Types
  <1>4. Table
    BY DEF Table, Entering
  <1>5. QED
    BY <1>3, <1>4

LEMMA TableInvariant == Spec => [](Types /\ Table)
  BY TableInit, TableStep, TypesStep, PTL DEF Spec

\* active_connections and the open sockets agree on every path of the event
\* handlers and the receiver threads, however often a page logs in.
THEOREM StoredCorrect == Spec => []StoredIsServed
  <1>1. Types /\ Table => StoredIsServed
    BY DEF Types, Ranges, Table, StoredIsServed
  <1>2. QED
    BY <1>1, TableInvariant, PTL

-----------------------------------------------------------------------------
(* One connection of a page: its state w, its events q, its post m, the     *)
(* session t that serves it as u, and what the event loop l does for it; h  *)
(* are the connections a user was hasty on.                                 *)

Enters(s, l) == l.at \in Entering /\ l.sid = s
Greets(s, l) == l.at = "welcome" /\ l.sid = s

\* There is one login, and it is asked for, under way, or answered; nothing is
\* said before it, and what is said after it is typed as the user it let in.
Calm(s, q, m, t, u, l) ==
    /\ Once(q)
    /\ Logs(q) => t = NULL /\ ~Enters(s, l) /\ ~Talks(q)
    /\ Enters(s, l) => t = NULL /\ ~Talks(q)
    /\ Greets(s, l) => t # NULL
    /\ t # NULL => SaidAs(q, u)
    /\ OneAnswer(m) /\ Mail(m, t, u)
    /\ Answers(m) => ~Logs(q) /\ ~Enters(s, l) /\ ~Greets(s, l)

Orderly(s, w, q, m, t, u, l, h) ==
    /\ Closes(q, w)
    /\ w = "off" => q = <<>> /\ t = NULL /\ l.sid # s
    /\ w # "on" => m = <<>>
    /\ w = "closed" /\ q = <<>> => l.sid # s
    /\ s \notin h => Calm(s, q, m, t, u, l)

LEMMA TalkAsks ==
    ASSUME NEW s, NEW q \in Seq(Event), NEW m, NEW t, NEW u, NEW l, NEW h,
           NEW e \in Event, Orderly(s, "on", q, m, t, u, l, h), e.op # "disconnect",
           s \notin h /\ e.op = "login" => /\ t = NULL /\ ~Enters(s, l) /\ ~Talks(q)
                                           /\ ~Logs(q) /\ ~Answers(m),
           s \notin h /\ e.op \in {"send", "private"} =>
              /\ ~Logs(q) /\ ~Enters(s, l)
              /\ t # NULL => e.as = u
    PROVE  Orderly(s, "on", Append(q, e), m, t, u, l, h)
  <1>1. /\ Logs(Append(q, e)) <=> Logs(q) \/ e.op = "login"
        /\ Talks(Append(q, e)) <=> Talks(q) \/ e.op \in {"send", "private"}
        /\ Once(q) /\ (e.op = "login" => ~Logs(q)) => Once(Append(q, e))
        /\ SaidAs(q, u) /\ (e.op \in {"send", "private"} => e.as = u) => SaidAs(Append(q, e), u)
        /\ Closes(q, "on") => Closes(Append(q, e), "on")
    BY QueueGrows
  <1>2. s \notin h => Calm(s, Append(q, e), m, t, u, l)
    BY <1>1 DEF Orderly, Calm
  <1>3. QED
    BY <1>1, <1>2 DEF Orderly

\* What taking the first event of q leaves, and what that event tells.
Taken(s, w, q, m, t, u, h) ==
    /\ Orderly(s, w, Tail(q), m, t, u, Idle, h)
    /\ s \notin h /\ Head(q).op = "login" =>
          t = NULL /\ ~Talks(Tail(q)) /\ ~Logs(Tail(q)) /\ ~Answers(m)
    /\ s \notin h /\ Head(q).op \in {"send", "private"} /\ t # NULL => Head(q).as = u
    /\ Head(q).op # "disconnect" => ~(w = "closed" /\ Tail(q) = <<>>)
    /\ w # "off"

LEMMA TalkTaken ==
    ASSUME NEW s \in Sid, NEW w, NEW q \in Seq(Event), NEW m, NEW t, NEW u, NEW h,
           q # <<>>, Orderly(s, w, q, m, t, u, Idle, h)
    PROVE  Taken(s, w, q, m, t, u, h)
  <1>1. /\ Logs(q) <=> Logs(Tail(q)) \/ Head(q).op = "login"
        /\ Talks(q) <=> Talks(Tail(q)) \/ Head(q).op \in {"send", "private"}
        /\ Once(q) => Once(Tail(q)) /\ (Head(q).op = "login" => ~Logs(Tail(q)))
        /\ SaidAs(q, u) => /\ SaidAs(Tail(q), u)
                           /\ Head(q).op \in {"send", "private"} => Head(q).as = u
        /\ Closes(q, w) => /\ Closes(Tail(q), w)
                           /\ w = "closed" /\ Tail(q) = <<>> => Head(q).op = "disconnect"
                           /\ Head(q).op = "disconnect" => w = "closed" /\ Tail(q) = <<>>
    BY QueueShrinks
  <1>2. ~Enters(s, Idle) /\ ~Greets(s, Idle) /\ Idle.sid # s
    BY NullApart, IdleType DEF Enters, Greets, Entering
  <1>3. s \notin h => Calm(s, q, m, t, u, Idle)
    BY DEF Orderly
  <1>4. s \notin h => /\ Calm(s, Tail(q), m, t, u, Idle)
                      /\ Head(q).op = "login" =>
                            t = NULL /\ ~Talks(Tail(q)) /\ ~Logs(Tail(q)) /\ ~Answers(m)
                      /\ Head(q).op \in {"send", "private"} /\ t # NULL => Head(q).as = u
    BY <1>1, <1>2, <1>3 DEF Calm
  <1>5. QED
    BY <1>1, <1>2, <1>4 DEF Orderly, Taken

LEMMA TalkTold ==
    ASSUME NEW s, NEW q, NEW m \in Seq(Emission), NEW t, NEW u, NEW l, NEW h,
           NEW e \in Emission, Orderly(s, "on", q, m, t, u, l, h),
           s \notin h => /\ Letter(e, t, u)
                         /\ e.kind \in Answer => /\ ~Answers(m) /\ ~Logs(q)
                                                 /\ ~Enters(s, l) /\ ~Greets(s, l)
    PROVE  Orderly(s, "on", q, Append(m, e), t, u, l, h)
  <1>1. /\ Answers(Append(m, e)) <=> Answers(m) \/ e.kind \in Answer
        /\ OneAnswer(m) /\ (e.kind \in Answer => ~Answers(m)) => OneAnswer(Append(m, e))
        /\ Mail(m, t, u) /\ Letter(e, t, u) => Mail(Append(m, e), t, u)
    BY MailGrows
  <1>2. s \notin h => Calm(s, q, Append(m, e), t, u, l)
    BY <1>1 DEF Orderly, Calm
  <1>3. QED
    BY <1>2 DEF Orderly

LEMMA TalkHeard ==
    ASSUME NEW s, NEW w, NEW q, NEW m \in Seq(Emission), NEW t, NEW u, NEW l, NEW h,
           m # <<>>, Orderly(s, w, q, m, t, u, l, h)
    PROVE  /\ Orderly(s, w, q, Tail(m), t, u, l, h)
           /\ s \notin h =>
                 /\ Letter(Head(m), t, u)
                 /\ Head(m).kind \in Answer =>
                       ~Answers(Tail(m)) /\ ~Logs(q) /\ ~Enters(s, l) /\ ~Greets(s, l)
  <1>1. /\ Answers(m) <=> Answers(Tail(m)) \/ Head(m).kind \in Answer
        /\ OneAnswer(m) => /\ OneAnswer(Tail(m))
                           /\ Head(m).kind \in Answer => ~Answers(Tail(m))
        /\ Mail(m, t, u) => Mail(Tail(m), t, u) /\ Letter(Head(m), t, u)
    BY MailShrinks
  <1>2. s \notin h => /\ Calm(s, q, Tail(m), t, u, l)
                      /\ Letter(Head(m), t, u)
                      /\ Head(m).kind \in Answer =>
                            ~Answers(Tail(m)) /\ ~Logs(q) /\ ~Enters(s, l) /\ ~Greets(s, l)
    BY <1>1 DEF Orderly, Calm
  <1>3. w = "on"
    BY DEF Orderly
  <1>4. QED
    BY <1>2, <1>3 DEF Orderly

LEMMA TalkCut ==
    ASSUME NEW s, NEW q \in Seq(Event), NEW m, NEW t, NEW u, NEW l, NEW h,
           NEW k \in 0 .. Len(q), NEW e \in Event, e.op = "disconnect",
           Orderly(s, "on", q, m, t, u, l, h)
    PROVE  Orderly(s, "closed", Append(SubSeq(q, 1, k), e), <<>>, t, u, l, h)
  <1> DEFINE c == SubSeq(q, 1, k)
             r == Append(c, e)
  <1>1. /\ c \in Seq(Event) /\ (Logs(c) => Logs(q)) /\ (Talks(c) => Talks(q))
        /\ Once(q) => Once(c)
        /\ SaidAs(q, u) => SaidAs(c, u)
        /\ Closes(q, "on") => Closes(c, "on")
    BY QueueCut
  <1> HIDE DEF c
  <1>2. /\ r # <<>> /\ (Logs(r) => Logs(c)) /\ (Talks(r) => Talks(c))
        /\ Once(c) => Once(r)
        /\ SaidAs(c, u) => SaidAs(r, u)
        /\ Closes(c, "on") => Closes(r, "closed")
    BY <1>1, QueueGrows
  <1> HIDE DEF r
  <1>3. s \notin h => Calm(s, r, <<>>, t, u, l)
    BY <1>1, <1>2, MailEmpty DEF Orderly, Calm
  <1>4. Orderly(s, "closed", r, <<>>, t, u, l, h)
    BY <1>1, <1>2, <1>3 DEF Orderly
  <1>5. QED
    BY <1>4 DEF r, c

LEMMA TalkPasses ==
    ASSUME NEW s, NEW w, NEW q, NEW m, NEW t, NEW u, NEW l, NEW h, NEW k,
           Orderly(s, w, q, m, t, u, l, h),
           Enters(s, k) => Enters(s, l), Greets(s, k) => Greets(s, l),
           k.sid = s => l.sid = s
    PROVE  Orderly(s, w, q, m, t, u, k, h)
  BY DEF Orderly, Calm

-----------------------------------------------------------------------------
(* The invariant of pages and logins.                                       *)

\* The connection of a session, once a thread serves it, and its user.
Served(s) ==
    IF session[s] # NULL /\ rpc[session[s]] # "off" THEN session[s] ELSE NULL
Name(s) == IF Served(s) = NULL THEN NULL ELSE account[Served(s)]

Connections ==
    \A s \in Sid :
        Orderly(s, web[s], events[s], emits[s], Served(s), Name(s), loop, hasty)

\* A session is that of the page its connection was made for.
Owners ==
    /\ \A s \in Sid : session[s] # NULL => owner[session[s]] = s /\ web[s] # "off"
    /\ \A t \in Tcp : rpc[t] # "off" /\ owner[t] \notin hasty => session[owner[t]] = t
    /\ loop.at = "welcome" => session[loop.sid] = loop.conn /\ rpc[loop.conn] # "off"
    /\ loop.at = "write" =>
          /\ owner[loop.conn] = loop.sid
          /\ rpc[loop.conn] = "off" => sock[loop.conn] = "closed"
          /\ rpc[loop.conn] # "off" /\ loop.sid \notin hasty /\ loop.op # "list"
             => loop.as = account[loop.conn]
    /\ SpeaksAsShown /\ \A m \in spoken : m.sid \in Sid /\ m.conn \in Tcp
    /\ \A s \in Sid : web[s] = "closed" /\ events[s] = <<>> => session[s] \notin active

\* The chat on its way to a page comes over connections made for it.
Post ==
    \A s \in Sid : \A i \in 1 .. Len(emits[s]) :
        emits[s][i].kind = "chat" =>
            emits[s][i].from \in Tcp /\ owner[emits[s][i].from] = s

\* A login of s that is not over, and the page's view of it.
Waits(s) == \/ Logs(events[s]) \/ Enters(s, loop) \/ Greets(s, loop)
            \/ Answers(emits[s])

Screen ==
    /\ Waits(sid) => asked = sid
    /\ asked = sid => screen = "login"
    /\ screen = "login" => ~Talks(events[sid])
    /\ Served(sid) # NULL /\ screen = "login" =>
          Greets(sid, loop) \/ Welcomes(emits[sid])
    /\ Served(sid) # NULL /\ screen = "chat" => currentUsername = Name(sid)

PageFits ==
    /\ \A s \in Sid : web[s] = "on" => s = sid
    /\ asked # NULL => web[asked] # "off"
    /\ \A i \in DOMAIN shown : shown[i] # NULL
    /\ sid # NULL => /\ web[sid] = "on"
                     /\ asked = sid => Waits(sid)
                     /\ sid \notin hasty => Screen

LEMMA MayLogIn ==
    ASSUME Types, Screen, screen = "login", asked # sid
    PROVE  Served(sid) = NULL /\ ~Waits(sid) /\ ~Talks(events[sid])
  <1>1. Welcomes(emits[sid]) => Answers(emits[sid])
    BY DEF Welcomes, Answers, Answer
  <1>2. QED
    BY <1>1 DEF Screen, Waits

\* What the steps of a page leave alone, and what ToBackend and Hears do.
LEMMA PageLeaves ==
    ASSUME PageStep
    PROVE  /\ loop' = loop /\ session' = session /\ active' = active /\ owner' = owner
           /\ account' = account /\ sock' = sock /\ rpc' = rpc /\ spoken' = spoken
           /\ \A s \in Sid : Served(s)' = Served(s) /\ Name(s)' = Name(s)
           /\ hasty \subseteq hasty' /\ \A s \in Sid \ {sid} : s \in hasty' <=> s \in hasty
  <1>1. UNCHANGED <<loop, session, active, owner, account, sock, rpc, spoken>>
    BY DEF PageStep, backendVars
  <1>2. hasty' = hasty \/ hasty' = hasty \cup {sid}
    BY DEF PageStep, Page, Hear, Submit, EnableAgain, SendMessage, Tick, Select, Logout,
           Lose, Connect, HearWelcome, HearRefused, HearChat, HearUsers, HearNotice,
           pageVars
  <1>3. QED
    BY <1>1, <1>2 DEF Served, Name

LEMMA PageSends ==
    ASSUME Types, sid \in Sid, NEW e \in Event, ToBackend(e)
    PROVE  /\ events[sid] \in Seq(Event) /\ events'[sid] = Append(events[sid], e)
           /\ events'[sid] # <<>> /\ \A s \in Sid \ {sid} : events'[s] = events[s]
  <1>1. events[sid] \in Seq(Event) /\ events \in [Sid -> Seq(Event)]
    BY DEF Types, Ranges
  <1>2. Append(events[sid], e) # <<>>
    BY <1>1
  <1>3. QED
    BY <1>1, <1>2 DEF ToBackend

LEMMA PageHears ==
    ASSUME Types, NEW kind, Hears(kind)
    PROVE  /\ sid \in Sid /\ emits[sid] \in Seq(Emission) /\ emits[sid] # <<>>
           /\ Head(emits[sid]) \in Emission /\ Head(emits[sid]).kind = kind
           /\ emits'[sid] = Tail(emits[sid])
           /\ \A s \in Sid \ {sid} : emits'[s] = emits[s]
  <1>1. sid \in Sid /\ emits \in [Sid -> Seq(Emission)]
    BY DEF Types, Ranges, Hears
  <1>2. emits[sid] \in Seq(Emission) /\ emits[sid] # <<>>
    BY <1>1 DEF Hears
  <1>3. Head(emits[sid]) \in Emission
    BY <1>2, MailShrinks
  <1>4. QED
    BY <1>1, <1>2, <1>3 DEF Hears

LEMMA PageConnections ==
    ASSUME Types, Connections, PageFits, PageStep
    PROVE  Connections'
  <1> SUFFICES ASSUME NEW r \in Sid
               PROVE  Orderly(r, web'[r], events'[r], emits'[r], Served(r)', Name(r)',
                              loop', hasty')
    BY DEF Connections
  <1> DEFINE O == Orderly(r, web[r], events[r], emits[r], Served(r), Name(r), loop, hasty)
  <1>1. /\ O /\ loop' = loop /\ Served(r)' = Served(r) /\ Name(r)' = Name(r)
        /\ r # sid => (r \in hasty' <=> r \in hasty)
    BY PageLeaves DEF Connections
  <1>2. /\ sid \in Sid \cup {NULL} /\ events[r] \in Seq(Event) /\ emits[r] \in Seq(Emission)
        /\ currentUsername \in User \cup {NULL}
    BY DEF Types, Ranges
  <1>3. CASE UNCHANGED <<web, events, emits, hasty>>
    BY <1>1, <1>3
  <1>4. sid # NULL => web[sid] = "on" /\ sid \in Sid /\ (sid \notin hasty => Screen)
    BY <1>2 DEF PageFits
  <1>5. CASE \E u \in User : Submit(u)
    <2>1. PICK u \in User : Submit(u)
      BY <1>5
    <2> DEFINE e == [op |-> "login", user |-> u, as |-> NULL]
    <2>2. e \in Event /\ e.op = "login"
      BY DEF Event, Ops
    <2>3. sid \in Sid /\ web[sid] = "on" /\ screen = "login"
      BY <2>1, <1>4 DEF Submit
    <2>4. web' = web /\ emits' = emits /\ ToBackend(e)
      BY <2>1 DEF Submit
    <2> HIDE DEF e
    <2>5. CASE r = sid
      <3>1. r \notin hasty' => asked # sid /\ r \notin hasty
        BY <2>1, <2>5 DEF Submit
      <3>2. Orderly(r, "on", events[r], emits[r], Served(r), Name(r), loop, hasty')
        BY <1>1, <2>3, <2>5, <3>1 DEF Orderly
      <3>3. r \notin hasty' => /\ Served(r) = NULL /\ ~Enters(r, loop) /\ ~Talks(events[r])
                               /\ ~Logs(events[r]) /\ ~Answers(emits[r])
        BY <1>4, <2>3, <2>5, <3>1, MayLogIn, NullApart DEF Waits
      <3>4. Orderly(r, "on", Append(events[r], e), emits[r], Served(r), Name(r), loop, hasty')
        BY <1>2, <2>2, <3>2, <3>3, TalkAsks
      <3>5. QED
        BY <1>1, <2>2, <2>3, <2>4, <2>5, <3>4, PageSends
    <2>6. CASE r # sid
      <3>1. Orderly(r, web[r], events[r], emits[r], Served(r), Name(r), loop, hasty')
        BY <1>1, <2>6 DEF Orderly
      <3>2. QED
        BY <1>1, <2>2, <2>3, <2>4, <2>6, <3>1, PageSends
    <2>7. QED
      BY <2>5, <2>6
  <1>6. CASE EnableAgain
    BY <1>3, <1>6 DEF EnableAgain, socketVars
  <1>7. CASE SendMessage
    <2> DEFINE e == Plain(IF selectedUser = NULL THEN "send" ELSE "private", currentUsername)
    <2>1. e \in Event /\ e.op \in {"send", "private"} /\ e.as = currentUsername
      BY <1>2, PlainType DEF Ops
    <2>2. sid \in Sid /\ web[sid] = "on" /\ screen = "chat" /\ (sid \notin hasty => Screen)
      BY <1>7, <1>4 DEF SendMessage
    <2>3. web' = web /\ emits' = emits /\ hasty' = hasty /\ ToBackend(e)
      BY <1>7 DEF SendMessage
    <2> HIDE DEF e
    <2>4. CASE r = sid
      <3>1. r \notin hasty => /\ ~Logs(events[r]) /\ ~Enters(r, loop)
                              /\ Served(r) # NULL => e.as = Name(r)
        BY <2>1, <2>2, <2>4 DEF Screen, Waits
      <3>2. e.op # "disconnect" /\ e.op # "login"
        BY <2>1
      <3>3. Orderly(r, "on", Append(events[r], e), emits[r], Served(r), Name(r), loop, hasty)
        BY <1>1, <1>2, <2>1, <2>2, <2>4, <3>1, <3>2, TalkAsks
      <3>4. QED
        BY <1>1, <2>1, <2>2, <2>3, <2>4, <3>3, PageSends
    <2>5. CASE r # sid
      BY <1>1, <2>1, <2>2, <2>3, <2>5, PageSends
    <2>6. QED
      BY <2>4, <2>5
  <1>8. CASE Tick
    <2> DEFINE e == Plain("list", currentUsername)
    <2>1. e \in Event /\ e.op = "list"
      BY <1>2, PlainType DEF Ops
    <2>2. sid \in Sid /\ web[sid] = "on"
      BY <1>8, <1>4 DEF Tick
    <2>3. web' = web /\ emits' = emits /\ hasty' = hasty /\ ToBackend(e)
      BY <1>8 DEF Tick
    <2> HIDE DEF e
    <2>4. CASE r = sid
      <3>1. Orderly(r, "on", Append(events[r], e), emits[r], Served(r), Name(r), loop, hasty)
        BY <1>1, <1>2, <2>1, <2>2, <2>4, TalkAsks
      <3>2. QED
        BY <1>1, <2>1, <2>2, <2>3, <2>4, <3>1, PageSends
    <2>5. CASE r # sid
      BY <1>1, <2>1, <2>2, <2>3, <2>5, PageSends
    <2>6. QED
      BY <2>4, <2>5
  <1>9. ASSUME NEW k \in 0 .. Len(events[sid]), sid # NULL, Hangup(sid, k), hasty' = hasty
        PROVE  Orderly(r, web'[r], events'[r], emits'[r], Served(r)', Name(r)', loop', hasty')
    <2>1. /\ web'[sid] = "closed" /\ emits'[sid] = <<>>
          /\ events'[sid] = Append(SubSeq(events[sid], 1, k), Plain("disconnect", NULL))
          /\ \A s \in Sid \ {sid} : /\ web'[s] = web[s] /\ events'[s] = events[s]
                                    /\ emits'[s] = emits[s]
      BY <1>4, <1>9, HangupType DEF Types, Ranges
    <2>2. CASE r = sid
      <3>1. /\ Plain("disconnect", NULL) \in Event
            /\ Plain("disconnect", NULL).op = "disconnect"
        BY PlainType DEF Ops
      <3>2. Orderly(r, "on", events[r], emits[r], Served(r), Name(r), loop, hasty)
        BY <1>1, <1>4, <1>9, <2>2
      <3>3. Orderly(r, "closed", Append(SubSeq(events[r], 1, k), Plain("disconnect", NULL)),
                    <<>>, Served(r), Name(r), loop, hasty)
        BY <1>2, <1>9, <2>2, <3>1, <3>2, TalkCut
      <3>4. QED
        BY <1>1, <1>9, <2>1, <2>2, <3>3
    <2>3. CASE r # sid
      BY <1>1, <1>9, <2>1, <2>3
    <2>4. QED
      BY <2>2, <2>3
  <1>10. CASE Logout
    <2>1. sid \in Sid /\ Len(events[sid]) \in 0 .. Len(events[sid])
      BY <1>10, <1>4 DEF Logout, Types, Ranges
    <2>2. QED
      BY <1>9, <1>10, <2>1 DEF Logout
  <1>11. CASE Lose
    BY <1>9, <1>11 DEF Lose
  <1>12. CASE \E u \in User \cup {NULL} : Select(u)
    BY <1>3, <1>12 DEF Select, socketVars
  <1>13. CASE \E s \in Sid : Connect(s)
    <2>1. PICK s \in Sid : Connect(s)
      BY <1>13
    <2>2. /\ web[s] = "off" /\ web'[s] = "on" /\ events' = events /\ emits' = emits
          /\ \A x \in Sid \ {s} : web'[x] = web[x]
      BY <2>1 DEF Connect, Types, Ranges
    <2>3. CASE r = s
      <3>1. /\ events[r] = <<>> /\ emits[r] = <<>> /\ Served(r) = NULL
            /\ loop.sid # r /\ hasty' = hasty
        BY <1>1, <2>1, <2>2, <2>3 DEF Orderly, Connect
      <3>2. ~Enters(r, loop) /\ ~Greets(r, loop)
        BY <3>1 DEF Enters, Greets
      <3>3. Orderly(r, "on", <<>>, <<>>, NULL, Name(r), loop, hasty)
        BY <3>1, <3>2, QueueEmpty, MailEmpty DEF Orderly, Calm
      <3>4. QED
        BY <1>1, <2>2, <2>3, <3>1, <3>3
    <2>4. CASE r # s
      <3>1. hasty' = hasty
        BY <2>1 DEF Connect
      <3>2. QED
        BY <1>1, <2>2, <2>4, <3>1
    <2>5. QED
      BY <2>3, <2>4
  <1>14. ASSUME NEW kind, Hears(kind), UNCHANGED <<web, events, hasty>>
         PROVE  Orderly(r, web'[r], events'[r], emits'[r], Served(r)', Name(r)', loop', hasty')
    <2>1. CASE r = sid
      <3>1. Orderly(r, web[r], events[r], Tail(emits[r]), Served(r), Name(r), loop, hasty)
        BY <1>1, <1>2, <1>14, <2>1, TalkHeard, PageHears
      <3>2. QED
        BY <1>1, <1>14, <2>1, <3>1, PageHears
    <2>2. CASE r # sid
      BY <1>1, <1>14, <2>2, PageHears
    <2>3. QED
      BY <2>1, <2>2
  <1>15. CASE HearWelcome
    <2> DEFINE e == Plain("list", currentUsername')
    <2>1. /\ Hears("welcome") /\ ToBackend(e) /\ web' = web /\ hasty' = hasty
          /\ currentUsername' = Head(emits[sid]).user
      BY <1>15 DEF HearWelcome
    <2>2. sid \in Sid /\ Head(emits[sid]) \in Emission
      BY <2>1, PageHears
    <2>3. e \in Event /\ e.op = "list"
      BY <2>1, <2>2, PlainType DEF Ops, Emission
    <2> HIDE DEF e
    <2>4. CASE r = sid
      <3>1. Orderly(r, "on", events[r], Tail(emits[r]), Served(r), Name(r), loop, hasty)
        BY <1>1, <1>2, <1>4, <2>1, <2>2, <2>4, TalkHeard, PageHears, NullApart
      <3>2. Orderly(r, "on", Append(events[r], e), Tail(emits[r]), Served(r), Name(r), loop, hasty)
        BY <1>2, <2>3, <3>1, TalkAsks
      <3>3. QED
        BY <1>1, <1>4, <2>1, <2>2, <2>3, <2>4, <3>2, PageHears, PageSends, NullApart
    <2>5. CASE r # sid
      BY <1>1, <2>1, <2>2, <2>3, <2>5, PageHears, PageSends
    <2>6. QED
      BY <2>4, <2>5
  <1>16. CASE HearRefused \/ HearChat \/ HearUsers \/ HearNotice
    <2>1. \E kind \in {"refused", "chat", "users", "error", "lost"} : Hears(kind)
      BY <1>16 DEF HearRefused, HearChat, HearUsers, HearNotice
    <2>2. UNCHANGED <<web, events, hasty>>
      BY <1>16 DEF HearRefused, HearChat, HearUsers, HearNotice, pageVars
    <2>3. QED
      BY <1>14, <2>1, <2>2
  <1>17. QED
    BY <1>5, <1>6, <1>7, <1>8, <1>10, <1>11, <1>12, <1>13, <1>15, <1>16
       DEF PageStep, Page, Hear

LEMMA PageOwners ==
    ASSUME Types, Owners, PageFits, PageStep
    PROVE  Owners'
  <1>1. /\ loop' = loop /\ session' = session /\ active' = active /\ owner' = owner
        /\ account' = account /\ sock' = sock /\ rpc' = rpc /\ spoken' = spoken
        /\ hasty \subseteq hasty'
    BY PageLeaves
  <1>2. sid # NULL => web[sid] = "on" /\ sid \in Sid
    BY DEF PageFits, Types, Ranges
  <1>3. ASSUME NEW s \in Sid, web'[s] = "closed", events'[s] = <<>>
        PROVE  web[s] = "closed" /\ events[s] = <<>>
    <2>1. CASE UNCHANGED <<web, events>>
      BY <1>3, <2>1
    <2>2. ASSUME NEW e \in Event, ToBackend(e), web' = web, sid # NULL
          PROVE  web[s] = "closed" /\ events[s] = <<>>
      BY <1>2, <1>3, <2>2, PageSends
    <2>3. ASSUME NEW k \in 0 .. Len(events[sid]), Hangup(sid, k), sid # NULL
          PROVE  web[s] = "closed" /\ events[s] = <<>>
      <3>1. /\ events'[sid] = Append(SubSeq(events[sid], 1, k), Plain("disconnect", NULL))
            /\ \A r \in Sid \ {sid} : web'[r] = web[r] /\ events'[r] = events[r]
        BY <1>2, <2>3, HangupType DEF Types, Ranges
      <3>2. SubSeq(events[sid], 1, k) \in Seq(Event) /\ Plain("disconnect", NULL) \in Event
        BY <1>2, <2>3, QueueCut, PlainType DEF Ops, Types, Ranges
      <3>3. events'[sid] # <<>>
        BY <3>1, <3>2, QueueGrows
      <3>4. QED
        BY <1>3, <3>1, <3>3
    <2>4. CASE \E u \in User : Submit(u)
      <3>1. PICK u \in User : Submit(u)
        BY <2>4
      <3>2. [op |-> "login", user |-> u, as |-> NULL] \in Event
        BY DEF Event, Ops
      <3>3. QED
        BY <2>2, <3>1, <3>2 DEF Submit
    <2>5. CASE SendMessage
      <3>1. Plain(IF selectedUser = NULL THEN "send" ELSE "private", currentUsername) \in Event
        BY PlainType DEF Ops, Types, Ranges
      <3>2. QED
        BY <2>2, <2>5, <3>1 DEF SendMessage
    <2>6. CASE Tick
      <3>1. Plain("list", currentUsername) \in Event
        BY PlainType DEF Ops, Types, Ranges
      <3>2. QED
        BY <2>2, <2>6, <3>1 DEF Tick
    <2>7. CASE Logout
      <3>1. Len(events[sid]) \in 0 .. Len(events[sid])
        BY <1>2, <2>7 DEF Logout, Types, Ranges
      <3>2. QED
        BY <2>3, <2>7, <3>1 DEF Logout
    <2>8. CASE Lose
      BY <2>3, <2>8 DEF Lose
    <2>9. CASE \E x \in Sid : Connect(x)
      BY <1>3, <2>9 DEF Connect, Types, Ranges
    <2>10. CASE HearWelcome
      <3>1. Hears("welcome") /\ currentUsername' = Head(emits[sid]).user
        BY <2>10 DEF HearWelcome
      <3>2. Plain("list", currentUsername') \in Event
        BY <3>1, PageHears, PlainType DEF Ops, Emission
      <3>3. QED
        BY <2>2, <2>10, <3>1, <3>2 DEF HearWelcome, Hears
    <2>11. CASE \/ EnableAgain \/ (\E u \in User \cup {NULL} : Select(u))
                \/ HearRefused \/ HearChat \/ HearUsers \/ HearNotice
      BY <2>1, <2>11 DEF EnableAgain, Select, HearRefused, HearChat, HearUsers, HearNotice,
                         socketVars
    <2>12. QED
      BY <2>4, <2>5, <2>6, <2>7, <2>8, <2>9, <2>10, <2>11 DEF PageStep, Page, Hear
  <1>4. \A s \in Sid : web[s] # "off" => web'[s] # "off"
    BY <1>2 DEF PageStep, Page, Hear, Submit, EnableAgain, SendMessage, Tick, Select,
       Logout, Lose, Hangup, Connect, HearWelcome, HearRefused, HearChat, HearUsers,
       HearNotice, socketVars, Types, Ranges
  <1>5. QED
    BY <1>1, <1>3, <1>4 DEF Owners, SpeaksAsShown

LEMMA PageScreen ==
    ASSUME Types, Connections, Post, PageFits, PageStep
    PROVE  PageFits'
  <1> USE NullApart
  <1>1. /\ loop' = loop /\ \A s \in Sid : Served(s)' = Served(s) /\ Name(s)' = Name(s)
        /\ hasty \subseteq hasty'
    BY PageLeaves
  <1>2. /\ sid \in Sid \cup {NULL} /\ asked \in Sid \cup {NULL}
        /\ screen \in {"login", "chat"} /\ shown \in Seq(Tcp \cup {NULL})
        /\ web \in [Sid -> {"off", "on", "closed"}]
    BY DEF Types, Ranges
  <1>3. sid # NULL => /\ sid \in Sid /\ web[sid] = "on" /\ (asked = sid => Waits(sid))
                      /\ sid \notin hasty => Screen
    BY <1>2 DEF PageFits
  <1>4. /\ \A s \in Sid : web[s] = "on" => s = sid
        /\ asked # NULL => web[asked] # "off"
        /\ \A i \in DOMAIN shown : shown[i] # NULL
    BY DEF PageFits
  <1>5. ASSUME NEW u \in User, Submit(u) PROVE PageFits'
    <2> DEFINE e == [op |-> "login", user |-> u, as |-> NULL]
    <2>1. e \in Event /\ e.op = "login"
      BY DEF Event, Ops
    <2>2. /\ sid \in Sid /\ web[sid] = "on" /\ screen = "login" /\ ToBackend(e)
      BY <1>3, <1>5 DEF Submit
    <2>3. /\ web' = web /\ emits' = emits /\ sid' = sid /\ screen' = screen
          /\ shown' = shown /\ asked' = sid /\ currentUsername' = currentUsername
          /\ sid \notin hasty' => asked # sid /\ sid \notin hasty
      BY <1>5 DEF Submit
    <2> HIDE DEF e
    <2>4. events[sid] \in Seq(Event) /\ events'[sid] = Append(events[sid], e)
      BY <2>1, <2>2, PageSends
    <2>5. Logs(events'[sid]) /\ (Talks(events'[sid]) <=> Talks(events[sid]))
      BY <2>1, <2>4, QueueGrows
    <2>6. sid \notin hasty' => Served(sid) = NULL /\ ~Talks(events[sid])
      BY <1>3, <2>2, <2>3, MayLogIn
    <2>7. sid \notin hasty' => Screen'
      BY <1>1, <2>2, <2>3, <2>5, <2>6 DEF Screen
    <2>8. Waits(sid)'
      BY <2>3, <2>5 DEF Waits
    <2>9. QED
      BY <1>2, <1>4, <2>2, <2>3, <2>7, <2>8 DEF PageFits
  <1>6. ASSUME UNCHANGED <<web, events, emits, sid, screen, currentUsername, asked, shown, hasty>>
        PROVE  PageFits'
    <2>1. \A s \in Sid : Waits(s)' <=> Waits(s)
      BY <1>1, <1>6 DEF Waits
    <2>2. sid # NULL /\ sid \notin hasty => Screen'
      BY <1>1, <1>3, <1>6, <2>1 DEF Screen
    <2>3. QED
      BY <1>3, <1>4, <1>6, <2>1, <2>2 DEF PageFits
  <1>7. ASSUME NEW e \in Event, sid # NULL, ToBackend(e), e.op \in {"send", "private", "list"},
               e.op # "list" => screen = "chat",
               UNCHANGED <<web, emits, sid, screen, currentUsername, asked, shown, hasty>>
        PROVE  PageFits'
    <2>1. /\ sid \in Sid /\ events[sid] \in Seq(Event)
          /\ events'[sid] = Append(events[sid], e)
      BY <1>3, <1>7, PageSends
    <2>2. /\ Logs(events'[sid]) <=> Logs(events[sid])
          /\ Talks(events'[sid]) => Talks(events[sid]) \/ e.op # "list"
      BY <1>7, <2>1, QueueGrows
    <2>3. Waits(sid)' <=> Waits(sid)
      BY <1>1, <1>7, <2>2 DEF Waits
    <2>4. sid \notin hasty => Screen'
      BY <1>1, <1>3, <1>7, <2>1, <2>2, <2>3 DEF Screen
    <2>5. QED
      BY <1>3, <1>4, <1>7, <2>1, <2>3, <2>4 DEF PageFits
  <1>8. CASE SendMessage
    <2> DEFINE e == Plain(IF selectedUser = NULL THEN "send" ELSE "private", currentUsername)
    <2>1. e \in Event /\ e.op \in {"send", "private", "list"}
      BY PlainType DEF Ops, Types, Ranges
    <2> HIDE DEF e
    <2>2. QED
      BY <1>7, <1>8, <2>1 DEF SendMessage, e
  <1>9. CASE Tick
    <2> DEFINE e == Plain("list", currentUsername)
    <2>1. e \in Event /\ e.op = "list"
      BY PlainType DEF Ops, Types, Ranges
    <2> HIDE DEF e
    <2>2. QED
      BY <1>7, <1>9, <2>1 DEF Tick, e
  <1>10. CASE Logout \/ Lose
    <2>1. PICK k \in 0 .. Len(events[sid]) : Hangup(sid, k)
      BY <1>10, <1>3 DEF Logout, Lose, Types, Ranges
    <2>2. /\ sid \in Sid /\ sid' = NULL /\ asked' = asked
          /\ shown' = shown \/ shown' = <<>>
      BY <1>10, <1>3 DEF Logout, Lose
    <2>3. web'[sid] = "closed" /\ \A s \in Sid \ {sid} : web'[s] = web[s]
      BY <2>1, <2>2, HangupType DEF Types, Ranges
    <2>4. QED
      BY <1>2, <1>4, <2>2, <2>3 DEF PageFits
  <1>11. CASE EnableAgain \/ \E u \in User \cup {NULL} : Select(u)
    BY <1>6, <1>11 DEF EnableAgain, Select, socketVars
  <1>12. ASSUME NEW s \in Sid, Connect(s) PROVE PageFits'
    <2>1. /\ sid = NULL /\ sid' = s /\ web[s] = "off" /\ web'[s] = "on"
          /\ \A x \in Sid \ {s} : web'[x] = web[x]
          /\ UNCHANGED <<events, emits, screen, currentUsername, asked, shown, hasty>>
      BY <1>2, <1>12 DEF Connect
    <2>2. events[s] = <<>> /\ emits[s] = <<>> /\ Served(s) = NULL /\ loop.sid # s
      BY <2>1 DEF Connections, Orderly
    <2>3. ~Waits(s)' /\ ~Talks(events'[s]) /\ asked' # s
      BY <1>1, <1>4, <2>1, <2>2, QueueEmpty, MailEmpty DEF Waits, Enters, Greets
    <2>4. Screen'
      BY <1>1, <2>1, <2>2, <2>3 DEF Screen, Waits
    <2>5. QED
      BY <1>2, <1>4, <2>1, <2>3, <2>4 DEF PageFits
  <1>13. ASSUME NEW kind, Hears(kind)
         PROVE  /\ sid \in Sid /\ emits[sid] \in Seq(Emission) /\ emits[sid] # <<>>
                /\ Head(emits[sid]) \in Emission /\ Head(emits[sid]).kind = kind
                /\ emits'[sid] = Tail(emits[sid])
                /\ Answers(emits[sid]) <=> Answers(emits'[sid]) \/ kind \in Answer
                /\ Welcomes(emits[sid]) <=> Welcomes(emits'[sid]) \/ kind = "welcome"
                /\ sid \notin hasty =>
                      /\ Screen /\ Letter(Head(emits[sid]), Served(sid), Name(sid))
                      /\ kind \in Answer => /\ ~Answers(emits'[sid]) /\ ~Logs(events[sid])
                                            /\ ~Enters(sid, loop) /\ ~Greets(sid, loop)
    <2>1. /\ sid \in Sid /\ emits[sid] \in Seq(Emission) /\ emits[sid] # <<>>
          /\ Head(emits[sid]).kind = kind /\ emits'[sid] = Tail(emits[sid])
      BY <1>13, PageHears
    <2>2. Orderly(sid, web[sid], events[sid], emits[sid], Served(sid), Name(sid), loop, hasty)
      BY <2>1 DEF Connections
    <2>3. /\ Head(emits[sid]) \in Emission
          /\ Answers(emits[sid]) <=> Answers(Tail(emits[sid])) \/ kind \in Answer
          /\ Welcomes(emits[sid]) <=> Welcomes(Tail(emits[sid])) \/ kind = "welcome"
      BY <2>1, MailShrinks
    <2>4. sid \notin hasty =>
             /\ Letter(Head(emits[sid]), Served(sid), Name(sid))
             /\ kind \in Answer => /\ ~Answers(Tail(emits[sid])) /\ ~Logs(events[sid])
                                   /\ ~Enters(sid, loop) /\ ~Greets(sid, loop)
      BY <2>1, <2>2, TalkHeard
    <2>5. QED
      BY <1>3, <2>1, <2>3, <2>4
  <1>14. CASE HearWelcome
    <2> DEFINE e == Plain("list", currentUsername')
    <2>1. /\ Hears("welcome") /\ ToBackend(e) /\ currentUsername' = Head(emits[sid]).user
          /\ screen' = "chat" /\ asked' = NULL
          /\ web' = web /\ sid' = sid /\ shown' = shown /\ hasty' = hasty
      BY <1>14 DEF HearWelcome
    <2>2. /\ sid \in Sid /\ Head(emits[sid]) \in Emission
          /\ sid \notin hasty => /\ Screen /\ currentUsername' = Name(sid)
                                 /\ ~Answers(emits'[sid]) /\ ~Logs(events[sid])
                                 /\ ~Enters(sid, loop) /\ ~Greets(sid, loop)
      BY <1>13, <2>1 DEF Letter, Answer
    <2>3. e \in Event /\ e.op = "list"
      BY <2>1, <2>2, PlainType DEF Ops, Emission
    <2> HIDE DEF e
    <2>4. events[sid] \in Seq(Event) /\ events'[sid] = Append(events[sid], e)
      BY <2>1, <2>2, <2>3, PageSends
    <2>5. ~Logs(events[sid]) => ~Logs(events'[sid])
      BY <2>3, <2>4, QueueGrows
    <2>6. sid \notin hasty => Screen'
      BY <1>1, <2>1, <2>2, <2>5 DEF Screen, Waits
    <2>7. QED
      BY <1>3, <1>4, <2>1, <2>2, <2>6 DEF PageFits
  <1>15. CASE HearRefused
    <2>1. /\ Hears("refused") /\ asked' = NULL
          /\ UNCHANGED <<web, events, sid, screen, currentUsername, shown, hasty>>
      BY <1>15 DEF HearRefused
    <2>2. /\ sid \in Sid /\ (Welcomes(emits[sid]) <=> Welcomes(emits'[sid]))
          /\ sid \notin hasty => /\ Screen /\ ~Answers(emits'[sid]) /\ ~Logs(events[sid])
                                 /\ ~Enters(sid, loop) /\ ~Greets(sid, loop)
      BY <1>13, <2>1 DEF Answer
    <2>3. sid \notin hasty => Screen'
      BY <1>1, <2>1, <2>2 DEF Screen, Waits
    <2>4. QED
      BY <1>3, <1>4, <2>1, <2>2, <2>3 DEF PageFits
  <1>16. CASE HearChat \/ HearUsers \/ HearNotice
    <2>1. PICK kind \in {"chat", "users", "error", "lost"} : Hears(kind)
      BY <1>16 DEF HearChat, HearUsers, HearNotice
    <2>2. UNCHANGED <<web, events, sid, screen, currentUsername, asked, hasty>>
      BY <1>16 DEF HearChat, HearUsers, HearNotice, pageVars
    <2>3. /\ sid \in Sid /\ (sid \notin hasty => Screen)
          /\ Answers(emits[sid]) <=> Answers(emits'[sid])
          /\ Welcomes(emits[sid]) <=> Welcomes(emits'[sid])
      BY <1>13, <2>1 DEF Answer
    <2>4. Waits(sid)' <=> Waits(sid)
      BY <1>1, <2>2, <2>3 DEF Waits
    <2>5. sid \notin hasty => Screen'
      BY <1>1, <2>2, <2>3, <2>4 DEF Screen
    <2>6. \A i \in DOMAIN shown' : shown'[i] # NULL
      <3>1. CASE shown' = shown
        BY <1>4, <3>1
      <3>2. CASE HearChat /\ shown' # shown
        <4> DEFINE x == Texts(Head(emits[sid]))
        <4>1. shown' = shown \o x /\ Hears("chat")
          BY <3>2 DEF HearChat
        <4>2. Head(emits[sid]).from # NULL /\ Head(emits[sid]) \in Emission
          <5>1. /\ emits[sid] \in Seq(Emission) /\ emits[sid] # <<>> /\ sid \in Sid
                /\ Head(emits[sid]) \in Emission /\ Head(emits[sid]).kind = "chat"
            BY <1>13, <4>1
          <5>2. 1 \in 1 .. Len(emits[sid]) /\ Head(emits[sid]) = emits[sid][1]
            BY <5>1
          <5>3. QED
            BY <5>1, <5>2 DEF Post
        <4>3. x \in Seq(Tcp \cup {NULL}) /\ \A i \in 1 .. Len(x) : x[i] # NULL
          BY <4>2, TextsType
        <4> HIDE DEF x
        <4>4. /\ DOMAIN shown = 1 .. Len(shown) /\ Len(shown) \in Nat /\ Len(x) \in Nat
              /\ DOMAIN (shown \o x) = 1 .. Len(shown) + Len(x)
              /\ \A i \in 1 .. Len(shown) + Len(x) :
                    (shown \o x)[i] = IF i <= Len(shown) THEN shown[i] ELSE x[i - Len(shown)]
          BY <1>2, <4>3
        <4>5. QED
          BY <1>4, <4>1, <4>3, <4>4
      <3>3. QED
        BY <1>16, <3>1, <3>2 DEF HearUsers, HearNotice, pageVars
    <2>7. QED
      BY <1>3, <1>4, <2>2, <2>3, <2>4, <2>5, <2>6 DEF PageFits
  <1>17. QED
    BY <1>5, <1>8, <1>9, <1>10, <1>11, <1>12, <1>14, <1>15, <1>16
       DEF PageStep, Page, Hear

\* What is emitted on s, once the rest of the step is done.
LEMMA TalkEmitted ==
    ASSUME Types, NEW s \in Sid, NEW e \in Emission, Emit(s, e), NEW r \in Sid,
           NEW q, NEW t, NEW u, NEW l, NEW h,
           Orderly(r, web[r], q, emits[r], t, u, l, h),
           r = s /\ s \notin h =>
              /\ Letter(e, t, u)
              /\ e.kind \in Answer => /\ ~Answers(emits[s]) /\ ~Logs(q)
                                      /\ ~Enters(s, l) /\ ~Greets(s, l)
    PROVE  /\ Orderly(r, web[r], q, emits'[r], t, u, l, h)
           /\ r # s => emits'[r] = emits[r]
           /\ r = s /\ web[r] = "on" =>
                 /\ Answers(emits'[r]) <=> Answers(emits[r]) \/ e.kind \in Answer
                 /\ Welcomes(emits'[r]) <=> Welcomes(emits[r]) \/ e.kind = "welcome"
  <1>1. emits \in [Sid -> Seq(Emission)]
    BY DEF Types, Ranges
  <1>2. CASE r = s /\ web[r] = "on"
    <2>1. emits'[r] = Append(emits[r], e) /\ emits[r] \in Seq(Emission)
      BY <1>1, <1>2, EmitType
    <2>2. Orderly(r, "on", q, Append(emits[r], e), t, u, l, h)
      BY <1>2, <2>1, TalkTold
    <2>3. QED
      BY <1>2, <2>1, <2>2, MailGrows
  <1>3. CASE r # s \/ web[r] # "on"
    <2>1. emits'[r] = emits[r]
      BY <1>1, <1>3, EmitType
    <2>2. QED
      BY <1>3, <2>1
  <1>4. QED
    BY <1>2, <1>3

LEMMA ScreenKept ==
    ASSUME Types, PageFits, UNCHANGED pageVars, web' = web,
           \A s \in Sid : s = sid => (Waits(s)' <=> Waits(s)),
           \A s \in Sid : s = sid /\ s \notin hasty =>
              /\ Talks(events'[s]) => Talks(events[s])
              /\ Served(s)' # NULL /\ screen = "login" =>
                    Greets(s, loop') \/ Welcomes(emits'[s])
              /\ Served(s)' # NULL /\ screen = "chat" => currentUsername = Name(s)'
    PROVE  PageFits'
  <1>1. UNCHANGED <<sid, screen, currentUsername, asked, shown, hasty>>
    BY DEF pageVars
  <1>2. ASSUME sid # NULL PROVE /\ web'[sid] = "on" /\ (asked = sid => Waits(sid)')
                                /\ sid \notin hasty => Screen'
    <2>1. /\ sid \in Sid /\ web[sid] = "on" /\ (asked = sid => Waits(sid))
          /\ sid \notin hasty => Screen
      BY <1>2 DEF PageFits, Types, Ranges
    <2>2. (Waits(sid)' <=> Waits(sid)) /\ Name(sid)' = Name(sid)' /\ Served(sid)' = Served(sid)'
      BY <1>1, <2>1
    <2>3. QED
      BY <1>1, <2>1, <2>2 DEF Screen
  <1>3. QED
    BY <1>1, <1>2 DEF PageFits

\* The screen after a step of the backend that changes no session.
LEMMA ScreenStays ==
    ASSUME Types, PageFits, UNCHANGED pageVars, web' = web,
           \A s \in Sid : s = sid =>
              /\ Served(s)' = Served(s) /\ Name(s)' = Name(s)
              /\ Waits(s)' <=> Waits(s)
              /\ Talks(events'[s]) => Talks(events[s])
              /\ Greets(s, loop) \/ Welcomes(emits[s]) =>
                    Greets(s, loop') \/ Welcomes(emits'[s])
    PROVE  PageFits'
  <1>1. \A s \in Sid : s = sid /\ s \notin hasty => Screen
    BY NullApart DEF PageFits
  <1>2. \A s \in Sid : s = sid /\ s \notin hasty =>
           /\ Served(s)' # NULL /\ screen = "login" =>
                 Greets(s, loop') \/ Welcomes(emits'[s])
           /\ Served(s)' # NULL /\ screen = "chat" => currentUsername = Name(s)'
    BY <1>1 DEF Screen
  <1>3. QED
    BY <1>2, ScreenKept

\* What serves a session, when neither sessions nor the accounts of connections in
\* use change.
LEMMA NameStays ==
    ASSUME Types, session' = session, account' = account,
           \A t \in Tcp : rpc'[t] = "off" <=> rpc[t] = "off"
    PROVE  \A s \in Sid : Served(s)' = Served(s) /\ Name(s)' = Name(s)
  <1>1. \A s \in Sid : session[s] # NULL => session[s] \in Tcp
    BY DEF Types, Ranges
  <1>2. QED
    BY <1>1 DEF Served, Name

\* Of a page whose user was hasty nothing is said about sessions.
LEMMA TalkHasty ==
    ASSUME NEW s, NEW w, NEW q, NEW m, NEW t, NEW u, NEW l, NEW h, NEW t2, NEW u2,
           Orderly(s, w, q, m, t, u, l, h), s \in h, w # "off"
    PROVE  Orderly(s, w, q, m, t2, u2, l, h)
  BY DEF Orderly

\* What is known of the connection whose event is taken.
LEMMA TakesTalk ==
    ASSUME Types, Connections, NEW s \in Sid, NEW op, Takes(s, op)
    PROVE  /\ \A r \in Sid : Orderly(r, web[r], events'[r], emits[r], Served(r), Name(r), Idle, hasty)
           /\ s \notin hasty /\ op = "login" =>
                 /\ Served(s) = NULL /\ ~Talks(events'[s])
                 /\ ~Logs(events'[s]) /\ ~Answers(emits[s])
           /\ s \notin hasty /\ op \in {"send", "private"} /\ Served(s) # NULL
              => Head(events[s]).as = Name(s)
           /\ op = "login" => Logs(events[s])
           /\ op # "disconnect" => ~(web[s] = "closed" /\ events'[s] = <<>>)
           /\ op # "login" => (Logs(events'[s]) <=> Logs(events[s]))
           /\ web[s] # "off" /\ (Talks(events'[s]) => Talks(events[s]))
  <1> DEFINE q == events[s]
  <1>1. /\ q \in Seq(Event) /\ q # <<>> /\ loop = Idle /\ Head(q).op = op
        /\ events'[s] = Tail(q) /\ \A r \in Sid \ {s} : events'[r] = events[r]
    BY TakesType
  <1>2. \A r \in Sid : Orderly(r, web[r], events[r], emits[r], Served(r), Name(r), Idle, hasty)
    BY <1>1 DEF Connections
  <1>3. Orderly(s, web[s], q, emits[s], Served(s), Name(s), Idle, hasty)
    BY <1>2
  <1>4. q \in Seq(Event) /\ q # <<>>
    BY <1>1
  <1> HIDE DEF q
  <1>5. Taken(s, web[s], q, emits[s], Served(s), Name(s), hasty)
    BY <1>3, <1>4, TalkTaken
  <1>6. /\ Orderly(s, web[s], Tail(q), emits[s], Served(s), Name(s), Idle, hasty)
        /\ s \notin hasty /\ Head(q).op = "login" =>
              /\ Served(s) = NULL /\ ~Talks(Tail(q))
              /\ ~Logs(Tail(q)) /\ ~Answers(emits[s])
        /\ s \notin hasty /\ Head(q).op \in {"send", "private"} /\ Served(s) # NULL
           => Head(q).as = Name(s)
        /\ Head(q).op # "disconnect" => ~(web[s] = "closed" /\ Tail(q) = <<>>)
        /\ web[s] # "off"
    BY <1>5 DEF Taken
  <1>7. /\ Logs(q) <=> Logs(Tail(q)) \/ Head(q).op = "login"
        /\ Talks(Tail(q)) => Talks(q)
    BY <1>4, QueueShrinks
  <1>8. \A r \in Sid : Orderly(r, web[r], events'[r], emits[r], Served(r), Name(r), Idle, hasty)
    <2> TAKE r \in Sid
    <2>1. CASE r = s
      BY <1>1, <1>6, <2>1
    <2>2. CASE r # s
      BY <1>1, <1>2, <2>2
    <2>3. QED
      BY <2>1, <2>2
  <1>9. QED
    BY <1>1, <1>6, <1>7, <1>8 DEF q

Session == Types /\ Table /\ Owners /\ Connections /\ Post /\ PageFits

LEMMA RefusedSession ==
    ASSUME Session, NEW s \in Sid, LoginRefused(s), UNCHANGED pageVars
    PROVE  Owners' /\ Connections' /\ PageFits'
  <1> USE NullApart DEF Session
  <1>1. /\ Takes(s, "login") /\ loop = Idle /\ \A r \in Sid \ {s} : events'[r] = events[r]
    BY TakesType DEF LoginRefused
  <1>2. /\ Emit(s, Notice("refused")) /\ web' = web /\ loop' = loop /\ session' = session
        /\ active' = active /\ owner' = owner /\ account' = account /\ rpc' = rpc
        /\ sock' = sock /\ spoken' = spoken /\ hasty' = hasty
    BY DEF LoginRefused, NoTcp, pageVars
  <1>3. /\ Notice("refused") \in Emission /\ Notice("refused").kind = "refused"
        /\ \A r \in Sid : Letter(Notice("refused"), Served(r), Name(r))
    BY NoticeType DEF Letter
  <1>4. \A r \in Sid : /\ Served(r)' = Served(r) /\ Name(r)' = Name(r)
                       /\ ~Enters(r, Idle) /\ ~Greets(r, Idle)
    BY <1>2, NameStays, IdleType DEF Enters, Greets, Entering
  <1>5. /\ \A r \in Sid : Orderly(r, web[r], events'[r], emits[r], Served(r), Name(r), Idle, hasty)
        /\ s \notin hasty => ~Logs(events'[s]) /\ ~Answers(emits[s])
        /\ Logs(events[s]) /\ ~(web[s] = "closed" /\ events'[s] = <<>>)
        /\ Talks(events'[s]) => Talks(events[s])
    BY <1>1, TakesTalk
  <1>6. ASSUME NEW r \in Sid
        PROVE  /\ Orderly(r, web[r], events'[r], emits'[r], Served(r), Name(r), Idle, hasty)
               /\ r # s => emits'[r] = emits[r]
               /\ r = s /\ web[r] = "on" =>
                     Answers(emits'[r]) /\ (Welcomes(emits'[r]) <=> Welcomes(emits[r]))
    BY <1>2, <1>3, <1>4, <1>5, TalkEmitted DEF Answer
  <1>7. Connections'
    BY <1>1, <1>2, <1>4, <1>6 DEF Connections
  <1>8. Owners'
    BY <1>1, <1>2, <1>5 DEF Owners, SpeaksAsShown
  <1>9. ASSUME NEW r \in Sid, r = sid
        PROVE  /\ Waits(r)' <=> Waits(r)
               /\ Talks(events'[r]) => Talks(events[r])
               /\ Greets(r, loop) \/ Welcomes(emits[r]) =>
                     Greets(r, loop') \/ Welcomes(emits'[r])
    <2>1. web[r] = "on"
      BY <1>9 DEF PageFits, Screen
    <2>2. CASE r = s
      BY <1>2, <1>5, <1>6, <2>1, <2>2 DEF Waits
    <2>3. CASE r # s
      BY <1>1, <1>2, <1>6, <2>1, <2>3 DEF Waits
    <2>4. QED
      BY <2>2, <2>3
  <1>10. PageFits'
    BY <1>2, <1>4, <1>9, ScreenStays
  <1>11. QED
    BY <1>7, <1>8, <1>10

LEMMA ConnectsSession ==
    ASSUME Session, NEW s \in Sid, NEW t \in Tcp, LoginConnects(s, t), UNCHANGED pageVars
    PROVE  Owners' /\ Connections' /\ PageFits'
  <1> USE NullApart DEF Session
  <1>1. /\ Takes(s, "login") /\ loop = Idle /\ \A r \in Sid \ {s} : events'[r] = events[r]
    BY TakesType DEF LoginConnects
  <1>2. /\ web' = web /\ emits' = emits /\ session' = session /\ active' = active
        /\ rpc' = rpc /\ spoken' = spoken /\ sock[t] = "none" /\ hasty' = hasty
        /\ loop' = [Idle EXCEPT !.at = "USERNAME", !.sid = s, !.conn = t]
    BY DEF LoginConnects, pageVars
  <1>3. /\ owner'[t] = s /\ \A x \in Tcp \ {t} : owner'[x] = owner[x] /\ account'[x] = account[x]
    BY DEF LoginConnects, Types, Ranges
  <1>4. loop'.at = "USERNAME" /\ loop'.sid = s /\ loop'.conn = t
    BY <1>2 DEF Idle
  <1>5. rpc[t] = "off" /\ owner[t] = NULL /\ \A r \in Sid : session[r] \in Tcp \cup {NULL} /\ session[r] # t
    <2>1. sock[t] = "none" /\ rpc[t] = "off" /\ owner[t] = NULL
      BY <1>2 DEF Table, Types, Ranges
    <2>2. \A r \in Sid : session[r] \in Tcp \cup {NULL}
      BY DEF Types, Ranges
    <2>3. \A r \in Sid : session[r] # t
      BY <2>1 DEF Owners
    <2>4. QED
      BY <2>1, <2>2, <2>3
  <1>6. \A r \in Sid : Served(r)' = Served(r) /\ Name(r)' = Name(r)
    BY <1>2, <1>3, <1>5 DEF Served, Name
  <1>7. /\ \A r \in Sid : Orderly(r, web[r], events'[r], emits[r], Served(r), Name(r), Idle, hasty)
        /\ s \notin hasty => /\ Served(s) = NULL /\ ~Talks(events'[s])
                             /\ ~Logs(events'[s]) /\ ~Answers(emits[s])
        /\ Logs(events[s]) /\ ~(web[s] = "closed" /\ events'[s] = <<>>) /\ web[s] # "off"
        /\ Talks(events'[s]) => Talks(events[s])
    BY <1>1, TakesTalk
  <1>8. Enters(s, loop') /\ \A r \in Sid : ~Greets(r, loop') /\ (r # s => ~Enters(r, loop'))
    BY <1>4 DEF Enters, Greets, Entering
  <1>9. ASSUME NEW r \in Sid
        PROVE  Orderly(r, web[r], events'[r], emits[r], Served(r), Name(r), loop', hasty)
    <2>1. Orderly(r, web[r], events'[r], emits[r], Served(r), Name(r), Idle, hasty)
      BY <1>7
    <2>2. CASE r = s
      BY <1>4, <1>7, <1>8, <2>1, <2>2 DEF Orderly, Calm
    <2>3. CASE r # s
      BY <1>4, <1>8, <2>1, <2>3, TalkPasses
    <2>4. QED
      BY <2>2, <2>3
  <1>10. Connections'
    BY <1>2, <1>6, <1>9 DEF Connections
  <1>11. Owners'
    <2>1. \A r \in Sid : session'[r] # NULL => owner'[session'[r]] = r /\ web'[r] # "off"
      BY <1>2, <1>3, <1>5 DEF Owners
    <2>2. \A x \in Tcp : rpc'[x] # "off" /\ owner'[x] \notin hasty' => session'[owner'[x]] = x
      BY <1>2, <1>3, <1>5 DEF Owners
    <2>3. \A r \in Sid : web'[r] = "closed" /\ events'[r] = <<>> => session'[r] \notin active'
      BY <1>1, <1>2, <1>7 DEF Owners
    <2>4. SpeaksAsShown' /\ \A m \in spoken' : m.sid \in Sid /\ m.conn \in Tcp
      BY <1>2, <1>3, <1>5 DEF Owners, SpeaksAsShown
    <2>5. QED
      BY <1>4, <2>1, <2>2, <2>3, <2>4 DEF Owners
  <1>12. ASSUME NEW r \in Sid, r = sid
         PROVE  /\ Waits(r)' <=> Waits(r)
                /\ Talks(events'[r]) => Talks(events[r])
                /\ Greets(r, loop) \/ Welcomes(emits[r]) =>
                      Greets(r, loop') \/ Welcomes(emits'[r])
    <2>1. ~Enters(r, loop) /\ ~Greets(r, loop)
      BY <1>1, IdleType DEF Enters, Greets, Entering
    <2>2. CASE r = s
      BY <1>2, <1>7, <1>8, <2>1, <2>2 DEF Waits
    <2>3. CASE r # s
      BY <1>1, <1>2, <1>8, <2>1, <2>3 DEF Waits
    <2>4. QED
      BY <2>2, <2>3
  <1>13. PageFits'
    BY <1>2, <1>6, <1>12, ScreenStays
  <1>14. QED
    BY <1>10, <1>11, <1>13

LEMMA PromptedSession ==
    ASSUME Session, LoginPrompted, UNCHANGED pageVars
    PROVE  Owners' /\ Connections' /\ PageFits'
  <1> USE NullApart DEF Session
  <1>1. /\ UNCHANGED <<web, events, emits, session, active, owner, account, sock, rpc,
                       spoken, hasty>>
        /\ loop.at \in Entering /\ loop'.at \in Entering /\ loop'.sid = loop.sid
        /\ loop'.conn = loop.conn
    BY DEF LoginPrompted, Types, LoopState, Entering, pageVars
  <1>2. \A r \in Sid : Served(r)' = Served(r) /\ Name(r)' = Name(r)
    BY <1>1, NameStays
  <1>3. \A r \in Sid : /\ Enters(r, loop') <=> Enters(r, loop)
                       /\ ~Greets(r, loop) /\ ~Greets(r, loop')
    BY <1>1 DEF Enters, Greets, Entering
  <1>4. Connections'
    <2>1. ASSUME NEW r \in Sid
          PROVE  Orderly(r, web[r], events[r], emits[r], Served(r), Name(r), loop', hasty)
      <3>1. Orderly(r, web[r], events[r], emits[r], Served(r), Name(r), loop, hasty)
        BY DEF Connections
      <3>2. QED
        BY <1>1, <1>3, <3>1, TalkPasses
    <2>2. QED
      BY <1>1, <1>2, <2>1 DEF Connections
  <1>5. Owners'
    BY <1>1 DEF Owners, SpeaksAsShown, Entering
  <1>6. PageFits'
    BY <1>1, <1>2, <1>3, ScreenStays DEF Waits
  <1>7. QED
    BY <1>4, <1>5, <1>6

LEMMA StartsSession ==
    ASSUME Session, LoginStarts, UNCHANGED pageVars
    PROVE  Owners' /\ Connections' /\ PageFits'
  <1> USE NullApart DEF Session
  <1>0. PICK s \in Sid, t \in Tcp : loop.sid = s /\ loop.conn = t
    BY DEF LoginStarts, LoginStores, Types
  <1>1. /\ s \in Sid /\ t \in Tcp /\ loop.at = "AUTH_SUCCESS" /\ loop.at \in Entering
        /\ loop'.at = "welcome" /\ loop'.sid = s /\ loop'.conn = t
    BY <1>0 DEF LoginStarts, LoginStores, Types, LoopState, Entering
  <1>2. /\ UNCHANGED <<web, events, emits, owner, account, sock, spoken, hasty>>
        /\ session'[s] = t /\ \A r \in Sid \ {s} : session'[r] = session[r]
        /\ active' = active \cup {t}
        /\ rpc'[t] = "recv" /\ \A x \in Tcp \ {t} : rpc'[x] = rpc[x]
    BY <1>0, <1>1 DEF LoginStarts, LoginStores, Types, Ranges, pageVars
  <1>3. rpc[t] = "off" /\ owner[t] = s
    BY <1>0, <1>1 DEF Table
  <1>4. \A r \in Sid : /\ Enters(r, loop) <=> r = s
                       /\ Greets(r, loop') <=> r = s
                       /\ ~Enters(r, loop') /\ ~Greets(r, loop)
    BY <1>0, <1>1 DEF Enters, Greets, Entering
  <1>5. \A r \in Sid :
           Orderly(r, web[r], events[r], emits[r], Served(r), Name(r), loop, hasty)
    BY DEF Connections
  <1>6. /\ web[s] # "off" /\ ~(web[s] = "closed" /\ events[s] = <<>>)
        /\ s \notin hasty => /\ Served(s) = NULL /\ ~Talks(events[s]) /\ ~Logs(events[s])
                             /\ ~Answers(emits[s]) /\ Mail(emits[s], NULL, Name(s))
    BY <1>0, <1>1, <1>4, <1>5 DEF Orderly, Calm
  <1>7. /\ \A r \in Sid \ {s} : Served(r)' = Served(r) /\ Name(r)' = Name(r)
        /\ Served(s)' = t
    <2>1. \A r \in Sid \ {s} : session[r] # NULL => session[r] \in Tcp \ {t}
      BY <1>3 DEF Owners, Types, Ranges
    <2>2. QED
      BY <1>1, <1>2, <2>1 DEF Served, Name
  <1>8. ASSUME NEW r \in Sid
        PROVE  Orderly(r, web[r], events[r], emits[r], Served(r)', Name(r)', loop', hasty)
    <2>1. Orderly(r, web[r], events[r], emits[r], Served(r), Name(r), loop, hasty)
      BY <1>5
    <2>2. CASE r = s
      <3>1. s \notin hasty => Calm(s, events[s], emits[s], Served(s), Name(s), loop)
        BY <1>5 DEF Orderly
      <3>2. s \notin hasty => Mail(emits[s], t, Name(s)') /\ SaidAs(events[s], Name(s)')
        BY <1>6 DEF Mail, Letter, SaidAs, Talks
      <3>3. Greets(s, loop') /\ ~Enters(s, loop') /\ t # NULL
        BY <1>1, <1>4
      <3>4. s \notin hasty => Calm(s, events[s], emits[s], t, Name(s)', loop')
        BY <1>6, <3>1, <3>2, <3>3 DEF Calm
      <3>5. Orderly(s, web[s], events[s], emits[s], t, Name(s)', loop', hasty)
        BY <1>6, <2>1, <2>2, <3>4 DEF Orderly
      <3>6. QED
        BY <1>7, <2>2, <3>5
    <2>3. CASE r # s
      <3>1. Orderly(r, web[r], events[r], emits[r], Served(r), Name(r), loop', hasty)
        BY <1>1, <1>4, <2>1, <2>3, TalkPasses
      <3>2. QED
        BY <1>7, <2>3, <3>1
    <2>4. QED
      BY <2>2, <2>3
  <1>9. Connections'
    BY <1>2, <1>8 DEF Connections
  <1>10. Owners'
    <2>1. \A r \in Sid : session'[r] # NULL => owner'[session'[r]] = r /\ web'[r] # "off"
      BY <1>2, <1>3, <1>6 DEF Owners
    <2>2. \A x \in Tcp : rpc'[x] # "off" /\ owner'[x] \notin hasty' => session'[owner'[x]] = x
      <3> TAKE x \in Tcp
      <3>1. CASE x = t
        BY <1>2, <1>3, <3>1
      <3>2. CASE x # t /\ rpc[x] # "off" /\ owner[x] \notin hasty
        <4>1. owner[x] \in Sid /\ session[owner[x]] = x
          BY <3>2 DEF Table, Owners
        <4>2. owner[x] # s
          BY <1>6, <3>2, <4>1 DEF Served
        <4>3. QED
          BY <1>2, <4>1, <4>2
      <3>3. QED
        BY <1>2, <3>1, <3>2
    <2>3. \A r \in Sid : web'[r] = "closed" /\ events'[r] = <<>> => session'[r] \notin active'
      <3> TAKE r \in Sid
      <3>1. CASE r = s
        BY <1>2, <1>6, <3>1
      <3>2. CASE r # s
        <4>1. session[r] # t
          BY <1>3, <1>1, <3>2 DEF Owners
        <4>2. QED
          BY <1>2, <3>2, <4>1 DEF Owners
      <3>3. QED
        BY <3>1, <3>2
    <2>4. SpeaksAsShown' /\ \A m \in spoken' : m.sid \in Sid /\ m.conn \in Tcp
      BY <1>2 DEF Owners, SpeaksAsShown
    <2>5. QED
      BY <1>1, <1>2, <2>1, <2>2, <2>3, <2>4 DEF Owners
  <1>11. \A r \in Sid : Waits(r)' <=> Waits(r)
    BY <1>2, <1>4 DEF Waits
  <1>12. ASSUME NEW r \in Sid, r = sid, r \notin hasty
         PROVE  /\ Talks(events'[r]) => Talks(events[r])
                /\ Served(r)' # NULL /\ screen = "login" =>
                      Greets(r, loop') \/ Welcomes(emits'[r])
                /\ Served(r)' # NULL /\ screen = "chat" => currentUsername = Name(r)'
    <2>1. Screen /\ Served(sid) = Served(r) /\ Name(sid) = Name(r)
      BY <1>12 DEF PageFits
    <2>2. CASE r = s
      <3>1. Waits(r)
        BY <1>4, <2>2 DEF Waits
      <3>2. screen = "login"
        BY <1>12, <2>1, <3>1 DEF Screen
      <3>3. QED
        BY <1>2, <1>4, <2>2, <3>2
    <2>3. CASE r # s
      <3>1. Served(r)' = Served(r) /\ Name(r)' = Name(r)
        BY <1>7, <2>3
      <3>2. ~Greets(r, loop) /\ emits'[r] = emits[r] /\ events'[r] = events[r]
        BY <1>2, <1>4
      <3>3. QED
        BY <1>12, <2>1, <3>1, <3>2 DEF Screen
    <2>4. QED
      BY <2>2, <2>3
  <1>13. PageFits'
    BY <1>2, <1>11, <1>12, ScreenKept
  <1>14. QED
    BY <1>9, <1>10, <1>13

\* The end of a login: the loop is idle again and the page has its answer e.
LEMMA AnswersSession ==
    ASSUME Session, NEW s \in Sid, NEW e \in Emission, e.kind \in Answer, Emit(s, e),
           Enters(s, loop) \/ Greets(s, loop),
           s \notin hasty => /\ Letter(e, Served(s), Name(s))
                             /\ Served(s) # NULL => e.kind = "welcome"
                             /\ Served(s)' = Served(s) /\ Name(s)' = Name(s),
           \A r \in Sid \ {s} : Served(r)' = Served(r) /\ Name(r)' = Name(r),
           loop' = Idle, UNCHANGED pageVars, UNCHANGED <<web, events>>
    PROVE  Connections' /\ PageFits'
  <1> USE NullApart DEF Session
  <1>1. \A r \in Sid : ~Enters(r, Idle) /\ ~Greets(r, Idle)
    BY IdleType DEF Enters, Greets, Entering
  <1>2. /\ loop.sid = s /\ \A r \in Sid \ {s} : ~Enters(r, loop) /\ ~Greets(r, loop)
    BY DEF Enters, Greets
  <1>3. \A r \in Sid :
           Orderly(r, web[r], events[r], emits[r], Served(r), Name(r), loop, hasty)
    BY DEF Connections
  <1>4. web[s] # "off" /\ (s \notin hasty => ~Logs(events[s]) /\ ~Answers(emits[s]))
    <2>1. Orderly(s, web[s], events[s], emits[s], Served(s), Name(s), loop, hasty)
      BY <1>3
    <2>2. QED
      BY <1>2, <2>1 DEF Orderly, Calm
  <1>5. ASSUME NEW r \in Sid
        PROVE  /\ Orderly(r, web[r], events[r], emits'[r], Served(r)', Name(r)', Idle, hasty)
               /\ r # s => emits'[r] = emits[r]
               /\ r = s /\ web[r] = "on" =>
                     /\ Answers(emits'[r])
                     /\ Welcomes(emits'[r]) <=> Welcomes(emits[r]) \/ e.kind = "welcome"
    <2>1. Orderly(r, web[r], events[r], emits[r], Served(r), Name(r), Idle, hasty)
      <3>1. Orderly(r, web[r], events[r], emits[r], Served(r), Name(r), loop, hasty)
        BY <1>3
      <3>2. Idle.sid # r
        BY IdleType
      <3>3. QED
        BY <1>1, <3>1, <3>2, TalkPasses
    <2>2. /\ Orderly(r, web[r], events[r], emits'[r], Served(r), Name(r), Idle, hasty)
          /\ r # s => emits'[r] = emits[r]
          /\ r = s /\ web[r] = "on" =>
                /\ Answers(emits'[r]) <=> Answers(emits[r]) \/ e.kind \in Answer
                /\ Welcomes(emits'[r]) <=> Welcomes(emits[r]) \/ e.kind = "welcome"
      BY <1>1, <1>4, <2>1, TalkEmitted
    <2>3. Orderly(r, web[r], events[r], emits'[r], Served(r)', Name(r)', Idle, hasty)
      <3>1. CASE r = s /\ s \in hasty
        BY <1>4, <2>2, <3>1, TalkHasty
      <3>2. CASE r # s \/ s \notin hasty
        BY <2>2, <3>2
      <3>3. QED
        BY <3>1, <3>2
    <2>4. QED
      BY <2>2, <2>3
  <1>6. Connections'
    BY <1>5 DEF Connections, pageVars
  <1>7. ASSUME NEW r \in Sid, r = sid PROVE Waits(r)' <=> Waits(r)
    <2>1. web[r] = "on"
      BY <1>7 DEF PageFits
    <2>2. CASE r = s
      BY <1>5, <2>1, <2>2 DEF Waits
    <2>3. CASE r # s
      BY <1>1, <1>2, <1>5, <2>3 DEF Waits
    <2>4. QED
      BY <2>2, <2>3
  <1>8. ASSUME NEW r \in Sid, r = sid, r \notin hasty
        PROVE  /\ Talks(events'[r]) => Talks(events[r])
               /\ Served(r)' # NULL /\ screen = "login" =>
                     Greets(r, loop') \/ Welcomes(emits'[r])
               /\ Served(r)' # NULL /\ screen = "chat" => currentUsername = Name(r)'
    <2>1. Screen /\ web[r] = "on" /\ Served(sid) = Served(r) /\ Name(sid) = Name(r)
      BY <1>8 DEF PageFits
    <2>2. CASE r = s
      <3>1. Waits(r)
        BY <2>2 DEF Waits
      <3>2. screen = "login"
        BY <1>8, <2>1, <3>1 DEF Screen
      <3>3. QED
        BY <1>5, <1>8, <2>1, <2>2, <3>2
    <2>3. CASE r # s
      <3>1. /\ ~Enters(r, loop) /\ ~Greets(r, loop) /\ emits'[r] = emits[r]
            /\ Served(r)' = Served(r) /\ Name(r)' = Name(r)
        BY <1>2, <1>5, <2>3
      <3>2. QED
        BY <1>8, <2>1, <3>1 DEF Screen
    <2>4. QED
      BY <2>2, <2>3
  <1>9. PageFits'
    BY <1>7, <1>8, ScreenKept
  <1>10. QED
    BY <1>6, <1>9

LEMMA WelcomesSession ==
    ASSUME Session, LoginWelcomes, UNCHANGED pageVars
    PROVE  Owners' /\ Connections' /\ PageFits'
  <1> USE NullApart DEF Session
  <1>1. PICK s \in Sid, t \in Tcp : loop.sid = s /\ loop.conn = t
    BY DEF LoginWelcomes, Types
  <1> DEFINE e == [Notice("welcome") EXCEPT !.user = account[t]]
  <1>2. account[t] \in User \cup {NULL}
    BY DEF Types, Ranges
  <1>3. e \in Emission /\ e.kind = "welcome" /\ e.user = account[t]
    BY <1>2, WelcomeType
  <1>4. Emit(s, e)
    BY <1>1 DEF LoginWelcomes
  <1> HIDE DEF e
  <1>5. Served(s) = t /\ Name(s) = account[t]
    BY <1>1 DEF LoginWelcomes, Owners, Served, Name
  <1>6. Letter(e, Served(s), Name(s)) /\ e.kind \in Answer
    BY <1>3, <1>5 DEF Letter, Answer
  <1>7. /\ loop' = Idle /\ Greets(s, loop)
        /\ UNCHANGED <<web, events, session, active, owner, account, sock, rpc, spoken, hasty>>
    BY <1>1 DEF LoginWelcomes, NoTcp, Greets, pageVars
  <1>8. \A r \in Sid : Served(r)' = Served(r) /\ Name(r)' = Name(r)
    BY <1>7, NameStays
  <1>9. Connections' /\ PageFits'
    BY <1>3, <1>4, <1>6, <1>7, <1>8, AnswersSession
  <1>10. Owners'
    BY <1>7, IdleType DEF Owners, SpeaksAsShown
  <1>11. QED
    BY <1>9, <1>10

LEMMA FailsSession ==
    ASSUME Session, LoginFails, UNCHANGED pageVars
    PROVE  Owners' /\ Connections' /\ PageFits'
  <1> USE NullApart DEF Session
  <1>1. PICK s \in Sid : loop.sid = s
    BY DEF LoginFails, Types
  <1> DEFINE e == Notice("refused")
  <1>2. e \in Emission /\ e.kind = "refused"
    BY NoticeType
  <1>3. Emit(s, e)
    BY <1>1 DEF LoginFails
  <1> HIDE DEF e
  <1>4. /\ loop' = Idle /\ Enters(s, loop)
        /\ UNCHANGED <<web, events, session, active, owner, account, rpc, spoken, hasty>>
    BY <1>1 DEF LoginFails, Enters, Entering, pageVars
  <1>5. s \notin hasty => Served(s) = NULL
    BY <1>4 DEF Connections, Orderly, Calm
  <1>6. Letter(e, Served(s), Name(s)) /\ e.kind \in Answer
    BY <1>2 DEF Letter, Answer
  <1>7. \A r \in Sid : Served(r)' = Served(r) /\ Name(r)' = Name(r)
    BY <1>4, NameStays
  <1>8. Connections' /\ PageFits'
    BY <1>2, <1>3, <1>4, <1>5, <1>6, <1>7, AnswersSession
  <1>9. Owners'
    BY <1>4, IdleType DEF Owners, SpeaksAsShown
  <1>10. QED
    BY <1>8, <1>9

\* A thread that cannot be started leaves a session that nothing serves.
LEMMA StartFailsSession ==
    ASSUME Session, LoginStartFails, UNCHANGED pageVars
    PROVE  Owners' /\ Connections' /\ PageFits'
  <1> USE NullApart DEF Session
  <1>1. PICK s \in Sid, t \in Tcp : loop.sid = s /\ loop.conn = t
    BY DEF LoginStartFails, LoginStores, Types
  <1> DEFINE e == Notice("refused")
  <1>2. e \in Emission /\ e.kind = "refused"
    BY NoticeType
  <1>3. Emit(s, e)
    BY <1>1 DEF LoginStartFails
  <1> HIDE DEF e
  <1>4. /\ loop' = Idle /\ Enters(s, loop) /\ loop.at \in Entering
        /\ UNCHANGED <<web, events, owner, account, rpc, spoken, hasty>>
        /\ session'[s] = t /\ \A r \in Sid \ {s} : session'[r] = session[r]
        /\ active' = active \cup {t}
    BY <1>1 DEF LoginStartFails, LoginStores, Enters, Entering, Types, Ranges, pageVars
  <1>5. rpc[t] = "off" /\ owner[t] = s
    BY <1>1, <1>4 DEF Table
  <1>6. /\ web[s] # "off" /\ ~(web[s] = "closed" /\ events[s] = <<>>)
        /\ s \notin hasty => Served(s) = NULL
    <2>1. Orderly(s, web[s], events[s], emits[s], Served(s), Name(s), loop, hasty)
      BY DEF Connections
    <2>2. QED
      BY <1>1, <1>4, <2>1 DEF Orderly, Calm
  <1>7. Served(s)' = NULL /\ Name(s)' = NULL
    BY <1>4, <1>5 DEF Served, Name
  <1>8. \A r \in Sid \ {s} : Served(r)' = Served(r) /\ Name(r)' = Name(r)
    BY <1>4 DEF Served, Name
  <1>9. e.kind \in Answer /\ (s \notin hasty => /\ Letter(e, Served(s), Name(s))
                                                /\ Served(s)' = Served(s)
                                                /\ Name(s)' = Name(s))
    BY <1>2, <1>6, <1>7 DEF Letter, Answer, Name
  <1>10. Connections' /\ PageFits'
    BY <1>2, <1>3, <1>4, <1>6, <1>8, <1>9, AnswersSession
  <1>11. Owners'
    <2>1. \A r \in Sid : session'[r] # NULL => owner'[session'[r]] = r /\ web'[r] # "off"
      BY <1>4, <1>5, <1>6 DEF Owners
    <2>2. \A x \in Tcp : rpc'[x] # "off" /\ owner'[x] \notin hasty' => session'[owner'[x]] = x
      <3> TAKE x \in Tcp
      <3>1. CASE rpc[x] # "off" /\ owner[x] \notin hasty
        <4>1. owner[x] \in Sid /\ session[owner[x]] = x
          BY <3>1 DEF Table, Owners
        <4>2. owner[x] # s
          BY <1>6, <3>1, <4>1 DEF Served
        <4>3. QED
          BY <1>4, <4>1, <4>2
      <3>2. QED
        BY <1>4, <3>1
    <2>3. \A r \in Sid : web'[r] = "closed" /\ events'[r] = <<>> => session'[r] \notin active'
      <3> TAKE r \in Sid
      <3>1. CASE r = s
        BY <1>4, <1>6, <3>1
      <3>2. CASE r # s
        <4>1. session[r] # t
          BY <1>5, <3>2 DEF Owners
        <4>2. QED
          BY <1>4, <3>2, <4>1 DEF Owners
      <3>3. QED
        BY <3>1, <3>2
    <2>4. SpeaksAsShown' /\ \A m \in spoken' : m.sid \in Sid /\ m.conn \in Tcp
      BY <1>4 DEF Owners, SpeaksAsShown
    <2>5. loop'.at \notin {"welcome", "write"}
      BY <1>4, IdleType
    <2>6. QED
      BY <2>1, <2>2, <2>3, <2>4, <2>5 DEF Owners
  <1>12. QED
    BY <1>10, <1>11

\* A step that emits at most something else than an answer, and after which the
\* events and the sessions are as they were.
LEMMA EmitsSession ==
    ASSUME Session, UNCHANGED pageVars,
           emits' = emits \/ \E s \in Sid, e \in Emission :
               /\ Emit(s, e) /\ e.kind \notin Answer
               /\ s \notin hasty => Letter(e, Served(s), Name(s)),
           \A s \in Sid : /\ Enters(s, loop') <=> Enters(s, loop)
                          /\ Greets(s, loop') <=> Greets(s, loop)
                          /\ loop'.sid = s => loop.sid = s,
           \A t \in Tcp : rpc'[t] = "off" <=> rpc[t] = "off",
           UNCHANGED <<web, events, session, account>>
    PROVE  Connections' /\ PageFits'
  <1> USE NullApart DEF Session
  <1>1. hasty' = hasty /\ \A r \in Sid : Served(r)' = Served(r) /\ Name(r)' = Name(r)
    BY NameStays DEF pageVars
  <1>2. ASSUME NEW r \in Sid
        PROVE  /\ Orderly(r, web[r], events[r], emits'[r], Served(r), Name(r), loop', hasty)
               /\ web[r] = "on" => /\ Answers(emits'[r]) <=> Answers(emits[r])
                                   /\ Welcomes(emits'[r]) <=> Welcomes(emits[r])
    <2>1. Orderly(r, web[r], events[r], emits[r], Served(r), Name(r), loop', hasty)
      <3>1. Orderly(r, web[r], events[r], emits[r], Served(r), Name(r), loop, hasty)
        BY DEF Connections
      <3>2. QED
        BY <3>1, TalkPasses
    <2>2. CASE emits' = emits
      BY <2>1, <2>2
    <2>3. ASSUME NEW s \in Sid, NEW e \in Emission, Emit(s, e), e.kind \notin Answer,
                 s \notin hasty => Letter(e, Served(s), Name(s))
          PROVE  /\ Orderly(r, web[r], events[r], emits'[r], Served(r), Name(r), loop', hasty)
                 /\ web[r] = "on" => /\ Answers(emits'[r]) <=> Answers(emits[r])
                                     /\ Welcomes(emits'[r]) <=> Welcomes(emits[r])
      <3>1. /\ Orderly(r, web[r], events[r], emits'[r], Served(r), Name(r), loop', hasty)
            /\ r # s => emits'[r] = emits[r]
            /\ r = s /\ web[r] = "on" =>
                  /\ Answers(emits'[r]) <=> Answers(emits[r]) \/ e.kind \in Answer
                  /\ Welcomes(emits'[r]) <=> Welcomes(emits[r]) \/ e.kind = "welcome"
        BY <2>1, <2>3, TalkEmitted
      <3>2. e.kind # "welcome"
        BY <2>3 DEF Answer
      <3>3. QED
        BY <2>3, <3>1, <3>2
    <2>4. QED
      BY <2>2, <2>3
  <1>3. Connections'
    BY <1>1, <1>2 DEF Connections
  <1>4. ASSUME NEW r \in Sid, r = sid
        PROVE  /\ Waits(r)' <=> Waits(r)
               /\ Greets(r, loop) \/ Welcomes(emits[r]) =>
                     Greets(r, loop') \/ Welcomes(emits'[r])
    <2>1. web[r] = "on"
      BY <1>4 DEF PageFits
    <2>2. QED
      BY <1>2, <2>1 DEF Waits
  <1>5. PageFits'
    BY <1>1, <1>4, ScreenStays
  <1>6. QED
    BY <1>3, <1>5

LEMMA WriteSession ==
    ASSUME Session, Write, UNCHANGED pageVars
    PROVE  Owners' /\ Connections' /\ PageFits'
  <1> USE NullApart DEF Session
  <1>1. /\ loop.at = "write" /\ loop' = Idle /\ loop.sid \in Sid /\ loop.conn \in Tcp
        /\ UNCHANGED <<web, events, session, active, owner, account, sock, rpc, hasty>>
    BY DEF Write, Types, pageVars
  <1>2. emits' = emits \/ \E s \in Sid, e \in Emission :
               /\ Emit(s, e) /\ e.kind \notin Answer
               /\ s \notin hasty => Letter(e, Served(s), Name(s))
    <2>1. /\ Notice("error") \in Emission /\ Notice("error").kind \notin Answer
          /\ Letter(Notice("error"), Served(loop.sid), Name(loop.sid))
      BY NoticeType DEF Answer, Letter
    <2>2. emits' = emits \/ Emit(loop.sid, Notice("error"))
      BY DEF Write
    <2>3. QED
      BY <1>1, <2>1, <2>2
  <1>3. \A s \in Sid : /\ Enters(s, loop') <=> Enters(s, loop)
                       /\ Greets(s, loop') <=> Greets(s, loop)
                       /\ loop'.sid = s => loop.sid = s
    BY <1>1, IdleType DEF Enters, Greets, Entering
  <1>4. Connections' /\ PageFits'
    BY <1>1, <1>2, <1>3, EmitsSession
  <1>5. SpeaksAsShown' /\ \A m \in spoken' : m.sid \in Sid /\ m.conn \in Tcp
    <2> DEFINE n == [sid |-> loop.sid, as |-> loop.as, conn |-> loop.conn]
    <2>1. \/ spoken' = spoken
          \/ /\ loop.op # "list" /\ sock[loop.conn] = "open"
             /\ spoken' = spoken \cup {n}
      BY DEF Write, Spoke
    <2>2. n.sid = loop.sid /\ n.as = loop.as /\ n.conn = loop.conn
      OBVIOUS
    <2> HIDE DEF n
    <2>3. loop.op # "list" /\ sock[loop.conn] = "open" =>
             /\ owner[loop.conn] = loop.sid
             /\ loop.sid \notin hasty => loop.as = account[loop.conn]
      BY <1>1 DEF Owners
    <2>4. SpeaksAsShown /\ \A m \in spoken : m.sid \in Sid /\ m.conn \in Tcp
      BY DEF Owners
    <2>5. QED
      BY <1>1, <2>1, <2>2, <2>3, <2>4 DEF SpeaksAsShown
  <1>6. Owners'
    BY <1>1, <1>5, IdleType DEF Owners
  <1>7. QED
    BY <1>4, <1>6

\* What LookUp and Disconnect share: an event is taken that is no login.
LEMMA TakenSession ==
    ASSUME Session, NEW s \in Sid, NEW op \in Ops \ {"login"}, Takes(s, op),
           UNCHANGED pageVars, UNCHANGED <<web, session, account, rpc>>,
           emits' = emits \/ \E e \in Emission :
               Emit(s, e) /\ e.kind \notin Answer /\ Letter(e, Served(s), Name(s)),
           loop' = Idle \/ (loop'.at = "write" /\ loop'.sid = s /\ op # "disconnect")
    PROVE  Connections' /\ PageFits'
  <1> USE NullApart DEF Session
  <1>1. loop = Idle /\ \A r \in Sid \ {s} : events'[r] = events[r]
    BY TakesType
  <1>2. \A r \in Sid : /\ ~Enters(r, loop) /\ ~Greets(r, loop)
                       /\ ~Enters(r, loop') /\ ~Greets(r, loop')
    BY <1>1, IdleType DEF Enters, Greets, Entering
  <1>3. hasty' = hasty /\ \A r \in Sid : Served(r)' = Served(r) /\ Name(r)' = Name(r)
    BY NameStays DEF pageVars
  <1>4. /\ \A r \in Sid : Orderly(r, web[r], events'[r], emits[r], Served(r), Name(r), Idle, hasty)
        /\ op # "disconnect" => ~(web[s] = "closed" /\ events'[s] = <<>>)
        /\ Logs(events'[s]) <=> Logs(events[s])
        /\ web[s] # "off" /\ (Talks(events'[s]) => Talks(events[s]))
    BY TakesTalk
  <1>5. ASSUME NEW r \in Sid
        PROVE  Orderly(r, web[r], events'[r], emits[r], Served(r), Name(r), loop', hasty)
    <2>1. Orderly(r, web[r], events'[r], emits[r], Served(r), Name(r), Idle, hasty)
      BY <1>4
    <2>2. CASE loop' = Idle
      BY <2>1, <2>2
    <2>3. CASE loop'.at = "write" /\ loop'.sid = s /\ op # "disconnect"
      <3>1. CASE r = s
        BY <1>2, <1>4, <2>1, <2>3, <3>1 DEF Orderly, Calm
      <3>2. CASE r # s
        BY <1>2, <2>1, <2>3, <3>2 DEF Orderly, Calm
      <3>3. QED
        BY <3>1, <3>2
    <2>4. QED
      BY <2>2, <2>3
  <1>6. ASSUME NEW r \in Sid
        PROVE  /\ Orderly(r, web[r], events'[r], emits'[r], Served(r), Name(r), loop', hasty)
               /\ web[r] = "on" => /\ Answers(emits'[r]) <=> Answers(emits[r])
                                   /\ Welcomes(emits'[r]) <=> Welcomes(emits[r])
    <2>1. Orderly(r, web[r], events'[r], emits[r], Served(r), Name(r), loop', hasty)
      BY <1>5
    <2>2. CASE emits' = emits
      BY <2>1, <2>2
    <2>3. ASSUME NEW e \in Emission, Emit(s, e), e.kind \notin Answer,
                 Letter(e, Served(s), Name(s))
          PROVE  /\ Orderly(r, web[r], events'[r], emits'[r], Served(r), Name(r), loop', hasty)
                 /\ web[r] = "on" => /\ Answers(emits'[r]) <=> Answers(emits[r])
                                     /\ Welcomes(emits'[r]) <=> Welcomes(emits[r])
      <3>1. /\ Orderly(r, web[r], events'[r], emits'[r], Served(r), Name(r), loop', hasty)
            /\ r # s => emits'[r] = emits[r]
            /\ r = s /\ web[r] = "on" =>
                  /\ Answers(emits'[r]) <=> Answers(emits[r]) \/ e.kind \in Answer
                  /\ Welcomes(emits'[r]) <=> Welcomes(emits[r]) \/ e.kind = "welcome"
        BY <2>1, <2>3, TalkEmitted
      <3>2. e.kind # "welcome"
        BY <2>3 DEF Answer
      <3>3. QED
        BY <2>3, <3>1, <3>2
    <2>4. QED
      BY <2>2, <2>3
  <1>7. Connections'
    BY <1>3, <1>6 DEF Connections
  <1>8. ASSUME NEW r \in Sid, r = sid
        PROVE  /\ Waits(r)' <=> Waits(r)
               /\ Talks(events'[r]) => Talks(events[r])
               /\ Greets(r, loop) \/ Welcomes(emits[r]) =>
                     Greets(r, loop') \/ Welcomes(emits'[r])
    <2>1. web[r] = "on"
      BY <1>8 DEF PageFits
    <2>2. /\ Logs(events'[r]) <=> Logs(events[r])
          /\ Talks(events'[r]) => Talks(events[r])
      BY <1>1, <1>4
    <2>3. QED
      BY <1>2, <1>6, <2>1, <2>2 DEF Waits
  <1>9. PageFits'
    BY <1>3, <1>8, ScreenStays
  <1>10. QED
    BY <1>7, <1>9

LEMMA LookUpSession ==
    ASSUME Session, NEW s \in Sid, NEW op \in Ops, LookUp(s, op), UNCHANGED pageVars
    PROVE  Owners' /\ Connections' /\ PageFits'
  <1> USE NullApart DEF Session
  <1>1. /\ op \in {"send", "private", "list"} /\ Takes(s, op)
        /\ UNCHANGED <<web, session, active, owner, account, sock, rpc, spoken, hasty>>
    BY DEF LookUp, NoTcp, pageVars
  <1>2. loop = Idle /\ \A r \in Sid \ {s} : events'[r] = events[r]
    BY <1>1, TakesType
  <1>3. /\ s \notin hasty /\ op \in {"send", "private"} /\ Served(s) # NULL
           => Head(events[s]).as = Name(s)
        /\ ~(web[s] = "closed" /\ events'[s] = <<>>)
    BY <1>1, TakesTalk
  <1>4. \/ /\ session[s] \in active /\ emits' = emits
           /\ loop' = [at |-> "write", sid |-> s, conn |-> session[s], op |-> op,
                       as |-> Head(events[s]).as]
        \/ /\ Emit(s, Notice("error")) /\ loop' = loop
    BY DEF LookUp
  <1>5. /\ Notice("error") \in Emission /\ Notice("error").kind \notin Answer
        /\ Letter(Notice("error"), Served(s), Name(s))
    BY NoticeType DEF Answer, Letter
  <1>6. Connections' /\ PageFits'
    <2>1. op \in Ops \ {"login"} /\ op # "disconnect"
      BY <1>1
    <2>2. loop' = Idle \/ (loop'.at = "write" /\ loop'.sid = s /\ op # "disconnect")
      BY <1>2, <1>4, <2>1
    <2>3. emits' = emits \/ \E e \in Emission :
               Emit(s, e) /\ e.kind \notin Answer /\ Letter(e, Served(s), Name(s))
      BY <1>4, <1>5
    <2>4. QED
      BY <1>1, <2>1, <2>2, <2>3, TakenSession
  <1>7. \A r \in Sid : web'[r] = "closed" /\ events'[r] = <<>> => session'[r] \notin active'
    BY <1>1, <1>2, <1>3 DEF Owners
  <1>8. loop'.at = "write" =>
           /\ owner'[loop'.conn] = loop'.sid
           /\ rpc'[loop'.conn] = "off" => sock'[loop'.conn] = "closed"
           /\ rpc'[loop'.conn] # "off" /\ loop'.sid \notin hasty' /\ loop'.op # "list"
              => loop'.as = account'[loop'.conn]
    <2>1. CASE /\ session[s] \in active
               /\ loop' = [at |-> "write", sid |-> s, conn |-> session[s], op |-> op,
                           as |-> Head(events[s]).as]
      <3>1. session[s] \in Tcp /\ session[s] # NULL /\ owner[session[s]] = s
        BY <2>1 DEF Types, Ranges, Owners
      <3>2. rpc[session[s]] = "off" => sock[session[s]] = "closed"
        BY <2>1, <3>1 DEF Table
      <3>3. rpc[session[s]] # "off" =>
               Served(s) # NULL /\ Name(s) = account[session[s]]
        BY <3>1 DEF Served, Name
      <3>4. /\ loop'.conn = session[s] /\ loop'.sid = s /\ loop'.op = op
            /\ loop'.as = Head(events[s]).as
        BY <2>1
      <3>5. QED
        BY <1>1, <1>3, <3>1, <3>2, <3>3, <3>4
    <2>2. CASE loop' = loop
      BY <1>2, <2>2, IdleType
    <2>3. QED
      BY <1>4, <2>1, <2>2
  <1>9. loop'.at # "welcome"
    BY <1>2, <1>4, IdleType
  <1>10. Owners'
    BY <1>1, <1>7, <1>8, <1>9 DEF Owners, SpeaksAsShown
  <1>11. QED
    BY <1>6, <1>10

LEMMA DisconnectSession ==
    ASSUME Session, NEW s \in Sid, Disconnect(s), UNCHANGED pageVars
    PROVE  Owners' /\ Connections' /\ PageFits'
  <1> USE NullApart DEF Session
  <1>1. /\ Takes(s, "disconnect") /\ Drop(session[s])
        /\ UNCHANGED <<web, emits, loop, session, owner, account, rpc, spoken, hasty>>
    BY DEF Disconnect, pageVars
  <1>2. loop = Idle /\ \A r \in Sid \ {s} : events'[r] = events[r]
    BY <1>1, TakesType
  <1>3. Connections' /\ PageFits'
    BY <1>1, <1>2, TakenSession DEF Ops
  <1>4. session[s] \notin active' /\ active' \subseteq active
    BY <1>1 DEF Drop
  <1>5. \A r \in Sid : web'[r] = "closed" /\ events'[r] = <<>> => session'[r] \notin active'
    BY <1>1, <1>2, <1>4 DEF Owners
  <1>6. Owners'
    BY <1>1, <1>2, <1>5, IdleType DEF Owners, SpeaksAsShown
  <1>7. QED
    BY <1>3, <1>6

LEMMA ReceiverSession ==
    ASSUME Session, NEW t \in Tcp, ReceiverStep(t)
    PROVE  Owners' /\ Connections' /\ PageFits'
  <1> USE NullApart DEF Session
  <1>1. UNCHANGED pageVars /\ rpc[t] # "off"
    BY DEF ReceiverStep, Receiver, Forward, ReceiverEnds, Cleanup
  <1>2. owner[t] \in Sid /\ (owner[t] \notin hasty => Served(owner[t]) = t)
    BY <1>1 DEF Table, Owners, Served
  <1>3. UNCHANGED <<web, events, loop, session, owner, account, spoken, hasty>>
    BY DEF ReceiverStep, Receiver, Forward, ReceiverEnds, Cleanup, socketVars, pageVars
  <1>4. /\ rpc'[t] # "off" /\ \A x \in Tcp \ {t} : rpc'[x] = rpc[x]
        /\ active' \subseteq active
        /\ \A x \in Tcp : sock[x] = "closed" => sock'[x] = "closed"
    BY <1>1 DEF ReceiverStep, Receiver, Forward, ReceiverEnds, Cleanup, Drop, Types, Ranges
  <1>5. Owners'
    <2>1. \A x \in Tcp : rpc'[x] # "off" <=> rpc[x] # "off"
      BY <1>1, <1>4
    <2>2. loop.at \in {"welcome", "write"} => loop.conn \in Tcp
      BY DEF Types
    <2>3. \A x \in Tcp : rpc'[x] # "off" /\ owner'[x] \notin hasty' => session'[owner'[x]] = x
      BY <1>3, <2>1 DEF Owners
    <2>4. loop'.at = "write" =>
             /\ owner'[loop'.conn] = loop'.sid
             /\ rpc'[loop'.conn] = "off" => sock'[loop'.conn] = "closed"
             /\ rpc'[loop'.conn] # "off" /\ loop'.sid \notin hasty' /\ loop'.op # "list"
                => loop'.as = account'[loop'.conn]
      BY <1>3, <1>4, <2>1, <2>2 DEF Owners
    <2>5. \A s \in Sid : web'[s] = "closed" /\ events'[s] = <<>> => session'[s] \notin active'
      BY <1>3, <1>4 DEF Owners
    <2>6. loop'.at = "welcome" => session'[loop'.sid] = loop'.conn /\ rpc'[loop'.conn] # "off"
      BY <1>3, <2>1, <2>2 DEF Owners
    <2>7. /\ \A s \in Sid : session'[s] # NULL => owner'[session'[s]] = s /\ web'[s] # "off"
          /\ SpeaksAsShown' /\ \A m \in spoken' : m.sid \in Sid /\ m.conn \in Tcp
      BY <1>3 DEF Owners, SpeaksAsShown
    <2>8. QED
      BY <2>3, <2>4, <2>5, <2>6, <2>7 DEF Owners
  <1>6. emits' = emits \/ \E s \in Sid, e \in Emission :
               /\ Emit(s, e) /\ e.kind \notin Answer
               /\ s \notin hasty => Letter(e, Served(s), Name(s))
    <2>1. CASE Forward(t)
      <3>1. PICK k \in DOMAIN rx[t] :
               Emit(owner[t], IF rx[t][1] = "list" THEN Notice("users")
                              ELSE [Notice("chat") EXCEPT !.from = t,
                                                          !.parts = SubSeq(rx[t], 1, k)])
        BY <2>1 DEF Forward
      <3>2. rx[t] \in Seq(Item)
        BY DEF Types, Ranges
      <3>3. SubSeq(rx[t], 1, k) \in Seq(Item)
        BY <3>1, <3>2
      <3>4. CASE rx[t][1] = "list"
        <4>1. /\ Notice("users") \in Emission /\ Notice("users").kind \notin Answer
              /\ Letter(Notice("users"), Served(owner[t]), Name(owner[t]))
          BY NoticeType DEF Answer, Letter
        <4>2. Emit(owner[t], Notice("users"))
          BY <3>1, <3>4
        <4>3. QED
          BY <1>2, <4>1, <4>2
      <3>5. CASE rx[t][1] # "list"
        <4> DEFINE e == [Notice("chat") EXCEPT !.from = t, !.parts = SubSeq(rx[t], 1, k)]
        <4>1. e \in Emission /\ e.kind = "chat" /\ e.from = t
          BY <3>3, ChatType, ZenonT(30)
        <4>2. Emit(owner[t], e)
          BY <3>1, <3>5
        <4> HIDE DEF e
        <4>3. /\ e.kind \notin Answer
              /\ owner[t] \notin hasty => Letter(e, Served(owner[t]), Name(owner[t]))
          BY <1>2, <4>1 DEF Answer, Letter
        <4>4. QED
          BY <1>2, <4>1, <4>2, <4>3
      <3>6. QED
        BY <3>4, <3>5
    <2>2. CASE ReceiverEnds(t)
      BY <2>2 DEF ReceiverEnds, socketVars
    <2>3. CASE Cleanup(t)
      <3>1. /\ Notice("lost") \in Emission /\ Notice("lost").kind \notin Answer
            /\ Letter(Notice("lost"), Served(owner[t]), Name(owner[t]))
        BY NoticeType DEF Answer, Letter
      <3>2. emits' = emits \/ Emit(owner[t], Notice("lost"))
        BY <2>3 DEF Cleanup
      <3>3. QED
        BY <1>2, <3>1, <3>2
    <2>4. QED
      BY <2>1, <2>2, <2>3 DEF ReceiverStep, Receiver
  <1>7. Connections' /\ PageFits'
    BY <1>1, <1>3, <1>4, <1>6, EmitsSession
  <1>8. QED
    BY <1>5, <1>7

\* A step that leaves all of this alone.
LEMMA RestSession ==
    ASSUME Session, UNCHANGED <<socketVars, pageVars, loop, session, active, owner,
                                account, sock, rpc, spoken>>
    PROVE  Owners' /\ Connections' /\ PageFits'
  <1> USE DEF Session
  <1>1. UNCHANGED <<web, events, emits, hasty>> /\ UNCHANGED pageVars
    BY DEF socketVars, pageVars
  <1>2. Connections' /\ PageFits'
    BY <1>1, EmitsSession
  <1>3. Owners'
    BY <1>1 DEF Owners, SpeaksAsShown
  <1>4. QED
    BY <1>2, <1>3

\* A letter to s tells of chat only what came over a connection made for s.
Own(e, s) == e.kind = "chat" => e.from \in Tcp /\ owner[e.from] = s

LEMMA PostStep == ASSUME Session, [Next]_vars PROVE Post'
  <1> USE NullApart DEF Session
  <1>1. emits \in [Sid -> Seq(Emission)] /\ sid \in Sid \cup {NULL}
    BY DEF Types, Ranges
  <1>2. \A t \in Tcp : owner[t] # NULL => owner'[t] = owner[t]
    <2>1. owner' = owner \/ \E s \in Sid, t \in Tcp : LoginConnects(s, t)
      BY ServerTypes DEF Next, Quiet, PageStep, LoopStep, EventLoop, ReceiverStep, Receiver,
         Forward, ReceiverEnds, Cleanup, LoginRefused, LookUp, Disconnect, LoginPrompted,
         LoginStarts, LoginStartFails, LoginWelcomes, LoginFails, Write, NoTcp, SrvOnly,
         vars, backendVars
    <2>2. ASSUME NEW s \in Sid, NEW t \in Tcp, LoginConnects(s, t)
          PROVE  \A x \in Tcp : owner[x] # NULL => owner'[x] = owner[x]
      BY <2>2 DEF LoginConnects, Table, Types, Ranges
    <2>3. QED
      BY <2>1, <2>2
  <1>3. ASSUME NEW s \in Sid,
               \A i \in 1 .. Len(emits'[s]) :
                  Own(emits'[s][i], s) \/ \E j \in 1 .. Len(emits[s]) : emits'[s][i] = emits[s][j]
        PROVE  \A i \in 1 .. Len(emits'[s]) :
                  emits'[s][i].kind = "chat" =>
                     emits'[s][i].from \in Tcp /\ owner'[emits'[s][i].from] = s
    BY <1>2, <1>3 DEF Post, Own
  <1>4. CASE emits' = emits
    BY <1>3, <1>4 DEF Post
  <1>5. ASSUME NEW kind, Hears(kind) PROVE Post'
    <2>1. /\ sid \in Sid /\ emits[sid] \in Seq(Emission) /\ emits[sid] # <<>>
          /\ emits'[sid] = Tail(emits[sid])
          /\ \A s \in Sid \ {sid} : emits'[s] = emits[s]
      BY <1>5, PageHears
    <2>2. /\ Len(emits'[sid]) \in Nat /\ Len(emits[sid]) = Len(emits'[sid]) + 1
          /\ \A i \in 1 .. Len(emits'[sid]) : emits'[sid][i] = emits[sid][i + 1]
      BY <2>1
    <2>3. \A i \in 1 .. Len(emits'[sid]) : i + 1 \in 1 .. Len(emits[sid])
      BY <2>2
    <2>4. ASSUME NEW s \in Sid, NEW i \in 1 .. Len(emits'[s])
          PROVE  \E j \in 1 .. Len(emits[s]) : emits'[s][i] = emits[s][j]
      <3>1. CASE s = sid
        BY <2>2, <2>3, <2>4, <3>1
      <3>2. CASE s # sid
        BY <2>1, <2>4, <3>2
      <3>3. QED
        BY <3>1, <3>2
    <2>5. QED
      BY <1>3, <2>4 DEF Post
  <1>6. ASSUME sid \in Sid, NEW k, Hangup(sid, k) PROVE Post'
    <2>1. emits'[sid] = <<>> /\ \A s \in Sid \ {sid} : emits'[s] = emits[s]
      BY <1>1, <1>6 DEF Hangup
    <2>2. \A i \in 1 .. Len(emits'[sid]) : FALSE
      BY <2>1
    <2>3. ASSUME NEW s \in Sid
          PROVE  \A i \in 1 .. Len(emits'[s]) :
                    \E j \in 1 .. Len(emits[s]) : emits'[s][i] = emits[s][j]
      BY <2>1, <2>2
    <2>4. QED
      BY <1>3, <2>3 DEF Post
  <1>7. ASSUME NEW x \in Sid, NEW e \in Emission, Emit(x, e), Own(e, x) PROVE Post'
    <2>1. /\ \A s \in Sid : \/ emits'[s] = emits[s]
                            \/ s = x /\ emits'[s] = Append(emits[s], e)
          /\ emits[x] \in Seq(Emission)
      <3>1. web \in [Sid -> {"off", "on", "closed"}]
        BY DEF Types, Ranges
      <3>2. emits'[x] = emits[x] \/ emits'[x] = Append(emits[x], e)
        BY <1>1, <1>7, EmitType
      <3>3. \A s \in Sid : s # x => emits'[s] = emits[s]
        BY <1>1, <1>7, EmitType
      <3>4. ASSUME NEW s \in Sid
            PROVE  \/ emits'[s] = emits[s]
                   \/ s = x /\ emits'[s] = Append(emits[s], e)
        <4>1. CASE s = x
          BY <3>2, <4>1
        <4>2. CASE s # x
          BY <3>3, <4>2
        <4>3. QED
          BY <4>1, <4>2
      <3>5. QED
        BY <1>1, <3>4
    <2>2. \A i \in 1 .. Len(Append(emits[x], e)) :
             \/ i \in 1 .. Len(emits[x]) /\ Append(emits[x], e)[i] = emits[x][i]
             \/ Append(emits[x], e)[i] = e
      BY <2>1
    <2>3. ASSUME NEW s \in Sid, NEW i \in 1 .. Len(emits'[s])
          PROVE  Own(emits'[s][i], s) \/ \E j \in 1 .. Len(emits[s]) : emits'[s][i] = emits[s][j]
      <3>1. CASE emits'[s] = emits[s]
        BY <2>3, <3>1
      <3>2. CASE s = x /\ emits'[s] = Append(emits[s], e)
        BY <1>7, <2>2, <2>3, <3>2
      <3>3. QED
        BY <2>1, <3>1, <3>2
    <2>4. QED
      BY <1>3, <2>3 DEF Post
  <1>8. CASE PageStep
    <2>1. \/ emits' = emits
          \/ \E kind \in {"welcome", "refused", "chat", "users", "error", "lost"} : Hears(kind)
          \/ sid # NULL /\ \E k \in 0 .. Len(events[sid]) : Hangup(sid, k)
      <3>1. CASE Logout
        <4>1. Len(events[sid]) \in 0 .. Len(events[sid]) /\ sid # NULL
          BY <1>1, <3>1 DEF Logout, Types, Ranges
        <4>2. QED
          BY <3>1, <4>1 DEF Logout
      <3>2. CASE ~Logout
        BY <1>8, <3>2 DEF PageStep, Page, Hear, Submit, EnableAgain, SendMessage, Tick,
           Select, Lose, Connect, HearWelcome, HearRefused, HearChat, HearUsers, HearNotice,
           socketVars
      <3>3. QED
        BY <3>1, <3>2
    <2>2. QED
      BY <1>1, <1>4, <1>5, <1>6, <2>1
  <1>9. ASSUME NEW x \in Sid, NEW kind \in {"refused", "users", "error", "lost"},
               Emit(x, Notice(kind))
        PROVE  Post'
    <2>1. Notice(kind) \in Emission /\ Own(Notice(kind), x)
      BY NoticeType DEF Own
    <2>2. QED
      BY <1>7, <1>9, <2>1
  <1>10. CASE LoopStep
    <2>1. CASE LoginWelcomes
      <3> DEFINE e == [Notice("welcome") EXCEPT !.user = account[loop.conn]]
      <3>1. loop.sid \in Sid /\ loop.conn \in Tcp /\ account[loop.conn] \in User \cup {NULL}
        BY <2>1 DEF LoginWelcomes, Types, Ranges
      <3>2. e \in Emission /\ e.kind = "welcome" /\ Emit(loop.sid, e)
        BY <2>1, <3>1, WelcomeType DEF LoginWelcomes
      <3> HIDE DEF e
      <3>3. QED
        BY <1>7, <3>1, <3>2 DEF Own
    <2>2. CASE ~LoginWelcomes
      <3>1. loop.at # "idle" => loop.sid \in Sid
        BY DEF Types
      <3>2. emits' = emits \/ \E x \in Sid, kind \in {"refused", "users", "error", "lost"} :
                                  Emit(x, Notice(kind))
        BY <1>10, <2>2, <3>1 DEF LoopStep, EventLoop, LoginRefused, LoginConnects, LookUp,
           Disconnect, LoginPrompted, LoginStarts, LoginStartFails, LoginStores, LoginFails,
           Write
      <3>3. QED
        BY <1>4, <1>9, <3>2
    <2>3. QED
      BY <2>1, <2>2
  <1>11. ASSUME NEW t \in Tcp, ReceiverStep(t) PROVE Post'
    <2>1. owner[t] \in Sid \/ rpc[t] = "off"
      BY DEF Table
    <2>2. CASE Forward(t)
      <3>1. PICK k \in DOMAIN rx[t] :
               Emit(owner[t], IF rx[t][1] = "list" THEN Notice("users")
                              ELSE [Notice("chat") EXCEPT !.from = t,
                                                          !.parts = SubSeq(rx[t], 1, k)])
        BY <2>2 DEF Forward
      <3>2. rx[t] \in Seq(Item) /\ owner[t] \in Sid
        BY <2>1, <2>2 DEF Types, Ranges, Forward
      <3>3. SubSeq(rx[t], 1, k) \in Seq(Item)
        BY <3>1, <3>2
      <3>4. CASE rx[t][1] = "list"
        BY <1>9, <3>1, <3>2, <3>4
      <3>5. CASE rx[t][1] # "list"
        <4> DEFINE e == [Notice("chat") EXCEPT !.from = t, !.parts = SubSeq(rx[t], 1, k)]
        <4>1. e \in Emission /\ e.kind = "chat" /\ e.from = t
          BY <3>3, ChatType, ZenonT(30)
        <4>2. Emit(owner[t], e)
          BY <3>1, <3>5
        <4> HIDE DEF e
        <4>3. QED
          BY <1>7, <3>2, <4>1, <4>2 DEF Own
      <3>6. QED
        BY <3>4, <3>5
    <2>3. CASE ReceiverEnds(t)
      BY <1>4, <2>3 DEF ReceiverEnds, socketVars
    <2>4. CASE Cleanup(t)
      <3>1. owner[t] \in Sid /\ (emits' = emits \/ Emit(owner[t], Notice("lost")))
        BY <2>1, <2>4 DEF Cleanup
      <3>2. QED
        BY <1>4, <1>9, <3>1
    <2>5. QED
      BY <1>11, <2>2, <2>3, <2>4 DEF ReceiverStep, Receiver
  <1>12. ASSUME NEW t \in Tcp, ServerStep(t) PROVE Post'
    BY <1>4, <1>12, ServerTypes DEF SrvOnly, socketVars
  <1>13. CASE UNCHANGED vars
    BY <1>4, <1>13 DEF vars, socketVars
  <1>14. QED
    BY <1>8, <1>10, <1>11, <1>12, <1>13 DEF Next, Quiet

LEMMA SessionStep == ASSUME Session, [Next]_vars PROVE Session'
  <1>1. Types' /\ Table'
    BY TypesStep, TableStep DEF Session
  <1>2. Owners' /\ Connections' /\ PageFits'
    <2>1. CASE PageStep
      BY <2>1, PageOwners, PageConnections, PageScreen DEF Session
    <2>2. CASE LoopStep
      <3>1. UNCHANGED pageVars /\ EventLoop
        BY <2>2 DEF LoopStep
      <3>2. CASE \E s \in Sid : LoginRefused(s)
        BY <3>1, <3>2, RefusedSession
      <3>3. CASE \E s \in Sid, t \in Tcp : LoginConnects(s, t)
        BY <3>1, <3>3, ConnectsSession
      <3>4. CASE \E s \in Sid, op \in Ops : LookUp(s, op)
        BY <3>1, <3>4, LookUpSession
      <3>5. CASE \E s \in Sid : Disconnect(s)
        BY <3>1, <3>5, DisconnectSession
      <3>6. CASE \/ LoginPrompted \/ LoginStarts \/ LoginStartFails \/ LoginWelcomes
                 \/ LoginFails \/ Write
        BY <3>1, <3>6, PromptedSession, StartsSession, StartFailsSession, WelcomesSession,
           FailsSession, WriteSession
      <3>7. QED
        BY <3>1, <3>2, <3>3, <3>4, <3>5, <3>6 DEF EventLoop
    <2>3. CASE \E t \in Tcp : ReceiverStep(t)
      BY <2>3, ReceiverSession
    <2>4. CASE \E t \in Tcp : ServerStep(t)
      BY <2>4, ServerTypes, RestSession DEF SrvOnly, Session
    <2>5. CASE UNCHANGED vars
      BY <2>5, RestSession DEF vars, backendVars
    <2>6. QED
      BY <2>1, <2>2, <2>3, <2>4, <2>5 DEF Next, Quiet
  <1>3. QED
    BY <1>1, <1>2, PostStep DEF Session

LEMMA SessionInit == Init => Session
  <1> SUFFICES ASSUME Init PROVE Session
    OBVIOUS
  <1> USE NullApart, IdleType DEF Init, SocketInit, PageInit, BackendInit
  <1>1. Owners
    BY DEF Owners, SpeaksAsShown
  <1>2. Connections
    BY QueueEmpty, MailEmpty DEF Connections, Orderly, Calm, Served, Enters, Greets, Entering
  <1>3. PageFits /\ Post
    BY DEF PageFits, Post
  <1>4. QED
    BY <1>1, <1>2, <1>3, TableInit DEF Session

LEMMA SessionInvariant == Spec => []Session
  <1>1. Session /\ [Next]_vars => Session'
    BY SessionStep
  <1>2. QED
    BY <1>1, SessionInit, PTL DEF Spec

-----------------------------------------------------------------------------
(* How many answers the page may still get.                                 *)

LoginsIn(q)  == Cardinality({i \in 1 .. Len(q) : q[i].op = "login"})
AnswersIn(m) == Cardinality({i \in 1 .. Len(m) : m[i].kind \in Answer})
Busy(s)      == IF Enters(s, loop) \/ Greets(s, loop) THEN 1 ELSE 0
Due(s)       == LoginsIn(events[s]) + AnswersIn(emits[s]) + Busy(s)

\* Each login that was sent has given the page one timer at most.
Counted == timers + (IF sid = NULL THEN 0 ELSE Due(sid)) <= logins

\* The indices of the members of a sequence that have something in common, when
\* one is appended and when the first is taken.
LEMMA IndexMore ==
    ASSUME NEW n \in Nat, NEW I \in SUBSET (1 .. n)
    PROVE  Cardinality(I) \in Nat /\ Cardinality(I \cup {n + 1}) = Cardinality(I) + 1
  <1>1. IsFiniteSet(I)
    <2>1. IsFiniteSet(1 .. n)
      BY FS_Interval
    <2>2. QED
      BY <2>1, FS_Subset
  <1>2. n + 1 \notin I
    OBVIOUS
  <1>3. QED
    BY <1>1, <1>2, FS_CardinalityType, FS_AddElement

LEMMA IndexLess ==
    ASSUME NEW n \in Nat, NEW I \in SUBSET (1 .. n + 1), NEW J \in SUBSET (1 .. n),
           \A i \in 1 .. n : i \in J <=> i + 1 \in I
    PROVE  Cardinality(J) \in Nat
           /\ Cardinality(I) = Cardinality(J) + (IF 1 \in I THEN 1 ELSE 0)
  <1> DEFINE K == I \ {1}
             next == [i \in J |-> i + 1]
  <1>1. IsFiniteSet(J) /\ IsFiniteSet(I)
    <2>1. IsFiniteSet(1 .. n) /\ IsFiniteSet(1 .. n + 1)
      BY FS_Interval
    <2>2. QED
      BY <2>1, FS_Subset
  <1>2. \A k \in K : k - 1 \in J /\ next[k - 1] = k
    OBVIOUS
  <1>3. next \in [J -> K] /\ \A i, j \in J : next[i] = next[j] => i = j
    OBVIOUS
  <1>4. next \in Bijection(J, K)
    <2>1. next \in Injection(J, K)
      BY <1>3, Zenon DEF Injection, IsInjective
    <2>2. next \in Surjection(J, K)
      BY <1>2, <1>3, Zenon DEF Surjection
    <2>3. QED
      BY <2>1, <2>2 DEF Bijection
  <1>5. Cardinality(K) = Cardinality(J)
    BY <1>1, <1>4, FS_Bijection DEF ExistsBijection
  <1>6. Cardinality(K) = IF 1 \in I THEN Cardinality(I) - 1 ELSE Cardinality(I)
    BY <1>1, FS_RemoveElement
  <1>7. Cardinality(I) \in Nat /\ Cardinality(J) \in Nat
    BY <1>1, FS_CardinalityType
  <1> HIDE DEF K
  <1>8. QED
    BY <1>5, <1>6, <1>7

LEMMA LoginsMore ==
    ASSUME NEW q \in Seq(Event), NEW e \in Event
    PROVE  /\ LoginsIn(q) \in Nat
           /\ LoginsIn(Append(q, e)) = LoginsIn(q) + (IF e.op = "login" THEN 1 ELSE 0)
  <1> DEFINE r == Append(q, e)
             n == Len(q)
             I == {i \in 1 .. n : q[i].op = "login"}
             J == {i \in 1 .. Len(r) : r[i].op = "login"}
  <1>1. /\ n \in Nat /\ Len(r) = n + 1 /\ r[n + 1] = e /\ \A i \in 1 .. n : r[i] = q[i]
    OBVIOUS
  <1>2. J = IF e.op = "login" THEN I \cup {n + 1} ELSE I
    <2> HIDE DEF r, n
    <2>1. \A i \in 1 .. n + 1 : i \in 1 .. n \/ i = n + 1
      BY <1>1
    <2>2. \A i \in 1 .. n : i \in 1 .. n + 1
      BY <1>1
    <2>3. n + 1 \in 1 .. n + 1
      BY <1>1
    <2>4. QED
      BY <1>1, <2>1, <2>2, <2>3
  <1>3. Cardinality(I) \in Nat /\ Cardinality(I \cup {n + 1}) = Cardinality(I) + 1
    BY <1>1, IndexMore
  <1>4. LoginsIn(q) = Cardinality(I) /\ LoginsIn(Append(q, e)) = Cardinality(J)
    BY DEF LoginsIn
  <1> HIDE DEF I, J, r, n
  <1>5. QED
    BY <1>2, <1>3, <1>4

LEMMA LoginsLess ==
    ASSUME NEW q \in Seq(Event), q # <<>>
    PROVE  /\ LoginsIn(Tail(q)) \in Nat
           /\ LoginsIn(q) = LoginsIn(Tail(q)) + (IF Head(q).op = "login" THEN 1 ELSE 0)
  <1> DEFINE r == Tail(q)
             n == Len(r)
             I == {i \in 1 .. Len(q) : q[i].op = "login"}
             J == {i \in 1 .. n : r[i].op = "login"}
  <1>1. /\ n \in Nat /\ Len(q) = n + 1 /\ q[1] = Head(q)
        /\ \A i \in 1 .. n : r[i] = q[i + 1]
    OBVIOUS
  <1>2. \A i \in 1 .. n : i \in J <=> i + 1 \in I
    <2> HIDE DEF r, n
    <2>1. \A i \in 1 .. n : i + 1 \in 1 .. Len(q)
      BY <1>1
    <2>2. QED
      BY <1>1, <2>1
  <1>3. I \in SUBSET (1 .. n + 1) /\ J \in SUBSET (1 .. n)
    BY <1>1
  <1>4. 1 \in I <=> Head(q).op = "login"
    BY <1>1
  <1>5. LoginsIn(q) = Cardinality(I) /\ LoginsIn(Tail(q)) = Cardinality(J)
    BY DEF LoginsIn
  <1>6. n \in Nat
    BY <1>1
  <1> HIDE DEF I, J, r, n
  <1>7. /\ Cardinality(J) \in Nat
        /\ Cardinality(I) = Cardinality(J) + (IF 1 \in I THEN 1 ELSE 0)
    BY <1>2, <1>3, <1>6, IndexLess
  <1>8. QED
    BY <1>4, <1>5, <1>7, SMTT(30)

LEMMA AnswersMore ==
    ASSUME NEW q \in Seq(Emission), NEW e \in Emission
    PROVE  /\ AnswersIn(q) \in Nat
           /\ AnswersIn(Append(q, e)) = AnswersIn(q) + (IF e.kind \in Answer THEN 1 ELSE 0)
  <1> DEFINE r == Append(q, e)
             n == Len(q)
             I == {i \in 1 .. n : q[i].kind \in Answer}
             J == {i \in 1 .. Len(r) : r[i].kind \in Answer}
  <1>1. /\ n \in Nat /\ Len(r) = n + 1 /\ r[n + 1] = e /\ \A i \in 1 .. n : r[i] = q[i]
    OBVIOUS
  <1>2. J = IF e.kind \in Answer THEN I \cup {n + 1} ELSE I
    <2> HIDE DEF r, n
    <2>1. \A i \in 1 .. n + 1 : i \in 1 .. n \/ i = n + 1
      BY <1>1
    <2>2. \A i \in 1 .. n : i \in 1 .. n + 1
      BY <1>1
    <2>3. n + 1 \in 1 .. n + 1
      BY <1>1
    <2>4. QED
      BY <1>1, <2>1, <2>2, <2>3
  <1>3. Cardinality(I) \in Nat /\ Cardinality(I \cup {n + 1}) = Cardinality(I) + 1
    BY <1>1, IndexMore
  <1>4. AnswersIn(q) = Cardinality(I) /\ AnswersIn(Append(q, e)) = Cardinality(J)
    BY DEF AnswersIn
  <1> HIDE DEF I, J, r, n
  <1>5. QED
    BY <1>2, <1>3, <1>4

LEMMA AnswersLess ==
    ASSUME NEW q \in Seq(Emission), q # <<>>
    PROVE  /\ AnswersIn(Tail(q)) \in Nat
           /\ AnswersIn(q) = AnswersIn(Tail(q)) + (IF Head(q).kind \in Answer THEN 1 ELSE 0)
  <1> DEFINE r == Tail(q)
             n == Len(r)
             I == {i \in 1 .. Len(q) : q[i].kind \in Answer}
             J == {i \in 1 .. n : r[i].kind \in Answer}
  <1>1. /\ n \in Nat /\ Len(q) = n + 1 /\ q[1] = Head(q)
        /\ \A i \in 1 .. n : r[i] = q[i + 1]
    OBVIOUS
  <1>2. \A i \in 1 .. n : i \in J <=> i + 1 \in I
    <2> HIDE DEF r, n
    <2>1. \A i \in 1 .. n : i + 1 \in 1 .. Len(q)
      BY <1>1
    <2>2. QED
      BY <1>1, <2>1
  <1>3. I \in SUBSET (1 .. n + 1) /\ J \in SUBSET (1 .. n)
    BY <1>1
  <1>4. 1 \in I <=> Head(q).kind \in Answer
    BY <1>1
  <1>5. AnswersIn(q) = Cardinality(I) /\ AnswersIn(Tail(q)) = Cardinality(J)
    BY DEF AnswersIn
  <1>6. n \in Nat
    BY <1>1
  <1> HIDE DEF I, J, r, n
  <1>7. /\ Cardinality(J) \in Nat
        /\ Cardinality(I) = Cardinality(J) + (IF 1 \in I THEN 1 ELSE 0)
    BY <1>2, <1>3, <1>6, IndexLess
  <1>8. QED
    BY <1>4, <1>5, <1>7, SMTT(30)

LEMMA DueType ==
    ASSUME Types, NEW s \in Sid
    PROVE  LoginsIn(events[s]) \in Nat /\ AnswersIn(emits[s]) \in Nat /\ Busy(s) \in {0, 1}
  <1>1. events[s] \in Seq(Event) /\ emits[s] \in Seq(Emission)
    BY DEF Types, Ranges
  <1>2. Plain("login", NULL) \in Event /\ Notice("error") \in Emission
    BY PlainType, NoticeType DEF Ops
  <1>3. QED
    BY <1>1, <1>2, LoginsMore, AnswersMore DEF Busy

\* What a letter adds to the answers, and what the event loop takes from the logins.
LEMMA CountTold ==
    ASSUME Types, NEW s \in Sid, NEW e \in Emission, Emit(s, e), NEW r \in Sid
    PROVE  /\ AnswersIn(emits'[r]) \in Nat
           /\ AnswersIn(emits'[r]) <=
                 AnswersIn(emits[r]) + (IF r = s /\ e.kind \in Answer THEN 1 ELSE 0)
  <1>1. emits \in [Sid -> Seq(Emission)] /\ AnswersIn(emits[r]) \in Nat
    BY DueType DEF Types, Ranges
  <1>2. CASE r # s \/ web[s] # "on"
    <2>1. emits'[r] = emits[r]
      BY <1>1, <1>2, EmitType
    <2>2. QED
      BY <1>1, <2>1
  <1>3. CASE r = s /\ web[s] = "on"
    <2>1. emits'[r] = Append(emits[r], e) /\ emits[r] \in Seq(Emission)
      BY <1>1, <1>3, EmitType
    <2>2. AnswersIn(Append(emits[r], e)) =
             AnswersIn(emits[r]) + (IF e.kind \in Answer THEN 1 ELSE 0)
      BY <2>1, AnswersMore
    <2>3. QED
      BY <1>1, <1>3, <2>1, <2>2
  <1>4. QED
    BY <1>2, <1>3

LEMMA CountTaken ==
    ASSUME Types, NEW s \in Sid, NEW op, Takes(s, op), NEW r \in Sid
    PROVE  /\ LoginsIn(events'[r]) \in Nat
           /\ LoginsIn(events[r]) =
                 LoginsIn(events'[r]) + (IF r = s /\ op = "login" THEN 1 ELSE 0)
  <1>1. events \in [Sid -> Seq(Event)] /\ LoginsIn(events[r]) \in Nat
    BY DueType DEF Types, Ranges
  <1>2. CASE r # s
    <2>1. events'[r] = events[r]
      BY <1>1, <1>2 DEF Takes
    <2>2. QED
      BY <1>1, <1>2, <2>1
  <1>3. CASE r = s
    <2>1. /\ events[r] \in Seq(Event) /\ events[r] # <<>> /\ Head(events[r]).op = op
          /\ events'[r] = Tail(events[r])
      BY <1>1, <1>3 DEF Takes
    <2>2. QED
      BY <1>3, <2>1, LoginsLess
  <1>4. QED
    BY <1>2, <1>3

\* No step of the backend makes more of what is due to the page.
LEMMA DueFalls ==
    ASSUME Types, NEW r \in Sid, \/ EventLoop \/ \E t \in Tcp : ReceiverStep(t),
           \A t \in Tcp : rpc[t] # "off" => owner[t] \in Sid
    PROVE  Due(r)' <= Due(r)
  <1> USE NullApart DEF Types
  <1>1. /\ LoginsIn(events[r]) \in Nat /\ AnswersIn(emits[r]) \in Nat
        /\ Busy(r) \in {0, 1} /\ Busy(r)' \in {0, 1}
    BY DueType DEF Busy
  <1>2. /\ Due(r) = LoginsIn(events[r]) + AnswersIn(emits[r]) + Busy(r)
        /\ Due(r)' = LoginsIn(events'[r]) + AnswersIn(emits'[r]) + Busy(r)'
    BY DEF Due
  <1>3. ASSUME NEW s \in Sid, NEW kind \in {"refused", "users", "error", "lost"},
               Emit(s, Notice(kind))
        PROVE  /\ AnswersIn(emits'[r]) \in Nat
               /\ AnswersIn(emits'[r]) <=
                     AnswersIn(emits[r]) + (IF r = s /\ kind = "refused" THEN 1 ELSE 0)
    <2>1. Notice(kind) \in Emission /\ Notice(kind).kind = kind
      BY NoticeType
    <2>2. kind \in Answer <=> kind = "refused"
      BY DEF Answer
    <2>3. QED
      BY <1>3, <2>1, <2>2, CountTold
  <1>4. ASSUME loop = Idle PROVE Busy(r) = 0
    BY <1>4, IdleType DEF Busy, Enters, Greets, Entering
  <1>5. ASSUME NEW s \in Sid, LoginRefused(s) PROVE Due(r)' <= Due(r)
    <2>1. /\ LoginsIn(events'[r]) \in Nat
          /\ LoginsIn(events[r]) = LoginsIn(events'[r]) + (IF r = s THEN 1 ELSE 0)
      BY <1>5, CountTaken DEF LoginRefused
    <2>2. /\ AnswersIn(emits'[r]) \in Nat
          /\ AnswersIn(emits'[r]) <= AnswersIn(emits[r]) + (IF r = s THEN 1 ELSE 0)
      BY <1>3, <1>5 DEF LoginRefused
    <2>3. Busy(r)' = Busy(r)
      BY <1>5 DEF LoginRefused, Busy
    <2>4. QED
      BY <1>1, <1>2, <2>1, <2>2, <2>3
  <1>6. ASSUME NEW s \in Sid, NEW t \in Tcp, LoginConnects(s, t) PROVE Due(r)' <= Due(r)
    <2>1. /\ LoginsIn(events'[r]) \in Nat
          /\ LoginsIn(events[r]) = LoginsIn(events'[r]) + (IF r = s THEN 1 ELSE 0)
      BY <1>6, CountTaken DEF LoginConnects
    <2>2. Busy(r) = 0 /\ Busy(r)' = IF r = s THEN 1 ELSE 0
      <3>1. loop'.at = "USERNAME" /\ loop'.sid = s
        BY <1>6 DEF LoginConnects, Idle
      <3>2. QED
        BY <1>4, <1>6, <3>1 DEF LoginConnects, Takes, Busy, Enters, Greets, Entering
    <2>3. QED
      BY <1>1, <1>2, <1>6, <2>1, <2>2 DEF LoginConnects
  <1>7. ASSUME NEW s \in Sid, NEW op \in Ops, LookUp(s, op) PROVE Due(r)' <= Due(r)
    <2>1. op # "login" /\ Takes(s, op)
      BY <1>7 DEF LookUp
    <2>2. LoginsIn(events'[r]) \in Nat /\ LoginsIn(events[r]) = LoginsIn(events'[r])
      BY <2>1, CountTaken
    <2>3. AnswersIn(emits'[r]) \in Nat /\ AnswersIn(emits'[r]) <= AnswersIn(emits[r])
      BY <1>1, <1>3, <1>7 DEF LookUp
    <2>4. Busy(r)' = 0
      <3>1. loop' = Idle \/ loop'.at = "write"
        BY <1>7, <2>1 DEF LookUp, Takes
      <3>2. QED
        BY <3>1, IdleType DEF Busy, Enters, Greets, Entering
    <2>5. QED
      BY <1>1, <1>2, <2>2, <2>3, <2>4
  <1>8. ASSUME NEW s \in Sid, Disconnect(s) PROVE Due(r)' <= Due(r)
    <2>1. LoginsIn(events'[r]) \in Nat /\ LoginsIn(events[r]) = LoginsIn(events'[r])
      BY <1>8, CountTaken DEF Disconnect
    <2>2. emits' = emits /\ Busy(r)' = Busy(r)
      BY <1>8 DEF Disconnect, Busy
    <2>3. QED
      BY <1>1, <1>2, <2>1, <2>2
  <1>9. ASSUME loop.at \in Entering, loop' = Idle, events' = events,
               Emit(loop.sid, Notice("refused"))
        PROVE  Due(r)' <= Due(r)
    <2>1. loop.sid \in Sid
      BY <1>9 DEF Entering
    <2>2. /\ AnswersIn(emits'[r]) \in Nat
          /\ AnswersIn(emits'[r]) <= AnswersIn(emits[r]) + (IF r = loop.sid THEN 1 ELSE 0)
      BY <1>3, <1>9, <2>1
    <2>3. Busy(r)' = 0 /\ Busy(r) = IF r = loop.sid THEN 1 ELSE 0
      BY <1>9, IdleType DEF Busy, Enters, Greets, Entering
    <2>4. QED
      BY <1>1, <1>2, <1>9, <2>2, <2>3
  <1>10. CASE LoginStartFails \/ LoginFails
    BY <1>9, <1>10 DEF LoginStartFails, LoginStores, LoginFails, Entering
  <1>11. CASE LoginPrompted \/ LoginStarts
    <2>1. /\ loop' = [loop EXCEPT !.at = loop'.at] /\ loop'.at \in {"PASSWORD", "AUTH_SUCCESS", "welcome"}
          /\ loop.at \in Entering /\ UNCHANGED <<events, emits>>
      BY <1>11 DEF LoginPrompted, LoginStarts, LoginStores, Entering, LoopState
    <2>2. Busy(r)' = Busy(r)
      BY <2>1 DEF Busy, Enters, Greets, Entering, LoopState
    <2>3. QED
      BY <1>1, <1>2, <2>1, <2>2
  <1>12. CASE LoginWelcomes
    <2> DEFINE e == [Notice("welcome") EXCEPT !.user = account[loop.conn]]
    <2>1. loop.sid \in Sid /\ loop.conn \in Tcp /\ account[loop.conn] \in User \cup {NULL}
      BY <1>12 DEF LoginWelcomes, Ranges
    <2>2. e \in Emission /\ e.kind = "welcome" /\ Emit(loop.sid, e)
      BY <1>12, <2>1, WelcomeType DEF LoginWelcomes
    <2> HIDE DEF e
    <2>3. /\ AnswersIn(emits'[r]) \in Nat
          /\ AnswersIn(emits'[r]) <= AnswersIn(emits[r]) + (IF r = loop.sid THEN 1 ELSE 0)
      BY <2>1, <2>2, CountTold DEF Answer
    <2>4. Busy(r)' = 0 /\ Busy(r) = (IF r = loop.sid THEN 1 ELSE 0) /\ events' = events
      BY <1>12, IdleType DEF LoginWelcomes, Busy, Enters, Greets, Entering
    <2>5. QED
      BY <1>1, <1>2, <2>3, <2>4
  <1>13. CASE Write
    <2>1. loop.sid \in Sid /\ (emits' = emits \/ Emit(loop.sid, Notice("error")))
      BY <1>13 DEF Write
    <2>2. AnswersIn(emits'[r]) \in Nat /\ AnswersIn(emits'[r]) <= AnswersIn(emits[r])
      BY <1>1, <1>3, <2>1
    <2>3. Busy(r)' = 0 /\ events' = events
      BY <1>13, IdleType DEF Write, Busy, Enters, Greets, Entering
    <2>4. QED
      BY <1>1, <1>2, <2>2, <2>3
  <1>14. ASSUME NEW t \in Tcp, ReceiverStep(t) PROVE Due(r)' <= Due(r)
    <2>1. events' = events /\ Busy(r)' = Busy(r)
      BY <1>14 DEF ReceiverStep, Receiver, Forward, ReceiverEnds, Cleanup, socketVars, Busy
    <2>2. AnswersIn(emits'[r]) \in Nat /\ AnswersIn(emits'[r]) <= AnswersIn(emits[r])
      <3>1. CASE Forward(t)
        <4>1. PICK k \in DOMAIN rx[t] :
                 Emit(owner[t], IF rx[t][1] = "list" THEN Notice("users")
                                ELSE [Notice("chat") EXCEPT !.from = t,
                                                            !.parts = SubSeq(rx[t], 1, k)])
          BY <3>1 DEF Forward
        <4>2. rx[t] \in Seq(Item) /\ owner[t] \in Sid
          BY <3>1 DEF Ranges, Forward
        <4>3. SubSeq(rx[t], 1, k) \in Seq(Item)
          BY <4>1, <4>2
        <4>4. CASE rx[t][1] = "list"
          BY <1>1, <1>3, <4>1, <4>2, <4>4
        <4>5. CASE rx[t][1] # "list"
          <5> DEFINE e == [Notice("chat") EXCEPT !.from = t, !.parts = SubSeq(rx[t], 1, k)]
          <5>1. e \in Emission /\ e.kind = "chat"
            BY <4>3, ChatType, ZenonT(30)
          <5>2. Emit(owner[t], e)
            BY <4>1, <4>5
          <5> HIDE DEF e
          <5>3. e.kind \notin Answer
            BY <5>1 DEF Answer
          <5>4. QED
            BY <1>1, <4>2, <5>1, <5>2, <5>3, CountTold
        <4>6. QED
          BY <4>4, <4>5
      <3>2. CASE ReceiverEnds(t)
        BY <1>1, <3>2 DEF ReceiverEnds, socketVars
      <3>3. CASE Cleanup(t)
        <4>1. owner[t] \in Sid /\ (emits' = emits \/ Emit(owner[t], Notice("lost")))
          BY <3>3 DEF Cleanup
        <4>2. QED
          BY <1>1, <1>3, <4>1
      <3>4. QED
        BY <1>14, <3>1, <3>2, <3>3 DEF ReceiverStep, Receiver
    <2>3. QED
      BY <1>1, <1>2, <2>1, <2>2
  <1>15. QED
    BY <1>5, <1>6, <1>7, <1>8, <1>10, <1>11, <1>12, <1>13, <1>14 DEF EventLoop

LEMMA CountPage ==
    ASSUME Session, Counted, PageStep
    PROVE  Counted'
  <1> USE NullApart DEF Session
  <1>1. sid \in Sid \cup {NULL} /\ timers \in Nat /\ logins \in Nat
        /\ events \in [Sid -> Seq(Event)] /\ emits \in [Sid -> Seq(Emission)]
        /\ currentUsername \in User \cup {NULL}
    BY SizeAssumption DEF Types, Ranges
  <1>2. ASSUME sid \in Sid
        PROVE  /\ LoginsIn(events[sid]) \in Nat /\ AnswersIn(emits[sid]) \in Nat
               /\ Busy(sid) \in {0, 1}
               /\ timers + (LoginsIn(events[sid]) + AnswersIn(emits[sid]) + Busy(sid)) <= logins
    BY <1>2, DueType DEF Counted, Due
  <1>3. loop' = loop
    BY DEF PageStep, backendVars
  <1>4. ASSUME sid' = sid, sid \in Sid,
               timers' + (LoginsIn(events'[sid]) + AnswersIn(emits'[sid]) + Busy(sid))
               <= logins'
        PROVE  Counted'
    <2>1. sid # NULL /\ sid' # NULL
      BY <1>4
    <2>2. Due(sid)' = LoginsIn(events'[sid]) + AnswersIn(emits'[sid]) + Busy(sid)
      BY <1>3, <1>4 DEF Due, Busy
    <2>3. QED
      BY <1>4, <2>1, <2>2 DEF Counted
  <1>5. CASE UNCHANGED <<sid, events, emits, timers, logins>>
    BY <1>3, <1>5 DEF Counted, Due, Busy
  <1>6. ASSUME sid \in Sid, NEW e \in Event, ToBackend(e)
        PROVE  LoginsIn(events'[sid]) = LoginsIn(events[sid]) + (IF e.op = "login" THEN 1 ELSE 0)
    <2>1. events[sid] \in Seq(Event) /\ events'[sid] = Append(events[sid], e)
      BY <1>6, PageSends
    <2>2. QED
      BY <2>1, LoginsMore
  <1>7. ASSUME NEW u \in User, Submit(u) PROVE Counted'
    <2> DEFINE e == [op |-> "login", user |-> u, as |-> NULL]
    <2>1. e \in Event /\ e.op = "login"
      BY DEF Event, Ops
    <2>2. sid \in Sid /\ sid' = sid /\ ToBackend(e) /\ emits' = emits /\ timers' = timers
          /\ logins' = logins + 1
      BY <1>1, <1>7 DEF Submit
    <2> HIDE DEF e
    <2>3. LoginsIn(events'[sid]) = LoginsIn(events[sid]) + 1
      BY <1>6, <2>1, <2>2
    <2>4. QED
      BY <1>1, <1>2, <1>4, <2>2, <2>3
  <1>8. ASSUME sid \in Sid, NEW op \in {"send", "private", "list"},
               NEW u \in User \cup {NULL}, ToBackend(Plain(op, u))
        PROVE  LoginsIn(events'[sid]) = LoginsIn(events[sid])
    <2>1. Plain(op, u) \in Event /\ Plain(op, u).op = op
      BY PlainType DEF Ops
    <2>2. QED
      BY <1>2, <1>6, <1>8, <2>1
  <1>9. CASE SendMessage \/ Tick
    <2>1. sid \in Sid /\ sid' = sid /\ UNCHANGED <<emits, timers, logins>>
      BY <1>1, <1>9 DEF SendMessage, Tick
    <2>2. \E op \in {"send", "private", "list"} : ToBackend(Plain(op, currentUsername))
      BY <1>9 DEF SendMessage, Tick
    <2>3. LoginsIn(events'[sid]) = LoginsIn(events[sid])
      BY <1>1, <1>8, <2>1, <2>2
    <2>4. QED
      BY <1>2, <1>4, <2>1, <2>3
  <1>10. CASE Logout \/ Lose
    <2>1. sid \in Sid /\ sid' = NULL /\ UNCHANGED <<timers, logins>>
      BY <1>1, <1>10 DEF Logout, Lose
    <2>2. timers <= logins
      BY <1>1, <1>2, <2>1
    <2>3. QED
      BY <1>1, <2>1, <2>2 DEF Counted
  <1>11. ASSUME NEW s \in Sid, Connect(s) PROVE Counted'
    <2>1. sid = NULL /\ sid' = s /\ s # NULL /\ web[s] = "off"
          /\ UNCHANGED <<events, emits, timers, logins>>
      BY <1>11 DEF Connect
    <2>2. Orderly(s, web[s], events[s], emits[s], Served(s), Name(s), loop, hasty)
      BY DEF Connections
    <2>3. events[s] = <<>> /\ emits[s] = <<>> /\ Busy(s) = 0
      BY <2>1, <2>2 DEF Orderly, Busy, Enters, Greets
    <2>4. LoginsIn(<<>>) = 0 /\ AnswersIn(<<>>) = 0
      <3>1. \A i \in 1 .. Len(<<>>) : FALSE
        OBVIOUS
      <3>2. QED
        BY <3>1, FS_EmptySet DEF LoginsIn, AnswersIn
    <2>5. Due(s)' = 0
      BY <1>3, <2>1, <2>3, <2>4 DEF Due, Busy
    <2>6. timers <= logins
      BY <1>1, <2>1 DEF Counted
    <2>7. QED
      BY <1>1, <2>1, <2>5, <2>6 DEF Counted
  <1>12. ASSUME NEW kind, Hears(kind)
         PROVE  /\ sid \in Sid /\ AnswersIn(emits'[sid]) \in Nat
                /\ AnswersIn(emits[sid]) =
                      AnswersIn(emits'[sid]) + (IF kind \in Answer THEN 1 ELSE 0)
    <2>1. /\ sid \in Sid /\ emits[sid] \in Seq(Emission) /\ emits[sid] # <<>>
          /\ Head(emits[sid]).kind = kind /\ emits'[sid] = Tail(emits[sid])
      BY <1>12, PageHears
    <2>2. QED
      BY <2>1, AnswersLess
  <1>13. CASE HearWelcome
    <2>1. sid \in Sid /\ sid' = sid /\ Hears("welcome") /\ timers' = timers + 1
          /\ logins' = logins
      BY <1>12, <1>13 DEF HearWelcome
    <2>2. /\ AnswersIn(emits'[sid]) \in Nat
          /\ AnswersIn(emits[sid]) = AnswersIn(emits'[sid]) + 1
      BY <1>12, <2>1 DEF Answer
    <2>3. currentUsername' \in User \cup {NULL} /\ ToBackend(Plain("list", currentUsername'))
      <3>1. Head(emits[sid]) \in Emission
        BY <2>1, PageHears
      <3>2. Head(emits[sid]).user \in User \cup {NULL}
        BY <3>1 DEF Emission
      <3>3. QED
        BY <1>13, <3>2 DEF HearWelcome
    <2>4. LoginsIn(events'[sid]) = LoginsIn(events[sid])
      BY <1>8, <2>1, <2>3
    <2>5. QED
      BY <1>1, <1>2, <1>4, <2>1, <2>2, <2>4
  <1>14. CASE HearRefused \/ HearChat \/ HearUsers \/ HearNotice
    <2>1. PICK kind : Hears(kind)
      BY <1>14 DEF HearRefused, HearChat, HearUsers, HearNotice
    <2>2. sid' = sid /\ UNCHANGED <<events, timers, logins>>
      BY <1>14 DEF HearRefused, HearChat, HearUsers, HearNotice, pageVars
    <2>3. /\ sid \in Sid /\ AnswersIn(emits'[sid]) \in Nat
          /\ AnswersIn(emits'[sid]) <= AnswersIn(emits[sid])
      BY <1>12, <2>1
    <2>4. QED
      BY <1>1, <1>2, <1>4, <2>2, <2>3
  <1>15. CASE EnableAgain \/ \E u \in User \cup {NULL} : Select(u)
    BY <1>5, <1>15 DEF EnableAgain, Select, socketVars
  <1>16. QED
    BY <1>7, <1>9, <1>10, <1>11, <1>13, <1>14, <1>15 DEF PageStep, Page, Hear

LEMMA CountStep == ASSUME Session, Counted, [Next]_vars PROVE Counted'
  <1> USE NullApart DEF Session
  <1>1. CASE PageStep
    BY <1>1, CountPage
  <1>2. CASE LoopStep \/ \E t \in Tcp : ReceiverStep(t)
    <2>1. UNCHANGED <<sid, timers, logins>>
      BY <1>2 DEF LoopStep, ReceiverStep, pageVars
    <2>2. CASE sid = NULL
      BY <2>1, <2>2 DEF Counted
    <2>3. CASE sid # NULL
      <3>1. sid \in Sid /\ timers \in Nat /\ logins \in Nat
        BY <2>3, SizeAssumption DEF Types, Ranges
      <3>2. PICK r \in Sid : r = sid
        BY <3>1
      <3>3. \A t \in Tcp : rpc[t] # "off" => owner[t] \in Sid
        BY DEF Table, Types, Ranges
      <3>4. EventLoop \/ \E t \in Tcp : ReceiverStep(t)
        BY <1>2 DEF LoopStep
      <3>5. Due(r)' <= Due(r)
        BY <3>3, <3>4, DueFalls
      <3>6. Due(r) \in Int /\ Due(r)' \in Int
        <4>1. Types'
          BY TypesStep
        <4>2. events'[r] \in Seq(Event) /\ emits'[r] \in Seq(Emission)
          BY <4>1 DEF Types, Ranges
        <4>3. Plain("login", NULL) \in Event /\ Notice("error") \in Emission
          BY PlainType, NoticeType DEF Ops
        <4>4. LoginsIn(events'[r]) \in Nat /\ AnswersIn(emits'[r]) \in Nat
          BY <4>2, <4>3, LoginsMore, AnswersMore
        <4>5. Busy(r)' \in {0, 1}
          BY DEF Busy
        <4>6. QED
          BY <4>4, <4>5, DueType DEF Due
      <3>7. (sid' # NULL) /\ Due(sid)' = Due(r)' /\ Due(sid) = Due(r)
        BY <2>1, <2>3, <3>2
      <3>8. timers + Due(r) <= logins
        BY <2>3, <3>2 DEF Counted
      <3>9. timers' + Due(r)' <= logins'
        BY <2>1, <3>1, <3>5, <3>6, <3>8
      <3>10. QED
        BY <3>7, <3>9 DEF Counted
    <2>4. QED
      BY <2>2, <2>3
  <1>3. CASE UNCHANGED vars \/ \E t \in Tcp : ServerStep(t)
    <2>1. UNCHANGED <<sid, events, emits, timers, logins, loop>>
      BY <1>3 DEF ServerStep, Server, SrvAnswers, SrvSays, SrvStops, SrvSeesClose, SrvOnly,
         vars, socketVars, pageVars, backendVars
    <2>2. QED
      BY <2>1 DEF Counted, Due, Busy
  <1>4. QED
    BY <1>1, <1>2, <1>3 DEF Next, Quiet

LEMMA CountInvariant == Spec => []Counted
  <1>1. Init => Counted
    BY DEF Init, PageInit, Counted
  <1>2. Session /\ Counted /\ [Next]_vars => Counted'
    BY CountStep
  <1>3. QED
    BY <1>1, <1>2, SessionInvariant, PTL DEF Spec

-----------------------------------------------------------------------------
(* The properties.                                                          *)

\* Every variable of page and backend keeps its range; the page has one poll timer
\* for each login it sent at most, and every message on it came over a connection.
THEOREM WebTypeCorrect == Spec => []WebTypeOK
  <1>1. Session /\ Counted => WebTypeOK
    <2> SUFFICES ASSUME Session, Counted PROVE WebTypeOK
      OBVIOUS
    <2>1. timers \in Nat /\ logins \in 0 .. MaxLogins /\ (sid = NULL \/ sid \in Sid)
      BY DEF Session, Types, Ranges
    <2>2. timers <= logins
      <3>1. CASE sid = NULL
        BY <2>1, <3>1 DEF Counted
      <3>2. CASE sid \in Sid
        <4>1. Due(sid) \in Nat
          BY <3>2, DueType DEF Due, Session
        <4>2. sid # NULL
          BY <3>2, NullApart
        <4>3. QED
          BY <2>1, <4>1, <4>2 DEF Counted
      <3>3. QED
        BY <2>1, <3>1, <3>2
    <2>3. timers <= MaxLogins
      BY <2>1, <2>2, SizeAssumption
    <2>4. QED
      BY <2>3 DEF Session, Types, PageFits, WebTypeOK
  <1>2. QED
    BY <1>1, SessionInvariant, CountInvariant, PTL

\* What is typed on a page goes out over a connection made for that page, and as
\* the name the page showed unless its user logged in twice without waiting,
\* however often the page logs in and out and whatever breaks off meanwhile.
THEOREM SpeaksCorrect == Spec => []SpeaksAsShown
  <1>1. Session => SpeaksAsShown
    BY DEF Session, Owners
  <1>2. QED
    BY <1>1, SessionInvariant, PTL

\* Once the backend has handled that a page is gone, close() has been called on the
\* connection of its session, and on every connection ever made for the page unless
\* its user logged in twice without waiting; also when a login was under way or its
\* receiver could not be started.
THEOREM GoneCorrect == Spec => []GoneIsClosed
  <1>1. Session => GoneIsClosed
    <2> SUFFICES ASSUME Session, NEW s \in Sid, NEW t \in Tcp,
                        web[s] = "closed", events[s] = <<>>, loop.sid # s, owner[t] = s,
                        t = session[s] \/ s \notin hasty
                 PROVE  sock[t] = "closed"
      BY DEF GoneIsClosed
    <2>1. sock[t] # "none"
      BY NullApart DEF Session, Table
    <2>2. CASE sock[t] = "open"
      <3>1. t \in active
        BY <2>2 DEF Session, Table, Types
      <3>2. rpc[t] # "off"
        BY <2>2, <3>1 DEF Session, Table
      <3>3. t = session[s]
        BY <3>2 DEF Session, Owners
      <3>4. QED
        BY <3>1, <3>3 DEF Session, Owners
    <2>3. QED
      BY <2>1, <2>2 DEF Session, Types, Ranges
  <1>2. QED
    BY <1>1, SessionInvariant, PTL

\* A login is always answered: the page never waits for an answer that nobody is
\* going to give.
THEOREM AnsweredCorrect == Spec => []LoginAnswered
  <1>1. Session => LoginAnswered
    <2> SUFFICES ASSUME Session, sid # NULL, loop = Idle, events[sid] = <<>>,
                        emits[sid] = <<>>
                 PROVE  ~(disabled /\ asked = sid)
      BY DEF LoginAnswered
    <2>1. ~Waits(sid)
      BY QueueEmpty, MailEmpty, IdleType DEF Waits, Enters, Greets, Entering
    <2>2. QED
      BY <2>1 DEF Session, PageFits
  <1>2. QED
    BY <1>1, SessionInvariant, PTL

\* What is added to a page came over a connection made for it: that of its session,
\* unless its user logged in twice without waiting.
LEMMA Added ==
    ASSUME Session, [Next]_vars, Len(shown') > Len(shown)
    PROVE  LET t == shown'[Len(shown')]
           IN  /\ sid \in Sid /\ owner[t] = sid
               /\ sid \notin hasty => t = Served(sid) /\ Served(sid) # NULL
  <1> USE NullApart
  <1>1. shown \in Seq(Tcp \cup {NULL})
    BY DEF Session, Types, Ranges
  <1>2. shown' # shown /\ shown' # <<>>
    BY <1>1
  <1>3. HearChat
    <2>1. CASE PageStep
      BY <1>2, <2>1 DEF PageStep, Page, Hear, Submit, EnableAgain, SendMessage, Tick,
         Select, Logout, Lose, Connect, HearWelcome, HearRefused, HearUsers, HearNotice,
         pageVars
    <2>2. ASSUME UNCHANGED pageVars PROVE FALSE
      BY <1>2, <2>2 DEF pageVars
    <2>3. QED
      BY <2>1, <2>2, ServerTypes
         DEF Next, Quiet, vars, LoopStep, ReceiverStep, ServerStep, Session
  <1> DEFINE e == Head(emits[sid])
             x == Texts(e)
  <1>4. Hears("chat") /\ shown' = shown \o x
    BY <1>2, <1>3 DEF HearChat
  <1>5. sid \in Sid /\ emits[sid] \in Seq(Emission) /\ emits[sid] # <<>>
        /\ e \in Emission /\ e.kind = "chat"
    BY <1>4, PageHears DEF Session
  <1> HIDE DEF e
  <1>6. /\ x \in Seq(Tcp \cup {NULL}) /\ \A i \in 1 .. Len(x) : x[i] = e.from
    BY <1>5, TextsType
  <1> HIDE DEF x
  <1>7. shown'[Len(shown')] = e.from
    BY <1>1, <1>4, <1>6
  <1>8. owner[e.from] = sid
    BY <1>5 DEF Session, Post, e
  <1>9. sid \notin hasty => Letter(e, Served(sid), Name(sid))
    <2>1. Orderly(sid, web[sid], events[sid], emits[sid], Served(sid), Name(sid), loop, hasty)
      BY <1>5 DEF Session, Connections
    <2>2. QED
      BY <1>5, <2>1, TalkHeard DEF e
  <1>10. QED
    BY <1>5, <1>7, <1>8, <1>9 DEF Letter

\* The chat that is added to a page came over a connection made for that page, and
\* over that of the user it shows, unless he logged in twice without waiting.
THEOREM HearsCorrect == Spec => HearsOwn
  <1>1. ASSUME Session, [Next]_vars, screen = "chat", Len(shown') > Len(shown)
        PROVE  LET t == shown'[Len(shown')]
               IN  owner[t] = sid /\ (sid \notin hasty => account[t] = currentUsername)
    <2> DEFINE t == shown'[Len(shown')]
    <2>1. /\ sid \in Sid /\ owner[t] = sid
          /\ sid \notin hasty => t = Served(sid) /\ Served(sid) # NULL
      BY <1>1, Added
    <2>2. sid \notin hasty => currentUsername = Name(sid)
      BY <1>1, <2>1, NullApart DEF Session, PageFits, Screen
    <2>3. QED
      BY <2>1, <2>2 DEF Name
  <1>2. QED
    BY <1>1, SessionInvariant, PTL DEF Spec, HearsOwn

\* What reaches a page at its login screen came over a connection made for that
\* page, and over that of the login it waits for, unless its user logged in twice
\* without waiting.
THEOREM EarlyCorrect == Spec => EarlyIsAwaited
  <1>1. ASSUME Session, [Next]_vars, screen = "login", Len(shown') > Len(shown)
        PROVE  LET t == shown'[Len(shown')]
               IN  /\ owner[t] = sid
                   /\ sid \notin hasty => asked = sid /\ t = session[sid]
    <2> DEFINE t == shown'[Len(shown')]
    <2>1. /\ sid \in Sid /\ owner[t] = sid
          /\ sid \notin hasty => t = Served(sid) /\ Served(sid) # NULL
      BY <1>1, Added
    <2> HIDE DEF t
    <2>2. ASSUME sid \notin hasty PROVE asked = sid /\ t = session[sid]
      <3>1. Screen
        <4>1. sid # NULL /\ PageFits
          BY <1>1, <2>1, NullApart DEF Session
        <4>2. QED
          BY <2>2, <4>1 DEF PageFits
      <3>2. Greets(sid, loop) \/ Welcomes(emits[sid])
        BY <1>1, <2>1, <2>2, <3>1 DEF Screen
      <3>3. Waits(sid)
        BY <3>2 DEF Waits, Welcomes, Answers, Answer
      <3>4. QED
        BY <2>1, <2>2, <3>1, <3>3 DEF Screen, Served
    <2>3. QED
      BY <2>1, <2>2 DEF t
  <1>2. QED
    BY <1>1, SessionInvariant, PTL DEF Spec, EarlyIsAwaited
=============================================================================
