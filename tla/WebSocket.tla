----------------------------- MODULE WebSocket -----------------------------
(***************************************************************************)
(* The Socket.IO connections between a page and the web backend, as both    *)
(* web/static/js/chat.js and backend/chat_backend.py use them.  A page has  *)
(* one at a time and takes a new one after a logout or a loss; each has its *)
(* own request.sid.  Events of one connection are handled in their order,   *)
(* "disconnect" as the last; what the backend emits to one that is gone is  *)
(* dropped.                                                                 *)
(*                                                                         *)
(* Bounds: MaxSockets connections, MaxLogins logins.                        *)
(***************************************************************************)
EXTENDS Naturals, Sequences

CONSTANTS
    User,        \* names the page may log in with
    NULL,        \* nobody, or no connection
    MaxSockets,
    MaxLogins

Sid == 1 .. MaxSockets
Tcp == 1 .. MaxLogins    \* TCP connections of the backend to the chat server

ASSUME NullAssumption == NULL \notin User /\ NULL \notin Nat
ASSUME SizeAssumption == MaxSockets \in Nat /\ MaxLogins \in Nat

\* page to backend; as is whom the page showed when it was sent (ghost)
Ops   == {"login", "send", "private", "list", "disconnect"}
Event == [op : Ops, user : User \cup {NULL}, as : User \cup {NULL}]

\* What the chat server sends: prompts, the verdict, messages, user lists.
Item == {"USERNAME", "PASSWORD", "AUTH_SUCCESS", "AUTH_FAILED", "chat", "list"}

\* backend to page: for "chat" what one recv() gave, from which connection
Emission == [kind : {"welcome", "refused", "chat", "users", "error", "lost"},
             user : User \cup {NULL}, from : Tcp \cup {NULL}, parts : Seq(Item)]

VARIABLES
    web,      \* the page's end: "off" (not yet), "on", "closed"
    events,   \* events the backend has not handled
    emits     \* events the page has not handled

socketVars == <<web, events, emits>>

SocketInit ==
    /\ web    = [s \in Sid |-> "off"]
    /\ events = [s \in Sid |-> <<>>]
    /\ emits  = [s \in Sid |-> <<>>]

Plain(op, as) == [op |-> op, user |-> NULL, as |-> as]

Notice(kind) == [kind |-> kind, user |-> NULL, from |-> NULL, parts |-> <<>>]

\* emit(..., room=s)
Emit(s, e) == emits' = IF web[s] = "on" THEN [emits EXCEPT ![s] = Append(@, e)]
                                        ELSE emits

\* The page's end goes: the backend gets the first k pending events and
\* learns of it; what was on its way to the page is lost.
Hangup(s, k) ==
    /\ web' = [web EXCEPT ![s] = "closed"]
    /\ events' = [events EXCEPT ![s] =
                     Append(SubSeq(@, 1, k), Plain("disconnect", NULL))]
    /\ emits' = [emits EXCEPT ![s] = <<>>]
=============================================================================
