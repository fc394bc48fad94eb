------------------------------ MODULE WebPage ------------------------------
(***************************************************************************)
(* One browser page, web/static/js/chat.js: login form, chat screen, the    *)
(* user selected for private messages, the timers that poll the user list,  *)
(* logout.  It runs one callback at a time.  While it has no connection it  *)
(* is taken to send nothing: Socket.IO keeps what it sends until it is      *)
(* connected again, and after a logout the form is empty for longer than    *)
(* the half second the new connection takes.                                *)
(*                                                                         *)
(* Bound: MaxSends messages and turns of the poll timers together.          *)
(***************************************************************************)
EXTENDS WebSocket, FiniteSets

CONSTANT MaxSends

ASSUME PageAssumption == MaxSends \in Nat

VARIABLES
    sid,               \* socket: the connection in use, or NULL
    screen,            \* "login" or "chat"
    currentUsername,
    selectedUser,
    disabled,          \* submitBtn.disabled
    asked,             \* the connection a login waits for its answer on (ghost)
    hasty,             \* those a login was sent on while one was waiting (ghost)
    timers,            \* setInterval timers that poll the user list
    listed,            \* the names of the user list are on the page
    shown,             \* for each message on the page, where it came from
    logins, sends      \* counted for the bounds

pageVars == <<sid, screen, currentUsername, selectedUser, disabled, asked,
              hasty, timers, listed, shown, logins, sends>>

PageInit ==
    /\ sid = NULL /\ screen = "login" /\ currentUsername = NULL /\ selectedUser = NULL
    /\ disabled = FALSE /\ asked = NULL /\ hasty = {} /\ timers = 0 /\ listed = FALSE
    /\ shown = <<>> /\ logins = 0 /\ sends = 0

\* socket.emit
ToBackend(e) == events' = [events EXCEPT ![sid] = Append(@, e)]

\* submit of the login form; the backend decides whether the password is right
Submit(u) ==
    /\ sid # NULL /\ screen = "login" /\ ~disabled /\ logins < MaxLogins
    /\ ToBackend([op |-> "login", user |-> u, as |-> NULL])
    /\ disabled' = TRUE /\ asked' = sid /\ logins' = logins + 1
    /\ hasty' = IF asked = sid THEN hasty \cup {sid} ELSE hasty
    /\ UNCHANGED <<web, emits, sid, screen, currentUsername, selectedUser,
                   timers, listed, shown, sends>>

\* setTimeout: ten seconds after a click the button is enabled, whether that
\* login, or one that was sent since, has been answered or not.
EnableAgain ==
    /\ disabled /\ disabled' = FALSE
    /\ UNCHANGED <<socketVars, sid, screen, currentUsername, selectedUser, asked,
                   hasty, timers, listed, shown, logins, sends>>

\* submit of the message form
SendMessage ==
    /\ sid # NULL /\ screen = "chat" /\ sends < MaxSends
    /\ ToBackend(Plain(IF selectedUser = NULL THEN "send" ELSE "private",
                       currentUsername))
    /\ sends' = sends + 1
    /\ UNCHANGED <<web, emits, sid, screen, currentUsername, selectedUser,
                   disabled, asked, hasty, timers, listed, shown, logins>>

\* setInterval: any of the timers, whatever the page shows by now
Tick ==
    /\ sid # NULL /\ timers > 0 /\ sends < MaxSends
    /\ ToBackend(Plain("list", currentUsername))
    /\ sends' = sends + 1
    /\ UNCHANGED <<web, emits, sid, screen, currentUsername, selectedUser,
                   disabled, asked, hasty, timers, listed, shown, logins>>

\* selectUser, clearUserSelection
Select(u) ==
    /\ screen = "chat"
    /\ u = NULL \/ (listed /\ u # currentUsername)
    /\ selectedUser' = u
    /\ UNCHANGED <<socketVars, sid, screen, currentUsername, disabled, asked,
                   hasty, timers, listed, shown, logins, sends>>

\* mutant: the socket is not disconnected
LogoutStays ==
    /\ sid # NULL /\ screen = "chat"
    /\ currentUsername' = NULL /\ shown' = <<>> /\ screen' = "login"
    /\ UNCHANGED <<socketVars, sid, selectedUser, disabled, asked, hasty, timers,
                   listed, logins, sends>>

\* The logout button.  Timers, selection and user list stay as they are.
Logout ==
    /\ sid # NULL /\ screen = "chat"
    /\ Hangup(sid, Len(events[sid])) /\ sid' = NULL
    /\ currentUsername' = NULL /\ shown' = <<>> /\ screen' = "login"
    /\ UNCHANGED <<selectedUser, disabled, asked, hasty, timers, listed, logins, sends>>

\* The connection breaks (external); some of what was sent may be lost.
Lose ==
    /\ sid # NULL
    /\ \E k \in 0 .. Len(events[sid]) : Hangup(sid, k)
    /\ sid' = NULL
    /\ UNCHANGED <<screen, currentUsername, selectedUser, disabled, asked, hasty,
                   timers, listed, shown, logins, sends>>

\* initSocket, when the page is loaded and after a logout; after a loss Socket.IO
\* reconnects by itself.
Connect(s) ==
    /\ sid = NULL /\ web[s] = "off" /\ \A r \in 1 .. s - 1 : web[r] # "off"
    /\ sid' = s /\ web' = [web EXCEPT ![s] = "on"]
    /\ UNCHANGED <<events, emits, screen, currentUsername, selectedUser, disabled,
                   asked, hasty, timers, listed, shown, logins, sends>>

\* mutant: a callback is called again for the same event
HearsAgain(kind) == /\ sid # NULL /\ emits[sid] # <<>> /\ Head(emits[sid]).kind = kind
                    /\ UNCHANGED emits

\* The callbacks for the events of the backend.
Hears(kind) == /\ sid # NULL /\ emits[sid] # <<>> /\ Head(emits[sid]).kind = kind
               /\ emits' = [emits EXCEPT ![sid] = Tail(@)]

\* handleLoginResponse, success: one more timer each time
HearWelcome ==
    /\ Hears("welcome")
    /\ currentUsername' = Head(emits[sid]).user /\ screen' = "chat"
    /\ disabled' = FALSE /\ asked' = NULL /\ timers' = timers + 1
    /\ ToBackend(Plain("list", currentUsername'))
    /\ UNCHANGED <<web, sid, selectedUser, hasty, listed, shown, logins, sends>>

\* handleLoginResponse, failure
HearRefused ==
    /\ Hears("refused") /\ disabled' = FALSE /\ asked' = NULL
    /\ UNCHANGED <<web, events, sid, screen, currentUsername, selectedUser, hasty,
                   timers, listed, shown, logins, sends>>

\* handleChatMessage: the texts that one recv() gave.  When they begin with a
\* private message, whose pattern does not span lines, none of several is shown.
Texts(e) == LET texts == {i \in DOMAIN e.parts : e.parts[i] # "list"}
            IN  [i \in 1 .. Cardinality(texts) |-> e.from]

HearChat ==
    LET e == Head(emits[sid])
    IN  /\ Hears("chat")
        /\ \/ shown' = shown \o Texts(e)
           \/ Len(e.parts) > 1 /\ UNCHANGED shown
        /\ UNCHANGED <<web, events, sid, screen, currentUsername, selectedUser,
                       disabled, asked, hasty, timers, listed, logins, sends>>

\* updateUserList
HearUsers ==
    /\ Hears("users") /\ listed' = TRUE
    /\ UNCHANGED <<web, events, sid, screen, currentUsername, selectedUser,
                   disabled, asked, hasty, timers, shown, logins, sends>>

\* "error" and "disconnect_event" put a line of text on the page.
HearNotice ==
    /\ \E kind \in {"error", "lost"} : Hears(kind)
    /\ UNCHANGED <<web, events, pageVars>>

Hear == HearWelcome \/ HearRefused \/ HearChat \/ HearUsers \/ HearNotice

Page ==
    \/ \E u \in User : Submit(u)
    \/ EnableAgain \/ SendMessage \/ Tick \/ Logout \/ Lose
    \/ \E u \in User \cup {NULL} : Select(u)
    \/ \E s \in Sid : Connect(s)
    \/ Hear
=============================================================================
