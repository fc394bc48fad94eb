------------------------------ MODULE WebChat ------------------------------
(***************************************************************************)
(* A page and the web backend together: they share the Socket.IO            *)
(* connections of WebSocket and nothing else.                               *)
(***************************************************************************)
EXTENDS WebPage, WebBackend

vars == <<socketVars, pageVars, backendVars>>

Init == SocketInit /\ PageInit /\ BackendInit

PageStep     == Page /\ UNCHANGED backendVars
LoopStep     == EventLoop /\ UNCHANGED pageVars
ReceiverStep(t) == Receiver(t) /\ UNCHANGED pageVars
ServerStep(t)   == Server(t) /\ UNCHANGED pageVars

\* Nothing is under way and the user does nothing.
Quiet ==
    /\ loop = Idle /\ \A s \in Sid : events[s] = <<>> /\ emits[s] = <<>>
    /\ \A t \in Tcp : rpc[t] # "cleanup" /\ (rpc[t] = "recv" => rx[t] = <<>>)
    /\ UNCHANGED vars

Next ==
    \/ PageStep \/ LoopStep \/ Quiet
    \/ \E t \in Tcp : ReceiverStep(t) \/ ServerStep(t)

Spec == Init /\ [][Next]_vars

-----------------------------------------------------------------------------
\* The variables of page and backend, each for itself.
Ranges ==
    /\ web \in [Sid -> {"off", "on", "closed"}]
    /\ events \in [Sid -> Seq(Event)] /\ emits \in [Sid -> Seq(Emission)]
    /\ sid \in Sid \cup {NULL} /\ screen \in {"login", "chat"}
    /\ {currentUsername, selectedUser} \subseteq User \cup {NULL}
    /\ asked \in Sid \cup {NULL} /\ hasty \subseteq Sid
    /\ {disabled, listed} \subseteq BOOLEAN
    /\ timers \in Nat /\ logins \in 0 .. MaxLogins /\ sends \in 0 .. MaxSends
    /\ shown \in Seq(Tcp \cup {NULL})
    /\ session \in [Sid -> Tcp \cup {NULL}] /\ active \subseteq Tcp
    /\ owner \in [Tcp -> Sid \cup {NULL}] /\ account \in [Tcp -> User \cup {NULL}]
    /\ sock \in [Tcp -> {"none", "open", "closed"}]
    /\ rpc \in [Tcp -> {"off", "recv", "cleanup", "done"}]
    /\ connectionActive \in [Tcp -> BOOLEAN] /\ srv \in [Tcp -> SrvState]
    /\ rx \in [Tcp -> Seq(Item)] /\ says \in 0 .. MaxSays

\* Every variable of page and backend keeps its range: the page has one poll timer
\* for each login at most, and every message on it came over some connection.
WebTypeOK ==
    Ranges /\ timers <= MaxLogins /\ \A i \in DOMAIN shown : shown[i] # NULL

\* active_connections and the sockets agree although handle_disconnect and the
\* receiver both clean up: an entry has an open socket and a receiver that will
\* look at it again, or it is the closed one of a login whose receiver could not
\* be started; and a socket that is open is in the table or with the login in
\* progress.
StoredIsServed ==
    \A t \in Tcp :
        /\ t \in active => \/ /\ sock[t] = "open"
                             /\ rpc[t] \in {"recv", "cleanup"}
                          \/ /\ sock[t] = "closed"
                             /\ rpc[t] = "off"
        /\ sock[t] = "open" => t \in active \/ loop.conn = t

\* What a user types is sent over a connection made for his own page, and as the
\* name the page showed him, never over the connection of another login of the
\* page; as another name only when he logged in twice without waiting.
SpeaksAsShown ==
    \A m \in spoken : /\ owner[m.conn] = m.sid
                      /\ m.sid \notin hasty => account[m.conn] = m.as

\* While the page shows a user's chat, what is added to it came over a connection
\* made for this very page, and over that user's, not over one of an earlier or
\* later login, unless he logged in twice without waiting.
HearsOwn ==
    [][screen = "chat" /\ Len(shown') > Len(shown)
       => LET t == shown'[Len(shown')]
          IN  owner[t] = sid /\ (sid \notin hasty => account[t] = currentUsername)]_vars

\* The receiver thread runs before login_response is sent, so that the room
\* reaches a page at its login screen; but then only over a connection made for
\* this page, none that an earlier user left behind, and, unless he logged in
\* twice without waiting, over that of the very login the page waits for.
EarlyIsAwaited ==
    [][screen = "login" /\ Len(shown') > Len(shown)
       => LET t == shown'[Len(shown')]
          IN  owner[t] = sid /\ (sid \notin hasty => asked = sid /\ t = session[sid])]_vars

\* When a page has gone (tab closed, logout, network) and the backend has handled
\* that, it has called close() on the connection of the session, and on every one
\* it ever made for the page unless its user logged in twice without waiting; not
\* even a login that was still under way leaves one open.  (The server sees the
\* end when no recv() is waiting on the connection any more: SrvSeesClose.)
GoneIsClosed ==
    \A s \in Sid, t \in Tcp :
        web[s] = "closed" /\ events[s] = <<>> /\ loop.sid # s /\ owner[t] = s
        => (t = session[s] \/ s \notin hasty => sock[t] = "closed")

\* Every way out of a login answers it, also when a second one was sent meanwhile:
\* when nothing is on its way between page and backend, the page does not wait
\* for an answer with the button disabled.
LoginAnswered ==
    sid # NULL /\ loop = Idle /\ events[sid] = <<>> /\ emits[sid] = <<>>
    => ~(disabled /\ asked = sid)

\* LOGIN_FIX_TESTING.md: during a login the "button is disabled (can't click
\* again)".  No page sends a login while an earlier one is unanswered.
OneLoginAtATime == hasty = {}
=============================================================================
