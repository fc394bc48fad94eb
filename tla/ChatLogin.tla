----------------------------- MODULE ChatLogin -----------------------------
(***************************************************************************)
(* A login from end to end: the terminal client, the server that starts and *)
(* lets it in, and the driver module behind the server, which is loaded and *)
(* unloaded at any time (sudo insmod, sudo rmmod).                          *)
(***************************************************************************)
EXTENDS ChatClient, ServerLogin

login == <<client, serverVars, handler, device, stream>>

LoginInit == Init /\ StreamInit /\ ServerInit /\ ClientInit

LoginNext ==
    \/ (ClientSteps \/ Receiver \/ User) /\ UNCHANGED <<device, serverVars, handler>>
    \/ (StartServer \/ ServerSteps \/ ServerDies \/ HandlerSteps \/ RoomSpeaks)
         /\ UNCHANGED client
    \/ Module /\ UNCHANGED <<client, serverVars, handler, stream>>

LoginSpec == LoginInit /\ [][LoginNext]_login

-----------------------------------------------------------------------------
(* Safety.                                                                  *)

\* Every variable of client, server and connection keeps its range.
LoginTypeOK ==
    /\ port \in BOOLEAN /\ link \in LinkState /\ hung \in BOOLEAN /\ torn \in BOOLEAN
    /\ down \in Seq(Item(Texts)) /\ up \in Seq(Item(Line))
    /\ cpc \in ClientPc /\ rcv \in {"none", "recv", "print", "dead"}
    /\ fd \in BOOLEAN /\ eof \in BOOLEAN /\ chats \in 0 .. MaxChats
    /\ how \in {"running", "failure", "success", "exit", "signal"}
    /\ srv \in SrvPc /\ row \in 1 .. DB + 1
    /\ password_hash \in [Rows -> Rows \cup {Unset}]
    /\ hpc \in Handler /\ username \in Read /\ password \in Read
    /\ authenticated \in BOOLEAN
    /\ said \subseteq {"name", "password", "chat"} /\ rooms \in 0 .. MaxRoom

\* Nobody is let in unless what the handler read for the name and for the password
\* are a name and its password, whatever failed in between: a digest of user_db at
\* start-up, the digest of the password, or a read that tore a line and may have
\* made a right password of a wrong one.
AcceptedIsRight ==
    authenticated => username.val \in Rows /\ password.val = username.val

\* Somebody is in for a piece of what he typed: a recv() that ended inside his line
\* made a name or password of user_db of it.
InByPieces == authenticated /\ ~(username.whole /\ password.whole)

\* The handler takes for the name what was typed at the first prompt and for the
\* password what was typed at the second, as long as no recv() ends inside a text.
AnswersReachPrompts ==
    /\ hpc \in {"ask", "pass"} /\ ~torn => username.at = "name"
    /\ hpc \in {"hash", "ioctl", "welcome", "deny"} /\ ~torn =>
          username.at = "name" /\ password.at = "password"

\* Client and handler wait for each other only when the input of the client
\* ended in the middle of the login, or when a piece of a line let its user in
\* before the client had read what it would wait for.
NoStandoff ==
    /\ cpc \in {"prompt1", "prompt2", "verdict"} /\ down = <<>> /\ link = "open"
    /\ hpc \in Waits /\ up = <<>>
    => eof \/ InByPieces

\* As long as no recv() ends inside a text, the client lets its user chat only
\* when he is logged in, although it takes anything but AUTH_FAILED for a yes, a
\* message of the room that comes before AUTH_SUCCESS included; unless the server
\* is gone.
ChatsLoggedIn == cpc \in {"fork", "loop"} /\ ~torn /\ link = "open" => authenticated

\* What was typed at a prompt of the login is never said in the room, also when
\* prompts or lines were torn and client and handler are out of step, except by
\* somebody who was let in for a piece of a line.
PasswordStaysPrivate == said \subseteq {"chat"} \/ InByPieces

-----------------------------------------------------------------------------
(* Liveness.                                                                *)

LoginFair ==
    /\ LoginSpec
    /\ WF_login(ClientSteps /\ UNCHANGED <<device, serverVars, handler>>)
    /\ WF_login(Receiver /\ UNCHANGED <<device, serverVars, handler>>)
    /\ WF_login((Answer \/ NoAnswer) /\ UNCHANGED <<device, serverVars, handler>>)
    /\ WF_login(HandlerSteps /\ UNCHANGED client)

\* When the server ends the connection, the client ends: also when it reads a
\* prompt, waits for the user, or spins at the end of its input.
ClientFollows == link \in {"closed", "reset", "broken"} ~> cpc = "ended"

\* After "quit" the client ends, whatever its other thread is in.
QuitEnds == cpc = "close" ~> cpc = "ended"

\* However the client ends, its handler notices and ends too.
DepartureIsSeen == hung /\ hpc # "none" ~> hpc \in {"gone", "dead"}
=============================================================================
