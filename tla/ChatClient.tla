----------------------------- MODULE ChatClient -----------------------------
(***************************************************************************)
(* The terminal client, chat_client.c: main() with the dialogue of the      *)
(* login and the loop that sends what the user types, and receive_messages, *)
(* the thread that prints what arrives.  Either of them ends the program.   *)
(*                                                                         *)
(* Bound: MaxChats lines typed after the login.                             *)
(***************************************************************************)
EXTENDS LoginStream

CONSTANTS
    Typed,       \* what the user may type: a set of lines
    MaxChats

ASSUME TypedAssumption == Typed \subseteq Line /\ MaxChats \in Nat

VARIABLES
    cpc,     \* where main() is
    rcv,     \* receive_messages: "none", "recv", "print", "dead"
    fd,      \* client_socket is open
    eof,     \* standard input has ended
    chats,   \* lines typed after the login
    how      \* how the program ended

client == <<cpc, rcv, fd, eof, chats, how>>

ClientPc == {"start", "prompt1", "fgets1", "prompt2", "fgets2", "verdict", "fork",
             "loop", "close", "cancel", "join", "ended"}

ClientInit ==
    /\ cpc = "start" /\ rcv = "none" /\ fd = FALSE
    /\ eof = FALSE /\ chats = 0 /\ how = "running"

\* The process ends: the kernel closes the socket.
End(status) == cpc' = "ended" /\ how' = status /\ hung' = TRUE

-----------------------------------------------------------------------------
(* main(): connecting and the login.                                        *)

\* socket, inet_pton, connect
Connect ==
    /\ cpc = "start"
    /\ \/ /\ port /\ link = "none"
          /\ link' = "open" /\ cpc' = "prompt1" /\ fd' = TRUE
          /\ UNCHANGED <<how, hung>>
       \/ End("failure") /\ UNCHANGED <<link, fd>>
    /\ UNCHANGED <<port, down, up, torn, rcv, eof, chats>>

\* mutant: reads both prompts before it answers
BothPromptsFirst == [prompt1 |-> "prompt2", prompt2 |-> "fgets1", fgets1 |-> "fgets2",
                     fgets2 |-> "verdict", verdict |-> "fork"]

\* What follows what, whether or not recv() and send() succeed.
After == [prompt1 |-> "fgets1", fgets1 |-> "prompt2", prompt2 |-> "fgets2",
          fgets2 |-> "verdict", verdict |-> "fork"]

PromptUnawaited == UNCHANGED <<down, torn>>                         \* mutant

PromptReceived ==
    \E r \in Reads(down, Texts) :
        down' = Left(down, r) /\ torn' = (torn \/ r.tear)

\* recv() of a prompt returned something, whatever it was.
RecvPrompt ==
    /\ cpc \in {"prompt1", "prompt2"}
    /\ PromptReceived
    /\ cpc' = After[cpc]
    /\ UNCHANGED <<port, link, hung, up, rcv, fd, eof, chats, how>>

\* recv() of the answer: AUTH_FAILED ends the program, and anything else,
\* AUTH_SUCCESS or not, is followed by the chat.
RecvVerdict ==
    /\ cpc = "verdict"
    /\ \E r \in Reads(down, Texts) :
          /\ down' = Left(down, r) /\ torn' = (torn \/ r.tear)
          /\ IF "AUTH_FAILED" \in Whole(down, r)
             THEN End("failure") ELSE cpc' = "fork" /\ UNCHANGED <<hung, how>>
    /\ UNCHANGED <<port, link, up, rcv, fd, eof, chats>>

Impatient == down = <<>>                          \* mutant: does not block

Finished == link \in {"closed", "reset", "broken"} /\ down = <<>>

\* recv() returns 0 or -1: a step of the login is left out, and main() goes on.
Skip == [prompt1 |-> "prompt2", prompt2 |-> "verdict", verdict |-> "fork"]

RecvNothing ==
    /\ cpc \in {"prompt1", "prompt2", "verdict"} /\ Finished
    /\ link' = IF link = "reset" THEN "broken" ELSE link
    /\ cpc' = Skip[cpc]
    /\ UNCHANGED <<port, hung, down, up, torn, rcv, fd, eof, chats, how>>

\* send() of one line.  A server that closed in order answers the first bytes
\* with a reset; a reset fails one call; after it send() raises SIGPIPE, which
\* ends the program.
SendLine(l, sent, failed) ==
    \/ link = "open" /\ up' = Append(up, Sent(l)) /\ cpc' = sent
       /\ UNCHANGED <<link, hung, how>>
    \/ link = "closed" /\ link' \in {"closed", "broken"} /\ cpc' = sent
       /\ UNCHANGED <<up, hung, how>>
    \/ link = "reset" /\ link' = "broken" /\ cpc' = failed
       /\ UNCHANGED <<up, hung, how>>
    \/ link = "broken" /\ End("signal") /\ UNCHANGED <<link, up>>

\* fgets() at a prompt, and send(), whose result nobody looks at.
Answer ==
    /\ cpc \in {"fgets1", "fgets2"} /\ ~eof
    /\ \E l \in Typed : /\ l.at = IF cpc = "fgets1" THEN "name" ELSE "password"
                        /\ SendLine(l, After[cpc], After[cpc])
    /\ UNCHANGED <<port, down, torn, rcv, fd, eof, chats>>

\* fgets() returns NULL: nothing is sent, and main() waits for the next text.
NoAnswer ==
    /\ cpc \in {"fgets1", "fgets2"}
    /\ eof' = TRUE /\ cpc' = After[cpc]
    /\ UNCHANGED <<stream, rcv, fd, chats, how>>

-----------------------------------------------------------------------------
(* main(): the thread and the loop.                                         *)

Fork ==
    /\ cpc = "fork"
    /\ \/ cpc' = "loop" /\ rcv' = "recv" /\ UNCHANGED <<hung, how>>
       \/ End("failure") /\ UNCHANGED rcv
    /\ UNCHANGED <<port, link, down, up, torn, fd, eof, chats>>

\* A line is typed and sent; a blank one or one of 4095 characters is not.
Say ==
    /\ cpc = "loop" /\ ~eof /\ chats < MaxChats
    /\ \E l \in Typed : l.at = "chat" /\ SendLine(l, "loop", "close")
    /\ chats' = chats + 1
    /\ UNCHANGED <<port, down, torn, rcv, fd, eof>>

\* "quit" or "exit"
Quit ==
    /\ cpc = "loop" /\ ~eof
    /\ cpc' = "close"
    /\ UNCHANGED <<stream, rcv, fd, eof, chats, how>>

\* The input ends: fgets() returns NULL at once from now on, for ever.
InputEnds ==
    /\ cpc = "loop" /\ ~eof
    /\ eof' = TRUE
    /\ UNCHANGED <<stream, cpc, rcv, fd, chats, how>>

\* close(): a recv() that the thread is in keeps the connection until it returns.
CloseClient ==
    /\ cpc = "close"
    /\ fd' = FALSE /\ hung' = (rcv # "recv") /\ cpc' = "cancel"
    /\ UNCHANGED <<port, link, down, up, torn, rcv, eof, chats, how>>

\* pthread_cancel(): a request, which the thread follows where it waits.
Cancel ==
    /\ cpc = "cancel"
    /\ cpc' = "join"
    /\ UNCHANGED <<stream, rcv, fd, eof, chats, how>>

Join ==
    /\ cpc = "join" /\ rcv = "dead"
    /\ End("success")
    /\ UNCHANGED <<port, link, down, up, torn, rcv, fd, eof, chats>>

-----------------------------------------------------------------------------
(* receive_messages                                                         *)

ReceiverReads ==
    /\ rcv = "recv" /\ cpc # "ended"
    /\ \E r \in Reads(down, Texts) :
          down' = Left(down, r) /\ torn' = (torn \/ r.tear)
    /\ rcv' = "print" /\ hung' = (hung \/ ~fd)
    /\ UNCHANGED <<port, link, up, cpc, fd, eof, chats, how>>

ReceiverPrints ==
    /\ rcv = "print" /\ cpc # "ended" /\ fd
    /\ rcv' = "recv"
    /\ UNCHANGED <<stream, cpc, fd, eof, chats, how>>

\* mutant: the thread returns, and main() goes on without it
ThreadReturns == rcv' = "dead" /\ UNCHANGED <<cpc, how, hung>>

\* exit(0), from the thread
ExitAll == End("exit") /\ UNCHANGED rcv

\* recv() returns 0 or -1, because the server is gone or main() has closed the
\* socket since.
ReceiverEnds ==
    /\ cpc # "ended"
    /\ \/ rcv = "recv" /\ Finished
       \/ rcv = "print" /\ ~fd
    /\ ExitAll
    /\ UNCHANGED <<port, link, down, up, torn, fd, eof, chats>>

NeverCancelled == FALSE                                            \* mutant
Cancelled      == cpc = "join"

\* Both recv() and printf() are cancellation points.
ReceiverCancelled ==
    /\ Cancelled /\ rcv \in {"recv", "print"}
    /\ rcv' = "dead" /\ hung' = TRUE
    /\ UNCHANGED <<port, link, down, up, torn, cpc, fd, eof, chats, how>>

Receiver == ReceiverReads \/ ReceiverPrints \/ ReceiverEnds \/ ReceiverCancelled

\* What the program does by itself, and what the user decides.
ClientSteps == Connect \/ RecvPrompt \/ RecvVerdict \/ RecvNothing \/ Fork
               \/ CloseClient \/ Cancel \/ Join
User == Answer \/ NoAnswer \/ Say \/ Quit \/ InputEnds
=============================================================================
