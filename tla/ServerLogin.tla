---------------------------- MODULE ServerLogin ----------------------------
(***************************************************************************)
(* The chat server before the chat, chat_server.c: the start-up of main(),  *)
(* user_db with the digests that the crypto driver computes for it, and     *)
(* the login of one connection by its handler, down to the bytes it reads.  *)
(* The server is one of the programs that use the device of CryptoModule.   *)
(* What happens to members among each other is the subject of ChatServer.   *)
(*                                                                         *)
(* Bounds: MaxRoom messages of other members to this one; the server is     *)
(* started again as long as nobody has connected.                           *)
(***************************************************************************)
EXTENDS CryptoModule, LoginStream

CONSTANTS
    server,      \* the server as a program that uses the device
    MaxRoom

ASSUME ServerAssumption == server \in Program /\ MaxRoom \in Nat

\* What the handler takes for a name or a password: where it was typed, the row of
\* user_db whose name or password it is, and whether it is a line as it was typed
\* or a piece of one.
Read    == [at : {"name", "password", "chat"}, val : 0 .. DB, whole : BOOLEAN]
Nothing == [at |-> "name", val |-> 0, whole |-> FALSE]

\* The digest of a password is known by its row; an entry that was never
\* filled in is zero, which is the digest of none.
Unset == -1

VARIABLES
    srv,             \* where main() is
    row,             \* init_user_database: i
    password_hash,   \* user_db[i].password_hash
    hpc,             \* where the connection's handler is
    username,        \* handle_client: username, as it was read
    password,        \* handle_client: password
    authenticated,   \* client_t.authenticated
    said,            \* ghost: where the lines were typed that it said in the room
    rooms            \* messages of other members to this one

serverVars == <<srv, row, password_hash>>
handler    == <<hpc, username, password, authenticated, said, rooms>>
device     == vars

SrvPc   == {"off", "open", "hash", "ioctl", "socket", "setsockopt", "bind",
            "listen", "accept"}
Handler == {"none", "hello", "user", "ask", "pass", "hash", "ioctl",
            "welcome", "deny", "recv", "gone", "dead"}

ServerInit ==
    /\ srv = "off" /\ row = 1
    /\ password_hash = [i \in Rows |-> Unset]
    /\ hpc = "none" /\ username = Nothing /\ password = Nothing
    /\ authenticated = FALSE /\ said = {} /\ rooms = 0

-----------------------------------------------------------------------------
(* main(): the start-up.                                                    *)

\* The process ends, and the kernel closes what it had open.
ServerExit ==
    /\ srv' = "off" /\ port' = FALSE
    /\ user' = [user EXCEPT ![server] = "off"]
    /\ hpc' = IF hpc = "none" THEN hpc ELSE "gone"
    /\ UNCHANGED <<mod, step, chrdev, class, node>>

StartServer ==
    /\ srv = "off" /\ link = "none"
    /\ srv' = "open" /\ password_hash' = [i \in Rows |-> Unset] /\ row' = 1
    /\ UNCHANGED <<device, stream, handler>>

\* init_crypto_driver
InitCryptoDriver ==
    /\ srv = "open"
    /\ \/ Open(server) /\ srv' = "hash" /\ UNCHANGED <<port, hpc>>
       \/ ServerExit
    /\ UNCHANGED <<row, password_hash, link, hung, down, up, torn, username,
                   password, authenticated, said, rooms>>

\* init_user_database calls md5_hash for each row, and goes on when that fails.
OneRowMore == row <= DB + 1                                        \* mutant
MoreRows == row <= DB

HashRow ==
    /\ srv = "hash" /\ MoreRows
    /\ Enter(server) /\ srv' = "ioctl"
    /\ UNCHANGED <<row, password_hash, stream, handler>>

RowHashed ==
    /\ srv = "ioctl"
    /\ Leave(server)
    /\ password_hash' \in {password_hash, [password_hash EXCEPT ![row] = row]}
    /\ srv' = "hash" /\ row' = row + 1
    /\ UNCHANGED <<stream, handler>>

DatabaseReady ==
    /\ srv = "hash" /\ ~MoreRows
    /\ srv' = "socket"
    /\ UNCHANGED <<row, password_hash, device, stream, handler>>

SetUpOrder == [socket |-> "setsockopt", setsockopt |-> "bind", bind |-> "listen",
               listen |-> "accept"]

\* socket, setsockopt, bind and listen; when one fails, main() closes the
\* device and returns.
SetUp ==
    /\ srv \in {"socket", "setsockopt", "bind", "listen"}
    /\ \/ /\ srv' = SetUpOrder[srv] /\ port' = (srv = "listen")
          /\ UNCHANGED <<device, hpc>>
       \/ ServerExit
    /\ UNCHANGED <<row, password_hash, link, hung, down, up, torn, username,
                   password, authenticated, said, rooms>>

\* The process is killed, by SIGPIPE or otherwise, or runs in main() into the
\* code of a module that is gone.
ServerDies ==
    /\ srv # "off"
    /\ ServerExit
    /\ link' \in IF link = "open" THEN {"closed", "reset"} ELSE {link}
    /\ UNCHANGED <<row, password_hash, hung, down, up, torn, username, password,
                   authenticated, said, rooms>>

-----------------------------------------------------------------------------
(* main(): the connection.  The kernel queues it until main() accepts it.   *)

\* close(client->socket): unread bytes turn it into a reset.
CloseLink == link' = IF link # "open" THEN link
                     ELSE IF up = <<>> THEN "closed" ELSE "reset"

\* accept() and the thread, or no memory, slot or thread for it
Accept ==
    /\ srv = "accept" /\ hpc = "none" /\ link = "open"
    /\ \/ hpc' = "hello" /\ UNCHANGED link
       \/ hpc' = "gone" /\ CloseLink
    /\ UNCHANGED <<device, serverVars, port, hung, down, up, torn, username,
                   password, authenticated, said, rooms>>

-----------------------------------------------------------------------------
(* handle_client: the login.                                                *)

Send(text) == down' = IF hung THEN down ELSE Append(down, Sent(text))

Prompt ==
    /\ hpc \in {"hello", "ask"}
    /\ IF hpc = "hello" THEN Send("USERNAME") /\ hpc' = "user"
                        ELSE Send("PASSWORD") /\ hpc' = "pass"
    /\ UNCHANGED <<device, serverVars, port, link, hung, up, torn, username,
                   password, authenticated, said, rooms>>

\* recv() into a buffer of 31 bytes that is cut at the first newline: of all it
\* returned the first line is used.  When that is a piece of one, the part before
\* or behind a cut, it may happen to be any name or password, or none.
ShortLine    == {l \in Line : ~l.long}
FirstLine(r) == LET l == Head(up).what
                IN  IF r.n > 0 /\ ~Head(up).rest
                    THEN {[at |-> l.at, val |-> l.val, whole |-> TRUE]}
                    ELSE [at : {l.at}, val : 0 .. DB, whole : {FALSE}]

RecvName ==
    /\ hpc = "user"
    /\ \E r \in Reads(up, ShortLine) :
          /\ username' \in FirstLine(r)
          /\ up' = Left(up, r) /\ torn' = (torn \/ r.tear)
    /\ hpc' = "ask"
    /\ UNCHANGED <<device, serverVars, port, link, hung, down, password,
                   authenticated, said, rooms>>

RecvPassword ==
    /\ hpc = "pass"
    /\ \E r \in Reads(up, ShortLine) :
          /\ password' \in FirstLine(r)
          /\ up' = Left(up, r) /\ torn' = (torn \/ r.tear)
    /\ hpc' = "hash"
    /\ UNCHANGED <<device, serverVars, port, link, hung, down, username,
                   authenticated, said, rooms>>

\* authenticate_user: md5_hash of the password
HashPassword ==
    /\ hpc = "hash"
    /\ Enter(server) /\ hpc' = "ioctl"
    /\ UNCHANGED <<serverVars, stream, username, password, authenticated, said, rooms>>

\* mutant: a failed md5_hash leaves the buffer as it was, here zero
AuthenticAnyway(hashed) ==
    /\ username.val \in Rows
    /\ password_hash[username.val] = IF hashed THEN password.val ELSE Unset

Authentic(hashed) ==
    hashed /\ username.val \in Rows /\ password_hash[username.val] = password.val

Authenticate ==
    /\ hpc = "ioctl"
    /\ Leave(server)
    /\ \E hashed \in BOOLEAN :
          IF Authentic(hashed) THEN authenticated' = TRUE /\ hpc' = "welcome"
                               ELSE hpc' = "deny" /\ UNCHANGED authenticated
    /\ UNCHANGED <<serverVars, stream, username, password, said, rooms>>

\* The module was unloaded: the thread ends in a kernel oops, without clean-up.
Oops ==
    /\ user[server] = "stale"
    /\ hpc \in {"hash", "ioctl"} /\ hpc' = "dead"
    /\ UNCHANGED <<device, serverVars, stream, username, password, authenticated,
                   said, rooms>>

Welcome ==
    /\ hpc = "welcome"
    /\ Send("AUTH_SUCCESS") /\ hpc' = "recv"
    /\ UNCHANGED <<device, serverVars, port, link, hung, up, torn, username,
                   password, authenticated, said, rooms>>

StayOn == hpc' = "recv" /\ UNCHANGED link                           \* mutant
HangUp == hpc' = "gone" /\ CloseLink

Deny ==
    /\ hpc = "deny"
    /\ Send("AUTH_FAILED") /\ HangUp
    /\ UNCHANGED <<device, serverVars, port, hung, up, torn, username, password,
                   authenticated, said, rooms>>

\* Another handler broadcasts; it can come between the flag and AUTH_SUCCESS.
RoomSpeaks ==
    /\ authenticated /\ hpc \in {"welcome", "recv"} /\ rooms < MaxRoom
    /\ Send("ROOM") /\ rooms' = rooms + 1
    /\ UNCHANGED <<device, serverVars, port, link, hung, up, torn, hpc, username,
                   password, authenticated, said>>

-----------------------------------------------------------------------------
(* handle_client: the chat, and the end.                                    *)

\* Of several lines in one recv() the first is handled.
RecvChat ==
    /\ hpc = "recv"
    /\ \E r \in Reads(up, Line) :
          /\ said' = said \cup {Head(up).what.at}
          /\ up' = Left(up, r) /\ torn' = (torn \/ r.tear)
    /\ UNCHANGED <<device, serverVars, port, link, hung, down, hpc, username,
                   password, authenticated, rooms>>

AtChat == {"recv"}                                                  \* mutant
Waits  == {"user", "pass", "recv"}

\* recv() returns 0 or -1.
RecvEnd ==
    /\ hpc \in Waits /\ hung /\ up = <<>>
    /\ HangUp
    /\ UNCHANGED <<device, serverVars, port, hung, down, up, torn, username,
                   password, authenticated, said, rooms>>

ServerSteps  == InitCryptoDriver \/ HashRow \/ RowHashed \/ DatabaseReady \/ SetUp
HandlerSteps == Accept \/ Prompt \/ RecvName \/ RecvPassword
                \/ HashPassword \/ Authenticate \/ Oops \/ Welcome \/ Deny
                \/ RecvChat \/ RecvEnd
=============================================================================
