# A TLA+ development of the secure chat system

The repository is a chat system of five programs: a kernel driver that
encrypts and hashes (`driver/crypto_driver.c`), a TCP chat server that uses it
to check passwords (`chat_server.c`), a terminal client (`chat_client.c`), a
web backend that is a client of the server on behalf of browsers
(`backend/chat_backend.py`), and the page the browsers run
(`web/static/js/chat.js`). This directory holds TLA+ models of it, TLC runs
over small instances, and theorems whose proofs TLAPS checks for every value
of the constants.

    tlc -workers 2 -config ChatServerTable.cfg MCChatServer.tla    # one run
    tlapm ChatServerProofs.tla                                     # one module of proofs

`PROJECT.json` lists the components, the runs, for each property a mutated
definition that breaks it, the source lines of every definition, the hazards of
the code and the theorems.

## 1. Inventory

| component | state it keeps | operations | talks to |
|---|---|---|---|
| chat server, `chat_server.c` | `clients[]` of `MAX_CLIENTS` slots, `client_count`, `clients_mutex`, a `client_t` and a thread per connection, the sockets; `user_db[]`, filled at start-up with digests from the driver | start-up and accept / add / spawn in `main`; login, message loop and clean-up in `handle_client`; three scans of the table under the mutex: `send_message_to_all`, `send_user_list`, `send_private_message` | clients over TCP; the driver, for each user at start-up and for each password after (`md5_hash`) |
| crypto driver, `driver/crypto_driver.c` | a `crypto_session` (key, IV, two flags) per open file; no lock | open, release, `SET_KEY`, `SET_IV`, `GET_IV`, `ENCRYPT`, `DECRYPT`, `MD5_HASH` | programs, by ioctl |
| crypto module lifecycle, same file | major number, class, device node | init with its unwinding, exit | programs that have the device open |
| web backend, `chat_backend.py` | `active_connections` under `connection_lock`; the Flask session of each web connection (`session_id`, `username`); per login a TCP socket and a thread `tcp_receiver` with its `connection_active` | connect, login, send, user list, private message, disconnect; the receiver's loop and clean-up | server over TCP, pages over Socket.IO |
| web page, `chat.js` | login state, selected user, user list, poll timers | login, response, message, send, select, logout | backend over Socket.IO |
| terminal client, `chat_client.c` | socket, standard input, one receiver thread | connect, three `recv` and two `fgets` of the login, send loop, shutdown; the receiver's loop and its `exit()` | server over TCP, its user |
| headers, page layout, scripts, legacy programs | none at run time | - | - |

How they interact. A connection is one byte stream. The server prompts, the
peer answers twice, and the answer to the second is `AUTH_SUCCESS` or
`AUTH_FAILED`; from then on each line is a message or a command, and what the
peer receives is a mix of its own answers and what other handlers broadcast.
The backend is such a peer for each page that has logged in. The driver is
called by one handler at a time per open file, and in general by any threads
that share a file.

What is hard in it:

 * *Shared table.* Handlers scan pointers to structures that other threads allocate,
   fill in without the mutex, by stores that nothing orders, and free. `close()` comes
   before `remove_client()`, so that a number in the table can already belong to another
   connection.
 * *Blocking under the mutex.* Every scan sends with `clients_mutex` held.
 * *Failures in the middle.* A send fails for one of many receivers; a thread
   cannot be created after its slot was taken; a copy from user space faults
   half-way into the session's key.
 * *Byte streams.* Several lines can arrive in one `recv`, or a part of one, which may
   happen to be a right answer; the client takes one `recv` for one prompt, the handler
   one for one answer.
 * *Two threads in the client*, one of which closes the socket the other reads,
   and either of which ends the program; an input that ends anywhere.
 * *A device that goes away* under a server that has it open.
 * *No locks in the driver.* Two calls on one file interleave anywhere.
 * *Sentinels.* Two zero bytes at the front of a key or an IV mean "none".
 * *Two threads per login in the backend*: the event handlers and the receiver
   look up, close and delete the same entry.
 * *A page that goes at any time*: its login may still be under way, or it comes
   back as somebody else while the receiver of its last login runs.
 * *A login button that comes back after ten seconds* while the waits of the backend
   for one login add up to twenty-one.

What makes each part correct, in a sentence:

 * server: the table, its count, the descriptors and the threads agree; one
   order of messages for all members; departed clients are reaped;
 * driver: a request uses key and IV of its own file, and on a file with one user it
   is served as if in one step; no path leaks memory;
 * module: loading is all or nothing;
 * backend: a session, its socket and its receiver live and die together, and
   with the page;
 * page: it speaks and hears over its own connections and as the user it shows, and
   every login is answered;
 * login from end to end: each answer goes to its prompt, nobody is let in unless a
   name and its password were read, client and handler never wait for each other, and each
   notices the end of the other.

## 2. Modules

| module | models | notes |
|---|---|---|
| `ChatServer` | `chat_server.c` | one action per step of `main` and of a handler between two points where others can see it; the peers and `send(2)` are external |
| `ChatServerProperties` | - | types, invariants, action properties, liveness, and what the documents say |
| `ChatRoom` | what a reader of the code expects of the room | abstract specification, implemented by `ChatServer` |
| `LoginStream` | the two byte streams of one connection | external; a read ends anywhere |
| `ChatClient` | `chat_client.c` | extends `LoginStream`; `main` and the thread `receive_messages` |
| `ServerLogin` | start-up, `user_db`, and the login of one handler of `chat_server.c` | extends `LoginStream` and `CryptoModule`: the server is a program that uses the device |
| `ChatLogin` | client, server and driver module together | with its properties |
| `CryptoBlocks` | keys, IVs, ciphertexts | what `CryptoDriver` and `CryptoService` have in common |
| `CryptoDriver` | the device's file operations | one action per access to a session, half a block at a time |
| `CryptoService` | what the user of a file expects of the device | abstract specification, implemented by `CryptoDriver` |
| `CryptoDriverProperties` | - | invariants, what the documents say, and the refinement mapping |
| `CryptoModule` | `module_init`, `module_exit` | with its properties; part of `ServerLogin` |
| `WebSocket` | the Socket.IO connections between page and backend | the state that both share |
| `WebPage` | `chat.js` | extends `WebSocket`; one action per callback |
| `WebBackend` | `chat_backend.py` | extends `WebSocket`; the handlers, the receivers, and the chat server as an external |
| `WebChat` | page and backend together | with its properties |
| `MCChatServer`, `MCChatLogin`, `MCCryptoDriver`, `MCCryptoModule`, `MCWebChat` | - | model values and the sets that the `.cfg` files choose from |
| `ChatServerProofs`, `ChatRoomProofs`, `ChatScanProofs` | - | theorems about `ChatServer` |
| `ChatLoginProofs`, `CryptoModuleProofs` | - | theorems about `ChatLogin` and about `CryptoModule`, which the first extend |
| `CryptoDriverProofs`, `CryptoSessionProofs` | - | theorems about `CryptoDriver`, with any sharing of files and without |
| `WebChatProofs` | - | theorems about `WebChat` |

### ChatServer

A member of `Conn` is a connection together with the `client_t` allocated for
it. `pc[c]` is where its handler is: `hello`, `user`, `ask`, `pass` (the two
prompts and the two `recv`), `setauth`, `welcome` or `deny`, then the loop
`recv`, `reply`, `lock`, `scan`, and `close`, `remove` at the label `cleanup`.
`mainPc` is the same for `main`. The rest of the state carries the names of
the C variables: `clients`, `client_count`, `id`, `sock` (`client_t.socket`),
`username`, `authenticated`, `mutex`, `idx` (the loop index of the scan).

Three things are modelled with more care than a first sketch would:

 * `owner` maps a descriptor *number* to the connection behind it, and
   `send()` goes through the number that `client_t.socket` holds. `accept()`
   takes the lowest free number. This is what makes the window between
   `close()` and `remove_client()` visible.
 * `Deliver`, the kernel's `send(2)`: it fails with EBADF on a closed number,
   appends to what an open peer has received, blocks while the peer's window
   is full, is accepted and lost towards a peer that has closed, fails once on a
   reset connection and kills the process with SIGPIPE after that.
 * The scans take one action per slot, so that logins and new connections happen between
   two turns of a loop. A login stores name and flag without the mutex, and nothing in C
   orders these plain stores for other threads: either can be the first that a scan sees
   (`RecvPassword`, `SetAuthenticated`), and a name that is not there yet reads as
   whatever `malloc()` left in the structure (`ReadName`). `Joining` are the connections
   between these stores and the mutex they take for "X joined". The mutex is held from
   `Lock` to `EndAll`, `EndList` or `EndOne`.

Abstracted: the text of messages; the buffers and a line split over several
`recv` calls. The login is two answers that `authenticate_user` accepts or
refuses, and the start-up is done: `ServerLogin` has both in detail. `malloc`
failing is kept. `aes_encrypt_msg` and `aes_decrypt_msg` have no caller. `stamp` and
`crowd` are ghosts: the number of the current broadcast or private message, and
who was in the room when the scan began.

### LoginStream, ChatClient, ServerLogin, ChatLogin

One connection, seen closely. `up` and `down` are what client and server have sent
and the other has not received, as a sequence of texts. `Reads` gives the ways a
`recv()` can end: after any number of texts, or inside one (`tear`), whose rest
stays in the stream; a line too long for the server's 31 bytes is always torn.
`link` is the connection at the client's socket: a server that closes with unread
bytes makes it `reset`, and `broken` is the state in which the next `send()` raises
SIGPIPE. `hung` says that the client's end is closed, `torn` (ghost) that some
read ended inside a text.

A line is where it was typed (`at`: name, password or chat), the row of `user_db`
whose name or password it is, and whether it is too long. This is all the
properties tell apart. What the handler takes for a name or a password (`Read`) is also
`whole` or not: the part of a line before a cut or behind it may happen to be any name or
password, or none (`FirstLine`), as when `password123xyz` is read as `password123`.
`InByPieces` is the case that this let somebody in.

`cpc` is where the client's `main()` is: `prompt1`, `fgets1`, `prompt2`, `fgets2`,
`verdict`, `fork`, `loop`, then `close`, `cancel`, `join`; `rcv` the same for its
thread. A `recv()` in the login that fails leaves a step out (`RecvNothing`), as
the code's `if (bytes > 0)` does, and whatever is not `AUTH_FAILED` lets the client
chat (`RecvVerdict`). A `close()` under the thread's `recv()` keeps the connection
until that call returns (`CloseClient`, `ReceiverReads`).

`srv` is where the server's `main()` is in the start-up: device, digests, `socket` to
`listen`, `accept`. A digest that fails leaves the entry of `user_db` at zero
(`RowHashed`), and the server goes on. `hpc` is where the handler is. Both call into the
driver as the program `server` of `CryptoModule` (`Enter`, `Leave`), so that `rmmod` at
any time leaves them in code that is gone: the handler then ends without clean-up
(`Oops`). The process may be killed at any time (`ServerDies`) and be started again. The
room is one source of texts to the client (`RoomSpeaks`), and what the handler says in
the room is remembered in `said` (ghost).

### CryptoBlocks, CryptoDriver, CryptoService

A key or an IV is a pair of halves, and copying one is two steps. `Zero` is the
value of a half that begins with two zero bytes: all the driver looks at.
A text is its length, a ciphertext (`Box`) the text, key and IV that made it
together with the IV that `ENCRYPT` reported. Decrypting with another key or IV
gives `Garbled`. `pc[c]` walks through `device_ioctl` and into
`aes_cbc_encrypt`, `aes_cbc_decrypt` and `compute_md5`; `held[c]` is the kernel
memory the call has and not yet freed. `FlagEarly` and `ReadOnce` are choices
the compiler has, since nothing orders the plain stores of `ENCRYPT`.
`device_release` runs when no call is inside the file. A caller respects the
header: `input_len` is at most `MAX_DATA_SIZE`. A copy that faults has moved the
halves before the fault and zeroes the rest, as `copy_from_user` does. `last` is a
ghost: key and IV of a session as their flag was last raised, or as a copy that
failed left them.

`CryptoService` has no halves, labels or flags. A file has a key or none and an IV or
none; each request (`Ask`) is answered in one step, from what its file has in that
step. What the driver does that a user can tell from such a service is said there
in the open: `SetFaults` leaves a torn block where there was one, `DrawIv` gives a file an IV
for a request that may fail afterwards, `Choice` passes over a block that
begins with zero bytes, and a request with a key of its own is still refused on a file without
one (`Refuse`).

The mapping is in `CryptoDriverProperties`. A file has the key that `last` names while its flag
is up (`FileKey`), and so for the IV (`FileIv`), except between the stores with
which an `ENCRYPT` makes the IV it drew the session's, in whichever order the compiler put
them (`Drawing`): for the service that IV is there when both are done.
`Pending` and `Replies` are the call of a thread while it is inside, and what it returned
with. Requests take effect at the step that raises a flag, at a copy that faults, and
otherwise where the call ends.

### CryptoModule

`step` walks through `crypto_driver_init` and `crypto_driver_exit`. Programs open
the node when it exists, call, and close. `file_operations` has no `.owner`, so
nothing refuses `Rmmod`; when the code is gone, open files become `stale`.

### WebSocket, WebPage, WebBackend, WebChat

A member of `Sid` is a `request.sid`, one connection of the page; a member of `Tcp` is
a connection of the backend to the server and the `session_id` made for it.
`events[s]` and `emits[s]` are what page and backend have sent each other and the
other has not handled. A connection that ends (`Hangup`: logout, closed tab,
network) leaves the backend a prefix of the events and then `disconnect`.

The handlers of the backend run one at a time, since eventlet is not monkey-patched and
a `recv()` in a handler holds the loop; `loop` is the one that runs. `handle_login`
takes a step per wait: the two prompts and the verdict, each found (`Finds`, with
whatever came in the same read), or given up; then `LoginStarts` and `LoginWelcomes`,
between which the receiver thread already runs. When the thread cannot be started
(`LoginStartFails`) the socket is closed, the page told, and `session_id` and the entry
of `active_connections` stay. A handler that sends looks the socket up under the lock
(`LookUp`) and uses it after (`Write`). `tcp_receiver` is `Forward`, `ReceiverEnds`,
`Cleanup`. A socket that is closed while the receiver polls it stays open for the server
until `poll()` returns, at the next data or after 30 seconds (`SrvSeesClose`).

`WebPage` names its state after `chat.js`: `currentUsername`, `selectedUser`,
`submitBtn.disabled`, the screen, the number of poll timers. Ghosts: `asked`, the
connection on which a login waits for its answer, `hasty`, the connections on which a
login was sent while one was waiting, and `spoken`, for each message
sent whom the page showed and whose connection carried it. What the page draws
and what messages say is left out; whether a password is right is the backend's
choice. The button comes back ten seconds after a click (chat.js:83) whatever became of
that login (`EnableAgain`), so that a user may log in again at any time.

## 3. Runs

### Runs that pass

| run | properties | instance | what it shows |
|---|---|---|---|
| `table` | `SlotsAgree` `TableIsLive` `CountMatches` `FdsAgree` `TableStableDuringScan` | 3 connections, 2 slots, 3 descriptors, two peers that leave | the table, the count, the descriptors and the freed structures stay in step through full tables, failed allocations and threads, logins and departures |
| `order` | `TotalOrder` `BroadcastReachesCrowd` | 3 connections, 3 slots, one talks twice and leaves while two join | one order for all receivers; no member that stays is missed |
| `lines` | `TypeOK` `ListFaithful` `PrivateToOne` `RefusedIsUndelivered` `ImplementsRoom` | 2 sessions of one user, two lines of any kind from one, the other may stop reading or leave | the list has one entry for each member, and names those whose login is over, although logins do not take the mutex; a private message is delivered at most once and the sender is told the truth; `ChatServer` implements `ChatRoom` |
| `live` | `DepartedIsReaped` `BacklogIsServed` `LockIsGranted` | 2 connections, fair | clean-up, service, no starvation |
| `shared_file` | `DriverTypeOK` `NothingLeaks` `SessionKeyWasSet` | 2 threads, 2 files of which one is shared, every command and every failure | no leak, nothing freed twice, and a request only ever uses key halves put there through its own file since it was opened |
| `private_file` | `SessionPersists` `ReturnedIvDecrypts` `ImplementsService` | 1 thread, 5 calls, every failure, a drawn IV that begins with zero bytes | the session keeps its key and IV; the returned IV decrypts unless it looks like none; `CryptoDriver` implements `CryptoService` |
| `login` | `LoginTypeOK` `AcceptedIsRight` `AnswersReachPrompts` `NoStandoff` `ChatsLoggedIn` `PasswordStaysPrivate` `NothingLeftBehind` `NodeIsServed` `ClientFollows` `QuitEnds` `DepartureIsSeen` | one client, one user in `user_db`, the right and a wrong password, reads that end anywhere, fair | nobody is let in unless a name and its password were read, whichever digest failed; name and password are read at their prompts as long as no read tears a line, and not said in the room even then, except by somebody who was let in for a piece of a line; the client lets its user chat only when he is logged in, although a message of the room can come before `AUTH_SUCCESS` (as long as no read tears a text); client and handler wait for each other only at the end of the input, or when a piece of a line let somebody in; the client ends when the server or its user leaves, and the handler when the client does; loading is all or nothing while the server comes and goes |
| `page` | `WebTypeOK` `StoredIsServed` `SpeaksAsShown` `GoneIsClosed` `LoginAnswered` `HearsOwn` `EarlyIsAwaited` | a page with 2 users, 2 web connections, 2 logins at any time | an entry of `active_connections` has an open socket and a receiver, or the closed one of a login whose receiver could not start, and no other socket is open; what a page sends and shows goes over connections made for it; a page that left has its session's connection closed, a login under way included; every login is answered. Unless the user logged in twice without waiting: what he types and sees belongs to the name on the page, all connections made for it are closed, and what comes before an answer comes from the login it belongs to |

Every property of these runs has a mutant in `PROJECT.json`: a definition of the
code's model changed as a plausible bug would, with which TLC finds the
property violated.

### Runs that show the code doing something else than a document says

| run | property | what happens | the document |
|---|---|---|---|
| `members` | `MembersOnly` | `close()` at line 491 frees the number, `accept()` reuses it, and a broadcast reaches a connection at its login prompt before line 492 takes the old client out of the table | DOCUMENTATION.md:21 |
| `signal` | `ServerSurvives` | the second send to a reset connection raises SIGPIPE | ARCHITECTURE.md:389 |
| `unload_in_use` | `NotUnloadedInUse` | `rmmod` succeeds while the device is open | TROUBLESHOOTING.md:284 |
| `login_twice` | `OneLoginAtATime` | the timer of a click enables the button after ten seconds although no answer came, and a second login is sent (chat.js:83) | LOGIN_FIX_TESTING.md:93 |

### Other behaviour worth knowing

The models also contain behaviour that a document leaves open or that no run
states as a property, because it is the plain meaning of the code:

 * `authenticated` is set at chat_server.c:390, before `AUTH_SUCCESS` goes out at
   line 391: a broadcast of another handler can come first (ARCHITECTURE.md:233
   shows the opposite).
 * Of several lines that arrive in one `recv` only the first is handled
   (chat_server.c:407, `RecvLine`).
 * A private message stops at the first session of its user even when the send
   to it fails (chat_server.c:342, `AfterMatch`): a dead session hides a live one.
 * A user list or a private message that meets a login half stored
   (chat_server.c:388-390) takes whatever the memory of the new client holds for his
   name (`ReadName`): the list has such an entry, and the message may go to him.
   `ListFaithful` is about the others.
 * `SET_KEY` and `SET_IV` copy straight into the session. A copy that faults
   half-way spoils what was there while the flag stays up (crypto_driver.c:284,
   `SaveFaults`), and the next request is served with the torn block: `CryptoService` has
   it as `SetFaults`.
 * `ENCRYPT` reads the session's IV twice (crypto_driver.c:346-347). When another
   thread sets an IV on the same file in between, the IV it reports is not the one
   it used; `ReturnedIvDecrypts` and `ImplementsService` are checked with one thread per file.
 * `ENCRYPT` raises the flag of an IV it drew with a plain store after the IV itself
   (crypto_driver.c:350-352); a compiler may swap them (`FlagEarly`), and another thread
   of the file then encrypts with an IV that is not there yet.
 * Once a session has an IV every message of it uses that one
   (crypto_driver.c:345; DEVELOPMENT_SUMMARY.md:132 has one IV per message).
 * A request that brings its own key is refused on a session without one
   (crypto_driver.c:329; DEVELOPMENT_SUMMARY.md:105).
 * `DECRYPT` returns the padded length (crypto_driver.c:404, `Run`).
 * Without the assumption that peers read, one peer blocks `send()` under the mutex
   and no other handler goes on (chat_server.c:280): `DepartedIsReaped` fails
   without the fairness of `PeerResume` (ARCHITECTURE.md:390 has clients that
   disconnect cleaned up).
 * A drawn IV that begins with two zero bytes is returned and then ignored by
   `DECRYPT`, which takes the session's (crypto_driver.c:387;
   DEVELOPMENT_SUMMARY.md:101). `ReturnedIvDecrypts` is about IVs that do not begin so,
   and `Choice` says what becomes of the others.
 * `ENCRYPT` rounds the length of a text up to a multiple of 16 (crypto_driver.c:361,
   `Padded`); what stands in the buffer behind the text is encrypted with it.
 * `crypto_driver_exit` calls `class_unregister` and then `class_destroy`, which
   unregisters once more a class that is gone (crypto_driver.c:456-457).
 * The terminal client takes any answer but `AUTH_FAILED` for a success
   (chat_client.c:115-139; ARCHITECTURE.md:203 has "If AUTH_SUCCESS"): with a prompt that
   comes in two reads it answers before it is asked and chats without a login
   (`RecvVerdict`), and the server reads its first line as a password.
 * A name or password longer than the server's buffer, or torn by a read, leaves its
   tail in the stream, where it is the next answer (chat_server.c:362-384). The part
   that was read is compared like a whole line: of `password123xyz`, torn after 11
   bytes, the first part lets the user in, and the rest is his first message.
   `AnswersReachPrompts` is about the runs in which no read ends inside a text;
   `NoStandoff` and `PasswordStaysPrivate` name the exception (`InByPieces`).
 * Once its input has ended in the loop the client calls `fgets` without pause
   (chat_client.c:147), and ends when the server does (`ClientFollows`). At a prompt it
   sends nothing, and client and handler wait for each other until somebody ends one of
   them: the exception in `NoStandoff`.
 * The client has no handler for SIGPIPE either: after a send that a reset answered the
   next one ends it (`SendLine`; ARCHITECTURE.md:398 has "Exit gracefully").
 * When the digest of a user cannot be computed at start-up the server prints him among the
   available users (chat_server.c:554), and he cannot log in (`RowHashed`, `Authentic`).
 * `rmmod` under a running server ends the thread of the next login in the kernel;
   its connection stays open and its client waits (`Oops`).
 * A second login of the same web connection replaces
   `session_id` (chat_backend.py:257): the first TCP connection stays when the
   page goes, its messages come to the page of the other name, and what is typed
   before the second answer goes out as the second user. `SpeaksAsShown`, `HearsOwn`,
   `EarlyIsAwaited` and `GoneIsClosed` say what holds even then, and what only for a page
   whose user waited (those not in `hasty`).
 * When the receiver thread cannot be started (chat_backend.py:271, 287-298) the closed
   socket stays in `active_connections` until its page goes, and for good if another login
   replaces `session_id` first. Messages sent meanwhile are answered with an error.
 * The page is not told that the server ended its session: every way out of the receiver's
   loop clears `connection_active`, so that the `disconnect_event` of chat_backend.py:160
   is never emitted (CONNECTION_FIX_SUMMARY.md:227 has "User is properly notified"). The page
   learns "Connection lost" at its next poll or message (`LookUp`).
 * `close()` under a receiver in `poll()` does not end the connection: the server sees
   the end, and the user stays in the room, until data comes or 30 seconds are over
   (`SrvSeesClose`).
 * What comes with `AUTH_SUCCESS` in one read is lost (`Finds`). What the receiver
   forwards before `login_response` is put on the page behind the login screen, and is
   still there if the connection is lost and another user logs in; `HearsOwn`
   is about what is added while the chat is shown.
 * Several messages read at once are one message to the page: a user list in front
   swallows them, a private message in front shows nothing (`Forward`, `Texts`).
 * After the web connection was lost the page comes back with a new session and
   still shows the chat: each message is answered "Not logged in" (`LookUp`).
 * Logout stops no poll timer and clears neither `selectedUser` nor the list
   (`Logout`): polls add up with each login, and the next user's first message
   is private to the last user's choice.

### Bounds

Connections, users, slots, descriptors, callers and files are sets of two or three. Two
slots for three connections is the least that has a full table, a reused slot and a
bystander; three descriptors let a third connection take a number while a broadcast of
the second visits the slot of the first. A peer types `MaxLines` lines, up to two: two
meet in a buffer, and with the announcements of those who join, two messages of
different handlers are under way at once. A connection connects once: a client that
returns is another member of `Conn`. `MaxCalls` bounds the calls of a thread on the
device: two where threads and files meet, five for one thread: set key, set IV, encrypt,
change, decrypt, each of which may fail. Three or four halves (zero, two or more others)
tell apart a whole block, a torn one and an absent one. In `login` one user in `user_db`
(`DB`), his password and a wrong one tell a right login from a wrong one; the pieces of
these, which may be anything, stand for other names and for lines that do not fit (the
theorems have lines of any length); one line of chat and one text of the room
(`MaxChats`, `MaxRoom`) let the chat reach back into the login and the room speak before
`AUTH_SUCCESS`; the server is started again only while nobody has connected, since one
connection is the subject, and `ChatServer` has several. The page has two connections
and two logins (`MaxSockets`, `MaxLogins`): one that fails, is lost or not answered yet,
and one after it, as the same or another user; one message of the room and one of the
page (`MaxSays`, `MaxSends`), beside prompts, verdicts, errors and user lists, suffice
to be sent or shown under a wrong name. Symmetry is used in `table` and `order`, over
the connections that the configuration treats alike, and in `page` over the two users;
no run with a liveness property uses it.

### Fairness

`ServerFairness` is weak fairness of `main` and of each handler's own steps: the
kernel schedules every runnable thread. It does not include logins (the peer
may never answer a prompt), lines, or departures. Weak fairness of a thread is
enough for the mutex here, since the number of lines and connections is bounded
and so each thread asks for it finitely often; a pthread mutex gives no more than
that. `FairSpec` adds that a peer that stopped reading reads again some day,
which TCP does not promise; the liveness properties need it.
`LoginFair` is weak fairness of the client's `main()`, of its thread and of the handler, which
the kernel schedules, and of the user at a prompt, who answers or ends
the input: a client at `fgets` has no way to see that the server is gone.
It does not include what the user says or whether he quits, the
end of any process, or the module. `DepartureIsSeen` allows a handler that ended
in the code of a module that is gone (`dead`).

The properties of the page and the backend are invariants of what must hold when
an event was handled or nothing is under way, and need no fairness; a step
`Quiet` marks the states where all parts wait for the user, so that any other
halt is a deadlock and found.

## 4. Proofs

Each theorem is about the specification that the runs check, for any sets of
connections, users, slots, descriptors, callers, files, programs and sessions, and any bound,
under the named assumptions next to the CONSTANTS. What a theorem assumes beyond
those is written in its statement.

| module | theorems | property |
|---|---|---|
| `ChatServerProofs` | `Invariant`, `TypeCorrect`, `SlotsCorrect`, `TableCorrect`, `FdsCorrect`, `CountCorrect`, `ScanCorrect`, `OrderCorrect` | `IInv`, `TypeOK`, `SlotsAgree`, `TableIsLive`, `FdsAgree`, `CountMatches`, `TableStableDuringScan`, `TotalOrder` |
| `ChatRoomProofs` | `RoomImplemented` | `ImplementsRoom` |
| `ChatScanProofs` | `PrivateCorrect`, `RefusalCorrect`, `BroadcastCorrect`, `ListCorrect` | `PrivateToOne`, `RefusedIsUndelivered`, `BroadcastReachesCrowd`, `ListFaithful` |
| `ChatLoginProofs` | `LoginInvariant`, `LoginTypeCorrect`, `AcceptCorrect`, `AnswersCorrect`, `NoStandoffCorrect`, `ChatsCorrect`, `PasswordCorrect`, `LoginDeviceCorrect` | `LoginInv`, `LoginTypeOK`, `AcceptedIsRight`, `AnswersReachPrompts`, `NoStandoff`, `ChatsLoggedIn`, `PasswordStaysPrivate`, `NothingLeftBehind` and `NodeIsServed` |
| `CryptoModuleProofs` | `ModuleInvariant`, `LoadCorrect`, `NodeCorrect` | `ModuleInv`, `NothingLeftBehind`, `NodeIsServed` |
| `CryptoDriverProofs` | `DriverTypeCorrect`, `NothingLeaksCorrect`, `SessionKeyCorrect` | `DriverTypeOK`, `NothingLeaks`, `SessionKeyWasSet` |
| `CryptoSessionProofs` | `SessionCorrect`, `ReturnedIvCorrect`, `ServiceImplemented` | `SessionPersists`, `ReturnedIvDecrypts`, `ImplementsService` (assuming `OneUser`) |
| `WebChatProofs` | `StoredCorrect`, `WebTypeCorrect`, `SpeaksCorrect`, `GoneCorrect`, `AnsweredCorrect`, `HearsCorrect`, `EarlyCorrect` | `StoredIsServed`, `WebTypeOK`, `SpeaksAsShown`, `GoneIsClosed`, `LoginAnswered`, `HearsOwn`, `EarlyIsAwaited` |

So every invariant and action property of the passing runs has a theorem, and so have
both refinements. Few of these invariants are inductive by themselves; the rest
of this section says what had to be added, and why.

### The server

`IInv` joins the types to

 * `TableInv`: `MainHolds` (the connection `main` is busy with and where that
   connection is, so that `main` and a handler never own the same one),
   `SocketsSet` (a connection that was accepted keeps its number), and the three
   parts to be proved. `SlotsAgree` needs `TableIsLive`, because `Register` must
   not overwrite the index of a client that is already in the table; that
   needs `MainHolds`; `FdsAgree` needs `SocketsSet`;
 * `CountMatches`, which rests on two cardinality lemmas about taking a slot and
   giving it back;
 * `MutexIsScan`: a handler holds the mutex exactly while it scans, and hence at
   most one scans;
 * `JobFits`: the call of a handler fits its program counter, which bounds the
   index of the scan and the kinds of message it sends;
 * `NameSet`: a handler past `setauth` whose flag is up has a user name, and at `setauth`
   one of the two stores is made.

The step theorem splits on the disjuncts of `Next`; steps that share what they
leave alone share a lemma (peers, `main`, login, handler, scan), and `Deliver` has
lemmas of its own. `OrderCorrect` uses a second invariant on top of `IInv`:
`ScanIsLast`, the scan in progress carries the last number given, and
`SeenBefore`, no peer has a message with a later number. Since a number is given
out only when the mutex is taken, and by `MutexIsScan` nobody else scans then,
what is sent is never older than what a peer has.

`RoomImplemented` maps the numbers of the messages that peers have received to the
room: a scan is a message being published (`Begin` with the mutex, `Receive` for
each slot, `End`). The mapping takes the last message a client received, and `HasLast` says
that there is one.

`ChatScanProofs` follows a message through the scan. `PrivateInv` says that while a
private message looks for its user nobody has it, that a delivered one ends the search,
and that the answer "not found" is only on its way for a number nobody has received.
`CrowdInv` says the same for scans of all slots: everybody of the crowd who is still up
has the message or stands at an index that the scan has not reached (`Reached`), and
correspondingly for the list of names (`Listed`). It rests on `FlagLast` (a connection
is a member only from its login on) and `CrowdStays`. Nobody in `Joining` leaves it
while somebody else scans (`JoiningStays`), since he waits for the mutex.

### The login

`LoginInv` has seven parts: `LoginTypes`; `Places` (which place of the client's main
goes with which of its thread, of the socket and of the handler); `Accepts` (a digest in
`user_db` is that of its row or unset, and the flag comes with a name and its password,
whole or pieces); `InOrder` (lines typed at the prompts stand in the stream in the order
name, password, chat, and the handler is not past what it has not read); `InStep` (as
long as no read was torn, the number of prompts sent and received and of lines sent and
received agree, which is what keeps each answer at its prompt); `Pending` (when both
sides wait, one of them still has something to read); `Judged` (once the handler has the
password, the client can only wait for the verdict, and a handler that is gone has
closed). `PasswordStaysPrivate` is part of `InOrder`: a handler whose two reads gave
whole lines has everything that was typed at the prompts behind it, and only who was let
in says something. Somebody let in for a piece (`InByPieces`) is the exception in
`InOrder` and in `Pending`. `LoginDeviceCorrect` reuses the lemmas of
`CryptoModuleProofs`: every step of the login moves the module by one of its own steps
or leaves it alone.

### The driver

`ModuleInv` says for each step of init and exit what exists at that point.

`DriverInv` adds to the types, for each call, `PlaceFits` (the operation fits the label,
and the memory held is that of the label: this is `NothingLeaks` on every path) and
`KeyGiven` (the key halves it has read were given to its file), and `KeyKept` (so were
those in a session whose flag is up, from which a call may read). It needs no assumption
on who shares a file, since a half once given stays given until the last close.

`CryptoSessionProofs` needs `OneUser`: no two threads use one file. Without it the code
does not keep what is claimed. `SoleInv` says, of the one call that may be inside a
file, how far it has moved the session from its last flagged key and IV (`KeyKeeps`,
`IvKeeps`), which key and IV it has chosen (`Serves`, `Chosen`), and of a finished
encryption that the IV it reports is the one it used (`Honest`). A flag that is up over
a block being copied is why the invariant is about both halves and the label.

`ServiceImplemented` rests on `SoleInv` for the blocks and on `ClosedInv`, that a file
which is closed has no flag up, for `OpenFile`. With `OneUser` a step of one call maps
by what it does to its own file and its own request (`Mapped`); what it leaves alone
there is a stutter (`Hidden`). Each action of the driver has a lemma. Most are hidden:
copies of a half, the choice of key and IV, allocations. `FlagKey` is `SetKey`; `FlagIv`
is `SetIv` or, for `GET_IV` and `ENCRYPT`, `DrawIv`, also when the flag was raised
before the second half was stored (`FlagEarly`, hidden by `Drawing`); `SaveFaults` is
`SetFaults`; `ShowIv` and `CopyOut` are the answers, for which `Serves` says that the
key and IV in the buffers are still those of the file; `CheckKey` and `PickIv` may be
`Refuse`, and what fails is `Fail`.

### Page and backend

`StoredCorrect` needs only `Types` and `Table`: an entry of `active_connections` has an
open socket and a receiver, or a closed one and none, and an open socket without an
entry belongs to the login under way.

The others rest on `Session`, for whatever users do. It adds `Owners` (each TCP
connection was made for the page that speaks over it, which contains `SpeaksAsShown`);
`Post` (the chat on its way to a page came over connections made for it); `Connections`,
for each web connection what its queue of events may hold (`Orderly`: `disconnect` last)
and, where nobody was `hasty` (`Calm`), that there is at most one login, nothing to send
before it was answered, and the session, if one is served (`Served`), is that of the
user; and `PageFits`, what the screen says about those queues. Without `hasty` an
unanswered login is in the queue, or in the event loop, or its answer is in the post,
and never in two of these places: that one fact is what a second login breaks. That a
page with a waiting login is owed an answer (`LoginAnswered`) holds with any number of
logins. `Counted` bounds logins and timers: each answer a page gets or is due belongs to
a login it sent (`CountInvariant`).

### Only model-checked

Liveness: `DepartedIsReaped`, `BacklogIsServed`, `LockIsGranted`, `ClientFollows`, `QuitEnds`,
`DepartureIsSeen`. Liveness under fairness and ENABLED are out of this prover's
reach, and so is induction over data. No module declares a RECURSIVE operator, which would
put its theorems out of reach too. The runs that end in a violation
are TLC's alone.

## 5. Not modelled

 * `common/` headers: constants and layouts; `protocol.h` is included by nobody.
 * `web/templates`, `web/static/css`: presentation.
 * `server/`, `client/`: backups of earlier versions (PROJECT_STATUS.md:131), that no build
   target uses.
 * Scripts and Makefiles: sequential recipes around the programs.
 * In the modelled programs: the texts that are printed or drawn, `send_message` of
   chat_client.c (declared, never defined), `aes_encrypt_msg` and `aes_decrypt_msg` of
   chat_server.c (no caller), and the handlers of the backend that change no
   state (`index`, `handle_connect`, `handle_get_users`).

## 6. Plan

The server came first, because everything else goes through it; then the driver and its
module, because they run unlocked in the kernel; the backend and the page; the
terminal client with the login from end to end; and the proofs. What is left:

 1. An abstract service for the web part (log in, speak, hear, leave as one user) that
    `WebChat` implements.
 2. A composition of backend and `ServerLogin` in place of the external server of
    `WebBackend`, for one login.
 3. Several rows and connections in `ChatLogin`, which its theorems cover and TLC
    does not.
