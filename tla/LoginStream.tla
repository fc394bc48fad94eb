---------------------------- MODULE LoginStream ----------------------------
(***************************************************************************)
(* One TCP connection to the chat server, as the two byte streams between   *)
(* the terminal client and its handler (external: the kernel).  A stream is *)
(* a sequence of the texts that were sent; recv() returns what is there up  *)
(* to any point, which may lie inside a text: the rest of that one comes    *)
(* with a later recv().                                                     *)
(*                                                                         *)
(* Bound: a text is cut once at most.                                       *)
(***************************************************************************)
EXTENDS Integers, Sequences

CONSTANTS
    DB,       \* rows of user_db
    Split     \* whether a recv() may end inside a text of ordinary length

Rows == 1 .. DB

\* What the server sends.
Texts == {"USERNAME", "PASSWORD", "AUTH_SUCCESS", "AUTH_FAILED", "ROOM"}

\* A line the user typed: where he typed it, the row of user_db whose name or
\* password it is (0: of none), and whether it is too long for the server's
\* buffer at a prompt.
Line == [at : {"name", "password", "chat"}, val : 0 .. DB, long : BOOLEAN]

Item(T)   == [what : T, rest : BOOLEAN]
Sent(x)   == [what |-> x, rest |-> FALSE]

ASSUME StreamAssumption == DB \in Nat /\ Split \in BOOLEAN

VARIABLES
    port,    \* the server listens on PORT
    link,    \* the connection as the client's socket sees it
    hung,    \* the client's end of it is closed
    down,    \* server to client, sent and not yet received
    up,      \* client to server
    torn     \* ghost: some recv() ended inside a text

LinkState == {"none", "open", "closed", "reset", "broken"}

stream == <<port, link, hung, down, up, torn>>

StreamInit ==
    /\ port = FALSE /\ link = "none" /\ hung = FALSE
    /\ down = <<>> /\ up = <<>> /\ torn = FALSE

\* A recv() on stream s takes the first n texts, and with tear a part of the
\* next one, as it must of one that does not fit into the buffer.
Reads(s, Fitting) ==
    {r \in [n : 0 .. Len(s), tear : BOOLEAN] :
        /\ r.tear \/ r.n > 0
        /\ \A i \in 1 .. r.n : s[i].rest \/ s[i].what \in Fitting
        /\ r.tear => /\ r.n < Len(s) /\ ~s[r.n + 1].rest
                     /\ Split \/ s[r.n + 1].what \notin Fitting}

Left(s, r) ==
    IF r.tear
    THEN <<[what |-> s[r.n + 1].what, rest |-> TRUE]>> \o SubSeq(s, r.n + 2, Len(s))
    ELSE SubSeq(s, r.n + 1, Len(s))

\* The texts that a recv() returned as a whole.
Whole(s, r) == {s[i].what : i \in {j \in 1 .. r.n : ~s[j].rest}}
=============================================================================
