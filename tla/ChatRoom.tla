------------------------------ MODULE ChatRoom ------------------------------
(***************************************************************************)
(* What the room promises, without slots, descriptors or threads: messages  *)
(* are published one at a time, each gets the next number, and a client     *)
(* only ever receives the message being published.  Hence all clients see   *)
(* messages in the order they were published, and no client receives a      *)
(* message after a later one has begun.                                     *)
(***************************************************************************)
EXTENDS Naturals

CONSTANTS Conn, NULL

VARIABLES
    alive,     \* the room exists
    count,     \* messages published so far; also the number of the last one
    speaker,   \* the client whose message is being published, or NULL
    seen       \* the last message each client received

room == <<alive, count, speaker, seen>>

RoomInit ==
    /\ alive = TRUE /\ count = 0 /\ speaker = NULL
    /\ seen = [c \in Conn |-> 0]

Begin(c) ==
    /\ alive /\ speaker = NULL
    /\ speaker' = c /\ count' = count + 1
    /\ UNCHANGED <<alive, seen>>

Receive(c) ==
    /\ alive /\ speaker # NULL
    /\ seen' = [seen EXCEPT ![c] = count]
    /\ UNCHANGED <<alive, count, speaker>>

End ==
    /\ alive /\ speaker # NULL
    /\ speaker' = NULL
    /\ UNCHANGED <<alive, count, seen>>

Collapse ==
    /\ alive /\ alive' = FALSE
    /\ UNCHANGED <<count, speaker, seen>>

RoomNext == End \/ Collapse \/ \E c \in Conn : Begin(c) \/ Receive(c)

RoomSpec == RoomInit /\ [][RoomNext]_room
=============================================================================
