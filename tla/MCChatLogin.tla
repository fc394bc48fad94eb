---------------------------- MODULE MCChatLogin ----------------------------
(* Small instances of ChatLogin for TLC.                                    *)
EXTENDS ChatLogin, TLC

CONSTANT p1

Typing(at, val) == [at |-> at, val |-> val, long |-> FALSE]

\* A name, its password and a wrong one; the pieces of them stand for other names
\* and passwords, and for the lines that do not fit.
AnyLine == {Typing("name", 1), Typing("password", 1), Typing("password", 0),
            Typing("chat", 0)}
=============================================================================
