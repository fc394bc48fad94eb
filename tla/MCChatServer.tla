---------------------------- MODULE MCChatServer ----------------------------
(* Small instances of ChatServer for TLC.                                   *)
EXTENDS ChatServerProperties, TLC

CONSTANTS alice, bob, c1, c2, c3

Plain(cmd) == [cmd |-> cmd, to |-> NoName]
To(u)      == [cmd |-> "msg", to |-> u]

NoLines   == {}
TextLines == {Plain("text")}
EveryLine == {Plain(cmd) : cmd \in Commands \ {"msg"}} \cup {To(alice), To(NoName)}

Nobody   == {}
Everyone == Conn
OnlyC1   == {c1}
OnlyC2   == {c2}
AllButC1 == Conn \ {c1}

OthersAlike == Permutations(Conn \ {c1})
=============================================================================
