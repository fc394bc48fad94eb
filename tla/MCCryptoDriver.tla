--------------------------- MODULE MCCryptoDriver ---------------------------
(* Small instances of CryptoDriver for TLC.                                 *)
EXTENDS CryptoDriverProperties, TLC

CONSTANTS c1, c2, s1, s2, z, a, b

Shared2 == {<<c1, s1>>, <<c2, s1>>, <<c2, s2>>}
Alone   == {<<c1, s1>>}

A  == <<a, a>>
B  == <<b, b>>
AB == <<a, b>>

\* Each file its own keys.
KeysApart == [s \in Session |-> IF s = s1 THEN {A} ELSE {B}]
Keys      == [s \in Session |-> {A, B}]
IVs       == [s \in Session |-> {A, B}]
None      == {}
OnlyA     == {A}
OnlyAB    == {AB}
\* One of the IVs that may be drawn looks like none.
LikeNone  == {AB, <<z, b>>}
OneLength == {20}

EveryOp   == Commands
AllFaults == {"copy", "memory", "crypto"}
=============================================================================
