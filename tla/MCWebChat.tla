------------------------------ MODULE MCWebChat ------------------------------
(* Small instances of WebChat for TLC.                                       *)
EXTENDS WebChat, TLC

CONSTANTS alice, bob

UsersAlike == Permutations(User)
=============================================================================
