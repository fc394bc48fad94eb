--------------------------- MODULE MCCryptoModule ---------------------------
(* A small instance of CryptoModule for TLC.                                *)
EXTENDS CryptoModule, TLC

CONSTANTS p1, p2, p3
=============================================================================
