---------------------------- MODULE CryptoBlocks ----------------------------
(***************************************************************************)
(* The data of driver/crypto_driver.c.  A 16-byte block (key or IV) is a    *)
(* pair of halves.  Zero stands for the halves that begin with two zero     *)
(* bytes: that is all the driver looks at to tell whether a request brings  *)
(* a key or an IV.  A text is known by its length.                          *)
(***************************************************************************)
EXTENDS Integers

CONSTANTS
    Half, Zero,     \* halves of blocks
    MAX_DATA_SIZE

ASSUME HalfAssumption == Zero \in Half
ASSUME SizeAssumption == MAX_DATA_SIZE \in Nat /\ MAX_DATA_SIZE % 16 = 0

Part  == 1 .. 2
Block == [Part -> Half]
Blank == [i \in Part |-> Zero]

Commands == {"SET_KEY", "SET_IV", "GET_IV", "MD5", "ENCRYPT", "DECRYPT"}
Crypts   == {"ENCRYPT", "DECRYPT"}
Ret      == {"none", "OK", "EINVAL", "EFAULT", "ENOMEM", "ECRYPTO"}

\* kdata->iv[0] != 0 || kdata->iv[1] != 0, and the same for the key
Supplied(b) == b[1] # Zero

Garbled == -1
Lens    == 0 .. MAX_DATA_SIZE

\* A ciphertext: what it hides, the key and IV it was made with, and the IV
\* that ENCRYPT gave back with it.
Box   == [text : Lens, key : Block, iv : Block, shown : Block]
NoBox == [text |-> 0, key |-> Blank, iv |-> Blank, shown |-> Blank]

\* The text comes back when both key and IV are those of the ciphertext.
Opened(b, key, iv) == IF b.key = key /\ b.iv = iv THEN b.text ELSE Garbled

\* A block that was copied over another up to half n, the rest zeroed.
Torn(b, n) == [i \in Part |-> IF i < n THEN b[i] ELSE Zero]
=============================================================================
