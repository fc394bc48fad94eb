---------------------------- MODULE CryptoService ----------------------------
(***************************************************************************)
(* What driver/crypto_driver.c promises the user of a file: a request is    *)
(* served in one step, from the key and the IV its file has in that step.   *)
(* A file keeps both until a later SET_KEY or SET_IV, also when that fails  *)
(* half-way, or until it is closed.  The one thing that a request which     *)
(* fails may leave behind is the IV that was drawn for it.                  *)
(***************************************************************************)
EXTENDS CryptoBlocks

CONSTANTS Caller, File, RandomBlocks, Faults

VARIABLES
    file,      \* "none", "open", or "closing"
    key, iv,   \* what a file has: a set of one block, or none
    request,   \* the request each caller waits for
    answer,    \* the answer to its last
    sealed     \* the ciphertexts given out

service == <<file, key, iv, request, answer, sealed>>

Request == [op : Commands, file : File, key : Block, iv : Block,
            text : Lens \cup {Garbled}, box : Box]
Nothing == [ret |-> "none", iv |-> Blank, text |-> 0, box |-> NoBox]
Ok      == [Nothing EXCEPT !.ret = "OK"]
Idle    == [op |-> "none"]

ServiceInit ==
    /\ file = [f \in File |-> "none"]
    /\ key = [f \in File |-> {}] /\ iv = [f \in File |-> {}]
    /\ request = [c \in Caller |-> Idle] /\ answer = [c \in Caller |-> Nothing]
    /\ sealed = {}

-----------------------------------------------------------------------------
(* Files.                                                                   *)

OpenFile(f) ==
    /\ file[f] = "none" /\ file' = [file EXCEPT ![f] = "open"]
    /\ UNCHANGED <<key, iv, request, answer, sealed>>

CloseFile(f) ==
    /\ file[f] = "open" /\ file' = [file EXCEPT ![f] = "closing"]
    /\ UNCHANGED <<key, iv, request, answer, sealed>>

ReleaseFile(f) ==
    /\ file[f] = "closing" /\ file' = [file EXCEPT ![f] = "none"]
    /\ \A c \in Caller : request[c] = Idle \/ request[c].file # f
    /\ key' = [key EXCEPT ![f] = {}] /\ iv' = [iv EXCEPT ![f] = {}]
    /\ UNCHANGED <<request, answer, sealed>>

-----------------------------------------------------------------------------
(* Requests and answers.                                                    *)

Ask(c, r) ==
    /\ request[c] = Idle /\ r \in Request /\ file[r.file] = "open"
    /\ r.op = "DECRYPT" => r.box \in sealed
    /\ request' = [request EXCEPT ![c] = r]
    /\ answer' = [answer EXCEPT ![c] = Nothing]
    /\ UNCHANGED <<file, key, iv, sealed>>

Waits(c, ops) == request[c].op \in ops

Answer(c, a) ==
    /\ request' = [request EXCEPT ![c] = Idle]
    /\ answer' = [answer EXCEPT ![c] = a]
    /\ UNCHANGED file

SetKey(c) ==
    /\ Waits(c, {"SET_KEY"})
    /\ key' = [key EXCEPT ![request[c].file] = {request[c].key}]
    /\ Answer(c, Ok) /\ UNCHANGED <<iv, sealed>>

SetIv(c) ==
    /\ Waits(c, {"SET_IV"})
    /\ iv' = [iv EXCEPT ![request[c].file] = {request[c].iv}]
    /\ Answer(c, Ok) /\ UNCHANGED <<key, sealed>>

\* The copy of the block faults at half n: a key or an IV that the file had
\* is lost, and a torn one is in its place.
SetFaults(c, n) ==
    /\ "copy" \in Faults
    /\ \/ /\ Waits(c, {"SET_KEY"}) /\ UNCHANGED iv
          /\ key' = [key EXCEPT ![request[c].file] = {Torn(request[c].key, n) : k \in @}]
       \/ /\ Waits(c, {"SET_IV"}) /\ UNCHANGED key
          /\ iv' = [iv EXCEPT ![request[c].file] = {Torn(request[c].iv, n) : v \in @}]
    /\ Answer(c, [Nothing EXCEPT !.ret = "EFAULT"]) /\ UNCHANGED sealed

\* A file without an IV gets one, to be shown or to encrypt with, whatever
\* becomes of the request.
DrawIv(c) ==
    /\ \/ Waits(c, {"GET_IV"})
       \/ /\ Waits(c, {"ENCRYPT"}) /\ ~Supplied(request[c].iv)
          /\ key[request[c].file] # {}
    /\ iv[request[c].file] = {}
    /\ \E b \in RandomBlocks : iv' = [iv EXCEPT ![request[c].file] = {b}]
    /\ UNCHANGED <<file, key, request, answer, sealed>>

ShowIv(c) ==
    /\ Waits(c, {"GET_IV"})
    /\ \E v \in iv[request[c].file] : Answer(c, [Ok EXCEPT !.iv = v])
    /\ UNCHANGED <<key, iv, sealed>>

\* The block a request brings, or else the one its file has.
Choice(own, kept) == IF Supplied(own) THEN {own} ELSE kept

Keys(c) == Choice(request[c].key, key[request[c].file])
IVs(c)  == Choice(request[c].iv, iv[request[c].file])

\* Without a key of the file nothing is encrypted, whatever key is brought.
Encrypt(c) ==
    /\ Waits(c, {"ENCRYPT"}) /\ key[request[c].file] # {}
    /\ \E k \in Keys(c), v \in IVs(c) :
          LET box == [text |-> request[c].text, key |-> k, iv |-> v, shown |-> v]
          IN  Answer(c, [Ok EXCEPT !.box = box]) /\ sealed' = sealed \cup {box}
    /\ UNCHANGED <<key, iv>>

Decrypt(c) ==
    /\ Waits(c, {"DECRYPT"}) /\ key[request[c].file] # {}
    /\ \E k \in Keys(c), v \in IVs(c) :
          Answer(c, [Ok EXCEPT !.text = Opened(request[c].box, k, v)])
    /\ UNCHANGED <<key, iv, sealed>>

Digest(c) ==
    /\ Waits(c, {"MD5"}) /\ Answer(c, Ok)
    /\ UNCHANGED <<key, iv, sealed>>

\* EINVAL: no key, or nothing to decrypt with.
Refuse(c) ==
    /\ Waits(c, Crypts)
    /\ \/ key[request[c].file] = {}
       \/ request[c].op = "DECRYPT" /\ IVs(c) = {}
    /\ Answer(c, [Nothing EXCEPT !.ret = "EINVAL"])
    /\ UNCHANGED <<key, iv, sealed>>

Error == [copy |-> "EFAULT", memory |-> "ENOMEM", crypto |-> "ECRYPTO"]

\* A copy, an allocation or the crypto API fails: nothing has changed.
Fail(c, fault) ==
    /\ fault \in Faults
    /\ \/ Waits(c, {"MD5"})
       \/ Waits(c, Crypts) /\ key[request[c].file] # {}
       \/ Waits(c, {"GET_IV"}) /\ iv[request[c].file] # {} /\ fault = "copy"
    /\ Answer(c, [Nothing EXCEPT !.ret = Error[fault]])
    /\ UNCHANGED <<key, iv, sealed>>

Serve(c) == \/ SetKey(c) \/ SetIv(c) \/ DrawIv(c) \/ ShowIv(c)
            \/ Encrypt(c) \/ Decrypt(c) \/ Digest(c) \/ Refuse(c)
            \/ \E n \in Part : SetFaults(c, n)
            \/ \E fault \in DOMAIN Error : Fail(c, fault)

ServiceNext == \/ \E f \in File : OpenFile(f) \/ CloseFile(f) \/ ReleaseFile(f)
               \/ \E c \in Caller : Ask(c, request'[c]) \/ Serve(c)

ServiceSpec == ServiceInit /\ [][ServiceNext]_service
=============================================================================
