----------------------- MODULE CryptoDriverProperties -----------------------
(***************************************************************************)
(* What the calls of driver/crypto_driver.c promise their callers.          *)
(***************************************************************************)
EXTENDS CryptoDriver

\* Every variable of the driver keeps its range.
DriverTypeOK ==
    /\ file \in [Session -> FileState] /\ sess \in [Session -> CryptoSession]
    /\ pc \in [Caller -> Pc] /\ part \in [Caller -> Part]
    /\ call \in [Caller -> Call] /\ ret \in [Caller -> Ret]
    /\ held \in [Caller -> SUBSET Memory] /\ calls \in [Caller -> 0 .. MaxCalls]
    /\ sealed \subseteq Box
    /\ given \in [Session -> [key : SUBSET (Part \X Half), iv : SUBSET (Part \X Half)]]
    /\ last \in [Session -> [key : Block, iv : Block]]

\* A call c that went through and is the last of its caller.
Done(c, ops) == pc[c] = "idle" /\ ret[c] = "OK" /\ call[c].op \in ops

-----------------------------------------------------------------------------
(* Any callers, on any files.                                               *)

\* A key that an encryption or decryption takes from its session was put
\* there by calls on that same file since it was opened: it is never the key
\* of another session, of an earlier owner of the memory, or the zero bytes
\* of a session whose key is only being set.
SessionKeyWasSet ==
    \A c \in Caller : pc[c] = "tfm" /\ ~Supplied(call[c].key) =>
        Halves(call[c].keyBuf) \subseteq given[call[c].s].key

\* No allocation outlives the call that made it, whichever step of it fails,
\* and nothing is freed that is not held.
NothingLeaks ==
    \A c \in Caller :
        /\ pc[c] = "idle" => held[c] = {}
        /\ pc[c] \in Steps => Frees(pc[c]) \subseteq held[c]

-----------------------------------------------------------------------------
(* A file that one thread uses at a time.                                   *)

\* DEVELOPMENT_SUMMARY.md: key and IV are persistent in the session.
\* A request that brings no key of its own is served with the key the last
\* SET_KEY on the file set; one that brings no IV is served with the IV that
\* SET_IV, GET_IV or an earlier ENCRYPT made the session's, or with what a
\* copy that failed has left of them.
SessionPersists ==
    \A c \in Caller : pc[c] = "run" =>
        /\ ~Supplied(call[c].key) => call[c].keyBuf = last[call[c].s].key
        /\ ~Supplied(call[c].asked) => call[c].ivBuf = last[call[c].s].iv

\* DEVELOPMENT_SUMMARY.md: the IV is returned to the client to decrypt with:
\* with the right key, the IV that ENCRYPT returned opens its ciphertext, if
\* it does not begin with the two zero bytes that stand for a request without.
ReturnedIvDecrypts ==
    \A c \in Caller :
        Done(c, {"DECRYPT"}) /\ call[c].keyBuf = call[c].box.key /\ Supplied(call[c].box.shown)
            => call[c].text = call[c].box.text

-----------------------------------------------------------------------------
(* The calls on a file as requests that CryptoService serves.               *)

\* What a call asks for.  SET_IV brings its IV where the others put theirs.
RequestOf(k) ==
    [op   |-> k.op, file |-> k.s, key |-> k.key,
     iv   |-> IF k.op = "SET_IV" THEN k.ivBuf ELSE
              IF k.op \in Crypts THEN k.asked ELSE Blank,
     text |-> IF k.op = "ENCRYPT" THEN k.text ELSE 0,
     box  |-> IF k.op = "DECRYPT" THEN k.box ELSE NoBox]

\* What it returns: r, and when it went through, an IV, a text, a ciphertext.
AnswerOf(r, k) ==
    LET Of(op, x, y) == IF r = "OK" /\ k.op = op THEN x ELSE y
    IN  [ret |-> r, iv |-> Of("GET_IV", k.iv, Blank),
         text |-> Of("DECRYPT", k.text, 0), box |-> Of("ENCRYPT", k.box, NoBox)]

\* The IV that an ENCRYPT draws is the file's when it is flagged in order.
Drawing(s) == \E c \in Caller : /\ pc[c] \in {"saveiv", "flagiv"}
                               /\ call[c].s = s /\ call[c].op = "ENCRYPT"

FileKey == [s \in Session |-> IF sess[s].keySet THEN {last[s].key} ELSE {}]
FileIv  == [s \in Session |-> IF sess[s].ivSet /\ ~Drawing(s) THEN {last[s].iv} ELSE {}]

Pending == [c \in Caller |->
    IF pc[c] = "idle" THEN [op |-> "none"] ELSE RequestOf(call[c])]
Replies == [c \in Caller |->
    IF pc[c] = "idle" THEN AnswerOf(ret[c], call[c]) ELSE AnswerOf("none", call[c])]

Service == INSTANCE CryptoService WITH
    File <- Session, key <- FileKey, iv <- FileIv, request <- Pending, answer <- Replies

\* DEVELOPMENT_SUMMARY.md: a session per file, isolated from the others.  Every
\* call on a file that one thread uses is served as if in one step, from the
\* key and the IV of its file: copies half by half, the order of the stores and
\* whatever fails on the way do not show, but for the IV drawn on the way and
\* the torn block that a failed SET_KEY or SET_IV leaves where there was one.
ImplementsService == Service!ServiceSpec
=============================================================================
