---------------------------- MODULE CryptoDriver ----------------------------
(***************************************************************************)
(* The character device /dev/crypto_dev, driver/crypto_driver.c: one        *)
(* crypto_session per open file, and the ioctl calls that threads make on   *)
(* it.  The driver takes no lock, so that calls on one file interleave at   *)
(* every access to the session.                                             *)
(*                                                                         *)
(* A copy of a block (CryptoBlocks) moves one half after the other.  Stores *)
(* of one thread are taken to be seen in their order, as on x86.            *)
(*                                                                         *)
(* Bound: MaxCalls calls per caller.                                        *)
(***************************************************************************)
EXTENDS CryptoBlocks, FiniteSets

CONSTANTS
    Caller,         \* threads that call the driver
    Session,        \* open files of the device
    Uses,           \* which caller uses which file
    Ops,            \* the commands callers issue
    UserKeys,       \* the keys they set, for each file
    UserIVs,        \* the IVs they set, for each file
    OwnKeys,        \* the keys they may pass in a request
    OwnIVs,         \* the IVs they may pass in a request
    RandomBlocks,   \* what get_random_bytes may produce
    Lengths,        \* input_len of the texts they encrypt
    Faults,         \* what may fail: "copy", "memory", "crypto"
    MaxCalls        \* calls per caller (bound)

ASSUME UserAssumption ==
    /\ Uses \subseteq Caller \X Session /\ Ops \subseteq Commands
    /\ UserKeys \in [Session -> SUBSET Block] /\ UserIVs \in [Session -> SUBSET Block]
    /\ OwnKeys \subseteq Block /\ OwnIVs \subseteq Block
    /\ RandomBlocks \subseteq Block /\ Lengths \subseteq 0 .. MAX_DATA_SIZE
    /\ Faults \subseteq {"copy", "memory", "crypto"} /\ MaxCalls \in Nat

\* ((input_len + 15) / 16) * 16
Padded(n) == ((n + 15) \div 16) * 16

FileState == {"none", "open", "closing"}
Fresh     == [key |-> Blank, iv |-> Blank, keySet |-> FALSE, ivSet |-> FALSE]
CryptoSession == [key : Block, iv : Block, keySet : BOOLEAN, ivSet : BOOLEAN]

Pc == {"idle", "savekey", "flagkey", "saveiv", "flagiv", "getiv", "showiv",
       "check", "fetch", "pickiv", "bufiv", "pickkey", "bufkey",
       "tfm", "req", "setkey", "iv_copy", "run", "shash", "desc", "digest",
       "copyout"}

\* One call of device_ioctl: the command, the file, struct crypto_data (key,
\* iv, text in and out, ciphertext, output_len) and the local iv_buf, key_buf.
\* asked is the IV the caller passed.
Call == [op : Commands \cup {"none"}, s : Session, key : Block, iv : Block,
         asked : Block, ivBuf : Block, keyBuf : Block,
         text : Lens \cup {Garbled}, box : Box, outLen : Nat]
\* A call as it begins: with a key and an IV of its own, an IV for the
\* session, a text and a ciphertext.
NewCall(op, s, k, v, set, n, b) ==
    [op |-> op, s |-> s, key |-> k, iv |-> v, asked |-> v, ivBuf |-> set,
     keyBuf |-> Blank, text |-> n, box |-> b, outLen |-> 0]
Plain(op, s) == NewCall(op, s, Blank, Blank, Blank, 0, NoBox)

Memory == {"kdata", "tfm", "req", "iv_copy", "shash", "desc"}

VARIABLES
    file,    \* the open file
    sess,    \* its crypto_session
    pc,      \* where in device_ioctl a caller is
    part,    \* the half its copy is at
    call,    \* its call, also after it returned
    ret,     \* what the call returned
    held,    \* kernel memory the call has allocated
    calls,   \* calls made
    sealed,  \* ghost: the ciphertexts handed to callers
    given,   \* ghost: halves that calls put into the session since it was opened
    last     \* ghost: key and IV as their flag was last raised, or as a copy
             \* that failed left them

vars == <<file, sess, pc, part, call, ret, held, calls, sealed, given, last>>

\* What a step of one call leaves alone.
outside == <<file, calls, given>>

Init ==
    /\ file = [s \in Session |-> "none"]
    /\ sess = [s \in Session |-> Fresh]
    /\ pc   = [c \in Caller |-> "idle"]
    /\ part = [c \in Caller |-> 1]
    /\ call \in [Caller -> {Plain("none", s) : s \in Session}]
    /\ ret  = [c \in Caller |-> "none"]
    /\ held = [c \in Caller |-> {}]
    /\ calls = [c \in Caller |-> 0]
    /\ sealed = {}
    /\ given = [s \in Session |-> [key |-> {}, iv |-> {}]]
    /\ last  = [s \in Session |-> [key |-> Blank, iv |-> Blank]]

-----------------------------------------------------------------------------
(* Files.  The kernel keeps a file alive while a call is inside the driver, *)
(* so that device_release runs after the last of them.                      *)

\* mutant: the flags are whatever kmalloc left there
KeepSession(s) == sess' = [sess EXCEPT ![s] = [Fresh EXCEPT !.keySet = TRUE]]

\* device_open: the session is zeroed, its flags included.  (When kmalloc
\* fails, or a command is unknown, the call changes nothing: no action.)
InitSession(s) == sess' = [sess EXCEPT ![s] = Fresh]

Open(s) ==
    /\ file[s] = "none"
    /\ file' = [file EXCEPT ![s] = "open"]
    /\ InitSession(s)
    /\ given' = [given EXCEPT ![s] = [key |-> {}, iv |-> {}]]
    /\ last'  = [last EXCEPT ![s] = [key |-> Blank, iv |-> Blank]]
    /\ UNCHANGED <<pc, part, call, ret, held, calls, sealed>>

\* close(fd) by the program (external)
Close(s) ==
    /\ file[s] = "open"
    /\ file' = [file EXCEPT ![s] = "closing"]
    /\ UNCHANGED <<sess, pc, part, call, ret, held, calls, sealed, given, last>>

\* device_release: the session is zeroed and freed.
Release(s) ==
    /\ file[s] = "closing"
    /\ \A c \in Caller : pc[c] # "idle" => call[c].s # s
    /\ file' = [file EXCEPT ![s] = "none"]
    /\ sess' = [sess EXCEPT ![s] = Fresh]
    /\ UNCHANGED <<pc, part, call, ret, held, calls, sealed, given, last>>

-----------------------------------------------------------------------------
(* A call begins.                                                           *)

Entry(op) == CASE op = "SET_KEY" -> "savekey"
               [] op = "SET_IV"  -> "saveiv"
               [] op = "GET_IV"  -> "getiv"
               [] op = "MD5"     -> "fetch"
               [] op \in Crypts  -> "check"

Requests(op, s) ==
    CASE op = "SET_KEY" -> {NewCall(op, s, k, Blank, Blank, 0, NoBox) : k \in UserKeys[s]}
      [] op = "SET_IV"  -> {NewCall(op, s, Blank, Blank, v, 0, NoBox) : v \in UserIVs[s]}
      [] op = "GET_IV"  -> {Plain(op, s)}
      [] op = "MD5"     -> {Plain(op, s)}
      [] op = "ENCRYPT" -> {NewCall(op, s, k, v, Blank, n, NoBox) :
            k \in OwnKeys \cup {Blank}, v \in OwnIVs \cup {Blank}, n \in Lengths}
      [] op = "DECRYPT" -> {NewCall(op, s, k, b.shown, Blank, 0, b) :
            k \in OwnKeys \cup {Blank}, b \in sealed}

Halves(b) == {<<i, b[i]>> : i \in Part}

Begin(c, s) ==
    /\ pc[c] = "idle" /\ calls[c] < MaxCalls
    /\ file[s] = "open" /\ <<c, s>> \in Uses
    /\ \E op \in Ops : \E r \in Requests(op, s) :
          /\ call' = [call EXCEPT ![c] = r]
          /\ pc' = [pc EXCEPT ![c] = Entry(op)]
          /\ given' = [given EXCEPT ![s] =
                [key |-> @.key \cup (IF op = "SET_KEY" THEN Halves(r.key) ELSE {}),
                 iv  |-> @.iv \cup (IF op = "SET_IV" THEN Halves(r.ivBuf) ELSE {})]]
    /\ calls' = [calls EXCEPT ![c] = @ + 1]
    /\ ret' = [ret EXCEPT ![c] = "none"]
    /\ UNCHANGED <<file, sess, part, held, sealed, last>>

-----------------------------------------------------------------------------
(* Ways to go on.                                                           *)

Goto(c, label) == pc' = [pc EXCEPT ![c] = label] /\ UNCHANGED ret

\* return, with kdata freed where it was allocated
Return(c, r) ==
    /\ pc' = [pc EXCEPT ![c] = "idle"]
    /\ ret' = [ret EXCEPT ![c] = r]

\* mutant: one half too many
AdvancePast(c, label) ==
    IF part[c] <= 2
    THEN part' = [part EXCEPT ![c] = @ + 1] /\ UNCHANGED <<pc, ret>>
    ELSE part' = [part EXCEPT ![c] = 1] /\ Goto(c, label)

\* One half is copied; after the second the call goes on at label.
Advance(c, label) ==
    IF part[c] = 1
    THEN part' = [part EXCEPT ![c] = 2] /\ UNCHANGED <<pc, ret>>
    ELSE part' = [part EXCEPT ![c] = 1] /\ Goto(c, label)

At(c, label) == pc[c] = label
S(c)         == sess[call[c].s]

-----------------------------------------------------------------------------
(* IOCTL_SET_KEY, IOCTL_SET_IV, IOCTL_GET_IV.                               *)

\* copy_from_user straight into the session's key
SaveKey(c) ==
    /\ At(c, "savekey")
    /\ sess' = [sess EXCEPT ![call[c].s].key[part[c]] = call[c].key[part[c]]]
    /\ Advance(c, "flagkey")
    /\ UNCHANGED <<outside, call, held, sealed, last>>

\* mutant: the IV that was drawn is not kept
SkipIv(c) ==
    /\ At(c, "saveiv") /\ Advance(c, "flagiv")
    /\ UNCHANGED <<outside, sess, call, held, sealed, last>>

\* session->iv from the caller, from get_random_bytes, or from iv_buf
SaveIv(c) ==
    /\ At(c, "saveiv")
    /\ sess' = [sess EXCEPT ![call[c].s].iv[part[c]] = call[c].ivBuf[part[c]]]
    /\ Advance(c, "flagiv")
    /\ UNCHANGED <<outside, call, held, sealed, last>>

\* copy_from_user faults: what it could not copy it fills with zero bytes.
SaveFaults(c) ==
    /\ "copy" \in Faults
    /\ LET s          == call[c].s
           lost       == part[c] .. 2
           Cleared(b) == [i \in Part |-> IF i \in lost THEN Zero ELSE b[i]]
       IN  \/ /\ At(c, "savekey")
              /\ sess' = [sess EXCEPT ![s].key = Cleared(@)]
              /\ last' = [last EXCEPT ![s].key = Cleared(sess[s].key)]
              /\ given' = [given EXCEPT ![s].key = @ \cup (lost \X {Zero})]
           \/ /\ At(c, "saveiv") /\ call[c].op = "SET_IV"
              /\ sess' = [sess EXCEPT ![s].iv = Cleared(@)]
              /\ last' = [last EXCEPT ![s].iv = Cleared(sess[s].iv)]
              /\ given' = [given EXCEPT ![s].iv = @ \cup (lost \X {Zero})]
    /\ Return(c, "EFAULT") /\ part' = [part EXCEPT ![c] = 1]
    /\ UNCHANGED <<file, calls, call, held, sealed>>

FlagKey(c) ==
    /\ At(c, "flagkey")
    /\ sess' = [sess EXCEPT ![call[c].s].keySet = TRUE]
    /\ last' = [last EXCEPT ![call[c].s].key = S(c).key]
    /\ Return(c, "OK")
    /\ UNCHANGED <<outside, part, call, held, sealed>>

FlagIv(c) ==
    /\ At(c, "flagiv")
    /\ sess' = [sess EXCEPT ![call[c].s].ivSet = TRUE]
    /\ last' = [last EXCEPT ![call[c].s].iv = S(c).iv]
    /\ CASE call[c].op = "SET_IV"  -> Return(c, "OK")
         [] call[c].op = "GET_IV"  -> Goto(c, "showiv")
         [] call[c].op = "ENCRYPT" -> Goto(c, "pickkey")
    /\ UNCHANGED <<outside, part, call, held, sealed>>

\* In ENCRYPT two plain stores, which the compiler may order either way: the
\* flag can be up before the IV is there.
FlagEarly(c) ==
    /\ At(c, "saveiv") /\ call[c].op = "ENCRYPT" /\ ~S(c).ivSet
    /\ sess' = [sess EXCEPT ![call[c].s].ivSet = TRUE]
    /\ UNCHANGED <<outside, pc, part, call, ret, held, sealed, last>>

\* mutant: the caller is told of another draw
DrawTwice(c) ==
    \E b, w \in RandomBlocks :
        /\ call' = [call EXCEPT ![c].ivBuf = b,
                                ![c].iv = IF call[c].op = "ENCRYPT" THEN w ELSE @]
        /\ given' = [given EXCEPT ![call[c].s].iv = @ \cup Halves(b)]

\* get_random_bytes; ENCRYPT also reports the IV in kdata->iv.
Draw(c) ==
    \E b \in RandomBlocks :
        /\ call' = [call EXCEPT ![c].ivBuf = b,
                                ![c].iv = IF call[c].op = "ENCRYPT" THEN b ELSE @]
        /\ given' = [given EXCEPT ![call[c].s].iv = @ \cup Halves(b)]

GetIv(c) ==
    /\ At(c, "getiv")
    /\ IF S(c).ivSet
       THEN Goto(c, "showiv") /\ UNCHANGED <<call, given>>
       ELSE Goto(c, "saveiv") /\ Draw(c)
    /\ UNCHANGED <<file, calls, sess, part, held, sealed, last>>

\* session->iv into the caller's buffer, or into kdata->iv
ShowIv(c) ==
    /\ At(c, "showiv")
    /\ call' = [call EXCEPT ![c].iv[part[c]] = S(c).iv[part[c]]]
    /\ IF call[c].op = "GET_IV" /\ part[c] = 2
       THEN part' = [part EXCEPT ![c] = 1] /\ Return(c, "OK")
       ELSE Advance(c, "pickkey")
    /\ UNCHANGED <<outside, sess, held, sealed, last>>

ShowFaults(c) ==
    /\ "copy" \in Faults /\ At(c, "showiv") /\ call[c].op = "GET_IV"
    /\ Return(c, "EFAULT") /\ part' = [part EXCEPT ![c] = 1]
    /\ UNCHANGED <<outside, sess, call, held, sealed, last>>

-----------------------------------------------------------------------------
(* IOCTL_ENCRYPT and IOCTL_DECRYPT: the choice of IV and key.               *)

\* mutant: the check is left out
CheckNothing(c) ==
    /\ At(c, "check") /\ Goto(c, "fetch")
    /\ UNCHANGED <<outside, sess, part, call, held, sealed, last>>

CheckKey(c) ==
    /\ At(c, "check")
    /\ IF S(c).keySet THEN Goto(c, "fetch") ELSE Return(c, "EINVAL")
    /\ UNCHANGED <<outside, sess, part, call, held, sealed, last>>

\* kmalloc and copy_from_user of struct crypto_data
Fetch(c) ==
    /\ At(c, "fetch")
    /\ \/ /\ Goto(c, IF call[c].op = "MD5" THEN "shash" ELSE "pickiv")
          /\ held' = [held EXCEPT ![c] = {"kdata"}]
       \/ "memory" \in Faults /\ Return(c, "ENOMEM") /\ UNCHANGED held
       \/ "copy" \in Faults /\ Return(c, "EFAULT") /\ UNCHANGED held
    /\ UNCHANGED <<outside, sess, part, call, sealed, last>>

\* The request's IV, else the session's; with neither, ENCRYPT draws one,
\* which becomes the session's, and DECRYPT gives up.
PickIv(c) ==
    /\ At(c, "pickiv")
    /\ \/ /\ Supplied(call[c].iv)
          /\ call' = [call EXCEPT ![c].ivBuf = call[c].iv]
          /\ Goto(c, "pickkey") /\ UNCHANGED <<held, given>>
       \/ /\ ~Supplied(call[c].iv) /\ S(c).ivSet
          /\ Goto(c, "bufiv") /\ UNCHANGED <<call, held, given>>
       \/ /\ ~Supplied(call[c].iv) /\ ~S(c).ivSet /\ call[c].op = "ENCRYPT"
          /\ Draw(c) /\ Goto(c, "saveiv") /\ UNCHANGED held
       \/ /\ ~Supplied(call[c].iv) /\ ~S(c).ivSet /\ call[c].op = "DECRYPT"
          /\ Return(c, "EINVAL") /\ held' = [held EXCEPT ![c] = {}]
          /\ UNCHANGED <<call, given>>
    /\ UNCHANGED <<file, calls, sess, part, sealed, last>>

\* memcpy(iv_buf, session->iv); ENCRYPT then reads session->iv once more for
\* kdata->iv, unless the compiler made the two reads one.
BufIv(c) ==
    /\ At(c, "bufiv")
    /\ call' = [call EXCEPT ![c].ivBuf[part[c]] = S(c).iv[part[c]]]
    /\ Advance(c, IF call[c].op = "ENCRYPT" THEN "showiv" ELSE "pickkey")
    /\ UNCHANGED <<outside, sess, held, sealed, last>>

ReadOnce(c) ==
    /\ At(c, "showiv") /\ part[c] = 1 /\ call[c].op = "ENCRYPT"
    /\ call' = [call EXCEPT ![c].iv = call[c].ivBuf]
    /\ Goto(c, "pickkey")
    /\ UNCHANGED <<outside, sess, part, held, sealed, last>>

PickKey(c) ==
    /\ At(c, "pickkey")
    /\ IF Supplied(call[c].key)
       THEN /\ call' = [call EXCEPT ![c].keyBuf = call[c].key]
            /\ Goto(c, "tfm")
       ELSE Goto(c, "bufkey") /\ UNCHANGED call
    /\ UNCHANGED <<outside, sess, part, held, sealed, last>>

BufKey(c) ==
    /\ At(c, "bufkey")
    /\ call' = [call EXCEPT ![c].keyBuf[part[c]] = S(c).key[part[c]]]
    /\ Advance(c, "tfm")
    /\ UNCHANGED <<outside, sess, held, sealed, last>>

-----------------------------------------------------------------------------
(* aes_cbc_encrypt, aes_cbc_decrypt and compute_md5: allocations, each of   *)
(* which may fail, the operation, and the clean-up.                         *)

After == [tfm |-> "req", req |-> "setkey", iv_copy |-> "run",
          shash |-> "desc", desc |-> "digest"]

Acquire(c, what) ==
    /\ At(c, what)
    /\ Goto(c, After[what])
    /\ held' = [held EXCEPT ![c] = @ \cup {what}]
    /\ UNCHANGED <<outside, sess, part, call, sealed, last>>

SetTfmKey(c) ==
    /\ At(c, "setkey") /\ Goto(c, "iv_copy")
    /\ UNCHANGED <<outside, sess, part, call, held, sealed, last>>

FreesLess(label) == IF label = "iv_copy" THEN {} ELSE                \* mutant
    IF label = "req" THEN {"tfm"} ELSE {"req", "tfm", "shash", "desc"}

\* What the function frees when the step at label fails: nothing after the
\* first allocation, that one after the second, all it has at label out.
Frees(label) == CASE label \in {"tfm", "shash"} -> {}
                  [] label = "req"     -> {"tfm"}
                  [] label = "desc"    -> {"shash"}
                  [] label \in {"setkey", "iv_copy"} -> {"req", "tfm"}
                  [] label = "run"     -> {"iv_copy", "req", "tfm"}
                  [] label = "digest"  -> {"desc", "shash"}

Steps == {"tfm", "req", "setkey", "iv_copy", "run", "shash", "desc", "digest"}

StepFails(c) ==
    /\ pc[c] \in Steps
    /\ \/ "memory" \in Faults /\ pc[c] \notin {"setkey", "run", "digest"}
          /\ Return(c, "ENOMEM")
       \/ "crypto" \in Faults /\ pc[c] \notin {"req", "iv_copy", "desc"}
          /\ Return(c, "ECRYPTO")
    /\ held' = [held EXCEPT ![c] = @ \ (Frees(pc[c]) \cup {"kdata"})]
    /\ UNCHANGED <<outside, sess, part, call, sealed, last>>

\* The operation itself.  The output of DECRYPT is as long as the ciphertext.
Run(c) ==
    /\ At(c, "run")
    /\ LET k == call[c]
       IN  call' = [call EXCEPT ![c] =
             IF k.op = "ENCRYPT"
             THEN [k EXCEPT !.outLen = Padded(k.text),
                            !.box = [text |-> k.text, key |-> k.keyBuf,
                                     iv |-> k.ivBuf, shown |-> k.iv]]
             ELSE [k EXCEPT !.outLen = Padded(k.box.text),
                            !.text = Opened(k.box, k.keyBuf, k.ivBuf)]]
    /\ held' = [held EXCEPT ![c] = @ \ Frees("run")]
    /\ Goto(c, "copyout")
    /\ UNCHANGED <<outside, sess, part, sealed, last>>

Digest(c) ==
    /\ At(c, "digest")
    /\ held' = [held EXCEPT ![c] = @ \ Frees("digest")]
    /\ Goto(c, "copyout")
    /\ UNCHANGED <<outside, sess, part, call, sealed, last>>

\* copy_to_user and kfree(kdata)
CopyOut(c) ==
    /\ At(c, "copyout")
    /\ \/ /\ Return(c, "OK")
          /\ sealed' = sealed \cup (IF call[c].op = "ENCRYPT" THEN {call[c].box}
                                                             ELSE {})
       \/ "copy" \in Faults /\ Return(c, "EFAULT") /\ UNCHANGED sealed
    /\ held' = [held EXCEPT ![c] = @ \ {"kdata"}]
    /\ UNCHANGED <<outside, sess, part, call, last>>

Ioctl(c) ==
    \/ SaveKey(c) \/ SaveIv(c) \/ SaveFaults(c) \/ FlagKey(c) \/ FlagIv(c) \/ FlagEarly(c)
    \/ GetIv(c) \/ ShowIv(c) \/ ShowFaults(c)
    \/ CheckKey(c) \/ Fetch(c) \/ PickIv(c) \/ BufIv(c) \/ ReadOnce(c)
    \/ PickKey(c) \/ BufKey(c)
    \/ \E what \in DOMAIN After : Acquire(c, what)
    \/ SetTfmKey(c) \/ StepFails(c) \/ Run(c) \/ Digest(c) \/ CopyOut(c)

Next == \/ \E s \in Session : Open(s) \/ Close(s) \/ Release(s)
        \/ \E c \in Caller : Ioctl(c) \/ \E s \in Session : Begin(c, s)

Spec == Init /\ [][Next]_vars
=============================================================================
