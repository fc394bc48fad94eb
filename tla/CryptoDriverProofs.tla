------------------------- MODULE CryptoDriverProofs -------------------------
(***************************************************************************)
(* Theorems about CryptoDriver: any number of callers and open files, calls *)
(* interleaved at every access to the session, every step that may fail.    *)
(***************************************************************************)
EXTENDS CryptoDriverProperties, TLAPS

LEMMA Fields ==
    ASSUME NEW r \in Call
    PROVE  /\ \A x \in Block : /\ [r EXCEPT !.key = x] \in Call
                               /\ [r EXCEPT !.iv = x] \in Call
                               /\ [r EXCEPT !.asked = x] \in Call
                               /\ [r EXCEPT !.ivBuf = x] \in Call
                               /\ [r EXCEPT !.keyBuf = x] \in Call
           /\ \A x \in Lens \cup {Garbled} : [r EXCEPT !.text = x] \in Call
           /\ \A x \in Box : [r EXCEPT !.box = x] \in Call
           /\ \A x \in Nat : [r EXCEPT !.outLen = x] \in Call
  BY DEF Call

LEMMA BlankFits == Blank \in Block /\ NoBox \in Box
  <1>1. Blank \in Block
    BY HalfAssumption DEF Blank, Block
  <1>2. 0 \in Lens
    BY SizeAssumption DEF Lens
  <1>3. NoBox \in Box
    BY <1>1, <1>2 DEF NoBox, Box
  <1>4. QED
    BY <1>1, <1>3

LEMMA NewFits ==
    ASSUME NEW op \in Commands \cup {"none"}, NEW s \in Session, NEW k \in Block,
           NEW v \in Block, NEW w \in Block, NEW n \in Lens, NEW b \in Box
    PROVE  /\ NewCall(op, s, k, v, w, n, b) \in Call
           /\ NewCall(op, s, k, v, w, n, b).op = op
           /\ NewCall(op, s, k, v, w, n, b).s = s
           /\ NewCall(op, s, k, v, w, n, b).key = k
           /\ NewCall(op, s, k, v, w, n, b).text = n
  BY BlankFits DEF NewCall, Call

LEMMA PartFitsBlock ==
    ASSUME NEW b \in Block, NEW i \in Part, NEW h \in Half
    PROVE  [b EXCEPT ![i] = h] \in Block
  BY DEF Block

LEMMA RequestFits ==
    ASSUME sealed \subseteq Box, NEW op \in Ops, NEW s \in Session, NEW r \in Requests(op, s)
    PROVE  /\ r \in Call /\ r.op = op /\ r.s = s /\ op \in Commands
           /\ op = "SET_KEY" => r.key \in UserKeys[s]
           /\ r.text \in Lens
  <1>1. op \in Commands /\ op \in Commands \cup {"none"}
    BY UserAssumption
  <1>2. 0 \in Lens /\ Blank \in Block /\ NoBox \in Box
    BY SizeAssumption, BlankFits DEF Lens
  <1>3. CASE op = "SET_KEY"
    <2>1. PICK k \in UserKeys[s] : r = NewCall(op, s, k, Blank, Blank, 0, NoBox)
      BY <1>3 DEF Requests
    <2>2. k \in Block
      BY UserAssumption
    <2>3. QED
      BY <1>1, <1>2, <2>1, <2>2, NewFits
  <1>4. CASE op = "SET_IV"
    <2>1. PICK v \in UserIVs[s] : r = NewCall(op, s, Blank, Blank, v, 0, NoBox)
      BY <1>4 DEF Requests
    <2>2. v \in Block
      BY UserAssumption
    <2>3. QED
      BY <1>1, <1>2, <1>4, <2>1, <2>2, NewFits
  <1>5. CASE op \in {"GET_IV", "MD5"}
    <2>1. r = Plain(op, s)
      <3>1. CASE op = "GET_IV"
        BY <3>1 DEF Requests
      <3>2. CASE op = "MD5"
        BY <3>2 DEF Requests
      <3>3. QED
        BY <1>5, <3>1, <3>2
    <2>2. QED
      BY <1>1, <1>2, <1>5, <2>1, NewFits DEF Plain
  <1>6. CASE op = "ENCRYPT"
    <2>1. PICK k \in OwnKeys \cup {Blank}, v \in OwnIVs \cup {Blank}, n \in Lengths :
            r = NewCall(op, s, k, v, Blank, n, NoBox)
      BY <1>6 DEF Requests
    <2>2. k \in Block /\ v \in Block /\ n \in Lens
      BY <1>2, UserAssumption DEF Lens
    <2>3. QED
      BY <1>1, <1>2, <1>6, <2>1, <2>2, NewFits
  <1>7. CASE op = "DECRYPT"
    <2>1. PICK k \in OwnKeys \cup {Blank}, b \in sealed :
            r = NewCall(op, s, k, b.shown, Blank, 0, b)
      BY <1>7 DEF Requests
    <2>2. k \in Block /\ b \in Box /\ b.shown \in Block
      BY <1>2, UserAssumption DEF Box
    <2>3. QED
      BY <1>1, <1>2, <1>7, <2>1, <2>2, NewFits
  <1>8. QED
    BY <1>1, <1>3, <1>4, <1>5, <1>6, <1>7 DEF Commands

-----------------------------------------------------------------------------
(* The inductive invariant.                                                 *)

\* The commands that reach a label, and the memory a call holds there.
OpsAt(label) ==
    CASE label = "idle"                  -> Commands \cup {"none"}
      [] label \in {"savekey", "flagkey"} -> {"SET_KEY"}
      [] label \in {"saveiv", "flagiv"}  -> {"SET_IV", "GET_IV", "ENCRYPT"}
      [] label = "getiv"                 -> {"GET_IV"}
      [] label = "showiv"                -> {"GET_IV", "ENCRYPT"}
      [] label \in {"fetch", "copyout"}  -> {"ENCRYPT", "DECRYPT", "MD5"}
      [] label \in {"shash", "desc", "digest"} -> {"MD5"}
      [] OTHER                           -> Crypts

HeldAt(label, op) ==
    CASE label \in {"idle", "savekey", "flagkey", "getiv", "check", "fetch"} -> {}
      [] label \in {"saveiv", "flagiv", "showiv"} ->
            IF op = "ENCRYPT" THEN {"kdata"} ELSE {}
      [] label = "req"                   -> {"kdata", "tfm"}
      [] label \in {"setkey", "iv_copy"} -> {"kdata", "tfm", "req"}
      [] label = "run"                   -> {"kdata", "tfm", "req", "iv_copy"}
      [] label = "desc"                  -> {"kdata", "shash"}
      [] label = "digest"                -> {"kdata", "shash", "desc"}
      [] OTHER                           -> {"kdata"}

\* Half i of b is one that calls put into the key of s.
From(i, b, s) == <<i, b[i]>> \in given[s].key

\* Where a call is, what it holds and that its file is open.
PlaceFits(c) ==
    /\ call[c].op \in OpsAt(pc[c])
    /\ held[c] = HeldAt(pc[c], call[c].op)
    /\ part[c] = 2 => pc[c] \in {"savekey", "saveiv", "showiv", "bufiv", "bufkey"}
    /\ pc[c] # "idle" => file[call[c].s] # "none"
    /\ call[c].op = "ENCRYPT" => call[c].text \in Lens

\* The key that is being set, checked or copied came from calls.
KeyGiven(c) ==
    LET k == call[c]
    IN  /\ pc[c] = "savekey" => \A i \in Part : From(i, k.key, k.s)
        /\ pc[c] = "savekey" /\ part[c] = 2 => From(1, sess[k.s].key, k.s)
        /\ pc[c] = "flagkey" => \A i \in Part : From(i, sess[k.s].key, k.s)
        /\ k.op \in Crypts /\ pc[c] \notin {"idle", "check"} => sess[k.s].keySet
        /\ pc[c] = "bufkey" /\ part[c] = 2 => From(1, k.keyBuf, k.s)
        /\ pc[c] = "tfm" /\ ~Supplied(k.key) => \A i \in Part : From(i, k.keyBuf, k.s)

KeyKept(s) == sess[s].keySet => \A i \in Part : From(i, sess[s].key, s)

DriverInv ==
    /\ DriverTypeOK
    /\ \A c \in Caller : PlaceFits(c) /\ KeyGiven(c)
    /\ \A s \in Session : KeyKept(s)

LEMMA InvInit == Init => DriverInv
  <1> SUFFICES ASSUME Init PROVE DriverInv
    OBVIOUS
  <1>1. \A c \in Caller : call[c] \in Call /\ call[c].op = "none"
    <2> SUFFICES ASSUME NEW c \in Caller PROVE call[c] \in Call /\ call[c].op = "none"
      OBVIOUS
    <2>1. PICK s \in Session : call[c] = Plain("none", s)
      BY DEF Init
    <2>2. 0 \in Lens
      BY SizeAssumption DEF Lens
    <2>3. "none" \in Commands \cup {"none"} /\ Blank \in Block /\ NoBox \in Box
      BY BlankFits
    <2>4. Plain("none", s) \in Call /\ Plain("none", s).op = "none"
      BY <2>2, <2>3, NewFits DEF Plain
    <2>5. QED
      BY <2>1, <2>4
  <1>2. Fresh \in CryptoSession /\ Fresh.keySet = FALSE
    BY BlankFits DEF Fresh, CryptoSession
  <1>3. DriverTypeOK
    <2>1. /\ file \in [Session -> FileState] /\ sess \in [Session -> CryptoSession]
          /\ pc \in [Caller -> Pc] /\ part \in [Caller -> Part]
      BY <1>2 DEF Init, FileState, Pc, Part
    <2>2. call \in [Caller -> Call]
      <3>1. call = [c \in Caller |-> call[c]]
        BY DEF Init
      <3>2. QED
        BY <1>1, <3>1
    <2>3. /\ ret \in [Caller -> Ret] /\ held \in [Caller -> SUBSET Memory]
          /\ calls \in [Caller -> 0 .. MaxCalls] /\ sealed \subseteq Box
      BY UserAssumption DEF Init, Ret
    <2>4. given \in [Session -> [key : SUBSET (Part \X Half), iv : SUBSET (Part \X Half)]]
      BY DEF Init
    <2>5. last \in [Session -> [key : Block, iv : Block]]
      BY BlankFits DEF Init
    <2>6. QED
      BY <2>1, <2>2, <2>3, <2>4, <2>5 DEF DriverTypeOK
  <1>4. \A c \in Caller : PlaceFits(c) /\ KeyGiven(c)
    <2> SUFFICES ASSUME NEW c \in Caller PROVE PlaceFits(c) /\ KeyGiven(c)
      OBVIOUS
    <2>1. pc[c] = "idle" /\ part[c] = 1 /\ held[c] = {} /\ call[c].op = "none"
      BY <1>1 DEF Init
    <2>2. PlaceFits(c)
      BY <2>1 DEF PlaceFits, OpsAt, HeldAt
    <2>3. KeyGiven(c)
      BY <2>1 DEF KeyGiven
    <2>4. QED
      BY <2>2, <2>3
  <1>5. \A s \in Session : KeyKept(s)
    BY <1>2 DEF Init, KeyKept
  <1>6. QED
    BY <1>3, <1>4, <1>5 DEF DriverInv

-----------------------------------------------------------------------------
(* A step of one call: what it may change of the sessions' keys, and that   *)
(* the other calls are then as well off as before.                          *)

\* No key flag falls, and a half that changes was put in by calls.
Grows ==
    /\ file' = file
    /\ \A s \in Session :
        /\ given[s].key \subseteq given'[s].key
        /\ sess[s].keySet => sess'[s].keySet
        /\ \A i \in Part : \/ sess'[s].key[i] = sess[s].key[i]
                           \/ <<i, sess'[s].key[i]>> \in given'[s].key

Alone(c) ==
    \A d \in Caller \ {c} :
        pc'[d] = pc[d] /\ part'[d] = part[d] /\ call'[d] = call[d] /\ held'[d] = held[d]

LEMMA SessionOf == ASSUME DriverTypeOK, NEW c \in Caller PROVE call[c].s \in Session
  BY DEF DriverTypeOK, Call

LEMMA OthersKeep ==
    ASSUME DriverInv, NEW c \in Caller, NEW d \in Caller \ {c}, Grows, Alone(c)
    PROVE  PlaceFits(d)' /\ KeyGiven(d)'
  <1>1. PlaceFits(d) /\ KeyGiven(d) /\ call[d].s \in Session /\ file' = file
    BY SessionOf DEF DriverInv, Grows
  <1>2. pc'[d] = pc[d] /\ part'[d] = part[d] /\ call'[d] = call[d] /\ held'[d] = held[d]
    BY DEF Alone
  <1>3. PlaceFits(d)'
    BY <1>1, <1>2 DEF PlaceFits
  <1> DEFINE k == call[d]
             s == call[d].s
  <1>4. /\ given[s].key \subseteq given'[s].key
        /\ sess[s].keySet => sess'[s].keySet
        /\ \A i \in Part : \/ sess'[s].key[i] = sess[s].key[i]
                           \/ <<i, sess'[s].key[i]>> \in given'[s].key
    BY <1>1 DEF Grows
  <1>5. \A b, i : From(i, b, s) => <<i, b[i]>> \in given'[s].key
    BY <1>4 DEF From
  <1>6. \A i \in Part : From(i, sess[s].key, s) => <<i, sess'[s].key[i]>> \in given'[s].key
    BY <1>4 DEF From
  <1>7. 1 \in Part
    BY DEF Part
  <1> HIDE DEF k, s
  <1>8. /\ pc'[d] = "savekey" => \A i \in Part : <<i, k.key[i]>> \in given'[s].key
        /\ pc'[d] = "savekey" /\ part'[d] = 2 => <<1, sess'[s].key[1]>> \in given'[s].key
        /\ pc'[d] = "flagkey" => \A i \in Part : <<i, sess'[s].key[i]>> \in given'[s].key
        /\ k.op \in Crypts /\ pc'[d] \notin {"idle", "check"} => sess'[s].keySet
        /\ pc'[d] = "bufkey" /\ part'[d] = 2 => <<1, k.keyBuf[1]>> \in given'[s].key
        /\ pc'[d] = "tfm" /\ ~Supplied(k.key) =>
              \A i \in Part : <<i, k.keyBuf[i]>> \in given'[s].key
    BY <1>1, <1>2, <1>4, <1>5, <1>6, <1>7 DEF KeyGiven, k, s
  <1>9. KeyGiven(d)'
    BY <1>2, <1>8 DEF KeyGiven, From, k, s
  <1>10. QED
    BY <1>3, <1>9

LEMMA Compose ==
    ASSUME DriverInv, DriverTypeOK', NEW c \in Caller, Grows, Alone(c),
           PlaceFits(c)', KeyGiven(c)',
           \A s \in Session : sess'[s].keySet /\ ~sess[s].keySet => KeyKept(s)'
    PROVE  DriverInv'
  <1>1. \A d \in Caller : PlaceFits(d)' /\ KeyGiven(d)'
    BY OthersKeep
  <1>2. ASSUME NEW s \in Session PROVE KeyKept(s)'
    <2>1. CASE sess[s].keySet /\ sess'[s].keySet
      BY <2>1 DEF DriverInv, KeyKept, From, Grows
    <2>2. CASE ~sess'[s].keySet
      BY <2>2 DEF KeyKept
    <2>3. QED
      BY <2>1, <2>2
  <1>3. QED
    BY <1>1, <1>2 DEF DriverInv

\* A step that leaves sessions and the ghosts of their keys alone.
LEMMA ComposeQuiet ==
    ASSUME DriverInv, NEW c \in Caller, UNCHANGED <<file, sess, given, last, calls>>,
           Alone(c), PlaceFits(c)', KeyGiven(c)',
           pc' \in [Caller -> Pc], part' \in [Caller -> Part], call' \in [Caller -> Call],
           ret' \in [Caller -> Ret], held' \in [Caller -> SUBSET Memory],
           sealed' \subseteq Box
    PROVE  DriverInv'
  <1>1. DriverTypeOK'
    BY DEF DriverInv, DriverTypeOK
  <1>2. Grows
    BY DEF Grows
  <1>3. QED
    BY <1>1, <1>2, Compose

\* A step from one label to another that leaves the call as it is.
LEMMA Goes ==
    ASSUME DriverInv, NEW c \in Caller, NEW l \in Pc \ {"savekey", "flagkey", "tfm"},
           UNCHANGED <<file, sess, given, last, calls, call>>, sealed' \subseteq Box,
           pc' = [pc EXCEPT ![c] = l], ret' \in [Caller -> Ret],
           part' = part, part[c] = 1,
           held' = [held EXCEPT ![c] = HeldAt(l, call[c].op)], HeldAt(l, call[c].op) \subseteq Memory,
           call[c].op \in OpsAt(l), pc[c] # "idle",
           call[c].op \in Crypts /\ l \notin {"idle", "check"} => sess[call[c].s].keySet
    PROVE  DriverInv'
  <1>1. DriverTypeOK /\ PlaceFits(c)
    BY DEF DriverInv
  <1>2. pc'[c] = l /\ held'[c] = HeldAt(l, call[c].op)
    BY <1>1 DEF DriverTypeOK
  <1>3. Alone(c)
    BY <1>1 DEF Alone, DriverTypeOK
  <1>4. PlaceFits(c)'
    BY <1>1, <1>2 DEF PlaceFits
  <1>5. KeyGiven(c)'
    BY <1>2 DEF KeyGiven
  <1>6. /\ pc' \in [Caller -> Pc] /\ part' \in [Caller -> Part] /\ call' \in [Caller -> Call]
        /\ held' \in [Caller -> SUBSET Memory]
    BY <1>1 DEF DriverTypeOK
  <1>7. QED
    BY <1>3, <1>4, <1>5, <1>6, ComposeQuiet

\* What the invariant says of one call.
LEMMA OfCall ==
    ASSUME DriverInv, NEW c \in Caller
    PROVE  /\ PlaceFits(c) /\ KeyGiven(c) /\ call[c] \in Call /\ part[c] \in Part
           /\ call[c].s \in Session /\ sess[call[c].s] \in CryptoSession
           /\ pc[c] \in Pc /\ held[c] \subseteq Memory /\ sealed \subseteq Box
           /\ held[c] = HeldAt(pc[c], call[c].op) /\ call[c].op \in OpsAt(pc[c])
           /\ (pc[c] \notin {"savekey", "saveiv", "showiv", "bufiv", "bufkey"} => part[c] = 1)
           /\ (call[c].op \in Crypts /\ pc[c] \notin {"idle", "check"} => sess[call[c].s].keySet)
  <1>1. DriverTypeOK /\ PlaceFits(c) /\ KeyGiven(c)
    BY DEF DriverInv
  <1>2. /\ call[c] \in Call /\ part[c] \in Part /\ pc[c] \in Pc /\ held[c] \subseteq Memory
        /\ sealed \subseteq Box
    BY <1>1 DEF DriverTypeOK
  <1>3. call[c].s \in Session
    BY <1>2 DEF Call
  <1>4. sess[call[c].s] \in CryptoSession
    BY <1>1, <1>3 DEF DriverTypeOK
  <1>5. QED
    BY <1>1, <1>2, <1>3, <1>4 DEF PlaceFits, KeyGiven, Part

LEMMA Returns ==
    ASSUME DriverInv, NEW c \in Caller, NEW r \in Ret, Return(c, r)
    PROVE  ret' \in [Caller -> Ret] /\ pc' = [pc EXCEPT ![c] = "idle"]
  BY DEF DriverInv, DriverTypeOK, Return

LEMMA CheckKeyStep == ASSUME DriverInv, NEW c \in Caller, CheckKey(c) PROVE DriverInv'
  <1> USE OfCall DEF outside
  <1>1. pc[c] = "check" /\ call[c].op \in Crypts /\ held[c] = {} /\ part[c] = 1
    BY DEF CheckKey, At, OpsAt, HeldAt
  <1>2. held = [held EXCEPT ![c] = {}] /\ ret \in [Caller -> Ret]
    BY <1>1 DEF DriverInv, DriverTypeOK
  <1>3. CASE S(c).keySet
    <2>1. pc' = [pc EXCEPT ![c] = "fetch"] /\ ret' = ret
      BY <1>3 DEF CheckKey, Goto
    <2>2. call[c].op \in OpsAt("fetch") /\ HeldAt("fetch", call[c].op) = {}
      BY <1>1 DEF OpsAt, HeldAt, Crypts
    <2>3. "fetch" \in Pc \ {"savekey", "flagkey", "tfm"}
      BY DEF Pc
    <2>4. QED
      BY <1>1, <1>2, <1>3, <2>1, <2>2, <2>3, Goes DEF CheckKey, S
  <1>4. CASE ~S(c).keySet
    <2>1. Return(c, "EINVAL") /\ "EINVAL" \in Ret
      BY <1>4 DEF CheckKey, Ret
    <2>2. call[c].op \in OpsAt("idle") /\ HeldAt("idle", call[c].op) = {}
      BY <1>1 DEF OpsAt, HeldAt, Crypts, Commands
    <2>3. "idle" \in Pc \ {"savekey", "flagkey", "tfm"}
      BY DEF Pc
    <2>4. QED
      BY <1>1, <1>2, <2>1, <2>2, <2>3, Goes, Returns DEF CheckKey
  <1>5. QED
    BY <1>3, <1>4

LEMMA FetchStep == ASSUME DriverInv, NEW c \in Caller, Fetch(c) PROVE DriverInv'
  <1> USE OfCall DEF outside
  <1>1. /\ pc[c] = "fetch" /\ call[c].op \in {"ENCRYPT", "DECRYPT", "MD5"}
        /\ held[c] = {} /\ part[c] = 1
    BY DEF Fetch, At, OpsAt, HeldAt
  <1>2. held = [held EXCEPT ![c] = {}] /\ ret \in [Caller -> Ret]
    BY <1>1 DEF DriverInv, DriverTypeOK
  <1>3. CASE held' = [held EXCEPT ![c] = {"kdata"}]
             /\ Goto(c, IF call[c].op = "MD5" THEN "shash" ELSE "pickiv")
    <2> DEFINE l == IF call[c].op = "MD5" THEN "shash" ELSE "pickiv"
    <2>1. pc' = [pc EXCEPT ![c] = l] /\ ret' = ret
      BY <1>3 DEF Goto
    <2>2. call[c].op \in OpsAt(l) /\ HeldAt(l, call[c].op) = {"kdata"}
      BY <1>1 DEF OpsAt, HeldAt, Crypts
    <2>3. l \in Pc \ {"savekey", "flagkey", "tfm"} /\ {"kdata"} \subseteq Memory
      BY DEF Pc, Memory
    <2> HIDE DEF l
    <2>4. QED
      BY <1>1, <1>2, <1>3, <2>1, <2>2, <2>3, Goes DEF Fetch
  <1>4. ASSUME NEW r \in {"ENOMEM", "EFAULT"}, Return(c, r), UNCHANGED held PROVE DriverInv'
    <2>1. r \in Ret
      BY DEF Ret
    <2>2. call[c].op \in OpsAt("idle") /\ HeldAt("idle", call[c].op) = {}
      BY <1>1 DEF OpsAt, HeldAt, Crypts, Commands
    <2>3. "idle" \in Pc \ {"savekey", "flagkey", "tfm"}
      BY DEF Pc
    <2>4. QED
      BY <1>1, <1>2, <1>4, <2>1, <2>2, <2>3, Goes, Returns DEF Fetch
  <1>5. QED
    BY <1>3, <1>4 DEF Fetch

LEMMA AcquireStep ==
    ASSUME DriverInv, NEW c \in Caller, NEW what \in DOMAIN After, Acquire(c, what)
    PROVE  DriverInv'
  <1> USE OfCall DEF outside
  <1> DEFINE l == After[what]
  <1>1. what \in {"tfm", "req", "iv_copy", "shash", "desc"} /\ pc[c] = what
    BY DEF After, Acquire, At
  <1>2. part[c] = 1 /\ held[c] = HeldAt(what, call[c].op) /\ call[c].op \in OpsAt(what)
    BY <1>1
  <1>3. /\ l \in Pc \ {"savekey", "flagkey", "tfm"}
        /\ HeldAt(l, call[c].op) = held[c] \cup {what} /\ HeldAt(l, call[c].op) \subseteq Memory
        /\ call[c].op \in OpsAt(l) /\ l \notin {"idle", "check"}
    <2>1. CASE what = "tfm"
      BY <1>2, <2>1 DEF After, Pc, HeldAt, OpsAt, Memory
    <2>2. CASE what = "req"
      BY <1>2, <2>2 DEF After, Pc, HeldAt, OpsAt, Memory
    <2>3. CASE what = "iv_copy"
      BY <1>2, <2>3 DEF After, Pc, HeldAt, OpsAt, Memory
    <2>4. CASE what = "shash"
      BY <1>2, <2>4 DEF After, Pc, HeldAt, OpsAt, Memory
    <2>5. CASE what = "desc"
      BY <1>2, <2>5 DEF After, Pc, HeldAt, OpsAt, Memory
    <2>6. QED
      BY <1>1, <2>1, <2>2, <2>3, <2>4, <2>5
  <1> HIDE DEF l
  <1>4. /\ pc' = [pc EXCEPT ![c] = l] /\ ret' = ret
        /\ held' = [held EXCEPT ![c] = held[c] \cup {what}]
    BY DEF Acquire, Goto, l
  <1>5. ret \in [Caller -> Ret]
    BY DEF DriverInv, DriverTypeOK
  <1>6. QED
    BY <1>1, <1>2, <1>3, <1>4, <1>5, Goes DEF Acquire

LEMMA SetTfmKeyStep == ASSUME DriverInv, NEW c \in Caller, SetTfmKey(c) PROVE DriverInv'
  <1> USE OfCall DEF outside
  <1>1. pc[c] = "setkey" /\ part[c] = 1 /\ held[c] = {"kdata", "tfm", "req"}
    BY DEF SetTfmKey, At, HeldAt
  <1>2. held = [held EXCEPT ![c] = held[c]] /\ ret \in [Caller -> Ret]
    BY DEF DriverInv, DriverTypeOK
  <1>3. call[c].op \in OpsAt("iv_copy") /\ HeldAt("iv_copy", call[c].op) = held[c]
    BY <1>1 DEF OpsAt, HeldAt
  <1>4. "iv_copy" \in Pc \ {"savekey", "flagkey", "tfm"} /\ held[c] \subseteq Memory
    BY DEF Pc
  <1>5. pc' = [pc EXCEPT ![c] = "iv_copy"] /\ ret' = ret
    BY DEF SetTfmKey, Goto
  <1>6. call[c].op \in Crypts => sess[call[c].s].keySet
    BY <1>1
  <1>7. QED
    BY <1>1, <1>2, <1>3, <1>4, <1>5, <1>6, Goes DEF SetTfmKey

LEMMA StepFailsStep == ASSUME DriverInv, NEW c \in Caller, StepFails(c) PROVE DriverInv'
  <1> USE OfCall DEF outside
  <1> DEFINE l == pc[c]
             h == held[c] \ (Frees(l) \cup {"kdata"})
  <1>1. l \in Steps /\ part[c] = 1
    BY DEF StepFails, Steps
  <1>2. call[c].op \in Commands /\ h = {}
    <2>1. CASE l \in {"tfm", "shash"}
      BY <2>1 DEF OpsAt, HeldAt, Frees, Crypts, Commands
    <2>2. CASE l = "req"
      BY <2>2 DEF OpsAt, HeldAt, Frees, Crypts, Commands
    <2>3. CASE l = "desc"
      BY <2>3 DEF OpsAt, HeldAt, Frees, Crypts, Commands
    <2>4. CASE l \in {"setkey", "iv_copy"}
      BY <2>4 DEF OpsAt, HeldAt, Frees, Crypts, Commands
    <2>5. CASE l = "run"
      BY <2>5 DEF OpsAt, HeldAt, Frees, Crypts, Commands
    <2>6. CASE l = "digest"
      BY <2>6 DEF OpsAt, HeldAt, Frees, Crypts, Commands
    <2>7. QED
      BY <1>1, <2>1, <2>2, <2>3, <2>4, <2>5, <2>6 DEF Steps
  <1>3. held' = [held EXCEPT ![c] = {}]
    BY <1>2 DEF StepFails
  <1>4. PICK r \in Ret : Return(c, r)
    BY DEF StepFails, Ret
  <1>5. call[c].op \in OpsAt("idle") /\ HeldAt("idle", call[c].op) = {}
    BY <1>2 DEF OpsAt, HeldAt
  <1>6. "idle" \in Pc \ {"savekey", "flagkey", "tfm"} /\ pc[c] # "idle"
    BY <1>1 DEF Pc, Steps
  <1>7. UNCHANGED <<file, sess, given, last, calls, call, part, sealed>>
    BY DEF StepFails
  <1> HIDE DEF l, h
  <1>8. QED
    BY <1>1, <1>3, <1>4, <1>5, <1>6, <1>7, Goes, Returns

LEMMA DigestStep == ASSUME DriverInv, NEW c \in Caller, Digest(c) PROVE DriverInv'
  <1> USE OfCall DEF outside
  <1>1. pc[c] = "digest" /\ part[c] = 1 /\ held[c] = {"kdata", "shash", "desc"}
        /\ call[c].op = "MD5"
    BY DEF Digest, At, HeldAt, OpsAt
  <1>2. held' = [held EXCEPT ![c] = {"kdata"}] /\ ret \in [Caller -> Ret]
    BY <1>1 DEF DriverInv, DriverTypeOK, Digest, Frees
  <1>3. call[c].op \in OpsAt("copyout") /\ HeldAt("copyout", call[c].op) = {"kdata"}
    BY <1>1 DEF OpsAt, HeldAt
  <1>4. "copyout" \in Pc \ {"savekey", "flagkey", "tfm"} /\ {"kdata"} \subseteq Memory
    BY DEF Pc, Memory
  <1>5. pc' = [pc EXCEPT ![c] = "copyout"] /\ ret' = ret
    BY DEF Digest, Goto
  <1>6. QED
    BY <1>1, <1>2, <1>3, <1>4, <1>5, Goes DEF Digest

LEMMA CopyOutStep == ASSUME DriverInv, NEW c \in Caller, CopyOut(c) PROVE DriverInv'
  <1> USE OfCall DEF outside
  <1>1. pc[c] = "copyout" /\ part[c] = 1 /\ held[c] = {"kdata"}
        /\ call[c].op \in {"ENCRYPT", "DECRYPT", "MD5"}
    BY DEF CopyOut, At, HeldAt, OpsAt
  <1>2. held' = [held EXCEPT ![c] = {}]
    BY <1>1 DEF CopyOut
  <1>3. call[c].op \in OpsAt("idle") /\ HeldAt("idle", call[c].op) = {}
    BY <1>1 DEF OpsAt, HeldAt, Commands
  <1>4. "idle" \in Pc \ {"savekey", "flagkey", "tfm"}
    BY DEF Pc
  <1>5. PICK r \in Ret : Return(c, r)
    BY DEF CopyOut, Ret
  <1>6. sealed' \subseteq Box
    BY DEF CopyOut, Call
  <1>7. UNCHANGED <<file, sess, given, last, calls, call, part>>
    BY DEF CopyOut
  <1>8. QED
    BY <1>1, <1>2, <1>3, <1>4, <1>5, <1>6, <1>7, Goes, Returns

\* A step that fills in the call, r.
LEMMA Fills ==
    ASSUME DriverInv, NEW c \in Caller, NEW l \in Pc \ {"savekey", "flagkey"},
           NEW r \in Call, NEW i \in Part, pc[c] # "idle",
           r.op = call[c].op, r.s = call[c].s, r.op = "ENCRYPT" => r.text \in Lens,
           UNCHANGED <<file, sess, given, last, calls, sealed>>,
           call' = [call EXCEPT ![c] = r], part' = [part EXCEPT ![c] = i],
           pc' = [pc EXCEPT ![c] = l], ret' \in [Caller -> Ret],
           held' = [held EXCEPT ![c] = HeldAt(l, r.op)], HeldAt(l, r.op) \subseteq Memory,
           r.op \in OpsAt(l),
           i = 2 => l \in {"saveiv", "showiv", "bufiv", "bufkey"},
           r.op \in Crypts /\ l \notin {"idle", "check"} => sess[r.s].keySet,
           l = "bufkey" /\ i = 2 => From(1, r.keyBuf, r.s),
           l = "tfm" /\ ~Supplied(r.key) => \A j \in Part : From(j, r.keyBuf, r.s)
    PROVE  DriverInv'
  <1>1. DriverTypeOK /\ PlaceFits(c)
    BY DEF DriverInv
  <1>2. pc'[c] = l /\ held'[c] = HeldAt(l, r.op) /\ call'[c] = r /\ part'[c] = i
    BY <1>1 DEF DriverTypeOK
  <1>3. Alone(c)
    BY <1>1 DEF Alone, DriverTypeOK
  <1>4. PlaceFits(c)'
    BY <1>1, <1>2 DEF PlaceFits
  <1>5. KeyGiven(c)'
    BY <1>2 DEF KeyGiven, From
  <1>6. /\ pc' \in [Caller -> Pc] /\ part' \in [Caller -> Part] /\ call' \in [Caller -> Call]
        /\ held' \in [Caller -> SUBSET Memory] /\ sealed' \subseteq Box
    BY <1>1 DEF DriverTypeOK
  <1>7. QED
    BY <1>3, <1>4, <1>5, <1>6, ComposeQuiet

\* The same, on the way to a label that has no part of the key.
LEMMA FillsAside ==
    ASSUME DriverInv, NEW c \in Caller, NEW l \in Pc \ {"savekey", "flagkey", "tfm", "bufkey"},
           NEW r \in Call, NEW i \in Part, pc[c] # "idle",
           r.op = call[c].op, r.s = call[c].s, r.op = "ENCRYPT" => r.text \in Lens,
           UNCHANGED <<file, sess, given, last, calls, sealed>>,
           call' = [call EXCEPT ![c] = r], part' = [part EXCEPT ![c] = i],
           pc' = [pc EXCEPT ![c] = l], ret' \in [Caller -> Ret],
           held' = [held EXCEPT ![c] = HeldAt(l, r.op)], HeldAt(l, r.op) \subseteq Memory,
           r.op \in OpsAt(l), i = 1 \/ l \in {"saveiv", "showiv", "bufiv"},
           r.op \in Crypts => sess[r.s].keySet
    PROVE  DriverInv'
  <1>1. /\ l \in Pc \ {"savekey", "flagkey"} /\ l # "tfm" /\ l # "bufkey"
        /\ i = 2 => l \in {"saveiv", "showiv", "bufiv", "bufkey"}
    OBVIOUS
  <1>2. QED
    BY <1>1, Fills

\* The same, on the way to the allocation of the cipher, with the key chosen.
LEMMA FillsKey ==
    ASSUME DriverInv, NEW c \in Caller, NEW r \in Call, pc[c] # "idle",
           r.op = call[c].op, r.s = call[c].s, r.op = "ENCRYPT" => r.text \in Lens,
           UNCHANGED <<file, sess, given, last, calls, sealed>>,
           call' = [call EXCEPT ![c] = r], part' = [part EXCEPT ![c] = 1],
           pc' = [pc EXCEPT ![c] = "tfm"], ret' \in [Caller -> Ret],
           held' = [held EXCEPT ![c] = {"kdata"}], r.op \in Crypts, sess[r.s].keySet,
           Supplied(r.key) \/ \A j \in Part : From(j, r.keyBuf, r.s)
    PROVE  DriverInv'
  <1>1. /\ "tfm" \in Pc \ {"savekey", "flagkey"} /\ 1 \in Part
        /\ HeldAt("tfm", r.op) = {"kdata"} /\ r.op \in OpsAt("tfm")
    BY DEF Pc, Part, HeldAt, OpsAt
  <1>2. /\ held' = [held EXCEPT ![c] = HeldAt("tfm", r.op)]
        /\ HeldAt("tfm", r.op) \subseteq Memory
    BY <1>1 DEF Memory
  <1>3. DriverTypeOK /\ PlaceFits(c)
    BY DEF DriverInv
  <1>4. pc'[c] = "tfm" /\ held'[c] = HeldAt("tfm", r.op) /\ call'[c] = r /\ part'[c] = 1
    BY <1>2, <1>3 DEF DriverTypeOK
  <1>5. Alone(c)
    BY <1>3 DEF Alone, DriverTypeOK
  <1>6. PlaceFits(c)'
    BY <1>1, <1>3, <1>4 DEF PlaceFits
  <1>7. KeyGiven(c)'
    BY <1>4 DEF KeyGiven, From
  <1>8. /\ pc' \in [Caller -> Pc] /\ part' \in [Caller -> Part] /\ call' \in [Caller -> Call]
        /\ held' \in [Caller -> SUBSET Memory] /\ sealed' \subseteq Box
    BY <1>1, <1>2, <1>3 DEF DriverTypeOK
  <1>9. QED
    BY <1>5, <1>6, <1>7, <1>8, ComposeQuiet

LEMMA Advances ==
    ASSUME DriverInv, NEW c \in Caller, NEW label, Advance(c, label)
    PROVE  /\ ret' \in [Caller -> Ret]
           /\ \/ part[c] = 1 /\ part' = [part EXCEPT ![c] = 2] /\ pc' = [pc EXCEPT ![c] = pc[c]]
              \/ part[c] = 2 /\ part' = [part EXCEPT ![c] = 1] /\ pc' = [pc EXCEPT ![c] = label]
  BY DEF DriverInv, DriverTypeOK, Advance, Goto, Part

LEMMA Blocks ==
    ASSUME NEW k \in Call, NEW i \in Part, NEW h \in Half
    PROVE  /\ [k.iv EXCEPT ![i] = h] \in Block
           /\ [k.ivBuf EXCEPT ![i] = h] \in Block
           /\ [k.keyBuf EXCEPT ![i] = h] \in Block
  <1>1. k.iv \in Block /\ k.ivBuf \in Block /\ k.keyBuf \in Block
    BY DEF Call
  <1>2. QED
    BY <1>1, PartFitsBlock

LEMMA BufIvStep == ASSUME DriverInv, NEW c \in Caller, BufIv(c) PROVE DriverInv'
  <1> USE OfCall DEF outside
  <1> DEFINE k == call[c]
             i == part[c]
             b == [k.ivBuf EXCEPT ![i] = S(c).iv[i]]
             r == [k EXCEPT !.ivBuf = b]
             l == IF k.op = "ENCRYPT" THEN "showiv" ELSE "pickkey"
  <1>1. pc[c] = "bufiv" /\ k.op \in Crypts /\ held[c] = {"kdata"} /\ sess[k.s].keySet
    BY DEF BufIv, At, OpsAt, HeldAt
  <1>2. S(c).iv[i] \in Half
    BY DEF S, CryptoSession, Block
  <1>3. b \in Block
    BY <1>2, Blocks
  <1> HIDE DEF b
  <1>4. r \in Call /\ r.op = k.op /\ r.s = k.s /\ (r.op = "ENCRYPT" => r.text \in Lens)
    <2>1. r \in Call
      BY <1>3, Fields
    <2>2. r.op = k.op /\ r.s = k.s /\ r.text = k.text
      BY DEF Call
    <2>3. QED
      BY <2>1, <2>2 DEF PlaceFits
  <1>5. call' = [call EXCEPT ![c] = r]
    BY DEF BufIv, b
  <1> HIDE DEF r
  <1>6. /\ l \in Pc \ {"savekey", "flagkey", "tfm", "bufkey"} /\ l \notin {"idle", "check"}
        /\ r.op \in OpsAt(l) /\ HeldAt(l, r.op) = {"kdata"}
    BY <1>1, <1>4 DEF Pc, OpsAt, HeldAt, Crypts
  <1>7. Advance(c, l) /\ UNCHANGED <<file, sess, given, last, calls, sealed, held>>
    BY DEF BufIv
  <1> HIDE DEF l
  <1>8. held' = [held EXCEPT ![c] = {"kdata"}] /\ {"kdata"} \subseteq Memory
    BY <1>1, <1>7 DEF DriverInv, DriverTypeOK, Memory
  <1>9. CASE part' = [part EXCEPT ![c] = 2] /\ pc' = [pc EXCEPT ![c] = pc[c]]
    <2>1. "bufiv" \in Pc \ {"savekey", "flagkey", "tfm", "bufkey"} /\ 2 \in Part
      BY DEF Pc, Part
    <2>2. r.op \in OpsAt("bufiv") /\ HeldAt("bufiv", r.op) = {"kdata"}
      BY <1>1, <1>4 DEF OpsAt, HeldAt
    <2>3. pc' = [pc EXCEPT ![c] = "bufiv"]
      BY <1>1, <1>9
    <2>4. ret' \in [Caller -> Ret] /\ pc[c] # "idle" /\ sess[r.s].keySet
      BY <1>1, <1>4, <1>7, Advances
    <2>5. held' = [held EXCEPT ![c] = HeldAt("bufiv", r.op)] /\ HeldAt("bufiv", r.op) \subseteq Memory
      BY <1>8, <2>2
    <2>6. UNCHANGED <<file, sess, given, last, calls, sealed>> /\ part' = [part EXCEPT ![c] = 2]
      BY <1>7, <1>9
    <2>7. QED
      BY <1>4, <1>5, <2>1, <2>2, <2>3, <2>4, <2>5, <2>6, FillsAside
  <1>10. CASE part' = [part EXCEPT ![c] = 1] /\ pc' = [pc EXCEPT ![c] = l]
    <2>1. 1 \in Part
      BY DEF Part
    <2>2. ret' \in [Caller -> Ret] /\ pc[c] # "idle" /\ sess[r.s].keySet
      BY <1>1, <1>4, <1>7, Advances
    <2>3. held' = [held EXCEPT ![c] = HeldAt(l, r.op)] /\ HeldAt(l, r.op) \subseteq Memory
      BY <1>6, <1>8
    <2>4. UNCHANGED <<file, sess, given, last, calls, sealed>> /\ part' = [part EXCEPT ![c] = 1]
      BY <1>7, <1>10
    <2>5. QED
      BY <1>4, <1>5, <1>6, <1>10, <2>1, <2>2, <2>3, <2>4, FillsAside
  <1>11. QED
    BY <1>7, <1>9, <1>10, Advances

LEMMA ShowIvStep == ASSUME DriverInv, NEW c \in Caller, ShowIv(c) PROVE DriverInv'
  <1> USE OfCall DEF outside
  <1> DEFINE k == call[c]
             i == part[c]
             b == [k.iv EXCEPT ![i] = S(c).iv[i]]
             r == [k EXCEPT !.iv = b]
             h == IF k.op = "ENCRYPT" THEN {"kdata"} ELSE {}
  <1>1. pc[c] = "showiv" /\ k.op \in {"GET_IV", "ENCRYPT"} /\ held[c] = h
    BY DEF ShowIv, At, OpsAt, HeldAt
  <1>2. S(c).iv[i] \in Half
    BY DEF S, CryptoSession, Block
  <1>3. b \in Block
    BY <1>2, Blocks
  <1> HIDE DEF b
  <1>4. r \in Call /\ r.op = k.op /\ r.s = k.s /\ (r.op = "ENCRYPT" => r.text \in Lens)
    <2>1. r \in Call
      BY <1>3, Fields
    <2>2. r.op = k.op /\ r.s = k.s /\ r.text = k.text
      BY DEF Call
    <2>3. QED
      BY <2>1, <2>2 DEF PlaceFits
  <1>5. call' = [call EXCEPT ![c] = r]
    BY DEF ShowIv, b
  <1> HIDE DEF r
  <1>6. r.op \in Crypts => sess[r.s].keySet
    BY <1>1, <1>4
  <1>7. UNCHANGED <<file, sess, given, last, calls, sealed, held>>
    BY DEF ShowIv
  <1>8. held' = [held EXCEPT ![c] = h] /\ h \subseteq Memory
    BY <1>1, <1>7 DEF DriverInv, DriverTypeOK, Memory
  <1>9. /\ "showiv" \in Pc \ {"savekey", "flagkey", "tfm", "bufkey"}
        /\ r.op \in OpsAt("showiv") /\ HeldAt("showiv", r.op) = h
        /\ "pickkey" \in Pc \ {"savekey", "flagkey", "tfm", "bufkey"}
        /\ "idle" \in Pc \ {"savekey", "flagkey", "tfm", "bufkey"}
        /\ 1 \in Part /\ 2 \in Part /\ pc[c] # "idle" /\ "OK" \in Ret
    BY <1>1, <1>4 DEF Pc, OpsAt, HeldAt, Part, Ret
  <1>10. CASE k.op = "GET_IV" /\ i = 2
    <2>1. part' = [part EXCEPT ![c] = 1] /\ Return(c, "OK")
      BY <1>10 DEF ShowIv
    <2>2. HeldAt("idle", r.op) = h /\ r.op \in OpsAt("idle")
      BY <1>10, <1>4 DEF HeldAt, OpsAt, Commands
    <2>3. ret' \in [Caller -> Ret] /\ pc' = [pc EXCEPT ![c] = "idle"]
      BY <1>9, <2>1, Returns
    <2>4. QED
      BY <1>4, <1>5, <1>6, <1>7, <1>8, <1>9, <2>1, <2>2, <2>3, FillsAside
  <1>11. CASE ~(k.op = "GET_IV" /\ i = 2)
    <2>1. Advance(c, "pickkey")
      BY <1>11 DEF ShowIv
    <2>2. CASE part' = [part EXCEPT ![c] = 2] /\ pc' = [pc EXCEPT ![c] = pc[c]]
      <3>1. ret' \in [Caller -> Ret] /\ pc' = [pc EXCEPT ![c] = "showiv"]
        BY <1>1, <2>1, <2>2, Advances
      <3>2. held' = [held EXCEPT ![c] = HeldAt("showiv", r.op)] /\ HeldAt("showiv", r.op) \subseteq Memory
        BY <1>8, <1>9
      <3>3. UNCHANGED <<file, sess, given, last, calls, sealed>> /\ part' = [part EXCEPT ![c] = 2]
        BY <1>7, <2>2
      <3>4. QED
        BY <1>4, <1>5, <1>6, <1>9, <3>1, <3>2, <3>3, FillsAside
    <2>3. CASE i = 2 /\ part' = [part EXCEPT ![c] = 1] /\ pc' = [pc EXCEPT ![c] = "pickkey"]
      <3>1. ret' \in [Caller -> Ret]
        BY <2>1, Advances
      <3>2. HeldAt("pickkey", r.op) = h /\ r.op \in OpsAt("pickkey")
        BY <1>1, <1>4, <1>11, <2>3 DEF HeldAt, OpsAt, Crypts
      <3>3. QED
        BY <1>4, <1>5, <1>6, <1>7, <1>8, <1>9, <2>3, <3>1, <3>2, FillsAside
    <2>4. QED
      BY <2>1, <2>2, <2>3, Advances
  <1>12. QED
    BY <1>10, <1>11

LEMMA ShowFaultsStep == ASSUME DriverInv, NEW c \in Caller, ShowFaults(c) PROVE DriverInv'
  <1> USE OfCall DEF outside
  <1> DEFINE r == call[c]
  <1>1. pc[c] = "showiv" /\ r.op = "GET_IV" /\ held[c] = {}
    BY DEF ShowFaults, At, OpsAt, HeldAt
  <1>2. UNCHANGED <<file, sess, given, last, calls, sealed, held, call>>
    BY DEF ShowFaults
  <1>3. held' = [held EXCEPT ![c] = {}] /\ call' = [call EXCEPT ![c] = r]
    BY <1>1, <1>2 DEF DriverInv, DriverTypeOK
  <1>4. "EFAULT" \in Ret /\ Return(c, "EFAULT") /\ part' = [part EXCEPT ![c] = 1]
    BY DEF ShowFaults, Ret
  <1>5. HeldAt("idle", r.op) = {} /\ r.op \in OpsAt("idle") /\ r.op \notin Crypts
    BY <1>1 DEF HeldAt, OpsAt, Commands, Crypts
  <1>6. "idle" \in Pc \ {"savekey", "flagkey", "tfm", "bufkey"} /\ 1 \in Part /\ r \in Call
    BY DEF Pc, Part
  <1>7. r.op # "ENCRYPT" /\ pc[c] # "idle"
    BY <1>1
  <1> HIDE DEF r
  <1>8. r.op = call[c].op /\ r.s = call[c].s
    BY DEF r
  <1>9. ret' \in [Caller -> Ret] /\ pc' = [pc EXCEPT ![c] = "idle"]
    BY <1>4, Returns
  <1>10. held' = [held EXCEPT ![c] = HeldAt("idle", r.op)] /\ HeldAt("idle", r.op) \subseteq Memory
    BY <1>3, <1>5
  <1>11. UNCHANGED <<file, sess, given, last, calls, sealed>>
    BY <1>2
  <1>12. QED
    BY <1>3, <1>4, <1>5, <1>6, <1>7, <1>8, <1>9, <1>10, <1>11, FillsAside

LEMMA ReadOnceStep == ASSUME DriverInv, NEW c \in Caller, ReadOnce(c) PROVE DriverInv'
  <1> USE OfCall DEF outside
  <1> DEFINE k == call[c]
             r == [k EXCEPT !.iv = k.ivBuf]
  <1>1. pc[c] = "showiv" /\ k.op = "ENCRYPT" /\ part[c] = 1 /\ held[c] = {"kdata"}
        /\ sess[k.s].keySet
    BY DEF ReadOnce, At, HeldAt, Crypts
  <1>2. r \in Call /\ r.op = k.op /\ r.s = k.s /\ r.text \in Lens
    <2>1. k.ivBuf \in Block
      BY DEF Call
    <2>2. r \in Call
      BY <2>1, Fields
    <2>3. r.op = k.op /\ r.s = k.s /\ r.text = k.text
      BY DEF Call
    <2>4. QED
      BY <1>1, <2>2, <2>3 DEF PlaceFits
  <1>3. call' = [call EXCEPT ![c] = r]
    BY DEF ReadOnce
  <1> HIDE DEF r
  <1>4. UNCHANGED <<file, sess, given, last, calls, sealed, held, part>>
    BY DEF ReadOnce
  <1>5. held' = [held EXCEPT ![c] = {"kdata"}] /\ part' = [part EXCEPT ![c] = 1]
        /\ {"kdata"} \subseteq Memory /\ 1 \in Part
    BY <1>1, <1>4 DEF DriverInv, DriverTypeOK, Memory, Part
  <1>6. /\ HeldAt("pickkey", r.op) = {"kdata"} /\ r.op \in OpsAt("pickkey")
        /\ "pickkey" \in Pc \ {"savekey", "flagkey", "tfm", "bufkey"}
    BY <1>1, <1>2 DEF HeldAt, OpsAt, Crypts, Pc
  <1>7. pc' = [pc EXCEPT ![c] = "pickkey"] /\ ret' \in [Caller -> Ret]
    BY DEF ReadOnce, Goto, DriverInv, DriverTypeOK
  <1>8. sess[r.s].keySet /\ pc[c] # "idle"
    BY <1>1, <1>2
  <1>9. held' = [held EXCEPT ![c] = HeldAt("pickkey", r.op)] /\ HeldAt("pickkey", r.op) \subseteq Memory
    BY <1>5, <1>6
  <1>10. UNCHANGED <<file, sess, given, last, calls, sealed>> /\ part' = [part EXCEPT ![c] = 1]
    BY <1>4, <1>5
  <1>11. QED
    BY <1>2, <1>3, <1>5, <1>6, <1>7, <1>8, <1>9, <1>10, FillsAside

LEMMA PickKeyStep == ASSUME DriverInv, NEW c \in Caller, PickKey(c) PROVE DriverInv'
  <1> USE OfCall DEF outside
  <1> DEFINE k == call[c]
  <1>1. pc[c] = "pickkey" /\ k.op \in Crypts /\ part[c] = 1 /\ held[c] = {"kdata"}
        /\ sess[k.s].keySet
    BY DEF PickKey, At, HeldAt, OpsAt
  <1>2. UNCHANGED <<file, sess, given, last, calls, sealed, held, part>>
    BY DEF PickKey
  <1>3. /\ held' = [held EXCEPT ![c] = {"kdata"}] /\ {"kdata"} \subseteq Memory
        /\ part' = [part EXCEPT ![c] = 1] /\ 1 \in Part /\ pc[c] # "idle"
    BY <1>1, <1>2 DEF DriverInv, DriverTypeOK, Memory, Part
  <1>4. k.op = "ENCRYPT" => k.text \in Lens
    BY DEF PlaceFits
  <1>5. CASE Supplied(k.key)
    <2> DEFINE r == [k EXCEPT !.keyBuf = k.key]
    <2>1. call' = [call EXCEPT ![c] = r]
      BY <1>5 DEF PickKey
    <2>2. r \in Call /\ r.op = k.op /\ r.s = k.s /\ r.text = k.text /\ r.key = k.key
      <3>1. k.key \in Block
        BY DEF Call
      <3>2. r \in Call
        BY <3>1, Fields
      <3>3. QED
        BY <3>2 DEF Call
    <2> HIDE DEF r
    <2>3. pc' = [pc EXCEPT ![c] = "tfm"] /\ ret' \in [Caller -> Ret]
      BY <1>5 DEF PickKey, Goto, DriverInv, DriverTypeOK
    <2>4. /\ r.op = "ENCRYPT" => r.text \in Lens
          /\ r.op \in Crypts => sess[r.s].keySet
          /\ Supplied(r.key)
      BY <1>1, <1>4, <1>5, <2>2
    <2>5. QED
      BY <1>1, <1>2, <1>3, <2>1, <2>2, <2>3, <2>4, FillsKey
  <1>6. CASE ~Supplied(k.key)
    <2>1. call' = call /\ pc' = [pc EXCEPT ![c] = "bufkey"] /\ ret' \in [Caller -> Ret]
      BY <1>6 DEF PickKey, Goto, DriverInv, DriverTypeOK
    <2>2. HeldAt("bufkey", k.op) = {"kdata"} /\ k.op \in OpsAt("bufkey")
      BY <1>1 DEF HeldAt, OpsAt
    <2>3. "bufkey" \in Pc \ {"savekey", "flagkey", "tfm"}
      BY DEF Pc
    <2>4. held' = [held EXCEPT ![c] = HeldAt("bufkey", k.op)]
          /\ HeldAt("bufkey", k.op) \subseteq Memory
      BY <1>3, <2>2
    <2> HIDE DEF k
    <2>5. QED
      BY <1>1, <1>2, <1>3, <2>1, <2>2, <2>3, <2>4, Goes DEF k
  <1>7. QED
    BY <1>5, <1>6

LEMMA BufKeyStep == ASSUME DriverInv, NEW c \in Caller, BufKey(c) PROVE DriverInv'
  <1> USE OfCall DEF outside
  <1> DEFINE k == call[c]
             i == part[c]
             h == sess[k.s].key[i]
             b == [k.keyBuf EXCEPT ![i] = h]
             r == [k EXCEPT !.keyBuf = b]
  <1>1. /\ pc[c] = "bufkey" /\ k.op \in Crypts /\ held[c] = {"kdata"} /\ sess[k.s].keySet
        /\ k.keyBuf \in Block /\ k.s \in Session
    BY DEF BufKey, At, OpsAt, HeldAt, Call
  <1>2. h \in Half /\ <<i, h>> \in given[k.s].key
    BY <1>1 DEF CryptoSession, Block, DriverInv, KeyKept, From
  <1>3. b \in Block /\ b[i] = h /\ (i = 2 => b[1] = k.keyBuf[1])
    BY <1>1, <1>2, PartFitsBlock DEF Block, Part
  <1>4. call' = [call EXCEPT ![c] = r]
    BY DEF BufKey, S
  <1>5. i = 2 => <<1, k.keyBuf[1]>> \in given[k.s].key
    BY <1>1 DEF KeyGiven, From
  <1> HIDE DEF b, h
  <1>6. /\ r \in Call /\ r.op = k.op /\ r.s = k.s /\ r.text = k.text /\ r.keyBuf = b
    <2>1. r \in Call
      BY <1>3, Fields
    <2>2. QED
      BY <2>1 DEF Call
  <1>7. r.op = "ENCRYPT" => r.text \in Lens
    BY <1>6 DEF PlaceFits
  <1> HIDE DEF r
  <1>8. UNCHANGED <<file, sess, given, last, calls, sealed>> /\ Advance(c, "tfm")
    BY DEF BufKey
  <1>9. held' = [held EXCEPT ![c] = {"kdata"}] /\ {"kdata"} \subseteq Memory
    BY <1>1 DEF BufKey, DriverInv, DriverTypeOK, Memory
  <1>10. /\ "bufkey" \in Pc \ {"savekey", "flagkey"} /\ "tfm" \in Pc \ {"savekey", "flagkey"}
         /\ r.op \in OpsAt("bufkey") /\ HeldAt("bufkey", r.op) = {"kdata"}
         /\ r.op \in OpsAt("tfm") /\ HeldAt("tfm", r.op) = {"kdata"}
         /\ 1 \in Part /\ 2 \in Part /\ pc[c] # "idle"
    BY <1>1, <1>6 DEF Pc, OpsAt, HeldAt, Part
  <1>11. ret' \in [Caller -> Ret] /\ sess[r.s].keySet
    BY <1>1, <1>6, <1>8, Advances
  <1>12. CASE i = 1 /\ part' = [part EXCEPT ![c] = 2] /\ pc' = [pc EXCEPT ![c] = "bufkey"]
    <2>1. From(1, r.keyBuf, r.s)
      BY <1>2, <1>3, <1>6, <1>12 DEF From
    <2>2. held' = [held EXCEPT ![c] = HeldAt("bufkey", r.op)]
          /\ HeldAt("bufkey", r.op) \subseteq Memory
      BY <1>9, <1>10
    <2>3. part' = [part EXCEPT ![c] = 2] /\ pc' = [pc EXCEPT ![c] = "bufkey"]
      BY <1>12
    <2>4. QED
      BY <1>4, <1>6, <1>7, <1>8, <1>10, <1>11, <2>1, <2>2, <2>3, Fills
  <1>13. CASE i = 2 /\ part' = [part EXCEPT ![c] = 1] /\ pc' = [pc EXCEPT ![c] = "tfm"]
    <2>1. \A j \in Part : From(j, r.keyBuf, r.s)
      BY <1>2, <1>3, <1>5, <1>6, <1>13 DEF From, Part
    <2>2. part' = [part EXCEPT ![c] = 1] /\ pc' = [pc EXCEPT ![c] = "tfm"] /\ r.op \in Crypts
      BY <1>1, <1>6, <1>13
    <2>3. QED
      BY <1>4, <1>6, <1>7, <1>8, <1>9, <1>10, <1>11, <2>1, <2>2, FillsKey
  <1>14. QED
    BY <1>1, <1>8, <1>12, <1>13, Advances

LEMMA PaddedNat == ASSUME NEW n \in Lens PROVE Padded(n) \in Nat
  BY SizeAssumption DEF Lens, Padded

LEMMA RunStep == ASSUME DriverInv, NEW c \in Caller, Run(c) PROVE DriverInv'
  <1> USE OfCall DEF outside
  <1> DEFINE k == call[c]
             e == [text |-> k.text, key |-> k.keyBuf, iv |-> k.ivBuf, shown |-> k.iv]
             r == IF k.op = "ENCRYPT"
                  THEN [k EXCEPT !.outLen = Padded(k.text), !.box = e]
                  ELSE [k EXCEPT !.outLen = Padded(k.box.text),
                                 !.text = Opened(k.box, k.keyBuf, k.ivBuf)]
  <1>1. /\ pc[c] = "run" /\ k.op \in Crypts /\ part[c] = 1 /\ sess[k.s].keySet
        /\ held[c] = {"kdata", "tfm", "req", "iv_copy"}
    BY DEF Run, At, OpsAt, HeldAt
  <1>2. call' = [call EXCEPT ![c] = r]
    BY DEF Run
  <1>3. /\ r \in Call /\ r.op = k.op /\ r.s = k.s
        /\ r.op = "ENCRYPT" => r.text \in Lens
    <2>1. CASE k.op = "ENCRYPT"
      <3>1. k.text \in Lens
        BY <2>1 DEF PlaceFits
      <3>2. e \in Box
        BY <3>1 DEF Box, Call
      <3>3. Padded(k.text) \in Nat
        BY <3>1, PaddedNat
      <3>4. r = [k EXCEPT !.outLen = Padded(k.text), !.box = e]
        BY <2>1
      <3> HIDE DEF e, r
      <3>5. QED
        BY <3>1, <3>2, <3>3, <3>4 DEF Call
    <2>2. CASE k.op # "ENCRYPT"
      <3>1. k.box.text \in Lens
        BY DEF Call, Box
      <3>2. Opened(k.box, k.keyBuf, k.ivBuf) \in Lens \cup {Garbled}
        BY <3>1 DEF Opened
      <3>3. Padded(k.box.text) \in Nat
        BY <3>1, PaddedNat
      <3>4. r = [k EXCEPT !.outLen = Padded(k.box.text),
                          !.text = Opened(k.box, k.keyBuf, k.ivBuf)]
        BY <2>2
      <3> HIDE DEF r
      <3>5. QED
        BY <2>2, <3>2, <3>3, <3>4 DEF Call
    <2>3. QED
      BY <2>1, <2>2
  <1> HIDE DEF r
  <1>4. held' = [held EXCEPT ![c] = {"kdata"}] /\ {"kdata"} \subseteq Memory
    BY <1>1 DEF Run, Frees, Memory
  <1>5. /\ HeldAt("copyout", r.op) = {"kdata"} /\ r.op \in OpsAt("copyout")
        /\ "copyout" \in Pc \ {"savekey", "flagkey", "tfm", "bufkey"}
    BY <1>1, <1>3 DEF HeldAt, OpsAt, Crypts, Pc
  <1>6. /\ UNCHANGED <<file, sess, given, last, calls, sealed>>
        /\ pc' = [pc EXCEPT ![c] = "copyout"] /\ ret' \in [Caller -> Ret]
        /\ part' = [part EXCEPT ![c] = 1] /\ 1 \in Part /\ pc[c] # "idle"
    BY <1>1 DEF Run, Goto, DriverInv, DriverTypeOK, Part
  <1>7. held' = [held EXCEPT ![c] = HeldAt("copyout", r.op)]
        /\ HeldAt("copyout", r.op) \subseteq Memory
    BY <1>4, <1>5
  <1>8. sess[r.s].keySet
    BY <1>1, <1>3
  <1>9. QED
    BY <1>2, <1>3, <1>5, <1>6, <1>7, <1>8, FillsAside

-----------------------------------------------------------------------------
(* Steps that change a session's IV, and leave every key alone.             *)

GivenType == [Session -> [key : SUBSET (Part \X Half), iv : SUBSET (Part \X Half)]]
LastType  == [Session -> [key : Block, iv : Block]]

KeysSame ==
    /\ sess' \in [Session -> CryptoSession] /\ given' \in GivenType /\ last' \in LastType
    /\ \A s \in Session : /\ sess'[s].key = sess[s].key
                          /\ sess'[s].keySet = sess[s].keySet
                          /\ given'[s].key = given[s].key

LEMMA IvStep ==
    ASSUME DriverInv, NEW c \in Caller, NEW l \in Pc \ {"savekey", "flagkey", "tfm", "bufkey"},
           NEW r \in Call, NEW i \in Part, pc[c] # "idle", KeysSame,
           r.op = call[c].op, r.s = call[c].s, r.op = "ENCRYPT" => r.text \in Lens,
           UNCHANGED <<file, calls, sealed>>,
           call' = [call EXCEPT ![c] = r], part' = [part EXCEPT ![c] = i],
           pc' = [pc EXCEPT ![c] = l], ret' \in [Caller -> Ret],
           held' = [held EXCEPT ![c] = HeldAt(l, r.op)], HeldAt(l, r.op) \subseteq Memory,
           r.op \in OpsAt(l), i = 1 \/ l \in {"saveiv", "showiv", "bufiv"},
           r.op \in Crypts => sess[r.s].keySet
    PROVE  DriverInv'
  <1>1. DriverTypeOK /\ PlaceFits(c) /\ r.s \in Session
    BY OfCall DEF DriverInv
  <1>2. pc'[c] = l /\ held'[c] = HeldAt(l, r.op) /\ call'[c] = r /\ part'[c] = i
    BY <1>1 DEF DriverTypeOK
  <1>3. Alone(c)
    BY <1>1 DEF Alone, DriverTypeOK
  <1>4. PlaceFits(c)'
    BY <1>1, <1>2 DEF PlaceFits
  <1>5. KeyGiven(c)'
    BY <1>1, <1>2 DEF KeyGiven, From, KeysSame
  <1>6. DriverTypeOK'
    BY <1>1 DEF DriverTypeOK, KeysSame, GivenType, LastType
  <1>7. Grows /\ \A s \in Session : ~(sess'[s].keySet /\ ~sess[s].keySet)
    BY DEF Grows, KeysSame
  <1>8. QED
    BY <1>3, <1>4, <1>5, <1>6, <1>7, Compose

\* The session's IV, or its flag, changes.
LEMMA IvKept ==
    ASSUME DriverInv, NEW s \in Session, NEW x \in CryptoSession,
           sess' = [sess EXCEPT ![s] = x], x.key = sess[s].key, x.keySet = sess[s].keySet
    PROVE  /\ sess' \in [Session -> CryptoSession]
           /\ \A t \in Session : /\ sess'[t].key = sess[t].key
                                 /\ sess'[t].keySet = sess[t].keySet
  BY DEF DriverInv, DriverTypeOK

\* Halves are added to those that calls put into the session's IV.
LEMMA GivenKept ==
    ASSUME DriverInv, NEW s \in Session, NEW more \in SUBSET (Part \X Half),
           given' = [given EXCEPT ![s].iv = @ \cup more]
    PROVE  /\ given' \in GivenType
           /\ \A t \in Session : given'[t].key = given[t].key
  BY DEF DriverInv, DriverTypeOK, GivenType

LEMMA HalvesFit == ASSUME NEW b \in Block PROVE Halves(b) \subseteq Part \X Half
  BY DEF Halves, Block

LEMMA SaveIvStep == ASSUME DriverInv, NEW c \in Caller, SaveIv(c) PROVE DriverInv'
  <1> USE OfCall DEF outside
  <1> DEFINE k == call[c]
             i == part[c]
             b == [sess[k.s].iv EXCEPT ![i] = k.ivBuf[i]]
             x == [sess[k.s] EXCEPT !.iv = b]
             h == IF k.op = "ENCRYPT" THEN {"kdata"} ELSE {}
  <1>1. /\ pc[c] = "saveiv" /\ k.op \in {"SET_IV", "GET_IV", "ENCRYPT"} /\ held[c] = h
        /\ k \in Call /\ k.s \in Session /\ (k.op \in Crypts => sess[k.s].keySet)
    BY DEF SaveIv, At, OpsAt, HeldAt
  <1>2. b \in Block
    <2>1. sess[k.s].iv \in Block /\ k.ivBuf[i] \in Half
      BY DEF CryptoSession, Call, Block
    <2>2. QED
      BY <2>1, PartFitsBlock
  <1>3. sess' = [sess EXCEPT ![k.s] = x]
    BY DEF SaveIv
  <1> HIDE DEF b
  <1>4. x \in CryptoSession /\ x.key = sess[k.s].key /\ x.keySet = sess[k.s].keySet
    BY <1>2 DEF CryptoSession
  <1> HIDE DEF x
  <1>5. KeysSame
    <2>1. given' \in GivenType /\ last' \in LastType /\ given' = given
      BY DEF SaveIv, DriverInv, DriverTypeOK, GivenType, LastType
    <2>2. QED
      BY <1>1, <1>3, <1>4, <2>1, IvKept DEF KeysSame
  <1>6. k.op = "ENCRYPT" => k.text \in Lens
    BY DEF PlaceFits
  <1>7. call' = [call EXCEPT ![c] = k] /\ UNCHANGED <<file, calls, sealed>>
    BY DEF SaveIv, DriverInv, DriverTypeOK
  <1>8. Advance(c, "flagiv")
    BY DEF SaveIv
  <1>9. /\ "saveiv" \in Pc \ {"savekey", "flagkey", "tfm", "bufkey"}
        /\ k.op \in OpsAt("saveiv") /\ HeldAt("saveiv", k.op) = h
        /\ "flagiv" \in Pc \ {"savekey", "flagkey", "tfm", "bufkey"}
        /\ k.op \in OpsAt("flagiv") /\ HeldAt("flagiv", k.op) = h
        /\ 1 \in Part /\ 2 \in Part /\ pc[c] # "idle" /\ h \subseteq Memory
    BY <1>1 DEF Pc, OpsAt, HeldAt, Part, Memory
  <1>10. held' = [held EXCEPT ![c] = h]
    BY <1>1 DEF SaveIv, DriverInv, DriverTypeOK
  <1>11. held' = [held EXCEPT ![c] = HeldAt("saveiv", k.op)]
         /\ held' = [held EXCEPT ![c] = HeldAt("flagiv", k.op)]
    BY <1>9, <1>10
  <1>12. ret' \in [Caller -> Ret]
    BY <1>8, Advances
  <1>13. CASE part' = [part EXCEPT ![c] = 2] /\ pc' = [pc EXCEPT ![c] = "saveiv"]
    <2> HIDE DEF k
    <2>1. QED
      BY <1>1, <1>5, <1>6, <1>7, <1>9, <1>11, <1>12, <1>13, IvStep DEF k
  <1>14. CASE part' = [part EXCEPT ![c] = 1] /\ pc' = [pc EXCEPT ![c] = "flagiv"]
    <2> HIDE DEF k
    <2>1. QED
      BY <1>1, <1>5, <1>6, <1>7, <1>9, <1>11, <1>12, <1>14, IvStep DEF k
  <1>15. QED
    BY <1>1, <1>8, <1>13, <1>14, Advances

LEMMA Draws ==
    ASSUME DriverInv, NEW c \in Caller, Draw(c)
    PROVE  /\ \E r \in Call : /\ call' = [call EXCEPT ![c] = r]
                              /\ r.op = call[c].op /\ r.s = call[c].s
                              /\ r.text = call[c].text
           /\ given' \in GivenType
           /\ \A t \in Session : given'[t].key = given[t].key
  <1> USE OfCall
  <1> DEFINE k == call[c]
  <1>1. PICK b \in RandomBlocks :
            /\ call' = [call EXCEPT ![c].ivBuf = b,
                                    ![c].iv = IF k.op = "ENCRYPT" THEN b ELSE @]
            /\ given' = [given EXCEPT ![k.s].iv = @ \cup Halves(b)]
    BY DEF Draw
  <1>2. b \in Block /\ k \in Call /\ k.s \in Session /\ k.iv \in Block
    BY UserAssumption DEF Call
  <1> DEFINE v == IF k.op = "ENCRYPT" THEN b ELSE k.iv
             r == [k EXCEPT !.ivBuf = b, !.iv = v]
  <1>3. v \in Block
    BY <1>2
  <1>4. call' = [call EXCEPT ![c] = r]
    <2>1. call \in [Caller -> Call]
      BY DEF DriverInv, DriverTypeOK
    <2>2. call' = [call EXCEPT ![c] = [call[c] EXCEPT !.ivBuf = b,
                                 !.iv = IF k.op = "ENCRYPT" THEN b ELSE call[c].iv]]
      BY <1>1, <1>2, <2>1
    <2>3. QED
      BY <2>2
  <1> HIDE DEF v
  <1>5. r \in Call /\ r.op = k.op /\ r.s = k.s /\ r.text = k.text
    BY <1>2, <1>3 DEF Call
  <1>6. Halves(b) \in SUBSET (Part \X Half)
    BY <1>2, HalvesFit
  <1>7. QED
    BY <1>1, <1>2, <1>4, <1>5, <1>6, GivenKept

LEMMA SameSession ==
    ASSUME DriverInv, UNCHANGED <<sess, last>>, given' \in GivenType,
           \A t \in Session : given'[t].key = given[t].key
    PROVE  KeysSame
  BY DEF DriverInv, DriverTypeOK, KeysSame, LastType

LEMMA GetIvStep == ASSUME DriverInv, NEW c \in Caller, GetIv(c) PROVE DriverInv'
  <1> USE OfCall DEF outside
  <1> DEFINE k == call[c]
  <1>1. pc[c] = "getiv" /\ k.op = "GET_IV" /\ held[c] = {} /\ part[c] = 1 /\ k \in Call
    BY DEF GetIv, At, OpsAt, HeldAt
  <1>2. /\ UNCHANGED <<file, sess, last, calls, sealed, held, part>>
        /\ held' = [held EXCEPT ![c] = {}] /\ part' = [part EXCEPT ![c] = 1]
        /\ ret \in [Caller -> Ret]
    BY <1>1 DEF GetIv, DriverInv, DriverTypeOK
  <1>3. CASE S(c).ivSet
    <2>1. /\ UNCHANGED <<call, given>> /\ pc' = [pc EXCEPT ![c] = "showiv"] /\ ret' = ret
      BY <1>3 DEF GetIv, Goto
    <2>2. /\ "showiv" \in Pc \ {"savekey", "flagkey", "tfm"} /\ k.op \in OpsAt("showiv")
          /\ HeldAt("showiv", k.op) = {} /\ k.op \notin Crypts
      BY <1>1 DEF Pc, OpsAt, HeldAt, Crypts
    <2>3. QED
      BY <1>1, <1>2, <2>1, <2>2, Goes
  <1>4. CASE ~S(c).ivSet
    <2>1. Draw(c) /\ pc' = [pc EXCEPT ![c] = "saveiv"] /\ ret' = ret
      BY <1>4 DEF GetIv, Goto
    <2>2. PICK r \in Call : /\ call' = [call EXCEPT ![c] = r]
                            /\ r.op = k.op /\ r.s = k.s
      BY <2>1, Draws
    <2>3. KeysSame
      BY <1>2, <2>1, Draws, SameSession
    <2>4. /\ "saveiv" \in Pc \ {"savekey", "flagkey", "tfm", "bufkey"}
          /\ r.op \in OpsAt("saveiv") /\ HeldAt("saveiv", r.op) = {}
          /\ r.op \notin Crypts /\ r.op # "ENCRYPT" /\ 1 \in Part
      BY <1>1, <2>2 DEF Pc, OpsAt, HeldAt, Crypts, Part
    <2>5. held' = [held EXCEPT ![c] = HeldAt("saveiv", r.op)]
          /\ HeldAt("saveiv", r.op) \subseteq Memory
      BY <1>2, <2>4
    <2>6. ret' \in [Caller -> Ret] /\ pc[c] # "idle" /\ UNCHANGED <<file, calls, sealed>>
          /\ part' = [part EXCEPT ![c] = 1]
      BY <1>1, <1>2, <2>1
    <2>7. QED
      BY <2>1, <2>2, <2>3, <2>4, <2>5, <2>6, IvStep
  <1>5. QED
    BY <1>3, <1>4

LEMMA PickIvStep == ASSUME DriverInv, NEW c \in Caller, PickIv(c) PROVE DriverInv'
  <1> USE OfCall DEF outside
  <1> DEFINE k == call[c]
  <1>1. /\ pc[c] = "pickiv" /\ k.op \in Crypts /\ held[c] = {"kdata"} /\ part[c] = 1
        /\ k \in Call /\ sess[k.s].keySet
    BY DEF PickIv, At, OpsAt, HeldAt
  <1>2. /\ UNCHANGED <<file, sess, last, calls, sealed, part>>
        /\ held = [held EXCEPT ![c] = {"kdata"}] /\ part' = [part EXCEPT ![c] = 1]
        /\ ret \in [Caller -> Ret] /\ {"kdata"} \subseteq Memory /\ pc[c] # "idle" /\ 1 \in Part
    BY <1>1 DEF PickIv, DriverInv, DriverTypeOK, Memory, Part
  <1>3. k.op = "ENCRYPT" => k.text \in Lens
    BY DEF PlaceFits
  <1>4. CASE /\ call' = [call EXCEPT ![c].ivBuf = call[c].iv]
             /\ Goto(c, "pickkey") /\ UNCHANGED <<held, given>>
    <2> DEFINE r == [k EXCEPT !.ivBuf = k.iv]
    <2>1. call' = [call EXCEPT ![c] = r]
      BY <1>4
    <2>2. r \in Call /\ r.op = k.op /\ r.s = k.s /\ r.text = k.text
      BY <1>1 DEF Call
    <2> HIDE DEF r
    <2>3. pc' = [pc EXCEPT ![c] = "pickkey"] /\ ret' \in [Caller -> Ret]
          /\ UNCHANGED <<file, sess, given, last, calls, sealed>>
      BY <1>2, <1>4 DEF Goto
    <2>4. /\ "pickkey" \in Pc \ {"savekey", "flagkey", "tfm", "bufkey"}
          /\ r.op \in OpsAt("pickkey") /\ HeldAt("pickkey", r.op) = {"kdata"}
      BY <1>1, <2>2 DEF Pc, OpsAt, HeldAt
    <2>5. held' = [held EXCEPT ![c] = HeldAt("pickkey", r.op)]
          /\ HeldAt("pickkey", r.op) \subseteq Memory
      BY <1>2, <1>4, <2>4
    <2>6. sess[r.s].keySet /\ (r.op = "ENCRYPT" => r.text \in Lens)
      BY <1>1, <1>3, <2>2
    <2>7. QED
      BY <1>2, <2>1, <2>2, <2>3, <2>4, <2>5, <2>6, FillsAside
  <1>5. CASE Goto(c, "bufiv") /\ UNCHANGED <<call, held, given>>
    <2>1. pc' = [pc EXCEPT ![c] = "bufiv"] /\ ret' = ret
      BY <1>5 DEF Goto
    <2>2. /\ "bufiv" \in Pc \ {"savekey", "flagkey", "tfm"} /\ k.op \in OpsAt("bufiv")
          /\ HeldAt("bufiv", k.op) = {"kdata"}
      BY <1>1 DEF Pc, OpsAt, HeldAt
    <2>3. QED
      BY <1>1, <1>2, <1>5, <2>1, <2>2, Goes
  <1>6. CASE k.op = "ENCRYPT" /\ Draw(c) /\ Goto(c, "saveiv") /\ UNCHANGED held
    <2>1. PICK r \in Call : /\ call' = [call EXCEPT ![c] = r]
                            /\ r.op = k.op /\ r.s = k.s /\ r.text = k.text
      BY <1>6, Draws
    <2>2. KeysSame
      BY <1>2, <1>6, Draws, SameSession
    <2>3. /\ "saveiv" \in Pc \ {"savekey", "flagkey", "tfm", "bufkey"}
          /\ r.op \in OpsAt("saveiv") /\ HeldAt("saveiv", r.op) = {"kdata"}
      BY <1>6, <2>1 DEF Pc, OpsAt, HeldAt
    <2>4. held' = [held EXCEPT ![c] = HeldAt("saveiv", r.op)]
          /\ HeldAt("saveiv", r.op) \subseteq Memory
      BY <1>2, <1>6, <2>3
    <2>5. /\ ret' \in [Caller -> Ret] /\ pc' = [pc EXCEPT ![c] = "saveiv"]
          /\ UNCHANGED <<file, calls, sealed>>
      BY <1>2, <1>6 DEF Goto
    <2>6. sess[r.s].keySet /\ (r.op = "ENCRYPT" => r.text \in Lens)
      BY <1>1, <1>3, <2>1
    <2>7. QED
      BY <1>2, <2>1, <2>2, <2>3, <2>4, <2>5, <2>6, IvStep
  <1>7. CASE /\ Return(c, "EINVAL") /\ held' = [held EXCEPT ![c] = {}]
             /\ UNCHANGED <<call, given>>
    <2>1. "EINVAL" \in Ret
      BY DEF Ret
    <2>2. call[c].op \in OpsAt("idle") /\ HeldAt("idle", call[c].op) = {}
      BY <1>1 DEF OpsAt, HeldAt, Crypts, Commands
    <2>3. "idle" \in Pc \ {"savekey", "flagkey", "tfm"}
      BY DEF Pc
    <2>4. QED
      BY <1>1, <1>2, <1>7, <2>1, <2>2, <2>3, Goes, Returns
  <1>8. QED
    BY <1>4, <1>5, <1>6, <1>7 DEF PickIv

LEMMA FlagIvStep == ASSUME DriverInv, NEW c \in Caller, FlagIv(c) PROVE DriverInv'
  <1> USE OfCall DEF outside
  <1> DEFINE k == call[c]
             x == [sess[k.s] EXCEPT !.ivSet = TRUE]
             h == IF k.op = "ENCRYPT" THEN {"kdata"} ELSE {}
  <1>1. /\ pc[c] = "flagiv" /\ k.op \in {"SET_IV", "GET_IV", "ENCRYPT"} /\ held[c] = h
        /\ part[c] = 1 /\ k \in Call /\ k.s \in Session /\ (k.op \in Crypts => sess[k.s].keySet)
    BY DEF FlagIv, At, OpsAt, HeldAt
  <1>2. sess' = [sess EXCEPT ![k.s] = x]
    BY DEF FlagIv
  <1>3. x \in CryptoSession /\ x.key = sess[k.s].key /\ x.keySet = sess[k.s].keySet
    BY <1>1 DEF CryptoSession
  <1> HIDE DEF x
  <1>4. KeysSame
    <2>1. given' \in GivenType /\ given' = given
      BY DEF FlagIv, DriverInv, DriverTypeOK, GivenType
    <2>2. sess[k.s].iv \in Block
      BY <1>1 DEF CryptoSession
    <2>3. last' \in LastType
      BY <1>1, <2>2 DEF FlagIv, S, DriverInv, DriverTypeOK, LastType
    <2>4. QED
      BY <1>1, <1>2, <1>3, <2>1, <2>3, IvKept DEF KeysSame
  <1>5. k.op = "ENCRYPT" => k.text \in Lens
    BY DEF PlaceFits
  <1>6. /\ call' = [call EXCEPT ![c] = k] /\ UNCHANGED <<file, calls, sealed>>
        /\ held' = [held EXCEPT ![c] = h] /\ part' = [part EXCEPT ![c] = 1]
        /\ pc[c] # "idle" /\ 1 \in Part /\ h \subseteq Memory
    BY <1>1 DEF FlagIv, DriverInv, DriverTypeOK, Part, Memory
  <1>7. PICK l \in {"idle", "showiv", "pickkey"} :
            /\ pc' = [pc EXCEPT ![c] = l] /\ ret' \in [Caller -> Ret]
            /\ k.op \in OpsAt(l) /\ HeldAt(l, k.op) = h
    <2>1. CASE k.op = "SET_IV"
      <3>1. Return(c, "OK") /\ "OK" \in Ret
        BY <2>1 DEF FlagIv, Ret
      <3>2. k.op \in OpsAt("idle") /\ HeldAt("idle", k.op) = h
        BY <2>1 DEF OpsAt, HeldAt, Commands
      <3>3. QED
        BY <3>1, <3>2, Returns
    <2>2. CASE k.op = "GET_IV"
      <3>1. Goto(c, "showiv")
        BY <2>2 DEF FlagIv
      <3>2. k.op \in OpsAt("showiv") /\ HeldAt("showiv", k.op) = h
        BY <2>2 DEF OpsAt, HeldAt
      <3>3. QED
        BY <3>1, <3>2 DEF Goto, DriverInv, DriverTypeOK
    <2>3. CASE k.op = "ENCRYPT"
      <3>1. Goto(c, "pickkey")
        BY <2>3 DEF FlagIv
      <3>2. k.op \in OpsAt("pickkey") /\ HeldAt("pickkey", k.op) = h
        BY <2>3 DEF OpsAt, HeldAt, Crypts
      <3>3. QED
        BY <3>1, <3>2 DEF Goto, DriverInv, DriverTypeOK
    <2>4. QED
      BY <1>1, <2>1, <2>2, <2>3
  <1>8. l \in Pc \ {"savekey", "flagkey", "tfm", "bufkey"}
    BY DEF Pc
  <1>9. held' = [held EXCEPT ![c] = HeldAt(l, k.op)] /\ HeldAt(l, k.op) \subseteq Memory
    BY <1>6, <1>7
  <1> HIDE DEF k
  <1>10. k.op = call[c].op /\ k.s = call[c].s
    BY DEF k
  <1>11. QED
    BY <1>1, <1>4, <1>5, <1>6, <1>7, <1>8, <1>9, <1>10, IvStep

LEMMA FlagEarlyStep == ASSUME DriverInv, NEW c \in Caller, FlagEarly(c) PROVE DriverInv'
  <1> USE OfCall DEF outside
  <1> DEFINE k == call[c]
             x == [sess[k.s] EXCEPT !.ivSet = TRUE]
  <1>1. /\ pc[c] = "saveiv" /\ k.op = "ENCRYPT" /\ held[c] = {"kdata"}
        /\ k \in Call /\ k.s \in Session /\ sess[k.s].keySet
    BY DEF FlagEarly, At, HeldAt, Crypts
  <1>2. sess' = [sess EXCEPT ![k.s] = x]
    BY DEF FlagEarly
  <1>3. x \in CryptoSession /\ x.key = sess[k.s].key /\ x.keySet = sess[k.s].keySet
    BY <1>1 DEF CryptoSession
  <1> HIDE DEF x
  <1>4. KeysSame
    <2>1. given' \in GivenType /\ given' = given /\ last' \in LastType
      BY DEF FlagEarly, DriverInv, DriverTypeOK, GivenType, LastType
    <2>2. QED
      BY <1>1, <1>2, <1>3, <2>1, IvKept DEF KeysSame
  <1>5. k.text \in Lens
    BY <1>1 DEF PlaceFits
  <1>6. /\ call' = [call EXCEPT ![c] = k] /\ UNCHANGED <<file, calls, sealed>>
        /\ held' = [held EXCEPT ![c] = {"kdata"}] /\ part' = [part EXCEPT ![c] = part[c]]
        /\ pc' = [pc EXCEPT ![c] = "saveiv"] /\ ret' \in [Caller -> Ret]
        /\ pc[c] # "idle" /\ {"kdata"} \subseteq Memory
    BY <1>1 DEF FlagEarly, DriverInv, DriverTypeOK, Memory
  <1>7. /\ "saveiv" \in Pc \ {"savekey", "flagkey", "tfm", "bufkey"}
        /\ k.op \in OpsAt("saveiv") /\ HeldAt("saveiv", k.op) = {"kdata"}
    BY <1>1 DEF Pc, OpsAt, HeldAt
  <1>8. held' = [held EXCEPT ![c] = HeldAt("saveiv", k.op)]
        /\ HeldAt("saveiv", k.op) \subseteq Memory
    BY <1>6, <1>7
  <1> HIDE DEF k
  <1>9. k.op = call[c].op /\ k.s = call[c].s
    BY DEF k
  <1>10. QED
    BY <1>1, <1>4, <1>5, <1>6, <1>7, <1>8, <1>9, IvStep

-----------------------------------------------------------------------------
(* Steps that change a session's key.                                       *)

\* The key of session s becomes b, every half of which is old or was put in
\* by calls; the flag stays.
KeyBecomes(s, b) ==
    /\ sess' = [sess EXCEPT ![s] = [sess[s] EXCEPT !.key = b]]
    /\ given' \in GivenType /\ given[s].key \subseteq given'[s].key
    /\ \A t \in Session \ {s} : given'[t] = given[t]
    /\ \A i \in Part : b[i] = sess[s].key[i] \/ <<i, b[i]>> \in given'[s].key

LEMMA GivenGrows ==
    ASSUME DriverInv, NEW s \in Session, NEW more \in SUBSET (Part \X Half),
           given' = [given EXCEPT ![s].key = @ \cup more]
    PROVE  /\ given' \in GivenType /\ given'[s].key = given[s].key \cup more
           /\ \A t \in Session \ {s} : given'[t] = given[t]
  BY DEF DriverInv, DriverTypeOK, GivenType

LEMMA KeyGrows ==
    ASSUME DriverInv, NEW s \in Session, NEW b \in Block, KeyBecomes(s, b), file' = file
    PROVE  /\ sess' \in [Session -> CryptoSession] /\ Grows
           /\ sess'[s].key = b
           /\ \A t \in Session : sess'[t].keySet = sess[t].keySet
  <1> DEFINE x == [sess[s] EXCEPT !.key = b]
  <1>1. sess \in [Session -> CryptoSession] /\ sess[s] \in CryptoSession
    BY DEF DriverInv, DriverTypeOK
  <1>2. x \in CryptoSession /\ x.key = b /\ x.keySet = sess[s].keySet
    BY <1>1 DEF CryptoSession
  <1>3. sess' = [sess EXCEPT ![s] = x]
    BY DEF KeyBecomes
  <1> HIDE DEF x
  <1>4. sess' \in [Session -> CryptoSession] /\ sess'[s] = x
        /\ \A t \in Session \ {s} : sess'[t] = sess[t]
    BY <1>1, <1>2, <1>3
  <1>5. ASSUME NEW t \in Session
        PROVE  /\ given[t].key \subseteq given'[t].key
               /\ sess'[t].keySet = sess[t].keySet
               /\ \A i \in Part : \/ sess'[t].key[i] = sess[t].key[i]
                                  \/ <<i, sess'[t].key[i]>> \in given'[t].key
    <2>1. CASE t = s
      BY <1>2, <1>4, <2>1 DEF KeyBecomes
    <2>2. CASE t # s
      BY <1>4, <2>2 DEF KeyBecomes
    <2>3. QED
      BY <2>1, <2>2
  <1>6. QED
    BY <1>2, <1>4, <1>5 DEF Grows

LEMMA SaveKeyStep == ASSUME DriverInv, NEW c \in Caller, SaveKey(c) PROVE DriverInv'
  <1> USE OfCall DEF outside
  <1> DEFINE k == call[c]
             s == k.s
             i == part[c]
             b == [sess[s].key EXCEPT ![i] = k.key[i]]
  <1>1. /\ pc[c] = "savekey" /\ k.op = "SET_KEY" /\ held[c] = {} /\ i \in Part
        /\ k \in Call /\ s \in Session /\ k.key \in Block /\ sess[s].key \in Block
    BY DEF SaveKey, At, OpsAt, HeldAt, Call, CryptoSession
  <1>2. \A j \in Part : <<j, k.key[j]>> \in given[s].key
    BY <1>1 DEF KeyGiven, From
  <1>3. i = 2 => <<1, sess[s].key[1]>> \in given[s].key
    BY <1>1 DEF KeyGiven, From
  <1>4. b \in Block /\ b[i] = k.key[i] /\ \A j \in Part \ {i} : b[j] = sess[s].key[j]
    <2>1. k.key[i] \in Half
      BY <1>1 DEF Block
    <2>2. QED
      BY <1>1, <2>1, PartFitsBlock DEF Block
  <1>5. given' = given /\ given \in GivenType
    BY DEF SaveKey, DriverInv, DriverTypeOK, GivenType
  <1>6. sess' = [sess EXCEPT ![s] = [sess[s] EXCEPT !.key = b]]
    BY DEF SaveKey
  <1> HIDE DEF b
  <1>7. KeyBecomes(s, b)
    BY <1>1, <1>2, <1>4, <1>5, <1>6 DEF KeyBecomes
  <1>8. UNCHANGED <<file, calls, call, held, sealed, last>> /\ Advance(c, "flagkey")
    BY DEF SaveKey
  <1>9. /\ sess' \in [Session -> CryptoSession] /\ Grows /\ sess'[s].key = b
        /\ \A t \in Session : sess'[t].keySet = sess[t].keySet
    BY <1>1, <1>4, <1>7, <1>8, KeyGrows
  <1>10. DriverTypeOK
    BY DEF DriverInv
  <1>11. \/ i = 1 /\ part' = [part EXCEPT ![c] = 2] /\ pc' = [pc EXCEPT ![c] = "savekey"]
         \/ i = 2 /\ part' = [part EXCEPT ![c] = 1] /\ pc' = [pc EXCEPT ![c] = "flagkey"]
    BY <1>1, <1>8, Advances
  <1>12. DriverTypeOK'
    <2>1. ret' \in [Caller -> Ret]
      BY <1>8, Advances
    <2>2. pc' \in [Caller -> Pc] /\ part' \in [Caller -> Part]
      <3>1. "savekey" \in Pc /\ "flagkey" \in Pc /\ 1 \in Part /\ 2 \in Part
        BY DEF Pc, Part
      <3>2. pc \in [Caller -> Pc] /\ part \in [Caller -> Part]
        BY <1>10 DEF DriverTypeOK
      <3>3. QED
        BY <1>11, <3>1, <3>2
    <2>3. QED
      BY <1>5, <1>8, <1>9, <1>10, <2>1, <2>2 DEF DriverTypeOK, GivenType
  <1>13. Alone(c)
    BY <1>8, <1>10, <1>11 DEF Alone, DriverTypeOK
  <1>14. PlaceFits(c)'
    <2>1. PlaceFits(c)
      OBVIOUS
    <2>2. pc'[c] \in {"savekey", "flagkey"} /\ (part'[c] = 2 => pc'[c] = "savekey")
      BY <1>10, <1>11 DEF DriverTypeOK
    <2>3. OpsAt(pc'[c]) = {"SET_KEY"} /\ HeldAt(pc'[c], k.op) = {}
      BY <2>2 DEF OpsAt, HeldAt
    <2>4. QED
      BY <1>1, <1>8, <2>1, <2>2, <2>3 DEF PlaceFits
  <1>15. KeyGiven(c)'
    <2>1. call'[c] = k /\ k.op \notin Crypts
      BY <1>1, <1>8 DEF Crypts
    <2>2. CASE i = 1 /\ pc'[c] = "savekey" /\ part'[c] = 2
      <3>1. <<1, sess'[s].key[1]>> \in given'[s].key
        BY <1>2, <1>4, <1>5, <1>9, <2>2 DEF Part
      <3>2. QED
        BY <1>2, <1>5, <2>1, <2>2, <3>1 DEF KeyGiven, From
    <2>3. CASE i = 2 /\ pc'[c] = "flagkey" /\ part'[c] = 1
      <3>1. \A j \in Part : <<j, sess'[s].key[j]>> \in given'[s].key
        BY <1>2, <1>3, <1>4, <1>5, <1>9, <2>3 DEF Part
      <3>2. QED
        BY <2>1, <2>3, <3>1 DEF KeyGiven, From
    <2>4. QED
      BY <1>10, <1>11, <2>2, <2>3 DEF DriverTypeOK
  <1>16. QED
    BY <1>9, <1>12, <1>13, <1>14, <1>15, Compose

LEMMA SaveFaultsStep == ASSUME DriverInv, NEW c \in Caller, SaveFaults(c) PROVE DriverInv'
  <1> USE OfCall DEF outside
  <1> DEFINE k == call[c]
             s == k.s
             lost == part[c] .. 2
             Cleared(b) == [i \in Part |-> IF i \in lost THEN Zero ELSE b[i]]
             more == lost \X {Zero}
  <1>1. /\ k \in Call /\ s \in Session /\ sess[s] \in CryptoSession
        /\ sess[s].key \in Block /\ sess[s].iv \in Block
    BY DEF Call, CryptoSession
  <1>2. \A b \in Block : Cleared(b) \in Block
    BY HalfAssumption DEF Block
  <1>3. lost \subseteq Part /\ more \in SUBSET (Part \X Half)
    BY HalfAssumption DEF Part
  <1>4. \A b : \A i \in Part : Cleared(b)[i] = b[i] \/ <<i, Cleared(b)[i]>> \in more
    OBVIOUS
  <1>5. /\ UNCHANGED <<file, calls, call, held, sealed>> /\ "EFAULT" \in Ret
        /\ Return(c, "EFAULT") /\ part' = [part EXCEPT ![c] = 1]
    BY DEF SaveFaults, Ret
  <1>6. /\ DriverTypeOK /\ ret' \in [Caller -> Ret] /\ pc' = [pc EXCEPT ![c] = "idle"]
    BY <1>5, Returns DEF DriverInv
  <1>7. k.op \in Commands /\ held[c] = {} /\ pc[c] # "idle"
    BY DEF SaveFaults, At, OpsAt, HeldAt, Commands
  <1>8. /\ "idle" \in Pc \ {"savekey", "flagkey", "tfm", "bufkey"} /\ 1 \in Part
        /\ k.op \in OpsAt("idle") /\ HeldAt("idle", k.op) = {}
    BY <1>7 DEF Pc, Part, OpsAt, HeldAt
  <1>9. CASE /\ sess' = [sess EXCEPT ![s].key = Cleared(@)]
             /\ last' = [last EXCEPT ![s].key = Cleared(sess[s].key)]
             /\ given' = [given EXCEPT ![s].key = @ \cup more]
    <2> DEFINE b == Cleared(sess[s].key)
    <2>1. b \in Block /\ \A i \in Part : b[i] = sess[s].key[i] \/ <<i, b[i]>> \in more
      BY <1>1, <1>2, <1>4
    <2>2. /\ sess' = [sess EXCEPT ![s] = [sess[s] EXCEPT !.key = b]]
          /\ last' = [last EXCEPT ![s] = [last[s] EXCEPT !.key = b]]
      BY <1>9
    <2> HIDE DEF b, more, s
    <2>a. last' \in LastType
      BY <1>1, <1>6, <2>1, <2>2 DEF DriverTypeOK, LastType
    <2>3. /\ given' \in GivenType /\ given'[s].key = given[s].key \cup more
          /\ \A t \in Session \ {s} : given'[t] = given[t]
      BY <1>1, <1>3, <1>9, GivenGrows
    <2>4. KeyBecomes(s, b)
      BY <2>1, <2>2, <2>3 DEF KeyBecomes
    <2>5. /\ sess' \in [Session -> CryptoSession] /\ Grows
          /\ \A t \in Session : sess'[t].keySet = sess[t].keySet
      BY <1>1, <1>5, <2>1, <2>4, KeyGrows
    <2>6. DriverTypeOK'
      BY <1>5, <1>6, <1>8, <2>a, <2>3, <2>5 DEF DriverTypeOK, GivenType, LastType
    <2>7. Alone(c)
      BY <1>5, <1>6 DEF Alone, DriverTypeOK
    <2>8. pc'[c] = "idle" /\ part'[c] = 1 /\ call'[c] = k /\ held'[c] = {}
      BY <1>5, <1>6, <1>7 DEF DriverTypeOK
    <2>9. PlaceFits(c)'
      BY <1>5, <1>8, <2>8 DEF PlaceFits
    <2>10. KeyGiven(c)'
      BY <2>8 DEF KeyGiven
    <2>11. QED
      BY <2>5, <2>6, <2>7, <2>9, <2>10, Compose
  <1>10. CASE /\ sess' = [sess EXCEPT ![s].iv = Cleared(@)]
              /\ last' = [last EXCEPT ![s].iv = Cleared(sess[s].iv)]
              /\ given' = [given EXCEPT ![s].iv = @ \cup more]
    <2> DEFINE b == Cleared(sess[s].iv)
               x == [sess[s] EXCEPT !.iv = b]
    <2>1. b \in Block
      BY <1>1, <1>2
    <2>2. sess' = [sess EXCEPT ![s] = x] /\ last' = [last EXCEPT ![s] = [last[s] EXCEPT !.iv = b]]
      BY <1>10
    <2> HIDE DEF b, more
    <2>3. x \in CryptoSession /\ x.key = sess[s].key /\ x.keySet = sess[s].keySet
      BY <1>1, <2>1 DEF CryptoSession
    <2> HIDE DEF x
    <2>4. given' \in GivenType /\ \A t \in Session : given'[t].key = given[t].key
      BY <1>1, <1>3, <1>10, GivenKept
    <2>5. last' \in LastType
      BY <1>1, <1>6, <2>1, <2>2 DEF DriverTypeOK, LastType
    <2>6. KeysSame
      BY <1>1, <2>2, <2>3, <2>4, <2>5, IvKept DEF KeysSame
    <2>7. /\ call' = [call EXCEPT ![c] = k] /\ held' = [held EXCEPT ![c] = HeldAt("idle", k.op)]
          /\ HeldAt("idle", k.op) \subseteq Memory /\ UNCHANGED <<file, calls, sealed>>
      BY <1>5, <1>6, <1>7, <1>8 DEF DriverTypeOK
    <2>8. /\ k.op = "ENCRYPT" => k.text \in Lens
          /\ k.op \in Crypts => sess[k.s].keySet
      BY DEF PlaceFits, SaveFaults, At, OpsAt, Crypts
    <2> HIDE DEF k
    <2>9. k.op = call[c].op /\ k.s = call[c].s
      BY DEF k
    <2>10. QED
      BY <1>1, <1>5, <1>6, <1>7, <1>8, <2>6, <2>7, <2>8, <2>9, IvStep
  <1>11. QED
    BY <1>9, <1>10 DEF SaveFaults

LEMMA FlagKeyStep == ASSUME DriverInv, NEW c \in Caller, FlagKey(c) PROVE DriverInv'
  <1> USE OfCall DEF outside
  <1> DEFINE k == call[c]
             s == k.s
             x == [sess[s] EXCEPT !.keySet = TRUE]
  <1>1. /\ k \in Call /\ s \in Session /\ sess[s] \in CryptoSession /\ sess[s].key \in Block
        /\ pc[c] = "flagkey" /\ k.op = "SET_KEY" /\ held[c] = {} /\ part[c] = 1
    BY DEF FlagKey, At, OpsAt, HeldAt, Call, CryptoSession
  <1>2. \A i \in Part : <<i, sess[s].key[i]>> \in given[s].key
    BY <1>1 DEF KeyGiven, From
  <1>3. sess' = [sess EXCEPT ![s] = x] /\ Return(c, "OK") /\ "OK" \in Ret
        /\ UNCHANGED <<file, calls, given, part, call, held, sealed>>
        /\ last' = [last EXCEPT ![s].key = sess[s].key]
    BY DEF FlagKey, Ret, S
  <1>4. x \in CryptoSession /\ x.key = sess[s].key /\ x.keySet = TRUE
    BY <1>1 DEF CryptoSession
  <1> HIDE DEF x
  <1>5. DriverTypeOK /\ ret' \in [Caller -> Ret] /\ pc' = [pc EXCEPT ![c] = "idle"]
    BY <1>3, Returns DEF DriverInv
  <1>6. /\ sess' \in [Session -> CryptoSession] /\ sess'[s] = x
        /\ \A t \in Session \ {s} : sess'[t] = sess[t]
    BY <1>3, <1>4, <1>5 DEF DriverTypeOK
  <1>7. \A t \in Session : /\ sess'[t].key = sess[t].key
                           /\ sess[t].keySet => sess'[t].keySet
                           /\ t # s => sess'[t].keySet = sess[t].keySet
    BY <1>4, <1>6
  <1>8. Grows
    BY <1>3, <1>7 DEF Grows
  <1>9. DriverTypeOK'
    <2>1. pc' \in [Caller -> Pc]
      BY <1>5 DEF DriverTypeOK, Pc
    <2>2. last' \in LastType
      BY <1>1, <1>3, <1>5 DEF DriverTypeOK, LastType
    <2>3. QED
      BY <1>3, <1>5, <1>6, <2>1, <2>2 DEF DriverTypeOK, LastType
  <1>10. Alone(c)
    BY <1>3, <1>5 DEF Alone, DriverTypeOK
  <1>11. pc'[c] = "idle" /\ part'[c] = 1 /\ call'[c] = k /\ held'[c] = {}
    BY <1>1, <1>3, <1>5 DEF DriverTypeOK
  <1>12. PlaceFits(c)'
    <2>1. k.op \in OpsAt("idle") /\ HeldAt("idle", k.op) = {}
      BY <1>1 DEF OpsAt, HeldAt, Commands
    <2>2. QED
      BY <1>1, <1>11, <2>1 DEF PlaceFits
  <1>13. KeyGiven(c)'
    BY <1>11 DEF KeyGiven
  <1>14. \A t \in Session : sess'[t].keySet /\ ~sess[t].keySet => KeyKept(t)'
    BY <1>2, <1>3, <1>7 DEF KeyKept, From
  <1>15. QED
    BY <1>8, <1>9, <1>10, <1>12, <1>13, <1>14, Compose

-----------------------------------------------------------------------------
(* Calls that begin, files that are opened and closed.                      *)

LEMMA BeginWith ==
    ASSUME DriverInv, NEW c \in Caller, NEW s \in Session, Begin(c, s),
           NEW op \in Ops, NEW r \in Requests(op, s),
           call' = [call EXCEPT ![c] = r], pc' = [pc EXCEPT ![c] = Entry(op)],
           given' = [given EXCEPT ![s] =
                [key |-> @.key \cup (IF op = "SET_KEY" THEN Halves(r.key) ELSE {}),
                 iv  |-> @.iv \cup (IF op = "SET_IV" THEN Halves(r.ivBuf) ELSE {})]]
    PROVE  DriverInv'
  <1> USE OfCall
  <1>1. DriverTypeOK /\ sealed \subseteq Box /\ pc[c] = "idle" /\ held[c] = {} /\ part[c] = 1
        /\ file[s] = "open" /\ calls[c] < MaxCalls
    BY DEF DriverInv, Begin, HeldAt
  <1>2. /\ r \in Call /\ r.op = op /\ r.s = s /\ op \in Commands /\ r.text \in Lens
        /\ r.key \in Block /\ r.ivBuf \in Block
    BY <1>1, RequestFits DEF Call
  <1>3. /\ UNCHANGED <<file, sess, part, held, sealed, last>>
        /\ calls' = [calls EXCEPT ![c] = @ + 1] /\ ret' = [ret EXCEPT ![c] = "none"]
    BY DEF Begin
  <1> DEFINE X == IF op = "SET_KEY" THEN Halves(r.key) ELSE {}
             Y == IF op = "SET_IV" THEN Halves(r.ivBuf) ELSE {}
             l == Entry(op)
  <1>4. X \subseteq Part \X Half /\ Y \subseteq Part \X Half
    BY <1>2, HalvesFit
  <1>5. /\ l \in Pc /\ op \in OpsAt(l) /\ HeldAt(l, op) = {} /\ l # "tfm"
        /\ l # "flagkey" /\ l # "bufkey"
        /\ (l = "savekey" => op = "SET_KEY") /\ (op \in Crypts => l = "check")
    <2>1. CASE op = "SET_KEY"
      BY <2>1 DEF Entry, Pc, OpsAt, HeldAt, Crypts
    <2>2. CASE op = "SET_IV"
      BY <2>2 DEF Entry, Pc, OpsAt, HeldAt, Crypts
    <2>3. CASE op = "GET_IV"
      BY <2>3 DEF Entry, Pc, OpsAt, HeldAt, Crypts
    <2>4. CASE op = "MD5"
      BY <2>4 DEF Entry, Pc, OpsAt, HeldAt, Crypts
    <2>5. CASE op \in Crypts
      BY <2>5 DEF Entry, Pc, OpsAt, HeldAt, Crypts
    <2>6. QED
      BY <1>2, <2>1, <2>2, <2>3, <2>4, <2>5 DEF Commands, Crypts
  <1>6. given' = [given EXCEPT ![s] = [key |-> given[s].key \cup X, iv |-> given[s].iv \cup Y]]
    OBVIOUS
  <1>7. \A i \in Part : op = "SET_KEY" => <<i, r.key[i]>> \in X
    BY DEF Halves
  <1> HIDE DEF X, Y, l
  <1>8. /\ given' \in GivenType /\ given'[s].key = given[s].key \cup X
        /\ \A t \in Session : given[t].key \subseteq given'[t].key
    <2>1. given \in GivenType
      BY <1>1 DEF DriverTypeOK, GivenType
    <2>2. [key |-> given[s].key \cup X, iv |-> given[s].iv \cup Y]
            \in [key : SUBSET (Part \X Half), iv : SUBSET (Part \X Half)]
      BY <1>4, <2>1 DEF GivenType
    <2>3. given'[s] = [key |-> given[s].key \cup X, iv |-> given[s].iv \cup Y]
      BY <1>6, <2>1 DEF GivenType
    <2>4. \A t \in Session \ {s} : given'[t] = given[t]
      BY <1>6, <2>1 DEF GivenType
    <2>5. given' \in GivenType
      BY <1>6, <2>1, <2>2 DEF GivenType
    <2>6. QED
      BY <2>3, <2>4, <2>5
  <1>9. Grows
    BY <1>3, <1>8 DEF Grows
  <1>10. pc' = [pc EXCEPT ![c] = l]
    BY DEF l
  <1>11. calls' \in [Caller -> 0 .. MaxCalls]
    BY <1>1, <1>3, UserAssumption DEF DriverTypeOK
  <1>12. DriverTypeOK'
    <2>1. pc' \in [Caller -> Pc] /\ call' \in [Caller -> Call] /\ ret' \in [Caller -> Ret]
      BY <1>1, <1>2, <1>3, <1>5, <1>10 DEF DriverTypeOK, Ret
    <2>2. QED
      BY <1>1, <1>3, <1>8, <1>11, <2>1 DEF DriverTypeOK, GivenType
  <1>13. Alone(c)
    BY <1>1, <1>3, <1>10 DEF Alone, DriverTypeOK
  <1>14. pc'[c] = l /\ part'[c] = 1 /\ call'[c] = r /\ held'[c] = {}
    BY <1>1, <1>3, <1>10 DEF DriverTypeOK
  <1>15. PlaceFits(c)'
    BY <1>1, <1>2, <1>3, <1>5, <1>14 DEF PlaceFits
  <1>16. KeyGiven(c)'
    <2>1. pc'[c] = "savekey" => \A i \in Part : From(i, r.key, s)'
      BY <1>2, <1>5, <1>7, <1>8, <1>14 DEF From
    <2>2. /\ pc'[c] # "flagkey" /\ pc'[c] # "bufkey" /\ pc'[c] # "tfm" /\ part'[c] # 2
          /\ r.op \in Crypts => pc'[c] = "check"
      BY <1>2, <1>5, <1>14
    <2>3. QED
      BY <1>2, <1>14, <2>1, <2>2 DEF KeyGiven, From
  <1>17. QED
    BY <1>3, <1>9, <1>12, <1>13, <1>15, <1>16, Compose

LEMMA BeginStep ==
    ASSUME DriverInv, NEW c \in Caller, NEW s \in Session, Begin(c, s)
    PROVE  DriverInv'
  BY BeginWith DEF Begin

\* Nobody is inside a file when its session is zeroed.
LEMMA Zeroed ==
    ASSUME DriverInv, NEW s \in Session, NEW f \in FileState,
           \A c \in Caller : pc[c] # "idle" => call[c].s # s,
           file' = [file EXCEPT ![s] = f], sess' = [sess EXCEPT ![s] = Fresh],
           given' \in GivenType, \A t \in Session \ {s} : given'[t] = given[t],
           last' \in LastType, UNCHANGED <<pc, part, call, ret, held, calls, sealed>>
    PROVE  DriverInv'
  <1>1. DriverTypeOK
    BY DEF DriverInv
  <1>2. Fresh \in CryptoSession /\ Fresh.keySet = FALSE
    BY BlankFits DEF Fresh, CryptoSession
  <1>3. /\ sess' \in [Session -> CryptoSession] /\ sess'[s].keySet = FALSE
        /\ \A t \in Session \ {s} : sess'[t] = sess[t] /\ file'[t] = file[t]
    BY <1>1, <1>2 DEF DriverTypeOK
  <1>4. DriverTypeOK'
    BY <1>1, <1>3 DEF DriverTypeOK, GivenType, LastType
  <1>5. ASSUME NEW c \in Caller PROVE PlaceFits(c)' /\ KeyGiven(c)'
    <2>1. PlaceFits(c) /\ KeyGiven(c) /\ call[c].s \in Session
      BY OfCall
    <2>2. CASE pc[c] = "idle"
      BY <2>1, <2>2 DEF PlaceFits, KeyGiven
    <2>3. CASE pc[c] # "idle"
      <3>1. call[c].s \in Session \ {s}
        BY <2>1, <2>3
      <3>2. /\ sess'[call[c].s] = sess[call[c].s] /\ file'[call[c].s] = file[call[c].s]
            /\ given'[call[c].s] = given[call[c].s]
        BY <1>3, <3>1
      <3>3. QED
        BY <2>1, <3>2 DEF PlaceFits, KeyGiven, From
    <2>4. QED
      BY <2>2, <2>3
  <1>6. ASSUME NEW t \in Session PROVE KeyKept(t)'
    <2>1. CASE t = s
      BY <1>3, <2>1 DEF KeyKept
    <2>2. CASE t # s
      BY <1>3, <2>2 DEF DriverInv, KeyKept, From
    <2>3. QED
      BY <2>1, <2>2
  <1>7. QED
    BY <1>4, <1>5, <1>6 DEF DriverInv

LEMMA OpenStep == ASSUME DriverInv, NEW s \in Session, Open(s) PROVE DriverInv'
  <1>1. DriverTypeOK
    BY DEF DriverInv
  <1>2. \A c \in Caller : pc[c] # "idle" => call[c].s # s
    BY OfCall DEF PlaceFits, Open
  <1>3. /\ file' = [file EXCEPT ![s] = "open"] /\ sess' = [sess EXCEPT ![s] = Fresh]
        /\ "open" \in FileState
    BY DEF Open, InitSession, FileState
  <1>4. given' \in GivenType /\ \A t \in Session \ {s} : given'[t] = given[t]
    BY <1>1 DEF Open, GivenType, DriverTypeOK
  <1>5. last' \in LastType
    BY <1>1, BlankFits DEF Open, LastType, DriverTypeOK
  <1>6. UNCHANGED <<pc, part, call, ret, held, calls, sealed>>
    BY DEF Open
  <1>7. QED
    BY <1>2, <1>3, <1>4, <1>5, <1>6, Zeroed

LEMMA ReleaseStep == ASSUME DriverInv, NEW s \in Session, Release(s) PROVE DriverInv'
  <1>1. DriverTypeOK
    BY DEF DriverInv
  <1>2. "none" \in FileState /\ given' \in GivenType /\ last' \in LastType /\ given' = given
    BY <1>1 DEF FileState, Release, GivenType, LastType, DriverTypeOK
  <1>3. QED
    BY <1>2, Zeroed DEF Release

LEMMA CloseStep == ASSUME DriverInv, NEW s \in Session, Close(s) PROVE DriverInv'
  <1>1. DriverTypeOK
    BY DEF DriverInv
  <1>2. DriverTypeOK'
    BY <1>1 DEF DriverTypeOK, Close, FileState
  <1>3. \A t \in Session : file[t] # "none" => file'[t] # "none"
    BY <1>1 DEF DriverTypeOK, Close
  <1>4. ASSUME NEW c \in Caller PROVE PlaceFits(c)' /\ KeyGiven(c)'
    <2>1. PlaceFits(c) /\ KeyGiven(c) /\ call[c].s \in Session
      BY OfCall
    <2>2. QED
      BY <1>3, <2>1 DEF PlaceFits, KeyGiven, From, Close
  <1>5. \A t \in Session : KeyKept(t)'
    BY DEF DriverInv, KeyKept, From, Close
  <1>6. QED
    BY <1>2, <1>4, <1>5 DEF DriverInv

-----------------------------------------------------------------------------
(* The theorems.                                                            *)

LEMMA IoctlStep == ASSUME DriverInv, NEW c \in Caller, Ioctl(c) PROVE DriverInv'
  <1>1. CASE SaveKey(c) \/ SaveIv(c) \/ SaveFaults(c) \/ FlagKey(c) \/ FlagIv(c) \/ FlagEarly(c)
    BY <1>1, SaveKeyStep, SaveIvStep, SaveFaultsStep, FlagKeyStep, FlagIvStep, FlagEarlyStep
  <1>2. CASE GetIv(c) \/ ShowIv(c) \/ ShowFaults(c) \/ ReadOnce(c)
    BY <1>2, GetIvStep, ShowIvStep, ShowFaultsStep, ReadOnceStep
  <1>3. CASE CheckKey(c) \/ Fetch(c) \/ PickIv(c) \/ BufIv(c) \/ PickKey(c) \/ BufKey(c)
    BY <1>3, CheckKeyStep, FetchStep, PickIvStep, BufIvStep, PickKeyStep, BufKeyStep
  <1>4. CASE \E what \in DOMAIN After : Acquire(c, what)
    BY <1>4, AcquireStep
  <1>5. CASE SetTfmKey(c) \/ StepFails(c) \/ Run(c) \/ Digest(c) \/ CopyOut(c)
    BY <1>5, SetTfmKeyStep, StepFailsStep, RunStep, DigestStep, CopyOutStep
  <1>6. QED
    BY <1>1, <1>2, <1>3, <1>4, <1>5 DEF Ioctl

LEMMA InvStep == DriverInv /\ [Next]_vars => DriverInv'
  <1> SUFFICES ASSUME DriverInv, [Next]_vars PROVE DriverInv'
    OBVIOUS
  <1>1. ASSUME NEW s \in Session, Open(s) \/ Close(s) \/ Release(s) PROVE DriverInv'
    BY <1>1, OpenStep, CloseStep, ReleaseStep
  <1>2. ASSUME NEW c \in Caller, NEW s \in Session, Begin(c, s) PROVE DriverInv'
    BY <1>2, BeginStep
  <1>3. CASE UNCHANGED vars
    BY <1>3 DEF vars, DriverInv, DriverTypeOK, PlaceFits, KeyGiven, KeyKept, From
  <1>4. QED
    BY <1>1, <1>2, <1>3, IoctlStep DEF Next

LEMMA DriverInvariant == Spec => []DriverInv
  BY InvInit, InvStep, PTL DEF Spec

\* Every variable of the driver keeps its range, whatever the interleaving
\* of the calls and whichever of their steps fail.
THEOREM DriverTypeCorrect == Spec => []DriverTypeOK
  <1>1. DriverInv => DriverTypeOK
    BY DEF DriverInv
  <1>2. QED
    BY <1>1, DriverInvariant, PTL

\* device_ioctl and the functions it calls free what they allocated on every
\* path, and free nothing they do not hold.
THEOREM NothingLeaksCorrect == Spec => []NothingLeaks
  <1>1. DriverInv => NothingLeaks
    <2> SUFFICES ASSUME DriverInv, NEW c \in Caller
                 PROVE  /\ pc[c] = "idle" => held[c] = {}
                        /\ pc[c] \in Steps => Frees(pc[c]) \subseteq held[c]
      BY DEF NothingLeaks
    <2>1. held[c] = HeldAt(pc[c], call[c].op)
      BY OfCall
    <2>2. CASE pc[c] = "idle"
      BY <2>1, <2>2 DEF HeldAt, Steps
    <2>3. CASE pc[c] \in {"tfm", "shash"}
      BY <2>1, <2>3 DEF HeldAt, Frees
    <2>4. CASE pc[c] \in {"req", "desc"}
      BY <2>1, <2>4 DEF HeldAt, Frees
    <2>5. CASE pc[c] \in {"setkey", "iv_copy"}
      BY <2>1, <2>5 DEF HeldAt, Frees
    <2>6. CASE pc[c] \in {"run", "digest"}
      BY <2>1, <2>6 DEF HeldAt, Frees
    <2>7. CASE pc[c] \notin Steps \cup {"idle"}
      BY <2>7
    <2>8. QED
      BY <2>2, <2>3, <2>4, <2>5, <2>6, <2>7 DEF Steps
  <1>2. QED
    BY <1>1, DriverInvariant, PTL

\* However the calls on a file interleave, the key an encryption takes from
\* the session is made of halves that calls on that file put there.
THEOREM SessionKeyCorrect == Spec => []SessionKeyWasSet
  <1>1. DriverInv => SessionKeyWasSet
    <2> SUFFICES ASSUME DriverInv, NEW c \in Caller, pc[c] = "tfm", ~Supplied(call[c].key)
                 PROVE  Halves(call[c].keyBuf) \subseteq given[call[c].s].key
      BY DEF SessionKeyWasSet
    <2>1. \A i \in Part : <<i, call[c].keyBuf[i]>> \in given[call[c].s].key
      BY OfCall DEF KeyGiven, From
    <2>2. QED
      BY <2>1 DEF Halves
  <1>2. QED
    BY <1>1, DriverInvariant, PTL
=============================================================================
