------------------------ MODULE CryptoSessionProofs ------------------------
(***************************************************************************)
(* Theorems about CryptoDriver for files that one thread uses at a time:    *)
(* the key and IV of a request are those the session was last given, the    *)
(* IV that an encryption returns opens its ciphertext, and calls are served *)
(* as CryptoService says.  What they need of the callers is said in the     *)
(* assumptions of each.                                                     *)
(***************************************************************************)
EXTENDS CryptoDriverProofs

\* Every file has one user.
OneUser == \A c, d \in Caller, s \in Session : <<c, s>> \in Uses /\ <<d, s>> \in Uses => c = d

-----------------------------------------------------------------------------
(* The inductive invariant, over the values a call depends on: its label p, *)
(* half i and record k, the session m, and key and IV l last flagged.       *)

KeyRests(m, l) == m.keySet => m.key = l.key
IvRests(m, l)  == m.ivSet => m.iv = l.iv

KeyChosen == {"tfm", "req", "setkey", "iv_copy", "run"}
IvChosen  == {"pickkey", "bufkey"} \cup KeyChosen

\* Session and request while the IV is chosen and saved.
IvKeeps(p, i, k, m, l) ==
    /\ p \notin {"saveiv", "flagiv"} => IvRests(m, l)
    /\ p \in {"check", "fetch", "pickiv"} => k.iv = k.asked
    /\ p \in {"saveiv", "flagiv"} /\ k.op = "ENCRYPT" => k.iv = k.ivBuf
    /\ p = "saveiv" /\ i = 2 => m.iv[1] = k.ivBuf[1]
    /\ p = "flagiv" => m.iv = k.ivBuf
    /\ p = "bufiv" => m.ivSet /\ ~Supplied(k.iv) /\ (i = 2 => k.ivBuf[1] = m.iv[1])
    /\ p = "showiv" /\ k.op = "ENCRYPT" =>
          m.ivSet /\ k.ivBuf = m.iv /\ (i = 2 => k.iv[1] = m.iv[1])
    /\ p \in IvChosen /\ ~Supplied(k.asked) => k.ivBuf = l.iv
    /\ p \in IvChosen /\ k.op = "ENCRYPT" => k.iv = k.ivBuf
    /\ p \in IvChosen /\ k.op = "DECRYPT" /\ Supplied(k.iv) => k.ivBuf = k.iv

\* The same for the key.
KeyKeeps(p, i, k, m, l) ==
    /\ p \notin {"savekey", "flagkey"} => KeyRests(m, l)
    /\ p = "bufkey" /\ i = 2 => k.keyBuf[1] = m.key[1]
    /\ p \in KeyChosen /\ ~Supplied(k.key) => k.keyBuf = l.key

\* A ciphertext that tells the IV it was made with.
Honest(b) == b.shown = b.iv

\* A request to decrypt, and what a request has brought when it is done.
BoxKeeps(p, k) ==
    /\ k.op = "DECRYPT" => Honest(k.box) /\ k.iv = k.box.iv
    /\ p = "copyout" /\ k.op = "ENCRYPT" => Honest(k.box)
    /\ p = "copyout" /\ k.op = "DECRYPT" /\ Supplied(k.box.shown) /\ k.keyBuf = k.box.key =>
          k.text = k.box.text

Chosen == {"tfm", "req", "setkey", "iv_copy", "run", "copyout"}

\* What the answer of the call will be made of.
Serves(p, i, k, m, l) ==
    /\ p = "savekey" /\ i = 2 => m.key[1] = k.key[1]
    /\ p = "flagkey" => m.key = k.key
    /\ p = "bufkey" => ~Supplied(k.key)
    /\ p \in {"saveiv", "flagiv"} =>
          /\ k.op # "SET_IV" => k.ivBuf \in RandomBlocks
          /\ k.op = "GET_IV" => ~m.ivSet
          /\ k.op = "ENCRYPT" => ~Supplied(k.asked)
    /\ p = "showiv" /\ k.op = "GET_IV" => m.ivSet /\ (i = 2 => k.iv[1] = m.iv[1])
    /\ p \in {"bufiv", "showiv"} /\ k.op \in Crypts => ~Supplied(k.asked)
    /\ k.op = "DECRYPT" => k.iv = k.asked
    /\ p \in {"pickkey", "bufkey"} \cup Chosen /\ k.op \in Crypts =>
          IF Supplied(k.asked) THEN k.ivBuf = k.asked ELSE m.ivSet /\ k.ivBuf = l.iv
    /\ p \in Chosen /\ k.op \in Crypts =>
          k.keyBuf = IF Supplied(k.key) THEN k.key ELSE l.key
    /\ p = "copyout" /\ k.op = "ENCRYPT" =>
          k.box = [text |-> k.text, key |-> k.keyBuf, iv |-> k.ivBuf, shown |-> k.ivBuf]
    /\ p = "copyout" /\ k.op = "DECRYPT" => k.text = Opened(k.box, k.keyBuf, k.ivBuf)

Keeps(p, i, k, m, l) ==
    /\ IvKeeps(p, i, k, m, l) /\ KeyKeeps(p, i, k, m, l) /\ BoxKeeps(p, k)
    /\ Serves(p, i, k, m, l)

InUse(c) == pc[c] # "idle" =>
    /\ <<c, call[c].s>> \in Uses
    /\ Keeps(pc[c], part[c], call[c], sess[call[c].s], last[call[c].s])

DoneFits(c) ==
    Done(c, {"DECRYPT"}) /\ Supplied(call[c].box.shown) /\ call[c].keyBuf = call[c].box.key =>
        call[c].text = call[c].box.text

Unused(s) == \A c \in Caller : pc[c] # "idle" => call[c].s # s
Rests(s)  == Unused(s) => KeyRests(sess[s], last[s]) /\ IvRests(sess[s], last[s])

SealedFits == \A b \in sealed : Honest(b)

SoleInv == /\ \A c \in Caller : InUse(c) /\ DoneFits(c)
           /\ \A s \in Session : Rests(s)
           /\ SealedFits

\* Callers and sessions that a step of c on s leaves alone.
Frame(c, s) ==
    /\ \A d \in Caller \ {c} :
          pc'[d] = pc[d] /\ part'[d] = part[d] /\ call'[d] = call[d] /\ ret'[d] = ret[d]
    /\ \A t \in Session \ {s} : sess'[t] = sess[t] /\ last'[t] = last[t]

LEMMA SoleInit == Init => SoleInv
  <1> SUFFICES ASSUME Init PROVE SoleInv
    OBVIOUS
  <1>1. \A c \in Caller : pc[c] = "idle" /\ ret[c] = "none"
    BY DEF Init
  <1>2. \A s \in Session : ~sess[s].keySet /\ ~sess[s].ivSet
    BY DEF Init, Fresh
  <1>3. sealed = {}
    BY DEF Init
  <1>4. QED
    BY <1>1, <1>2, <1>3 DEF SoleInv, InUse, DoneFits, Done, Rests, KeyRests, IvRests, SealedFits

LEMMA Composed ==
    ASSUME OneUser, DriverInv, SoleInv, NEW c \in Caller, NEW s \in Session, Frame(c, s),
           <<c, s>> \in Uses, call'[c].s = s, pc[c] # "idle" => call[c].s = s,
           pc'[c] # "idle" => Keeps(pc'[c], part'[c], call'[c], sess'[s], last'[s]),
           pc'[c] = "idle" => KeyRests(sess'[s], last'[s]) /\ IvRests(sess'[s], last'[s]),
           DoneFits(c)', SealedFits'
    PROVE  SoleInv'
  <1>1. InUse(c)'
    BY DEF InUse
  <1>2. ASSUME NEW d \in Caller \ {c} PROVE InUse(d)' /\ DoneFits(d)'
    <2>1. pc'[d] = pc[d] /\ part'[d] = part[d] /\ call'[d] = call[d] /\ ret'[d] = ret[d]
      BY DEF Frame
    <2>2. InUse(d) /\ DoneFits(d) /\ call[d].s \in Session
      BY OfCall DEF SoleInv
    <2>3. DoneFits(d)'
      BY <2>1, <2>2 DEF DoneFits, Done
    <2>4. CASE pc[d] = "idle"
      BY <2>1, <2>3, <2>4 DEF InUse
    <2>5. CASE pc[d] # "idle"
      <3>1. call[d].s \in Session \ {s}
        BY <2>2, <2>5 DEF InUse, OneUser
      <3>2. sess'[call[d].s] = sess[call[d].s] /\ last'[call[d].s] = last[call[d].s]
        BY <3>1 DEF Frame
      <3>3. QED
        BY <2>1, <2>2, <2>3, <2>5, <3>2 DEF InUse
    <2>6. QED
      BY <2>4, <2>5
  <1>3. ASSUME NEW t \in Session PROVE Rests(t)'
    <2>1. CASE t = s
      BY <2>1 DEF Rests, Unused
    <2>2. CASE t # s
      <3>1. sess'[t] = sess[t] /\ last'[t] = last[t] /\ Rests(t)
        BY <2>2 DEF Frame, SoleInv
      <3>2. Unused(t)' => Unused(t)
        <4>1. ASSUME NEW d \in Caller, pc[d] # "idle", call[d].s = t
              PROVE  pc'[d] # "idle" /\ call'[d].s = t
          BY <2>2, <4>1 DEF Frame
        <4>2. QED
          BY <4>1 DEF Unused
      <3>3. QED
        BY <3>1, <3>2 DEF Rests
    <2>3. QED
      BY <2>1, <2>2
  <1>4. QED
    BY <1>1, <1>2, <1>3 DEF SoleInv

-----------------------------------------------------------------------------
(* Steps that leave the session and the call's record alone.                *)

LEMMA Current ==
    ASSUME DriverInv, SoleInv, NEW c \in Caller, pc[c] # "idle"
    PROVE  /\ call[c] \in Call /\ call[c].s \in Session /\ sess[call[c].s] \in CryptoSession
           /\ <<c, call[c].s>> \in Uses /\ part[c] \in Part /\ pc[c] \in Pc
           /\ call[c].op \in OpsAt(pc[c])
           /\ Keeps(pc[c], part[c], call[c], sess[call[c].s], last[call[c].s])
  BY OfCall DEF SoleInv, InUse

LEMMA KeepsRests ==
    ASSUME NEW p \in Pc \ {"savekey", "flagkey", "saveiv", "flagiv"}, NEW i, NEW k, NEW m, NEW l,
           Keeps(p, i, k, m, l)
    PROVE  KeyRests(m, l) /\ IvRests(m, l)
  BY DEF Keeps, KeyKeeps, IvKeeps

LEMMA SealedStays == ASSUME SealedFits, sealed' = sealed PROVE SealedFits'
  BY DEF SealedFits

LEMMA Moves ==
    ASSUME OneUser, DriverInv, SoleInv, NEW c \in Caller, pc[c] # "idle",
           UNCHANGED <<sess, last, call, part, sealed>>, NEW p \in Pc \ {"idle"},
           pc' = [pc EXCEPT ![c] = p], ret' = ret,
           Keeps(p, part[c], call[c], sess[call[c].s], last[call[c].s])
    PROVE  SoleInv'
  <1>1. pc'[c] = p /\ \A d \in Caller \ {c} : pc'[d] = pc[d]
    BY DEF DriverInv, DriverTypeOK
  <1>2. Frame(c, call[c].s)
    BY <1>1 DEF Frame
  <1>3. DoneFits(c)' /\ SealedFits'
    BY <1>1, SealedStays DEF DoneFits, Done, SoleInv
  <1>4. QED
    BY <1>1, <1>2, <1>3, Current, Composed

LEMMA Fails ==
    ASSUME OneUser, DriverInv, SoleInv, NEW c \in Caller,
           pc[c] \notin {"idle", "savekey", "flagkey", "saveiv", "flagiv"},
           UNCHANGED <<sess, last, call, sealed>>, \A d \in Caller \ {c} : part'[d] = part[d],
           NEW r \in Ret, Return(c, r), r # "OK" \/ call[c].op # "DECRYPT"
    PROVE  SoleInv'
  <1>1. /\ pc'[c] = "idle" /\ ret'[c] = r
        /\ \A d \in Caller \ {c} : pc'[d] = pc[d] /\ ret'[d] = ret[d]
    BY DEF DriverInv, DriverTypeOK, Return
  <1>2. Frame(c, call[c].s)
    BY <1>1 DEF Frame
  <1>3. DoneFits(c)' /\ SealedFits'
    BY <1>1, SealedStays DEF DoneFits, Done, SoleInv
  <1>4. KeyRests(sess[call[c].s], last[call[c].s]) /\ IvRests(sess[call[c].s], last[call[c].s])
    BY Current, KeepsRests
  <1>5. QED
    BY <1>1, <1>2, <1>3, <1>4, Current, Composed

LEMMA CheckKeySole ==
    ASSUME OneUser, DriverInv, SoleInv, NEW c \in Caller, CheckKey(c) PROVE SoleInv'
  <1>1. pc[c] = "check" /\ UNCHANGED <<sess, last, call, part, sealed>>
    BY DEF CheckKey, At, outside
  <1>2. CASE Goto(c, "fetch")
    <2>1. Keeps("fetch", part[c], call[c], sess[call[c].s], last[call[c].s])
      BY <1>1, Current
          DEF Keeps, IvKeeps, KeyKeeps, BoxKeeps, Serves, Chosen, IvChosen, KeyChosen
    <2>2. "fetch" \in Pc \ {"idle"}
      BY DEF Pc
    <2>3. QED
      BY <1>1, <1>2, <2>1, <2>2, Moves DEF Goto
  <1>3. CASE Return(c, "EINVAL")
    BY <1>1, <1>3, Fails DEF Ret
  <1>4. QED
    BY <1>2, <1>3 DEF CheckKey

LEMMA FetchSole ==
    ASSUME OneUser, DriverInv, SoleInv, NEW c \in Caller, Fetch(c) PROVE SoleInv'
  <1>1. pc[c] = "fetch" /\ UNCHANGED <<sess, last, call, part, sealed>>
    BY DEF Fetch, At, outside
  <1>2. ASSUME NEW p \in {"shash", "pickiv"}, Goto(c, p) PROVE SoleInv'
    <2>1. Keeps(p, part[c], call[c], sess[call[c].s], last[call[c].s])
      BY <1>1, Current
          DEF Keeps, IvKeeps, KeyKeeps, BoxKeeps, Serves, Chosen, IvChosen, KeyChosen
    <2>2. p \in Pc \ {"idle"}
      BY DEF Pc
    <2>3. QED
      BY <1>1, <1>2, <2>1, <2>2, Moves DEF Goto
  <1>3. CASE Return(c, "ENOMEM") \/ Return(c, "EFAULT")
    BY <1>1, <1>3, Fails DEF Ret
  <1>4. QED
    BY <1>2, <1>3 DEF Fetch

LEMMA AcquireSole ==
    ASSUME OneUser, DriverInv, SoleInv, NEW c \in Caller,
           NEW what \in DOMAIN After, Acquire(c, what)
    PROVE  SoleInv'
  <1>1. /\ pc[c] = what /\ what \in {"tfm", "req", "iv_copy", "shash", "desc"}
        /\ UNCHANGED <<sess, last, call, part, sealed>>
    BY DEF Acquire, At, outside, After
  <1> DEFINE p == After[what]
  <1>2. \/ what = "tfm" /\ p = "req"
        \/ what = "req" /\ p = "setkey"
        \/ what = "iv_copy" /\ p = "run"
        \/ what = "shash" /\ p = "desc"
        \/ what = "desc" /\ p = "digest"
    BY <1>1 DEF After
  <1>3. pc' = [pc EXCEPT ![c] = p] /\ ret' = ret
    BY DEF Acquire, Goto
  <1> HIDE DEF p
  <1>4. Keeps(p, part[c], call[c], sess[call[c].s], last[call[c].s])
    <2> DEFINE k == call[c]
               m == sess[k.s]
               l == last[k.s]
    <2>1. Keeps(what, part[c], k, m, l)
      BY <1>1, Current
    <2> HIDE DEF k, m, l
    <2>2. IvKeeps(p, part[c], k, m, l) /\ KeyKeeps(p, part[c], k, m, l) /\ BoxKeeps(p, k)
      BY <1>2, <2>1 DEF Keeps, IvKeeps, KeyKeeps, BoxKeeps, IvChosen, KeyChosen
    <2>3. Serves(p, part[c], k, m, l)
      BY <1>2, <2>1 DEF Keeps, Serves, Chosen
    <2>4. QED
      BY <2>2, <2>3 DEF Keeps, k, m, l
  <1>5. p \in Pc \ {"idle"} /\ pc[c] # "idle"
    BY <1>1, <1>2 DEF Pc
  <1>6. QED
    BY <1>1, <1>3, <1>4, <1>5, Moves

LEMMA SetTfmKeySole ==
    ASSUME OneUser, DriverInv, SoleInv, NEW c \in Caller, SetTfmKey(c) PROVE SoleInv'
  <1>1. pc[c] = "setkey" /\ UNCHANGED <<sess, last, call, part, sealed>>
    BY DEF SetTfmKey, At, outside
  <1>2. Keeps("iv_copy", part[c], call[c], sess[call[c].s], last[call[c].s])
    BY <1>1, Current
          DEF Keeps, IvKeeps, KeyKeeps, BoxKeeps, Serves, Chosen, IvChosen, KeyChosen
  <1>3. "iv_copy" \in Pc \ {"idle"}
    BY DEF Pc
  <1>4. QED
    BY <1>1, <1>2, <1>3, Moves DEF SetTfmKey, Goto

LEMMA DigestSole ==
    ASSUME OneUser, DriverInv, SoleInv, NEW c \in Caller, Digest(c) PROVE SoleInv'
  <1>1. pc[c] = "digest" /\ UNCHANGED <<sess, last, call, part, sealed>>
    BY DEF Digest, At, outside
  <1>2. call[c].op = "MD5"
    BY <1>1, Current DEF OpsAt
  <1>3. Keeps("copyout", part[c], call[c], sess[call[c].s], last[call[c].s])
    BY <1>1, <1>2, Current
    DEF Keeps, IvKeeps, KeyKeeps, BoxKeeps, Serves, Chosen, IvChosen, KeyChosen, Crypts
  <1>4. "copyout" \in Pc \ {"idle"}
    BY DEF Pc
  <1>5. QED
    BY <1>1, <1>3, <1>4, Moves DEF Digest, Goto

LEMMA StepFailsSole ==
    ASSUME OneUser, DriverInv, SoleInv, NEW c \in Caller, StepFails(c) PROVE SoleInv'
  <1>1. /\ pc[c] \notin {"idle", "savekey", "flagkey", "saveiv", "flagiv"}
        /\ UNCHANGED <<sess, last, call, part, sealed>>
    BY DEF StepFails, Steps, outside
  <1>2. CASE Return(c, "ENOMEM")
    BY <1>1, <1>2, Fails DEF Ret
  <1>3. CASE Return(c, "ECRYPTO")
    BY <1>1, <1>3, Fails DEF Ret
  <1>4. QED
    BY <1>2, <1>3 DEF StepFails

LEMMA CopyOutSole ==
    ASSUME OneUser, DriverInv, SoleInv, NEW c \in Caller, CopyOut(c) PROVE SoleInv'
  <1>1. pc[c] = "copyout" /\ UNCHANGED <<sess, last, call, part>>
    BY DEF CopyOut, At, outside
  <1>2. CASE /\ Return(c, "OK")
             /\ sealed' = sealed \cup (IF call[c].op = "ENCRYPT" THEN {call[c].box} ELSE {})
    <2>1. /\ pc'[c] = "idle" /\ ret'[c] = "OK"
          /\ \A d \in Caller \ {c} : pc'[d] = pc[d] /\ ret'[d] = ret[d]
      BY <1>2 DEF DriverInv, DriverTypeOK, Return
    <2>2. Frame(c, call[c].s)
      BY <1>1, <2>1 DEF Frame
    <2>3. BoxKeeps("copyout", call[c])
      BY <1>1, Current DEF Keeps
    <2>4. DoneFits(c)'
      BY <1>1, <2>3 DEF BoxKeeps, DoneFits, Done
    <2>5. SealedFits'
      BY <1>2, <2>3 DEF BoxKeeps, SealedFits, SoleInv
    <2>6. KeyRests(sess[call[c].s], last[call[c].s]) /\ IvRests(sess[call[c].s], last[call[c].s])
      BY <1>1, Current, KeepsRests
    <2>7. QED
      BY <1>1, <2>1, <2>2, <2>4, <2>5, <2>6, Current, Composed
  <1>3. CASE Return(c, "EFAULT") /\ UNCHANGED sealed
    BY <1>1, <1>3, Fails DEF Ret
  <1>4. QED
    BY <1>2, <1>3 DEF CopyOut

-----------------------------------------------------------------------------
(* Steps that fill in the call's record.                                    *)

LEMMA Filled ==
    ASSUME OneUser, DriverInv, SoleInv, NEW c \in Caller, pc[c] # "idle",
           UNCHANGED <<sess, last, sealed, ret>>, NEW p \in Pc \ {"idle"}, NEW i \in Part, NEW k,
           pc' = [pc EXCEPT ![c] = p], part' = [part EXCEPT ![c] = i],
           call' = [call EXCEPT ![c] = k], k.s = call[c].s,
           Keeps(p, i, k, sess[call[c].s], last[call[c].s])
    PROVE  SoleInv'
  <1>1. /\ pc'[c] = p /\ part'[c] = i /\ call'[c] = k
        /\ \A d \in Caller \ {c} : pc'[d] = pc[d] /\ part'[d] = part[d] /\ call'[d] = call[d]
    BY DEF DriverInv, DriverTypeOK
  <1>2. Frame(c, call[c].s)
    BY <1>1 DEF Frame
  <1>3. DoneFits(c)' /\ SealedFits'
    BY <1>1, SealedStays DEF DoneFits, Done, SoleInv
  <1>4. QED
    BY <1>1, <1>2, <1>3, Current, Composed

LEMMA Whole ==
    ASSUME NEW a \in Block, NEW b \in Block, NEW i \in Part, i = 2 => a[1] = b[1]
    PROVE  i = 2 => [a EXCEPT ![i] = b[i]] = b
  BY DEF Block, Part

LEMMA FirstHalf ==
    ASSUME NEW a \in Block, NEW b \in Block
    PROVE  [a EXCEPT ![1] = b[1]][1] = b[1]
  BY DEF Block, Part

LEMMA AdvancesTo ==
    ASSUME DriverInv, NEW c \in Caller, NEW label, Advance(c, label)
    PROVE  /\ ret' = ret
           /\ \/ part[c] = 1 /\ part' = [part EXCEPT ![c] = 2] /\ pc' = [pc EXCEPT ![c] = pc[c]]
              \/ part[c] = 2 /\ part' = [part EXCEPT ![c] = 1] /\ pc' = [pc EXCEPT ![c] = label]
  BY DEF DriverInv, DriverTypeOK, Advance, Goto, Part

LEMMA BufIvSole ==
    ASSUME OneUser, DriverInv, SoleInv, NEW c \in Caller, BufIv(c) PROVE SoleInv'
  <1> DEFINE k == call[c]
             m == sess[k.s]
             i == part[c]
             b == [k.ivBuf EXCEPT ![i] = m.iv[i]]
             r == [k EXCEPT !.ivBuf = b]
             l == IF k.op = "ENCRYPT" THEN "showiv" ELSE "pickkey"
  <1>1. pc[c] = "bufiv" /\ UNCHANGED <<sess, last, sealed>> /\ call' = [call EXCEPT ![c] = r]
        /\ Advance(c, l)
    BY DEF BufIv, At, outside, S
  <1>2. /\ k \in Call /\ k.ivBuf \in Block /\ m.iv \in Block /\ i \in Part /\ k.op \in Crypts
        /\ Keeps("bufiv", i, k, m, last[k.s])
    BY <1>1, Current DEF Call, CryptoSession, OpsAt
  <1>3. b \in Block
    BY <1>2, PartFitsBlock DEF Block
  <1>4. (i = 1 => b[1] = m.iv[1]) /\ (i = 2 => b = m.iv)
    BY <1>2, Whole, FirstHalf DEF Keeps, IvKeeps
  <1> HIDE DEF b
  <1>5. /\ r.op = k.op /\ r.s = k.s /\ r.iv = k.iv /\ r.asked = k.asked /\ r.ivBuf = b
        /\ r.key = k.key /\ r.keyBuf = k.keyBuf /\ r.box = k.box
    BY <1>2 DEF Call
  <1> HIDE DEF r
  <1>6. CASE i = 1 /\ part' = [part EXCEPT ![c] = 2] /\ pc' = [pc EXCEPT ![c] = "bufiv"]
    <2>1. Keeps("bufiv", 2, r, m, last[k.s])
      BY <1>2, <1>4, <1>5, <1>6
     
          DEF Keeps, IvKeeps, KeyKeeps, BoxKeeps, Serves, Chosen, IvChosen, KeyChosen
    <2>2. "bufiv" \in Pc \ {"idle"} /\ 2 \in Part
      BY DEF Pc, Part
    <2>3. QED
      BY <1>1, <1>5, <1>6, <2>1, <2>2, Filled, AdvancesTo
  <1>7. CASE i = 2 /\ part' = [part EXCEPT ![c] = 1] /\ pc' = [pc EXCEPT ![c] = l]
    <2>1. l \in Pc \ {"idle"} /\ 1 \in Part
      BY DEF Pc, Part
    <2>2. Keeps(l, 1, r, m, last[k.s])
      <3>1. CASE k.op = "ENCRYPT"
        BY <1>2, <1>4, <1>5, <1>7, <3>1
       
        DEF Keeps, IvKeeps, KeyKeeps, BoxKeeps, Serves, Chosen, IvChosen, KeyChosen, IvRests
      <3>2. CASE k.op = "DECRYPT"
        BY <1>2, <1>4, <1>5, <1>7, <3>2
       
        DEF Keeps, IvKeeps, KeyKeeps, BoxKeeps, Serves, Chosen, IvChosen, KeyChosen, IvRests
      <3>3. QED
        BY <1>2, <3>1, <3>2 DEF Crypts
    <2> HIDE DEF l
    <2>3. QED
      BY <1>1, <1>5, <1>7, <2>1, <2>2, Filled, AdvancesTo
  <1>8. QED
    BY <1>1, <1>6, <1>7, AdvancesTo

LEMMA BufKeySole ==
    ASSUME OneUser, DriverInv, SoleInv, NEW c \in Caller, BufKey(c) PROVE SoleInv'
  <1> DEFINE k == call[c]
             m == sess[k.s]
             i == part[c]
             b == [k.keyBuf EXCEPT ![i] = m.key[i]]
             r == [k EXCEPT !.keyBuf = b]
  <1>1. pc[c] = "bufkey" /\ UNCHANGED <<sess, last, sealed>> /\ call' = [call EXCEPT ![c] = r]
        /\ Advance(c, "tfm")
    BY DEF BufKey, At, outside, S
  <1>2. /\ k \in Call /\ k.keyBuf \in Block /\ m.key \in Block /\ i \in Part /\ k.op \in Crypts
        /\ Keeps("bufkey", i, k, m, last[k.s]) /\ m.keySet
    BY <1>1, Current, OfCall DEF Call, CryptoSession, OpsAt
  <1>3. b \in Block
    BY <1>2, PartFitsBlock DEF Block
  <1>4. (i = 1 => b[1] = m.key[1]) /\ (i = 2 => b = m.key)
    BY <1>2, Whole, FirstHalf DEF Keeps, KeyKeeps
  <1> HIDE DEF b
  <1>5. /\ r.op = k.op /\ r.s = k.s /\ r.iv = k.iv /\ r.asked = k.asked /\ r.ivBuf = k.ivBuf
        /\ r.key = k.key /\ r.keyBuf = b /\ r.box = k.box
    BY <1>2 DEF Call
  <1> HIDE DEF r
  <1>6. CASE i = 1 /\ part' = [part EXCEPT ![c] = 2] /\ pc' = [pc EXCEPT ![c] = "bufkey"]
    <2>1. Keeps("bufkey", 2, r, m, last[k.s])
      BY <1>2, <1>4, <1>5, <1>6
     
          DEF Keeps, IvKeeps, KeyKeeps, BoxKeeps, Serves, Chosen, IvChosen, KeyChosen
    <2>2. "bufkey" \in Pc \ {"idle"} /\ 2 \in Part
      BY DEF Pc, Part
    <2>3. QED
      BY <1>1, <1>5, <1>6, <2>1, <2>2, Filled, AdvancesTo
  <1>7. CASE i = 2 /\ part' = [part EXCEPT ![c] = 1] /\ pc' = [pc EXCEPT ![c] = "tfm"]
    <2>1. "tfm" \in Pc \ {"idle"} /\ 1 \in Part
      BY DEF Pc, Part
    <2>2. b = last[k.s].key
      BY <1>2, <1>4, <1>7 DEF Keeps, KeyKeeps, KeyRests
    <2>3. Keeps("tfm", 1, r, m, last[k.s])
      BY <1>2, <1>5, <2>2
     
          DEF Keeps, IvKeeps, KeyKeeps, BoxKeeps, Serves, Chosen, IvChosen, KeyChosen
    <2>4. QED
      BY <1>1, <1>5, <1>7, <2>1, <2>3, Filled, AdvancesTo
  <1>8. QED
    BY <1>1, <1>6, <1>7, AdvancesTo

LEMMA PickKeySole ==
    ASSUME OneUser, DriverInv, SoleInv, NEW c \in Caller, PickKey(c) PROVE SoleInv'
  <1> DEFINE k == call[c]
             m == sess[k.s]
             r == [k EXCEPT !.keyBuf = k.key]
  <1>1. pc[c] = "pickkey" /\ UNCHANGED <<sess, last, sealed, part>>
    BY DEF PickKey, At, outside
  <1>2. /\ k \in Call /\ Keeps("pickkey", part[c], k, m, last[k.s]) /\ part[c] = 1
        /\ part' = [part EXCEPT ![c] = 1] /\ 1 \in Part
    BY <1>1, Current, OfCall DEF Part, DriverInv, DriverTypeOK
  <1>3. CASE Supplied(k.key)
    <2>1. call' = [call EXCEPT ![c] = r] /\ pc' = [pc EXCEPT ![c] = "tfm"] /\ ret' = ret
      BY <1>3 DEF PickKey, Goto
    <2>2. /\ r.op = k.op /\ r.s = k.s /\ r.iv = k.iv /\ r.asked = k.asked /\ r.ivBuf = k.ivBuf
          /\ r.key = k.key /\ r.box = k.box
      BY <1>2 DEF Call
    <2>3. r.keyBuf = k.key
      BY <1>2 DEF Call
    <2> HIDE DEF r
    <2>4. Keeps("tfm", 1, r, m, last[k.s])
      BY <1>2, <1>3, <2>2, <2>3
          DEF Keeps, IvKeeps, KeyKeeps, BoxKeeps, Serves, Chosen, IvChosen, KeyChosen
    <2>5. "tfm" \in Pc \ {"idle"}
      BY DEF Pc
    <2>6. QED
      BY <1>1, <1>2, <2>1, <2>2, <2>4, <2>5, Filled
  <1>4. CASE ~Supplied(k.key)
    <2>1. call' = call /\ pc' = [pc EXCEPT ![c] = "bufkey"] /\ ret' = ret
      BY <1>4 DEF PickKey, Goto
    <2>2. Keeps("bufkey", part[c], k, m, last[k.s])
      BY <1>2, <1>4
          DEF Keeps, IvKeeps, KeyKeeps, BoxKeeps, Serves, Chosen, IvChosen, KeyChosen
    <2>3. "bufkey" \in Pc \ {"idle"}
      BY DEF Pc
    <2>4. QED
      BY <1>1, <2>1, <2>2, <2>3, Moves
  <1>5. QED
    BY <1>3, <1>4

LEMMA ReadOnceSole ==
    ASSUME OneUser, DriverInv, SoleInv, NEW c \in Caller, ReadOnce(c) PROVE SoleInv'
  <1> DEFINE k == call[c]
             m == sess[k.s]
             r == [k EXCEPT !.iv = k.ivBuf]
  <1>1. /\ pc[c] = "showiv" /\ k.op = "ENCRYPT" /\ part[c] = 1
        /\ UNCHANGED <<sess, last, sealed, part, ret>> /\ call' = [call EXCEPT ![c] = r]
        /\ pc' = [pc EXCEPT ![c] = "pickkey"]
    BY DEF ReadOnce, At, outside, Goto
  <1>2. /\ k \in Call /\ Keeps("showiv", 1, k, m, last[k.s])
        /\ part' = [part EXCEPT ![c] = 1] /\ 1 \in Part
    BY <1>1, Current DEF Part, DriverInv, DriverTypeOK
  <1>3. /\ r.op = k.op /\ r.s = k.s /\ r.iv = k.ivBuf /\ r.asked = k.asked
        /\ r.ivBuf = k.ivBuf /\ r.key = k.key /\ r.keyBuf = k.keyBuf /\ r.box = k.box
    BY <1>2 DEF Call
  <1> HIDE DEF r
  <1>4. Keeps("pickkey", 1, r, m, last[k.s])
    BY <1>1, <1>2, <1>3
        DEF Keeps, IvKeeps, KeyKeeps, BoxKeeps, Serves, Chosen, IvChosen, KeyChosen, IvRests
  <1>5. "pickkey" \in Pc \ {"idle"}
    BY DEF Pc
  <1>6. QED
    BY <1>1, <1>2, <1>3, <1>4, <1>5, Filled

LEMMA ShowIvSole ==
    ASSUME OneUser, DriverInv, SoleInv, NEW c \in Caller, ShowIv(c) PROVE SoleInv'
  <1> DEFINE k == call[c]
             m == sess[k.s]
             i == part[c]
             b == [k.iv EXCEPT ![i] = m.iv[i]]
             r == [k EXCEPT !.iv = b]
  <1>1. pc[c] = "showiv" /\ UNCHANGED <<sess, last, sealed>> /\ call' = [call EXCEPT ![c] = r]
    BY DEF ShowIv, At, outside, S
  <1>2. /\ k \in Call /\ k.iv \in Block /\ m.iv \in Block /\ i \in Part
        /\ k.op \in {"GET_IV", "ENCRYPT"} /\ Keeps("showiv", i, k, m, last[k.s])
    BY <1>1, Current DEF Call, CryptoSession, OpsAt
  <1>3. b \in Block
    BY <1>2, PartFitsBlock DEF Block
  <1>4. (i = 1 => b[1] = m.iv[1]) /\ (k.op = "ENCRYPT" /\ i = 2 => b = m.iv)
    BY <1>2, Whole, FirstHalf DEF Keeps, IvKeeps
  <1> HIDE DEF b
  <1>5. /\ r.op = k.op /\ r.s = k.s /\ r.iv = b /\ r.asked = k.asked /\ r.ivBuf = k.ivBuf
        /\ r.key = k.key /\ r.keyBuf = k.keyBuf /\ r.box = k.box
    BY <1>2 DEF Call
  <1> HIDE DEF r
  <1>6. CASE k.op = "GET_IV" /\ i = 2
    <2>1. part' = [part EXCEPT ![c] = 1] /\ Return(c, "OK")
      BY <1>6 DEF ShowIv
    <2>2. /\ pc'[c] = "idle" /\ call'[c] = r
          /\ \A d \in Caller \ {c} : /\ pc'[d] = pc[d] /\ part'[d] = part[d]
                                     /\ call'[d] = call[d] /\ ret'[d] = ret[d]
      BY <1>1, <2>1 DEF DriverInv, DriverTypeOK, Return
    <2>3. Frame(c, k.s)
      BY <1>1, <2>2 DEF Frame
    <2>4. DoneFits(c)' /\ SealedFits'
      BY <1>1, <1>5, <1>6, <2>2, SealedStays DEF DoneFits, Done, SoleInv
    <2>5. KeyRests(m, last[k.s]) /\ IvRests(m, last[k.s])
      BY <1>2 DEF Keeps, IvKeeps, KeyKeeps
    <2>6. QED
      BY <1>1, <1>5, <2>2, <2>3, <2>4, <2>5, Current, Composed
  <1>7. CASE ~(k.op = "GET_IV" /\ i = 2)
    <2>1. Advance(c, "pickkey")
      BY <1>7 DEF ShowIv
    <2>2. CASE i = 1 /\ part' = [part EXCEPT ![c] = 2] /\ pc' = [pc EXCEPT ![c] = "showiv"]
      <3>1. Keeps("showiv", 2, r, m, last[k.s])
        BY <1>2, <1>4, <1>5, <2>2
       
          DEF Keeps, IvKeeps, KeyKeeps, BoxKeeps, Serves, Chosen, IvChosen, KeyChosen
      <3>2. "showiv" \in Pc \ {"idle"} /\ 2 \in Part
        BY DEF Pc, Part
      <3>3. QED
        BY <1>1, <1>5, <2>1, <2>2, <3>1, <3>2, Filled, AdvancesTo
    <2>3. CASE i = 2 /\ part' = [part EXCEPT ![c] = 1] /\ pc' = [pc EXCEPT ![c] = "pickkey"]
      <3>1. Keeps("pickkey", 1, r, m, last[k.s])
        BY <1>2, <1>4, <1>5, <1>7, <2>3
       
        DEF Keeps, IvKeeps, KeyKeeps, BoxKeeps, Serves, Chosen, IvChosen, KeyChosen, IvRests
      <3>2. "pickkey" \in Pc \ {"idle"} /\ 1 \in Part
        BY DEF Pc, Part
      <3>3. QED
        BY <1>1, <1>5, <2>1, <2>3, <3>1, <3>2, Filled, AdvancesTo
    <2>4. QED
      BY <1>1, <2>1, <2>2, <2>3, AdvancesTo
  <1>8. QED
    BY <1>6, <1>7

LEMMA RunSole ==
    ASSUME OneUser, DriverInv, SoleInv, NEW c \in Caller, Run(c) PROVE SoleInv'
  <1> DEFINE k == call[c]
             m == sess[k.s]
             e == [text |-> k.text, key |-> k.keyBuf, iv |-> k.ivBuf, shown |-> k.iv]
             r == IF k.op = "ENCRYPT"
                  THEN [k EXCEPT !.outLen = Padded(k.text), !.box = e]
                  ELSE [k EXCEPT !.outLen = Padded(k.box.text),
                                 !.text = Opened(k.box, k.keyBuf, k.ivBuf)]
  <1>1. /\ pc[c] = "run" /\ UNCHANGED <<sess, last, sealed, part, ret>>
        /\ call' = [call EXCEPT ![c] = r] /\ pc' = [pc EXCEPT ![c] = "copyout"]
    BY DEF Run, At, outside, Goto
  <1>2. /\ k \in Call /\ Keeps("run", part[c], k, m, last[k.s]) /\ k.op \in Crypts
        /\ part' = [part EXCEPT ![c] = part[c]] /\ part[c] \in Part
    BY <1>1, Current DEF DriverInv, DriverTypeOK, OpsAt
  <1>3. r.s = k.s /\ Keeps("copyout", part[c], r, m, last[k.s])
    <2>1. CASE k.op = "ENCRYPT"
      <3>1. /\ r.op = k.op /\ r.s = k.s /\ r.box = e /\ r.text = k.text /\ r.asked = k.asked
            /\ r.key = k.key /\ r.keyBuf = k.keyBuf /\ r.ivBuf = k.ivBuf
        BY <1>2, <2>1 DEF Call
      <3>2. k.iv = k.ivBuf
        BY <1>2, <2>1 DEF Keeps, IvKeeps, IvChosen, KeyChosen
      <3>3. /\ Honest(e)
            /\ r.box = [text |-> r.text, key |-> r.keyBuf, iv |-> r.ivBuf, shown |-> r.ivBuf]
        BY <3>1, <3>2 DEF Honest
      <3> HIDE DEF r, e
      <3>4. QED
        BY <1>2, <2>1, <3>1, <3>3
       
          DEF Keeps, IvKeeps, KeyKeeps, BoxKeeps, Serves, Chosen, IvChosen, KeyChosen
    <2>2. CASE k.op = "DECRYPT"
      <3>1. /\ r.op = k.op /\ r.s = k.s /\ r.box = k.box /\ r.keyBuf = k.keyBuf /\ r.iv = k.iv
            /\ r.text = Opened(k.box, k.keyBuf, k.ivBuf) /\ r.asked = k.asked
            /\ r.key = k.key /\ r.ivBuf = k.ivBuf
        BY <1>2, <2>2 DEF Call
      <3>2. Supplied(k.box.shown) => k.ivBuf = k.box.iv
        BY <1>2, <2>2 DEF Keeps, IvKeeps, BoxKeeps, IvChosen, KeyChosen, Honest
      <3>3. Supplied(k.box.shown) /\ k.keyBuf = k.box.key => r.text = k.box.text
        BY <3>1, <3>2 DEF Opened
      <3> HIDE DEF r, e
      <3>4. QED
        BY <1>2, <2>2, <3>1, <3>3
       
          DEF Keeps, IvKeeps, KeyKeeps, BoxKeeps, Serves, Chosen, IvChosen, KeyChosen
    <2>3. QED
      BY <1>2, <2>1, <2>2 DEF Crypts
  <1> HIDE DEF r
  <1>4. "copyout" \in Pc \ {"idle"}
    BY DEF Pc
  <1>5. QED
    BY <1>1, <1>2, <1>3, <1>4, Filled

\* A block drawn at random becomes the IV of the request.
LEMMA DrawnSole ==
    ASSUME OneUser, DriverInv, SoleInv, NEW c \in Caller, pc[c] \in {"getiv", "pickiv"},
           Draw(c), UNCHANGED <<sess, last, sealed, ret, part>>, pc' = [pc EXCEPT ![c] = "saveiv"],
           call[c].op \in {"GET_IV", "ENCRYPT"},
           call[c].op = "GET_IV" => ~sess[call[c].s].ivSet,
           call[c].op = "ENCRYPT" => ~Supplied(call[c].asked)
    PROVE  SoleInv'
  <1> DEFINE k == call[c]
             m == sess[k.s]
  <1>1. PICK b \in RandomBlocks :
            call' = [call EXCEPT ![c].ivBuf = b,
                                 ![c].iv = IF k.op = "ENCRYPT" THEN b ELSE @]
    BY DEF Draw
  <1> DEFINE v == IF k.op = "ENCRYPT" THEN b ELSE k.iv
             r == [k EXCEPT !.ivBuf = b, !.iv = v]
  <1>2. call' = [call EXCEPT ![c] = r]
    <2>1. call \in [Caller -> Call]
      BY DEF DriverInv, DriverTypeOK
    <2>2. call' = [call EXCEPT ![c] = [call[c] EXCEPT !.ivBuf = b,
                                 !.iv = IF k.op = "ENCRYPT" THEN b ELSE call[c].iv]]
      BY <1>1, <2>1
    <2>3. QED
      BY <2>2
  <1>3. /\ k \in Call /\ Keeps(pc[c], part[c], k, m, last[k.s]) /\ part[c] = 1
        /\ part' = [part EXCEPT ![c] = 1] /\ 1 \in Part
    BY Current, OfCall DEF Part, DriverInv, DriverTypeOK
  <1>4. /\ r.op = k.op /\ r.s = k.s /\ r.iv = v /\ r.asked = k.asked
        /\ r.ivBuf = b /\ r.key = k.key /\ r.keyBuf = k.keyBuf /\ r.box = k.box
    BY <1>3 DEF Call
  <1> HIDE DEF r
  <1>5. Keeps("saveiv", 1, r, m, last[k.s])
    BY <1>1, <1>3, <1>4
   
          DEF Keeps, IvKeeps, KeyKeeps, BoxKeeps, Serves, Chosen, IvChosen, KeyChosen
  <1>6. "saveiv" \in Pc \ {"idle"}
    BY DEF Pc
  <1>7. QED
    BY <1>2, <1>3, <1>4, <1>5, <1>6, Filled

LEMMA GetIvSole ==
    ASSUME OneUser, DriverInv, SoleInv, NEW c \in Caller, GetIv(c) PROVE SoleInv'
  <1>1. pc[c] = "getiv" /\ call[c].op = "GET_IV" /\ UNCHANGED <<sess, last, sealed, part>>
    BY Current DEF GetIv, At, OpsAt
  <1>2. CASE S(c).ivSet
    <2>1. call' = call /\ pc' = [pc EXCEPT ![c] = "showiv"] /\ ret' = ret
      BY <1>2 DEF GetIv, Goto
    <2>2. Keeps("showiv", part[c], call[c], sess[call[c].s], last[call[c].s])
      <3>1. Keeps("getiv", part[c], call[c], S(c), last[call[c].s]) /\ part[c] = 1
        BY <1>1, Current, OfCall DEF S
      <3>2. QED
        BY <1>1, <1>2, <3>1
        DEF Keeps, IvKeeps, KeyKeeps, BoxKeeps, Serves, Chosen, IvChosen, KeyChosen, S, Crypts
    <2>3. "showiv" \in Pc \ {"idle"}
      BY DEF Pc
    <2>4. QED
      BY <1>1, <2>1, <2>2, <2>3, Moves
  <1>3. CASE ~S(c).ivSet
    BY <1>1, <1>3, DrawnSole DEF GetIv, Goto, S
  <1>4. QED
    BY <1>2, <1>3

LEMMA PickIvSole ==
    ASSUME OneUser, DriverInv, SoleInv, NEW c \in Caller, PickIv(c) PROVE SoleInv'
  <1> DEFINE k == call[c]
             m == sess[k.s]
             r == [k EXCEPT !.ivBuf = k.iv]
  <1>1. pc[c] = "pickiv" /\ UNCHANGED <<sess, last, sealed, part>>
    BY DEF PickIv, At, outside
  <1>2. /\ k \in Call /\ Keeps("pickiv", part[c], k, m, last[k.s]) /\ part[c] = 1
        /\ part' = [part EXCEPT ![c] = 1] /\ 1 \in Part
    BY <1>1, Current, OfCall DEF Part, DriverInv, DriverTypeOK
  <1>3. CASE Supplied(k.iv) /\ call' = [call EXCEPT ![c] = r] /\ Goto(c, "pickkey")
    <2>1. /\ r.op = k.op /\ r.s = k.s /\ r.iv = k.iv /\ r.asked = k.asked
          /\ r.ivBuf = k.iv /\ r.key = k.key /\ r.keyBuf = k.keyBuf /\ r.box = k.box
      BY <1>2 DEF Call
    <2> HIDE DEF r
    <2>2. Keeps("pickkey", 1, r, m, last[k.s])
      BY <1>2, <1>3, <2>1
          DEF Keeps, IvKeeps, KeyKeeps, BoxKeeps, Serves, Chosen, IvChosen, KeyChosen
    <2>3. "pickkey" \in Pc \ {"idle"}
      BY DEF Pc
    <2>4. QED
      BY <1>1, <1>2, <1>3, <2>1, <2>2, <2>3, Filled DEF Goto
  <1>4. CASE ~Supplied(k.iv) /\ S(c).ivSet /\ Goto(c, "bufiv") /\ UNCHANGED call
    <2>1. Keeps("bufiv", part[c], k, m, last[k.s])
      BY <1>2, <1>4 DEF Keeps, IvKeeps, KeyKeeps, BoxKeeps, Serves, Chosen, IvChosen, KeyChosen, S
    <2>2. "bufiv" \in Pc \ {"idle"}
      BY DEF Pc
    <2>3. QED
      BY <1>1, <1>4, <2>1, <2>2, Moves DEF Goto
  <1>5. CASE ~Supplied(k.iv) /\ k.op = "ENCRYPT" /\ Draw(c) /\ Goto(c, "saveiv")
    <2>1. ~Supplied(k.asked)
      BY <1>2, <1>5 DEF Keeps, IvKeeps
    <2>2. QED
      BY <1>1, <1>5, <2>1, DrawnSole DEF Goto
  <1>6. CASE Return(c, "EINVAL") /\ UNCHANGED call
    BY <1>1, <1>6, Fails DEF Ret
  <1>7. QED
    BY <1>3, <1>4, <1>5, <1>6 DEF PickIv

-----------------------------------------------------------------------------
(* Steps that change the session.                                           *)

LEMMA SaveIvSole ==
    ASSUME OneUser, DriverInv, SoleInv, NEW c \in Caller, SaveIv(c) PROVE SoleInv'
  <1> DEFINE k == call[c]
             s == k.s
             m == sess[s]
             i == part[c]
             b == [m.iv EXCEPT ![i] = k.ivBuf[i]]
             n == [m EXCEPT !.iv = b]
  <1>1. /\ pc[c] = "saveiv" /\ UNCHANGED <<last, sealed, call>> /\ Advance(c, "flagiv")
        /\ sess' = [sess EXCEPT ![s] = n]
    BY DEF SaveIv, At, outside
  <1>2. /\ k \in Call /\ s \in Session /\ k.ivBuf \in Block /\ m \in CryptoSession /\ m.iv \in Block
        /\ i \in Part /\ Keeps("saveiv", i, k, m, last[s]) /\ <<c, s>> \in Uses
        /\ k.op \in {"SET_IV", "GET_IV", "ENCRYPT"}
    BY <1>1, Current DEF Call, CryptoSession, OpsAt
  <1>3. (i = 1 => b[1] = k.ivBuf[1]) /\ (i = 2 => b = k.ivBuf)
    BY <1>2, Whole, FirstHalf DEF Keeps, IvKeeps
  <1> HIDE DEF b
  <1>4. n.key = m.key /\ n.keySet = m.keySet /\ n.ivSet = m.ivSet /\ n.iv = b
    BY <1>2 DEF CryptoSession
  <1> HIDE DEF n
  <1>5. sess'[s] = n /\ \A t \in Session \ {s} : sess'[t] = sess[t]
    BY <1>1, <1>2 DEF DriverInv, DriverTypeOK
  <1>6. ASSUME NEW p \in {"saveiv", "flagiv"}, NEW j \in Part, Keeps(p, j, k, n, last[s]),
               part' = [part EXCEPT ![c] = j], pc' = [pc EXCEPT ![c] = p]
        PROVE  SoleInv'
    <2>1. /\ pc'[c] = p /\ part'[c] = j /\ ret' = ret
          /\ \A d \in Caller \ {c} : pc'[d] = pc[d] /\ part'[d] = part[d]
      BY <1>1, <1>6, AdvancesTo DEF DriverInv, DriverTypeOK
    <2>2. Frame(c, s)
      BY <1>1, <1>5, <2>1 DEF Frame
    <2>3. DoneFits(c)' /\ SealedFits'
      BY <1>1, <2>1, SealedStays DEF DoneFits, Done, SoleInv
    <2> HIDE DEF k, s
    <2>4. QED
      BY <1>1, <1>2, <1>5, <1>6, <2>1, <2>2, <2>3, Composed DEF k, s
  <1>7. CASE i = 1 /\ part' = [part EXCEPT ![c] = 2] /\ pc' = [pc EXCEPT ![c] = "saveiv"]
    <2>1. Keeps("saveiv", 2, k, n, last[s])
      BY <1>2, <1>3, <1>4, <1>7
      DEF Keeps, IvKeeps, KeyKeeps, BoxKeeps, Serves, Chosen, IvChosen, KeyChosen, KeyRests
    <2>2. QED
      BY <1>6, <1>7, <2>1 DEF Part
  <1>8. CASE i = 2 /\ part' = [part EXCEPT ![c] = 1] /\ pc' = [pc EXCEPT ![c] = "flagiv"]
    <2>1. Keeps("flagiv", 1, k, n, last[s])
      BY <1>2, <1>3, <1>4, <1>8
      DEF Keeps, IvKeeps, KeyKeeps, BoxKeeps, Serves, Chosen, IvChosen, KeyChosen, KeyRests
    <2>2. QED
      BY <1>6, <1>8, <2>1 DEF Part
  <1>9. QED
    BY <1>1, <1>7, <1>8, AdvancesTo

LEMMA SaveKeySole ==
    ASSUME OneUser, DriverInv, SoleInv, NEW c \in Caller, SaveKey(c) PROVE SoleInv'
  <1> DEFINE k == call[c]
             s == k.s
             m == sess[s]
             b == [m.key EXCEPT ![part[c]] = k.key[part[c]]]
             n == [m EXCEPT !.key = b]
  <1>1. /\ pc[c] = "savekey" /\ UNCHANGED <<last, sealed, call>> /\ Advance(c, "flagkey")
        /\ sess' = [sess EXCEPT ![s] = n]
    BY DEF SaveKey, At, outside
  <1>2. /\ s \in Session /\ m \in CryptoSession /\ part[c] \in Part
        /\ Keeps("savekey", part[c], k, m, last[s]) /\ <<c, s>> \in Uses
        /\ k.key \in Block /\ m.key \in Block /\ k.op = "SET_KEY"
    BY <1>1, Current DEF Call, CryptoSession, OpsAt
  <1>3. /\ part[c] = 1 => b[1] = k.key[1]
        /\ part[c] = 2 => b = k.key
    BY <1>2, Whole, FirstHalf DEF Keeps, Serves
  <1> HIDE DEF b
  <1>4. n.iv = m.iv /\ n.ivSet = m.ivSet /\ n.key = b
    BY <1>2 DEF CryptoSession
  <1> HIDE DEF n
  <1>5. sess'[s] = n /\ \A t \in Session \ {s} : sess'[t] = sess[t]
    BY <1>1, <1>2 DEF DriverInv, DriverTypeOK
  <1>6. PICK p \in {"savekey", "flagkey"}, j \in Part :
            /\ part' = [part EXCEPT ![c] = j] /\ pc' = [pc EXCEPT ![c] = p]
            /\ \/ p = "savekey" /\ j = 2 /\ part[c] = 1
               \/ p = "flagkey" /\ part[c] = 2
    <2>1. CASE part[c] = 1
      BY <1>1, <2>1, AdvancesTo DEF Part
    <2>2. CASE part[c] = 2
      BY <1>1, <2>2, AdvancesTo DEF Part
    <2>3. QED
      BY <1>2, <2>1, <2>2 DEF Part
  <1>7. Keeps(p, j, k, n, last[s])
    BY <1>2, <1>3, <1>6, <1>4
    DEF Keeps, IvKeeps, KeyKeeps, BoxKeeps, Serves, Chosen, IvChosen, KeyChosen, IvRests, Crypts
  <1>8. /\ pc'[c] = p /\ part'[c] = j /\ ret' = ret
        /\ \A d \in Caller \ {c} : pc'[d] = pc[d] /\ part'[d] = part[d]
    BY <1>1, <1>6, AdvancesTo DEF DriverInv, DriverTypeOK
  <1>9. Frame(c, s)
    BY <1>1, <1>5, <1>8 DEF Frame
  <1>10. DoneFits(c)' /\ SealedFits'
    BY <1>1, <1>8, SealedStays DEF DoneFits, Done, SoleInv
  <1> HIDE DEF k, s
  <1>11. QED
    BY <1>1, <1>2, <1>5, <1>7, <1>8, <1>9, <1>10, Composed DEF k, s

LEMMA FlagKeySole ==
    ASSUME OneUser, DriverInv, SoleInv, NEW c \in Caller, FlagKey(c) PROVE SoleInv'
  <1> DEFINE k == call[c]
             s == k.s
             m == sess[s]
             n == [m EXCEPT !.keySet = TRUE]
             l == [last[s] EXCEPT !.key = m.key]
  <1>1. /\ pc[c] = "flagkey" /\ UNCHANGED <<part, sealed, call>> /\ Return(c, "OK")
        /\ sess' = [sess EXCEPT ![s] = n] /\ last' = [last EXCEPT ![s] = l]
    BY DEF FlagKey, At, outside, S
  <1>2. /\ s \in Session /\ m \in CryptoSession /\ k.op = "SET_KEY"
        /\ last[s] \in [key : Block, iv : Block]
        /\ Keeps("flagkey", part[c], k, m, last[s]) /\ <<c, s>> \in Uses
    BY <1>1, Current DEF OpsAt, DriverInv, DriverTypeOK
  <1>3. n.iv = m.iv /\ n.ivSet = m.ivSet /\ n.key = m.key /\ l.key = m.key /\ l.iv = last[s].iv
    BY <1>2 DEF CryptoSession
  <1> HIDE DEF n, l
  <1>4. /\ sess'[s] = n /\ last'[s] = l
        /\ \A t \in Session \ {s} : sess'[t] = sess[t] /\ last'[t] = last[t]
    BY <1>1, <1>2 DEF DriverInv, DriverTypeOK
  <1>5. KeyRests(n, l) /\ IvRests(n, l)
    BY <1>2, <1>3 DEF Keeps, IvKeeps, KeyRests, IvRests
  <1>6. /\ pc'[c] = "idle"
        /\ \A d \in Caller \ {c} : pc'[d] = pc[d] /\ ret'[d] = ret[d]
    BY <1>1 DEF Return, DriverInv, DriverTypeOK
  <1>7. Frame(c, s)
    BY <1>1, <1>4, <1>6 DEF Frame
  <1>8. DoneFits(c)' /\ SealedFits'
    BY <1>1, <1>2, SealedStays DEF DoneFits, Done, SoleInv
  <1> HIDE DEF k, s
  <1>9. QED
    BY <1>1, <1>2, <1>4, <1>5, <1>6, <1>7, <1>8, Composed DEF k, s

LEMMA FlagIvSole ==
    ASSUME OneUser, DriverInv, SoleInv, NEW c \in Caller, FlagIv(c) PROVE SoleInv'
  <1> DEFINE k == call[c]
             s == k.s
             m == sess[s]
             n == [m EXCEPT !.ivSet = TRUE]
             l == [last[s] EXCEPT !.iv = m.iv]
  <1>1. /\ pc[c] = "flagiv" /\ UNCHANGED <<part, sealed, call>>
        /\ sess' = [sess EXCEPT ![s] = n] /\ last' = [last EXCEPT ![s] = l]
    BY DEF FlagIv, At, outside, S
  <1>2. /\ s \in Session /\ m \in CryptoSession /\ k.op \in {"SET_IV", "GET_IV", "ENCRYPT"}
        /\ last[s] \in [key : Block, iv : Block] /\ <<c, s>> \in Uses /\ part[c] = 1
        /\ Keeps("flagiv", part[c], k, m, last[s])
    BY <1>1, Current, OfCall DEF OpsAt, DriverInv, DriverTypeOK
  <1>3. n.iv = m.iv /\ n.keySet = m.keySet /\ n.key = m.key /\ n.ivSet
        /\ l.iv = m.iv /\ l.key = last[s].key
    BY <1>2 DEF CryptoSession
  <1> HIDE DEF n, l
  <1>4. /\ sess'[s] = n /\ last'[s] = l
        /\ \A t \in Session \ {s} : sess'[t] = sess[t] /\ last'[t] = last[t]
    BY <1>1, <1>2 DEF DriverInv, DriverTypeOK
  <1>5. KeyRests(n, l) /\ IvRests(n, l)
    BY <1>2, <1>3 DEF Keeps, IvKeeps, KeyKeeps, KeyRests, IvRests
  <1>6. ASSUME NEW p \in {"idle", "showiv", "pickkey"}, pc'[c] = p,
               p # "idle" => Keeps(p, 1, k, n, l),
               \A d \in Caller \ {c} : pc'[d] = pc[d] /\ ret'[d] = ret[d]
        PROVE  SoleInv'
    <2>1. Frame(c, s)
      BY <1>1, <1>4, <1>6 DEF Frame
    <2>2. DoneFits(c)' /\ SealedFits'
      BY <1>1, <1>2, SealedStays DEF DoneFits, Done, SoleInv
    <2> HIDE DEF k, s
    <2>3. QED
      BY <1>1, <1>2, <1>4, <1>5, <1>6, <2>1, <2>2, Composed DEF k, s
  <1>7. CASE k.op = "SET_IV"
    <2>1. Return(c, "OK")
      BY <1>7 DEF FlagIv
    <2>2. pc'[c] = "idle" /\ \A d \in Caller \ {c} : pc'[d] = pc[d] /\ ret'[d] = ret[d]
      BY <2>1 DEF Return, DriverInv, DriverTypeOK
    <2>3. QED
      BY <1>6, <2>2
  <1>8. CASE k.op = "GET_IV"
    <2>1. Goto(c, "showiv")
      BY <1>8 DEF FlagIv
    <2>2. pc'[c] = "showiv" /\ \A d \in Caller \ {c} : pc'[d] = pc[d] /\ ret'[d] = ret[d]
      BY <2>1 DEF Goto, DriverInv, DriverTypeOK
    <2>3. Keeps("showiv", 1, k, n, l)
      BY <1>2, <1>3, <1>5, <1>8
      DEF Keeps, IvKeeps, KeyKeeps, BoxKeeps, Serves, Chosen, IvChosen, KeyChosen, Crypts
    <2>4. QED
      BY <1>6, <2>2, <2>3
  <1>9. CASE k.op = "ENCRYPT"
    <2>1. Goto(c, "pickkey")
      BY <1>9 DEF FlagIv
    <2>2. pc'[c] = "pickkey" /\ \A d \in Caller \ {c} : pc'[d] = pc[d] /\ ret'[d] = ret[d]
      BY <2>1 DEF Goto, DriverInv, DriverTypeOK
    <2>3. Keeps("pickkey", 1, k, n, l)
      BY <1>2, <1>3, <1>5, <1>9
      
          DEF Keeps, IvKeeps, KeyKeeps, BoxKeeps, Serves, Chosen, IvChosen, KeyChosen
    <2>4. QED
      BY <1>6, <2>2, <2>3
  <1>10. QED
    BY <1>2, <1>7, <1>8, <1>9

LEMMA FlagEarlySole ==
    ASSUME OneUser, DriverInv, SoleInv, NEW c \in Caller, FlagEarly(c) PROVE SoleInv'
  <1> DEFINE k == call[c]
             s == k.s
             m == sess[s]
             n == [m EXCEPT !.ivSet = TRUE]
  <1>1. /\ pc[c] = "saveiv" /\ UNCHANGED <<pc, ret, last, part, sealed, call>>
        /\ sess' = [sess EXCEPT ![s] = n] /\ k.op = "ENCRYPT"
    BY DEF FlagEarly, At, outside
  <1>2. /\ s \in Session /\ m \in CryptoSession /\ <<c, s>> \in Uses
        /\ Keeps("saveiv", part[c], k, m, last[s])
    BY <1>1, Current
  <1>3. n.iv = m.iv /\ n.keySet = m.keySet /\ n.key = m.key
    BY <1>2 DEF CryptoSession
  <1> HIDE DEF n
  <1>4. sess'[s] = n /\ \A t \in Session \ {s} : sess'[t] = sess[t]
    BY <1>1, <1>2 DEF DriverInv, DriverTypeOK
  <1>5. Keeps("saveiv", part[c], k, n, last[s])
    BY <1>1, <1>2, <1>3
    DEF Keeps, IvKeeps, KeyKeeps, BoxKeeps, Serves, Chosen, IvChosen, KeyChosen, KeyRests
  <1>6. Frame(c, s)
    BY <1>1, <1>4 DEF Frame
  <1>7. DoneFits(c)' /\ SealedFits'
    BY <1>1, SealedStays DEF DoneFits, Done, SoleInv
  <1> HIDE DEF k, s
  <1>8. QED
    BY <1>1, <1>2, <1>4, <1>5, <1>6, <1>7, Composed DEF k, s

LEMMA ShowFaultsSole ==
    ASSUME OneUser, DriverInv, SoleInv, NEW c \in Caller, ShowFaults(c) PROVE SoleInv'
  <1>1. /\ pc[c] = "showiv" /\ UNCHANGED <<sess, last, call, sealed>> /\ Return(c, "EFAULT")
        /\ part' = [part EXCEPT ![c] = 1]
    BY DEF ShowFaults, At, outside
  <1>2. \A d \in Caller \ {c} : part'[d] = part[d]
    BY <1>1 DEF DriverInv, DriverTypeOK
  <1>3. QED
    BY <1>1, <1>2, Fails DEF Ret

LEMMA SaveFaultsSole ==
    ASSUME OneUser, DriverInv, SoleInv, NEW c \in Caller, SaveFaults(c) PROVE SoleInv'
  <1> DEFINE k == call[c]
             s == k.s
             m == sess[s]
             n == sess'[s]
             l == last'[s]
             Cleared(b) == [i \in Part |-> IF i \in part[c] .. 2 THEN Zero ELSE b[i]]
  <1>1. /\ UNCHANGED <<call, sealed>> /\ Return(c, "EFAULT")
        /\ part' = [part EXCEPT ![c] = 1] /\ pc[c] # "idle"
    BY DEF SaveFaults, At
  <1>2. /\ s \in Session /\ m \in CryptoSession /\ last[s] \in [key : Block, iv : Block]
        /\ Keeps(pc[c], part[c], k, m, last[s]) /\ <<c, s>> \in Uses
    BY <1>1, Current DEF DriverInv, DriverTypeOK
  <1>3. /\ \/ /\ pc[c] = "savekey" /\ n = [m EXCEPT !.key = Cleared(m.key)]
              /\ l = [last[s] EXCEPT !.key = Cleared(m.key)]
           \/ /\ pc[c] = "saveiv" /\ n = [m EXCEPT !.iv = Cleared(m.iv)]
              /\ l = [last[s] EXCEPT !.iv = Cleared(m.iv)]
        /\ \A t \in Session \ {s} : sess'[t] = sess[t] /\ last'[t] = last[t]
    BY <1>2 DEF SaveFaults, At, DriverInv, DriverTypeOK
  <1>4. KeyRests(n, l) /\ IvRests(n, l)
    <2>1. CASE pc[c] = "savekey"
      <3>1. n.iv = m.iv /\ n.ivSet = m.ivSet /\ n.key = l.key /\ l.iv = last[s].iv
        BY <1>2, <1>3, <2>1 DEF CryptoSession
      <3>2. QED
        BY <1>1, <1>2, <2>1, <3>1 DEF Keeps, IvKeeps, KeyRests, IvRests
    <2>2. CASE pc[c] = "saveiv"
      <3>1. n.key = m.key /\ n.keySet = m.keySet /\ n.iv = l.iv /\ l.key = last[s].key
        BY <1>2, <1>3, <2>2 DEF CryptoSession
      <3>2. QED
        BY <1>1, <1>2, <2>2, <3>1 DEF Keeps, KeyKeeps, KeyRests, IvRests
    <2>3. QED
      BY <1>3, <2>1, <2>2
  <1>5. /\ pc'[c] = "idle" /\ ret'[c] = "EFAULT"
        /\ \A d \in Caller \ {c} : pc'[d] = pc[d] /\ part'[d] = part[d] /\ ret'[d] = ret[d]
    BY <1>1 DEF Return, DriverInv, DriverTypeOK
  <1>6. Frame(c, s)
    BY <1>1, <1>3, <1>5 DEF Frame
  <1>7. DoneFits(c)' /\ SealedFits'
    BY <1>1, <1>5, SealedStays DEF DoneFits, Done, SoleInv
  <1> HIDE DEF k, s
  <1>8. QED
    BY <1>1, <1>2, <1>4, <1>5, <1>6, <1>7, Composed DEF k, s

-----------------------------------------------------------------------------
(* Calls that begin, files that are opened and closed.                      *)

LEMMA Asked ==
    ASSUME SealedFits, sealed \subseteq Box, NEW op \in Ops, NEW s \in Session,
           NEW r \in Requests(op, s)
    PROVE  /\ r.op = op /\ r.s = s /\ r.iv = r.asked
           /\ op = "SET_IV" => r.ivBuf \in UserIVs[s]
           /\ op = "DECRYPT" => Honest(r.box) /\ r.iv = r.box.iv
  <1>1. op \in Commands
    BY UserAssumption
  <1>2. CASE op = "SET_KEY"
    <2>1. PICK k \in UserKeys[s] : r = NewCall(op, s, k, Blank, Blank, 0, NoBox)
      BY <1>2 DEF Requests
    <2>2. QED
      BY <1>2, <2>1 DEF NewCall
  <1>3. CASE op = "SET_IV"
    <2>1. PICK v \in UserIVs[s] : r = NewCall(op, s, Blank, Blank, v, 0, NoBox)
      BY <1>3 DEF Requests
    <2>2. QED
      BY <1>3, <2>1 DEF NewCall
  <1>4. CASE op \in {"GET_IV", "MD5"}
    <2>1. r = Plain(op, s)
      <3>1. CASE op = "GET_IV"
        BY <3>1 DEF Requests
      <3>2. CASE op = "MD5"
        BY <3>2 DEF Requests
      <3>3. QED
        BY <1>4, <3>1, <3>2
    <2>2. QED
      BY <1>4, <2>1 DEF NewCall, Plain
  <1>5. CASE op = "ENCRYPT"
    <2>1. PICK k \in OwnKeys \cup {Blank}, v \in OwnIVs \cup {Blank}, n \in Lengths :
            r = NewCall(op, s, k, v, Blank, n, NoBox)
      BY <1>5 DEF Requests
    <2>2. QED
      BY <1>5, <2>1 DEF NewCall
  <1>6. CASE op = "DECRYPT"
    <2>1. PICK k \in OwnKeys \cup {Blank}, b \in sealed :
            r = NewCall(op, s, k, b.shown, Blank, 0, b)
      BY <1>6 DEF Requests
    <2>2. r.op = op /\ r.s = s /\ r.iv = b.shown /\ r.asked = b.shown /\ r.box = b
      BY <2>1 DEF NewCall
    <2>3. Honest(b)
      BY DEF SealedFits
    <2>4. QED
      BY <1>6, <2>2, <2>3 DEF Honest
  <1>7. QED
    BY <1>1, <1>2, <1>3, <1>4, <1>5, <1>6 DEF Commands

LEMMA BeginSole ==
    ASSUME OneUser, DriverInv, SoleInv, NEW c \in Caller, NEW s \in Session, Begin(c, s)
    PROVE  SoleInv'
  <1>1. /\ pc[c] = "idle" /\ <<c, s>> \in Uses /\ UNCHANGED <<sess, part, sealed, last>>
        /\ ret' = [ret EXCEPT ![c] = "none"] /\ part[c] = 1
    BY OfCall DEF Begin
  <1>2. PICK op \in Ops : \E r \in Requests(op, s) :
          call' = [call EXCEPT ![c] = r] /\ pc' = [pc EXCEPT ![c] = Entry(op)]
    BY DEF Begin
  <1>3. PICK r \in Requests(op, s) :
          call' = [call EXCEPT ![c] = r] /\ pc' = [pc EXCEPT ![c] = Entry(op)]
    BY <1>2
  <1>4. /\ r.op = op /\ r.s = s /\ r.iv = r.asked
        /\ op = "SET_IV" => r.ivBuf \in UserIVs[s]
        /\ op = "DECRYPT" => Honest(r.box) /\ r.iv = r.box.iv
    BY Asked DEF SoleInv, DriverInv, DriverTypeOK
  <1>5. KeyRests(sess[s], last[s]) /\ IvRests(sess[s], last[s])
    <2>1. Unused(s)
      <3>1. ASSUME NEW d \in Caller, pc[d] # "idle", call[d].s = s PROVE FALSE
        BY <1>1, <3>1 DEF SoleInv, InUse, OneUser
      <3>2. QED
        BY <3>1 DEF Unused
    <2>2. QED
      BY <2>1 DEF SoleInv, Rests
  <1>6. \/ op = "SET_KEY" /\ Entry(op) = "savekey"
        \/ op = "SET_IV" /\ Entry(op) = "saveiv"
        \/ op = "GET_IV" /\ Entry(op) = "getiv"
        \/ op = "MD5" /\ Entry(op) = "fetch"
        \/ op \in Crypts /\ Entry(op) = "check"
    BY UserAssumption DEF Commands, Crypts, Entry
  <1> DEFINE l == Entry(op)
  <1> HIDE DEF l
  <1>7. Keeps(l, 1, r, sess[s], last[s])
    BY <1>4, <1>5, <1>6
    DEF l, Crypts, Keeps, IvKeeps, KeyKeeps, BoxKeeps, Serves, Chosen, IvChosen, KeyChosen
  <1>8. l # "idle"
    BY <1>6 DEF l
  <1>9. /\ pc'[c] = l /\ call'[c] = r /\ part'[c] = 1
         /\ \A d \in Caller \ {c} : pc'[d] = pc[d] /\ call'[d] = call[d] /\ ret'[d] = ret[d]
    BY <1>1, <1>3 DEF l, DriverInv, DriverTypeOK
  <1>10. Frame(c, s)
    BY <1>1, <1>9 DEF Frame
  <1>11. DoneFits(c)' /\ SealedFits'
    BY <1>1, <1>8, <1>9, SealedStays DEF DoneFits, Done, SoleInv
  <1>12. QED
    BY <1>1, <1>4, <1>7, <1>8, <1>9, <1>10, <1>11, Composed

\* A file nobody is inside of is opened or released.
LEMMA ZeroedSole ==
    ASSUME DriverInv, SoleInv, NEW s \in Session, Unused(s),
           UNCHANGED <<pc, part, call, ret, sealed>>,
           sess' = [sess EXCEPT ![s] = Fresh], \A t \in Session \ {s} : last'[t] = last[t]
    PROVE  SoleInv'
  <1>1. /\ sess'[s] = Fresh /\ \A t \in Session \ {s} : sess'[t] = sess[t]
        /\ ~Fresh.keySet /\ ~Fresh.ivSet
    BY DEF DriverInv, DriverTypeOK, Fresh
  <1>2. ASSUME NEW c \in Caller PROVE InUse(c)' /\ DoneFits(c)'
    <2>1. DoneFits(c)'
      BY DEF DoneFits, Done, SoleInv
    <2>2. CASE pc[c] = "idle"
      BY <2>1, <2>2 DEF InUse
    <2>3. CASE pc[c] # "idle"
      <3>1. call[c].s \in Session \ {s}
        BY <2>3, OfCall DEF Unused
      <3>2. sess'[call[c].s] = sess[call[c].s] /\ last'[call[c].s] = last[call[c].s]
        BY <1>1, <3>1
      <3>3. QED
        BY <2>1, <3>2 DEF InUse, SoleInv
    <2>4. QED
      BY <2>2, <2>3
  <1>3. ASSUME NEW t \in Session PROVE Rests(t)'
    <2>1. CASE t = s
      BY <1>1, <2>1 DEF Rests, KeyRests, IvRests
    <2>2. CASE t # s
      BY <1>1, <2>2 DEF SoleInv, Rests, Unused
    <2>3. QED
      BY <2>1, <2>2
  <1>4. QED
    BY <1>2, <1>3, SealedStays DEF SoleInv

LEMMA FilesSole ==
    ASSUME DriverInv, SoleInv, NEW s \in Session, Open(s) \/ Close(s) \/ Release(s)
    PROVE  SoleInv'
  <1>1. CASE Open(s)
    <2>1. Unused(s)
      BY <1>1, OfCall DEF Open, PlaceFits, Unused
    <2>2. \A t \in Session \ {s} : last'[t] = last[t]
      BY <1>1 DEF Open, DriverInv, DriverTypeOK
    <2>3. QED
      BY <1>1, <2>1, <2>2, ZeroedSole DEF Open, InitSession
  <1>2. CASE Close(s)
    BY <1>2, SealedStays DEF Close, SoleInv, InUse, DoneFits, Done, Rests, Unused
  <1>3. CASE Release(s)
    BY <1>3, ZeroedSole DEF Release, Unused
  <1>4. QED
    BY <1>1, <1>2, <1>3

-----------------------------------------------------------------------------
(* The theorems.                                                            *)

LEMMA IoctlSole ==
    ASSUME OneUser, DriverInv, SoleInv, NEW c \in Caller, Ioctl(c) PROVE SoleInv'
  <1>1. CASE SaveKey(c) \/ SaveIv(c) \/ FlagKey(c) \/ FlagIv(c) \/ FlagEarly(c)
    BY <1>1, SaveKeySole, SaveIvSole, FlagKeySole, FlagIvSole, FlagEarlySole
  <1>2. CASE GetIv(c) \/ ShowIv(c) \/ ReadOnce(c)
    BY <1>2, GetIvSole, ShowIvSole, ReadOnceSole
  <1>3. CASE CheckKey(c) \/ Fetch(c) \/ PickIv(c) \/ BufIv(c) \/ PickKey(c) \/ BufKey(c)
    BY <1>3, CheckKeySole, FetchSole, PickIvSole, BufIvSole, PickKeySole, BufKeySole
  <1>4. CASE \E what \in DOMAIN After : Acquire(c, what)
    BY <1>4, AcquireSole
  <1>5. CASE SetTfmKey(c) \/ StepFails(c) \/ Run(c) \/ Digest(c) \/ CopyOut(c)
    BY <1>5, SetTfmKeySole, StepFailsSole, RunSole, DigestSole, CopyOutSole
  <1>6. CASE SaveFaults(c) \/ ShowFaults(c)
    BY <1>6, SaveFaultsSole, ShowFaultsSole
  <1>7. QED
    BY <1>1, <1>2, <1>3, <1>4, <1>5, <1>6 DEF Ioctl

LEMMA SoleStep == OneUser /\ DriverInv /\ SoleInv /\ [Next]_vars => SoleInv'
  <1> SUFFICES ASSUME OneUser, DriverInv, SoleInv, [Next]_vars PROVE SoleInv'
    OBVIOUS
  <1>1. ASSUME NEW s \in Session, Open(s) \/ Close(s) \/ Release(s) PROVE SoleInv'
    BY <1>1, FilesSole
  <1>2. ASSUME NEW c \in Caller, NEW s \in Session, Begin(c, s) PROVE SoleInv'
    BY <1>2, BeginSole
  <1>3. CASE UNCHANGED vars
    BY <1>3, SealedStays DEF vars, SoleInv, InUse, DoneFits, Done, Rests, Unused
  <1>4. QED
    BY <1>1, <1>2, <1>3, IoctlSole DEF Next

LEMMA SoleInvariant == ASSUME OneUser PROVE Spec => []SoleInv
  <1>1. DriverInv /\ SoleInv /\ [Next]_vars => SoleInv'
    BY SoleStep
  <1>2. QED
    BY <1>1, SoleInit, DriverInvariant, PTL DEF Spec

\* A request without a key or an IV of its own is served with those the
\* session was last given, if every file has one user.
THEOREM SessionCorrect == ASSUME OneUser PROVE Spec => []SessionPersists
  <1>1. DriverInv /\ SoleInv => SessionPersists
    <2> SUFFICES ASSUME DriverInv, SoleInv, NEW c \in Caller, pc[c] = "run"
                 PROVE  /\ ~Supplied(call[c].key) => call[c].keyBuf = last[call[c].s].key
                        /\ ~Supplied(call[c].asked) => call[c].ivBuf = last[call[c].s].iv
      BY DEF SessionPersists
    <2>1. Keeps("run", part[c], call[c], sess[call[c].s], last[call[c].s])
      BY Current
    <2>2. QED
      BY <2>1 DEF Keeps, IvKeeps, KeyKeeps, IvChosen, KeyChosen
  <1>2. QED
    BY <1>1, DriverInvariant, SoleInvariant, PTL

\* With the right key, an IV that an encryption returned and that does not
\* look like none opens what it encrypted, if every file has one user.
THEOREM ReturnedIvCorrect == ASSUME OneUser PROVE Spec => []ReturnedIvDecrypts
  <1>1. SoleInv => ReturnedIvDecrypts
    BY DEF SoleInv, DoneFits, ReturnedIvDecrypts
  <1>2. QED
    BY <1>1, SoleInvariant, PTL

-----------------------------------------------------------------------------
(* The refinement: what a step of a call does to the request, the answer,   *)
(* and the key and the IV of its file.                                      *)

LEMMA DrawFrame ==
    ASSUME DriverInv, NEW c \in Caller, Draw(c)
    PROVE  /\ \E v : \E b \in RandomBlocks : call'[c] = [call[c] EXCEPT !.ivBuf = b, !.iv = v]
           /\ call'[c].s = call[c].s /\ \A d \in Caller \ {c} : call'[d] = call[d]
  <1>1. call \in [Caller -> Call] /\ call[c] \in Call
    BY DEF DriverInv, DriverTypeOK
  <1>2. PICK b \in RandomBlocks : call' = [call EXCEPT ![c].ivBuf = b,
                                ![c].iv = IF call[c].op = "ENCRYPT" THEN b ELSE @]
    BY DEF Draw
  <1> DEFINE v == IF call[c].op = "ENCRYPT" THEN b ELSE call[c].iv
             r == [call[c] EXCEPT !.ivBuf = b, !.iv = v]
  <1>3. call'[c] = r /\ \A d \in Caller \ {c} : call'[d] = call[d]
    BY <1>1, <1>2
  <1>4. r.s = call[c].s
    BY <1>1 DEF Call
  <1> HIDE DEF v
  <1>5. QED
    BY <1>3, <1>4

LEMMA IoctlFrame ==
    ASSUME DriverInv, NEW c \in Caller, Ioctl(c)
    PROVE  /\ Frame(c, call[c].s) /\ file' = file /\ pc[c] # "idle" /\ call'[c].s = call[c].s
  <1> DEFINE k == call[c]
             s == k.s
  <1>1. /\ s \in Session /\ k \in Call /\ call \in [Caller -> Call] /\ pc \in [Caller -> Pc]
        /\ part \in [Caller -> Part] /\ ret \in [Caller -> Ret]
        /\ sess \in [Session -> CryptoSession]
        /\ last \in [Session -> [key : Block, iv : Block]] /\ k.op \in OpsAt(pc[c])
    BY OfCall DEF DriverInv, DriverTypeOK
  <1> HIDE DEF s
  <1>2. CASE SaveKey(c)
    BY <1>1, <1>2 DEF SaveKey, Advance, Frame, At, Goto, outside, s
  <1>3. CASE SaveIv(c)
    BY <1>1, <1>3 DEF SaveIv, Advance, Frame, At, Goto, outside, s
  <1>4. CASE FlagEarly(c)
    BY <1>1, <1>4 DEF FlagEarly, Frame, At, Goto, outside, s
  <1>5. CASE SaveFaults(c)
    BY <1>1, <1>5 DEF SaveFaults, Return, Frame, At, Goto, outside, s
  <1>6. CASE FlagKey(c)
    BY <1>1, <1>6 DEF FlagKey, Return, Frame, At, Goto, outside, s
  <1>7. CASE FlagIv(c)
    BY <1>1, <1>7 DEF FlagIv, Return, Frame, At, Goto, outside, s, OpsAt
  <1>8. CASE GetIv(c)
    <2>1. call'[c].s = k.s /\ \A d \in Caller \ {c} : call'[d] = call[d]
      BY <1>1, <1>8, DrawFrame DEF GetIv
    <2>2. QED
      BY <1>1, <1>8, <2>1 DEF GetIv, Frame, At, Goto, s
  <1>9. CASE ShowIv(c)
    BY <1>1, <1>9 DEF ShowIv, Advance, Return, Frame, At, Goto, outside, s
  <1>10. CASE ShowFaults(c)
    BY <1>1, <1>10 DEF ShowFaults, Return, Frame, At, Goto, outside, s
  <1>11. CASE CheckKey(c)
    BY <1>1, <1>11 DEF CheckKey, Return, Frame, At, Goto, outside, s
  <1>12. CASE Fetch(c)
    BY <1>1, <1>12 DEF Fetch, Return, Frame, At, Goto, outside, s
  <1>13. CASE PickIv(c)
    <2>1. call'[c].s = k.s /\ \A d \in Caller \ {c} : call'[d] = call[d]
      BY <1>1, <1>13, DrawFrame DEF PickIv, Call
    <2>2. QED
      BY <1>1, <1>13, <2>1 DEF PickIv, Return, Frame, At, Goto, s
  <1>14. CASE BufIv(c)
    BY <1>1, <1>14 DEF BufIv, Advance, Frame, At, Goto, outside, s
  <1>15. CASE ReadOnce(c)
    BY <1>1, <1>15 DEF ReadOnce, Frame, At, Goto, outside, s
  <1>16. CASE PickKey(c)
    <2>1. call'[c].s = k.s /\ \A d \in Caller \ {c} : call'[d] = call[d]
      BY <1>1, <1>16 DEF PickKey, Call
    <2>2. QED
      BY <1>1, <1>16, <2>1 DEF PickKey, Frame, At, Goto, outside, s
  <1>17. CASE BufKey(c)
    BY <1>1, <1>17 DEF BufKey, Advance, Frame, At, Goto, outside, s
  <1>18. CASE SetTfmKey(c)
    BY <1>1, <1>18 DEF SetTfmKey, Frame, At, Goto, outside, s
  <1>19. CASE StepFails(c)
    BY <1>1, <1>19 DEF StepFails, Steps, Return, Frame, At, Goto, outside, s
  <1>20. CASE Run(c)
    BY <1>1, <1>20 DEF Run, Frame, At, Goto, outside, s
  <1>21. CASE Digest(c)
    BY <1>1, <1>21 DEF Digest, Frame, At, Goto, outside, s
  <1>22. CASE CopyOut(c)
    BY <1>1, <1>22 DEF CopyOut, Return, Frame, At, Goto, outside, s
  <1>23. CASE \E what \in DOMAIN After : Acquire(c, what)
    BY <1>1, <1>23 DEF Acquire, After, Frame, At, Goto, outside, s
  <1>24. QED
    BY <1>2, <1>3, <1>4, <1>5, <1>6, <1>7, <1>8, <1>9, <1>10, <1>11, <1>12,
        <1>13, <1>14, <1>15, <1>16, <1>17, <1>18, <1>19, <1>20, <1>21, <1>22, <1>23
        DEF Ioctl

\* What a file and a call are to the service.
KeyAt(m, l)      == IF m.keySet THEN {l.key} ELSE {}
IsDrawing(p, k)      == p \in {"saveiv", "flagiv"} /\ k.op = "ENCRYPT"
IvAt(p, k, m, l) == IF m.ivSet /\ ~IsDrawing(p, k) THEN {l.iv} ELSE {}

LEMMA DrawingNow ==
    ASSUME OneUser, SoleInv, NEW c \in Caller, NEW s \in Session, <<c, s>> \in Uses,
           pc[c] # "idle" => call[c].s = s
    PROVE  Drawing(s) <=> IsDrawing(pc[c], call[c])
  <1>1. ASSUME NEW d \in Caller, pc[d] # "idle", call[d].s = s PROVE d = c
    BY <1>1 DEF SoleInv, InUse, OneUser
  <1>2. QED
    BY <1>1 DEF Drawing, IsDrawing

LEMMA DrawingNext ==
    ASSUME OneUser, SoleInv', NEW c \in Caller, NEW s \in Session, <<c, s>> \in Uses,
           call'[c].s = s
    PROVE  Drawing(s)' <=> IsDrawing(pc'[c], call'[c])
  <1>1. ASSUME NEW d \in Caller, pc'[d] # "idle", call'[d].s = s PROVE d = c
    BY <1>1 DEF SoleInv, InUse, OneUser
  <1>2. QED
    BY <1>1 DEF Drawing, IsDrawing

LEMMA Maps ==
    ASSUME OneUser, SoleInv, SoleInv', NEW c \in Caller, NEW s \in Session, Frame(c, s),
           <<c, s>> \in Uses, call'[c].s = s, pc[c] # "idle" => call[c].s = s
    PROVE  /\ FileKey[s] = KeyAt(sess[s], last[s])
           /\ FileKey' = [FileKey EXCEPT ![s] = KeyAt(sess'[s], last'[s])]
           /\ FileIv[s] = IvAt(pc[c], call[c], sess[s], last[s])
           /\ FileIv' = [FileIv EXCEPT ![s] = IvAt(pc'[c], call'[c], sess'[s], last'[s])]
  <1>1. FileKey[s] = KeyAt(sess[s], last[s])
    BY DEF FileKey, KeyAt
  <1>2. FileKey' = [FileKey EXCEPT ![s] = KeyAt(sess'[s], last'[s])]
    BY DEF FileKey, KeyAt, Frame
  <1>3. FileIv[s] = IvAt(pc[c], call[c], sess[s], last[s])
    BY DrawingNow DEF FileIv, IvAt
  <1>4. \A t \in Session \ {s} : Drawing(t)' <=> Drawing(t)
    <2> SUFFICES ASSUME NEW t \in Session \ {s} PROVE Drawing(t)' <=> Drawing(t)
      OBVIOUS
    <2>1. ASSUME NEW d \in Caller
          PROVE  /\ pc[d] # "idle" /\ call[d].s = t => d # c
                 /\ pc'[d] # "idle" /\ call'[d].s = t => d # c
      OBVIOUS
    <2>2. QED
      BY <2>1 DEF Drawing, Frame
  <1>5. ASSUME NEW t \in Session
        PROVE  FileIv'[t] = IF t = s THEN IvAt(pc'[c], call'[c], sess'[s], last'[s])
                                     ELSE FileIv[t]
    <2>1. CASE t = s
      BY <2>1, DrawingNext DEF FileIv, IvAt
    <2>2. CASE t # s
      BY <1>4, <2>2 DEF FileIv, Frame
    <2>3. QED
      BY <2>1, <2>2
  <1>6. FileIv' = [FileIv EXCEPT ![s] = IvAt(pc'[c], call'[c], sess'[s], last'[s])]
    BY <1>5 DEF FileIv
  <1>7. QED
    BY <1>1, <1>2, <1>3, <1>6

\* The service counts in the driver's blocks.
LEMMA SameBlocks ==
    /\ Service!Part = Part /\ Service!Block = Block /\ Service!Blank = Blank
    /\ Service!NoBox = NoBox /\ Service!Box = Box /\ Service!Lens = Lens
    /\ Service!Commands = Commands /\ Service!Crypts = Crypts /\ Service!Garbled = Garbled
    /\ \A b : Service!Supplied(b) <=> Supplied(b)
    /\ \A b, key, iv : Service!Opened(b, key, iv) = Opened(b, key, iv)
    /\ \A b, n : Service!Torn(b, n) = Torn(b, n)
  BY DEF Service!Part, Part, Service!Block, Block, Service!Blank, Blank, Service!NoBox, NoBox,
         Service!Box, Box, Service!Lens, Lens, Service!Commands, Commands, Service!Crypts, Crypts,
         Service!Garbled, Garbled, Service!Supplied, Supplied, Service!Opened, Opened,
         Service!Torn, Torn

LEMMA NoAnswer == ASSUME NEW k PROVE AnswerOf("none", k) = Service!Nothing
  BY SameBlocks DEF AnswerOf, Service!Nothing

\* What a step of a call is to the service.
LEMMA Fates ==
    ASSUME DriverInv, NEW c \in Caller, Frame(c, call[c].s), pc[c] # "idle"
    PROVE  /\ Pending[c] = RequestOf(call[c]) /\ Replies[c] = Service!Nothing
           /\ pc'[c] # "idle" /\ RequestOf(call'[c]) = RequestOf(call[c]) =>
                 UNCHANGED <<Pending, Replies>>
           /\ pc'[c] = "idle" /\ file' = file => Service!Answer(c, AnswerOf(ret'[c], call'[c]))
  <1>1. Pending[c] = RequestOf(call[c]) /\ Replies[c] = Service!Nothing
    BY NoAnswer DEF Pending, Replies
  <1>2. CASE pc'[c] # "idle" /\ RequestOf(call'[c]) = RequestOf(call[c])
    <2>1. AnswerOf("none", call'[c]) = AnswerOf("none", call[c])
      BY NoAnswer
    <2>2. UNCHANGED <<Pending, Replies>>
      BY <1>2, <2>1 DEF Pending, Replies, Frame
    <2>3. QED
      BY <1>1, <1>2, <2>2
  <1>3. CASE pc'[c] = "idle"
    <2>1. Pending' = [Pending EXCEPT ![c] = Service!Idle]
      BY <1>3 DEF Pending, Frame, Service!Idle
    <2>2. Replies' = [Replies EXCEPT ![c] = AnswerOf(ret'[c], call'[c])]
      BY <1>3 DEF Replies, Frame
    <2>3. QED
      BY <1>1, <1>3, <2>1, <2>2 DEF Service!Answer
  <1>4. QED
    BY <1>1, <1>2, <1>3

\* All that the lemmas above say of a step of a call, k on session m.
LEMMA Mapped ==
    ASSUME OneUser, DriverInv, SoleInv, SoleInv', NEW c \in Caller, Ioctl(c)
    PROVE  LET k == call[c]
               s == k.s
           IN  /\ k \in Call /\ s \in Session /\ sess[s] \in CryptoSession /\ k.op \in OpsAt(pc[c])
               /\ Keeps(pc[c], part[c], k, sess[s], last[s]) /\ pc[c] # "idle" /\ file' = file
               /\ FileKey[s] = KeyAt(sess[s], last[s])
               /\ FileKey' = [FileKey EXCEPT ![s] = KeyAt(sess'[s], last'[s])]
               /\ FileIv[s] = IvAt(pc[c], k, sess[s], last[s])
               /\ FileIv' = [FileIv EXCEPT ![s] = IvAt(pc'[c], call'[c], sess'[s], last'[s])]
               /\ Pending[c] = RequestOf(k)
               /\ pc'[c] # "idle" /\ RequestOf(call'[c]) = RequestOf(k) =>
                     UNCHANGED <<Pending, Replies>>
               /\ pc'[c] = "idle" => Service!Answer(c, AnswerOf(ret'[c], call'[c]))
  <1>1. /\ Frame(c, call[c].s) /\ file' = file /\ pc[c] # "idle" /\ call'[c].s = call[c].s
    BY IoctlFrame
  <1>2. /\ call[c] \in Call /\ call[c].s \in Session /\ sess[call[c].s] \in CryptoSession
        /\ <<c, call[c].s>> \in Uses /\ call[c].op \in OpsAt(pc[c])
        /\ Keeps(pc[c], part[c], call[c], sess[call[c].s], last[call[c].s])
    BY <1>1, Current
  <1> DEFINE s == call[c].s
  <1>3. /\ FileKey[s] = KeyAt(sess[s], last[s])
        /\ FileKey' = [FileKey EXCEPT ![s] = KeyAt(sess'[s], last'[s])]
        /\ FileIv[s] = IvAt(pc[c], call[c], sess[s], last[s])
        /\ FileIv' = [FileIv EXCEPT ![s] = IvAt(pc'[c], call'[c], sess'[s], last'[s])]
    BY <1>1, <1>2, Maps
  <1>4. QED
    BY <1>1, <1>2, <1>3, Fates

LEMMA SameFiles ==
    ASSUME OneUser, DriverInv, SoleInv, SoleInv', NEW c \in Caller, Ioctl(c),
           LET s == call[c].s
           IN  /\ KeyAt(sess'[s], last'[s]) = KeyAt(sess[s], last[s])
               /\ IvAt(pc'[c], call'[c], sess'[s], last'[s])
                    = IvAt(pc[c], call[c], sess[s], last[s])
    PROVE  FileKey' = FileKey /\ FileIv' = FileIv
  <1>1. FileKey = [s \in Session |-> FileKey[s]] /\ FileIv = [s \in Session |-> FileIv[s]]
    BY DEF FileKey, FileIv
  <1>2. /\ FileKey' = [FileKey EXCEPT ![call[c].s] = FileKey[call[c].s]]
        /\ FileIv' = [FileIv EXCEPT ![call[c].s] = FileIv[call[c].s]]
    BY Mapped
  <1>3. QED
    BY <1>1, <1>2

\* A step that the service does not see.
Hidden == UNCHANGED Service!service

LEMMA Silent ==
    ASSUME OneUser, DriverInv, SoleInv, SoleInv', NEW c \in Caller, Ioctl(c), pc'[c] # "idle",
           sealed' = sealed, RequestOf(call'[c]) = RequestOf(call[c]),
           LET s == call[c].s
           IN  /\ KeyAt(sess'[s], last'[s]) = KeyAt(sess[s], last[s])
               /\ IvAt(pc'[c], call'[c], sess'[s], last'[s])
                    = IvAt(pc[c], call[c], sess[s], last[s])
    PROVE  Hidden
  <1>1. file' = file /\ UNCHANGED <<Pending, Replies>>
    BY Mapped
  <1>2. FileKey' = FileKey /\ FileIv' = FileIv
    BY SameFiles
  <1>3. QED
    BY <1>1, <1>2 DEF Hidden, Service!service

\* A step that goes on with the session as it is.
LEMMA Onward ==
    ASSUME OneUser, DriverInv, SoleInv, SoleInv', NEW c \in Caller, Ioctl(c), pc'[c] # "idle",
           UNCHANGED <<sess, last, sealed>>, RequestOf(call'[c]) = RequestOf(call[c]),
           \/ ~IsDrawing(pc[c], call[c]) /\ ~IsDrawing(pc'[c], call'[c])
           \/ ~sess[call[c].s].ivSet
    PROVE  Hidden
  <1>1. IvAt(pc'[c], call'[c], sess'[call[c].s], last'[call[c].s])
            = IvAt(pc[c], call[c], sess[call[c].s], last[call[c].s])
    BY DEF IvAt
  <1>2. QED
    BY <1>1, Silent

\* A step that ends a call with the session as it is.
LEMMA Ended ==
    ASSUME OneUser, DriverInv, SoleInv, SoleInv', NEW c \in Caller, Ioctl(c),
           NEW r \in Ret, Return(c, r), UNCHANGED <<sess, last>>, ~IsDrawing(pc[c], call[c])
    PROVE  /\ UNCHANGED <<FileKey, FileIv>> /\ Service!Answer(c, AnswerOf(r, call'[c]))
  <1>1. pc'[c] = "idle" /\ ret'[c] = r
    BY DEF Return, DriverInv, DriverTypeOK
  <1>2. IvAt(pc'[c], call'[c], sess'[call[c].s], last'[call[c].s])
            = IvAt(pc[c], call[c], sess[call[c].s], last[call[c].s])
    BY <1>1 DEF IvAt, IsDrawing
  <1>3. QED
    BY <1>1, <1>2, Mapped, SameFiles

LEMMA RequestFields ==
    ASSUME NEW k
    PROVE  /\ RequestOf(k).op = k.op /\ RequestOf(k).file = k.s /\ RequestOf(k).key = k.key
           /\ k.op = "SET_IV" => RequestOf(k).iv = k.ivBuf
           /\ k.op \in Crypts => RequestOf(k).iv = k.asked
           /\ k.op = "ENCRYPT" => RequestOf(k).text = k.text
           /\ k.op = "DECRYPT" => RequestOf(k).box = k.box
  BY DEF RequestOf, Crypts

LEMMA ErrorAnswer ==
    ASSUME NEW k, NEW r, r # "OK"
    PROVE  AnswerOf(r, k) = [Service!Nothing EXCEPT !.ret = r]
  BY SameBlocks DEF AnswerOf, Service!Nothing

LEMMA OkAnswers ==
    ASSUME NEW k
    PROVE  /\ k.op = "GET_IV" => AnswerOf("OK", k) = [Service!Ok EXCEPT !.iv = k.iv]
           /\ k.op = "ENCRYPT" => AnswerOf("OK", k) = [Service!Ok EXCEPT !.box = k.box]
           /\ k.op = "DECRYPT" => AnswerOf("OK", k) = [Service!Ok EXCEPT !.text = k.text]
           /\ k.op \in {"SET_KEY", "SET_IV", "MD5"} => AnswerOf("OK", k) = Service!Ok
  <1>1. Service!Ok = [ret |-> "OK", iv |-> Blank, text |-> 0, box |-> NoBox]
    BY SameBlocks DEF Service!Ok, Service!Nothing
  <1> DEFINE Of(op, x, y) == IF k.op = op THEN x ELSE y
  <1>2. AnswerOf("OK", k) = [ret |-> "OK", iv |-> Of("GET_IV", k.iv, Blank),
                             text |-> Of("DECRYPT", k.text, 0), box |-> Of("ENCRYPT", k.box, NoBox)]
    BY DEF AnswerOf
  <1>3. QED
    BY <1>1, <1>2

LEMMA GoesOn ==
    ASSUME OneUser, DriverInv, SoleInv, SoleInv', NEW c \in Caller, Ioctl(c),
           NEW p \in Pc \ {"idle", "saveiv", "flagiv"}, Goto(c, p),
           UNCHANGED <<sess, last, call, sealed>>, pc[c] \notin {"saveiv", "flagiv"}
    PROVE  Hidden
  <1>1. pc'[c] = p
    BY DEF Goto, DriverInv, DriverTypeOK
  <1>2. QED
    BY <1>1, Onward DEF IsDrawing

\* EFAULT, ENOMEM or the crypto API's error, once there is a key.
LEMMA Failed ==
    ASSUME OneUser, DriverInv, SoleInv, SoleInv', NEW c \in Caller, Ioctl(c),
           NEW fault \in Faults, NEW r \in Ret, r # "OK", fault \in DOMAIN Service!Error,
           r = Service!Error[fault], Return(c, r), UNCHANGED <<sess, last, call, sealed>>,
           pc[c] \notin {"idle", "check", "saveiv", "flagiv"},
           call[c].op \in Crypts \cup {"MD5"}
    PROVE  Service!Fail(c, fault)
  <1>1. /\ UNCHANGED <<FileKey, FileIv>> /\ Service!Answer(c, AnswerOf(r, call'[c]))
    BY Ended DEF IsDrawing
  <1>2. AnswerOf(r, call'[c]) = [Service!Nothing EXCEPT !.ret = Service!Error[fault]]
    BY ErrorAnswer
  <1>3. call[c].op \in Crypts => FileKey[call[c].s] # {}
    <2>1. call[c].op \in Crypts => sess[call[c].s].keySet
      BY OfCall
    <2>2. FileKey[call[c].s] = KeyAt(sess[call[c].s], last[call[c].s])
      BY Mapped
    <2>3. QED
      BY <2>1, <2>2 DEF KeyAt
  <1>4. Pending[c].op = call[c].op /\ Pending[c].file = call[c].s
    BY Mapped, RequestFields
  <1>5. Service!Waits(c, {"MD5"}) \/
        (Service!Waits(c, Service!Crypts) /\ FileKey[Pending[c].file] # {})
    BY <1>3, <1>4, SameBlocks DEF Service!Waits
  <1>6. QED
    BY <1>1, <1>2, <1>5 DEF Service!Fail

\* EINVAL: there is no key, or no IV to decrypt with.
LEMMA Refused ==
    ASSUME OneUser, DriverInv, SoleInv, SoleInv', NEW c \in Caller, Ioctl(c),
           Return(c, "EINVAL"), UNCHANGED <<sess, last, call, sealed>>,
           pc[c] \in {"check", "pickiv"}, call[c].op \in Crypts,
           \/ ~sess[call[c].s].keySet
           \/ call[c].op = "DECRYPT" /\ ~Supplied(call[c].asked) /\ ~sess[call[c].s].ivSet
    PROVE  Service!Refuse(c)
  <1>1. UNCHANGED <<FileKey, FileIv>> /\ Service!Answer(c, AnswerOf("EINVAL", call'[c]))
    BY Ended DEF IsDrawing, Ret
  <1>2. AnswerOf("EINVAL", call'[c]) = [Service!Nothing EXCEPT !.ret = "EINVAL"]
    BY ErrorAnswer
  <1>3. /\ ~sess[call[c].s].keySet => FileKey[call[c].s] = {}
        /\ ~sess[call[c].s].ivSet => FileIv[call[c].s] = {}
    BY Mapped DEF KeyAt, IvAt
  <1>4. Pending[c].op = call[c].op /\ Pending[c].file = call[c].s /\ Pending[c].iv = call[c].asked
    BY Mapped, RequestFields
  <1>5. ~Supplied(call[c].asked) /\ ~sess[call[c].s].ivSet => Service!IVs(c) = {}
    BY <1>3, <1>4, SameBlocks DEF Service!IVs, Service!Choice
  <1>6. Service!Waits(c, Service!Crypts)
    BY <1>4, SameBlocks DEF Service!Waits
  <1>7. QED
    BY <1>1, <1>2, <1>3, <1>4, <1>5, <1>6 DEF Service!Refuse

LEMMA CheckKeyServed ==
    ASSUME OneUser, DriverInv, SoleInv, SoleInv', NEW c \in Caller, Ioctl(c), CheckKey(c)
    PROVE  Service!Refuse(c) \/ Hidden
  <1>1. pc[c] = "check" /\ UNCHANGED <<sess, last, call, sealed>> /\ call[c].op \in Crypts
    BY Mapped DEF CheckKey, At, outside, OpsAt
  <1>2. CASE sess[call[c].s].keySet
    BY <1>1, <1>2, GoesOn DEF CheckKey, S, Pc
  <1>3. CASE ~sess[call[c].s].keySet
    BY <1>1, <1>3, Refused DEF CheckKey, S
  <1>4. QED
    BY <1>2, <1>3

LEMMA FetchServed ==
    ASSUME OneUser, DriverInv, SoleInv, SoleInv', NEW c \in Caller, Ioctl(c), Fetch(c)
    PROVE  (\E fault \in DOMAIN Service!Error : Service!Fail(c, fault)) \/ Hidden
  <1>1. /\ pc[c] = "fetch" /\ UNCHANGED <<sess, last, call, sealed>>
        /\ call[c].op \in Crypts \cup {"MD5"}
    BY Mapped DEF Fetch, At, outside, OpsAt, Crypts
  <1>2. CASE Goto(c, IF call[c].op = "MD5" THEN "shash" ELSE "pickiv")
    BY <1>1, <1>2, GoesOn DEF Pc
  <1>3. CASE "memory" \in Faults /\ Return(c, "ENOMEM")
    BY <1>1, <1>3, Failed DEF Service!Error, Ret
  <1>4. CASE "copy" \in Faults /\ Return(c, "EFAULT")
    BY <1>1, <1>4, Failed DEF Service!Error, Ret
  <1>5. QED
    BY <1>2, <1>3, <1>4 DEF Fetch

LEMMA StepFailsServed ==
    ASSUME OneUser, DriverInv, SoleInv, SoleInv', NEW c \in Caller, Ioctl(c), StepFails(c)
    PROVE  \E fault \in DOMAIN Service!Error : Service!Fail(c, fault)
  <1>1. pc[c] \in Steps /\ UNCHANGED <<sess, last, call, sealed>> /\ call[c].op \in OpsAt(pc[c])
    BY Mapped DEF StepFails, outside
  <1>2. pc[c] \notin {"idle", "check", "saveiv", "flagiv"} /\ call[c].op \in Crypts \cup {"MD5"}
    BY <1>1 DEF Steps, OpsAt, Crypts
  <1>3. CASE "memory" \in Faults /\ Return(c, "ENOMEM")
    BY <1>1, <1>2, <1>3, Failed DEF Service!Error, Ret
  <1>4. CASE "crypto" \in Faults /\ Return(c, "ECRYPTO")
    BY <1>1, <1>2, <1>4, Failed DEF Service!Error, Ret
  <1>5. QED
    BY <1>3, <1>4 DEF StepFails

LEMMA StepsHidden ==
    ASSUME OneUser, DriverInv, SoleInv, SoleInv', NEW c \in Caller, Ioctl(c),
           SetTfmKey(c) \/ Digest(c) \/ \E what \in DOMAIN After : Acquire(c, what)
    PROVE  Hidden
  <1>1. /\ UNCHANGED <<sess, last, call, sealed>> /\ pc[c] \notin {"saveiv", "flagiv"}
        /\ \E p \in {"iv_copy", "copyout", "req", "setkey", "run", "desc", "digest"} : Goto(c, p)
    <2>1. CASE SetTfmKey(c)
      BY <2>1 DEF SetTfmKey, At, outside
    <2>2. CASE Digest(c)
      BY <2>2 DEF Digest, At, outside
    <2>3. CASE \E what \in DOMAIN After : Acquire(c, what)
      BY <2>3 DEF Acquire, At, outside, After
    <2>4. QED
      BY <2>1, <2>2, <2>3
  <1>2. QED
    BY <1>1, GoesOn DEF Pc

\* A step that fills in what the request does not tell.
LEMMA FillsHidden ==
    ASSUME OneUser, DriverInv, SoleInv, SoleInv', NEW c \in Caller, Ioctl(c), pc'[c] # "idle",
           UNCHANGED <<sess, last, sealed>>,
           LET k == call[c]
               r == call'[c]
           IN  /\ r.op = k.op /\ r.s = k.s /\ r.key = k.key /\ r.asked = k.asked
               /\ k.op = "SET_IV" => r.ivBuf = k.ivBuf
               /\ k.op = "ENCRYPT" => r.text = k.text
               /\ k.op = "DECRYPT" => r.box = k.box,
           \/ ~IsDrawing(pc[c], call[c]) /\ ~IsDrawing(pc'[c], call'[c])
           \/ ~sess[call[c].s].ivSet
    PROVE  Hidden
  <1>1. RequestOf(call'[c]) = RequestOf(call[c])
    BY DEF RequestOf
  <1>2. QED
    BY <1>1, Onward

\* Where an Advance leads.
LEMMA Arrives ==
    ASSUME DriverInv, NEW c \in Caller, NEW label, Advance(c, label)
    PROVE  pc'[c] = pc[c] \/ pc'[c] = label
  BY DEF Advance, Goto, DriverInv, DriverTypeOK

LEMMA BufIvHidden ==
    ASSUME OneUser, DriverInv, SoleInv, SoleInv', NEW c \in Caller, Ioctl(c), BufIv(c)
    PROVE  Hidden
  <1>1. /\ call[c] \in Call /\ pc[c] = "bufiv" /\ UNCHANGED <<sess, last, sealed>>
        /\ call[c].op \in Crypts
    BY Mapped DEF BufIv, At, outside, OpsAt
  <1>2. call'[c] = [call[c] EXCEPT !.ivBuf = [@ EXCEPT ![part[c]] = S(c).iv[part[c]]]]
    BY DEF BufIv, DriverInv, DriverTypeOK
  <1>3. pc'[c] \in {"bufiv", "showiv", "pickkey"}
    BY <1>1, Arrives DEF BufIv
  <1>4. QED
    BY <1>1, <1>2, <1>3, FillsHidden DEF Call, Crypts, IsDrawing

LEMMA ReadOnceHidden ==
    ASSUME OneUser, DriverInv, SoleInv, SoleInv', NEW c \in Caller, Ioctl(c), ReadOnce(c)
    PROVE  Hidden
  <1>1. /\ call[c] \in Call /\ pc[c] = "showiv" /\ UNCHANGED <<sess, last, sealed>>
        /\ pc'[c] = "pickkey" /\ call'[c] = [call[c] EXCEPT !.iv = call[c].ivBuf]
    BY Mapped DEF ReadOnce, At, outside, Goto, DriverInv, DriverTypeOK
  <1>2. QED
    BY <1>1, FillsHidden DEF Call, IsDrawing

LEMMA PickKeyHidden ==
    ASSUME OneUser, DriverInv, SoleInv, SoleInv', NEW c \in Caller, Ioctl(c), PickKey(c)
    PROVE  Hidden
  <1>1. /\ call[c] \in Call /\ pc[c] = "pickkey" /\ UNCHANGED <<sess, last, sealed>>
        /\ pc'[c] \in {"tfm", "bufkey"} /\ call \in [Caller -> Call]
    BY Mapped DEF PickKey, At, outside, Goto, DriverInv, DriverTypeOK
  <1>2. call'[c] = call[c] \/ call'[c] = [call[c] EXCEPT !.keyBuf = call[c].key]
    BY <1>1 DEF PickKey
  <1>3. QED
    BY <1>1, <1>2, FillsHidden DEF Call, IsDrawing

LEMMA BufKeyHidden ==
    ASSUME OneUser, DriverInv, SoleInv, SoleInv', NEW c \in Caller, Ioctl(c), BufKey(c)
    PROVE  Hidden
  <1>1. call[c] \in Call /\ pc[c] = "bufkey" /\ UNCHANGED <<sess, last, sealed>>
    BY Mapped DEF BufKey, At, outside
  <1>2. call'[c] = [call[c] EXCEPT !.keyBuf = [@ EXCEPT ![part[c]] = S(c).key[part[c]]]]
    BY DEF BufKey, DriverInv, DriverTypeOK
  <1>3. pc'[c] \in {"bufkey", "tfm"}
    BY <1>1, Arrives DEF BufKey
  <1>4. QED
    BY <1>1, <1>2, <1>3, FillsHidden DEF Call, IsDrawing

LEMMA RunHidden ==
    ASSUME OneUser, DriverInv, SoleInv, SoleInv', NEW c \in Caller, Ioctl(c), Run(c)
    PROVE  Hidden
  <1>1. /\ call[c] \in Call /\ pc[c] = "run" /\ UNCHANGED <<sess, last, sealed>>
        /\ call[c].op \in Crypts /\ pc'[c] = "copyout" /\ call \in [Caller -> Call]
    BY Mapped DEF Run, At, outside, OpsAt, Goto, DriverInv, DriverTypeOK
  <1> DEFINE k == call[c]
  <1>2. \E t, b, n : call'[c] = IF k.op = "ENCRYPT" THEN [k EXCEPT !.outLen = n, !.box = b]
                                                    ELSE [k EXCEPT !.outLen = n, !.text = t]
    BY <1>1 DEF Run
  <1>3. QED
    BY <1>1, <1>2, FillsHidden DEF Call, Crypts, IsDrawing

\* The IV of an ENCRYPT or GET_IV is drawn.
LEMMA DrawHidden ==
    ASSUME OneUser, DriverInv, SoleInv, SoleInv', NEW c \in Caller, Ioctl(c), Draw(c),
           Goto(c, "saveiv"), UNCHANGED <<sess, last, sealed>>, ~sess[call[c].s].ivSet,
           call[c].op # "SET_IV"
    PROVE  Hidden
  <1>1. PICK v : \E b \in RandomBlocks : call'[c] = [call[c] EXCEPT !.ivBuf = b, !.iv = v]
    BY DrawFrame
  <1>2. call[c] \in Call /\ pc'[c] = "saveiv"
    BY Mapped DEF Goto, DriverInv, DriverTypeOK
  <1>3. QED
    BY <1>1, <1>2, FillsHidden DEF Call

LEMMA GetIvHidden ==
    ASSUME OneUser, DriverInv, SoleInv, SoleInv', NEW c \in Caller, Ioctl(c), GetIv(c)
    PROVE  Hidden
  <1>1. pc[c] = "getiv" /\ UNCHANGED <<sess, last, sealed>> /\ call[c].op = "GET_IV"
    BY Mapped DEF GetIv, At, OpsAt
  <1>2. CASE S(c).ivSet
    BY <1>1, <1>2, GoesOn DEF GetIv, Pc
  <1>3. CASE ~S(c).ivSet
    BY <1>1, <1>3, DrawHidden DEF GetIv, S
  <1>4. QED
    BY <1>2, <1>3

LEMMA PickIvServed ==
    ASSUME OneUser, DriverInv, SoleInv, SoleInv', NEW c \in Caller, Ioctl(c), PickIv(c)
    PROVE  Service!Refuse(c) \/ Hidden
  <1> DEFINE k == call[c]
  <1>1. /\ pc[c] = "pickiv" /\ UNCHANGED <<sess, last, sealed>> /\ k.op \in Crypts
        /\ k \in Call /\ k.iv = k.asked /\ call \in [Caller -> Call]
    BY Mapped DEF PickIv, At, OpsAt, DriverInv, DriverTypeOK, Keeps, IvKeeps
  <1>2. CASE Supplied(k.iv)
    <2>1. pc'[c] = "pickkey" /\ call'[c] = [k EXCEPT !.ivBuf = k.iv]
      BY <1>1, <1>2 DEF PickIv, Goto, DriverInv, DriverTypeOK
    <2>2. QED
      BY <1>1, <2>1, FillsHidden DEF Call, Crypts, IsDrawing
  <1>3. CASE ~Supplied(k.iv) /\ S(c).ivSet
    BY <1>1, <1>3, GoesOn DEF PickIv, Pc
  <1>4. CASE ~Supplied(k.iv) /\ ~S(c).ivSet /\ k.op = "ENCRYPT"
    BY <1>1, <1>4, DrawHidden DEF PickIv, S
  <1>5. CASE ~Supplied(k.iv) /\ ~S(c).ivSet /\ k.op = "DECRYPT"
    BY <1>1, <1>5, Refused DEF PickIv, S
  <1>6. QED
    BY <1>1, <1>2, <1>3, <1>4, <1>5 DEF Crypts

LEMMA SaveKeyHidden ==
    ASSUME OneUser, DriverInv, SoleInv, SoleInv', NEW c \in Caller, Ioctl(c), SaveKey(c)
    PROVE  Hidden
  <1> DEFINE k == call[c]
             s == k.s
             b == [sess[s].key EXCEPT ![part[c]] = k.key[part[c]]]
  <1>1. /\ pc[c] = "savekey" /\ UNCHANGED <<last, sealed, call>> /\ s \in Session
        /\ sess[s] \in CryptoSession /\ sess' = [sess EXCEPT ![s].key = b]
        /\ sess \in [Session -> CryptoSession]
    BY Mapped DEF SaveKey, At, outside, DriverInv, DriverTypeOK
  <1>2. sess'[s] = [sess[s] EXCEPT !.key = b]
    BY <1>1
  <1> HIDE DEF b
  <1>3. sess'[s].keySet = sess[s].keySet /\ sess'[s].ivSet = sess[s].ivSet
    BY <1>1, <1>2 DEF CryptoSession
  <1>4. pc'[c] \in {"savekey", "flagkey"}
    BY <1>1, Arrives DEF SaveKey
  <1>5. /\ KeyAt(sess'[s], last'[s]) = KeyAt(sess[s], last[s])
        /\ IvAt(pc'[c], call'[c], sess'[s], last'[s]) = IvAt(pc[c], call[c], sess[s], last[s])
    BY <1>1, <1>3, <1>4 DEF KeyAt, IvAt, IsDrawing
  <1>6. QED
    BY <1>1, <1>4, <1>5, Silent

LEMMA SaveIvHidden ==
    ASSUME OneUser, DriverInv, SoleInv, SoleInv', NEW c \in Caller, Ioctl(c), SaveIv(c)
    PROVE  Hidden
  <1> DEFINE k == call[c]
             s == k.s
             b == [sess[s].iv EXCEPT ![part[c]] = k.ivBuf[part[c]]]
  <1>1. /\ pc[c] = "saveiv" /\ UNCHANGED <<last, sealed, call>> /\ s \in Session
        /\ sess[s] \in CryptoSession /\ sess' = [sess EXCEPT ![s].iv = b]
        /\ sess \in [Session -> CryptoSession]
    BY Mapped DEF SaveIv, At, outside, DriverInv, DriverTypeOK
  <1>2. sess'[s] = [sess[s] EXCEPT !.iv = b]
    BY <1>1
  <1> HIDE DEF b
  <1>3. sess'[s].keySet = sess[s].keySet /\ sess'[s].ivSet = sess[s].ivSet
    BY <1>1, <1>2 DEF CryptoSession
  <1>4. pc'[c] \in {"saveiv", "flagiv"}
    BY <1>1, Arrives DEF SaveIv
  <1>5. /\ KeyAt(sess'[s], last'[s]) = KeyAt(sess[s], last[s])
        /\ IvAt(pc'[c], call'[c], sess'[s], last'[s]) = IvAt(pc[c], call[c], sess[s], last[s])
    BY <1>1, <1>3, <1>4 DEF KeyAt, IvAt, IsDrawing
  <1>6. QED
    BY <1>1, <1>4, <1>5, Silent

LEMMA FlagEarlyHidden ==
    ASSUME OneUser, DriverInv, SoleInv, SoleInv', NEW c \in Caller, Ioctl(c), FlagEarly(c)
    PROVE  Hidden
  <1> DEFINE s == call[c].s
  <1>1. /\ pc[c] = "saveiv" /\ UNCHANGED <<pc, last, sealed, call>> /\ call[c].op = "ENCRYPT"
        /\ s \in Session /\ sess' = [sess EXCEPT ![s].ivSet = TRUE]
        /\ sess \in [Session -> CryptoSession]
    BY Mapped DEF FlagEarly, At, outside, DriverInv, DriverTypeOK
  <1>2. sess'[s].keySet = sess[s].keySet
    BY <1>1 DEF CryptoSession
  <1>3. /\ KeyAt(sess'[s], last'[s]) = KeyAt(sess[s], last[s])
        /\ IvAt(pc'[c], call'[c], sess'[s], last'[s]) = IvAt(pc[c], call[c], sess[s], last[s])
    BY <1>1, <1>2 DEF KeyAt, IvAt, IsDrawing
  <1>4. QED
    BY <1>1, <1>3, Silent

LEMMA FlagKeyServed ==
    ASSUME OneUser, DriverInv, SoleInv, SoleInv', NEW c \in Caller, Ioctl(c), FlagKey(c)
    PROVE  Service!SetKey(c)
  <1> DEFINE k == call[c]
             s == k.s
             m == sess[s]
  <1>1. /\ pc[c] = "flagkey" /\ UNCHANGED <<sealed, call>> /\ k.op = "SET_KEY" /\ s \in Session
        /\ m \in CryptoSession /\ pc'[c] = "idle" /\ ret'[c] = "OK"
        /\ sess'[s] = [m EXCEPT !.keySet = TRUE]
        /\ last'[s] = [last[s] EXCEPT !.key = m.key] /\ last[s] \in [key : Block, iv : Block]
        /\ m.key = k.key
    BY Mapped DEF FlagKey, At, outside, S, OpsAt, Return, DriverInv, DriverTypeOK, Keeps, Serves
  <1>2. /\ sess'[s].keySet /\ sess'[s].ivSet = m.ivSet
        /\ last'[s].key = k.key /\ last'[s].iv = last[s].iv
    BY <1>1 DEF CryptoSession
  <1>3. /\ KeyAt(sess'[s], last'[s]) = {k.key}
        /\ IvAt(pc'[c], call'[c], sess'[s], last'[s]) = IvAt(pc[c], k, m, last[s])
    BY <1>1, <1>2 DEF KeyAt, IvAt, IsDrawing
  <1>4. /\ FileKey' = [FileKey EXCEPT ![s] = {k.key}] /\ FileIv' = [FileIv EXCEPT ![s] = FileIv[s]]
    BY <1>3, Mapped
  <1>5. FileIv' = FileIv
    BY <1>1, <1>4 DEF FileIv
  <1>6. AnswerOf("OK", k) = Service!Ok
    BY <1>1, OkAnswers
  <1>7. Service!Answer(c, AnswerOf("OK", k))
    BY <1>1, Mapped
  <1>8. Pending[c].op = "SET_KEY" /\ Pending[c].file = s /\ Pending[c].key = k.key
    BY <1>1, Mapped, RequestFields
  <1>9. QED
    BY <1>1, <1>4, <1>5, <1>6, <1>7, <1>8 DEF Service!SetKey, Service!Waits

LEMMA FlagIvServed ==
    ASSUME OneUser, DriverInv, SoleInv, SoleInv', NEW c \in Caller, Ioctl(c), FlagIv(c)
    PROVE  Service!SetIv(c) \/ Service!DrawIv(c)
  <1> DEFINE k == call[c]
             s == k.s
             m == sess[s]
  <1>1. /\ pc[c] = "flagiv" /\ UNCHANGED <<sealed, call>>
        /\ k.op \in {"SET_IV", "GET_IV", "ENCRYPT"}
        /\ s \in Session /\ m \in CryptoSession
        /\ sess'[s] = [m EXCEPT !.ivSet = TRUE]
        /\ last'[s] = [last[s] EXCEPT !.iv = m.iv] /\ last[s] \in [key : Block, iv : Block]
        /\ m.iv = k.ivBuf /\ Serves("flagiv", part[c], k, m, last[s]) /\ file' = file
    <2>1. /\ pc[c] = "flagiv" /\ UNCHANGED <<sealed, call, file>>
          /\ sess' = [sess EXCEPT ![s].ivSet = TRUE]
          /\ last' = [last EXCEPT ![s].iv = m.iv]
      BY DEF FlagIv, At, outside, S
    <2>2. /\ s \in Session /\ k.op \in {"SET_IV", "GET_IV", "ENCRYPT"}
          /\ Keeps("flagiv", part[c], k, m, last[s])
      BY <2>1, Mapped DEF OpsAt
    <2>3. /\ m \in CryptoSession /\ last[s] \in [key : Block, iv : Block]
          /\ sess'[s] = [m EXCEPT !.ivSet = TRUE]
          /\ last'[s] = [last[s] EXCEPT !.iv = m.iv]
      BY <2>1, <2>2 DEF DriverInv, DriverTypeOK
    <2>4. m.iv = k.ivBuf /\ Serves("flagiv", part[c], k, m, last[s])
      BY <2>2 DEF Keeps, IvKeeps
    <2>5. QED
      BY <2>1, <2>2, <2>3, <2>4
  <1>2. /\ sess'[s].ivSet /\ sess'[s].keySet = m.keySet
        /\ last'[s].iv = k.ivBuf /\ last'[s].key = last[s].key
    BY <1>1 DEF CryptoSession
  <1>3. KeyAt(sess'[s], last'[s]) = KeyAt(m, last[s])
    BY <1>2 DEF KeyAt
  <1>4. FileKey' = FileKey
    <2>1. FileKey' = [FileKey EXCEPT ![s] = FileKey[s]]
      BY <1>3, Mapped
    <2>2. QED
      BY <2>1 DEF FileKey
  <1>5. CASE k.op = "SET_IV"
    <2>1. pc'[c] = "idle" /\ ret'[c] = "OK"
      BY <1>5 DEF FlagIv, Return, DriverInv, DriverTypeOK
    <2>2. IvAt(pc'[c], call'[c], sess'[s], last'[s]) = {k.ivBuf}
      BY <1>2, <2>1 DEF IvAt, IsDrawing
    <2>3. /\ FileIv' = [FileIv EXCEPT ![s] = {k.ivBuf}]
          /\ Service!Answer(c, AnswerOf("OK", k)) /\ Pending[c] = RequestOf(k)
      BY <1>1, <2>1, <2>2, Mapped
    <2>4. AnswerOf("OK", k) = Service!Ok
      BY <1>5, OkAnswers
    <2>5. Pending[c].op = "SET_IV" /\ Pending[c].file = s /\ Pending[c].iv = k.ivBuf
      BY <1>5, <2>3, RequestFields
    <2>6. QED
      BY <1>1, <1>4, <2>3, <2>4, <2>5 DEF Service!SetIv, Service!Waits
  <1>6. CASE k.op \in {"GET_IV", "ENCRYPT"}
    <2>1. pc'[c] \in {"showiv", "pickkey"}
      BY <1>6 DEF FlagIv, Goto, DriverInv, DriverTypeOK
    <2>2. IvAt(pc'[c], call'[c], sess'[s], last'[s]) = {k.ivBuf}
      BY <1>2, <2>1 DEF IvAt, IsDrawing
    <2>3. /\ FileIv' = [FileIv EXCEPT ![s] = {k.ivBuf}] /\ Pending[c] = RequestOf(k)
          /\ UNCHANGED <<Pending, Replies>>
      BY <1>1, <2>1, <2>2, Mapped
    <2>4. k.ivBuf \in RandomBlocks
      BY <1>1, <1>6 DEF Serves
    <2>5. FileIv[s] = {}
      <3>1. k.op = "GET_IV" => ~m.ivSet
        BY <1>1 DEF Serves
      <3>2. IvAt(pc[c], k, m, last[s]) = {}
        BY <1>1, <1>6, <3>1 DEF IvAt, IsDrawing
      <3>3. QED
        BY <3>2, Mapped
    <2>6. k.op = "ENCRYPT" => ~Supplied(k.asked) /\ FileKey[s] # {}
      <3>1. k.op = "ENCRYPT" => ~Supplied(k.asked) /\ m.keySet
        BY <1>1, OfCall DEF Serves, Crypts
      <3>2. FileKey[s] = KeyAt(m, last[s])
        BY Mapped
      <3>3. QED
        BY <3>1, <3>2 DEF KeyAt
    <2>7. /\ Pending[c].op = k.op /\ Pending[c].file = s
          /\ k.op = "ENCRYPT" => Pending[c].iv = k.asked
      BY <2>3, RequestFields DEF Crypts
    <2>8. QED
      BY <1>1, <1>4, <1>6, <2>3, <2>4, <2>5, <2>6, <2>7, SameBlocks
      DEF Service!DrawIv, Service!Waits
  <1>7. QED
    BY <1>1, <1>5, <1>6

LEMMA SaveFaultsServed ==
    ASSUME OneUser, DriverInv, SoleInv, SoleInv', NEW c \in Caller, Ioctl(c), SaveFaults(c)
    PROVE  \E n \in Service!Part : Service!SetFaults(c, n)
  <1> DEFINE k == call[c]
             s == k.s
             m == sess[s]
             n == part[c]
             Cleared(b) == [i \in Part |-> IF i \in n .. 2 THEN Zero ELSE b[i]]
  <1>1. /\ UNCHANGED <<sealed, call>> /\ pc'[c] = "idle" /\ ret'[c] = "EFAULT" /\ "copy" \in Faults
        /\ s \in Session /\ m \in CryptoSession /\ k \in Call /\ n \in Part
        /\ last[s] \in [key : Block, iv : Block] /\ k.op \in OpsAt(pc[c])
        /\ Keeps(pc[c], n, k, m, last[s])
        /\ sess \in [Session -> CryptoSession] /\ last \in [Session -> [key : Block, iv : Block]]
    BY Mapped, OfCall DEF SaveFaults, Return, DriverInv, DriverTypeOK
  <1>2. m.key \in Block /\ m.iv \in Block /\ k.key \in Block /\ k.ivBuf \in Block
    BY <1>1 DEF CryptoSession, Call
  <1>3. Service!Answer(c, [Service!Nothing EXCEPT !.ret = "EFAULT"])
    <2>1. Service!Answer(c, AnswerOf("EFAULT", k))
      BY <1>1, Mapped
    <2>2. QED
      BY <2>1, ErrorAnswer
  <1>4. /\ Pending[c] = RequestOf(k) /\ FileKey[s] = KeyAt(m, last[s])
        /\ FileKey' = [FileKey EXCEPT ![s] = KeyAt(sess'[s], last'[s])]
        /\ FileIv[s] = IvAt(pc[c], k, m, last[s])
        /\ FileIv' = [FileIv EXCEPT ![s] = IvAt(pc'[c], k, sess'[s], last'[s])]
    BY <1>1, Mapped
  <1>5. /\ FileKey = [t \in Session |-> FileKey[t]] /\ FileIv = [t \in Session |-> FileIv[t]]
    BY DEF FileKey, FileIv
  <1>6. CASE /\ At(c, "savekey") /\ sess' = [sess EXCEPT ![s].key = Cleared(@)]
             /\ last' = [last EXCEPT ![s].key = Cleared(sess[s].key)]
    <2>1. k.op = "SET_KEY" /\ (n = 2 => m.key[1] = k.key[1])
      BY <1>1, <1>6 DEF At, OpsAt, Keeps, Serves
    <2>2. Cleared(m.key) = Torn(k.key, n)
      BY <1>1, <1>2, <2>1 DEF Part, Torn
    <2>3. /\ sess'[s] = [m EXCEPT !.key = Torn(k.key, n)]
          /\ last'[s] = [last[s] EXCEPT !.key = Torn(k.key, n)]
      BY <1>1, <1>6, <2>2
    <2>4. /\ sess'[s].keySet = m.keySet /\ sess'[s].ivSet = m.ivSet
          /\ last'[s].key = Torn(k.key, n) /\ last'[s].iv = last[s].iv
      BY <1>1, <2>3 DEF CryptoSession
    <2>5. /\ KeyAt(sess'[s], last'[s]) = {Torn(k.key, n) : x \in FileKey[s]}
          /\ IvAt(pc'[c], k, sess'[s], last'[s]) = FileIv[s]
      BY <1>1, <1>4, <1>6, <2>4 DEF KeyAt, IvAt, IsDrawing, At
    <2>6. FileKey' = [FileKey EXCEPT ![s] = {Torn(k.key, n) : x \in FileKey[s]}] /\ FileIv' = FileIv
      BY <1>4, <1>5, <2>5
    <2>7. Pending[c].op = "SET_KEY" /\ Pending[c].file = s /\ Pending[c].key = k.key
      BY <1>4, <2>1, RequestFields
    <2>8. FileKey' =
             [FileKey EXCEPT ![Pending[c].file] = {Service!Torn(Pending[c].key, n) : x \in @}]
      BY <1>1, <2>6, <2>7, SameBlocks
    <2>9. QED
      BY <1>1, <1>3, <2>6, <2>7, <2>8, SameBlocks DEF Service!SetFaults, Service!Waits
  <1>7. CASE /\ At(c, "saveiv") /\ k.op = "SET_IV" /\ sess' = [sess EXCEPT ![s].iv = Cleared(@)]
             /\ last' = [last EXCEPT ![s].iv = Cleared(sess[s].iv)]
    <2>1. n = 2 => m.iv[1] = k.ivBuf[1]
      BY <1>1, <1>7 DEF At, Keeps, IvKeeps
    <2>2. Cleared(m.iv) = Torn(k.ivBuf, n)
      BY <1>1, <1>2, <2>1 DEF Part, Torn
    <2>3. /\ sess'[s] = [m EXCEPT !.iv = Torn(k.ivBuf, n)]
          /\ last'[s] = [last[s] EXCEPT !.iv = Torn(k.ivBuf, n)]
      BY <1>1, <1>7, <2>2
    <2>4. /\ sess'[s].keySet = m.keySet /\ sess'[s].ivSet = m.ivSet
          /\ last'[s].iv = Torn(k.ivBuf, n) /\ last'[s].key = last[s].key
      BY <1>1, <2>3 DEF CryptoSession
    <2>5. /\ KeyAt(sess'[s], last'[s]) = FileKey[s]
          /\ IvAt(pc'[c], k, sess'[s], last'[s]) = {Torn(k.ivBuf, n) : x \in FileIv[s]}
      BY <1>1, <1>4, <1>7, <2>4 DEF KeyAt, IvAt, IsDrawing
    <2>6. /\ FileIv' = [FileIv EXCEPT ![s] = {Torn(k.ivBuf, n) : x \in FileIv[s]}]
          /\ FileKey' = FileKey
      BY <1>4, <1>5, <2>5
    <2>7. Pending[c].op = "SET_IV" /\ Pending[c].file = s /\ Pending[c].iv = k.ivBuf
      BY <1>4, <1>7, RequestFields
    <2>8. FileIv' = [FileIv EXCEPT ![Pending[c].file] = {Service!Torn(Pending[c].iv, n) : x \in @}]
      BY <1>1, <2>6, <2>7, SameBlocks
    <2>9. QED
      BY <1>1, <1>3, <2>6, <2>7, <2>8, SameBlocks DEF Service!SetFaults, Service!Waits
  <1>8. QED
    BY <1>6, <1>7 DEF SaveFaults

LEMMA ShowFaultsServed ==
    ASSUME OneUser, DriverInv, SoleInv, SoleInv', NEW c \in Caller, Ioctl(c), ShowFaults(c)
    PROVE  Service!Fail(c, "copy")
  <1> DEFINE k == call[c]
  <1>1. /\ "copy" \in Faults /\ pc[c] = "showiv" /\ k.op = "GET_IV" /\ Return(c, "EFAULT")
        /\ UNCHANGED <<sess, last, call, sealed>>
        /\ Keeps("showiv", part[c], k, sess[k.s], last[k.s])
    BY Mapped DEF ShowFaults, At, outside
  <1>2. UNCHANGED <<FileKey, FileIv>> /\ Service!Answer(c, AnswerOf("EFAULT", k))
    BY <1>1, Ended DEF IsDrawing, Ret
  <1>3. AnswerOf("EFAULT", k) = [Service!Nothing EXCEPT !.ret = Service!Error["copy"]]
    BY ErrorAnswer DEF Service!Error
  <1>4. FileIv[k.s] # {}
    <2>1. IvAt(pc[c], k, sess[k.s], last[k.s]) # {}
      BY <1>1 DEF IvAt, IsDrawing, Keeps, Serves
    <2>2. QED
      BY <2>1, Mapped
  <1>5. Pending[c].op = "GET_IV" /\ Pending[c].file = k.s
    BY <1>1, Mapped, RequestFields
  <1>6. QED
    BY <1>1, <1>2, <1>3, <1>4, <1>5 DEF Service!Fail, Service!Waits

LEMMA ShowIvServed ==
    ASSUME OneUser, DriverInv, SoleInv, SoleInv', NEW c \in Caller, Ioctl(c), ShowIv(c)
    PROVE  Service!ShowIv(c) \/ Hidden
  <1> DEFINE k == call[c]
             m == sess[k.s]
             i == part[c]
             b == [k.iv EXCEPT ![i] = m.iv[i]]
  <1>1. /\ pc[c] = "showiv" /\ UNCHANGED <<sess, last, sealed>> /\ k.op \in {"GET_IV", "ENCRYPT"}
        /\ k \in Call /\ k.s \in Session /\ m \in CryptoSession /\ i \in Part
        /\ Keeps("showiv", i, k, m, last[k.s]) /\ call \in [Caller -> Call]
    <2>1. pc[c] = "showiv" /\ UNCHANGED <<sess, last, sealed>>
      BY DEF ShowIv, At
    <2>2. i \in Part /\ call \in [Caller -> Call]
      BY DEF DriverInv, DriverTypeOK
    <2>3. QED
      BY <2>1, <2>2, Mapped DEF OpsAt
  <1>2. call'[c] = [k EXCEPT !.iv = b]
    BY <1>1 DEF ShowIv, S
  <1>3. k.iv \in Block /\ m.iv \in Block
    BY <1>1 DEF Call, CryptoSession
  <1>4. CASE k.op = "GET_IV" /\ i = 2
    <2>1. Return(c, "OK")
      BY <1>4 DEF ShowIv
    <2>2. UNCHANGED <<FileKey, FileIv>> /\ Service!Answer(c, AnswerOf("OK", call'[c]))
      BY <1>1, <2>1, Ended DEF IsDrawing, Ret
    <2>3. b = m.iv
      BY <1>1, <1>3, <1>4, Whole DEF Keeps, Serves
    <2>4. m.ivSet /\ m.iv = last[k.s].iv
      BY <1>1, <1>4 DEF Keeps, Serves, IvKeeps, IvRests
    <2>5. FileIv[k.s] = {m.iv}
      <3>1. IvAt(pc[c], k, m, last[k.s]) = {m.iv}
        BY <1>1, <2>4 DEF IvAt, IsDrawing
      <3>2. QED
        BY <3>1, Mapped
    <2> HIDE DEF b
    <2>6. call'[c].op = "GET_IV" /\ call'[c].iv = m.iv
      BY <1>1, <1>2, <1>4, <2>3 DEF Call
    <2>7. AnswerOf("OK", call'[c]) = [Service!Ok EXCEPT !.iv = m.iv]
      BY <2>6, OkAnswers
    <2>8. Pending[c].op = "GET_IV" /\ Pending[c].file = k.s
      BY <1>4, Mapped, RequestFields
    <2>9. QED
      BY <1>1, <2>2, <2>5, <2>7, <2>8 DEF Service!ShowIv, Service!Waits
  <1>5. CASE ~(k.op = "GET_IV" /\ i = 2)
    <2>1. pc'[c] \in {"showiv", "pickkey"}
      BY <1>1, <1>5, Arrives DEF ShowIv
    <2>2. QED
      BY <1>1, <1>2, <2>1, FillsHidden DEF Call, IsDrawing
  <1>6. QED
    BY <1>4, <1>5

\* The key and the IV a request is served with are those the service chooses.
LEMMA ChosenAlike ==
    ASSUME OneUser, DriverInv, SoleInv, SoleInv', NEW c \in Caller, Ioctl(c),
           pc[c] = "copyout", call[c].op \in Crypts
    PROVE  /\ FileKey[Pending[c].file] # {}
           /\ call[c].keyBuf \in Service!Keys(c) /\ call[c].ivBuf \in Service!IVs(c)
  <1> DEFINE k == call[c]
             m == sess[k.s]
             l == last[k.s]
  <1>1. m.keySet
    BY OfCall
  <1>2. /\ k.keyBuf = IF Supplied(k.key) THEN k.key ELSE l.key
        /\ IF Supplied(k.asked) THEN k.ivBuf = k.asked ELSE m.ivSet /\ k.ivBuf = l.iv
    BY Mapped DEF Keeps, Serves, Chosen
  <1>3. FileKey[k.s] = {l.key}
    BY <1>1, Mapped DEF KeyAt
  <1>4. m.ivSet => FileIv[k.s] = {l.iv}
    <2>1. m.ivSet => IvAt(pc[c], k, m, l) = {l.iv}
      BY DEF IvAt, IsDrawing
    <2>2. QED
      BY <2>1, Mapped
  <1>5. Pending[c].file = k.s /\ Pending[c].key = k.key /\ Pending[c].iv = k.asked
    BY Mapped, RequestFields
  <1>6. k.keyBuf \in Service!Keys(c)
    BY <1>2, <1>3, <1>5, SameBlocks DEF Service!Keys, Service!Choice
  <1>7. k.ivBuf \in Service!IVs(c)
    BY <1>2, <1>4, <1>5, SameBlocks DEF Service!IVs, Service!Choice
  <1>8. QED
    BY <1>3, <1>5, <1>6, <1>7

LEMMA CopyOutServed ==
    ASSUME OneUser, DriverInv, SoleInv, SoleInv', NEW c \in Caller, Ioctl(c), CopyOut(c)
    PROVE  Service!Encrypt(c) \/ Service!Decrypt(c) \/ Service!Digest(c) \/ Service!Fail(c, "copy")
  <1> DEFINE k == call[c]
  <1>1. /\ pc[c] = "copyout" /\ UNCHANGED <<sess, last, call>>
        /\ k.op \in {"ENCRYPT", "DECRYPT", "MD5"}
        /\ Serves("copyout", part[c], k, sess[k.s], last[k.s])
    <2>1. pc[c] = "copyout" /\ UNCHANGED <<sess, last, call>>
      BY DEF CopyOut, At, outside
    <2>2. QED
      BY <2>1, Mapped DEF OpsAt, Keeps
  <1>2. CASE /\ Return(c, "OK")
             /\ sealed' = sealed \cup (IF k.op = "ENCRYPT" THEN {k.box} ELSE {})
    <2>1. UNCHANGED <<FileKey, FileIv>> /\ Service!Answer(c, AnswerOf("OK", k))
      BY <1>1, <1>2, Ended DEF IsDrawing, Ret
    <2>2. CASE k.op = "ENCRYPT"
      <3>1. Pending[c].op = "ENCRYPT" /\ Pending[c].text = k.text
        BY <2>2, Mapped, RequestFields
      <3>2. k.box = [text |-> Pending[c].text, key |-> k.keyBuf, iv |-> k.ivBuf, shown |-> k.ivBuf]
        BY <1>1, <2>2, <3>1 DEF Serves
      <3>3. AnswerOf("OK", k) = [Service!Ok EXCEPT !.box = k.box]
        BY <2>2, OkAnswers
      <3>4. /\ FileKey[Pending[c].file] # {}
            /\ k.keyBuf \in Service!Keys(c) /\ k.ivBuf \in Service!IVs(c)
        BY <1>1, <2>2, ChosenAlike DEF Crypts
      <3>5. sealed' = sealed \cup {k.box}
        BY <1>2, <2>2
      <3> DEFINE key == k.keyBuf
                 iv  == k.ivBuf
      <3>6. LET box == [text |-> Pending[c].text, key |-> key, iv |-> iv, shown |-> iv]
            IN  Service!Answer(c, [Service!Ok EXCEPT !.box = box]) /\ sealed' = sealed \cup {box}
        BY <2>1, <3>2, <3>3, <3>5
      <3> HIDE DEF key, iv
      <3>7. Service!Encrypt(c)
        BY <2>1, <3>1, <3>4, <3>6 DEF Service!Encrypt, Service!Waits, key, iv
      <3>8. QED
        BY <3>7
    <2>3. CASE k.op = "DECRYPT"
      <3>1. Pending[c].op = "DECRYPT" /\ Pending[c].box = k.box
        BY <2>3, Mapped, RequestFields
      <3>2. k.text = Service!Opened(Pending[c].box, k.keyBuf, k.ivBuf)
        BY <1>1, <2>3, <3>1, SameBlocks DEF Serves
      <3>3. AnswerOf("OK", k) = [Service!Ok EXCEPT !.text = k.text]
        BY <2>3, OkAnswers
      <3>4. /\ FileKey[Pending[c].file] # {}
            /\ k.keyBuf \in Service!Keys(c) /\ k.ivBuf \in Service!IVs(c)
        BY <1>1, <2>3, ChosenAlike DEF Crypts
      <3>5. sealed' = sealed
        BY <1>2, <2>3
      <3>6. Service!Decrypt(c)
        BY <2>1, <3>1, <3>2, <3>3, <3>4, <3>5 DEF Service!Decrypt, Service!Waits
      <3>7. QED
        BY <3>6
    <2>4. CASE k.op = "MD5"
      <3>1. Pending[c].op = "MD5" /\ AnswerOf("OK", k) = Service!Ok /\ sealed' = sealed
        BY <1>2, <2>4, Mapped, RequestFields, OkAnswers
      <3>2. QED
        BY <2>1, <3>1 DEF Service!Digest, Service!Waits
    <2>5. QED
      BY <1>1, <2>2, <2>3, <2>4
  <1>3. CASE "copy" \in Faults /\ Return(c, "EFAULT") /\ UNCHANGED sealed
    BY <1>1, <1>3, Failed DEF Service!Error, Ret, Crypts
  <1>4. QED
    BY <1>2, <1>3 DEF CopyOut

\* A step of a call is a step of the service, or none.
LEMMA IoctlServed ==
    ASSUME OneUser, DriverInv, SoleInv, SoleInv', NEW c \in Caller, Ioctl(c)
    PROVE  Service!Serve(c) \/ Hidden
  <1>1. CASE SaveKey(c) \/ SaveIv(c) \/ FlagEarly(c) \/ GetIv(c)
    BY <1>1, SaveKeyHidden, SaveIvHidden, FlagEarlyHidden, GetIvHidden
  <1>2. CASE BufIv(c) \/ ReadOnce(c) \/ PickKey(c) \/ BufKey(c) \/ Run(c)
    BY <1>2, BufIvHidden, ReadOnceHidden, PickKeyHidden, BufKeyHidden, RunHidden
  <1>3. CASE SetTfmKey(c) \/ Digest(c) \/ \E what \in DOMAIN After : Acquire(c, what)
    BY <1>3, StepsHidden
  <1>4. CASE FlagKey(c) \/ FlagIv(c) \/ ShowIv(c)
    BY <1>4, FlagKeyServed, FlagIvServed, ShowIvServed DEF Service!Serve
  <1>5. CASE CheckKey(c) \/ PickIv(c)
    BY <1>5, CheckKeyServed, PickIvServed DEF Service!Serve
  <1>6. CASE Fetch(c) \/ StepFails(c)
    BY <1>6, FetchServed, StepFailsServed DEF Service!Serve
  <1>7. CASE SaveFaults(c)
    BY <1>7, SaveFaultsServed DEF Service!Serve
  <1>8. CASE ShowFaults(c) \/ CopyOut(c)
    <2>1. "copy" \in DOMAIN Service!Error
      BY DEF Service!Error
    <2>2. QED
      BY <1>8, <2>1, ShowFaultsServed, CopyOutServed DEF Service!Serve
  <1>9. QED
    BY <1>1, <1>2, <1>3, <1>4, <1>5, <1>6, <1>7, <1>8 DEF Ioctl

-----------------------------------------------------------------------------
(* The refinement: calls that begin, and files.                             *)

\* A file that is not open has neither key nor IV.
ClosedInv == \A s \in Session : file[s] = "none" => ~sess[s].keySet /\ ~sess[s].ivSet

LEMMA ClosedStep == DriverInv /\ ClosedInv /\ [Next]_vars => ClosedInv'
  <1> SUFFICES ASSUME DriverInv, ClosedInv, [Next]_vars, NEW s \in Session, file'[s] = "none"
               PROVE  ~sess'[s].keySet /\ ~sess'[s].ivSet
    BY DEF ClosedInv
  <1> USE DEF ClosedInv
  <1>1. file \in [Session -> FileState] /\ sess \in [Session -> CryptoSession]
    BY DEF DriverInv, DriverTypeOK
  <1>2. ASSUME NEW t \in Session, Open(t) PROVE ~sess'[s].keySet /\ ~sess'[s].ivSet
    BY <1>1, <1>2 DEF Open, InitSession, Fresh
  <1>3. ASSUME NEW t \in Session, Close(t) PROVE ~sess'[s].keySet /\ ~sess'[s].ivSet
    BY <1>1, <1>3 DEF Close
  <1>4. ASSUME NEW t \in Session, Release(t) PROVE ~sess'[s].keySet /\ ~sess'[s].ivSet
    BY <1>1, <1>4 DEF Release, Fresh
  <1>5. ASSUME NEW c \in Caller, NEW t \in Session, Begin(c, t)
        PROVE  ~sess'[s].keySet /\ ~sess'[s].ivSet
    BY <1>5 DEF Begin
  <1>6. ASSUME NEW c \in Caller, Ioctl(c) PROVE ~sess'[s].keySet /\ ~sess'[s].ivSet
    <2>1. /\ Frame(c, call[c].s) /\ file' = file /\ pc[c] # "idle" /\ PlaceFits(c)
      BY <1>6, IoctlFrame, OfCall
    <2>2. s # call[c].s
      BY <2>1 DEF PlaceFits
    <2>3. QED
      BY <2>1, <2>2 DEF Frame
  <1>7. CASE UNCHANGED vars
    BY <1>7 DEF vars
  <1>8. QED
    BY <1>2, <1>3, <1>4, <1>5, <1>6, <1>7 DEF Next

LEMMA SealedAsked ==
    ASSUME NEW s \in Session, NEW r \in Requests("DECRYPT", s) PROVE r.box \in sealed
  <1>1. PICK k \in OwnKeys \cup {Blank}, b \in sealed :
            r = NewCall("DECRYPT", s, k, b.shown, Blank, 0, b)
    BY DEF Requests
  <1>2. QED
    BY <1>1 DEF NewCall

LEMMA RequestOfFits ==
    ASSUME NEW k \in Call, k.op \in Commands PROVE RequestOf(k) \in Service!Request
  <1>1. 0 \in Lens
    BY SizeAssumption DEF Lens
  <1>2. QED
    BY <1>1, BlankFits, SameBlocks DEF RequestOf, Call, Service!Request

LEMMA BeginServed ==
    ASSUME OneUser, DriverInv, SoleInv, SoleInv', NEW c \in Caller, NEW s \in Session, Begin(c, s)
    PROVE  Service!Ask(c, Pending'[c])
  <1>1. /\ pc[c] = "idle" /\ <<c, s>> \in Uses /\ UNCHANGED <<sess, part, sealed, last, file>>
        /\ ret' = [ret EXCEPT ![c] = "none"] /\ file[s] = "open"
    BY DEF Begin
  <1>2. PICK op \in Ops : \E r \in Requests(op, s) :
          call' = [call EXCEPT ![c] = r] /\ pc' = [pc EXCEPT ![c] = Entry(op)]
    BY DEF Begin
  <1>3. PICK r \in Requests(op, s) :
          call' = [call EXCEPT ![c] = r] /\ pc' = [pc EXCEPT ![c] = Entry(op)]
    BY <1>2
  <1>4. r.op = op /\ r.s = s /\ r \in Call /\ op \in Commands
    BY Asked, RequestFits, UserAssumption DEF SoleInv, DriverInv, DriverTypeOK
  <1>5. /\ pc'[c] = Entry(op) /\ call'[c] = r
        /\ \A d \in Caller \ {c} : pc'[d] = pc[d] /\ call'[d] = call[d] /\ ret'[d] = ret[d]
    BY <1>1, <1>3 DEF DriverInv, DriverTypeOK
  <1>6. Entry(op) # "idle" /\ ~IsDrawing(Entry(op), r) /\ ~IsDrawing("idle", call[c])
    BY <1>4 DEF Entry, Commands, Crypts, IsDrawing
  <1>7. Frame(c, s)
    BY <1>1, <1>5 DEF Frame
  <1>8. FileKey' = FileKey /\ FileIv' = FileIv
    <2>1. /\ FileKey[s] = KeyAt(sess[s], last[s])
          /\ FileKey' = [FileKey EXCEPT ![s] = KeyAt(sess'[s], last'[s])]
          /\ FileIv[s] = IvAt(pc[c], call[c], sess[s], last[s])
          /\ FileIv' = [FileIv EXCEPT ![s] = IvAt(pc'[c], call'[c], sess'[s], last'[s])]
      BY <1>1, <1>4, <1>5, <1>7, Maps
    <2>2. /\ KeyAt(sess'[s], last'[s]) = FileKey[s]
          /\ IvAt(pc'[c], call'[c], sess'[s], last'[s]) = FileIv[s]
      BY <1>1, <1>5, <1>6, <2>1 DEF IvAt
    <2>3. FileKey = [t \in Session |-> FileKey[t]] /\ FileIv = [t \in Session |-> FileIv[t]]
      BY DEF FileKey, FileIv
    <2>4. QED
      BY <2>1, <2>2, <2>3
  <1>9. Pending'[c] = RequestOf(r) /\ Pending[c] = Service!Idle
    BY <1>1, <1>5, <1>6 DEF Pending, Service!Idle
  <1>10. Pending' = [Pending EXCEPT ![c] = Pending'[c]]
    BY <1>5 DEF Pending
  <1>11. Replies' = [Replies EXCEPT ![c] = Service!Nothing]
    BY <1>5, <1>6, NoAnswer DEF Replies
  <1>12. /\ RequestOf(r) \in Service!Request /\ RequestOf(r).op = op /\ RequestOf(r).file = s
         /\ op = "DECRYPT" => RequestOf(r).box \in sealed
    BY <1>4, RequestOfFits, RequestFields, SealedAsked
  <1>13. QED
    BY <1>1, <1>8, <1>9, <1>10, <1>11, <1>12 DEF Service!Ask

LEMMA FilesServed ==
    ASSUME DriverInv, ClosedInv, NEW s \in Session, Open(s) \/ Close(s) \/ Release(s)
    PROVE  Service!OpenFile(s) \/ Service!CloseFile(s) \/ Service!ReleaseFile(s)
  <1>1. UNCHANGED <<pc, call, ret, sealed>> /\ file \in [Session -> FileState]
        /\ sess \in [Session -> CryptoSession]
    BY DEF Open, Close, Release, DriverInv, DriverTypeOK
  <1>2. UNCHANGED <<Pending, Replies>> /\ \A t \in Session : Drawing(t)' <=> Drawing(t)
    BY <1>1 DEF Pending, Replies, Drawing
  <1>3. CASE Open(s)
    <2>1. ~sess[s].keySet /\ ~sess[s].ivSet /\ sess' = [sess EXCEPT ![s] = Fresh]
          /\ last \in [Session -> [key : Block, iv : Block]]
      BY <1>3 DEF Open, InitSession, ClosedInv, DriverInv, DriverTypeOK
    <2>2. /\ ~sess'[s].keySet /\ ~sess'[s].ivSet
          /\ \A t \in Session \ {s} : sess'[t] = sess[t] /\ last'[t] = last[t]
      BY <1>1, <1>3, <2>1 DEF Open, Fresh
    <2>3. \A t \in Session : FileKey'[t] = FileKey[t] /\ FileIv'[t] = FileIv[t]
      BY <1>2, <2>1, <2>2 DEF FileKey, FileIv
    <2>4. FileKey' = FileKey /\ FileIv' = FileIv
      BY <2>3 DEF FileKey, FileIv
    <2>5. QED
      BY <1>1, <1>2, <1>3, <2>4 DEF Open, Service!OpenFile
  <1>4. CASE Close(s)
    <2>1. FileKey' = FileKey /\ FileIv' = FileIv
      BY <1>2, <1>4 DEF Close, FileKey, FileIv
    <2>2. QED
      BY <1>1, <1>2, <1>4, <2>1 DEF Close, Service!CloseFile
  <1>5. CASE Release(s)
    <2>1. /\ ~sess'[s].keySet /\ ~sess'[s].ivSet /\ last' = last
          /\ \A t \in Session \ {s} : sess'[t] = sess[t]
      BY <1>1, <1>5 DEF Release, Fresh
    <2>2. FileKey' = [FileKey EXCEPT ![s] = {}] /\ FileIv' = [FileIv EXCEPT ![s] = {}]
      BY <1>2, <2>1 DEF FileKey, FileIv
    <2>3. \A c \in Caller : Pending[c] = Service!Idle \/ Pending[c].file # s
      BY <1>5, RequestFields DEF Release, Pending, Service!Idle
    <2>4. QED
      BY <1>1, <1>2, <1>5, <2>2, <2>3 DEF Release, Service!ReleaseFile
  <1>6. QED
    BY <1>3, <1>4, <1>5

LEMMA InitServed == Init => ClosedInv /\ Service!ServiceInit
  <1> SUFFICES ASSUME Init PROVE ClosedInv /\ Service!ServiceInit
    OBVIOUS
  <1>1. \A s \in Session : file[s] = "none" /\ ~sess[s].keySet /\ ~sess[s].ivSet
    BY DEF Init, Fresh
  <1>2. FileKey = [s \in Session |-> {}] /\ FileIv = [s \in Session |-> {}]
    BY <1>1 DEF FileKey, FileIv
  <1>3. \A c \in Caller : pc[c] = "idle" /\ ret[c] = "none"
    BY DEF Init
  <1>4. /\ Pending = [c \in Caller |-> Service!Idle]
        /\ Replies = [c \in Caller |-> Service!Nothing]
    BY <1>3, NoAnswer DEF Pending, Replies, Service!Idle
  <1>5. file = [s \in Session |-> "none"] /\ sealed = {}
    BY DEF Init
  <1>6. QED
    BY <1>1, <1>2, <1>4, <1>5 DEF ClosedInv, Service!ServiceInit

LEMMA StepServed ==
    ASSUME OneUser, DriverInv, SoleInv, SoleInv', ClosedInv, [Next]_vars
    PROVE  [Service!ServiceNext]_(Service!service)
  <1>1. ASSUME NEW s \in Session, Open(s) \/ Close(s) \/ Release(s) PROVE Service!ServiceNext
    BY <1>1, FilesServed DEF Service!ServiceNext
  <1>2. ASSUME NEW c \in Caller, Ioctl(c) PROVE Service!ServiceNext \/ Hidden
    BY <1>2, IoctlServed DEF Service!ServiceNext
  <1>3. ASSUME NEW c \in Caller, NEW s \in Session, Begin(c, s) PROVE Service!ServiceNext
    BY <1>3, BeginServed DEF Service!ServiceNext
  <1>4. CASE UNCHANGED vars
    BY <1>4 DEF vars, Service!service, FileKey, FileIv, Pending, Replies, Drawing
  <1>5. QED
    BY <1>1, <1>2, <1>3, <1>4 DEF Next, Hidden

\* ImplementsService: a file that one thread uses is served like CryptoService
\* serves it, for any number of threads and files, any keys, IVs and draws,
\* and whatever copies, allocations and crypto calls fail: every call takes
\* effect in one of its steps, and the others do not show.
THEOREM ServiceImplemented == ASSUME OneUser PROVE Spec => ImplementsService
  <1>1. DriverInv /\ SoleInv /\ ClosedInv /\ [Next]_vars
          => SoleInv' /\ ClosedInv' /\ [Service!ServiceNext]_(Service!service)
    BY SoleStep, ClosedStep, StepServed
  <1>2. QED
    BY <1>1, SoleInit, InitServed, DriverInvariant, PTL
    DEF Spec, ImplementsService, Service!ServiceSpec
=============================================================================
