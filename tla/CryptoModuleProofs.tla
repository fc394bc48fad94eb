------------------------- MODULE CryptoModuleProofs -------------------------
(* Proofs about loading and unloading the driver, for any set of programs.  *)
EXTENDS CryptoModule, TLAPS

\* What each step of crypto_driver_init and crypto_driver_exit finds: the steps
\* before it have been done, and those after it have not.
Registered == chrdev <=> step \in {"class", "device", "nodevice", "noclass",
                                   "destroyclass", "nochrdev"} \/ mod = "live"
Classified == class = "live" <=> step \in {"device", "nodevice", "noclass"} \/ mod = "live"
HasNode    == node <=> step = "nodevice" \/ mod = "live"
Busy       == /\ mod \in {"out", "live"} => step = "none"
              /\ mod = "loading" => step \in {"register", "class", "device"}
              /\ mod = "going" => step \in {"nodevice", "noclass", "destroyclass", "nochrdev"}

ModuleTypes == /\ mod \in ModState /\ step \in Step
               /\ chrdev \in BOOLEAN /\ node \in BOOLEAN
               /\ class \in {"none", "live", "freed"}

ModuleInv == ModuleTypes /\ Busy /\ Registered /\ Classified /\ HasNode

\* A step of a program leaves the module alone.
LEMMA ProgramsKeep ==
    ASSUME ModuleInv, UNCHANGED <<mod, step, chrdev, class, node>>
    PROVE  ModuleInv'
BY DEF ModuleInv, ModuleTypes, Busy, Registered, Classified, HasNode

LEMMA ModuleKeeps ==
    ASSUME ModuleInv, Module
    PROVE  ModuleInv'
  <1> USE DEF ModuleInv, ModuleTypes, Busy, Registered, Classified, HasNode, ModState, Step
  <1>1. CASE Insmod           BY <1>1 DEF Insmod
  <1>2. CASE RegisterChrdev
    <2>1. mod = "loading" /\ step = "register" /\ UNCHANGED <<class, node>>
      BY <1>2 DEF RegisterChrdev
    <2>2. CASE chrdev' = TRUE /\ step' = "class" /\ UNCHANGED mod
      BY <2>1, <2>2
    <2>3. CASE mod' = "out" /\ step' = "none" /\ UNCHANGED chrdev
      BY <2>1, <2>3
    <2> QED BY <1>2, <2>2, <2>3 DEF RegisterChrdev
  <1>3. CASE CreateClass      BY <1>3 DEF CreateClass
  <1>4. CASE CreateDevice
    <2>1. mod = "loading" /\ step = "device"
      BY <1>4 DEF CreateDevice
    <2>2. CASE node' = TRUE /\ mod' = "live" /\ step' = "none" /\ UNCHANGED <<chrdev, class>>
      BY <2>1, <2>2
    <2>3. CASE /\ class' = "freed" /\ chrdev' = FALSE
               /\ mod' = "out" /\ step' = "none" /\ UNCHANGED node
      BY <2>1, <2>3
    <2> QED BY <1>4, <2>2, <2>3 DEF CreateDevice, UnwindClass
  <1>5. CASE Rmmod            BY <1>5 DEF Rmmod
  <1>6. CASE DestroyDevice    BY <1>6 DEF DestroyDevice, NodeGoes
  <1>7. CASE UnregisterClass  BY <1>7 DEF UnregisterClass
  <1>8. CASE DestroyClass     BY <1>8 DEF DestroyClass
  <1>9. CASE UnregisterChrdev BY <1>9 DEF UnregisterChrdev
  <1> QED BY <1>1, <1>2, <1>3, <1>4, <1>5, <1>6, <1>7, <1>8, <1>9 DEF Module

LEMMA ModuleStarts == Init => ModuleInv
  BY DEF Init, ModuleInv, ModuleTypes, Busy, Registered, Classified, HasNode, ModState, Step

LEMMA ModuleMeans == ModuleInv => NothingLeftBehind /\ NodeIsServed
  BY DEF ModuleInv, ModuleTypes, Busy, Registered, Classified, HasNode, ModState, Step,
         NothingLeftBehind, NodeIsServed

\* The inductive invariant of loading and unloading.
THEOREM ModuleInvariant == Spec => []ModuleInv
<1>1. ModuleInv /\ [Next]_vars => ModuleInv'
  <2> SUFFICES ASSUME ModuleInv, [Next]_vars PROVE ModuleInv'
    OBVIOUS
  <2>1. CASE Module
    BY <2>1, ModuleKeeps
  <2>2. ASSUME NEW p \in Program, Open(p) \/ Enter(p) \/ Leave(p) \/ Close(p)
        PROVE  ModuleInv'
    BY <2>2, ProgramsKeep DEF Open, Enter, Leave, Close
  <2>3. CASE UNCHANGED vars
    BY <2>3, ProgramsKeep DEF vars
  <2> QED BY <2>1, <2>2, <2>3 DEF Next
<1> QED BY <1>1, ModuleStarts, PTL DEF Spec

\* Loading is all or nothing, and unloading leaves nothing behind.
THEOREM LoadCorrect == Spec => []NothingLeftBehind
  BY ModuleInvariant, ModuleMeans, PTL

\* The device node exists only while the driver serves its major number and the
\* class is there.
THEOREM NodeCorrect == Spec => []NodeIsServed
  BY ModuleInvariant, ModuleMeans, PTL
=============================================================================
