---------------------------- MODULE CryptoModule ----------------------------
(***************************************************************************)
(* Loading and unloading driver/crypto_driver.c: crypto_driver_init with    *)
(* its unwinding, crypto_driver_exit, and the programs that open, use and   *)
(* close the device meanwhile.  file_operations has no .owner, so that open *)
(* files do not hold the module; after it is unloaded its code is gone, and *)
(* a call through an open file runs into memory that is not the driver's.   *)
(***************************************************************************)
EXTENDS Naturals, FiniteSets

CONSTANT Program    \* programs that use the device

ModState == {"out", "loading", "live", "going"}
Step     == {"none", "register", "class", "device",
             "nodevice", "noclass", "destroyclass", "nochrdev"}

\* Has no open file, has one, is inside a call, has one of an unloaded module.
UserState == {"off", "open", "busy", "stale"}

VARIABLES
    mod,      \* the module
    step,     \* the next step of crypto_driver_init or crypto_driver_exit
    chrdev,   \* the major number is registered
    class,    \* crypto_class: "none", "live" or "freed"
    node,     \* the device and its node exist
    user      \* each program: see UserState

vars == <<mod, step, chrdev, class, node, user>>

Init ==
    /\ mod = "out" /\ step = "none"
    /\ chrdev = FALSE /\ class = "none" /\ node = FALSE
    /\ user = [p \in Program |-> "off"]

-----------------------------------------------------------------------------
(* crypto_driver_init                                                       *)

Insmod ==
    /\ mod = "out"
    /\ mod' = "loading" /\ step' = "register"
    /\ UNCHANGED <<chrdev, class, node, user>>

RegisterChrdev ==
    /\ step = "register"
    /\ \/ chrdev' = TRUE /\ step' = "class" /\ UNCHANGED mod
       \/ mod' = "out" /\ step' = "none" /\ UNCHANGED chrdev
    /\ UNCHANGED <<class, node, user>>

CreateClass ==
    /\ step = "class"
    /\ \/ class' = "live" /\ step' = "device" /\ UNCHANGED <<mod, chrdev>>
       \/ chrdev' = FALSE /\ mod' = "out" /\ step' = "none" /\ UNCHANGED class
    /\ UNCHANGED <<node, user>>

\* mutant: the class stays when device_create fails
KeepClass == UNCHANGED class

\* class_destroy and unregister_chrdev, when device_create fails
UnwindClass == class' = "freed"

CreateDevice ==
    /\ step = "device"
    /\ \/ node' = TRUE /\ mod' = "live" /\ step' = "none" /\ UNCHANGED <<chrdev, class>>
       \/ /\ UnwindClass /\ chrdev' = FALSE
          /\ mod' = "out" /\ step' = "none" /\ UNCHANGED node
    /\ UNCHANGED user

-----------------------------------------------------------------------------
(* crypto_driver_exit                                                       *)

\* rmmod: refused only while something holds the module.  No open file does.
Rmmod ==
    /\ mod = "live"
    /\ mod' = "going" /\ step' = "nodevice"
    /\ UNCHANGED <<chrdev, class, node, user>>

NodeStays == UNCHANGED node                                        \* mutant
NodeGoes  == node' = FALSE

DestroyDevice ==
    /\ step = "nodevice"
    /\ NodeGoes /\ step' = "noclass"
    /\ UNCHANGED <<mod, chrdev, class, user>>

\* class_unregister drops the last reference to the class, which frees it.
UnregisterClass ==
    /\ step = "noclass"
    /\ class' = "freed" /\ step' = "destroyclass"
    /\ UNCHANGED <<mod, chrdev, node, user>>

\* class_destroy unregisters it once more.
DestroyClass ==
    /\ step = "destroyclass"
    /\ class' = "freed" /\ step' = "nochrdev"
    /\ UNCHANGED <<mod, chrdev, node, user>>

\* With the last step the code goes: open files are left without a driver.
UnregisterChrdev ==
    /\ step = "nochrdev"
    /\ chrdev' = FALSE /\ mod' = "out" /\ step' = "none"
    /\ user' = [p \in Program |-> IF user[p] = "off" THEN "off" ELSE "stale"]
    /\ UNCHANGED <<class, node>>

-----------------------------------------------------------------------------
(* Programs (external): open, ioctl and close.                              *)

Open(p) ==
    /\ user[p] = "off" /\ node /\ chrdev
    /\ user' = [user EXCEPT ![p] = "open"]
    /\ UNCHANGED <<mod, step, chrdev, class, node>>

\* An ioctl enters the driver, and leaves it.
Enter(p) ==
    /\ user[p] = "open"
    /\ user' = [user EXCEPT ![p] = "busy"]
    /\ UNCHANGED <<mod, step, chrdev, class, node>>

Leave(p) ==
    /\ user[p] = "busy"
    /\ user' = [user EXCEPT ![p] = "open"]
    /\ UNCHANGED <<mod, step, chrdev, class, node>>

\* close(fd); of a file without a driver it ends the program with an oops.
Close(p) ==
    /\ user[p] \in {"open", "stale"}
    /\ user' = [user EXCEPT ![p] = "off"]
    /\ UNCHANGED <<mod, step, chrdev, class, node>>

Module == \/ Insmod \/ RegisterChrdev \/ CreateClass \/ CreateDevice
          \/ Rmmod \/ DestroyDevice \/ UnregisterClass \/ DestroyClass
          \/ UnregisterChrdev

Next == Module \/ \E p \in Program : Open(p) \/ Enter(p) \/ Leave(p) \/ Close(p)

Spec == Init /\ [][Next]_vars

-----------------------------------------------------------------------------
(* Properties.                                                              *)

\* Loading is all or nothing, and unloading leaves nothing behind: whenever
\* the module is out, no major number, class or device node of it is left.
NothingLeftBehind == mod = "out" => ~chrdev /\ class # "live" /\ ~node

\* The node /dev/crypto_dev never leads to a major number nobody serves, and
\* the class outlives the device that is in it.
NodeIsServed == node => chrdev /\ class = "live"

\* TROUBLESHOOTING.md: rmmod refuses while a program uses the device.
NotUnloadedInUse == \A p \in Program : user[p] # "stale"
=============================================================================
