-------------------------------- MODULE Lease --------------------------------
(***************************************************************************)
(* What the session promises the owner of the heater about the device's    *)
(* one client slot (service/session.py, "the lease"), with no tasks, no    *)
(* lock and no supervisor in it.  The daemon holds the slot, is taking it, *)
(* or neither; the owner's claim to it is none, asked for, or kept.  While *)
(* it is kept the daemon neither holds the slot nor reaches for it.        *)
(***************************************************************************)

VARIABLES
    hold,     \* "idle", "taking" or "held"
    promise   \* "none", "asked" or "kept"

vars == <<hold, promise>>

Init == hold = "idle" /\ promise = "none"

(* An attempt begins only while nobody has asked for the slot.              *)
Begin ==
    /\ promise = "none"
    /\ hold' = "taking" /\ UNCHANGED promise

(* An attempt in flight may still succeed after the slot was asked for.     *)
Conclude ==
    /\ hold = "taking"
    /\ hold' \in {"held", "idle"} /\ UNCHANGED promise

Give ==
    /\ hold = "held"
    /\ hold' = "idle" /\ UNCHANGED promise

(* yield_link() is called.                                                  *)
Ask == promise' = "asked" /\ UNCHANGED hold

(* The last yield_link() call returns, or stop() does: the slot is given.   *)
Keep ==
    /\ hold = "idle"
    /\ promise' = "kept" /\ UNCHANGED hold

(* The yield expires, resume() ends it, or start() follows a stop().        *)
Lift == promise' = "none" /\ UNCHANGED hold

Next == Begin \/ Conclude \/ Give \/ Ask \/ Keep \/ Lift

Spec == Init /\ [][Next]_vars

TypeOK == hold \in {"idle", "taking", "held"} /\ promise \in {"none", "asked", "kept"}

(* A promise that is kept leaves the slot to the owner.                     *)
KeptMeansFree == promise = "kept" => hold = "idle"
=============================================================================
