---------------------------- MODULE SessionLease -----------------------------
(* Session implements Lease: the mapping from its state to the promise.     *)
EXTENDS Session

Hold ==
    IF \E t \in Connectors : pc[t] = "connecting" THEN "taking"
    ELSE IF slot = "ours" THEN "held" ELSE "idle"

Promise ==
    IF yieldUntil = "running"
    THEN IF YieldsReturned THEN "kept" ELSE "asked"
    ELSE IF pc[Main] = "stopped" THEN "kept" ELSE "none"

Contract == INSTANCE Lease WITH hold <- Hold, promise <- Promise

(* Every run of the session, seen through the mapping, is one the lease     *)
(* allows: no attempt begins once the device was asked for, and a yield or  *)
(* a stop is reported done only when the slot has been given up, which is   *)
(* then not reached for until the yield ends or the session starts again    *)
(* (session.py:260-269 and 317-331).                                        *)
ImplementsLease == Contract!Spec
=============================================================================
