------------------------------ MODULE NewestWins ------------------------------
(***************************************************************************)
(* What a stream of snapshots promises to each of its clients: snapshots in*)
(* the order they were made, perhaps not all of them, and in the end the   *)
(* newest, however the other clients behave.  No queue, no task, no socket.*)
(***************************************************************************)
EXTENDS Naturals

CONSTANT Clients

VARIABLES
    newest,     \* the number of the newest snapshot; the first is 1
    present,    \* the clients that may be sent snapshots
    attentive,  \* those of them that take what they are sent
    delivered   \* per client: the last snapshot it was sent, 0 of one that is not
                \* present or was sent none

vars == <<newest, present, attentive, delivered>>

Init ==
    /\ newest = 1 /\ present = {} /\ attentive = {}
    /\ delivered = [c \in Clients |-> 0]

Made == newest' = newest + 1 /\ UNCHANGED <<present, attentive, delivered>>

(* Clients come and go, doze off and wake up.                               *)
Moves ==
    /\ present' \in SUBSET Clients /\ attentive' \in SUBSET present'
    /\ delivered' = [c \in Clients |-> IF c \in present' THEN delivered[c] ELSE 0]
    /\ UNCHANGED newest

(* A client may be sent something as it turns away.                         *)
Deliver(c) ==
    /\ c \in present
    /\ \E n \in delivered[c] + 1 .. newest : delivered' = [delivered EXCEPT ![c] = n]
    /\ attentive' \in {attentive, attentive \ {c}}
    /\ UNCHANGED <<newest, present>>

Next == Made \/ Moves \/ \E c \in Clients : Deliver(c)

Spec == Init /\ [][Next]_vars

FairSpec ==
    Spec /\ \A c \in Clients : WF_vars(c \in attentive /\ Deliver(c))
=============================================================================
