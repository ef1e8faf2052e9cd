---------------------------- MODULE ShutdownProofs ----------------------------
(***************************************************************************)
(* The honesty of a release, whatever loses cancellations, however many,   *)
(* and whatever becomes of the disconnects.                                *)
(***************************************************************************)
EXTENDS Shutdown, TLAPS

(* When session.stop() runs, the adapter and its requests have ended.       *)
RequestsAreOver ==
    /\ at \in {"supervisor"} \cup TearingDown => adapter = "ended"
    /\ adapter = "ended" => request = "none"

(* A link that is ours and that the transport has no client for is one that *)
(* is being disconnected, or that was not disconnected.                     *)
ForgottenOnPurpose ==
    (at # "exited" /\ slotHeld /\ ~client) =>
        botched \/ request = "disconnecting" \/ at = "disconnecting"

(* SaidIsTrue is not inductive: of a stop() that finds no client it would   *)
(* have to know why there is none, and that no yield is still about it.     *)
ReleaseInv == RequestsAreOver /\ ForgottenOnPurpose /\ SaidIsTrue

LEMMA ReleaseInit == Init => ReleaseInv
  BY DEF Init, ReleaseInv, RequestsAreOver, ForgottenOnPurpose, SaidIsTrue, TearingDown

LEMMA ReleaseStep == ReleaseInv /\ [Next]_vars => ReleaseInv'
<1> SUFFICES ASSUME ReleaseInv, [Next]_vars PROVE ReleaseInv'
  OBVIOUS
<1> USE DEF ReleaseInv, RequestsAreOver, ForgottenOnPurpose, SaidIsTrue, TearingDown,
            adapterVars, linkVars
<1>1. CASE Starts
  BY <1>1 DEF Starts
<1>2. CASE StartRaises
  BY <1>2 DEF StartRaises
<1>3. CASE LinkStep
  BY <1>3 DEF LinkStep, LinkDrops, Reconnects
<1>4. CASE RequestStep
  <2>1. CASE RequestComes
    BY <2>1 DEF RequestComes
  <2>2. CASE YieldDisconnects
    BY <2>2 DEF YieldDisconnects, Forgets
  <2>3. CASE YieldDisconnected
    BY <2>3 DEF YieldDisconnected, Disconnected
  <2>4. CASE RequestEnds
    BY <2>4 DEF RequestEnds
  <2> QED BY <1>4, <2>1, <2>2, <2>3, <2>4 DEF RequestStep
<1>5. CASE AdapterStep
  <2> USE DEF RequestCut
  <2>1. CASE BrokerLost
    BY <2>1 DEF BrokerLost
  <2>2. CASE BridgeFails
    BY <2>2 DEF BridgeFails
  <2>3. CASE AdapterEnds
    <3>1. CASE adapter = "cancelled" /\ adapter' = "ending"
      BY <2>3, <3>1 DEF AdapterEnds
    <3>2. CASE adapter = "ending" /\ adapter' = "ended" /\ request = "none"
      BY <2>3, <3>2 DEF AdapterEnds
    <3> QED BY <2>3, <3>1, <3>2 DEF AdapterEnds
  <2>4. CASE BridgeLosesCancellation
    BY <2>4 DEF BridgeLosesCancellation
  <2> QED BY <1>5, <2>1, <2>2, <2>3, <2>4 DEF AdapterStep
<1>6. CASE ReleaseBegins
  BY <1>6 DEF ReleaseBegins
<1>7. CASE DaemonStep
  <2>1. CASE CloserReturns
    BY <2>1 DEF CloserReturns
  <2>2. CASE CloserRaises
    BY <2>2 DEF CloserRaises
  <2>3. CASE SupervisorEnds
    BY <2>3 DEF SupervisorEnds
  <2>4. CASE StopGoesOn
    BY <2>4 DEF StopGoesOn
  <2>5. CASE StopDisconnects
    BY <2>5 DEF StopDisconnects, Forgets
  <2>6. CASE StopReturns
    BY <2>6 DEF StopReturns, Disconnected
  <2> QED BY <1>7, <2>1, <2>2, <2>3, <2>4, <2>5, <2>6 DEF DaemonStep
<1>8. CASE SupervisorLosesCancellation
  BY <1>8 DEF SupervisorLosesCancellation
<1>9. CASE GraceExpires
  <2>1. CASE PassedOn
    BY <1>9, <2>1 DEF GraceExpires, PassedOn, Releasing
  <2>2. CASE Abandoned
    BY <1>9, <2>2 DEF GraceExpires, Abandoned
  <2> QED BY <1>9, <2>1, <2>2 DEF GraceExpires
<1>10. CASE UNCHANGED vars
  BY <1>10 DEF vars
<1> QED
  BY <1>1, <1>2, <1>3, <1>4, <1>5, <1>6, <1>7, <1>8, <1>9, <1>10 DEF Next

(* A daemon leaves with the link only after it has said so, of a failure of *)
(* its adapter, or after a disconnect that raised or was cut short: a yield *)
(* that is still at the link, a link made behind the release's back, and    *)
(* whatever the grace period interrupts leave it no other way.              *)
THEOREM WhatIsSaidIsTrue == Spec => []SaidIsTrue
<1>1. ReleaseInv => SaidIsTrue
  BY DEF ReleaseInv
<1> QED BY <1>1, ReleaseInit, ReleaseStep, PTL DEF Spec
=============================================================================
