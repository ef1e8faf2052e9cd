------------------------------- MODULE Sampling -------------------------------
(***************************************************************************)
(* What a status reader promises its owner, the session, in either of its  *)
(* modes.  A read begins only on behalf of a source (a subscription, or a  *)
(* poll loop), which only a start opens and which no start inherits; a     *)
(* stop ends, and ends every read that began while the reader was on; one  *)
(* that did not, a stray, ends once its source is gone.  No packet, no     *)
(* task, no lock.                                                          *)
(***************************************************************************)

VARIABLES
    service,  \* off, starting, on, or stopping
    source,   \* may a read begin?
    working,  \* is a read under way that began while the service was on?
    stray,    \* is one under way that did not?
    deaf      \* has it lost the cancellation it was stopped with?

vars == <<service, source, working, stray, deaf>>

Init == service = "off" /\ source = FALSE /\ working = FALSE /\ stray = FALSE /\ deaf = FALSE

Starts ==
    /\ service = "off" /\ ~source
    /\ \/ service' = "starting" /\ UNCHANGED <<source, working>>
       \/ service' = "on" /\ source' = TRUE /\ working' \in BOOLEAN
    /\ UNCHANGED <<stray, deaf>>

Opens ==
    /\ service = "starting" /\ source' = TRUE
    /\ UNCHANGED <<service, working, stray, deaf>>

Started ==
    /\ service = "starting" /\ source /\ service' = "on"
    /\ UNCHANGED <<source, working, stray, deaf>>

StartFails ==
    /\ service = "starting" /\ service' = "off"
    /\ UNCHANGED <<source, working, stray, deaf>>

Begins ==
    /\ source
    /\ IF service = "on" THEN working' = TRUE /\ UNCHANGED stray
                         ELSE stray' = TRUE /\ UNCHANGED working
    /\ UNCHANGED <<service, source, deaf>>

Ends ==
    /\ \/ working' = FALSE /\ UNCHANGED stray
       \/ stray' = FALSE /\ UNCHANGED working
    /\ UNCHANGED <<service, source, deaf>>

Closes == source' = FALSE /\ UNCHANGED <<service, working, stray, deaf>>

Stops ==
    /\ service = "on" /\ service' = "stopping"
    /\ source' \in {source, FALSE}
    /\ UNCHANGED <<working, stray, deaf>>

(* The promise ends here: what goes on then, goes on for ever.              *)
GoesDeaf ==
    /\ service = "stopping" /\ deaf' = TRUE
    /\ source' = TRUE /\ stray' = TRUE
    /\ UNCHANGED <<service, working>>

(* An unsubscribe may fail, and leave its source open.                      *)
Stopped ==
    /\ service = "stopping" /\ service' = "off" /\ working' = FALSE
    /\ source' \in {source, FALSE}
    /\ UNCHANGED <<stray, deaf>>

Next ==
    \/ Starts \/ Opens \/ Started \/ StartFails \/ Begins \/ Ends \/ Closes
    \/ Stops \/ GoesDeaf \/ Stopped

Spec == Init /\ [][Next]_vars

(* A stop ends, of a reader that has heard it, and so does a read that has  *)
(* lost its source.                                                         *)
FairSpec == Spec /\ WF_vars(~deaf /\ Stopped) /\ WF_vars(~source /\ Ends)
=============================================================================
