----------------------------- MODULE StatusReader -----------------------------
(***************************************************************************)
(* The status reader as its owner has it, service/reader.py: with a poll   *)
(* interval it polls (PollLoop), without one it is notified (Reader), and  *)
(* in both modes it keeps the same promise (Sampling).  _running is one    *)
(* attribute; the rest of each mode's state is its own.                    *)
(***************************************************************************)
EXTENDS PollLoop

CONSTANT MaxPackets    \* bound: packets the device sends

ASSUME PacketsAssumption == MaxPackets \in Nat

VARIABLES
    polling,    \* was it made with a poll interval?
    at, up, subscribed, completion, awaited, task, rest, sent, last, strays

notifiedVars == <<at, up, subscribed, completion, awaited, task, rest, sent, last, strays>>
polledVars == <<loop, stopping, poke, gatt, writer, since, lost>>
bothVars == <<polling, running, notifiedVars, polledVars>>

Notified == INSTANCE Reader

ReaderInit == polling \in BOOLEAN /\ Notified!Init /\ Init

ReaderNext ==
    \/ ~polling /\ Notified!Next /\ UNCHANGED <<polling, polledVars>>
    \/ polling /\ Next /\ UNCHANGED <<polling, notifiedVars>>

ReaderSpec == ReaderInit /\ [][ReaderNext]_bothVars

FairReaderSpec == ReaderSpec /\ Notified!Fairness /\ Fairness

-----------------------------------------------------------------------------
(* The state of the mode that is chosen stays in its ranges, PollLoop's lock*)
(* and its queue among it.                                                  *)
ReaderTypeOK ==
    /\ polling \in BOOLEAN
    /\ IF polling THEN TypeOK ELSE Notified!TypeOK

(* The promises of the notified mode, stated in its module: split packets in*)
(* order, and follow-up reads that end.                                     *)
OnlyWholeOvertakes == Notified!OnlyWholeOvertakes
BusyEnds == Notified!BusyEnds

(* A reader that polls keeps PollLoop's, that reads go on whatever is raised*)
(* among them.                                                              *)
PolledReadsGoOn == polling => PollingGoesOn

Service ==
    IF polling
    THEN IF running THEN "on" ELSE IF loop = "off" THEN "off" ELSE "stopping"
    ELSE IF at = "running" THEN "on" ELSE IF at \in {"off", "starting"} THEN at ELSE "stopping"

(* A read begins only for a subscription, or a poll loop, of a start that   *)
(* was not yet undone.  A stop ends at whichever await it meets the reader, *)
(* and with it every read that began while the reader ran (reader.py:222);  *)
(* the reads that notifications begin meanwhile, which _on_notify does not  *)
(* tell apart, end after their subscription.  All that is lost with the     *)
(* cancellation of a poll loop (which needs Python 3.11).                   *)
Promise == INSTANCE Sampling WITH
    service <- Service,
    source <- IF polling THEN running \/ lost ELSE subscribed,
    working <- IF polling THEN loop = "reading" /\ ~lost ELSE Notified!Alive \ strays # {},
    stray <- IF polling THEN loop = "reading" /\ lost ELSE Notified!Alive \cap strays # {},
    deaf <- lost

ImplementsSampling == Promise!FairSpec
=============================================================================
