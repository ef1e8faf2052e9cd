------------------------------ MODULE Commander ------------------------------
(***************************************************************************)
(* The write path, service/commander.py, under the API's one translation   *)
(* of how a command can end (api/service.py, _command).  The protocol has  *)
(* no acknowledgement: a command reads a baseline, writes, and waits for a *)
(* status packet that shows it done, or gives up at its deadline.          *)
(*                                                                         *)
(* Requests run concurrently on the event loop and share the commander's   *)
(* last state and its asyncio.Event; nothing serialises them.  Setting the *)
(* event makes every task that waits on it runnable, but they run later,   *)
(* one by one.  Packets that reach _on_state have passed their checksum    *)
(* (the reader drops the others), so trust is not modelled; nor is poke(), *)
(* which does nothing under notifications.                                 *)
(***************************************************************************)
EXTENDS Naturals, Sequences

CONSTANTS
    Requests,    \* the tasks that run commands, one after another each
    Modes,       \* running modes, besides "standby"
    Unlocked,    \* the modes set_mode may send
    Values,      \* targets, or fan speeds
    Permitted,   \* the values each mode accepts
    Offered,     \* the commands the requests run
    MaxInbox,    \* bound: commands the device has received and not acted on
    AppChanges   \* does the vendor app change the device while it has the slot?

ASSUME ModesAssumption == Unlocked \subseteq Modes /\ "standby" \notin Modes
ASSUME PermittedAssumption == Permitted \in [Modes -> SUBSET Values]
ASSUME AppAssumption == AppChanges \in BOOLEAN
ASSUME BoundAssumption == MaxInbox \in Nat

State == [mode : Modes \cup {"standby"}, value : Values]
NoState == [mode |-> "unknown"]

(* set_temperature and set_fan_percent are both "set": their values need a  *)
(* running unit, and a mode that permits them (every mode permits a fan).   *)
Command == [op : {"off"}, arg : {"standby"}, dry : BOOLEAN]
      \cup [op : {"mode"}, arg : Modes, dry : BOOLEAN]
      \cup [op : {"set"}, arg : Values, dry : BOOLEAN]

ASSUME OfferedAssumption == Offered \subseteq Command

VARIABLES
    device,    \* what the BedJet is doing
    inbox,     \* commands it has received and not acted on yet
    link,      \* "up"; "dropped": down, still reported CONNECTED; or "down"
    packet,    \* a status packet on its way (a notification and its remainder)
    latest,    \* Commander._latest
    updated,   \* Commander._updated
    fresh,     \* history: has a packet arrived on this connection?
    job        \* per request: where it is, what it wants, how the last one ended

(* at: the await it is suspended at.  woken: the event was set under it.    *)
(* late: its deadline has passed.  end: the API's answer to its last        *)
(* command.  wrote, seen (history): the write was called; since then a      *)
(* packet came that shows the command done.                                 *)
Job == [at : {"idle", "baseline", "write", "verify", "quiet"},
        cmd : Command, woken : BOOLEAN, late : BOOLEAN,
        end : {"none", "ok", "already", "dry", "refused", "unverified", "unavailable",
               "crashed"},
        wrote : BOOLEAN, seen : BOOLEAN]

vars == <<device, inbox, link, packet, latest, updated, fresh, job>>
commanderVars == <<latest, updated>>
deviceVars == <<device, inbox, packet>>
linkVars == <<link, fresh>>

Satisfied(cmd, s) == IF cmd.op = "set" THEN s.value = cmd.arg ELSE s.mode = cmd.arg

Init ==
    /\ device \in State /\ inbox = <<>> /\ packet = NoState
    /\ link = "up"
    /\ latest = NoState /\ updated = FALSE /\ fresh = FALSE
    /\ job = [c \in Requests |->
                [at |-> "idle", cmd |-> [op |-> "off", arg |-> "standby", dry |-> TRUE],
                 woken |-> FALSE, late |-> FALSE, end |-> "none",
                 wrote |-> FALSE, seen |-> FALSE]]

(* Request c has ended with an answer, or waits for the event, which lets   *)
(* it through at once when it is set already.                               *)
Ends(c, answer) ==
    job' = [job EXCEPT ![c].at = "idle", ![c].end = answer,
                       ![c].woken = FALSE, ![c].late = FALSE]
Waits(c, at) == job' = [job EXCEPT ![c].at = at, ![c].woken = updated']

-----------------------------------------------------------------------------
(* From the baseline to the write: no await in between.                     *)

Refused(cmd, s) ==
    cmd.op = "set" /\ (s.mode = "standby" \/ cmd.arg \notin Permitted[s.mode])

RequestWith(c, cmd) ==
    [job[c] EXCEPT !.cmd = cmd, !.end = "none", !.woken = FALSE, !.late = FALSE,
                   !.wrote = FALSE, !.seen = FALSE]

(* What is decided on a baseline s, in this order: refuse, answer that it   *)
(* is so already, rehearse, or forget the baseline and write.               *)
Decide(c, cmd, s) ==
    LET begun == RequestWith(c, cmd)
        answer == CASE Refused(cmd, s) -> "refused"
                    [] ~Refused(cmd, s) /\ Satisfied(cmd, s) -> "already"
                    [] OTHER -> "dry"
    IN  IF Refused(cmd, s) \/ Satisfied(cmd, s) \/ cmd.dry
        THEN /\ job' = [job EXCEPT ![c] = [begun EXCEPT !.at = "idle", !.end = answer]]
             /\ UNCHANGED commanderVars
        ELSE /\ job' = [job EXCEPT ![c] = [begun EXCEPT !.at = "write", !.wrote = TRUE]]
             /\ latest' = NoState /\ updated' = FALSE

Locked(cmd) == cmd.op = "mode" /\ cmd.arg \notin Unlocked

(* Answered before a baseline is asked for; a locked mode needs no link.    *)
CallAnswered(c, cmd) ==
    /\ Locked(cmd) \/ link = "down"
    /\ job' = [job EXCEPT ![c] = [RequestWith(c, cmd) EXCEPT
                  !.end = IF Locked(cmd) THEN "refused" ELSE "unavailable"]]
    /\ UNCHANGED commanderVars

CallWithBaseline(c, cmd) ==
    /\ link # "down" /\ ~Locked(cmd)
    /\ latest # NoState
    /\ Decide(c, cmd, latest)

CallWithoutBaseline(c, cmd) ==
    /\ link # "down" /\ ~Locked(cmd)
    /\ latest = NoState
    /\ updated' = FALSE /\ UNCHANGED latest
    /\ job' = [job EXCEPT ![c] = [RequestWith(c, cmd) EXCEPT !.at = "baseline"]]

Call(c) ==
    /\ job[c].at = "idle"
    /\ \E cmd \in Offered :
          CallAnswered(c, cmd) \/ CallWithBaseline(c, cmd) \/ CallWithoutBaseline(c, cmd)
    /\ UNCHANGED <<deviceVars, linkVars>>

(* wait_for_state woke up; another request may have taken what woke it,     *)
(* which trips the assertion.                                               *)
BaselineArrives(c) ==
    /\ job[c].at = "baseline" /\ job[c].woken
    /\ IF latest = NoState
       THEN Ends(c, "crashed") /\ UNCHANGED commanderVars
       ELSE Decide(c, job[c].cmd, latest)
    /\ UNCHANGED <<deviceVars, linkVars>>

(* A timeout that fires before the woken task has run wins over the event.  *)
BaselineTimesOut(c) ==
    /\ job[c].at = "baseline"
    /\ Ends(c, "refused")
    /\ UNCHANGED <<deviceVars, linkVars, commanderVars>>

-----------------------------------------------------------------------------
(* The write                                                                *)

Delivered(cmd) == Len(inbox) < MaxInbox /\ inbox' = Append(inbox, cmd)

WriteSucceeds(c) ==
    /\ job[c].at = "write"
    /\ link = "up"
    /\ Delivered(job[c].cmd)
    /\ UNCHANGED <<device, packet, linkVars, commanderVars>>
    /\ Waits(c, "verify")

(* Fault: the transport's error is passed on as it is.                      *)
WriteFailsUnavailable(c) ==
    /\ job[c].at = "write"
    /\ Delivered(job[c].cmd) \/ UNCHANGED inbox
    /\ Ends(c, "unavailable")
    /\ UNCHANGED <<device, packet, linkVars, commanderVars>>

(* The link failed during the write, before the command was delivered or    *)
(* after.                                                                   *)
WriteFails(c) ==
    /\ job[c].at = "write"
    /\ Delivered(job[c].cmd) \/ UNCHANGED inbox
    /\ Ends(c, "unverified")
    /\ UNCHANGED <<device, packet, linkVars, commanderVars>>

-----------------------------------------------------------------------------
(* The verification loop: while before the deadline, wait half a second for *)
(* the event, and look at the last state if it was set.                     *)

(* Fault: the loop never looks at the deadline.                             *)
LoopsOnAlways(c) == Waits(c, "verify")

LoopsOn(c) == IF job[c].late THEN Ends(c, "unverified") ELSE Waits(c, "verify")

(* Fault: any packet after the write is taken for the confirmation.         *)
ConfirmsAny(c) == TRUE
Confirms(c) == Satisfied(job[c].cmd, latest)

VerifySees(c) ==
    /\ job[c].at = "verify" /\ job[c].woken
    /\ updated' = FALSE /\ UNCHANGED latest
    /\ CASE latest = NoState -> Ends(c, "crashed")
         [] latest # NoState /\ Confirms(c) -> Ends(c, "ok")
         [] OTHER -> LoopsOn(c)
    /\ UNCHANGED <<deviceVars, linkVars>>

(* The half second elapses; the task runs a little later, and the event may *)
(* be set before, in between or after.                                      *)
VerifyTimesOut(c) ==
    /\ job[c].at = "verify"
    /\ job' = [job EXCEPT ![c].at = "quiet"]
    /\ UNCHANGED <<deviceVars, linkVars, commanderVars>>

VerifyQuiet(c) ==
    /\ job[c].at = "quiet"
    /\ UNCHANGED <<deviceVars, linkVars, commanderVars>>
    /\ LoopsOn(c)

DeadlinePasses(c) ==
    /\ job[c].at \in {"verify", "quiet"} /\ ~job[c].late
    /\ job' = [job EXCEPT ![c].late = TRUE]
    /\ UNCHANGED <<deviceVars, linkVars, commanderVars>>

-----------------------------------------------------------------------------
(* Device and link                                                          *)

Acted(cmd, s) ==
    CASE cmd.op \in {"off", "mode"} -> [s EXCEPT !.mode = cmd.arg]
      [] cmd.op = "set" /\ s.mode \in Modes /\ cmd.arg \in Permitted[s.mode] ->
           [s EXCEPT !.value = cmd.arg]
      [] OTHER -> s

(* The device acts on the oldest command, or ignores it.                    *)
DeviceActs ==
    /\ inbox # <<>> /\ inbox' = Tail(inbox)
    /\ device' \in {device, Acted(Head(inbox), device)}
    /\ UNCHANGED <<packet, linkVars, commanderVars, job>>

DeviceReports ==
    /\ link = "up" /\ packet = NoState
    /\ packet' = device
    /\ UNCHANGED <<device, inbox, linkVars, commanderVars, job>>

(* _on_state: the state is kept, and the event wakes every waiter.          *)
OnState ==
    /\ packet # NoState /\ packet' = NoState
    /\ latest' = packet /\ updated' = TRUE /\ fresh' = TRUE
    /\ job' = [c \in Requests |-> [job[c] EXCEPT
                  !.woken = @ \/ job[c].at \in {"baseline", "verify"},
                  !.seen = @ \/ (job[c].at \in {"write", "verify", "quiet"}
                                   /\ Satisfied(job[c].cmd, packet))]]
    /\ UNCHANGED <<device, inbox, link>>

LinkDrops ==
    /\ link = "up" /\ link' = "dropped" /\ packet' = NoState
    /\ UNCHANGED <<device, inbox, fresh, commanderVars, job>>

(* The supervisor notices the drop, or a yield gives the link up; neither   *)
(* tells the commander, whose last state outlives the connection.           *)
LinkGoes ==
    /\ link # "down" /\ link' = "down" /\ packet' = NoState
    /\ UNCHANGED <<device, inbox, fresh, commanderVars, job>>

LinkReturns ==
    /\ link = "down" /\ link' = "up" /\ fresh' = FALSE
    /\ UNCHANGED <<deviceVars, commanderVars, job>>

AppActs ==
    /\ AppChanges /\ link = "down"
    /\ device' \in State \ {device}
    /\ UNCHANGED <<inbox, packet, linkVars, commanderVars, job>>

-----------------------------------------------------------------------------
RequestStep(c) ==
    \/ BaselineArrives(c) \/ BaselineTimesOut(c)
    \/ WriteSucceeds(c) \/ WriteFails(c)
    \/ VerifySees(c) \/ VerifyTimesOut(c) \/ VerifyQuiet(c)

Next ==
    \/ \E c \in Requests : Call(c) \/ RequestStep(c) \/ DeadlinePasses(c)
    \/ DeviceActs \/ DeviceReports \/ OnState
    \/ LinkDrops \/ LinkGoes \/ LinkReturns \/ AppActs

Spec == Init /\ [][Next]_vars

(* The loop runs what can run, and awaits end: GATT writes return or fail,  *)
(* time passes.  Nothing is assumed of the device or the link.              *)
FairSpec ==
    Spec /\ \A c \in Requests : WF_vars(RequestStep(c)) /\ WF_vars(DeadlinePasses(c))
-----------------------------------------------------------------------------
(* Every variable stays in its range.                                       *)
TypeOK ==
    /\ device \in State
    /\ inbox \in Seq(Command) /\ Len(inbox) <= MaxInbox
    /\ link \in {"up", "dropped", "down"} /\ fresh \in BOOLEAN
    /\ packet \in State \cup {NoState} /\ latest \in State \cup {NoState}
    /\ updated \in BOOLEAN
    /\ job \in [Requests -> Job]

(* "unavailable", a refusal and ok without a change all mean that nothing   *)
(* was written (ADR-0004 decision 4; api/service.py:262): no answer of the  *)
(* kind follows a write, which may have been delivered.                     *)
NothingSentMeansNothingSent ==
    \A c \in Requests :
        job[c].end \in {"refused", "already", "dry", "unavailable"} => ~job[c].wrote

(* A command is called verified only on a packet that arrived after it was  *)
(* written and shows it done, never on the state it started from or on what *)
(* another request left behind (commander.py:6 and :243).                   *)
VerifiedIsObserved ==
    \A c \in Requests : job[c].end = "ok" => job[c].wrote /\ job[c].seen

(* "assert self._latest is not None" (commander.py:196 and :280): a task    *)
(* the event woke finds a state.                                            *)
AssertionsHold == \A c \in Requests : job[c].end # "crashed"

(* "ok=true with changed=false means the request was already satisfied"     *)
(* (api/contract.py:196): it was, or at least a packet of this connection   *)
(* said so.                                                                 *)
AlreadyMeansSatisfied ==
    [][\A c \in Requests :
          (job'[c] # job[c] /\ job'[c].end = "already")
             => Satisfied(job'[c].cmd, device) \/ fresh]_vars

(* Every command is answered, whatever the device and the link do, and      *)
(* whatever other requests take from under it.                              *)
CommandsReturn == \A c \in Requests : job[c].at # "idle" ~> job[c].at = "idle"
=============================================================================
