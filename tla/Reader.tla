-------------------------------- MODULE Reader --------------------------------
(***************************************************************************)
(* The status reader in its notification mode, service/reader.py, driven   *)
(* by the session's connects and teardowns.  Packets arrive split: a       *)
(* notification brings the first part, and a task reads the remainder,     *)
(* which the device serves of the packet it sent last.                     *)
(*                                                                         *)
(* A packet is its number in the order sent, and the task that completes   *)
(* it has the same number.  Two parts of different packets do not sum to   *)
(* zero: the checksum tells them apart.  A notification that does not      *)
(* begin a packet is dropped by its first bytes and is not modelled.       *)
(***************************************************************************)
EXTENDS Naturals, FiniteSets

CONSTANT MaxPackets    \* bound: packets the device sends

Packets == 1..MaxPackets
None == 0

VARIABLES
    at,          \* the await the session is suspended at in start() or stop()
    up,          \* is there a connection?
    subscribed,  \* does the backend call _on_notify?
    running,     \* _running
    completion,  \* _completion: the packet of the task it refers to, or None
    awaited,     \* the task stop() awaits
    task,        \* per packet: its completion task
    rest,        \* the packet whose remainder a task's read returned
    sent,        \* the packet the device sent last
    last,        \* history: what was published last, and whether it came whole
    strays       \* history: the tasks that began without a running reader

vars == <<at, up, subscribed, running, completion, awaited, task, rest, sent, last, strays>>
linkVars == <<up, subscribed>>
taskVars == <<completion, awaited, task, rest, strays>>
outVars == <<sent, last>>

TaskState == {"none", "reading", "cancelled", "got", "gotCancelled", "done"}
Alive == {p \in Packets : task[p] \notin {"none", "done"}}

Init ==
    /\ at = "off" /\ up = FALSE /\ subscribed = FALSE /\ running = FALSE
    /\ completion = None /\ awaited = None
    /\ task = [p \in Packets |-> "none"] /\ rest = [p \in Packets |-> None]
    /\ sent = 0 /\ last = [first |-> None, rest |-> None, whole |-> TRUE]
    /\ strays = {}

-----------------------------------------------------------------------------
(* _publish drops what its checksum does not vouch for.                     *)

Trusted(first, remainder) == first = remainder

Publish(first, remainder, whole) ==
    last' = IF Trusted(first, remainder)
            THEN [first |-> first, rest |-> remainder, whole |-> whole]
            ELSE last

-----------------------------------------------------------------------------
(* _on_notify                                                               *)

BusyNever == FALSE                                \* fault: follow-ups not serialised
Busy == completion \in Alive

NotifyWhole ==
    /\ sent' = sent + 1
    /\ Publish(sent', sent', TRUE)
    /\ UNCHANGED taskVars

NotifyFirstPart ==
    /\ sent' = sent + 1
    /\ IF Busy
       THEN UNCHANGED taskVars
       ELSE /\ completion' = sent' /\ task' = [task EXCEPT ![sent'] = "reading"]
            /\ strays' = IF at = "running" THEN strays ELSE strays \cup {sent'}
            /\ UNCHANGED <<awaited, rest>>
    /\ UNCHANGED last

(* It never looks at _running: notifications come to a reader that is being *)
(* started or stopped, and to one that was stopped but not unsubscribed.    *)
OnNotify ==
    /\ up /\ subscribed /\ sent < MaxPackets
    /\ NotifyWhole \/ NotifyFirstPart
    /\ UNCHANGED <<at, linkVars, running>>

-----------------------------------------------------------------------------
(* _complete_partial                                                        *)

(* Fault: reads are not serialised (ble.py:241).                            *)
ReadAnswersBeside(p) ==
    /\ task[p] = "reading" /\ up
    /\ task' = [task EXCEPT ![p] = "got"] /\ rest' = [rest EXCEPT ![p] = sent]
    /\ UNCHANGED <<at, linkVars, running, completion, awaited, strays, outVars>>

(* A read follows another under the GATT lock, and takes a turn of the radio*)
(* at least: the task of the earlier one has run when the later is answered.*)
ReadAnswers(p) ==
    /\ task[p] = "reading" /\ up
    /\ \A q \in Packets : task[q] \notin {"got", "gotCancelled"}
    /\ task' = [task EXCEPT ![p] = "got"] /\ rest' = [rest EXCEPT ![p] = sent]
    /\ UNCHANGED <<at, linkVars, running, completion, awaited, strays, outVars>>

(* Fault: a read of a link that is up is waited for without a limit.        *)
ReadFailsOnDrop(p) ==
    /\ \/ task[p] = "reading" /\ ~up
       \/ task[p] = "cancelled"
    /\ task' = [task EXCEPT ![p] = "done"]
    /\ UNCHANGED <<at, linkVars, running, completion, awaited, rest, strays, outVars>>

(* It raised, timed out or was cancelled.                                   *)
ReadFails(p) ==
    /\ task[p] \in {"reading", "cancelled"}
    /\ task' = [task EXCEPT ![p] = "done"]
    /\ UNCHANGED <<at, linkVars, running, completion, awaited, rest, strays, outVars>>

(* A cancellation that arrives with the data is swallowed by wait_for       *)
(* before Python 3.12 and raised since.                                     *)
Completes(p) ==
    /\ task[p] \in {"got", "gotCancelled"}
    /\ task' = [task EXCEPT ![p] = "done"]
    /\ \/ Publish(p, rest[p], FALSE)
       \/ task[p] = "gotCancelled" /\ UNCHANGED last
    /\ UNCHANGED <<at, linkVars, running, completion, awaited, rest, strays, sent>>

-----------------------------------------------------------------------------
(* start() and stop(), as _connect and _teardown call them                  *)

StartCall ==
    /\ at = "off" /\ ~up
    /\ up' = TRUE /\ at' = "starting"
    /\ UNCHANGED <<subscribed, running, taskVars, outVars>>

(* Notifications may come before subscribe() returns.                       *)
Subscribes ==
    /\ at = "starting" /\ up /\ ~subscribed
    /\ subscribed' = TRUE
    /\ UNCHANGED <<at, up, running, taskVars, outVars>>

StartReturns ==
    /\ at = "starting" /\ subscribed
    /\ running' = TRUE /\ at' = "running"
    /\ UNCHANGED <<linkVars, taskVars, outVars>>

(* subscribe() raised, or the supervisor was cancelled in it.               *)
StartFails ==
    /\ at = "starting"
    /\ at' = "off"
    /\ UNCHANGED <<linkVars, running, taskVars, outVars>>

(* Fault: a completion in flight is left to itself.                         *)
StopCallForgets ==
    /\ at = "running"
    /\ running' = FALSE
    /\ completion' = None /\ at' = "unsubscribing"
    /\ UNCHANGED <<linkVars, awaited, task, rest, strays, outVars>>

StopCall ==
    /\ at = "running"
    /\ running' = FALSE
    /\ IF Busy
       THEN /\ task' = [task EXCEPT ![completion] =
                          IF @ = "reading" THEN "cancelled" ELSE "gotCancelled"]
            /\ awaited' = completion /\ at' = "stopping"
            /\ UNCHANGED <<completion, rest>>
       ELSE /\ completion' = None /\ at' = "unsubscribing"
            /\ UNCHANGED <<awaited, task, rest>>
    /\ UNCHANGED <<linkVars, strays, outVars>>

(* The task that was cancelled is done: _completion is forgotten, whichever *)
(* task it refers to by now.                                                *)
CompletionAwaited ==
    /\ at = "stopping" /\ task[awaited] = "done"
    /\ completion' = None /\ awaited' = None /\ at' = "unsubscribing"
    /\ UNCHANGED <<linkVars, running, task, rest, strays, outVars>>

(* unsubscribe() has returned, or raised and left the subscription.         *)
StopReturns ==
    /\ at = "unsubscribing"
    /\ subscribed' \in {FALSE, subscribed}
    /\ at' = "off"
    /\ UNCHANGED <<up, running, taskVars, outVars>>

(* transport.disconnect(), or a drop.                                       *)
LinkEnds ==
    /\ up
    /\ up' = FALSE /\ subscribed' = FALSE
    /\ UNCHANGED <<at, running, taskVars, outVars>>

-----------------------------------------------------------------------------
CompletionStep(p) == ReadAnswers(p) \/ ReadFails(p) \/ Completes(p)

SessionStep ==
    \/ StartCall \/ Subscribes \/ StartReturns \/ StartFails
    \/ StopCall \/ CompletionAwaited \/ StopReturns

Next == (\E p \in Packets : CompletionStep(p)) \/ SessionStep \/ OnNotify \/ LinkEnds

Spec == Init /\ [][Next]_vars

(* Tasks run, a read ends within its five seconds, and so does stop().      *)
Fairness ==
    /\ \A p \in Packets : WF_vars(ReadFails(p) \/ Completes(p))
    /\ WF_vars(CompletionAwaited \/ StopReturns)

FairSpec == Spec /\ Fairness

-----------------------------------------------------------------------------
(* Every variable stays in its range, and _running is true exactly from     *)
(* start()'s return to stop()'s call.                                       *)
TypeOK ==
    /\ at \in {"off", "starting", "running", "stopping", "unsubscribing"}
    /\ up \in BOOLEAN /\ subscribed \in BOOLEAN /\ running = (at = "running")
    /\ completion \in Packets \cup {None} /\ awaited \in Packets \cup {None}
    /\ task \in [Packets -> TaskState] /\ rest \in [Packets -> Packets \cup {None}]
    /\ sent \in 0..MaxPackets
    /\ last \in [first : Packets \cup {None}, rest : Packets \cup {None}, whole : BOOLEAN]
    /\ strays \subseteq Packets

(* A stopped reader leaves no read behind: "a read that outlives the        *)
(* subscription produces a storm of backend errors at teardown"             *)
(* (reader.py:222).                                                         *)
StoppedIsQuiet == at = "off" => Alive = {}

(* "Publication order can briefly invert" (reader.py:393), but only behind  *)
(* a packet that arrived whole: split packets are published as sent, those  *)
(* among them whose reads outlive a stop and end on the next connection.    *)
OnlyWholeOvertakes == [][last'.first < last.first => last.whole]_vars

(* The reader does not stay deaf to split packets: a completion that makes  *)
(* it skip them ends, on a link that drops, stalls or comes back.           *)
BusyEnds == \A p \in Packets : p \in Alive ~> p \notin Alive
=============================================================================
