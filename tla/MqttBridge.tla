------------------------------ MODULE MqttBridge ------------------------------
(***************************************************************************)
(* The MQTT adapter, integrations/mqtt.py: the task of run() with its      *)
(* broker sessions, the publisher task of each, the queue between the      *)
(* session's notifications and the publisher, and the two retained topics. *)
(* The broker, its will and the client library are external.               *)
(*                                                                         *)
(* A snapshot is its number in the order of notification, and whether it   *)
(* says that the device is available and its reading fresh.                *)
(***************************************************************************)
EXTENDS Naturals, Sequences

CONSTANTS
    Capacity,         \* what the queue holds
    MaxNotified,      \* bound: notifications
    BrokerFails,      \* may the broker refuse a client, or lose one?
    PublishTimesOut,  \* may a publish() raise on a connection that stays up?
    InfiniteNumbers   \* may a command's number be infinite?

ASSUME BoundsAssumption == Capacity \in Nat \ {0} /\ MaxNotified \in Nat
ASSUME EnvironmentAssumption ==
    {BrokerFails, PublishTimesOut, InfiniteNumbers} \subseteq BOOLEAN

VARIABLES
    link,       \* is the session's link CONNECTED?
    stale,      \* is its reading too old?
    notified,   \* the number of the newest notification
    run,        \* the await run() is suspended at
    why,        \* what its finally clauses will raise: nothing, "mqtt", "cancel", "other"
    cancelled,  \* has the daemon cancelled it, which has yet to see it?
    asked,      \* history: has the daemon ever cancelled it?
    fate,       \* history: of that cancellation, "lost" or "curt" if it was lost, or
                \* cut a goodbye short
    greeting,   \* the snapshot _session publishes first
    queue,      \* _outgoing
    pub,        \* the await the session's publisher is suspended at; "dead" of an
                \* MqttError, "ended" when the session has awaited its end
    item,       \* the snapshot it publishes
    mute,       \* history: has it, or the goodbye, raised while the connection was up?
    conn,       \* the broker connection
    willDue,    \* has the broker still to publish the will of a lost connection?
    retained    \* the retained availability and state on the broker

vars == <<link, stale, notified, run, why, cancelled, asked, fate, greeting,
          queue, pub, item, mute, conn, willDue, retained>>
deviceVars == <<link, stale, notified>>
stopVars == <<cancelled, asked, fate>>
pubVars == <<queue, pub, item, mute>>
brokerVars == <<conn, willDue, retained>>

Snapshot == [n : 0..MaxNotified, online : BOOLEAN]

InSession == {"serving", "handling", "resulting"}
Greeting == {"greetAvail", "greetState"}
Label == InSession \cup Greeting \cup
           {"enter", "setup", "joining", "goodbye", "leaving", "sleeping", "done"}

(* api.snapshot(), and is_available of it.                                  *)
Current == [n |-> notified, online |-> link /\ ~stale]

(* The link is up after start(), and the last process said goodbye.         *)
Init ==
    /\ link = TRUE /\ stale \in BOOLEAN /\ notified = 0
    /\ run = "enter" /\ why = "nothing" /\ cancelled = FALSE /\ asked = FALSE /\ fate = "none"
    /\ greeting = Current /\ queue = <<>> /\ pub = "none" /\ item = Current /\ mute = FALSE
    /\ conn = "none" /\ willDue = FALSE
    /\ retained = [online |-> FALSE, n |-> 0]

(* A cancelled task does nothing but receive its CancelledError.            *)
At(label) == run = label /\ ~cancelled

-----------------------------------------------------------------------------
(* _enqueue, called for every notification of the session                   *)

EnqueueDropsNewest(s) ==                          \* fault: a full queue keeps what it has
    queue' = IF Len(queue) < Capacity THEN Append(queue, s) ELSE queue

Enqueue(s) ==
    queue' = Append(IF Len(queue) < Capacity THEN queue ELSE Tail(queue), s)

Notify ==
    /\ notified < MaxNotified /\ notified' = notified + 1
    /\ IF run = "done" THEN UNCHANGED queue
       ELSE Enqueue([n |-> notified', online |-> link' /\ ~stale'])
    /\ UNCHANGED <<run, why, stopVars, greeting, pub, item, mute, brokerVars>>

PacketArrives == stale' = FALSE /\ UNCHANGED link /\ Notify

LinkChanges == link' = ~link /\ UNCHANGED stale /\ Notify

(* Time passes, and nobody is told.                                         *)
ReadingAges ==
    /\ ~stale /\ stale' = TRUE
    /\ UNCHANGED <<link, notified, run, why, stopVars, greeting, pubVars, brokerVars>>

-----------------------------------------------------------------------------
(* publish(): it returns when the broker has the message, and raises an     *)
(* MqttError on a lost connection.  A retained publication is in flight at  *)
(* the awaits of _publish_state and of the goodbye.                         *)

(* What the topics hold when the publication in flight, if any, has arrived.*)
Arrived ==
    IF run = "goodbye" THEN [retained EXCEPT !.online = FALSE]
    ELSE IF run = "greetAvail" THEN [retained EXCEPT !.online = greeting.online]
    ELSE IF run = "greetState" THEN [retained EXCEPT !.n = greeting.n]
    ELSE IF pub = "avail" THEN [retained EXCEPT !.online = item.online]
    ELSE IF pub = "state" THEN [retained EXCEPT !.n = item.n]
    ELSE retained

MayHaveArrived ==
    retained' \in IF conn = "up" THEN {retained, Arrived} ELSE {retained}

Raises == (conn = "lost" \/ PublishTimesOut) /\ MayHaveArrived

-----------------------------------------------------------------------------
(* _publish_loop                                                            *)

Take ==
    /\ pub = "getting" /\ queue # <<>> /\ run \in InSession
    /\ item' = Head(queue) /\ queue' = Tail(queue) /\ pub' = "avail"
    /\ UNCHANGED <<deviceVars, run, why, stopVars, greeting, mute, brokerVars>>

PublishReturnsOnce ==                             \* fault: no loop
    /\ pub \in {"avail", "state"} /\ run \in InSession /\ conn = "up"
    /\ retained' = Arrived
    /\ pub' = IF pub = "avail" THEN "state" ELSE "ended"
    /\ UNCHANGED <<deviceVars, run, why, stopVars, greeting, queue, item, mute, conn, willDue>>

PublishReturns ==
    /\ pub \in {"avail", "state"} /\ run \in InSession /\ conn = "up"
    /\ retained' = Arrived
    /\ pub' = IF pub = "avail" THEN "state" ELSE "getting"
    /\ UNCHANGED <<deviceVars, run, why, stopVars, greeting, queue, item, mute, conn, willDue>>

PublishRaises ==
    /\ pub \in {"avail", "state"} /\ run \in InSession /\ Raises
    /\ pub' = "dead" /\ mute' = (conn # "lost")
    /\ UNCHANGED <<deviceVars, run, why, stopVars, greeting, queue, item, conn, willDue>>

-----------------------------------------------------------------------------
(* _session                                                                 *)

Goto(label, reason) == run' = label /\ why' = reason

(* A step that changes nothing else.                                        *)
Goes(label, reason) ==
    /\ Goto(label, reason)
    /\ UNCHANGED <<deviceVars, stopVars, greeting, pubVars, brokerVars>>

(* The broker takes over what it still believed connected, and its will.    *)
Enters ==
    /\ At("enter")
    /\ conn' = "up" /\ willDue' = FALSE
    /\ retained' = [retained EXCEPT !.online = @ /\ ~willDue]
    /\ Goto("setup", why) /\ pub' = "none" /\ mute' = FALSE
    /\ UNCHANGED <<deviceVars, stopVars, greeting, queue, item>>

EnterRaises == At("enter") /\ BrokerFails /\ Goes("sleeping", "nothing")

(* Fault: every session greets with the snapshot the bridge started with.   *)
SetupReturnsOld ==
    /\ At("setup") /\ conn = "up"
    /\ Goes("greetAvail", why)

(* Discovery is published and the command topics are subscribed to.         *)
SetupReturns ==
    /\ At("setup") /\ conn = "up"
    /\ greeting' = Current
    /\ Goto("greetAvail", why)
    /\ UNCHANGED <<deviceVars, stopVars, pubVars, brokerVars>>

Greeted ==
    /\ run \in Greeting /\ ~cancelled /\ conn = "up"
    /\ retained' = Arrived
    /\ IF run = "greetAvail" THEN Goto("greetState", why) /\ UNCHANGED pub
       ELSE Goto("serving", why) /\ pub' = "getting"
    /\ UNCHANGED <<deviceVars, stopVars, greeting, queue, item, mute, conn, willDue>>

(* The awaits before the try block: no goodbye follows.                     *)
GreetRaises ==
    /\ run \in Greeting \cup {"setup"} /\ ~cancelled /\ Raises
    /\ Goto("leaving", "mqtt")
    /\ UNCHANGED <<deviceVars, stopVars, greeting, pubVars, conn, willDue>>

(* _handle and _dispatch.                                                   *)
MessageArrives == At("serving") /\ conn = "up" /\ Goes("handling", why)

(* An outcome, an ApiError or a ValueError.                                 *)
HandleReports == At("handling") /\ Goes("resulting", why)

(* int() and round() of infinity raise an OverflowError, which is neither.  *)
HandleEscapes == At("handling") /\ InfiniteNumbers /\ Goes("joining", "other")

ResultReturns == At("resulting") /\ conn = "up" /\ Goes("serving", why)

ResultRaises == At("resulting") /\ (conn = "lost" \/ PublishTimesOut) /\ Goes("joining", "mqtt")

DisconnectSeen == At("serving") /\ conn = "lost" /\ Goes("joining", "mqtt")

(* The finally clause: the publisher, cancelled, has ended.  Suppressing    *)
(* its CancelledError suppresses one of our own; the MqttError it died of   *)
(* is raised in place of whatever brought us here, and skips the goodbye.   *)
Joined ==
    /\ run = "joining" /\ pub # "dead"
    /\ MayHaveArrived
    /\ cancelled' = FALSE /\ fate' = (IF cancelled THEN "lost" ELSE fate) /\ pub' = "ended"
    /\ Goto("goodbye", why)
    /\ UNCHANGED <<deviceVars, asked, greeting, queue, item, mute, conn, willDue>>

JoinRaises ==
    /\ run = "joining" /\ pub = "dead"
    /\ fate' = (IF why = "cancel" THEN "lost" ELSE fate) /\ pub' = "ended"
    /\ Goto("leaving", "mqtt")
    /\ UNCHANGED <<deviceVars, cancelled, asked, greeting, queue, item, mute, brokerVars>>

GoodbyeUnsaid ==                                  \* fault: no goodbye
    /\ At("goodbye")
    /\ Goes("leaving", why)

GoodbyeEnds ==
    /\ At("goodbye")
    /\ \/ conn = "up" /\ retained' = Arrived /\ UNCHANGED mute
       \/ Raises /\ mute' = (mute \/ conn # "lost")
    /\ Goto("leaving", why)
    /\ UNCHANGED <<deviceVars, stopVars, greeting, queue, pub, item, conn, willDue>>

(* The client disconnects, cleanly if it still can: no will then.           *)
Leaves ==
    /\ At("leaving")
    /\ conn' = "none"
    /\ Goto(IF why = "mqtt" THEN "sleeping" ELSE "done", "nothing")
    /\ UNCHANGED <<deviceVars, stopVars, greeting, pubVars, willDue, retained>>

Wakes == At("sleeping") /\ Goes("enter", why)

-----------------------------------------------------------------------------
(* _drain_bridge                                                            *)

Cancel ==
    /\ ~asked /\ run # "done"
    /\ asked' = TRUE /\ cancelled' = TRUE
    /\ UNCHANGED <<deviceVars, run, why, fate, greeting, pubVars, brokerVars>>

(* Fault: a cancelled command is reported like another, and the loop goes on.*)
InterruptedReports ==
    /\ cancelled /\ cancelled' = FALSE /\ run \in InSession
    /\ IF run = "handling" THEN Goto("resulting", why) ELSE Goto("joining", "cancel")
    /\ UNCHANGED <<deviceVars, asked, fate, greeting, pubVars, brokerVars>>

(* Inside the try block: the finally clause runs.                           *)
InterruptedServing ==
    /\ cancelled /\ cancelled' = FALSE /\ run \in InSession
    /\ Goto("joining", "cancel")
    /\ UNCHANGED <<deviceVars, asked, fate, greeting, pubVars, brokerVars>>

InterruptedOutside ==
    /\ cancelled /\ cancelled' = FALSE
    /\ run \in Greeting \cup {"setup", "goodbye"} /\ MayHaveArrived
    /\ fate' = IF run = "goodbye" THEN "curt" ELSE fate
    /\ Goto("leaving", "cancel")
    /\ UNCHANGED <<deviceVars, asked, greeting, pubVars, conn, willDue>>

InterruptedAway ==
    /\ cancelled /\ cancelled' = FALSE
    /\ run \in {"enter", "leaving", "sleeping"} /\ conn' = "none"
    /\ Goto("done", "nothing")
    /\ UNCHANGED <<deviceVars, asked, fate, greeting, pubVars, willDue, retained>>

-----------------------------------------------------------------------------
(* The broker                                                               *)

BrokerLost ==
    /\ BrokerFails /\ conn = "up"
    /\ conn' = "lost" /\ willDue' = TRUE /\ MayHaveArrived
    /\ UNCHANGED <<deviceVars, run, why, stopVars, greeting, pubVars>>

WillPublished ==
    /\ willDue /\ willDue' = FALSE
    /\ retained' = [retained EXCEPT !.online = FALSE]
    /\ UNCHANGED <<deviceVars, run, why, stopVars, greeting, pubVars, conn>>

-----------------------------------------------------------------------------
RunStep ==
    \/ Enters \/ EnterRaises \/ SetupReturns \/ Greeted \/ GreetRaises
    \/ HandleReports \/ HandleEscapes \/ ResultReturns \/ ResultRaises
    \/ DisconnectSeen \/ Joined \/ JoinRaises \/ GoodbyeEnds \/ Leaves \/ Wakes
    \/ InterruptedServing \/ InterruptedOutside \/ InterruptedAway

PublisherStep == Take \/ PublishReturns \/ PublishRaises

Next ==
    \/ RunStep \/ PublisherStep
    \/ PacketArrives \/ LinkChanges \/ ReadingAges
    \/ MessageArrives \/ Cancel \/ BrokerLost \/ WillPublished

Spec == Init /\ [][Next]_vars

(* The tasks run, and every await but that for a message ends.              *)
FairSpec == Spec /\ WF_vars(RunStep) /\ WF_vars(PublisherStep)

-----------------------------------------------------------------------------
(* Every variable stays in its range, and the queue within its capacity.    *)
TypeOK ==
    /\ link \in BOOLEAN /\ stale \in BOOLEAN /\ notified \in 0..MaxNotified
    /\ run \in Label /\ why \in {"nothing", "mqtt", "cancel", "other"}
    /\ cancelled \in BOOLEAN /\ asked \in BOOLEAN /\ fate \in {"none", "lost", "curt"}
    /\ greeting \in Snapshot /\ item \in Snapshot
    /\ queue \in Seq(Snapshot) /\ Len(queue) <= Capacity
    /\ pub \in {"none", "getting", "avail", "state", "dead", "ended"}
    /\ mute \in BOOLEAN
    /\ conn \in {"none", "up", "lost"} /\ willDue \in BOOLEAN
    /\ retained \in Snapshot

(* "Newest-wins" (mqtt.py:243): a publisher with nothing left to publish    *)
(* has left the newest state on the broker, and "online" only with a link,  *)
(* whatever a full queue, a lost broker or a cancelled publisher dropped.   *)
Settled ==
    (pub = "getting" /\ queue = <<>>) =>
        retained.n = notified /\ (retained.online => link)

(* The retained state falls back only while a newer one waits behind it: a  *)
(* session greets with the present and then publishes what was queued.      *)
FallsBackOnlyBehindNewer ==
    [][retained'.n < retained.n =>
          \E i \in 1..Len(queue) : queue[i].n = notified]_vars

(* "The will covers a crash" (mqtt.py:303) and the goodbye the rest: a      *)
(* session that was served leaves no "online" on the broker, whatever its   *)
(* publisher was doing when it ended and whichever publish() of a command's *)
(* result failed; but if its goodbye is interrupted, or, on a connection    *)
(* that is up, raises itself or is skipped for a publisher that raised.     *)
GoodbyeSaid ==
    (pub = "ended" /\ run \in {"sleeping", "enter", "done"}) =>
        willDue \/ ~retained.online \/ fate = "curt" \/ mute

(* "A clean exit should not leave a retained "online" behind for the next   *)
(* subscriber to believe" (mqtt.py:303).                                    *)
ExitIsOffline == run = "done" => willDue \/ ~retained.online

(* It "publishes state ... and reconnects ... on its own" (mqtt.py:238): on *)
(* a connection that stays up the newest state reaches the broker.          *)
StateGetsOut ==
    retained.n # notified ~> (retained.n = notified \/ conn # "up" \/ run = "done")

(* So it does while the publisher lives, whatever else raises beside it and *)
(* however often the session begins anew.                                   *)
NewestGetsPublished ==
    retained.n # notified ~>
        (retained.n = notified \/ conn # "up" \/ run = "done" \/ pub = "dead")

(* "A reading we have not been able to refresh is published as offline      *)
(* rather than left sitting on the broker looking live" (mqtt.py:15).       *)
StaleGoesOffline ==
    (stale /\ run = "serving") ~> (~retained.online \/ ~stale \/ run = "done")

(* "Every path here reports" (mqtt.py:328): a command that is not           *)
(* interrupted by the end of the daemon is followed by its result.          *)
EveryPathReports ==
    [][(At("handling") /\ run' # "handling") => run' = "resulting"]_vars

(* run() serves "until cancelled" (mqtt.py:258).                            *)
CancelledBridgeEnds == cancelled ~> run = "done"

(* A cancelled bridge ends, at whichever await it is and whatever the broker*)
(* does, unless the end of its publisher hid its cancellation from it.      *)
BridgeEnds == cancelled ~> (run = "done" \/ fate = "lost")
=============================================================================
