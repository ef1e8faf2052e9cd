------------------------------- MODULE Shutdown -------------------------------
(***************************************************************************)
(* How the two daemons end, cli.py: a signal, or a bridge that died, starts*)
(* _release(), which closes the adapter and then stops the session, both   *)
(* under one grace period.                                                 *)
(*                                                                         *)
(* The adapter and the session are seen from here: what _release() awaits  *)
(* of them, what they do with the cancellation when the grace period       *)
(* expires, and what a request that yields the link does to it meanwhile.  *)
(* Session and MqttBridge say how a task loses a cancellation.             *)
(***************************************************************************)
EXTENDS Naturals

CONSTANT MaxLost    \* bound: cancellations that the daemon's tasks lose

ASSUME LostAssumption == MaxLost \in Nat

VARIABLES
    daemon,      \* "serve" or "mqtt"
    at,          \* the await the daemon is suspended at
    adapter,     \* the HTTP server or the bridge: serving, cancelled, ending,
                 \* ended, or failed of an error of its own
    request,     \* a request of the adapter's: none, busy, or awaiting the
                 \* disconnect of a yield's teardown
    supervisor,  \* the session's: running, cancelled, ending, ended
    lost,        \* cancellations lost so far
    expired,     \* has the grace period expired?
    client,      \* has the transport a client (BleakTransport._client)?
    slotHeld,    \* is the device's slot ours?
    botched,     \* history: has a disconnect raised, or been cut short, since
                 \* the link was last made?
    said         \* what _release() has printed

adapterVars == <<adapter, request>>
linkVars == <<client, slotHeld, botched>>
vars == <<daemon, at, adapterVars, supervisor, lost, expired, linkVars, said>>

TearingDown == {"reading", "unsubscribing", "disconnecting"}
Releasing == {"closing", "supervisor"} \cup TearingDown

(* The session has been started, and the adapter is being.                  *)
Init ==
    /\ daemon \in {"serve", "mqtt"}
    /\ at = "starting" /\ adapter = "serving" /\ request = "none" /\ supervisor = "running"
    /\ lost = 0 /\ expired = FALSE /\ said = "nothing"
    /\ client = TRUE /\ slotHeld = TRUE /\ botched = FALSE

-----------------------------------------------------------------------------
(* The link while the daemon runs.  A drop leaves the transport its client; *)
(* the host's link to a client that was forgotten ends by itself.           *)
LinkDrops ==
    /\ at # "exited" /\ slotHeld /\ slotHeld' = FALSE
    /\ UNCHANGED <<daemon, at, adapterVars, supervisor, lost, expired, client, botched, said>>

(* A supervisor that is not cancelled, under the link lock.                 *)
Reconnects ==
    /\ supervisor = "running" /\ ~slotHeld
    /\ at \notin TearingDown \cup {"exited"} /\ request # "disconnecting"
    /\ client' = TRUE /\ slotHeld' = TRUE /\ botched' = FALSE
    /\ UNCHANGED <<daemon, at, adapterVars, supervisor, lost, expired, said>>

(* transport.disconnect() forgets the client, and then awaits it.           *)
Forgets == client /\ client' = FALSE /\ UNCHANGED <<slotHeld, botched>>

(* The slot is free when it returns, and may be ours when it raises, which  *)
(* the teardown suppresses.                                                 *)
Disconnected ==
    /\ UNCHANGED client
    /\ \/ slotHeld' = FALSE /\ UNCHANGED botched
       \/ UNCHANGED slotHeld /\ botched' = TRUE

-----------------------------------------------------------------------------
(* The adapter                                                              *)

RequestComes ==
    /\ at \in {"waiting", "closing"} /\ adapter = "serving" /\ request = "none"
    /\ request' = "busy"
    /\ UNCHANGED <<daemon, at, adapter, supervisor, lost, expired, linkVars, said>>

(* The teardown of a yield, which holds the link lock.                      *)
YieldDisconnects ==
    /\ at \notin TearingDown \cup {"exited"} /\ request = "busy"
    /\ request' = "disconnecting" /\ Forgets
    /\ UNCHANGED <<daemon, at, adapter, supervisor, lost, expired, said>>

YieldDisconnected ==
    /\ at # "exited" /\ request = "disconnecting" /\ request' = "busy"
    /\ Disconnected
    /\ UNCHANGED <<daemon, at, adapter, supervisor, lost, expired, said>>

RequestEnds ==
    /\ request = "busy" /\ request' = "none"
    /\ UNCHANGED <<daemon, at, adapter, supervisor, lost, expired, linkVars, said>>

(* The bridge's tasks are cancelled together, its request in whatever it    *)
(* awaits: a disconnect it was awaiting is not taken up again.              *)
RequestCut ==
    /\ request' = "none"
    /\ botched' = (botched \/ request = "disconnecting")
    /\ UNCHANGED <<client, slotHeld>>

(* The broker has gone; the bridge will connect to it again.                *)
BrokerLost ==
    /\ daemon = "mqtt" /\ adapter = "serving" /\ at # "exited"
    /\ request # "none" /\ RequestCut
    /\ UNCHANGED <<daemon, at, adapter, supervisor, lost, expired, said>>

(* An error that is neither the broker's nor the API's ends the bridge.     *)
BridgeFails ==
    /\ daemon = "mqtt" /\ adapter = "serving" /\ request # "none" /\ at # "exited"
    /\ adapter' = "failed" /\ RequestCut
    /\ UNCHANGED <<daemon, at, supervisor, lost, expired, said>>

(* The server waits for its requests; the bridge cancels its own.  What     *)
(* either does before it ends may take its time.                            *)
AdapterEnds ==
    /\ \/ adapter = "cancelled" /\ adapter' = "ending"
          /\ IF daemon = "mqtt" THEN RequestCut ELSE UNCHANGED <<request, linkVars>>
       \/ adapter = "ending" /\ adapter' = "ended" /\ request = "none"
          /\ UNCHANGED <<request, linkVars>>
    /\ UNCHANGED <<daemon, at, supervisor, lost, expired, said>>

(* A bridge that takes its publisher's error for its own goes on.           *)
BridgeLosesCancellation ==
    /\ daemon = "mqtt" /\ adapter = "cancelled" /\ adapter' = "serving"
    /\ RequestCut
    /\ lost < MaxLost /\ lost' = lost + 1
    /\ UNCHANGED <<daemon, at, supervisor, expired, said>>

-----------------------------------------------------------------------------
(* The daemon, in the order of its closers                                  *)

Starts ==
    /\ at = "starting" /\ at' = "waiting"
    /\ UNCHANGED <<daemon, adapterVars, supervisor, lost, expired, linkVars, said>>

(* serve() raises, of an address that is in use: nothing has been guarded.  *)
StartRaises ==
    /\ at = "starting" /\ daemon = "serve"
    /\ at' = "exited" /\ adapter' = "failed"
    /\ UNCHANGED <<daemon, request, supervisor, lost, expired, linkVars, said>>

(* SIGTERM, SIGINT, or the bridge's end; both daemons cancel what they close.*)
ReleaseBegins ==
    /\ at = "waiting" /\ at' = "closing"
    /\ adapter' = IF adapter = "failed" THEN adapter ELSE "cancelled"
    /\ UNCHANGED <<daemon, request, supervisor, lost, expired, linkVars, said>>

CloserReturns ==
    /\ at = "closing" /\ adapter = "ended"
    /\ at' = "supervisor" /\ supervisor' = "cancelled"
    /\ UNCHANGED <<daemon, adapterVars, lost, expired, linkVars, said>>

(* The bridge's error is raised by whoever awaits it.                       *)
CloserRaises ==
    /\ at = "closing" /\ adapter = "failed"
    /\ at' = "exited"
    /\ UNCHANGED <<daemon, adapterVars, supervisor, lost, expired, linkVars, said>>

-----------------------------------------------------------------------------
(* session.stop()                                                           *)

SupervisorEnds ==
    /\ \/ supervisor = "cancelled" /\ supervisor' = "ending"
       \/ supervisor = "ending" /\ supervisor' = "ended"
    /\ UNCHANGED <<daemon, at, adapterVars, lost, expired, linkVars, said>>

SupervisorLosesCancellation ==
    /\ supervisor = "cancelled" /\ supervisor' = "running"
    /\ lost < MaxLost /\ lost' = lost + 1
    /\ UNCHANGED <<daemon, at, adapterVars, expired, linkVars, said>>

(* The supervisor and the requests have ended: nobody else has the lock.    *)
StopGoesOn ==
    /\ \/ at = "supervisor" /\ supervisor = "ended" /\ at' = "reading"
       \/ at = "reading" /\ at' = "unsubscribing"
    /\ UNCHANGED <<daemon, adapterVars, supervisor, lost, expired, linkVars, said>>

StopDisconnects ==
    /\ at = "unsubscribing" /\ at' = "disconnecting"
    /\ Forgets
    /\ UNCHANGED <<daemon, adapterVars, supervisor, lost, expired, said>>

(* Without a client the transport has nothing to disconnect.                *)
StopReturns ==
    /\ \/ at = "unsubscribing" /\ ~client /\ UNCHANGED linkVars
       \/ at = "disconnecting" /\ Disconnected
    /\ at' = "exited" /\ said' = "released"
    /\ UNCHANGED <<daemon, adapterVars, supervisor, lost, expired>>

-----------------------------------------------------------------------------
(* asyncio.timeout cancels the daemon where it is.                          *)

(* Fault: what was interrupted is taken for what has ended.                 *)
AbandonedSaysReleased ==
    /\ at' = "exited" /\ said' = "released"
    /\ UNCHANGED <<adapter, supervisor>>

Abandoned ==
    /\ at' = "exited" /\ said' = "abandoned"
    /\ UNCHANGED <<adapter, supervisor>>

(* Fault: the cancellation ends the wait, and not what is waited for.       *)
PassedOnToNobody == UNCHANGED <<at, adapter, supervisor, said>>

(* The await of a task passes the cancellation on to the task, and the      *)
(* suppression around it keeps it from the daemon: _release() goes on.      *)
PassedOn ==
    /\ adapter' = IF at = "closing" /\ adapter = "serving" THEN "cancelled" ELSE adapter
    /\ supervisor' = IF at = "supervisor" /\ supervisor = "running" THEN "cancelled" ELSE supervisor
    /\ UNCHANGED <<at, said>>

(* A cancellation is received in a turn of the loop, and lost then if at    *)
(* all: the grace period is longer than that.                               *)
GraceExpires ==
    /\ at \in Releasing /\ ~expired /\ expired' = TRUE
    /\ "cancelled" \notin {adapter, supervisor}
    /\ IF \/ at = "closing" /\ daemon = "mqtt"
          \/ at \in {"supervisor", "reading"}
       THEN PassedOn ELSE Abandoned
    /\ UNCHANGED <<daemon, request, lost, linkVars>>

-----------------------------------------------------------------------------
LinkStep == LinkDrops \/ Reconnects

RequestStep == RequestComes \/ YieldDisconnects \/ YieldDisconnected \/ RequestEnds

AdapterStep == BrokerLost \/ BridgeFails \/ AdapterEnds \/ BridgeLosesCancellation

DaemonStep == CloserReturns \/ CloserRaises \/ SupervisorEnds \/ StopGoesOn \/ StopDisconnects \/ StopReturns

Next ==
    \/ Starts \/ StartRaises \/ LinkStep \/ RequestStep \/ AdapterStep
    \/ ReleaseBegins \/ DaemonStep \/ SupervisorLosesCancellation \/ GraceExpires

Spec == Init /\ [][Next]_vars

(* Tasks run, awaits end, and the clock goes on; requests may never end.    *)
FairSpec ==
    Spec /\ WF_vars(AdapterEnds) /\ WF_vars(DaemonStep) /\ WF_vars(GraceExpires)

-----------------------------------------------------------------------------
(* A daemon that says "Link released" has given the link up, and one that   *)
(* exits with the link says so, or why it died, unless the transport had    *)
(* forgotten a client that it did not get disconnected: a disconnect of the *)
(* release's, or of a yield's before it, that raised or was cut short.      *)
SaidIsTrue ==
    (at = "exited" /\ slotHeld) => said = "abandoned" \/ adapter = "failed" \/ botched

(* "Link released - the vendor app can connect again" (cli.py:641).         *)
ReleasedIsFree == said = "released" => ~slotHeld

(* "A graceful release that hangs is strictly worse than an abrupt one"     *)
(* (cli.py:622): a release ends, even of tasks that lose a cancellation,    *)
(* for the grace period's is a second one, unless that has been spent on    *)
(* the bridge when the supervisor loses its first.                          *)
ReleaseEnds ==
    at = "closing" ~>
      (at = "exited" \/ (at = "supervisor" /\ supervisor = "running" /\ expired /\ lost > 0))

(* "Never take longer than the grace period" (cli.py:620).                  *)
GraceIsKept == expired => at = "exited"
=============================================================================
