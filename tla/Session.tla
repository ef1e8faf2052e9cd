------------------------------- MODULE Session -------------------------------
(***************************************************************************)
(* The link-owning session, service/session.py: one asyncio event loop on  *)
(* which the supervisor, the daemon's start() and stop(), and any number   *)
(* of yield_link() calls interleave at every await, all taking and giving  *)
(* up the BedJet's only BLE client slot under one asyncio.Lock.            *)
(*                                                                         *)
(* A program counter names the await a task is suspended at; an action is  *)
(* what a task runs from one await to the next.  Deadlines, backoffs and   *)
(* BLE timeouts elapse when their action is taken.  The reader and the     *)
(* transport appear as far as the session sees them; the vendor app, the   *)
(* radio and the adapter are the environment.                              *)
(***************************************************************************)
EXTENDS Naturals, Sequences

CONSTANTS
    Callers,          \* tasks that run yield_link(), one per HTTP or MQTT request
    SubscribeFails,   \* may start_notify fail on a client that is up?
    DisconnectFails,  \* may client.disconnect() raise and leave the slot taken?
    FollowUpReads,    \* does the reader have reads in flight at a teardown?
    WaitForSwallows,  \* is asyncio.wait_for that of Python 3.11?
    MaxEdges,         \* bound: adapter power-ons
    MaxBackoff        \* doublings that take backoff_initial to backoff_max

Sup == "sup"
Main == "main"
Nobody == "nobody"
Connectors == {Sup, Main}
Tasks == Callers \cup Connectors

ASSUME CallersAssumption == Callers \cap {Sup, Main, Nobody} = {}
ASSUME EnvironmentAssumption ==
    {SubscribeFails, DisconnectFails, FollowUpReads, WaitForSwallows} \subseteq BOOLEAN
ASSUME BoundsAssumption == MaxEdges \in Nat /\ MaxBackoff \in Nat

VARIABLES
    link,        \* DeviceSession._link
    yieldUntil,  \* _yield_until: "none", or a deadline "running" or "expired"
    client,      \* BleakTransport._client: "none", "up", or "down" (dropped)
    slot,        \* who has the device's one client slot: "free", "ours", "app"
    reader,      \* StatusReader._running
    reading,     \* is a read that its stop() awaits in flight (_completion, _poll_task)?
    holder,      \* the task that holds _link_lock, or Nobody
    waiters,     \* the tasks queued on it, first come first served
    pc,          \* the await each task is suspended at
    cancelled,   \* has stop() cancelled the supervisor, which has yet to see it?
    power,       \* the adapter power-on event
    backoff,     \* doublings of the supervisor's backoff so far
    edges,       \* history: adapter power-ons so far
    early,       \* history: backoffs cut short so far
    sinceArm     \* history: has the adapter powered on since an attempt was armed?

linkVars == <<link, yieldUntil>>
bleVars == <<client, slot>>
readVars == <<reader, reading>>
lockVars == <<holder, waiters>>
retryVars == <<power, backoff, edges, early, sinceArm>>
vars == <<linkVars, bleVars, readVars, lockVars, pc, cancelled, retryVars>>

LinkState == {"stopped", "connecting", "connected", "yielded", "lost"}

TakesLock == {"tdLock", "coLock"}
InTeardown == {"tdReading", "tdUnsub", "tdClose", "tdDone"}
InConnect == {"connecting", "subscribing"}
Critical == InTeardown \cup InConnect

Label == TakesLock \cup Critical
           \cup {"off", "sleep", "backoff"}                \* only the supervisor
           \cup {"idle", "running", "awaitSup", "stopped"} \* only the others

Init ==
    /\ link = "stopped" /\ yieldUntil = "none"
    /\ client = "none" /\ slot \in {"free", "app"}
    /\ reader = FALSE /\ reading = FALSE
    /\ holder = Nobody /\ waiters = <<>>
    /\ pc = [t \in Tasks |-> IF t = Sup THEN "off" ELSE "idle"]
    /\ cancelled = FALSE
    /\ power = FALSE /\ backoff = 0 /\ edges = 0 /\ early = 0 /\ sinceArm = FALSE

Goto(t, label) == pc' = [pc EXCEPT ![t] = label]

(* A cancelled supervisor runs nothing but the arrival of its CancelledError. *)
At(t, label) == pc[t] = label /\ (t = Sup => ~cancelled)

-----------------------------------------------------------------------------
(* asyncio.Lock: a free lock is taken at once, a held one is queued for; a  *)
(* release wakes the first in the queue, and nobody can overtake it.        *)

Acquire(t) ==
    IF holder = Nobody
    THEN holder' = t /\ UNCHANGED waiters
    ELSE waiters' = Append(waiters, t) /\ UNCHANGED holder

ReleaseWakesNobody == holder' = Nobody /\ UNCHANGED waiters  \* fault: queue forgotten
Release ==
    IF waiters = <<>>
    THEN holder' = Nobody /\ UNCHANGED waiters
    ELSE holder' = Head(waiters) /\ waiters' = Tail(waiters)

EntersUnlocked(t, label) == At(t, label)                     \* fault: lock not awaited
Enters(t, label) == At(t, label) /\ holder = t

-----------------------------------------------------------------------------
(* _connect                                                                 *)

(* It returned: start() creates the supervisor, the supervisor goes back to *)
(* its tick, and the backoff is the initial one.                            *)
ConnectReturns(t) ==
    /\ pc' = IF t = Main THEN [pc EXCEPT ![Main] = "running", ![Sup] = "sleep"]
                         ELSE [pc EXCEPT ![Sup] = "sleep"]
    /\ backoff' = 0

MayConnectAlways == TRUE                          \* fault: no check under the lock
MayConnect == yieldUntil = "none"

ConnectBegins(t) ==
    /\ Enters(t, "coLock")
    /\ MayConnect
    /\ Goto(t, "connecting")
    /\ UNCHANGED <<linkVars, bleVars, readVars, lockVars, cancelled, retryVars>>

ConnectAbandoned(t) ==
    /\ Enters(t, "coLock")
    /\ ~MayConnect
    /\ Release /\ ConnectReturns(t)
    /\ UNCHANGED <<linkVars, bleVars, readVars, cancelled, power, edges, early, sinceArm>>

(* The device admits one client: only a free slot can be connected to.      *)
ConnectSucceeds(t) ==
    /\ At(t, "connecting")
    /\ slot = "free"
    /\ client' = "up" /\ slot' = "ours"
    /\ Goto(t, "subscribing")
    /\ UNCHANGED <<linkVars, readVars, lockVars, cancelled, retryVars>>

(* The link can drop between the backend's answer and the task's next step, *)
(* so CONNECTED may be reported of a client that is already down.           *)
SubscribeSucceeds(t) ==
    /\ At(t, "subscribing")
    /\ reader' = TRUE
    /\ link' = "connected"
    /\ Release /\ ConnectReturns(t)
    /\ UNCHANGED <<yieldUntil, bleVars, reading, cancelled, power, edges, early, sinceArm>>

ArmsAfterAttempt == power' = FALSE                \* fault: armed too late
KeepsPower == UNCHANGED power

(* connect() or subscribe() raised.  start() reports STOPPED and re-raises, *)
(* the supervisor backs off, and neither tears anything down.               *)
ConnectRaises(t) ==
    /\ \/ At(t, "connecting")
       \/ At(t, "subscribing") /\ (SubscribeFails \/ client = "down")
    /\ Release
    /\ IF t = Main THEN link' = "stopped" /\ Goto(Main, "idle")
                   ELSE UNCHANGED link /\ Goto(Sup, "backoff")
    /\ KeepsPower
    /\ UNCHANGED <<yieldUntil, bleVars, readVars, cancelled, backoff, edges, early, sinceArm>>

-----------------------------------------------------------------------------
(* _teardown: commander.stop(), then transport.disconnect(), each with its  *)
(* exceptions suppressed.                                                   *)

(* A running reader cancels a read in flight and awaits it, then            *)
(* unsubscribes; one that is not running is done.                           *)
StopReader(t) ==
    /\ Enters(t, "tdLock")
    /\ reader
    /\ reader' = FALSE
    /\ Goto(t, IF reading THEN "tdReading" ELSE "tdUnsub")
    /\ UNCHANGED <<linkVars, bleVars, reading, lockVars, cancelled, retryVars>>

(* suppress(CancelledError) cannot tell the read's cancellation from the    *)
(* awaiting task's own: a supervisor that stop() cancelled here goes on as  *)
(* if it had not been.                                                      *)
ReadingGone(t) ==
    /\ pc[t] = "tdReading"
    /\ reading' = FALSE
    /\ cancelled' = (cancelled /\ t # Sup)
    /\ Goto(t, "tdUnsub")
    /\ UNCHANGED <<linkVars, bleVars, reader, lockVars, retryVars>>

(* Fault: one suppress() around both calls, so a failed unsubscribe skips   *)
(* the disconnect.                                                          *)
DisconnectSkipped(t) ==
    /\ At(t, "tdUnsub")
    /\ Goto(t, "tdDone")
    /\ UNCHANGED <<linkVars, bleVars, readVars, lockVars, cancelled, retryVars>>

(* transport.disconnect() forgets the client before it awaits it.           *)
DisconnectBegins(t) ==
    /\ (Enters(t, "tdLock") /\ ~reader) \/ At(t, "tdUnsub")
    /\ client' = "none"
    /\ Goto(t, IF client = "none" THEN "tdDone" ELSE "tdClose")
    /\ UNCHANGED <<linkVars, slot, readVars, lockVars, cancelled, retryVars>>

DisconnectEnds(t) ==
    /\ At(t, "tdClose")
    /\ \/ slot' = IF slot = "ours" THEN "free" ELSE slot
       \/ DisconnectFails /\ UNCHANGED slot
    /\ Goto(t, "tdDone")
    /\ UNCHANGED <<linkVars, client, readVars, lockVars, cancelled, retryVars>>

-----------------------------------------------------------------------------
(* start() and stop()                                                       *)

(* At "idle" (never started, or the first connection failed) and "stopped"  *)
(* there is no supervisor, and start() may run.                             *)
StartCall ==
    /\ pc[Main] \in {"idle", "stopped"}
    /\ link' = "connecting"
    /\ Acquire(Main) /\ Goto(Main, "coLock")
    /\ UNCHANGED <<yieldUntil, bleVars, readVars, cancelled, retryVars>>

(* Fault: the supervisor is not cancelled.                                  *)
StopCallUncancelled ==
    /\ pc[Main] \in {"idle", "running", "stopped"}
    /\ \A c \in Callers : pc[c] = "idle"
    /\ Acquire(Main) /\ Goto(Main, "tdLock")
    /\ UNCHANGED <<linkVars, bleVars, readVars, cancelled, retryVars>>

(* The daemons drain their adapters first: no yield is in progress.         *)
StopCall ==
    /\ pc[Main] \in {"idle", "running", "stopped"}
    /\ \A c \in Callers : pc[c] = "idle"
    /\ cancelled' = (pc[Sup] # "off")
    /\ Goto(Main, "awaitSup")
    /\ UNCHANGED <<linkVars, bleVars, readVars, lockVars, retryVars>>

SupervisorAwaited ==
    /\ pc[Main] = "awaitSup" /\ pc[Sup] = "off"
    /\ Acquire(Main) /\ Goto(Main, "tdLock")
    /\ UNCHANGED <<linkVars, bleVars, readVars, cancelled, retryVars>>

StopReturns ==
    /\ pc[Main] = "tdDone"
    /\ Release
    /\ link' = "stopped"
    /\ Goto(Main, "stopped")
    /\ UNCHANGED <<yieldUntil, bleVars, readVars, cancelled, retryVars>>

-----------------------------------------------------------------------------
(* yield_link() and resume()                                                *)

(* The deadline is set before the teardown is awaited.                      *)
YieldCall(c) ==
    /\ pc[c] = "idle" /\ pc[Main] = "running"
    /\ yieldUntil' = "running"
    /\ Acquire(c) /\ Goto(c, "tdLock")
    /\ UNCHANGED <<link, bleVars, readVars, cancelled, retryVars>>

YieldReturns(c) ==
    /\ pc[c] = "tdDone"
    /\ Release
    /\ link' = "yielded"
    /\ Goto(c, "idle")
    /\ UNCHANGED <<yieldUntil, bleVars, readVars, cancelled, retryVars>>

Resume ==
    /\ pc[Main] = "running"
    /\ yieldUntil # "none"
    /\ yieldUntil' = "none"
    /\ UNCHANGED <<link, bleVars, readVars, lockVars, pc, cancelled, retryVars>>

-----------------------------------------------------------------------------
(* _supervise.  A tick in a running yield changes nothing; an expired       *)
(* deadline is cleared and the tick goes on.                                *)

YieldOverKept == yieldUntil # "running" /\ UNCHANGED yieldUntil  \* fault: not cleared
YieldOver == yieldUntil # "running" /\ yieldUntil' = "none"

SupFindsLinkUp ==
    /\ At(Sup, "sleep")
    /\ YieldOver
    /\ client = "up"
    /\ link' = "connected"
    /\ backoff' = 0
    /\ UNCHANGED <<bleVars, readVars, lockVars, pc, cancelled, power, edges, early, sinceArm>>

(* Fault: the attempt is made over what the lost connection left.           *)
SupFindsLinkDownNoTeardown ==
    /\ At(Sup, "sleep")
    /\ YieldOver
    /\ client # "up"
    /\ link' = "lost"
    /\ Acquire(Sup) /\ Goto(Sup, "coLock")
    /\ UNCHANGED <<bleVars, readVars, cancelled, retryVars>>

SupFindsLinkDown ==
    /\ At(Sup, "sleep")
    /\ YieldOver
    /\ client # "up"
    /\ link' = "lost"
    /\ Acquire(Sup) /\ Goto(Sup, "tdLock")
    /\ UNCHANGED <<bleVars, readVars, cancelled, retryVars>>

ArmsNever == UNCHANGED power                      \* fault: the event is not cleared
Arms == power' = FALSE

(* From the teardown to the attempt: the event is armed, and the lock,      *)
(* released and asked for again, goes to whoever queued meanwhile.          *)
SupTornDown ==
    /\ At(Sup, "tdDone")
    /\ IF waiters = <<>>
       THEN UNCHANGED lockVars
       ELSE holder' = Head(waiters) /\ waiters' = Append(Tail(waiters), Sup)
    /\ Arms /\ sinceArm' = FALSE
    /\ Goto(Sup, "coLock")
    /\ UNCHANGED <<linkVars, bleVars, readVars, cancelled, backoff, edges, early>>

(* Fault: an attempt made early for a power-on starts the backoff afresh.    *)
DoubledUnlessEarly ==
    IF power THEN 0 ELSE IF backoff < MaxBackoff THEN backoff + 1 ELSE backoff

Doubled == IF backoff < MaxBackoff THEN backoff + 1 ELSE backoff

(* _backoff_or_power_on: the wait runs out, or the event cuts it short.     *)
SupBackoffEnds ==
    /\ At(Sup, "backoff")
    /\ \/ UNCHANGED early
       \/ power /\ early' = early + 1
    /\ backoff' = Doubled
    /\ Goto(Sup, "sleep")
    /\ UNCHANGED <<linkVars, bleVars, readVars, lockVars, cancelled, power, edges, sinceArm>>

(* Before Python 3.12 a wait_for that is cancelled when its event has been  *)
(* set may return as if it had not been cancelled.                          *)
SupBackoffSwallows ==
    /\ WaitForSwallows /\ cancelled /\ power /\ pc[Sup] = "backoff"
    /\ cancelled' = FALSE
    /\ early' = early + 1 /\ backoff' = Doubled
    /\ Goto(Sup, "sleep")
    /\ UNCHANGED <<linkVars, bleVars, readVars, lockVars, power, edges, sinceArm>>

(* Fault: the retry loop takes its cancellation for a failed attempt.       *)
SupCancelledRetries ==
    /\ cancelled /\ pc[Sup] = "connecting"
    /\ cancelled' = FALSE
    /\ Release /\ Goto(Sup, "backoff")
    /\ UNCHANGED <<linkVars, bleVars, readVars, retryVars>>

(* A CancelledError ends the supervisor at its other awaits: a held lock    *)
(* is released, a queued request withdrawn, and what the interrupted call   *)
(* had done stays done.                                                     *)
SupCancelled ==
    /\ cancelled /\ pc[Sup] # "tdReading"
    /\ cancelled' = FALSE
    /\ Goto(Sup, "off")
    /\ IF holder = Sup THEN Release
       ELSE IF pc[Sup] \in TakesLock
       THEN /\ \E i \in 1..Len(waiters) :
                 /\ waiters[i] = Sup
                 /\ waiters' = SubSeq(waiters, 1, i - 1)
                                 \o SubSeq(waiters, i + 1, Len(waiters))
            /\ UNCHANGED holder
       ELSE UNCHANGED lockVars
    /\ UNCHANGED <<linkVars, bleVars, readVars, retryVars>>

-----------------------------------------------------------------------------
(* The environment: clock, radio, device, adapter, vendor app               *)

YieldElapses ==
    /\ yieldUntil = "running" /\ yieldUntil' = "expired"
    /\ UNCHANGED <<link, bleVars, readVars, lockVars, pc, cancelled, retryVars>>

(* A read starts on a link that is up, and ends by data, error or timeout,  *)
(* maybe after the link has gone.                                           *)
ReaderReads ==
    /\ reader /\ (reading \/ (FollowUpReads /\ client = "up"))
    /\ reading' = ~reading
    /\ UNCHANGED <<linkVars, bleVars, reader, lockVars, pc, cancelled, retryVars>>

LinkDrops ==
    /\ client = "up" /\ client' = "down" /\ slot' = "free"
    /\ UNCHANGED <<linkVars, readVars, lockVars, pc, cancelled, retryVars>>

(* The host's link to a client we have forgotten ends by itself.            *)
SlotLapses ==
    /\ client = "none" /\ slot = "ours" /\ slot' = "free"
    /\ UNCHANGED <<linkVars, client, readVars, lockVars, pc, cancelled, retryVars>>

AppConnects ==
    /\ slot = "free" /\ slot' = "app"
    /\ UNCHANGED <<linkVars, client, readVars, lockVars, pc, cancelled, retryVars>>

AppDisconnects ==
    /\ slot = "app" /\ slot' = "free"
    /\ UNCHANGED <<linkVars, client, readVars, lockVars, pc, cancelled, retryVars>>

AdapterPowersOn ==
    /\ edges < MaxEdges /\ edges' = edges + 1
    /\ power' = TRUE /\ sinceArm' = TRUE
    /\ UNCHANGED <<linkVars, bleVars, readVars, lockVars, pc, cancelled, backoff, early>>

-----------------------------------------------------------------------------
ConnectStep(t) ==
    \/ ConnectBegins(t) \/ ConnectAbandoned(t) \/ ConnectSucceeds(t)
    \/ SubscribeSucceeds(t) \/ ConnectRaises(t)

TeardownStep(t) ==
    StopReader(t) \/ ReadingGone(t) \/ DisconnectBegins(t) \/ DisconnectEnds(t)

SupStep ==
    \/ ConnectStep(Sup) \/ TeardownStep(Sup)
    \/ SupFindsLinkUp \/ SupFindsLinkDown \/ SupTornDown
    \/ SupBackoffEnds \/ SupBackoffSwallows \/ SupCancelled

MainStep ==
    ConnectStep(Main) \/ TeardownStep(Main) \/ SupervisorAwaited \/ StopReturns

CallerStep(c) == TeardownStep(c) \/ YieldReturns(c)

Requests == StartCall \/ StopCall \/ Resume \/ \E c \in Callers : YieldCall(c)

Environment ==
    \/ YieldElapses \/ ReaderReads \/ LinkDrops \/ SlotLapses
    \/ AppConnects \/ AppDisconnects \/ AdapterPowersOn

Next == SupStep \/ MainStep \/ (\E c \in Callers : CallerStep(c)) \/ Requests \/ Environment

Spec == Init /\ [][Next]_vars

(* The event loop runs every task that can run, and every await ends: BLE   *)
(* calls return or time out, sleeps and deadlines elapse.                   *)
LoopFairness ==
    /\ WF_vars(SupStep) /\ WF_vars(MainStep)
    /\ \A c \in Callers : WF_vars(CallerStep(c))
    /\ WF_vars(YieldElapses)

(* Of the radio: an attempt that could succeed over and over sometimes does *)
(* and the vendor app does not hold the slot during every single one.       *)
RadioFairness ==
    /\ SF_vars(ConnectSucceeds(Sup)) /\ SF_vars(SubscribeSucceeds(Sup))
    /\ SF_vars(AppDisconnects /\ pc[Sup] = "connecting")
    /\ WF_vars(SlotLapses)

FairSpec == Spec /\ LoopFairness /\ RadioFairness

-----------------------------------------------------------------------------
(* Every variable stays in its range.                                       *)
TypeOK ==
    /\ link \in LinkState
    /\ yieldUntil \in {"none", "running", "expired"}
    /\ client \in {"none", "up", "down"} /\ slot \in {"free", "ours", "app"}
    /\ reader \in BOOLEAN /\ reading \in BOOLEAN
    /\ holder \in Tasks \cup {Nobody} /\ waiters \in Seq(Tasks)
    /\ pc \in [Tasks -> Label] /\ cancelled \in BOOLEAN
    /\ power \in BOOLEAN /\ backoff \in 0..MaxBackoff
    /\ edges \in 0..MaxEdges /\ early \in Nat /\ sinceArm \in BOOLEAN

(* _link_lock "serialises taking and releasing the link" (session.py:155):  *)
(* a task between the awaits of _connect or _teardown holds it, whatever    *)
(* cancellations hit the tasks that hold it or queue for it.                *)
LockDiscipline == \A t \in Tasks : pc[t] \in Critical => holder = t

YieldsReturned == \A c \in Callers : pc[c] = "idle"

(* _connect's claim (session.py:263): once every yield_link() call has      *)
(* returned, and while the deadline runs, nothing of ours has the device or *)
(* is on its way to it, and the link is not reported held or lost.          *)
YieldHonoured ==
    (yieldUntil = "running" /\ YieldsReturned) =>
        /\ client = "none"
        /\ \A t \in Connectors : pc[t] \notin InConnect
        /\ link \notin {"connected", "lost"}

(* The slot is the vendor app's for the taking then ("Returns as soon as    *)
(* the link is released", session.py:323).                                  *)
YieldFreesSlot ==
    (yieldUntil = "running" /\ YieldsReturned) => slot # "ours"

(* stop() (session.py:250) leaves nothing behind: no supervisor that would  *)
(* take the link again, no client, no reader, no lock held or queued for.   *)
StopReleases ==
    pc[Main] = "stopped" =>
        /\ pc[Sup] = "off" /\ ~cancelled
        /\ link = "stopped" /\ client = "none" /\ ~reader /\ ~reading
        /\ holder = Nobody /\ waiters = <<>>

(* "Tear down before reconnecting" (session.py:374): no attempt runs over   *)
(* the reader, or a read, of an earlier connection.                         *)
NoStaleReader ==
    \A t \in Connectors : pc[t] \in InConnect => ~reader /\ ~reading

(* A power-on during an attempt "stays set ... and cuts the following       *)
(* backoff short" (session.py:377): a backoff has it to wake up to.         *)
PowerOnKept == (pc[Sup] = "backoff" /\ sinceArm) => power

(* "Each power-on buys at most one early attempt" (session.py:402).         *)
EarlyAttemptsBounded == early <= edges

(* "The backoff keeps growing across failures regardless" (session.py:404): *)
(* it falls only to its initial value, and only for a link found or made,   *)
(* an attempt given up for a yield, or a new supervisor.                    *)
BackoffFallsForALink ==
    [][backoff' < backoff =>
          /\ backoff' = 0
          /\ client # "none" \/ yieldUntil # "none" \/ pc[Main] # "running"]_vars

(* A link reported CONNECTED, up, and in nobody's hands has a reader behind *)
(* it; without one no notification arrives and no command is ever verified  *)
(* ("One subscription, one commander, one reader", session.py:19).          *)
ConnectedIsListening ==
    (link = "connected" /\ client = "up" /\ holder = Nobody /\ pc[Main] = "running")
        => reader

(* Every yield_link() call returns, behind a reconnect in flight as well.   *)
YieldReturnsEventually == \A c \in Callers : pc[c] = "tdLock" ~> pc[c] = "idle"

(* While the daemon runs, a link that is not up comes back unless a yield   *)
(* is running: expiry, resume() and drops all end in a reconnect.           *)
LinkComesBack ==
    (pc[Main] = "running" /\ link # "connected")
        ~> (link = "connected" \/ yieldUntil = "running" \/ pc[Main] # "running")

(* stop() returns.                                                          *)
StopTerminates == pc[Main] = "awaitSup" ~> pc[Main] = "stopped"
=============================================================================
