# Verification of bedjet-local

TLA+ models of `bedjet_local`, the local service that owns a BedJet's only
Bluetooth client slot, with TLC configurations that check them on small
instances and TLAPS proofs for every instance. Paths are relative to
`src/bedjet_local/`.

## The system

| component | state | operations | talks to |
|---|---|---|---|
| **Session** `service/session.py` | `_link`, `_yield_until`, `_link_lock`, the supervisor task, its backoff | `start`, `stop`, `yield_link`, `resume`, the supervisor's tick | transport, commander, adapters (callbacks) |
| **Commander** `service/commander.py` | `_latest`, `_updated` | `send_off`, `set_mode`, `set_temperature`, `set_fan_percent`, `_on_state` | reader, transport |
| **Reader** `service/reader.py` | `_running`, `_completion`, `_poll_task`, the partial packet, counters | `start`, `stop`, `poke`, `_on_notify`, the poll loop | transport, commander (callback) |
| **BLE transport** `transport/ble.py` | `_client`, the GATT lock, the adapter watcher | `connect`, `disconnect`, `read`, `write`, `subscribe` | bleak, the device |
| **API service** `api/service.py` | none | one method per request; translates every outcome | session, commander |
| **HTTP/WebSocket** `integrations/http_ws.py` | the open sockets, a queue of 16 per client | routes, `handle_ws`, `_pump` | API service |
| **MQTT bridge** `integrations/mqtt.py` | a queue of 16, the broker session | `run`, `_session`, `_handle`, `_publish_loop` | API service, broker |
| **Codec** `protocol/` | none | `decode_status`, `reassemble`, the encoders | |
| **State, registry** `device/` | none | `from_status`, `lookup`, `require_known` | |
| **Commands** `cli.py` | the stop event | `cmd_serve`, `cmd_mqtt`, `_release`; the one-shot `identify`, `watch`, `off`, `fan`, `mode`, `temp` | everything |
| mock transport, models, contract | | test double, projections, a static document | |

Everything runs on one asyncio event loop: a step from one await to the next is
atomic, and what is hard is what can happen at each await. Notifications and
state changes travel up by synchronous callbacks (transport, reader, commander,
session, adapters); requests travel down by calls.

What is hard, and where:

* **Session.** The supervisor, `start()`, `stop()` and any number of
  `yield_link()` calls meet on one lock; the link drops at any await, the vendor
  app takes the slot, and `stop()` cancels the supervisor wherever it is. It is
  correct when a yield really gives the device up and keeps it given up, when
  the link comes back afterwards, and when a stop leaves nothing behind.
* **Commander.** The protocol has no acknowledgement, so a command is a small
  protocol of its own: baseline, write, verification under a deadline. Requests
  run concurrently over shared state. It is correct when every answer means what
  the API's contract says: above all "nothing was sent" and "verified".
* **Reader.** Packets arrive split; the remainder must be read, once, in order,
  and not for a reader that was stopped.
* **Adapters.** Bounded queues where the newest state wins, broker sessions and
  clients that come, stall and go, retained topics that must not lie, handlers that
  must leave nothing behind.
* **One-shot commands.** Each borrows the device's slot, asks its user, writes, and must
  give the slot back and say what happened, wherever Ctrl-C strikes it.
* **Shutdown.** Several closers share a grace period, and the link's release is
  one of them.
* **Codec.** Ranges, halves, checksums and fragments.

`PROJECT.json` lists the hazards at their lines, each with the property that
would catch it or the reason none does.

## Modules

| module | what it is |
|---|---|
| `Lease` | the promise about the device's slot: no task, no lock, no supervisor |
| `Session` | `service/session.py` with the reader and the transport as it sees them |
| `SessionLease` | the mapping from `Session`'s state to `Lease`'s, and the refinement |
| `Commander` | `service/commander.py` under `api/service.py`'s translation of outcomes |
| `Sampling` | the promise of a status reader: when it touches the radio, and that a stop ends |
| `Reader` | `service/reader.py` in its notification mode |
| `PollLoop` | `service/reader.py` in its polling mode, with the transport's GATT lock |
| `StatusReader` | `Reader` or `PollLoop`, as the poll interval says, and the refinement of `Sampling` |
| `NewestWins` | the promise of a stream of snapshots to each client: no queue, no task, no socket |
| `WebSocket` | `integrations/http_ws.py`: the state stream's handlers, pumps, queues and sockets, and the server's end |
| `MqttBridge` | `integrations/mqtt.py`: queue, publisher, broker sessions, retained topics |
| `Codec` | `protocol/`: status packets and commands, as pure operators |
| `RoundTrip` | a request's way through `Codec` to the device and back |
| `Shutdown` | `cli.py`: how the two daemons release what they hold |
| `OneShot` | `cli.py`: the commands that borrow the link, with Ctrl-C |
| `MCSession`, `MCCommander`, `MCRoundTrip` | values for TLC that a .cfg cannot write; the other modules are checked as they are |
| `SessionProofs`, `CommanderProofs`, `StatusReaderProofs`, `BridgeProofs`, `WebSocketProofs`, `OneShotProofs`, `RoundTripProofs`, `ShutdownProofs` | theorems and proofs |

The modules meet at their edges. `Session` sees of the reader whether it runs and
has a read in flight, which is what `Sampling` says of it: a stop ends every read that
began while the reader ran. Of the reads that begin beside that, on a subscription that is
being made or undone, `Sampling` says that they end with it; nobody awaits them, and `Session`
leaves them out. `StatusReader` shows this of both modes;
`Reader` sees of the session its calls of `start()` and `stop()`. `Commander` takes packets to be whole, which `RoundTrip` shows of what the
reader publishes. `MqttBridge` takes a command to be one step that ends, which
`Commander` and `Session` show. `Shutdown` sees of the bridge and of the supervisor
that a cancelled one ends or loses its cancellation, which is what `MqttBridge` and
`Session` show of them; `Session` takes yields to have returned before `stop()`, and
`Shutdown` has the one case in which a yield was cut short instead. `WebSocket` and `MqttBridge` take a
notification of the session to be one step in which every listener has run, as
`_notify` is; `Shutdown` takes the HTTP adapter to end, which follows from `WebSocket`'s
fairness (aiohttp cancels what is left). `OneShot` takes the Commander's outcomes as
`Commander` shows them: refused before a byte is written, unverified or done after.
The first is stated as a property; the others are kept by hand.

A definition marked *Fault* is a plausible bug beside the code's own definition,
which the runs' properties are tested with. No behaviour of the models uses it.

### Session

A task's `pc` names the await it is suspended at. `sup` is `_supervise`: `off`,
`sleep` (the tick), `backoff`. `main` is the daemon that calls `start()` and
`stop()`. Each caller runs `yield_link()` over and over. `tdLock` and `coLock`
are the lock of `_teardown` and `_connect`; `connecting` and `subscribing` the
two awaits of `_connect`; `tdReading`, `tdUnsub` and `tdClose` those of
`_teardown_locked` (the read being cancelled, the unsubscription, the
disconnection); `tdDone` the step after them.

| code | model |
|---|---|
| `_link`, `_yield_until` | `link`, `yieldUntil` (a deadline is running or expired; seconds are not counted) |
| `BleakTransport._client` and its `is_connected` | `client` = `none`, `up`, `down` |
| `StatusReader._running`; `_completion` or `_poll_task` | `reader`, `reading` |
| `_link_lock` | `holder`, `waiters` (first come first served, nobody overtakes) |
| `_supervisor.cancel()` | `cancelled`, delivered by `SupCancelled` at the task's await, or swallowed by `ReadingGone` |
| `adapter_power_on_event()` | `power` |
| the device's one client slot | `slot`, external: `free`, `ours` or the vendor `app`'s |

Abstractions. Yields are called only while `main` is running, and have returned
when `stop()` is called: the daemons build their adapters after `start()` and
drain them before they release the session (`cli.py:644` to `772`). The
one case they do not cover, the bridge cancelling a yield half way through its
teardown, is in `Shutdown`. `tdDone` and the lock awaits are points where
others may run even where the code would go on at once: more interleavings than
the loop has, never fewer. Whether a subscription may fail on a client that stays
up, whether `disconnect()` may raise, and whether the reader has reads in flight
are constants, so that each run says what it needs.

### Lease

`hold` says whether the daemon holds the slot, is taking it or neither,
`promise` what the owner has been told about it: nothing, that it was asked for, or
that it is theirs. An attempt may begin only with no promise out, and a promise
is kept only when the slot is idle. `SessionLease` maps `Session` to it: the slot
is being taken while a task awaits the connection; the promise is asked for by
`_yield_until`, kept when every `yield_link()` has returned or `stop()` has.

### Commander

`job[c]` is request `c`: the await it is suspended at (`baseline`, `write`,
`verify`, or `quiet` when its half second has elapsed and it has yet to run
again), its command, whether the event was set under it (`woken`), whether its
deadline has passed, and the API's answer to it. `latest` and `updated` are
`_latest` and `_updated`, shared. Setting the event wakes every waiter and clears
nothing: each runs when the loop gets to it, and finds what the others have left.
A timeout that fires in the same turn of the loop as the event wins over it.

Targets and fan speeds are one kind of value with the mode deciding which are
permitted. A packet is a state. The reader has dropped the corrupt ones, so the
commander's own checksum test never fires and is left out; so is `poke()`, which
changes when a packet arrives and nothing else. The device acts on a command, or
ignores it, whenever it likes. `seen`, `wrote` and `fresh` are history.

### Reader

`at` is where the session is suspended in `start()` (`starting`) or `stop()`
(`stopping`: the cancelled completion; `unsubscribing`). A packet is its number in the
order sent, and the task that completes it has the same number, so that
`_completion` can refer to one task while another is alive. `task[p]` is `reading`,
`cancelled`, `got` (the read has returned and the task has yet to run),
`gotCancelled` or `done`; `rest[p]` the packet whose remainder the read returned: the
device serves that of its newest. The checksum is modelled by what it does to parts
of two packets, which `RoundTrip` checks for the packets this device sends.

Notifications arrive whenever there is a subscription: `_on_notify` does not look at
`_running`, so they come to a reader that is being started or stopped, and to one that was
stopped while its `unsubscribe()` failed. `strays` is history: the completions that began
there. The stop under way does not see them, and they may end on the next connection or be
cancelled by its stop.

### PollLoop

`gatt` is the transport's GATT lock with its queue, shared by the loop and the
commands' writes; `poke` the event a command sets after its write and after every
quiet half second of its verification. `WaitSwallows` is `asyncio.wait_for` of Python
3.11, which may return normally when it is cancelled after its event has been set.
Behaviours with `lost = FALSE` are those of 3.12 and later.

### StatusReader and Sampling

A `StatusReader` has one `_running` and, as it was made with a poll interval or without,
the state of one of its modes; `StatusReader` extends `PollLoop` and has an instance of
`Reader`, and `polling` chooses between them. `Sampling` is what the session builds on: `off`, `starting`, `on`,
`stopping`; the `source` of its reads, which only a start opens and the next start does not
inherit; whether a read is under way that began while it was on (`working`) or one that did
not (`stray`); and whether it is `deaf`, having lost the cancellation it was stopped with.
A read begins only on behalf of a source. A stop of a reader that has heard it ends, and
ends what was working; a stray one ends in the end once its source is gone.

### WebSocket and NewestWins

Per client, `handler` is the await `handle_ws` is suspended at (`preparing`, `reading`,
then `joining` and `closing` of its `finally` clause), `pump` that of `_pump`, `queue` the
`pending` between them. `closed` is `socket.closed` or a lost connection, `silent` a
client that reads nothing: a send to it does not end, and aiohttp's heartbeat closes its
socket in the end. `listeners` is the session's list of `on_snapshot` callbacks,
`sockets` the application's set. The server's end is `_close_sockets`, which awaits one
`close()` after another over the list it made at first (`listed`) while the handlers
change the set, and then aiohttp, which cancels the handlers that are left
(`HandlerCancelled`). `StrayErrors` lets a send raise something that `_pump` does not
expect. A snapshot is its number; its projection is the API's.

`NewestWins` has neither queues nor tasks: snapshots are made, clients come and go, are
attentive or not, and are delivered what is newer than what they have; an attentive
client is delivered something in the end, and so the newest. It is what
"the newest snapshot wins" amounts to for somebody at the other end of the socket.

### MqttBridge

`PublishTimesOut` is aiomqtt's `publish()` raising on a connection that stays up, its
acknowledgement having taken too long.

`fate` is history: what became of the daemon's cancellation, when it was `lost` in the end
of the publisher, or cut the goodbye short (`curt`). So is `mute`: on a connection that is
up the goodbye raised itself, or was skipped for the error of a publisher that had died.
`BridgeEnds` and `GoodbyeSaid` say with them which behaviours they leave out; `bridge_hangs`
and `online_left` say the same without. `NewestGetsPublished` leaves out a publisher that
has died, and `silent_publisher` does not.

`run` is the await `MqttBridge.run()` or `_session()` is suspended at, `pub` that of
the session's publisher, `why` the exception its `finally` clauses are passing on. A
snapshot is its number and whether it reads as available. `retained` is what the
broker would tell a new subscriber. A publication that is interrupted may have
arrived or not (`MayHaveArrived`); the will is published some time after a lost
connection (`willDue`), or when the bridge connects again. Commands are a step with
three outcomes: a result, an error that is reported, and an error that is neither
kind the bridge catches.

### Codec and RoundTrip

A packet is a sequence of 31 bytes; temperatures are in twentieths of a degree. `Codec`
has what a command meets on its way: `encode.py`'s snapping, bounding and encoding,
with Python's rounding of halves to even, and `decode.py`'s fields, lengths, checksum
and reassembly. `RoundTrip` sends one request of a device in each mode, and then lets one
notification after another arrive: whole or split anywhere, of the state before or the state now or
mixed of both at any byte, its tail alone, its remainder repeated, or with a bit of a deciding byte
flipped. Fan speeds are asked for in tenths of a percent, because JSON and MQTT carry any
number and `int()` cuts it to a whole percent before anything looks at it (`Percent`). What the device does with a command and which ranges it reports is external,
taken from the captures under `tests/`.

### Shutdown

`at` is the await the daemon is suspended at: `starting`, `waiting` for a signal,
`closing` the adapter, and the four awaits of `session.stop()`: the `supervisor`, then
`reading`, `unsubscribing` and `disconnecting`. When the grace period
expires, `asyncio.timeout` cancels the daemon there. The awaits of a task
(`_drain_bridge`, the supervisor, a read in flight) pass that on to the task and
suppress it, so `_release()` goes on; at any other it ends. `lost` counts
cancellations that the bridge or the supervisor has lost.

`request` is one of the adapter's under way, which may be inside the disconnection of a
yield's teardown. `client` is the transport's `_client`, which `disconnect()` forgets before it
awaits; `slotHeld` whether the device's slot is ours. A disconnect that raises, or that is cut
short with the bridge's request, may leave the slot with us and nobody who knows of it: `stop()`
finds no client, or suppresses what it is told, and `_release()` says that the link is released.
`botched` is history: that this has happened since the link was last made. A supervisor that
runs may make it again, and the host's link to a forgotten client may end by itself.

### OneShot

A command is a script: its awaits in the open, those in its `try` block, those of its
`finally` clause, and the exceptions it catches. `part` and `todo` say where it is,
`ending` what it will return or raise, `said` which of the three claims it has printed:
*nothing sent*, *verified*, *Link released*. Ctrl-C is `asyncio.run`'s: the first cancels
the task (`pending` until it is received), the second raises `KeyboardInterrupt` out of
the loop, upon which the task is cancelled again. Nothing is received at the prompt,
which is `input()` and blocks the loop, nor by a command that the Commander refuses or
rehearses without an await. What an interrupted connect, write or disconnect did, is left
open. The Commander is its outcomes; what a stop awaits may take our cancellation for its
own, as in `reader.py:226`.

## Runs

| run | question | instance |
|---|---|---|
| `session_safety` | do the safety properties hold with everything failing? | 2 callers, 2 power-ons, 2 doublings, Python 3.11 |
| `session_promises` | does the session implement the lease, and keep its promises? | 2 callers, disconnects work, no reads in flight at a teardown |
| `command_one` | do answers mean what they say? | every command, 1 request, 2 commands in flight, the app |
| `command_two` | ... of two requests at a time, and does each get one? | off and one mode |
| `status_reader` | does the reader keep its promise in both modes, with packets in order, pokes answered, and reads, writes and stops that all get through? | 4 packets, at any time; 2 commands |
| `bridge` | what do the retained topics hold, does the newest state get out, and does a cancelled bridge end, whatever fails? | queue of 2, 4 notifications, publishes that time out |
| `websocket` | does the newest win for each client, and do handlers, listeners, pumps and sockets all go? | 2 clients, queue of 1, 2 snapshots, stray errors |
| `round_trip` | does what is asked come out, and only what is intact get in? | below |
| `shutdown` | is the release honest and finite, with yields and failing disconnects under way? | 1 lost cancellation |
| `one_shot` | does each command end, give the link back and say what is so? | all commands and options, 2 Ctrl-C |
| `stop_hangs` | does `stop()` return with reads in flight? | violated |
| `stale_already` | is "already satisfied" true after the app had the link? | violated |

What they show, beyond the names of their properties:

* *A yield is a promise.* Once every yield has returned, no task of ours is on its
  way to the device until the deadline or `resume()`, though attempts were under way
  when it came (`YieldHonoured`); the link comes back when it is over
  (`LinkComesBack`). Both for the session as an implementation of `Lease`.
* *Retries are bounded.* The power-on event may cut a backoff short, but only once per
  edge (`EarlyAttemptsBounded`), none is lost (`PowerOnKept`), and the backoff grows through
  early attempts too until a link is made (`BackoffFallsForALink`).
* *Silence is not consent.* No request takes another's packet, an old packet, or none, for
  its confirmation (`VerifiedIsObserved`).
* *The retained state* may go back to an older one after a reconnect, but only while the
  newest is queued behind it (`FallsBackOnlyBehindNewer`), and what settles is the newest
  (`Settled`).
* *A stop ends what the reader began*, in both modes (`ImplementsSampling`): a read that began
  while it ran never meets the next connection, and no read begins without a source. A reader
  is not quiet for all that: a first part that arrives during `unsubscribe()` starts a read which
  outlives the stop (`orphan_read`). Such a read may end on the next connection, and still no
  split packet is published before an older one (`OnlyWholeOvertakes`).
* *A slow client costs nobody anything.* A full queue drops old snapshots, never the newest
  (`NewestIsKept`); a client whose connection is gone is let go of though a send to it
  is stuck (`LostClientsAreDropped`), and its handler leaves no listener and no pump
  (`NothingLeftBehind`), so each client sees a stream in order that ends with the newest,
  beside whatever the others do (`ImplementsNewestWins`).
* *A command says what is so.* "Nothing sent", "verified" and "Link released" are printed only
  of what is so (`SaidIsTrue`), for Ctrl-C at any await. The slot is given back but for
  the windows that `GivesBack` names.
* *The release* says that the link is free only when it is, but for a disconnect, its own or that
  of a yield before it, which raised or was cut short (`SaidIsTrue`): the session suppresses the
  one and does not hear of the other (`release_says_free`).

The bounds. Two callers make a queue behind a lock that a third task holds, and
let one yield return while another is under way; a third adds callers in states
these two have. Two power-ons are one before an attempt is armed and one after;
two doublings are growth and the ceiling. One command in the device's inbox
suffices for two requests, because a device that may ignore commands may fall behind
at any bound; with one request it is two, so that a command can overtake the answer
of the one before. Two modes (one locked) and two values of which the modes permit
different ones give every refusal. Four packets are one being completed, one whole beside it or
skipped, one that strays into the unsubscription, and one of the next connection. Two writers queue before and
behind the loop. Two WebSocket clients are one that the server closes and one that ends
meanwhile; a queue of one overflows with the second snapshot before the first is
taken, and `websocket_queue` has one that orders as well. Ctrl-C has no third meaning:
a second one raises, and so does a third. A queue of two overflows with the third notification, and the fourth
comes after a session has greeted. `round_trip` asks for every percent from -2 to 102 and for
half a percent and nine tenths more, and every twentieth of a degree within eight of the ends of the
wire's byte and of each mode's range: in between nothing changes but the number. One lost cancellation is
what the grace period's makes up for; a second one the code does not survive.

Symmetry is declared in `session_safety` only, where nothing names a caller.

Fairness. `Session`'s `LoopFairness`: the event loop runs every task that can run and
every await ends. bleak's calls, the reads and the sleeps have timeouts, so this is the
code's doing. `RadioFairness`, needed only for `LinkComesBack`: an attempt that
could succeed again and again sometimes does, the vendor app does not hold the slot
during every single attempt, and a host link nobody knows of ends. `Commander`'s
`FairSpec` assumes that requests run and deadlines pass, and nothing of the device
or the link. `Reader`'s: a completion's read ends, which its five seconds see to.
`PollLoop`'s: reads, writes and the interval end, and a lock serves its queue in order.
`WebSocket`'s: handlers and pumps run, the server's end and aiohttp's heartbeat and close
timeouts come; a send to a silent client need not end. `OneShot`'s: the command runs
while it does not wait for its user, whose answer and whose Ctrl-C may never come.
`MqttBridge`'s: the two tasks run and every await but that for a message ends
(aiomqtt's have a timeout). `Shutdown`'s: cancelled tasks
and the awaits of the release end, and the clock goes on. Apart from
`RadioFairness` nothing is assumed of the device, the users, the broker or the signals.

## What the code does otherwise

Disagreements between the code and what it says of itself. The first two are runs,
with the lines and the quotations under `findings`; each other has a configuration
beside the runs, which TLC finds violated. *Reproduced* means with the code itself, on
Python 3.11, with `MockTransport` or a stub of the broker.

| configuration | property | what happens | |
|---|---|---|---|
| `stop_hangs` | `StopTerminates` | `reader.py:226`: `suppress(CancelledError)` around the await of a cancelled read swallows the supervisor's own cancellation; it reconnects while `stop()` waits for its end | reproduced |
| `stale_already` | `AlreadyMeansSatisfied` | `commander.py:185`: the last state survives the connection. After a yield in which the owner switched the heater on, "off" is answered *already off, nothing sent* until the next packet | reproduced |
| `command_crash` | `AssertionsHold` | `commander.py:196`, `:280`: of two requests that one packet wakes, the first forgets the state that the second asserts it has | reproduced |
| `deaf_link` | `ConnectedIsListening` | `session.py:363`: the supervisor takes a connected transport for a working session. After a subscription that failed alone, it reports CONNECTED for ever with no reader behind it | |
| `yield_keeps_slot` | `YieldFreesSlot` | `session.py:287`: a failed disconnect is suppressed after the client has been forgotten, and the yield reports a release that did not happen | |
| `release_says_free` | `ReleasedIsFree` | `session.py:287`: the same of the release: "Link released" is printed of a link that was not, or that a yield's teardown had forgotten when the bridge was cancelled in it | |
| `stop_swallowed` | `StopTerminates` | `session.py:408`, Python 3.11: a supervisor cancelled in the turn in which a power-on ends its backoff loses its cancellation | reproduced |
| `poll_stop_hangs` | `StopNeverHangs` | `reader.py:295`, Python 3.11: the same of a poll loop and a poke | reproduced |
| `orphan_read` | `StoppedIsQuiet` | `reader.py:229`: a first part that arrives while `stop()` awaits `unsubscribe()` starts a read that outlives the stop | reproduced |
| `bridge_hangs` | `CancelledBridgeEnds` | `mqtt.py:302`: a publisher that died of the broker's loss raises its error in place of the cancellation under way, and `run()` reconnects | reproduced |
| `online_left` | `ExitIsOffline` | `mqtt.py:293`: a bridge cancelled between its first two publications leaves "online" retained and discards its will | reproduced |
| `silent_publisher` | `StateGetsOut` | `mqtt.py:295`: nobody watches the publisher: a `publish()` that raises on a connection that stays up ends it, and commands are still accepted | |
| `stale_online` | `StaleGoesOffline` | `mqtt.py:317`: a reading that ages notifies nobody: "online" stays while the device is silent | |
| `unreported` | `EveryPathReports` | `mqtt.py:332`: `float("inf")` is a number and `round()` of it an `OverflowError`: the command has no result and the bridge ends | reproduced |
| `socket_left` | `SocketsAreServed` | `http_ws.py:441`: a pump that died of an error it does not expect raises it in the `finally` clause, which skips the discard and the close: the socket stays in the set until the server ends | |
| `always_releases` | `AlwaysReleases` | `cli.py:281`: `watch` starts its reader before the `try` block whose comment says "Always release the link": a reader that cannot start leaves the connection to the exit of the process | |
| `fan_truncated` | `NoFanSnapsInward` | `http_ws.py:380`, `mqtt.py:359`: `int()` makes 100 of 100.9 before the range is checked, so that a speed out of range is accepted and "snapped inward", which `encode.py:122` says it is not | |
| `last_word` | `PromptIsLastWord` | `cli.py:366`: `input()` does not see the first Ctrl-C: a command whose prompt is answered after it is written all the same if its next await is the write itself | |
| `grace_exceeded` | `GraceIsKept` | `cli.py:755`: the grace period's cancellation is suppressed at the drain of a bridge, and the release goes on | reproduced |

In the daemons a bridge or a supervisor that has lost its cancellation is cancelled
again when the grace period expires, unless that one is spent elsewhere (`ReleaseEnds`).
`Shutdown` also shows that a bridge that died raises its error again in
`_drain_bridge`, so that `session.stop()` is skipped; the link then goes with the
process, and `SaidIsTrue` allows for it. A changed length may leave a prefix whose checksum
happens to be right; what is decoded of such a packet is what the device reported, because the
length is not one of the bytes that are decoded (`WhatIsPublishedIsIntact`).

Configurations of `Session` and `SessionLease` are checked with `MCSession`, those of
`Commander` with `MCCommander`, the others with the module they are about, as in
`tlc -config orphan_read.cfg Reader`.

Three more configurations pass, each of which says something the runs leave out.
`session_lease`: the lease is implemented also with reads in flight and failing
subscriptions; the types are checked there as well. `reader_types`: the type invariants of
`Reader` and `PollLoop`, the lock's queue among them. `websocket_queue`: what `websocket` shows, for one
client and a queue that orders and overflows.

## Proofs

For any callers, clients, requests, modes, values, commands, writers and bounds, the lost
cancellations among them (the named `ASSUME`s
of the modules, which say no more than that the parameters have their types and
that the tasks' names differ):

| theorem | says |
|---|---|
| `SessionProofs!TypeCorrect` | `TypeOK` |
| `SessionProofs!LockIsHeld` | `LockDiscipline` |
| `SessionProofs!YieldIsHonoured` | `YieldHonoured` |
| `SessionProofs!SessionImplementsLease` | `Spec => ImplementsLease`, if disconnects work |
| `SessionProofs!YieldGivesTheSlot` | `YieldFreesSlot`, if disconnects work |
| `CommanderProofs!TypeCorrect` | `TypeOK` |
| `CommanderProofs!NothingSentIsTrue` | `NothingSentMeansNothingSent` |
| `CommanderProofs!VerifiedIsProven` | `VerifiedIsObserved` |
| `SessionProofs!AttemptsStartClean` | `NoStaleReader` |
| `SessionProofs!PowerOnsAreKept` | `PowerOnKept` |
| `SessionProofs!EarlyAttemptsAreBounded` | `EarlyAttemptsBounded` |
| `SessionProofs!BackoffFalls` | `BackoffFallsForALink` |
| `SessionProofs!StopLeavesNothing` | `StopReleases` |
| `StatusReaderProofs!PokesAreAnswered` | `PokeIsAnswered` |
| `StatusReaderProofs!ReaderSamples` | the safety of `ImplementsSampling` |
| `StatusReaderProofs!SplitPacketsInOrder` | `OnlyWholeOvertakes` |
| `BridgeProofs!TypeCorrect` | `TypeOK`, the queue's bound among it |
| `BridgeProofs!NewestSettles` | `Settled` |
| `BridgeProofs!FallsBackBehindNewer` | `FallsBackOnlyBehindNewer` |
| `BridgeProofs!GoodbyeIsSaid` | `GoodbyeSaid` |
| `WebSocketProofs!TypeCorrect` | `TypeOK`, the queues' bound among it |
| `WebSocketProofs!NewestWinsOverflows` | `NewestIsKept` |
| `WebSocketProofs!HandlersLeaveNothing` | `NothingLeftBehind` |
| `WebSocketProofs!SocketsAreClosed` | `EverySocketIsClosed` |
| `WebSocketProofs!StreamsInOrder` | the safety of `ImplementsNewestWins` |
| `OneShotProofs!TypeCorrect` | `TypeOK`, and each command is somewhere in its own script |
| `OneShotProofs!WhatIsSaidIsTrue` | `SaidIsTrue` |
| `OneShotProofs!CommandsGiveBack` | `GivesBack` |
| `RoundTripProofs!RequestsAreKept` | `RequestIsKept` |
| `RoundTripProofs!ObeyedAreVerified` | `ObeyedIsVerified` |
| `RoundTripProofs!WhatIsPublishedIsIntact` | `OnlyIntact`, for every byte a packet has and every change of it |
| `ShutdownProofs!WhatIsSaidIsTrue` | `SaidIsTrue` |

*The lock.* `LockDiscipline` is inductive with the types: a task gets into the
critical labels only as the holder, and leaves them with its release.

*The yield.* `YieldHonoured` alone is not: a caller on its way out is about to
make its premise true. `HonourInv` adds `ClientForgotten`: a task in the last step
of a teardown has no client to leave behind, because it holds the lock from the
moment it forgot it.

*The attempts.* `NoStaleReader` needs `ReaderInv`: a supervisor or a daemon that is in a
teardown, behind one or in an attempt finds no reader, and a read in flight has a reader
or is being awaited. That rests on `Roles`, which says who may be where: no yields without
a running daemon, no supervisor but one that runs or is awaited. `PowerInv` counts for
`EarlyAttemptsBounded`: an event that is set is an edge not yet spent.

*The lease.* The refinement needs to know, in every state, whose the slot can be.
`SlotInv` says: outside a connection's two awaits and a teardown's last, a slot that
is ours has a client (`SlotAccounted`); a caller's teardown that is done has given
it up (`SlotGivenUp`); the supervisor tears down only what it found lost, and
each task has its own labels. Then each action is `Begin`, `Conclude`,
`Give`, `Ask`, `Keep`, `Lift` or a stutter.

*The commander.* `Honest` is one condition per request, on its own record and the
last state: a request that awaits its baseline has not written, one past it
has, and whatever it would take for its confirmation has been seen since its write.
Other requests can only replace the last state by none, which weakens
the condition (`StepKeepsHonesty`), so the number of requests does not matter.

*The stop.* That a stop leaves no lock held, and nobody queued for it, is `QueueInv`:
whoever has the lock or is queued is on its way through it, and is there once; a cancelled
waiter leaves the queue, and a cancelled holder the lock. `Roles` has the supervisor and
`ReaderInv` the reader; `StoppedInv` adds the link and the client, from the yield's
`ClientForgotten`.

*The reader.* For notifications, `NotifiedInv`: a completion that began while the reader ran
is the one `_completion` refers to while it runs, and the one `stop()` awaits after, so a stop
that has awaited it leaves none; every other is a stray, and only what a stop awaits is cancelled. For the
poll loop, `PolledInv`: a task that is alive without a running reader has been cancelled, or has
lost its cancellation. Then every step of either mode is one of `Sampling` or a stutter.
`PokeIsAnswered` is inductive with the types of its two variables: the end of a read is the only
step that could lose a poke (`AfterReadAnswers`). The order of split packets is `OrderInv`: under
the GATT lock at most one read has an answer that its task has yet to see, and if that answer
completes the task's own packet, nothing newer was published since but what came whole.

*The bridge.* `NewestInv`: the last in the queue tells what is so; while the queue is empty
the item taken from it does, or the greeting, and once that is out, the broker. A
notification appends what is so, and a drop of the oldest never drops the last. `Past`, for
the falls: nothing that was taken or greeted with is of the future. `GoodbyeInv`: a lost
connection has a will that is due or nothing to take back, and a session that was served
is behind its goodbye before it is left, unless a cancellation cut that short, or it is `mute`; and
a publisher that has died did so of a lost connection, or will have it `mute`.

*The stream.* `StreamInv` is one condition per client (`WiringOf`): a handler that reads has
its listener, a pump and its place in the set, and one that has ended has none; `Newest`
says of a queue what `NewestIsKept` says, in the form that an append, a drop of the
oldest and a taking preserve; `ListedClose` that what is not on the list of those to
close is closed. The clients share nothing else, so their number does not matter. Its
order is `InOrder`: what a client has is older than what its pump sends, which is older than
all that is queued, which rises; an append of the newest, a drop of the oldest and a taking
keep a queue `Rising`. Then a pump's step is a delivery of `NewestWins`, and what clogs a
queue is a stutter.

*The commands.* `Placed` says what is left of a script wherever it is: connection and start
in the open, the writing last in the `try` block with at most a prompt before it, the
disconnection last of the `finally` clause. The forms are closed under `Tail`, so an await
that is done leaves another of them. On that rest `SaidInv`, that nothing is written or said
before the `try` block is left and the release is said last, and `StrikeInv`: a command that has yet
to connect has no link, and an interrupt that is pending at an await was struck there or at
one from which the code goes on without giving the loop a turn.

*The round trip.* A packet's checksum is a sum over its bytes, a recursive function.
The library's induction theorems take an operator, so induction is stated of sets
(`ByInduction`, from the least element of what is missing, `Smallest`), which first-order
provers can use. It gives that the running sums exist and are unique (`RunningExists`,
`RunningAgrees`), that `Sum` of a packet and one more byte is the sum and the byte
(`SumOfAppend`), and so that every packet the device makes is trusted (`Packets`,
`PacketTrusted`), whole or reassembled of its parts (`Parted`, `PartsPublished`). What the encoders
write is what the device decodes, each with its rounding: `FanEncoded`, `TargetEncoded`,
`ModeEncoded`, and what `int()` makes of a fan speed (`Truncated`). `KeptInv` then ties the device's status to the request once that is sent, and no
arrival of a packet changes it (`ArrivalKeeps`).

*What is published.* All that is decoded is in the first twenty bytes, so what arrives with these
of a packet decodes as that packet, whatever follows them (`FrontDecoded`). A packet mixed
earlier of two may decode as neither. But a command changes one thing (`Neighbours`, the part of
`IntactInv` that says so of the state before and the state now): where that is a target or a fan
speed, the mixture decodes as the one or the other (`MixedDecoded`), and where it is the mode, which
the device's range goes with, a split between the two leaves a sum that is wrong (`MixedModes`). A
changed byte among those that are decoded leaves the length as it was and changes the sum by
as much (`SumOfChanged`), which no multiple of 256 is: the packet is dropped
(`ChangedDropped`). What is left is a remainder that is taken for a packet. It has to have a
mark, 86 or 5, for its second byte, and a packet has one in six places at most (`MarkedOnly`): its
target, mode, fan speed, range and checksum. From each of these on the declared length
or the sum is wrong (`DroppedFromTarget` to `DroppedFromChecksum`), some of them only for what the
device can have been told: that is `Reached`, from the types and `TargetIsKept`, and with it
`IntactInv` is inductive.

*The shutdown.* `SaidIsTrue` has to know, of a `stop()` that finds no client, why there is none.
`ForgottenOnPurpose`: a link that is ours and that the transport has no client for is being
disconnected, or was not. And nobody else is disconnecting when `stop()` gets there
(`RequestsAreOver`): the adapter has ended, and its requests with it.

Model-checked only: liveness, and the fairness parts of the refinements (TLAPS
proves nothing from fairness and has no `ENABLED`); and the violations. Every safety invariant
and every action property of a passing run is proved.

The SMT translation of this version of TLAPS says of `Len`, `Append` and concatenation more
than holds of them. Where a proof is about sequences it takes what it needs from
`SequenceTheorems` and does not rest on that: all of them were also checked with those
axioms restricted to sequences.

## Not modelled, and the plan

What could come next: the types of `PollLoop` and `Reader` as theorems; `OnlyIntact` of
packets with two changed bytes, which the checksum need not notice; the host and token checks (`http_ws.py:124` to `227`) and
the registry's lookup, which keep no state, as operators.

Left out for good: scanning and address resolution (retries inside a library),
argument parsing and printing, the API's projections and its static contract, the
mock transport, `scan` and `decode`, which hold no link.
