------------------------------- MODULE WebSocket -------------------------------
(***************************************************************************)
(* The state stream of the HTTP adapter, integrations/http_ws.py: for each *)
(* client a task that reads its socket, a task that pumps snapshots into   *)
(* it, a bounded queue between the session's notifications and the pump,   *)
(* and the server's end, which closes the sockets one after another.       *)
(* aiohttp and the clients are external.  A snapshot is its number.        *)
(***************************************************************************)
EXTENDS Naturals, Sequences

CONSTANTS
    Clients,
    Capacity,     \* what a client's queue holds
    MaxMade,      \* bound: snapshots
    StrayErrors   \* may a send raise an error that _pump does not expect?

ASSUME CapacityAssumption == Capacity \in Nat \ {0}
ASSUME MadeAssumption == MaxMade \in Nat \ {0}
ASSUME ErrorsAssumption == StrayErrors \in BOOLEAN

VARIABLES
    newest,     \* the number of the session's newest snapshot
    listeners,  \* DeviceSession._listeners: the clients whose on_snapshot is in it
    sockets,    \* app[_SOCKETS_KEY]
    handler,    \* per client: the await handle_ws is suspended at; "away" before
                \* the request
    pump,       \* per client: the await _pump is suspended at; "cancelled" until it
                \* has seen so; "failed" of an error it does not expect
    queue,      \* per client: pending
    item,       \* per client: the snapshot its pump has taken
    closed,     \* per client: socket.closed, or that its connection is lost
    silent,     \* per client: has it stalled, or gone without a word?
    received,   \* per client: the last snapshot it was sent
    server,     \* up, in _close_sockets, waiting for the handlers, or down
    listed,     \* _close_sockets: list(sockets)
    toClose,    \* those of them it has not come to
    closing     \* the one whose close() it awaits, if any

vars == <<newest, listeners, sockets, handler, pump, queue, item, closed, silent,
          received, server, listed, toClose, closing>>
serverVars == <<server, listed, toClose, closing>>
pumpVars == <<pump, queue, item, received>>

(* Nobody has a use for a client's queue when its pump has ended.           *)
Forget(c) ==
    /\ queue' = [queue EXCEPT ![c] = <<>>]
    /\ item' = [item EXCEPT ![c] = 0] /\ received' = [received EXCEPT ![c] = 0]

Ends(c) ==
    /\ handler' = [handler EXCEPT ![c] = "done"]
    /\ UNCHANGED <<newest, listeners, sockets, pump, closed, silent, serverVars>>

InFinally == {"joining", "closing"}
Finished == {"away", "done"}

Init ==
    /\ newest = 1 /\ listeners = {} /\ sockets = {}
    /\ handler = [c \in Clients |-> "away"] /\ pump = [c \in Clients |-> "none"]
    /\ queue = [c \in Clients |-> <<>>] /\ item = [c \in Clients |-> 0]
    /\ closed = [c \in Clients |-> FALSE] /\ silent = [c \in Clients |-> FALSE]
    /\ received = [c \in Clients |-> 0]
    /\ server = "up" /\ listed = {} /\ toClose = {} /\ closing = {}

-----------------------------------------------------------------------------
(* DeviceSession._notify and each client's on_snapshot                      *)

OfferedDropsNewest(q, n) ==                       \* fault: a full queue keeps what it has
    IF Len(q) < Capacity THEN Append(q, n) ELSE q

Offered(q, n) == Append(IF Len(q) < Capacity THEN q ELSE Tail(q), n)

Notify ==
    /\ newest < MaxMade /\ newest' = newest + 1
    /\ queue' = [c \in Clients |->
                   IF c \in listeners THEN Offered(queue[c], newest') ELSE queue[c]]
    /\ UNCHANGED <<listeners, sockets, handler, pump, item, closed, silent, received, serverVars>>

-----------------------------------------------------------------------------
(* handle_ws                                                                *)

Connects(c) ==
    /\ handler[c] = "away" /\ server = "up"
    /\ handler' = [handler EXCEPT ![c] = "preparing"]
    /\ UNCHANGED <<newest, listeners, sockets, pumpVars, closed, silent, serverVars>>

PrepareFails(c) ==
    /\ handler[c] = "preparing" /\ silent[c]
    /\ Ends(c) /\ UNCHANGED <<queue, item, received>>

(* Fault: a client is sent nothing until something changes.                 *)
PreparedForChanges(c) ==
    /\ handler[c] = "preparing"
    /\ handler' = [handler EXCEPT ![c] = "reading"]
    /\ sockets' = sockets \cup {c} /\ listeners' = listeners \cup {c}
    /\ pump' = [pump EXCEPT ![c] = "getting"]
    /\ UNCHANGED <<newest, queue, item, received, closed, silent, serverVars>>

(* It subscribes and puts the present snapshot, in one step.                *)
Prepared(c) ==
    /\ handler[c] = "preparing"
    /\ handler' = [handler EXCEPT ![c] = "reading"]
    /\ sockets' = sockets \cup {c} /\ listeners' = listeners \cup {c}
    /\ queue' = [queue EXCEPT ![c] = Offered(@, newest)]
    /\ pump' = [pump EXCEPT ![c] = "getting"]
    /\ UNCHANGED <<newest, item, received, closed, silent, serverVars>>

(* Fault: the finally clause does not cancel the pump.                      *)
FinallyWaits(c) ==
    /\ handler' = [handler EXCEPT ![c] = "joining"]
    /\ listeners' = listeners \ {c}
    /\ UNCHANGED <<newest, sockets, pumpVars, closed, silent, serverVars>>

(* Fault: the finally clause does not unsubscribe.                          *)
FinallyListens(c) ==
    /\ handler' = [handler EXCEPT ![c] = "joining"]
    /\ pump' = [pump EXCEPT ![c] = IF @ \in {"getting", "sending"} THEN "cancelled" ELSE @]
    /\ UNCHANGED <<newest, listeners, sockets, queue, item, received, closed, silent, serverVars>>

(* The finally clause, up to its first await.                               *)
Finally(c) ==
    /\ handler' = [handler EXCEPT ![c] = "joining"]
    /\ listeners' = listeners \ {c}
    /\ pump' = [pump EXCEPT ![c] = IF @ \in {"getting", "sending"} THEN "cancelled" ELSE @]
    /\ UNCHANGED <<newest, sockets, queue, item, received, closed, silent, serverVars>>

(* The loop over the socket's messages ends once it has closed; other       *)
(* messages are ignored.                                                    *)
ReadEnds(c) == handler[c] = "reading" /\ closed[c] /\ Finally(c)

(* await writer, then discard, and close.  The pump's own error is raised   *)
(* here and skips the rest.                                                 *)
Joined(c) ==
    /\ handler[c] = "joining" /\ pump[c] = "ended"
    /\ sockets' = sockets \ {c} /\ closed' = [closed EXCEPT ![c] = TRUE]
    /\ handler' = [handler EXCEPT ![c] = "closing"]
    /\ Forget(c)
    /\ UNCHANGED <<newest, listeners, pump, silent, serverVars>>

JoinRaises(c) ==
    /\ handler[c] = "joining" /\ pump[c] = "failed"
    /\ Ends(c) /\ Forget(c)

(* The client has answered, or had its time to.                             *)
CloseReturns(c) ==
    /\ handler[c] = "closing"
    /\ Ends(c) /\ UNCHANGED <<queue, item, received>>

(* aiohttp cancels the handlers that are left.  A handler that awaits its   *)
(* pump takes that for the pump's CancelledError.                           *)
HandlerCancelled(c) ==
    /\ server = "draining"
    /\ \/ handler[c] = "reading" /\ Finally(c)
       \/ /\ handler[c] \in {"preparing", "closing"}
          /\ Ends(c) /\ UNCHANGED <<queue, item, received>>

-----------------------------------------------------------------------------
(* _pump                                                                    *)

Takes(c) ==
    /\ pump[c] = "getting" /\ queue[c] # <<>>
    /\ item' = [item EXCEPT ![c] = Head(queue[c])]
    /\ queue' = [queue EXCEPT ![c] = Tail(@)]
    /\ pump' = [pump EXCEPT ![c] = IF closed[c] THEN "ended" ELSE "sending"]
    /\ UNCHANGED <<newest, listeners, sockets, handler, closed, silent, received, serverVars>>

(* send_json() waits while the client does not read.                        *)
SendReturns(c) ==
    /\ pump[c] = "sending" /\ ~silent[c]
    /\ received' = [received EXCEPT ![c] = item[c]]
    /\ pump' = [pump EXCEPT ![c] = "getting"]
    /\ UNCHANGED <<newest, listeners, sockets, handler, queue, item, closed, silent, serverVars>>

(* What an interrupted send carried may have arrived.                       *)
MayHaveArrived(c) == received' \in {received, [received EXCEPT ![c] = item[c]]}

SendRaises(c) ==
    /\ pump[c] = "sending" /\ closed[c]
    /\ pump' \in {[pump EXCEPT ![c] = e] :
                    e \in {"ended"} \cup IF StrayErrors THEN {"failed"} ELSE {}}
    /\ MayHaveArrived(c)
    /\ UNCHANGED <<newest, listeners, sockets, handler, queue, item, closed, silent, serverVars>>

PumpCancelled(c) ==
    /\ pump[c] = "cancelled"
    /\ pump' = [pump EXCEPT ![c] = "ended"]
    /\ MayHaveArrived(c)
    /\ UNCHANGED <<newest, listeners, sockets, handler, queue, item, closed, silent, serverVars>>

-----------------------------------------------------------------------------
(* The clients, and aiohttp, which closes the socket of one that says       *)
(* goodbye, that is lost, or that answers no heartbeat                      *)

FallsSilent(c) ==
    /\ handler[c] \in {"preparing", "reading"} /\ ~silent[c] /\ silent' = [silent EXCEPT ![c] = TRUE]
    /\ UNCHANGED <<newest, listeners, sockets, handler, pumpVars, closed, serverVars>>


Recovers(c) ==
    /\ handler[c] \in {"preparing", "reading"} /\ silent[c] /\ silent' = [silent EXCEPT ![c] = FALSE]
    /\ UNCHANGED <<newest, listeners, sockets, handler, pumpVars, closed, serverVars>>

SocketCloses(c) ==
    /\ closed' = [closed EXCEPT ![c] = TRUE]
    /\ UNCHANGED <<newest, listeners, sockets, handler, pumpVars, silent, serverVars>>

SaysGoodbye(c) ==
    /\ handler[c] = "reading" /\ ~closed[c] /\ ~silent[c]
    /\ SocketCloses(c)

HeartbeatFails(c) ==
    /\ handler[c] = "reading" /\ ~closed[c] /\ silent[c]
    /\ SocketCloses(c)

-----------------------------------------------------------------------------
(* The server's end: _close_sockets, then aiohttp                           *)

ShutdownBegins ==
    /\ server = "up" /\ server' = "closing"
    /\ listed' = sockets /\ toClose' = sockets
    /\ UNCHANGED <<newest, listeners, sockets, handler, pumpVars, closed, silent, closing>>

(* Fault: it iterates over the set the handlers change, and raises then.    *)
ClosesLive(c) ==
    /\ server = "closing" /\ closing = {} /\ c \in toClose
    /\ IF sockets = listed
       THEN /\ toClose' = toClose \ {c} /\ UNCHANGED server
            /\ closing' = IF closed[c] THEN {} ELSE {c}
            /\ closed' = [closed EXCEPT ![c] = TRUE]
       ELSE server' = "draining" /\ UNCHANGED <<toClose, closing, closed>>
    /\ UNCHANGED <<newest, listeners, sockets, handler, pumpVars, silent, listed>>

Closes(c) ==
    /\ server = "closing" /\ closing = {} /\ c \in toClose
    /\ toClose' = toClose \ {c}
    /\ closing' = IF closed[c] THEN {} ELSE {c}
    /\ closed' = [closed EXCEPT ![c] = TRUE]
    /\ UNCHANGED <<newest, listeners, sockets, handler, pumpVars, silent, server, listed>>

(* Its client has answered, or had its ten seconds.                         *)
ClosedOne ==
    /\ server = "closing" /\ closing # {} /\ closing' = {}
    /\ UNCHANGED <<newest, listeners, sockets, handler, pumpVars, closed, silent, server, listed, toClose>>

ServerGoes(where) ==
    /\ server' = where
    /\ UNCHANGED <<newest, listeners, sockets, handler, pumpVars, closed, silent, listed, toClose, closing>>

AllClosed ==
    /\ server = "closing" /\ closing = {} /\ toClose = {}
    /\ ServerGoes("draining")

AllEnded ==
    /\ server = "draining" /\ \A c \in Clients : handler[c] \in Finished
    /\ ServerGoes("down")

-----------------------------------------------------------------------------
HandlerStep(c) ==
    PrepareFails(c) \/ Prepared(c) \/ ReadEnds(c) \/ Joined(c) \/ JoinRaises(c) \/ CloseReturns(c)

PumpStep(c) == Takes(c) \/ SendReturns(c) \/ SendRaises(c) \/ PumpCancelled(c)

ClientStep(c) == Connects(c) \/ FallsSilent(c) \/ Recovers(c) \/ SaysGoodbye(c)

ServerStep ==
    ClosedOne \/ AllClosed \/ AllEnded \/ \E c \in Clients : Closes(c) \/ HandlerCancelled(c)

Next ==
    \/ Notify \/ ServerStep \/ ShutdownBegins
    \/ \E c \in Clients : HandlerStep(c) \/ PumpStep(c) \/ ClientStep(c) \/ HeartbeatFails(c)

Spec == Init /\ [][Next]_vars

(* Tasks run, and aiohttp keeps its timeouts.  A client may stay silent for *)
(* as long as it likes, and then no send to it ends of itself.              *)
FairSpec ==
    /\ Spec /\ WF_vars(ServerStep)
    /\ \A c \in Clients :
         WF_vars(HandlerStep(c)) /\ WF_vars(PumpStep(c)) /\ WF_vars(HeartbeatFails(c))

-----------------------------------------------------------------------------
(* Every variable stays in its range, and a queue within its capacity.      *)
TypeOK ==
    /\ newest \in 1..MaxMade
    /\ listeners \subseteq Clients /\ sockets \subseteq Clients
    /\ handler \in [Clients -> InFinally \cup Finished \cup {"preparing", "reading"}]
    /\ pump \in [Clients -> {"none", "getting", "sending", "cancelled", "ended", "failed"}]
    /\ queue \in [Clients -> Seq(1..MaxMade)]
    /\ \A c \in Clients : Len(queue[c]) <= Capacity
    /\ item \in [Clients -> 0..MaxMade] /\ received \in [Clients -> 0..MaxMade]
    /\ closed \in [Clients -> BOOLEAN]
    /\ silent \in [Clients -> BOOLEAN]
    /\ server \in {"up", "closing", "draining", "down"}
    /\ listed \subseteq Clients /\ toClose \subseteq listed
    /\ closing \subseteq Clients

(* "The newest snapshot wins when it overflows" (http_ws.py:412): while a   *)
(* pump is alive, the newest snapshot is the last of its queue, or what it  *)
(* is sending, or what the client has; overflowing drops older ones only.   *)
NewestIsKept ==
    \A c \in Clients : (handler[c] = "reading" /\ pump[c] \in {"getting", "sending"}) =>
        IF queue[c] = <<>> THEN item[c] = newest ELSE queue[c][Len(queue[c])] = newest

(* A handler that has ended, however it did, has left no listener behind in *)
(* the session, no pump, and no socket in the application's set unless its  *)
(* pump died of an error that nobody expects: what a notification costs does*)
(* not grow with the clients there have been.                               *)
NothingLeftBehind ==
    \A c \in Clients : handler[c] \in Finished =>
        /\ c \notin listeners /\ pump[c] \in {"none", "ended", "failed"}
        /\ c \in sockets => pump[c] = "failed"

(* The finally clause discards the socket (http_ws.py:443), always.         *)
SocketsAreServed == \A c \in sockets : handler[c] \notin Finished

(* "Close every socket before the loop stops, so clients see a clean close" *)
(* (http_ws.py:495): those that were connected when the server was told to  *)
(* end have been closed when it goes on, though handlers end meanwhile.     *)
EverySocketIsClosed ==
    server \in {"draining", "down"} => \A c \in listed : closed[c]

(* A client that is gone without a word, or that leaves while a send to it  *)
(* is stuck, is let go of: its handler ends, and with it its listener,      *)
(* unless it was only slow.                                                 *)
LostClientsAreDropped ==
    \A c \in Clients :
        (handler[c] \notin Finished /\ (closed[c] \/ silent[c]))
            ~> (handler[c] = "done" \/ ~(closed[c] \/ silent[c]))

(* The stream to each client is one of snapshots in order that ends with    *)
(* the newest, "a snapshot rather than a log" (http_ws.py:414), also beside *)
(* clients that stall, vanish and come.                                     *)
Stream == INSTANCE NewestWins WITH
    present <- {c \in Clients : handler[c] \in {"reading", "joining"}},
    attentive <- {c \in Clients : handler[c] = "reading" /\ ~closed[c] /\ ~silent[c]},
    delivered <- received

ImplementsNewestWins == Stream!FairSpec
=============================================================================
