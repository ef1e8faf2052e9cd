---------------------------- MODULE WebSocketProofs ----------------------------
(***************************************************************************)
(* The state stream for any number of clients and any capacity: what its   *)
(* queues keep, what its handlers leave, and whom the server's end closes. *)
(***************************************************************************)
EXTENDS WebSocket, SequenceTheorems, TLAPS

-----------------------------------------------------------------------------
(* Queues                                                                   *)

Snapshots == 1..MaxMade
QueueOK(q) == q \in Seq(Snapshots) /\ Len(q) <= Capacity

(* The newest is the last of q, or what was taken from it last.             *)
EndsWith(q, taken, n) == IF q = <<>> THEN taken = n ELSE q[Len(q)] = n

LEMMA EmptyQueue == QueueOK(<<>>)
  BY CapacityAssumption, EmptySeq DEF QueueOK

LEMMA SomethingIsNotEmpty ==
  ASSUME NEW s \in Seq(Snapshots), Len(s) >= 1
  PROVE  s # <<>>
<1> SUFFICES ASSUME s = <<>> PROVE FALSE
  OBVIOUS
<1>1. DOMAIN s = 1..Len(s) /\ DOMAIN s = {}
  BY LenProperties
<1> QED BY <1>1, LenProperties

LEMMA TailOfQueue ==
  ASSUME NEW q, QueueOK(q), q # <<>>
  PROVE  /\ QueueOK(Tail(q)) /\ Len(Tail(q)) < Capacity
         /\ Head(q) \in Snapshots
         /\ \A taken, n : EndsWith(q, taken, n) => EndsWith(Tail(q), Head(q), n)
<1> DEFINE T == Tail(q)
<1>1. /\ q \in Seq(Snapshots) /\ Len(q) \in Nat \ {0} /\ Len(q) <= Capacity
      /\ Head(q) = q[1]
  BY EmptySeq DEF QueueOK
<1>2. /\ Head(q) \in Snapshots /\ T \in Seq(Snapshots) /\ Len(T) = Len(q) - 1
      /\ \A i \in 1..Len(T) : T[i] = q[i + 1]
  BY <1>1, HeadTailProperties
<1>3. QueueOK(T) /\ Len(T) < Capacity
  BY <1>1, <1>2, CapacityAssumption DEF QueueOK
<1>4. CASE Len(q) <= 1
  <2>1. T = <<>>
    BY <1>1, <1>2, <1>4, EmptySeq
  <2> QED BY <1>1, <1>2, <1>3, <1>4, <2>1 DEF EndsWith
<1>5. CASE Len(q) > 1
  <2>1. Len(T) \in 1..Len(T) /\ Len(T) + 1 = Len(q)
    BY <1>1, <1>2, <1>5
  <2>2. T[Len(T)] = q[Len(q)]
    BY <1>2, <2>1
  <2>3. T # <<>>
    <3> HIDE DEF T
    <3> QED BY <1>2, <2>1, SomethingIsNotEmpty
  <2> QED BY <1>2, <1>3, <2>2, <2>3 DEF EndsWith
<1> QED BY <1>4, <1>5

LEMMA AppendToQueue ==
  ASSUME NEW q \in Seq(Snapshots), Len(q) < Capacity, NEW n \in Snapshots
  PROVE  QueueOK(Append(q, n)) /\ \A taken : EndsWith(Append(q, n), taken, n)
<1> DEFINE A == Append(q, n)
<1>1. /\ A \in Seq(Snapshots) /\ Len(q) \in Nat /\ Len(A) = Len(q) + 1 /\ A[Len(q) + 1] = n
  BY AppendProperties, LenProperties
<1>2. A # <<>>
  BY <1>1, EmptySeq
<1>3. QueueOK(A)
  BY <1>1, CapacityAssumption DEF QueueOK
<1> QED BY <1>1, <1>2, <1>3 DEF EndsWith

(* Whatever a full queue gives up, it is not what it is offered.            *)
LEMMA OfferedEndsWithNewest ==
  ASSUME NEW q, QueueOK(q), NEW n \in Snapshots
  PROVE  QueueOK(Offered(q, n)) /\ \A taken : EndsWith(Offered(q, n), taken, n)
<1>1. CASE Len(q) < Capacity
  BY <1>1, AppendToQueue DEF Offered, QueueOK
<1>2. CASE ~(Len(q) < Capacity)
  <2>1. q # <<>>
    BY <1>2, EmptySeq, CapacityAssumption
  <2>2. Tail(q) \in Seq(Snapshots) /\ Len(Tail(q)) < Capacity
    BY <2>1, TailOfQueue DEF QueueOK
  <2> QED BY <1>2, <2>2, AppendToQueue DEF Offered
<1> QED BY <1>1, <1>2

-----------------------------------------------------------------------------
(* The inductive invariant                                                  *)

(* What a client's handler, pump, listener and socket are to each other.    *)
(* Of its own, that no listener is left behind does not follow from a step  *)
(* before: a handler that ends must know that it was no longer listening.   *)
WiringOf(c) ==
    /\ c \in listeners <=> handler[c] = "reading"
    /\ handler[c] = "reading" => pump[c] # "none"
    /\ handler[c] \in {"away", "preparing"} => pump[c] = "none" /\ c \notin sockets
    /\ handler[c] = "joining" => pump[c] \in {"cancelled", "ended", "failed"}
    /\ handler[c] = "closing" => pump[c] = "ended" /\ c \notin sockets
    /\ handler[c] = "done" => /\ pump[c] \in {"none", "ended", "failed"}
                              /\ c \in sockets => pump[c] = "failed"

Newest(c) ==
    (handler[c] = "reading" /\ pump[c] \in {"getting", "sending"})
        => EndsWith(queue[c], item[c], newest)

(* Sockets close for good, and those that _close_sockets has come to have.  *)
ListedClose ==
    /\ server = "up" => listed = {}
    /\ \A c \in listed \ toClose : closed[c]
    /\ server \in {"draining", "down"} => toClose = {}

StreamInv ==
    /\ TypeOK /\ ListedClose
    /\ \A c \in Clients : WiringOf(c) /\ Newest(c)

LEMMA StreamInit == Init => StreamInv
<1> SUFFICES ASSUME Init PROVE StreamInv
  OBVIOUS
<1> USE MadeAssumption, CapacityAssumption DEF Init
<1>1. TypeOK
  BY EmptySeq DEF TypeOK, InFinally, Finished
<1>2. ListedClose /\ \A c \in Clients : WiringOf(c) /\ Newest(c)
  BY DEF ListedClose, WiringOf, Newest
<1> QED BY <1>1, <1>2 DEF StreamInv

-----------------------------------------------------------------------------
(* Types                                                                    *)

Handlers == InFinally \cup Finished \cup {"preparing", "reading"}
Pumps == {"none", "getting", "sending", "cancelled", "ended", "failed"}

QueueTypes == queue \in [Clients -> Seq(Snapshots)] /\ \A c \in Clients : QueueOK(queue[c])

RestTypes ==
    /\ newest \in Snapshots /\ listeners \subseteq Clients /\ sockets \subseteq Clients
    /\ handler \in [Clients -> Handlers] /\ pump \in [Clients -> Pumps]
    /\ item \in [Clients -> 0..MaxMade] /\ received \in [Clients -> 0..MaxMade]
    /\ closed \in [Clients -> BOOLEAN] /\ silent \in [Clients -> BOOLEAN]
    /\ server \in {"up", "closing", "draining", "down"}
    /\ listed \subseteq Clients /\ toClose \subseteq listed /\ closing \subseteq Clients

LEMMA TypesSplit == TypeOK <=> QueueTypes /\ RestTypes
  BY DEF TypeOK, QueueTypes, RestTypes, QueueOK, Snapshots, Handlers, Pumps

(* A client's queue alone changes, and into one that is within its bounds.  *)
LEMMA QueueSet ==
  ASSUME QueueTypes, NEW c \in Clients, NEW q, QueueOK(q), queue' = [queue EXCEPT ![c] = q]
  PROVE  QueueTypes'
  BY DEF QueueTypes, QueueOK

LEMMA QueueTypeStep == TypeOK /\ [Next]_vars => QueueTypes'
<1> SUFFICES ASSUME QueueTypes, RestTypes, [Next]_vars PROVE QueueTypes'
  BY TypesSplit
<1>1. CASE Notify
  <2>1. newest' \in Snapshots
    BY <1>1, MadeAssumption DEF Notify, RestTypes, Snapshots
  <2>2. \A c \in Clients : QueueOK(Offered(queue[c], newest'))
    BY <2>1, OfferedEndsWithNewest DEF QueueTypes
  <2> QED BY <1>1, <2>2 DEF Notify, QueueTypes, QueueOK
<1>2. ASSUME NEW c \in Clients, Prepared(c) PROVE QueueTypes'
  <2>1. QueueOK(Offered(queue[c], newest))
    BY OfferedEndsWithNewest DEF QueueTypes, RestTypes
  <2> QED BY <1>2, <2>1, QueueSet DEF Prepared
<1>3. ASSUME NEW c \in Clients, Takes(c) PROVE QueueTypes'
  <2>1. QueueOK(Tail(queue[c]))
    BY <1>3, TailOfQueue DEF Takes, QueueTypes
  <2> QED BY <1>3, <2>1, QueueSet DEF Takes
<1>4. ASSUME NEW c \in Clients, Forget(c) PROVE QueueTypes'
  BY <1>4, EmptyQueue, QueueSet DEF Forget
<1>5. ASSUME UNCHANGED queue PROVE QueueTypes'
  BY <1>5 DEF QueueTypes
<1>6. CASE ServerStep
  BY <1>5, <1>6 DEF ServerStep, ClosedOne, AllClosed, AllEnded, ServerGoes, Closes,
     HandlerCancelled, Finally, Ends, pumpVars
<1>7. CASE ShutdownBegins
  BY <1>5, <1>7 DEF ShutdownBegins, pumpVars
<1>8. ASSUME NEW c \in Clients, HandlerStep(c) PROVE QueueTypes'
  BY <1>2, <1>4, <1>5, <1>8 DEF HandlerStep, PrepareFails, ReadEnds, Finally, Joined,
     JoinRaises, CloseReturns
<1>9. ASSUME NEW c \in Clients, PumpStep(c) PROVE QueueTypes'
  BY <1>3, <1>5, <1>9 DEF PumpStep, SendReturns, SendRaises, PumpCancelled
<1>10. ASSUME NEW c \in Clients, ClientStep(c) \/ HeartbeatFails(c) PROVE QueueTypes'
  BY <1>5, <1>10 DEF ClientStep, HeartbeatFails, Connects, FallsSilent, Recovers, SaysGoodbye,
     SocketCloses, pumpVars
<1>11. CASE UNCHANGED vars
  BY <1>5, <1>11 DEF vars
<1> QED BY <1>1, <1>6, <1>7, <1>8, <1>9, <1>10, <1>11 DEF Next

LEMMA RestTypeStep == TypeOK /\ [Next]_vars => RestTypes'
<1> SUFFICES ASSUME QueueTypes, RestTypes, [Next]_vars PROVE RestTypes'
  BY TypesSplit
<1> USE DEF RestTypes, Handlers, InFinally, Finished, Pumps, serverVars, pumpVars
<1>1. CASE Notify
  BY <1>1, MadeAssumption DEF Notify, Snapshots
<1>2. ASSUME NEW c \in Clients, HandlerStep(c) PROVE RestTypes'
  <2>1. 0 \in 0..MaxMade
    BY MadeAssumption
  <2>2. CASE PrepareFails(c)
    BY <2>2 DEF PrepareFails, Ends
  <2>3. CASE Prepared(c)
    BY <2>3 DEF Prepared
  <2>4. CASE ReadEnds(c)
    BY <2>4 DEF ReadEnds, Finally
  <2>5. CASE Joined(c)
    BY <2>1, <2>5 DEF Joined, Forget
  <2>6. CASE JoinRaises(c)
    BY <2>1, <2>6 DEF JoinRaises, Ends, Forget
  <2>7. CASE CloseReturns(c)
    BY <2>7 DEF CloseReturns, Ends
  <2> QED BY <1>2, <2>2, <2>3, <2>4, <2>5, <2>6, <2>7 DEF HandlerStep
<1>3. ASSUME NEW c \in Clients, PumpStep(c) PROVE RestTypes'
  <2>1. CASE Takes(c)
    <3>1. Head(queue[c]) \in 0..MaxMade
      BY <2>1, TailOfQueue DEF Takes, QueueTypes, Snapshots
    <3> QED BY <2>1, <3>1 DEF Takes
  <2>2. CASE SendReturns(c)
    BY <2>2 DEF SendReturns
  <2>3. CASE SendRaises(c)
    BY <2>3 DEF SendRaises, MayHaveArrived
  <2>4. CASE PumpCancelled(c)
    BY <2>4 DEF PumpCancelled, MayHaveArrived
  <2> QED BY <1>3, <2>1, <2>2, <2>3, <2>4 DEF PumpStep
<1>4. ASSUME NEW c \in Clients, ClientStep(c) \/ HeartbeatFails(c) PROVE RestTypes'
  BY <1>4 DEF ClientStep, HeartbeatFails, Connects, FallsSilent, Recovers, SaysGoodbye, SocketCloses
<1>5. CASE ServerStep
  <2>1. CASE ClosedOne \/ AllClosed \/ AllEnded
    BY <2>1 DEF ClosedOne, AllClosed, AllEnded, ServerGoes
  <2>2. ASSUME NEW c \in Clients, Closes(c) PROVE RestTypes'
    BY <2>2 DEF Closes
  <2>3. ASSUME NEW c \in Clients, HandlerCancelled(c) PROVE RestTypes'
    BY <2>3 DEF HandlerCancelled, Finally, Ends
  <2> QED BY <1>5, <2>1, <2>2, <2>3 DEF ServerStep
<1>6. CASE ShutdownBegins
  BY <1>6 DEF ShutdownBegins
<1>7. CASE UNCHANGED vars
  BY <1>7 DEF vars
<1> QED BY <1>1, <1>2, <1>3, <1>4, <1>5, <1>6, <1>7 DEF Next

-----------------------------------------------------------------------------
(* Wiring                                                                   *)

LEMMA WiringStep ==
  ASSUME TypeOK, [Next]_vars, NEW d \in Clients, WiringOf(d)
  PROVE  WiringOf(d)'
<1>1. /\ handler \in [Clients -> Handlers] /\ pump \in [Clients -> Pumps]
  BY TypesSplit DEF RestTypes
<1> USE <1>1 DEF WiringOf, Handlers, InFinally, Finished, Pumps, pumpVars
<1>2. ASSUME UNCHANGED <<listeners, sockets, handler, pump>> PROVE WiringOf(d)'
  BY <1>2
<1>3. ASSUME NEW c \in Clients, handler[c] = "reading", Finally(c) PROVE WiringOf(d)'
  BY <1>3 DEF Finally
<1>4. ASSUME NEW c \in Clients, handler[c] \in {"preparing", "closing"}, Ends(c)
      PROVE  WiringOf(d)'
  BY <1>4 DEF Ends
<1>5. ASSUME NEW c \in Clients, HandlerStep(c) PROVE WiringOf(d)'
  <2>1. CASE PrepareFails(c)
    BY <1>4, <2>1 DEF PrepareFails
  <2>2. CASE Prepared(c)
    BY <2>2 DEF Prepared
  <2>3. CASE ReadEnds(c)
    BY <1>3, <2>3 DEF ReadEnds
  <2>4. CASE Joined(c)
    <3>1. CASE c = d
      BY <2>4, <3>1 DEF Joined
    <3>2. CASE c # d
      BY <2>4, <3>2 DEF Joined
    <3> QED BY <3>1, <3>2
  <2>5. CASE JoinRaises(c)
    BY <2>5 DEF JoinRaises, Ends
  <2>6. CASE CloseReturns(c)
    BY <1>4, <2>6 DEF CloseReturns
  <2> QED BY <1>5, <2>1, <2>2, <2>3, <2>4, <2>5, <2>6 DEF HandlerStep
<1>6. ASSUME NEW c \in Clients, PumpStep(c) PROVE WiringOf(d)'
  <2>1. UNCHANGED <<listeners, sockets, handler>> /\ \A e \in Clients \ {c} : pump'[e] = pump[e]
    BY <1>6 DEF PumpStep, Takes, SendReturns, SendRaises, PumpCancelled
  <2>2. CASE c # d
    BY <2>1, <2>2
  <2>3. CASE c = d
    <3>1. CASE Takes(d) \/ SendReturns(d) \/ SendRaises(d)
      <4>1. /\ pump[d] \in {"getting", "sending"} /\ handler[d] = "reading"
            /\ pump'[d] # "none"
        BY <3>1 DEF Takes, SendReturns, SendRaises
      <4> QED BY <2>1, <4>1
    <3>2. CASE PumpCancelled(d)
      <4>1. pump[d] = "cancelled" /\ pump'[d] = "ended"
        BY <3>2 DEF PumpCancelled
      <4> QED BY <2>1, <4>1
    <3> QED BY <1>6, <2>3, <3>1, <3>2 DEF PumpStep
  <2> QED BY <2>2, <2>3
<1>7. ASSUME NEW c \in Clients, ClientStep(c) \/ HeartbeatFails(c) PROVE WiringOf(d)'
  <2>1. CASE Connects(c)
    BY <2>1 DEF Connects
  <2>2. CASE ~Connects(c)
    BY <1>2, <1>7, <2>2 DEF ClientStep, HeartbeatFails, FallsSilent, Recovers, SaysGoodbye,
       SocketCloses
  <2> QED BY <2>1, <2>2
<1>8. CASE ServerStep
  <2>1. CASE ClosedOne \/ AllClosed \/ AllEnded \/ \E c \in Clients : Closes(c)
    BY <1>2, <2>1 DEF ClosedOne, AllClosed, AllEnded, ServerGoes, Closes
  <2>2. ASSUME NEW c \in Clients, HandlerCancelled(c) PROVE WiringOf(d)'
    BY <1>3, <1>4, <2>2 DEF HandlerCancelled
  <2> QED BY <1>8, <2>1, <2>2 DEF ServerStep
<1>9. CASE Notify \/ ShutdownBegins \/ UNCHANGED vars
  BY <1>2, <1>9 DEF Notify, ShutdownBegins, vars
<1> QED BY <1>5, <1>6, <1>7, <1>8, <1>9 DEF Next

-----------------------------------------------------------------------------
(* The newest snapshot                                                      *)

LEMMA NewestStep ==
  ASSUME TypeOK, [Next]_vars, NEW d \in Clients, WiringOf(d), Newest(d)
  PROVE  Newest(d)'
<1>1. /\ handler \in [Clients -> Handlers] /\ pump \in [Clients -> Pumps]
      /\ item \in [Clients -> 0..MaxMade] /\ newest \in Snapshots /\ QueueTypes
  BY TypesSplit DEF RestTypes
<1>2. queue \in [Clients -> Seq(Snapshots)] /\ QueueOK(queue[d])
  BY <1>1 DEF QueueTypes
<1> USE <1>1, <1>2 DEF Newest
<1>3. ASSUME UNCHANGED <<newest, queue, item>>,
             (handler[d] = "reading" /\ pump[d] \in {"getting", "sending"})'
               => handler[d] = "reading" /\ pump[d] \in {"getting", "sending"}
      PROVE  Newest(d)'
  BY <1>3
<1>4. CASE Notify
  <2>1. newest' \in Snapshots
    BY <1>4, MadeAssumption DEF Notify, Snapshots
  <2>2. handler[d] = "reading" => queue'[d] = Offered(queue[d], newest')
    BY <1>4 DEF Notify, WiringOf
  <2>3. EndsWith(Offered(queue[d], newest'), item'[d], newest')
    BY <2>1, OfferedEndsWithNewest
  <2> QED BY <1>4, <2>2, <2>3 DEF Notify
<1>5. ASSUME NEW c \in Clients, HandlerStep(c) PROVE Newest(d)'
  <2>1. CASE Prepared(c)
    <3>1. CASE c = d
      <4>1. EndsWith(Offered(queue[d], newest), item[d], newest)
        BY OfferedEndsWithNewest
      <4> QED BY <2>1, <3>1, <4>1 DEF Prepared
    <3>2. CASE c # d
      BY <2>1, <3>2 DEF Prepared
    <3> QED BY <3>1, <3>2
  <2>2. CASE PrepareFails(c) \/ ReadEnds(c) \/ CloseReturns(c)
    BY <1>3, <2>2 DEF PrepareFails, ReadEnds, Finally, CloseReturns, Ends
  <2>3. CASE Joined(c) \/ JoinRaises(c)
    BY <2>3 DEF Joined, JoinRaises, Ends, Forget
  <2> QED BY <1>5, <2>1, <2>2, <2>3 DEF HandlerStep
<1>6. ASSUME NEW c \in Clients, PumpStep(c) PROVE Newest(d)'
  <2>1. CASE Takes(c)
    <3>1. CASE c = d
      <4>1. EndsWith(queue[d], item[d], newest)
              => EndsWith(Tail(queue[d]), Head(queue[d]), newest)
        BY <2>1, <3>1, TailOfQueue DEF Takes
      <4> QED BY <2>1, <3>1, <4>1 DEF Takes
    <3>2. CASE c # d
      BY <2>1, <3>2 DEF Takes
    <3> QED BY <3>1, <3>2
  <2>2. CASE SendReturns(c)
    BY <1>3, <2>2 DEF SendReturns
  <2>3. CASE SendRaises(c)
    BY <1>3, <2>3 DEF SendRaises
  <2>4. CASE PumpCancelled(c)
    BY <1>3, <2>4 DEF PumpCancelled
  <2> QED BY <1>6, <2>1, <2>2, <2>3, <2>4 DEF PumpStep
<1>7. ASSUME NEW c \in Clients, ClientStep(c) \/ HeartbeatFails(c) PROVE Newest(d)'
  BY <1>3, <1>7 DEF ClientStep, HeartbeatFails, Connects, FallsSilent, Recovers, SaysGoodbye,
     SocketCloses, pumpVars
<1>8. CASE ServerStep
  <2>1. CASE ClosedOne \/ AllClosed \/ AllEnded \/ \E c \in Clients : Closes(c)
    BY <1>3, <2>1 DEF ClosedOne, AllClosed, AllEnded, ServerGoes, Closes, pumpVars
  <2>2. ASSUME NEW c \in Clients, HandlerCancelled(c) PROVE Newest(d)'
    BY <1>3, <2>2 DEF HandlerCancelled, Finally, Ends
  <2> QED BY <1>8, <2>1, <2>2 DEF ServerStep
<1>9. CASE ShutdownBegins \/ UNCHANGED vars
  BY <1>3, <1>9 DEF ShutdownBegins, vars, pumpVars
<1> QED BY <1>4, <1>5, <1>6, <1>7, <1>8, <1>9 DEF Next

-----------------------------------------------------------------------------
(* The server's end                                                         *)

LEMMA ListedCloseStep ==
  ASSUME TypeOK, [Next]_vars, ListedClose
  PROVE  ListedClose'
<1>1. /\ closed \in [Clients -> BOOLEAN] /\ server \in {"up", "closing", "draining", "down"}
      /\ listed \subseteq Clients /\ toClose \subseteq listed
  BY TypesSplit DEF RestTypes
<1> USE <1>1 DEF ListedClose, serverVars
<1>2. ASSUME UNCHANGED serverVars, \A c \in Clients : closed[c] => closed'[c]
      PROVE  ListedClose'
  BY <1>2
<1>3. ASSUME NEW c \in Clients, HandlerStep(c) \/ PumpStep(c) \/ ClientStep(c) \/ HeartbeatFails(c)
      PROVE  ListedClose'
  BY <1>2, <1>3 DEF HandlerStep, PrepareFails, Prepared, ReadEnds, Finally, Joined, JoinRaises,
     CloseReturns, Ends, PumpStep, Takes, SendReturns, SendRaises, PumpCancelled, ClientStep,
     HeartbeatFails, Connects, FallsSilent, Recovers, SaysGoodbye, SocketCloses
<1>4. CASE ServerStep
  <2>1. ASSUME NEW c \in Clients, Closes(c) PROVE ListedClose'
    BY <2>1 DEF Closes
  <2>2. ASSUME NEW c \in Clients, HandlerCancelled(c) PROVE ListedClose'
    BY <1>2, <2>2 DEF HandlerCancelled, Finally, Ends
  <2>3. CASE ClosedOne \/ AllClosed \/ AllEnded
    BY <2>3 DEF ClosedOne, AllClosed, AllEnded, ServerGoes
  <2> QED BY <1>4, <2>1, <2>2, <2>3 DEF ServerStep
<1>5. CASE ShutdownBegins
  BY <1>5 DEF ShutdownBegins
<1>6. CASE Notify \/ UNCHANGED vars
  BY <1>2, <1>6 DEF Notify, vars
<1> QED BY <1>3, <1>4, <1>5, <1>6 DEF Next

-----------------------------------------------------------------------------
(* The theorems                                                             *)

LEMMA StreamInvariant == Spec => []StreamInv
<1>1. StreamInv /\ [Next]_vars => StreamInv'
  <2> SUFFICES ASSUME StreamInv, [Next]_vars PROVE StreamInv'
    OBVIOUS
  <2>1. TypeOK'
    <3>1. TypeOK
      BY DEF StreamInv
    <3>2. QueueTypes' /\ RestTypes'
      BY <3>1, QueueTypeStep, RestTypeStep
    <3>3. TypeOK' <=> QueueTypes' /\ RestTypes'
      BY DEF TypeOK, QueueTypes, RestTypes, QueueOK, Snapshots, Handlers, Pumps
    <3> QED BY <3>2, <3>3
  <2>2. ListedClose'
    BY ListedCloseStep DEF StreamInv
  <2>3. ASSUME NEW d \in Clients PROVE WiringOf(d)' /\ Newest(d)'
    BY WiringStep, NewestStep DEF StreamInv
  <2> QED BY <2>1, <2>2, <2>3 DEF StreamInv
<1> QED BY <1>1, StreamInit, PTL DEF Spec

(* Every variable keeps its type, and every queue its bound, for any number *)
(* of clients.                                                              *)
THEOREM TypeCorrect == Spec => []TypeOK
<1>1. StreamInv => TypeOK
  BY DEF StreamInv
<1> QED BY <1>1, StreamInvariant, PTL

(* A queue that overflows, of any capacity, loses older snapshots only.     *)
THEOREM NewestWinsOverflows == Spec => []NewestIsKept
<1>1. StreamInv => NewestIsKept
  BY DEF StreamInv, Newest, EndsWith, NewestIsKept
<1> QED BY <1>1, StreamInvariant, PTL

(* A handler that has ended has left nothing behind, however many clients   *)
(* come, stall and vanish.                                                  *)
THEOREM HandlersLeaveNothing == Spec => []NothingLeftBehind
<1>1. StreamInv => NothingLeftBehind
  BY DEF StreamInv, WiringOf, NothingLeftBehind, Finished
<1> QED BY <1>1, StreamInvariant, PTL

(* Every socket of the server's end is closed before it goes on, though     *)
(* handlers take theirs out of the set meanwhile.                           *)
THEOREM SocketsAreClosed == Spec => []EverySocketIsClosed
<1>1. StreamInv => EverySocketIsClosed
  BY DEF StreamInv, ListedClose, EverySocketIsClosed, TypeOK
<1> QED BY <1>1, StreamInvariant, PTL

-----------------------------------------------------------------------------
(* The stream is one of snapshots in order                                  *)

Rising(q, low, high) ==
    /\ \A i \in 1..Len(q) : low < q[i] /\ q[i] <= high
    /\ \A i, j \in 1..Len(q) : i < j => q[i] < q[j]

(* What a client has is older than what its pump sends, and that is older   *)
(* than what is queued; nothing is kept of a client before its stream, nor  *)
(* after.                                                                   *)
InOrder(c) ==
    /\ received[c] <= item[c] /\ item[c] <= newest
    /\ pump[c] = "sending" => received[c] < item[c]
    /\ Rising(queue[c], item[c], newest)
    /\ handler[c] \notin {"reading", "joining"} =>
         received[c] = 0 /\ item[c] = 0 /\ queue[c] = <<>>

LEMMA RisingTail ==
  ASSUME NEW q \in Seq(Snapshots), q # <<>>, NEW low \in Nat, NEW high \in Nat,
         Rising(q, low, high)
  PROVE  /\ Rising(Tail(q), Head(q), high)
         /\ Rising(Tail(q), low, high)
         /\ low < Head(q) /\ Head(q) <= high
<1> DEFINE k == Len(q)
           t == Tail(q)
           l == Len(t)
<1>1. k \in Nat \ {0} /\ Head(q) = q[1]
  BY EmptySeq
<1>2. l = k - 1 /\ \A i \in 1..l : t[i] = q[i + 1]
  BY HeadTailProperties
<1>3. \A i \in 1..k : q[i] \in Nat
  BY MadeAssumption DEF Snapshots
<1>4. /\ \A i \in 1..k : low < q[i] /\ q[i] <= high
      /\ \A i, j \in 1..k : i < j => q[i] < q[j]
  BY DEF Rising
<1> HIDE DEF k, t, l
<1>5. low < q[1] /\ q[1] <= high
  BY <1>1, <1>4
<1>6. ASSUME NEW i \in 1..l
      PROVE  q[1] < t[i] /\ low < t[i] /\ t[i] <= high
  <2>1. i + 1 \in 1..k /\ 1 \in 1..k /\ 1 < i + 1
    BY <1>1, <1>2
  <2> QED
    BY <1>2, <1>4, <2>1
<1>7. ASSUME NEW i \in 1..l, NEW j \in 1..l, i < j
      PROVE  t[i] < t[j]
  <2>1. i + 1 \in 1..k /\ j + 1 \in 1..k /\ i + 1 < j + 1
    BY <1>1, <1>2, <1>7
  <2> QED
    BY <1>2, <1>4, <2>1
<1> QED
  BY <1>1, <1>5, <1>6, <1>7 DEF Rising, t, l

LEMMA RisingAppend ==
  ASSUME NEW q \in Seq(Snapshots), NEW low \in Nat, NEW high \in Nat, NEW n \in Snapshots,
         Rising(q, low, high), high < n, low < n
  PROVE  Rising(Append(q, n), low, n)
<1> DEFINE k == Len(q)
           a == Append(q, n)
           l == Len(a)
<1>1. k \in Nat /\ l = k + 1 /\ a[k + 1] = n
  BY AppendProperties, LenProperties
<1>2. \A i \in 1..k : a[i] = q[i]
  BY AppendProperties
<1>3. \A i \in 1..k : q[i] \in Nat
  BY MadeAssumption DEF Snapshots
<1>4. /\ \A i \in 1..k : low < q[i] /\ q[i] <= high
      /\ \A i, j \in 1..k : i < j => q[i] < q[j]
  BY DEF Rising
<1>5. n \in Nat
  BY DEF Snapshots
<1> HIDE DEF k, a, l
<1>6. ASSUME NEW i \in 1..l
      PROVE  low < a[i] /\ a[i] <= n
  <2>1. CASE i = k + 1
    BY <1>1, <1>5, <2>1
  <2>2. CASE i \in 1..k
    BY <1>2, <1>3, <1>4, <1>5, <2>2
  <2> QED
    BY <1>1, <2>1, <2>2
<1>7. ASSUME NEW i \in 1..l, NEW j \in 1..l, i < j
      PROVE  a[i] < a[j]
  <2>1. i \in 1..k
    BY <1>1, <1>7
  <2>2. CASE j = k + 1
    BY <1>1, <1>2, <1>3, <1>4, <1>5, <2>1, <2>2
  <2>3. CASE j \in 1..k
    BY <1>2, <1>4, <1>7, <2>1, <2>3
  <2> QED
    BY <1>1, <2>2, <2>3
<1> QED
  BY <1>6, <1>7 DEF Rising, a, l

(* What a queue is offered is newer than all that it holds.                 *)
LEMMA RisingOffered ==
  ASSUME NEW q, QueueOK(q), NEW low \in Nat, NEW high \in Nat, NEW n \in Snapshots,
         Rising(q, low, high), high < n, low < n
  PROVE  Rising(Offered(q, n), low, n)
<1>1. CASE Len(q) < Capacity
  BY <1>1, RisingAppend DEF Offered, QueueOK
<1>2. CASE ~(Len(q) < Capacity)
  <2>1. q # <<>>
    BY <1>2, EmptySeq, CapacityAssumption
  <2>2. Tail(q) \in Seq(Snapshots) /\ Rising(Tail(q), low, high)
    BY <2>1, TailOfQueue, RisingTail DEF QueueOK
  <2> QED
    BY <1>2, <2>2, RisingAppend DEF Offered
<1> QED
  BY <1>1, <1>2

LEMMA RisingHigher ==
  ASSUME NEW q \in Seq(Snapshots), NEW low \in Nat, NEW high \in Nat, NEW higher \in Nat,
         Rising(q, low, high), high <= higher
  PROVE  Rising(q, low, higher)
<1>1. \A i \in 1..Len(q) : q[i] \in Nat
  BY MadeAssumption DEF Snapshots
<1> QED
  BY <1>1 DEF Rising

LEMMA RisingEmpty ==
  ASSUME NEW low, NEW high
  PROVE  Rising(<<>>, low, high)
  BY EmptySeq DEF Rising

LEMMA OrderStep ==
  ASSUME TypeOK, [Next]_vars, NEW d \in Clients, WiringOf(d), InOrder(d)
  PROVE  InOrder(d)'
<1>1. /\ handler \in [Clients -> Handlers] /\ pump \in [Clients -> Pumps]
      /\ item \in [Clients -> 0..MaxMade] /\ received \in [Clients -> 0..MaxMade]
      /\ newest \in Snapshots
  BY TypesSplit DEF RestTypes
<1>2. /\ QueueOK(queue[d]) /\ queue[d] \in Seq(Snapshots)
      /\ queue \in [Clients -> Seq(Snapshots)]
  BY TypesSplit DEF QueueTypes, QueueOK
<1>3. newest \in Nat /\ item[d] \in Nat /\ received[d] \in Nat
  BY <1>1, MadeAssumption DEF Snapshots
<1> USE DEF InOrder
<1>4. ASSUME UNCHANGED <<newest, queue, item, received>>,
             pump'[d] = "sending" => pump[d] = "sending",
             handler'[d] \notin {"reading", "joining"} =>
               handler[d] \notin {"reading", "joining"}
      PROVE  InOrder(d)'
  BY <1>4
<1>5. CASE Notify
  <2>1. newest' \in Snapshots /\ newest' = newest + 1 /\ newest' \in Nat
    BY <1>1, <1>3, <1>5, MadeAssumption DEF Notify, Snapshots
  <2>2. newest < newest' /\ item[d] < newest' /\ newest <= newest'
    BY <1>3, <2>1
  <2>3. Rising(queue'[d], item[d], newest')
    <3>1. CASE d \in listeners
      <4>1. Rising(Offered(queue[d], newest'), item[d], newest')
        BY <1>2, <1>3, <2>1, <2>2, RisingOffered
      <4> QED
        BY <1>5, <3>1, <4>1 DEF Notify
    <3>2. CASE d \notin listeners
      <4>1. Rising(queue[d], item[d], newest')
        BY <1>2, <1>3, <2>1, <2>2, RisingHigher
      <4> QED
        BY <1>5, <3>2, <4>1 DEF Notify
    <3> QED
      BY <3>1, <3>2
  <2>4. handler[d] # "reading" => queue'[d] = queue[d]
    BY <1>5 DEF Notify, WiringOf
  <2> QED
    BY <1>3, <1>5, <2>1, <2>2, <2>3, <2>4 DEF Notify
<1>6. ASSUME NEW c \in Clients, HandlerStep(c) PROVE InOrder(d)'
  <2>1. CASE Prepared(c)
    <3>1. CASE c = d
      <4>1. queue[d] = <<>> /\ item[d] = 0 /\ received[d] = 0
        BY <2>1, <3>1 DEF Prepared
      <4>2. Rising(queue[d], 0, 0)
        BY <4>1, RisingEmpty
      <4>3. 0 < newest
        BY <1>1 DEF Snapshots
      <4>4. Rising(Offered(queue[d], newest), item[d], newest)
        BY <1>1, <1>2, <4>1, <4>2, <4>3, RisingOffered
      <4> QED
        BY <1>1, <1>2, <2>1, <3>1, <4>4 DEF Prepared
    <3>2. CASE c # d
      BY <1>1, <1>2, <2>1, <3>2 DEF Prepared
    <3> QED
      BY <3>1, <3>2
  <2>2. CASE PrepareFails(c) \/ ReadEnds(c) \/ CloseReturns(c)
    BY <1>1, <1>4, <2>2 DEF PrepareFails, ReadEnds, Finally, CloseReturns, Ends, Pumps, Handlers
  <2>3. CASE Joined(c) \/ JoinRaises(c)
    <3>1. CASE c = d
      <4>1. /\ queue'[d] = <<>> /\ item'[d] = 0 /\ received'[d] = 0
            /\ pump'[d] # "sending" /\ newest' = newest
        BY <1>1, <1>2, <2>3, <3>1 DEF Joined, JoinRaises, Ends, Forget
      <4> QED
        BY <1>3, <4>1, RisingEmpty
    <3>2. CASE c # d
      BY <1>1, <1>2, <2>3, <3>2 DEF Joined, JoinRaises, Ends, Forget
    <3> QED
      BY <3>1, <3>2
  <2> QED
    BY <1>6, <2>1, <2>2, <2>3 DEF HandlerStep
<1>7. ASSUME NEW c \in Clients, PumpStep(c) PROVE InOrder(d)'
  <2>1. /\ UNCHANGED <<newest, handler>>
        /\ c # d => /\ queue'[d] = queue[d] /\ item'[d] = item[d] /\ pump'[d] = pump[d]
                    /\ received'[d] = received[d]
    BY <1>1, <1>2, <1>7 DEF PumpStep, Takes, SendReturns, SendRaises, PumpCancelled, MayHaveArrived
  <2>2. CASE c # d
    BY <2>1, <2>2
  <2>3. CASE c = d /\ Takes(d)
    <3>1. /\ Rising(Tail(queue[d]), Head(queue[d]), newest)
          /\ item[d] < Head(queue[d]) /\ Head(queue[d]) <= newest /\ Head(queue[d]) \in Nat
      BY <1>2, <1>3, <2>3, RisingTail, TailOfQueue, MadeAssumption DEF Takes, Snapshots
    <3>2. /\ item'[d] = Head(queue[d]) /\ queue'[d] = Tail(queue[d])
          /\ received' = received /\ handler[d] = "reading"
      BY <1>1, <1>2, <2>3 DEF Takes, WiringOf, Handlers, InFinally, Finished
    <3> QED
      BY <1>3, <2>1, <3>1, <3>2
  <2>4. CASE c = d /\ ~Takes(d)
    <3>1. /\ item'[d] = item[d] /\ queue'[d] = queue[d] /\ pump'[d] # "sending"
          /\ received'[d] \in {received[d], item[d]}
          /\ handler[d] \in {"reading", "joining"}
      BY <1>1, <1>7, <2>4 DEF PumpStep, SendReturns, SendRaises, PumpCancelled, MayHaveArrived,
         WiringOf, Handlers, InFinally, Finished
    <3> QED
      BY <1>3, <2>1, <3>1
  <2> QED
    BY <2>2, <2>3, <2>4
<1>8. ASSUME NEW c \in Clients, ClientStep(c) \/ HeartbeatFails(c) PROVE InOrder(d)'
  BY <1>1, <1>4, <1>8 DEF ClientStep, HeartbeatFails, Connects, FallsSilent, Recovers, SaysGoodbye,
     SocketCloses, pumpVars, Handlers
<1>9. CASE ServerStep
  <2>1. CASE ClosedOne \/ AllClosed \/ AllEnded \/ \E c \in Clients : Closes(c)
    BY <1>4, <2>1 DEF ClosedOne, AllClosed, AllEnded, ServerGoes, Closes, pumpVars
  <2>2. ASSUME NEW c \in Clients, HandlerCancelled(c) PROVE InOrder(d)'
    BY <1>1, <1>4, <2>2 DEF HandlerCancelled, Finally, Ends, Handlers, Pumps
  <2> QED
    BY <1>9, <2>1, <2>2 DEF ServerStep
<1>10. CASE ShutdownBegins \/ UNCHANGED vars
  BY <1>4, <1>10 DEF ShutdownBegins, vars, pumpVars
<1> QED
  BY <1>5, <1>6, <1>7, <1>8, <1>9, <1>10 DEF Next

Present == {c \in Clients : handler[c] \in {"reading", "joining"}}
Attentive == {c \in Clients : handler[c] = "reading" /\ ~closed[c] /\ ~silent[c]}

(* Clients come and go: nothing is sent, and of those that are gone nothing *)
(* is remembered.                                                           *)
LEMMA ClientsMove ==
  ASSUME received \in [Clients -> 0..MaxMade], \A c \in Clients : InOrder(c)',
         UNCHANGED newest, received' \in [Clients -> 0..MaxMade],
         \A c \in Clients : received'[c] \in {0, received[c]},
         \A c \in Present' : received'[c] = received[c]
  PROVE  Stream!Moves
<1>1. Present' \in SUBSET Clients /\ Attentive' \in SUBSET Present'
  BY DEF Present, Attentive
<1>2. received' = [c \in Clients |-> IF c \in Present' THEN received[c] ELSE 0]
  BY DEF InOrder, Present
<1> QED
  BY <1>1, <1>2 DEF Stream!Moves, Present, Attentive

(* A pump sends what is newer than what its client has.                     *)
LEMMA PumpDelivers ==
  ASSUME TypeOK, NEW c \in Clients, InOrder(c), WiringOf(c), PumpStep(c)
  PROVE  Stream!Deliver(c) \/ UNCHANGED Stream!vars
<1>1. /\ received \in [Clients -> 0..MaxMade] /\ item \in [Clients -> 0..MaxMade]
      /\ newest \in Snapshots
  BY TypesSplit DEF RestTypes
<1>2. newest \in Nat /\ item[c] \in Nat /\ received[c] \in Nat
  BY <1>1, MadeAssumption DEF Snapshots
<1>3. /\ UNCHANGED <<newest, handler, closed, silent>>
      /\ received' \in {received, [received EXCEPT ![c] = item[c]]}
  BY <1>1, <1>2 DEF PumpStep, Takes, SendReturns, SendRaises, PumpCancelled, MayHaveArrived
<1>4. UNCHANGED <<Present, Attentive>>
  BY <1>3 DEF Present, Attentive
<1>5. CASE received' = received \/ item[c] = received[c]
  <2>1. received' = received
    BY <1>1, <1>3, <1>5
  <2> QED
    BY <1>3, <1>4, <2>1 DEF Stream!vars, Present, Attentive
<1>6. CASE received' # received /\ item[c] # received[c]
  <2>1. item[c] \in received[c] + 1..newest
    BY <1>2, <1>6 DEF InOrder
  <2>2. c \in Present
    BY <1>6 DEF PumpStep, Takes, SendReturns, SendRaises, PumpCancelled, InOrder, Present
  <2> QED
    BY <1>3, <1>4, <1>6, <2>1, <2>2 DEF Stream!Deliver, Present, Attentive
<1> QED
  BY <1>5, <1>6

LEMMA StreamStep ==
  ASSUME TypeOK, TypeOK', [Next]_vars,
         \A c \in Clients : WiringOf(c) /\ InOrder(c) /\ InOrder(c)'
  PROVE  [Stream!Next]_(Stream!vars)
<1>1. /\ received \in [Clients -> 0..MaxMade] /\ received' \in [Clients -> 0..MaxMade]
      /\ handler \in [Clients -> Handlers]
  BY DEF TypeOK, Handlers
<1>2. ASSUME UNCHANGED <<newest, received>>
      PROVE  Stream!Moves
  BY <1>1, <1>2, ClientsMove
<1>3. CASE Notify
  BY <1>3 DEF Notify, Stream!Next, Stream!Made
<1>4. ASSUME NEW c \in Clients, HandlerStep(c)
      PROVE  Stream!Moves
  <2>1. CASE PrepareFails(c) \/ Prepared(c) \/ ReadEnds(c) \/ CloseReturns(c)
    BY <1>2, <2>1 DEF PrepareFails, Prepared, ReadEnds, Finally, CloseReturns, Ends
  <2>2. CASE Joined(c) \/ JoinRaises(c)
    <3>1. newest' = newest /\ received' = [received EXCEPT ![c] = 0] /\ c \notin Present'
      BY <1>1, <2>2 DEF Joined, JoinRaises, Ends, Forget, Present
    <3> QED
      BY <1>1, <3>1, ClientsMove DEF Present
  <2> QED
    BY <1>4, <2>1, <2>2 DEF HandlerStep
<1>5. ASSUME NEW c \in Clients, ClientStep(c) \/ HeartbeatFails(c) \/ HandlerCancelled(c)
      PROVE  Stream!Moves
  BY <1>2, <1>5 DEF ClientStep, HeartbeatFails, HandlerCancelled, Connects, FallsSilent,
     Recovers, SaysGoodbye, SocketCloses, Finally, Ends, pumpVars
<1>6. CASE \/ ClosedOne \/ AllClosed \/ AllEnded \/ ShutdownBegins \/ UNCHANGED vars
           \/ \E c \in Clients : Closes(c)
  BY <1>2, <1>6 DEF ClosedOne, AllClosed, AllEnded, ServerGoes, ShutdownBegins, Closes, vars,
     pumpVars, Stream!Next
<1> QED
  BY <1>2, <1>3, <1>4, <1>5, <1>6, PumpDelivers DEF Next, ServerStep, Stream!Next

(* The stream to each client is one of snapshots in order, none of them     *)
(* twice and none before it was made, for any number of clients and any     *)
(* capacity, however a send is interrupted: the safety of NewestWins.       *)
THEOREM StreamsInOrder == Spec => Stream!Spec
<1>1. Init => Stream!Init /\ \A c \in Clients : InOrder(c)
  BY RisingEmpty DEF Init, Stream!Init, InOrder
<1> DEFINE AllInOrder == \A c \in Clients : InOrder(c)
<1>2. StreamInv /\ AllInOrder /\ [Next]_vars => AllInOrder'
  BY OrderStep DEF StreamInv
<1>3. StreamInv /\ StreamInv' /\ AllInOrder /\ AllInOrder' /\ [Next]_vars
        => [Stream!Next]_(Stream!vars)
  BY StreamStep DEF StreamInv
<1> HIDE DEF AllInOrder
<1>4. Init => Stream!Init /\ AllInOrder
  BY <1>1 DEF AllInOrder
<1> QED
  BY <1>2, <1>3, <1>4, StreamInvariant, PTL DEF Spec, Stream!Spec
=============================================================================
