----------------------------- MODULE BridgeProofs -----------------------------
(***************************************************************************)
(* Proofs about MqttBridge, for a queue of any capacity and any number of  *)
(* notifications: what the retained topics settle on, when they may fall   *)
(* back, and that a session which was served says goodbye.                 *)
(***************************************************************************)
EXTENDS MqttBridge, SequenceTheorems, TLAPS

USE BoundsAssumption

-----------------------------------------------------------------------------
(* Types                                                                    *)

LEMMA ArrivedTypes ==
    ASSUME TypeOK
    PROVE  Arrived \in Snapshot /\ (MayHaveArrived => retained' \in Snapshot)
<1>1. Arrived \in Snapshot
  BY DEF TypeOK, Arrived, Snapshot
<1> QED
  BY <1>1 DEF TypeOK, MayHaveArrived

LEMMA CurrentTypes ==
    ASSUME TypeOK
    PROVE  Current \in Snapshot
  BY DEF TypeOK, Current, Snapshot

(* A queue holds what fits, and the newest is its last.                     *)
LEMMA Enqueued ==
    ASSUME TypeOK, NEW s \in Snapshot, Enqueue(s)
    PROVE  /\ queue' \in Seq(Snapshot) /\ Len(queue') \in 1..Capacity
           /\ queue'[Len(queue')] = s
           /\ \A i \in 1..Len(queue') :
                 queue'[i] = s \/ \E j \in 1..Len(queue) : queue'[i] = queue[j]
<1> DEFINE kept == IF Len(queue) < Capacity THEN queue ELSE Tail(queue)
<1>1. queue \in Seq(Snapshot) /\ Len(queue) \in Nat /\ Len(queue) <= Capacity
  BY LenProperties DEF TypeOK
<1>2. /\ kept \in Seq(Snapshot) /\ Len(kept) \in Nat /\ Len(kept) < Capacity
      /\ \A i \in 1..Len(kept) : \E j \in 1..Len(queue) : kept[i] = queue[j]
  <2>1. CASE Len(queue) < Capacity
    BY <1>1, <2>1
  <2>2. CASE ~(Len(queue) < Capacity)
    <3>1. queue # <<>> /\ Len(queue) = Capacity
      BY <1>1, <2>2, EmptySeq
    <3>2. /\ Tail(queue) \in Seq(Snapshot) /\ Len(Tail(queue)) = Len(queue) - 1
          /\ \A i \in 1..Len(Tail(queue)) : Tail(queue)[i] = queue[i + 1]
      BY <1>1, <3>1, HeadTailProperties
    <3>3. \A i \in 1..Len(Tail(queue)) : i + 1 \in 1..Len(queue)
      BY <1>1, <3>2
    <3> QED
      BY <1>1, <2>2, <3>1, <3>2, <3>3
  <2> QED
    BY <2>1, <2>2
<1>3. queue' = Append(kept, s)
  BY DEF Enqueue
<1> HIDE DEF kept
<1>4. /\ queue' \in Seq(Snapshot) /\ Len(queue') = Len(kept) + 1
      /\ queue'[Len(kept) + 1] = s
      /\ \A i \in 1..Len(kept) : queue'[i] = kept[i]
  BY <1>2, <1>3, AppendProperties
<1>5. \A i \in 1..Len(queue') : i = Len(kept) + 1 \/ i \in 1..Len(kept)
  BY <1>2, <1>4
<1>6. Len(queue') \in 1..Capacity /\ queue'[Len(queue')] = s
  BY <1>2, <1>4
<1>7. ASSUME NEW i \in 1..Len(queue')
      PROVE  queue'[i] = s \/ \E j \in 1..Len(queue) : queue'[i] = queue[j]
  BY <1>2, <1>4, <1>5
<1> QED
  BY <1>4, <1>6, <1>7

LEMMA Taken ==
    ASSUME TypeOK, queue # <<>>
    PROVE  /\ Head(queue) = queue[1] /\ Head(queue) \in Snapshot
           /\ Len(queue) \in Nat /\ Len(queue) >= 1
           /\ Tail(queue) \in Seq(Snapshot) /\ Len(Tail(queue)) = Len(queue) - 1
           /\ \A i \in 1..Len(Tail(queue)) : Tail(queue)[i] = queue[i + 1]
  BY HeadTailProperties, EmptySeq, LenProperties, ElementOfSeq DEF TypeOK

(* What a notification brings, whoever sent it.                             *)
LEMMA NotificationTypes ==
    ASSUME TypeOK, PacketArrives \/ LinkChanges
    PROVE  /\ link' \in BOOLEAN /\ stale' \in BOOLEAN
           /\ notified' = notified + 1 /\ notified' \in 0..MaxNotified
           /\ [n |-> notified', online |-> link' /\ ~stale'] \in Snapshot
<1>1. link' \in BOOLEAN /\ stale' \in BOOLEAN
  BY DEF TypeOK, PacketArrives, LinkChanges
<1>2. notified' = notified + 1 /\ notified' \in 0..MaxNotified
  BY DEF TypeOK, PacketArrives, LinkChanges, Notify
<1> QED
  BY <1>1, <1>2 DEF Snapshot

(* What the tasks and the connection are at, and what they hold.            *)
ControlTypes ==
    /\ run \in Label /\ why \in {"nothing", "mqtt", "cancel", "other"}
    /\ cancelled \in BOOLEAN /\ asked \in BOOLEAN /\ fate \in {"none", "lost", "curt"}
    /\ pub \in {"none", "getting", "avail", "state", "dead", "ended"} /\ mute \in BOOLEAN
    /\ conn \in {"none", "up", "lost"} /\ willDue \in BOOLEAN

DataTypes ==
    /\ link \in BOOLEAN /\ stale \in BOOLEAN /\ notified \in 0..MaxNotified
    /\ greeting \in Snapshot /\ item \in Snapshot /\ retained \in Snapshot
    /\ queue \in Seq(Snapshot) /\ Len(queue) <= Capacity

LEMMA TypeParts == (TypeOK <=> ControlTypes /\ DataTypes) /\ (TypeOK' <=> (ControlTypes /\ DataTypes)')
  BY DEF TypeOK, ControlTypes, DataTypes

LEMMA RunControlTypes ==
    ASSUME ControlTypes, RunStep
    PROVE  ControlTypes'
<1> USE DEF ControlTypes, Goto, Goes, At, Label, InSession, Greeting, deviceVars, stopVars, pubVars,
        brokerVars
<1>1. CASE Enters
  BY <1>1 DEF Enters
<1>2. CASE SetupReturns \/ Greeted
  BY <1>2 DEF SetupReturns, Greeted
<1>3. CASE GreetRaises
  BY <1>3 DEF GreetRaises
<1>4. CASE EnterRaises \/ HandleReports \/ HandleEscapes \/ ResultReturns \/ ResultRaises
            \/ DisconnectSeen \/ Wakes
  BY <1>4 DEF EnterRaises, HandleReports, HandleEscapes, ResultReturns, ResultRaises,
     DisconnectSeen, Wakes
<1>5. CASE Joined
  BY <1>5 DEF Joined
<1>6. CASE JoinRaises
  BY <1>6 DEF JoinRaises
<1>7. CASE GoodbyeEnds
  BY <1>7 DEF GoodbyeEnds
<1>8. CASE Leaves
  BY <1>8 DEF Leaves
<1>9. CASE InterruptedServing
  BY <1>9 DEF InterruptedServing
<1>10. CASE InterruptedOutside
  BY <1>10 DEF InterruptedOutside
<1>11. CASE InterruptedAway
  BY <1>11 DEF InterruptedAway
<1> QED
  BY <1>1, <1>2, <1>3, <1>4, <1>5, <1>6, <1>7, <1>8, <1>9, <1>10, <1>11 DEF RunStep

(* The task of run() makes a greeting, and publishes.                       *)
LEMMA RunDataTypes ==
    ASSUME TypeOK, RunStep
    PROVE  DataTypes'
<1>1. UNCHANGED <<link, stale, notified, item, queue>>
  BY DEF RunStep, Enters, EnterRaises, SetupReturns, Greeted, GreetRaises, HandleReports,
     HandleEscapes, ResultReturns, ResultRaises, DisconnectSeen, Joined, JoinRaises, GoodbyeEnds,
     Leaves, Wakes, InterruptedServing, InterruptedOutside, InterruptedAway, Goes, deviceVars,
     pubVars
<1>2. greeting' \in {greeting, Current}
  BY DEF RunStep, Enters, EnterRaises, SetupReturns, Greeted, GreetRaises, HandleReports,
     HandleEscapes, ResultReturns, ResultRaises, DisconnectSeen, Joined, JoinRaises, GoodbyeEnds,
     Leaves, Wakes, InterruptedServing, InterruptedOutside, InterruptedAway, Goes
<1>3. retained' \in Snapshot
  <2>1. CASE Enters
    BY <2>1 DEF Enters, TypeOK, Snapshot
  <2>2. CASE ~Enters
    <3>1. retained' \in {retained, Arrived}
      BY <2>2
         DEF RunStep, EnterRaises, SetupReturns, Greeted, GreetRaises, HandleReports,
             HandleEscapes, ResultReturns, ResultRaises, DisconnectSeen, Joined, JoinRaises,
             GoodbyeEnds, Leaves, Wakes, InterruptedServing, InterruptedOutside, InterruptedAway,
             Goes, Raises, MayHaveArrived, brokerVars
    <3> QED
      BY <3>1, ArrivedTypes DEF TypeOK
  <2> QED
    BY <2>1, <2>2
<1> QED
  BY <1>1, <1>2, <1>3, CurrentTypes DEF TypeOK, DataTypes

LEMMA RunTypes ==
    ASSUME TypeOK, RunStep
    PROVE  TypeOK'
  BY TypeParts, RunControlTypes, RunDataTypes

LEMMA OtherTypes ==
    ASSUME TypeOK,
           PublisherStep \/ PacketArrives \/ LinkChanges \/ ReadingAges
             \/ MessageArrives \/ Cancel \/ BrokerLost \/ WillPublished
    PROVE  TypeOK'
<1>1. CASE Take
  <2>1. item' \in Snapshot /\ queue' \in Seq(Snapshot) /\ Len(queue') <= Capacity
    BY <1>1, Taken DEF Take, TypeOK
  <2> QED
    BY <1>1, <2>1 DEF Take, TypeOK, deviceVars, stopVars, brokerVars
<1>2. CASE PublishReturns
  BY <1>2, ArrivedTypes DEF PublishReturns, TypeOK, deviceVars, stopVars
<1>3. CASE PublishRaises
  BY <1>3, ArrivedTypes DEF PublishRaises, Raises, TypeOK, deviceVars, stopVars
<1>4. CASE PacketArrives \/ LinkChanges
  <2>1. queue' \in Seq(Snapshot) /\ Len(queue') <= Capacity
    <3>1. CASE run = "done"
      BY <1>4, <3>1 DEF PacketArrives, LinkChanges, Notify, TypeOK
    <3>2. CASE run # "done"
      <4> DEFINE s == [n |-> notified', online |-> link' /\ ~stale']
      <4>1. s \in Snapshot
        BY <1>4, NotificationTypes
      <4> HIDE DEF s
      <4>2. Enqueue(s)
        BY <1>4, <3>2 DEF PacketArrives, LinkChanges, Notify, s
      <4> QED
        BY <4>1, <4>2, Enqueued
    <3> QED
      BY <3>1, <3>2
  <2>2. UNCHANGED <<run, why, stopVars, greeting, pub, item, mute, brokerVars>>
    BY <1>4 DEF PacketArrives, LinkChanges, Notify
  <2> QED
    BY <1>4, <2>1, <2>2, NotificationTypes DEF TypeOK, stopVars, brokerVars
<1>5. CASE ReadingAges
  BY <1>5 DEF ReadingAges, TypeOK, stopVars, pubVars, brokerVars
<1>6. CASE MessageArrives
  BY <1>6 DEF MessageArrives, Goes, Goto, TypeOK, Label, InSession, deviceVars, stopVars,
     pubVars, brokerVars
<1>7. CASE Cancel
  BY <1>7 DEF Cancel, TypeOK, deviceVars, pubVars, brokerVars
<1>8. CASE BrokerLost
  BY <1>8, ArrivedTypes DEF BrokerLost, TypeOK, deviceVars, stopVars, pubVars
<1>9. CASE WillPublished
  <2>1. retained' \in Snapshot
    BY <1>9 DEF WillPublished, TypeOK, Snapshot
  <2>2. ControlTypes'
    <3>1. /\ UNCHANGED <<run, why, cancelled, asked, fate, pub, mute, conn>>
          /\ willDue' = FALSE
      BY <1>9 DEF WillPublished, stopVars, pubVars
    <3>2. ControlTypes
      BY TypeParts
    <3> QED
      BY <3>1, <3>2 DEF ControlTypes
  <2>3. DataTypes'
    BY <1>9, <2>1, TypeParts DEF WillPublished, DataTypes, deviceVars, pubVars
  <2> QED
    BY <2>2, <2>3, TypeParts
<1> QED
  BY <1>1, <1>2, <1>3, <1>4, <1>5, <1>6, <1>7, <1>8, <1>9 DEF PublisherStep

(* Every variable of the bridge stays in its range, and its queue within    *)
(* its capacity.                                                            *)
THEOREM TypeCorrect == Spec => []TypeOK
<1>1. Init => TypeOK
  <2> SUFFICES ASSUME Init PROVE TypeOK
    OBVIOUS
  <2>1. Current \in Snapshot /\ retained \in Snapshot
    BY DEF Init, Current, Snapshot
  <2>2. queue \in Seq(Snapshot) /\ Len(queue) <= Capacity
    BY EmptySeq DEF Init
  <2>3. run \in Label /\ notified \in 0..MaxNotified
    BY DEF Init, Label
  <2> QED
    BY <2>1, <2>2, <2>3 DEF Init, TypeOK
<1>2. TypeOK /\ [Next]_vars => TypeOK'
  <2> SUFFICES ASSUME TypeOK, [Next]_vars PROVE TypeOK'
    OBVIOUS
  <2>1. CASE Next
    BY <2>1, RunTypes, OtherTypes DEF Next
  <2>2. CASE UNCHANGED vars
    BY <2>2 DEF vars, deviceVars, stopVars, pubVars, brokerVars, TypeOK
  <2> QED
    BY <2>1, <2>2
<1> QED
  BY <1>1, <1>2, PTL DEF Spec

-----------------------------------------------------------------------------
(* The goodbye.  A connection that is lost has a will, or nothing to take   *)
(* back; so has one that was served and left.  A publisher dies with the    *)
(* connection, or mute.                                                     *)

AtWork == InSession \cup {"joining"}
Away == {"leaving", "sleeping", "enter", "done"}

Covered == willDue \/ ~retained.online

GoodbyeInv ==
    /\ conn = "lost" => Covered
    /\ pub = "dead" => conn = "lost" \/ mute
    /\ pub \in {"getting", "avail", "state", "dead"} => run \in AtWork
    /\ pub = "ended" => run \in Away \cup {"goodbye"}
    /\ pub = "ended" /\ run \in Away => Covered \/ fate = "curt" \/ mute

LEMMA RunSaysGoodbye ==
    ASSUME TypeOK, GoodbyeInv, RunStep
    PROVE  GoodbyeInv'
<1> USE DEF GoodbyeInv, AtWork, InSession, Greeting, Away, Covered, Goto, Goes, At, MayHaveArrived,
        Raises, stopVars, pubVars, brokerVars
<1>1. CASE Enters
  BY <1>1 DEF Enters
<1>2. CASE SetupReturns
  BY <1>2 DEF SetupReturns
<1>3. CASE Greeted
  BY <1>3 DEF Greeted
<1>4. CASE GreetRaises
  BY <1>4 DEF GreetRaises
<1>5. CASE EnterRaises \/ HandleReports \/ HandleEscapes \/ ResultReturns \/ ResultRaises
            \/ DisconnectSeen \/ Wakes
  BY <1>5 DEF EnterRaises, HandleReports, HandleEscapes, ResultReturns, ResultRaises,
     DisconnectSeen, Wakes
<1>6. CASE Joined
  BY <1>6 DEF Joined
<1>7. CASE JoinRaises
  BY <1>7 DEF JoinRaises
<1>8. CASE GoodbyeEnds
  <2>1. run = "goodbye" /\ run' = "leaving" /\ UNCHANGED <<pub, conn, willDue, fate>>
    BY <1>8 DEF GoodbyeEnds
  <2>2. retained' = Arrived => retained'.online = FALSE
    BY <2>1 DEF Arrived, TypeOK, Snapshot
  <2>3. CASE conn = "lost"
    <3>1. retained' = retained
      BY <1>8, <2>3 DEF GoodbyeEnds
    <3> QED
      BY <2>1, <2>3, <3>1
  <2>4. CASE conn # "lost"
    <3>1. (conn = "up" /\ retained' = Arrived) \/ mute' = TRUE
      BY <1>8, <2>4 DEF GoodbyeEnds
    <3> QED
      BY <2>1, <2>2, <2>4, <3>1
  <2> QED
    BY <2>3, <2>4
<1>9. CASE Leaves
  BY <1>9 DEF Leaves
<1>10. CASE InterruptedServing
  BY <1>10 DEF InterruptedServing
<1>11. CASE InterruptedOutside
  BY <1>11 DEF InterruptedOutside
<1>12. CASE InterruptedAway
  BY <1>12 DEF InterruptedAway
<1> QED
  BY <1>1, <1>2, <1>3, <1>4, <1>5, <1>6, <1>7, <1>8, <1>9, <1>10, <1>11, <1>12 DEF RunStep

LEMMA OthersSayGoodbye ==
    ASSUME TypeOK, GoodbyeInv,
           PublisherStep \/ PacketArrives \/ LinkChanges \/ ReadingAges
             \/ MessageArrives \/ Cancel \/ BrokerLost \/ WillPublished
    PROVE  GoodbyeInv'
<1> USE DEF GoodbyeInv, AtWork, InSession, Greeting, Away, Covered, MayHaveArrived,
        deviceVars, stopVars, pubVars, brokerVars
<1>1. CASE Take \/ PublishReturns
  BY <1>1 DEF Take, PublishReturns
<1>2. CASE PublishRaises
  <2>1. /\ run \in InSession /\ run' = run /\ pub' = "dead" /\ UNCHANGED <<conn, willDue>>
        /\ conn = "lost" => retained' = retained
        /\ conn # "lost" => mute' = TRUE
    <3>1. run \in InSession /\ run' = run /\ pub' = "dead" /\ UNCHANGED <<conn, willDue>>
      BY <1>2 DEF PublishRaises
    <3>2. conn = "lost" => retained' = retained
      BY <1>2 DEF PublishRaises, Raises
    <3>3. conn # "lost" => mute' = TRUE
      BY <1>2 DEF PublishRaises
    <3> QED
      BY <3>1, <3>2, <3>3
  <2> QED
    BY <2>1
<1>3. CASE PacketArrives \/ LinkChanges \/ ReadingAges
  BY <1>3 DEF PacketArrives, LinkChanges, Notify, ReadingAges
<1>4. CASE MessageArrives \/ Cancel
  BY <1>4 DEF MessageArrives, Cancel, Goes, Goto, At
<1>5. CASE BrokerLost
  BY <1>5 DEF BrokerLost
<1>6. CASE WillPublished
  BY <1>6 DEF WillPublished, TypeOK, Snapshot
<1> QED
  BY <1>1, <1>2, <1>3, <1>4, <1>5, <1>6 DEF PublisherStep

(* No session that was served leaves "online" behind, however many brokers, *)
(* commands and publishers failed and whichever publish() timed out, but in *)
(* the three ways the property names.                                       *)
THEOREM GoodbyeIsSaid == Spec => []GoodbyeSaid
<1>1. Init => GoodbyeInv
  BY DEF Init, GoodbyeInv, Covered
<1>2. TypeOK /\ GoodbyeInv /\ [Next]_vars => GoodbyeInv'
  <2> SUFFICES ASSUME TypeOK, GoodbyeInv, [Next]_vars PROVE GoodbyeInv'
    OBVIOUS
  <2>1. CASE Next
    BY <2>1, RunSaysGoodbye, OthersSayGoodbye DEF Next
  <2>2. CASE UNCHANGED vars
    BY <2>2 DEF vars, deviceVars, stopVars, pubVars, brokerVars, GoodbyeInv, Covered
  <2> QED
    BY <2>1, <2>2
<1>3. GoodbyeInv => GoodbyeSaid
  BY DEF GoodbyeInv, GoodbyeSaid, Covered, Away
<1> QED
  BY <1>1, <1>2, <1>3, TypeCorrect, PTL DEF Spec

-----------------------------------------------------------------------------
(* The newest state.  A snapshot tells what is so if nothing has been       *)
(* notified since, and the last in the queue always does.                   *)

Tells(s) == s.n = notified /\ (s.online => link)

(* What has been taken, or greeted with, is not of the future.              *)
Past ==
    /\ greeting.n <= notified /\ item.n <= notified /\ retained.n <= notified
    /\ \A i \in 1..Len(queue) : queue[i].n <= notified

NewestInv ==
    /\ pub \in {"getting", "avail", "state", "dead"} => run \in AtWork
    /\ run # "done" /\ queue # <<>> => Tells(queue[Len(queue)])
    /\ run \in Greeting /\ queue = <<>> => Tells(greeting)
    /\ pub \in {"avail", "state"} /\ queue = <<>> => Tells(item)
    /\ (run = "greetState" \/ pub \in {"state", "getting"}) /\ queue = <<>> =>
          (retained.online => link)
    /\ pub = "getting" /\ queue = <<>> => retained.n = notified

LEMMA RunKeepsNewest ==
    ASSUME TypeOK, Past, NewestInv, RunStep
    PROVE  Past' /\ NewestInv'
<1> USE DEF Past, NewestInv, Tells, AtWork, InSession, Greeting, Goto, Goes, At, MayHaveArrived,
        Raises, deviceVars, stopVars, pubVars, brokerVars
<1>1. CASE Enters
  BY <1>1 DEF Enters, TypeOK, Snapshot
<1>2. CASE SetupReturns
  BY <1>2 DEF SetupReturns, Current, TypeOK, Snapshot
<1>3. CASE Greeted
  BY <1>3 DEF Greeted, Arrived, TypeOK, Snapshot
<1>4. CASE GreetRaises
  BY <1>4 DEF GreetRaises, Arrived, TypeOK, Snapshot
<1>5. CASE EnterRaises \/ HandleReports \/ HandleEscapes \/ ResultReturns \/ ResultRaises
            \/ DisconnectSeen \/ Wakes
  BY <1>5 DEF EnterRaises, HandleReports, HandleEscapes, ResultReturns, ResultRaises,
     DisconnectSeen, Wakes
<1>6. CASE Joined
  BY <1>6 DEF Joined, Arrived, TypeOK, Snapshot
<1>7. CASE JoinRaises
  BY <1>7 DEF JoinRaises
<1>8. CASE GoodbyeEnds
  BY <1>8 DEF GoodbyeEnds, Arrived, TypeOK, Snapshot
<1>9. CASE Leaves
  BY <1>9 DEF Leaves
<1>10. CASE InterruptedServing
  BY <1>10 DEF InterruptedServing
<1>11. CASE InterruptedOutside
  BY <1>11 DEF InterruptedOutside, Arrived, TypeOK, Snapshot
<1>12. CASE InterruptedAway
  BY <1>12 DEF InterruptedAway
<1> QED
  BY <1>1, <1>2, <1>3, <1>4, <1>5, <1>6, <1>7, <1>8, <1>9, <1>10, <1>11, <1>12 DEF RunStep

LEMMA PublisherKeepsNewest ==
    ASSUME TypeOK, Past, NewestInv, PublisherStep
    PROVE  Past' /\ NewestInv'
<1> USE DEF Past, NewestInv, Tells, AtWork, InSession, Greeting, deviceVars, stopVars, brokerVars
<1>1. CASE Take
  <2>1. /\ queue # <<>> /\ run \in InSession /\ UNCHANGED <<deviceVars, run, greeting, retained>>
        /\ item' = queue[1] /\ queue' = Tail(queue) /\ pub' = "avail"
    BY <1>1, Taken DEF Take
  <2>2. /\ Len(queue) \in Nat /\ Len(queue) >= 1 /\ Len(queue') = Len(queue) - 1
        /\ \A i \in 1..Len(queue') : queue'[i] = queue[i + 1]
        /\ queue' = <<>> => Len(queue') = 0
        /\ queue' # <<>> => Len(queue') >= 1
    <3>1. /\ queue' \in Seq(Snapshot) /\ Len(queue') = Len(queue) - 1
          /\ Len(queue) \in Nat /\ Len(queue) >= 1
          /\ \A i \in 1..Len(queue') : queue'[i] = queue[i + 1]
      BY <2>1, Taken
    <3>2. \A q \in Seq(Snapshot) :
             Len(q) \in Nat /\ (q = <<>> => Len(q) = 0) /\ (q # <<>> => Len(q) >= 1)
      BY EmptySeq, LenProperties
    <3> QED
      BY <3>1, <3>2
  <2>3. Past'
    <3>1. \A i \in 1..Len(queue') : i + 1 \in 1..Len(queue)
      BY <2>2
    <3> QED
      BY <2>1, <2>2, <3>1
  <2>4. queue' = <<>> => Tells(item)'
    BY <2>1, <2>2
  <2>5. queue' # <<>> => Tells(queue[Len(queue)])'
    BY <2>1, <2>2
  <2> QED
    BY <2>1, <2>3, <2>4, <2>5
<1>2. CASE PublishReturns
  BY <1>2 DEF PublishReturns, Arrived, TypeOK, Snapshot
<1>3. CASE PublishRaises
  BY <1>3 DEF PublishRaises, Raises, MayHaveArrived, Arrived, TypeOK, Snapshot
<1> QED
  BY <1>1, <1>2, <1>3 DEF PublisherStep

LEMMA QueuedNumbers ==
    ASSUME TypeOK
    PROVE  \A i \in 1..Len(queue) : queue[i].n \in Nat
<1>1. \A i \in 1..Len(queue) : queue[i] \in Snapshot
  BY ElementOfSeq DEF TypeOK
<1> QED
  BY <1>1 DEF Snapshot

LEMMA NotificationsKeepNewest ==
    ASSUME TypeOK, Past, NewestInv, PacketArrives \/ LinkChanges
    PROVE  Past' /\ NewestInv'
<1>1. /\ notified' = notified + 1 /\ notified \in Nat
      /\ UNCHANGED <<run, greeting, pub, item, retained>>
  BY DEF PacketArrives, LinkChanges, Notify, brokerVars, TypeOK
<1>2. greeting.n \in Nat /\ item.n \in Nat /\ retained.n \in Nat
  BY DEF TypeOK, Snapshot
<1>3. CASE run = "done"
  <2>1. UNCHANGED queue
    BY <1>3 DEF PacketArrives, LinkChanges, Notify
  <2>2. \A i \in 1..Len(queue) : queue[i].n \in Nat
    BY QueuedNumbers
  <2> QED
    BY <1>1, <1>2, <1>3, <2>1, <2>2 DEF Past, NewestInv, AtWork, InSession, Greeting
<1>4. CASE run # "done"
  <2> DEFINE s == [n |-> notified', online |-> link' /\ ~stale']
  <2>1. s \in Snapshot /\ s.n = notified' /\ (s.online => link')
    BY NotificationTypes
  <2> HIDE DEF s
  <2>2. Enqueue(s)
    BY <1>4 DEF PacketArrives, LinkChanges, Notify, s
  <2>3. /\ queue' \in Seq(Snapshot) /\ Len(queue') \in 1..Capacity
        /\ queue'[Len(queue')] = s
        /\ \A i \in 1..Len(queue') :
              queue'[i] = s \/ \E j \in 1..Len(queue) : queue'[i] = queue[j]
    BY <2>1, <2>2, Enqueued
  <2>4. queue' # <<>> /\ Tells(queue[Len(queue)])'
    BY <2>1, <2>3, EmptySeq DEF Tells
  <2>5. \A j \in 1..Len(queue) : queue[j].n \in Nat
    BY QueuedNumbers
  <2>6. \A i \in 1..Len(queue') : queue'[i].n <= notified'
    BY <1>1, <2>1, <2>3, <2>5 DEF Past
  <2> QED
    BY <1>1, <1>2, <2>4, <2>6 DEF Past, NewestInv, AtWork, InSession
<1> QED
  BY <1>3, <1>4

LEMMA OthersKeepNewest ==
    ASSUME TypeOK, Past, NewestInv,
           ReadingAges \/ MessageArrives \/ Cancel \/ BrokerLost \/ WillPublished
    PROVE  Past' /\ NewestInv'
<1> USE DEF Past, NewestInv, Tells, AtWork, InSession, Greeting, deviceVars, stopVars, pubVars,
        brokerVars
<1>1. CASE ReadingAges \/ MessageArrives \/ Cancel
  BY <1>1 DEF ReadingAges, MessageArrives, Cancel, Goes, Goto, At
<1>2. CASE BrokerLost
  BY <1>2 DEF BrokerLost, MayHaveArrived, Arrived, TypeOK, Snapshot
<1>3. CASE WillPublished
  BY <1>3 DEF WillPublished, TypeOK, Snapshot
<1> QED
  BY <1>1, <1>2, <1>3

LEMMA NewestKept == Spec => [](Past /\ NewestInv)
<1>1. Init => Past /\ NewestInv
  BY EmptySeq DEF Init, Past, NewestInv, Current, Greeting
<1>2. TypeOK /\ (Past /\ NewestInv) /\ [Next]_vars => (Past /\ NewestInv)'
  <2> SUFFICES ASSUME TypeOK, Past, NewestInv, [Next]_vars PROVE Past' /\ NewestInv'
    OBVIOUS
  <2>1. CASE Next
    BY <2>1, RunKeepsNewest, PublisherKeepsNewest, NotificationsKeepNewest, OthersKeepNewest
       DEF Next
  <2>2. CASE UNCHANGED vars
    BY <2>2 DEF vars, deviceVars, stopVars, pubVars, brokerVars, Past, NewestInv, Tells
  <2> QED
    BY <2>1, <2>2
<1> QED
  BY <1>1, <1>2, TypeCorrect, PTL DEF Spec

(* A publisher that has nothing left to publish has left the newest state,  *)
(* whatever the queue dropped and whoever was cancelled or lost before.     *)
THEOREM NewestSettles == Spec => []Settled
<1>1. NewestInv => Settled
  BY DEF NewestInv, Settled
<1> QED
  BY <1>1, NewestKept, PTL

(* Who may change the number on the broker.                                 *)
LEMMA Written ==
    ASSUME TypeOK, Next, retained'.n # retained.n
    PROVE  \/ run = "greetState" /\ retained'.n = greeting.n
           \/ pub = "state" /\ retained'.n = item.n
<1> USE DEF TypeOK, Snapshot, brokerVars
<1>1. CASE retained' = Arrived
  BY <1>1 DEF Arrived
<1>2. CASE retained' = retained
  BY <1>2
<1>3. CASE Enters \/ WillPublished
  BY <1>3 DEF Enters, WillPublished
<1>4. RunStep => Enters \/ retained' \in {retained, Arrived}
  BY DEF RunStep, EnterRaises, SetupReturns, Greeted, GreetRaises, HandleReports, HandleEscapes,
     ResultReturns, ResultRaises, DisconnectSeen, Joined, JoinRaises, GoodbyeEnds, Leaves, Wakes,
     InterruptedServing, InterruptedOutside, InterruptedAway, Goes, Raises, MayHaveArrived
<1>5. Next /\ ~RunStep => WillPublished \/ retained' \in {retained, Arrived}
  BY DEF Next, PublisherStep, Take, PublishReturns, PublishRaises, Raises, MayHaveArrived,
     PacketArrives, LinkChanges, Notify, ReadingAges, MessageArrives, Goes, Cancel, BrokerLost
<1> QED
  BY <1>1, <1>2, <1>3, <1>4, <1>5

(* The retained state goes back to an older one only while the newest is    *)
(* queued behind it.                                                        *)
THEOREM FallsBackBehindNewer == Spec => FallsBackOnlyBehindNewer
<1> DEFINE Waits == retained'.n < retained.n => \E i \in 1..Len(queue) : queue[i].n = notified
<1>1. TypeOK /\ Past /\ NewestInv /\ [Next]_vars => [Waits]_vars
  <2> SUFFICES ASSUME TypeOK, Past, NewestInv, Next, retained'.n < retained.n
               PROVE  \E i \in 1..Len(queue) : queue[i].n = notified
    OBVIOUS
  <2>1. retained.n \in Nat /\ notified \in Nat /\ retained.n <= notified
    BY DEF TypeOK, Snapshot, Past
  <2>2. \/ run = "greetState" /\ retained'.n = greeting.n
        \/ pub = "state" /\ retained'.n = item.n
    BY <2>1, Written
  <2>3. queue # <<>> /\ run # "done"
    BY <2>1, <2>2 DEF NewestInv, Tells, Greeting, AtWork, InSession
  <2>4. Len(queue) \in 1..Len(queue)
    BY <2>3, EmptySeq DEF TypeOK
  <2> QED
    BY <2>3, <2>4 DEF NewestInv, Tells
<1> QED
  BY <1>1, TypeCorrect, NewestKept, PTL DEF Spec, FallsBackOnlyBehindNewer
=============================================================================
