---------------------------- MODULE SessionProofs ----------------------------
(***************************************************************************)
(* Proofs about Session for any set of callers, any environment and any    *)
(* bounds: types and the lock; that a yield is honoured; what an attempt   *)
(* to connect finds, what adapter power-ons buy, what stop() leaves; and,  *)
(* when disconnects work, that Session implements Lease.                   *)
(***************************************************************************)
EXTENDS SessionLease, SequenceTheorems, TLAPS

(* The steps of Next, by the task that takes them.                          *)
LEMMA StepCases ==
    ASSUME Next
    PROVE  \/ \E t \in Connectors : ConnectStep(t)
           \/ \E t \in Tasks : TeardownStep(t)
           \/ SupFindsLinkUp \/ SupFindsLinkDown \/ SupTornDown
           \/ SupBackoffEnds \/ SupBackoffSwallows \/ SupCancelled
           \/ SupervisorAwaited \/ StopReturns \/ StartCall \/ StopCall \/ Resume
           \/ \E c \in Callers : YieldCall(c) \/ YieldReturns(c)
           \/ Environment
  BY DEF Next, SupStep, MainStep, CallerStep, Requests, Tasks, Connectors

LEMMA TaskNames ==
    /\ Sup \in Tasks /\ Main \in Tasks /\ Sup # Main
    /\ Nobody \notin Tasks
    /\ \A c \in Callers : c \in Tasks /\ c # Sup /\ c # Main
  BY CallersAssumption DEF Tasks, Connectors, Sup, Main, Nobody

(* What the lock's operations return.                                       *)
LEMMA LockTypes ==
    ASSUME TypeOK, NEW t \in Tasks
    PROVE  /\ Acquire(t) => holder' \in Tasks \cup {Nobody} /\ waiters' \in Seq(Tasks)
           /\ Release => holder' \in Tasks \cup {Nobody} /\ waiters' \in Seq(Tasks)
<1>1. Acquire(t) => holder' \in Tasks \cup {Nobody} /\ waiters' \in Seq(Tasks)
  <2>1. Append(waiters, t) \in Seq(Tasks)
    BY AppendProperties DEF TypeOK
  <2> QED
    BY <2>1 DEF TypeOK, Acquire
<1>2. Release => holder' \in Tasks \cup {Nobody} /\ waiters' \in Seq(Tasks)
  <2>1. waiters # <<>> => Head(waiters) \in Tasks /\ Tail(waiters) \in Seq(Tasks)
    BY HeadTailProperties DEF TypeOK
  <2> QED
    BY <2>1 DEF TypeOK, Release
<1> QED
  BY <1>1, <1>2

(* A sequence with one element taken out is a sequence.                     *)
LEMMA WithoutTypes ==
    ASSUME NEW S, NEW q \in Seq(S), NEW i \in 1..Len(q)
    PROVE  SubSeq(q, 1, i - 1) \o SubSeq(q, i + 1, Len(q)) \in Seq(S)
<1>1. Len(q) \in Nat /\ \A j \in 1..Len(q) : q[j] \in S
  BY ElementOfSeq, LenProperties
<1>2. SubSeq(q, 1, i - 1) \in Seq(S)
  BY <1>1, SubSeqProperties
<1>3. SubSeq(q, i + 1, Len(q)) \in Seq(S)
  BY <1>1, SubSeqProperties
<1> QED
  BY <1>2, <1>3, ConcatProperties

LEMMA GotoTypes ==
    ASSUME TypeOK, NEW t \in Tasks, NEW label \in Label, Goto(t, label)
    PROVE  pc' \in [Tasks -> Label]
  BY DEF TypeOK, Goto

LEMMA ConnectTypes ==
    ASSUME TypeOK, NEW t \in Connectors, ConnectStep(t)
    PROVE  TypeOK'
<1> t \in Tasks
  BY DEF Tasks
<1> USE DEF Label, TakesLock, Critical, InTeardown, InConnect
<1>r. ConnectReturns(t) => pc' \in [Tasks -> Label] /\ backoff' \in 0..MaxBackoff
  BY BoundsAssumption, TaskNames DEF TypeOK, ConnectReturns
<1>1. CASE ConnectBegins(t)
  BY <1>1, GotoTypes
     DEF ConnectBegins, TypeOK, linkVars, bleVars, readVars, lockVars, retryVars
<1>2. CASE ConnectAbandoned(t)
  BY <1>2, <1>r, LockTypes DEF ConnectAbandoned, TypeOK, linkVars, bleVars, readVars
<1>3. CASE ConnectSucceeds(t)
  BY <1>3, GotoTypes
     DEF ConnectSucceeds, TypeOK, linkVars, readVars, lockVars, retryVars
<1>4. CASE SubscribeSucceeds(t)
  BY <1>4, <1>r, LockTypes DEF SubscribeSucceeds, TypeOK, LinkState, bleVars
<1>5. CASE ConnectRaises(t)
  <2>1. link' \in LinkState /\ pc' \in [Tasks -> Label]
    BY <1>5, GotoTypes, TaskNames DEF ConnectRaises, LinkState, TypeOK
  <2> QED
    BY <1>5, <2>1, LockTypes DEF ConnectRaises, KeepsPower, TypeOK, bleVars, readVars
<1> QED
  BY <1>1, <1>2, <1>3, <1>4, <1>5 DEF ConnectStep

LEMMA Labels ==
    /\ \A label \in TakesLock \cup InTeardown \cup InConnect : label \in Label
    /\ \A label \in {"off", "sleep", "backoff"} : label \in Label
    /\ \A label \in {"idle", "running", "awaitSup", "stopped"} : label \in Label
    /\ "tdLock" \in TakesLock /\ "coLock" \in TakesLock
    /\ "tdReading" \in InTeardown /\ "tdUnsub" \in InTeardown
    /\ "tdClose" \in InTeardown /\ "tdDone" \in InTeardown
  BY DEF Label, TakesLock, Critical, InTeardown, InConnect

LEMMA TeardownTypes ==
    ASSUME TypeOK, NEW t \in Tasks, TeardownStep(t)
    PROVE  TypeOK'
<1>1. pc' \in [Tasks -> Label]
  <2>1. CASE StopReader(t)
    BY <2>1, GotoTypes, Labels DEF StopReader
  <2>2. CASE ReadingGone(t)
    BY <2>2, GotoTypes, Labels DEF ReadingGone
  <2>3. CASE DisconnectBegins(t)
    BY <2>3, GotoTypes, Labels DEF DisconnectBegins
  <2>4. CASE DisconnectEnds(t)
    BY <2>4, GotoTypes, Labels DEF DisconnectEnds
  <2> QED
    BY <2>1, <2>2, <2>3, <2>4 DEF TeardownStep
<1>2. CASE StopReader(t)
  BY <1>1, <1>2 DEF StopReader, TypeOK, linkVars, bleVars, lockVars, retryVars
<1>3. CASE ReadingGone(t)
  BY <1>1, <1>3 DEF ReadingGone, TypeOK, linkVars, bleVars, lockVars, retryVars
<1>4. CASE DisconnectBegins(t)
  BY <1>1, <1>4 DEF DisconnectBegins, TypeOK, linkVars, readVars, lockVars, retryVars
<1>5. CASE DisconnectEnds(t)
  BY <1>1, <1>5 DEF DisconnectEnds, TypeOK, linkVars, readVars, lockVars, retryVars
<1> QED
  BY <1>2, <1>3, <1>4, <1>5 DEF TeardownStep

(* Where a step of the supervisor takes it.                                 *)
LEMMA SupervisorLabels ==
    ASSUME TypeOK,
           SupFindsLinkDown \/ SupTornDown \/ SupBackoffEnds
             \/ SupBackoffSwallows \/ SupCancelled
    PROVE  pc' \in [Tasks -> Label]
<1>1. CASE SupFindsLinkDown
  BY <1>1, TaskNames, GotoTypes, Labels DEF SupFindsLinkDown
<1>2. CASE SupTornDown
  BY <1>2, TaskNames, GotoTypes, Labels DEF SupTornDown
<1>3. CASE SupBackoffEnds
  BY <1>3, TaskNames, GotoTypes, Labels DEF SupBackoffEnds
<1>4. CASE SupBackoffSwallows
  BY <1>4, TaskNames, GotoTypes, Labels DEF SupBackoffSwallows
<1>5. CASE SupCancelled
  BY <1>5, TaskNames, GotoTypes, Labels DEF SupCancelled
<1> QED
  BY <1>1, <1>2, <1>3, <1>4, <1>5

LEMMA SupervisorTypes ==
    ASSUME TypeOK,
           SupFindsLinkUp \/ SupFindsLinkDown \/ SupTornDown \/ SupBackoffEnds
             \/ SupBackoffSwallows \/ SupCancelled
    PROVE  TypeOK'
<1>1. CASE SupFindsLinkUp
  BY <1>1, BoundsAssumption
     DEF SupFindsLinkUp, YieldOver, LinkState, TypeOK, bleVars, readVars, lockVars
<1>2. CASE SupFindsLinkDown
  <2>1. holder' \in Tasks \cup {Nobody} /\ waiters' \in Seq(Tasks)
    BY <1>2, TaskNames, LockTypes DEF SupFindsLinkDown
  <2>2. link' \in LinkState /\ yieldUntil' \in {"none", "running", "expired"}
    BY <1>2 DEF SupFindsLinkDown, YieldOver, LinkState, TypeOK
  <2> QED
    BY <1>2, <2>1, <2>2, SupervisorLabels
       DEF SupFindsLinkDown, TypeOK, bleVars, readVars, retryVars
<1>3. CASE SupTornDown
  <2>1. holder' \in Tasks \cup {Nobody} /\ waiters' \in Seq(Tasks)
    <3>1. waiters # <<>> =>
            Head(waiters) \in Tasks /\ Append(Tail(waiters), Sup) \in Seq(Tasks)
      BY TaskNames, HeadTailProperties, AppendProperties DEF TypeOK
    <3> QED
      BY <1>3, <3>1 DEF SupTornDown, TypeOK, lockVars
  <2> QED
    BY <1>3, <2>1, SupervisorLabels
       DEF SupTornDown, Arms, TypeOK, linkVars, bleVars, readVars
<1>4. CASE SupBackoffEnds \/ SupBackoffSwallows
  <2>1. backoff' \in 0..MaxBackoff /\ early' \in Nat
    BY <1>4, BoundsAssumption DEF SupBackoffEnds, SupBackoffSwallows, Doubled, TypeOK
  <2>2. cancelled' \in BOOLEAN
    BY <1>4 DEF SupBackoffEnds, SupBackoffSwallows, TypeOK
  <2>3. UNCHANGED <<linkVars, bleVars, readVars, lockVars, power, edges, sinceArm>>
    BY <1>4 DEF SupBackoffEnds, SupBackoffSwallows
  <2>4. pc' \in [Tasks -> Label]
    BY <1>4, SupervisorLabels
  <2> QED
    BY <2>1, <2>2, <2>3, <2>4 DEF TypeOK, linkVars, bleVars, readVars, lockVars
<1>5. CASE SupCancelled
  <2>1. holder' \in Tasks \cup {Nobody} /\ waiters' \in Seq(Tasks)
    <3>1. CASE holder = Sup
      BY <1>5, <3>1, TaskNames, LockTypes DEF SupCancelled
    <3>2. CASE holder # Sup /\ pc[Sup] \in TakesLock
      <4>1. PICK i \in 1..Len(waiters) :
               waiters' = SubSeq(waiters, 1, i - 1) \o SubSeq(waiters, i + 1, Len(waiters))
        BY <1>5, <3>2 DEF SupCancelled
      <4>2. waiters' \in Seq(Tasks)
        BY <4>1, WithoutTypes DEF TypeOK
      <4> QED
        BY <1>5, <3>2, <4>2 DEF SupCancelled, TypeOK
    <3>3. CASE holder # Sup /\ pc[Sup] \notin TakesLock
      BY <1>5, <3>3 DEF SupCancelled, TypeOK, lockVars
    <3> QED
      BY <3>1, <3>2, <3>3
  <2>2. cancelled' \in BOOLEAN /\ UNCHANGED <<linkVars, bleVars, readVars, retryVars>>
    BY <1>5 DEF SupCancelled
  <2>3. pc' \in [Tasks -> Label]
    BY <1>5, SupervisorLabels
  <2> QED
    BY <2>1, <2>2, <2>3 DEF TypeOK, linkVars, bleVars, readVars, retryVars
<1> QED
  BY <1>1, <1>2, <1>3, <1>4, <1>5

LEMMA RequestTypes ==
    ASSUME TypeOK,
           \/ SupervisorAwaited \/ StopReturns \/ StartCall \/ StopCall \/ Resume
           \/ \E c \in Callers : YieldCall(c) \/ YieldReturns(c)
    PROVE  TypeOK'
<1> USE TaskNames DEF Label, TakesLock, Critical, InTeardown, InConnect
<1>1. CASE SupervisorAwaited
  BY <1>1, GotoTypes, LockTypes
     DEF SupervisorAwaited, TypeOK, linkVars, bleVars, readVars, retryVars
<1>2. CASE StopReturns
  BY <1>2, GotoTypes, LockTypes
     DEF StopReturns, LinkState, TypeOK, bleVars, readVars, retryVars
<1>3. CASE StartCall
  BY <1>3, GotoTypes, LockTypes
     DEF StartCall, LinkState, TypeOK, bleVars, readVars, retryVars
<1>4. CASE StopCall
  BY <1>4, GotoTypes DEF StopCall, TypeOK, linkVars, bleVars, readVars, lockVars, retryVars
<1>5. CASE Resume
  BY <1>5 DEF Resume, TypeOK, bleVars, readVars, lockVars, retryVars
<1>6. ASSUME NEW c \in Callers, YieldCall(c)
      PROVE  TypeOK'
  BY <1>6, GotoTypes, LockTypes DEF YieldCall, TypeOK, bleVars, readVars, retryVars
<1>7. ASSUME NEW c \in Callers, YieldReturns(c)
      PROVE  TypeOK'
  BY <1>7, GotoTypes, LockTypes DEF YieldReturns, LinkState, TypeOK, bleVars, readVars, retryVars
<1> QED
  BY <1>1, <1>2, <1>3, <1>4, <1>5, <1>6, <1>7

LEMMA EnvironmentTypes ==
    ASSUME TypeOK, Environment
    PROVE  TypeOK'
<1> USE DEF TypeOK, linkVars, bleVars, readVars, lockVars, retryVars
<1>1. CASE YieldElapses
  BY <1>1 DEF YieldElapses
<1>2. CASE ReaderReads
  BY <1>2 DEF ReaderReads
<1>3. CASE LinkDrops
  BY <1>3 DEF LinkDrops
<1>4. CASE SlotLapses
  BY <1>4 DEF SlotLapses
<1>5. CASE AppConnects
  BY <1>5 DEF AppConnects
<1>6. CASE AppDisconnects
  BY <1>6 DEF AppDisconnects
<1>7. CASE AdapterPowersOn
  <2>1. edges' \in 0..MaxEdges
    BY <1>7, BoundsAssumption DEF AdapterPowersOn
  <2>2. power' = TRUE /\ sinceArm' = TRUE
    BY <1>7 DEF AdapterPowersOn
  <2>3. UNCHANGED <<linkVars, bleVars, readVars, lockVars, pc, cancelled, backoff, early>>
    BY <1>7 DEF AdapterPowersOn
  <2> QED
    BY <2>1, <2>2, <2>3
<1> QED
  BY <1>1, <1>2, <1>3, <1>4, <1>5, <1>6, <1>7 DEF Environment

(* Every variable of the session stays in its range.                        *)
THEOREM TypeCorrect == Spec => []TypeOK
<1>1. Init => TypeOK
  <2> SUFFICES ASSUME Init
               PROVE  TypeOK
    OBVIOUS
  <2>1. pc \in [Tasks -> Label]
    BY DEF Init, Label
  <2>2. waiters \in Seq(Tasks)
    BY EmptySeq DEF Init
  <2>3. backoff \in 0..MaxBackoff /\ edges \in 0..MaxEdges /\ early \in Nat
    BY BoundsAssumption DEF Init
  <2> QED
    BY <2>1, <2>2, <2>3 DEF Init, TypeOK, LinkState
<1>2. TypeOK /\ [Next]_vars => TypeOK'
  <2> SUFFICES ASSUME TypeOK, [Next]_vars
               PROVE  TypeOK'
    OBVIOUS
  <2>1. CASE Next
    BY <2>1, StepCases, ConnectTypes, TeardownTypes, SupervisorTypes, RequestTypes,
       EnvironmentTypes
  <2>2. CASE UNCHANGED vars
    BY <2>2 DEF vars, linkVars, bleVars, readVars, lockVars, retryVars, TypeOK
  <2> QED
    BY <2>1, <2>2
<1> QED
  BY <1>1, <1>2, PTL DEF Spec
-----------------------------------------------------------------------------
(* The lock.  A step of a task inside _connect or _teardown finds it holding *)
(* the lock, so nobody else is inside; the step keeps the lock, or leaves.   *)

LEMMA ConnectLocks ==
    ASSUME TypeOK, LockDiscipline, NEW t \in Connectors, ConnectStep(t)
    PROVE  LockDiscipline'
<1> t \in Tasks
  BY DEF Tasks
<1> USE TaskNames DEF LockDiscipline, TypeOK, Critical, InTeardown, InConnect, Connectors
<1>1. CASE ConnectBegins(t)
  BY <1>1 DEF ConnectBegins, Enters, At, Goto, lockVars
<1>2. CASE ConnectAbandoned(t)
  BY <1>2 DEF ConnectAbandoned, ConnectReturns, Enters, At
<1>3. CASE ConnectSucceeds(t)
  BY <1>3 DEF ConnectSucceeds, At, Goto, lockVars
<1>4. CASE SubscribeSucceeds(t)
  BY <1>4 DEF SubscribeSucceeds, ConnectReturns, At
<1>5. CASE ConnectRaises(t)
  BY <1>5 DEF ConnectRaises, At, Goto
<1> QED
  BY <1>1, <1>2, <1>3, <1>4, <1>5 DEF ConnectStep

LEMMA TeardownLocks ==
    ASSUME TypeOK, LockDiscipline, NEW t \in Tasks, TeardownStep(t)
    PROVE  LockDiscipline'
<1>1. holder = t /\ UNCHANGED lockVars /\ \E label \in Critical : Goto(t, label)
  BY DEF TeardownStep, StopReader, ReadingGone, DisconnectBegins, DisconnectEnds, Enters,
         At, LockDiscipline, Critical, InTeardown
<1> QED
  BY <1>1 DEF LockDiscipline, Goto, lockVars, TypeOK

LEMMA OtherLocks ==
    ASSUME TypeOK, LockDiscipline,
           \/ SupFindsLinkUp \/ SupFindsLinkDown \/ SupTornDown
           \/ SupBackoffEnds \/ SupBackoffSwallows \/ SupCancelled
           \/ SupervisorAwaited \/ StopReturns \/ StartCall \/ StopCall \/ Resume
           \/ \E c \in Callers : YieldCall(c) \/ YieldReturns(c)
           \/ Environment
    PROVE  LockDiscipline'
<1> USE TaskNames DEF LockDiscipline, TypeOK, Critical, InTeardown, InConnect
<1>1. CASE SupFindsLinkUp \/ Resume \/ Environment
  BY <1>1 DEF SupFindsLinkUp, Resume, Environment, YieldElapses, ReaderReads, LinkDrops,
              SlotLapses, AppConnects, AppDisconnects, AdapterPowersOn, lockVars
<1>2. CASE SupFindsLinkDown
  BY <1>2 DEF SupFindsLinkDown, Acquire, Goto
<1>3. CASE SupTornDown
  BY <1>3 DEF SupTornDown, At, Goto, lockVars
<1>4. CASE SupBackoffEnds \/ SupBackoffSwallows \/ StopCall
  BY <1>4 DEF SupBackoffEnds, SupBackoffSwallows, StopCall, At, Goto, lockVars
<1>5. CASE SupCancelled
  BY <1>5 DEF SupCancelled, Goto, lockVars
<1>6. CASE SupervisorAwaited \/ StartCall
  BY <1>6 DEF SupervisorAwaited, StartCall, Acquire, Goto
<1>7. CASE StopReturns
  BY <1>7 DEF StopReturns, Goto
<1>8. ASSUME NEW c \in Callers, YieldCall(c) \/ YieldReturns(c)
      PROVE  LockDiscipline'
  BY <1>8 DEF YieldCall, YieldReturns, Acquire, Goto
<1> QED
  BY <1>1, <1>2, <1>3, <1>4, <1>5, <1>6, <1>7, <1>8

(* No task is between the awaits of _connect or _teardown without the lock. *)
THEOREM LockIsHeld == Spec => []LockDiscipline
<1>1. Init => LockDiscipline
  BY DEF Init, LockDiscipline, Critical, InTeardown, InConnect
<1>2. TypeOK /\ LockDiscipline /\ [Next]_vars => LockDiscipline'
  <2> SUFFICES ASSUME TypeOK, LockDiscipline, [Next]_vars
               PROVE  LockDiscipline'
    OBVIOUS
  <2>1. CASE Next
    BY <2>1, StepCases, ConnectLocks, TeardownLocks, OtherLocks
  <2>2. CASE UNCHANGED vars
    BY <2>2 DEF vars, lockVars, LockDiscipline
  <2> QED
    BY <2>1, <2>2
<1> QED
  BY <1>1, <1>2, TypeCorrect, PTL DEF Spec

-----------------------------------------------------------------------------
(* The yield.  Its inductive invariant says, besides, that a teardown which *)
(* has come to its disconnect() finds the client forgotten.                 *)

ClientForgotten == \A t \in Tasks : pc[t] \in {"tdClose", "tdDone"} => client = "none"

HonourInv == ClientForgotten /\ YieldHonoured

LEMMA ConnectHonours ==
    ASSUME TypeOK, LockDiscipline, HonourInv, NEW t \in Connectors, ConnectStep(t)
    PROVE  HonourInv'
<1> t \in Tasks
  BY DEF Tasks
<1> USE TaskNames
    DEF HonourInv, ClientForgotten, YieldHonoured, YieldsReturned, TypeOK, Connectors
<1>1. CASE ConnectBegins(t)
  BY <1>1 DEF ConnectBegins, MayConnect, Goto, linkVars, bleVars
<1>2. CASE ConnectAbandoned(t)
  BY <1>2 DEF ConnectAbandoned, ConnectReturns, linkVars, bleVars, InConnect
<1>3. CASE ConnectSucceeds(t)
  BY <1>3 DEF ConnectSucceeds, At, Goto, linkVars, LockDiscipline, Critical, InTeardown,
              InConnect
<1>4. CASE SubscribeSucceeds(t)
  BY <1>4 DEF SubscribeSucceeds, ConnectReturns, At, bleVars, InConnect
<1>5. CASE ConnectRaises(t)
  BY <1>5 DEF ConnectRaises, At, Goto, bleVars, InConnect
<1> QED
  BY <1>1, <1>2, <1>3, <1>4, <1>5 DEF ConnectStep

LEMMA TeardownHonours ==
    ASSUME TypeOK, LockDiscipline, HonourInv, NEW t \in Tasks, TeardownStep(t)
    PROVE  HonourInv'
<1>1. /\ \E label \in InTeardown : Goto(t, label)
      /\ pc[t] \in TakesLock \cup InTeardown
      /\ client' \in {client, "none"} /\ UNCHANGED linkVars
  BY DEF TeardownStep, StopReader, ReadingGone, DisconnectBegins, DisconnectEnds, Enters,
         At, TakesLock, InTeardown, bleVars
<1>2. ClientForgotten'
  <2>1. CASE DisconnectBegins(t)
    BY <2>1 DEF DisconnectBegins, ClientForgotten
  <2>2. CASE StopReader(t) \/ ReadingGone(t) \/ DisconnectEnds(t)
    BY <2>2 DEF StopReader, ReadingGone, DisconnectEnds, At, Goto, bleVars, HonourInv,
                ClientForgotten, TypeOK
  <2> QED
    BY <2>1, <2>2 DEF TeardownStep
<1>3. YieldHonoured'
  BY <1>1, TaskNames
     DEF HonourInv, YieldHonoured, YieldsReturned, Goto, linkVars, TypeOK, TakesLock,
         InTeardown, InConnect
<1> QED
  BY <1>2, <1>3 DEF HonourInv

LEMMA SupervisorHonours ==
    ASSUME TypeOK, HonourInv,
           SupFindsLinkUp \/ SupFindsLinkDown \/ SupTornDown \/ SupBackoffEnds
             \/ SupBackoffSwallows \/ SupCancelled
    PROVE  HonourInv'
<1> USE TaskNames
    DEF HonourInv, ClientForgotten, YieldHonoured, YieldsReturned, TypeOK, Connectors,
        InConnect
<1>1. CASE SupFindsLinkUp \/ SupFindsLinkDown
  BY <1>1 DEF SupFindsLinkUp, SupFindsLinkDown, YieldOver, Goto, bleVars
<1>2. CASE SupTornDown \/ SupBackoffEnds \/ SupBackoffSwallows \/ SupCancelled
  BY <1>2 DEF SupTornDown, SupBackoffEnds, SupBackoffSwallows, SupCancelled, Goto, linkVars, bleVars
<1> QED
  BY <1>1, <1>2

LEMMA RequestHonours ==
    ASSUME TypeOK, LockDiscipline, HonourInv,
           \/ SupervisorAwaited \/ StopReturns \/ StartCall \/ StopCall \/ Resume
           \/ \E c \in Callers : YieldCall(c) \/ YieldReturns(c)
    PROVE  HonourInv'
<1> USE TaskNames
    DEF HonourInv, ClientForgotten, YieldHonoured, YieldsReturned, TypeOK, Connectors,
        InConnect
<1>1. CASE SupervisorAwaited \/ StopReturns \/ StartCall \/ StopCall
  BY <1>1 DEF SupervisorAwaited, StopReturns, StartCall, StopCall, Goto, linkVars, bleVars
<1>2. CASE Resume
  BY <1>2 DEF Resume, bleVars
<1>3. ASSUME NEW c \in Callers, YieldCall(c)
      PROVE  HonourInv'
  BY <1>3 DEF YieldCall, Goto, bleVars
<1>4. ASSUME NEW c \in Callers, YieldReturns(c)
      PROVE  HonourInv'
  <2>1. \A t \in Connectors : pc[t] \notin InConnect
    BY <1>4 DEF YieldReturns, LockDiscipline, Critical, InTeardown, Tasks
  <2> QED
    BY <1>4, <2>1 DEF YieldReturns, Goto, bleVars
<1> QED
  BY <1>1, <1>2, <1>3, <1>4

LEMMA EnvironmentHonours ==
    ASSUME HonourInv, Environment
    PROVE  HonourInv'
  BY DEF Environment, YieldElapses, ReaderReads, LinkDrops, SlotLapses, AppConnects,
         AppDisconnects, AdapterPowersOn, linkVars, bleVars, HonourInv, ClientForgotten,
         YieldHonoured, YieldsReturned

LEMMA HonourKept == Spec => []HonourInv
<1>1. Init => HonourInv
  BY TaskNames DEF Init, HonourInv, ClientForgotten, YieldHonoured
<1>2. TypeOK /\ LockDiscipline /\ HonourInv /\ [Next]_vars => HonourInv'
  <2> SUFFICES ASSUME TypeOK, LockDiscipline, HonourInv, [Next]_vars
               PROVE  HonourInv'
    OBVIOUS
  <2>1. CASE Next
    BY <2>1, StepCases, ConnectHonours, TeardownHonours, SupervisorHonours,
       RequestHonours, EnvironmentHonours
  <2>2. CASE UNCHANGED vars
    BY <2>2 DEF vars, linkVars, bleVars, HonourInv, ClientForgotten, YieldHonoured,
                YieldsReturned
  <2> QED
    BY <2>1, <2>2
<1> QED
  BY <1>1, <1>2, TypeCorrect, LockIsHeld, PTL DEF Spec

(* While a yield runs and every yield_link() call has returned, nothing of  *)
(* ours has the device or reaches for it: the two orderings _connect argues *)
(* about are the only ones.                                                 *)
THEOREM YieldIsHonoured == Spec => []YieldHonoured
<1>1. HonourInv => YieldHonoured
  BY DEF HonourInv
<1> QED
  BY <1>1, HonourKept, PTL

-----------------------------------------------------------------------------
(* Attempts, power-ons and stop()                                           *)

(* A task that goes somewhere goes alone.                                   *)
LEMMA GotoMoves ==
    ASSUME TypeOK, NEW t \in Tasks, NEW label, Goto(t, label)
    PROVE  pc'[t] = label /\ \A u \in Tasks : u # t => pc'[u] = pc[u]
  BY DEF TypeOK, Goto

(* Who may be where: without a daemon that runs there is no yield, and but  *)
(* for the one that stop() awaits, no supervisor.                           *)
Roles ==
    /\ pc[Main] # "running" => YieldsReturned
    /\ cancelled => pc[Main] = "awaitSup" /\ pc[Sup] # "off"
    /\ pc[Main] \notin {"running", "awaitSup"} => pc[Sup] = "off"

LEMMA ConnectRoles ==
    ASSUME TypeOK, Roles, NEW t \in Connectors, ConnectStep(t)
    PROVE  Roles'
<1> USE TaskNames DEF Roles, YieldsReturned, TypeOK, Connectors
<1>1. CASE ConnectBegins(t)
  BY <1>1 DEF ConnectBegins, Enters, At, Goto
<1>2. CASE ConnectAbandoned(t)
  BY <1>2 DEF ConnectAbandoned, ConnectReturns, Enters, At
<1>3. CASE ConnectSucceeds(t)
  BY <1>3 DEF ConnectSucceeds, At, Goto
<1>4. CASE SubscribeSucceeds(t)
  BY <1>4 DEF SubscribeSucceeds, ConnectReturns, At
<1>5. CASE ConnectRaises(t)
  BY <1>5 DEF ConnectRaises, At, Goto
<1> QED
  BY <1>1, <1>2, <1>3, <1>4, <1>5 DEF ConnectStep

LEMMA TeardownRoles ==
    ASSUME TypeOK, Roles, NEW t \in Tasks, TeardownStep(t)
    PROVE  Roles'
<1>1. /\ \E label \in InTeardown : Goto(t, label)
      /\ pc[t] \in TakesLock \cup InTeardown
      /\ cancelled' = cancelled \/ (cancelled' = FALSE)
  BY DEF TeardownStep, StopReader, ReadingGone, DisconnectBegins, DisconnectEnds, Enters,
         At, TakesLock, InTeardown, TypeOK
<1> QED
  BY <1>1, TaskNames DEF Roles, YieldsReturned, Goto, TypeOK, TakesLock, InTeardown

LEMMA OtherRoles ==
    ASSUME TypeOK, Roles,
           \/ SupFindsLinkUp \/ SupFindsLinkDown \/ SupTornDown
           \/ SupBackoffEnds \/ SupBackoffSwallows \/ SupCancelled
           \/ SupervisorAwaited \/ StopReturns \/ StartCall \/ StopCall \/ Resume
           \/ \E c \in Callers : YieldCall(c) \/ YieldReturns(c)
           \/ Environment
    PROVE  Roles'
<1> USE TaskNames DEF Roles, YieldsReturned, TypeOK
<1>1. CASE SupFindsLinkUp \/ Resume \/ Environment
  BY <1>1 DEF SupFindsLinkUp, Resume, Environment, YieldElapses, ReaderReads, LinkDrops,
              SlotLapses, AppConnects, AppDisconnects, AdapterPowersOn
<1>2. CASE SupFindsLinkDown \/ SupTornDown \/ SupBackoffEnds \/ SupBackoffSwallows
  <2>1. /\ pc[Sup] # "off" /\ (cancelled' => cancelled)
        /\ Goto(Sup, "tdLock") \/ Goto(Sup, "coLock") \/ Goto(Sup, "sleep")
    BY <1>2 DEF SupFindsLinkDown, SupTornDown, SupBackoffEnds, SupBackoffSwallows, At
  <2>2. pc'[Sup] # "off" /\ \A u \in Tasks : u # Sup => pc'[u] = pc[u]
    BY <2>1, GotoMoves
  <2> QED
    BY <2>1, <2>2
<1>5. CASE SupCancelled
  BY <1>5 DEF SupCancelled, Goto
<1>3. CASE SupervisorAwaited \/ StopReturns \/ StartCall \/ StopCall
  BY <1>3 DEF SupervisorAwaited, StopReturns, StartCall, StopCall, Goto
<1>4. ASSUME NEW c \in Callers, YieldCall(c) \/ YieldReturns(c)
      PROVE  Roles'
  BY <1>4 DEF YieldCall, YieldReturns, Goto
<1> QED
  BY <1>1, <1>2, <1>3, <1>4, <1>5

LEMMA RolesKept == Spec => []Roles
<1>1. Init => Roles
  BY TaskNames DEF Init, Roles, YieldsReturned
<1>2. TypeOK /\ Roles /\ [Next]_vars => Roles'
  <2> SUFFICES ASSUME TypeOK, Roles, [Next]_vars
               PROVE  Roles'
    OBVIOUS
  <2>1. CASE Next
    BY <2>1, StepCases, ConnectRoles, TeardownRoles, OtherRoles
  <2>2. CASE UNCHANGED vars
    BY <2>2 DEF vars, Roles, YieldsReturned
  <2> QED
    BY <2>1, <2>2
<1> QED
  BY <1>1, <1>2, TypeCorrect, PTL DEF Spec

-----------------------------------------------------------------------------
(* The reader                                                               *)

(* Where a task that may connect has no reader behind it.                   *)
WithoutReader == (InTeardown \cup InConnect \cup {"coLock", "backoff", "idle", "stopped"})

ReaderInv ==
    /\ \A t \in Connectors : pc[t] \in WithoutReader => ~reader
    /\ reading => reader \/ \E t \in Tasks : pc[t] = "tdReading"

LEMMA ConnectReaders ==
    ASSUME TypeOK, LockDiscipline, Roles, ReaderInv, NEW t \in Connectors, ConnectStep(t)
    PROVE  ReaderInv'
<1> t \in Tasks
  BY DEF Tasks
<1> USE TaskNames
    DEF Roles, ReaderInv, WithoutReader, InTeardown, InConnect, TypeOK, Connectors
<1>1. CASE ConnectBegins(t)
  BY <1>1 DEF ConnectBegins, Enters, At, Goto, readVars
<1>2. CASE ConnectAbandoned(t)
  BY <1>2 DEF ConnectAbandoned, ConnectReturns, Enters, At, readVars
<1>3. CASE ConnectSucceeds(t)
  BY <1>3 DEF ConnectSucceeds, At, Goto, readVars
<1>4. CASE SubscribeSucceeds(t)
  BY <1>4 DEF SubscribeSucceeds, ConnectReturns, At
<1>5. CASE ConnectRaises(t)
  BY <1>5 DEF ConnectRaises, At, Goto, readVars
<1> QED
  BY <1>1, <1>2, <1>3, <1>4, <1>5 DEF ConnectStep

LEMMA TeardownReaders ==
    ASSUME TypeOK, LockDiscipline, ReaderInv, NEW t \in Tasks, TeardownStep(t)
    PROVE  ReaderInv'
<1> USE TaskNames
    DEF ReaderInv, WithoutReader, InTeardown, InConnect, TypeOK, Connectors, Goto, readVars, At
<1>1. CASE StopReader(t)
  BY <1>1 DEF StopReader
<1>2. CASE ReadingGone(t)
  BY <1>2 DEF ReadingGone
<1>3. CASE DisconnectBegins(t)
  BY <1>3 DEF DisconnectBegins, Enters
<1>4. CASE DisconnectEnds(t)
  BY <1>4 DEF DisconnectEnds
<1> QED
  BY <1>1, <1>2, <1>3, <1>4 DEF TeardownStep

LEMMA OtherReaders ==
    ASSUME TypeOK, Roles, ReaderInv,
           \/ SupFindsLinkUp \/ SupFindsLinkDown \/ SupTornDown
           \/ SupBackoffEnds \/ SupBackoffSwallows \/ SupCancelled
           \/ SupervisorAwaited \/ StopReturns \/ StartCall \/ StopCall \/ Resume
           \/ \E c \in Callers : YieldCall(c) \/ YieldReturns(c)
           \/ Environment
    PROVE  ReaderInv'
<1> USE TaskNames
    DEF ReaderInv, WithoutReader, InTeardown, InConnect, TypeOK, Connectors, Goto, readVars, At
<1>1. CASE SupFindsLinkUp \/ Resume \/ Environment
  BY <1>1 DEF SupFindsLinkUp, Resume, Environment, YieldElapses, ReaderReads, LinkDrops,
              SlotLapses, AppConnects, AppDisconnects, AdapterPowersOn
<1>2. CASE SupFindsLinkDown \/ SupTornDown \/ SupBackoffEnds \/ SupBackoffSwallows \/ SupCancelled
  <2>1. /\ UNCHANGED readVars /\ pc[Sup] # "tdReading"
        /\ \/ Goto(Sup, "tdLock") \/ Goto(Sup, "sleep") \/ Goto(Sup, "off")
           \/ pc[Sup] = "tdDone" /\ Goto(Sup, "coLock")
    BY <1>2 DEF SupFindsLinkDown, SupTornDown, SupBackoffEnds, SupBackoffSwallows, SupCancelled
  <2>2. /\ pc'[Sup] \in WithoutReader => pc[Sup] \in WithoutReader
        /\ \A u \in Tasks : u # Sup => pc'[u] = pc[u]
    BY <2>1, GotoMoves
  <2> QED
    BY <2>1, <2>2
<1>3. CASE SupervisorAwaited \/ StopReturns \/ StartCall \/ StopCall
  BY <1>3 DEF SupervisorAwaited, StopReturns, StartCall, StopCall
<1>4. ASSUME NEW c \in Callers, YieldCall(c) \/ YieldReturns(c)
      PROVE  ReaderInv'
  BY <1>4 DEF YieldCall, YieldReturns
<1> QED
  BY <1>1, <1>2, <1>3, <1>4

LEMMA ReadersKept == Spec => []ReaderInv
<1>1. Init => ReaderInv
  BY TaskNames DEF Init, ReaderInv
<1>2. TypeOK /\ LockDiscipline /\ Roles /\ ReaderInv /\ [Next]_vars => ReaderInv'
  <2> SUFFICES ASSUME TypeOK, LockDiscipline, Roles, ReaderInv, [Next]_vars
               PROVE  ReaderInv'
    OBVIOUS
  <2>1. CASE Next
    BY <2>1, StepCases, ConnectReaders, TeardownReaders, OtherReaders
  <2>2. CASE UNCHANGED vars
    BY <2>2 DEF vars, readVars, ReaderInv
  <2> QED
    BY <2>1, <2>2
<1> QED
  BY <1>1, <1>2, TypeCorrect, LockIsHeld, RolesKept, PTL DEF Spec

(* No attempt to connect runs over the reader, or a read, of an earlier     *)
(* connection, whoever else tore down between the teardown and the attempt. *)
THEOREM AttemptsStartClean == Spec => []NoStaleReader
<1>1. TypeOK /\ LockDiscipline /\ ReaderInv => NoStaleReader
  BY DEF LockDiscipline, ReaderInv, NoStaleReader, WithoutReader, Critical, InTeardown,
         InConnect, Tasks, TypeOK
<1> QED
  BY <1>1, TypeCorrect, LockIsHeld, ReadersKept, PTL

-----------------------------------------------------------------------------
(* The adapter's power-ons                                                  *)

(* From the arming of the event to the end of the backoff it may cut short. *)
Armed == pc[Sup] \in InConnect \cup {"coLock", "backoff"}

(* What an armed event has yet to buy counts as bought.                     *)
PowerInv ==
    /\ sinceArm => power
    /\ early <= edges
    /\ power /\ Armed => early < edges

LEMMA PowerConnects ==
    ASSUME TypeOK, Roles, PowerInv, NEW t \in Connectors, ConnectStep(t)
    PROVE  PowerInv'
<1> t \in Tasks
  BY DEF Tasks
<1>1. UNCHANGED <<power, edges, early, sinceArm>>
  BY DEF ConnectStep, ConnectBegins, ConnectAbandoned, ConnectSucceeds, SubscribeSucceeds,
         ConnectRaises, KeepsPower, retryVars
<1>2. Armed' => Armed
  <2>1. CASE t = Main
    <3>1. pc'[Sup] \in {pc[Sup], "sleep"}
      BY <2>1, TaskNames DEF ConnectStep, ConnectBegins, ConnectAbandoned, ConnectSucceeds,
         SubscribeSucceeds, ConnectRaises, ConnectReturns, Goto, TypeOK
    <3> QED
      BY <3>1 DEF Armed, InConnect
  <2>2. CASE t = Sup
    BY <2>2 DEF ConnectStep, ConnectBegins, ConnectAbandoned, ConnectSucceeds,
       SubscribeSucceeds, ConnectRaises, Enters, At, Armed, InConnect
  <2> QED
    BY <2>1, <2>2 DEF Connectors
<1> QED
  BY <1>1, <1>2 DEF PowerInv

LEMMA PowerTeardowns ==
    ASSUME TypeOK, PowerInv, NEW t \in Tasks, TeardownStep(t)
    PROVE  PowerInv'
<1>1. UNCHANGED <<power, edges, early, sinceArm>>
  BY DEF TeardownStep, StopReader, ReadingGone, DisconnectBegins, DisconnectEnds, retryVars
<1>2. \E label \in InTeardown : Goto(t, label)
  BY DEF TeardownStep, StopReader, ReadingGone, DisconnectBegins, DisconnectEnds, InTeardown
<1>3. Armed' => Armed
  BY <1>2, GotoMoves, TaskNames DEF Armed, InTeardown, InConnect
<1> QED
  BY <1>1, <1>3 DEF PowerInv

LEMMA PowerOthers ==
    ASSUME TypeOK, Roles, PowerInv,
           \/ SupFindsLinkUp \/ SupFindsLinkDown \/ SupTornDown
           \/ SupBackoffEnds \/ SupBackoffSwallows \/ SupCancelled
           \/ SupervisorAwaited \/ StopReturns \/ StartCall \/ StopCall \/ Resume
           \/ \E c \in Callers : YieldCall(c) \/ YieldReturns(c)
           \/ Environment
    PROVE  PowerInv'
<1> USE TaskNames DEF PowerInv
<1>1. CASE SupBackoffEnds \/ SupBackoffSwallows
  <2>1. /\ pc[Sup] = "backoff" /\ Goto(Sup, "sleep")
        /\ early' = early \/ (power /\ early' = early + 1)
        /\ UNCHANGED <<power, edges, sinceArm>>
    BY <1>1 DEF SupBackoffEnds, SupBackoffSwallows, At
  <2>2. ~Armed' /\ Armed
    BY <2>1, GotoMoves DEF Armed, InConnect
  <2> QED
    BY <2>1, <2>2 DEF TypeOK
<1>2. CASE SupTornDown
  BY <1>2 DEF SupTornDown, Arms, TypeOK
<1>3. CASE AdapterPowersOn
  BY <1>3, BoundsAssumption DEF AdapterPowersOn, TypeOK
<1>4. ASSUME UNCHANGED <<power, edges, early, sinceArm>>, UNCHANGED pc
      PROVE  PowerInv'
  BY <1>4 DEF Armed
<1>5. CASE SupFindsLinkUp \/ Resume \/ (Environment /\ ~AdapterPowersOn)
  BY <1>4, <1>5 DEF SupFindsLinkUp, Resume, Environment, YieldElapses, ReaderReads, LinkDrops,
     SlotLapses, AppConnects, AppDisconnects, retryVars
<1>6. CASE SupFindsLinkDown \/ SupCancelled
  <2>1. /\ UNCHANGED <<power, edges, early, sinceArm>>
        /\ Goto(Sup, "tdLock") \/ Goto(Sup, "off")
    BY <1>6 DEF SupFindsLinkDown, SupCancelled, retryVars
  <2> QED
    BY <2>1, GotoMoves DEF Armed, InConnect
<1>7. ASSUME UNCHANGED retryVars, NEW t \in Tasks, NEW label, t # Sup, Goto(t, label)
      PROVE  PowerInv'
  <2>1. pc'[Sup] = pc[Sup]
    BY <1>7, GotoMoves
  <2> QED
    BY <1>7, <2>1 DEF Armed, retryVars
<1>8. CASE SupervisorAwaited \/ StopReturns \/ StartCall \/ StopCall
  BY <1>7, <1>8 DEF SupervisorAwaited, StopReturns, StartCall, StopCall
<1>9. ASSUME NEW c \in Callers, YieldCall(c) \/ YieldReturns(c)
      PROVE  PowerInv'
  BY <1>7, <1>9 DEF YieldCall, YieldReturns
<1> QED
  BY <1>1, <1>2, <1>3, <1>5, <1>6, <1>8, <1>9

LEMMA PowerKept == Spec => []PowerInv
<1>1. Init => PowerInv
  BY DEF Init, PowerInv
<1>2. TypeOK /\ Roles /\ PowerInv /\ [Next]_vars => PowerInv'
  <2> SUFFICES ASSUME TypeOK, Roles, PowerInv, [Next]_vars
               PROVE  PowerInv'
    OBVIOUS
  <2>1. CASE Next
    BY <2>1, StepCases, PowerConnects, PowerTeardowns, PowerOthers
  <2>2. CASE UNCHANGED vars
    BY <2>2 DEF vars, retryVars, PowerInv, Armed
  <2> QED
    BY <2>1, <2>2
<1> QED
  BY <1>1, <1>2, TypeCorrect, RolesKept, PTL DEF Spec

(* A power-on after the event was armed, at whichever moment of the         *)
(* teardown, the attempt or the backoff, is there for the backoff to see.   *)
THEOREM PowerOnsAreKept == Spec => []PowerOnKept
<1>1. PowerInv => PowerOnKept
  BY DEF PowerInv, PowerOnKept
<1> QED
  BY <1>1, PowerKept, PTL

(* Each power-on buys one early attempt at most, for any number of them.    *)
THEOREM EarlyAttemptsAreBounded == Spec => []EarlyAttemptsBounded
<1>1. PowerInv => EarlyAttemptsBounded
  BY DEF PowerInv, EarlyAttemptsBounded
<1> QED
  BY <1>1, PowerKept, PTL

-----------------------------------------------------------------------------
(* The backoff                                                              *)

(* A link that is being subscribed to may have dropped; forgotten it is not,*)
(* for who would forget it waits for the lock.                              *)
Subscribing == \A t \in Connectors : pc[t] = "subscribing" => client # "none"

LEMMA SubscribingKept == Spec => []Subscribing
<1>1. Init => Subscribing
  BY TaskNames DEF Init, Subscribing, Connectors
<1>2. TypeOK /\ LockDiscipline /\ Roles /\ Subscribing /\ [Next]_vars => Subscribing'
  <2> SUFFICES ASSUME TypeOK, LockDiscipline, Roles, Subscribing, [Next]_vars
               PROVE  Subscribing'
    OBVIOUS
  <2> USE TaskNames DEF Subscribing, Connectors
  <2>1. ASSUME NEW t \in Tasks, TeardownStep(t)
        PROVE  Subscribing'
    <3>1. \E label \in InTeardown : Goto(t, label)
      BY <2>1 DEF TeardownStep, StopReader, ReadingGone, DisconnectBegins, DisconnectEnds, InTeardown
    <3>2. \A u \in Tasks : pc'[u] = "subscribing" => pc[u] = "subscribing" /\ u # t
      BY <3>1, GotoMoves DEF InTeardown
    <3>3. CASE DisconnectBegins(t)
      <4>1. holder = t
        BY <3>3 DEF DisconnectBegins, Enters, At, LockDiscipline, Critical, InTeardown
      <4>2. \A u \in Connectors : pc'[u] # "subscribing"
        BY <3>2, <4>1 DEF LockDiscipline, Critical, InConnect
      <4> QED
        BY <4>2
    <3>4. CASE ~DisconnectBegins(t)
      <4>1. UNCHANGED client
        BY <2>1, <3>4 DEF TeardownStep, StopReader, ReadingGone, DisconnectEnds, bleVars
      <4> QED
        BY <3>2, <4>1
    <3> QED
      BY <3>3, <3>4
  <2>2. ASSUME NEW t \in Connectors, ConnectStep(t)
        PROVE  Subscribing'
    <3>1. CASE ConnectSucceeds(t)
      BY <3>1 DEF ConnectSucceeds
    <3>2. CASE ~ConnectSucceeds(t)
      <4>1. UNCHANGED client /\ \A u \in Connectors : pc'[u] # "subscribing" \/ pc'[u] = pc[u]
        BY <2>2, <3>2 DEF ConnectStep, ConnectBegins, ConnectAbandoned, SubscribeSucceeds,
           ConnectRaises, ConnectReturns, Goto, bleVars, TypeOK
      <4> QED
        BY <4>1
    <3> QED
      BY <3>1, <3>2
  <2>3. ASSUME UNCHANGED client, \A u \in Connectors : pc'[u] # "subscribing" \/ pc'[u] = pc[u]
        PROVE  Subscribing'
    BY <2>3
  <2>4. CASE SupFindsLinkUp \/ SupFindsLinkDown \/ SupTornDown \/ SupBackoffEnds
               \/ SupBackoffSwallows \/ SupCancelled
    BY <2>3, <2>4 DEF SupFindsLinkUp, SupFindsLinkDown, SupTornDown, SupBackoffEnds,
       SupBackoffSwallows, SupCancelled, Goto, bleVars, TypeOK
  <2>5. CASE \/ SupervisorAwaited \/ StopReturns \/ StartCall \/ StopCall \/ Resume
             \/ \E c \in Callers : YieldCall(c) \/ YieldReturns(c)
    BY <2>3, <2>5 DEF SupervisorAwaited, StopReturns, StartCall, StopCall, Resume, YieldCall,
       YieldReturns, Goto, bleVars, TypeOK
  <2>6. CASE Environment
    BY <2>6 DEF Environment, YieldElapses, ReaderReads, LinkDrops, SlotLapses, AppConnects,
       AppDisconnects, AdapterPowersOn, bleVars
  <2>7. CASE UNCHANGED vars
    BY <2>7 DEF vars, bleVars
  <2> QED
    BY <2>1, <2>2, <2>4, <2>5, <2>6, <2>7, StepCases
<1> QED
  BY <1>1, <1>2, TypeCorrect, LockIsHeld, RolesKept, PTL DEF Spec

(* The backoff falls for a link, a yield or a new supervisor, and then to   *)
(* its initial value, whatever its ceiling.                                 *)
THEOREM BackoffFalls == Spec => BackoffFallsForALink
<1> DEFINE Falls ==
      backoff' < backoff =>
        /\ backoff' = 0
        /\ client # "none" \/ yieldUntil # "none" \/ pc[Main] # "running"
<1>1. TypeOK /\ Roles /\ Subscribing /\ [Next]_vars => [Falls]_vars
  <2> SUFFICES ASSUME TypeOK, Roles, Subscribing, Next
               PROVE  Falls
    OBVIOUS
  <2>1. ASSUME UNCHANGED backoff
        PROVE  Falls
    BY <2>1 DEF TypeOK
  <2>2. ASSUME NEW t \in Connectors, ConnectStep(t)
        PROVE  Falls
    <3>1. CASE ConnectAbandoned(t)
      BY <3>1 DEF ConnectAbandoned, ConnectReturns, MayConnect
    <3>2. CASE SubscribeSucceeds(t)
      BY <3>2 DEF SubscribeSucceeds, ConnectReturns, At, Subscribing
    <3>3. CASE ConnectBegins(t) \/ ConnectSucceeds(t) \/ ConnectRaises(t)
      BY <2>1, <3>3 DEF ConnectBegins, ConnectSucceeds, ConnectRaises, retryVars
    <3> QED
      BY <2>2, <3>1, <3>2, <3>3 DEF ConnectStep
  <2>3. ASSUME NEW t \in Tasks, TeardownStep(t)
        PROVE  Falls
    BY <2>1, <2>3 DEF TeardownStep, StopReader, ReadingGone, DisconnectBegins, DisconnectEnds,
       retryVars
  <2>4. CASE SupFindsLinkUp
    BY <2>4 DEF SupFindsLinkUp
  <2>5. CASE SupBackoffEnds \/ SupBackoffSwallows
    <3>1. backoff' = Doubled
      BY <2>5 DEF SupBackoffEnds, SupBackoffSwallows
    <3> QED
      BY <3>1, BoundsAssumption DEF Doubled, TypeOK
  <2>6. CASE SupFindsLinkDown \/ SupTornDown \/ SupCancelled
    BY <2>1, <2>6 DEF SupFindsLinkDown, SupTornDown, SupCancelled, retryVars
  <2>7. CASE \/ SupervisorAwaited \/ StopReturns \/ StartCall \/ StopCall \/ Resume
             \/ \E c \in Callers : YieldCall(c) \/ YieldReturns(c)
    BY <2>1, <2>7 DEF SupervisorAwaited, StopReturns, StartCall, StopCall, Resume, YieldCall,
       YieldReturns, retryVars
  <2>8. CASE Environment
    BY <2>1, <2>8 DEF Environment, YieldElapses, ReaderReads, LinkDrops, SlotLapses, AppConnects,
       AppDisconnects, AdapterPowersOn, retryVars
  <2> QED
    BY <2>2, <2>3, <2>4, <2>5, <2>6, <2>7, <2>8, StepCases
<1> QED
  BY <1>1, TypeCorrect, RolesKept, SubscribingKept, PTL DEF Spec, BackoffFallsForALink

-----------------------------------------------------------------------------
(* What stop() leaves                                                       *)

Inside == TakesLock \cup Critical

(* Whoever has the lock or is queued for it is on its way through it, and is*)
(* there once: nobody leaves the lock, or the queue, behind.                *)
QueueInv ==
    /\ holder # Nobody => pc[holder] \in Inside
    /\ \A t \in Range(waiters) : pc[t] \in TakesLock /\ t # holder
    /\ IsInjective(waiters)

(* What the queue's operations do to its elements, and that none of them    *)
(* doubles one.                                                             *)
LEMMA HeadAndTail ==
    ASSUME NEW S, NEW q \in Seq(S), q # <<>>, IsInjective(q)
    PROVE  /\ Tail(q) \in Seq(S) /\ IsInjective(Tail(q))
           /\ Head(q) \in Range(q) /\ Range(Tail(q)) \subseteq Range(q) \ {Head(q)}
<1>1. /\ Len(q) \in Nat /\ Len(q) >= 1 /\ Tail(q) \in Seq(S) /\ Head(q) = q[1]
      /\ Len(Tail(q)) = Len(q) - 1 /\ \A j \in 1..Len(Tail(q)) : Tail(q)[j] = q[j + 1]
  BY HeadTailProperties, EmptySeq, LenProperties
<1>2. /\ Range(q) = {q[j] : j \in 1..Len(q)}
      /\ Range(Tail(q)) = {Tail(q)[j] : j \in 1..Len(Tail(q))}
  BY <1>1, RangeEquality
<1>3. DOMAIN q = 1..Len(q) /\ DOMAIN Tail(q) = 1..Len(Tail(q))
  BY <1>1, LenProperties
<1>4. \A j \in 1..Len(Tail(q)) : j + 1 \in 1..Len(q) /\ j + 1 # 1
  BY <1>1
<1>5. \A j, k \in 1..Len(q) : q[j] = q[k] => j = k
  BY <1>3 DEF IsInjective
<1>6. IsInjective(Tail(q))
  BY <1>1, <1>3, <1>4, <1>5 DEF IsInjective
<1> QED
  BY <1>1, <1>2, <1>4, <1>5, <1>6

LEMMA Appended ==
    ASSUME NEW S, NEW q \in Seq(S), IsInjective(q), NEW x \in S, x \notin Range(q)
    PROVE  /\ Append(q, x) \in Seq(S) /\ IsInjective(Append(q, x))
           /\ Range(Append(q, x)) = Range(q) \cup {x}
<1> DEFINE r == Append(q, x)
<1>1. /\ Len(q) \in Nat /\ r \in Seq(S) /\ Len(r) = Len(q) + 1 /\ r[Len(q) + 1] = x
      /\ \A j \in 1..Len(q) : r[j] = q[j]
  BY AppendProperties, LenProperties
<1>2. Range(q) = {q[j] : j \in 1..Len(q)} /\ Range(r) = {r[j] : j \in 1..Len(r)}
  BY <1>1, RangeEquality
<1>3. DOMAIN q = 1..Len(q) /\ DOMAIN r = 1..Len(r)
  BY <1>1, LenProperties
<1> HIDE DEF r
<1>4. 1..Len(r) = 1..Len(q) \cup {Len(q) + 1}
  BY <1>1
<1>5. \A j \in 1..Len(q) : q[j] # x
  BY <1>2
<1>6. IsInjective(r)
  BY <1>1, <1>3, <1>4, <1>5 DEF IsInjective
<1>7. Range(r) = Range(q) \cup {x}
  BY <1>1, <1>2, <1>4
<1> QED
  BY <1>1, <1>6, <1>7 DEF r

LEMMA TakenOut ==
    ASSUME NEW S, NEW q \in Seq(S), IsInjective(q), NEW i \in 1..Len(q)
    PROVE  LET r == SubSeq(q, 1, i - 1) \o SubSeq(q, i + 1, Len(q))
           IN  IsInjective(r) /\ Range(r) \subseteq Range(q) \ {q[i]}
<1> DEFINE Before == SubSeq(q, 1, i - 1)
           After == SubSeq(q, i + 1, Len(q))
           r == Before \o After
           Old(j) == IF j < i THEN j ELSE j + 1
<1>1. Len(q) \in Nat /\ i \in Nat /\ \A j \in 1..Len(q) : q[j] \in S
  BY ElementOfSeq, LenProperties
<1>2. /\ Before \in Seq(S) /\ Len(Before) = i - 1
      /\ \A j \in 1..i-1 : Before[j] = q[j]
  BY <1>1, SubSeqProperties
<1>3. After \in Seq(S) /\ Len(After) = Len(q) - i
  BY <1>1, SubSeqProperties
<1>4. \A j \in 1..Len(q)-i : After[j] = q[j + i]
  <2>1. \A j \in 1..Len(q)-i : After[j] = q[(i + 1) + j - 1]
    BY <1>1, SubSeqProperties
  <2>2. \A j \in 1..Len(q)-i : (i + 1) + j - 1 = j + i
    BY <1>1
  <2> QED
    BY <2>1, <2>2
<1> HIDE DEF Before, After
<1>5. /\ r \in Seq(S) /\ Len(r) = Len(Before) + Len(After)
      /\ \A j \in 1..Len(Before)+Len(After) :
            r[j] = IF j <= Len(Before) THEN Before[j] ELSE After[j - Len(Before)]
  BY <1>2, <1>3, ConcatProperties
<1> HIDE DEF r
<1>6. Len(r) = Len(q) - 1
  BY <1>1, <1>2, <1>3, <1>5
<1>7. ASSUME NEW j \in 1..Len(r)
      PROVE  r[j] = q[Old(j)] /\ Old(j) \in 1..Len(q) /\ Old(j) # i
  <2>1. CASE j < i
    BY <1>1, <1>2, <1>3, <1>5, <1>6, <2>1
  <2>2. CASE ~(j < i)
    <3>1. j - (i - 1) \in 1..Len(q)-i /\ (j - (i - 1)) + i = j + 1 /\ ~(j <= i - 1)
      BY <1>1, <1>6, <2>2
    <3>2. r[j] = After[j - (i - 1)]
      BY <1>1, <1>2, <1>3, <1>5, <1>6, <3>1
    <3> QED
      BY <1>1, <1>4, <1>6, <2>2, <3>1, <3>2
  <2> QED
    BY <2>1, <2>2
<1>8. \A j, k \in 1..Len(r) : Old(j) = Old(k) => j = k
  BY <1>1, <1>6
<1> HIDE DEF Old
<1>9. DOMAIN q = 1..Len(q) /\ DOMAIN r = 1..Len(r)
  BY <1>5, LenProperties
<1>10. IsInjective(r)
  BY <1>7, <1>8, <1>9 DEF IsInjective
<1>11. Range(q) = {q[j] : j \in 1..Len(q)} /\ Range(r) = {r[j] : j \in 1..Len(r)}
  BY <1>5, RangeEquality
<1>12. Range(r) \subseteq Range(q) \ {q[i]}
  BY <1>7, <1>9, <1>11 DEF IsInjective
<1> QED
  BY <1>10, <1>12 DEF r, Before, After

LEMMA Queued ==
    ASSUME TypeOK
    PROVE  Range(waiters) \subseteq Tasks
  BY RangeOfSeq DEF TypeOK

(* The next in the queue gets the lock, if whoever releases it has it.      *)
LEMMA QueueReleases ==
    ASSUME TypeOK, QueueInv, holder # Nobody, Release,
           \A t \in Range(waiters) : pc'[t] = pc[t]
    PROVE  QueueInv'
<1>1. CASE waiters = <<>>
  BY <1>1, Queued, TaskNames DEF Release, QueueInv
<1>2. CASE waiters # <<>>
  BY <1>2, HeadAndTail DEF Release, QueueInv, TypeOK, Inside
<1> QED
  BY <1>1, <1>2

(* Who asks for the lock has it, or is the last in the queue.               *)
LEMMA QueueAcquires ==
    ASSUME TypeOK, QueueInv, NEW t \in Tasks, pc[t] \notin Inside, Acquire(t),
           NEW label \in TakesLock, Goto(t, label)
    PROVE  QueueInv'
<1>1. pc'[t] = label /\ \A u \in Tasks : u # t => pc'[u] = pc[u]
  BY GotoMoves
<1>2. t # holder /\ t \notin Range(waiters)
  BY TaskNames DEF QueueInv, Inside
<1>3. CASE holder = Nobody
  BY <1>1, <1>2, <1>3, Queued DEF Acquire, QueueInv, Inside
<1>4. CASE holder # Nobody
  <2>1. waiters' = Append(waiters, t) /\ holder' = holder
    BY <1>4 DEF Acquire
  <2>2. waiters \in Seq(Tasks) /\ IsInjective(waiters)
    BY DEF TypeOK, QueueInv
  <2>3. /\ IsInjective(Append(waiters, t))
        /\ Range(Append(waiters, t)) = Range(waiters) \cup {t}
    BY <1>2, <2>2, Appended
  <2> QED
    BY <1>1, <1>2, <1>4, <2>1, <2>3, Queued DEF QueueInv, TypeOK
<1> QED
  BY <1>3, <1>4

(* A step that leaves the lock alone is one of who has it, or of somebody   *)
(* with no business there.                                                  *)
LEMMA QueueStays ==
    ASSUME TypeOK, QueueInv, UNCHANGED lockVars, NEW t \in Tasks, NEW label, Goto(t, label),
           (t = holder /\ label \in Inside) \/ pc[t] \notin Inside
    PROVE  QueueInv'
<1>1. pc'[t] = label /\ \A u \in Tasks : u # t => pc'[u] = pc[u]
  BY GotoMoves
<1>2. t \notin Range(waiters)
  BY DEF QueueInv, Inside
<1> QED
  BY <1>1, <1>2, Queued, TaskNames DEF QueueInv, TypeOK, lockVars

LEMMA ConnectQueues ==
    ASSUME TypeOK, LockDiscipline, Roles, QueueInv, NEW t \in Connectors, ConnectStep(t)
    PROVE  QueueInv'
<1>t. t \in Tasks /\ t \in {Sup, Main} /\ t # Nobody
  BY TaskNames DEF Tasks, Connectors
<1>1. holder = t /\ (t = Main => pc[Sup] = "off")
  BY <1>t DEF ConnectStep, ConnectBegins, ConnectAbandoned, ConnectSucceeds,
     SubscribeSucceeds, ConnectRaises, Enters, At, LockDiscipline, Critical, InConnect, Roles
<1>2. CASE ConnectBegins(t) \/ ConnectSucceeds(t)
  <2>1. UNCHANGED lockVars /\ \E label \in Inside : Goto(t, label)
    BY <1>2 DEF ConnectBegins, ConnectSucceeds, Inside, Critical, InConnect
  <2> QED
    BY <1>t, <1>1, <2>1, QueueStays
<1>3. CASE ConnectAbandoned(t) \/ SubscribeSucceeds(t) \/ ConnectRaises(t)
  <2>1. Release
    BY <1>3 DEF ConnectAbandoned, SubscribeSucceeds, ConnectRaises
  <2>2. \A u \in Tasks : pc'[u] = pc[u] \/ u = t \/ (u = Sup /\ t = Main)
    BY <1>t, <1>3, TaskNames DEF ConnectAbandoned, SubscribeSucceeds, ConnectRaises, ConnectReturns,
       Goto, TypeOK
  <2>3. \A u \in Range(waiters) : u \in Tasks /\ u # t /\ (t = Main => u # Sup)
    BY <1>1, Queued DEF QueueInv, TakesLock
  <2>4. \A u \in Range(waiters) : pc'[u] = pc[u]
    BY <2>2, <2>3
  <2> QED
    BY <1>t, <1>1, <2>1, <2>4, QueueReleases
<1> QED
  BY <1>2, <1>3 DEF ConnectStep

LEMMA TeardownQueues ==
    ASSUME TypeOK, LockDiscipline, QueueInv, NEW t \in Tasks, TeardownStep(t)
    PROVE  QueueInv'
<1>1. holder = t /\ UNCHANGED lockVars /\ \E label \in Inside : Goto(t, label)
  BY DEF TeardownStep, StopReader, ReadingGone, DisconnectBegins, DisconnectEnds, Enters,
         At, LockDiscipline, Critical, InTeardown, Inside
<1> QED
  BY <1>1, QueueStays

(* Those that return from a teardown hold the lock and release it.          *)
LEMMA ReturnQueues ==
    ASSUME TypeOK, LockDiscipline, QueueInv, NEW t \in Tasks, pc[t] = "tdDone", Release,
           NEW label, Goto(t, label)
    PROVE  QueueInv'
<1>1. holder = t /\ t # Nobody
  BY TaskNames DEF LockDiscipline, Critical, InTeardown
<1>2. \A u \in Range(waiters) : pc'[u] = pc[u]
  BY <1>1, Queued, GotoMoves DEF QueueInv
<1> QED
  BY <1>1, <1>2, QueueReleases

LEMMA SupervisorQueues ==
    ASSUME TypeOK, LockDiscipline, QueueInv,
           \/ SupFindsLinkUp \/ SupFindsLinkDown \/ SupTornDown
           \/ SupBackoffEnds \/ SupBackoffSwallows \/ SupCancelled
    PROVE  QueueInv'
<1> USE TaskNames
<1>1. CASE SupFindsLinkUp
  BY <1>1 DEF SupFindsLinkUp, lockVars, QueueInv
<1>2. CASE SupFindsLinkDown
  <2>1. pc[Sup] \notin Inside /\ "tdLock" \in TakesLock
    BY <1>2 DEF SupFindsLinkDown, At, Inside, TakesLock, Critical, InTeardown, InConnect
  <2> QED
    BY <1>2, <2>1, QueueAcquires DEF SupFindsLinkDown
<1>3. CASE SupBackoffEnds \/ SupBackoffSwallows
  <2>1. pc[Sup] \notin Inside /\ UNCHANGED lockVars /\ Goto(Sup, "sleep")
    BY <1>3 DEF SupBackoffEnds, SupBackoffSwallows, At, Inside, TakesLock, Critical,
       InTeardown, InConnect
  <2> QED
    BY <2>1, QueueStays
<1>4. CASE SupTornDown
  <2>1. holder = Sup /\ Goto(Sup, "coLock") /\ "coLock" \in TakesLock
    BY <1>4 DEF SupTornDown, At, LockDiscipline, Critical, InTeardown, TakesLock
  <2>2. CASE waiters = <<>>
    BY <1>4, <2>1, <2>2, QueueStays DEF SupTornDown, Inside
  <2>3. CASE waiters # <<>>
    <3>1. /\ IsInjective(Tail(waiters)) /\ Tail(waiters) \in Seq(Tasks)
          /\ Head(waiters) \in Range(waiters)
          /\ Range(Tail(waiters)) \subseteq Range(waiters) \ {Head(waiters)}
      BY <2>3, HeadAndTail DEF TypeOK, QueueInv
    <3>2. Sup \in Tasks /\ Sup \notin Range(waiters) /\ Sup \notin Range(Tail(waiters))
      BY <2>1, <3>1 DEF QueueInv
    <3> DEFINE rotated == Append(Tail(waiters), Sup)
    <3>3. IsInjective(rotated) /\ Range(rotated) = Range(Tail(waiters)) \cup {Sup}
      BY <3>1, <3>2, Appended
    <3> HIDE DEF rotated
    <3>4. holder' = Head(waiters) /\ waiters' = rotated
      BY <1>4, <2>3 DEF SupTornDown, rotated
    <3>5. pc'[Sup] = "coLock" /\ \A u \in Range(waiters) : pc'[u] = pc[u]
      BY <2>1, <3>2, Queued, GotoMoves
    <3> QED
      BY <2>1, <3>1, <3>2, <3>3, <3>4, <3>5 DEF QueueInv, Inside
  <2> QED
    BY <2>2, <2>3
<1>5. CASE SupCancelled
  <2>1. Goto(Sup, "off")
    BY <1>5 DEF SupCancelled
  <2>2. CASE holder = Sup
    <3>1. Release /\ \A u \in Range(waiters) : pc'[u] = pc[u]
      BY <1>5, <2>1, <2>2, Queued, GotoMoves DEF SupCancelled, QueueInv
    <3> QED
      BY <2>2, <3>1, QueueReleases
  <2>3. CASE holder # Sup /\ pc[Sup] \in TakesLock
    <3>1. PICK i \in 1..Len(waiters) :
             /\ waiters[i] = Sup
             /\ waiters' = SubSeq(waiters, 1, i - 1) \o SubSeq(waiters, i + 1, Len(waiters))
      BY <1>5, <2>3 DEF SupCancelled
    <3> DEFINE others == SubSeq(waiters, 1, i - 1) \o SubSeq(waiters, i + 1, Len(waiters))
    <3>3. waiters \in Seq(Tasks) /\ IsInjective(waiters)
      BY DEF TypeOK, QueueInv
    <3>4. IsInjective(others) /\ Range(others) \subseteq Range(waiters) \ {Sup}
      BY <3>1, <3>3, TakenOut
    <3>5. waiters' = others /\ UNCHANGED holder
      BY <1>5, <2>3, <3>1 DEF SupCancelled
    <3> HIDE DEF others
    <3>2. \A u \in Tasks : u # Sup => pc'[u] = pc[u]
      BY <2>1, GotoMoves
    <3> QED
      BY <2>3, <3>2, <3>4, <3>5, Queued DEF QueueInv, TypeOK
  <2>4. CASE holder # Sup /\ pc[Sup] \notin TakesLock
    <3>1. pc[Sup] \notin Inside /\ UNCHANGED lockVars
      BY <1>5, <2>4 DEF SupCancelled, Inside, LockDiscipline
    <3> QED
      BY <2>1, <3>1, QueueStays
  <2> QED
    BY <2>2, <2>3, <2>4
<1> QED
  BY <1>1, <1>2, <1>3, <1>4, <1>5

LEMMA RequestQueues ==
    ASSUME TypeOK, LockDiscipline, QueueInv,
           \/ SupervisorAwaited \/ StopReturns \/ StartCall \/ StopCall \/ Resume
           \/ \E c \in Callers : YieldCall(c) \/ YieldReturns(c)
    PROVE  QueueInv'
<1> USE TaskNames
<1>1. {"idle", "running", "awaitSup", "stopped"} \cap Inside = {}
  BY DEF Inside, TakesLock, Critical, InTeardown, InConnect
<1>2. CASE SupervisorAwaited \/ StartCall
  BY <1>1, <1>2, QueueAcquires DEF SupervisorAwaited, StartCall, TakesLock
<1>3. CASE StopCall
  BY <1>1, <1>3, QueueStays DEF StopCall
<1>4. CASE StopReturns
  BY <1>4, ReturnQueues DEF StopReturns
<1>5. CASE Resume
  BY <1>5 DEF Resume, lockVars, QueueInv
<1>6. ASSUME NEW c \in Callers, YieldCall(c)
      PROVE  QueueInv'
  BY <1>1, <1>6, QueueAcquires DEF YieldCall, TakesLock
<1>7. ASSUME NEW c \in Callers, YieldReturns(c)
      PROVE  QueueInv'
  BY <1>7, ReturnQueues DEF YieldReturns
<1> QED
  BY <1>2, <1>3, <1>4, <1>5, <1>6, <1>7

LEMMA QueueKept == Spec => []QueueInv
<1>1. Init => QueueInv
  BY DEF Init, QueueInv, Range, IsInjective
<1>2. TypeOK /\ LockDiscipline /\ Roles /\ QueueInv /\ [Next]_vars => QueueInv'
  <2> SUFFICES ASSUME TypeOK, LockDiscipline, Roles, QueueInv, [Next]_vars
               PROVE  QueueInv'
    OBVIOUS
  <2>1. CASE Environment \/ UNCHANGED vars
    BY <2>1 DEF Environment, YieldElapses, ReaderReads, LinkDrops, SlotLapses, AppConnects,
       AppDisconnects, AdapterPowersOn, vars, lockVars, QueueInv
  <2>2. CASE Next
    BY <2>1, <2>2, StepCases, ConnectQueues, TeardownQueues, SupervisorQueues, RequestQueues
  <2> QED
    BY <2>1, <2>2
<1> QED
  BY <1>1, <1>2, TypeCorrect, LockIsHeld, RolesKept, PTL DEF Spec

(* Nobody takes a link, or reports one, behind a stop() that has returned.  *)
StoppedInv == pc[Main] = "stopped" => link = "stopped" /\ client = "none"

LEMMA StoppedKept == Spec => []StoppedInv
<1>1. Init => StoppedInv
  BY TaskNames DEF Init, StoppedInv
<1>2. TypeOK /\ Roles /\ HonourInv /\ StoppedInv /\ [Next]_vars => StoppedInv'
  <2> SUFFICES ASSUME TypeOK, Roles, HonourInv, StoppedInv, [Next]_vars, pc'[Main] = "stopped"
               PROVE  link' = "stopped" /\ client' = "none"
    BY DEF StoppedInv
  <2> USE TaskNames
  <2>1. CASE pc[Main] = "stopped"
    <3>1. pc[Sup] = "off" /\ ~cancelled /\ \A c \in Callers : pc[c] = "idle"
      BY <2>1 DEF Roles, YieldsReturned
    <3>2. \A t \in Tasks : pc[t] \in {"off", "idle", "stopped"}
      BY <2>1, <3>1 DEF Tasks, Connectors
    <3>3. UNCHANGED link /\ client' \in {client, "none"}
      <4>1. ~\E t \in Connectors : ConnectStep(t)
        BY <3>2 DEF ConnectStep, ConnectBegins, ConnectAbandoned, ConnectSucceeds,
           SubscribeSucceeds, ConnectRaises, Enters, At, Tasks
      <4>2. ~\E t \in Tasks : TeardownStep(t)
        BY <3>2 DEF TeardownStep, StopReader, ReadingGone, DisconnectBegins, DisconnectEnds,
           Enters, At
      <4>3. ~(SupFindsLinkUp \/ SupFindsLinkDown \/ SupTornDown \/ SupBackoffEnds
                \/ SupBackoffSwallows \/ SupCancelled)
        BY <3>1 DEF SupFindsLinkUp, SupFindsLinkDown, SupTornDown, SupBackoffEnds,
           SupBackoffSwallows, SupCancelled, At
      <4>4. ~\E c \in Callers : YieldCall(c) \/ YieldReturns(c)
        BY <2>1, <3>1 DEF YieldCall, YieldReturns
      <4>5. ~(SupervisorAwaited \/ StopReturns \/ StartCall \/ Resume)
        BY <2>1, GotoMoves DEF SupervisorAwaited, StopReturns, StartCall, Resume
      <4>6. CASE StopCall \/ Environment
        BY <4>6, <2>1 DEF StoppedInv, StopCall, Environment, YieldElapses, ReaderReads, LinkDrops,
           SlotLapses, AppConnects, AppDisconnects, AdapterPowersOn, linkVars, bleVars
      <4>7. CASE UNCHANGED vars
        BY <4>7 DEF vars, linkVars, bleVars
      <4> QED
        BY <4>1, <4>2, <4>3, <4>4, <4>5, <4>6, <4>7, StepCases
    <3> QED
      BY <2>1, <3>3 DEF StoppedInv
  <2>2. CASE pc[Main] # "stopped"
    <3>1. StopReturns
      <4>1. ASSUME NEW t \in Tasks, NEW label, label # "stopped", Goto(t, label)
            PROVE  FALSE
        BY <2>2, <4>1, GotoMoves
      <4>2. ASSUME UNCHANGED pc
            PROVE  FALSE
        BY <2>2, <4>2
      <4>3. ~\E t \in Connectors : ConnectStep(t)
        BY <4>1, <2>2 DEF ConnectStep, ConnectBegins, ConnectAbandoned, ConnectSucceeds,
           SubscribeSucceeds, ConnectRaises, ConnectReturns, Goto, TypeOK
      <4>4. ~\E t \in Tasks : TeardownStep(t)
        BY <4>1 DEF TeardownStep, StopReader, ReadingGone, DisconnectBegins, DisconnectEnds
      <4>5. ~(SupFindsLinkUp \/ Resume \/ Environment \/ UNCHANGED vars)
        BY <4>2 DEF SupFindsLinkUp, Resume, Environment, YieldElapses, ReaderReads, LinkDrops,
           SlotLapses, AppConnects, AppDisconnects, AdapterPowersOn, vars
      <4>6. ~(SupFindsLinkDown \/ SupTornDown \/ SupBackoffEnds \/ SupBackoffSwallows
                \/ SupCancelled)
        BY <4>1 DEF SupFindsLinkDown, SupTornDown, SupBackoffEnds, SupBackoffSwallows,
           SupCancelled
      <4>7. ~(SupervisorAwaited \/ StartCall \/ StopCall)
        BY <4>1 DEF SupervisorAwaited, StartCall, StopCall
      <4>8. ~\E c \in Callers : YieldCall(c) \/ YieldReturns(c)
        BY <4>1 DEF YieldCall, YieldReturns
      <4> QED
        BY <4>3, <4>4, <4>5, <4>6, <4>7, <4>8, StepCases
    <3> QED
      BY <3>1 DEF StopReturns, HonourInv, ClientForgotten, bleVars
  <2> QED
    BY <2>1, <2>2
<1> QED
  BY <1>1, <1>2, TypeCorrect, RolesKept, HonourKept, PTL DEF Spec

(* A stop() that returns leaves nothing behind, whatever it interrupted: no *)
(* supervisor, client or reader, nobody with the lock or in its queue.      *)
THEOREM StopLeavesNothing == Spec => []StopReleases
<1>1. TypeOK /\ Roles /\ ReaderInv /\ QueueInv /\ StoppedInv => StopReleases
  <2> SUFFICES ASSUME TypeOK, Roles, ReaderInv, QueueInv, StoppedInv, pc[Main] = "stopped"
               PROVE  /\ pc[Sup] = "off" /\ ~cancelled
                      /\ link = "stopped" /\ client = "none" /\ ~reader /\ ~reading
                      /\ holder = Nobody /\ waiters = <<>>
    BY DEF StopReleases
  <2>1. pc[Sup] = "off" /\ ~cancelled /\ \A c \in Callers : pc[c] = "idle"
    BY DEF Roles, YieldsReturned
  <2>2. \A t \in Tasks : pc[t] \in {"off", "idle", "stopped"}
    BY <2>1 DEF Tasks, Connectors
  <2>3. ~reader /\ ~reading
    BY <2>2 DEF ReaderInv, WithoutReader, Connectors
  <2>4. holder = Nobody
    BY <2>2 DEF QueueInv, TypeOK, Inside, TakesLock, Critical, InTeardown, InConnect
  <2>5. Range(waiters) = {}
    BY <2>2, Queued DEF QueueInv, TakesLock
  <2>6. waiters = <<>>
    BY <2>5, HeadAndTail DEF TypeOK, QueueInv
  <2> QED
    BY <2>1, <2>3, <2>4, <2>6 DEF StoppedInv
<1> QED
  BY <1>1, TypeCorrect, RolesKept, ReadersKept, QueueKept, StoppedKept, PTL

-----------------------------------------------------------------------------
(* The lease                                                                *)

(* What the mapping needs to know of the reachable states.                  *)

(* The supervisor exists only while start() has returned and stop() waits.  *)
SupervisorScope == pc[Main] \notin {"running", "awaitSup"} => pc[Sup] = "off"

(* Yields are called only while the daemon runs, and returned before stop(). *)
YieldScope == pc[Main] # "running" => YieldsReturned

(* The supervisor tears down only what is already lost.                     *)
TearsDownLost ==
    /\ pc[Sup] \in {"tdLock"} \cup InTeardown => client # "up"
    /\ pc[Sup] \in InTeardown => slot # "ours"

(* The slot is ours through a client that is up, or one being disconnected. *)
SlotAccounted ==
    (slot = "ours" /\ client # "up") => \E t \in Tasks : pc[t] = "tdClose"

(* A teardown that has come to its end has given the slot up.               *)
SlotGivenUp == \A t \in Tasks : pc[t] = "tdDone" => slot # "ours"

SlotInv == SupervisorScope /\ YieldScope /\ TearsDownLost /\ SlotAccounted /\ SlotGivenUp

-----------------------------------------------------------------------------
LEMMA ScopeStep ==
    ASSUME TypeOK, SupervisorScope, YieldScope, Next
    PROVE  SupervisorScope' /\ YieldScope'
<1> USE TaskNames DEF SupervisorScope, YieldScope, YieldsReturned, TypeOK
<1>1. ASSUME NEW t \in Connectors, ConnectStep(t)
      PROVE  SupervisorScope' /\ YieldScope'
  BY <1>1 DEF ConnectStep, ConnectBegins, ConnectAbandoned, ConnectSucceeds,
              SubscribeSucceeds, ConnectRaises, ConnectReturns, Enters, At, Goto, Connectors
<1>2. ASSUME NEW t \in Tasks, TeardownStep(t)
      PROVE  SupervisorScope' /\ YieldScope'
  <2>1. /\ \E label \in InTeardown : Goto(t, label)
        /\ pc[t] \in TakesLock \cup InTeardown
    BY <1>2 DEF TeardownStep, StopReader, ReadingGone, DisconnectBegins, DisconnectEnds,
                Enters, At, TakesLock, InTeardown
  <2> QED
    BY <2>1 DEF Goto, TakesLock, InTeardown, Tasks, Connectors
<1>3. CASE SupFindsLinkUp \/ SupFindsLinkDown \/ SupTornDown \/ SupBackoffEnds
             \/ SupBackoffSwallows \/ SupCancelled
  BY <1>3 DEF SupFindsLinkUp, SupFindsLinkDown, SupTornDown, SupBackoffEnds,
         SupBackoffSwallows, SupCancelled,
              At, Goto
<1>4. CASE SupervisorAwaited \/ StopReturns \/ StartCall \/ StopCall \/ Resume
  BY <1>4 DEF SupervisorAwaited, StopReturns, StartCall, StopCall, Resume, Goto
<1>5. ASSUME NEW c \in Callers, YieldCall(c) \/ YieldReturns(c)
      PROVE  SupervisorScope' /\ YieldScope'
  BY <1>5 DEF YieldCall, YieldReturns, Goto
<1>6. CASE Environment
  BY <1>6 DEF Environment, YieldElapses, ReaderReads, LinkDrops, SlotLapses, AppConnects,
              AppDisconnects, AdapterPowersOn
<1> QED
  BY <1>1, <1>2, <1>3, <1>4, <1>5, <1>6, StepCases

LEMMA ConnectSlot ==
    ASSUME TypeOK, LockDiscipline, SlotInv, NEW t \in Connectors, ConnectStep(t)
    PROVE  TearsDownLost' /\ SlotAccounted' /\ SlotGivenUp'
<1> t \in Tasks
  BY DEF Tasks
<1> USE TaskNames DEF SlotInv, TearsDownLost, SlotAccounted, SlotGivenUp, TypeOK, InTeardown
<1>1. CASE ConnectBegins(t)
  BY <1>1 DEF ConnectBegins, Enters, At, Goto, bleVars
<1>2. CASE ConnectAbandoned(t)
  BY <1>2 DEF ConnectAbandoned, ConnectReturns, Enters, At, bleVars, SupervisorScope,
              Connectors
<1>3. CASE ConnectSucceeds(t)
  BY <1>3 DEF ConnectSucceeds, At, Goto, SupervisorScope, LockDiscipline, Critical,
              InConnect, Connectors
<1>4. CASE SubscribeSucceeds(t)
  BY <1>4 DEF SubscribeSucceeds, ConnectReturns, At, bleVars, SupervisorScope, Connectors
<1>5. CASE ConnectRaises(t)
  BY <1>5 DEF ConnectRaises, At, Goto, bleVars
<1> QED
  BY <1>1, <1>2, <1>3, <1>4, <1>5 DEF ConnectStep

LEMMA TeardownSlot ==
    ASSUME DisconnectFails = FALSE,
           TypeOK, LockDiscipline, SlotInv, NEW t \in Tasks, TeardownStep(t)
    PROVE  TearsDownLost' /\ SlotAccounted' /\ SlotGivenUp'
<1> USE TaskNames
    DEF SlotInv, TearsDownLost, SlotAccounted, SlotGivenUp, TypeOK, InTeardown,
        LockDiscipline, Critical
<1>1. CASE StopReader(t)
  BY <1>1 DEF StopReader, Enters, At, Goto, bleVars
<1>2. CASE ReadingGone(t)
  BY <1>2 DEF ReadingGone, Goto, bleVars
<1>3. CASE DisconnectBegins(t)
  BY <1>3 DEF DisconnectBegins, Enters, At, Goto
<1>4. CASE DisconnectEnds(t)
  BY <1>4 DEF DisconnectEnds, At, Goto
<1> QED
  BY <1>1, <1>2, <1>3, <1>4 DEF TeardownStep

LEMMA OtherSlot ==
    ASSUME TypeOK, LockDiscipline, SlotInv,
           \/ SupFindsLinkUp \/ SupFindsLinkDown \/ SupTornDown
           \/ SupBackoffEnds \/ SupBackoffSwallows \/ SupCancelled
           \/ SupervisorAwaited \/ StopReturns \/ StartCall \/ StopCall \/ Resume
           \/ \E c \in Callers : YieldCall(c) \/ YieldReturns(c)
           \/ Environment
    PROVE  TearsDownLost' /\ SlotAccounted' /\ SlotGivenUp'
<1> USE TaskNames DEF SlotInv, TearsDownLost, SlotAccounted, SlotGivenUp, TypeOK, InTeardown
<1>1. CASE SupFindsLinkUp \/ Resume
  BY <1>1 DEF SupFindsLinkUp, Resume, bleVars
<1>2. CASE SupFindsLinkDown \/ SupTornDown \/ SupBackoffEnds \/ SupBackoffSwallows
  BY <1>2 DEF SupFindsLinkDown, SupTornDown, SupBackoffEnds, SupBackoffSwallows, At, Goto, bleVars
<1>3. CASE SupCancelled
  BY <1>3 DEF SupCancelled, Goto, bleVars
<1>4. CASE SupervisorAwaited \/ StopReturns \/ StartCall \/ StopCall
  BY <1>4 DEF SupervisorAwaited, StopReturns, StartCall, StopCall, Goto, bleVars
<1>5. ASSUME NEW c \in Callers, YieldCall(c) \/ YieldReturns(c)
      PROVE  TearsDownLost' /\ SlotAccounted' /\ SlotGivenUp'
  BY <1>5 DEF YieldCall, YieldReturns, Goto, bleVars
<1>6. CASE Environment
  BY <1>6 DEF Environment, YieldElapses, ReaderReads, LinkDrops, SlotLapses, AppConnects,
              AppDisconnects, AdapterPowersOn, bleVars
<1> QED
  BY <1>1, <1>2, <1>3, <1>4, <1>5, <1>6

LEMMA SlotInvariant ==
    ASSUME DisconnectFails = FALSE
    PROVE  Spec => []SlotInv
<1>1. Init => SlotInv
  BY TaskNames
     DEF Init, SlotInv, SupervisorScope, YieldScope, YieldsReturned, TearsDownLost,
         SlotAccounted, SlotGivenUp, InTeardown
<1>2. TypeOK /\ LockDiscipline /\ SlotInv /\ [Next]_vars => SlotInv'
  <2> SUFFICES ASSUME TypeOK, LockDiscipline, SlotInv, [Next]_vars
               PROVE  SlotInv'
    OBVIOUS
  <2>1. CASE Next
    <3>1. SupervisorScope' /\ YieldScope'
      BY <2>1, ScopeStep DEF SlotInv
    <3>2. TearsDownLost' /\ SlotAccounted' /\ SlotGivenUp'
      BY <2>1, StepCases, ConnectSlot, TeardownSlot, OtherSlot
    <3> QED
      BY <3>1, <3>2 DEF SlotInv
  <2>2. CASE UNCHANGED vars
    BY <2>2 DEF vars, bleVars, SlotInv, SupervisorScope, YieldScope, YieldsReturned,
                TearsDownLost, SlotAccounted, SlotGivenUp
  <2> QED
    BY <2>1, <2>2
<1> QED
  BY <1>1, <1>2, TypeCorrect, LockIsHeld, PTL DEF Spec

-----------------------------------------------------------------------------
(* The step simulation: a step of Session is a step of Lease or changes     *)
(* neither Hold nor Promise.                                                *)

LEMMA ConnectRefines ==
    ASSUME TypeOK, LockDiscipline, SlotInv, NEW t \in Connectors, ConnectStep(t)
    PROVE  [Contract!Next]_Contract!vars
<1> t \in Tasks
  BY DEF Tasks
<1> USE TaskNames
<1>1. Promise' = Promise
  <2>1. UNCHANGED yieldUntil /\ (YieldsReturned <=> YieldsReturned')
    BY DEF ConnectStep, ConnectBegins, ConnectAbandoned, ConnectSucceeds,
           SubscribeSucceeds, ConnectRaises, ConnectReturns, Goto, linkVars,
           YieldsReturned, TypeOK, Connectors
  <2>2. pc[Main] # "stopped" /\ pc'[Main] # "stopped"
    BY DEF ConnectStep, ConnectBegins, ConnectAbandoned, ConnectSucceeds,
           SubscribeSucceeds, ConnectRaises, ConnectReturns, Enters, At, Goto, TypeOK,
           Connectors, SlotInv, SupervisorScope
  <2> QED
    BY <2>1, <2>2 DEF Promise
<1>2. \A u \in Connectors : pc[u] = "connecting" => u = t
  BY DEF ConnectStep, ConnectBegins, ConnectAbandoned, ConnectSucceeds,
         SubscribeSucceeds, ConnectRaises, Enters, At, LockDiscipline, Critical, InConnect,
         Tasks
<1>3. CASE ConnectBegins(t)
  <2>1. Promise = "none"
    BY <1>3 DEF ConnectBegins, MayConnect, Enters, At, Promise, SlotInv, SupervisorScope,
                Connectors
  <2>2. Hold' = "taking"
    BY <1>3 DEF ConnectBegins, Goto, Hold, TypeOK
  <2> QED
    BY <1>1, <2>1, <2>2 DEF Contract!Next, Contract!Begin
<1>4. CASE ConnectAbandoned(t) \/ SubscribeSucceeds(t)
  <2>1. Hold' = Hold
    BY <1>2, <1>4 DEF ConnectAbandoned, SubscribeSucceeds, ConnectReturns, Enters, At, Hold,
                      bleVars, TypeOK, Connectors
  <2> QED
    BY <1>1, <2>1 DEF Contract!vars
<1>5. CASE ConnectSucceeds(t)
  <2>1. Hold = "taking" /\ Hold' = "held"
    BY <1>2, <1>5 DEF ConnectSucceeds, At, Goto, Hold, TypeOK
  <2> QED
    BY <1>1, <2>1 DEF Contract!Next, Contract!Conclude
<1>6. CASE ConnectRaises(t)
  <2>1. \A u \in Connectors : pc'[u] # "connecting"
    BY <1>2, <1>6 DEF ConnectRaises, Goto, TypeOK, Connectors
  <2>2. CASE pc[t] = "connecting"
    <3>1. Hold = "taking" /\ Hold' \in {"held", "idle"}
      BY <2>1, <2>2 DEF Hold
    <3> QED
      BY <1>1, <3>1 DEF Contract!Next, Contract!Conclude
  <2>3. CASE pc[t] # "connecting"
    <3>1. Hold' = Hold
      BY <1>2, <1>6, <2>1, <2>3 DEF ConnectRaises, Hold, bleVars
    <3> QED
      BY <1>1, <3>1 DEF Contract!vars
  <2> QED
    BY <2>2, <2>3
<1> QED
  BY <1>3, <1>4, <1>5, <1>6 DEF ConnectStep

LEMMA TeardownRefines ==
    ASSUME TypeOK, LockDiscipline, SlotInv, NEW t \in Tasks, TeardownStep(t)
    PROVE  [Contract!Next]_Contract!vars
<1> USE TaskNames
<1>1. /\ \E label \in InTeardown : Goto(t, label)
      /\ pc[t] \in TakesLock \cup InTeardown /\ holder = t
      /\ UNCHANGED yieldUntil
  BY DEF TeardownStep, StopReader, ReadingGone, DisconnectBegins, DisconnectEnds, Enters,
         At, TakesLock, InTeardown, LockDiscipline, Critical, linkVars
<1>2. Promise' = Promise
  BY <1>1 DEF Goto, Promise, YieldsReturned, TypeOK, TakesLock, InTeardown, Tasks, Connectors
<1>3. \A u \in Connectors : pc[u] # "connecting" /\ pc'[u] # "connecting"
  BY <1>1 DEF Goto, LockDiscipline, TypeOK, Critical, TakesLock, InTeardown, InConnect,
              Tasks, Connectors
<1>4. slot' = slot \/ (slot = "ours" /\ slot' = "free")
  BY DEF TeardownStep, StopReader, ReadingGone, DisconnectBegins, DisconnectEnds, bleVars
<1>5. Hold' = Hold \/ (Hold = "held" /\ Hold' = "idle")
  BY <1>3, <1>4 DEF Hold
<1> QED
  BY <1>2, <1>5 DEF Contract!Next, Contract!Give, Contract!vars

LEMMA SupervisorRefines ==
    ASSUME TypeOK, LockDiscipline, SlotInv,
           SupFindsLinkUp \/ SupFindsLinkDown \/ SupTornDown \/ SupBackoffEnds
             \/ SupBackoffSwallows \/ SupCancelled
    PROVE  [Contract!Next]_Contract!vars
<1> USE TaskNames
<1>1. /\ slot' = slot
      /\ \A u \in Tasks : u # Sup => pc'[u] = pc[u]
      /\ (yieldUntil = "running") <=> (yieldUntil' = "running")
  BY DEF SupFindsLinkUp, SupFindsLinkDown, SupTornDown, SupBackoffEnds,
         SupBackoffSwallows, SupCancelled,
         YieldOver, Goto, linkVars, bleVars, TypeOK
<1>2. Promise' = Promise
  BY <1>1 DEF Promise, YieldsReturned
<1>3. pc'[Sup] # "connecting"
  BY DEF SupFindsLinkUp, SupFindsLinkDown, SupTornDown, SupBackoffEnds,
         SupBackoffSwallows, SupCancelled, At,
         Goto, TypeOK
<1>4. pc[Sup] = "connecting" => pc[Main] # "connecting"
  BY DEF LockDiscipline, Critical, InConnect
<1>5. Hold' = Hold \/ (Hold = "taking" /\ Hold' \in {"held", "idle"})
  BY <1>1, <1>3, <1>4 DEF Hold, Connectors
<1> QED
  BY <1>2, <1>5 DEF Contract!Next, Contract!Conclude, Contract!vars

LEMMA RequestRefines ==
    ASSUME TypeOK, LockDiscipline, SlotInv,
           \/ SupervisorAwaited \/ StopReturns \/ StartCall \/ StopCall \/ Resume
           \/ \E c \in Callers : YieldCall(c) \/ YieldReturns(c)
    PROVE  [Contract!Next]_Contract!vars
<1> USE TaskNames
<1>1. slot' = slot
  BY DEF SupervisorAwaited, StopReturns, StartCall, StopCall, Resume, YieldCall,
         YieldReturns, bleVars
<1>2. \A u \in Connectors : pc[u] = "connecting" <=> pc'[u] = "connecting"
  BY DEF SupervisorAwaited, StopReturns, StartCall, StopCall, Resume, YieldCall,
         YieldReturns, Goto, TypeOK, Connectors
<1>3. Hold' = Hold
  BY <1>1, <1>2 DEF Hold
<1>4. CASE SupervisorAwaited \/ StartCall \/ StopCall \/ Resume
  <2>1. UNCHANGED yieldUntil \/ yieldUntil' = "none"
    BY <1>4 DEF SupervisorAwaited, StartCall, StopCall, Resume, linkVars
  <2>2. /\ YieldsReturned <=> YieldsReturned'
        /\ pc'[Main] # "stopped"
    BY <1>4 DEF SupervisorAwaited, StartCall, StopCall, Resume, Goto, YieldsReturned, TypeOK
  <2>3. Promise' = Promise \/ Promise' = "none"
    BY <2>1, <2>2 DEF Promise
  <2> QED
    BY <1>3, <2>3 DEF Contract!Next, Contract!Lift, Contract!vars
<1>5. CASE StopReturns
  <2>1. \A u \in Connectors : pc[u] # "connecting"
    BY <1>5 DEF StopReturns, LockDiscipline, Critical, InTeardown, InConnect, Tasks
  <2>2. Hold = "idle"
    BY <1>5, <2>1 DEF StopReturns, Hold, SlotInv, SlotGivenUp
  <2>3. Promise' = "kept"
    BY <1>5 DEF StopReturns, Goto, Promise, YieldsReturned, TypeOK, SlotInv, YieldScope
  <2> QED
    BY <1>3, <2>2, <2>3 DEF Contract!Next, Contract!Keep
<1>6. ASSUME NEW c \in Callers, YieldCall(c)
      PROVE  [Contract!Next]_Contract!vars
  <2>1. Promise' = "asked"
    BY <1>6 DEF YieldCall, Goto, Promise, YieldsReturned, TypeOK
  <2> QED
    BY <1>3, <2>1 DEF Contract!Next, Contract!Ask
<1>7. ASSUME NEW c \in Callers, YieldReturns(c)
      PROVE  [Contract!Next]_Contract!vars
  <2>1. \A u \in Connectors : pc[u] # "connecting"
    BY <1>7 DEF YieldReturns, LockDiscipline, Critical, InTeardown, InConnect, Tasks
  <2>2. Hold = "idle"
    BY <1>7, <2>1 DEF YieldReturns, Hold, SlotInv, SlotGivenUp
  <2>3. ~YieldsReturned
    BY <1>7 DEF YieldReturns, YieldsReturned
  <2>4. yieldUntil' = yieldUntil /\ pc'[Main] = pc[Main]
    BY <1>7 DEF YieldReturns, Goto, TypeOK
  <2>5. Promise' = Promise \/ Promise' = "kept"
    BY <2>3, <2>4 DEF Promise
  <2> QED
    BY <1>3, <2>2, <2>5 DEF Contract!Next, Contract!Keep, Contract!vars
<1> QED
  BY <1>4, <1>5, <1>6, <1>7

LEMMA EnvironmentRefines ==
    ASSUME TypeOK, SlotInv, Environment
    PROVE  [Contract!Next]_Contract!vars
<1> USE TaskNames
<1>1. UNCHANGED pc
  BY DEF Environment, YieldElapses, ReaderReads, LinkDrops, SlotLapses, AppConnects,
         AppDisconnects, AdapterPowersOn
<1>2. CASE YieldElapses
  <2>1. Hold' = Hold
    BY <1>1, <1>2 DEF YieldElapses, Hold, bleVars
  <2>2. Promise' = Promise \/ Promise' = "none"
    BY <1>1, <1>2 DEF YieldElapses, Promise, YieldsReturned, SlotInv, YieldScope
  <2> QED
    BY <2>1, <2>2 DEF Contract!Next, Contract!Lift, Contract!vars
<1>3. CASE ~YieldElapses
  <2>1. yieldUntil' = yieldUntil /\ (slot' = "ours" => slot = "ours")
    BY <1>3 DEF Environment, ReaderReads, LinkDrops, SlotLapses, AppConnects,
                AppDisconnects, AdapterPowersOn, linkVars, bleVars
  <2>2. Promise' = Promise
    BY <1>1, <2>1 DEF Promise, YieldsReturned
  <2>3. Hold' = Hold \/ (Hold = "held" /\ Hold' = "idle")
    BY <1>1, <2>1 DEF Hold
  <2> QED
    BY <2>2, <2>3 DEF Contract!Next, Contract!Give, Contract!vars
<1> QED
  BY <1>2, <1>3

(* Every behaviour of the session is one the lease allows: nothing begins   *)
(* to take the slot that has been asked for, and a yield or a stop that has *)
(* returned has given it up.                                                *)
THEOREM SessionImplementsLease ==
    ASSUME DisconnectFails = FALSE
    PROVE  Spec => ImplementsLease
<1>1. Init => Contract!Init
  BY TaskNames DEF Init, Contract!Init, Hold, Promise, Connectors, Tasks
<1>2. TypeOK /\ LockDiscipline /\ SlotInv /\ [Next]_vars => [Contract!Next]_Contract!vars
  <2> SUFFICES ASSUME TypeOK, LockDiscipline, SlotInv, [Next]_vars
               PROVE  [Contract!Next]_Contract!vars
    OBVIOUS
  <2>1. CASE Next
    BY <2>1, StepCases, ConnectRefines, TeardownRefines, SupervisorRefines,
       RequestRefines, EnvironmentRefines
  <2>2. CASE UNCHANGED vars
    <3>1. Hold' = Hold /\ Promise' = Promise
      BY <2>2 DEF vars, linkVars, bleVars, Hold, Promise, YieldsReturned
    <3> QED
      BY <3>1 DEF Contract!vars
  <2> QED
    BY <2>1, <2>2
<1> QED
  BY <1>1, <1>2, TypeCorrect, LockIsHeld, SlotInvariant, PTL
     DEF Spec, ImplementsLease, Contract!Spec

(* While a yield runs and every yield_link() call has returned, the slot is *)
(* not ours: what the lease promises, read through the mapping.             *)
THEOREM YieldGivesTheSlot ==
    ASSUME DisconnectFails = FALSE
    PROVE  Spec => []YieldFreesSlot
<1>1. Contract!Init => Contract!KeptMeansFree
  BY DEF Contract!Init, Contract!KeptMeansFree
<1>2. Contract!KeptMeansFree /\ [Contract!Next]_Contract!vars => Contract!KeptMeansFree'
  BY DEF Contract!KeptMeansFree, Contract!Next, Contract!Begin, Contract!Conclude,
         Contract!Give, Contract!Ask, Contract!Keep, Contract!Lift, Contract!vars
<1>3. Contract!KeptMeansFree => YieldFreesSlot
  BY DEF Contract!KeptMeansFree, YieldFreesSlot, Hold, Promise
<1> QED
  BY <1>1, <1>2, <1>3, SessionImplementsLease, PTL DEF ImplementsLease, Contract!Spec
=============================================================================
