-------------------------- MODULE StatusReaderProofs --------------------------
(***************************************************************************)
(* Proofs about the status reader in both of its modes, for any number of  *)
(* packets and of commands: the poll loop answers every poke, a reader     *)
(* keeps what Sampling promises, and split packets are published in order. *)
(***************************************************************************)
EXTENDS StatusReader, TLAPS

(* PokeIsAnswered needs no more than the types: whatever clears the event   *)
(* of a loop that is on calls a read in the same step.                      *)
PokeInv == poke \in BOOLEAN /\ since \in BOOLEAN /\ PokeIsAnswered

(* The end of a read, returned or raised, is where a poke could be lost.    *)
LEMMA AfterReadAnswers ==
  ASSUME PokeInv, loop = "reading", AfterRead
  PROVE  PokeInv'
  BY DEF PokeInv, PokeIsAnswered, AfterRead

LEMMA PokeStep ==
  ASSUME PokeInv, Next
  PROVE  PokeInv'
<1>1. CASE Start
  BY <1>1 DEF Start, PokeInv, PokeIsAnswered
<1>2. CASE Stop
  BY <1>2 DEF Stop, pokeVars, PokeInv, PokeIsAnswered
<1>3. CASE LoopStep
  <2>1. CASE ReadReturns
    BY <2>1, AfterReadAnswers DEF ReadReturns, Reading
  <2>2. CASE ReadRaises
    BY <2>2, AfterReadAnswers DEF ReadRaises, Reading
  <2>3. CASE WaitEnds
    BY <2>3 DEF WaitEnds, PokeInv, PokeIsAnswered
  <2>4. CASE WaitSwallows
    BY <2>4 DEF WaitSwallows, PokeInv, PokeIsAnswered
  <2>5. CASE Cancelled
    BY <2>5 DEF Cancelled, pokeVars, PokeInv, PokeIsAnswered
  <2> QED BY <1>3, <2>1, <2>2, <2>3, <2>4, <2>5 DEF LoopStep
<1>4. ASSUME NEW w \in Writers, WriteCall(w) \/ WriteEnds(w) \/ QuietPoke(w) \/ VerifyEnds(w)
      PROVE  PokeInv'
  <2>1. CASE WriteCall(w)
    BY <2>1 DEF WriteCall, readerVars, pokeVars, PokeInv, PokeIsAnswered
  <2>2. CASE WriteReturns(w)
    BY <2>2 DEF WriteReturns, SetPoke, readerVars, PokeInv, PokeIsAnswered
  <2>3. CASE WriteRaises(w)
    BY <2>3 DEF WriteRaises, readerVars, pokeVars, PokeInv, PokeIsAnswered
  <2>4. CASE QuietPoke(w)
    BY <2>4 DEF QuietPoke, SetPoke, readerVars, PokeInv, PokeIsAnswered
  <2>5. CASE VerifyEnds(w)
    BY <2>5 DEF VerifyEnds, readerVars, pokeVars, PokeInv, PokeIsAnswered
  <2> QED BY <1>4, <2>1, <2>2, <2>3, <2>4, <2>5 DEF WriteEnds
<1> QED BY <1>1, <1>2, <1>3, <1>4 DEF Next

(* Whatever commands poke, and whenever, the loop owes a read exactly when  *)
(* it was poked since it called its last.                                   *)
THEOREM PokesAreAnswered == ReaderSpec => []PokeIsAnswered
<1>1. ReaderInit => PokeInv
  BY DEF ReaderInit, Init, PokeInv, PokeIsAnswered
<1>2. PokeInv /\ [ReaderNext]_bothVars => PokeInv'
  <2>1. CASE UNCHANGED polledVars
    BY <2>1 DEF polledVars, PokeInv, PokeIsAnswered
  <2> QED
    BY <2>1, PokeStep DEF ReaderNext, bothVars
<1>3. PokeInv => PokeIsAnswered
  BY DEF PokeInv
<1> QED
  BY <1>1, <1>2, <1>3, PTL DEF ReaderSpec

-----------------------------------------------------------------------------
(* The notified mode.  A read that began while the reader ran is the one    *)
(* _completion refers to while it does, and the one stop() awaits after;    *)
(* only that one is ever cancelled.                                         *)

NotifiedInv ==
    /\ at \in {"off", "starting", "running", "stopping", "unsubscribing"}
    /\ subscribed \in BOOLEAN /\ (subscribed => up)
    /\ task \in [Notified!Packets -> Notified!TaskState]
    /\ sent \in Nat /\ strays \subseteq Notified!Packets
    /\ \A p \in Notified!Alive \cup strays : p <= sent
    /\ \A p \in Notified!Alive \ strays :
          \/ at = "running" /\ completion = p
          \/ at = "stopping" /\ awaited = p
    /\ \A p \in Notified!Packets :
          task[p] \in {"cancelled", "gotCancelled"} => at = "stopping" /\ awaited = p

(* A poll task that is alive without a running reader has been cancelled,   *)
(* or has lost its cancellation.                                            *)
PolledInv ==
    /\ running \in BOOLEAN /\ stopping \in BOOLEAN /\ lost \in BOOLEAN
    /\ loop \in {"off", "reading", "waiting"}
    /\ running => loop # "off" /\ ~stopping /\ ~lost
    /\ stopping => loop # "off" /\ ~lost
    /\ loop # "off" <=> running \/ stopping \/ lost

ModeInv ==
    /\ polling \in BOOLEAN /\ NotifiedInv
    /\ IF polling THEN PolledInv ELSE lost = FALSE

(* What Sampling is told about the two modes.                               *)
Source == IF polling THEN running \/ lost ELSE subscribed
Working == IF polling THEN loop = "reading" /\ ~lost ELSE Notified!Alive \ strays # {}
Stray == IF polling THEN loop = "reading" /\ lost ELSE Notified!Alive \cap strays # {}

Sampled == [Promise!Next]_Promise!vars

USE PacketsAssumption

LEMMA AliveTasks ==
    Notified!Alive = {p \in Notified!Packets : task[p] \notin {"none", "done"}}
  BY DEF Notified!Alive

(* A step that touches no task and no stray is seen by what it does to the  *)
(* service and to the source.                                               *)
LEMMA ReadsUntouched ==
    ASSUME ~polling, UNCHANGED <<polling, task, strays>>
    PROVE  UNCHANGED <<Working, Stray, Notified!Alive>>
  BY DEF Working, Stray, Notified!Alive

(* A notification begins a read of the reader's own, or a stray.            *)
LEMMA NotificationSamples ==
    ASSUME NotifiedInv, ~polling, UNCHANGED <<polling, lost>>, Notified!OnNotify
    PROVE  NotifiedInv' /\ Sampled
<1>1. /\ UNCHANGED <<at, up, subscribed>> /\ subscribed
      /\ sent \in Nat /\ sent' = sent + 1 /\ sent' \in Notified!Packets
  <2>1. UNCHANGED <<at, up, subscribed>> /\ subscribed /\ sent < MaxPackets
    BY DEF Notified!OnNotify, Notified!linkVars, NotifiedInv
  <2>2. sent' = sent + 1
    BY DEF Notified!OnNotify, Notified!NotifyWhole, Notified!NotifyFirstPart
  <2> QED
    BY <2>1, <2>2 DEF NotifiedInv, Notified!Packets
<1>2. CASE UNCHANGED <<completion, awaited, task, strays>>
  <2>1. UNCHANGED <<Working, Stray, Notified!Alive>>
    BY <1>2, ReadsUntouched
  <2>2. NotifiedInv'
    BY <1>1, <1>2, <2>1 DEF NotifiedInv, Notified!Alive, Notified!Packets
  <2> QED
    BY <1>1, <2>1, <2>2 DEF Sampled, Promise!vars, Service, Source, Working, Stray
<1>3. CASE /\ ~Notified!Busy
           /\ completion' = sent' /\ task' = [task EXCEPT ![sent'] = "reading"]
           /\ strays' = IF at = "running" THEN strays ELSE strays \cup {sent'}
           /\ UNCHANGED awaited
  <2>1. Notified!Alive' = Notified!Alive \cup {sent'}
    BY <1>1, <1>3, AliveTasks DEF NotifiedInv, Notified!Alive
  <2>2. sent' \notin Notified!Alive \cup strays
    BY <1>1 DEF NotifiedInv, Notified!Alive, Notified!Packets
  <2>3. at = "running" => Notified!Alive \ strays = {}
    BY <1>3 DEF NotifiedInv, Notified!Busy
  <2>4. NotifiedInv'
    <3>1. task' \in [Notified!Packets -> Notified!TaskState]
      BY <1>1, <1>3 DEF NotifiedInv, Notified!TaskState
    <3>2. \A p \in Notified!Alive' \cup strays' : p <= sent'
      <4>1. \A p \in Notified!Alive \cup strays : p \in Notified!Packets /\ p <= sent
        BY DEF NotifiedInv, Notified!Alive
      <4>2. \A p \in Notified!Alive \cup strays : p <= sent'
        BY <1>1, <4>1 DEF Notified!Packets
      <4>3. Notified!Alive' \cup strays' \subseteq Notified!Alive \cup strays \cup {sent'}
        BY <1>3, <2>1
      <4>4. sent' <= sent'
        BY <1>1
      <4> QED
        BY <4>2, <4>3, <4>4
    <3>3. \A p \in Notified!Alive' \ strays' :
             \/ at = "running" /\ completion' = p
             \/ at = "stopping" /\ awaited = p
      BY <1>3, <2>1, <2>2, <2>3 DEF NotifiedInv
    <3>4. \A p \in Notified!Packets :
             task'[p] \in {"cancelled", "gotCancelled"} => at = "stopping" /\ awaited = p
      BY <1>3, <1>1 DEF NotifiedInv
    <3> QED
      BY <1>1, <1>3, <3>1, <3>2, <3>3, <3>4 DEF NotifiedInv
  <2>5. CASE at = "running"
    <3>1. Working' = TRUE /\ Stray' = Stray /\ Service' = "on" /\ Service = "on"
      BY <1>1, <1>3, <2>1, <2>2, <2>5 DEF Working, Stray, Service
    <3>2. Source = TRUE /\ Source' = TRUE
      BY <1>1 DEF Source, NotifiedInv
    <3> QED
      BY <2>4, <3>1, <3>2
         DEF Sampled, Promise!vars, Promise!Next, Promise!Begins, Working, Stray, Source
  <2>6. CASE at # "running"
    <3>1. Stray' = TRUE /\ Working' = Working /\ Service' = Service /\ Service # "on"
      BY <1>1, <1>3, <2>1, <2>2, <2>6 DEF Working, Stray, Service, NotifiedInv
    <3>2. Source = TRUE /\ Source' = TRUE
      BY <1>1 DEF Source, NotifiedInv
    <3> QED
      BY <2>4, <3>1, <3>2
         DEF Sampled, Promise!vars, Promise!Next, Promise!Begins, Working, Stray, Source
  <2> QED
    BY <2>5, <2>6
<1> QED
  BY <1>2, <1>3
     DEF Notified!OnNotify, Notified!NotifyWhole, Notified!NotifyFirstPart, Notified!taskVars

(* A read that ends was the reader's own, or one of its strays.             *)
LEMMA CompletionSamples ==
    ASSUME NotifiedInv, ~polling, UNCHANGED <<polling, lost>>,
           NEW p \in Notified!Packets, Notified!CompletionStep(p)
    PROVE  NotifiedInv' /\ Sampled
<1>1. UNCHANGED <<at, up, subscribed, completion, awaited, sent, strays>> /\ p \in Notified!Alive
  BY AliveTasks
     DEF Notified!CompletionStep, Notified!ReadAnswers, Notified!ReadFails, Notified!Completes,
         Notified!outVars, Notified!linkVars
<1>2. Service' = Service /\ Source' = Source
  BY <1>1 DEF Service, Source
<1>3. CASE Notified!ReadAnswers(p)
  <2>1. task' = [task EXCEPT ![p] = "got"]
    BY <1>3 DEF Notified!ReadAnswers
  <2>2. Notified!Alive' = Notified!Alive
    BY <1>1, <2>1, AliveTasks DEF NotifiedInv, Notified!Alive
  <2>3. NotifiedInv'
    BY <1>1, <2>1, <2>2 DEF NotifiedInv, Notified!TaskState
  <2> QED
    BY <1>1, <1>2, <2>2, <2>3 DEF Sampled, Promise!vars, Working, Stray, Source
<1>4. CASE Notified!ReadFails(p) \/ Notified!Completes(p)
  <2>1. task' = [task EXCEPT ![p] = "done"]
    BY <1>4 DEF Notified!ReadFails, Notified!Completes
  <2>2. Notified!Alive' = Notified!Alive \ {p}
    BY <1>1, <2>1, AliveTasks DEF NotifiedInv, Notified!Alive
  <2>3. NotifiedInv'
    BY <1>1, <2>1, <2>2 DEF NotifiedInv, Notified!TaskState
  <2>4. CASE p \in strays
    <3>1. Working' = Working /\ Stray' \in {Stray, FALSE}
      BY <1>1, <2>2, <2>4 DEF Working, Stray
    <3> QED
      BY <1>1, <1>2, <2>3, <3>1
         DEF Sampled, Promise!vars, Promise!Next, Promise!Ends, Working, Stray, Source
  <2>5. CASE p \notin strays
    <3>1. Stray' = Stray /\ Working' \in {Working, FALSE}
      BY <1>1, <2>2, <2>5 DEF Working, Stray
    <3> QED
      BY <1>1, <1>2, <2>3, <3>1
         DEF Sampled, Promise!vars, Promise!Next, Promise!Ends, Working, Stray, Source
  <2> QED
    BY <2>4, <2>5
<1> QED
  BY <1>3, <1>4 DEF Notified!CompletionStep

(* The session's calls: a stop that meets a completion awaits it.           *)
LEMMA SessionSamples ==
    ASSUME NotifiedInv, ~polling, UNCHANGED <<polling, lost>>, Notified!SessionStep
    PROVE  NotifiedInv' /\ Sampled
<1> USE DEF Notified!taskVars, Notified!outVars, Notified!linkVars
<1>1. CASE Notified!StartCall
  <2>1. /\ at = "off" /\ at' = "starting" /\ ~subscribed /\ up'
        /\ UNCHANGED <<subscribed, completion, awaited, task, sent, strays>>
    BY <1>1 DEF Notified!StartCall, NotifiedInv
  <2>2. UNCHANGED <<Working, Stray, Notified!Alive>>
    BY <2>1, ReadsUntouched
  <2>3. NotifiedInv'
    BY <2>1, <2>2 DEF NotifiedInv
  <2> QED
    BY <2>1, <2>2, <2>3
       DEF Sampled, Promise!vars, Promise!Next, Promise!Starts, Service, Source, Working, Stray
<1>2. CASE Notified!Subscribes
  <2>1. /\ at = "starting" /\ up /\ subscribed' = TRUE
        /\ UNCHANGED <<at, up, completion, awaited, task, sent, strays>>
    BY <1>2 DEF Notified!Subscribes
  <2>2. UNCHANGED <<Working, Stray, Notified!Alive>>
    BY <2>1, ReadsUntouched
  <2>3. NotifiedInv'
    BY <2>1, <2>2 DEF NotifiedInv
  <2> QED
    BY <2>1, <2>2, <2>3
       DEF Sampled, Promise!vars, Promise!Next, Promise!Opens, Service, Source, Working, Stray
<1>3. CASE Notified!StartReturns
  <2>1. /\ at = "starting" /\ at' = "running" /\ subscribed
        /\ UNCHANGED <<up, subscribed, completion, awaited, task, sent, strays>>
    BY <1>3 DEF Notified!StartReturns
  <2>2. UNCHANGED <<Working, Stray, Notified!Alive>>
    BY <2>1, ReadsUntouched
  <2>3. NotifiedInv'
    BY <2>1, <2>2 DEF NotifiedInv
  <2> QED
    BY <2>1, <2>2, <2>3
       DEF Sampled, Promise!vars, Promise!Next, Promise!Started, Service, Source, Working, Stray
<1>4. CASE Notified!StartFails
  <2>1. /\ at = "starting" /\ at' = "off"
        /\ UNCHANGED <<up, subscribed, completion, awaited, task, sent, strays>>
    BY <1>4 DEF Notified!StartFails
  <2>2. UNCHANGED <<Working, Stray, Notified!Alive>>
    BY <2>1, ReadsUntouched
  <2>3. NotifiedInv'
    BY <2>1, <2>2 DEF NotifiedInv
  <2> QED
    BY <2>1, <2>2, <2>3
       DEF Sampled, Promise!vars, Promise!Next, Promise!StartFails, Service, Source, Working, Stray
<1>5. CASE Notified!StopCall
  <2>1. /\ at = "running" /\ at' \in {"stopping", "unsubscribing"}
        /\ UNCHANGED <<up, subscribed, sent, strays>>
    BY <1>5 DEF Notified!StopCall
  <2>2. NotifiedInv' /\ UNCHANGED <<Working, Stray>>
    <3>1. CASE Notified!Busy
      <4>1. completion \in Notified!Alive /\ Notified!Alive \ strays \subseteq {completion}
        BY <2>1, <3>1 DEF NotifiedInv, Notified!Busy
      <4>2. /\ task' = [task EXCEPT ![completion] =
                         IF @ = "reading" THEN "cancelled" ELSE "gotCancelled"]
            /\ awaited' = completion /\ at' = "stopping" /\ UNCHANGED completion
        BY <1>5, <3>1 DEF Notified!StopCall
      <4>3. Notified!Alive' = Notified!Alive
        BY <4>1, <4>2, AliveTasks DEF NotifiedInv, Notified!Alive
      <4>4. \A p \in Notified!Packets :
               task'[p] \in {"cancelled", "gotCancelled"} => p = completion
        BY <2>1, <4>2 DEF NotifiedInv
      <4>5. task' \in [Notified!Packets -> Notified!TaskState]
        BY <4>1, <4>2, AliveTasks DEF NotifiedInv, Notified!TaskState
      <4>6. NotifiedInv'
        BY <2>1, <4>1, <4>2, <4>3, <4>4, <4>5 DEF NotifiedInv
      <4> QED
        BY <2>1, <4>3, <4>6 DEF Working, Stray
    <3>2. CASE ~Notified!Busy
      <4>1. Notified!Alive \ strays = {}
        BY <2>1, <3>2 DEF NotifiedInv, Notified!Busy
      <4>2. UNCHANGED <<task, awaited>> /\ at' = "unsubscribing"
        BY <1>5, <3>2 DEF Notified!StopCall
      <4>3. UNCHANGED <<Working, Stray, Notified!Alive>>
        BY <2>1, <4>2, ReadsUntouched
      <4> QED
        BY <2>1, <4>1, <4>2, <4>3 DEF NotifiedInv
    <3> QED
      BY <3>1, <3>2
  <2> QED
    BY <2>1, <2>2
       DEF Sampled, Promise!vars, Promise!Next, Promise!Stops, Service, Source, Working, Stray
<1>6. CASE Notified!CompletionAwaited
  <2>1. /\ at = "stopping" /\ at' = "unsubscribing" /\ task[awaited] = "done"
        /\ UNCHANGED <<up, subscribed, task, sent, strays>>
    BY <1>6 DEF Notified!CompletionAwaited
  <2>2. UNCHANGED <<Working, Stray, Notified!Alive>>
    BY <2>1, ReadsUntouched
  <2>3. Notified!Alive \ strays = {}
    BY <2>1 DEF NotifiedInv, Notified!Alive
  <2>4. \A p \in Notified!Packets : task[p] \notin {"cancelled", "gotCancelled"}
    BY <2>1 DEF NotifiedInv
  <2>5. NotifiedInv'
    BY <2>1, <2>2, <2>3, <2>4 DEF NotifiedInv
  <2> QED
    BY <2>1, <2>2, <2>5 DEF Sampled, Promise!vars, Service, Source, Working, Stray
<1>7. CASE Notified!StopReturns
  <2>1. /\ at = "unsubscribing" /\ at' = "off" /\ subscribed' \in {FALSE, subscribed}
        /\ UNCHANGED <<up, completion, awaited, task, sent, strays>>
    BY <1>7 DEF Notified!StopReturns
  <2>2. Notified!Alive \ strays = {}
    BY <2>1 DEF NotifiedInv
  <2>3. UNCHANGED <<Working, Stray, Notified!Alive>> /\ ~Working
    BY <2>1, <2>2, ReadsUntouched DEF Working
  <2>4. \A p \in Notified!Packets : task[p] \notin {"cancelled", "gotCancelled"}
    BY <2>1 DEF NotifiedInv
  <2>5. subscribed' \in BOOLEAN /\ (subscribed' => up')
    <3>1. CASE subscribed' = FALSE
      BY <3>1
    <3>2. CASE subscribed' = subscribed
      BY <2>1, <3>2 DEF NotifiedInv
    <3> QED
      BY <2>1, <3>1, <3>2
  <2>6. NotifiedInv'
    <3>1. Notified!Alive' = Notified!Alive /\ Notified!Alive' \ strays' = {}
      BY <2>1, <2>2, <2>3
    <3> QED
      BY <2>1, <2>4, <2>5, <3>1 DEF NotifiedInv
  <2> QED
    BY <2>1, <2>3, <2>6
       DEF Sampled, Promise!vars, Promise!Next, Promise!Stopped, Service, Source, Working, Stray
<1> QED
  BY <1>1, <1>2, <1>3, <1>4, <1>5, <1>6, <1>7 DEF Notified!SessionStep

LEMMA NotifiedSamples ==
    ASSUME NotifiedInv, ~polling, UNCHANGED <<polling, lost>>, Notified!Next
    PROVE  NotifiedInv' /\ Sampled
<1>1. CASE Notified!LinkEnds
  <2>1. /\ up' = FALSE /\ subscribed' = FALSE
        /\ UNCHANGED <<at, completion, awaited, task, sent, strays>>
    BY <1>1 DEF Notified!LinkEnds, Notified!taskVars, Notified!outVars
  <2>2. UNCHANGED <<Working, Stray, Notified!Alive>>
    BY <2>1, ReadsUntouched
  <2>3. NotifiedInv'
    BY <2>1, <2>2 DEF NotifiedInv
  <2> QED
    BY <2>1, <2>2, <2>3
       DEF Sampled, Promise!vars, Promise!Next, Promise!Closes, Service, Source, Working, Stray
<1> QED
  BY <1>1, NotificationSamples, CompletionSamples, SessionSamples DEF Notified!Next

-----------------------------------------------------------------------------
(* The polled mode: a cancellation ends the loop at either of its awaits, or*)
(* is lost at the second.                                                   *)
LEMMA PolledSamples ==
    ASSUME PolledInv, polling, UNCHANGED polling, Next
    PROVE  PolledInv' /\ Sampled
<1> USE DEF PolledInv, Sampled, Promise!vars, Service, Source, Working, Stray, Promise!Next
<1>1. CASE Start
  BY <1>1 DEF Start, Promise!Starts
<1>2. CASE Stop
  BY <1>2 DEF Stop, Promise!Stops
<1>3. CASE ReadReturns \/ ReadRaises
  <2>1. /\ loop = "reading" /\ ~stopping /\ loop' \in {"reading", "waiting"}
        /\ UNCHANGED <<running, stopping, lost>>
    BY <1>3 DEF ReadReturns, ReadRaises, AfterRead, Reading
  <2>2. PolledInv'
    BY <2>1
  <2>3. CASE loop' = "reading"
    BY <2>1, <2>2, <2>3
  <2>4. CASE loop' = "waiting" /\ lost
    BY <2>1, <2>2, <2>4 DEF Promise!Ends
  <2>5. CASE loop' = "waiting" /\ ~lost
    BY <2>1, <2>2, <2>5 DEF Promise!Ends
  <2> QED
    BY <2>1, <2>3, <2>4, <2>5
<1>4. CASE WaitEnds
  BY <1>4 DEF WaitEnds, Promise!Begins, Promise!Ends
<1>5. CASE WaitSwallows
  BY <1>5 DEF WaitSwallows, Promise!GoesDeaf
<1>6. CASE Cancelled
  BY <1>6 DEF Cancelled, Promise!Stopped
<1>7. CASE \E w \in Writers : WriteCall(w) \/ WriteEnds(w) \/ QuietPoke(w) \/ VerifyEnds(w)
  <2>1. UNCHANGED readerVars
    BY <1>7 DEF WriteCall, WriteEnds, WriteReturns, WriteRaises, QuietPoke, VerifyEnds
  <2> QED
    BY <2>1 DEF readerVars
<1> QED
  BY <1>1, <1>2, <1>3, <1>4, <1>5, <1>6, <1>7 DEF Next, LoopStep

-----------------------------------------------------------------------------
(* Both modes                                                               *)

LEMMA ModeStarts == ReaderInit => ModeInv /\ Promise!Init
<1> SUFFICES ASSUME ReaderInit PROVE ModeInv /\ Promise!Init
  OBVIOUS
<1>1. /\ at = "off" /\ up = FALSE /\ subscribed = FALSE /\ strays = {} /\ sent = 0
      /\ task = [p \in Notified!Packets |-> "none"]
  BY DEF ReaderInit, Notified!Init
<1>2. Notified!Alive = {}
  BY <1>1, AliveTasks
<1>3. task \in [Notified!Packets -> Notified!TaskState]
  BY <1>1 DEF Notified!TaskState
<1>4. NotifiedInv
  BY <1>1, <1>2, <1>3 DEF NotifiedInv
<1> QED
  BY <1>1, <1>2, <1>4 DEF ReaderInit, Init, ModeInv, PolledInv, Promise!Init, Service

LEMMA ModeStep ==
    ASSUME ModeInv, [ReaderNext]_bothVars
    PROVE  ModeInv' /\ Sampled
<1>1. CASE ~polling /\ Notified!Next /\ UNCHANGED <<polling, polledVars>>
  BY <1>1, NotifiedSamples DEF ModeInv, polledVars
<1>2. CASE polling /\ Next /\ UNCHANGED <<polling, notifiedVars>>
  BY <1>2, PolledSamples DEF ModeInv, NotifiedInv, notifiedVars, Notified!Alive
<1>3. CASE UNCHANGED bothVars
  BY <1>3
     DEF bothVars, notifiedVars, polledVars, ModeInv, NotifiedInv, PolledInv, Notified!Alive,
         Sampled, Promise!vars, Service, Source, Working, Stray
<1> QED
  BY <1>1, <1>2, <1>3 DEF ReaderNext

(* In either mode, and whenever notifications come, the reader implements   *)
(* the safety of Sampling: a read begins only for a subscription or a loop  *)
(* that a start opened and nothing has closed, and none that began while    *)
(* the reader ran is under way when its stop() has returned.                *)
THEOREM ReaderSamples == ReaderSpec => Promise!Spec
<1>1. ModeInv /\ [ReaderNext]_bothVars => ModeInv' /\ Sampled
  BY ModeStep
<1> QED
  BY <1>1, ModeStarts, PTL DEF ReaderSpec, Promise!Spec, Sampled

-----------------------------------------------------------------------------
(* The order of what is published.  Of the reads one at most has an answer  *)
(* its task has yet to see, and if that completes its packet, nothing newer *)
(* was published since but what came whole.                                 *)
Landed(p) == task[p] \in {"got", "gotCancelled"}

OrderInv ==
    /\ last.first \in 0..sent /\ DOMAIN rest = Notified!Packets
    /\ \A p, q \in Notified!Packets : Landed(p) /\ Landed(q) => p = q
    /\ \A p \in Notified!Packets :
          Landed(p) /\ rest[p] = p => last.first <= p \/ last.whole

(* A packet is published behind an older one only of a packet that came     *)
(* whole while it was completed.                                            *)
InTurn == last'.first < last.first => last.whole

LEMMA NotificationsInTurn ==
    ASSUME NotifiedInv, OrderInv, Notified!OnNotify
    PROVE  OrderInv' /\ InTurn
<1>1. sent \in Nat /\ sent' = sent + 1 /\ last.first \in 0..sent /\ sent' \in Notified!Packets
  <2>1. sent \in Nat /\ sent < MaxPackets /\ last.first \in 0..sent
    BY DEF NotifiedInv, OrderInv, Notified!OnNotify
  <2>2. sent' = sent + 1
    BY DEF Notified!OnNotify, Notified!NotifyWhole, Notified!NotifyFirstPart
  <2> QED
    BY <2>1, <2>2 DEF Notified!Packets
<1>2. CASE Notified!NotifyWhole
  <2>1. last'.first = sent' /\ last'.whole /\ task' = task /\ rest' = rest
    BY <1>2 DEF Notified!NotifyWhole, Notified!Publish, Notified!Trusted, Notified!taskVars
  <2> QED
    BY <1>1, <2>1 DEF OrderInv, InTurn, Landed
<1>3. CASE Notified!NotifyFirstPart
  <2>1. /\ last' = last /\ rest' = rest
        /\ task' = task \/ task' = [task EXCEPT ![sent'] = "reading"]
    BY <1>3 DEF Notified!NotifyFirstPart, Notified!taskVars
  <2>2. \A p \in Notified!Packets : Landed(p)' => Landed(p)
    BY <1>1, <2>1 DEF NotifiedInv, Landed
  <2> QED
    BY <1>1, <2>1, <2>2 DEF OrderInv, InTurn
<1> QED
  BY <1>2, <1>3 DEF Notified!OnNotify

(* What a task publishes is what its read completed.                        *)
LEMMA CompletionsInTurn ==
    ASSUME NotifiedInv, OrderInv, NEW p \in Notified!Packets, Notified!CompletionStep(p)
    PROVE  OrderInv' /\ InTurn
<1>1. p \in Nat /\ sent \in Nat /\ sent' = sent /\ last.first \in 0..sent /\ p <= sent
  <2>1. p \in Notified!Alive /\ sent' = sent
    BY AliveTasks
       DEF Notified!CompletionStep, Notified!ReadAnswers, Notified!ReadFails, Notified!Completes,
           Notified!outVars
  <2> QED
    BY <2>1 DEF NotifiedInv, OrderInv, Notified!Packets
<1>2. CASE Notified!ReadAnswers(p)
  <2>1. /\ last' = last /\ task' = [task EXCEPT ![p] = "got"] /\ rest' = [rest EXCEPT ![p] = sent]
        /\ \A q \in Notified!Packets : ~Landed(q)
    BY <1>2 DEF Notified!ReadAnswers, Notified!outVars, Landed
  <2>2. \A q \in Notified!Packets : Landed(q)' => q = p
    BY <2>1 DEF NotifiedInv, Landed
  <2>3. rest'[p] = p => last.first <= p
    BY <1>1, <2>1 DEF OrderInv
  <2> QED
    BY <1>1, <2>1, <2>2, <2>3 DEF OrderInv, InTurn
<1>3. CASE Notified!ReadFails(p) \/ Notified!Completes(p)
  <2>1. task' = [task EXCEPT ![p] = "done"] /\ rest' = rest
    BY <1>3 DEF Notified!ReadFails, Notified!Completes
  <2>2. \A q \in Notified!Packets : Landed(q)' => Landed(q) /\ q # p
    BY <2>1 DEF NotifiedInv, Landed
  <2>3. CASE last' = last
    BY <1>1, <2>1, <2>2, <2>3 DEF OrderInv, InTurn
  <2>4. CASE last' # last
    <3>1. Landed(p) /\ rest[p] = p /\ last' = [first |-> p, rest |-> rest[p], whole |-> FALSE]
      BY <1>3, <2>4
         DEF Notified!ReadFails, Notified!Completes, Notified!Publish, Notified!Trusted,
             Notified!outVars, Landed
    <3>2. \A q \in Notified!Packets : ~Landed(q)'
      BY <2>2, <3>1 DEF OrderInv
    <3>3. last.first <= p \/ last.whole
      BY <3>1 DEF OrderInv
    <3>4. last'.first = p /\ p \in 0..sent'
      BY <1>1, <3>1
    <3>5. InTurn
      BY <1>1, <3>3, <3>4 DEF InTurn
    <3> QED
      BY <2>1, <3>2, <3>4, <3>5 DEF OrderInv
  <2> QED
    BY <2>3, <2>4
<1> QED
  BY <1>2, <1>3 DEF Notified!CompletionStep

LEMMA OthersInTurn ==
    ASSUME NotifiedInv, OrderInv, Notified!SessionStep \/ Notified!LinkEnds
    PROVE  OrderInv' /\ InTurn
<1>1. UNCHANGED <<sent, last, rest>> /\ last.first \in Nat
  <2>1. last.first \in Nat
    BY DEF NotifiedInv, OrderInv
  <2>2. CASE Notified!StartCall \/ Notified!Subscribes \/ Notified!StartReturns \/ Notified!StartFails
    BY <2>1, <2>2
       DEF Notified!StartCall, Notified!Subscribes, Notified!StartReturns, Notified!StartFails,
           Notified!outVars, Notified!taskVars
  <2>3. CASE Notified!StopCall \/ Notified!CompletionAwaited
    BY <2>1, <2>3 DEF Notified!StopCall, Notified!CompletionAwaited, Notified!outVars
  <2>4. CASE Notified!StopReturns \/ Notified!LinkEnds
    BY <2>1, <2>4 DEF Notified!StopReturns, Notified!LinkEnds, Notified!outVars, Notified!taskVars
  <2> QED
    BY <2>2, <2>3, <2>4 DEF Notified!SessionStep
<1>2. \A p \in Notified!Packets : Landed(p)' => Landed(p)
  <2>1. CASE task' = task
    BY <2>1 DEF Landed
  <2>2. CASE Notified!StopCall /\ task' # task
    <3>1. /\ completion \in Notified!Alive /\ at = "running"
          /\ task' = [task EXCEPT ![completion] =
                        IF @ = "reading" THEN "cancelled" ELSE "gotCancelled"]
      BY <2>2 DEF Notified!StopCall, Notified!Busy
    <3>2. task[completion] \in {"reading", "got"}
      BY <3>1, AliveTasks DEF NotifiedInv, Notified!TaskState
    <3> QED
      BY <3>1, <3>2 DEF NotifiedInv, Landed
  <2> QED
    BY <2>1, <2>2
       DEF Notified!SessionStep, Notified!StartCall, Notified!Subscribes, Notified!StartReturns,
           Notified!StartFails, Notified!CompletionAwaited, Notified!StopReturns,
           Notified!LinkEnds, Notified!taskVars
<1> QED
  BY <1>1, <1>2 DEF OrderInv, InTurn, NotifiedInv

(* "Publication order can briefly invert" (reader.py:393), but only behind  *)
(* a packet that came whole, however many there are and however reads,      *)
(* drops, stops and restarts interleave with them.                          *)
THEOREM SplitPacketsInOrder == ReaderSpec => OnlyWholeOvertakes
<1> DEFINE Inv == ModeInv /\ OrderInv
<1>1. ReaderInit => Inv
  <2> SUFFICES ASSUME ReaderInit PROVE Inv
    OBVIOUS
  <2>1. ModeInv
    BY ModeStarts
  <2>2. /\ sent = 0 /\ last.first = 0 /\ DOMAIN rest = Notified!Packets
        /\ \A p \in Notified!Packets : ~Landed(p)
    BY DEF ReaderInit, Notified!Init, Notified!None, Landed
  <2> QED
    BY <2>1, <2>2 DEF OrderInv
<1>2. Inv /\ [ReaderNext]_bothVars => Inv' /\ [InTurn]_(Notified!vars)
  <2> SUFFICES ASSUME ModeInv, OrderInv, [ReaderNext]_bothVars
               PROVE  ModeInv' /\ OrderInv' /\ [InTurn]_(Notified!vars)
    BY DEF Inv
  <2>1. ModeInv'
    BY ModeStep
  <2>2. ASSUME Notified!Next PROVE OrderInv' /\ InTurn
    <3>1. NotifiedInv
      BY DEF ModeInv
    <3> QED
      BY <2>2, <3>1, NotificationsInTurn, CompletionsInTurn, OthersInTurn DEF Notified!Next
  <2>3. ASSUME UNCHANGED notifiedVars PROVE OrderInv' /\ InTurn
    <3>1. UNCHANGED <<sent, last, task, rest>> /\ last.first \in Nat
      BY <2>3 DEF notifiedVars, ModeInv, NotifiedInv, OrderInv
    <3> QED
      BY <3>1 DEF OrderInv, InTurn, Landed
  <2>4. Notified!Next \/ UNCHANGED notifiedVars
    BY DEF ReaderNext, bothVars
  <2> QED
    BY <2>1, <2>2, <2>3, <2>4
<1> QED
  BY <1>1, <1>2, PTL DEF ReaderSpec, OnlyWholeOvertakes, Notified!OnlyWholeOvertakes, InTurn
=============================================================================
