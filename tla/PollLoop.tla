------------------------------- MODULE PollLoop -------------------------------
(***************************************************************************)
(* The status reader in its polling mode, service/reader.py: one task that *)
(* reads a whole packet per interval, or at once when a command asks for a *)
(* sample.  It shares the transport's GATT lock, transport/ble.py, with    *)
(* the commands' writes.  What a read returns is not modelled: every read, *)
(* also one that raises, is followed by the same steps.                    *)
(***************************************************************************)
EXTENDS Naturals, Sequences

CONSTANT Writers    \* the tasks that run commands

Poll == "poll"

ASSUME WritersAssumption == Poll \notin Writers

VARIABLES
    running,    \* StatusReader._running
    loop,       \* the await _poll_loop is suspended at, or "off" without a task
    stopping,   \* has stop() cancelled the task, which has yet to end?
    poke,       \* the event _poke
    gatt,       \* the GATT lock: its holder, then the tasks queued for it
    writer,     \* per command: "idle", "writing" or "verifying"
    since,      \* history: was the loop poked since its last read was called?
    lost        \* history: has the task lost the cancellation of a stop()?

vars == <<running, loop, stopping, poke, gatt, writer, since, lost>>
readerVars == <<running, loop, stopping, lost>>
pokeVars == <<poke, since>>

Init ==
    /\ running = FALSE /\ loop = "off" /\ stopping = FALSE
    /\ poke = FALSE /\ since = FALSE /\ lost = FALSE
    /\ gatt = <<>> /\ writer = [w \in Writers |-> "idle"]

Holds(t) == gatt # <<>> /\ Head(gatt) = t

-----------------------------------------------------------------------------
(* start() and stop(), which the session calls in turn                      *)

Start ==
    /\ ~running /\ loop = "off"
    /\ running' = TRUE /\ loop' = "reading" /\ gatt' = Append(gatt, Poll)
    /\ poke' = FALSE /\ since' = FALSE
    /\ UNCHANGED <<stopping, writer, lost>>

Stop ==
    /\ running
    /\ running' = FALSE /\ stopping' = TRUE
    /\ UNCHANGED <<loop, pokeVars, gatt, writer, lost>>

(* The CancelledError ends the loop at either of its awaits, and takes it   *)
(* out of the lock and its queue.                                           *)
Cancelled ==
    /\ stopping
    /\ stopping' = FALSE /\ loop' = "off"
    /\ gatt' = SelectSeq(gatt, LAMBDA t : t # Poll)
    /\ UNCHANGED <<running, pokeVars, writer, lost>>

-----------------------------------------------------------------------------
(* _poll_loop                                                               *)

(* Fault: a poke during the read is cleared with the rest.                  *)
AfterReadForgets ==
    /\ poke' = FALSE /\ loop' = "waiting"
    /\ gatt' = Tail(gatt) /\ UNCHANGED since

(* Fault: the lock is held from one read to the next.                       *)
AfterReadKeepsLock ==
    /\ poke' = FALSE
    /\ IF poke THEN loop' = "reading" /\ since' = FALSE /\ UNCHANGED gatt
               ELSE loop' = "waiting" /\ gatt' = Tail(gatt) /\ UNCHANGED since

(* A poke during the read asks for another at once; else the loop waits for *)
(* one, or for the interval.                                                *)
AfterRead ==
    /\ poke' = FALSE
    /\ IF poke THEN loop' = "reading" /\ since' = FALSE /\ gatt' = Append(Tail(gatt), Poll)
               ELSE loop' = "waiting" /\ gatt' = Tail(gatt) /\ UNCHANGED since

Reading == loop = "reading" /\ ~stopping /\ Holds(Poll)

ReadReturns ==
    /\ Reading
    /\ AfterRead
    /\ UNCHANGED <<running, stopping, writer, lost>>

ReadRaisesOut ==                                  \* fault: the exception ends the loop
    /\ Reading
    /\ loop' = "off" /\ gatt' = Tail(gatt)
    /\ UNCHANGED <<running, stopping, writer, pokeVars, lost>>

ReadRaises ==
    /\ Reading
    /\ AfterRead
    /\ UNCHANGED <<running, stopping, writer, lost>>

(* The event was set, the interval has elapsed, or both.                    *)
WaitEnds ==
    /\ loop = "waiting" /\ ~stopping
    /\ loop' = "reading" /\ gatt' = Append(gatt, Poll)
    /\ poke' = FALSE /\ since' = FALSE
    /\ UNCHANGED <<running, stopping, writer, lost>>

(* Before Python 3.12 a wait_for that is cancelled when its event has been  *)
(* set may return as if it had not been cancelled (pyproject.toml:7 asks for*)
(* 3.11).                                                                   *)
WaitSwallows ==
    /\ loop = "waiting" /\ stopping /\ poke
    /\ stopping' = FALSE /\ lost' = TRUE
    /\ loop' = "reading" /\ gatt' = Append(gatt, Poll)
    /\ poke' = FALSE /\ since' = FALSE
    /\ UNCHANGED <<running, writer>>

-----------------------------------------------------------------------------
(* The commands, whose writes need the lock and whose verifications poke    *)

SetPoke == poke' = TRUE /\ since' = TRUE

WriteCall(w) ==
    /\ writer[w] = "idle"
    /\ writer' = [writer EXCEPT ![w] = "writing"] /\ gatt' = Append(gatt, w)
    /\ UNCHANGED <<readerVars, pokeVars>>

WriteReturns(w) ==
    /\ writer[w] = "writing" /\ Holds(w)
    /\ writer' = [writer EXCEPT ![w] = "verifying"] /\ gatt' = Tail(gatt)
    /\ SetPoke
    /\ UNCHANGED readerVars

WriteRaises(w) ==
    /\ writer[w] = "writing" /\ Holds(w)
    /\ writer' = [writer EXCEPT ![w] = "idle"] /\ gatt' = Tail(gatt)
    /\ UNCHANGED <<readerVars, pokeVars>>

(* A quiet half second of the verification.                                 *)
QuietPoke(w) ==
    /\ writer[w] = "verifying"
    /\ SetPoke
    /\ UNCHANGED <<readerVars, gatt, writer>>

VerifyEnds(w) ==
    /\ writer[w] = "verifying"
    /\ writer' = [writer EXCEPT ![w] = "idle"]
    /\ UNCHANGED <<readerVars, pokeVars, gatt>>

-----------------------------------------------------------------------------
LoopStep == ReadReturns \/ ReadRaises \/ WaitEnds \/ WaitSwallows \/ Cancelled

WriteEnds(w) == WriteReturns(w) \/ WriteRaises(w)

Next ==
    \/ Start \/ Stop \/ LoopStep
    \/ \E w \in Writers : WriteCall(w) \/ WriteEnds(w) \/ QuietPoke(w) \/ VerifyEnds(w)

Spec == Init /\ [][Next]_vars

(* The loop runs, GATT operations return or raise, the interval elapses.    *)
Fairness == WF_vars(LoopStep) /\ \A w \in Writers : WF_vars(WriteEnds(w))

FairSpec == Spec /\ Fairness

-----------------------------------------------------------------------------
(* Every variable stays in its range; the lock's queue holds every task     *)
(* that waits for a GATT operation, once, and no other (ble.py:241).        *)
TypeOK ==
    /\ running \in BOOLEAN /\ stopping \in BOOLEAN
    /\ loop \in {"off", "reading", "waiting"}
    /\ poke \in BOOLEAN /\ since \in BOOLEAN /\ lost \in BOOLEAN
    /\ writer \in [Writers -> {"idle", "writing", "verifying"}]
    /\ gatt \in Seq(Writers \cup {Poll})
    /\ \A i, j \in 1..Len(gatt) : gatt[i] = gatt[j] => i = j
    /\ {gatt[i] : i \in 1..Len(gatt)} =
          {w \in Writers : writer[w] = "writing"} \cup
          {t \in {Poll} : loop = "reading"}

(* The loop owes a read if and only if it was poked since it called the last*)
(* one: no poke is slept over, the one that comes during a read or its wait *)
(* for the lock among them (reader.py:289), and none of an earlier          *)
(* connection survives "as a phantom immediate read" (reader.py:165).       *)
PokeIsAnswered == loop # "off" => (poke <=> since)

(* "The loop must outlive its listeners" and its failures (reader.py:280):  *)
(* while the reader runs, reads go on.                                      *)
PollingGoesOn == []<>(loop = "reading" \/ ~running)

(* stop() awaits the loop's end, and "must never lose the teardown that     *)
(* follows it" (reader.py:206).                                             *)
StopNeverHangs == ~running ~> (loop = "off" \/ running)

(* So it does, at whichever await the loop is and whoever has the lock, of  *)
(* every loop but one that has lost its cancellation.                       *)
StoppedLoopEnds == ~running ~> (loop = "off" \/ running \/ lost)

(* A command's write gets its turn, however often the reader is poked.      *)
WritesGetThrough == \A w \in Writers : writer[w] = "writing" ~> writer[w] # "writing"
=============================================================================
