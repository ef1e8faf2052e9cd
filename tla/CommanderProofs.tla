--------------------------- MODULE CommanderProofs ---------------------------
(***************************************************************************)
(* What Commander's answers mean, for any number of concurrent requests    *)
(* and whatever modes, values and commands there are.  The invariant is    *)
(* one condition per request, relating its record to the last state: how   *)
(* far it has come determines whether it has written, and what it would    *)
(* take for its confirmation has been seen since.                          *)
(***************************************************************************)
EXTENDS Commander, SequenceTheorems, TLAPS

NothingSent == {"refused", "already", "dry", "unavailable"}
Written == {"write", "verify", "quiet"}

(* One request's record j, when s is the last state.                        *)
Honest(j, s) ==
    /\ j.end \in NothingSent => ~j.wrote
    /\ j.end = "ok" => j.wrote /\ j.seen
    /\ j.at = "baseline" => ~j.wrote
    /\ j.at \in Written => j.wrote
    /\ (j.at \in Written /\ s # NoState /\ Satisfied(j.cmd, s)) => j.seen

AllHonest == \A c \in Requests : Honest(job[c], latest)

IInv == TypeOK /\ AllHonest

(* IInv's part about the requests and what they share.                      *)
Requesters ==
    /\ job \in [Requests -> Job] /\ AllHonest
    /\ latest \in State \cup {NoState} /\ updated \in BOOLEAN

(* A step of one request leaves the others' records alone, and the last     *)
(* state as it was or forgotten.                                            *)
StepOf(c) ==
    /\ job' = [job EXCEPT ![c] = job'[c]]
    /\ job'[c] \in Job
    /\ Honest(job'[c], latest')
    /\ latest' \in {latest, NoState} /\ updated' \in BOOLEAN

-----------------------------------------------------------------------------
(* A request's step that is honest about its own record preserves the       *)
(* invariant: what it forgets can only make another's condition weaker.     *)
LEMMA StepKeepsHonesty ==
    ASSUME IInv, NEW c \in Requests, StepOf(c)
    PROVE  Requesters'
<1>1. job' \in [Requests -> Job] BY DEF IInv, TypeOK, StepOf
<1>2. \A d \in Requests : Honest(job'[d], latest')
  <2>1. SUFFICES ASSUME NEW d \in Requests PROVE Honest(job'[d], latest') OBVIOUS
  <2>2. CASE d = c BY <2>2 DEF StepOf
  <2>3. CASE d # c
    <3>1. job'[d] = job[d] BY <2>3 DEF IInv, TypeOK, StepOf
    <3>2. Honest(job[d], latest) BY DEF IInv, AllHonest
    <3>3. latest' = latest \/ latest' = NoState BY DEF StepOf
    <3> QED BY <3>1, <3>2, <3>3 DEF Honest
  <2> QED BY <2>2, <2>3
<1> QED BY <1>1, <1>2 DEF Requesters, AllHonest, IInv, TypeOK, StepOf

LEMMA RequestType ==
    ASSUME TypeOK, NEW c \in Requests, NEW cmd \in Command
    PROVE  /\ RequestWith(c, cmd) \in Job
           /\ RequestWith(c, cmd).end = "none"
           /\ RequestWith(c, cmd).wrote = FALSE
           /\ RequestWith(c, cmd).cmd = cmd
BY DEF TypeOK, RequestWith, Job

(* Deciding on a baseline is a step of the request: a command that writes   *)
(* has forgotten every state, one that does not has written nothing.        *)
LEMMA DecideSteps ==
    ASSUME TypeOK, NEW c \in Requests, NEW cmd \in Command, NEW s, Decide(c, cmd, s)
    PROVE  StepOf(c)
<1> DEFINE begun == RequestWith(c, cmd)
           answer == CASE Refused(cmd, s) -> "refused"
                       [] ~Refused(cmd, s) /\ Satisfied(cmd, s) -> "already"
                       [] OTHER -> "dry"
<1>1. begun \in Job /\ begun.end = "none" /\ begun.wrote = FALSE BY RequestType
<1>2. answer \in {"refused", "already", "dry"} OBVIOUS
<1> HIDE DEF begun, answer
<1>3. CASE /\ job' = [job EXCEPT ![c] = [begun EXCEPT !.at = "idle", !.end = answer]]
           /\ UNCHANGED commanderVars
  <2>1. job'[c] = [begun EXCEPT !.at = "idle", !.end = answer] BY <1>3 DEF TypeOK
  <2>2. job'[c] \in Job BY <1>1, <1>2, <2>1 DEF Job
  <2>3. job'[c].at = "idle" /\ job'[c].end = answer /\ ~job'[c].wrote
    BY <1>1, <2>1 DEF Job
  <2>4. Honest(job'[c], latest') BY <1>2, <2>3 DEF Honest, Written
  <2> QED BY <1>3, <2>1, <2>2, <2>4 DEF StepOf, TypeOK, commanderVars
<1>4. CASE /\ job' = [job EXCEPT ![c] = [begun EXCEPT !.at = "write", !.wrote = TRUE]]
           /\ latest' = NoState /\ updated' = FALSE
  <2>1. job'[c] = [begun EXCEPT !.at = "write", !.wrote = TRUE] BY <1>4 DEF TypeOK
  <2>2. job'[c] \in Job BY <1>1, <2>1 DEF Job
  <2>3. job'[c].at = "write" /\ job'[c].end = "none" /\ job'[c].wrote
    BY <1>1, <2>1 DEF Job
  <2>4. Honest(job'[c], latest') BY <1>4, <2>3 DEF Honest, NothingSent, Written
  <2> QED BY <1>4, <2>1, <2>2, <2>4 DEF StepOf, TypeOK
<1> QED BY <1>3, <1>4 DEF Decide, begun, answer

(* A request ends honestly with an answer that its record supports.         *)
LEMMA EndSteps ==
    ASSUME TypeOK, NEW c \in Requests, NEW answer, Ends(c, answer),
           answer \in {"ok", "refused", "unverified", "unavailable", "crashed"},
           answer \in NothingSent => ~job[c].wrote,
           answer = "ok" => job[c].wrote /\ job[c].seen,
           latest' \in {latest, NoState}, updated' \in BOOLEAN
    PROVE  StepOf(c)
<1>1. job'[c] = [job[c] EXCEPT !.at = "idle", !.end = answer, !.woken = FALSE, !.late = FALSE]
  BY DEF Ends, TypeOK
<1>2. job[c] \in Job BY DEF TypeOK
<1>3. job'[c] \in Job BY <1>1, <1>2 DEF Job
<1>4. /\ job'[c].at = "idle" /\ job'[c].end = answer
      /\ job'[c].wrote = job[c].wrote /\ job'[c].seen = job[c].seen
  BY <1>1, <1>2 DEF Job
<1>5. Honest(job'[c], latest') BY <1>4 DEF Honest, Written
<1>6. job' = [job EXCEPT ![c] = job'[c]] BY <1>1 DEF Ends, TypeOK
<1> QED BY <1>3, <1>5, <1>6 DEF StepOf

(* A request that has written moves on to another of its awaits.            *)
LEMMA MoveSteps ==
    ASSUME IInv, NEW c \in Requests, job[c].at \in Written,
           NEW at \in Written, NEW w \in BOOLEAN, NEW l \in BOOLEAN,
           job' = [job EXCEPT ![c] = [job[c] EXCEPT !.at = at, !.woken = w, !.late = l]],
           latest' = latest, updated' \in BOOLEAN
    PROVE  StepOf(c)
<1> DEFINE j == job[c]
           moved == [j EXCEPT !.at = at, !.woken = w, !.late = l]
<1>1. j \in Job BY DEF IInv, TypeOK
<1>2. job'[c] = moved BY DEF IInv, TypeOK
<1>3. Honest(j, latest) BY DEF IInv, AllHonest
<1>4. j.at \in Written OBVIOUS
<1> HIDE DEF j
<1>5. at \in {"write", "verify", "quiet"} BY DEF Written
<1>6. moved \in Job BY <1>1, <1>5 DEF Job
<1>7. /\ moved.at = at /\ moved.end = j.end /\ moved.cmd = j.cmd
      /\ moved.wrote = j.wrote /\ moved.seen = j.seen
  BY <1>1 DEF Job
<1> HIDE DEF moved
<1>8. Honest(moved, latest) BY <1>3, <1>4, <1>7 DEF Honest, Written
<1>9. job' = [job EXCEPT ![c] = job'[c]] BY <1>2 DEF moved, j
<1> QED BY <1>2, <1>6, <1>8, <1>9 DEF StepOf

(* A call, answered at once or not, is a step of the request.               *)
LEMMA CallSteps == ASSUME IInv, NEW c \in Requests, Call(c) PROVE StepOf(c)
<1>1. PICK cmd \in Offered :
         CallAnswered(c, cmd) \/ CallWithBaseline(c, cmd) \/ CallWithoutBaseline(c, cmd)
  BY DEF Call
<1>2. cmd \in Command BY OfferedAssumption
<1> DEFINE begun == RequestWith(c, cmd)
<1>3. begun \in Job /\ begun.end = "none" /\ begun.wrote = FALSE BY <1>2, RequestType DEF IInv
<1>4. begun.at = "idle" BY DEF Call, RequestWith, IInv, TypeOK, Job
<1> HIDE DEF begun
<1>5. CASE CallAnswered(c, cmd)
  <2> DEFINE answer == IF Locked(cmd) THEN "refused" ELSE "unavailable"
  <2>1. job' = [job EXCEPT ![c] = [begun EXCEPT !.end = answer]]
    BY <1>5 DEF CallAnswered, begun
  <2>2. answer \in {"refused", "unavailable"} OBVIOUS
  <2> HIDE DEF answer
  <2>3. job'[c] = [begun EXCEPT !.end = answer] BY <2>1 DEF IInv, TypeOK
  <2>4. job'[c] \in Job BY <1>3, <2>2, <2>3 DEF Job
  <2>5. job'[c].at = "idle" /\ job'[c].end = answer /\ ~job'[c].wrote
    BY <1>3, <1>4, <2>3 DEF Job
  <2>6. Honest(job'[c], latest') BY <2>2, <2>5 DEF Honest, Written
  <2>7. job' = [job EXCEPT ![c] = job'[c]] BY <2>1, <2>3
  <2> QED BY <1>5, <2>4, <2>6, <2>7 DEF CallAnswered, commanderVars, StepOf, IInv, TypeOK
<1>6. CASE CallWithBaseline(c, cmd)
  BY <1>2, <1>6, DecideSteps DEF CallWithBaseline, IInv
<1>7. CASE CallWithoutBaseline(c, cmd)
  <2>1. job' = [job EXCEPT ![c] = [begun EXCEPT !.at = "baseline"]]
    BY <1>7 DEF CallWithoutBaseline, begun
  <2>2. job'[c] = [begun EXCEPT !.at = "baseline"] BY <2>1 DEF IInv, TypeOK
  <2>3. job'[c] \in Job BY <1>3, <2>2 DEF Job
  <2>4. job'[c].at = "baseline" /\ job'[c].end = "none" /\ ~job'[c].wrote
    BY <1>3, <2>2 DEF Job
  <2>5. Honest(job'[c], latest') BY <2>4 DEF Honest, NothingSent, Written
  <2>6. job' = [job EXCEPT ![c] = job'[c]] BY <2>1, <2>2
  <2> QED BY <1>7, <2>3, <2>5, <2>6 DEF CallWithoutBaseline, StepOf
<1> QED BY <1>1, <1>5, <1>6, <1>7

(* The loop's continuation: the next half second, or the deadline's answer. *)
LEMMA LoopSteps ==
    ASSUME IInv, NEW c \in Requests, job[c].at \in Written, LoopsOn(c),
           latest' = latest, updated' \in BOOLEAN
    PROVE  StepOf(c)
<1>1. CASE job[c].late
  <2>1. Ends(c, "unverified") BY <1>1 DEF LoopsOn
  <2> QED BY <2>1, EndSteps DEF IInv, NothingSent
<1>2. CASE ~job[c].late
  <2>1. job' = [job EXCEPT ![c].at = "verify", ![c].woken = updated']
    BY <1>2 DEF LoopsOn, Waits
  <2>2. job[c] \in Job BY DEF IInv, TypeOK
  <2>3. job' = [job EXCEPT ![c] =
                  [job[c] EXCEPT !.at = "verify", !.woken = updated', !.late = job[c].late]]
    BY <2>1, <2>2 DEF IInv, TypeOK, Job
  <2>4. job[c].late \in BOOLEAN BY <2>2 DEF Job
  <2>5. "verify" \in Written BY DEF Written
  <2> QED BY <2>3, <2>4, <2>5, MoveSteps
<1> QED BY <1>1, <1>2

(* Every other step of a request.                                           *)
LEMMA RequestSteps ==
    ASSUME IInv, NEW c \in Requests, RequestStep(c) \/ DeadlinePasses(c) PROVE StepOf(c)
<1> USE DEF IInv
<1>1. Honest(job[c], latest) /\ job[c] \in Job BY DEF AllHonest, TypeOK
<1>2. latest \in {latest, NoState} /\ updated \in BOOLEAN BY DEF TypeOK
<1>3. CASE BaselineArrives(c)
  <2>1. CASE latest = NoState
    <3>1. Ends(c, "crashed") /\ UNCHANGED commanderVars BY <1>3, <2>1 DEF BaselineArrives
    <3> QED BY <1>2, <3>1, EndSteps DEF commanderVars, NothingSent
  <2>2. CASE latest # NoState
    <3>1. Decide(c, job[c].cmd, latest) BY <1>3, <2>2 DEF BaselineArrives
    <3>2. job[c].cmd \in Command BY <1>1 DEF Job
    <3> QED BY <3>1, <3>2, DecideSteps
  <2> QED BY <2>1, <2>2
<1>4. CASE BaselineTimesOut(c)
  <2>1. Ends(c, "refused") /\ UNCHANGED commanderVars /\ ~job[c].wrote
    BY <1>1, <1>4 DEF BaselineTimesOut, Honest
  <2> QED BY <1>2, <2>1, EndSteps DEF commanderVars
<1>5. CASE WriteSucceeds(c)
  <2>1. job[c].at \in Written /\ "verify" \in Written BY <1>5 DEF WriteSucceeds, Written
  <2>2. UNCHANGED commanderVars /\ Waits(c, "verify") BY <1>5 DEF WriteSucceeds
  <2>3. job' = [job EXCEPT ![c] =
                  [job[c] EXCEPT !.at = "verify", !.woken = updated', !.late = job[c].late]]
    BY <1>1, <2>2 DEF Waits, TypeOK, Job
  <2>4. updated' \in BOOLEAN /\ latest' = latest BY <1>2, <2>2 DEF commanderVars
  <2>5. job[c].late \in BOOLEAN BY <1>1 DEF Job
  <2> QED BY <2>1, <2>3, <2>4, <2>5, MoveSteps
<1>6. CASE WriteFails(c)
  <2>1. Ends(c, "unverified") /\ UNCHANGED commanderVars BY <1>6 DEF WriteFails
  <2> QED BY <1>2, <2>1, EndSteps DEF commanderVars, NothingSent
<1>7. CASE VerifySees(c)
  <2>1. job[c].at \in Written /\ updated' \in BOOLEAN /\ latest' = latest
    BY <1>7 DEF VerifySees, Written
  <2>2. CASE latest = NoState
    <3>1. Ends(c, "crashed") BY <1>7, <2>2 DEF VerifySees
    <3> QED BY <2>1, <3>1, EndSteps DEF NothingSent
  <2>3. CASE latest # NoState /\ Confirms(c)
    <3>1. Ends(c, "ok") BY <1>7, <2>3 DEF VerifySees
    <3>2. job[c].wrote /\ job[c].seen BY <1>1, <2>1, <2>3 DEF Honest, Confirms
    <3> QED BY <2>1, <3>1, <3>2, EndSteps DEF NothingSent
  <2>4. CASE latest # NoState /\ ~Confirms(c)
    <3>1. LoopsOn(c) BY <1>7, <2>4 DEF VerifySees
    <3> QED BY <2>1, <3>1, LoopSteps
  <2> QED BY <2>2, <2>3, <2>4
<1>8. CASE VerifyTimesOut(c)
  <2>1. job[c].at \in Written /\ "quiet" \in Written BY <1>8 DEF VerifyTimesOut, Written
  <2>2. job' = [job EXCEPT ![c].at = "quiet"] /\ UNCHANGED commanderVars
    BY <1>8 DEF VerifyTimesOut
  <2>3. job' = [job EXCEPT ![c] =
                  [job[c] EXCEPT !.at = "quiet", !.woken = job[c].woken, !.late = job[c].late]]
    BY <1>1, <2>2 DEF TypeOK, Job
  <2>4. job[c].woken \in BOOLEAN /\ job[c].late \in BOOLEAN BY <1>1 DEF Job
  <2> QED BY <1>2, <2>1, <2>2, <2>3, <2>4, MoveSteps DEF commanderVars
<1>9. CASE VerifyQuiet(c)
  <2>1. job[c].at \in Written /\ UNCHANGED commanderVars /\ LoopsOn(c)
    BY <1>9 DEF VerifyQuiet, Written
  <2> QED BY <1>2, <2>1, LoopSteps DEF commanderVars
<1>10. CASE DeadlinePasses(c)
  <2>1. job[c].at \in Written BY <1>10 DEF DeadlinePasses, Written
  <2>2. job' = [job EXCEPT ![c].late = TRUE] /\ UNCHANGED commanderVars
    BY <1>10 DEF DeadlinePasses
  <2>3. job' = [job EXCEPT ![c] =
                  [job[c] EXCEPT !.at = job[c].at, !.woken = job[c].woken, !.late = TRUE]]
    BY <1>1, <2>2 DEF TypeOK, Job
  <2>4. job[c].woken \in BOOLEAN BY <1>1 DEF Job
  <2> QED BY <1>2, <2>1, <2>2, <2>3, <2>4, MoveSteps DEF commanderVars
<1> QED BY <1>3, <1>4, <1>5, <1>6, <1>7, <1>8, <1>9, <1>10 DEF RequestStep

(* A packet is remembered as the last state and, by every request that      *)
(* would take it for its confirmation, as seen.                             *)
LEMMA OnStateKeepsHonesty ==
    ASSUME IInv, OnState
    PROVE  job' \in [Requests -> Job] /\ AllHonest'
<1>1. ASSUME NEW c \in Requests PROVE job'[c] \in Job /\ Honest(job'[c], latest')
  <2> DEFINE j == job[c]
             woken == j.woken \/ j.at \in {"baseline", "verify"}
             seen == j.seen \/ (j.at \in Written /\ Satisfied(j.cmd, packet))
  <2>1. j \in Job /\ Honest(j, latest) BY DEF IInv, TypeOK, AllHonest
  <2>2. job'[c] = [j EXCEPT !.woken = woken, !.seen = seen]
    BY <2>1 DEF OnState, Written, Job
  <2>3. woken \in BOOLEAN /\ seen \in BOOLEAN BY <2>1 DEF Job
  <2>4. (j.seen => seen) /\ ((j.at \in Written /\ Satisfied(j.cmd, packet)) => seen) OBVIOUS
  <2> HIDE DEF j, woken, seen
  <2>5. job'[c] \in Job BY <2>1, <2>2, <2>3 DEF Job
  <2>6. /\ job'[c].at = j.at /\ job'[c].end = j.end /\ job'[c].cmd = j.cmd
        /\ job'[c].wrote = j.wrote /\ job'[c].seen = seen
    BY <2>1, <2>2 DEF Job
  <2>7. latest' = packet BY DEF OnState
  <2> QED BY <2>1, <2>4, <2>5, <2>6, <2>7 DEF Honest
<1>2. job' \in [Requests -> Job] BY <1>1 DEF OnState
<1> QED BY <1>1, <1>2 DEF AllHonest

-----------------------------------------------------------------------------
(* The device and the link, which no request's record depends on.           *)
World == device \in State /\ inbox \in Seq(Command) /\ Len(inbox) <= MaxInbox
           /\ link \in {"up", "dropped", "down"} /\ fresh \in BOOLEAN
           /\ packet \in State \cup {NoState}

LEMMA ActedType == ASSUME NEW cmd \in Command, NEW s \in State PROVE Acted(cmd, s) \in State
<1>1. CASE cmd.op \in {"off", "mode"}
  <2>1. cmd.arg \in Modes \cup {"standby"} BY <1>1 DEF Command
  <2> QED BY <1>1, <2>1 DEF Acted, State
<1>2. CASE cmd.op = "set" /\ s.mode \in Modes /\ cmd.arg \in Permitted[s.mode]
  <2>1. cmd.arg \in Values BY <1>2 DEF Command
  <2> QED BY <1>2, <2>1 DEF Acted, State
<1>3. CASE cmd.op = "set" /\ ~(s.mode \in Modes /\ cmd.arg \in Permitted[s.mode])
  BY <1>3 DEF Acted
<1> QED BY <1>1, <1>2, <1>3 DEF Command

LEMMA WorldSteps == ASSUME TypeOK, [Next]_vars PROVE World'
<1> USE DEF TypeOK, World
<1>1. ASSUME NEW c \in Requests, Call(c) PROVE World' BY <1>1 DEF Call, deviceVars, linkVars
<1>2. ASSUME NEW c \in Requests, RequestStep(c) PROVE World'
  <2>1. ASSUME UNCHANGED <<deviceVars, linkVars>> PROVE World'
    BY <2>1 DEF deviceVars, linkVars
  <2>2. CASE WriteSucceeds(c) \/ WriteFails(c)
    <3>1. job[c].cmd \in Command BY DEF Job
    <3>2. UNCHANGED <<device, packet, linkVars>> BY <2>2 DEF WriteSucceeds, WriteFails
    <3>3. Delivered(job[c].cmd) \/ UNCHANGED inbox BY <2>2 DEF WriteSucceeds, WriteFails
    <3>4. inbox' \in Seq(Command) /\ Len(inbox') <= MaxInbox
      <4>1. Append(inbox, job[c].cmd) \in Seq(Command)
            /\ Len(Append(inbox, job[c].cmd)) = Len(inbox) + 1
        BY <3>1, AppendProperties
      <4> QED
        BY <3>3, <4>1, BoundAssumption DEF Delivered
    <3> QED BY <3>2, <3>4 DEF linkVars
  <2> QED BY <1>2, <2>1, <2>2 DEF RequestStep, BaselineArrives, BaselineTimesOut,
          VerifySees, VerifyTimesOut, VerifyQuiet
<1>3. ASSUME NEW c \in Requests, DeadlinePasses(c) PROVE World'
  BY <1>3 DEF DeadlinePasses, deviceVars, linkVars
<1>4. CASE DeviceActs
  <2>1. inbox # <<>> /\ inbox' = Tail(inbox) BY <1>4 DEF DeviceActs
  <2>2. inbox' \in Seq(Command) /\ Len(inbox') <= MaxInbox
    BY <2>1, HeadTailProperties, LenProperties, BoundAssumption
  <2>3. Head(inbox) \in Command BY <2>1, HeadTailProperties
  <2>4. device' \in State BY <1>4, <2>3, ActedType DEF DeviceActs
  <2> QED BY <1>4, <2>2, <2>4 DEF DeviceActs, linkVars
<1>5. CASE DeviceReports BY <1>5 DEF DeviceReports, linkVars
<1>6. CASE OnState BY <1>6 DEF OnState
<1>7. CASE LinkDrops BY <1>7 DEF LinkDrops
<1>8. CASE LinkGoes BY <1>8 DEF LinkGoes
<1>9. CASE LinkReturns BY <1>9 DEF LinkReturns, deviceVars
<1>10. CASE AppActs BY <1>10 DEF AppActs, linkVars
<1>11. CASE UNCHANGED vars BY <1>11 DEF vars
<1> QED BY <1>1, <1>2, <1>3, <1>4, <1>5, <1>6, <1>7, <1>8, <1>9, <1>10, <1>11 DEF Next

LEMMA InitHonest == Init => IInv
<1> SUFFICES ASSUME Init PROVE IInv OBVIOUS
<1>1. ASSUME NEW c \in Requests PROVE job[c] \in Job /\ Honest(job[c], latest)
  BY <1>1 DEF Init, Job, Command, Honest, NothingSent, Written
<1>2. job \in [Requests -> Job] BY <1>1 DEF Init
<1>3. <<>> \in Seq(Command) /\ Len(<<>>) = 0 BY EmptySeq
<1>4. AllHonest BY <1>1 DEF AllHonest
<1>5. inbox \in Seq(Command) /\ Len(inbox) <= MaxInbox
  BY <1>3, BoundAssumption DEF Init
<1>6. /\ device \in State /\ link = "up" /\ fresh = FALSE
      /\ packet = NoState /\ latest = NoState /\ updated = FALSE
  BY DEF Init
<1> QED BY <1>2, <1>4, <1>5, <1>6 DEF IInv, TypeOK

LEMMA NextHonest == IInv /\ [Next]_vars => IInv'
<1> SUFFICES ASSUME IInv, [Next]_vars PROVE IInv' OBVIOUS
<1>1. World' BY WorldSteps DEF IInv
<1>2. Requesters'
  <2>1. ASSUME NEW c \in Requests, Call(c) \/ RequestStep(c) \/ DeadlinePasses(c)
        PROVE  Requesters'
    BY <2>1, CallSteps, RequestSteps, StepKeepsHonesty
  <2>2. CASE OnState BY <2>2, OnStateKeepsHonesty DEF OnState, IInv, TypeOK, Requesters
  <2>3. ASSUME UNCHANGED <<commanderVars, job>>
        PROVE  Requesters'
    BY <2>3 DEF IInv, TypeOK, AllHonest, Honest, commanderVars, Requesters
  <2> QED BY <2>1, <2>2, <2>3 DEF Next, DeviceActs, DeviceReports, LinkDrops, LinkGoes,
          LinkReturns, AppActs, vars, commanderVars
<1> QED BY <1>1, <1>2 DEF IInv, TypeOK, World, Requesters

LEMMA HonestyHolds == Spec => []IInv
BY InitHonest, NextHonest, PTL DEF Spec

(* Commander's variables stay in their ranges.                              *)
THEOREM TypeCorrect == Spec => []TypeOK
<1>1. IInv => TypeOK BY DEF IInv
<1> QED BY <1>1, HonestyHolds, PTL

(* For any number of concurrent requests, on any link: an answer that means *)
(* nothing was sent is only given to a request that never called the write  *)
(* (ADR-0004 decision 4).                                                   *)
THEOREM NothingSentIsTrue == Spec => []NothingSentMeansNothingSent
<1>1. IInv => NothingSentMeansNothingSent
  BY DEF IInv, AllHonest, Honest, NothingSent, NothingSentMeansNothingSent
<1> QED BY <1>1, HonestyHolds, PTL

(* For any number of concurrent requests: a command is called verified only *)
(* on a packet that shows it done and arrived after it was written, whatever*)
(* the others did to the state they share.                                  *)
THEOREM VerifiedIsProven == Spec => []VerifiedIsObserved
<1>1. IInv => VerifiedIsObserved BY DEF IInv, AllHonest, Honest, VerifiedIsObserved
<1> QED BY <1>1, HonestyHolds, PTL
=============================================================================
