---------------------------- MODULE OneShotProofs ----------------------------
(***************************************************************************)
(* Proofs about OneShot: where each script can be, then what it says and   *)
(* what it leaves, for each command, any options, wherever an await fails  *)
(* and wherever Ctrl-C is struck.                                          *)
(***************************************************************************)
EXTENDS OneShot, SequenceTheorems, TLAPS

-----------------------------------------------------------------------------
(* Where a script can be: what its awaits keep to, and keep to when the     *)
(* first is done.                                                           *)

List(l) == l \in Seq(Places) /\ Len(l) >= 1

OpenList(l) ==
    /\ List(l)
    /\ \A i \in 1..Len(l) : l[i] = IF i = 1 THEN l[1] ELSE "starting"
    /\ l[1] \in {"connecting", "starting"}
    /\ cmd # "watch" => Len(l) = 1 /\ l[1] = "connecting"

TriedAwaits ==
    IF cmd \in Writing THEN {"starting", "baseline", "prompt", "sending"}
                       ELSE {"enumerating", "naming", "watching"}

TriedList(l) ==
    /\ List(l)
    /\ \A i \in 1..Len(l) : l[i] \in TriedAwaits
    /\ cmd \in Writing => l[Len(l)] = "sending"
    /\ \A i \in 1..Len(l) : l[i] = "prompt" => i = Len(l) - 1
    /\ \A i \in 1..Len(l) : l[i] = "sending" => i = Len(l)

FinallyList(l) ==
    /\ List(l) /\ Len(l) <= 2
    /\ \A i \in 1..Len(l) : l[i] = IF i = Len(l) THEN "disconnecting" ELSE "stopping"

LEMMA HeadIsFirst ==
    ASSUME NEW l, List(l)
    PROVE  Head(l) = l[1]
  BY DEF List

LEMMA Tails ==
    ASSUME NEW l, List(l), Len(l) > 1
    PROVE  /\ OpenList(l) => OpenList(Tail(l))
           /\ TriedList(l) => TriedList(Tail(l))
           /\ FinallyList(l) => FinallyList(Tail(l))
           /\ Head(Tail(l)) = l[2]
<1>1. /\ List(Tail(l)) /\ Len(Tail(l)) = Len(l) - 1
      /\ \A i \in 1..Len(l) - 1 : Tail(l)[i] = l[i + 1]
  BY DEF List
<1>2. Len(l) \in Nat
  BY DEF List
<1> DEFINE m == Tail(l)
<1>3. List(m) /\ Len(m) = Len(l) - 1 /\ \A i \in 1..Len(m) : m[i] = l[i + 1]
  BY <1>1
<1>4. Len(m) \in Nat /\ Len(m) >= 1
  BY <1>2, <1>3
<1>5. Head(Tail(l)) = l[2]
  BY <1>1, <1>3, <1>4 DEF List
<1> HIDE DEF m
<1>6. OpenList(l) => OpenList(m)
  BY <1>2, <1>3, <1>4 DEF OpenList
<1>7. TriedList(l) => TriedList(m)
  <2> SUFFICES ASSUME TriedList(l)
               PROVE  TriedList(m)
    OBVIOUS
  <2>1. ASSUME NEW i \in 1..Len(m)
        PROVE  /\ m[i] \in TriedAwaits
               /\ m[i] = "prompt" => i = Len(m) - 1
               /\ m[i] = "sending" => i = Len(m)
    <3>1. i + 1 \in 1..Len(l)
      BY <1>2, <1>3
    <3> QED
      BY <1>2, <1>3, <3>1 DEF TriedList
  <2>2. m[Len(m)] = l[Len(l)]
    BY <1>2, <1>3, <1>4
  <2> QED
    BY <1>3, <2>1, <2>2 DEF TriedList
<1>8. FinallyList(l) => FinallyList(m)
  BY <1>2, <1>3, <1>4 DEF FinallyList
<1> QED
  BY <1>5, <1>6, <1>7, <1>8 DEF m

LEMMA Ranges == 1..1 = {1} /\ 1..2 = {1, 2} /\ 1..3 = {1, 2, 3} /\ 1..4 = {1, 2, 3, 4}
  OBVIOUS

(* What the scripts begin with keeps to it.                                 *)
LEMMA Begun ==
    ASSUME cmd \in Commands
    PROVE  /\ OpenList(Script.open) /\ Script.open[1] = "connecting"
           /\ TriedList(Script.tried)
           /\ FinallyList(Script.finally)
           /\ cmd # "identify" => Script.finally[1] = "stopping"
<1> USE Ranges DEF List, OpenList, TriedList, FinallyList, Places
<1>1. CASE cmd = "identify"
  <2>1. Script = Identify
    BY <1>1 DEF Script, Scripts
  <2> QED
    BY <1>1, <2>1 DEF Identify, Writing, TriedAwaits
<1>2. CASE cmd = "watch"
  <2>1. Script = Watch
    BY <1>2 DEF Script, Scripts
  <2> QED
    BY <1>2, <2>1 DEF Watch, Writing, TriedAwaits
<1>3. CASE cmd \in Writing
  <2>1. /\ Script.open = <<"connecting">> /\ Script.tried = Sends
        /\ Script.finally = <<"stopping", "disconnecting">>
    BY <1>3 DEF Script, Scripts, Writing, Off, Fan, Mode, Temp
  <2>2. OpenList(Script.open) /\ FinallyList(Script.finally)
    BY <1>3, <2>1 DEF Writing
  <2>3. TriedList(Sends)
    <3>1. CASE opt.dry \/ opt.yes
      <4>1. Sends = <<"starting", "baseline", "sending">>
        BY <3>1 DEF Sends
      <4>2. /\ Sends \in Seq(Places) /\ Len(Sends) = 3
            /\ Sends[1] = "starting" /\ Sends[2] = "baseline" /\ Sends[3] = "sending"
        BY <4>1
      <4> QED
        BY <1>3, <4>2 DEF TriedAwaits
    <3>2. CASE ~(opt.dry \/ opt.yes)
      <4>1. /\ Sends \in Seq(Places) /\ Len(Sends) = 4
            /\ Sends[1] = "starting" /\ Sends[2] = "baseline"
            /\ Sends[3] = "prompt" /\ Sends[4] = "sending"
        BY <3>2 DEF Sends
      <4> QED
        BY <1>3, <4>1 DEF TriedAwaits
    <3> QED
      BY <3>1, <3>2
  <2> QED
    BY <1>3, <2>1, <2>2, <2>3
<1> QED
  BY <1>1, <1>2, <1>3 DEF Commands

Placed ==
    /\ part = "open" => OpenList(todo)
    /\ part = "tried" => TriedList(todo)
    /\ part = "finally" => FinallyList(todo)

(* The await a script is suspended at, by its part.                         *)
LEMMA Heads ==
    ASSUME TypeOK, Placed
    PROVE  /\ part \in {"open", "tried", "finally"} => List(todo) /\ Head(todo) \in Places
           /\ part = "open" =>
                \/ Head(todo) = "connecting"
                \/ Head(todo) = "starting" /\ cmd = "watch"
           /\ part = "tried" =>
                /\ Head(todo) \in TriedAwaits
                /\ Len(todo) = 1 /\ cmd \in Writing => Head(todo) = "sending"
                /\ Head(todo) = "prompt" => Len(todo) # 1 /\ Head(Tail(todo)) = "sending"
                /\ Head(todo) = "sending" => ~(Len(todo) > 1)
           /\ part = "finally" => Head(todo) = IF Len(todo) > 1 THEN "stopping" ELSE "disconnecting"
<1>1. ASSUME part \in {"open", "tried", "finally"}
      PROVE  List(todo) /\ Head(todo) = todo[1] /\ Head(todo) \in Places /\ 1 \in 1..Len(todo)
  BY <1>1 DEF Placed, OpenList, TriedList, FinallyList, List
<1>2. CASE part = "open"
  BY <1>1, <1>2 DEF Placed, OpenList
<1>3. CASE part = "tried"
  <2>1. TriedList(todo) /\ todo[1] \in TriedAwaits
    BY <1>1, <1>3 DEF Placed, TriedList
  <2>2. Len(todo) \in Nat
    BY <1>1, <1>3 DEF List
  <2> DEFINE n == Len(todo)
  <2>3. ASSUME Head(todo) = "prompt"
        PROVE  n # 1 /\ Head(Tail(todo)) = "sending"
    <3>1. cmd \in Writing
      BY <1>1, <1>3, <2>1, <2>3 DEF TriedAwaits
    <3>2. 1 = n - 1 /\ todo[n] = "sending"
      BY <1>1, <1>3, <2>1, <2>3, <3>1 DEF TriedList
    <3>3. n = 2
      <4> HIDE DEF n
      <4> QED
        BY <2>2, <3>2 DEF n
    <3>4. n # 1 /\ n > 1 /\ todo[2] = "sending"
      <4> HIDE DEF n
      <4> QED
        BY <3>2, <3>3
    <3> QED
      BY <1>1, <1>3, <3>4, Tails
  <2>4. ASSUME Head(todo) = "sending"
        PROVE  ~(n > 1)
    <3>1. 1 = n
      BY <1>1, <1>3, <2>1, <2>4 DEF TriedList
    <3> HIDE DEF n
    <3> QED
      BY <3>1
  <2> QED
    BY <1>1, <1>3, <2>1, <2>3, <2>4 DEF TriedList
<1>4. CASE part = "finally"
  BY <1>1, <1>4 DEF Placed, FinallyList, List
<1> QED
  BY <1>1, <1>2, <1>3, <1>4

(* Where the end of an await leads.                                         *)
LEMMA LeavesTo ==
    ASSUME TypeOK, NEW result \in Endings, Leaves(result), cmd' = cmd
    PROVE  /\ part' = "finally" /\ FinallyList(todo)' /\ ending' = result
           /\ said' = said \cup Reports(result)
           /\ Head(todo') \in {"stopping", "disconnecting"}
           /\ cmd # "identify" => Head(todo') = "stopping"
<1>1. part' = "finally" /\ todo' = Script.finally
  BY DEF Leaves, Enter
<1>2. FinallyList(todo) '
  BY <1>1, Begun DEF FinallyList, TypeOK
<1>3. cmd # "identify" => Head(todo') = "stopping"
  <2>1. Head(Script.finally) = Script.finally[1]
    BY Begun, HeadIsFirst DEF FinallyList, TypeOK
  <2>2. cmd # "identify" => Script.finally[1] = "stopping"
    BY Begun DEF TypeOK
  <2> QED
    BY <1>1, <2>1, <2>2
<1>4. Head(todo') \in {"stopping", "disconnecting"}
  <2>1. ASSUME NEW l, FinallyList(l)
        PROVE  Head(l) \in {"stopping", "disconnecting"}
    <3>1. Head(l) = l[1] /\ 1 \in 1..Len(l)
      BY <2>1, HeadIsFirst DEF FinallyList, List
    <3> QED
      BY <2>1, <3>1 DEF FinallyList
  <2> QED
    BY <1>1, <2>1, Begun DEF TypeOK
<1> QED
  BY <1>1, <1>2, <1>3, <1>4 DEF Leaves

LEMMA ProceedsTo ==
    ASSUME TypeOK, Placed, part \in {"open", "tried", "finally"}, Proceeds, cmd' = cmd
    PROVE  \/ /\ part = "open" /\ part' = "open" /\ OpenList(todo)' /\ Head(todo') = "starting"
              /\ UNCHANGED <<ending, said>>
           \/ /\ part \in {"open", "tried"} /\ part' = "tried" /\ TriedList(todo)'
              /\ part = "tried" => Len(todo) > 1 /\ todo' = Tail(todo)
              /\ UNCHANGED <<ending, said>>
           \/ part = "tried" /\ Len(todo) = 1 /\ Leaves("done")
           \/ /\ part = "finally" /\ Head(todo) = "stopping"
              /\ part' = "finally" /\ FinallyList(todo)' /\ Head(todo') = "disconnecting"
              /\ UNCHANGED <<ending, said>>
           \/ /\ part = "finally" /\ Head(todo) = "disconnecting"
              /\ part' = "over" /\ todo' = <<>> /\ UNCHANGED ending
              /\ said' = said \cup (IF cmd = "identify" THEN {} ELSE {"released"})
                              \cup (IF ending = "done" /\ cmd \in Writing THEN {"verified"} ELSE {})
<1>1. List(todo) /\ Len(todo) \in Nat
  BY Heads DEF List
<1>2. CASE Len(todo) > 1 /\ todo' = Tail(todo) /\ UNCHANGED <<part, ending, said>>
  <2>1. CASE part = "open"
    <3>1. OpenList(todo)' /\ Head(todo') = todo[2]
      BY <1>1, <1>2, <2>1, Tails DEF Placed, OpenList
    <3>2. todo[2] = "starting"
      BY <1>1, <1>2, <2>1 DEF Placed, OpenList
    <3> QED
      BY <1>2, <2>1, <3>1, <3>2
  <2>2. CASE part = "tried"
    <3>1. TriedList(todo)'
      BY <1>1, <1>2, <2>2, Tails DEF Placed, TriedList, TriedAwaits
    <3> QED
      BY <1>2, <2>2, <3>1
  <2>3. CASE part = "finally"
    <3>1. FinallyList(todo)' /\ Head(todo') = todo[2]
      BY <1>1, <1>2, <2>3, Tails DEF Placed, FinallyList
    <3>2. todo[2] = "disconnecting"
      <4> DEFINE n == Len(todo)
      <4>1. n \in Nat /\ n > 1 /\ n <= 2 /\ n \in 1..n
        BY <1>1, <1>2, <2>3 DEF Placed, FinallyList
      <4>2. todo[n] = "disconnecting"
        BY <2>3, <4>1 DEF Placed, FinallyList
      <4> HIDE DEF n
      <4> QED
        BY <4>1, <4>2
    <3> QED
      BY <1>1, <1>2, <2>3, <3>1, <3>2, Heads
  <2> QED
    BY <2>1, <2>2, <2>3
<1>3. CASE /\ Len(todo) = 1 /\ part = "open" /\ Enter("tried", Script.tried)
           /\ UNCHANGED <<ending, said>>
  <2>1. TriedList(todo)'
    BY <1>3, Begun DEF Enter, TriedList, TriedAwaits, TypeOK
  <2> QED
    BY <1>3, <2>1 DEF Enter
<1>4. CASE Len(todo) = 1 /\ part = "finally" /\ Enter("over", <<>>) /\ UNCHANGED ending
             /\ said' = said \cup (IF cmd = "identify" THEN {} ELSE {"released"})
                             \cup (IF ending = "done" /\ cmd \in Writing THEN {"verified"} ELSE {})
  BY <1>1, <1>4, Heads DEF Enter, List
<1> QED
  BY <1>2, <1>3, <1>4 DEF Proceeds

LEMMA RaisesTo ==
    ASSUME TypeOK, Placed, part \in {"open", "tried", "finally"}, NEW error, Raises(error)
    PROVE  \/ part = "tried" /\ Leaves(error)
           \/ /\ part # "tried" /\ part' = "over" /\ todo' = todo
              /\ ending' = error /\ said' = said
  BY DEF Raises, Enter

LEMMA NothingLeft == <<>> \in Seq(Places) /\ Len(<<>>) = 0
  OBVIOUS

ScriptTypes ==
    /\ part \in {"new", "open", "tried", "finally", "over"} /\ todo \in Seq(Places)
    /\ ending \in Endings /\ said \subseteq {"nothing sent", "verified", "released"}

LEMMA GoesOn ==
    ASSUME TypeOK, Placed, part \in {"open", "tried", "finally"}, UNCHANGED fixed,
           Proceeds \/ \E result \in Endings : Leaves(result) \/ Raises(result)
    PROVE  ScriptTypes' /\ Placed'
<1> cmd' = cmd
  BY DEF fixed
<1>1. ASSUME NEW result \in Endings, Leaves(result)
      PROVE  ScriptTypes' /\ Placed'
  <2>1. part' = "finally" /\ FinallyList(todo)' /\ ending' = result
        /\ said' = said \cup Reports(result)
    BY <1>1, LeavesTo
  <2>2. said' \subseteq {"nothing sent", "verified", "released"}
    BY <2>1 DEF Reports, TypeOK
  <2> QED
    BY <1>1, <2>1, <2>2 DEF ScriptTypes, Placed, FinallyList, List
<1>2. ASSUME NEW error \in Endings, Raises(error)
      PROVE  ScriptTypes' /\ Placed'
  <2>1. CASE part = "tried" /\ Leaves(error)
    BY <1>1, <2>1
  <2>2. CASE part' = "over" /\ todo' = todo /\ ending' = error /\ said' = said
    BY <2>2 DEF ScriptTypes, Placed, TypeOK
  <2> QED
    BY <1>2, <2>1, <2>2, RaisesTo
<1>3. CASE Proceeds
  <2>1. CASE part = "tried" /\ Leaves("done")
    BY <1>1, <2>1 DEF Endings
  <2>2. CASE \/ part' = "open" /\ OpenList(todo)' /\ UNCHANGED <<ending, said>>
             \/ part' = "tried" /\ TriedList(todo)' /\ UNCHANGED <<ending, said>>
             \/ part' = "finally" /\ FinallyList(todo)' /\ UNCHANGED <<ending, said>>
    <3>1. List(todo)'
      BY <2>2 DEF OpenList, TriedList, FinallyList
    <3> QED
      BY <2>2, <3>1 DEF ScriptTypes, Placed, TypeOK, List
  <2>3. CASE /\ part' = "over" /\ todo' = <<>> /\ UNCHANGED ending
             /\ said' = said \cup (IF cmd = "identify" THEN {} ELSE {"released"})
                             \cup (IF ending = "done" /\ cmd \in Writing THEN {"verified"} ELSE {})
    <3>1. todo' \in Seq(Places)
      BY <2>3, NothingLeft
    <3>2. said' \subseteq {"nothing sent", "verified", "released"}
      BY <2>3 DEF TypeOK
    <3> QED
      BY <2>3, <3>1, <3>2 DEF ScriptTypes, Placed, TypeOK
  <2> QED
    BY <1>3, <2>1, <2>2, <2>3, ProceedsTo
<1> QED
  BY <1>1, <1>2, <1>3

LEMMA Stays ==
    ASSUME TypeOK, Placed, UNCHANGED <<fixed, part, todo, ending, said>>
    PROVE  ScriptTypes' /\ Placed'
  BY DEF fixed, TypeOK, ScriptTypes, Placed, OpenList, TriedList, TriedAwaits, FinallyList, List

(* Every variable stays in its range, and every script keeps to its place.  *)
THEOREM TypeCorrect == Spec => [](TypeOK /\ Placed)
<1>1. Init => TypeOK /\ Placed
  <2> SUFFICES ASSUME Init
               PROVE  TypeOK /\ Placed
    OBVIOUS
  <2>1. todo \in Seq(Places) /\ struck \in Seq(Places) /\ Len(struck) <= MaxPresses
    BY NothingLeft, PressesAssumption DEF Init
  <2> QED
    BY <2>1 DEF Init, TypeOK, Placed, Endings
<1>2. TypeOK /\ Placed /\ [Next]_vars => TypeOK' /\ Placed'
  <2> SUFFICES ASSUME TypeOK, Placed, [Next]_vars
               PROVE  TypeOK' /\ Placed'
    OBVIOUS
  <2>1. ASSUME ScriptTypes', Placed', UNCHANGED <<fixed, struck>>,
               slot' \in {"free", "ours"}, written' \in BOOLEAN, pending' \in BOOLEAN
        PROVE  TypeOK' /\ Placed'
    BY <2>1 DEF TypeOK, ScriptTypes, fixed
  <2>2. ASSUME part \in {"open", "tried", "finally"}, UNCHANGED <<fixed, struck>>,
               Proceeds \/ \E result \in Endings : Leaves(result) \/ Raises(result),
               slot' \in {"free", "ours"}, written' \in BOOLEAN, pending' \in BOOLEAN
        PROVE  TypeOK' /\ Placed'
    BY <2>1, <2>2, GoesOn
  <2>3. CASE Begins
    <3> SUFFICES ScriptTypes' /\ Placed'
      BY <2>1, <2>3 DEF Begins, keyVars, TypeOK
    <3>1. CASE part' = "open" /\ todo' = Script.open /\ ending' = ending
      <4>1. OpenList(Script.open)
        BY Begun DEF TypeOK
      <4>2. OpenList(todo)'
        BY <2>3, <3>1, <4>1 DEF Begins, OpenList, fixed
      <4> QED
        BY <2>3, <3>1, <4>2 DEF Begins, ScriptTypes, Placed, OpenList, List, TypeOK
    <3>2. CASE part' = "over" /\ todo' = <<>> /\ ending' = "error"
      <4>1. todo' \in Seq(Places)
        BY <3>2, NothingLeft
      <4> QED
        BY <2>3, <3>2, <4>1 DEF Begins, ScriptTypes, Placed, Endings, TypeOK
    <3> QED
      BY <2>3, <3>1, <3>2 DEF Begins, Enter
  <2>4. CASE ConnectReturns \/ AwaitReturns \/ AwaitRaises \/ NoBaseline \/ WatchEnds
    BY <2>2, <2>4 DEF ConnectReturns, AwaitReturns, AwaitRaises, NoBaseline, WatchEnds, Awaits, At,
       keyVars, Endings, TypeOK
  <2>5. CASE PromptAnswered \/ SendRefused \/ Sent \/ DisconnectEnds
    BY <2>2, <2>5 DEF PromptAnswered, SendRefused, Sent, DisconnectEnds, Awaits, At, keyVars,
       Endings, TypeOK
  <2>6. CASE Interrupted
    <3>1. Proceeds \/ Raises("interrupted")
      BY <2>6 DEF Interrupted
    <3>2. slot' \in {"free", "ours"} /\ written' \in BOOLEAN /\ pending' \in BOOLEAN
      BY <2>6 DEF Interrupted, TypeOK
    <3> QED
      BY <2>2, <2>6, <3>1, <3>2 DEF Interrupted, Endings
  <2>7. CASE Press
    <3>1. ScriptTypes' /\ Placed'
      BY <2>7, GoesOn, Stays DEF Press, Endings, fixed
    <3>2. struck' \in Seq(Places) /\ Len(struck') <= MaxPresses
      <4>1. Head(todo) \in Places
        BY <2>7, Heads DEF Press
      <4>2. struck \in Seq(Places) /\ Len(struck) < MaxPresses /\ struck' = Append(struck, Head(todo))
        BY <2>7 DEF Press, TypeOK
      <4>3. struck' \in Seq(Places) /\ Len(struck') = Len(struck) + 1 /\ Len(struck) \in Nat
        BY <4>1, <4>2
      <4> DEFINE m == Len(struck)
      <4>4. m + 1 <= MaxPresses
        <5> HIDE DEF m
        <5> QED
          BY <4>2, <4>3, PressesAssumption DEF m
      <4> QED
        BY <4>3, <4>4
    <3> QED
      BY <2>7, <3>1, <3>2 DEF Press, TypeOK, ScriptTypes, fixed
  <2>8. CASE LinkDrops
    BY <2>1, <2>8, Stays DEF LinkDrops, keyVars, fixed, TypeOK
  <2>9. CASE UNCHANGED vars
    BY <2>1, <2>9, Stays DEF vars, fixed, TypeOK
  <2> QED
    BY <2>3, <2>4, <2>5, <2>6, <2>7, <2>8, <2>9 DEF Next, Works
<1> QED
  BY <1>1, <1>2, PTL DEF Spec

-----------------------------------------------------------------------------
(* What a command says                                                      *)

(* Nothing is written, and nothing said, before the try block is left; the  *)
(* link's release is said last.                                             *)
SaidInv ==
    /\ "released" \in said => part = "over" /\ slot = "free"
    /\ written \/ "nothing sent" \in said => part \in {"finally", "over"}
    /\ ~(written /\ "nothing sent" \in said)
    /\ ending = "done" /\ cmd \in Writing => written
    /\ "verified" \in said => written

(* The results of which a command reports that nothing was sent.            *)
Unsent == {"aborted", "dry", "refused", "rejected"}

LEMMA LeavesSays ==
    ASSUME TypeOK, SaidInv, part = "tried", UNCHANGED fixed,
           NEW result \in Endings, Leaves(result), written' \in BOOLEAN,
           result = "done" /\ cmd \in Writing => written', result \in Unsent => ~written'
    PROVE  SaidInv'
<1>1. part' = "finally" /\ ending' = result /\ said' = said \cup Reports(result) /\ cmd' = cmd
  BY LeavesTo DEF fixed
<1>2. Reports(result) \subseteq IF result \in Unsent THEN {"nothing sent"} ELSE {}
  BY DEF Reports, Unsent
<1>3. "released" \notin said /\ "nothing sent" \notin said /\ "verified" \notin said
  BY DEF SaidInv
<1> QED
  BY <1>1, <1>2, <1>3 DEF SaidInv

LEMMA ProceedsSays ==
    ASSUME TypeOK, Placed, SaidInv, part \in {"open", "tried", "finally"}, Proceeds,
           UNCHANGED <<fixed, written>>, Head(todo) # "sending",
           Head(todo) = "disconnecting" => slot' = "free"
    PROVE  SaidInv'
<1>1. cmd' = cmd /\ (written' <=> written) /\ written \in BOOLEAN /\ written' = written
  BY DEF fixed, TypeOK
<1>2. CASE part' \in {"open", "tried", "finally"} /\ UNCHANGED <<ending, said>>
             /\ (part = "finally" => part' = "finally")
  BY <1>1, <1>2 DEF SaidInv
<1>3. CASE part = "tried" /\ Len(todo) = 1 /\ Leaves("done")
  <2>1. cmd \notin Writing
    BY <1>3, Heads
  <2> QED
    BY <1>1, <1>3, <2>1, LeavesSays DEF Endings, Unsent
<1>4. CASE /\ part = "finally" /\ Head(todo) = "disconnecting"
           /\ part' = "over" /\ UNCHANGED ending
           /\ said' = said \cup (IF cmd = "identify" THEN {} ELSE {"released"})
                           \cup (IF ending = "done" /\ cmd \in Writing THEN {"verified"} ELSE {})
  BY <1>1, <1>4 DEF SaidInv
<1> QED
  BY <1>1, <1>2, <1>3, <1>4, ProceedsTo

LEMMA RaisesSays ==
    ASSUME TypeOK, Placed, SaidInv, part \in {"open", "tried", "finally"}, UNCHANGED fixed,
           NEW error \in Endings \ {"done"}, Raises(error), written' \in BOOLEAN,
           written' # written => part = "tried" /\ error \notin Unsent
    PROVE  SaidInv'
<1>1. CASE part = "tried" /\ Leaves(error)
  <2>1. error \in Unsent => ~written'
    BY <1>1 DEF SaidInv, TypeOK
  <2> QED
    BY <1>1, <2>1, LeavesSays
<1>2. CASE part # "tried" /\ part' = "over" /\ ending' = error /\ said' = said
  BY <1>2 DEF SaidInv, fixed, TypeOK
<1> QED
  BY <1>1, <1>2, RaisesTo

LEMMA SaidKept == Spec => []SaidInv
<1>1. Init => SaidInv
  BY DEF Init, SaidInv
<1>2. TypeOK /\ Placed /\ SaidInv /\ [Next]_vars => SaidInv'
  <2> SUFFICES ASSUME TypeOK, Placed, SaidInv, [Next]_vars
               PROVE  SaidInv'
    OBVIOUS
  <2>1. CASE Begins
    BY <2>1 DEF Begins, Enter, SaidInv, fixed
  <2>2. CASE ConnectReturns
    BY <2>2, ProceedsSays DEF ConnectReturns, Awaits, At, keyVars
  <2>3. CASE AwaitReturns
    BY <2>3, ProceedsSays DEF AwaitReturns, Awaits, At, keyVars
  <2>4. CASE AwaitRaises \/ NoBaseline
    BY <2>4, RaisesSays DEF AwaitRaises, NoBaseline, Awaits, At, Endings, keyVars, TypeOK
  <2>5. CASE WatchEnds
    BY <2>5, ProceedsSays DEF WatchEnds, Awaits, At, keyVars
  <2>6. CASE PromptAnswered
    <3>1. part = "tried" /\ Head(todo) = "prompt"
      BY <2>6, Heads DEF PromptAnswered, At
    <3>2. CASE Proceeds
      BY <2>6, <3>1, <3>2, ProceedsSays DEF PromptAnswered, keyVars
    <3>3. CASE Leaves("aborted") \/ Raises("error")
      <4>1. Leaves("aborted") \/ Leaves("error")
        BY <3>1, <3>3 DEF Raises
      <4> QED
        BY <2>6, <3>1, <4>1, LeavesSays DEF PromptAnswered, keyVars, Endings, Unsent, SaidInv, TypeOK
    <3> QED
      BY <2>6, <3>2, <3>3 DEF PromptAnswered
  <2>7. CASE SendRefused
    <3>1. part = "tried"
      BY <2>7, Heads DEF SendRefused, At
    <3>2. Leaves("refused") \/ Leaves("rejected") \/ Leaves("dry")
      BY <2>7, <3>1 DEF SendRefused, Raises
    <3> QED
      BY <2>7, <3>1, <3>2, LeavesSays DEF SendRefused, keyVars, Endings, Unsent, SaidInv, TypeOK
  <2>8. CASE Sent
    <3>1. part = "tried" /\ Head(todo) = "sending" /\ written' = TRUE
      BY <2>8, Heads DEF Sent, Awaits, At
    <3>2. CASE Raises("unverified")
      BY <2>8, <3>1, <3>2, LeavesSays DEF Sent, Raises, keyVars, Endings, Unsent
    <3>3. CASE Proceeds
      <4>1. Leaves("done")
        BY <2>8, <3>1, <3>3, Heads, ProceedsTo DEF Sent, fixed
      <4> QED
        BY <2>8, <3>1, <4>1, LeavesSays DEF Sent, keyVars, Endings, Unsent
    <3> QED
      BY <2>8, <3>2, <3>3 DEF Sent
  <2>9. CASE DisconnectEnds
    <3>1. part \in {"open", "tried", "finally"} /\ Head(todo) = "disconnecting"
      BY <2>9 DEF DisconnectEnds, Awaits, At
    <3>2. CASE slot' = "free" /\ Proceeds
      BY <2>9, <3>1, <3>2, ProceedsSays DEF DisconnectEnds, keyVars
    <3>3. CASE Raises("error")
      BY <2>9, <3>1, <3>3, RaisesSays DEF DisconnectEnds, keyVars, Endings, TypeOK
    <3> QED
      BY <2>9, <3>2, <3>3 DEF DisconnectEnds
  <2>10. CASE LinkDrops
    BY <2>10 DEF LinkDrops, SaidInv, fixed
  <2>11. CASE Press
    <3>1. CASE AtPrompt /\ pending
      BY <2>11, <3>1, Heads, LeavesSays DEF Press, AtPrompt, At, Endings, Unsent, SaidInv, TypeOK
    <3>2. CASE ~(AtPrompt /\ pending)
      BY <2>11, <3>2 DEF Press, SaidInv, fixed
    <3> QED
      BY <3>1, <3>2
  <2>12. CASE Interrupted
    <3>1. part \in {"open", "tried", "finally"} /\ UNCHANGED fixed
      BY <2>12 DEF Interrupted
    <3>2. written' \in BOOLEAN /\ (written' # written => Head(todo) = "sending")
      BY <2>12 DEF Interrupted, At, TypeOK
    <3>3. Head(todo) = "sending" => part = "tried"
      BY <3>1, Heads
    <3>4. CASE Raises("interrupted")
      BY <3>1, <3>2, <3>3, <3>4, RaisesSays DEF Endings, Unsent
    <3>5. CASE At("stopping") /\ Proceeds
      BY <3>1, <3>2, <3>5, ProceedsSays DEF At
    <3>6. CASE At("disconnecting") /\ slot = "free" /\ Proceeds
      <4>1. slot' = "free"
        BY <2>12, <3>6 DEF Interrupted, At
      <4> QED
        BY <3>1, <3>2, <3>6, <4>1, ProceedsSays DEF At
    <3> QED
      BY <2>12, <3>4, <3>5, <3>6 DEF Interrupted
  <2>13. CASE UNCHANGED vars
    BY <2>13 DEF vars, SaidInv, fixed
  <2> QED
    BY <2>1, <2>2, <2>3, <2>4, <2>5, <2>6, <2>7, <2>8, <2>9, <2>10, <2>11, <2>12, <2>13
       DEF Next, Works
<1> QED
  BY <1>1, <1>2, TypeCorrect, PTL DEF Spec

(* "Link released", "nothing sent" and "verified" are printed only of what  *)
(* is so, whichever await fails and wherever Ctrl-C is struck.              *)
THEOREM WhatIsSaidIsTrue == Spec => []SaidIsTrue
<1>1. SaidInv => SaidIsTrue
  BY DEF SaidInv, SaidIsTrue
<1> QED
  BY <1>1, SaidKept, PTL

-----------------------------------------------------------------------------
(* What a command gives back                                                *)

(* Before it has connected a command has no link to give back; and the      *)
(* awaits at which a pending Ctrl-C would skip a disconnection are those at *)
(* which it was struck, or those behind a call that does not await.         *)
StrikeInv ==
    /\ part = "new" => slot = "free" /\ ~pending
    /\ part = "open" /\ Head(todo) = "connecting" => slot = "free"
    /\ pending =>
         /\ At("connecting") => StruckAt({"connecting"})
         /\ At("prompt") => StruckAt({"prompt"})
         /\ At("sending") => StruckAt({"prompt", "sending"})
         /\ At("stopping") => StruckAt({"prompt", "sending", "stopping"})

GivesInv == StrikeInv /\ GivesBack

LEMMA StruckMore ==
    ASSUME NEW A, NEW B, A \subseteq B, StruckAt(A)
    PROVE  StruckAt(B)
  BY DEF StruckAt

LEMMA StruckHere ==
    ASSUME TypeOK, NEW A, Head(todo) \in A, Head(todo) \in Places,
           struck' = Append(struck, Head(todo))
    PROVE  StruckAt(A)'
<1>1. ASSUME NEW s \in Seq(Places), NEW e \in Places
      PROVE  Len(s) + 1 \in DOMAIN Append(s, e) /\ Append(s, e)[Len(s) + 1] = e
  BY AppendProperties
<1>2. Len(struck) + 1 \in DOMAIN struck' /\ struck'[Len(struck) + 1] = Head(todo)
  BY <1>1 DEF TypeOK
<1> QED
  BY <1>2 DEF StruckAt

LEMMA LeavesGives ==
    ASSUME TypeOK, UNCHANGED fixed, NEW result \in Endings, Leaves(result),
           pending' => StruckAt({"prompt", "sending", "stopping"})'
    PROVE  GivesInv'
<1>1. part' = "finally" /\ Head(todo') \in {"stopping", "disconnecting"}
  BY LeavesTo DEF fixed
<1> QED
  BY <1>1 DEF GivesInv, StrikeInv, GivesBack, At

LEMMA ProceedsGives ==
    ASSUME TypeOK, Placed, part \in {"open", "tried", "finally"}, Proceeds,
           UNCHANGED fixed, ~pending', Head(todo) = "disconnecting" => slot' = "free"
    PROVE  GivesInv'
<1>1. cmd' = cmd
  BY DEF fixed
<1>2. CASE \/ part' = "open" /\ Head(todo') = "starting"
           \/ part' \in {"tried", "finally"}
           \/ Head(todo) = "disconnecting" /\ part' = "over"
  BY <1>2 DEF GivesInv, StrikeInv, GivesBack
<1>3. CASE Leaves("done")
  BY <1>3, LeavesGives DEF Endings
<1> QED
  BY <1>1, <1>2, <1>3, ProceedsTo

LEMMA RaisesGives ==
    ASSUME TypeOK, Placed, part \in {"open", "tried", "finally"}, UNCHANGED fixed,
           NEW error \in Endings, Raises(error), ~pending',
           part # "tried" /\ slot' = "ours" =>
              \/ Head(todo) = "disconnecting"
              \/ Head(todo) = "starting" /\ cmd = "watch"
              \/ Head(todo) = "connecting" /\ StruckAt({"connecting"})'
              \/ Head(todo) = "stopping" /\ StruckAt({"prompt", "sending", "stopping"})'
    PROVE  GivesInv'
<1>1. CASE part = "tried" /\ Leaves(error)
  BY <1>1, LeavesGives
<1>2. CASE part # "tried" /\ part' = "over" /\ todo' = todo
  BY <1>2 DEF GivesInv, StrikeInv, GivesBack, fixed
<1> QED
  BY <1>1, <1>2, RaisesTo

LEMMA GivesKept == Spec => []GivesInv
<1>1. Init => GivesInv
  BY DEF Init, GivesInv, StrikeInv, GivesBack
<1>2. TypeOK /\ Placed /\ GivesInv /\ [Next]_vars => GivesInv'
  <2> SUFFICES ASSUME TypeOK, Placed, GivesInv, [Next]_vars
               PROVE  GivesInv'
    OBVIOUS
  <2>1. CASE Begins
    BY <2>1 DEF Begins, Enter, GivesInv, StrikeInv, GivesBack, keyVars
  <2>2. CASE ConnectReturns \/ AwaitReturns \/ WatchEnds
    BY <2>2, ProceedsGives DEF ConnectReturns, AwaitReturns, WatchEnds, Awaits, At, keyVars
  <2>3. CASE AwaitRaises \/ NoBaseline
    <3>1. part \in {"open", "tried", "finally"} /\ ~pending' /\ UNCHANGED <<fixed, slot>>
      BY <2>3 DEF AwaitRaises, NoBaseline, Awaits, At, keyVars
    <3>2. \E error \in Endings : Raises(error)
      BY <2>3 DEF AwaitRaises, NoBaseline, Endings
    <3>3. Head(todo) \in {"connecting", "enumerating", "starting", "baseline"}
      BY <2>3 DEF AwaitRaises, NoBaseline, Awaits, At
    <3>4. part = "tried" \/ slot = "free" \/ (Head(todo) = "starting" /\ cmd = "watch")
      BY <3>1, <3>3, Heads DEF GivesInv, StrikeInv
    <3> QED
      BY <3>1, <3>2, <3>4, RaisesGives
  <2>4. CASE PromptAnswered
    <3>1. part = "tried" /\ Head(todo) = "prompt" /\ UNCHANGED <<fixed, struck, pending>>
      BY <2>4, Heads DEF PromptAnswered, At, keyVars
    <3>2. pending => StruckAt({"prompt"})
      BY <3>1 DEF GivesInv, StrikeInv, At
    <3>3. pending' => /\ StruckAt({"prompt", "sending"})'
                      /\ StruckAt({"prompt", "sending", "stopping"})'
      BY <3>1, <3>2, StruckMore DEF StruckAt
    <3>4. CASE Proceeds
      <4>1. part' = "tried" /\ Head(todo') = "sending"
        BY <3>1, <3>4, Heads DEF Proceeds
      <4> QED
        BY <3>3, <4>1 DEF GivesInv, StrikeInv, GivesBack, At
    <3>5. CASE Leaves("aborted") \/ Raises("error")
      BY <3>1, <3>3, <3>5, LeavesGives DEF Raises, Endings
    <3> QED
      BY <2>4, <3>4, <3>5 DEF PromptAnswered
  <2>5. CASE SendRefused
    <3>1. part = "tried" /\ Head(todo) = "sending" /\ UNCHANGED <<fixed, struck, pending>>
      BY <2>5, Heads DEF SendRefused, At, keyVars
    <3>2. pending => StruckAt({"prompt", "sending"})
      BY <3>1 DEF GivesInv, StrikeInv, At
    <3>3. pending' => StruckAt({"prompt", "sending", "stopping"})'
      BY <3>1, <3>2, StruckMore DEF StruckAt
    <3>4. \E result \in Endings : Leaves(result)
      BY <2>5, <3>1 DEF SendRefused, Raises, Endings
    <3> QED
      BY <3>1, <3>3, <3>4, LeavesGives
  <2>6. CASE Sent
    <3>1. part = "tried" /\ Head(todo) = "sending" /\ UNCHANGED <<fixed, struck>> /\ ~pending'
      BY <2>6, Heads DEF Sent, Awaits, At, keyVars
    <3> QED
      BY <2>6, <3>1, ProceedsGives, LeavesGives DEF Sent, Raises, Endings
  <2>7. CASE DisconnectEnds
    <3>1. /\ part \in {"open", "tried", "finally"} /\ Head(todo) = "disconnecting"
          /\ ~pending' /\ UNCHANGED fixed
      BY <2>7 DEF DisconnectEnds, Awaits, At, keyVars
    <3> QED
      BY <2>7, <3>1, ProceedsGives, RaisesGives DEF DisconnectEnds, Endings
  <2>8. CASE LinkDrops
    BY <2>8 DEF LinkDrops, GivesInv, StrikeInv, GivesBack, At, StruckAt, keyVars
  <2>9. CASE Press
    <3>1. Head(todo) \in Places /\ struck' = Append(struck, Head(todo)) /\ UNCHANGED fixed
      BY <2>9, Heads DEF Press
    <3>2. CASE AtPrompt /\ pending
      <4>1. StruckAt({"prompt", "sending", "stopping"})'
        BY <3>1, <3>2, StruckHere DEF AtPrompt, At
      <4> QED
        BY <2>9, <3>1, <3>2, <4>1, LeavesGives DEF Press, Endings
    <3>3. CASE ~(AtPrompt /\ pending)
      <4>1. UNCHANGED <<part, todo, slot>> /\ part \in {"open", "tried", "finally"}
        BY <2>9, <3>3 DEF Press
      <4>2. /\ At("connecting") => StruckAt({"connecting"})'
            /\ At("prompt") => StruckAt({"prompt"})'
            /\ At("sending") => StruckAt({"prompt", "sending"})'
            /\ At("stopping") => StruckAt({"prompt", "sending", "stopping"})'
        BY <3>1, StruckHere DEF At
      <4> QED
        BY <4>1, <4>2 DEF GivesInv, StrikeInv, GivesBack, At
    <3> QED
      BY <3>2, <3>3
  <2>10. CASE Interrupted
    <3>1. /\ part \in {"open", "tried", "finally"} /\ pending /\ UNCHANGED <<fixed, struck>>
      BY <2>10 DEF Interrupted
    <3>2. CASE Raises("interrupted") /\ ~pending'
      <4>1. \A A : StruckAt(A) => StruckAt(A)'
        BY <3>1 DEF StruckAt
      <4>2. part # "tried" =>
               \/ Head(todo) = "disconnecting"
               \/ Head(todo) = "starting" /\ cmd = "watch"
               \/ Head(todo) = "connecting" /\ StruckAt({"connecting"})
               \/ Head(todo) = "stopping" /\ StruckAt({"prompt", "sending", "stopping"})
        BY <3>1, Heads DEF GivesInv, StrikeInv, At
      <4> QED
        BY <3>1, <3>2, <4>1, <4>2, RaisesGives DEF Endings
    <3>3. CASE At("stopping") /\ Proceeds
      <4>1. part' = "finally" /\ Head(todo') = "disconnecting"
        BY <3>1, <3>3, ProceedsTo, Heads DEF At, fixed, TriedAwaits
      <4> QED
        BY <4>1 DEF GivesInv, StrikeInv, GivesBack, At
    <3>4. CASE At("disconnecting") /\ slot = "free" /\ Proceeds /\ ~pending'
      <4>1. slot' = "free"
        BY <2>10, <3>4 DEF Interrupted, At
      <4> QED
        BY <3>1, <3>4, <4>1, ProceedsGives
    <3> QED
      BY <2>10, <3>2, <3>3, <3>4 DEF Interrupted
  <2>11. CASE UNCHANGED vars
    BY <2>11 DEF vars, GivesInv, StrikeInv, GivesBack, At, StruckAt, fixed, keyVars
  <2> QED
    BY <2>1, <2>2, <2>3, <2>4, <2>5, <2>6, <2>7, <2>8, <2>9, <2>10, <2>11 DEF Next, Works
<1> QED
  BY <1>1, <1>2, TypeCorrect, PTL DEF Spec

(* A command that is over has given the link back, but for the ways that    *)
(* GivesBack names, whichever await fails and wherever Ctrl-C is struck.    *)
THEOREM CommandsGiveBack == Spec => []GivesBack
<1>1. GivesInv => GivesBack
  BY DEF GivesInv
<1> QED
  BY <1>1, GivesKept, PTL
=============================================================================
