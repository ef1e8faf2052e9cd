-------------------------------- MODULE OneShot --------------------------------
(***************************************************************************)
(* The commands that borrow the link, cli.py: identify, watch, off, fan,   *)
(* mode and temp.  Each is a script: awaits in the open, awaits in a try   *)
(* block with its except clauses, and a finally clause that gives the link *)
(* back.  What Ctrl-C does is asyncio.run's: the first cancels the task,   *)
(* the second raises KeyboardInterrupt and cancels it again.  The prompt is*)
(* no await: it blocks the loop, and the cancellation waits behind it.     *)
(***************************************************************************)
EXTENDS Naturals, Sequences

CONSTANT MaxPresses     \* bound: how often Ctrl-C is pressed, 2 at most

ASSUME PressesAssumption == MaxPresses \in 0..2

VARIABLES
    cmd,      \* the command
    opt,      \* --dry-run, --yes, --seconds
    part,     \* its part: new, open, tried, finally or over
    todo,     \* the awaits left of that part, the present one first;
              \* when over, those that an error has skipped
    ending,   \* what it will return or raise
    slot,     \* the device's slot: free, or ours
    written,  \* may a byte have reached the device?
    said,     \* what it has printed of its outcome
    struck,   \* history: where the command was at each Ctrl-C
    pending   \* is a cancellation to be received?

vars == <<cmd, opt, part, todo, ending, slot, written, said, struck, pending>>
fixed == <<cmd, opt>>
keyVars == <<struck, pending>>

-----------------------------------------------------------------------------
(* The scripts                                                              *)

Identify ==
    [open |-> <<"connecting">>, tried |-> <<"enumerating", "naming">>,
     finally |-> <<"disconnecting">>, catches |-> {}]

(* Ctrl-C is the way to end it.                                             *)
Watch ==
    [open |-> <<"connecting", "starting">>, tried |-> <<"watching">>,
     finally |-> <<"stopping", "disconnecting">>, catches |-> {"interrupted"}]

(* Nothing is asked of whoever rehearses, or has said yes.                  *)
Sends ==
    IF opt.dry \/ opt.yes THEN <<"starting", "baseline", "sending">>
                          ELSE <<"starting", "baseline", "prompt", "sending">>

OffInTheOpen ==                                   \* fault: the try block begins late
    [open |-> <<"connecting", "starting">>, tried |-> Tail(Sends),
     finally |-> <<"stopping", "disconnecting">>, catches |-> {"refused", "unverified"}]

Off ==
    [open |-> <<"connecting">>, tried |-> Sends,
     finally |-> <<"stopping", "disconnecting">>, catches |-> {"refused", "unverified"}]

(* A speed that cannot be encoded is nobody's error.                        *)
Fan ==
    [open |-> <<"connecting">>, tried |-> Sends,
     finally |-> <<"stopping", "disconnecting">>, catches |-> {"refused", "unverified"}]

Mode ==
    [open |-> <<"connecting">>, tried |-> Sends,
     finally |-> <<"stopping", "disconnecting">>, catches |-> {"refused", "unverified"}]

Temp ==
    [open |-> <<"connecting">>, tried |-> Sends,
     finally |-> <<"stopping", "disconnecting">>,
     catches |-> {"refused", "unverified", "rejected"}]

Scripts ==
    [identify |-> Identify, watch |-> Watch, off |-> Off, fan |-> Fan, mode |-> Mode, temp |-> Temp]

Script == Scripts[cmd]
Writing == {"off", "fan", "mode", "temp"}
Commands == {"identify", "watch"} \cup Writing

At(await) == part \in {"open", "tried", "finally"} /\ Head(todo) = await

(* A cancelled task does nothing but receive its CancelledError.            *)
Awaits(await) == At(await) /\ ~pending

Init ==
    /\ cmd \in Commands
    /\ opt \in [dry : BOOLEAN, yes : BOOLEAN, timed : BOOLEAN]
    /\ part = "new" /\ todo = <<>> /\ ending = "none"
    /\ slot = "free" /\ written = FALSE /\ said = {}
    /\ struck = <<>> /\ pending = FALSE

-----------------------------------------------------------------------------
(* How a script goes on                                                     *)

Enter(p, awaits) == part' = p /\ todo' = awaits

(* Fault: one except clause for whatever the Commander raises.              *)
ReportsAlike(result) ==
    IF result \in {"aborted", "dry"} \/ result \in Script.catches THEN {"nothing sent"} ELSE {}

(* What the except clauses and the early returns print.                     *)
Reports(result) ==
    IF \/ result \in {"aborted", "dry"}
       \/ result \in Script.catches \cap {"refused", "rejected"} THEN {"nothing sent"} ELSE {}

Leaves(result) ==
    /\ Enter("finally", Script.finally) /\ ending' = result
    /\ said' = said \cup Reports(result)

(* The await has returned.                                                  *)
Proceeds ==
    \/ /\ Len(todo) > 1 /\ todo' = Tail(todo)
       /\ UNCHANGED <<part, ending, said>>
    \/ /\ Len(todo) = 1 /\ part = "open" /\ Enter("tried", Script.tried)
       /\ UNCHANGED <<ending, said>>
    \/ Len(todo) = 1 /\ part = "tried" /\ Leaves("done")
    \/ /\ Len(todo) = 1 /\ part = "finally" /\ Enter("over", <<>>)
       /\ said' = said \cup (IF cmd = "identify" THEN {} ELSE {"released"})
                       \cup (IF ending = "done" /\ cmd \in Writing THEN {"verified"} ELSE {})
       /\ UNCHANGED ending

(* It has raised.  A finally clause that raises is not resumed.             *)
Raises(error) ==
    IF part = "tried" THEN Leaves(error)
    ELSE Enter("over", todo) /\ ending' = error /\ UNCHANGED said

-----------------------------------------------------------------------------
(* _check_ownership                                                         *)
Begins ==
    /\ part = "new"
    /\ \/ Enter("open", Script.open) /\ UNCHANGED ending
       \/ Enter("over", <<>>) /\ ending' = "error"
    /\ UNCHANGED <<fixed, slot, written, said, keyVars>>

ConnectReturns ==
    /\ Awaits("connecting")
    /\ slot' = "ours" /\ Proceeds
    /\ UNCHANGED <<fixed, written, keyVars>>

(* The reading of the name may fail; nothing else here may without an error.*)
AwaitReturns ==
    /\ \E a \in {"enumerating", "naming", "starting", "baseline", "stopping"} : Awaits(a)
    /\ Proceeds
    /\ UNCHANGED <<fixed, slot, written, keyVars>>

AwaitRaises ==
    /\ \E a \in {"connecting", "enumerating", "starting"} : Awaits(a)
    /\ Raises("error")
    /\ UNCHANGED <<fixed, slot, written, keyVars>>

(* There is no packet to compare against.                                   *)
NoBaseline ==
    /\ Awaits("baseline")
    /\ Raises("refused")
    /\ UNCHANGED <<fixed, slot, written, keyVars>>

WatchEnds ==
    /\ Awaits("watching") /\ opt.timed
    /\ Proceeds
    /\ UNCHANGED <<fixed, slot, written, keyVars>>

(* input() does not see the cancellation: its handler returns.              *)
PromptAnswered ==
    /\ At("prompt")
    /\ Proceeds \/ Leaves("aborted") \/ Raises("error")
    /\ UNCHANGED <<fixed, slot, written, keyVars>>

(* The Commander refuses without an await, also one that is cancelled.      *)
SendRefused ==
    /\ At("sending")
    /\ \/ Raises("refused")
       \/ cmd \in {"fan", "temp"} /\ Raises("rejected")
       \/ opt.dry /\ Leaves("dry")
    /\ UNCHANGED <<fixed, slot, written, keyVars>>

Sent ==
    /\ Awaits("sending") /\ ~opt.dry
    /\ written' = TRUE
    /\ Raises("unverified") \/ Proceeds
    /\ UNCHANGED <<fixed, slot, keyVars>>

DisconnectEnds ==
    /\ Awaits("disconnecting")
    /\ \/ slot' = "free" /\ Proceeds
       \/ slot' \in {slot, "free"} /\ Raises("error")
    /\ UNCHANGED <<fixed, written, keyVars>>

LinkDrops ==
    /\ slot = "ours" /\ slot' = "free"
    /\ UNCHANGED <<fixed, part, todo, ending, written, said, keyVars>>

-----------------------------------------------------------------------------
(* Ctrl-C                                                                   *)

AtPrompt == At("prompt")

(* A second one at the prompt is raised out of input(), with the first yet  *)
(* to be received.                                                          *)
Press ==
    /\ part \in {"open", "tried", "finally"} /\ Len(struck) < MaxPresses
    /\ struck' = Append(struck, Head(todo))
    /\ pending' = TRUE
    /\ IF AtPrompt /\ pending THEN Leaves("interrupted")
       ELSE UNCHANGED <<part, todo, ending, said>>
    /\ UNCHANGED <<fixed, slot, written>>

(* Fault: watch catches it before the loop is left.                         *)
InterruptedGoesOn ==
    /\ pending /\ ~AtPrompt /\ part \in {"open", "tried", "finally"}
    /\ pending' = FALSE
    /\ IF part = "tried" /\ ~At("watching") THEN Leaves("interrupted")
       ELSE UNCHANGED <<part, todo, ending, said>>
    /\ UNCHANGED <<fixed, slot, written, struck>>

(* The CancelledError is received, at an await.  The request being sent may *)
(* have gone out, as may the one to connect or disconnect.  stop() awaits a *)
(* task it has cancelled, and takes our cancellation for that task's; or it *)
(* has nothing to await.                                                    *)
Interrupted ==
    /\ pending /\ ~AtPrompt /\ part \in {"open", "tried", "finally"}
    /\ \/ Raises("interrupted") /\ pending' = FALSE
       \/ At("stopping") /\ Proceeds /\ pending' \in BOOLEAN
       \/ At("disconnecting") /\ slot = "free" /\ Proceeds /\ pending' = FALSE
    /\ written' \in {written, written \/ (At("sending") /\ ~opt.dry)}
    /\ slot' \in IF At("connecting") THEN {"free", "ours"}
                 ELSE IF At("disconnecting") THEN {slot, "free"} ELSE {slot}
    /\ UNCHANGED <<fixed, struck>>

Works ==
    \/ Begins \/ ConnectReturns \/ AwaitReturns \/ AwaitRaises \/ NoBaseline
    \/ WatchEnds \/ SendRefused \/ Sent \/ DisconnectEnds \/ Interrupted

Next == Works \/ PromptAnswered \/ LinkDrops \/ Press

Spec == Init /\ [][Next]_vars

(* Connecting, reading and writing have time limits; the loop of a timed    *)
(* watch counts its seconds.  Nobody need answer a prompt.                  *)
FairSpec == Spec /\ WF_vars(Works)

-----------------------------------------------------------------------------
Endings == {"none", "done", "aborted", "dry", "refused", "rejected", "unverified",
            "interrupted", "error"}

Places == {"connecting", "enumerating", "naming", "watching", "starting", "baseline", "prompt",
           "sending", "stopping", "disconnecting"}

TypeOK ==
    /\ cmd \in Commands /\ opt \in [dry : BOOLEAN, yes : BOOLEAN, timed : BOOLEAN]
    /\ part \in {"new", "open", "tried", "finally", "over"} /\ todo \in Seq(Places)
    /\ ending \in Endings /\ slot \in {"free", "ours"} /\ written \in BOOLEAN
    /\ said \subseteq {"nothing sent", "verified", "released"}
    /\ struck \in Seq(Places) /\ Len(struck) <= MaxPresses /\ pending \in BOOLEAN

StruckAt(awaits) == \E i \in DOMAIN struck : struck[i] \in awaits

(* "Link released - the vendor app can connect again", "nothing sent" and   *)
(* "verified" are printed only of what is so, however the command was left. *)
SaidIsTrue ==
    /\ "released" \in said => slot = "free"
    /\ "nothing sent" \in said => ~written
    /\ "verified" \in said => written

(* A command that is over has given the link back, unless the disconnection *)
(* failed, watch could not start its reader, or Ctrl-C came while it was    *)
(* connecting, at the prompt, before a refusal, or giving the link back.    *)
GivesBack ==
    part = "over" /\ slot = "ours" =>
        \/ Head(todo) = "disconnecting"
        \/ cmd = "watch" /\ Head(todo) = "starting"
        \/ Head(todo) = "connecting" /\ StruckAt({"connecting"})
        \/ Head(todo) = "stopping" /\ StruckAt({"prompt", "sending", "stopping"})

(* Every command ends, unless it waits for its user: for an answer, or for  *)
(* the Ctrl-C that ends a watch without --seconds; and that does end it.    *)
CommandEnds ==
    part # "over" ~> \/ part = "over"
                     \/ AtPrompt
                     \/ At("watching") /\ ~opt.timed /\ ~StruckAt({"watching"})

(* Not so: "Always release the link" (cmd_watch's finally clause): watch    *)
(* starts its reader before the try block, and Ctrl-C skips a disconnection.*)
AlwaysReleases == part = "over" => slot = "free" \/ Head(todo) = "disconnecting"

(* Not so: nothing is written for whoever struck Ctrl-C at the prompt.      *)
PromptIsLastWord == [][written' # written => ~StruckAt({"prompt"})]_vars
=============================================================================
