----------------------------- MODULE MCCommander -----------------------------
(* Small instances of Commander for TLC: one mode that may be sent and one  *)
(* that is locked, which permit different values.                           *)
EXTENDS Commander, TLC

CONSTANTS r1, r2, cool, turbo, low, high

OneRequest == {r1}
TwoRequests == {r1, r2}
BothModes == {cool, turbo}
CoolOnly == {cool}
BothValues == {low, high}
ByMode == [m \in BothModes |-> IF m = turbo THEN {high} ELSE BothValues]

Everything == Command
ForReal == {cmd \in Command : ~cmd.dry /\ cmd.arg # turbo}
ForRealButHigh == {cmd \in ForReal : cmd.arg # high}
OffAndCool == {cmd \in ForReal : cmd.op # "set"}
JustOff == {cmd \in ForReal : cmd.op = "off"}

(* Requests are interchangeable: no action or safety property names one.    *)
Symmetry == Permutations(Requests)
=============================================================================
