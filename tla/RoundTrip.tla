------------------------------ MODULE RoundTrip ------------------------------
(***************************************************************************)
(* A command's way through the codec and back: api/service.py and          *)
(* service/commander.py bound, snap and encode a request, the device obeys *)
(* and reports, service/reader.py puts the parts of its packets together,  *)
(* and the commander compares.  What the device does with a command and    *)
(* puts in a packet, and what the link makes of one, is external.          *)
(***************************************************************************)
EXTENDS Codec

CONSTANTS
    Fans,      \* the fan speeds asked for, in tenths of a percent
    Targets,   \* the targets asked for
    Offsets,   \* the bytes of a packet that may be corrupt, ...
    Deltas     \* ... and by how much

ASSUME InputsAssumption ==
    /\ Fans \subseteq Int /\ Targets \subseteq Int
    /\ Offsets \subseteq 0..30 /\ Deltas \subseteq 1..255

VARIABLES
    before,    \* the device's mode, target (in wire units) and fan step, ...
    device,    \* ... and what they become when it obeys
    request,   \* what the caller asks for
    phase,     \* asked, sent, refused, verified
    payload,   \* the bytes written
    report,    \* the state decoded of the last packet published
    intact     \* history: has a packet of the device as it is now come in two parts?

vars == <<before, device, request, phase, payload, report, intact>>

(* The modes that are unlocked, each with the status it is verified by.     *)
ExpectedStatusFor == [off |-> "standby", cool |-> "cool", dry |-> "dry", heat |-> "heat"]

Requests ==
    [kind : {"mode"}, value : DOMAIN ExpectedStatusFor]
      \cup [kind : {"fan"}, value : Fans] \cup [kind : {"target"}, value : Targets]

-----------------------------------------------------------------------------
(* The device, as its captures show it (tests/fixtures).                    *)

(* The range of targets of each mode, in wire units.                        *)
RangeOf ==
    [standby |-> <<20, 80>>, heat |-> <<45, 80>>, turbo |-> <<86, 86>>,
     cool |-> <<38, 52>>, dry |-> <<48, 62>>]

Body(d) ==
    <<1, 86, 27, 1, 0, 0, 0, 48, d.target, StatusMode[d.mode], d.step, 0, 0>>
      \o RangeOf[d.mode] \o <<0, 0, 44, 0, 18, 1, 154, 1, 16, 255, 0, 21, 52, 0, 0>>

Packet(d) == Append(Body(d), ComputeChecksum(Body(d)))

Obeying(d, bytes) ==
    CASE bytes[1] = 3 -> [d EXCEPT !.target = bytes[2]]
      [] bytes[1] = 7 -> [d EXCEPT !.step = bytes[2]]
      [] bytes[1] = 1 ->
            LET c == CHOOSE m \in DOMAIN CommandMode : CommandMode[m] = bytes[2]
            IN [d EXCEPT !.mode = CASE c = "off" -> "standby"
                                    [] c = "extended_heat" -> "heat"
                                    [] OTHER -> c]

-----------------------------------------------------------------------------
(* The commander                                                            *)

(* The percent of a fan speed: http_ws.py and mqtt.py pass int(percent) on, *)
(* which cuts the fraction off.                                             *)
Percent(speed) == IF speed < 0 THEN -((-speed) \div 10) ELSE speed \div 10

(* What is sent, described and verified: both layers snap.                  *)
Snapped(r) ==
    CASE r.kind = "fan" -> SnapFanPercent(SnapFanPercent(Percent(r.value)))
      [] r.kind = "target" -> SnapTargetC(SnapTargetC(r.value))
      [] r.kind = "mode" -> r.value

IsOn(state) == state.mode # {} /\ state.mode # {"standby"}

Encoded(r, state) ==
    CASE r.kind = "mode" -> SetMode(r.value)
      [] r.kind = "fan" ->
            IF FanInRange(Percent(r.value)) /\ IsOn(state) THEN SetFanPercent(Snapped(r)) ELSE Refused
      [] r.kind = "target" ->
            IF TargetRaw(r.value) \in Byte /\ IsOn(state)
            THEN SetTemperature(Snapped(r), state.min, state.max) ELSE Refused

Satisfied(r, state) ==
    CASE r.kind = "mode" -> state.mode = {ExpectedStatusFor[r.value]}
      [] r.kind = "fan" -> state.fan = Snapped(r)
      [] r.kind = "target" -> state.target = Snapped(r)

Send ==
    /\ phase = "asked"
    /\ payload' = Encoded(request, report)
    /\ IF payload' = Refused
       THEN phase' = "refused" /\ UNCHANGED device
       ELSE phase' = "sent" /\ device' = Obeying(device, payload')
    /\ UNCHANGED <<before, request, report, intact>>

-----------------------------------------------------------------------------
(* The reader and the link: what is received is published if it can be      *)
(* trusted, and compared by the commander that waits.                       *)

Published(packet) ==
    /\ IsTrustworthy(packet)
    /\ report' = DecodeStatus(packet)
    /\ phase' = IF Satisfied(request, report') THEN "verified" ELSE phase

Discarded(packet) ==
    /\ ~IsTrustworthy(packet)
    /\ UNCHANGED <<report, phase>>

(* A notification, and the remainder that a read returns when it is needed. *)
OnNotify(notification, remainder) ==
    LET packet == IF IsComplete(notification) THEN notification
                  ELSE Reassemble(notification, remainder)
    IN IF LooksLikePacketStart(notification)
       THEN Published(packet) \/ Discarded(packet)
       ELSE UNCHANGED <<report, phase>>

FirstPart(p, n) == SubSeq(p, 1, n)
Remainder(p, n) == SubSeq(p, n + 1, Len(p))

SplitAt == 20    \* where this device splits a packet

ArrivesInParts ==
    /\ \E n \in 2..31 :
         OnNotify(FirstPart(Packet(device), n), Remainder(Packet(device), n))
    /\ intact' = TRUE

(* A packet of before, whole or mixed with one of now at any byte: the two  *)
(* parts come of two notifications, a command between them.                 *)
ArrivesMixed ==
    /\ \E n \in 2..31, p, q \in {Packet(before), Packet(device)} :
         OnNotify(FirstPart(p, n), Remainder(q, n))
    /\ UNCHANGED intact

(* A remainder that is taken for a packet, or a packet for a remainder.     *)
ArrivesMisplaced ==
    /\ LET p == Packet(device) IN
         \/ \E n \in 0..30 : OnNotify(Remainder(p, n), Remainder(p, SplitAt))
         \/ OnNotify(FirstPart(p, SplitAt), p)
    /\ UNCHANGED intact

ArrivesCorrupt ==
    /\ \E i \in Offsets, delta \in Deltas :
         LET p == Packet(device)
         IN OnNotify([p EXCEPT ![i + 1] = (@ + delta) % 256], Remainder(p, SplitAt))
    /\ UNCHANGED intact

Arrives ==
    /\ phase = "sent"
    /\ ArrivesInParts \/ ArrivesMixed \/ ArrivesMisplaced \/ ArrivesCorrupt
    /\ UNCHANGED <<before, device, request, payload>>

-----------------------------------------------------------------------------
Init ==
    /\ device \in {[mode |-> m, target |-> RangeOf[m][1], step |-> 9] : m \in DOMAIN StatusMode}
    /\ before = device
    /\ report = DecodeStatus(Packet(device))
    /\ phase = "asked" /\ payload = Refused /\ intact = FALSE
    /\ request \in Requests

Next == Send \/ Arrives

Spec == Init /\ [][Next]_vars

-----------------------------------------------------------------------------
(* "Anything that acts on device state must gate on this" (packets.py:114): *)
(* what is published is the state the device is in or was in before,        *)
(* whatever the link has delayed, mixed, misplaced or corrupted.            *)
OnlyIntact == report \in {DecodeStatus(Packet(before)), DecodeStatus(Packet(device))}

(* A command the device obeys is verified by its next packet, of every      *)
(* percent and target the interfaces accept, on the grid or off it, and     *)
(* wherever the packet is split: "verifying the raw request would report    *)
(* unverified for a command the device obeyed" (commander.py:398).          *)
ObeyedIsVerified == intact => phase = "verified"

Distance(a, b) == IF a < b THEN b - a ELSE a - b

FanIsKept ==
    /\ phase \in {"sent", "verified"} =>
         /\ request.value \in 50..1009
         /\ Distance(10 * FanStepToPercent(device.step), request.value) < 30
    /\ phase = "refused" => request.value \notin 50..1000

TargetIsKept ==
    LET permitted == RangeOf[device.mode][1]..RangeOf[device.mode][2]
        nearest == {w \in Byte : Distance(TempByteToC(w), request.value) <= 5}
    IN /\ phase \in {"sent", "verified"} => device.target \in nearest \cap permitted
       /\ phase = "refused" => nearest = {} \/ ~(nearest \subseteq permitted)

(* "Out-of-range values raise rather than clamp" (encode.py:177), and       *)
(* "values outside 5-100% are rejected rather than snapped inward"          *)
(* (encode.py:122): a fan speed or a target that is sent is within half a   *)
(* step of what was asked for, but for the fraction of a percent that is    *)
(* cut off, a target is in the range of the device's mode, and a device     *)
(* that is on is refused only what could not be.                            *)
RequestIsKept ==
    IsOn(report) =>
        CASE request.kind = "fan" -> FanIsKept
          [] request.kind = "target" -> TargetIsKept
          [] request.kind = "mode" -> TRUE

(* The same without the exception: "accepting 200% and quietly sending 100% *)
(* teaches the caller that its input was fine" (encode.py:123).  100.9% is  *)
(* accepted, and 100% sent.                                                 *)
NoFanSnapsInward ==
    request.kind = "fan" /\ phase \in {"sent", "verified"} => request.value \in 50..1000
=============================================================================
