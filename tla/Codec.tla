-------------------------------- MODULE Codec --------------------------------
(***************************************************************************)
(* The protocol codec, protocol/encode.py, decode.py and constants.py:     *)
(* status packets with their fragments and checksum, and the encoding of   *)
(* commands with its snapping and bounding.                                *)
(*                                                                         *)
(* A packet is a sequence of bytes: offset 0 of the code is index 1 here.  *)
(* A temperature is counted in twentieths of a degree Celsius, of which a  *)
(* wire unit, half a degree, has ten.                                      *)
(***************************************************************************)
EXTENDS Integers, Sequences

Byte == 0..255
None == -1

HeaderLength == 4
MinStatusLength == 11
Formats == {86, 5}           \* PACKET_FORMAT_V3_HOME, PACKET_FORMAT_DEBUG

Offset == [PacketFormat |-> 1, PayloadLength |-> 2, TargetTemp |-> 8, Mode |-> 9,
           FanStep |-> 10, MinTemp |-> 13, MaxTemp |-> 14]

StatusMode ==
    [standby |-> 0, heat |-> 1, turbo |-> 2, cool |-> 4, dry |-> 5]

CommandMode ==
    [off |-> 1, cool |-> 2, heat |-> 3, turbo |-> 4, dry |-> 5, extended_heat |-> 6]

-----------------------------------------------------------------------------
(* Status packets                                                           *)

U8(data, offset) == IF offset < Len(data) THEN data[offset + 1] ELSE None

Sum(data) ==
    LET upTo[n \in 0..Len(data)] == IF n = 0 THEN 0 ELSE upTo[n - 1] + data[n]
    IN upTo[Len(data)]

ComputeChecksum(body) == (-Sum(body)) % 256

VerifyChecksum(packet) == packet # <<>> /\ Sum(packet) % 256 = 0

ExpectedTotal(data) ==
    IF U8(data, Offset.PayloadLength) = None THEN None
    ELSE U8(data, Offset.PayloadLength) + HeaderLength

IsComplete(data) == ExpectedTotal(data) # None /\ Len(data) >= ExpectedTotal(data)

(* Fault: a complete packet is believed.                                    *)
IsTrustworthyUnchecked(data) == IsComplete(data)

(* Of a packet too short for a mode and a fan speed the checksum is not     *)
(* computed, and of a longer one it covers the declared length.             *)
IsTrustworthy(data) ==
    /\ Len(data) >= MinStatusLength /\ IsComplete(data)
    /\ VerifyChecksum(SubSeq(data, 1, ExpectedTotal(data)))

LooksLikePacketStart(data) == U8(data, Offset.PacketFormat) \in Formats

Reassemble(first, remainder) == first \o remainder

TempByteToC(raw) == 10 * raw

FanStepToPercent(step) == 5 + 5 * step

(* decode_status, as far as the state that commands are verified against.   *)
DecodeStatus(data) ==
    [mode |-> {m \in DOMAIN StatusMode : StatusMode[m] = U8(data, Offset.Mode)},
     target |-> TempByteToC(U8(data, Offset.TargetTemp)),
     fan |-> IF U8(data, Offset.FanStep) \in 0..19
             THEN FanStepToPercent(U8(data, Offset.FanStep)) ELSE None,
     min |-> TempByteToC(U8(data, Offset.MinTemp)),
     max |-> TempByteToC(U8(data, Offset.MaxTemp))]

-----------------------------------------------------------------------------
(* Commands.  One that raises CommandError is Refused.                      *)

Refused == <<>>

(* Python's round(n / d): the nearest integer, of two the even one.         *)
Round(n, d) ==
    LET q == n \div d
        r == n % d
    IN IF 2 * r < d \/ (2 * r = d /\ q % 2 = 0) THEN q ELSE q + 1

FanInRange(percent) == percent \in 5..100

FanPercentToStep(percent) == Round(percent - 5, 5)

SnapFanPercent(percent) == FanStepToPercent(FanPercentToStep(percent))

SetFanPercent(percent) ==
    IF FanInRange(percent) THEN <<7, FanPercentToStep(percent)>> ELSE Refused

TargetRaw(celsius) == Round(celsius, 10)

SnapTargetC(celsius) == TempByteToC(TargetRaw(celsius))

(* Fault: clamps to the range.                                              *)
SetTemperatureClamps(celsius, min, max) ==
    <<3, TargetRaw(IF celsius < min THEN min ELSE IF celsius > max THEN max ELSE celsius)>>

SetTemperature(celsius, min, max) ==
    IF celsius \in min..max THEN <<3, TargetRaw(celsius)>> ELSE Refused

(* Fault: the other enum.                                                   *)
SetModeByStatus(mode) ==
    <<1, IF mode \in DOMAIN StatusMode THEN StatusMode[mode] ELSE CommandMode[mode]>>

SetMode(mode) == <<1, CommandMode[mode]>>
=============================================================================
