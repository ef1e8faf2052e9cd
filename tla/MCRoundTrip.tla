----------------------------- MODULE MCRoundTrip -----------------------------
(* Every percent from below the range to above it, with and without a       *)
(* fraction, every twentieth of a degree around the ends of the wire's byte and of the modes' ranges, and  *)
(* one corrupt bit in the bytes that decide anything.                       *)
EXTENDS RoundTrip

SomeFans == {10 * percent + tenths : percent \in -2..102, tenths \in {0, 5, 9}}

Around(ends) == UNION {(10 * w - 8)..(10 * w + 8) : w \in ends}
SomeTargets == Around({0, 255} \cup UNION {{RangeOf[m][1], RangeOf[m][2]} : m \in DOMAIN RangeOf})

Deciding ==
    {Offset.PacketFormat, Offset.PayloadLength, Offset.TargetTemp, Offset.Mode,
     Offset.FanStep, Offset.MinTemp, 30}
OneBit == {2 ^ k : k \in 0..7}
=============================================================================
