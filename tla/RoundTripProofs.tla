--------------------------- MODULE RoundTripProofs ---------------------------
(***************************************************************************)
(* Proofs about RoundTrip: what Sum computes of any packet, then what the  *)
(* codec makes of any request, that a request is kept or refused, and that *)
(* only what the device sent is published.                                 *)
(***************************************************************************)
EXTENDS RoundTrip, SequenceTheorems, WellFoundedInduction, TLAPS

-----------------------------------------------------------------------------
(* Sum.  What a recursive function computes is shown by induction, and that *)
(* in the form of sets: a set of numbers from 0 to n that holds 0 and goes  *)
(* on from each number to the next has no least number that it misses.      *)

LEMMA Smallest ==
    ASSUME NEW T \in SUBSET Nat, T # {}
    PROVE  \E m \in T : \A k \in T : m <= k
<1> DEFINE R == {ss \in Nat \X Nat : ss[1] < ss[2]}
<1>1. IsWellFoundedOn(R, Nat)
  BY NatLessThanWellFounded DEF OpToRel
<1>2. \E x \in T : \A y \in T : ~ (<<y, x>> \in R)
  <2> HIDE DEF R
  <2> QED
    BY <1>1, WFMin
<1>3. \A x, y \in Nat : <<y, x>> \notin R => x <= y
  OBVIOUS
<1> QED
  <2> HIDE DEF R
  <2> QED
    BY <1>2, <1>3

LEMMA ByInduction ==
    ASSUME NEW n \in Nat, NEW T \in SUBSET (0..n), 0 \in T,
           \A k \in 1..n : k - 1 \in T => k \in T
    PROVE  T = 0..n
<1> DEFINE Missing == (0..n) \ T
<1>1. SUFFICES ASSUME Missing # {}
               PROVE  FALSE
  OBVIOUS
<1>2. Missing \in SUBSET Nat
  OBVIOUS
<1>3. PICK m \in Missing : \A k \in Missing : m <= k
  <2> HIDE DEF Missing
  <2> QED
    BY <1>1, <1>2, Smallest
<1>4. m \in 1..n /\ m - 1 \in T
  BY <1>3
<1> QED
  BY <1>3, <1>4

Running(f, data, n) ==
    \A i \in 0..n : f[i] = IF i = 0 THEN 0 ELSE f[i - 1] + data[i]

UpTo(data) ==
    CHOOSE f : f = [n \in 0..Len(data) |-> IF n = 0 THEN 0 ELSE f[n - 1] + data[n]]

LEMMA RunningExists ==
    ASSUME NEW data, NEW n \in Nat, \A i \in 1..n : data[i] \in Int
    PROVE  \E f \in [0..n -> Int] : Running(f, data, n)
<1> DEFINE Upto(k) == \E f \in [0..k -> Int] : Running(f, data, k)
           T == {k \in 0..n : Upto(k)}
<1>1. Upto(0)
  <2>1. [i \in 0..0 |-> 0] \in [0..0 -> Int] /\ Running([i \in 0..0 |-> 0], data, 0)
    BY DEF Running
  <2> QED
    BY <2>1
<1>2. ASSUME NEW k \in 1..n, Upto(k - 1)
      PROVE  Upto(k)
  <2>1. PICK f \in [0..(k - 1) -> Int] : Running(f, data, k - 1)
    BY <1>2
  <2> DEFINE g == [i \in 0..k |-> IF i = k THEN f[k - 1] + data[k] ELSE f[i]]
  <2>2. g \in [0..k -> Int]
    BY <2>1
  <2>3. ASSUME NEW i \in 0..k
        PROVE  g[i] = IF i = 0 THEN 0 ELSE g[i - 1] + data[i]
    <3>1. CASE i = k
      BY <3>1, <2>1
    <3>2. CASE i < k
      BY <3>2, <2>1 DEF Running
    <3> QED
      BY <3>1, <3>2
  <2> QED
    BY <2>2, <2>3 DEF Running
<1> HIDE DEF Upto
<1>3. T = 0..n
  <2>1. T \in SUBSET (0..n) /\ 0 \in T /\ \A k \in 1..n : k - 1 \in T => k \in T
    BY <1>1, <1>2
  <2> HIDE DEF T
  <2> QED
    BY <2>1, ByInduction
<1> QED
  BY <1>3 DEF Upto

LEMMA RunningAgrees ==
    ASSUME NEW data, NEW more, NEW n \in Nat, NEW f, NEW g,
           \A i \in 1..n : more[i] = data[i], Running(f, data, n), Running(g, more, n)
    PROVE  f[n] = g[n]
<1> DEFINE T == {k \in 0..n : f[k] = g[k]}
<1>1. 0 \in T
  BY DEF Running
<1>2. \A k \in 1..n : k - 1 \in T => k \in T
  BY DEF Running
<1>3. T = 0..n
  <2> HIDE DEF T
  <2>1. T \in SUBSET (0..n)
    BY DEF T
  <2> QED
    BY <1>1, <1>2, <2>1, ByInduction
<1> QED
  BY <1>3

LEMMA RunningOnce ==
    ASSUME NEW data, NEW n \in Nat, NEW f, NEW g, Running(f, data, n), Running(g, data, n)
    PROVE  f[n] = g[n]
<1>1. \A i \in 1..n : data[i] = data[i]
  OBVIOUS
<1> QED
  BY <1>1, RunningAgrees

LEMMA UpToRuns ==
    ASSUME NEW data \in Seq(Int)
    PROVE  Running(UpTo(data), data, Len(data)) /\ Sum(data) = UpTo(data)[Len(data)]
<1> DEFINE n == Len(data)
<1>1. n \in Nat /\ \A i \in 1..n : data[i] \in Int
  OBVIOUS
<1>2. Sum(data) = UpTo(data)[n]
  BY DEF Sum, UpTo
<1>3. UpTo(data) = CHOOSE f : f = [k \in 0..n |-> IF k = 0 THEN 0 ELSE f[k - 1] + data[k]]
  BY DEF UpTo
<1> HIDE DEF n
<1>4. PICK f \in [0..n -> Int] : Running(f, data, n)
  BY <1>1, RunningExists
<1>5. f = [k \in 0..n |-> IF k = 0 THEN 0 ELSE f[k - 1] + data[k]]
  BY <1>1, <1>4 DEF Running
<1>6. UpTo(data) = [k \in 0..n |-> IF k = 0 THEN 0 ELSE UpTo(data)[k - 1] + data[k]]
  BY <1>3, <1>5
<1>7. Running(UpTo(data), data, n)
  BY <1>6 DEF Running
<1> QED
  BY <1>2, <1>7 DEF n

(* The sum of a packet with one more byte at its end.                       *)
LEMMA SumOfAppend ==
    ASSUME NEW data \in Seq(Int), NEW x \in Int
    PROVE  Sum(data) \in Int /\ Sum(Append(data, x)) = Sum(data) + x
<1> DEFINE n == Len(data)
           more == Append(data, x)
<1>1. n \in Nat /\ \A i \in 1..n : data[i] \in Int
  OBVIOUS
<1>2. /\ more \in Seq(Int) /\ Len(more) = n + 1
      /\ \A i \in 1..n : more[i] = data[i]
      /\ more[n + 1] = x
  BY AppendProperties
<1>3. Running(UpTo(data), data, n) /\ Sum(data) = UpTo(data)[n]
  BY UpToRuns
<1>4. Running(UpTo(more), more, n + 1) /\ Sum(more) = UpTo(more)[n + 1]
  BY <1>2, UpToRuns
<1> HIDE DEF n, more
<1>5. Running(UpTo(more), more, n)
  BY <1>1, <1>4 DEF Running
<1>6. UpTo(data)[n] = UpTo(more)[n]
  BY <1>1, <1>2, <1>3, <1>5, RunningAgrees
<1>7. UpTo(more)[n + 1] = UpTo(more)[n] + x
  BY <1>1, <1>2, <1>4 DEF Running
<1>8. UpTo(data)[n] \in Int
  <2>1. PICK f \in [0..n -> Int] : Running(f, data, n)
    BY <1>1, RunningExists
  <2>2. f[n] = UpTo(data)[n]
    BY <1>1, <1>3, <2>1, RunningAgrees
  <2> QED
    BY <1>1, <2>1, <2>2
<1> QED
  BY <1>3, <1>4, <1>6, <1>7, <1>8 DEF more

-----------------------------------------------------------------------------
(* The device's packets                                                     *)

Devices == [mode : DOMAIN StatusMode, target : Byte, step : 0..19]

Bytes(s, n) == s \in Seq(Int) /\ Len(s) = n

LEMMA Joined ==
    ASSUME NEW s \in Seq(Int), NEW t \in Seq(Int)
    PROVE  LET r == Reassemble(s, t)
           IN /\ r \in Seq(Int) /\ Len(r) = Len(s) + Len(t)
              /\ \A i \in 1..Len(s) : r[i] = s[i]
              /\ \A i \in 1..Len(t) : r[Len(s) + i] = t[i]
<1>1. s \o t \in Seq(Int) /\ Len(s \o t) = Len(s) + Len(t)
  BY ConcatProperties
<1>2. \A i \in 1..Len(s) : (s \o t)[i] = s[i]
  BY ConcatProperties
<1>3. \A i \in 1..Len(t) : (s \o t)[Len(s) + i] = t[i]
  OBVIOUS
<1> QED
  BY <1>1, <1>2, <1>3 DEF Reassemble

LEMMA Concatenated ==
    ASSUME NEW m \in Nat, NEW n \in Nat, NEW s, NEW t, Bytes(s, m), Bytes(t, n)
    PROVE  LET r == Reassemble(s, t)
           IN /\ Bytes(r, m + n)
              /\ \A i \in 1..m : r[i] = s[i]
              /\ \A i \in m + 1..m + n : r[i] = t[i - m]
<1> DEFINE r == Reassemble(s, t)
           k == Len(s)
           l == Len(t)
           c == Len(r)
<1>1. s \in Seq(Int) /\ t \in Seq(Int) /\ k = m /\ l = n
  BY DEF Bytes
<1>2. /\ r \in Seq(Int) /\ c = k + l
      /\ \A i \in 1..k : r[i] = s[i]
      /\ \A i \in 1..l : r[k + i] = t[i]
  BY <1>1, Joined
<1> HIDE DEF k, l, c
<1>3. c = m + n
  BY <1>1, <1>2
<1>4. ASSUME NEW i \in m + 1..m + n
      PROVE  r[i] = t[i - m]
  <2>1. i - m \in 1..l /\ k + (i - m) = i
    BY <1>1, <1>3
  <2> QED
    BY <1>2, <2>1
<1> QED
  BY <1>1, <1>2, <1>3, <1>4 DEF Bytes, c

Longer(s, x) == Append(s, x)

LEMMA Appended ==
    ASSUME NEW n \in Nat, NEW s, NEW x \in Int, Bytes(s, n)
    PROVE  /\ Bytes(Longer(s, x), n + 1) /\ \A i \in 1..n : Longer(s, x)[i] = s[i]
           /\ Longer(s, x)[n + 1] = x
<1> DEFINE r == Longer(s, x)
           k == Len(s)
           c == Len(r)
<1>1. s \in Seq(Int) /\ k = n
  BY DEF Bytes
<1>2. r \in Seq(Int) /\ c = k + 1
  BY <1>1, AppendProperties DEF Longer
<1>3. (\A i \in 1..k : r[i] = s[i]) /\ r[k + 1] = x
  BY <1>1, AppendProperties DEF Longer
<1> HIDE DEF k, c
<1>4. c = n + 1
  BY <1>1, <1>2
<1> QED
  BY <1>1, <1>2, <1>3, <1>4 DEF Bytes, c

Rest == <<0, 0, 44, 0, 18, 1, 154, 1, 16, 255, 0, 21, 52, 0, 0>>

LEMMA Literals ==
    ASSUME NEW x \in Int, NEW y \in Int, NEW z \in Int
    PROVE  LET r == <<1, 86, 27, 1, 0, 0, 0, 48, x, y, z, 0, 0>>
               t == <<0, 0, 44, 0, 18, 1, 154, 1, 16, 255, 0, 21, 52, 0, 0>>
           IN /\ Bytes(r, 13) /\ r[2] = 86 /\ r[3] = 27
              /\ r[9] = x /\ r[10] = y /\ r[11] = z
              /\ r[1] = 1 /\ r[4] = 1 /\ r[5] = 0 /\ r[6] = 0 /\ r[7] = 0 /\ r[8] = 48
              /\ r[12] = 0 /\ r[13] = 0
              /\ Bytes(t, 15) /\ Bytes(<<x, y>>, 2)
<1>1. /\ 1..2 = {1, 2} /\ 1..13 = {1, 2, 3, 4, 5, 6, 7, 8, 9, 10, 11, 12, 13}
      /\ 1..15 = {1, 2, 3, 4, 5, 6, 7, 8, 9, 10, 11, 12, 13, 14, 15}
  OBVIOUS
<1> QED
  BY <1>1 DEF Bytes

LEMMA Fields ==
    ASSUME NEW d \in Devices
    PROVE  /\ d.target \in Int /\ d.step \in Int /\ StatusMode[d.mode] \in Int
           /\ RangeOf[d.mode] = <<RangeOf[d.mode][1], RangeOf[d.mode][2]>>
           /\ RangeOf[d.mode][1] \in 20..86 /\ RangeOf[d.mode][2] \in 20..86
<1>1. /\ d.target \in Int /\ d.step \in Int
      /\ d.mode \in {"standby", "heat", "turbo", "cool", "dry"}
  BY DEF Devices, Byte, StatusMode
<1> QED
  BY <1>1 DEF StatusMode, RangeOf

(* The bytes of a packet that are read of it.                               *)
Carries(p, d) ==
    /\ p[2] = 86 /\ p[3] = 27 /\ p[9] = d.target /\ p[10] = StatusMode[d.mode]
    /\ p[11] = d.step /\ p[14] = RangeOf[d.mode][1] /\ p[15] = RangeOf[d.mode][2]

(* The others, which this device never changes.                             *)
Constants(p) ==
    /\ p[1] = 1 /\ p[4] = 1 /\ p[5] = 0 /\ p[6] = 0 /\ p[7] = 0 /\ p[8] = 48
    /\ p[12] = 0 /\ p[13] = 0
    /\ \A i \in 16..30 : p[i] = Rest[i - 15]

LEMMA Bodies ==
    ASSUME NEW d \in Devices
    PROVE  Bytes(Body(d), 30) /\ Carries(Body(d), d) /\ Constants(Body(d))
<1> DEFINE x == d.target
           y == StatusMode[d.mode]
           z == d.step
           low == RangeOf[d.mode][1]
           high == RangeOf[d.mode][2]
           r == <<1, 86, 27, 1, 0, 0, 0, 48, x, y, z, 0, 0>>
           t == <<0, 0, 44, 0, 18, 1, 154, 1, 16, 255, 0, 21, 52, 0, 0>>
           s == <<low, high>>
           q == Reassemble(r, s)
           b == Body(d)
<1>1. x \in Int /\ y \in Int /\ z \in Int /\ low \in Int /\ high \in Int
  BY Fields
<1>2. b = Reassemble(q, t)
  <2>1. s = RangeOf[d.mode]
    BY Fields
  <2> HIDE DEF s
  <2> QED
    BY <2>1, Zenon DEF Body, Reassemble
<1>3. s[1] = low /\ s[2] = high
  OBVIOUS
<1> HIDE DEF x, y, z, low, high
<1>4. /\ Bytes(r, 13) /\ r[2] = 86 /\ r[3] = 27
      /\ r[9] = x /\ r[10] = y /\ r[11] = z
      /\ r[1] = 1 /\ r[4] = 1 /\ r[5] = 0 /\ r[6] = 0 /\ r[7] = 0 /\ r[8] = 48
      /\ r[12] = 0 /\ r[13] = 0
      /\ Bytes(t, 15)
  BY <1>1, Literals
<1> HIDE DEF r
<1>5. t = Rest
  BY DEF Rest
<1>6. Bytes(s, 2)
  BY <1>1, Literals
<1> HIDE DEF r, s, t, q, b
<1>7. /\ Bytes(q, 13 + 2)
      /\ \A i \in 1..13 : q[i] = r[i]
      /\ \A i \in 13 + 1..13 + 2 : q[i] = s[i - 13]
  BY <1>4, <1>6, Concatenated DEF q
<1>8. /\ Bytes(b, 30) /\ \A i \in 1..15 : b[i] = q[i]
      /\ \A i \in 16..30 : b[i] = t[i - 15]
  <2>1. Bytes(q, 15)
    BY <1>7
  <2>2. /\ Bytes(b, 15 + 15) /\ \A i \in 1..15 : b[i] = q[i]
        /\ \A i \in 15 + 1..15 + 15 : b[i] = t[i - 15]
    BY <1>2, <1>4, <2>1, Concatenated
  <2> QED
    BY <2>2
<1>9. /\ b[2] = 86 /\ b[3] = 27 /\ b[9] = x /\ b[10] = y /\ b[11] = z
      /\ b[14] = low /\ b[15] = high
  BY <1>3, <1>4, <1>7, <1>8
<1>10. Constants(b)
  BY <1>4, <1>7, <1>8, <1>5 DEF Constants
<1> QED
  BY <1>8, <1>9, <1>10 DEF b, x, y, z, low, high, Carries

LEMMA ByteAt ==
    ASSUME NEW n \in Nat, NEW p, Bytes(p, n), NEW i \in Nat
    PROVE  U8(p, i) = IF i < n THEN p[i + 1] ELSE None
<1> DEFINE k == Len(p)
<1>1. k = n /\ k \in Nat
  BY DEF Bytes
<1>2. U8(p, i) = IF i < k THEN p[i + 1] ELSE None
  BY DEF U8
<1> HIDE DEF k
<1> QED
  BY <1>1, <1>2

LEMMA CheckedSum ==
    ASSUME NEW x \in Int, NEW y \in Int, y = (-x) % 256
    PROVE  (x + y) % 256 = 0
  OBVIOUS

LEMMA Packets ==
    ASSUME NEW d \in Devices
    PROVE  /\ Bytes(Packet(d), 31) /\ Carries(Packet(d), d) /\ Constants(Packet(d))
           /\ Packet(d)[31] \in Byte /\ Sum(Packet(d)) % 256 = 0
<1> DEFINE b == Body(d)
           c == ComputeChecksum(b)
           p == Packet(d)
<1>1. Bytes(b, 30) /\ b \in Seq(Int)
  BY Bodies DEF Bytes
<1>2. Sum(b) \in Int
  BY <1>1, SumOfAppend
<1>3. c \in Int /\ c = (-Sum(b)) % 256
  <2> HIDE DEF b
  <2> QED
    BY <1>2 DEF ComputeChecksum
<1>4. p = Longer(b, c)
  BY DEF Packet, Longer
<1>5. Sum(p) = Sum(b) + c
  BY <1>1, <1>3, <1>4, SumOfAppend DEF Longer
<1>6. Sum(p) % 256 = 0
  <2> HIDE DEF b, c
  <2> QED
    BY <1>2, <1>3, <1>5, CheckedSum
<1>7. Carries(b, d) /\ Constants(b)
  BY Bodies
<1>8. Bytes(p, 30 + 1) /\ (\A i \in 1..30 : p[i] = b[i]) /\ p[31] = c
  <2>1. c \in Int /\ Bytes(b, 30)
    BY <1>1, <1>3
  <2> HIDE DEF b, c, p
  <2>2. /\ Bytes(Longer(b, c), 30 + 1) /\ \A i \in 1..30 : Longer(b, c)[i] = b[i]
        /\ Longer(b, c)[30 + 1] = c
    BY <2>1, Appended
  <2> QED
    BY <1>4, <2>2
<1>9. c \in Byte
  <2> HIDE DEF b
  <2> QED
    BY <1>2, <1>3 DEF Byte
<1> HIDE DEF b, c, p
<1>10. Bytes(p, 31) /\ Carries(p, d) /\ Constants(p) /\ p[31] \in Byte
  BY <1>7, <1>8, <1>9 DEF Carries, Constants
<1> QED
  BY <1>6, <1>10 DEF p

(* What is decoded of a packet is the state of the device.                  *)
LEMMA Decoded ==
    ASSUME NEW d \in Devices
    PROVE  DecodeStatus(Packet(d)) =
             [mode |-> {d.mode}, target |-> 10 * d.target, fan |-> 5 + 5 * d.step,
              min |-> 10 * RangeOf[d.mode][1], max |-> 10 * RangeOf[d.mode][2]]
<1> DEFINE p == Packet(d)
<1>1. \A i \in 0..30 : U8(p, i) = p[i + 1]
  BY Packets, ByteAt
<1>2. /\ U8(p, Offset.Mode) = StatusMode[d.mode] /\ U8(p, Offset.TargetTemp) = d.target
      /\ U8(p, Offset.FanStep) = d.step /\ U8(p, Offset.MinTemp) = RangeOf[d.mode][1]
      /\ U8(p, Offset.MaxTemp) = RangeOf[d.mode][2]
  BY <1>1, Packets DEF Carries, Offset
<1>3. {m \in DOMAIN StatusMode : StatusMode[m] = StatusMode[d.mode]} = {d.mode}
  BY DEF Devices, StatusMode
<1>4. d.step \in 0..19
  BY DEF Devices
<1> QED
  BY <1>2, <1>3, <1>4 DEF DecodeStatus, TempByteToC, FanStepToPercent

-----------------------------------------------------------------------------
(* What is made of a request                                                *)

LEMMA Tens ==
    ASSUME NEW v \in Int
    PROVE  /\ Round(v, 10) \in Int /\ Distance(10 * Round(v, 10), v) <= 5
           /\ Round(10 * v, 10) = v
  BY DEF Round, Distance

LEMMA Fives ==
    ASSUME NEW v \in Int
    PROVE  /\ Round(v, 5) \in Int /\ Distance(5 * Round(v, 5), v) <= 2
           /\ Round(5 * v, 5) = v
  BY DEF Round, Distance

LEMMA Truncated ==
    ASSUME NEW v \in Int
    PROVE  /\ Percent(v) \in Int
           /\ (Percent(v) \in 5..100) <=> (v \in 50..1009)
           /\ v \in 50..1009 => 10 * Percent(v) <= v /\ v <= 10 * Percent(v) + 9
  BY DEF Percent

(* A percent is sent as the nearest step, described and verified as that    *)
(* step's percent, however often it is snapped.                             *)
LEMMA FanEncoded ==
    ASSUME NEW r, r.kind = "fan", r.value \in Int, NEW state
    PROVE  LET v == Percent(r.value)
               k == Round(v - 5, 5)
           IN /\ Encoded(r, state) =
                    IF v \in 5..100 /\ IsOn(state) THEN <<7, k>> ELSE Refused
              /\ Snapped(r) = 5 + 5 * k
              /\ v \in 5..100 => k \in 0..19 /\ Distance(5 + 5 * k, v) <= 2
<1> DEFINE v == Percent(r.value)
           k == Round(v - 5, 5)
<1> v \in Int
  BY Truncated
<1> HIDE DEF v
<1>1. /\ k \in Int /\ v - 5 \in Int /\ Distance(5 * k, v - 5) <= 2 /\ Round(5 * k, 5) = k
  BY Fives
<1>2. SnapFanPercent(v) = 5 + 5 * k
  BY DEF SnapFanPercent, FanPercentToStep, FanStepToPercent
<1> HIDE DEF k
<1>3. FanPercentToStep(5 + 5 * k) = k
  <2>1. 5 + 5 * k - 5 = 5 * k
    BY <1>1
  <2> QED
    BY <1>1, <2>1 DEF FanPercentToStep
<1>4. SnapFanPercent(5 + 5 * k) = 5 + 5 * k
  BY <1>3 DEF SnapFanPercent, FanStepToPercent
<1>5. Snapped(r) = 5 + 5 * k
  BY <1>2, <1>4 DEF Snapped, v
<1>6. v \in 5..100 => k \in 0..19 /\ Distance(5 + 5 * k, v) <= 2
  BY <1>1 DEF Distance
<1>7. v \in 5..100 => SetFanPercent(Snapped(r)) = <<7, k>>
  BY <1>1, <1>3, <1>5, <1>6 DEF SetFanPercent, FanInRange
<1>8. Encoded(r, state) = IF v \in 5..100 /\ IsOn(state) THEN <<7, k>> ELSE Refused
  BY <1>7 DEF Encoded, FanInRange, v
<1> QED
  BY <1>5, <1>6, <1>8 DEF k, v

(* A target is sent as the nearest wire unit, if that is in the range that  *)
(* the state bears.                                                         *)
LEMMA TargetEncoded ==
    ASSUME NEW r, r.kind = "target", r.value \in Int, NEW state
    PROVE  LET w == Round(r.value, 10)
           IN /\ Encoded(r, state) =
                    IF w \in Byte /\ IsOn(state) /\ 10 * w \in state.min..state.max
                    THEN <<3, w>> ELSE Refused
              /\ Snapped(r) = 10 * w
              /\ w \in Int /\ Distance(10 * w, r.value) <= 5
<1> DEFINE v == r.value
           w == Round(v, 10)
<1>1. w \in Int /\ Distance(10 * w, v) <= 5 /\ Round(10 * w, 10) = w
  BY Tens
<1>2. SnapTargetC(v) = 10 * w /\ TargetRaw(v) = w
  BY DEF SnapTargetC, TempByteToC, TargetRaw
<1> HIDE DEF w
<1>3. SnapTargetC(10 * w) = 10 * w /\ TargetRaw(10 * w) = w
  BY <1>1 DEF SnapTargetC, TempByteToC, TargetRaw
<1>4. Snapped(r) = 10 * w
  BY <1>2, <1>3 DEF Snapped
<1>5. Encoded(r, state) =
        IF w \in Byte /\ IsOn(state) /\ 10 * w \in state.min..state.max
        THEN <<3, w>> ELSE Refused
  BY <1>2, <1>3, <1>4 DEF Encoded, SetTemperature
<1> QED
  BY <1>1, <1>4, <1>5 DEF w

(* The device that obeys a mode's command is in the status it is verified   *)
(* by.                                                                      *)
LEMMA ModeEncoded ==
    ASSUME NEW r, r.kind = "mode", r.value \in DOMAIN ExpectedStatusFor, NEW state,
           NEW d \in Devices
    PROVE  /\ Encoded(r, state) = <<1, CommandMode[r.value]>>
           /\ Obeying(d, <<1, CommandMode[r.value]>>) =
                 [d EXCEPT !.mode = ExpectedStatusFor[r.value]]
           /\ ExpectedStatusFor[r.value] \in DOMAIN StatusMode
<1> DEFINE c == CHOOSE m \in DOMAIN CommandMode : CommandMode[m] = CommandMode[r.value]
<1>1. r.value \in {"off", "cool", "dry", "heat"}
  BY DEF ExpectedStatusFor
<1>2. c = r.value
  <2>1. r.value \in DOMAIN CommandMode
    BY <1>1 DEF CommandMode
  <2>2. \A m \in DOMAIN CommandMode : CommandMode[m] = CommandMode[r.value] => m = r.value
    BY <1>1 DEF CommandMode
  <2> QED
    BY <2>1, <2>2
<1>3. Obeying(d, <<1, CommandMode[r.value]>>) =
        [d EXCEPT !.mode = CASE c = "off" -> "standby"
                             [] c = "extended_heat" -> "heat"
                             [] OTHER -> c]
  BY DEF Obeying
<1> HIDE DEF c
<1>4. ExpectedStatusFor[r.value] = IF r.value = "off" THEN "standby" ELSE r.value
  BY <1>1 DEF ExpectedStatusFor
<1>5. Encoded(r, state) = <<1, CommandMode[r.value]>>
  BY DEF Encoded, SetMode
<1> QED
  BY <1>1, <1>2, <1>3, <1>4, <1>5 DEF StatusMode

-----------------------------------------------------------------------------
(* A packet of the device, wherever it is split                             *)

LEMMA Parted ==
    ASSUME NEW p, Bytes(p, 31), NEW n \in 2..31
    PROVE  /\ Bytes(FirstPart(p, n), n)
           /\ \A i \in 1..n : FirstPart(p, n)[i] = p[i]
           /\ Reassemble(FirstPart(p, n), Remainder(p, n)) = p
           /\ SubSeq(p, 1, 31) = p
<1> DEFINE k == Len(p)
           r == FirstPart(p, n)
<1>1. p \in Seq(Int) /\ k = 31 /\ n \in Int
  BY DEF Bytes
<1>2. SubSeq(p, 1, k) = p
  BY <1>1, SubSeqFull
<1>3. \A i \in 1..k : p[i] \in Int
  <2>1. p \in Seq(Int)
    BY <1>1
  <2> QED
    BY <2>1
<1>4. ASSUME NEW i \in 1..n
      PROVE  p[i] \in Int
  <2>1. k = 31
    BY <1>1
  <2> HIDE DEF k
  <2>2. i \in 1..k
    BY <2>1
  <2> QED
    BY <1>3, <2>2
<1>5. r \in Seq(Int) /\ Len(r) = n /\ \A i \in 1..n : r[i] = p[i]
  <2>1. /\ SubSeq(p, 1, n) \in Seq(Int)
        /\ Len(SubSeq(p, 1, n)) = IF 1 <= n THEN n - 1 + 1 ELSE 0
    BY <1>4, SubSeqProperties
  <2>2. \A i \in 1..n - 1 + 1 : SubSeq(p, 1, n)[i] = p[1 + i - 1]
    BY <1>4, SubSeqProperties
  <2> QED
    BY <2>1, <2>2 DEF FirstPart
<1>6. SubSeq(p, 1, n) \o SubSeq(p, n + 1, k) = SubSeq(p, 1, k)
  <2>1. 1 \in 1..k + 1 /\ n \in 1 - 1..k /\ k \in n..k
    <3> HIDE DEF k
    <3> QED
      BY <1>1
  <2> HIDE DEF k
  <2>2. k = Len(p)
    BY DEF k
  <2> QED
    BY <1>1, <2>1, <2>2, ConcatAdjacentSubSeq
<1> QED
  BY <1>1, <1>2, <1>5, <1>6 DEF Bytes, Reassemble, FirstPart, Remainder

LEMMA PacketTrusted ==
    ASSUME NEW d \in Devices
    PROVE  IsTrustworthy(Packet(d))
<1> DEFINE p == Packet(d)
           k == Len(p)
<1>1. Bytes(p, 31) /\ p[3] = 27 /\ Sum(p) % 256 = 0
  BY Packets DEF Carries
<1>2. k = 31 /\ p # <<>>
  <2>1. p \in Seq(Int) /\ k = 31
    BY <1>1 DEF Bytes
  <2>2. p = <<>> => k = 0
    OBVIOUS
  <2> HIDE DEF k
  <2> QED
    BY <2>1, <2>2
<1>3. U8(p, 2) = 27
  BY <1>1, ByteAt
<1> HIDE DEF p
<1>4. ExpectedTotal(p) = 31
  BY <1>3 DEF ExpectedTotal, Offset, HeaderLength, None
<1>5. SubSeq(p, 1, 31) = p
  BY <1>1, Parted
<1> HIDE DEF k
<1>6. IsComplete(p) /\ Len(p) >= MinStatusLength
  <2>1. k >= 31 /\ k >= MinStatusLength
    BY <1>2 DEF MinStatusLength
  <2> QED
    BY <1>4, <2>1 DEF IsComplete, None, k
<1> QED
  BY <1>1, <1>2, <1>4, <1>5, <1>6 DEF IsTrustworthy, VerifyChecksum, p

LEMMA PartsPublished ==
    ASSUME NEW d \in Devices, NEW n \in 2..31,
           OnNotify(FirstPart(Packet(d), n), Remainder(Packet(d), n))
    PROVE  Published(Packet(d))
<1> DEFINE p == Packet(d)
           r == FirstPart(p, n)
<1>1. Bytes(p, 31) /\ p[2] = 86 /\ p[3] = 27
  BY Packets DEF Carries
<1>2. /\ Bytes(r, n) /\ r[2] = 86 /\ (n > 2 => r[3] = 27)
      /\ Reassemble(r, Remainder(p, n)) = p /\ SubSeq(p, 1, 31) = p
  BY <1>1, Parted
<1> HIDE DEF r, p
<1>3. U8(r, 1) = 86 /\ U8(r, 2) = IF n > 2 THEN 27 ELSE None
  BY <1>2, ByteAt
<1>4. LooksLikePacketStart(r)
  BY <1>3 DEF LooksLikePacketStart, Offset, Formats
<1>5. IsComplete(r) => n = 31
  <2> DEFINE k == Len(r)
  <2>1. k = n
    BY <1>2 DEF Bytes
  <2>2. IsComplete(r) => ExpectedTotal(r) # None /\ k >= ExpectedTotal(r)
    BY DEF IsComplete
  <2> HIDE DEF k
  <2> QED
    BY <1>3, <2>1, <2>2 DEF ExpectedTotal, Offset, HeaderLength, None
<1>6. n = 31 => r = p
  BY <1>2 DEF r, FirstPart
<1>7. OnNotify(r, Remainder(p, n))
  BY DEF r, p
<1>8. Published(p) \/ Discarded(p)
  BY <1>2, <1>4, <1>5, <1>6, <1>7 DEF OnNotify
<1> QED
  BY <1>8, PacketTrusted DEF Discarded, p

-----------------------------------------------------------------------------
(* A request is kept or refused, and verified                               *)

(* RequestIsKept is not inductive: what a request is encoded with is the    *)
(* state reported when it is sent, and what verifies it the device as it is *)
(* then, whatever is reported in between.                                   *)
KeptInv ==
    /\ request \in Requests /\ device \in Devices
    /\ phase \in {"asked", "sent", "refused", "verified"}
    /\ phase \in {"asked", "refused"} => report = DecodeStatus(Packet(device))
    /\ phase = "sent" => Satisfied(request, DecodeStatus(Packet(device)))
    /\ phase \in {"sent", "verified"} =>
         /\ request.kind = "fan" => FanIsKept
         /\ request.kind = "target" => TargetIsKept
    /\ phase = "refused" => RequestIsKept
    /\ intact => phase = "verified"

LEMMA FanSent ==
    ASSUME KeptInv, Send, request.kind = "fan"
    PROVE  KeptInv'
<1> DEFINE v == Percent(request.value)
           k == Round(v - 5, 5)
           d == [device EXCEPT !.step = k]
<1>1. /\ request.value \in Int /\ v \in Int
      /\ (v \in 5..100) <=> (request.value \in 50..1009)
      /\ request.value \in 50..1009 =>
            10 * v <= request.value /\ request.value <= 10 * v + 9
  <2>1. request.value \in Int
    BY InputsAssumption DEF KeptInv, Requests
  <2> HIDE DEF k, d
  <2>2. v \in Int
    BY <2>1, Truncated
  <2>3. v \in 5..100 <=> request.value \in 50..1009
    BY <2>1, Truncated
  <2>4. request.value \in 50..1009 =>
          10 * v <= request.value /\ request.value <= 10 * v + 9
    BY <2>1, Truncated
  <2> QED
    BY <2>1, <2>2, <2>3, <2>4
<1>2. /\ payload' = IF v \in 5..100 /\ IsOn(report) THEN <<7, k>> ELSE Refused
      /\ Snapped(request) = 5 + 5 * k
      /\ v \in 5..100 => k \in 0..19 /\ Distance(5 + 5 * k, v) <= 2
  BY <1>1, FanEncoded DEF Send
<1>3. <<7, k>> # Refused /\ Obeying(device, <<7, k>>) = d
  <2> HIDE DEF k
  <2> QED
    BY DEF Refused, Obeying
<1>4. UNCHANGED <<request, report, intact>> /\ ~intact
  BY DEF KeptInv, Send
<1> HIDE DEF v, k
<1>5. CASE v \in 5..100 /\ IsOn(report)
  <2>1. phase' = "sent" /\ device' = d
    BY <1>2, <1>3, <1>5 DEF Send
  <2>2. d \in Devices /\ d.step = k
    BY <1>2, <1>5 DEF KeptInv, Devices
  <2>3. DecodeStatus(Packet(d)).fan = 5 + 5 * k
    <3> HIDE DEF d
    <3> QED
      BY <2>2, Decoded
  <2>4. Satisfied(request, DecodeStatus(Packet(device)))'
    BY <1>2, <1>4, <2>1, <2>3 DEF Satisfied, Snapped
  <2>5. FanIsKept'
    <3>1. /\ k \in 0..19 /\ Distance(5 + 5 * k, v) <= 2
          /\ 10 * v <= request.value /\ request.value <= 10 * v + 9
      BY <1>1, <1>2, <1>5
    <3>2. Distance(10 * (5 + 5 * k), request.value) < 30
      BY <1>1, <3>1 DEF Distance
    <3> QED
      BY <1>1, <1>4, <1>5, <2>1, <2>2, <3>2 DEF FanIsKept, FanStepToPercent
  <2> QED
    BY <1>4, <2>1, <2>2, <2>4, <2>5 DEF KeptInv
<1>6. CASE ~(v \in 5..100 /\ IsOn(report))
  <2>1. phase' = "refused" /\ device' = device
    BY <1>2, <1>6 DEF Send
  <2>2. IsOn(report) => request.value \notin 50..1000
    BY <1>1, <1>6
  <2>3. RequestIsKept'
    BY <1>4, <2>1, <2>2 DEF RequestIsKept, FanIsKept, IsOn
  <2> QED
    BY <1>4, <2>1, <2>3 DEF KeptInv, Send
<1> QED
  BY <1>5, <1>6

LEMMA TargetSent ==
    ASSUME KeptInv, Send, request.kind = "target"
    PROVE  KeptInv'
<1> DEFINE v == request.value
           w == Round(v, 10)
           d == [device EXCEPT !.target = w]
           low == RangeOf[device.mode][1]
           high == RangeOf[device.mode][2]
           Sendable == w \in Byte /\ IsOn(report) /\ 10 * w \in report.min..report.max
<1>1. v \in Int
  BY InputsAssumption DEF KeptInv, Requests
<1>2. /\ payload' = IF Sendable THEN <<3, w>> ELSE Refused
      /\ Snapped(request) = 10 * w
      /\ w \in Int /\ Distance(10 * w, v) <= 5
  BY <1>1, TargetEncoded DEF Send
<1>3. <<3, w>> # Refused /\ Obeying(device, <<3, w>>) = d
  <2> HIDE DEF w
  <2> QED
    BY DEF Refused, Obeying
<1>4. UNCHANGED <<request, report, intact>> /\ ~intact
  BY DEF KeptInv, Send
<1>5. low \in 20..86 /\ high \in 20..86 /\ report.min = 10 * low /\ report.max = 10 * high
  BY Fields, Decoded DEF KeptInv, Send
<1> HIDE DEF w, low, high
<1>6. CASE Sendable
  <2>1. phase' = "sent" /\ device' = d
    BY <1>2, <1>3, <1>6 DEF Send
  <2>2. d \in Devices /\ d.target = w /\ d.mode = device.mode
    BY <1>6 DEF KeptInv, Devices
  <2>3. DecodeStatus(Packet(d)).target = 10 * w
    <3> HIDE DEF d
    <3> QED
      BY <2>2, Decoded
  <2>4. Satisfied(request, DecodeStatus(Packet(device)))'
    BY <1>2, <1>4, <2>1, <2>3 DEF Satisfied, Snapped
  <2>5. w \in low..high
    BY <1>2, <1>5, <1>6
  <2>6. TargetIsKept'
    BY <1>2, <1>4, <1>6, <2>1, <2>2, <2>5 DEF TargetIsKept, TempByteToC, low, high
  <2> QED
    BY <1>4, <2>1, <2>2, <2>4, <2>6 DEF KeptInv
<1>7. CASE ~Sendable
  <2>1. phase' = "refused" /\ device' = device
    BY <1>2, <1>7 DEF Send
  <2>2. ASSUME IsOn(report), NEW u \in Byte, Distance(10 * u, v) <= 5
        PROVE  \E x \in Byte : Distance(10 * x, v) <= 5 /\ x \notin low..high
    <3>1. CASE w \in Byte
      BY <1>2, <1>5, <1>7, <2>2, <3>1
    <3>2. CASE w \notin Byte
      BY <1>1, <1>2, <1>5, <2>2, <3>2 DEF Distance, Byte
    <3> QED
      BY <3>1, <3>2
  <2>3. IsOn(report) => TargetIsKept'
    BY <1>4, <2>1, <2>2 DEF TargetIsKept, TempByteToC, low, high
  <2>4. RequestIsKept'
    BY <1>4, <2>3 DEF RequestIsKept, IsOn
  <2> QED
    BY <1>4, <2>1, <2>4 DEF KeptInv, Send
<1> QED
  BY <1>6, <1>7

LEMMA ModeSent ==
    ASSUME KeptInv, Send, request.kind = "mode"
    PROVE  KeptInv'
<1> DEFINE d == [device EXCEPT !.mode = ExpectedStatusFor[request.value]]
<1>1. request.value \in DOMAIN ExpectedStatusFor
  BY DEF KeptInv, Requests
<1>2. /\ payload' = <<1, CommandMode[request.value]>>
      /\ Obeying(device, <<1, CommandMode[request.value]>>) = d
      /\ ExpectedStatusFor[request.value] \in DOMAIN StatusMode
  BY <1>1, ModeEncoded DEF KeptInv, Send
<1>3. phase' = "sent" /\ device' = d /\ UNCHANGED <<request, intact>> /\ ~intact
  BY <1>2 DEF KeptInv, Send, Refused
<1>4. d \in Devices /\ d.mode = ExpectedStatusFor[request.value]
  BY <1>2 DEF KeptInv, Devices
<1>5. DecodeStatus(Packet(d)).mode = {ExpectedStatusFor[request.value]}
  <2> HIDE DEF d
  <2> QED
    BY <1>4, Decoded
<1>6. Satisfied(request, DecodeStatus(Packet(device)))'
  BY <1>3, <1>5 DEF Satisfied
<1> QED
  BY <1>3, <1>4, <1>6 DEF KeptInv

LEMMA ArrivalAnswers ==
    ASSUME KeptInv, Arrives
    PROVE  phase' \in {"sent", "verified"} /\ (intact' => phase' = "verified")
<1>1. phase = "sent" /\ UNCHANGED <<device, request>> /\ ~intact
  BY DEF KeptInv, Arrives
<1>2. ASSUME NEW s, NEW t, OnNotify(s, t)
      PROVE  phase' \in {"sent", "verified"}
  BY <1>1, <1>2 DEF OnNotify, Published, Discarded
<1>3. CASE ArrivesInParts
  <2>1. PICK n \in 2..31 :
          OnNotify(FirstPart(Packet(device), n), Remainder(Packet(device), n))
    BY <1>3 DEF ArrivesInParts
  <2>2. Published(Packet(device))
    BY <2>1, PartsPublished DEF KeptInv
  <2> QED
    BY <1>1, <2>2 DEF KeptInv, Published, Satisfied
<1>4. CASE ArrivesMixed
  <2>1. PICK n \in 2..31, p \in {Packet(before), Packet(device)},
             q \in {Packet(before), Packet(device)} :
          OnNotify(FirstPart(p, n), Remainder(q, n))
    BY <1>4 DEF ArrivesMixed
  <2>2. phase' \in {"sent", "verified"}
    BY <1>2, <2>1
  <2> QED
    BY <1>1, <1>4, <2>2 DEF ArrivesMixed
<1>5. CASE ArrivesMisplaced
  BY <1>1, <1>2, <1>5 DEF ArrivesMisplaced
<1>6. CASE ArrivesCorrupt
  BY <1>1, <1>2, <1>6 DEF ArrivesCorrupt
<1> QED
  BY <1>3, <1>4, <1>5, <1>6 DEF Arrives

LEMMA ArrivalKeeps ==
    ASSUME KeptInv, Arrives
    PROVE  KeptInv'
<1>1. phase = "sent" /\ UNCHANGED <<device, request>>
  BY DEF KeptInv, Arrives
<1>2. phase' \in {"sent", "verified"} /\ (intact' => phase' = "verified")
  BY ArrivalAnswers
<1>3. Satisfied(request, DecodeStatus(Packet(device)))'
  BY <1>1 DEF KeptInv, Satisfied, Snapped
<1>4. /\ (request.kind = "fan" => FanIsKept)'
      /\ (request.kind = "target" => TargetIsKept)'
  BY <1>1, <1>2 DEF KeptInv, FanIsKept, TargetIsKept
<1> QED
  BY <1>1, <1>2, <1>3, <1>4 DEF KeptInv

LEMMA InitKeeps ==
    ASSUME Init
    PROVE  KeptInv
<1>1. PICK m \in DOMAIN StatusMode :
        device = [mode |-> m, target |-> RangeOf[m][1], step |-> 9]
  BY DEF Init
<1>2. RangeOf[m][1] \in Byte
  BY DEF StatusMode, RangeOf, Byte
<1>3. device \in Devices
  BY <1>1, <1>2 DEF Devices
<1> QED
  BY <1>3 DEF Init, KeptInv

LEMMA NextKeeps ==
    ASSUME KeptInv, [Next]_vars
    PROVE  KeptInv'
<1>1. CASE Send
  <2>1. request.kind \in {"fan", "target", "mode"}
    BY DEF KeptInv, Requests
  <2> QED
    BY <1>1, <2>1, FanSent, TargetSent, ModeSent
<1>2. CASE Arrives
  BY <1>2, ArrivalKeeps
<1>3. CASE UNCHANGED vars
  <2>1. UNCHANGED <<device, request, phase, report, intact>>
    BY <1>3 DEF vars
  <2>2. UNCHANGED FanIsKept /\ UNCHANGED TargetIsKept
    BY <2>1 DEF FanIsKept, TargetIsKept
  <2>3. UNCHANGED RequestIsKept
    BY <2>1, <2>2 DEF RequestIsKept, IsOn
  <2>4. UNCHANGED Satisfied(request, DecodeStatus(Packet(device)))
    BY <2>1 DEF Satisfied, Snapped
  <2> QED
    BY <2>1, <2>2, <2>3, <2>4 DEF KeptInv
<1> QED
  BY <1>1, <1>2, <1>3 DEF Next

LEMMA RequestsKept == Spec => []KeptInv
<1>1. Init => KeptInv
  BY InitKeeps
<1>2. KeptInv /\ [Next]_vars => KeptInv'
  BY NextKeeps
<1> QED
  BY <1>1, <1>2, PTL DEF Spec

(* "Out-of-range values raise rather than clamp" (encode.py:177): whatever  *)
(* percent or target is asked for, a device that is on is sent what is      *)
(* within half a step of it, a percent's fraction aside, and in its mode's  *)
(* range, or nothing.                                                       *)
THEOREM RequestsAreKept == Spec => []RequestIsKept
<1>1. ASSUME KeptInv PROVE RequestIsKept
  <2>1. request.kind \in {"fan", "target", "mode"}
    BY <1>1 DEF KeptInv, Requests
  <2>2. CASE phase = "asked"
    BY <2>1, <2>2 DEF RequestIsKept, FanIsKept, TargetIsKept
  <2>3. CASE phase \in {"sent", "verified"}
    BY <1>1, <2>1, <2>3 DEF KeptInv, RequestIsKept
  <2>4. CASE phase = "refused"
    BY <1>1, <2>4 DEF KeptInv
  <2> QED
    BY <1>1, <2>2, <2>3, <2>4 DEF KeptInv
<1> QED
  BY <1>1, RequestsKept, PTL

(* "Verifying the raw request would report unverified for a command the     *)
(* device obeyed" (commander.py:398): whatever is asked for that can be,    *)
(* the device's first packet verifies it, wherever it is split.             *)
THEOREM ObeyedAreVerified == Spec => []ObeyedIsVerified
<1>1. KeptInv => ObeyedIsVerified
  BY DEF KeptInv, ObeyedIsVerified
<1> QED
  BY <1>1, RequestsKept, PTL

-----------------------------------------------------------------------------
(* What is published is intact                                              *)

(* RequestIsKept says what the device can have been told; which of its      *)
(* packets contain another is a matter of their bytes.                      *)
Reached(d) ==
    /\ d \in Devices
    /\ \/ d.target = RangeOf[d.mode][1]
       \/ d.step = 9 /\ d.target \in RangeOf[d.mode][1]..RangeOf[d.mode][2]
       \/ d.step = 9 /\ d.target \in {RangeOf[m][1] : m \in DOMAIN StatusMode}

(* One command changes one of the three.                                    *)
Neighbours(d, e) ==
    \/ d.mode = e.mode /\ d.target = e.target
    \/ d.mode = e.mode /\ d.step = e.step
    \/ d.target = e.target /\ d.step = e.step

IntactInv ==
    /\ KeptInv /\ OnlyIntact
    /\ Reached(device) /\ before \in Devices /\ Neighbours(before, device)
    /\ phase = "asked" =>
         before = device /\ device.step = 9 /\ device.target = RangeOf[device.mode][1]

LEMMA ByteValues ==
    ASSUME NEW n \in Nat, NEW q, Bytes(q, n)
    PROVE  \A i \in 1..n : q[i] \in Int
<1> DEFINE k == Len(q)
<1>1. q \in Seq(Int)
  BY DEF Bytes
<1>2. \A i \in 1..k : q[i] \in Int
  BY <1>1
<1>3. k = n
  BY DEF Bytes
<1> HIDE DEF k
<1> QED
  BY <1>2, <1>3

LEMMA SumRuns ==
    ASSUME NEW n \in Nat, NEW q, Bytes(q, n)
    PROVE  \E f \in [0..n -> Int] : Running(f, q, n) /\ Sum(q) = f[n]
<1> DEFINE k == Len(q)
<1>1. q \in Seq(Int) /\ k = n
  BY DEF Bytes
<1>2. \A i \in 1..n : q[i] \in Int
  BY ByteValues
<1>3. Running(UpTo(q), q, k) /\ Sum(q) = UpTo(q)[k]
  BY <1>1, UpToRuns
<1> HIDE DEF k
<1>4. PICK f \in [0..n -> Int] : Running(f, q, n)
  BY <1>1, <1>2, RunningExists
<1>5. f[n] = UpTo(q)[n]
  BY <1>1, <1>3, <1>4, RunningOnce
<1> QED
  BY <1>1, <1>3, <1>4, <1>5

Regrouped(a, b, c) == (a + b) + c = a + (b + c) /\ (a + b) + c = (a + c) + b

LEMMA Regrouping ==
    ASSUME NEW a \in Int, NEW b \in Int, NEW c \in Int
    PROVE  Regrouped(a, b, c)
  BY DEF Regrouped

(* One byte that changes changes the sum by as much.                        *)
AlikeBut(k, q, p, n) == \A i \in 1..n : i # k => q[i] = p[i]

LEMMA SumOfChanged ==
    ASSUME NEW n \in Nat, NEW p, NEW q, Bytes(p, n), Bytes(q, n), NEW k \in 1..n,
           AlikeBut(k, q, p, n)
    PROVE  Sum(p) \in Int /\ Sum(q) = Sum(p) + q[k] - p[k]
<1>1. PICK f \in [0..n -> Int] : Running(f, p, n) /\ Sum(p) = f[n]
  BY SumRuns
<1>2. PICK g \in [0..n -> Int] : Running(g, q, n) /\ Sum(q) = g[n]
  BY SumRuns
<1> DEFINE by == q[k] - p[k]
           h == [i \in 0..n |-> IF i < k THEN f[i] ELSE f[i] + by]
<1>3. p[k] \in Int /\ q[k] \in Int /\ by \in Int /\ q[k] = p[k] + by
  BY ByteValues
<1>4. ASSUME NEW i \in 0..n
      PROVE  h[i] = IF i = 0 THEN 0 ELSE h[i - 1] + q[i]
  <2>1. f[i] = IF i = 0 THEN 0 ELSE f[i - 1] + p[i]
    BY <1>1 DEF Running
  <2>2. CASE i = 0
    BY <2>1, <2>2
  <2>3. CASE i \in 1..n
    <3> DEFINE x == f[i - 1]
    <3>1. x \in Int /\ p[i] \in Int /\ f[i] = x + p[i]
      BY <2>1, <2>3, ByteValues
    <3>2. /\ h[i] = IF i < k THEN f[i] ELSE f[i] + by
          /\ h[i - 1] = IF i <= k THEN x ELSE x + by
      BY <2>3
    <3>3. q[i] = IF i = k THEN p[i] + by ELSE p[i]
      BY <1>3, <2>3 DEF AlikeBut
    <3> HIDE DEF h, by, x
    <3>4. Regrouped(x, p[i], by)
      BY <1>3, <3>1, Regrouping
    <3>5. h[i] = h[i - 1] + q[i]
      <4>1. CASE i < k
        <5>1. h[i] = x + p[i] /\ h[i - 1] = x /\ q[i] = p[i]
          BY <3>1, <3>2, <3>3, <4>1
        <5> QED
          BY <5>1
      <4>2. CASE i = k
        <5>1. h[i] = (x + p[i]) + by /\ h[i - 1] = x /\ q[i] = p[i] + by
          BY <3>1, <3>2, <3>3, <4>2
        <5> QED
          BY <3>4, <5>1 DEF Regrouped
      <4>3. CASE i > k
        <5>1. h[i] = (x + p[i]) + by /\ h[i - 1] = x + by /\ q[i] = p[i]
          BY <2>3, <3>1, <3>2, <3>3, <4>3
        <5> QED
          BY <3>4, <5>1 DEF Regrouped
      <4> QED
        BY <2>3, <4>1, <4>2, <4>3
    <3> QED
      BY <2>3, <3>5
  <2> QED
    BY <2>2, <2>3
<1>5. Running(h, q, n)
  BY <1>4 DEF Running
<1>6. h[n] = f[n] + by
  OBVIOUS
<1> HIDE DEF h
<1>7. h[n] = g[n]
  BY <1>2, <1>5, RunningOnce
<1>8. Sum(q) = Sum(p) + by /\ Sum(p) \in Int
  <2> HIDE DEF by
  <2> QED
    BY <1>1, <1>2, <1>6, <1>7
<1> QED
  BY <1>8

(* The bytes that are decoded.                                              *)
Fronts == {9, 10, 11, 14, 15}

LEMMA SameDecoded ==
    ASSUME NEW p, Bytes(p, 31), NEW m \in Nat, m >= 15, NEW q, Bytes(q, m),
           \A i \in Fronts : q[i] = p[i]
    PROVE  DecodeStatus(q) = DecodeStatus(p)
<1>1. \A i \in 0..30 : U8(p, i) = p[i + 1]
  BY ByteAt
<1>2. \A i \in 0..14 : U8(q, i) = q[i + 1]
  BY ByteAt
<1>3. /\ U8(q, 8) = U8(p, 8) /\ U8(q, 9) = U8(p, 9) /\ U8(q, 10) = U8(p, 10)
      /\ U8(q, 13) = U8(p, 13) /\ U8(q, 14) = U8(p, 14)
  BY <1>1, <1>2 DEF Fronts
<1> QED
  BY <1>3 DEF DecodeStatus, Offset

LEMMA Remaining ==
    ASSUME NEW p, Bytes(p, 31), NEW n \in 0..31
    PROVE  /\ Bytes(Remainder(p, n), 31 - n)
           /\ \A i \in 1..31 - n : Remainder(p, n)[i] = p[n + i]
<1> DEFINE k == Len(p)
           r == Remainder(p, n)
<1>1. p \in Seq(Int) /\ k = 31 /\ n \in Int
  BY DEF Bytes
<1>2. \A i \in 1..31 : p[i] \in Int
  BY ByteValues
<1>3. r = SubSeq(p, n + 1, 31)
  BY <1>1 DEF Remainder
<1> HIDE DEF k, r
<1>4. \A i \in n + 1..31 : p[i] \in Int
  BY <1>2
<1>5. /\ SubSeq(p, n + 1, 31) \in Seq(Int)
      /\ Len(SubSeq(p, n + 1, 31)) = IF n + 1 <= 31 THEN 31 - (n + 1) + 1 ELSE 0
  BY <1>1, <1>4, SubSeqProperties
<1>6. \A i \in 1..31 - (n + 1) + 1 : SubSeq(p, n + 1, 31)[i] = p[n + 1 + i - 1]
  BY <1>1, <1>4, SubSeqProperties
<1>7. Len(r) = 31 - n
  BY <1>1, <1>3, <1>5
<1>8. \A i \in 1..31 - n : r[i] = p[n + i]
  BY <1>1, <1>3, <1>6
<1> QED
  BY <1>3, <1>5, <1>7, <1>8 DEF Bytes, r

(* What arrives with the front of a packet is decoded as that packet.       *)
LEMMA FrontDecoded ==
    ASSUME NEW p, Bytes(p, 31), NEW m \in Nat, m >= 15, NEW s, Bytes(s, m),
           \A i \in Fronts : s[i] = p[i],
           NEW l \in Nat, NEW t, Bytes(t, l), OnNotify(s, t)
    PROVE  report' \in {report, DecodeStatus(p)}
<1> DEFINE r == Reassemble(s, t)
<1>1. Bytes(r, m + l) /\ \A i \in 1..m : r[i] = s[i]
  BY Concatenated
<1>2. DecodeStatus(s) = DecodeStatus(p)
  BY SameDecoded
<1> HIDE DEF r
<1>3. \A i \in Fronts : r[i] = p[i]
  BY <1>1 DEF Fronts
<1>4. DecodeStatus(r) = DecodeStatus(p)
  BY <1>1, <1>3, SameDecoded
<1>5. report' \in {report, DecodeStatus(s), DecodeStatus(r)}
  BY DEF OnNotify, Published, Discarded, r
<1> QED
  BY <1>2, <1>4, <1>5

(* When a packet is complete, and the sums that are run through when it is  *)
(* found to be trustworthy.                                                 *)
LEMMA CompleteWhen ==
    ASSUME NEW m \in Nat, m >= 3, NEW q, Bytes(q, m), q[3] \in Nat
    PROVE  ExpectedTotal(q) = q[3] + 4 /\ (IsComplete(q) <=> q[3] + 4 <= m)
<1> DEFINE k == Len(q)
<1>1. k = m
  BY DEF Bytes
<1>2. U8(q, 2) = q[3]
  BY ByteAt
<1>3. ExpectedTotal(q) = q[3] + 4
  BY <1>2 DEF ExpectedTotal, Offset, HeaderLength, None
<1>4. IsComplete(q) <=> ExpectedTotal(q) # None /\ k >= ExpectedTotal(q)
  BY DEF IsComplete
<1> HIDE DEF k
<1> QED
  BY <1>1, <1>3, <1>4 DEF None

LEMMA FirstBytes ==
    ASSUME NEW m \in Nat, NEW q, Bytes(q, m), NEW n \in 1..m
    PROVE  Bytes(SubSeq(q, 1, n), n) /\ \A i \in 1..n : SubSeq(q, 1, n)[i] = q[i]
<1>1. \A i \in 1..n : q[i] \in Int
  BY ByteValues
<1>2. /\ SubSeq(q, 1, n) \in Seq(Int)
      /\ Len(SubSeq(q, 1, n)) = IF 1 <= n THEN n - 1 + 1 ELSE 0
  BY <1>1, SubSeqProperties
<1>3. \A i \in 1..n - 1 + 1 : SubSeq(q, 1, n)[i] = q[1 + i - 1]
  BY <1>1, SubSeqProperties
<1>4. Len(SubSeq(q, 1, n)) = n
  BY <1>2
<1>5. \A i \in 1..n : SubSeq(q, 1, n)[i] = q[i]
  BY <1>3
<1> QED
  BY <1>2, <1>4, <1>5 DEF Bytes

Sums(f, q, n) ==
    /\ f[0] = 0 /\ f[n] % 256 = 0
    /\ \A i \in 1..n : f[i] \in Int /\ q[i] \in Int /\ f[i] = f[i - 1] + q[i]

LEMMA OneMore ==
    ASSUME NEW f, NEW q, NEW n \in Nat, Sums(f, q, n), NEW k \in Nat, k + 1 <= n
    PROVE  f[k + 1] \in Int /\ q[k + 1] \in Int /\ f[k + 1] = f[k] + q[k + 1]
  BY DEF Sums

LEMMA FourMore ==
    ASSUME NEW f, NEW q, NEW n \in Nat, Sums(f, q, n), NEW k \in Nat, k + 4 <= n
    PROVE  /\ f[k] \in Int
           /\ f[k + 4] = f[k] + (q[k + 1] + q[k + 2] + q[k + 3] + q[k + 4])
<1>1. f[k] \in Int
  BY DEF Sums
<1>2. f[k + 1] = f[k] + q[k + 1] /\ f[k + 1] \in Int /\ q[k + 1] \in Int
  BY OneMore
<1>3. f[k + 2] = f[k + 1] + q[k + 2] /\ f[k + 2] \in Int /\ q[k + 2] \in Int
  BY OneMore, k + 1 \in Nat, k + 1 + 1 = k + 2
<1>4. f[k + 3] = f[k + 2] + q[k + 3] /\ f[k + 3] \in Int /\ q[k + 3] \in Int
  BY OneMore, k + 2 \in Nat, k + 2 + 1 = k + 3
<1>5. f[k + 4] = f[k + 3] + q[k + 4] /\ f[k + 4] \in Int /\ q[k + 4] \in Int
  BY OneMore, k + 3 \in Nat, k + 3 + 1 = k + 4
<1> QED
  BY <1>1, <1>2, <1>3, <1>4, <1>5

Follows(q, p, a, n) == \A i \in 1..n : q[i] = p[a + i]

(* What is left of a packet that is trusted sums to what its front does not.*)
LEMMA TailSum ==
    ASSUME NEW f, NEW g, NEW p, NEW q, NEW n \in 0..31, NEW a \in 0..31,
           a + n >= 31, a + n <= 31,
           Sums(f, q, n), Sums(g, p, 31), Follows(q, p, a, n)
    PROVE  f[n] = g[31] - g[a]
<1>1. a + n = 31
  OBVIOUS
<1> DEFINE h == [i \in 0..n |-> g[a + i] - g[a]]
<1>2. \A i \in 0..31 : g[i] \in Int
  BY DEF Sums
<1>3. ASSUME NEW i \in 0..n
      PROVE  h[i] = IF i = 0 THEN 0 ELSE h[i - 1] + q[i]
  <2>1. CASE i = 0
    BY <1>2, <2>1
  <2>2. CASE i \in 1..n
    <3> DEFINE j == a + i
    <3>1. j \in 1..31 /\ j - 1 = a + (i - 1)
      BY <1>1, <2>2
    <3>2. g[j] = g[j - 1] + p[j] /\ p[j] \in Int /\ q[i] = p[j]
      <4>1. q[i] = p[j]
        BY <2>2 DEF Follows
      <4> HIDE DEF j
      <4> QED
        BY <3>1, <4>1 DEF Sums
    <3>3. g[a] \in Int /\ g[j - 1] \in Int
      <4> HIDE DEF j
      <4> QED
        BY <1>2, <3>1
    <3>4. h[i] = g[j] - g[a] /\ h[i - 1] = g[j - 1] - g[a]
      BY <2>2, <3>1
    <3> HIDE DEF h, j
    <3>5. ASSUME NEW x \in Int, NEW y \in Int, NEW z \in Int
          PROVE  (x + y) - z = (x - z) + y
      OBVIOUS
    <3>6. (g[j - 1] + p[j]) - g[a] = (g[j - 1] - g[a]) + p[j]
      BY <3>2, <3>3, <3>5
    <3>7. h[i] = (g[j - 1] + p[j]) - g[a]
      BY <3>2, <3>4
    <3>8. h[i] = h[i - 1] + q[i]
      BY <3>2, <3>4, <3>6, <3>7
    <3> QED
      BY <2>2, <3>8
  <2> QED
    BY <2>1, <2>2
<1>4. Running(h, q, n)
  BY <1>3 DEF Running
<1>5. Running(f, q, n)
  BY DEF Running, Sums
<1>6. h[n] = g[31] - g[a]
  BY <1>1
<1> HIDE DEF h
<1>7. h[n] = f[n]
  BY <1>4, <1>5, RunningOnce
<1> QED
  BY <1>6, <1>7

LEMMA TrustedSums ==
    ASSUME NEW m \in Nat, m >= 3, NEW q, Bytes(q, m), NEW n \in Nat, q[3] = n - 4, n >= 4,
           IsTrustworthy(q)
    PROVE  n <= m /\ \E f : Sums(f, q, n)
<1> DEFINE t == SubSeq(q, 1, n)
<1>1. n \in 1..m /\ Sum(t) % 256 = 0
  <2>1. ExpectedTotal(q) = n /\ (IsComplete(q) <=> n <= m)
    BY CompleteWhen
  <2>2. IsComplete(q) /\ VerifyChecksum(SubSeq(q, 1, ExpectedTotal(q)))
    BY DEF IsTrustworthy
  <2>3. VerifyChecksum(t) => Sum(t) % 256 = 0
    BY DEF VerifyChecksum
  <2> HIDE DEF t
  <2>4. t = SubSeq(q, 1, n)
    BY DEF t
  <2> QED
    BY <2>1, <2>2, <2>3, <2>4
<1>2. Bytes(t, n) /\ \A i \in 1..n : t[i] = q[i]
  BY <1>1, FirstBytes
<1> HIDE DEF t
<1>3. PICK f \in [0..n -> Int] : Running(f, t, n) /\ Sum(t) = f[n]
  BY <1>1, <1>2, SumRuns
<1>4. Sums(f, q, n)
  <2>1. f[0] = 0 /\ \A i \in 1..n : f[i] = f[i - 1] + q[i]
    BY <1>2, <1>3 DEF Running
  <2>2. f[n] % 256 = 0
    BY <1>1, <1>3
  <2>3. \A i \in 1..n : q[i] \in Int
    BY <1>1, ByteValues
  <2>4. \A i \in 1..n : f[i] \in Int
    BY <1>3
  <2> QED
    BY <2>1, <2>2, <2>3, <2>4 DEF Sums
<1> QED
  BY <1>1, <1>4

LEMMA Whole ==
    ASSUME NEW p, Bytes(p, 31)
    PROVE  SubSeq(p, 1, 31) = p
<1>1. 31 \in 2..31 /\ Bytes(FirstPart(p, 31), 31)
  BY Parted
<1> QED
  BY <1>1, Parted

LEMMA ChangedSum ==
    ASSUME NEW x \in Int, x % 256 = 0, NEW b \in Byte, NEW delta \in 1..255,
           NEW c, c = (b + delta) % 256, NEW y, y = (x + c) - b
    PROVE  y % 256 # 0
<1>1. c \in Int /\ (c = b + delta \/ c = b + delta - 256)
  BY DEF Byte
<1>2. y = x + delta \/ y = x + delta - 256
  BY <1>1 DEF Byte
<1> QED
  BY <1>2

(* A packet with one changed byte among those that are decoded is dropped.  *)
Differs(q, p, k, delta) ==
    q[k] = (p[k] + delta) % 256 /\ AlikeBut(k, q, p, 31)

LEMMA ChangedDropped ==
    ASSUME NEW d \in Devices, NEW k \in Fronts, NEW delta \in 1..255, NEW q,
           Bytes(q, 31), Differs(q, Packet(d), k, delta), Packet(d)[k] \in Byte
    PROVE  IsComplete(q) /\ ~IsTrustworthy(q)
<1> DEFINE p == Packet(d)
           x == Sum(p)
<1>1. Bytes(p, 31) /\ p[3] = 27 /\ x % 256 = 0
  BY Packets DEF Carries
<1>2. k \in 1..31 /\ k # 3
  BY DEF Fronts
<1>3. q[3] = 27
  BY <1>1, <1>2 DEF Differs, AlikeBut
<1>4. ExpectedTotal(q) = 31 /\ IsComplete(q)
  BY <1>3, CompleteWhen
<1>5. SubSeq(q, 1, 31) = q
  BY Whole
<1>6. x \in Int /\ Sum(q) = (x + q[k]) - p[k]
  <2>1. AlikeBut(k, q, p, 31)
    BY DEF Differs
  <2>2. x \in Int /\ Sum(q) = x + q[k] - p[k]
    <3> HIDE DEF p
    <3> QED
      BY <1>1, <1>2, <2>1, SumOfChanged
  <2>3. p[k] \in Int /\ q[k] \in Int
    BY <1>1, <1>2, ByteValues
  <2> HIDE DEF p, x
  <2> QED
    BY <2>2, <2>3
<1>7. Sum(q) % 256 # 0
  <2>1. p[k] \in Byte /\ q[k] = (p[k] + delta) % 256
    BY DEF Differs
  <2> HIDE DEF p, x
  <2> QED
    BY <1>1, <1>6, <2>1, ChangedSum
<1> QED
  BY <1>4, <1>5, <1>7 DEF IsTrustworthy, VerifyChecksum

(* What follows a packet's first byte is no packet.                         *)
KnownBytes(p, d) ==
    /\ Carries(p, d)
    /\ p[1] = 1 /\ p[4] = 1 /\ p[5] = 0 /\ p[6] = 0 /\ p[7] = 0 /\ p[8] = 48
    /\ p[12] = 0 /\ p[13] = 0
    /\ p[16] = 0 /\ p[17] = 0 /\ p[18] = 44 /\ p[19] = 0 /\ p[20] = 18
    /\ p[21] = 1 /\ p[22] = 154 /\ p[23] = 1 /\ p[24] = 16 /\ p[25] = 255
    /\ p[26] = 0 /\ p[27] = 21 /\ p[28] = 52 /\ p[29] = 0 /\ p[30] = 0

LEMMA PacketBytes ==
    ASSUME NEW d \in Devices
    PROVE  /\ Bytes(Packet(d), 31) /\ KnownBytes(Packet(d), d)
           /\ \A i \in 1..31 : Packet(d)[i] \in Int
<1> DEFINE p == Packet(d)
<1>1. Bytes(p, 31) /\ Carries(p, d) /\ Constants(p)
  BY Packets
<1> HIDE DEF p
<1>2. \A i \in 1..31 : p[i] \in Int
  BY <1>1, ByteValues
<1>3. /\ Rest[1] = 0 /\ Rest[2] = 0 /\ Rest[3] = 44 /\ Rest[4] = 0 /\ Rest[5] = 18
      /\ Rest[6] = 1 /\ Rest[7] = 154 /\ Rest[8] = 1 /\ Rest[9] = 16 /\ Rest[10] = 255
      /\ Rest[11] = 0 /\ Rest[12] = 21 /\ Rest[13] = 52 /\ Rest[14] = 0 /\ Rest[15] = 0
  BY DEF Rest
<1>4. KnownBytes(p, d)
  BY <1>1, <1>3 DEF Constants, KnownBytes
<1> QED
  BY <1>1, <1>2, <1>4 DEF p

(* Where a packet holds the mark of a packet's start, beside its second byte.*)
Marked == {7, 8, 9, 12, 13, 29}

LEMMA MarkedOnly ==
    ASSUME NEW d \in Devices, NEW n \in 1..30, LooksLikePacketStart(Remainder(Packet(d), n))
    PROVE  n \in Marked /\ Packet(d)[n + 2] \in {86, 5}
<1> DEFINE p == Packet(d)
           r == Remainder(p, n)
<1>1. Bytes(p, 31) /\ KnownBytes(p, d)
  BY PacketBytes
<1> HIDE DEF p
<1>2. n \in 0..31
  OBVIOUS
<1>3. Bytes(r, 31 - n) /\ \A i \in 1..31 - n : r[i] = p[n + i]
  BY <1>2, <1>1, Remaining
<1> HIDE DEF r
<1>4. U8(r, 1) = IF 1 < 31 - n THEN r[2] ELSE None
  BY <1>3, ByteAt
<1>5. U8(r, 1) \in {86, 5}
  BY DEF LooksLikePacketStart, Offset, Formats, r, p
<1>6. n \in 1..29 /\ p[n + 2] \in {86, 5}
  BY <1>3, <1>4, <1>5 DEF None
<1>7. n \in Marked
  <2> DEFINE others == {3, 4, 5, 6, 7, 8, 12, 13} \cup 16..30
  <2>1. \A i \in others : p[i] \notin {86, 5}
    <3>1. 16..30 = {16, 17, 18, 19, 20, 21, 22, 23, 24, 25, 26, 27, 28, 29, 30}
      OBVIOUS
    <3> QED
      BY <1>1, <3>1 DEF KnownBytes, Carries
  <2>2. n + 2 \in others \/ n \in Marked
    BY <1>6 DEF Marked
  <2> QED
    BY <1>6, <2>1, <2>2
<1> QED
  BY <1>6, <1>7 DEF p

(* From the target on, with a turbo target for a mark.                      *)
LEMMA DroppedFromTarget ==
    ASSUME NEW d, Reached(d), Packet(d)[9] \in {86, 5}, NEW q, Bytes(q, 24),
           Follows(q, Packet(d), 7, 24)
    PROVE  IsComplete(q) /\ ~IsTrustworthy(q)
<1> DEFINE p == Packet(d)
           mode == StatusMode[d.mode]
<1>1. Bytes(p, 31) /\ KnownBytes(p, d)
  BY PacketBytes DEF Reached
<1>2. /\ d.step \in 0..19 /\ p[9] = 86 /\ mode \in {0, 1, 2, 4, 5}
      /\ mode = 4 => p[14] = 38 /\ p[15] = 52
      /\ mode = 5 => d.step = 9 /\ p[14] = 48 /\ p[15] = 62
  BY <1>1 DEF Reached, Devices, StatusMode, RangeOf, KnownBytes, Carries
<1>3. /\ q[1] = p[8] /\ q[2] = p[9] /\ q[3] = p[10] /\ q[4] = p[11] /\ q[5] = p[12]
      /\ q[6] = p[13] /\ q[7] = p[14] /\ q[8] = p[15] /\ q[9] = p[16]
  BY DEF Follows
<1> HIDE DEF p, mode
<1>4. /\ q[1] = 48 /\ q[2] = 86 /\ q[3] = mode /\ q[4] = d.step /\ q[5] = 0 /\ q[6] = 0
      /\ mode = 4 => q[7] = 38 /\ q[8] = 52
      /\ mode = 5 => q[7] = 48 /\ q[8] = 62 /\ q[9] = 0
  BY <1>1, <1>2, <1>3 DEF KnownBytes, Carries, mode
<1>5. IsComplete(q)
  BY <1>2, <1>4, CompleteWhen
<1>6. ASSUME IsTrustworthy(q) PROVE FALSE
  <2>1. PICK f : Sums(f, q, mode + 4)
    BY <1>2, <1>4, <1>6, TrustedSums
  <2>2. f[0] = 0 /\ f[mode + 4] % 256 = 0
    BY <2>1 DEF Sums
  <2>3. f[4] = 134 + mode + d.step
    <3>1. f[0 + 4] = f[0] + (q[0 + 1] + q[0 + 2] + q[0 + 3] + q[0 + 4])
      BY <1>2, <2>1, FourMore
    <3> QED
      BY <1>2, <1>4, <2>2, <3>1
  <2>4. CASE mode = 0
    BY <1>2, <2>2, <2>3, <2>4
  <2>5. CASE mode \in {1, 2}
    <3>1. f[4 + 1] = f[4] + q[4 + 1]
      BY <2>1, <2>5, OneMore
    <3>2. mode = 2 => f[5 + 1] = f[5] + q[5 + 1]
      BY <2>1, OneMore
    <3>3. CASE mode = 1
      <4>1. f[mode + 4] = 135 + d.step
        BY <1>2, <1>4, <2>3, <3>1, <3>3
      <4> QED
        BY <1>2, <2>2, <4>1
    <3>4. CASE mode = 2
      <4>1. f[mode + 4] = 136 + d.step
        BY <1>2, <1>4, <2>3, <3>1, <3>2, <3>4
      <4> QED
        BY <1>2, <2>2, <4>1
    <3> QED
      BY <2>5, <3>3, <3>4
  <2>6. CASE mode \in {4, 5}
    <3>1. f[4 + 4] = f[4] + (q[4 + 1] + q[4 + 2] + q[4 + 3] + q[4 + 4])
      BY <2>1, <2>6, FourMore
    <3>2. mode = 5 => f[8 + 1] = f[8] + q[8 + 1]
      BY <2>1, OneMore
    <3>3. CASE mode = 4
      <4>1. f[mode + 4] = 228 + d.step
        BY <1>2, <1>4, <2>3, <3>1, <3>3
      <4> QED
        BY <1>2, <2>2, <4>1
    <3>4. CASE mode = 5
      <4>1. f[mode + 4] = 258
        BY <1>2, <1>4, <2>3, <3>1, <3>2, <3>4
      <4> QED
        BY <2>2, <4>1
    <3> QED
      BY <2>6, <3>3, <3>4
  <2> QED
    BY <1>2, <2>4, <2>5, <2>6
<1> QED
  BY <1>5, <1>6

(* From the status on, which of "dry" is a mark: its fan speed is the one   *)
(* it was, or its target.                                                   *)
LEMMA DroppedFromStatus ==
    ASSUME NEW d, Reached(d), d.mode = "dry", NEW q, Bytes(q, 23),
           Follows(q, Packet(d), 8, 23)
    PROVE  IsComplete(q) /\ ~IsTrustworthy(q)
<1> DEFINE p == Packet(d)
           n == d.step + 4
<1>1. Bytes(p, 31) /\ KnownBytes(p, d) /\ p[31] \in Int
  BY PacketBytes DEF Reached
<1>2. /\ d.step \in 0..19 /\ d.target \in 0..255
      /\ p[10] = 5 /\ p[14] = 48 /\ p[15] = 62
      /\ d.step = 9 => d.target \in 20..62 \cup {86}
      /\ d.step # 9 => d.target = 48
  BY <1>1 DEF Reached, Devices, StatusMode, RangeOf, KnownBytes, Carries, Byte
<1>3. /\ q[1] = p[9] /\ q[2] = p[10] /\ q[3] = p[11] /\ q[4] = p[12] /\ q[5] = p[13]
      /\ q[6] = p[14] /\ q[7] = p[15] /\ q[8] = p[16] /\ q[9] = p[17] /\ q[10] = p[18]
      /\ q[11] = p[19] /\ q[12] = p[20] /\ q[13] = p[21] /\ q[14] = p[22] /\ q[15] = p[23]
      /\ q[16] = p[24] /\ q[17] = p[25] /\ q[18] = p[26] /\ q[19] = p[27] /\ q[20] = p[28]
      /\ q[21] = p[29] /\ q[22] = p[30] /\ q[23] = p[31]
  BY DEF Follows
<1>4. n \in 4..23 /\ q[3] = n - 4 /\ q[3] \in Nat
  BY <1>1, <1>2, <1>3 DEF KnownBytes, Carries
<1> HIDE DEF p, n
<1>5. /\ q[1] = d.target /\ q[2] = 5 /\ q[3] = d.step /\ q[4] = 0
      /\ q[5] = 0 /\ q[6] = 48 /\ q[7] = 62 /\ q[8] = 0 /\ q[9] = 0 /\ q[10] = 44
      /\ q[11] = 0 /\ q[12] = 18 /\ q[13] = 1 /\ q[14] = 154 /\ q[15] = 1 /\ q[16] = 16
      /\ q[17] = 255 /\ q[18] = 0 /\ q[19] = 21 /\ q[20] = 52 /\ q[21] = 0 /\ q[22] = 0
  BY <1>1, <1>2, <1>3 DEF KnownBytes, Carries
<1>6. IsComplete(q)
  BY <1>4, CompleteWhen
<1>7. ASSUME IsTrustworthy(q) PROVE FALSE
  <2>1. PICK f : Sums(f, q, n)
    BY <1>4, <1>7, TrustedSums
  <2>2. f[0] = 0 /\ f[n] % 256 = 0
    BY <2>1 DEF Sums
  <2>3. \A i \in 1..n : f[i] = f[i - 1] + q[i]
    BY <2>1 DEF Sums
  <2>4. d.step = n - 4
    BY <1>2, <1>4 DEF n
  <2>5. f[4] = d.target + d.step + 5
    <3>1. f[1] = d.target
      BY <1>2, <1>4, <1>5, <2>2, <2>3
    <3>2. f[2] = d.target + 5
      BY <1>2, <1>4, <1>5, <2>3, <3>1
    <3>3. f[3] = d.target + d.step + 5
      BY <1>2, <1>4, <1>5, <2>3, <3>2
    <3> QED
      BY <1>2, <1>4, <1>5, <2>3, <3>3
  <2>6. n >= 5 => f[5] = d.target + d.step + 5
    BY <1>2, <1>4, <1>5, <2>3, <2>5
  <2>7. n >= 6 => f[6] = d.target + d.step + 53
    BY <1>2, <1>4, <1>5, <2>3, <2>6
  <2>8. n >= 7 => f[7] = d.target + d.step + 115
    BY <1>2, <1>4, <1>5, <2>3, <2>7
  <2>9. n >= 8 => f[8] = d.target + d.step + 115
    BY <1>2, <1>4, <1>5, <2>3, <2>8
  <2>10. n >= 9 => f[9] = d.target + d.step + 115
    BY <1>2, <1>4, <1>5, <2>3, <2>9
  <2>11. n >= 10 => f[10] = d.target + d.step + 159
    BY <1>2, <1>4, <1>5, <2>3, <2>10
  <2>12. n >= 11 => f[11] = d.target + d.step + 159
    BY <1>2, <1>4, <1>5, <2>3, <2>11
  <2>13. n >= 12 => f[12] = d.target + d.step + 177
    BY <1>2, <1>4, <1>5, <2>3, <2>12
  <2>14. n >= 13 => f[13] = d.target + d.step + 178
    BY <1>2, <1>4, <1>5, <2>3, <2>13
  <2>15. n >= 14 => f[14] = d.target + d.step + 332
    BY <1>2, <1>4, <1>5, <2>3, <2>14
  <2>16. n >= 15 => f[15] = d.target + d.step + 333
    BY <1>2, <1>4, <1>5, <2>3, <2>15
  <2>17. n >= 16 => f[16] = d.target + d.step + 349
    BY <1>2, <1>4, <1>5, <2>3, <2>16
  <2>18. n >= 17 => f[17] = d.target + d.step + 604
    BY <1>2, <1>4, <1>5, <2>3, <2>17
  <2>19. n >= 18 => f[18] = d.target + d.step + 604
    BY <1>2, <1>4, <1>5, <2>3, <2>18
  <2>20. n >= 19 => f[19] = d.target + d.step + 625
    BY <1>2, <1>4, <1>5, <2>3, <2>19
  <2>21. n >= 20 => f[20] = d.target + d.step + 677
    BY <1>2, <1>4, <1>5, <2>3, <2>20
  <2>22. n >= 21 => f[21] = d.target + d.step + 677
    BY <1>2, <1>4, <1>5, <2>3, <2>21
  <2>23. n >= 22 => f[22] = d.target + d.step + 677
    BY <1>2, <1>4, <1>5, <2>3, <2>22
  <2>24. CASE d.step = 9
    BY <1>2, <2>2, <2>4, <2>24, <2>14
  <2>25. CASE d.step # 9 /\ n # 23
    <3>1. n \in 4..22 /\ d.target = 48 /\ d.step = n - 4 /\ f[n] % 256 = 0
      BY <1>2, <1>4, <2>2, <2>4, <2>25
    <3> HIDE DEF n
    <3>2. CASE n \in 4..7
      BY <3>1, <3>2, <2>5, <2>6, <2>7, <2>8
    <3>3. CASE n \in 8..11
      BY <3>1, <3>3, <2>9, <2>10, <2>11, <2>12
    <3>4. CASE n \in 12..15
      BY <3>1, <3>4, <2>13, <2>14, <2>15, <2>16
    <3>5. CASE n \in 16..19
      BY <3>1, <3>5, <2>17, <2>18, <2>19, <2>20
    <3>6. CASE n \in 20..22
      BY <3>1, <3>6, <2>21, <2>22, <2>23
    <3> QED
      BY <3>1, <3>2, <3>3, <3>4, <3>5, <3>6
  <2>26. CASE n = 23
    <3>1. PICK g : Sums(g, p, 31)
      <4>1. IsTrustworthy(p)
        BY PacketTrusted DEF Reached, p
      <4> QED
        BY <1>1, <4>1, TrustedSums DEF KnownBytes, Carries
    <3>2. f[23] = g[31] - g[8]
      <4>1. Sums(f, q, 23) /\ Sums(g, p, 31) /\ Follows(q, p, 8, 23)
        BY <2>1, <2>26, <3>1 DEF p
      <4> QED
        BY <4>1, TailSum
    <3>3. g[0] = 0 /\ g[31] % 256 = 0
      BY <3>1 DEF Sums
    <3>4. /\ g[0 + 4] = g[0] + (p[0 + 1] + p[0 + 2] + p[0 + 3] + p[0 + 4])
          /\ g[4 + 4] = g[4] + (p[4 + 1] + p[4 + 2] + p[4 + 3] + p[4 + 4])
      BY <3>1, FourMore
    <3>5. g[8] = 163
      BY <1>1, <3>3, <3>4 DEF KnownBytes, Carries
    <3>6. g[31] \in Int /\ f[23] = g[31] - 163
      BY <3>1, <3>2, <3>5 DEF Sums
    <3> QED
      BY <2>2, <2>26, <3>3, <3>6
  <2> QED
    BY <2>24, <2>25, <2>26
<1> QED
  BY <1>6, <1>7

(* A packet whose length says that nothing follows its header.              *)
LEMMA DroppedHeader ==
    ASSUME NEW m \in Nat, m >= 4, NEW q, Bytes(q, m), q[3] = 0,
           NEW x, x = q[1] + q[2] + q[3] + q[4], x \in 1..255
    PROVE  IsComplete(q) /\ ~IsTrustworthy(q)
<1>1. IsComplete(q)
  BY CompleteWhen
<1>2. ASSUME IsTrustworthy(q) PROVE FALSE
  <2>1. PICK f : Sums(f, q, 4)
    BY <1>2, TrustedSums
  <2>2. f[0] = 0 /\ f[4] % 256 = 0
    BY <2>1 DEF Sums
  <2>3. f[0 + 4] = f[0] + (q[0 + 1] + q[0 + 2] + q[0 + 3] + q[0 + 4])
    BY <2>1, FourMore
  <2>4. f[4] = x
    BY <2>2, <2>3
  <2> QED
    BY <2>2, <2>4
<1> QED
  BY <1>1, <1>2

(* From the fan speed on, with a mark for a mode.                           *)
LEMMA DroppedFromMode ==
    ASSUME NEW d \in Devices, Packet(d)[11] \in {86, 5}, NEW q, Bytes(q, 22),
           Follows(q, Packet(d), 9, 22)
    PROVE  IsComplete(q) /\ ~IsTrustworthy(q)
<1> DEFINE p == Packet(d)
           mode == StatusMode[d.mode]
<1>1. KnownBytes(p, d) /\ mode \in 0..5 /\ d.step \in 0..19
  BY PacketBytes DEF Devices, StatusMode
<1>2. q[1] = p[10] /\ q[2] = p[11] /\ q[3] = p[12] /\ q[4] = p[13]
  BY DEF Follows
<1>3. q[1] = mode /\ q[2] = 5 /\ q[3] = 0 /\ q[4] = 0
  BY <1>1, <1>2 DEF KnownBytes, Carries
<1> HIDE DEF mode
<1>4. q[1] + q[2] + q[3] + q[4] \in 1..255
  BY <1>1, <1>3
<1> QED
  BY <1>3, <1>4, DroppedHeader

(* The range of turbo is its target, for a mark and for a length.           *)
LEMMA TurboOnly ==
    ASSUME NEW d \in Devices, RangeOf[d.mode][1] \in {86, 5} \/ RangeOf[d.mode][2] \in {86, 5}
    PROVE  /\ Packet(d)[13] = 0 /\ Packet(d)[14] = 86 /\ Packet(d)[15] = 86
           /\ Packet(d)[16] = 0 /\ Packet(d)[17] = 0
<1>1. RangeOf[d.mode][1] = 86 /\ RangeOf[d.mode][2] = 86
  BY DEF Devices, StatusMode, RangeOf
<1>2. KnownBytes(Packet(d), d)
  BY PacketBytes
<1> QED
  BY <1>1, <1>2 DEF KnownBytes, Carries

LEMMA DroppedFromMaximum ==
    ASSUME NEW d \in Devices, Packet(d)[15] \in {86, 5}, NEW q, Bytes(q, 18),
           Follows(q, Packet(d), 13, 18)
    PROVE  IsComplete(q) /\ ~IsTrustworthy(q)
<1> DEFINE p == Packet(d)
<1>1. p[14] = 86 /\ p[15] = 86 /\ p[16] = 0 /\ p[17] = 0
  BY PacketBytes, TurboOnly DEF KnownBytes, Carries
<1>2. q[1] = p[14] /\ q[2] = p[15] /\ q[3] = p[16] /\ q[4] = p[17]
  BY DEF Follows
<1> HIDE DEF p
<1>3. q[1] + q[2] + q[3] + q[4] = 172 /\ q[3] = 0
  BY <1>1, <1>2
<1> QED
  BY <1>3, DroppedHeader

LEMMA DroppedFromMinimum ==
    ASSUME NEW d \in Devices, Packet(d)[14] \in {86, 5}, NEW q, Bytes(q, 19),
           Follows(q, Packet(d), 12, 19),
           NEW l \in 0..31, NEW t, Bytes(t, l)
    PROVE  ~IsComplete(q) /\ ~IsTrustworthy(Reassemble(q, t))
<1> DEFINE p == Packet(d)
           r == Reassemble(q, t)
<1>1. p[15] = 86
  BY PacketBytes, TurboOnly DEF KnownBytes, Carries
<1>2. q[3] = p[15]
  BY DEF Follows
<1>3. Bytes(r, 19 + l) /\ r[3] = q[3]
  BY Concatenated
<1> HIDE DEF p, r
<1>4. ~IsComplete(q) /\ ~IsComplete(r)
  BY <1>1, <1>2, <1>3, CompleteWhen
<1> QED
  BY <1>4 DEF IsTrustworthy, r

(* A checksum that is a mark, before the remainder of its packet.           *)
LEMMA DroppedFromChecksum ==
    ASSUME NEW d \in Devices, Packet(d)[31] \in {86, 5}, NEW q, Bytes(q, 2),
           Follows(q, Packet(d), 29, 2), NEW t, Bytes(t, 11), Follows(t, Packet(d), 20, 11)
    PROVE  ~IsComplete(q) /\ ~IsTrustworthy(Reassemble(q, t))
<1> DEFINE p == Packet(d)
           r == Reassemble(q, t)
<1>1. p[21] = 1 /\ p[22] = 154 /\ p[23] = 1 /\ p[30] = 0
  BY PacketBytes DEF KnownBytes
<1>2. q[1] = p[30] /\ q[2] = p[31] /\ t[1] = p[21] /\ t[2] = p[22] /\ t[3] = p[23]
  BY DEF Follows
<1>3. /\ Bytes(r, 2 + 11)
      /\ \A i \in 1..2 : r[i] = q[i]
      /\ \A i \in 2 + 1..2 + 11 : r[i] = t[i - 2]
  BY Concatenated
<1> HIDE DEF p, r
<1>4. r[1] = 0 /\ r[2] = p[31] /\ r[3] = 1 /\ r[4] = 154 /\ r[5] = 1
  BY <1>1, <1>2, <1>3
<1>5. ~IsComplete(q)
  <2>1. U8(q, 2) = None
    BY ByteAt
  <2> QED
    BY <2>1 DEF IsComplete, ExpectedTotal, Offset
<1>6. ASSUME IsTrustworthy(r) PROVE FALSE
  <2>1. PICK f : Sums(f, r, 5)
    BY <1>3, <1>4, <1>6, TrustedSums
  <2>2. f[0] = 0 /\ f[5] % 256 = 0
    BY <2>1 DEF Sums
  <2>3. f[0 + 4] = f[0] + (r[0 + 1] + r[0 + 2] + r[0 + 3] + r[0 + 4])
    BY <2>1, FourMore
  <2>4. f[4 + 1] = f[4] + r[4 + 1]
    BY <2>1, OneMore
  <2>5. f[5] = p[31] + 156 /\ p[31] \in {86, 5}
    BY <1>4, <2>2, <2>3, <2>4 DEF p
  <2> QED
    BY <2>2, <2>5
<1> QED
  BY <1>5, <1>6 DEF r

(* A remainder that is taken for a packet is dropped.                       *)
LEMMA MisplacedDropped ==
    ASSUME NEW d, Reached(d), NEW n \in 1..30,
           OnNotify(Remainder(Packet(d), n), Remainder(Packet(d), SplitAt))
    PROVE  report' = report
<1> DEFINE p == Packet(d)
           s == Remainder(p, n)
           t == Remainder(p, 20)
<1>1. d \in Devices /\ Bytes(p, 31)
  BY PacketBytes DEF Reached
<1>2. Bytes(s, 31 - n) /\ Follows(s, p, n, 31 - n)
  <2>1. n \in 0..31
    OBVIOUS
  <2> HIDE DEF p
  <2> QED
    BY <1>1, <2>1, Remaining DEF Follows
<1>3. Bytes(t, 11) /\ Follows(t, p, 20, 11)
  <2>1. 20 \in 0..31 /\ 31 - 20 = 11
    OBVIOUS
  <2> HIDE DEF p
  <2> QED
    BY <1>1, <2>1, Remaining DEF Follows
<1>4. OnNotify(s, t)
  BY DEF SplitAt
<1> HIDE DEF s, t
<1>5. ASSUME \/ IsComplete(s) /\ ~IsTrustworthy(s)
             \/ ~IsComplete(s) /\ ~IsTrustworthy(Reassemble(s, t))
      PROVE  report' = report
  BY <1>4, <1>5 DEF OnNotify, Published, Discarded
<1>6. CASE ~LooksLikePacketStart(s)
  BY <1>4, <1>6 DEF OnNotify
<1>7. CASE LooksLikePacketStart(s)
  <2>1. n \in Marked /\ p[n + 2] \in {86, 5}
    BY <1>1, <1>7, MarkedOnly DEF s
  <2> HIDE DEF p
  <2>2. CASE n = 7
    <3>1. p[9] \in {86, 5} /\ Bytes(s, 24) /\ Follows(s, p, 7, 24)
      BY <1>2, <2>1, <2>2
    <3> QED
      BY <1>5, <3>1, DroppedFromTarget DEF p
  <2>3. CASE n = 8
    <3>1. p[10] \in {86, 5} /\ Bytes(s, 23) /\ Follows(s, p, 8, 23)
      BY <1>2, <2>1, <2>3
    <3>2. d.mode = "dry"
      BY <1>1, <3>1, PacketBytes DEF p, KnownBytes, Carries, Devices, StatusMode
    <3> QED
      BY <1>5, <3>1, <3>2, DroppedFromStatus DEF p
  <2>4. CASE n = 9
    <3>1. p[11] \in {86, 5} /\ Bytes(s, 22) /\ Follows(s, p, 9, 22)
      BY <1>2, <2>1, <2>4
    <3> QED
      BY <1>1, <1>5, <3>1, DroppedFromMode DEF p
  <2>5. CASE n = 12
    <3>1. p[14] \in {86, 5} /\ Bytes(s, 19) /\ Follows(s, p, 12, 19)
      BY <1>2, <2>1, <2>5
    <3> QED
      BY <1>1, <1>3, <1>5, <3>1, DroppedFromMinimum DEF p
  <2>6. CASE n = 13
    <3>1. p[15] \in {86, 5} /\ Bytes(s, 18) /\ Follows(s, p, 13, 18)
      BY <1>2, <2>1, <2>6
    <3> QED
      BY <1>1, <1>5, <3>1, DroppedFromMaximum DEF p
  <2>7. CASE n = 29
    <3>1. p[31] \in {86, 5} /\ Bytes(s, 2) /\ Follows(s, p, 29, 2)
      BY <1>2, <2>1, <2>7
    <3> QED
      BY <1>1, <1>3, <1>5, <3>1, DroppedFromChecksum DEF p
  <2> QED
    BY <2>1, <2>2, <2>3, <2>4, <2>5, <2>6, <2>7 DEF Marked
<1> QED
  BY <1>6, <1>7

(* What arrives with the first part of a packet, whatever follows it.       *)
LEMMA FirstPartDecoded ==
    ASSUME NEW d \in Devices, NEW l \in Nat, NEW t, Bytes(t, l),
           OnNotify(FirstPart(Packet(d), SplitAt), t)
    PROVE  report' \in {report, DecodeStatus(Packet(d))}
<1> DEFINE p == Packet(d)
           s == FirstPart(p, 20)
<1>1. Bytes(p, 31)
  BY PacketBytes
<1>2. OnNotify(s, t)
  BY DEF SplitAt
<1>3. Bytes(s, 20) /\ \A i \in 1..20 : s[i] = p[i]
  <2>1. 20 \in 2..31
    OBVIOUS
  <2> HIDE DEF p
  <2> QED
    BY <1>1, <2>1, Parted
<1> HIDE DEF p, s
<1>4. \A i \in Fronts : s[i] = p[i]
  BY <1>3 DEF Fronts
<1>5. report' \in {report, DecodeStatus(p)}
  BY <1>1, <1>2, <1>3, <1>4, FrontDecoded
<1> QED
  BY <1>5 DEF p

(* A packet one of whose bytes is changed is dropped, or decodes as it was. *)
Corrupt(p, i, delta) == [p EXCEPT ![i + 1] = (@ + delta) % 256]

LEMMA CorruptDecoded ==
    ASSUME NEW d \in Devices, NEW i \in 0..30, NEW delta \in 1..255,
           OnNotify(Corrupt(Packet(d), i, delta), Remainder(Packet(d), SplitAt))
    PROVE  report' \in {report, DecodeStatus(Packet(d))}
<1> DEFINE p == Packet(d)
           k == i + 1
           q == [p EXCEPT ![k] = (p[k] + delta) % 256]
           t == Remainder(p, 20)
           c == Len(p)
<1>1. Bytes(p, 31) /\ p \in Seq(Int) /\ k \in 1..31
  BY PacketBytes DEF Bytes
<1>2. p[k] \in Int /\ (p[k] + delta) % 256 \in Int
  <2>1. p[k] \in Int
    BY <1>1, ByteValues
  <2> HIDE DEF p
  <2> QED
    BY <2>1
<1>3. Bytes(t, 11)
  <2>1. 20 \in 0..31 /\ 31 - 20 = 11
    OBVIOUS
  <2> HIDE DEF p
  <2> QED
    BY <1>1, <2>1, Remaining
<1>4. OnNotify(q, t)
  BY DEF SplitAt, Corrupt
<1>5. Bytes(q, 31) /\ Differs(q, p, k, delta)
  <2>1. c = 31
    BY <1>1 DEF Bytes
  <2> HIDE DEF c
  <2>2. k \in 1..c
    BY <1>1, <2>1
  <2> HIDE DEF k
  <2>3. /\ q \in Seq(Int) /\ Len(q) = c
        /\ \A j \in 1..c : q[j] = IF j = k THEN (p[k] + delta) % 256 ELSE p[j]
    <3> DEFINE e == (p[k] + delta) % 256
    <3>1. e \in Int /\ k \in 1..Len(p) /\ c = Len(p)
      BY <1>2, <2>2 DEF c
    <3> HIDE DEF e, p
    <3>2. /\ [p EXCEPT ![k] = e] \in Seq(Int) /\ Len([p EXCEPT ![k] = e]) = Len(p)
          /\ \A j \in 1..Len(p) : [p EXCEPT ![k] = e][j] = IF j = k THEN e ELSE p[j]
      BY <1>1, <3>1, ExceptSeq
    <3> QED
      BY <3>1, <3>2 DEF e
  <2>4. Bytes(q, 31)
    BY <2>1, <2>3 DEF Bytes
  <2> HIDE DEF p, q
  <2>5. Differs(q, p, k, delta)
    BY <1>1, <2>1, <2>3 DEF Differs, AlikeBut
  <2> QED
    BY <2>4, <2>5
<1> HIDE DEF p, k, q, t
<1>6. CASE k \in Fronts
  <2>1. p[k] \in Byte
    BY <1>6, PacketBytes DEF p, Fronts, KnownBytes, Carries, Devices, StatusMode, RangeOf, Byte
  <2>2. IsComplete(q) /\ ~IsTrustworthy(q)
    BY <1>5, <1>6, <2>1, ChangedDropped DEF p
  <2> QED
    BY <1>4, <2>2 DEF OnNotify, Published, Discarded
<1>7. CASE k \notin Fronts
  <2>1. \A j \in Fronts : q[j] = p[j]
    BY <1>5, <1>7 DEF Differs, AlikeBut, Fronts
  <2>2. report' \in {report, DecodeStatus(p)}
    BY <1>1, <1>3, <1>4, <1>5, <2>1, FrontDecoded
  <2> QED
    BY <2>2 DEF p
<1> QED
  BY <1>6, <1>7

(* Two packets of which only the modes differ, mixed where the mode is of   *)
(* the one and the last byte of the range of the other: the sum is wrong.   *)
LEMMA MixedModes ==
    ASSUME NEW d \in Devices, NEW e \in Devices, d.mode # e.mode,
           d.target = e.target, d.step = e.step, NEW n \in 10..14, NEW r, Bytes(r, 31),
           \A i \in 1..n : r[i] = Packet(d)[i], \A i \in n + 1..31 : r[i] = Packet(e)[i]
    PROVE  ~IsTrustworthy(r)
<1> DEFINE p == Packet(d)
           q == Packet(e)
           c == [q EXCEPT ![10] = p[10]]
           x == Sum(q)
<1>1. Bytes(q, 31) /\ KnownBytes(p, d) /\ KnownBytes(q, e) /\ q[3] = 27 /\ x % 256 = 0
  BY Packets, PacketBytes DEF Carries
<1>2. p[10] \in Int /\ q[10] \in Int /\ p[14] \in Int /\ q[14] \in Int
  BY PacketBytes
<1>3. Bytes(c, 31) /\ AlikeBut(10, c, q, 31) /\ c[10] = p[10]
  <2> DEFINE z == p[10]
             k == Len(q)
  <2>1. z \in Int /\ q \in Seq(Int) /\ k = 31
    BY <1>1, <1>2 DEF Bytes
  <2> HIDE DEF z, q, k
  <2>2. 10 \in 1..k
    BY <2>1
  <2>3. /\ [q EXCEPT ![10] = z] \in Seq(Int) /\ Len([q EXCEPT ![10] = z]) = k
        /\ \A j \in 1..k : [q EXCEPT ![10] = z][j] = IF j = 10 THEN z ELSE q[j]
    <3>1. 10 \in 1..Len(q)
      BY <2>2 DEF k
    <3>2. /\ [q EXCEPT ![10] = z] \in Seq(Int) /\ Len([q EXCEPT ![10] = z]) = Len(q)
          /\ \A j \in 1..Len(q) : [q EXCEPT ![10] = z][j] = IF j = 10 THEN z ELSE q[j]
      BY <2>1, <3>1, ExceptSeq
    <3> QED
      BY <3>2 DEF k
  <2> QED
    BY <2>1, <2>3 DEF Bytes, AlikeBut, z
<1> HIDE DEF p, q, c
<1>4. \A i \in (1..13) \ {10} : p[i] = q[i]
  BY <1>1 DEF KnownBytes, Carries
<1>5. x \in Int /\ Sum(c) = (x + p[10]) - q[10] /\ Sum(c) \in Int
  <2>1. x \in Int /\ Sum(c) = x + c[10] - q[10]
    BY <1>1, <1>3, SumOfChanged
  <2> HIDE DEF x
  <2> QED
    BY <1>2, <1>3, <2>1
<1>6. Sum(r) = IF n = 14 THEN (Sum(c) + p[14]) - q[14] ELSE Sum(c)
  <2>1. r[14] = IF n = 14 THEN p[14] ELSE q[14]
    BY DEF p, q
  <2>2. AlikeBut(14, r, c, 31)
    <3>1. ASSUME NEW i \in 1..31, i # 14
          PROVE  r[i] = c[i]
      <4>1. CASE i = 10
        BY <1>3, <4>1 DEF p
      <4>2. CASE i # 10 /\ i <= n
        BY <1>3, <1>4, <3>1, <4>2 DEF p, AlikeBut
      <4>3. CASE i # 10 /\ i > n
        BY <1>3, <3>1, <4>3 DEF q, AlikeBut
      <4> QED
        BY <4>1, <4>2, <4>3
    <3> QED
      BY <3>1 DEF AlikeBut
  <2>3. c[14] = q[14]
    BY <1>3 DEF AlikeBut
  <2>4. Sum(r) = Sum(c) + r[14] - c[14]
    BY <1>3, <2>2, SumOfChanged
  <2> QED
    BY <1>2, <1>5, <2>1, <2>3, <2>4
<1>7. Sum(r) % 256 # 0
  <2>1. /\ p[10] = StatusMode[d.mode] /\ q[10] = StatusMode[e.mode]
        /\ p[14] = RangeOf[d.mode][1] /\ q[14] = RangeOf[e.mode][1]
    BY <1>1 DEF KnownBytes, Carries
  <2>2. /\ p[10] - q[10] \in -5..5 /\ p[10] # q[10]
        /\ (p[10] + p[14]) - (q[10] + q[14]) \in -68..68 /\ p[10] + p[14] # q[10] + q[14]
    BY <2>1 DEF Devices, StatusMode, RangeOf
  <2> HIDE DEF x
  <2> DEFINE y == IF n = 14 THEN (p[10] + p[14]) - (q[10] + q[14]) ELSE p[10] - q[10]
  <2>3. Sum(r) = x + y /\ y \in -68..68 /\ y # 0
    BY <1>2, <1>5, <1>6, <2>2
  <2> HIDE DEF y
  <2> QED
    BY <1>1, <1>5, <2>3
<1>8. ExpectedTotal(r) = 31 /\ SubSeq(r, 1, 31) = r
  <2>1. r[3] = 27
    BY <1>1, <1>4 DEF p
  <2> QED
    BY <2>1, CompleteWhen, Whole
<1> QED
  BY <1>7, <1>8 DEF IsTrustworthy, VerifyChecksum

(* The first part of a packet with the remainder of one that a command has  *)
(* come between: what is published of the two is the one or the other.      *)
LEMMA MixedDecoded ==
    ASSUME NEW d \in Devices, NEW e \in Devices, Neighbours(d, e), NEW n \in 2..31,
           OnNotify(FirstPart(Packet(d), n), Remainder(Packet(e), n))
    PROVE  report' \in {report, DecodeStatus(Packet(d)), DecodeStatus(Packet(e))}
<1> DEFINE p == Packet(d)
           q == Packet(e)
           s == FirstPart(p, n)
           t == Remainder(q, n)
           r == Reassemble(s, t)
<1>1. /\ Bytes(p, 31) /\ Bytes(q, 31)
      /\ KnownBytes(p, d) /\ KnownBytes(q, e)
  BY PacketBytes
<1>2. OnNotify(s, t)
  OBVIOUS
<1> HIDE DEF p, q
<1>3. Bytes(s, n) /\ \A i \in 1..n : s[i] = p[i]
  BY <1>1, Parted
<1>4. Bytes(t, 31 - n) /\ \A i \in 1..31 - n : t[i] = q[n + i]
  <2>1. n \in 0..31
    OBVIOUS
  <2> QED
    BY <1>1, <2>1, Remaining
<1> HIDE DEF s, t
<1>5. CASE n >= 15
  <2>1. \A i \in Fronts : s[i] = p[i]
    BY <1>3, <1>5 DEF Fronts
  <2>2. report' \in {report, DecodeStatus(p)}
    BY <1>1, <1>2, <1>3, <1>4, <1>5, <2>1, FrontDecoded
  <2> QED
    BY <2>2 DEF p
<1>6. CASE n <= 14
  <2>1. /\ Bytes(r, 31) /\ \A i \in 1..n : r[i] = p[i]
        /\ \A i \in n + 1..31 : r[i] = q[i]
    <3>1. /\ Bytes(r, n + (31 - n))
          /\ \A i \in 1..n : r[i] = s[i]
          /\ \A i \in n + 1..n + (31 - n) : r[i] = t[i - n]
      BY <1>3, <1>4, Concatenated
    <3>2. n + (31 - n) = 31
      OBVIOUS
    <3> HIDE DEF r
    <3>3. ASSUME NEW i \in n + 1..31
          PROVE  r[i] = q[i]
      <4>1. i - n \in 1..31 - n /\ n + (i - n) = i
        OBVIOUS
      <4> QED
        BY <1>4, <3>1, <3>2, <4>1
    <3> QED
      BY <1>3, <3>1, <3>2, <3>3
  <2>2. ~IsComplete(s)
    <3>1. CASE n = 2
      <4>1. U8(s, 2) = None
        BY <1>3, <3>1, ByteAt
      <4> QED
        BY <4>1 DEF IsComplete, ExpectedTotal, Offset
    <3>2. CASE n >= 3
      <4>1. s[3] = 27
        BY <1>1, <1>3, <3>2 DEF KnownBytes, Carries
      <4> QED
        BY <1>3, <1>6, <3>2, <4>1, CompleteWhen
    <3> QED
      BY <3>1, <3>2
  <2>3. report' = report \/ (report' = DecodeStatus(r) /\ IsTrustworthy(r))
    BY <1>2, <2>2 DEF OnNotify, Published, Discarded
  <2> HIDE DEF r
  <2>4. ASSUME NEW o, Bytes(o, 31), \A i \in Fronts : r[i] = o[i]
        PROVE  report' \in {report, DecodeStatus(o)}
    BY <2>1, <2>3, <2>4, SameDecoded
  <2>5. CASE \/ n <= 8
             \/ d.mode = e.mode /\ d.target = e.target
                /\ n <= 10
    <3>1. \A i \in Fronts : r[i] = q[i]
      BY <1>1, <2>1, <2>5 DEF Fronts, KnownBytes, Carries
    <3> QED
      BY <1>1, <2>4, <3>1 DEF q
  <2>6. CASE n >= 9 /\ d.mode = e.mode /\ (d.step = e.step \/ n >= 11)
    <3>1. \A i \in Fronts : r[i] = p[i]
      BY <1>1, <1>6, <2>1, <2>6 DEF Fronts, KnownBytes, Carries
    <3> QED
      BY <1>1, <2>4, <3>1 DEF p
  <2>7. CASE n >= 9 /\ d.mode # e.mode
    <3>1. d.target = e.target /\ d.step = e.step
      BY <2>7 DEF Neighbours
    <3>2. CASE n = 9
      <4>1. \A i \in Fronts : r[i] = q[i]
        BY <1>1, <2>1, <3>1, <3>2 DEF Fronts, KnownBytes, Carries
      <4> QED
        BY <1>1, <2>4, <4>1 DEF q
    <3>3. CASE n \in 10..14
      <4>1. ~IsTrustworthy(r)
        BY <2>1, <2>7, <3>1, <3>3, MixedModes DEF p, q
      <4> QED
        BY <2>3, <4>1
    <3> QED
      BY <1>6, <2>7, <3>2, <3>3
  <2> QED
    BY <1>6, <2>5, <2>6, <2>7 DEF Neighbours
<1> QED
  BY <1>5, <1>6

LEMMA SendReaches ==
    ASSUME IntactInv, Send, KeptInv'
    PROVE  Reached(device)' /\ Neighbours(before, device)'
<1>1. /\ device \in Devices /\ device' \in Devices /\ request \in Requests
      /\ phase = "asked" /\ UNCHANGED request /\ before' = device
      /\ device.step = 9 /\ device.target = RangeOf[device.mode][1]
  BY DEF IntactInv, KeptInv, Send
<1>2. /\ payload' = Encoded(request, report)
      /\ device' = IF payload' = Refused THEN device ELSE Obeying(device, payload')
      /\ payload' # Refused => phase' = "sent"
  BY DEF Send
<1>3. CASE device' = device
  BY <1>1, <1>3 DEF Reached, Neighbours
<1>4. CASE device' # device /\ request.kind = "fan"
  <2> DEFINE k == Round(Percent(request.value) - 5, 5)
  <2>1. request.value \in Int
    BY <1>1, <1>4, InputsAssumption DEF Requests
  <2>2. payload' = <<7, k>>
    BY <1>2, <1>4, <2>1, FanEncoded
  <2> HIDE DEF k
  <2>3. device' = [device EXCEPT !.step = k]
    BY <1>2, <1>4, <2>2 DEF Obeying
  <2>4. device'.mode = device.mode /\ device'.target = device.target
    BY <1>1, <2>3 DEF Devices
  <2> QED
    BY <1>1, <2>4 DEF Reached, Neighbours
<1>5. CASE device' # device /\ request.kind = "target"
  <2> DEFINE w == Round(request.value, 10)
  <2>1. request.value \in Int
    BY <1>1, <1>5, InputsAssumption DEF Requests
  <2>2. payload' = <<3, w>>
    BY <1>2, <1>5, <2>1, TargetEncoded
  <2> HIDE DEF w
  <2>3. device' = [device EXCEPT !.target = w]
    BY <1>2, <1>5, <2>2 DEF Obeying
  <2>4. device'.step = device.step /\ device'.mode = device.mode
    BY <1>1, <2>3 DEF Devices
  <2>5. phase' = "sent" /\ request'.kind = "target"
    BY <1>1, <1>2, <1>5
  <2>6. device'.target \in RangeOf[device'.mode][1]..RangeOf[device'.mode][2]
    BY <2>5 DEF KeptInv, TargetIsKept
  <2> QED
    BY <1>1, <2>4, <2>6 DEF Reached, Neighbours
<1>6. CASE device' # device /\ request.kind = "mode"
  <2> DEFINE m == ExpectedStatusFor[request.value]
  <2>1. request.value \in DOMAIN ExpectedStatusFor
    BY <1>1, <1>6 DEF Requests
  <2>2. /\ payload' = <<1, CommandMode[request.value]>>
        /\ Obeying(device, <<1, CommandMode[request.value]>>) = [device EXCEPT !.mode = m]
    BY <1>1, <1>2, <1>6, <2>1, ModeEncoded
  <2> HIDE DEF m
  <2>3. device' = [device EXCEPT !.mode = m]
    BY <1>2, <1>6, <2>2
  <2>4. device'.step = device.step /\ device'.target = device.target
    BY <1>1, <2>3 DEF Devices
  <2>5. device'.target \in {RangeOf[o][1] : o \in DOMAIN StatusMode}
    BY <1>1, <2>4 DEF Devices
  <2> QED
    BY <1>1, <2>4, <2>5 DEF Reached, Neighbours
<1> QED
  BY <1>1, <1>3, <1>4, <1>5, <1>6 DEF Requests

LEMMA ArrivalIsIntact ==
    ASSUME IntactInv, Arrives
    PROVE  OnlyIntact'
<1>1. /\ device \in Devices /\ before \in Devices /\ Reached(device) /\ OnlyIntact
      /\ Neighbours(before, device)
      /\ UNCHANGED <<before, device>>
  BY DEF IntactInv, KeptInv, Arrives
<1>2. ASSUME NEW d \in {before, device}, report' \in {report, DecodeStatus(Packet(d))}
      PROVE  OnlyIntact'
  BY <1>1, <1>2 DEF OnlyIntact
<1>3. ASSUME NEW d \in Devices
      PROVE  Bytes(Packet(d), 31) /\ Bytes(Remainder(Packet(d), SplitAt), 11)
  <2>1. Bytes(Packet(d), 31) /\ 20 \in 0..31 /\ 31 - 20 = 11
    BY PacketBytes
  <2> QED
    BY <2>1, Remaining DEF SplitAt
<1>4. CASE ArrivesInParts
  <2>1. PICK n \in 2..31 :
          OnNotify(FirstPart(Packet(device), n), Remainder(Packet(device), n))
    BY <1>4 DEF ArrivesInParts
  <2>2. Published(Packet(device))
    BY <1>1, <2>1, PartsPublished
  <2>3. report' = DecodeStatus(Packet(device))
    BY <2>2 DEF Published
  <2> QED
    BY <1>2, <2>3
<1>5. CASE ArrivesMixed
  <2>1. PICK n \in 2..31, d \in {before, device}, e \in {before, device} :
          OnNotify(FirstPart(Packet(d), n), Remainder(Packet(e), n))
    BY <1>5 DEF ArrivesMixed
  <2>2. d \in Devices /\ e \in Devices
    BY <1>1, <2>1
  <2>3. Neighbours(d, e)
    BY <1>1, <2>1 DEF Neighbours
  <2>4. report' \in {report, DecodeStatus(Packet(d)), DecodeStatus(Packet(e))}
    BY <2>1, <2>2, <2>3, MixedDecoded
  <2> QED
    BY <1>2, <2>1, <2>4
<1>6. CASE ArrivesMisplaced
  <2> DEFINE p == Packet(device)
  <2>1. ASSUME NEW n \in 0..30, OnNotify(Remainder(p, n), Remainder(p, SplitAt))
        PROVE  report' \in {report, DecodeStatus(p)}
    <3>1. CASE n = 0
      <4> DEFINE s == Remainder(p, 0)
      <4>1. Bytes(p, 31) /\ Bytes(Remainder(p, SplitAt), 11) /\ 0 \in 0..31
        BY <1>1, <1>3
      <4> HIDE DEF p
      <4>2. Bytes(s, 31) /\ \A i \in 1..31 : s[i] = p[i]
        BY <4>1, Remaining
      <4>3. OnNotify(s, Remainder(p, SplitAt))
        BY <2>1, <3>1
      <4> HIDE DEF s
      <4>4. \A i \in Fronts : s[i] = p[i]
        BY <4>2 DEF Fronts
      <4> QED
        BY <4>1, <4>2, <4>3, <4>4, FrontDecoded
    <3>2. CASE n \in 1..30
      BY <1>1, <2>1, <3>2, MisplacedDropped
    <3> QED
      BY <3>1, <3>2
  <2>2. ASSUME OnNotify(FirstPart(p, SplitAt), p)
        PROVE  report' \in {report, DecodeStatus(p)}
    BY <1>1, <1>3, <2>2, FirstPartDecoded
  <2> QED
    BY <1>2, <1>6, <2>1, <2>2 DEF ArrivesMisplaced
<1>7. CASE ArrivesCorrupt
  <2>1. PICK i \in Offsets, delta \in Deltas :
          OnNotify([Packet(device) EXCEPT ![i + 1] = (@ + delta) % 256],
                   Remainder(Packet(device), SplitAt))
    BY <1>7 DEF ArrivesCorrupt
  <2>2. i \in 0..30 /\ delta \in 1..255
    BY InputsAssumption
  <2>3. OnNotify(Corrupt(Packet(device), i, delta), Remainder(Packet(device), SplitAt))
    BY <2>1 DEF Corrupt
  <2>4. report' \in {report, DecodeStatus(Packet(device))}
    BY <1>1, <2>2, <2>3, CorruptDecoded
  <2> QED
    BY <1>2, <2>4
<1> QED
  BY <1>4, <1>5, <1>6, <1>7 DEF Arrives

(* "Anything that acts on device state must gate on this" (packets.py:114): *)
(* whatever is asked for and whichever byte the link corrupts, no packet    *)
(* that was cut, mixed, misplaced or corrupted is published as a state the  *)
(* device was not in.                                                       *)
THEOREM WhatIsPublishedIsIntact == Spec => []OnlyIntact
<1>1. Init => IntactInv
  <2> SUFFICES ASSUME Init
               PROVE  IntactInv
    OBVIOUS
  <2>1. KeptInv
    BY InitKeeps
  <2>2. PICK m \in DOMAIN StatusMode :
          device = [mode |-> m, target |-> RangeOf[m][1], step |-> 9]
    BY DEF Init
  <2>3. device.step = 9 /\ device.target = RangeOf[device.mode][1]
    BY <2>2
  <2>4. Neighbours(before, device)
    BY DEF Init, Neighbours
  <2> QED
    BY <2>1, <2>3, <2>4 DEF Init, IntactInv, KeptInv, OnlyIntact, Reached
<1>2. IntactInv /\ [Next]_vars => IntactInv'
  <2> SUFFICES ASSUME IntactInv, [Next]_vars
               PROVE  IntactInv'
    OBVIOUS
  <2>1. KeptInv'
    BY NextKeeps DEF IntactInv
  <2>2. CASE Send
    <3>1. Reached(device)' /\ Neighbours(before, device)'
      BY <2>1, <2>2, SendReaches
    <3>2. phase' # "asked" /\ UNCHANGED <<before, report>>
      BY <2>2 DEF Send
    <3>3. report = DecodeStatus(Packet(before))
      BY <2>2 DEF Send, IntactInv, KeptInv
    <3> QED
      BY <2>1, <3>1, <3>2, <3>3 DEF IntactInv, OnlyIntact
  <2>3. CASE Arrives
    <3>1. OnlyIntact'
      BY <2>3, ArrivalIsIntact
    <3>2. phase' # "asked" /\ UNCHANGED <<before, device>>
      BY <2>3, ArrivalAnswers DEF Arrives, IntactInv
    <3> QED
      BY <2>1, <3>1, <3>2 DEF IntactInv, Reached, Neighbours
  <2>4. CASE UNCHANGED vars
    BY <2>1, <2>4 DEF IntactInv, OnlyIntact, Reached, Neighbours, vars
  <2> QED
    BY <2>2, <2>3, <2>4 DEF Next
<1>3. IntactInv => OnlyIntact
  BY DEF IntactInv
<1> QED
  BY <1>1, <1>2, <1>3, PTL DEF Spec
=============================================================================
