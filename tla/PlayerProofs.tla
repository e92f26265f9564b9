------------------------------ MODULE PlayerProofs ------------------------------
(***************************************************************************)
(* What the conversions between ticks and frames promise, for every rate,  *)
(* and what the player does, whatever is asked of it and when.             *)
(***************************************************************************)
EXTENDS Player, PlaybackSteps, Extremes, SequenceTheorems

\* A rate's two numbers are positive (time.rs: Rational of a time base, and
\* mod.rs: a speed's numerator and denominator).
RateType == (Nat \ {0}) \X (Nat \ {0})
Timed == [from : Int, to : Int, start : Int, rate : RateType]

LEMMA Division ==
    ASSUME NEW n \in Int, NEW d \in Nat \ {0}
    PROVE  /\ n \div d \in Int /\ n % d \in 0..d - 1
           /\ n = d * (n \div d) + (n % d)
    OBVIOUS

LEMMA Larger ==
    ASSUME NEW d \in Nat \ {0}, NEW a \in Int, NEW b \in Int, a >= b
    PROVE  d * a >= d * b
<1> DEFINE k == a - b
<1>1. k \in Nat  OBVIOUS
<1>2. d * k \in Nat  BY <1>1
<1>3. d * a = d * b + d * k  OBVIOUS
<1> QED  BY <1>2, <1>3

LEMMA UpIsLeast ==
    ASSUME NEW n \in Int, NEW d \in Nat \ {0}, NEW f \in Int
    PROVE  Up(n, d) \in Int /\ (f >= Up(n, d) <=> d * f >= n)
<1> DEFINE m == -n
           q == m \div d
           r == m % d
<1>1. m \in Int /\ m = -n  OBVIOUS
<1>2. Up(n, d) = -q  BY DEF Up
<1> HIDE DEF m
<1>3. q \in Int /\ r \in 0..d - 1 /\ m = d * q + r  BY <1>1, Division
<1> HIDE DEF q, r
<1>4. CASE f >= -q
  <2>1. d * f >= d * (-q)  BY Larger, <1>3, <1>4
  <2>2. d * (-q) = -(d * q)  BY <1>3
  <2> QED  BY <1>1, <1>2, <1>3, <2>1, <2>2
<1>5. CASE f < -q
  <2>1. d * (-q - 1) >= d * f  BY Larger, <1>3, <1>5
  <2>2. d * (-q - 1) = -(d * q) - d  BY <1>3
  <2> QED  BY <1>1, <1>2, <1>3, <1>5, <2>1, <2>2
<1> QED  BY <1>2, <1>3, <1>4, <1>5

LEMMA NearestReaches ==
    ASSUME NEW n \in Int, NEW d \in Nat \ {0}, NEW t \in Int
    PROVE  /\ Nearest(n, d) \in Int
           /\ n >= 0 => (Nearest(n, d) >= t <=> 2 * n >= d * (2 * t - 1))
<1> DEFINE q == n \div d
           r == n % d
           up == 2 * r > d \/ (2 * r = d /\ n > 0)
<1>1. q \in Int /\ r \in 0..d - 1 /\ n = d * q + r
  BY Division
<1>2. Nearest(n, d) = q + (IF up THEN 1 ELSE 0)  BY DEF Nearest
<1> HIDE DEF q, r
<1>3. Nearest(n, d) \in Int  BY <1>1, <1>2
<1>4. ASSUME n >= 0 PROVE up <=> 2 * r >= d
  <2>1. ASSUME n = 0 PROVE r = 0
    <3>1. CASE q >= 0  
      <4>1. d * q >= d * 0  BY Larger, <1>1, <3>1
      <4> QED  BY <4>1, <1>1, <2>1
    <3>2. CASE q < 0
      <4>1. d * (-1) >= d * q  BY Larger, <1>1, <3>2
      <4> QED  BY <4>1, <1>1, <2>1
    <3> QED  BY <3>1, <3>2, <1>1
  <2> QED  BY <1>1, <1>4, <2>1
<1>5. ASSUME n >= 0, Nearest(n, d) >= t PROVE 2 * n >= d * (2 * t - 1)
  <2>1. CASE up
    <3>1. d * (2 * q + 1) >= d * (2 * t - 1)  BY Larger, <1>1, <1>2, <1>5, <2>1
    <3>2. d * (2 * q + 1) = 2 * (d * q) + d  BY <1>1
    <3> QED  BY <3>1, <3>2, <1>1, <1>4, <1>5, <2>1
  <2>2. CASE ~up
    <3>1. d * (2 * q) >= d * (2 * t - 1)  BY Larger, <1>1, <1>2, <1>5, <2>2
    <3>2. d * (2 * q) = 2 * (d * q)  BY <1>1
    <3> QED  BY <3>1, <3>2, <1>1
  <2> QED  BY <2>1, <2>2
<1>6. ASSUME n >= 0, Nearest(n, d) < t PROVE 2 * n < d * (2 * t - 1)
  <2>1. CASE up
    <3>1. d * (2 * t - 1) >= d * (2 * q + 3)  BY Larger, <1>1, <1>2, <1>6, <2>1
    <3>2. d * (2 * q + 3) = 2 * (d * q) + 3 * d  BY <1>1
    <3> QED  BY <3>1, <3>2, <1>1
  <2>2. CASE ~up
    <3>1. d * (2 * t - 1) >= d * (2 * q + 1)  BY Larger, <1>1, <1>2, <1>6, <2>2
    <3>2. d * (2 * q + 1) = 2 * (d * q) + d  BY <1>1
    <3> QED  BY <3>1, <3>2, <1>1, <1>4, <1>6, <2>2
  <2> QED  BY <2>1, <2>2
<1>7. d * (2 * t - 1) \in Int  OBVIOUS
<1> HIDE DEF up
<1> QED  BY <1>3, <1>5, <1>6, <1>7

(* The first frame after which that many ticks are reached, exactly, at     *)
(* whatever rate (evaluate.rs: frames_until "the first sequence frame ...   *)
(* at which ticks_into reaches ticks", ADR-0023).                           *)
THEOREM FirstFrame ==
    ASSUME NEW rate \in RateType, NEW ticks \in Int, NEW frames \in Nat
    PROVE  frames >= FramesUntil(rate, ticks) <=> TicksInto(rate, frames) >= ticks
<1> DEFINE n == rate[1]
           d == rate[2]
<1>1. n \in Nat \ {0} /\ d \in Nat \ {0}  BY DEF RateType
<1>2. FramesUntil(rate, ticks) = Up((2 * ticks - 1) * d, 2 * n)
  BY DEF FramesUntil
<1>3. TicksInto(rate, frames) = Nearest(frames * n, d)  BY DEF TicksInto
<1> HIDE DEF n, d
<1>4. (2 * ticks - 1) * d \in Int /\ 2 * n \in Nat \ {0} /\ frames * n \in Nat
  BY <1>1
<1>5. frames >= Up((2 * ticks - 1) * d, 2 * n)
         <=> (2 * n) * frames >= (2 * ticks - 1) * d
  <2> DEFINE a == (2 * ticks - 1) * d
             b == 2 * n
  <2>1. a \in Int /\ b \in Nat \ {0}  BY <1>4
  <2> HIDE DEF a, b
  <2>2. frames >= Up(a, b) <=> b * frames >= a  BY <2>1, UpIsLeast
  <2> QED  BY <2>2 DEF a, b
<1>6. Nearest(frames * n, d) >= ticks
         <=> 2 * (frames * n) >= d * (2 * ticks - 1)
  BY NearestReaches, <1>1, <1>4
<1>7. (2 * n) * frames = 2 * (frames * n)
      /\ (2 * ticks - 1) * d = d * (2 * ticks - 1)
  BY <1>1
<1> QED  BY <1>2, <1>3, <1>5, <1>6, <1>7

(* A clip is on screen at the frames at which it shows a tick before its    *)
(* out-point, and at no other (evaluate.rs: source_at, frames_until).       *)
THEOREM ShownTicks ==
    ASSUME NEW c \in Timed, NEW frame \in Int, frame >= c.start
    PROVE  Covers(c, frame) <=> TickAt(c, frame) < c.to
<1> DEFINE into == frame - c.start
           length == FramesUntil(c.rate, c.to - c.from)
<1>1. into \in Nat /\ c.rate \in RateType /\ c.start \in Int
      /\ c.from \in Int /\ c.to \in Int /\ c.to - c.from \in Int
  BY DEF Timed
<1>2. into >= length <=> TicksInto(c.rate, into) >= c.to - c.from
  BY FirstFrame, <1>1
<1>3. length \in Int /\ TicksInto(c.rate, into) \in Int
  <2>1. c.rate[1] \in Nat \ {0} /\ c.rate[2] \in Nat \ {0}  BY <1>1 DEF RateType
  <2>2. (2 * (c.to - c.from) - 1) * c.rate[2] \in Int /\ 2 * c.rate[1] \in Nat \ {0}
        /\ into * c.rate[1] \in Int
    BY <1>1, <2>1
  <2>3. length \in Int  BY UpIsLeast, <2>2 DEF FramesUntil
  <2>4. TicksInto(c.rate, into) \in Int  BY NearestReaches, <2>1, <2>2 DEF TicksInto
  <2> QED  BY <2>3, <2>4
<1>4. Covers(c, frame) <=> frame < c.start + length
  BY DEF Covers, EndOf, LengthOf
<1>5. TickAt(c, frame) = c.from + TicksInto(c.rate, into)  BY DEF TickAt
<1> HIDE DEF length
<1>6. frame < c.start + length <=> ~(into >= length)  BY <1>1, <1>3
<1> HIDE DEF into
<1> QED  BY <1>1, <1>2, <1>3, <1>4, <1>5, <1>6

LEMMA Parts ==
    ASSUME NEW n \in Nat \ {0}, NEW k \in Nat \ {0}, NEW r \in Nat \ {0}
    PROVE  /\ k * n \in Nat /\ r * n \in Nat /\ k * n >= n /\ r * n >= n
           /\ (k - 1) * n = k * n - n /\ (r - 1) * n = r * n - n
           /\ (k + r) * n = k * n + r * n
           /\ (k + r - 1) * n = k * n + r * n - n
<1>1. k * n \in Nat /\ r * n \in Nat  OBVIOUS
<1>2. (k - 1) * n = k * n - n  OBVIOUS
<1>3. (r - 1) * n = r * n - n  OBVIOUS
<1>4. (k + r) * n = k * n + r * n  OBVIOUS
<1>5. (k + r - 1) * n = k * n + r * n - n  OBVIOUS
<1>6. k * n = n * k /\ r * n = n * r /\ n * 1 = n  OBVIOUS
<1>7. n * k >= n * 1 /\ n * r >= n * 1  BY Larger
<1> QED  BY <1>1, <1>2, <1>3, <1>4, <1>5, <1>6, <1>7

LEMMA MinOfTwo ==
    ASSUME NEW a \in Int, NEW b \in Int, a <= b
    PROVE  Min({a, b}) = a
BY DEF Min

LEMMA FramesUntilType ==
    ASSUME NEW rate \in RateType, NEW ticks \in Int
    PROVE  FramesUntil(rate, ticks) \in Int
<1> DEFINE a == (2 * ticks - 1) * rate[2]
           b == 2 * rate[1]
<1>1. a \in Int /\ b \in Nat \ {0}
  <2>1. rate[1] \in Nat \ {0} /\ rate[2] \in Nat \ {0}  BY DEF RateType
  <2> QED  BY <2>1
<1>2. FramesUntil(rate, ticks) = Up(a, b)  BY DEF FramesUntil
<1> HIDE DEF a, b
<1> QED  BY <1>1, <1>2, UpIsLeast

LEMMA WholeTicks ==
    ASSUME NEW rate \in RateType, rate[2] = 1
    PROVE  /\ \A frames \in Nat : TicksInto(rate, frames) = frames * rate[1]
           /\ \A frames \in Nat, ticks \in Int :
                 frames >= FramesUntil(rate, ticks) <=> frames * rate[1] >= ticks
<1>1. rate[1] \in Nat \ {0}  BY DEF RateType
<1>2. ASSUME NEW frames \in Nat PROVE TicksInto(rate, frames) = frames * rate[1]
  <2> DEFINE ticks == frames * rate[1]
  <2>1. ticks \in Int  BY <1>1
  <2>2. TicksInto(rate, frames) = Nearest(ticks, 1)  BY DEF TicksInto
  <2> HIDE DEF ticks
  <2>3. ticks % 1 = 0 /\ ticks \div 1 = ticks  BY <2>1
  <2> QED  BY <2>1, <2>2, <2>3 DEF Nearest, ticks
<1>3. ASSUME NEW frames \in Nat, NEW ticks \in Int
      PROVE  frames >= FramesUntil(rate, ticks) <=> TicksInto(rate, frames) >= ticks
  BY FirstFrame
<1> QED  BY <1>2, <1>3

LEMMA LastsFrames ==
    ASSUME NEW rate \in RateType, rate[2] = 1, NEW k \in Nat \ {0}, NEW ticks \in Int,
           (k - 1) * rate[1] < ticks, ticks <= k * rate[1]
    PROVE  FramesUntil(rate, ticks) = k
<1>1. FramesUntil(rate, ticks) \in Int  BY FramesUntilType
<1>2. k - 1 \in Nat /\ k \in Nat /\ rate[1] \in Nat  BY DEF RateType
<1>3. k >= FramesUntil(rate, ticks) <=> k * rate[1] >= ticks
  BY WholeTicks, <1>2
<1>4. k - 1 >= FramesUntil(rate, ticks) <=> (k - 1) * rate[1] >= ticks
  BY WholeTicks, <1>2
<1>5. k * rate[1] \in Int /\ (k - 1) * rate[1] \in Int  BY <1>2
<1> QED  BY <1>1, <1>2, <1>3, <1>4, <1>5

(* Where a frame is a whole number of ticks, a clip can be cut at every     *)
(* frame but its first, and the cut gives up nothing of it: the halves meet *)
(* at one tick and the second ends where the clip did (split.rs: halves).   *)
THEOREM WholeTicksCut ==
    ASSUME NEW c \in Timed, c.rate[2] = 1, c.from < c.to,
           NEW at \in Int, c.start < at, at < EndOf(c)
    PROVE  Splits(c, at) /\ RightHalf(c, at).to = c.to
<1> DEFINE n == c.rate[1]
           k == at - c.start
           length == LengthOf(c)
           ticks == c.to - c.from
           rest == length - k
<1>1. c.rate \in RateType /\ n \in Nat \ {0} /\ c.start \in Int
      /\ c.from \in Int /\ c.to \in Int /\ ticks \in Int
  BY DEF Timed, RateType
<1>2. length \in Int /\ length = FramesUntil(c.rate, ticks)
  BY <1>1, FramesUntilType DEF LengthOf
<1>3. k \in Nat \ {0} /\ rest \in Nat \ {0} /\ k + rest = length
  BY <1>1, <1>2 DEF EndOf
<1>4. length - 1 \in Nat /\ length \in Nat  BY <1>3
<1>5. ticks <= length * n /\ (length - 1) * n < ticks
  <2>1. length >= FramesUntil(c.rate, ticks) <=> length * n >= ticks
    BY WholeTicks, <1>1, <1>4
  <2>2. length - 1 >= FramesUntil(c.rate, ticks) <=> (length - 1) * n >= ticks
    BY WholeTicks, <1>1, <1>4
  <2>3. length * n \in Int /\ (length - 1) * n \in Int  BY <1>1, <1>2
  <2> QED  BY <1>1, <1>2, <2>1, <2>2, <2>3
<1>6. TicksInto(c.rate, k) = k * n /\ TicksInto(c.rate, rest) = rest * n
  BY WholeTicks, <1>1, <1>3
<1>7. /\ k * n \in Nat /\ rest * n \in Nat /\ k * n >= n /\ rest * n >= n
      /\ (k - 1) * n = k * n - n /\ (rest - 1) * n = rest * n - n
      /\ length * n = k * n + rest * n
      /\ (length - 1) * n = k * n + rest * n - n
  <2> HIDE DEF n, k, rest, length
  <2>1. /\ n \in Nat \ {0} /\ k \in Nat \ {0} /\ rest \in Nat \ {0}
        /\ length = k + rest
    BY <1>1, <1>3
  <2>2. /\ k * n \in Nat /\ rest * n \in Nat /\ k * n >= n /\ rest * n >= n
        /\ (k - 1) * n = k * n - n /\ (rest - 1) * n = rest * n - n
        /\ (k + rest) * n = k * n + rest * n
        /\ (k + rest - 1) * n = k * n + rest * n - n
    BY ONLY <2>1, Parts
  <2> QED  BY ONLY <2>1, <2>2
<1>8. n >= 1  BY <1>1
<1>9. TickAt(c, at) = c.from + k * n  BY <1>6 DEF TickAt
<1>10. RightHalf(c, at).to = c.to
  <2>1. EndOf(c) - at = rest  BY <1>1, <1>2 DEF EndOf
  <2>2. RightHalf(c, at).to = Min({c.to, c.from + k * n + rest * n})
    BY <1>6, <1>9, <2>1 DEF RightHalf, Timed
  <2> HIDE DEF n, k, rest, length
  <2>3. c.to <= c.from + k * n + rest * n  BY <1>1, <1>5, <1>7 DEF ticks
  <2> QED  BY <1>1, <1>7, <2>2, <2>3, MinOfTwo
<1>11. LengthOf(LeftHalf(c, at)) = k
  <2>1. LengthOf(LeftHalf(c, at)) = FramesUntil(c.rate, k * n)
    <3>1. LengthOf(LeftHalf(c, at)) = FramesUntil(c.rate, TickAt(c, at) - c.from)
      BY DEF LengthOf, LeftHalf, Timed
    <3>2. TickAt(c, at) - c.from = k * n  BY <1>1, <1>7, <1>9
    <3> QED  BY <3>1, <3>2
  <2>2. (k - 1) * n < k * n  BY <1>1, <1>7
  <2> QED  BY <1>1, <1>3, <1>7, <2>1, <2>2, LastsFrames
<1>12. LengthOf(RightHalf(c, at)) = rest
  <2>1. LengthOf(RightHalf(c, at)) = FramesUntil(c.rate, c.to - (c.from + k * n))
    BY <1>9, <1>10 DEF LengthOf, RightHalf, Timed
  <2>2. c.to - (c.from + k * n) = ticks - k * n  BY <1>1, <1>7
  <2>3. (rest - 1) * n < ticks - k * n /\ ticks - k * n <= rest * n
        /\ ticks - k * n \in Int
    BY <1>1, <1>5, <1>7
  <2> QED  BY <1>1, <1>3, <2>1, <2>2, <2>3, LastsFrames
<1>13. c.from < TickAt(c, at) /\ TickAt(c, at) < c.to
  BY <1>1, <1>5, <1>7, <1>8, <1>9
<1>14. at - c.start = k /\ EndOf(c) - at = rest  BY <1>1, <1>2 DEF EndOf
<1> QED  BY <1>10, <1>11, <1>12, <1>13, <1>14 DEF Splits
-----------------------------------------------------------------------------
(* What the operators of a plan return                                       *)

LEMMA Lesser ==
    ASSUME NEW a \in Int, NEW b \in Int
    PROVE  Min({a, b}) \in Int
BY LesserOf

LEMMA Greater ==
    ASSUME NEW a \in Int, NEW b \in Int
    PROVE  Max({a, b}) \in Int
BY GreaterOf

LEMMA Rounded ==
    ASSUME NEW n \in Int, NEW d \in Nat \ {0}
    PROVE  Up(n, d) \in Int /\ Nearest(n, d) \in Int
BY UpIsLeast, NearestReaches

LEMMA SegmentFields ==
    ASSUME NEW s, IsSegment(s)
    PROVE  /\ s.source \in DOMAIN FramesOf /\ s.motion \in {"forward", "hold", "reverse"}
           /\ s.from \in Int /\ s.to \in Int /\ s.start \in Int /\ s.first \in Int
           /\ s.frames \in Int /\ s.until \in Int
           /\ s.tick[1] \in Nat \ {0} /\ s.tick[2] \in Nat \ {0}
           /\ s.rate[1] \in Nat \ {0} /\ s.rate[2] \in Nat \ {0}
BY DEF IsSegment

LEMMA FrameTimes ==
    ASSUME NEW k \in Int
    PROVE  FrameStart(k) \in Int /\ FramePlace(k) \in Int
<1>1. k * FrameLasts[1] \in Int /\ FrameLasts[2] \in Nat \ {0}  BY PlaybackAssumption
<1> QED  BY <1>1, Division, Rounded DEF FrameStart, FramePlace

LEMMA FrameThere ==
    ASSUME NEW s, IsSegment(s), NEW t \in Int
    PROVE  SequenceFrameAt(s, t) \in Int
<1>1. s.first \in Int /\ LastFrameOf(s) \in Int  BY SegmentFields DEF LastFrameOf
<1>2. (t + 1) * FrameLasts[2] \in Int /\ FrameLasts[1] \in Nat \ {0}  BY PlaybackAssumption
<1>3. Up((t + 1) * FrameLasts[2], FrameLasts[1]) \in Int  BY <1>2, Rounded
<1> DEFINE past == Up((t + 1) * FrameLasts[2], FrameLasts[1]) - 1
           most == Min({LastFrameOf(s), past})
<1>4. past \in Int  BY <1>3
<1> HIDE DEF past
<1>5. most \in Int  BY <1>1, <1>4, Lesser
<1> HIDE DEF most
<1>6. Max({s.first, most}) \in Int  BY <1>1, <1>5, Greater
<1> QED  BY <1>6 DEF SequenceFrameAt, most, past

LEMMA PlaceThere ==
    ASSUME NEW s, IsSegment(s), NEW k \in Int
    PROVE  PlaceOf(s, k) \in Int
BY SegmentFields, FrameTimes, Greater DEF PlaceOf

LEMMA EndThere ==
    ASSUME NEW s, IsSegment(s)
    PROVE  DurationOf(s) \in Int /\ TimelineEnd(s) \in Int
<1> DEFINE lasts == Up((s.to - s.from) * s.tick[1], s.tick[2])
           room == s.until - s.start
           shows == FrameStart(s.first + s.frames) - s.start
           most == Max({room, 0})
<1>1. s.start \in Int /\ s.first + s.frames \in Int /\ room \in Int
  BY SegmentFields
<1>2. (s.to - s.from) * s.tick[1] \in Int /\ s.tick[2] \in Nat \ {0}  BY SegmentFields
<1>3. lasts \in Int  BY <1>2, Rounded
<1>4. shows \in Int  BY <1>1, FrameTimes
<1> HIDE DEF lasts, room, shows
<1>5. most \in Int /\ Max({shows, 0}) \in Int  BY <1>1, <1>4, Greater
<1> HIDE DEF most
<1>6. Min({lasts, most}) \in Int  BY <1>3, <1>5, Lesser
<1>7. DurationOf(s) = IF Moves(s) THEN Min({lasts, most}) ELSE Max({shows, 0})
  BY DEF DurationOf, lasts, most, room, shows
<1> QED  BY <1>1, <1>5, <1>6, <1>7 DEF TimelineEnd

LEMMA TickThere ==
    ASSUME NEW s, IsSegment(s), NEW t \in Int
    PROVE  SourceAt(s, t) \in Int
<1>1. s.from \in Int /\ s.to - 1 \in Int  BY SegmentFields
<1>2. CASE Moves(s)
  <2>1. (t - s.start) * s.tick[2] \in Int /\ s.tick[1] \in Nat \ {0}  BY SegmentFields
  <2>2. Nearest((t - s.start) * s.tick[2], s.tick[1]) \in Int  BY <2>1, Rounded
  <2>3. s.from + Nearest((t - s.start) * s.tick[2], s.tick[1]) \in Int  BY <1>1, <2>2
  <2> QED  BY <1>1, <1>2, <2>3, Lesser DEF SourceAt
<1>3. CASE ~Moves(s)
  <2> DEFINE k == SequenceFrameAt(s, t)
  <2>1. k \in Int  BY FrameThere
  <2> HIDE DEF k
  <2>2. NamedTick(s, k) \in Int
    <3>1. (k - s.first) * s.rate[1] \in Int /\ s.rate[2] \in Nat \ {0}  BY <2>1, SegmentFields
    <3>2. TicksInto(s.rate, k - s.first) \in Int  BY <3>1, Rounded DEF TicksInto
    <3>3. s.motion \in {"hold", "reverse"}  BY <1>3, SegmentFields DEF Moves
    <3>4. CASE s.motion = "hold"  BY <1>1, <3>4 DEF NamedTick
    <3>5. CASE s.motion = "reverse"  BY <1>1, <3>2, <3>5 DEF NamedTick
    <3> QED  BY <3>3, <3>4, <3>5
  <2>3. Min({s.to - 1, NamedTick(s, k)}) \in Int  BY <1>1, <2>2, Lesser
  <2>4. Max({s.from, Min({s.to - 1, NamedTick(s, k)})}) \in Int  BY <1>1, <2>3, Greater
  <2> QED  BY <1>3, <2>4 DEF SourceAt, k
<1> QED  BY <1>2, <1>3

LEMMA Pictures ==
    ASSUME NEW source \in DOMAIN FramesOf, NEW tick
    PROVE  /\ AtOrBefore(source, tick) \in Int
           /\ Before(source, tick) \in Int
           /\ After(source, tick) \in Int
<1>1. FramesOf[source] \subseteq Int /\ IsFiniteSet(FramesOf[source])  BY PlaybackAssumption
<1>2. ASSUME NEW t PROVE AtOrBefore(source, t) \in Int
  <2> DEFINE had == {f \in FramesOf[source] : f <= t}
  <2>1. had \subseteq Int /\ IsFiniteSet(had)  BY <1>1, FS_Subset
  <2> HIDE DEF had
  <2>2. had # {} => Max(had) \in Int  BY <2>1, MaxIsIn
  <2>3. AtOrBefore(source, t) = IF had = {} THEN Nowhere ELSE Max(had)  BY DEF AtOrBefore, had
  <2> QED  BY <2>2, <2>3 DEF Nowhere
<1>3. After(source, tick) \in Int
  <2> DEFINE had == {f \in FramesOf[source] : f > tick}
  <2>1. had \subseteq Int /\ IsFiniteSet(had)  BY <1>1, FS_Subset
  <2> HIDE DEF had
  <2>2. had # {} => Min(had) \in Int  BY <2>1, MinIsIn
  <2>3. After(source, tick) = IF had = {} THEN Nowhere ELSE Min(had)  BY DEF After, had
  <2> QED  BY <2>2, <2>3 DEF Nowhere
<1> QED  BY <1>2, <1>3 DEF Before

LEMMA ProgramThere ==
    ASSUME NEW s, IsSegment(s), NEW f \in Int
    PROVE  ProgramAt(s, f) \in Int
<1>1. s.start \in Int /\ s.from \in Int /\ s.to \in Int  BY SegmentFields
<1>2. CASE s.motion = "hold"  BY <1>1, <1>2 DEF ProgramAt
<1>3. CASE s.motion = "reverse"
  <2> DEFINE next == After(s.source, f)
             passed == IF next # Nowhere /\ next < s.to THEN s.to - next ELSE 0
  <2>1. passed \in Int  BY <1>1, SegmentFields, Pictures
  <2> HIDE DEF passed
  <2>2. (2 * passed - 1) * s.rate[2] \in Int /\ 2 * s.rate[1] \in Nat \ {0}
    BY <2>1, SegmentFields
  <2> DEFINE frames == FramesUntil(s.rate, passed)
             some == Max({frames, 0})
             place == s.first + some
  <2>3. frames \in Int  BY <2>2, Rounded DEF FramesUntil
  <2> HIDE DEF frames
  <2>4. some \in Int  BY <2>3, Greater
  <2> HIDE DEF some
  <2>5. place \in Int /\ LastFrameOf(s) \in Int  BY <2>4, SegmentFields DEF LastFrameOf
  <2> HIDE DEF place
  <2>6. Min({place, LastFrameOf(s)}) \in Int  BY <2>5, Lesser
  <2>7. ProgramAtBackwards(s, f) \in Int
    BY <2>6, PlaceThere DEF ProgramAtBackwards, passed, frames, some, place
  <2> QED  BY <1>3, <2>7 DEF ProgramAt
<1>4. CASE s.motion = "forward"
  <2> DEFINE into == f - s.from
             some == Max({into, 0})
  <2>1. into \in Int  BY <1>1
  <2> HIDE DEF into
  <2>2. some \in Int  BY <2>1, Greater
  <2> HIDE DEF some
  <2>3. some * s.tick[1] \in Int /\ s.tick[2] \in Nat \ {0}  BY <2>2, SegmentFields
  <2>4. Up(some * s.tick[1], s.tick[2]) \in Int  BY <2>3, Rounded
  <2> QED  BY <1>1, <1>4, <2>4 DEF ProgramAt, some, into
<1> QED  BY <1>2, <1>3, <1>4, SegmentFields

LEMMA ShownThere ==
    ASSUME NEW s, IsSegment(s), NEW t \in Int, NEW f \in Int
    PROVE  ShownAt(s, t, f) \in Int
BY ProgramThere, FrameThere, PlaceThere DEF ShownAt

LEMMA PlanShape ==
    ASSUME NEW p, IsPlan(p)
    PROVE  /\ p \in Seq(Range(p)) /\ Len(p) \in Nat /\ DOMAIN p = 1..Len(p)
           /\ DOMAIN p \subseteq Nat \ {0} /\ IsFiniteSet(DOMAIN p)
           /\ \A i \in DOMAIN p : IsSegment(p[i])
<1>1. p \in Seq(Range(p)) /\ \A i \in DOMAIN p : IsSegment(p[i])  BY DEF IsPlan
<1>2. Len(p) \in Nat /\ DOMAIN p = 1..Len(p)  BY <1>1
<1>3. IsFiniteSet(1..Len(p))  BY <1>2, FS_Interval
<1> QED  BY <1>1, <1>2, <1>3

LEMMA SomeIndex ==
    ASSUME NEW p, IsPlan(p), NEW S, S \subseteq DOMAIN p, S # {}
    PROVE  Min(S) \in S /\ Max(S) \in S /\ Min(S) \in DOMAIN p /\ Max(S) \in DOMAIN p
<1>1. S \subseteq Int /\ IsFiniteSet(S)  BY PlanShape, FS_Subset
<1>2. Min(S) \in S /\ Max(S) \in S  BY <1>1, MinIsIn, MaxIsIn
<1> QED  BY <1>2

\* The segment found at a time, or after it, is a segment of the plan.
LEMMA IndexThere ==
    ASSUME NEW p, IsPlan(p), NEW t
    PROVE  IndexAt(p, t) \in {0} \cup DOMAIN p /\ IndexAfter(p, t) \in {0} \cup DOMAIN p
<1>1. IndexAt(p, t) \in {0} \cup DOMAIN p
  <2> DEFINE started == {i \in DOMAIN p : p[i].start <= t}
  <2>1. started \subseteq DOMAIN p  OBVIOUS
  <2>2. IndexAt(p, t) = IF started # {} /\ ContainsFrame(p[Max(started)], t)
                        THEN Max(started) ELSE 0
    BY DEF IndexAt
  <2> HIDE DEF started
  <2>3. started # {} => Max(started) \in DOMAIN p  BY <2>1, SomeIndex
  <2> QED  BY <2>2, <2>3
<1>2. IndexAfter(p, t) \in {0} \cup DOMAIN p
  <2> DEFINE later == {i \in DOMAIN p : p[i].start > t}
  <2>1. later \subseteq DOMAIN p  OBVIOUS
  <2>2. IndexAfter(p, t) = IF later = {} THEN 0 ELSE Min(later)  BY DEF IndexAfter
  <2> HIDE DEF later
  <2>3. later # {} => Min(later) \in DOMAIN p  BY <2>1, SomeIndex
  <2> QED  BY <2>2, <2>3
<1> QED  BY <1>1, <1>2

LEMMA DurationThere ==
    ASSUME NEW p, IsPlan(p)
    PROVE  Duration(p) \in Nat
<1> DEFINE ends == [i \in DOMAIN p |-> TimelineEnd(p[i])]
           all == {0} \cup {ends[i] : i \in DOMAIN p}
<1>1. IsFiniteSet({ends[i] : i \in DOMAIN p})
  <2>1. IsFiniteSet(DOMAIN p) /\ DOMAIN ends = DOMAIN p  BY PlanShape
  <2> HIDE DEF ends
  <2> QED  BY <2>1, ImageIsFinite
<1>2. \A i \in DOMAIN p : ends[i] \in Int  BY PlanShape, EndThere
<1>3. all \subseteq Int /\ all # {} /\ 0 \in all  BY <1>2
<1>4. IsFiniteSet(all)  BY <1>1, FS_Union, FS_Singleton
<1>5. Duration(p) = Max(all)  BY DEF Duration
<1> HIDE DEF all
<1>6. Max(all) \in all /\ \A y \in all : Max(all) >= y  BY <1>3, <1>4, MaxIsIn
<1>7. Max(all) \in Int /\ Max(all) >= 0  BY <1>3, <1>6
<1> QED  BY <1>5, <1>7

\* The places a step may stand at: a segment of the plan, and a time or tick
Places(p) == (DOMAIN p) \X Int

LEMMA EdgePictures ==
    ASSUME NEW s, IsSegment(s)
    PROVE  FirstPicture(s) \in Int /\ LastPicture(s) \in Int
<1>1. s.source \in DOMAIN FramesOf /\ s.start \in Int /\ LastFrameOf(s) \in Int
  BY SegmentFields DEF LastFrameOf
<1>2. LastPicture(s) \in Int  BY <1>1, Pictures, PlaceThere DEF LastPicture
<1>3. ShownAt(s, s.start, 0) \in Int  BY <1>1, ShownThere
<1>4. AtOrBefore(s.source, s.from) \in Int /\ After(s.source, s.from) \in Int
  BY <1>1, Pictures
<1>5. FirstPicture(s) \in Int
  BY <1>3, <1>4 DEF FirstPicture
<1> QED  BY <1>2, <1>5

LEMMA PlaceFound ==
    ASSUME NEW p, IsPlan(p), NEW t \in Int
    PROVE  PlaceAt(p, t) \in Places(p) \cup {NoPlace}
<1> DEFINE i == IF IndexAt(p, t) # 0 THEN IndexAt(p, t) ELSE IndexAfter(p, t)
<1>1. i \in {0} \cup DOMAIN p  BY IndexThere
<1>2. CASE i = 0  BY <1>2 DEF PlaceAt
<1>3. CASE i # 0
  <2> DEFINE s == p[i]
             from == Max({t, s.start})
  <2>1. i \in DOMAIN p /\ IsSegment(s)  BY <1>1, <1>3, PlanShape
  <2>2. s.start \in Int  BY <2>1, SegmentFields
  <2>3. PlaceAt(p, t) = CASE ~Moves(s) -> <<i, ShownAt(s, from, 0)>>
                          [] Moves(s) /\ AtOrBefore(s.source, SourceAt(s, from)) # Nowhere ->
                                 <<i, AtOrBefore(s.source, SourceAt(s, from))>>
                          [] OTHER -> NoPlace
    BY <1>3 DEF PlaceAt
  <2> HIDE DEF i, s
  <2>4. from \in Int  BY <2>2, Greater
  <2> HIDE DEF from
  <2>5. ShownAt(s, from, 0) \in Int  BY <2>1, <2>4, ShownThere
  <2>6. AtOrBefore(s.source, SourceAt(s, from)) \in Int  BY <2>1, SegmentFields, Pictures
  <2> QED  BY <2>1, <2>3, <2>5, <2>6 DEF Places
<1> QED  BY <1>2, <1>3

LEMMA PlaceFurther ==
    ASSUME NEW p, IsPlan(p), NEW at \in Places(p)
    PROVE  PlaceAfter(p, at) \in Places(p) \cup {NoPlace}
<1> DEFINE s == p[at[1]]
           frame == SequenceFrameAt(s, at[2])
           next == After(s.source, at[2])
           later == {j \in DOMAIN p : j > at[1] /\ Shows(p[j])}
<1>1. at[1] \in DOMAIN p /\ at[2] \in Int /\ IsSegment(s)  BY PlanShape DEF Places
<1>2. later \subseteq DOMAIN p  OBVIOUS
<1>3. PlaceAfter(p, at) =
        CASE ~Moves(s) /\ frame < LastFrameOf(s) -> <<at[1], PlaceOf(s, frame + 1)>>
          [] Moves(s) /\ next # Nowhere /\ next < s.to -> <<at[1], next>>
          [] Moves(s) /\ ~HasPictures(s) -> NoPlace
          [] OTHER -> IF later = {} THEN NoPlace
                      ELSE <<Min(later), FirstPicture(p[Min(later)])>>
  BY DEF PlaceAfter
<1>4. frame \in Int /\ next \in Int  BY <1>1, FrameThere, SegmentFields, Pictures
<1> HIDE DEF s, frame, next, later
<1>5. frame + 1 \in Int  BY <1>4
<1>6. PlaceOf(s, frame + 1) \in Int  BY <1>1, <1>5, PlaceThere
<1>7. later # {} => Min(later) \in DOMAIN p  BY <1>2, SomeIndex
<1>8. later # {} => FirstPicture(p[Min(later)]) \in Int  BY <1>7, PlanShape, EdgePictures
<1> QED  BY <1>1, <1>3, <1>4, <1>6, <1>7, <1>8 DEF Places

LEMMA PlaceBack ==
    ASSUME NEW p, IsPlan(p), NEW at \in Places(p)
    PROVE  PlaceBefore(p, at) \in Places(p) \cup {NoPlace}
<1> DEFINE s == p[at[1]]
           frame == SequenceFrameAt(s, at[2])
           previous == Before(s.source, at[2])
           earlier == {j \in DOMAIN p : j < at[1] /\ HasLast(p[j])}
           nearest == Max({previous, FirstPicture(s)})
<1>1. at[1] \in DOMAIN p /\ at[2] \in Int /\ IsSegment(s)  BY PlanShape DEF Places
<1>2. earlier \subseteq DOMAIN p  OBVIOUS
<1>3. PlaceBefore(p, at) =
        CASE ~Moves(s) /\ frame > s.first -> <<at[1], PlaceOf(s, frame - 1)>>
          [] Moves(s) /\ at[2] > FirstPicture(s) /\ previous # Nowhere -> <<at[1], nearest>>
          [] Moves(s) /\ ~Shows(s) -> NoPlace
          [] OTHER -> IF earlier = {} THEN NoPlace
                      ELSE <<Max(earlier), LastPicture(p[Max(earlier)])>>
  BY DEF PlaceBefore
<1>4. frame \in Int /\ previous \in Int  BY <1>1, FrameThere, SegmentFields, Pictures
<1> HIDE DEF s, frame, previous, earlier
<1>5. frame - 1 \in Int  BY <1>4
<1>6. PlaceOf(s, frame - 1) \in Int  BY <1>1, <1>5, PlaceThere
<1>7. nearest \in Int  BY <1>1, <1>4, EdgePictures, Greater
<1>8. earlier # {} => Max(earlier) \in DOMAIN p  BY <1>2, SomeIndex
<1>9. earlier # {} => LastPicture(p[Max(earlier)]) \in Int  BY <1>8, PlanShape, EdgePictures
<1> HIDE DEF nearest
<1> QED  BY <1>1, <1>3, <1>6, <1>7, <1>8, <1>9 DEF Places

\* A step of one frame from a place goes to a place, or stays.
LEMMA OneStep ==
    ASSUME NEW p, IsPlan(p), NEW at \in Places(p), NEW by \in {-1, 1}
    PROVE  Stepped(p, at, by) \in Places(p)
<1> DEFINE Next1(place) == IF by > 0 THEN PlaceAfter(p, place) ELSE PlaceBefore(p, place)
           R(g) == [n \in 0..Max({by, -by}) |->
                       IF n = 0 THEN at
                       ELSE IF Next1(g[n - 1]) = NoPlace THEN g[n - 1] ELSE Next1(g[n - 1])]
           there == IF Next1(at) = NoPlace THEN at ELSE Next1(at)
           h == [n \in 0..1 |-> IF n = 0 THEN at ELSE there]
           after == CHOOSE g : g = R(g)
<1>1. Max({by, -by}) = 1
  <2>1. by \in Int /\ -by \in Int  OBVIOUS
  <2> QED  BY <2>1, GreaterOf
<1>2. there \in Places(p)  BY PlaceFurther, PlaceBack
<1>3. Stepped(p, at, by) = after[1]  BY <1>1 DEF Stepped
<1>4. h = R(h)
  <2>1. R(h) = [n \in 0..1 |-> IF n = 0 THEN at
                     ELSE IF Next1(h[n - 1]) = NoPlace THEN h[n - 1] ELSE Next1(h[n - 1])]
    BY <1>1
  <2>2. \A n \in 0..1 : n = 0 \/ (n = 1 /\ h[n - 1] = at)  OBVIOUS
  <2> HIDE DEF Next1
  <2> QED  BY <2>1, <2>2
<1>5. after = R(after)
  <2> HIDE DEF h, R
  <2> QED  BY <1>4
<1>6. after[0] = at /\ after[1] = there
  <2> HIDE DEF after
  <2>1. after = [n \in 0..1 |-> IF n = 0 THEN at
                     ELSE IF Next1(after[n - 1]) = NoPlace THEN after[n - 1] ELSE Next1(after[n - 1])]
    BY <1>1, <1>5
  <2> HIDE DEF Next1
  <2>2. after[0] = at  BY <2>1
  <2>3. after[1] = IF Next1(after[0]) = NoPlace THEN after[0] ELSE Next1(after[0])  BY <2>1
  <2> QED  BY <2>2, <2>3
<1> QED  BY <1>2, <1>3, <1>6

LEMMA TargetThere ==
    ASSUME NEW p, IsPlan(p), NEW at \in Places(p)
    PROVE  TargetOf(p, at) \in Int
BY PlanShape, ProgramThere DEF TargetOf, Places

LEMMA LastThere ==
    ASSUME NEW p, IsPlan(p)
    PROVE  LastFramePosition(p) \in Int
<1> DEFINE end == Duration(p)
           i == IndexAt(p, end - 1)
<1>1. end \in Int /\ end - 1 \in Int  BY DurationThere
<1>2. i \in {0} \cup DOMAIN p  BY IndexThere
<1>3. Max({end - 1, 0}) \in Int
  <2> DEFINE last == end - 1
  <2>1. last \in Int  BY <1>1
  <2> HIDE DEF last
  <2> QED  BY <2>1, Greater DEF last
<1>4. i # 0 => /\ LastPicture(p[i]) \in Int
               /\ ProgramAt(p[i], LastPicture(p[i])) \in Int
  BY <1>2, PlanShape, EdgePictures, ProgramThere
<1> HIDE DEF end, i
<1>5. LastFramePosition(p) =
        CASE i = 0 -> Max({end - 1, 0})
          [] i # 0 /\ ~Moves(p[i]) -> LastPicture(p[i])
          [] i # 0 /\ Moves(p[i]) /\ ~HasPictures(p[i]) -> Max({end - 1, 0})
          [] OTHER -> IF LastPicture(p[i]) = Nowhere THEN end - 1
                      ELSE ProgramAt(p[i], LastPicture(p[i]))
  BY DEF LastFramePosition, end, i
<1> QED  BY <1>1, <1>3, <1>4, <1>5
-----------------------------------------------------------------------------
(* Stepping by real frames                                                   *)

LEMMA DivIsMost ==
    ASSUME NEW n \in Int, NEW d \in Nat \ {0}, NEW f \in Int
    PROVE  n \div d \in Int /\ (f <= n \div d <=> d * f <= n)
<1> DEFINE q == n \div d
           r == n % d
<1>1. q \in Int /\ r \in 0..d - 1 /\ n = d * q + r  BY Division
<1> HIDE DEF q, r
<1>2. ASSUME f <= q PROVE d * f <= n
  <2>1. d * q >= d * f  BY Larger, <1>1, <1>2
  <2> QED  BY <1>1, <2>1
<1>3. ASSUME f > q PROVE d * f > n
  <2>1. d * f >= d * (q + 1)  BY Larger, <1>1, <1>3
  <2>2. d * (q + 1) = d * q + d  BY <1>1
  <2> QED  BY <1>1, <2>1, <2>2
<1>4. d * f \in Int  OBVIOUS
<1> QED  BY <1>1, <1>2, <1>3, <1>4 DEF q

\* Where frames start and are placed, as multiples of what a frame lasts
LEMMA FrameStarts ==
    ASSUME NEW k \in Int
    PROVE  /\ FrameStart(k) \in Int /\ FramePlace(k) \in Int
           /\ FrameLasts[2] * FrameStart(k) <= k * FrameLasts[1]
           /\ k * FrameLasts[1] < FrameLasts[2] * FrameStart(k) + FrameLasts[2]
           /\ k * FrameLasts[1] <= FrameLasts[2] * FramePlace(k)
           /\ FrameLasts[2] * FramePlace(k) < k * FrameLasts[1] + FrameLasts[2]
<1> DEFINE n == k * FrameLasts[1]
           d == FrameLasts[2]
<1>1. n \in Int /\ d \in Nat \ {0}  BY PlaybackAssumption
<1>2. FrameStart(k) = n \div d /\ FramePlace(k) = Up(n, d)  BY DEF FrameStart, FramePlace
<1> HIDE DEF n, d
<1> DEFINE a == n \div d
           b == Up(n, d)
<1>3. a \in Int /\ d * a <= n /\ ~(d * (a + 1) <= n)
  <2>1. a \in Int  BY <1>1, DivIsMost
  <2>2. a <= a /\ ~(a + 1 <= a) /\ a + 1 \in Int  BY <2>1
  <2> QED  BY <1>1, <2>1, <2>2, DivIsMost
<1>4. b \in Int /\ d * b >= n /\ ~(d * (b - 1) >= n)
  <2>1. b \in Int  BY <1>1, UpIsLeast
  <2>2. b >= b /\ ~(b - 1 >= b) /\ b - 1 \in Int  BY <2>1
  <2> QED  BY <1>1, <2>1, <2>2, UpIsLeast
<1> HIDE DEF a, b
<1>5. d * (a + 1) = d * a + d /\ d * (b - 1) = d * b - d  BY <1>1, <1>3, <1>4
<1>6. d * a \in Int /\ d * b \in Int  BY <1>1, <1>3, <1>4
<1>7. /\ d * a <= n /\ n < d * a + d
      /\ n <= d * b /\ d * b < n + d
  BY <1>1, <1>3, <1>4, <1>5, <1>6
<1> QED  BY <1>2, <1>3, <1>4, <1>7 DEF n, d, a, b

\* Multiples in the order of what they are multiples of
LEMMA Ordered ==
    ASSUME NEW d \in Nat \ {0}, NEW a \in Int, NEW b \in Int, d * a < d * b
    PROVE  a < b
<1>1. ASSUME a >= b PROVE FALSE
  <2>1. d * a >= d * b  BY Larger, <1>1
  <2>2. d * a \in Int /\ d * b \in Int  OBVIOUS
  <2> QED  BY <2>1, <2>2
<1> QED  BY <1>1

LEMMA FrameLength ==
    /\ FrameLasts[1] \in Nat \ {0} /\ FrameLasts[2] \in Nat \ {0}
    /\ FrameLasts[1] >= 2 * FrameLasts[2]
BY PlaybackAssumption, StepsAssumption

\* A frame is placed before the next one starts, and starts before it does.
LEMMA FramesFollow ==
    ASSUME NEW k \in Int, NEW l \in Int, k < l
    PROVE  FrameStart(k) < FrameStart(l) /\ FramePlace(k) < FrameStart(l) /\ FramePlace(k) < FramePlace(l)
<1> DEFINE a == FrameLasts[1]
           b == FrameLasts[2]
           x == FrameStart(k)
           y == FrameStart(l)
           u == FramePlace(k)
           v == FramePlace(l)
<1>1. a \in Nat \ {0} /\ b \in Nat \ {0} /\ a >= 2 * b  BY FrameLength
<1>2. x \in Int /\ u \in Int /\ b * x <= k * a /\ b * u < k * a + b  BY FrameStarts
<1>3. y \in Int /\ v \in Int /\ l * a < b * y + b /\ l * a <= b * v  BY FrameStarts
<1> HIDE DEF a, b, x, y, u, v
<1>4. l * a >= k * a + a
  <2>1. a * l >= a * (k + 1)  BY Larger, <1>1
  <2> QED  BY <2>1, <1>1
<1> DEFINE p == b * x
           q == b * y
           r == b * u
           w == b * v
           m == k * a
           n == l * a
<1>5. p \in Int /\ q \in Int /\ r \in Int /\ w \in Int /\ m \in Int /\ n \in Int
  BY <1>1, <1>2, <1>3
<1>6. p <= m /\ r < m + b /\ n < q + b /\ n <= w /\ n >= m + a  BY <1>2, <1>3, <1>4
<1> HIDE DEF p, q, r, w, m, n
<1>7. p < q /\ r < q /\ r < w  BY <1>1, <1>5, <1>6
<1>8. x < y  BY <1>1, <1>2, <1>3, <1>7, Ordered DEF p, q
<1>9. u < y  BY <1>1, <1>2, <1>3, <1>7, Ordered DEF r, q
<1>10. u < v  BY <1>1, <1>2, <1>3, <1>7, Ordered DEF r, w
<1> QED  BY <1>8, <1>9, <1>10 DEF x, y, u, v

\* A frame is placed no earlier than it starts.
LEMMA FramePlaced ==
    ASSUME NEW k \in Int
    PROVE  FrameStart(k) <= FramePlace(k)
<1> DEFINE m == k * FrameLasts[1]
           b == FrameLasts[2]
           p == b * FrameStart(k)
           q == b * FramePlace(k)
<1>1. b \in Nat \ {0} /\ FrameStart(k) \in Int /\ FramePlace(k) \in Int /\ m \in Int
  BY FrameLength, FrameStarts
<1>2. p <= m /\ m <= q  BY FrameStarts
<1>3. p \in Int /\ q \in Int  BY <1>1
<1>4. ASSUME FrameStart(k) > FramePlace(k) PROVE FALSE
  <2>1. b * (FrameStart(k) - 1) >= q  BY <1>1, <1>4, Larger
  <2>2. b * (FrameStart(k) - 1) = p - b  BY <1>1
  <2> QED  BY <1>1, <1>2, <1>3, <2>1, <2>2
<1> QED  BY <1>1, <1>4

\* The frame there is from where it starts, or is placed, up to the next
LEMMA FrameIsThere ==
    ASSUME NEW s, IsSegment(s), s.frames >= 1, NEW k \in s.first..LastFrameOf(s),
           NEW t \in Int, FrameLasts[2] * t < k * FrameLasts[1] + FrameLasts[2],
           k * FrameLasts[1] < FrameLasts[2] * t + FrameLasts[2]
    PROVE  SequenceFrameAt(s, t) = k
<1> DEFINE a == FrameLasts[1]
           b == FrameLasts[2]
           n == (t + 1) * b
           m == k * a
<1>1. a \in Nat \ {0} /\ b \in Nat \ {0} /\ a >= 2 * b  BY FrameLength
<1>2. s.first \in Int /\ LastFrameOf(s) \in Int /\ k \in Int  BY SegmentFields DEF LastFrameOf
<1>3. b * t < m + b /\ m < b * t + b  OBVIOUS
<1> HIDE DEF a, b
<1>4. n = b * t + b /\ b * t \in Int /\ m \in Int  BY <1>1, <1>2
<1>5. n \in Int  BY <1>4, <1>1
<1>6. Up(n, a) \in Int /\ k + 1 >= Up(n, a) /\ ~(k >= Up(n, a))
  <2>1. a * (k + 1) = m + a /\ a * k = m  BY <1>1, <1>2
  <2>2. a * (k + 1) >= n /\ ~(a * k >= n)
    <3> HIDE DEF n, m
    <3> QED  BY <2>1, <1>1, <1>3, <1>4, <1>5
  <2>3. k + 1 \in Int  BY <1>2
  <2> HIDE DEF n, m
  <2> QED  BY <2>2, <2>3, <1>1, <1>2, <1>5, UpIsLeast
<1>7. Up(n, a) - 1 = k  BY <1>6, <1>2
<1>8. SequenceFrameAt(s, t) = Max({s.first, Min({LastFrameOf(s), Up(n, a) - 1})})
  BY DEF SequenceFrameAt, n, a, b
<1>9. Min({LastFrameOf(s), k}) = k  BY <1>2, LesserOf
<1>10. Max({s.first, k}) = k  BY <1>2, GreaterOf
<1> QED  BY <1>7, <1>8, <1>9, <1>10

LEMMA FrameBetween ==
    ASSUME NEW s, IsSegment(s), s.frames >= 1, NEW t \in Int
    PROVE  SequenceFrameAt(s, t) \in s.first..LastFrameOf(s)
<1> DEFINE past == Up((t + 1) * FrameLasts[2], FrameLasts[1]) - 1
           most == Min({LastFrameOf(s), past})
<1>1. s.first \in Int /\ LastFrameOf(s) \in Int /\ s.first <= LastFrameOf(s)
  BY SegmentFields DEF LastFrameOf
<1>2. (t + 1) * FrameLasts[2] \in Int /\ FrameLasts[1] \in Nat \ {0}  BY PlaybackAssumption
<1>3. past \in Int
  <2>1. Up((t + 1) * FrameLasts[2], FrameLasts[1]) \in Int  BY <1>2, Rounded
  <2> QED  BY <2>1
<1>4. SequenceFrameAt(s, t) = Max({s.first, most})  BY DEF SequenceFrameAt
<1> HIDE DEF past
<1>5. most \in Int /\ most <= LastFrameOf(s)  BY <1>1, <1>3, LesserOf
<1> HIDE DEF most
<1> QED  BY <1>1, <1>4, <1>5, GreaterOf

-----------------------------------------------------------------------------
(* Clips on the sequence, and the plan made of them                          *)

\* What a plan keeps of a clip
MadeOf(s, c) ==
    /\ IsSegment(s) /\ s = SegmentOf(c)
    /\ s.source = c.source /\ s.motion = c.motion /\ s.from = c.from /\ s.to = c.to
    /\ s.from \in Int /\ s.to \in Int /\ s.from < s.to
    /\ s.first = c.start /\ s.frames = LengthOf(c) /\ s.frames >= 1 /\ s.frames \in Nat
    /\ c.start \in Int /\ EndOf(c) = c.start + s.frames
    /\ s.start = FrameStart(c.start) /\ s.until = FrameStart(EndOf(c))
    /\ s.start \in Int /\ s.until \in Int /\ s.start < s.until

LEMMA Product ==
    ASSUME NEW a \in Nat \ {0}, NEW b \in Nat \ {0}
    PROVE  a * b \in Nat \ {0}
<1>1. a * b >= a * 1  BY Larger
<1> QED  BY <1>1

LEMMA LengthIs ==
    ASSUME NEW c, IsPlaced(c)
    PROVE  /\ LengthOf(c) \in Nat /\ LengthOf(c) >= 1
           /\ (2 * c.rate[1]) * LengthOf(c) >= (2 * (c.to - c.from) - 1) * c.rate[2]
<1> DEFINE r == c.rate[1]
           q == c.rate[2]
           n == c.to - c.from
           m == (2 * n - 1) * q
           d == 2 * r
           len == LengthOf(c)
<1>1. r \in Nat \ {0} /\ q \in Nat \ {0} /\ n \in Nat \ {0}  BY DEF IsPlaced
<1>2. len = Up(m, d)  BY DEF LengthOf, FramesUntil
<1> HIDE DEF r, q, n, len
<1>3. m \in Nat \ {0} /\ d \in Nat \ {0}
  <2>1. 2 * n - 1 \in Nat \ {0}  BY <1>1
  <2> QED  BY <2>1, <1>1, Product
<1> HIDE DEF m, d
<1>4. len \in Int /\ d * len >= m /\ ~(d * 0 >= m)
  <2>1. len \in Int  BY <1>2, <1>3, UpIsLeast
  <2> QED  BY <1>2, <1>3, <2>1, UpIsLeast
<1>5. len >= 1
  <2>1. 0 >= len => d * 0 >= m  BY <1>2, <1>3, UpIsLeast
  <2> QED  BY <2>1, <1>4
<1> QED  BY <1>4, <1>5 DEF d, m, len, r, q, n

LEMMA PlacedIsSegment ==
    ASSUME NEW c, IsPlaced(c)
    PROVE  MadeOf(SegmentOf(c), c)
<1> DEFINE s == SegmentOf(c)
           end == EndOf(c)
<1>1. LengthOf(c) \in Nat /\ LengthOf(c) >= 1  BY LengthIs
<1>2. c.start \in Int /\ end = c.start + LengthOf(c)  BY DEF IsPlaced, EndOf
<1>3. end \in Int /\ c.start < end  BY <1>1, <1>2
<1> HIDE DEF end
<1>4. FrameStart(c.start) \in Int /\ FrameStart(end) \in Int /\ FrameStart(c.start) < FrameStart(end)
  BY <1>2, <1>3, FrameStarts, FramesFollow
<1>5. /\ s.source = c.source /\ s.motion = c.motion /\ s.from = c.from /\ s.to = c.to
      /\ s.first = c.start /\ s.frames = LengthOf(c) /\ s.rate = c.rate
      /\ s.start = FrameStart(c.start) /\ s.until = FrameStart(end)
      /\ s.tick = <<FrameLasts[1] * c.rate[2], FrameLasts[2] * c.rate[1]>>
  BY DEF SegmentOf, end
<1>6. s.tick \in (Nat \ {0}) \X (Nat \ {0})
  <2>1. c.rate[1] \in Nat \ {0} /\ c.rate[2] \in Nat \ {0}  BY DEF IsPlaced
  <2> QED  BY <2>1, <1>5, FrameLength, Product
<1> HIDE DEF s
<1>7. IsSegment(s)
  BY <1>1, <1>2, <1>4, <1>5, <1>6 DEF IsSegment, IsPlaced
<1> QED  BY <1>1, <1>2, <1>4, <1>5, <1>7 DEF MadeOf, IsPlaced, s, end

\* From where it starts up to its end, which is where the clip's frames end or before
LEMMA MadeEnds ==
    ASSUME NEW c, NEW s, IsPlaced(c), MadeOf(s, c)
    PROVE  /\ TimelineEnd(s) \in Int /\ s.start < TimelineEnd(s) /\ TimelineEnd(s) <= s.until
           /\ ~Moves(s) => TimelineEnd(s) = s.until
<1> DEFINE lasts == Up((s.to - s.from) * s.tick[1], s.tick[2])
           room == s.until - s.start
           shows == FrameStart(s.first + s.frames) - s.start
<1>1. room \in Nat \ {0} /\ s.start \in Int /\ s.until \in Int  BY DEF MadeOf
<1>2. shows = room  BY DEF MadeOf
<1>3. lasts \in Nat \ {0}
  <2> DEFINE n == (s.to - s.from) * s.tick[1]
             d == s.tick[2]
  <2>1. s.to - s.from \in Nat \ {0} /\ s.tick[1] \in Nat \ {0} /\ d \in Nat \ {0}
    BY SegmentFields DEF MadeOf
  <2>2. n \in Nat \ {0}  BY <2>1, Product
  <2> HIDE DEF n, d
  <2>3. Up(n, d) \in Int  BY <2>1, <2>2, UpIsLeast
  <2>4. 0 >= Up(n, d) => d * 0 >= n  BY <2>1, <2>2, UpIsLeast
  <2>5. ~(0 >= Up(n, d))  BY <2>1, <2>2, <2>4
  <2> QED  BY <2>3, <2>5 DEF n, d
<1>4. DurationOf(s) = IF Moves(s) THEN Min({lasts, Max({room, 0})}) ELSE Max({shows, 0})
  BY DEF DurationOf
<1> HIDE DEF lasts, room, shows
<1>5. Max({room, 0}) = room  BY <1>1, GreaterOf
<1>6. Min({lasts, room}) \in 1..room  BY <1>1, <1>3, LesserOf
<1>7. DurationOf(s) \in 1..room /\ (~Moves(s) => DurationOf(s) = room)
  BY <1>2, <1>4, <1>5, <1>6, <1>1
<1>8. TimelineEnd(s) = s.start + DurationOf(s) /\ s.start + room = s.until
  BY <1>1 DEF TimelineEnd, room
<1> QED  BY <1>1, <1>7, <1>8

\* A plan made of clips
IsMade(p) ==
    \E placed \in Placed :
        /\ DOMAIN p = DOMAIN placed /\ p \in Seq(Range(p))
        /\ \A i \in DOMAIN p : /\ IsPlaced(placed[i]) /\ PicturesLast(placed[i]) /\ MadeOf(p[i], placed[i])
        /\ \A i, j \in DOMAIN p : i < j => p[i].until <= p[j].start

LEMMA PlansAreMade == \A p \in PlansMade : IsMade(p)
<1> SUFFICES ASSUME NEW placed \in Placed, NEW p, p = [i \in DOMAIN placed |-> SegmentOf(placed[i])]
             PROVE  IsMade(p)
  BY DEF PlansMade
<1>1. /\ placed \in Seq(Range(placed))
      /\ \A i \in DOMAIN placed : IsPlaced(placed[i]) /\ PicturesLast(placed[i])
      /\ \A i, j \in DOMAIN placed : i < j => EndOf(placed[i]) <= placed[j].start
  BY StepsAssumption
<1>2. DOMAIN p = DOMAIN placed /\ \A i \in DOMAIN p : p[i] = SegmentOf(placed[i])  OBVIOUS
<1>3. \A i \in DOMAIN p : MadeOf(p[i], placed[i])  BY <1>1, <1>2, PlacedIsSegment
<1>4. ASSUME NEW i \in DOMAIN p, NEW j \in DOMAIN p, i < j PROVE p[i].until <= p[j].start
  <2> DEFINE x == EndOf(placed[i])
             y == placed[j].start
  <2> MadeOf(p[i], placed[i]) /\ MadeOf(p[j], placed[j])  BY <1>3
  <2>1. x \in Int /\ y \in Int /\ x <= y  BY <1>1, <1>2, <1>4 DEF MadeOf
  <2>2. p[i].until = FrameStart(x) /\ p[j].start = FrameStart(y)  BY <1>3 DEF MadeOf
  <2> HIDE DEF x, y
  <2>3. FrameStart(x) \in Int /\ FrameStart(y) \in Int  BY <2>1, FrameStarts
  <2>4. x < y => FrameStart(x) < FrameStart(y)  BY <2>1, FramesFollow
  <2> QED  BY <2>1, <2>2, <2>3, <2>4
<1>5. p \in Seq(Range(p))
  <2>1. Len(placed) \in Nat /\ DOMAIN p = 1..Len(placed)  BY <1>1
  <2>2. \A i \in DOMAIN p : p[i] \in Range(p)  BY DEF Range
  <2>3. p = [i \in 1..Len(placed) |-> p[i]]  BY <2>1
  <2> QED  BY <2>1, <2>2, <2>3
<1> QED  BY <1>1, <1>2, <1>3, <1>4, <1>5 DEF IsMade

\* Where a segment lies
Lies(s) ==
    /\ IsSegment(s) /\ s.frames >= 1
    /\ s.start \in Int /\ s.until \in Int /\ TimelineEnd(s) \in Int
    /\ s.start < TimelineEnd(s) /\ TimelineEnd(s) <= s.until
    /\ ~Moves(s) => TimelineEnd(s) = s.until
    /\ s.start = FrameStart(s.first) /\ s.until = FrameStart(s.first + s.frames)

LEMMA MadeIsPlan ==
    ASSUME NEW p, IsMade(p)
    PROVE  /\ IsPlan(p)
           /\ \A i \in DOMAIN p : Lies(p[i])
           /\ \A i, j \in DOMAIN p : i < j => p[i].until <= p[j].start
<1>1. PICK placed \in Placed :
        /\ DOMAIN p = DOMAIN placed /\ p \in Seq(Range(p))
        /\ \A i \in DOMAIN p : /\ IsPlaced(placed[i]) /\ PicturesLast(placed[i]) /\ MadeOf(p[i], placed[i])
        /\ \A i, j \in DOMAIN p : i < j => p[i].until <= p[j].start
  BY DEF IsMade
<1>2. ASSUME NEW i \in DOMAIN p
      PROVE  Lies(p[i]) /\ p[i].from < p[i].to
  <2> DEFINE c == placed[i]
             s == p[i]
  <2>1. IsPlaced(c) /\ MadeOf(s, c)  BY <1>1
  <2> HIDE DEF c, s
  <2>2. /\ TimelineEnd(s) \in Int /\ s.start < TimelineEnd(s) /\ TimelineEnd(s) <= s.until
        /\ ~Moves(s) => TimelineEnd(s) = s.until
    BY <2>1, MadeEnds
  <2>3. /\ IsSegment(s) /\ s.frames >= 1 /\ s.start \in Int /\ s.until \in Int
        /\ s.start = FrameStart(s.first) /\ s.until = FrameStart(s.first + s.frames) /\ s.from < s.to
    BY <2>1 DEF MadeOf
  <2> QED  BY <2>2, <2>3 DEF Lies, s
<1>3. ASSUME NEW i \in DOMAIN p, i > 1 PROVE p[i].start + SeamTolerance >= TimelineEnd(p[i - 1])
  <2>1. i - 1 \in DOMAIN p /\ i - 1 < i  BY <1>1, <1>3
  <2>2. Lies(p[i]) /\ Lies(p[i - 1])  BY <1>2, <2>1
  <2>3. TimelineEnd(p[i - 1]) <= p[i].start  BY <1>1, <2>1, <2>2 DEF Lies
  <2> QED  BY <2>2, <2>3, PlaybackAssumption DEF Lies
<1>4. \A i \in DOMAIN p : IsSegment(p[i])  BY <1>2 DEF Lies
<1> QED  BY <1>1, <1>2, <1>3, <1>4 DEF IsPlan

\* The picture at or before a tick, and the one after, if there is one
LEMMA PictureIs ==
    ASSUME NEW source \in DOMAIN FramesOf, NEW tick \in Int
    PROVE  LET f == AtOrBefore(source, tick)
           IN \/ f = Nowhere /\ \A g \in FramesOf[source] : g > tick
              \/ f \in FramesOf[source] /\ f <= tick /\ \A g \in FramesOf[source] : g <= tick => g <= f
<1> DEFINE had == {f \in FramesOf[source] : f <= tick}
<1>1. FramesOf[source] \subseteq Int /\ IsFiniteSet(FramesOf[source])  BY PlaybackAssumption
<1>2. had \subseteq Int /\ IsFiniteSet(had)  BY <1>1, FS_Subset
<1>3. AtOrBefore(source, tick) = IF had = {} THEN Nowhere ELSE Max(had)  BY DEF AtOrBefore
<1>4. \A g \in FramesOf[source] : g <= tick <=> g \in had  OBVIOUS
<1>5. had \subseteq FramesOf[source]  OBVIOUS
<1> HIDE DEF had
<1>6. CASE had = {}  BY <1>1, <1>3, <1>4, <1>6
<1>7. CASE had # {}
  <2>1. Max(had) \in had /\ \A g \in had : Max(had) >= g  BY <1>2, <1>7, MaxIsIn
  <2> QED  BY <1>1, <1>3, <1>4, <1>5, <1>7, <2>1
<1> QED  BY <1>6, <1>7

LEMMA PictureAfterTick ==
    ASSUME NEW source \in DOMAIN FramesOf, NEW tick \in Int
    PROVE  LET f == After(source, tick)
           IN \/ f = Nowhere /\ \A g \in FramesOf[source] : g <= tick
              \/ f \in FramesOf[source] /\ f > tick /\ \A g \in FramesOf[source] : g > tick => g >= f
<1> DEFINE had == {f \in FramesOf[source] : f > tick}
<1>1. FramesOf[source] \subseteq Int /\ IsFiniteSet(FramesOf[source])  BY PlaybackAssumption
<1>2. had \subseteq Int /\ IsFiniteSet(had)  BY <1>1, FS_Subset
<1>3. After(source, tick) = IF had = {} THEN Nowhere ELSE Min(had)  BY DEF After
<1>4. \A g \in FramesOf[source] : g > tick <=> g \in had  OBVIOUS
<1>5. had \subseteq FramesOf[source]  OBVIOUS
<1> HIDE DEF had
<1>6. CASE had = {}  BY <1>1, <1>3, <1>4, <1>6
<1>7. CASE had # {}
  <2>1. Min(had) \in had /\ \A g \in had : Min(had) <= g  BY <1>2, <1>7, MinIsIn
  <2> QED  BY <1>1, <1>3, <1>4, <1>5, <1>7, <2>1
<1> QED  BY <1>6, <1>7

\* Who is the last at or before a tick is the picture there.
LEMMA PictureIsIt ==
    ASSUME NEW source \in DOMAIN FramesOf, NEW tick \in Int,
           NEW f \in FramesOf[source], f <= tick, \A g \in FramesOf[source] : g <= tick => g <= f
    PROVE  AtOrBefore(source, tick) = f
<1>1. f \in Int /\ FramesOf[source] \subseteq Nat  BY PlaybackAssumption
<1> DEFINE it == AtOrBefore(source, tick)
<1>2. \/ it = Nowhere /\ \A g \in FramesOf[source] : g > tick
      \/ it \in FramesOf[source] /\ it <= tick /\ \A g \in FramesOf[source] : g <= tick => g <= it
  BY PictureIs
<1> HIDE DEF it
<1>3. it \in FramesOf[source] /\ it <= f /\ f <= it  BY <1>1, <1>2
<1>4. it \in Int  BY <1>1, <1>3
<1> QED  BY <1>1, <1>3, <1>4 DEF it

\* Ticks with no picture between them show the same.
LEMMA SamePicture ==
    ASSUME NEW source \in DOMAIN FramesOf, NEW a \in Int, NEW b \in Int, a <= b,
           \A g \in FramesOf[source] : g <= b => g <= a
    PROVE  AtOrBefore(source, a) = AtOrBefore(source, b)
<1>1. FramesOf[source] \subseteq Int  BY PlaybackAssumption
<1>2. {f \in FramesOf[source] : f <= a} = {f \in FramesOf[source] : f <= b}  BY <1>1
<1> QED  BY <1>2 DEF AtOrBefore

\* A segment is found from where it starts to its end.
LEMMA IndexIs ==
    ASSUME NEW p, IsMade(p), NEW i \in DOMAIN p, NEW t \in Int, p[i].start <= t, t < TimelineEnd(p[i])
    PROVE  IndexAt(p, t) = i
<1> DEFINE started == {j \in DOMAIN p : p[j].start <= t}
<1>1. /\ IsPlan(p) /\ DOMAIN p \subseteq Nat \ {0}
      /\ \A j \in DOMAIN p : p[j].start \in Int /\ p[j].until \in Int /\ TimelineEnd(p[j]) \in Int
      /\ TimelineEnd(p[i]) <= p[i].until
      /\ \A j, k \in DOMAIN p : j < k => p[j].until <= p[k].start
  <2>1. IsPlan(p)  BY MadeIsPlan
  <2>2. DOMAIN p \subseteq Nat \ {0}  BY <2>1, PlanShape
  <2>3. \A j \in DOMAIN p : Lies(p[j])  BY MadeIsPlan
  <2>5. \A j, k \in DOMAIN p : j < k => p[j].until <= p[k].start  BY MadeIsPlan
  <2> QED  BY <2>1, <2>2, <2>3, <2>5 DEF Lies
<1>2. \A j \in started : j <= i
  <2>1. ASSUME NEW j \in started, j > i PROVE FALSE
    <3>1. p[i].until <= p[j].start /\ p[j].start <= t /\ p[j].start \in Int  BY <1>1, <2>1
    <3> QED  BY <1>1, <3>1
  <2> QED  BY <1>1, <2>1
<1>3. i \in started /\ started \subseteq Int /\ started # {} /\ IsFiniteSet(started)
  BY <1>1, PlanShape, FS_Subset
<1>4. Max(started) = i
  <2> HIDE DEF started
  <2>1. Max(started) \in started /\ \A j \in started : Max(started) >= j  BY <1>3, MaxIsIn
  <2> QED  BY <1>2, <1>3, <2>1
<1>5. ContainsFrame(p[i], t)  BY DEF ContainsFrame
<1> QED  BY <1>3, <1>4, <1>5 DEF IndexAt

LEMMA RoundedUp ==
    ASSUME NEW n \in Nat, NEW b \in Nat \ {0}
    PROVE  /\ Up(n, b) \in Nat /\ b * Up(n, b) \in Nat
           /\ n <= b * Up(n, b) /\ b * Up(n, b) < n + b
<1> DEFINE u == Up(n, b)
<1>1. u \in Int  BY UpIsLeast
<1>2. u >= u /\ ~(u - 1 >= u) /\ u - 1 \in Int  BY <1>1
<1>3. b * u >= n /\ ~(b * (u - 1) >= n)  BY <1>1, <1>2, UpIsLeast
<1>4. u > -1
  <2>1. -1 >= u => b * (-1) >= n  BY UpIsLeast
  <2> QED  BY <2>1, <1>1
<1> HIDE DEF u
<1>5. b * (u - 1) = b * u - b /\ b * u \in Nat  BY <1>1, <1>4
<1> QED  BY <1>1, <1>3, <1>4, <1>5 DEF u

\* The room a clip's frames leave for its pictures: one that begins u units
\* after it does is over before its frames are.
LEMMA RoomIsEnough ==
    ASSUME NEW c, NEW s, IsPlaced(c), MadeOf(s, c), NEW u \in Nat,
           FrameLasts[2] * (u + 1) < LengthOf(c) * FrameLasts[1]
    PROVE  s.start + u < s.until
<1> DEFINE a == FrameLasts[1]
           b == FrameLasts[2]
           k == c.start
           len == LengthOf(c)
           x == s.start
           y == s.until
<1>1. a \in Nat \ {0} /\ b \in Nat \ {0}  BY FrameLength
<1>2. /\ k \in Int /\ len \in Nat /\ x \in Int /\ y \in Int
      /\ x = FrameStart(k) /\ y = FrameStart(k + len)
  BY DEF MadeOf
<1>3. k + len \in Int  BY <1>2
<1>4. b * x <= k * a /\ (k + len) * a < b * y + b  BY <1>2, <1>3, FrameStarts
<1>5. b * (u + 1) < len * a  OBVIOUS
<1> HIDE DEF a, b, k, len, x, y
<1>6. /\ (k + len) * a = k * a + len * a /\ b * (x + (u + 1)) = b * x + b * (u + 1)
      /\ b * (y + 1) = b * y + b
  <2>1. (k + len) * a = k * a + len * a  BY <1>1, <1>2
  <2>2. b * (x + (u + 1)) = b * x + b * (u + 1)  BY <1>1, <1>2
  <2>3. b * (y + 1) = b * y + b  BY <1>1, <1>2
  <2> QED  BY <2>1, <2>2, <2>3
<1>7. k * a \in Int /\ len * a \in Int /\ b * x \in Int /\ b * y \in Int /\ b * (u + 1) \in Int
  BY <1>1, <1>2
<1>8. b * (x + (u + 1)) < b * (y + 1)
  <2> DEFINE e1 == k * a
             e2 == len * a
             e3 == b * x
             e4 == b * y
             e5 == b * (u + 1)
  <2> e1 \in Int /\ e2 \in Int /\ e3 \in Int /\ e4 \in Int /\ e5 \in Int /\ b \in Int  BY <1>1, <1>7
  <2>1. e3 <= e1 /\ e1 + e2 < e4 + b /\ e5 < e2  BY <1>4, <1>5, <1>6
  <2>2. b * (x + (u + 1)) = e3 + e5 /\ b * (y + 1) = e4 + b  BY <1>6
  <2> HIDE DEF e1, e2, e3, e4, e5
  <2>3. e3 + e5 < e4 + b  BY <2>1
  <2> QED  BY <2>2, <2>3
<1>9. x + (u + 1) \in Int /\ y + 1 \in Int  BY <1>2
<1>10. x + (u + 1) < y + 1  BY <1>1, <1>8, <1>9, Ordered
<1> QED  BY <1>2, <1>10 DEF x, y

\* The units a picture of a clip lies into it, and those the clip lasts
LEMMA PictureFits ==
    ASSUME NEW c, NEW s, IsPlaced(c), MadeOf(s, c), NEW x \in Nat, x < s.to - s.from,
           x = 0 \/ (s.to - s.from - x) * s.tick[1] >= 4 * s.tick[2]
    PROVE  LET u == Up(x * s.tick[1], s.tick[2])
           IN /\ u < Up((s.to - s.from) * s.tick[1], s.tick[2])
              /\ s.start + u < s.until
<1> DEFINE a == s.tick[1]
           b == s.tick[2]
           n == s.to - s.from
           m == x * a
           l == n * a
           u == Up(m, b)
           len == LengthOf(c)
           r == c.rate[1]
           q == c.rate[2]
           A == FrameLasts[1]
           B == FrameLasts[2]
<1>1. /\ a = A * q /\ b = B * r /\ r \in Nat \ {0} /\ q \in Nat \ {0}
      /\ A \in Nat \ {0} /\ B \in Nat \ {0} /\ A >= 2 * B
  BY FrameLength DEF MadeOf, SegmentOf, IsPlaced
<1>2. n \in Nat \ {0} /\ len \in Nat /\ len >= 1 /\ (2 * r) * len >= (2 * n - 1) * q /\ x < n
  <2>1. s.to = c.to /\ s.from = c.from /\ s.to \in Int /\ s.from \in Int /\ s.from < s.to  BY DEF MadeOf
  <2> QED  BY <2>1, LengthIs
<1>3. x = 0 \/ (n - x) * a >= 4 * b  OBVIOUS
<1> HIDE DEF a, b, n, len, r, q, A, B
<1>4. a \in Nat \ {0} /\ b \in Nat \ {0}  BY <1>1, Product
<1>5. m \in Nat /\ l \in Nat \ {0}  BY <1>2, <1>4, Product
<1>6. u \in Nat /\ b * u \in Nat /\ m <= b * u /\ b * u < m + b  BY <1>4, <1>5, RoundedUp
<1>7. (n - x) * a = l - m  BY <1>2, <1>4
<1>8. x = 0 => m = 0 /\ u = 0
  <2>1. x = 0 => m = 0  BY <1>4
  <2>2. m = 0 => b * u < b * 1  BY <1>4, <1>6
  <2>3. m = 0 => u < 1
    <3>1. ASSUME m = 0, u >= 1 PROVE FALSE
      <4>1. b * u >= b * 1  BY <1>4, <1>6, <3>1, Larger
      <4> QED  BY <4>1, <2>2, <3>1, <1>4, <1>6
    <3> QED  BY <3>1, <1>6
  <2> QED  BY <2>1, <2>3, <1>6
<1>9. x = 0 \/ b * u + 3 * b < l
  <2> HIDE DEF m, l, u
  <2> DEFINE e == b * u
  <2>1. e \in Nat /\ e < m + b  BY <1>6
  <2>2. x = 0 \/ l - m >= 4 * b  BY <1>3, <1>7
  <2> HIDE DEF e
  <2>3. x = 0 \/ e + 3 * b < l  BY <1>4, <1>5, <2>1, <2>2
  <2> QED  BY <2>3 DEF e
<1>10. u < Up(l, b)
  <2>1. u \in Int /\ l \in Int  BY <1>5, <1>6
  <2>2. Up(l, b) \in Int /\ (u >= Up(l, b) => b * u >= l)  BY <1>4, <2>1, UpIsLeast
  <2>3. ~(b * u >= l)
    <3>1. CASE x = 0
      <4>1. b * u = 0  BY <1>4, <1>8, <3>1
      <4> HIDE DEF m, l, u
      <4> QED  BY <4>1, <1>5
    <3>2. CASE x # 0
      <4> HIDE DEF m, l, u
      <4> QED  BY <1>4, <1>5, <1>6, <1>9, <3>2
    <3> QED  BY <3>1, <3>2
  <2> QED  BY <2>1, <2>2, <2>3
<1>11. B * (u + 1) < len * A
  <2>1. CASE x = 0
    <3>1. u = 0  BY <1>8, <2>1
    <3>2. A * len >= A * 1  BY <1>1, <1>2, Larger
    <3> HIDE DEF m, l, u
    <3> QED  BY <3>1, <3>2, <1>1, <1>2
  <2>2. CASE x # 0
    <3> DEFINE d == 2 * r
               e == B * (u + 1)
               g == len * A
    <3>1. d \in Nat \ {0} /\ e \in Int /\ g \in Int  BY <1>1, <1>2, <1>6
    <3>2. d * e = 2 * (b * u) + 2 * b
      <4> HIDE DEF m, l, u
      <4>1. d * e = 2 * (r * (B * (u + 1)))  BY <1>1, <1>6
      <4>2. r * (B * (u + 1)) = (B * r) * (u + 1)  BY <1>1, <1>6
      <4>3. b * (u + 1) = b * u + b  BY <1>4, <1>6
      <4> QED  BY <4>1, <4>2, <4>3, <1>1, <1>4, <1>6
    <3>3. d * g >= 2 * l - a
      <4>1. d * g = A * ((2 * r) * len)  BY <1>1, <1>2
      <4>2. A * ((2 * r) * len) >= A * ((2 * n - 1) * q)
        <5>1. (2 * r) * len \in Int /\ (2 * n - 1) * q \in Int  BY <1>1, <1>2
        <5> QED  BY <5>1, <1>1, <1>2, Larger
      <4>3. A * ((2 * n - 1) * q) = (2 * n - 1) * (A * q)  BY <1>1, <1>2
      <4>4. (2 * n - 1) * a = 2 * (n * a) - a  BY <1>2, <1>4
      <4> QED  BY <4>1, <4>2, <4>3, <4>4, <1>1
    <3>4. l - m >= a
      <4>1. a * (n - x) >= a * 1  BY <1>2, <1>4, Larger
      <4> QED  BY <4>1, <1>7, <1>2, <1>4
    <3>5. 2 * (b * u) + 2 * b < 2 * l - a
      <4> HIDE DEF m, l, u
      <4> DEFINE w == b * u
      <4>1. w \in Nat /\ w < m + b  BY <1>6
      <4>2. l - m >= 4 * b  BY <1>3, <1>7, <2>2
      <4> HIDE DEF w
      <4>3. 2 * w + 2 * b < 2 * l - a  BY <4>1, <4>2, <3>4, <1>4, <1>5
      <4> QED  BY <4>3 DEF w
    <3>6. d * e < d * g
      <4>1. d * e \in Int /\ d * g \in Int  BY <3>1
      <4> HIDE DEF d, e, g, m, l, u
      <4> DEFINE w == b * u
      <4>2. w \in Nat  BY <1>6
      <4>3. d * e = 2 * w + 2 * b /\ 2 * w + 2 * b < 2 * l - a /\ d * g >= 2 * l - a  BY <3>2, <3>3, <3>5
      <4> HIDE DEF w
      <4> QED  BY <4>1, <4>2, <4>3, <1>4, <1>5
    <3> QED  BY <3>1, <3>6, Ordered
  <2> QED  BY <2>1, <2>2
<1>12. s.start + u < s.until
  <2>1. FrameLasts[2] * (u + 1) < LengthOf(c) * FrameLasts[1]  BY <1>11 DEF A, B, len
  <2> HIDE DEF u
  <2> QED  BY <2>1, <1>6, RoomIsEnough
<1> QED  BY <1>10, <1>12 DEF a, b, n

\* Where a picture of a clip begins, the clip is on screen, and shows it.
LEMMA PictureShows ==
    ASSUME NEW c, NEW s, IsPlaced(c), PicturesLast(c), MadeOf(s, c), Moves(s),
           NEW f \in FramesOf[s.source] \cup {s.from}, s.from <= f, f < s.to
    PROVE  LET t == ProgramAt(s, f)
           IN /\ t \in Int /\ s.start <= t /\ t < TimelineEnd(s)
              /\ SourceAt(s, t) \in Int /\ f <= SourceAt(s, t) /\ SourceAt(s, t) < s.to
              /\ \A g \in FramesOf[s.source] : g <= SourceAt(s, t) => g <= f
<1> DEFINE a == s.tick[1]
           b == s.tick[2]
           x == f - s.from
           n == s.to - s.from
           m == x * a
           u == Up(m, b)
           t == ProgramAt(s, f)
           near == Nearest((t - s.start) * b, a)
<1>1. a \in Nat \ {0} /\ b \in Nat \ {0} /\ s.source \in DOMAIN FramesOf
  BY SegmentFields DEF MadeOf
<1>2. /\ s.from \in Int /\ s.to \in Int /\ s.start \in Int /\ s.until \in Int
      /\ s.source = c.source /\ s.to = c.to /\ s = SegmentOf(c)
  BY DEF MadeOf
<1>3. FramesOf[s.source] \subseteq Int /\ f \in Int  BY <1>1, <1>2, PlaybackAssumption
<1>4. x \in Nat /\ n \in Nat \ {0} /\ x < n /\ n - x = s.to - f  BY <1>2, <1>3
<1>5. x = 0 \/ f \in FramesOf[s.source]  BY <1>2
<1>6. f \in FramesOf[s.source] =>
        /\ (n - x) * a >= 4 * b
        /\ \A g \in FramesOf[s.source] : g > f => (g - f) * a >= 2 * b
  BY <1>2, <1>4 DEF PicturesLast
<1>7. u < Up(n * a, b) /\ s.start + u < s.until
  <2>1. x = 0 \/ (n - x) * a >= 4 * b  BY <1>5, <1>6
  <2> HIDE DEF x, u
  <2> QED  BY <2>1, <1>4, PictureFits DEF u
<1>8. m \in Nat /\ u \in Nat /\ m <= b * u /\ b * u < m + b
  <2>1. m \in Nat  BY <1>1, <1>4
  <2> HIDE DEF m
  <2> QED  BY <2>1, <1>1, RoundedUp
<1>9. t = s.start + u
  <2>1. Max({f - s.from, 0}) = x  BY <1>4, GreaterOf
  <2>2. s.motion = "forward"  BY DEF Moves
  <2> QED  BY <2>1, <2>2 DEF ProgramAt
<1>10. t \in Int /\ s.start <= t /\ t - s.start = u  BY <1>2, <1>8, <1>9
<1>11. t < TimelineEnd(s)
  <2> DEFINE lasts == Up(n * a, b)
             room == s.until - s.start
  <2>1. room \in Nat \ {0}  BY DEF MadeOf
  <2>2. lasts \in Int
    <3>1. n * a \in Int  BY <1>1, <1>4
    <3> QED  BY <3>1, <1>1, UpIsLeast
  <2>3. DurationOf(s) = Min({lasts, Max({room, 0})})  BY DEF DurationOf
  <2>4. u < lasts /\ u < room  BY <1>2, <1>7, <1>8
  <2> HIDE DEF lasts, room
  <2>5. Max({room, 0}) = room  BY <2>1, GreaterOf
  <2>6. Min({lasts, room}) \in {lasts, room}  BY <2>1, <2>2, LesserOf
  <2> HIDE DEF u
  <2>7. DurationOf(s) \in Int /\ u < DurationOf(s)  BY <2>1, <2>2, <2>3, <2>4, <2>5, <2>6
  <2> QED  BY <2>7, <1>2, <1>8, <1>9 DEF TimelineEnd
<1>12. near \in Int /\ near >= x
  <2> DEFINE v == u * b
  <2>1. near = Nearest(v, a)  BY <1>10
  <2>2. v \in Nat /\ v = b * u  BY <1>1, <1>8
  <2>3. a * (2 * x - 1) = 2 * m - a  BY <1>1, <1>4
  <2>4. 2 * v >= a * (2 * x - 1)
    <3> HIDE DEF m, u, v
    <3> QED  BY <2>2, <2>3, <1>1, <1>8
  <2> HIDE DEF near, v, x, a
  <2>5. Nearest(v, a) \in Int /\ (v >= 0 => (Nearest(v, a) >= x <=> 2 * v >= a * (2 * x - 1)))
    <3>1. v \in Int /\ x \in Int /\ a \in Nat \ {0}  BY <1>1, <1>4, <2>2
    <3> QED  BY ONLY <3>1, NearestReaches
  <2> QED  BY <2>1, <2>2, <2>4, <2>5
<1>13. ASSUME NEW g \in FramesOf[s.source], g > f PROVE near < g - s.from
  <2> DEFINE v == u * b
             y == g - s.from
             z == g - f
  <2>1. near = Nearest(v, a)  BY <1>10
  <2>2. v \in Nat /\ v = b * u  BY <1>1, <1>8
  <2>3. y \in Int /\ z \in Nat \ {0} /\ y = x + z  BY <1>2, <1>3, <1>13
  <2> HIDE DEF near, y, z
  <2>4. a * (2 * y - 1) = 2 * m + 2 * (z * a) - a  BY <1>1, <1>4, <2>3
  <2>5. z * a \in Nat /\ z * a >= a
    <3>1. a * z >= a * 1  BY <1>1, <2>3, Larger
    <3> QED  BY <3>1, <1>1, <2>3
  <2>6. ~(2 * v >= a * (2 * y - 1))
    <3>1. CASE f \in FramesOf[s.source]
      <4>1. z * a >= 2 * b  BY <3>1, <1>6, <1>13 DEF z
      <4> DEFINE w == z * a
      <4>2. w \in Nat /\ w >= a /\ w >= 2 * b /\ a * (2 * y - 1) = 2 * m + 2 * w - a  BY <2>4, <2>5, <4>1
      <4>3. v < m + b  BY <1>8, <2>2
      <4> HIDE DEF w, v, m, u
      <4>4. 2 * v < 2 * m + 2 * w - a  BY <4>2, <4>3, <1>1, <1>8, <2>2
      <4> QED  BY <4>2, <4>4, <1>1, <1>8, <2>2
    <3>2. CASE f \notin FramesOf[s.source]
      <4>1. x = 0 /\ m = 0  BY <3>2, <1>1, <1>5
      <4>2. v < b /\ v >= 0  BY <4>1, <1>1, <1>8, <2>2
      <4>3. u = 0
        <5>1. ASSUME u >= 1 PROVE FALSE
          <6>1. b * u >= b * 1  BY <1>1, <1>8, <5>1, Larger
          <6> HIDE DEF u, v, m
          <6> QED  BY <6>1, <4>2, <2>2, <1>1
        <5> QED  BY <5>1, <1>8
      <4>4. v = 0  BY <4>3, <1>1
      <4> DEFINE w == z * a
      <4>5. w \in Nat /\ w >= a /\ a * (2 * y - 1) = 2 * m + 2 * w - a  BY <2>4, <2>5
      <4> HIDE DEF w, v, m, u
      <4> QED  BY <4>1, <4>4, <4>5, <1>1
    <3> QED  BY <3>1, <3>2
  <2> HIDE DEF v, a
  <2>7. v >= 0 => (Nearest(v, a) >= y <=> 2 * v >= a * (2 * y - 1))
    <3>1. v \in Int /\ y \in Int /\ a \in Nat \ {0}  BY <1>1, <2>2, <2>3
    <3> QED  BY ONLY <3>1, NearestReaches
  <2> QED  BY <2>1, <2>2, <2>3, <2>6, <2>7, <1>12 DEF y
<1>14. SourceAt(s, t) = Min({s.from + near, s.to - 1})  BY DEF SourceAt
<1> HIDE DEF near, t
<1>15. s.from + near \in Int /\ s.from + near >= f /\ s.to - 1 \in Int /\ f <= s.to - 1
  BY <1>2, <1>3, <1>12
<1>16. SourceAt(s, t) = IF s.from + near <= s.to - 1 THEN s.from + near ELSE s.to - 1
  BY <1>14, <1>15, LesserOf
<1>17. ASSUME NEW g \in FramesOf[s.source], g <= SourceAt(s, t), g > f PROVE FALSE
  <2>1. near < g - s.from  BY <1>13, <1>17
  <2> QED  BY <2>1, <1>2, <1>3, <1>12, <1>15, <1>16, <1>17
<1>18. SourceAt(s, t) \in Int /\ f <= SourceAt(s, t) /\ SourceAt(s, t) < s.to
  BY <1>2, <1>15, <1>16
<1>19. \A g \in FramesOf[s.source] : g <= SourceAt(s, t) => g <= f  BY <1>3, <1>17
<1> QED  BY <1>10, <1>11, <1>18, <1>19 DEF t

LEMMA PictureInPlan ==
    ASSUME NEW p, IsMade(p), NEW i \in DOMAIN p, Moves(p[i]),
           NEW f \in FramesOf[p[i].source] \cup {p[i].from}, p[i].from <= f, f < p[i].to
    PROVE  LET t == ProgramAt(p[i], f)
           IN /\ t \in Int /\ p[i].start <= t /\ t < TimelineEnd(p[i]) /\ IndexAt(p, t) = i
              /\ SourceAt(p[i], t) \in Int /\ f <= SourceAt(p[i], t) /\ SourceAt(p[i], t) < p[i].to
              /\ \A g \in FramesOf[p[i].source] : g <= SourceAt(p[i], t) => g <= f
<1> DEFINE s == p[i]
           t == ProgramAt(s, f)
<1>1. PICK c : IsPlaced(c) /\ PicturesLast(c) /\ MadeOf(s, c)  BY DEF IsMade
<1>2. Moves(s) /\ f \in FramesOf[s.source] \cup {s.from} /\ s.from <= f /\ f < s.to  OBVIOUS
<1>3. /\ t \in Int /\ s.start <= t /\ t < TimelineEnd(s)
      /\ SourceAt(s, t) \in Int /\ f <= SourceAt(s, t) /\ SourceAt(s, t) < s.to
      /\ \A g \in FramesOf[s.source] : g <= SourceAt(s, t) => g <= f
  <2> HIDE DEF s
  <2> QED  BY <1>1, <1>2, PictureShows
<1>4. IndexAt(p, t) = i
  <2> HIDE DEF t
  <2> QED  BY <1>3, IndexIs DEF s
<1> QED  BY <1>3, <1>4

(* What `check` does not look at holds of every plan made of clips: its     *)
(* segments begin one after the other, and where a picture begins, it is    *)
(* what shows, whatever the rates round to (plan.rs: segment_of,            *)
(* program_at, source_at).                                                  *)
THEOREM PlansAreInTime == \A p \in PlansMade : InTime(p)
<1> SUFFICES ASSUME NEW p \in PlansMade PROVE InTime(p)
  OBVIOUS
<1>1. IsMade(p)  BY PlansAreMade
<1>2. \A i \in DOMAIN p : Lies(p[i])  BY <1>1, MadeIsPlan
<1>3. ASSUME NEW i \in DOMAIN p, NEW j \in DOMAIN p, i < j PROVE p[i].start < p[j].start
  <2>1. p[i].until <= p[j].start  BY <1>1, <1>3, MadeIsPlan
  <2>2. Lies(p[i]) /\ Lies(p[j])  BY <1>2
  <2> QED  BY <2>1, <2>2 DEF Lies
<1>4. ASSUME NEW i \in DOMAIN p, Moves(p[i]),
             NEW f \in (FramesOf[p[i].source] \cup {p[i].from}) \cap p[i].from..(p[i].to - 1)
      PROVE  /\ IndexAt(p, ProgramAt(p[i], f)) = i
             /\ AtOrBefore(p[i].source, SourceAt(p[i], ProgramAt(p[i], f))) = AtOrBefore(p[i].source, f)
  <2> DEFINE s == p[i]
             tick == SourceAt(s, ProgramAt(s, f))
  <2>1. s.from \in Int /\ s.to \in Int /\ s.source \in DOMAIN FramesOf  BY <1>2, SegmentFields DEF Lies
  <2>2. f \in Int /\ s.from <= f /\ f < s.to /\ f \in FramesOf[s.source] \cup {s.from}  BY <2>1
  <2>3. /\ IndexAt(p, ProgramAt(s, f)) = i /\ tick \in Int /\ f <= tick
        /\ \A g \in FramesOf[s.source] : g <= tick => g <= f
    BY <1>1, <1>4, <2>2, PictureInPlan
  <2>4. AtOrBefore(s.source, f) = AtOrBefore(s.source, tick)
    <3> HIDE DEF s, tick
    <3> QED  BY <2>1, <2>2, <2>3, SamePicture
  <2> QED  BY <2>3, <2>4
<1> QED  BY <1>3, <1>4 DEF InTime

\* Where a step stands in a plan: at a frame of a segment that shows one for
\* each, or at a picture, the one of the in-point or a later one, within the cut.
IsStand(p, at) ==
    /\ at[1] \in DOMAIN p
    /\ LET s == p[at[1]]
       IN IF Moves(s)
          THEN /\ at = <<at[1], at[2]>> /\ at[2] \in FramesOf[s.source] /\ at[2] < s.to
               /\ \A g \in FramesOf[s.source] : g <= s.from => g <= at[2]
          ELSE \E k \in s.first..LastFrameOf(s) : at = <<at[1], PlaceOf(s, k)>>

LEMMA StandThere ==
    ASSUME NEW p, IsMade(p), NEW t \in Int, PlaceAt(p, t) # NoPlace
    PROVE  IsStand(p, PlaceAt(p, t))
<1> DEFINE i == IF IndexAt(p, t) # 0 THEN IndexAt(p, t) ELSE IndexAfter(p, t)
           s == p[i]
           from == Max({t, s.start})
           tick == SourceAt(s, from)
           f == AtOrBefore(s.source, tick)
<1>1. IsPlan(p)  BY MadeIsPlan
<1>2. i \in {0} \cup DOMAIN p  BY <1>1, IndexThere
<1>3. PlaceAt(p, t) = IF i = 0 THEN NoPlace
                      ELSE CASE ~Moves(s) -> <<i, ShownAt(s, from, 0)>>
                             [] Moves(s) /\ f # Nowhere -> <<i, f>>
                             [] OTHER -> NoPlace
  BY DEF PlaceAt
<1> HIDE DEF i
<1>4. i \in DOMAIN p  BY <1>2, <1>3
<1>5. i # 0  BY <1>3
<1>6. Lies(s)  BY <1>4, MadeIsPlan
<1>7. PICK c : IsPlaced(c) /\ MadeOf(s, c)  BY <1>4 DEF IsMade
<1>8. from \in Int /\ from >= s.start  BY <1>6, GreaterOf DEF Lies
<1> HIDE DEF s, from
<1>9. CASE ~Moves(s)
  <2> DEFINE k == SequenceFrameAt(s, from)
  <2>1. k \in s.first..LastFrameOf(s)  BY <1>6, <1>8, FrameBetween DEF Lies
  <2>2. PlaceAt(p, t) = <<i, PlaceOf(s, k)>>  BY <1>3, <1>5, <1>9 DEF ShownAt
  <2> HIDE DEF k
  <2> QED  BY <1>4, <1>9, <2>1, <2>2 DEF IsStand, s
<1>10. CASE Moves(s)
  <2>1. PlaceAt(p, t) = <<i, f>> /\ f # Nowhere  BY <1>3, <1>5, <1>10
  <2>2. tick \in Int /\ s.from \in Int /\ s.to \in Int /\ s.source \in DOMAIN FramesOf /\ s.from < s.to
    BY <1>6, <1>7, <1>8, TickThere, SegmentFields DEF Lies, MadeOf
  <2>3. s.from <= tick /\ tick < s.to
    <3> DEFINE a == s.tick[1]
               v == (from - s.start) * s.tick[2]
               near == Nearest(v, a)
    <3>1. a \in Nat \ {0} /\ v \in Nat
      <4>1. s.tick[1] \in Nat \ {0} /\ s.tick[2] \in Nat \ {0} /\ from - s.start \in Nat
        BY <1>6, <1>8, SegmentFields DEF Lies
      <4> QED  BY <4>1
    <3>2. tick = Min({s.from + near, s.to - 1})  BY <1>10 DEF SourceAt
    <3> HIDE DEF a, v
    <3>3. near \in Int /\ (near >= 0 <=> 2 * v >= a * (2 * 0 - 1))
      <4>1. v \in Int /\ 0 \in Int /\ v >= 0  BY <3>1
      <4> QED  BY ONLY <3>1, <4>1, NearestReaches
    <3>4. near \in Nat  BY <3>1, <3>3
    <3> HIDE DEF near
    <3>5. s.from + near \in Int /\ s.to - 1 \in Int /\ s.from + near >= s.from /\ s.to - 1 >= s.from
      BY <2>2, <3>4
    <3>6. tick = IF s.from + near <= s.to - 1 THEN s.from + near ELSE s.to - 1  BY <3>2, <3>5, LesserOf
    <3> QED  BY <2>2, <3>5, <3>6
  <2> HIDE DEF tick
  <2>4. f \in FramesOf[s.source] /\ f <= tick /\ \A g \in FramesOf[s.source] : g <= tick => g <= f
    BY <2>1, <2>2, PictureIs
  <2>5. FramesOf[s.source] \subseteq Int  BY <2>2, PlaybackAssumption
  <2> HIDE DEF f
  <2>6. f < s.to /\ \A g \in FramesOf[s.source] : g <= s.from => g <= f
    BY <2>2, <2>3, <2>4, <2>5
  <2> QED  BY <1>4, <1>10, <2>1, <2>4, <2>6 DEF IsStand, s
<1> QED  BY <1>9, <1>10

\* The frame of a held or reversed clip that a frame's place, or the clip's
\* start, shows; and the place lies within the clip.
LEMMA FrameShown ==
    ASSUME NEW s, Lies(s)
    PROVE  /\ \A k \in s.first..LastFrameOf(s) :
                  /\ PlaceOf(s, k) = FramePlace(k) /\ SequenceFrameAt(s, PlaceOf(s, k)) = k
                  /\ PlaceOf(s, k) \in Int /\ s.start <= PlaceOf(s, k) /\ PlaceOf(s, k) < s.until
           /\ SequenceFrameAt(s, s.start) = s.first
           /\ s.first \in Int /\ LastFrameOf(s) \in Int /\ s.first <= LastFrameOf(s)
           /\ LastFrameOf(s) + 1 = s.first + s.frames
<1>1. /\ s.first \in Int /\ LastFrameOf(s) \in Int /\ s.first <= LastFrameOf(s)
      /\ LastFrameOf(s) + 1 = s.first + s.frames /\ IsSegment(s) /\ s.frames >= 1
  BY SegmentFields DEF Lies, LastFrameOf
<1>2. ASSUME NEW k \in s.first..LastFrameOf(s)
      PROVE  /\ PlaceOf(s, k) = FramePlace(k) /\ SequenceFrameAt(s, PlaceOf(s, k)) = k
             /\ PlaceOf(s, k) \in Int /\ s.start <= PlaceOf(s, k) /\ PlaceOf(s, k) < s.until
  <2> DEFINE at == FramePlace(k)
             end == s.first + s.frames
             b == FrameLasts[2]
  <2>1. k \in Int /\ end \in Int /\ k < end /\ s.first <= k  BY <1>1
  <2>2. /\ at \in Int /\ k * FrameLasts[1] <= b * at /\ b * at < k * FrameLasts[1] + b
    BY <2>1, FrameStarts
  <2>3. s.until = FrameStart(end) /\ at < FrameStart(end)
    <3>1. s.until = FrameStart(end)  BY DEF Lies
    <3> HIDE DEF end
    <3> QED  BY <3>1, <2>1, FramesFollow
  <2>4. s.start \in Int /\ s.start <= at
    <3>1. s.start = FrameStart(s.first) /\ s.start \in Int  BY DEF Lies
    <3>2. FrameStart(k) \in Int /\ FrameStart(k) <= at  BY <2>1, FrameStarts, FramePlaced
    <3>3. s.first < k => FrameStart(s.first) < FrameStart(k)  BY <1>1, <2>1, FramesFollow
    <3> HIDE DEF at
    <3> QED  BY <3>1, <3>2, <3>3, <1>1, <2>1, <2>2
  <2>5. PlaceOf(s, k) = at  BY <2>2, <2>4, GreaterOf DEF PlaceOf
  <2>6. k * FrameLasts[1] < b * at + b
    <3>1. b \in Nat \ {0} /\ FrameLasts[1] \in Nat  BY FrameLength
    <3> DEFINE m == k * FrameLasts[1]
               n == b * at
    <3>2. m \in Int /\ n \in Int /\ m <= n  BY <2>1, <2>2, <3>1
    <3> HIDE DEF m, n
    <3> QED  BY <3>1, <3>2 DEF m, n
  <2> HIDE DEF at
  <2>7. SequenceFrameAt(s, at) = k  BY <1>1, <2>2, <2>6, FrameIsThere
  <2> QED  BY <2>2, <2>3, <2>4, <2>5, <2>7 DEF at
<1>3. SequenceFrameAt(s, s.start) = s.first
  <2> DEFINE t == s.start
             k == s.first
             m == k * FrameLasts[1]
             b == FrameLasts[2]
             n == b * t
  <2>1. t = FrameStart(k) /\ t \in Int  BY DEF Lies
  <2>2. n <= m /\ m < n + b  BY <1>1, <2>1, FrameStarts
  <2>3. b \in Nat \ {0} /\ m \in Int /\ n \in Int  BY <1>1, <2>1, FrameLength
  <2>4. n < m + b
    <3> HIDE DEF m, n, b
    <3> QED  BY <2>2, <2>3
  <2>5. k \in s.first..LastFrameOf(s)  BY <1>1
  <2> HIDE DEF t, k
  <2>6. SequenceFrameAt(s, t) = k  BY <1>1, <2>1, <2>2, <2>4, <2>5, FrameIsThere
  <2> QED  BY <2>6 DEF t, k
<1> QED  BY <1>1, <1>2, <1>3

\* Where a step goes, it is; within its segment.
LEMMA StandIsInside ==
    ASSUME NEW p, IsMade(p), NEW at, IsStand(p, at)
    PROVE  LET t == TargetOf(p, at)
           IN /\ t \in Int /\ p[at[1]].start <= t /\ t < TimelineEnd(p[at[1]])
              /\ PlaceAt(p, t) = at
<1> DEFINE i == at[1]
           s == p[i]
           t == TargetOf(p, at)
<1>1. i \in DOMAIN p /\ i # 0 /\ Lies(s) /\ IsSegment(s)
  <2>1. i \in DOMAIN p /\ IsPlan(p)  BY MadeIsPlan DEF IsStand
  <2>2. Lies(s)  BY <2>1, MadeIsPlan
  <2>3. i # 0  BY <2>1, PlanShape
  <2> HIDE DEF i
  <2> QED  BY <2>1, <2>2, <2>3 DEF Lies
<1>2. CASE ~Moves(s)
  <2>1. PICK k \in s.first..LastFrameOf(s) : at = <<i, PlaceOf(s, k)>>  BY <1>2 DEF IsStand
  <2>2. t = PlaceOf(s, k)  BY <1>2, <2>1 DEF TargetOf
  <2>3. /\ t \in Int /\ s.start <= t /\ t < s.until /\ SequenceFrameAt(s, t) = k
        /\ TimelineEnd(s) = s.until /\ s.start \in Int
    <3> HIDE DEF s
    <3> QED  BY <1>1, <1>2, <2>1, <2>2, FrameShown DEF Lies
  <2> HIDE DEF t
  <2>4. IndexAt(p, t) = i  BY <1>1, <2>3, IndexIs
  <2>5. Max({t, s.start}) = t  BY <2>3, GreaterOf
  <2>6. PlaceAt(p, t) = <<i, ShownAt(s, t, 0)>>  BY <1>1, <1>2, <2>4, <2>5 DEF PlaceAt
  <2>7. ShownAt(s, t, 0) = PlaceOf(s, k)  BY <1>2, <2>3 DEF ShownAt
  <2> QED  BY <2>1, <2>3, <2>6, <2>7 DEF t
<1>3. CASE Moves(s)
  <2> DEFINE f == at[2]
             into == Max({f, s.from})
             tick == SourceAt(s, t)
  <2>1. /\ at = <<i, f>> /\ f \in FramesOf[s.source] /\ f < s.to
        /\ \A g \in FramesOf[s.source] : g <= s.from => g <= f
    BY <1>3 DEF IsStand
  <2>2. s.from \in Int /\ s.to \in Int /\ s.source \in DOMAIN FramesOf /\ s.start \in Int
    BY <1>1, SegmentFields
  <2>3. FramesOf[s.source] \subseteq Nat  BY <2>2, PlaybackAssumption
  <2>4. f \in Int  BY <2>1, <2>3
  <2>5. s.from < s.to  BY <1>1 DEF IsMade, MadeOf
  <2>6. into = IF f >= s.from THEN f ELSE s.from  BY <2>2, <2>4, GreaterOf
  <2>7. t = ProgramAt(s, into)
    <3> DEFINE x == Max({f - s.from, 0})
               y == Max({into - s.from, 0})
    <3>1. x = IF f - s.from >= 0 THEN f - s.from ELSE 0  BY <2>2, <2>4, GreaterOf
    <3>2. into \in Int  BY <2>2, <2>4, <2>6
    <3> HIDE DEF into
    <3>3. y = IF into - s.from >= 0 THEN into - s.from ELSE 0  BY <2>2, <3>2, GreaterOf
    <3> HIDE DEF x, y
    <3>4. x = y  BY <2>2, <2>4, <2>6, <3>1, <3>3
    <3>5. s.motion = "forward"  BY <1>3 DEF Moves
    <3>6. ProgramAt(s, f) = ProgramAt(s, into)  BY <3>4, <3>5 DEF ProgramAt, x, y
    <3> QED  BY <1>3, <3>6 DEF TargetOf
  <2>8. into \in FramesOf[s.source] \cup {s.from} /\ s.from <= into /\ into < s.to
    BY <2>1, <2>2, <2>4, <2>5, <2>6
  <2> HIDE DEF into, f
  <2>9. /\ t \in Int /\ s.start <= t /\ t < TimelineEnd(s) /\ IndexAt(p, t) = i
        /\ tick \in Int /\ into <= tick /\ tick < s.to
        /\ \A g \in FramesOf[s.source] : g <= tick => g <= into
    <3> HIDE DEF t
    <3> QED  BY <1>1, <1>3, <2>7, <2>8, PictureInPlan
  <2> HIDE DEF t
  <2>10. AtOrBefore(s.source, tick) = f
    <3>1. f <= into /\ into \in Int  BY <2>2, <2>4, <2>6
    <3>2. f <= tick  BY <2>4, <2>9, <3>1
    <3>3. ASSUME NEW g \in FramesOf[s.source], g <= tick PROVE g <= f
      <4>1. g <= into /\ g \in Int  BY <2>3, <2>9, <3>3
      <4> QED  BY <4>1, <2>1, <2>2, <2>4, <2>6
    <3> HIDE DEF tick
    <3> QED  BY <2>1, <2>2, <2>9, <3>2, <3>3, PictureIsIt
  <2>11. Max({t, s.start}) = t  BY <2>2, <2>9, GreaterOf
  <2>12. f # Nowhere  BY <2>1, <2>3 DEF Nowhere
  <2>13. PlaceAt(p, t) = <<i, f>>  BY <1>1, <1>3, <2>9, <2>10, <2>11, <2>12 DEF PlaceAt
  <2> QED  BY <2>1, <2>9, <2>13 DEF t
<1> QED  BY <1>2, <1>3

\* The next place is later, and a step back from it ends here.
Returns(p, at, next) == TargetOf(p, next) > TargetOf(p, at) /\ PlaceBefore(p, next) = at

\* ... from one frame of a held or reversed clip to the next,
LEMMA FramesReturn ==
    ASSUME NEW p, IsMade(p), NEW i \in DOMAIN p, ~Moves(p[i]),
           NEW k \in p[i].first..LastFrameOf(p[i]), k < LastFrameOf(p[i])
    PROVE  Returns(p, <<i, PlaceOf(p[i], k)>>, <<i, PlaceOf(p[i], k + 1)>>)
<1> DEFINE s == p[i]
           at == PlaceOf(s, k)
           next == PlaceOf(s, k + 1)
<1>1. Lies(s)  BY MadeIsPlan
<1>2. k \in Int /\ k + 1 \in s.first..LastFrameOf(s) /\ s.first \in Int /\ k >= s.first
  BY <1>1, FrameShown
<1>3. /\ at = FramePlace(k) /\ at \in Int
      /\ next = FramePlace(k + 1) /\ next \in Int /\ SequenceFrameAt(s, next) = k + 1
  <2> HIDE DEF s
  <2> QED  BY <1>1, <1>2, FrameShown DEF s
<1>4. FramePlace(k) < FramePlace(k + 1)
  <2>1. k < k + 1 /\ k + 1 \in Int  BY <1>2
  <2> QED  BY <1>2, <2>1, FramesFollow
<1>5. TargetOf(p, <<i, next>>) > TargetOf(p, <<i, at>>)  BY <1>3, <1>4 DEF TargetOf
<1> HIDE DEF next
<1>6. PlaceBefore(p, <<i, next>>) = <<i, PlaceOf(s, (k + 1) - 1)>>
  <2>1. SequenceFrameAt(s, next) > s.first  BY <1>2, <1>3
  <2> QED  BY <1>3, <2>1 DEF PlaceBefore
<1>7. (k + 1) - 1 = k  BY <1>2
<1> QED  BY <1>5, <1>6, <1>7 DEF Returns, next

\* ... from one picture of a cut to the next,
LEMMA PicturesReturn ==
    ASSUME NEW p, IsMade(p), NEW i \in DOMAIN p, Moves(p[i]),
           NEW f, IsStand(p, <<i, f>>), NEW g, g = After(p[i].source, f), g # Nowhere, g < p[i].to
    PROVE  Returns(p, <<i, f>>, <<i, g>>)
<1> DEFINE s == p[i]
<1>1. PICK c : IsPlaced(c) /\ PicturesLast(c) /\ MadeOf(s, c)  BY DEF IsMade
<1>2. /\ s.from \in Int /\ s.to \in Int /\ s.start \in Int /\ IsSegment(s)
      /\ s.source \in DOMAIN FramesOf /\ s.source = c.source /\ s.to = c.to /\ s = SegmentOf(c)
      /\ s.tick[1] \in Nat \ {0} /\ s.tick[2] \in Nat \ {0}
  BY <1>1, SegmentFields DEF MadeOf
<1>3. FramesOf[s.source] \subseteq Nat  BY <1>2, PlaybackAssumption
<1>4. /\ f \in FramesOf[s.source] /\ f < s.to /\ f \in Int
      /\ \A h \in FramesOf[s.source] : h <= s.from => h <= f
  <2>1. f \in FramesOf[s.source] /\ f < s.to /\ \A h \in FramesOf[s.source] : h <= s.from => h <= f
    BY DEF IsStand
  <2> QED  BY <2>1, <1>3
<1>5. g \in FramesOf[s.source] /\ g > f /\ g \in Int /\ \A h \in FramesOf[s.source] : h > f => h >= g
  <2>1. g \in FramesOf[s.source] /\ g > f /\ \A h \in FramesOf[s.source] : h > f => h >= g
    BY <1>2, <1>4, PictureAfterTick
  <2> QED  BY <2>1, <1>3
<1>6. g > s.from  BY <1>2, <1>4, <1>5
<1>7. (g - f) * s.tick[1] >= 2 * s.tick[2]  BY <1>1, <1>2, <1>4, <1>5 DEF PicturesLast
<1>8. g # Nowhere /\ f # Nowhere /\ Moves(s) /\ g < s.to /\ g = After(s.source, f)
  BY <1>3, <1>4 DEF Nowhere
<1>9. TargetOf(p, <<i, g>>) > TargetOf(p, <<i, f>>)
  <2> DEFINE a == s.tick[1]
             b == s.tick[2]
             x == Max({f - s.from, 0})
             y == Max({g - s.from, 0})
             u == Up(x * a, b)
             v == Up(y * a, b)
  <2>1. /\ x = (IF f - s.from >= 0 THEN f - s.from ELSE 0)
        /\ y = g - s.from /\ y \in Nat \ {0} /\ x \in Nat /\ x < y
        /\ x = 0 \/ y - x = g - f
    <3>1. f - s.from \in Int /\ g - s.from \in Int  BY <1>2, <1>4, <1>5
    <3>2. x = (IF f - s.from >= 0 THEN f - s.from ELSE 0) /\ y = (IF g - s.from >= 0 THEN g - s.from ELSE 0)
      BY <3>1, GreaterOf
    <3> HIDE DEF x, y
    <3> QED  BY <3>1, <3>2, <1>2, <1>4, <1>5, <1>6
  <2>2. TargetOf(p, <<i, f>>) = s.start + u /\ TargetOf(p, <<i, g>>) = s.start + v
    BY <1>8 DEF TargetOf, ProgramAt, Moves
  <2>3. a \in Nat \ {0} /\ b \in Nat \ {0} /\ (x = 0 \/ (y - x) * a >= 2 * b)
    <3>1. x = 0 \/ (y - x) * a >= 2 * b  BY <2>1, <1>7
    <3> QED  BY <3>1, <1>2
  <2> HIDE DEF s, x, y, a, b
  <2> DEFINE m == x * a
             n == y * a
  <2>4. m \in Nat /\ n \in Nat \ {0} /\ (x = 0 => m = 0)
    <3>1. m \in Nat /\ (x = 0 => m = 0)  BY <2>1, <2>3
    <3>2. n \in Nat \ {0}  BY <2>1, <2>3, Product
    <3> QED  BY <3>1, <3>2
  <2>5. x = 0 \/ n - m >= 2 * b
    <3>1. (y - x) * a = n - m  BY <2>1, <2>3
    <3> QED  BY <3>1, <2>3
  <2> HIDE DEF m, n
  <2>6. /\ Up(m, b) \in Nat /\ m <= b * Up(m, b) /\ b * Up(m, b) < m + b
        /\ Up(n, b) \in Nat /\ n <= b * Up(n, b) /\ b * Up(n, b) < n + b
    BY <2>3, <2>4, RoundedUp
  <2>7. Up(m, b) < Up(n, b)
    <3> DEFINE w == Up(m, b)
               z == Up(n, b)
    <3>1. w \in Nat /\ z \in Nat /\ m <= b * w /\ b * w < m + b /\ n <= b * z  BY <2>6
    <3> SUFFICES w < z  OBVIOUS
    <3> HIDE DEF w, z
    <3>2. b * w \in Nat /\ b * z \in Nat  BY <2>3, <3>1
    <3>3. CASE x = 0
      <4>1. b * w < b * 1 /\ b * 0 < b * z  BY <2>3, <2>4, <3>1, <3>2, <3>3
      <4>2. w < 1 /\ 0 < z
        <5>1. w < 1  BY <2>3, <3>1, <4>1, Ordered
        <5>2. 0 < z  BY <2>3, <3>1, <4>1, Ordered
        <5> QED  BY <5>1, <5>2
      <4> QED  BY <3>1, <4>2
    <3>4. CASE x # 0
      <4>1. b * w < b * z  BY <2>3, <2>4, <2>5, <3>1, <3>2, <3>4
      <4> QED  BY <2>3, <3>1, <4>1, Ordered
    <3> QED  BY <3>3, <3>4
  <2> QED  BY <1>2, <2>2, <2>6, <2>7 DEF m, n, s
<1>10. PlaceBefore(p, <<i, g>>) = <<i, f>>
  <2> DEFINE first == FirstPicture(s)
  <2>1. Before(s.source, g) = f
    <3>1. g - 1 \in Int /\ f <= g - 1  BY <1>4, <1>5
    <3>2. \A h \in FramesOf[s.source] : h <= g - 1 => h <= f  BY <1>3, <1>4, <1>5
    <3> QED  BY <1>2, <1>4, <3>1, <3>2, PictureIsIt DEF Before
  <2>2. first \in Nat /\ first <= f
    <3> DEFINE in == AtOrBefore(s.source, s.from)
    <3>1. first = IF in # Nowhere THEN in ELSE After(s.source, s.from)  BY <1>8 DEF FirstPicture
    <3>2. \/ in = Nowhere /\ \A h \in FramesOf[s.source] : h > s.from
          \/ in \in FramesOf[s.source] /\ in <= s.from
      BY <1>2, PictureIs
    <3>3. CASE in # Nowhere  BY <3>1, <3>2, <3>3, <1>3, <1>4
    <3>4. CASE in = Nowhere
      <4> DEFINE after == After(s.source, s.from)
      <4>1. f > s.from
        <5>1. ~(in \in FramesOf[s.source])  BY <3>4, <1>3 DEF Nowhere
        <5> QED  BY <5>1, <3>2, <1>4
      <4>2. \/ after = Nowhere /\ \A h \in FramesOf[s.source] : h <= s.from
            \/ after \in FramesOf[s.source] /\ \A h \in FramesOf[s.source] : h > s.from => h >= after
        BY <1>2, PictureAfterTick
      <4>3. after \in FramesOf[s.source] /\ after <= f
        <5> HIDE DEF after
        <5>1. ~(f <= s.from)  BY <4>1, <1>2, <1>4
        <5>2. after \in FramesOf[s.source] /\ f >= after  BY <4>1, <4>2, <5>1, <1>4
        <5> QED  BY <5>2, <1>3, <1>4
      <4> QED  BY <3>1, <3>4, <4>3, <1>3
    <3> QED  BY <3>3, <3>4
  <2>5. Shows(s)
    <3>1. FramesOf[s.source] # {}  BY <1>4
    <3> HIDE DEF s
    <3> QED  BY <2>2, <3>1 DEF Shows, HasPictures, Nowhere
  <2> HIDE DEF first
  <2>3. g > first /\ Max({f, first}) = f  BY <2>2, <1>4, <1>5, GreaterOf
  <2>4. PlaceBefore(p, <<i, g>>) = <<i, Max({f, first})>>
    <3> DEFINE frame == SequenceFrameAt(s, g)
               previous == Before(s.source, g)
               earlier == {j \in DOMAIN p : j < i /\ HasLast(p[j])}
    <3>1. PlaceBefore(p, <<i, g>>) =
            CASE ~Moves(s) /\ frame > s.first -> <<i, PlaceOf(s, frame - 1)>>
              [] Moves(s) /\ g > FirstPicture(s) /\ previous # Nowhere -> <<i, Max({previous, FirstPicture(s)})>>
              [] Moves(s) /\ ~Shows(s) -> NoPlace
              [] OTHER -> IF earlier = {} THEN NoPlace ELSE <<Max(earlier), LastPicture(p[Max(earlier)])>>
      BY DEF PlaceBefore
    <3>2. previous = f /\ f # Nowhere /\ Moves(s)  BY <1>8, <2>1
    <3>3. g > FirstPicture(s)  BY <2>3 DEF first
    <3> DEFINE nearest == Max({previous, FirstPicture(s)})
    <3>4. nearest = Max({f, first})  BY <3>2 DEF first
    <3> HIDE DEF s, frame, previous, earlier, nearest
    <3>5. PlaceBefore(p, <<i, g>>) = <<i, nearest>>  BY <2>5, <3>1, <3>2, <3>3 DEF nearest
    <3> QED  BY <3>4, <3>5
  <2> QED  BY <2>3, <2>4
<1> QED  BY <1>9, <1>10 DEF Returns

\* ... and from the last of a clip to the first of the next that shows one.
LEMMA FirstIsIn ==
    ASSUME NEW s, Lies(s), Shows(s)
    PROVE  LET first == FirstPicture(s)
               t == IF Moves(s) THEN ProgramAt(s, first) ELSE first
           IN /\ first \in Int /\ t \in Int /\ t >= s.start
              /\ ~Moves(s) => SequenceFrameAt(s, first) = s.first
<1> DEFINE first == FirstPicture(s)
<1>1. IsSegment(s) /\ first \in Int /\ s.start \in Int  BY EdgePictures DEF Lies
<1>2. CASE ~Moves(s)
  <2>1. s.first \in s.first..LastFrameOf(s) /\ SequenceFrameAt(s, s.start) = s.first  BY FrameShown
  <2>2. first = PlaceOf(s, s.first)  BY <1>2, <2>1 DEF FirstPicture, ShownAt
  <2>3. SequenceFrameAt(s, first) = s.first /\ first >= s.start  BY <1>1, <2>1, <2>2, FrameShown
  <2> QED  BY <1>1, <1>2, <2>3
<1>3. CASE Moves(s)
  <2> DEFINE x == Max({first - s.from, 0})
             a == s.tick[1]
             b == s.tick[2]
             u == Up(x * a, b)
  <2>1. s.from \in Int /\ a \in Nat \ {0} /\ b \in Nat \ {0}  BY <1>1, SegmentFields
  <2>2. x \in Nat
    <3>1. first - s.from \in Int  BY <1>1, <2>1
    <3> QED  BY <3>1, GreaterOf
  <2>3. ProgramAt(s, first) = s.start + u  BY <1>3 DEF ProgramAt, Moves
  <2> HIDE DEF x, a, b
  <2>4. x * a \in Nat  BY <2>1, <2>2
  <2>5. u \in Nat  BY <2>1, <2>4, RoundedUp
  <2> HIDE DEF u, first
  <2> QED  BY <1>1, <1>3, <2>3, <2>5 DEF first
<1> QED  BY <1>2, <1>3

\* A step that cannot go on in its segment stands at its last picture.
LEMMA StandsLast ==
    ASSUME NEW p, IsMade(p), NEW i \in DOMAIN p, NEW x, IsStand(p, <<i, x>>),
           ~Moves(p[i]) => ~(SequenceFrameAt(p[i], x) < LastFrameOf(p[i])),
           Moves(p[i]) => ~(After(p[i].source, x) # Nowhere /\ After(p[i].source, x) < p[i].to)
    PROVE  HasLast(p[i]) /\ LastPicture(p[i]) = x
<1> DEFINE s == p[i]
<1>1. Lies(s) /\ IsSegment(s)  BY MadeIsPlan DEF Lies
<1>2. CASE ~Moves(s)
  <2>1. PICK k \in s.first..LastFrameOf(s) : x = PlaceOf(s, k)  BY <1>2 DEF IsStand
  <2>2. k = LastFrameOf(s)
    <3>1. SequenceFrameAt(s, x) = k /\ LastFrameOf(s) \in Int /\ s.first \in Int  BY <1>1, <2>1, FrameShown
    <3>2. ~(k < LastFrameOf(s))  BY <1>2, <3>1
    <3> HIDE DEF s
    <3> QED  BY <3>1, <3>2, <2>1
  <2> QED  BY <1>2, <2>1, <2>2 DEF HasLast, LastPicture
<1>3. CASE Moves(s)
  <2> DEFINE next == After(s.source, x)
  <2>1. x \in FramesOf[s.source] /\ x < s.to  BY <1>3 DEF IsStand
  <2>2. s.to \in Int /\ s.source \in DOMAIN FramesOf  BY <1>1, SegmentFields
  <2>3. FramesOf[s.source] \subseteq Nat  BY <2>2, PlaybackAssumption
  <2>4. \/ next = Nowhere /\ \A g \in FramesOf[s.source] : g <= x
        \/ next \in FramesOf[s.source] /\ next > x /\ \A g \in FramesOf[s.source] : g > x => g >= next
    BY <2>1, <2>2, <2>3, PictureAfterTick
  <2>5. ~(next # Nowhere /\ next < s.to)  BY <1>3
  <2> HIDE DEF s, next
  <2>6. x \in Int /\ s.to - 1 \in Int /\ x <= s.to - 1  BY <2>1, <2>2, <2>3
  <2>7. ASSUME NEW g \in FramesOf[s.source], g <= s.to - 1 PROVE g <= x
    <3>1. g \in Int /\ g < s.to  BY <2>2, <2>3, <2>7
    <3>2. next \in FramesOf[s.source] => next \in Int /\ next # Nowhere  BY <2>3 DEF Nowhere
    <3> QED  BY <3>1, <3>2, <2>2, <2>4, <2>5, <2>6
  <2>8. AtOrBefore(s.source, s.to - 1) = x  BY <2>1, <2>2, <2>6, <2>7, PictureIsIt
  <2>9. x # Nowhere /\ FramesOf[s.source] # {}  BY <2>1, <2>3 DEF Nowhere
  <2>10. LastPicture(s) = x  BY <1>3, <2>8 DEF LastPicture, Before
  <2> QED  BY <2>9, <2>10 DEF HasLast, HasPictures, s
<1> QED  BY <1>2, <1>3

\* A segment with a last picture has a first.
LEMMA LastIsShown ==
    ASSUME NEW s, IsSegment(s), HasLast(s)
    PROVE  Shows(s)
<1>1. CASE ~Moves(s)  BY <1>1 DEF Shows
<1>2. CASE Moves(s)
  <2> DEFINE in == AtOrBefore(s.source, s.from)
             after == After(s.source, s.from)
  <2>1. HasPictures(s) /\ FramesOf[s.source] # {}  BY <1>2 DEF HasLast, HasPictures
  <2>2. s.from \in Int /\ s.source \in DOMAIN FramesOf  BY SegmentFields
  <2>3. FramesOf[s.source] \subseteq Nat  BY <2>2, PlaybackAssumption
  <2>4. \/ in = Nowhere /\ \A g \in FramesOf[s.source] : g > s.from
        \/ in \in FramesOf[s.source]
    BY <2>2, PictureIs
  <2>5. \/ after = Nowhere /\ \A g \in FramesOf[s.source] : g <= s.from
        \/ after \in FramesOf[s.source]
    BY <2>2, PictureAfterTick
  <2>6. FirstPicture(s) = IF in # Nowhere THEN in ELSE after  BY <1>2 DEF FirstPicture
  <2> HIDE DEF in, after
  <2>7. in = Nowhere => after # Nowhere
    <3>1. PICK g \in FramesOf[s.source] : TRUE  BY <2>1
    <3>2. g \in Int  BY <2>3
    <3>3. in \in FramesOf[s.source] \/ after \in FramesOf[s.source]
      BY <3>1, <3>2, <2>2, <2>4, <2>5
    <3> QED  BY <3>3, <2>3 DEF Nowhere
  <2> QED  BY <2>1, <2>6, <2>7 DEF Shows
<1> QED  BY <1>1, <1>2

LEMMA AcrossReturns ==
    ASSUME NEW p, IsMade(p), NEW i \in DOMAIN p, NEW x, IsStand(p, <<i, x>>),
           HasLast(p[i]), LastPicture(p[i]) = x,
           NEW j \in DOMAIN p, j > i, Shows(p[j]),
           \A m \in DOMAIN p : m > i /\ Shows(p[m]) => j <= m
    PROVE  Returns(p, <<i, x>>, <<j, FirstPicture(p[j])>>)
<1> DEFINE s == p[j]
           first == FirstPicture(s)
           at == <<i, x>>
           t == TargetOf(p, at)
           there == TargetOf(p, <<j, first>>)
           earlier == {m \in DOMAIN p : m < j /\ HasLast(p[m])}
<1>1. /\ IsPlan(p) /\ Lies(s) /\ Lies(p[i]) /\ p[i].until <= s.start
      /\ IsFiniteSet(DOMAIN p) /\ DOMAIN p \subseteq Nat
      /\ \A m \in DOMAIN p : IsSegment(p[m])
  <2>1. IsPlan(p) /\ Lies(s) /\ Lies(p[i]) /\ p[i].until <= s.start  BY MadeIsPlan
  <2> QED  BY <2>1, PlanShape
<1>2. first \in Int /\ there \in Int /\ there >= s.start
  <2> DEFINE v == IF Moves(s) THEN ProgramAt(s, first) ELSE first
  <2>1. first \in Int /\ v \in Int /\ v >= s.start  BY <1>1, FirstIsIn
  <2>2. there = v  BY DEF TargetOf
  <2> HIDE DEF v, there
  <2> QED  BY <2>1, <2>2
<1>3. t \in Int /\ t < TimelineEnd(p[i])
  <2>1. at[1] = i  OBVIOUS
  <2> HIDE DEF at
  <2> QED  BY <2>1, StandIsInside DEF at
<1>4. there > t
  <2>1. /\ TimelineEnd(p[i]) \in Int /\ p[i].until \in Int /\ TimelineEnd(p[i]) <= p[i].until /\ s.start \in Int
    BY <1>1 DEF Lies
  <2> HIDE DEF s, there, t
  <2> QED  BY <1>1, <1>2, <1>3, <2>1
<1>5. PlaceBefore(p, <<j, first>>) =
         IF earlier = {} THEN NoPlace ELSE <<Max(earlier), LastPicture(p[Max(earlier)])>>
  <2> DEFINE frame == SequenceFrameAt(s, first)
             previous == Before(s.source, first)
             nearest == Max({previous, FirstPicture(s)})
             back == IF earlier = {} THEN NoPlace ELSE <<Max(earlier), LastPicture(p[Max(earlier)])>>
  <2>1. PlaceBefore(p, <<j, first>>) =
            CASE ~Moves(s) /\ frame > s.first -> <<j, PlaceOf(s, frame - 1)>>
              [] Moves(s) /\ first > FirstPicture(s) /\ previous # Nowhere -> <<j, nearest>>
              [] Moves(s) /\ ~Shows(s) -> NoPlace
              [] OTHER -> back
    BY DEF PlaceBefore
  <2>2. ~Moves(s) => frame = s.first  BY <1>1, FirstIsIn
  <2>3. s.first \in Int  BY <1>1, FrameShown
  <2>4. ~(first > FirstPicture(s))  BY <1>2
  <2>5. Shows(s)  OBVIOUS
  <2> HIDE DEF s, frame, previous, nearest, back
  <2>6. ~(~Moves(s) /\ frame > s.first)  BY <2>2, <2>3
  <2>7. PlaceBefore(p, <<j, first>>) = back  BY <2>1, <2>4, <2>5, <2>6
  <2> QED  BY <2>7 DEF back
<1>6. Max(earlier) = i /\ earlier # {}
  <2>1. i \in earlier  OBVIOUS
  <2>2. \A m \in earlier : m <= i
    <3>1. ASSUME NEW m \in earlier, m > i PROVE FALSE
      <4>1. Shows(p[m]) /\ m \in DOMAIN p /\ m < j  BY <1>1, LastIsShown
      <4>2. j <= m  BY <3>1, <4>1
      <4> QED  BY <1>1, <4>1, <4>2
    <3> QED  BY <1>1, <3>1
  <2>3. earlier \subseteq Int /\ IsFiniteSet(earlier) /\ earlier # {}  BY <1>1, <2>1, FS_Subset
  <2> HIDE DEF earlier
  <2>4. Max(earlier) \in earlier /\ \A m \in earlier : Max(earlier) >= m  BY <2>3, MaxIsIn
  <2> QED  BY <2>1, <2>2, <2>3, <2>4
<1>7. PlaceBefore(p, <<j, first>>) = <<i, x>>  BY <1>5, <1>6
<1> HIDE DEF first, t, there
<1> QED  BY <1>4, <1>7 DEF Returns, first, t, there, at

\* The frame a step stands at is found where it starts, and a step forwards
\* from it and one back end at it.
LEMMA StandReturns ==
    ASSUME NEW p, IsMade(p), NEW at, IsStand(p, at), PlaceAfter(p, at) # NoPlace
    PROVE  Returns(p, at, PlaceAfter(p, at))
<1> DEFINE i == at[1]
           x == at[2]
           s == p[i]
           frame == SequenceFrameAt(s, x)
           next == After(s.source, x)
           later == {j \in DOMAIN p : j > i /\ Shows(p[j])}
           across == IF later = {} THEN NoPlace ELSE <<Min(later), FirstPicture(p[Min(later)])>>
<1>1. i \in DOMAIN p /\ IsPlan(p) /\ Lies(s) /\ DOMAIN p \subseteq Nat /\ IsFiniteSet(DOMAIN p)
  <2>1. i \in DOMAIN p /\ IsPlan(p)  BY MadeIsPlan DEF IsStand
  <2>2. Lies(s)  BY <2>1, MadeIsPlan
  <2> QED  BY <2>1, <2>2, PlanShape
<1>2. at = <<i, x>>  BY DEF IsStand
<1>3. PlaceAfter(p, at) =
        CASE ~Moves(s) /\ frame < LastFrameOf(s) -> <<i, PlaceOf(s, frame + 1)>>
          [] Moves(s) /\ next # Nowhere /\ next < s.to -> <<i, next>>
          [] Moves(s) /\ ~HasPictures(s) -> NoPlace
          [] OTHER -> across
  BY DEF PlaceAfter
<1>4. Moves(s) => HasPictures(s)  BY DEF IsStand, HasPictures
<1>5. ~Moves(s) => frame \in s.first..LastFrameOf(s) /\ at = <<i, PlaceOf(s, frame)>>
  <2>1. SUFFICES ASSUME ~Moves(s) PROVE frame \in s.first..LastFrameOf(s) /\ at = <<i, PlaceOf(s, frame)>>
    OBVIOUS
  <2>2. PICK k \in s.first..LastFrameOf(s) : at = <<i, PlaceOf(s, k)>>  BY <2>1 DEF IsStand
  <2>3. frame = k  BY <1>1, <2>2, FrameShown
  <2> QED  BY <2>2, <2>3
<1>6. CASE ~Moves(s) /\ frame < LastFrameOf(s)
  <2>1. PlaceAfter(p, at) = <<i, PlaceOf(s, frame + 1)>>
    <3> HIDE DEF s, frame, next, across
    <3> QED  BY <1>3, <1>6
  <2>2. Returns(p, <<i, PlaceOf(s, frame)>>, <<i, PlaceOf(s, frame + 1)>>)
    <3>1. frame \in s.first..LastFrameOf(s)  BY <1>5, <1>6
    <3> HIDE DEF frame, i
    <3> QED  BY <1>1, <1>6, <3>1, FramesReturn
  <2> QED  BY <1>5, <1>6, <2>1, <2>2
<1>7. CASE Moves(s) /\ next # Nowhere /\ next < s.to
  <2>1. PlaceAfter(p, at) = <<i, next>>
    <3> HIDE DEF s, frame, next, across
    <3> QED  BY <1>3, <1>4, <1>7
  <2>2. IsStand(p, <<i, x>>)  BY <1>2
  <2>3. Returns(p, <<i, x>>, <<i, next>>)
    <3> HIDE DEF i, x
    <3> QED  BY <1>1, <1>7, <2>2, PicturesReturn
  <2> QED  BY <1>2, <2>1, <2>3
<1>8. CASE /\ ~(~Moves(s) /\ frame < LastFrameOf(s))
           /\ ~(Moves(s) /\ next # Nowhere /\ next < s.to)
  <2>1. PlaceAfter(p, at) = across
    <3> HIDE DEF s, frame, next, across
    <3> QED  BY <1>3, <1>4, <1>8
  <2>2. later # {} /\ PlaceAfter(p, at) = <<Min(later), FirstPicture(p[Min(later)])>>  BY <2>1
  <2>3. later \subseteq Int /\ IsFiniteSet(later)  BY <1>1, FS_Subset
  <2>4. Min(later) \in later /\ \A m \in later : Min(later) <= m
    <3> HIDE DEF later
    <3> QED  BY <2>2, <2>3, MinIsIn
  <2> DEFINE j == Min(later)
  <2>5. j \in DOMAIN p /\ j > i /\ Shows(p[j]) /\ \A m \in DOMAIN p : m > i /\ Shows(p[m]) => j <= m
    <3> HIDE DEF j
    <3> QED  BY <2>4 DEF j
  <2>6. IsStand(p, <<i, x>>)  BY <1>2
  <2> HIDE DEF j, later, i, x
  <2>7. HasLast(s) /\ LastPicture(s) = x  BY <1>1, <1>8, <2>6, StandsLast
  <2>8. Returns(p, <<i, x>>, <<j, FirstPicture(p[j])>>)  BY <1>1, <2>5, <2>6, <2>7, AcrossReturns
  <2> QED  BY <1>2, <2>2, <2>8 DEF j
<1> QED  BY <1>6, <1>7, <1>8

-----------------------------------------------------------------------------
\* The plan is made of clips, and what stands is a place of it.
StandsInPlan == playing \in PlansMade /\ (stands = NoPlace \/ IsStand(playing, stands))

LEMMA StandIsPlace ==
    ASSUME NEW p, IsMade(p), NEW at, IsStand(p, at)
    PROVE  at \in Places(p)
<1> DEFINE s == p[at[1]]
<1>1. at[1] \in DOMAIN p  BY DEF IsStand
<1>2. Lies(s)  BY <1>1, MadeIsPlan
<1>3. CASE Moves(s)
  <2>1. at = <<at[1], at[2]>> /\ at[2] \in FramesOf[s.source]  BY <1>3 DEF IsStand
  <2>2. s.source \in DOMAIN FramesOf  BY <1>2, SegmentFields DEF Lies
  <2>3. at[2] \in Int  BY <2>1, <2>2, PlaybackAssumption
  <2> HIDE DEF s
  <2> QED  BY <1>1, <2>1, <2>3 DEF Places
<1>4. CASE ~Moves(s)
  <2>1. PICK k \in s.first..LastFrameOf(s) : at = <<at[1], PlaceOf(s, k)>>  BY <1>4 DEF IsStand
  <2>2. PlaceOf(s, k) \in Int  BY <1>2, <2>1, FrameShown
  <2> HIDE DEF s
  <2> QED  BY <1>1, <2>1, <2>2 DEF Places
<1> QED  BY <1>3, <1>4

LEMMA StandsStay == StandsInPlan /\ [StepNext]_stepVars => StandsInPlan'
<1> SUFFICES ASSUME StandsInPlan, [StepNext]_stepVars PROVE StandsInPlan'
  OBVIOUS
<1>1. CASE UNCHANGED stepVars  BY <1>1 DEF StandsInPlan, stepVars
<1>2. CASE StepNext
  <2>1. stands # NoPlace /\ playing' = playing  BY <1>2 DEF StepNext
  <2>2. PICK by \in {1, -1} : stands' = PlaceAt(playing, TargetOf(playing, Stepped(playing, stands, by)))
    BY <1>2 DEF StepNext
  <2>3. IsMade(playing) /\ IsPlan(playing)  BY PlansAreMade, MadeIsPlan DEF StandsInPlan
  <2>4. stands \in Places(playing)  BY <2>1, <2>3, StandIsPlace DEF StandsInPlan
  <2>5. Stepped(playing, stands, by) \in Places(playing)  BY <2>3, <2>4, OneStep
  <2> DEFINE t == TargetOf(playing, Stepped(playing, stands, by))
  <2>6. t \in Int  BY <2>3, <2>5, TargetThere
  <2> HIDE DEF t
  <2>7. stands' = NoPlace \/ IsStand(playing, stands')  BY <2>2, <2>3, <2>6, StandThere DEF t
  <2> QED  BY <2>1, <2>7 DEF StandsInPlan
<1> QED  BY <1>1, <1>2

(* Wherever stepping has come to, whatever the clips' rates, speeds and      *)
(* motions: the seek to where a picture starts shows that picture, and a     *)
(* step forwards and one back end where they began, over the edge of a clip  *)
(* and a gap as well (mod.rs: step, plan.rs: frame_after, frame_before).     *)
THEOREM StepsAreReal == StepSpec => []StepsHold
<1>1. StepInit => StandsInPlan
  <2> SUFFICES ASSUME StepInit PROVE StandsInPlan
    OBVIOUS
  <2>1. PICK t \in 0..(Duration(playing) - 1) : stands = PlaceAt(playing, t)  BY DEF StepInit
  <2>2. playing \in PlansMade /\ stands # NoPlace  BY DEF StepInit
  <2>3. IsMade(playing)  BY <2>2, PlansAreMade
  <2>4. t \in Int  OBVIOUS
  <2> QED  BY <2>1, <2>2, <2>3, <2>4, StandThere DEF StandsInPlan
<1>2. StandsInPlan => StepsHold
  <2> SUFFICES ASSUME StandsInPlan, stands # NoPlace PROVE StepsHold
    BY DEF StepsHold, StartShowsIt, StepsReturn
  <2>1. IsMade(playing) /\ IsStand(playing, stands)  BY PlansAreMade DEF StandsInPlan
  <2>2. StartShowsIt  BY <2>1, StandIsInside DEF StartShowsIt
  <2>3. StepsReturn  BY <2>1, StandReturns DEF StepsReturn, Returns
  <2> QED  BY <2>2, <2>3 DEF StepsHold
<1> QED  BY <1>1, <1>2, StandsStay, PTL DEF StepSpec

-----------------------------------------------------------------------------
(* The player's inductive invariant                                          *)

StepKinds ==
    {"read", "stop", "join", "joinonly", "hold", "rest", "holdend", "jump", "start", "pend", "clear",
     "prepare", "endscrub", "here", "tostart", "rewind", "step", "scrub", "loop", "replan", "uncache",
     "swap", "clamp", "relock", "retune", "shut", "open"}
\* A step that carries a plan, a range or a direction carries one.
Carries(step) ==
    /\ step.do \in {"replan", "swap"} => step.plan \in Plans
    /\ step.do = "loop" => step.plan \in LoopRanges \cup {NoLoop}
    /\ step.do = "step" => step.t \in {-1, 1}
Steps ==
    {step \in [do : StepKinds, t : Int, plan : Plans \cup LoopRanges \cup {<<>>}] : Carries(step)}

Anchors == [frame : Nat, at : Int, gen : Nat]
Clocks == [mode : {"paused", "running"}, at : Int, gen : Nat, anchors : Seq(Anchors), last : Nat \X Int]
Feeders ==
    [pc : {"preroll", "walking", "hearing", "done"}, stop : BOOLEAN, plan : Plans, chains : Plans,
     retune : Plans \cup {<<>>}, at : Int, gen : Nat, written : Nat]
Buffers == [queued : Nat, consumed : Nat, timed : BOOLEAN]

IsLane(l) ==
    /\ DOMAIN l = {"segment", "gen", "of", "base", "head", "shown"}
    /\ l.base \in Int /\ l.head \in Int
    /\ l.base <= l.head /\ l.head - l.base <= RingHolds

AreLanes(some) == \A l \in some : IsLane(l)

PresenterInv ==
    /\ DOMAIN presenter = DOMAIN IdlePresenter
    /\ presenter.pc \in {"idle", "due", "take", "put", "putagain", "telling"}
    /\ presenter.t \in Int
    /\ presenter.pc = "take" =>
           /\ presenter.plan \in Plans /\ presenter.i \in DOMAIN presenter.plan
           /\ HasPictures(presenter.plan[presenter.i])

Entries == [segment : Nat, tick : Nat, source : DOMAIN FramesOf]
WorkerInv ==
    /\ DOMAIN worker = DOMAIN IdleWorker
    /\ worker.pc \in {"idle", "cache", "window", "show", "put", "telling", "gone"}
    /\ worker.back \in {"idle", "window"} /\ worker.i \in Nat
    /\ worker.pc \in {"cache", "window"} \/ worker.back = "window" => worker.of.source \in DOMAIN FramesOf
    /\ cache \in Seq(Entries) /\ Len(cache) <= CacheHolds

TypeInv ==
    /\ control \in {Free, "user", "monitor", "close"} /\ state \in {"paused", "playing", "ended"}
    /\ todo \in Seq(Steps) /\ (control = Free => todo = <<>>)
    /\ local \in [gen : Nat, t : Int] /\ plan \in Plans /\ generations \in Nat
    /\ clock \in Clocks /\ (clock.mode = "running" => clock.anchors # <<>>)
    /\ feeder \in Feeders \cup {NoFeeder} /\ buffer \in Buffers
    /\ loop \in (Nat \X Nat) \cup {NoLoop} /\ pending \in Int /\ scrubbing \in BOOLEAN
    /\ AreLanes(lanes)

\* Unless it plays, the clock stands and there is no feeder; the feeder whose
\* first sound is awaited finds the clock standing; who drags does not play.
Still == clock.mode = "paused" /\ feeder = NoFeeder
StillInv ==
    /\ state # "playing" => Still
    /\ feeder.pc = "preroll" => clock.mode = "paused"
    /\ scrubbing => state # "playing"

\* What is still to be done before step k, or is so already
Joins == {"join", "joinonly"}
Holds == {"hold", "rest", "holdend", "jump"}
Earlier(k, kinds) == \E j \in 1..(k - 1) : todo[j].do \in kinds
Joined(k) == feeder = NoFeeder \/ Earlier(k, Joins)
Held(k) == Still \/ Earlier(k, Holds)
AtRest(k) == state # "playing" \/ Earlier(k, {"rest"})
Undragged == scrubbing => todo[1].do = "endscrub"

\* The clock is set only after the feeder was joined, and a feeder is started
\* only after the clock was, as the last thing a command does; what drags,
\* steps or starts from the beginning finds the player at rest.
Fine(k) ==
    /\ todo[k].do \in Holds => Joined(k)
    /\ todo[k].do = "start" => Held(k)
    /\ todo[k].do \in {"rewind", "step", "scrub"} => AtRest(k)
    /\ todo[k].do \in {"start", "rewind", "tostart", "scrub", "step", "replan"} => k = Len(todo)
    /\ todo[k].do = "here" => k = Len(todo) \/ state # "playing"
    /\ todo[k].do \in {"start", "rewind"} => Undragged
TodoInv == \A k \in DOMAIN todo : Fine(k)

\* The feeder plays the plan there is, or has been handed its chains
Follows ==
    /\ OnlyChainsOrCropsDiffer(feeder.plan, plan)
    /\ IF feeder.retune # <<>> THEN feeder.retune = plan ELSE feeder.chains = plan

\* ... or the command sees to it: it ends the feeder, or hands it the chains of
\* a plan whose timing is the feeder's.
Mends == {"here", "join", "joinonly", "retune"}
FollowInv ==
    feeder # NoFeeder =>
        /\ OnlyChainsOrCropsDiffer(feeder.plan, feeder.chains)
        /\ feeder.retune # <<>> => OnlyChainsOrCropsDiffer(feeder.plan, feeder.retune)
        /\ Follows \/ \E k \in DOMAIN todo : todo[k].do \in Mends
        /\ \A j \in DOMAIN todo :
               todo[j].do = "swap" => \E k \in DOMAIN todo : j < k /\ todo[k].do \in Mends
        /\ \A k \in DOMAIN todo : todo[k].do = "retune" =>
               /\ \A j \in 1..(k - 1) :
                      todo[j].do = "swap" => OnlyChainsOrCropsDiffer(feeder.plan, todo[j].plan)
               /\ ~Earlier(k, {"swap"}) => OnlyChainsOrCropsDiffer(feeder.plan, plan)

IInv == TypeInv /\ PresenterInv /\ WorkerInv /\ StillInv /\ TodoInv /\ FollowInv

-----------------------------------------------------------------------------
(* What is left of a command after a step of it                              *)

\* Some steps and then others
IsBoth(u, s, t) ==
    /\ u \in Seq(Steps) /\ Len(s) \in Nat /\ Len(t) \in Nat /\ Len(u) = Len(s) + Len(t)
    /\ DOMAIN u = 1..Len(u)
    /\ \A k \in 1..Len(u) : u[k] = IF k <= Len(s) THEN s[k] ELSE t[k - Len(s)]

LEMMA Both == \A s, t \in Seq(Steps) : IsBoth(s \o t, s, t)
<1> SUFFICES ASSUME NEW s \in Seq(Steps), NEW t \in Seq(Steps) PROVE IsBoth(s \o t, s, t)  OBVIOUS
<1> DEFINE u == s \o t
<1>1. /\ u \in Seq(Steps) /\ Len(u) = Len(s) + Len(t) /\ Len(s) \in Nat /\ Len(t) \in Nat
      /\ \A k \in 1..Len(s) + Len(t) : u[k] = IF k <= Len(s) THEN s[k] ELSE t[k - Len(s)]
  BY ConcatProperties, LenProperties
<1> HIDE DEF u
<1>2. DOMAIN u = 1..Len(u)  BY <1>1, LenProperties
<1>3. IsBoth(u, s, t)  BY <1>1, <1>2 DEF IsBoth
<1> QED  BY <1>3 DEF u

LEMMA Spliced ==
    ASSUME NEW S, NEW s \in Seq(S), NEW t \in Seq(S), t # <<>>, NEW u, u = s \o Tail(t)
    PROVE  /\ u \in Seq(S) /\ Len(u) = Len(s) + Len(t) - 1
           /\ Len(s) \in Nat /\ Len(t) \in Nat \ {0}
           /\ DOMAIN u = 1..Len(u) /\ DOMAIN t = 1..Len(t)
           /\ \A k \in 1..Len(s) : u[k] = s[k]
           /\ \A k \in (Len(s) + 1)..Len(u) : u[k] = t[k - Len(s) + 1]
OBVIOUS

\* What is left is fine if what the step put before it is, and the step undid
\* nothing and did what was counted on.
LEMMA Continued ==
    ASSUME todo \in Seq(Steps), todo # <<>>, TodoInv,
           NEW s \in Seq(Steps), todo' = s \o Tail(todo),
           feeder = NoFeeder \/ todo[1].do \in Joins => feeder' = NoFeeder,
           Still \/ todo[1].do \in Holds => Still',
           state # "playing" \/ todo[1].do = "rest" => state' # "playing",
           scrubbing' => scrubbing /\ todo[1].do # "endscrub",
           \A k \in 1..Len(s) : Fine(k)'
    PROVE  TodoInv'
<1> DEFINE u == todo'
<1>1. /\ u \in Seq(Steps) /\ Len(u) = Len(s) + Len(todo) - 1
      /\ Len(s) \in Nat /\ Len(todo) \in Nat \ {0}
      /\ DOMAIN u = 1..Len(u) /\ DOMAIN todo = 1..Len(todo)
      /\ \A k \in (Len(s) + 1)..Len(u) : u[k] = todo[k - Len(s) + 1]
  BY Spliced
<1> SUFFICES ASSUME NEW k \in DOMAIN todo' PROVE Fine(k)'  BY DEF TodoInv
<1>2. CASE k <= Len(s)  BY <1>1, <1>2
<1>3. CASE k > Len(s)
  <2> DEFINE m == k - Len(s) + 1
  <2>1. /\ m \in DOMAIN todo /\ u[k] = todo[m] /\ m \in Nat /\ m > 1
        /\ (m = Len(todo) => k = Len(u))
    BY <1>1, <1>3
  <2>2. Fine(m)  BY <2>1 DEF TodoInv
  <2>3. ASSUME NEW X, Earlier(m, X), todo[1].do \notin X PROVE Earlier(k, X)'
    <3>1. PICK j \in 1..(m - 1) : todo[j].do \in X  BY <2>3 DEF Earlier
    <3> DEFINE i == j + Len(s) - 1
    <3>2. j # 1 /\ j \in Nat /\ j < m /\ m = k - Len(s) + 1 /\ k \in Nat
      BY <1>1, <2>1, <2>3, <3>1
    <3>3. i \in 1..(k - 1) /\ i \in (Len(s) + 1)..Len(u) /\ i - Len(s) + 1 = j
      BY <1>1, <2>1, <3>2
    <3>4. u[i] = todo[j]  BY <1>1, <3>3
    <3> QED  BY <3>1, <3>3, <3>4 DEF Earlier
  <2>4. Joined(m) => Joined(k)'  BY <2>3 DEF Joined
  <2>5. Held(m) => Held(k)'  BY <2>3 DEF Held
  <2>6. AtRest(m) => AtRest(k)'  BY <2>3 DEF AtRest
  <2>7. Undragged => Undragged'  BY DEF Undragged
  <2> HIDE DEF m
  <2> QED  BY <2>1, <2>2, <2>4, <2>5, <2>6, <2>7 DEF Fine
<1> QED  BY <1>1, <1>2, <1>3

\* The same of the sound: a step that mends it leaves another that does.
LEMMA FollowsOn ==
    ASSUME todo \in Seq(Steps), todo # <<>>, FollowInv,
           NEW s \in Seq(Steps), todo' = s \o Tail(todo), plan' = plan,
           feeder' # NoFeeder =>
               /\ feeder # NoFeeder /\ feeder'.plan = feeder.plan
               /\ feeder'.chains = feeder.chains /\ feeder'.retune = feeder.retune
               /\ todo[1].do \in Mends => \E k \in 1..Len(s) : s[k].do \in Mends,
           \A k \in 1..Len(s) : s[k].do \notin {"swap", "retune"},
           todo[1].do # "swap"
    PROVE  FollowInv'
<1> DEFINE u == todo'
<1>1. /\ u \in Seq(Steps) /\ Len(u) = Len(s) + Len(todo) - 1
      /\ Len(s) \in Nat /\ Len(todo) \in Nat \ {0}
      /\ DOMAIN u = 1..Len(u) /\ DOMAIN todo = 1..Len(todo)
      /\ \A k \in 1..Len(s) : u[k] = s[k]
      /\ \A k \in (Len(s) + 1)..Len(u) : u[k] = todo[k - Len(s) + 1]
  BY Spliced
<1> SUFFICES ASSUME feeder' # NoFeeder PROVE FollowInv'  BY DEF FollowInv
<1>2. feeder # NoFeeder /\ feeder'.plan = feeder.plan
      /\ feeder'.chains = feeder.chains /\ feeder'.retune = feeder.retune
  OBVIOUS
<1>3. \A m \in DOMAIN todo : m > 1 =>
         /\ m + Len(s) - 1 \in DOMAIN u /\ u[m + Len(s) - 1] = todo[m]
  BY <1>1
<1>4. \A k \in DOMAIN u : k <= Len(s) \/
         (k - Len(s) + 1 \in DOMAIN todo /\ k - Len(s) + 1 > 1 /\ u[k] = todo[k - Len(s) + 1])
  BY <1>1
<1>5. Follows' <=> Follows  BY <1>2 DEF Follows
<1>6. ASSUME \E k \in DOMAIN todo : todo[k].do \in Mends
      PROVE  \E k \in DOMAIN u : u[k].do \in Mends
  <2>1. PICK k \in DOMAIN todo : todo[k].do \in Mends  BY <1>6
  <2>2. CASE k = 1
    <3>1. PICK i \in 1..Len(s) : s[i].do \in Mends  BY <2>1, <2>2
    <3>2. i \in DOMAIN u /\ u[i] = s[i]  BY <1>1
    <3> QED  BY <3>1, <3>2
  <2>3. CASE k # 1
    <3>1. k > 1  BY <2>3, <1>1
    <3> QED  BY <1>3, <2>1, <3>1
  <2> QED  BY <2>2, <2>3
<1>7. ASSUME NEW j \in DOMAIN u, u[j].do = "swap"
      PROVE  \E k \in DOMAIN u : j < k /\ u[k].do \in Mends
  <2> DEFINE m == j - Len(s) + 1
  <2>1. m \in DOMAIN todo /\ m > 1 /\ u[j] = todo[m]  BY <1>1, <1>4, <1>7
  <2>2. PICK k \in DOMAIN todo : m < k /\ todo[k].do \in Mends
    BY <1>2, <1>7, <2>1 DEF FollowInv
  <2>3. k \in Nat /\ k > 1 /\ m = j - Len(s) + 1 /\ j \in Nat  BY <1>1, <2>1, <2>2
  <2>4. k + Len(s) - 1 \in DOMAIN u /\ u[k + Len(s) - 1] = todo[k]  BY <1>3, <2>2, <2>3
  <2>5. j < k + Len(s) - 1  BY <1>1, <2>1, <2>2, <2>3
  <2> QED  BY <2>2, <2>4, <2>5
<1>8. ASSUME NEW k \in DOMAIN u, u[k].do = "retune"
      PROVE  /\ \A j \in 1..(k - 1) :
                   u[j].do = "swap" => OnlyChainsOrCropsDiffer(feeder.plan, u[j].plan)
             /\ ~Earlier(k, {"swap"})' => OnlyChainsOrCropsDiffer(feeder.plan, plan)
  <2> DEFINE m == k - Len(s) + 1
  <2>1. m \in DOMAIN todo /\ m > 1 /\ u[k] = todo[m]  BY <1>1, <1>4, <1>8
  <2>2. /\ \A j \in 1..(m - 1) :
               todo[j].do = "swap" => OnlyChainsOrCropsDiffer(feeder.plan, todo[j].plan)
        /\ ~Earlier(m, {"swap"}) => OnlyChainsOrCropsDiffer(feeder.plan, plan)
    BY <1>2, <1>8, <2>1 DEF FollowInv
  <2>3. ASSUME NEW j \in 1..(k - 1), u[j].do = "swap"
        PROVE  OnlyChainsOrCropsDiffer(feeder.plan, u[j].plan)
    <3>1. j \in DOMAIN u /\ j \in Nat  BY <1>1
    <3>2. j > Len(s)  BY <1>1, <2>3, <3>1
    <3>3. j - Len(s) + 1 \in 1..(m - 1) /\ u[j] = todo[j - Len(s) + 1]
      BY <1>1, <3>1, <3>2
    <3> QED  BY <2>2, <2>3, <3>3
  <2>4. ASSUME Earlier(m, {"swap"}) PROVE Earlier(k, {"swap"})'
    <3>1. PICK j \in 1..(m - 1) : todo[j].do = "swap"  BY <2>4 DEF Earlier
    <3> DEFINE i == j + Len(s) - 1
    <3>2. j # 1 /\ j \in Nat /\ j < m /\ m = k - Len(s) + 1 /\ k \in Nat
      BY <1>1, <1>8, <2>1, <3>1
    <3>3. i \in 1..(k - 1) /\ i \in (Len(s) + 1)..Len(u) /\ i - Len(s) + 1 = j
      BY <1>1, <2>1, <3>2
    <3>4. u[i] = todo[j]  BY <1>1, <3>3
    <3> QED  BY <3>1, <3>3, <3>4 DEF Earlier
  <2> QED  BY <2>2, <2>3, <2>4
<1> HIDE DEF u
<1>9. u = todo'  BY DEF u
<1> QED  BY <1>2, <1>5, <1>6, <1>7, <1>8, <1>9 DEF FollowInv

-----------------------------------------------------------------------------
(* What the operators of the player return                                   *)

LEMMA PlansAre ==
    ASSUME NEW p \in Plans
    PROVE  IsPlan(p)
BY PlayerAssumption

LEMMA HeardThere ==
    ASSUME buffer \in Buffers, NEW heard \in Heard
    PROVE  heard \in Int
<1>1. buffer.consumed \in Nat /\ buffer.consumed - 1 \in Int  BY DEF Buffers
<1> DEFINE less == buffer.consumed - 1
<1>2. less \in Int  BY <1>1
<1> HIDE DEF less
<1>3. Max({0, less}) \in Int  BY <1>2, Greater
<1>4. heard \in {buffer.consumed, Max({0, less}), 0}  BY DEF Heard, less
<1> QED  BY <1>1, <1>3, <1>4

LEMMA UnspentLeft ==
    ASSUME NEW anchors \in Seq(Anchors), anchors # <<>>, NEW heard \in Int
    PROVE  Unspent(anchors, heard) \in Seq(Anchors) /\ Unspent(anchors, heard) # <<>>
<1> DEFINE reached == {i \in DOMAIN anchors : i = 1 \/ anchors[i].frame <= heard}
           stop == {i \in DOMAIN anchors : i > 1 /\ anchors[i].frame > heard}
           first == IF stop = {} THEN Max(reached) ELSE Min(stop) - 1
<1>1. Len(anchors) \in Nat \ {0} /\ DOMAIN anchors = 1..Len(anchors)  OBVIOUS
<1>2. IsFiniteSet(DOMAIN anchors) /\ DOMAIN anchors \subseteq Int  BY <1>1, FS_Interval
<1>3. 1 \in reached /\ reached \subseteq DOMAIN anchors /\ stop \subseteq DOMAIN anchors  BY <1>1
<1>4. \A i \in stop : i > 1  OBVIOUS
<1>5. Unspent(anchors, heard) = SubSeq(anchors, first, Len(anchors))  BY DEF Unspent
<1> HIDE DEF reached, stop
<1>6. IsFiniteSet(reached) /\ IsFiniteSet(stop)  BY <1>2, <1>3, FS_Subset
<1>7. Max(reached) \in reached  BY <1>2, <1>3, <1>6, MaxIsIn
<1>8. stop # {} => Min(stop) \in stop  BY <1>2, <1>3, <1>6, MinIsIn
<1>9. first \in 1..Len(anchors)  BY <1>1, <1>3, <1>4, <1>7, <1>8
<1> HIDE DEF first
<1>10. /\ SubSeq(anchors, first, Len(anchors)) \in Seq(Anchors)
       /\ Len(SubSeq(anchors, first, Len(anchors))) = Len(anchors) - first + 1
  BY <1>1, <1>9
<1> DEFINE left == SubSeq(anchors, first, Len(anchors))
<1> HIDE DEF left
<1>11. left \in Seq(Anchors) /\ Len(left) > 0  BY <1>1, <1>9, <1>10 DEF left
<1>12. left # <<>>  BY <1>11
<1> QED  BY <1>5, <1>11, <1>12 DEF left

\* PlaybackClock::position gives a clock again, that runs as it did, and never
\* a position before the one it gave last in a generation.
LEMMA ReadIsAClock ==
    ASSUME NEW c \in Clocks, c.mode = "running" => c.anchors # <<>>, NEW heard \in Int
    PROVE  /\ Read(c, heard) \in Clocks /\ Read(c, heard).mode = c.mode
           /\ c.mode = "running" => Read(c, heard).anchors # <<>>
           /\ Read(c, heard).last[1] = c.last[1] => Read(c, heard).last[2] >= c.last[2]
<1>1. c.last = <<c.last[1], c.last[2]>> /\ c.last[1] \in Nat /\ c.last[2] \in Int  BY DEF Clocks
<1>2. CASE c.mode = "paused"  BY <1>1, <1>2 DEF Read
<1>3. CASE c.mode = "running"
  <2> DEFINE left == Unspent(c.anchors, heard)
             gen == left[1].gen
             more == heard - left[1].frame
             further == Max({0, more})
             at == left[1].at + further
             kept == Max({at, c.last[2]})
             told == IF c.last[1] = gen THEN kept ELSE at
  <2>1. c.anchors \in Seq(Anchors) /\ c.anchors # <<>>  BY <1>3 DEF Clocks
  <2>2. left \in Seq(Anchors) /\ left # <<>>  BY <2>1, UnspentLeft
  <2>3. left[1] \in Anchors  BY <2>2
  <2>4. gen \in Nat /\ more \in Int /\ left[1].at \in Int  BY <2>3 DEF Anchors
  <2>5. Read(c, heard) = [c EXCEPT !.anchors = left, !.last = <<gen, told>>]
    BY <1>3 DEF Read
  <2> HIDE DEF more
  <2>6. further \in Int  BY <2>4, Greater
  <2> HIDE DEF further
  <2>7. at \in Int  BY <2>4, <2>6
  <2> HIDE DEF at
  <2>8. kept \in Int /\ kept >= c.last[2]  BY <1>1, <2>7, GreaterOf
  <2> HIDE DEF kept, left, gen
  <2>9. told \in Int /\ (gen = c.last[1] => told >= c.last[2])  BY <2>7, <2>8
  <2> HIDE DEF told
  <2> DEFINE r == Read(c, heard)
  <2>10. /\ r.mode = c.mode /\ r.at = c.at /\ r.gen = c.gen /\ r.anchors = left
         /\ r.last = <<gen, told>>
         /\ r = [mode |-> c.mode, at |-> c.at, gen |-> c.gen, anchors |-> left, last |-> <<gen, told>>]
    BY <2>5 DEF Clocks
  <2> HIDE DEF r
  <2>11. r \in Clocks  BY <2>2, <2>4, <2>9, <2>10 DEF Clocks
  <2> QED  BY <1>1, <2>2, <2>9, <2>10, <2>11 DEF r
<1> QED  BY <1>2, <1>3 DEF Clocks

LEMMA PausedIsAClock ==
    ASSUME NEW t \in Int, NEW gen \in Nat
    PROVE  PausedAt(t, gen) \in Clocks /\ PausedAt(t, gen).mode = "paused"
BY DEF PausedAt, Clocks

LEMMA ClampThere ==
    ASSUME plan \in Plans, NEW t \in Int
    PROVE  Clamp(t) \in Int
<1> DEFINE last == End(plan) - 1
           a == Max({t, 0})
           b == Max({0, last})
<1>1. last \in Int  BY PlansAre, DurationThere DEF End
<1> HIDE DEF last
<1>2. a \in Int /\ b \in Int  BY <1>1, Greater
<1>3. Clamp(t) = Min({a, b})  BY DEF Clamp, last
<1> HIDE DEF a, b
<1> QED  BY <1>2, <1>3, Lesser

LEMMA StartThere ==
    ASSUME plan \in Plans, loop \in (Nat \X Nat) \cup {NoLoop}
    PROVE  Start \in Int
<1>1. loop # NoLoop => loop[1] \in Nat  OBVIOUS
<1>2. plan # <<>> => plan[1].start \in Int
  <2>1. plan \in Seq(Range(plan)) /\ \A i \in DOMAIN plan : IsSegment(plan[i])
    BY PlansAre, PlanShape
  <2>2. plan # <<>> => 1 \in DOMAIN plan  BY <2>1
  <2> QED  BY <2>1, <2>2, SegmentFields
<1> QED  BY <1>1, <1>2 DEF Start

LEMMA LoopThere ==
    ASSUME NEW p, IsPlan(p), NEW range \in LoopRanges \cup {NoLoop}
    PROVE  LoopIn(range, p) \in (Nat \X Nat) \cup {NoLoop}
<1>1. CASE range = NoLoop  BY <1>1 DEF LoopIn
<1>2. CASE range # NoLoop
  <2> DEFINE a == Min({range[1], End(p)})
             b == Min({range[2], End(p)})
  <2>1. range[1] \in Nat /\ range[2] \in Nat  BY <1>2, PlayerAssumption
  <2>2. End(p) \in Nat  BY DurationThere DEF End
  <2>3. a \in Nat /\ b \in Nat  BY <2>1, <2>2, LesserOf
  <2>4. LoopIn(range, p) = IF a < b THEN <<a, b>> ELSE NoLoop  BY <1>2 DEF LoopIn
  <2> HIDE DEF a, b
  <2> QED  BY <2>3, <2>4
<1> QED  BY <1>1, <1>2

-----------------------------------------------------------------------------
(* Lanes                                                                     *)

LEMMA NewLane ==
    ASSUME NEW s, IsSegment(s), NEW i, NEW gen, NEW tick
    PROVE  IsLane(LaneOf(s, i, gen, tick))
<1> DEFINE first == AtOrBefore(s.source, tick)
           from == IF first = Nowhere THEN After(s.source, tick) ELSE first
<1>1. from \in Int  BY SegmentFields, Pictures
<1>2. LaneOf(s, i, gen, tick) =
        [segment |-> i, gen |-> gen, of |-> s, base |-> from, head |-> from, shown |-> None]
  BY DEF LaneOf
<1> HIDE DEF from
<1>3. from - from = 0 /\ RingHolds \in Nat  BY <1>1, PlayerAssumption
<1> QED  BY <1>1, <1>2, <1>3 DEF IsLane

LEMMA WithOneMore ==
    ASSUME NEW some, AreLanes(some), NEW p, IsPlan(p), NEW i, NEW gen, NEW tick
    PROVE  /\ AreLanes(WithLane(some, p, i, gen, tick))
           /\ i \in DOMAIN p /\ HasPictures(p[i]) =>
                  Serving(WithLane(some, p, i, gen, tick), i, gen) # {}
<1>1. CASE Serving(some, i, gen) # {} \/ i \notin DOMAIN p \/ ~HasPictures(p[i])
  BY <1>1 DEF WithLane
<1>2. CASE ~(Serving(some, i, gen) # {} \/ i \notin DOMAIN p \/ ~HasPictures(p[i]))
  <2> DEFINE l == LaneOf(p[i], i, gen, tick)
  <2>1. IsSegment(p[i])  BY <1>2, PlanShape
  <2>2. IsLane(l)  BY <2>1, NewLane
  <2>3. WithLane(some, p, i, gen, tick) = some \cup {l}  BY <1>2 DEF WithLane
  <2>4. l.segment = i /\ l.gen = gen  BY DEF LaneOf
  <2> HIDE DEF l
  <2> QED  BY <2>2, <2>3, <2>4 DEF AreLanes, Serving
<1> QED  BY <1>1, <1>2

LEMMA Renumbered ==
    ASSUME NEW some, AreLanes(some), NEW old, NEW new, NEW gen
    PROVE  AreLanes(Remapped(some, old, new, gen))
<1> SUFFICES ASSUME NEW l \in Carried(some, old, new, gen), NEW j
             PROVE  IsLane([l EXCEPT !.segment = j])
  BY DEF AreLanes, Remapped
<1>1. IsLane(l)  BY DEF Carried, AreLanes
<1> QED  BY <1>1 DEF IsLane

LEMMA LanesKeptUp ==
    ASSUME NEW some, AreLanes(some), NEW s, IsSegment(s), NEW i, NEW gen, NEW tick,
           NEW kept \in KeptUp(some, s, i, gen, tick)
    PROVE  AreLanes(kept)
<1> DEFINE late == {l \in Serving(some, i, gen) :
                      l.head \in FramesOf[s.source] /\ tick - (l.head - 1) >= ResyncAfter}
           ahead == After(s.source, tick + ResyncLead - 1)
           again == {[l EXCEPT !.base = ahead, !.head = ahead] : l \in late}
<1>1. kept = some \/ kept = (some \ late) \cup again  BY DEF KeptUp
<1>2. ahead \in Int  BY SegmentFields, Pictures
<1>3. ahead - ahead = 0 /\ RingHolds \in Nat  BY <1>2, PlayerAssumption
<1>4. late \subseteq some  BY DEF Serving
<1> HIDE DEF ahead, late
<1>5. ASSUME NEW l \in late PROVE IsLane([l EXCEPT !.base = ahead, !.head = ahead])
  <2>1. DOMAIN l = {"segment", "gen", "of", "base", "head", "shown"}
    BY <1>4 DEF AreLanes, IsLane
  <2> DEFINE m == [l EXCEPT !.base = ahead, !.head = ahead]
  <2>2. DOMAIN m = DOMAIN l /\ m.base = ahead /\ m.head = ahead  BY <2>1
  <2> HIDE DEF m
  <2> QED  BY <1>2, <1>3, <2>1, <2>2 DEF IsLane, m
<1>6. \A l \in again : IsLane(l)  BY <1>5
<1>7. \A l \in some \ late : IsLane(l)  BY DEF AreLanes
<1> HIDE DEF again
<1> QED  BY <1>1, <1>6, <1>7 DEF AreLanes

-----------------------------------------------------------------------------
(* The scripts of the commands                                               *)

LEMMA PlainSteps ==
    ASSUME NEW kind \in StepKinds \ {"replan", "swap", "loop", "step"}, NEW t \in Int
    PROVE  /\ Step(kind) \in Steps /\ Step(kind).do = kind
           /\ StepAt(kind, t) \in Steps /\ StepAt(kind, t).do = kind
BY DEF Step, StepAt, Steps, Carries

LEMMA SeekingSteps ==
    ASSUME NEW t \in Int
    PROVE  Seeking(t) \in Seq(Steps)
<1>1. /\ StepAt("pend", t) \in Steps /\ Step("stop") \in Steps /\ Step("join") \in Steps
      /\ StepAt("jump", t) \in Steps /\ Step("clear") \in Steps /\ Step("prepare") \in Steps
      /\ Step("start") \in Steps
  BY PlainSteps DEF StepKinds
<1> QED  BY <1>1 DEF Seeking

LEMMA PausingSteps ==
    Pausing \in Seq(Steps) /\ Restarting \in Seq(Steps) /\ Playing \in Seq(Steps)
<1>1. /\ Step("read") \in Steps /\ Step("stop") \in Steps /\ Step("join") \in Steps
      /\ Step("rest") \in Steps /\ Step("hold") \in Steps /\ Step("start") \in Steps
      /\ Step("rewind") \in Steps
  BY PlainSteps DEF StepKinds
<1> QED  BY <1>1 DEF Pausing, Restarting, Playing

LEMMA Named ==
    ASSUME NEW command \in Commands
    PROVE  \/ command[1] \in {"play", "pause", "toggle", "stop", "start", "end", "speed"}
           \/ command[1] = "seek" /\ command[2] \in Int
           \/ command[1] = "scrub" /\ command[2] \in Int
           \/ command[1] = "step" /\ command[2] \in {-1, 1}
           \/ command[1] = "loop" /\ command[2] \in LoopRanges \cup {NoLoop}
           \/ command[1] = "plan" /\ command[2] \in Plans
<1>1. SeekTo \subseteq Int /\ ScrubTo \subseteq Int  BY PlayerAssumption
<1> QED  BY <1>1 DEF Commands

LEMMA ScriptSteps ==
    ASSUME TypeInv, NEW command \in Commands
    PROVE  Script(command) \in Seq(Steps)
<1>1. /\ StepAt("endscrub", 1) \in Steps /\ Step("endscrub") \in Steps
      /\ Step("tostart") \in Steps /\ Step("read") \in Steps
  BY PlainSteps DEF StepKinds
<1>2. plan \in Plans  BY DEF TypeInv
<1>3. CASE command[1] = "play"  BY <1>1, <1>3, PausingSteps DEF Script
<1>4. CASE command[1] = "pause"  BY <1>1, <1>4, PausingSteps DEF Script
<1>5. CASE command[1] = "toggle"  BY <1>1, <1>5, PausingSteps DEF Script
<1>6. CASE command[1] = "stop"  BY <1>1, <1>6, PausingSteps DEF Script
<1>7. CASE command[1] = "start"  BY <1>1, <1>7 DEF Script
<1>8. CASE command[1] = "end"
  <2>1. Clamp(LastFramePosition(plan)) \in Int  BY <1>2, PlansAre, LastThere, ClampThere
  <2> QED  BY <1>1, <1>8, <2>1, SeekingSteps DEF Script
<1>9. CASE command[1] = "speed"  BY <1>9, PausingSteps DEF Script
<1>10. CASE command[1] = "seek" /\ command[2] \in Int
  <2>1. Clamp(command[2]) \in Int  BY <1>2, <1>10, ClampThere
  <2> QED  BY <1>1, <1>10, <2>1, SeekingSteps DEF Script
<1>11. CASE command[1] = "scrub" /\ command[2] \in Int
  <2>1. StepAt("scrub", command[2]) \in Steps  BY <1>11, PlainSteps DEF StepKinds
  <2> QED  BY <1>11, <2>1, PausingSteps DEF Script
<1>12. CASE command[1] = "step" /\ command[2] \in {-1, 1}
  <2>1. StepAt("step", command[2]) \in Steps
    BY <1>12 DEF StepAt, Steps, StepKinds, Carries
  <2> QED  BY <1>1, <1>12, <2>1, PausingSteps DEF Script
<1>13. CASE command[1] = "loop" /\ command[2] \in LoopRanges \cup {NoLoop}
  <2>1. [Step("loop") EXCEPT !.plan = command[2]] \in Steps
    BY <1>13 DEF Step, Steps, StepKinds, Carries, NoLoop
  <2> QED  BY <1>13, <2>1 DEF Script
<1>14. CASE command[1] = "plan" /\ command[2] \in Plans
  <2>1. [Step("replan") EXCEPT !.plan = command[2]] \in Steps
    BY <1>14 DEF Step, Steps, StepKinds, Carries
  <2> QED  BY <1>1, <1>14, <2>1 DEF Script
<1> QED  BY <1>3, <1>4, <1>5, <1>6, <1>7, <1>8, <1>9, <1>10, <1>11, <1>12, <1>13, <1>14, Named

LEMMA AfterSteps ==
    ASSUME NEW new
    PROVE  AfterPlan(new) \in Seq(Steps)
<1>1. /\ Step("retune") \in Steps /\ Step("here") \in Steps /\ Step("stop") \in Steps
      /\ Step("join") \in Steps /\ Step("hold") \in Steps /\ Step("start") \in Steps
  BY PlainSteps DEF StepKinds
<1> QED  BY <1>1 DEF AfterPlan

LEMMA Doings ==
    ASSUME TypeInv, NEW kind, Doing(kind)
    PROVE  /\ todo \in Seq(Steps) /\ todo # <<>> /\ Head(todo) = todo[1]
           /\ Len(todo) \in Nat \ {0} /\ 1 \in DOMAIN todo /\ DOMAIN todo = 1..Len(todo)
           /\ todo[1] \in Steps /\ todo[1].do = kind /\ todo[1].t \in Int /\ Carries(todo[1])
           /\ control # Free
<1>1. todo \in Seq(Steps) /\ todo # <<>> /\ Head(todo).do = kind /\ control # Free
  BY DEF Doing, TypeInv
<1>2. Head(todo) = todo[1] /\ Len(todo) \in Nat \ {0} /\ DOMAIN todo = 1..Len(todo)  BY <1>1
<1>3. todo[1] \in Steps  BY <1>1, <1>2
<1>4. todo[1].t \in Int /\ Carries(todo[1])  BY <1>3 DEF Steps
<1> QED  BY <1>1, <1>2, <1>3, <1>4

LEMMA Thens ==
    ASSUME TypeInv, NEW kind, Doing(kind), NEW s \in Seq(Steps), Then(s), control' = control
    PROVE  /\ todo' \in Seq(Steps) /\ (control' = Free => todo' = <<>>)
           /\ todo' = s \o Tail(todo)
<1>1. todo \in Seq(Steps) /\ todo # <<>> /\ control # Free  BY Doings
<1>2. todo' = s \o Tail(todo)  BY DEF Then
<1> QED  BY <1>1, <1>2

LEMMA NoSteps == <<>> \in Seq(Steps)
OBVIOUS

-----------------------------------------------------------------------------
(* Types                                                                     *)

Unnamed == <<presenter, worker, cache>>

LEMMA TypeInit == Init => TypeInv /\ PresenterInv /\ WorkerInv
<1> SUFFICES ASSUME Init PROVE TypeInv /\ PresenterInv /\ WorkerInv  OBVIOUS
<1> DEFINE start == IF FirstPlan = <<>> THEN 0 ELSE FirstPlan[1].start
<1>1. FirstPlan \in Plans /\ IsPlan(FirstPlan)  BY PlayerAssumption
<1>2. start \in Int
  <2>1. FirstPlan \in Seq(Range(FirstPlan)) /\ \A i \in DOMAIN FirstPlan : IsSegment(FirstPlan[i])
    BY <1>1, PlanShape
  <2>2. FirstPlan # <<>> => 1 \in DOMAIN FirstPlan  BY <2>1
  <2> QED  BY <2>1, <2>2, SegmentFields
<1>3. clock = PausedAt(start, 1)  BY DEF Init
<1>4. AreLanes(lanes)
  <2>1. AreLanes({})  BY DEF AreLanes
  <2>2. AreLanes(WithLane({}, FirstPlan, 1, 1, SourceAt(FirstPlan[1], start)))
    BY <1>1, <2>1, WithOneMore
  <2> QED  BY <2>1, <2>2 DEF Init
<1> HIDE DEF start
<1>5. clock \in Clocks /\ clock.mode = "paused"  BY <1>2, <1>3, PausedIsAClock
<1>6. TypeInv
  <2>1. todo = <<>> /\ todo \in Seq(Steps)  BY DEF Init
  <2>2. local \in [gen : Nat, t : Int]  BY DEF Init, Nothing
  <2>3. buffer \in Buffers  BY DEF Init, Cleared, Buffers
  <2>4. /\ control = Free /\ state = "paused" /\ plan = FirstPlan /\ feeder = NoFeeder
        /\ generations = 1 /\ loop = NoLoop /\ pending = -1 /\ scrubbing = FALSE
    BY DEF Init, None
  <2>5. control \in {Free, "user", "monitor", "close"} /\ state \in {"paused", "playing", "ended"}
    BY <2>4
  <2>6. generations \in Nat /\ pending \in Int
    BY <2>4
  <2>9. scrubbing \in BOOLEAN
    BY <2>4, Zenon
  <2>7. plan \in Plans /\ loop \in (Nat \X Nat) \cup {NoLoop}
    BY <1>1, <2>4
  <2>8. feeder \in Feeders \cup {NoFeeder}
    BY <2>4
  <2> QED  BY <1>4, <1>5, <2>1, <2>2, <2>3, <2>5, <2>6, <2>7, <2>8, <2>9 DEF TypeInv
<1>7. PresenterInv
  <2>1. presenter = IdlePresenter  BY DEF Init
  <2>2. IdlePresenter.pc = "idle" /\ IdlePresenter.t = 0  BY DEF IdlePresenter
  <2> QED  BY <2>1, <2>2 DEF PresenterInv
<1>8. WorkerInv
  <2>1. cache \in Seq(Entries) /\ Len(cache) = 0 /\ CacheHolds \in Nat  BY PlayerAssumption DEF Init
  <2> QED  BY <2>1 DEF WorkerInv, Init, IdleWorker
<1> QED  BY <1>6, <1>7, <1>8

LEMMA TypeCommand == TypeInv /\ (Command \/ Answer) => TypeInv' /\ UNCHANGED Unnamed
<1> SUFFICES ASSUME TypeInv, Command \/ Answer PROVE TypeInv' /\ UNCHANGED Unnamed  OBVIOUS
<1> USE DEF commandVars, soundVars, loopVars, screenVars, scrubVars, endVars, Unnamed
<1>1. CASE Command
  <2>1. PICK command \in Commands : todo' = Script(command)  BY <1>1 DEF Command
  <2>2. todo' \in Seq(Steps)  BY <2>1, ScriptSteps
  <2> QED  BY <1>1, <2>2 DEF TypeInv, Command, Free
<1>2. CASE Answer
  <2>1. Nothing \in [gen : Nat, t : Int]  BY DEF Nothing
  <2> QED  BY <1>2, <2>1 DEF TypeInv, Answer, Free
<1> QED  BY <1>1, <1>2

LEMMA TypeDecide == TypeInv /\ Decide => TypeInv' /\ UNCHANGED Unnamed
<1> SUFFICES ASSUME TypeInv, Decide PROVE TypeInv' /\ UNCHANGED Unnamed  OBVIOUS
<1>1. local.t \in Int /\ plan \in Plans /\ loop \in (Nat \X Nat) \cup {NoLoop}
  BY DEF TypeInv
<1>2. Clamp(local.t) \in Int /\ Start \in Int  BY <1>1, ClampThere, StartThere
<1>3. Clamp(Start) \in Int  BY <1>1, <1>2, ClampThere
<1>4. control' = control  BY DEF Decide
<1>5. todo' \in Seq(Steps) /\ (control' = Free => todo' = <<>>)
  <2>1. CASE Doing("here") /\ Then(Seeking(Clamp(local.t)))
    BY <1>2, <1>4, <2>1, SeekingSteps, Thens
  <2>2. CASE Doing("tostart") /\ Then(Seeking(Clamp(Start)))
    BY <1>3, <1>4, <2>2, SeekingSteps, Thens
  <2>3. CASE /\ Doing("rewind")
             /\ LET over == state = "ended" \/ local.t >= (IF loop # NoLoop THEN loop[2] ELSE End(plan))
                IN Then((IF over THEN Seeking(Clamp(Start)) \o <<Step("read")>> ELSE <<>>)
                        \o <<Step("prepare"), Step("start")>>)
    <3> DEFINE over == state = "ended" \/ local.t >= (IF loop # NoLoop THEN loop[2] ELSE End(plan))
               s == (IF over THEN Seeking(Clamp(Start)) \o <<Step("read")>> ELSE <<>>)
                    \o <<Step("prepare"), Step("start")>>
    <3>1. Seeking(Clamp(Start)) \in Seq(Steps)  BY <1>3, SeekingSteps
    <3>2. Step("read") \in Steps /\ Step("prepare") \in Steps /\ Step("start") \in Steps
      BY PlainSteps DEF StepKinds
    <3>3. s \in Seq(Steps)  BY <3>1, <3>2
    <3>4. Then(s) /\ Doing("rewind")  BY <2>3
    <3> HIDE DEF s
    <3> QED  BY <1>4, <3>3, <3>4, Thens
  <2> QED  BY <2>1, <2>2, <2>3 DEF Decide
<1> QED  BY <1>5 DEF TypeInv, Decide, soundVars, loopVars, screenVars, scrubVars, endVars, Unnamed

LEMMA TypeRead == TypeInv /\ (ReadClock \/ EndScrub) => TypeInv' /\ UNCHANGED Unnamed
<1> SUFFICES ASSUME TypeInv, ReadClock \/ EndScrub PROVE TypeInv' /\ UNCHANGED Unnamed  OBVIOUS
<1> USE DEF loopVars, screenVars, scrubVars, endVars, soundVars, Unnamed
<1>1. CASE ReadClock
  <2>1. todo' \in Seq(Steps) /\ (control' = Free => todo' = <<>>)
    BY <1>1, NoSteps, Thens DEF ReadClock
  <2>2. PICK heard \in Heard : /\ clock' = Read(clock, heard)
                               /\ local' = [gen |-> clock'.last[1], t |-> clock'.last[2]]
    BY <1>1 DEF ReadClock
  <2>3. heard \in Int /\ clock \in Clocks /\ (clock.mode = "running" => clock.anchors # <<>>)
    BY HeardThere DEF TypeInv
  <2>4. clock' \in Clocks /\ (clock'.mode = "running" => clock'.anchors # <<>>)
    BY <2>2, <2>3, ReadIsAClock
  <2>5. local' \in [gen : Nat, t : Int]  BY <2>2, <2>4 DEF Clocks
  <2> QED  BY <1>1, <2>1, <2>4, <2>5 DEF TypeInv, ReadClock
<1>2. CASE EndScrub
  <2> DEFINE s == IF scrubbing /\ Head(todo).t = 1 THEN <<Step("read"), Step("here")>> ELSE <<>>
  <2>1. s \in Seq(Steps)  BY PlainSteps DEF StepKinds
  <2>2. Doing("endscrub") /\ Then(s) /\ control' = control  BY <1>2 DEF EndScrub
  <2> HIDE DEF s
  <2>3. todo' \in Seq(Steps) /\ (control' = Free => todo' = <<>>)  BY <2>1, <2>2, Thens
  <2> QED  BY <1>2, <2>3 DEF TypeInv, EndScrub
<1> QED  BY <1>1, <1>2

LEMMA TypeFeederSteps ==
    TypeInv /\ (StopFeeder \/ JoinFeeder \/ StartFeeder \/ Retune) => TypeInv' /\ UNCHANGED Unnamed
<1> SUFFICES ASSUME TypeInv, StopFeeder \/ JoinFeeder \/ StartFeeder \/ Retune
             PROVE  TypeInv' /\ UNCHANGED Unnamed
  OBVIOUS
<1> USE DEF loopVars, screenVars, scrubVars, endVars, Unnamed
<1>1. CASE StopFeeder
  <2>1. todo' \in Seq(Steps) /\ (control' = Free => todo' = <<>>)
    BY <1>1, NoSteps, Thens DEF StopFeeder
  <2>2. feeder' \in Feeders \cup {NoFeeder}  BY <1>1 DEF TypeInv, StopFeeder, Feeders
  <2> QED  BY <1>1, <2>1, <2>2 DEF TypeInv, StopFeeder
<1>2. CASE JoinFeeder
  <2>1. todo' \in Seq(Steps) /\ (control' = Free => todo' = <<>>)
    BY <1>2, NoSteps, Thens DEF JoinFeeder
  <2>2. buffer' \in Buffers  BY <1>2 DEF TypeInv, JoinFeeder, Cleared, Buffers
  <2> QED  BY <1>2, <2>1, <2>2 DEF TypeInv, JoinFeeder
<1>3. CASE StartFeeder
  <2>1. todo' \in Seq(Steps) /\ (control' = Free => todo' = <<>>)
    BY <1>3, NoSteps, Thens DEF StartFeeder
  <2>2. buffer' \in Buffers  BY <1>3 DEF StartFeeder, Cleared, Buffers
  <2>3. feeder' \in Feeders  BY <1>3 DEF TypeInv, StartFeeder, Feeders
  <2> QED  BY <1>3, <2>1, <2>2, <2>3 DEF TypeInv, StartFeeder
<1>4. CASE Retune
  <2>1. todo' \in Seq(Steps) /\ (control' = Free => todo' = <<>>)
    BY <1>4, NoSteps, Thens DEF Retune
  <2>2. CASE feeder = NoFeeder
    <3>1. feeder' = NoFeeder  BY <1>4, <2>2 DEF Retune, NoFeeder
    <3> QED  BY <1>4, <2>1, <3>1 DEF TypeInv, Retune
  <2>3. CASE feeder \in Feeders
    <3>1. feeder' \in Feeders  BY <1>4, <2>3 DEF TypeInv, Retune, Feeders
    <3> QED  BY <1>4, <2>1, <3>1 DEF TypeInv, Retune
  <2> QED  BY <2>2, <2>3 DEF TypeInv
<1> QED  BY <1>1, <1>2, <1>3, <1>4

LEMMA TypeHold == TypeInv /\ (HoldClock \/ Pend) => TypeInv' /\ UNCHANGED Unnamed
<1> SUFFICES ASSUME TypeInv, HoldClock \/ Pend PROVE TypeInv' /\ UNCHANGED Unnamed  OBVIOUS
<1> USE DEF soundVars, loopVars, screenVars, scrubVars, endVars, Unnamed
<1>1. CASE Pend
  <2>1. todo' \in Seq(Steps) /\ (control' = Free => todo' = <<>>)
    BY <1>1, NoSteps, Thens DEF Pend
  <2>2. pending' \in Int  BY <1>1, Doings DEF Pend
  <2> QED  BY <1>1, <2>1, <2>2 DEF TypeInv, Pend
<1>2. CASE HoldClock
  <2>1. PICK kind \in {"hold", "rest", "holdend", "jump"} : Doing(kind)  BY <1>2 DEF HoldClock
  <2>2. Then(<<>>) /\ control' = control  BY <1>2 DEF HoldClock
  <2>3. todo' \in Seq(Steps) /\ (control' = Free => todo' = <<>>)  BY <2>1, <2>2, NoSteps, Thens
  <2>4. Head(todo).t \in Int  BY <2>1, Doings
  <2>5. local.t \in Int /\ local.gen \in Nat /\ generations \in Nat /\ plan \in Plans
    BY DEF TypeInv
  <2>6. End(plan) \in Int  BY <2>5, PlansAre, DurationThere DEF End
  <2>7. /\ clock' \in Clocks /\ clock'.mode = "paused" /\ local' \in [gen : Nat, t : Int]
        /\ generations' \in Nat /\ state' \in {"paused", "playing", "ended"}
    <3>1. CASE Doing("hold") \/ Doing("rest")
      <4>1. clock' = PausedAt(local.t, local.gen)
        BY <1>2, <3>1 DEF HoldClock, Doing
      <4> QED  BY <1>2, <2>5, <3>1, <4>1, PausedIsAClock DEF HoldClock, TypeInv, Doing
    <3>2. CASE Doing("holdend")
      <4>1. clock' = PausedAt(End(plan), local.gen)  BY <1>2, <3>2 DEF HoldClock, Doing
      <4> QED  BY <1>2, <2>5, <2>6, <3>2, <4>1, PausedIsAClock DEF HoldClock, TypeInv, Doing
    <3>3. CASE Doing("jump")
      <4>1. /\ clock' = PausedAt(Head(todo).t, generations + 1) /\ generations' = generations + 1
            /\ local' = [gen |-> generations + 1, t |-> Head(todo).t] /\ state' = state
        BY <1>2, <3>3 DEF HoldClock, Doing
      <4>2. generations + 1 \in Nat  BY <2>5
      <4>3. clock' \in Clocks /\ clock'.mode = "paused"  BY <2>4, <4>1, <4>2, PausedIsAClock
      <4> QED  BY <2>4, <4>1, <4>2, <4>3 DEF TypeInv
    <3> QED  BY <2>1, <3>1, <3>2, <3>3
  <2> QED  BY <1>2, <2>3, <2>7 DEF TypeInv, HoldClock
<1> QED  BY <1>1, <1>2

LEMMA TypeLanes == TypeInv /\ ChangeLanes => TypeInv' /\ UNCHANGED Unnamed
<1> SUFFICES ASSUME TypeInv, ChangeLanes PROVE TypeInv' /\ UNCHANGED Unnamed  OBVIOUS
<1>1. PICK kind \in {"clear", "prepare"} : Doing(kind)  BY DEF ChangeLanes
<1>2. Then(<<>>) /\ control' = control  BY DEF ChangeLanes
<1>3. todo' \in Seq(Steps) /\ (control' = Free => todo' = <<>>)  BY <1>1, <1>2, NoSteps, Thens
<1>4. AreLanes(lanes')
  <2>1. AreLanes(lanes) /\ IsPlan(plan)  BY PlansAre DEF TypeInv
  <2>2. AreLanes({})  BY DEF AreLanes
  <2>3. \A i, gen, tick : AreLanes(WithLane(lanes, plan, i, gen, tick))  BY <2>1, WithOneMore
  <2> QED  BY <2>1, <2>2, <2>3 DEF ChangeLanes
<1>5. state' \in {"paused", "playing", "ended"}  BY DEF ChangeLanes, TypeInv
<1> QED  BY <1>3, <1>4, <1>5 DEF TypeInv, ChangeLanes, AreLanes, soundVars, loopVars, scrubVars, endVars, Unnamed

LEMMA TypeStep1 == TypeInv /\ StepFrames => TypeInv' /\ UNCHANGED Unnamed
<1> SUFFICES ASSUME TypeInv, StepFrames PROVE TypeInv' /\ UNCHANGED Unnamed  OBVIOUS
<1> DEFINE at == PlaceAt(plan, local.t)
           to == Stepped(plan, at, Head(todo).t)
           target == TargetOf(plan, to)
           some == IF Moves(plan[to[1]]) THEN WithLane(lanes, plan, to[1], local.gen, to[2]) ELSE lanes
           held == \E l \in Serving(some, to[1], local.gen) :
                       Moves(plan[to[1]]) /\ l.base <= to[2] /\ to[2] < l.head
<1>1. Doing("step") /\ control' = control  BY DEF StepFrames
<1>2. IsPlan(plan) /\ plan \in Plans /\ local.t \in Int /\ local.gen \in Nat /\ AreLanes(lanes)
  BY PlansAre DEF TypeInv
<1>3. Head(todo).t \in {-1, 1}  BY <1>1, Doings DEF Carries
<1>4. at \in Places(plan) \cup {NoPlace}  BY <1>2, PlaceFound
<1>5. \/ at = NoPlace /\ Then(<<>>) /\ UNCHANGED <<local, lanes>>
      \/ /\ at # NoPlace /\ held
         /\ lanes' = some /\ local' = [local EXCEPT !.t = target]
         /\ Then(<<StepAt("pend", target), Step("hold")>>)
      \/ /\ at # NoPlace /\ ~held
         /\ lanes' = some /\ UNCHANGED local
         /\ Then(Seeking(Clamp(target)))
  BY DEF StepFrames
<1> HIDE DEF at
<1>6. at # NoPlace => to \in Places(plan)  BY <1>2, <1>3, <1>4, OneStep
<1> HIDE DEF to
<1>7. at # NoPlace => target \in Int  BY <1>2, <1>6, TargetThere
<1>8. AreLanes(some)  BY <1>2, WithOneMore
<1> HIDE DEF target, some, held
<1>9. /\ todo' \in Seq(Steps) /\ (control' = Free => todo' = <<>>)
      /\ AreLanes(lanes') /\ local' \in [gen : Nat, t : Int]
  <2>1. CASE at = NoPlace /\ Then(<<>>) /\ UNCHANGED <<local, lanes>>
    BY <1>1, <2>1, NoSteps, Thens DEF TypeInv
  <2>2. CASE /\ at # NoPlace /\ held
             /\ lanes' = some /\ local' = [local EXCEPT !.t = target]
             /\ Then(<<StepAt("pend", target), Step("hold")>>)
    <3>1. <<StepAt("pend", target), Step("hold")>> \in Seq(Steps)
      BY <1>7, <2>2, PlainSteps DEF StepKinds
    <3>2. todo' \in Seq(Steps) /\ (control' = Free => todo' = <<>>)
      BY <1>1, <2>2, <3>1, Thens
    <3> QED  BY <1>2, <1>7, <1>8, <2>2, <3>2 DEF TypeInv
  <2>3. CASE /\ at # NoPlace /\ ~held
             /\ lanes' = some /\ UNCHANGED local
             /\ Then(Seeking(Clamp(target)))
    <3>1. Clamp(target) \in Int  BY <1>2, <1>7, <2>3, ClampThere
    <3>2. todo' \in Seq(Steps) /\ (control' = Free => todo' = <<>>)
      BY <1>1, <2>3, <3>1, SeekingSteps, Thens
    <3> QED  BY <1>8, <2>3, <3>2 DEF TypeInv
  <2> QED  BY <1>5, <2>1, <2>2, <2>3
<1>10. /\ state' \in {"paused", "playing", "ended"}
       /\ UNCHANGED <<control, plan, soundVars, loopVars, shown, pending, scrubVars, presenter>>
  BY DEF StepFrames, TypeInv
<1> QED  BY <1>9, <1>10 DEF TypeInv, AreLanes, soundVars, loopVars, scrubVars, Unnamed

LEMMA TypeScrub == TypeInv /\ (Scrub \/ SetLoop) => TypeInv' /\ UNCHANGED Unnamed
<1> SUFFICES ASSUME TypeInv, Scrub \/ SetLoop PROVE TypeInv' /\ UNCHANGED Unnamed  OBVIOUS
<1>1. IsPlan(plan) /\ plan \in Plans  BY PlansAre DEF TypeInv
<1>2. CASE Scrub
  <2>1. todo' \in Seq(Steps) /\ (control' = Free => todo' = <<>>)
    BY <1>2, NoSteps, Thens DEF Scrub
  <2> DEFINE t == Clamp(Head(todo).t)
  <2>2. t \in Int
    <3>1. Head(todo).t \in Int  BY <1>2, Doings DEF Scrub
    <3> QED  BY <1>1, <3>1, ClampThere
  <2>3. pending' = t  BY <1>2 DEF Scrub
  <2>4. PICK heard \in Heard : clock' = PausedAt(t, Read(clock, heard).last[1])
    BY <1>2 DEF Scrub
  <2> HIDE DEF t
  <2>5. heard \in Int /\ clock \in Clocks /\ (clock.mode = "running" => clock.anchors # <<>>)
    BY HeardThere DEF TypeInv
  <2>6. Read(clock, heard) \in Clocks  BY <2>5, ReadIsAClock
  <2>7. Read(clock, heard).last[1] \in Nat  BY <2>6 DEF Clocks
  <2>8. clock' \in Clocks /\ clock'.mode = "paused"  BY <2>2, <2>4, <2>7, PausedIsAClock
  <2>9. /\ state' \in {"paused", "playing", "ended"} /\ scrubbing' = TRUE
        /\ UNCHANGED <<control, local, plan, feeder, generations, buffer, loopVars, lanes, cache, worker, endVars>>
    BY <1>2 DEF Scrub, TypeInv
  <2> QED  BY <2>1, <2>2, <2>3, <2>8, <2>9 DEF TypeInv, AreLanes, loopVars, endVars, Unnamed
<1>3. CASE SetLoop
  <2>1. todo' \in Seq(Steps) /\ (control' = Free => todo' = <<>>)
    BY <1>3, NoSteps, Thens DEF SetLoop
  <2>2. Doing("loop")  BY <1>3 DEF SetLoop
  <2>3. Head(todo).plan \in LoopRanges \cup {NoLoop}  BY <2>2, Doings DEF Carries
  <2>4. loop' \in (Nat \X Nat) \cup {NoLoop}  BY <1>1, <1>3, <2>3, LoopThere DEF SetLoop
  <2> QED  BY <1>3, <2>1, <2>4 DEF TypeInv, SetLoop, AreLanes, soundVars, screenVars, scrubVars, endVars, Unnamed
<1> QED  BY <1>2, <1>3

LEMMA TypePlan ==
    TypeInv /\ (Replan \/ SwapPlan \/ ClampLoop \/ SwitchSink) => TypeInv' /\ UNCHANGED Unnamed
<1> SUFFICES ASSUME TypeInv, Replan \/ SwapPlan \/ ClampLoop \/ SwitchSink
             PROVE  TypeInv' /\ UNCHANGED Unnamed
  OBVIOUS
<1> USE DEF soundVars, loopVars, screenVars, scrubVars, endVars, Unnamed
<1>1. CASE Replan
  <2> DEFINE new == Head(todo).plan
             s == <<Step("uncache"), [Step("swap") EXCEPT !.plan = new], Step("clamp")>>
  <2>1. Doing("replan") /\ Then(s \o AfterPlan(new)) /\ control' = control
        /\ lanes' = Remapped(lanes, plan, new, local.gen)
    BY <1>1 DEF Replan
  <2>2. new \in Plans  BY <2>1, Doings DEF Carries
  <2>3. [Step("swap") EXCEPT !.plan = new] \in Steps
    BY <2>2 DEF Step, Steps, StepKinds, Carries
  <2>4. Step("uncache") \in Steps /\ Step("clamp") \in Steps  BY PlainSteps DEF StepKinds
  <2>5. s \o AfterPlan(new) \in Seq(Steps)  BY <2>3, <2>4, AfterSteps
  <2> HIDE DEF s, new
  <2>6. todo' \in Seq(Steps) /\ (control' = Free => todo' = <<>>)  BY <2>1, <2>5, Thens
  <2>7. AreLanes(lanes')  BY <2>1, Renumbered DEF TypeInv
  <2> QED  BY <1>1, <2>6, <2>7 DEF TypeInv, Replan, AreLanes
<1>2. CASE SwapPlan
  <2>1. todo' \in Seq(Steps) /\ (control' = Free => todo' = <<>>)
    BY <1>2, NoSteps, Thens DEF SwapPlan
  <2>2. Doing("swap")  BY <1>2 DEF SwapPlan
  <2>3. Head(todo).plan \in Plans  BY <2>2, Doings DEF Carries
  <2> QED  BY <1>2, <2>1, <2>3 DEF TypeInv, SwapPlan, AreLanes
<1>3. CASE ClampLoop
  <2>1. <<Step("relock")>> \in Seq(Steps)  BY PlainSteps DEF StepKinds
  <2>2. Doing("clamp") /\ control' = control /\ (Then(<<>>) \/ Then(<<Step("relock")>>))
    BY <1>3 DEF ClampLoop
  <2>3. todo' \in Seq(Steps) /\ (control' = Free => todo' = <<>>)
    BY <2>1, <2>2, NoSteps, Thens
  <2> QED  BY <1>3, <2>3 DEF TypeInv, ClampLoop, AreLanes
<1>4. CASE SwitchSink
  <2>1. PICK kind \in {"shut", "open"} : Doing(kind)  BY <1>4 DEF SwitchSink
  <2>2. Then(<<>>) /\ control' = control  BY <1>4 DEF SwitchSink
  <2>3. todo' \in Seq(Steps) /\ (control' = Free => todo' = <<>>)  BY <2>1, <2>2, NoSteps, Thens
  <2>4. buffer' \in Buffers
    <3>1. Cleared \in Buffers  BY DEF Cleared, Buffers
    <3> QED  BY <1>4, <3>1 DEF SwitchSink, TypeInv
  <2> QED  BY <1>4, <2>3, <2>4 DEF TypeInv, SwitchSink, AreLanes
<1> QED  BY <1>1, <1>2, <1>3, <1>4

LEMMA TypeUncache ==
    TypeInv /\ WorkerInv /\ Uncache => TypeInv' /\ WorkerInv' /\ UNCHANGED <<presenter, worker>>
<1> SUFFICES ASSUME TypeInv, WorkerInv, Uncache
             PROVE  TypeInv' /\ WorkerInv' /\ UNCHANGED <<presenter, worker>>
  OBVIOUS
<1> USE DEF soundVars, loopVars, screenVars, endVars
<1>1. todo' \in Seq(Steps) /\ (control' = Free => todo' = <<>>)  BY NoSteps, Thens DEF Uncache
<1>2. TypeInv'  BY <1>1 DEF TypeInv, Uncache, AreLanes
<1>3. <<>> \in Seq(Entries) /\ Len(<<>>) = 0 /\ CacheHolds \in Nat  BY PlayerAssumption
<1>4. cache' = <<>> /\ UNCHANGED <<presenter, worker>>  BY DEF Uncache
<1> QED  BY <1>2, <1>3, <1>4 DEF WorkerInv

-----------------------------------------------------------------------------

\* A feeder with some of its fields set is one again.
LEMMA FeederSet ==
    ASSUME NEW f \in Feeders, NEW pc \in {"preroll", "walking", "hearing", "done"},
           NEW at \in Int, NEW gen \in Nat, NEW written \in Nat,
           NEW chains \in Plans, NEW retune \in Plans \cup {<<>>}
    PROVE  /\ [f EXCEPT !.pc = pc] \in Feeders
           /\ [f EXCEPT !.pc = pc, !.at = at, !.gen = gen, !.written = written] \in Feeders
           /\ [f EXCEPT !.gen = gen, !.at = at, !.written = written] \in Feeders
           /\ [f EXCEPT !.written = written, !.retune = retune, !.chains = chains] \in Feeders
BY Zenon DEF Feeders

LEMMA TypeFeeds == TypeInv /\ (Feeds \/ Pull) => TypeInv' /\ UNCHANGED Unnamed
<1> SUFFICES ASSUME TypeInv, Feeds \/ Pull PROVE TypeInv' /\ UNCHANGED Unnamed  OBVIOUS
<1> USE DEF commandVars, loopVars, screenVars, scrubVars, endVars, Unnamed
<1>1. feeder.pc \in {"preroll", "walking", "hearing", "done"} => feeder \in Feeders
  BY DEF TypeInv, NoFeeder
<1>2. feeder \in Feeders => Over(feeder) \in Feeders
  <2>1. 0 \in Int /\ 0 \in Nat  OBVIOUS
  <2>2. feeder \in Feeders => feeder.chains \in Plans /\ feeder.retune \in Plans \cup {<<>>}  BY DEF Feeders
  <2> QED  BY <2>1, <2>2, FeederSet DEF Over
<1>3. CASE Preroll
  <2> DEFINE anchor == [frame |-> Written, at |-> feeder.at, gen |-> feeder.gen]
  <2>1. feeder \in Feeders /\ Written \in Nat  BY <1>1, <1>3 DEF Preroll, Written, TypeInv, Buffers
  <2>2. anchor \in Anchors /\ anchor.gen \in Nat /\ anchor.at \in Int
    BY <2>1 DEF Anchors, Feeders
  <2>3. clock' = RunningFrom(anchor) /\ feeder' = [feeder EXCEPT !.pc = "walking"]
    BY <1>3 DEF Preroll
  <2> HIDE DEF anchor
  <2>4. clock' \in Clocks /\ clock'.anchors # <<>>  BY <2>2, <2>3 DEF RunningFrom, Clocks
  <2>5. feeder' \in Feeders  BY <2>1, <2>3 DEF Feeders
  <2> QED  BY <1>3, <2>4, <2>5 DEF TypeInv, Preroll, AreLanes
<1>4. CASE Walk
  <2>1. feeder \in Feeders /\ Written \in Nat /\ generations \in Nat /\ clock \in Clocks
    BY <1>1, <1>4 DEF Walk, Written, TypeInv, Buffers
  <2>2. CASE feeder' = [feeder EXCEPT !.pc = "hearing"] /\ UNCHANGED <<clock, generations, buffer>>
    <3>1. feeder' \in Feeders  BY <2>1, <2>2 DEF Feeders
    <3> QED  BY <1>4, <2>2, <3>1 DEF TypeInv, Walk, AreLanes
  <2>3. CASE /\ loop # NoLoop /\ generations' = generations + 1
             /\ feeder' = [feeder EXCEPT !.gen = generations + 1, !.at = loop[1], !.written = 0]
             /\ clock' = [clock EXCEPT !.anchors = Append(@,
                             [frame |-> Written, at |-> loop[1], gen |-> generations + 1])]
             /\ UNCHANGED buffer
    <3> DEFINE anchor == [frame |-> Written, at |-> loop[1], gen |-> generations + 1]
    <3>1. loop[1] \in Nat  BY <2>3 DEF TypeInv
    <3>2. feeder' \in Feeders
      <4>1. generations + 1 \in Nat /\ loop[1] \in Int /\ 0 \in Nat  BY <2>1, <3>1
      <4>2. feeder.pc \in {"preroll", "walking", "hearing", "done"} /\ feeder.chains \in Plans
            /\ feeder.retune \in Plans \cup {<<>>}
        BY <2>1 DEF Feeders
      <4> QED  BY <2>1, <2>3, <4>1, <4>2, FeederSet
    <3>3. anchor \in Anchors  BY <2>1, <3>1 DEF Anchors
    <3>4. clock' = [clock EXCEPT !.anchors = Append(clock.anchors, anchor)]  BY <2>3
    <3> HIDE DEF anchor
    <3>5. clock.anchors \in Seq(Anchors)  BY <2>1 DEF Clocks
    <3>6. Append(clock.anchors, anchor) \in Seq(Anchors) /\ Append(clock.anchors, anchor) # <<>>
      BY <3>3, <3>5
    <3>7. clock' \in Clocks /\ clock'.anchors # <<>>  BY <2>1, <3>4, <3>6 DEF Clocks
    <3> QED  BY <1>4, <2>1, <2>3, <3>2, <3>7 DEF TypeInv, Walk, AreLanes
  <2>4. CASE /\ feeder' = [feeder EXCEPT !.written = @ + 1, !.retune = <<>>,
                               !.chains = IF feeder.retune # <<>> THEN feeder.retune ELSE @]
             /\ buffer' = [buffer EXCEPT !.queued = @ + 1]
             /\ UNCHANGED <<clock, generations>>
    <3> DEFINE chains == IF feeder.retune # <<>> THEN feeder.retune ELSE feeder.chains
               written == feeder.written + 1
    <3>1. feeder' \in Feeders
      <4>1. chains \in Plans /\ written \in Nat /\ <<>> \in Plans \cup {<<>>}
            /\ feeder.pc \in {"preroll", "walking", "hearing", "done"}
            /\ feeder.at \in Int /\ feeder.gen \in Nat
        BY <2>1 DEF Feeders
      <4>2. feeder' = [feeder EXCEPT !.written = written, !.retune = <<>>, !.chains = chains]
        BY <2>4
      <4> HIDE DEF chains, written
      <4> QED  BY <2>1, <4>1, <4>2, FeederSet
    <3>2. buffer' \in Buffers  BY <2>4 DEF TypeInv, Buffers
    <3> QED  BY <1>4, <2>4, <3>1, <3>2 DEF TypeInv, Walk, AreLanes
  <2> QED  BY <1>4, <2>2, <2>3, <2>4 DEF Walk
<1>5. CASE HearOut
  <2>1. feeder' \in Feeders  BY <1>1, <1>2, <1>5 DEF HearOut
  <2> QED  BY <1>5, <2>1 DEF TypeInv, HearOut, AreLanes
<1>6. CASE FeederStops
  <2>1. feeder' \in Feeders  BY <1>1, <1>2, <1>6 DEF FeederStops
  <2> QED  BY <1>6, <2>1 DEF TypeInv, FeederStops, AreLanes
<1>7. CASE Pull
  <2>1. buffer' \in Buffers  BY <1>7 DEF Pull, TypeInv, Buffers
  <2> QED  BY <1>7, <2>1 DEF TypeInv, Pull, AreLanes
<1> QED  BY <1>3, <1>4, <1>5, <1>6, <1>7 DEF Feeds

LEMMA TypeDecodes == TypeInv /\ Decodes => TypeInv' /\ UNCHANGED Unnamed
<1> SUFFICES ASSUME TypeInv, Decodes PROVE TypeInv' /\ UNCHANGED Unnamed  OBVIOUS
<1>1. PICK l \in lanes : /\ l.head - l.base < RingHolds
                         /\ lanes' = (lanes \ {l}) \cup {[l EXCEPT !.head = @ + 1]}
  BY DEF Decodes
<1> DEFINE m == [l EXCEPT !.head = l.head + 1]
<1>2. AreLanes(lanes) /\ IsLane(l) /\ RingHolds \in Nat  BY PlayerAssumption DEF TypeInv, AreLanes
<1>3. DOMAIN m = DOMAIN l /\ m.base = l.base /\ m.head = l.head + 1  BY <1>2 DEF IsLane
<1>4. lanes' = (lanes \ {l}) \cup {m}  BY <1>1
<1> HIDE DEF m
<1>5. IsLane(m)  BY <1>1, <1>2, <1>3 DEF IsLane
<1>6. AreLanes(lanes')  BY <1>2, <1>4, <1>5 DEF AreLanes
<1>7. UNCHANGED <<commandVars, plan, soundVars, loopVars, shown, pending, scrubVars, endVars>>
  BY DEF Decodes
<1> QED  BY <1>6, <1>7 DEF TypeInv, AreLanes, commandVars, soundVars, loopVars, scrubVars, endVars, Unnamed

\* A lane from which a picture was taken is one still.
LEMMA LaneTaken ==
    ASSUME NEW l, IsLane(l), NEW tick \in Int, Due(l, tick) # None
    PROVE  IsLane([l EXCEPT !.base = Due(l, tick) + 1, !.shown = Due(l, tick)])
<1> DEFINE due == Due(l, tick)
           last == l.head - 1
           m == [l EXCEPT !.base = due + 1, !.shown = due]
<1>1. l.base \in Int /\ l.head \in Int /\ last \in Int /\ RingHolds \in Nat
  BY PlayerAssumption DEF IsLane
<1>2. due = Min({tick, last}) /\ l.base <= tick /\ l.base < l.head  BY DEF Due
<1>3. last = l.head - 1  OBVIOUS
<1>4. DOMAIN m = DOMAIN l /\ m.base = due + 1 /\ m.head = l.head  BY DEF IsLane
<1> HIDE DEF last, due, m
<1>5. due \in {tick, last} /\ due <= last  BY <1>1, <1>2, LesserOf
<1>6. due \in Int /\ l.base <= due /\ due + 1 <= l.head  BY <1>1, <1>2, <1>3, <1>5
<1>7. IsLane(m)  BY <1>1, <1>4, <1>6 DEF IsLane
<1> QED  BY <1>7 DEF m, due

LEMMA LanesAdvance ==
    ASSUME NEW some, AreLanes(some), NEW p, IsPlan(p), NEW i, NEW gen, NEW t
    PROVE  AreLanes(Advanced(some, p, i, gen, t))
<1>1. ASSUME NEW lot, AreLanes(lot) PROVE \A k, g, tick : AreLanes(WithLane(lot, p, k, g, tick))
  BY <1>1, WithOneMore
<1> DEFINE near == TimelineEnd(p[i]) - t < Prefetch
           k == IF near THEN IndexAt(p, TimelineEnd(p[i])) ELSE 0
           then == IF k = 0 THEN some ELSE WithLane(some, p, k, gen, SourceAt(p[k], p[k].start))
           round == loop # NoLoop /\ loop[2] - t < Prefetch /\ t < loop[2]
           j == IF round THEN IndexAt(p, loop[1]) ELSE 0
<1>2. AreLanes(then)  BY <1>1
<1>3. Prefetched(some, p, i, gen, t) =
        IF j = 0 THEN then ELSE WithLane(then, p, j, gen + 1, SourceAt(p[j], loop[1]))
  BY DEF Prefetched
<1> HIDE DEF then, j
<1>4. AreLanes(Prefetched(some, p, i, gen, t))  BY <1>1, <1>2, <1>3
<1> QED  BY <1>4 DEF Advanced, Retained, AreLanes

LEMMA TypeLook ==
    TypeInv /\ PresenterInv /\ Look => TypeInv' /\ PresenterInv' /\ UNCHANGED <<worker, cache>>
<1> SUFFICES ASSUME TypeInv, PresenterInv, Look
             PROVE  TypeInv' /\ PresenterInv' /\ UNCHANGED <<worker, cache>>
  OBVIOUS
<1>1. PICK heard \in Heard :
        /\ clock' = Read(clock, heard)
        /\ presenter' = [IdlePresenter EXCEPT !.pc = "due", !.gen = clock'.last[1], !.t = clock'.last[2]]
  BY DEF Look
<1>2. heard \in Int /\ clock \in Clocks /\ (clock.mode = "running" => clock.anchors # <<>>)
  BY HeardThere DEF TypeInv
<1>3. clock' \in Clocks /\ (clock'.mode = "running" => clock'.anchors # <<>>)
  BY <1>1, <1>2, ReadIsAClock
<1>4. clock'.last[2] \in Int  BY <1>3 DEF Clocks
<1>5. DOMAIN presenter' = DOMAIN IdlePresenter /\ presenter'.pc = "due" /\ presenter'.t = clock'.last[2]
  BY <1>1, Zenon DEF IdlePresenter
<1>6. PresenterInv'  BY <1>4, <1>5 DEF PresenterInv
<1>7. UNCHANGED <<commandVars, plan, feeder, generations, buffer, loopVars, screenVars, scrubVars>>
  BY DEF Look
<1> QED
  BY <1>3, <1>6, <1>7 DEF TypeInv, AreLanes, commandVars, loopVars, screenVars, scrubVars

LEMMA TypeFindDue ==
    TypeInv /\ PresenterInv /\ (FindDue \/ Put \/ Tell)
        => TypeInv' /\ PresenterInv' /\ UNCHANGED <<worker, cache>>
<1> SUFFICES ASSUME TypeInv, PresenterInv, FindDue \/ Put \/ Tell
             PROVE  TypeInv' /\ PresenterInv' /\ UNCHANGED <<worker, cache>>
  OBVIOUS
<1>1. DOMAIN IdlePresenter = DOMAIN IdlePresenter /\ IdlePresenter.pc = "idle" /\ IdlePresenter.t = 0
  BY DEF IdlePresenter
<1>2. presenter' = IdlePresenter => PresenterInv'  BY <1>1 DEF PresenterInv
<1>3. CASE FindDue
  <2> DEFINE i == IndexAt(plan, presenter.t)
  <2>1. i \in {0} \cup DOMAIN plan  BY PlansAre, IndexThere DEF TypeInv
  <2>2. \/ presenter' = IdlePresenter
        \/ /\ i # 0 /\ HasPictures(plan[i])
           /\ presenter' = [presenter EXCEPT !.pc = "take", !.plan = plan, !.i = i]
    BY <1>3 DEF FindDue
  <2>3. UNCHANGED <<commandVars, plan, soundVars, loopVars, lanes, pending, scrubVars>>
    BY <1>3 DEF FindDue
  <2> HIDE DEF i
  <2>4. PresenterInv'
    <3>1. CASE /\ i # 0 /\ HasPictures(plan[i])
               /\ presenter' = [presenter EXCEPT !.pc = "take", !.plan = plan, !.i = i]
      <4>1. DOMAIN presenter = {"pc", "gen", "t", "plan", "i", "tick", "source"}
        BY DEF PresenterInv, IdlePresenter
      <4>2. /\ DOMAIN presenter' = DOMAIN presenter /\ presenter'.pc = "take"
            /\ presenter'.plan = plan /\ presenter'.i = i /\ presenter'.t = presenter.t
        BY <3>1, <4>1, Zenon
      <4> QED  BY <2>1, <3>1, <4>2 DEF PresenterInv, TypeInv
    <3> QED  BY <1>2, <2>2, <3>1
  <2> QED  BY <2>3, <2>4 DEF TypeInv, AreLanes, commandVars, soundVars, loopVars, scrubVars
<1>4. CASE Put
  <2>1. presenter' \in {IdlePresenter, [IdlePresenter EXCEPT !.pc = "telling"]}  BY <1>4 DEF Put
  <2>2. PresenterInv'
    <3>1. CASE presenter' = [IdlePresenter EXCEPT !.pc = "telling"]
      <4>1. DOMAIN presenter' = DOMAIN IdlePresenter /\ presenter'.pc = "telling" /\ presenter'.t = 0
        BY <3>1 DEF IdlePresenter
      <4> QED  BY <4>1 DEF PresenterInv
    <3> QED  BY <1>2, <2>1, <3>1
  <2>3. pending' \in Int  BY <1>4 DEF Put, None, TypeInv
  <2>4. UNCHANGED <<commandVars, plan, soundVars, loopVars, lanes, scrubVars>>
    BY <1>4 DEF Put
  <2> QED  BY <2>2, <2>3, <2>4 DEF TypeInv, AreLanes, commandVars, soundVars, loopVars, scrubVars
<1>5. CASE Tell
  <2>1. UNCHANGED <<commandVars, plan, soundVars, loopVars, screenVars, scrubVars>> /\ presenter' = IdlePresenter
    BY <1>5 DEF Tell
  <2> QED
    BY <1>2, <2>1 DEF TypeInv, AreLanes, commandVars, soundVars, loopVars, screenVars, scrubVars
<1> QED  BY <1>3, <1>4, <1>5

LEMMA TypeTake ==
    TypeInv /\ PresenterInv /\ Take => TypeInv' /\ PresenterInv' /\ UNCHANGED <<worker, cache>>
<1> SUFFICES ASSUME TypeInv, PresenterInv, Take
             PROVE  TypeInv' /\ PresenterInv' /\ UNCHANGED <<worker, cache>>
  OBVIOUS
<1> DEFINE p == presenter.plan
           i == presenter.i
           gen == presenter.gen
           at == SourceAt(p[i], presenter.t)
           last == p[i].to - 1
           tick == Min({at, last})
<1>1. /\ p \in Plans /\ i \in DOMAIN p /\ HasPictures(p[i]) /\ presenter.t \in Int
      /\ IsPlan(p) /\ IsSegment(p[i]) /\ AreLanes(lanes)
  BY PlansAre, PlanShape DEF Take, PresenterInv, TypeInv
<1>2. tick \in Int
  <2>1. at \in Int  BY <1>1, TickThere
  <2>2. last \in Int  BY <1>1, SegmentFields
  <2> HIDE DEF at, last
  <2> QED  BY <2>1, <2>2, Lesser
<1>3. \E kept \in KeptUp(lanes, p[i], i, gen, tick) :
        LET have == WithLane(kept, p, i, gen, tick)
            lane == CHOOSE l \in Serving(have, i, gen) : TRUE
            due == Due(lane, tick)
            took == IF due = None THEN lane ELSE [lane EXCEPT !.base = due + 1, !.shown = due]
            again == ~Moves(p[i]) /\ took.shown # None
                     /\ shown.position # ShownAt(p[i], presenter.t, took.shown)
        IN /\ lanes' = Advanced((have \ {lane}) \cup {took}, p, i, gen, presenter.t)
           /\ presenter' = IF due # None \/ again
                THEN [presenter EXCEPT !.pc = IF due # None THEN "put" ELSE "putagain",
                                       !.tick = took.shown,
                                       !.source = took.of.source]
                ELSE IdlePresenter
  BY DEF Take
<1> HIDE DEF tick
<1>4. PICK kept \in KeptUp(lanes, p[i], i, gen, tick) :
        LET have == WithLane(kept, p, i, gen, tick)
            lane == CHOOSE l \in Serving(have, i, gen) : TRUE
            due == Due(lane, tick)
            took == IF due = None THEN lane ELSE [lane EXCEPT !.base = due + 1, !.shown = due]
            again == ~Moves(p[i]) /\ took.shown # None
                     /\ shown.position # ShownAt(p[i], presenter.t, took.shown)
        IN /\ lanes' = Advanced((have \ {lane}) \cup {took}, p, i, gen, presenter.t)
           /\ presenter' = IF due # None \/ again
                THEN [presenter EXCEPT !.pc = IF due # None THEN "put" ELSE "putagain",
                                       !.tick = took.shown,
                                       !.source = took.of.source]
                ELSE IdlePresenter
  BY <1>3
<1> DEFINE have == WithLane(kept, p, i, gen, tick)
           lane == CHOOSE l \in Serving(have, i, gen) : TRUE
           due == Due(lane, tick)
           took == IF due = None THEN lane ELSE [lane EXCEPT !.base = due + 1, !.shown = due]
<1>5. AreLanes(kept)  BY <1>1, LanesKeptUp
<1>6. AreLanes(have) /\ Serving(have, i, gen) # {}  BY <1>1, <1>5, WithOneMore
<1>7. lane \in Serving(have, i, gen)  BY <1>6
<1>8. IsLane(lane)  BY <1>6, <1>7 DEF Serving, AreLanes
<1>9. IsLane(took)  BY <1>2, <1>8, LaneTaken
<1>10. lanes' = Advanced((have \ {lane}) \cup {took}, p, i, gen, presenter.t)  BY <1>4
<1>11. \/ presenter' = IdlePresenter
       \/ \E pc \in {"put", "putagain"} :
              presenter' = [presenter EXCEPT !.pc = pc, !.tick = took.shown, !.source = took.of.source]
  BY <1>4
<1>12. UNCHANGED <<commandVars, plan, soundVars, loopVars, shown, pending, scrubVars>>
  BY DEF Take
<1> HIDE DEF have, lane, took
<1>13. AreLanes((have \ {lane}) \cup {took})  BY <1>6, <1>9 DEF AreLanes
<1>14. AreLanes(lanes')  BY <1>1, <1>10, <1>13, LanesAdvance
<1>15. PresenterInv'
  <2>1. CASE presenter' = IdlePresenter
    <3>1. IdlePresenter.pc = "idle" /\ IdlePresenter.t = 0  BY DEF IdlePresenter
    <3> QED  BY <2>1, <3>1 DEF PresenterInv
  <2>2. CASE \E pc \in {"put", "putagain"} :
              presenter' = [presenter EXCEPT !.pc = pc, !.tick = took.shown, !.source = took.of.source]
    <3>1. PICK pc \in {"put", "putagain"} :
              presenter' = [presenter EXCEPT !.pc = pc, !.tick = took.shown, !.source = took.of.source]
      BY <2>2
    <3>2. DOMAIN presenter = {"pc", "gen", "t", "plan", "i", "tick", "source"}
      BY DEF PresenterInv, IdlePresenter
    <3>3. DOMAIN presenter' = DOMAIN presenter /\ presenter'.pc = pc /\ presenter'.t = presenter.t
      BY <3>1, <3>2, Zenon
    <3> QED  BY <1>1, <3>1, <3>3 DEF PresenterInv
  <2> QED  BY <1>11, <2>1, <2>2
<1> QED
  BY <1>12, <1>14, <1>15 DEF TypeInv, AreLanes, commandVars, soundVars, loopVars, scrubVars

\* What the scrub worker shows, and where it goes on afterwards
WorkerFields == {"pc", "t", "i", "of", "tick", "next", "left", "picture", "back", "up", "toward"}

LEMMA WorkerRests ==
    /\ DOMAIN IdleWorker = WorkerFields /\ IdleWorker.pc = "idle" /\ IdleWorker.i = 0
    /\ IdleWorker.back = "idle"
    /\ \A w : /\ DOMAIN Rested(w) = WorkerFields /\ Rested(w).pc = "idle" /\ Rested(w).i = 0
              /\ Rested(w).back = "idle"
BY Zenon DEF IdleWorker, Rested, WorkerFields

LEMMA WorkerShows ==
    ASSUME NEW w, DOMAIN w = WorkerFields, NEW i, NEW picture, NEW back
    PROVE  /\ DOMAIN Showing(w, i, picture, back) = WorkerFields
           /\ Showing(w, i, picture, back).pc = "show" /\ Showing(w, i, picture, back).i = i
           /\ Showing(w, i, picture, back).back = back /\ Showing(w, i, picture, back).of = w.of
BY Zenon DEF Showing, WorkerFields

LEMMA Fits ==
    ASSUME WorkerInv, NEW entry \in Entries
    PROVE  Inserted(entry) \in Seq(Entries) /\ Len(Inserted(entry)) <= CacheHolds
<1> DEFINE at == Cached(entry.segment, entry.tick)
           put == [cache EXCEPT ![Min(at)] = entry]
           all == IF at = {} THEN Append(cache, entry) ELSE put
<1>1. cache \in Seq(Entries) /\ Len(cache) <= CacheHolds /\ CacheHolds \in Nat \ {0}
  BY PlayerAssumption DEF WorkerInv
<1>2. Len(cache) \in Nat /\ DOMAIN cache = 1..Len(cache)  BY <1>1
<1>3. at # {} => Min(at) \in DOMAIN cache
  <2>1. at \subseteq DOMAIN cache  BY DEF Cached
  <2>2. IsFiniteSet(DOMAIN cache) /\ DOMAIN cache \subseteq Int  BY <1>2, FS_Interval
  <2> HIDE DEF at
  <2> QED  BY <2>1, <2>2, FS_Subset, MinIsIn
<1>4. Inserted(entry) = IF Len(all) > CacheHolds THEN Tail(all) ELSE all  BY DEF Inserted
<1> HIDE DEF at
<1>5. at # {} => put \in Seq(Entries) /\ Len(put) = Len(cache)
  BY <1>1, <1>2, <1>3
<1> HIDE DEF put
<1>6. all \in Seq(Entries) /\ Len(all) \in Nat /\ Len(all) <= Len(cache) + 1
  BY <1>1, <1>2, <1>5
<1> HIDE DEF all
<1>7. Len(all) > CacheHolds => all # <<>> /\ Tail(all) \in Seq(Entries) /\ Len(Tail(all)) = Len(all) - 1
  BY <1>1, <1>6
<1> QED  BY <1>1, <1>2, <1>4, <1>6, <1>7

LEMMA WorkerReturns ==
    ASSUME WorkerInv, worker' = Returned(worker), UNCHANGED cache
    PROVE  WorkerInv'
<1>1. DOMAIN worker = WorkerFields  BY WorkerRests DEF WorkerInv
<1>2. CASE worker.back = "idle"
  <2>1. worker' = Rested(worker)  BY <1>2 DEF Returned
  <2> QED  BY <2>1, WorkerRests DEF WorkerInv
<1>3. CASE worker.back = "window"
  <2>1. worker' = [worker EXCEPT !.pc = worker.back, !.picture = Black]  BY <1>3 DEF Returned
  <2>2. /\ DOMAIN worker' = WorkerFields /\ worker'.pc = "window" /\ worker'.i = worker.i
        /\ worker'.back = worker.back /\ worker'.of = worker.of
    BY <1>1, <1>3, <2>1, Zenon DEF WorkerFields
  <2> QED  BY <1>3, <2>2, WorkerRests DEF WorkerInv
<1> QED  BY <1>2, <1>3 DEF WorkerInv

LEMMA WorkerGoes ==
    ASSUME WorkerInv, NEW pc \in {"put", "telling", "gone"}, worker' = [worker EXCEPT !.pc = pc],
           UNCHANGED cache
    PROVE  WorkerInv'
<1>1. DOMAIN worker = WorkerFields  BY WorkerRests DEF WorkerInv
<1>2. /\ DOMAIN worker' = WorkerFields /\ worker'.pc = pc /\ worker'.i = worker.i
      /\ worker'.back = worker.back /\ worker'.of = worker.of
  BY <1>1, Zenon DEF WorkerFields
<1> QED  BY <1>2, WorkerRests DEF WorkerInv

LEMMA TypeNextScrub ==
    TypeInv /\ WorkerInv /\ (NextScrub \/ WorkerGone) => TypeInv' /\ WorkerInv' /\ UNCHANGED presenter
<1> SUFFICES ASSUME TypeInv, WorkerInv, NextScrub \/ WorkerGone
             PROVE  TypeInv' /\ WorkerInv' /\ UNCHANGED presenter
  OBVIOUS
<1>1. UNCHANGED <<commandVars, plan, soundVars, loopVars, screenVars, scrubbing, cache, endVars>>
  BY DEF NextScrub, WorkerGone
<1>2. TypeInv' /\ UNCHANGED presenter
  BY <1>1 DEF TypeInv, AreLanes, commandVars, soundVars, loopVars, screenVars, endVars
<1>3. CASE WorkerGone  BY <1>1, <1>2, <1>3, WorkerGoes DEF WorkerGone
<1>4. CASE NextScrub
  <2> DEFINE i == IndexAt(plan, slot.target)
             tick == Min({SourceAt(plan[i], slot.target), plan[i].to - 1})
             at == AtOrBefore(plan[i].source, tick)
             toward == IF i # 0 /\ plan[i].motion = "reverse" THEN -slot.direction ELSE slot.direction
             serving == [IdleWorker EXCEPT !.t = slot.target, !.toward = toward]
             where == IF at # Nowhere THEN at ELSE After(plan[i].source, tick)
  <2>1. worker' = IF i = 0 \/ ~HasPictures(plan[i]) THEN Showing(serving, 0, Black, "idle")
                  ELSE [serving EXCEPT !.pc = "cache", !.i = i, !.of = plan[i], !.tick = where]
    BY <1>4 DEF NextScrub
  <2>2. i \in {0} \cup DOMAIN plan  BY PlansAre, IndexThere DEF TypeInv
  <2>3. i # 0 => i \in Nat /\ plan[i].source \in DOMAIN FramesOf
    BY <2>2, PlansAre, PlanShape, SegmentFields DEF TypeInv
  <2> HIDE DEF i, toward, where
  <2>4. DOMAIN serving = WorkerFields /\ serving.back = "idle"
    BY Zenon DEF IdleWorker, WorkerFields
  <2> HIDE DEF serving
  <2>5. CASE i = 0 \/ ~HasPictures(plan[i])
    <3>1. worker' = Showing(serving, 0, Black, "idle")  BY <2>1, <2>5
    <3>2. /\ DOMAIN worker' = WorkerFields /\ worker'.pc = "show" /\ worker'.i = 0
          /\ worker'.back = "idle"
      BY <2>4, <3>1, WorkerShows
    <3> QED  BY <1>1, <1>2, <3>2, WorkerRests DEF WorkerInv
  <2>6. CASE ~(i = 0 \/ ~HasPictures(plan[i]))
    <3>1. worker' = [serving EXCEPT !.pc = "cache", !.i = i, !.of = plan[i], !.tick = where]
      BY <2>1, <2>6
    <3>2. /\ DOMAIN worker' = WorkerFields /\ worker'.pc = "cache" /\ worker'.i = i
          /\ worker'.back = "idle" /\ worker'.of = plan[i]
      BY <2>4, <3>1, Zenon DEF WorkerFields
    <3> QED  BY <1>1, <1>2, <2>3, <2>6, <3>2, WorkerRests DEF WorkerInv
  <2> QED  BY <2>5, <2>6
<1> QED  BY <1>3, <1>4

LEMMA TypeLookInCache ==
    TypeInv /\ WorkerInv /\ LookInCache => TypeInv' /\ WorkerInv' /\ UNCHANGED presenter
<1> SUFFICES ASSUME TypeInv, WorkerInv, LookInCache
             PROVE  TypeInv' /\ WorkerInv' /\ UNCHANGED presenter
  OBVIOUS
<1>1. UNCHANGED <<commandVars, plan, soundVars, loopVars, screenVars, scrubbing, cache, endVars>>
  BY DEF LookInCache
<1>2. TypeInv' /\ UNCHANGED presenter
  BY <1>1 DEF TypeInv, AreLanes, commandVars, soundVars, loopVars, screenVars, endVars
<1>3. DOMAIN worker = WorkerFields /\ worker.of.source \in DOMAIN FramesOf
  BY WorkerRests DEF WorkerInv, LookInCache
<1>4. \/ \E picture : worker' = Showing(worker, worker.i, picture, "idle")
      \/ \E from, left : worker' = [worker EXCEPT !.pc = "window", !.next = from, !.left = left]
  BY DEF LookInCache
<1>5. /\ DOMAIN worker' = WorkerFields /\ worker'.pc \in {"show", "window"} /\ worker'.i = worker.i
      /\ worker'.back \in {worker.back, "idle"} /\ worker'.of = worker.of
  <2>1. CASE \E picture : worker' = Showing(worker, worker.i, picture, "idle")
    BY <1>3, <2>1, WorkerShows
  <2>2. CASE \E from, left : worker' = [worker EXCEPT !.pc = "window", !.next = from, !.left = left]
    <3>1. PICK from, left : worker' = [worker EXCEPT !.pc = "window", !.next = from, !.left = left]
      BY <2>2
    <3>2. /\ DOMAIN worker' = WorkerFields /\ worker'.pc = "window" /\ worker'.i = worker.i
          /\ worker'.back = worker.back /\ worker'.of = worker.of
      BY <1>3, <3>1, Zenon DEF WorkerFields
    <3> QED  BY <3>2
  <2> QED  BY <1>4, <2>1, <2>2
<1>6. WorkerInv'  BY <1>1, <1>3, <1>5, WorkerRests DEF WorkerInv
<1> QED  BY <1>2, <1>6

LEMMA TypeWindow ==
    TypeInv /\ WorkerInv /\ (WindowPicture \/ WindowEnds)
        => TypeInv' /\ WorkerInv' /\ UNCHANGED presenter
<1> SUFFICES ASSUME TypeInv, WorkerInv, WindowPicture \/ WindowEnds
             PROVE  TypeInv' /\ WorkerInv' /\ UNCHANGED presenter
  OBVIOUS
<1>1. UNCHANGED <<commandVars, plan, soundVars, loopVars, screenVars, scrubbing, endVars>>
  BY DEF WindowPicture, WindowEnds
<1>2. TypeInv' /\ UNCHANGED presenter
  BY <1>1 DEF TypeInv, AreLanes, commandVars, soundVars, loopVars, screenVars, endVars
<1>3. DOMAIN worker = WorkerFields /\ worker.of.source \in DOMAIN FramesOf /\ worker.i \in Nat
  BY WorkerRests DEF WorkerInv, WindowPicture, WindowEnds
<1>4. CASE WindowEnds
  <2>1. worker' = Rested(worker) \/ worker' = Showing(worker, 0, Black, "idle")  BY <1>4 DEF WindowEnds
  <2>2. DOMAIN worker' = WorkerFields /\ worker'.pc \in {"idle", "show"} /\ worker'.i = 0
        /\ worker'.back = "idle"
    BY <1>3, <2>1, WorkerRests, WorkerShows
  <2>3. cache' = cache  BY <1>4 DEF WindowEnds
  <2>4. WorkerInv'  BY <2>2, <2>3, WorkerRests DEF WorkerInv
  <2> QED  BY <1>2, <2>4
<1>5. CASE WindowPicture
  <2> DEFINE entry == [segment |-> worker.i, tick |-> worker.next, source |-> worker.of.source]
             next == worker.next + 1
             left == worker.left - 1
             on == [worker EXCEPT !.next = next, !.left = left]
             shows == Showing(on, worker.i, <<worker.of.source, worker.tick>>, "window")
  <2>1. worker.next \in FramesOf[worker.of.source] /\ cache' = Inserted(entry)
    BY <1>5 DEF WindowPicture
  <2>2. worker.next \in Nat  BY <1>3, <2>1, PlaybackAssumption
  <2>3. entry \in Entries  BY <1>3, <2>2 DEF Entries
  <2>4. worker' = [shows EXCEPT !.up = TRUE] \/ worker' = on  BY <1>5 DEF WindowPicture
  <2> HIDE DEF entry, next, left
  <2>5. cache' \in Seq(Entries) /\ Len(cache') <= CacheHolds  BY <2>1, <2>3, Fits
  <2>6. /\ DOMAIN on = WorkerFields /\ on.pc = worker.pc /\ on.i = worker.i
        /\ on.back = worker.back /\ on.of = worker.of
    BY <1>3, Zenon DEF WorkerFields
  <2> HIDE DEF on
  <2>7. /\ DOMAIN shows = WorkerFields /\ shows.pc = "show" /\ shows.i = worker.i
        /\ shows.back = "window" /\ shows.of = worker.of
    BY <2>6, WorkerShows
  <2> HIDE DEF shows
  <2>8. /\ DOMAIN worker' = WorkerFields /\ worker'.pc \in {"show", worker.pc} /\ worker'.i = worker.i
        /\ worker'.back \in {"window", worker.back} /\ worker'.of = worker.of
    <3>1. CASE worker' = on  BY <2>6, <3>1
    <3>2. CASE worker' = [shows EXCEPT !.up = TRUE]
      <4>1. /\ DOMAIN worker' = WorkerFields /\ worker'.pc = "show" /\ worker'.i = worker.i
            /\ worker'.back = "window" /\ worker'.of = worker.of
        BY <2>7, <3>2, Zenon DEF WorkerFields
      <4> QED  BY <4>1
    <3> QED  BY <2>4, <3>1, <3>2
  <2>9. WorkerInv'  BY <1>3, <2>5, <2>8, WorkerRests DEF WorkerInv
  <2> QED  BY <1>2, <2>9
<1> QED  BY <1>4, <1>5

LEMMA TypeShows ==
    TypeInv /\ WorkerInv /\ (CheckScrubbing \/ PutScrubbed \/ TellScrub)
        => TypeInv' /\ WorkerInv' /\ UNCHANGED presenter
<1> SUFFICES ASSUME TypeInv, WorkerInv, CheckScrubbing \/ PutScrubbed \/ TellScrub
             PROVE  TypeInv' /\ WorkerInv' /\ UNCHANGED presenter
  OBVIOUS
<1>1. /\ UNCHANGED <<commandVars, plan, soundVars, loopVars, lanes, scrubbing, cache, endVars>>
      /\ pending' \in {None, pending}
  BY DEF CheckScrubbing, PutScrubbed, TellScrub, screenVars
<1>2. pending' \in Int  BY <1>1 DEF TypeInv, None
<1>3. TypeInv' /\ UNCHANGED presenter
  BY <1>1, <1>2 DEF TypeInv, AreLanes, commandVars, soundVars, loopVars, endVars
<1>4. worker' = Returned(worker) \/ \E pc \in {"put", "telling"} : worker' = [worker EXCEPT !.pc = pc]
  BY DEF CheckScrubbing, PutScrubbed, TellScrub
<1> QED  BY <1>1, <1>3, <1>4, WorkerReturns, WorkerGoes

-----------------------------------------------------------------------------

LEMMA TypeMonitors ==
    TypeInv /\ (NoticeEnd \/ TakeEnd \/ NoticeDevice \/ TakeDevice \/ MonitorGone)
        => TypeInv' /\ UNCHANGED Unnamed
<1> SUFFICES ASSUME TypeInv, NoticeEnd \/ TakeEnd \/ NoticeDevice \/ TakeDevice \/ MonitorGone
             PROVE  TypeInv' /\ UNCHANGED Unnamed
  OBVIOUS
<1> USE DEF commandVars, soundVars, loopVars, screenVars, scrubVars, endVars, Unnamed
<1>1. CASE NoticeEnd  BY <1>1 DEF TypeInv, NoticeEnd, AreLanes
<1>2. CASE NoticeDevice  BY <1>2 DEF TypeInv, NoticeDevice, AreLanes
<1>3. CASE MonitorGone  BY <1>3 DEF TypeInv, MonitorGone, AreLanes
<1>4. /\ Step("read") \in Steps /\ Step("stop") \in Steps /\ Step("join") \in Steps
      /\ Step("joinonly") \in Steps /\ Step("hold") \in Steps /\ Step("holdend") \in Steps
      /\ Step("shut") \in Steps /\ Step("open") \in Steps /\ Step("start") \in Steps
  BY PlainSteps DEF StepKinds
<1>5. CASE TakeEnd
  <2>1. todo' \in Seq(Steps)
    <3>1. <<Step("read"), Step("stop"), Step("joinonly"), Step("holdend")>> \in Seq(Steps)  BY <1>4
    <3> QED  BY <1>5, <3>1 DEF TypeInv, TakeEnd
  <2> QED  BY <1>5, <2>1 DEF TypeInv, TakeEnd, AreLanes, Free
<1>6. CASE TakeDevice
  <2>1. todo' \in Seq(Steps)
    <3>1. <<Step("read"), Step("stop"), Step("join"), Step("hold"), Step("shut"), Step("open"),
            Step("start")>> \in Seq(Steps)
      BY <1>4
    <3>2. <<Step("read"), Step("shut"), Step("open")>> \in Seq(Steps)  BY <1>4
    <3> QED  BY <1>6, <3>1, <3>2 DEF TakeDevice
  <2> QED  BY <1>6, <2>1 DEF TypeInv, TakeDevice, AreLanes, Free
<1> QED  BY <1>1, <1>2, <1>3, <1>5, <1>6

LEMMA TypeCloses == TypeInv /\ Closes => TypeInv' /\ UNCHANGED Unnamed
<1> SUFFICES ASSUME TypeInv, Closes PROVE TypeInv' /\ UNCHANGED Unnamed  OBVIOUS
<1> USE DEF commandVars, soundVars, loopVars, screenVars, scrubVars, endVars, Unnamed
<1>1. CASE BeginClose  BY <1>1 DEF TypeInv, BeginClose, AreLanes
<1>2. CASE CloseScrub  BY <1>2 DEF TypeInv, CloseScrub, AreLanes
<1>3. CASE CloseSink  BY <1>3 DEF TypeInv, CloseSink, AreLanes
<1>4. CASE CloseMonitor  BY <1>4 DEF TypeInv, CloseMonitor, AreLanes
<1>5. CASE CloseLanes  BY <1>5 DEF TypeInv, CloseLanes, AreLanes
<1>6. CASE CloseFeeder
  <2>1. <<Step("stop"), Step("joinonly")>> \in Seq(Steps)  BY PlainSteps DEF StepKinds
  <2> QED  BY <1>6, <2>1 DEF TypeInv, CloseFeeder, AreLanes, Free
<1> QED  BY <1>1, <1>2, <1>3, <1>4, <1>5, <1>6 DEF Closes

LEMMA NamedKept ==
    /\ UNCHANGED presenter /\ PresenterInv => PresenterInv'
    /\ UNCHANGED <<worker, cache>> /\ WorkerInv => WorkerInv'
BY DEF PresenterInv, WorkerInv

LEMMA TypeStep ==
    TypeInv /\ PresenterInv /\ WorkerInv /\ [Next]_vars => TypeInv' /\ PresenterInv' /\ WorkerInv'
<1> SUFFICES ASSUME TypeInv, PresenterInv, WorkerInv, [Next]_vars
             PROVE  TypeInv' /\ PresenterInv' /\ WorkerInv'
  OBVIOUS
<1>1. CASE Command  BY <1>1, TypeCommand, NamedKept DEF Unnamed
<1>2. CASE Transport
  <2>1. CASE Uncache  BY <2>1, TypeUncache, NamedKept
  <2>2. CASE Transport /\ ~Uncache
    <3>1. TypeInv' /\ UNCHANGED Unnamed
      BY <2>2, TypeCommand, TypeDecide, TypeRead, TypeFeederSteps, TypeHold, TypeLanes, TypeStep1,
         TypeScrub, TypePlan DEF Transport
    <3> QED  BY <3>1, NamedKept DEF Unnamed
  <2> QED  BY <1>2, <2>1, <2>2
<1>3. CASE Feeds \/ Pull  BY <1>3, TypeFeeds, NamedKept DEF Unnamed
<1>4. CASE Decodes  BY <1>4, TypeDecodes, NamedKept DEF Unnamed
<1>5. CASE Presents
  BY <1>5, TypeLook, TypeFindDue, TypeTake, NamedKept DEF Presents
<1>6. CASE Scrubbing
  BY <1>6, TypeNextScrub, TypeLookInCache, TypeWindow, TypeShows, NamedKept DEF Scrubbing
<1>7. CASE Monitors
  <2>1. TypeInv' /\ UNCHANGED Unnamed  BY <1>7, TypeMonitors, TypePlan DEF Monitors
  <2> QED  BY <2>1, NamedKept DEF Unnamed
<1>8. CASE Closes  BY <1>8, TypeCloses, NamedKept DEF Unnamed
<1>9. CASE UNCHANGED vars
  BY <1>9 DEF vars, commandVars, soundVars, loopVars, screenVars, scrubVars, endVars, TypeInv,
              AreLanes, PresenterInv, WorkerInv
<1> QED  BY <1>1, <1>2, <1>3, <1>4, <1>5, <1>6, <1>7, <1>8, <1>9 DEF Next

-----------------------------------------------------------------------------
(* Standing still, and following the plan                                    *)

CommandInv == StillInv /\ TodoInv /\ FollowInv

\* Who leaves the commands, the plan and the feeder alone, and lets the clock
\* run as it did, leaves all of this as it is.
LEMMA Elsewhere ==
    ASSUME CommandInv, UNCHANGED <<todo, state, plan, scrubbing, feeder>>, clock'.mode = clock.mode
    PROVE  CommandInv'
<1>1. StillInv'  BY DEF CommandInv, StillInv, Still
<1>2. TodoInv'
  <2> SUFFICES ASSUME NEW k \in DOMAIN todo PROVE Fine(k)'  BY DEF TodoInv
  <2>1. Fine(k)  BY DEF CommandInv, TodoInv
  <2>2. (Joined(k))' = Joined(k) /\ (Held(k))' = Held(k) /\ (AtRest(k))' = AtRest(k) /\ Undragged' = Undragged
    BY DEF Joined, Held, AtRest, Undragged, Still, Earlier
  <2> QED  BY <2>1, <2>2 DEF Fine
<1>3. FollowInv'
  BY DEF CommandInv, FollowInv, Follows, Earlier
<1> QED  BY <1>1, <1>2, <1>3 DEF CommandInv

\* A turn of the feeder: it plays on in the plan it has, with the chains handed over
LEMMA FeederGoesOn ==
    ASSUME CommandInv, UNCHANGED <<todo, state, plan, scrubbing>>,
           feeder \in Feeders, feeder' \in Feeders, feeder'.pc # "preroll",
           feeder'.plan = feeder.plan,
           \/ feeder'.chains = feeder.chains /\ feeder'.retune = feeder.retune
           \/ /\ feeder'.retune = <<>>
              /\ feeder'.chains = IF feeder.retune # <<>> THEN feeder.retune ELSE feeder.chains
    PROVE  CommandInv'
<1>1. feeder # NoFeeder /\ feeder' # NoFeeder  BY DEF Feeders, NoFeeder
<1>2. StillInv'  BY <1>1 DEF CommandInv, StillInv, Still
<1>3. TodoInv'
  <2> SUFFICES ASSUME NEW k \in DOMAIN todo PROVE Fine(k)'  BY DEF TodoInv
  <2>1. Fine(k)  BY DEF CommandInv, TodoInv
  <2>2. (Joined(k))' = Joined(k) /\ (Held(k))' = Held(k) /\ (AtRest(k))' = AtRest(k) /\ Undragged' = Undragged
    BY <1>1 DEF Joined, Held, AtRest, Undragged, Still, Earlier
  <2> QED  BY <2>1, <2>2 DEF Fine
<1>4. FollowInv'
  <2>1. /\ OnlyChainsOrCropsDiffer(feeder.plan, feeder.chains)
        /\ feeder.retune # <<>> => OnlyChainsOrCropsDiffer(feeder.plan, feeder.retune)
    BY <1>1 DEF CommandInv, FollowInv
  <2>2. Follows => Follows'  BY DEF Follows
  <2>3. /\ OnlyChainsOrCropsDiffer(feeder'.plan, feeder'.chains)
        /\ feeder'.retune # <<>> => OnlyChainsOrCropsDiffer(feeder'.plan, feeder'.retune)
    BY <2>1
  <2> QED  BY <1>1, <2>2, <2>3 DEF CommandInv, FollowInv, Earlier
<1> QED  BY <1>2, <1>3, <1>4 DEF CommandInv

LEMMA CommandFeeds == TypeInv /\ TypeInv' /\ CommandInv /\ Feeds => CommandInv'
<1> SUFFICES ASSUME TypeInv, TypeInv', CommandInv, Feeds PROVE CommandInv'  OBVIOUS
<1>1. feeder \in Feeders
  BY DEF TypeInv, NoFeeder, Feeds, Preroll, Walk, HearOut, FeederStops
<1>2. DOMAIN feeder = {"pc", "stop", "plan", "chains", "retune", "at", "gen", "written"}
  BY <1>1 DEF Feeders
<1>3. UNCHANGED <<todo, state, plan, scrubbing>>
  BY DEF Feeds, Preroll, Walk, HearOut, FeederStops, commandVars, scrubVars
<1>4. /\ feeder'.pc # "preroll" /\ feeder'.pc # "none" /\ feeder'.plan = feeder.plan
      /\ \/ feeder'.chains = feeder.chains /\ feeder'.retune = feeder.retune
         \/ /\ feeder'.retune = <<>>
            /\ feeder'.chains = IF feeder.retune # <<>> THEN feeder.retune ELSE feeder.chains
  <2>1. CASE Preroll  BY <1>2, <2>1 DEF Preroll
  <2>2. CASE Walk
    <3>1. CASE feeder' = [feeder EXCEPT !.pc = "hearing"]  BY <1>2, <3>1
    <3>2. CASE feeder' = [feeder EXCEPT !.gen = generations + 1, !.at = loop[1], !.written = 0]
      <4>1. feeder.pc = "walking"  BY <2>2 DEF Walk
      <4> DEFINE gen == generations + 1
      <4>2. feeder' = [feeder EXCEPT !.gen = gen, !.at = loop[1], !.written = 0]  BY <3>2
      <4> HIDE DEF gen
      <4>3. /\ feeder'.pc = feeder.pc /\ feeder'.plan = feeder.plan
            /\ feeder'.chains = feeder.chains /\ feeder'.retune = feeder.retune
        BY <1>2, <4>2, Zenon
      <4> QED  BY <4>1, <4>3
    <3>3. CASE feeder' = [feeder EXCEPT !.written = @ + 1, !.retune = <<>>,
                             !.chains = IF feeder.retune # <<>> THEN feeder.retune ELSE @]
      <4>1. feeder.pc = "walking"  BY <2>2 DEF Walk
      <4> DEFINE chains == IF feeder.retune # <<>> THEN feeder.retune ELSE feeder.chains
                 written == feeder.written + 1
      <4>2. feeder' = [feeder EXCEPT !.written = written, !.retune = <<>>, !.chains = chains]  BY <3>3
      <4> HIDE DEF chains, written
      <4>3. /\ feeder'.pc = feeder.pc /\ feeder'.plan = feeder.plan
            /\ feeder'.chains = chains /\ feeder'.retune = <<>>
        BY <1>2, <4>2, Zenon
      <4> QED  BY <4>1, <4>3 DEF chains
    <3> QED  BY <2>2, <3>1, <3>2, <3>3 DEF Walk
  <2>3. CASE HearOut \/ FeederStops
    <3>1. feeder' = [feeder EXCEPT !.pc = "done", !.at = 0, !.gen = 0, !.written = 0]
      BY <2>3 DEF HearOut, FeederStops, Over
    <3>2. /\ feeder'.pc = "done" /\ feeder'.plan = feeder.plan
          /\ feeder'.chains = feeder.chains /\ feeder'.retune = feeder.retune
      BY <1>2, <3>1, Zenon
    <3> QED  BY <3>2
  <2> QED  BY <2>1, <2>2, <2>3 DEF Feeds
<1>5. feeder' \in Feeders  BY <1>4 DEF TypeInv, NoFeeder
<1> QED  BY <1>1, <1>3, <1>4, <1>5, FeederGoesOn

\* The presenter, the scrub worker, the decoders, the device, and who waits to close
LEMMA CommandElsewhere ==
    ASSUME TypeInv, CommandInv,
           \/ Answer \/ Pull \/ Decodes \/ Presents \/ Scrubbing
           \/ NoticeEnd \/ NoticeDevice \/ MonitorGone
           \/ BeginClose \/ CloseScrub \/ CloseLanes \/ CloseSink \/ CloseMonitor
           \/ UNCHANGED vars
    PROVE  CommandInv'
<1> USE DEF commandVars, soundVars, loopVars, screenVars, scrubVars, endVars
<1>1. CASE Presents
  <2>1. CASE Look
    <3>1. PICK heard \in Heard : clock' = Read(clock, heard)  BY <2>1 DEF Look
    <3>2. heard \in Int /\ clock \in Clocks /\ (clock.mode = "running" => clock.anchors # <<>>)
      BY HeardThere DEF TypeInv
    <3>3. clock'.mode = clock.mode  BY <3>1, <3>2, ReadIsAClock
    <3>4. UNCHANGED <<todo, state, plan, scrubbing, feeder>>  BY <2>1 DEF Look
    <3> QED  BY <3>3, <3>4, Elsewhere
  <2>2. CASE Presents /\ ~Look
    <3>1. UNCHANGED <<todo, state, plan, scrubbing, feeder, clock>>
      BY <2>2 DEF Presents, FindDue, Take, Put, Tell
    <3> QED  BY <3>1, Elsewhere
  <2> QED  BY <1>1, <2>1, <2>2
<1>2. CASE Scrubbing
  <2>1. UNCHANGED <<todo, state, plan, scrubbing, feeder, clock>>
    BY <1>2 DEF Scrubbing, NextScrub, WorkerGone, LookInCache, WindowPicture, WindowEnds,
                CheckScrubbing, PutScrubbed, TellScrub
  <2> QED  BY <2>1, Elsewhere
<1>3. CASE Answer \/ Pull \/ Decodes
  <2>1. UNCHANGED <<todo, state, plan, scrubbing, feeder, clock>>
    BY <1>3 DEF Answer, Pull, Decodes
  <2> QED  BY <2>1, Elsewhere
<1>4. CASE NoticeEnd \/ NoticeDevice \/ MonitorGone
  <2>1. UNCHANGED <<todo, state, plan, scrubbing, feeder, clock>>
    BY <1>4 DEF NoticeEnd, NoticeDevice, MonitorGone
  <2> QED  BY <2>1, Elsewhere
<1>5. CASE BeginClose \/ CloseScrub \/ CloseLanes \/ CloseSink \/ CloseMonitor
  <2>1. UNCHANGED <<todo, state, plan, scrubbing, feeder, clock>>
    BY <1>5 DEF BeginClose, CloseScrub, CloseLanes, CloseSink, CloseMonitor
  <2> QED  BY <2>1, Elsewhere
<1>6. CASE UNCHANGED vars
  <2>1. UNCHANGED <<todo, state, plan, scrubbing, feeder, clock>>  BY <1>6 DEF vars
  <2> QED  BY <2>1, Elsewhere
<1> QED  BY <1>1, <1>2, <1>3, <1>4, <1>5, <1>6

-----------------------------------------------------------------------------
(* ... through the steps of a command                                        *)

\* A step that is over once it is done
LEMMA Dropped ==
    ASSUME TypeInv, CommandInv, NEW kind, Doing(kind), Then(<<>>),
           kind \notin {"swap", "here", "retune", "endscrub"},
           UNCHANGED <<plan, scrubbing>>,
           feeder = NoFeeder \/ kind \in Joins => feeder' = NoFeeder,
           Still \/ kind \in Holds => Still',
           state # "playing" \/ kind = "rest" => state' # "playing",
           feeder' # NoFeeder =>
               /\ feeder # NoFeeder /\ feeder'.plan = feeder.plan
               /\ feeder'.chains = feeder.chains /\ feeder'.retune = feeder.retune,
           StillInv'
    PROVE  CommandInv'
<1>1. todo \in Seq(Steps) /\ todo # <<>> /\ todo[1].do = kind  BY Doings
<1> DEFINE s == <<>>
<1>2. s \in Seq(Steps) /\ todo' = s \o Tail(todo) /\ 1..Len(s) = {}  BY DEF Then
<1> HIDE DEF s
<1>3. TodoInv'  BY <1>1, <1>2, Continued DEF CommandInv
<1>4. FollowInv'  BY <1>1, <1>2, FollowsOn DEF CommandInv, Mends, Joins
<1> QED  BY <1>3, <1>4 DEF CommandInv

LEMMA CommandPlainSteps ==
    TypeInv /\ CommandInv /\ (ReadClock \/ Pend \/ ChangeLanes \/ SetLoop \/ Uncache \/ SwitchSink)
        => CommandInv'
<1> SUFFICES ASSUME TypeInv, CommandInv,
                    ReadClock \/ Pend \/ ChangeLanes \/ SetLoop \/ Uncache \/ SwitchSink
             PROVE  CommandInv'
  OBVIOUS
<1> USE DEF commandVars, soundVars, loopVars, screenVars, scrubVars, endVars
<1>1. PICK kind \in {"read", "pend", "clear", "prepare", "loop", "uncache", "shut", "open"} :
        Doing(kind) /\ Then(<<>>)
  BY DEF ReadClock, Pend, ChangeLanes, SetLoop, Uncache, SwitchSink
<1>2. UNCHANGED <<plan, scrubbing, feeder>>
  BY DEF ReadClock, Pend, ChangeLanes, SetLoop, Uncache, SwitchSink
<1>3. clock'.mode = clock.mode
  <2>1. CASE ReadClock
    <3>1. PICK heard \in Heard : clock' = Read(clock, heard)  BY <2>1 DEF ReadClock
    <3>2. heard \in Int /\ clock \in Clocks /\ (clock.mode = "running" => clock.anchors # <<>>)
      BY HeardThere DEF TypeInv
    <3> QED  BY <3>1, <3>2, ReadIsAClock
  <2> QED  BY <2>1 DEF Pend, ChangeLanes, SetLoop, Uncache, SwitchSink
<1>4. state' = state \/ (state = "ended" /\ state' = "paused")
  BY DEF ReadClock, Pend, ChangeLanes, SetLoop, Uncache, SwitchSink
<1>5. StillInv'  BY <1>2, <1>3, <1>4 DEF CommandInv, StillInv, Still
<1>6. kind \notin Joins \cup Holds \cup {"swap", "here", "retune", "endscrub", "rest"}
  BY <1>1 DEF Joins, Holds
<1>7. Still => Still'  BY <1>2, <1>3 DEF Still
<1> QED  BY <1>1, <1>2, <1>4, <1>5, <1>6, <1>7, Dropped

LEMMA CommandStops == TypeInv /\ CommandInv /\ (StopFeeder \/ JoinFeeder) => CommandInv'
<1> SUFFICES ASSUME TypeInv, CommandInv, StopFeeder \/ JoinFeeder PROVE CommandInv'  OBVIOUS
<1> USE DEF loopVars, screenVars, scrubVars, endVars
<1>1. UNCHANGED <<plan, scrubbing, clock, state>>  BY DEF StopFeeder, JoinFeeder
<1>2. CASE StopFeeder
  <2>1. Doing("stop") /\ Then(<<>>)  BY <1>2 DEF StopFeeder
  <2>2. /\ feeder = NoFeeder <=> feeder' = NoFeeder
        /\ feeder # NoFeeder =>
              /\ feeder'.plan = feeder.plan /\ feeder'.pc = feeder.pc
              /\ feeder'.chains = feeder.chains /\ feeder'.retune = feeder.retune
    <3>1. CASE feeder = NoFeeder  BY <1>2, <3>1 DEF StopFeeder
    <3>2. CASE feeder # NoFeeder
      <4>1. feeder \in Feeders  BY <3>2 DEF TypeInv
      <4>2. DOMAIN feeder = {"pc", "stop", "plan", "chains", "retune", "at", "gen", "written"}
        BY <4>1 DEF Feeders
      <4>3. feeder' = [feeder EXCEPT !.stop = TRUE]  BY <1>2, <3>2 DEF StopFeeder
      <4>4. /\ feeder'.plan = feeder.plan /\ feeder'.pc = feeder.pc
            /\ feeder'.chains = feeder.chains /\ feeder'.retune = feeder.retune
        BY <4>2, <4>3, Zenon
      <4>5. feeder.pc # "none"  BY <4>1 DEF Feeders
      <4> QED  BY <3>2, <4>4, <4>5 DEF NoFeeder
    <3> QED  BY <3>1, <3>2
  <2>3. StillInv'
    <3>1. Still' <=> Still  BY <1>1, <2>2 DEF Still
    <3>2. feeder'.pc = feeder.pc  BY <2>2
    <3> QED  BY <1>1, <3>1, <3>2 DEF CommandInv, StillInv
  <2>4. Still => Still'  BY <1>1, <2>2 DEF Still
  <2> QED  BY <1>1, <2>1, <2>2, <2>3, <2>4, Dropped DEF Joins, Holds
<1>3. CASE JoinFeeder
  <2>1. PICK kind \in {"join", "joinonly"} : Doing(kind) /\ Then(<<>>)  BY <1>3 DEF JoinFeeder
  <2>2. feeder' = NoFeeder  BY <1>3 DEF JoinFeeder
  <2>3. StillInv'  BY <1>1, <2>2 DEF CommandInv, StillInv, Still, NoFeeder
  <2>4. Still => Still'  BY <1>1, <2>2 DEF Still
  <2> QED  BY <1>1, <2>1, <2>2, <2>3, <2>4, Dropped DEF Joins, Holds
<1> QED  BY <1>2, <1>3

\* The clock is set only once the feeder is gone.
LEMMA CommandHolds == TypeInv /\ CommandInv /\ HoldClock => CommandInv'
<1> SUFFICES ASSUME TypeInv, CommandInv, HoldClock PROVE CommandInv'  OBVIOUS
<1> USE DEF loopVars, screenVars, scrubVars
<1>1. PICK kind \in Holds : Doing(kind)  BY DEF HoldClock, Holds
<1>2. Then(<<>>) /\ UNCHANGED <<plan, scrubbing, feeder>>  BY DEF HoldClock
<1>3. todo[1].do = kind /\ 1 \in DOMAIN todo  BY <1>1, Doings
<1>4. feeder = NoFeeder
  <2>1. Fine(1)  BY <1>3 DEF CommandInv, TodoInv
  <2> QED  BY <1>1, <1>3, <2>1 DEF Fine, Joined, Earlier
<1>5. clock'.mode = "paused"  BY DEF HoldClock, PausedAt
<1>6. Still'  BY <1>2, <1>4, <1>5 DEF Still
<1>7. /\ state' = state \/ state' \in {"paused", "ended"}
      /\ kind = "rest" => state' # "playing"
  BY <1>1 DEF HoldClock, Doing, Holds
<1>8. StillInv'
  BY <1>2, <1>4, <1>5, <1>6, <1>7 DEF CommandInv, StillInv, NoFeeder
<1>9. kind \notin {"swap", "here", "retune", "endscrub"} \cup Joins  BY DEF Holds, Joins
<1>10. state # "playing" \/ kind = "rest" => state' # "playing"  BY <1>7
<1> QED  BY <1>1, <1>2, <1>4, <1>6, <1>8, <1>9, <1>10, Dropped

\* Steps that ask nothing of what was done before them
Plain == StepKinds \ (Holds \cup {"start", "rewind", "tostart", "scrub", "step", "replan", "here"})

LEMMA PlainIsFine ==
    ASSUME NEW k, todo'[k].do \in Plain
    PROVE  Fine(k)'
BY DEF Plain, Fine, Holds

LEMMA SeekingShape ==
    ASSUME NEW t, NEW s, s = Seeking(t)
    PROVE  /\ state = "playing" =>
                /\ Len(s) = 7 /\ s[1].do = "pend" /\ s[2].do = "stop" /\ s[3].do = "join"
                /\ s[4].do = "jump" /\ s[5].do = "clear" /\ s[6].do = "prepare" /\ s[7].do = "start"
           /\ state # "playing" =>
                /\ Len(s) = 4 /\ s[1].do = "pend" /\ s[2].do = "jump" /\ s[3].do = "clear"
                /\ s[4].do = "prepare"
<1> DEFINE a == StepAt("pend", t)
           b == Step("stop")
           c == Step("join")
           d == StepAt("jump", t)
           e == Step("clear")
           f == Step("prepare")
           g == Step("start")
<1>1. /\ a.do = "pend" /\ b.do = "stop" /\ c.do = "join" /\ d.do = "jump" /\ e.do = "clear"
      /\ f.do = "prepare" /\ g.do = "start"
  BY DEF Step, StepAt
<1>2. s = <<a>> \o (IF state = "playing" THEN <<b, c>> ELSE <<>>) \o <<d, e, f>>
          \o (IF state = "playing" THEN <<g>> ELSE <<>>)
  BY DEF Seeking
<1> HIDE DEF a, b, c, d, e, f, g
<1>3. CASE state = "playing"
  <2>1. s = <<a>> \o <<b, c>> \o <<d, e, f>> \o <<g>>  BY <1>2, <1>3
  <2>2. Len(s) = 7 /\ s[1] = a /\ s[2] = b /\ s[3] = c /\ s[4] = d /\ s[5] = e /\ s[6] = f /\ s[7] = g
    BY <2>1
  <2> QED  BY <1>1, <1>3, <2>2
<1>4. CASE state # "playing"
  <2>1. s = <<a>> \o <<>> \o <<d, e, f>> \o <<>>  BY <1>2, <1>4
  <2>2. Len(s) = 4 /\ s[1] = a /\ s[2] = d /\ s[3] = e /\ s[4] = f
    BY <2>1
  <2> QED  BY <1>1, <1>4, <2>2
<1> QED  BY <1>3, <1>4

\* A seek joins the feeder before it sets the clock, and sets the clock before
\* it starts another, wherever in a command it stands, if it stands last.
LEMMA SeekingIsFine ==
    ASSUME CommandInv, UNCHANGED <<feeder, clock>>, scrubbing' => scrubbing,
           NEW t, NEW s, s = Seeking(t), NEW n \in Nat,
           \A k \in 1..Len(s) : todo'[n + k] = s[k],
           state = "playing" => Len(todo') = n + 7
    PROVE  \A k \in 1..Len(s) : Fine(n + k)'
<1>1. CASE state = "playing"
  <2>1. /\ Len(s) = 7 /\ s[1].do = "pend" /\ s[2].do = "stop" /\ s[3].do = "join"
        /\ s[4].do = "jump" /\ s[5].do = "clear" /\ s[6].do = "prepare" /\ s[7].do = "start"
    BY <1>1, SeekingShape
  <2>2. /\ todo'[n + 1].do = "pend" /\ todo'[n + 2].do = "stop" /\ todo'[n + 3].do = "join"
        /\ todo'[n + 4].do = "jump" /\ todo'[n + 5].do = "clear" /\ todo'[n + 6].do = "prepare"
        /\ todo'[n + 7].do = "start"
    <3>1. \A k \in {1, 2, 3, 4, 5, 6, 7} : k \in 1..Len(s)  BY <2>1
    <3>2. \A k \in {1, 2, 3, 4, 5, 6, 7} : todo'[n + k].do = s[k].do  BY <3>1
    <3>3. /\ todo'[n + 1].do = s[1].do /\ todo'[n + 2].do = s[2].do /\ todo'[n + 3].do = s[3].do
          /\ todo'[n + 4].do = s[4].do /\ todo'[n + 5].do = s[5].do /\ todo'[n + 6].do = s[6].do
          /\ todo'[n + 7].do = s[7].do
      BY ONLY <3>2
    <3> QED  BY ONLY <2>1, <3>3
  <2>3. \A k \in {1, 2, 3, 5, 6} : Fine(n + k)'
    BY <2>2, PlainIsFine DEF Plain, StepKinds, Holds
  <2>4. Fine(n + 4)'
    <3>1. n + 3 \in 1..((n + 4) - 1)  OBVIOUS
    <3>2. Earlier(n + 4, Joins)'  BY <2>2, <3>1 DEF Earlier, Joins
    <3> QED  BY <2>2, <3>2 DEF Fine, Joined, Holds
  <2>5. Fine(n + 7)'
    <3>1. n + 4 \in 1..((n + 7) - 1)  OBVIOUS
    <3>2. Earlier(n + 7, Holds)'  BY <2>2, <3>1 DEF Earlier, Holds
    <3>3. ~scrubbing'  BY <1>1 DEF CommandInv, StillInv
    <3> QED  BY <1>1, <2>2, <3>2, <3>3 DEF Fine, Held, Undragged, Holds
  <2>6. \A k \in 1..7 : k \in {1, 2, 3, 5, 6} \/ k = 4 \/ k = 7  OBVIOUS
  <2> QED  BY <2>1, <2>3, <2>4, <2>5, <2>6
<1>2. CASE state # "playing"
  <2>1. /\ Len(s) = 4 /\ s[1].do = "pend" /\ s[2].do = "jump" /\ s[3].do = "clear"
        /\ s[4].do = "prepare"
    BY <1>2, SeekingShape
  <2>2. /\ todo'[n + 1].do = "pend" /\ todo'[n + 2].do = "jump" /\ todo'[n + 3].do = "clear"
        /\ todo'[n + 4].do = "prepare"
    <3>1. \A k \in {1, 2, 3, 4} : k \in 1..Len(s)  BY <2>1
    <3>2. \A k \in {1, 2, 3, 4} : todo'[n + k].do = s[k].do  BY <3>1
    <3>3. /\ todo'[n + 1].do = s[1].do /\ todo'[n + 2].do = s[2].do /\ todo'[n + 3].do = s[3].do
          /\ todo'[n + 4].do = s[4].do
      BY ONLY <3>2
    <3> QED  BY ONLY <2>1, <3>3
  <2>3. \A k \in {1, 3, 4} : Fine(n + k)'
    BY <2>2, PlainIsFine DEF Plain, StepKinds, Holds
  <2>4. Fine(n + 2)'
    <3>1. feeder' = NoFeeder  BY <1>2 DEF CommandInv, StillInv, Still
    <3> QED  BY <2>2, <3>1 DEF Fine, Joined, Holds
  <2>5. \A k \in 1..4 : k \in {1, 3, 4} \/ k = 2  OBVIOUS
  <2> QED  BY <2>1, <2>3, <2>4, <2>5
<1> QED  BY <1>1, <1>2

\* A seek in the place of a step that is the command's last, unless nothing plays
LEMMA CommandSeeks ==
    ASSUME TypeInv, CommandInv, NEW kind \in {"here", "tostart", "step"}, Doing(kind),
           NEW t \in Int, Then(Seeking(t)),
           UNCHANGED <<feeder, clock, plan, scrubbing>>,
           state' = state \/ (state = "ended" /\ state' = "paused")
    PROVE  CommandInv'
<1> DEFINE s == Seeking(t)
<1>1. todo \in Seq(Steps) /\ todo # <<>> /\ todo[1].do = kind /\ 1 \in DOMAIN todo
      /\ Len(todo) \in Nat \ {0}
  BY Doings
<1>2. s \in Seq(Steps) /\ todo' = s \o Tail(todo)  BY SeekingSteps DEF Then
<1>3. Fine(1)  BY <1>1 DEF CommandInv, TodoInv
<1>4. state = "playing" => Len(todo) = 1
  <2>1. kind = "here" => Len(todo) = 1 \/ state # "playing"  BY <1>1, <1>3 DEF Fine
  <2>2. kind \in {"tostart", "step"} => Len(todo) = 1  BY <1>1, <1>3 DEF Fine
  <2> QED  BY <2>1, <2>2
<1>5. state = "playing" => Len(s) = 7 /\ s[3].do = "join" /\ s[7].do = "start"  BY SeekingShape
<1>6. \A k \in 1..Len(s) : s[k].do \notin {"swap", "retune"}
  <2>1. state = "playing" => /\ s[1].do = "pend" /\ s[2].do = "stop" /\ s[3].do = "join"
                /\ s[4].do = "jump" /\ s[5].do = "clear" /\ s[6].do = "prepare" /\ s[7].do = "start"
                /\ Len(s) = 7
    BY SeekingShape
  <2>2. state # "playing" => /\ Len(s) = 4 /\ s[1].do = "pend" /\ s[2].do = "jump" /\ s[3].do = "clear"
                /\ s[4].do = "prepare"
    BY SeekingShape
  <2>3. \A k \in 1..7 : k \in {1, 2, 3, 4, 5, 6, 7}  OBVIOUS
  <2>4. \A k \in 1..4 : k \in {1, 2, 3, 4}  OBVIOUS
  <2> HIDE DEF s
  <2> QED  BY <2>1, <2>2, <2>3, <2>4
<1> HIDE DEF s
<1>7. /\ Len(todo') = Len(s) + Len(todo) - 1 /\ Len(s) \in Nat
      /\ \A k \in 1..Len(s) : todo'[k] = s[k]
  BY <1>1, <1>2, Spliced
<1>8. ASSUME state = "playing" PROVE Len(todo') = 0 + 7
  <2>1. Len(todo) = 1 /\ Len(s) = 7  BY <1>4, <1>5, <1>8
  <2>2. Len(todo') = Len(s) + Len(todo) - 1  BY <1>7
  <2> QED  BY <2>1, <2>2
<1>9. \A k \in 1..Len(s) : todo'[0 + k] = s[k]  BY <1>7
<1>10. \A k \in 1..Len(s) : Fine(0 + k)'
  <2>1. s = Seeking(t) /\ 0 \in Nat  BY DEF s
  <2> QED  BY <1>8, <1>9, <2>1, SeekingIsFine
<1>11. \A k \in 1..Len(s) : Fine(k)'
  <2>1. \A k \in 1..Len(s) : 0 + k = k  BY <1>7
  <2> QED  BY <1>10, <2>1
<1>12. Still' = Still /\ kind \notin Holds \cup Joins \cup {"rest", "endscrub", "swap"}
  BY DEF Still, Holds, Joins
<1>13. TodoInv'  BY <1>1, <1>2, <1>11, <1>12, Continued DEF CommandInv
<1>14. feeder # NoFeeder => \E k \in 1..Len(s) : s[k].do \in Mends
  <2>1. feeder # NoFeeder => state = "playing"  BY DEF CommandInv, StillInv, Still
  <2> QED  BY <1>5, <2>1 DEF Mends
<1>15. FollowInv'
  BY <1>1, <1>2, <1>6, <1>12, <1>14, FollowsOn DEF CommandInv
<1>16. StillInv'  BY <1>12 DEF CommandInv, StillInv
<1> QED  BY <1>13, <1>15, <1>16 DEF CommandInv

\* Nothing is left after the last step.
LEMMA LastStep ==
    ASSUME NEW s \in Seq(Steps), Len(s) = 1
    PROVE  Tail(s) = <<>>
<1>1. s # <<>>
  <2>1. Len(<<>>) = 0  BY EmptySeq
  <2>2. Len(s) # 0  OBVIOUS
  <2> QED  BY <2>1, <2>2, Zenon
<1>2. Tail(s) \in Seq(Steps) /\ Len(Tail(s)) = 0  BY <1>1, HeadTailProperties
<1> QED  BY <1>2, EmptySeq

LEMMA AtRestNow ==
    ASSUME TypeInv, CommandInv, NEW kind \in {"rewind", "step", "scrub"}, Doing(kind)
    PROVE  /\ state # "playing" /\ feeder = NoFeeder /\ clock.mode = "paused" /\ Still /\ Len(todo) = 1
           /\ kind = "rewind" => ~scrubbing
<1>1. todo[1].do = kind /\ 1 \in DOMAIN todo  BY Doings
<1>2. Fine(1)  BY <1>1 DEF CommandInv, TodoInv
<1>3. state # "playing"  BY <1>1, <1>2 DEF Fine, AtRest, Earlier
<1>4. Len(todo) = 1  BY <1>1, <1>2 DEF Fine
<1>5. kind = "rewind" => ~scrubbing  BY <1>1, <1>2 DEF Fine, Undragged
<1> QED  BY <1>3, <1>4, <1>5 DEF CommandInv, StillInv, Still

\* Playing on from where the clock is, or from the start: the feeder comes last,
\* and the clock stands.
LEMMA CommandRewinds == TypeInv /\ CommandInv /\ Decide => CommandInv'
<1> SUFFICES ASSUME TypeInv, CommandInv, Decide PROVE CommandInv'  OBVIOUS
<1>1. UNCHANGED <<feeder, clock, plan, scrubbing, state>>  BY DEF Decide, soundVars, scrubVars
<1>2. local.t \in Int /\ plan \in Plans /\ loop \in (Nat \X Nat) \cup {NoLoop}
  BY DEF TypeInv
<1>3. Clamp(local.t) \in Int /\ Start \in Int  BY <1>2, ClampThere, StartThere
<1>4. Clamp(Start) \in Int  BY <1>2, <1>3, ClampThere
<1>5. CASE Doing("here") /\ Then(Seeking(Clamp(local.t)))  BY <1>1, <1>3, <1>5, CommandSeeks
<1>6. CASE Doing("tostart") /\ Then(Seeking(Clamp(Start)))  BY <1>1, <1>4, <1>6, CommandSeeks
<1>7. CASE /\ Doing("rewind")
           /\ LET over == state = "ended" \/ local.t >= (IF loop # NoLoop THEN loop[2] ELSE End(plan))
              IN Then((IF over THEN Seeking(Clamp(Start)) \o <<Step("read")>> ELSE <<>>)
                      \o <<Step("prepare"), Step("start")>>)
  <2>1. /\ state # "playing" /\ feeder = NoFeeder /\ clock.mode = "paused" /\ Still /\ Len(todo) = 1
        /\ ~scrubbing
    BY <1>7, AtRestNow
  <2> DEFINE s == Seeking(Clamp(Start))
             a == Step("read")
             b == Step("prepare")
             c == Step("start")
             q == todo'
  <2>2. a.do = "read" /\ b.do = "prepare" /\ c.do = "start"  BY DEF Step
  <2>3. Len(s) = 4 /\ s[1].do = "pend" /\ s[2].do = "jump" /\ s[3].do = "clear" /\ s[4].do = "prepare"
    BY <2>1, SeekingShape
  <2>4. s \in Seq(Steps) /\ a \in Steps /\ b \in Steps /\ c \in Steps
    BY <1>4, SeekingSteps, PlainSteps DEF StepKinds
  <2>5. todo \in Seq(Steps) /\ todo # <<>>  BY <1>7, Doings
  <2>6. q = (s \o <<a>> \o <<b, c>>) \o Tail(todo) \/ q = (<<>> \o <<b, c>>) \o Tail(todo)
    BY <1>7 DEF Then
  <2>7. Tail(todo) = <<>>  BY <2>1, <2>5, LastStep
  <2>8. q = s \o <<a>> \o <<b, c>> \/ q = <<b, c>>
    <3>1. <<b, c>> \in Seq(Steps) /\ s \o <<a>> \o <<b, c>> \in Seq(Steps)  BY <2>4
    <3>2. \A u \in Seq(Steps) : u \o <<>> = u  OBVIOUS
    <3>3. <<>> \o <<b, c>> = <<b, c>>  OBVIOUS
    <3> QED  BY <2>6, <2>7, <3>1, <3>2, <3>3
  <2> HIDE DEF s, a, b, c, q
  <2>9. q = todo'  BY DEF q
  <2>10. Still' /\ feeder' = NoFeeder /\ ~scrubbing'  BY <1>1, <2>1 DEF Still
  <2>11. ASSUME NEW k, todo'[k].do \in Plain \/ (k = Len(todo') /\ todo'[k].do = "start")
                       \/ todo'[k].do = "jump"
         PROVE  Fine(k)'
    BY <2>10, <2>11, PlainIsFine DEF Fine, Held, Joined, Undragged, Holds, Plain
  <2>12. TodoInv'
    <3>1. CASE q = s \o <<a>> \o <<b, c>>
      <4>1. /\ Len(q) = 7 /\ q[1] = s[1] /\ q[2] = s[2] /\ q[3] = s[3] /\ q[4] = s[4]
            /\ q[5] = a /\ q[6] = b /\ q[7] = c /\ DOMAIN q = {1, 2, 3, 4, 5, 6, 7}
        <5> DEFINE r == <<a>>
                   v == <<b, c>>
                   u == s \o r
        <5>1. /\ r \in Seq(Steps) /\ Len(r) = 1 /\ r[1] = a
              /\ v \in Seq(Steps) /\ Len(v) = 2 /\ v[1] = b /\ v[2] = c
          BY <2>4
        <5>2. u = s \o r /\ q = u \o v  BY <3>1
        <5> HIDE DEF r, u, v
        <5>3. /\ u \in Seq(Steps) /\ Len(u) = 5
              /\ u[1] = s[1] /\ u[2] = s[2] /\ u[3] = s[3] /\ u[4] = s[4] /\ u[5] = a
          <6>1. /\ u \in Seq(Steps) /\ Len(u) = Len(s) + Len(r)
                /\ \A k \in 1..Len(u) : u[k] = IF k <= Len(s) THEN s[k] ELSE r[k - Len(s)]
            <7>1. s \in Seq(Steps) /\ r \in Seq(Steps) /\ u = s \o r  BY <2>4, <5>1, <5>2, Zenon
            <7>2. IsBoth(u, s, r)  BY <7>1, Both, Zenon
            <7> QED  BY <7>2 DEF IsBoth
          <6>2. Len(u) = 5  BY <2>3, <5>1, <6>1
          <6>3. \A k \in 1..5 : u[k] = IF k <= 4 THEN s[k] ELSE r[k - 4]  BY <2>3, <6>1, <6>2
          <6>4. u[1] = s[1] /\ u[2] = s[2] /\ u[3] = s[3] /\ u[4] = s[4] /\ u[5] = r[1]  BY <6>3
          <6> QED  BY <5>1, <6>1, <6>2, <6>4, Zenon
        <5>4. /\ Len(q) = 7 /\ q[6] = v[1] /\ q[7] = v[2] /\ DOMAIN q = 1..Len(q)
              /\ q[1] = u[1] /\ q[2] = u[2] /\ q[3] = u[3] /\ q[4] = u[4] /\ q[5] = u[5]
          <6>1. /\ q \in Seq(Steps) /\ Len(q) = Len(u) + Len(v) /\ DOMAIN q = 1..Len(q)
                /\ \A k \in 1..Len(q) : q[k] = IF k <= Len(u) THEN u[k] ELSE v[k - Len(u)]
            <7>1. u \in Seq(Steps) /\ v \in Seq(Steps) /\ q = u \o v  BY <5>1, <5>2, <5>3, Zenon
            <7>2. IsBoth(q, u, v)  BY <7>1, Both, Zenon
            <7> QED  BY <7>2 DEF IsBoth
          <6>2. Len(q) = 7  BY <5>1, <5>3, <6>1
          <6>3. \A k \in 1..7 : q[k] = IF k <= 5 THEN u[k] ELSE v[k - 5]  BY <5>3, <6>1, <6>2
          <6>4. /\ q[1] = u[1] /\ q[2] = u[2] /\ q[3] = u[3] /\ q[4] = u[4] /\ q[5] = u[5]
                /\ q[6] = v[1] /\ q[7] = v[2]
            BY <6>3
          <6> QED  BY <6>1, <6>2, <6>4, Zenon
        <5>5. 1..7 = {1, 2, 3, 4, 5, 6, 7}  OBVIOUS
        <5> QED  BY <5>1, <5>3, <5>4, <5>5
      <4> QED  BY <2>2, <2>3, <2>9, <2>11, <4>1 DEF TodoInv, Plain, StepKinds, Holds
    <3>2. CASE q = <<b, c>>
      <4>1. Len(q) = 2 /\ q[1] = b /\ q[2] = c /\ DOMAIN q = {1, 2}  BY <3>2
      <4> QED  BY <2>2, <2>9, <2>11, <4>1 DEF TodoInv, Plain, StepKinds, Holds
    <3> QED  BY <2>8, <3>1, <3>2
  <2>13. StillInv'  BY <1>1, <2>1, <2>10 DEF StillInv
  <2>14. FollowInv'  BY <2>10 DEF FollowInv
  <2> QED  BY <2>12, <2>13, <2>14 DEF CommandInv
<1> QED  BY <1>5, <1>6, <1>7 DEF Decide

LEMMA CommandEndsScrub == TypeInv /\ CommandInv /\ EndScrub => CommandInv'
<1> SUFFICES ASSUME TypeInv, CommandInv, EndScrub PROVE CommandInv'  OBVIOUS
<1>1. /\ Doing("endscrub") /\ ~scrubbing'
      /\ UNCHANGED <<feeder, clock, plan, state>>
  BY DEF EndScrub, soundVars
<1> DEFINE a == Step("read")
           b == Step("here")
           s == IF scrubbing /\ Head(todo).t = 1 THEN <<a, b>> ELSE <<>>
<1>2. a.do = "read" /\ b.do = "here"  BY DEF Step
<1>3. a \in Steps /\ b \in Steps  BY PlainSteps DEF StepKinds
<1>4. todo' = s \o Tail(todo)  BY DEF EndScrub, Then
<1>5. todo \in Seq(Steps) /\ todo # <<>> /\ todo[1].do = "endscrub"  BY <1>1, Doings
<1> HIDE DEF a, b
<1>6. s \in Seq(Steps) /\ Len(s) \in {0, 2} /\ (Len(s) = 2 => s[1] = a /\ s[2] = b /\ scrubbing)
  BY <1>3
<1> HIDE DEF s
<1>7. \A k \in 1..Len(s) : Len(s) = 2 /\ k \in {1, 2} /\ todo'[k] = s[k]
  <2>1. \A k \in 1..Len(s) : todo'[k] = s[k]  BY <1>4, <1>5, <1>6, Spliced
  <2>2. 1..0 = {} /\ 1..2 = {1, 2}  OBVIOUS
  <2> QED  BY <1>6, <2>1, <2>2
<1>8. \A k \in 1..Len(s) : Fine(k)'
  <2> SUFFICES ASSUME NEW k \in 1..Len(s) PROVE Fine(k)'  OBVIOUS
  <2>1. CASE k = 1
    <3>1. todo'[k].do = "read"  BY <1>2, <1>6, <1>7, <2>1
    <3> QED  BY <3>1, PlainIsFine DEF Plain, StepKinds, Holds
  <2>2. CASE k = 2
    <3>1. todo'[k].do = "here"  BY <1>2, <1>6, <1>7, <2>2
    <3>2. state' # "playing"  BY <1>1, <1>6, <1>7 DEF CommandInv, StillInv
    <3> QED  BY <3>1, <3>2 DEF Fine, Holds
  <2> QED  BY <1>7, <2>1, <2>2
<1>9. "endscrub" \notin Holds \cup Joins \cup Mends /\ Still' = Still  BY <1>1 DEF Holds, Joins, Mends, Still
<1>10. TodoInv'  BY <1>1, <1>4, <1>5, <1>6, <1>8, <1>9, Continued DEF CommandInv
<1>11. \A k \in 1..Len(s) : s[k].do \notin {"swap", "retune"}  BY <1>2, <1>6, <1>7
<1>12. FollowInv'  BY <1>1, <1>4, <1>5, <1>6, <1>9, <1>11, FollowsOn DEF CommandInv
<1>13. StillInv'  BY <1>1, <1>9 DEF CommandInv, StillInv
<1> QED  BY <1>10, <1>12, <1>13 DEF CommandInv

LEMMA Unchained == \A p : OnlyChainsOrCropsDiffer(p, p)
BY DEF OnlyChainsOrCropsDiffer, SameTiming

LEMMA Chained ==
    ASSUME NEW p \in Plans, NEW q \in Plans, NEW r \in Plans,
           OnlyChainsOrCropsDiffer(p, q), OnlyChainsOrCropsDiffer(q, r)
    PROVE  OnlyChainsOrCropsDiffer(p, r)
<1>1. DOMAIN p = 1..Len(p) /\ DOMAIN q = 1..Len(q)  BY PlansAre, PlanShape
<1>2. Len(p) = Len(q) /\ Len(q) = Len(r)  BY DEF OnlyChainsOrCropsDiffer
<1>3. ASSUME NEW i \in DOMAIN p PROVE SameTiming(p[i], r[i])
  <2>1. SameTiming(p[i], q[i]) /\ SameTiming(q[i], r[i])
    BY <1>1, <1>2 DEF OnlyChainsOrCropsDiffer
  <2> QED  BY <2>1 DEF SameTiming
<1> QED  BY <1>2, <1>3 DEF OnlyChainsOrCropsDiffer

\* A feeder is started where the clock stands, and with the plan there is.
LEMMA CommandStarts == TypeInv /\ CommandInv /\ StartFeeder => CommandInv'
<1> SUFFICES ASSUME TypeInv, CommandInv, StartFeeder PROVE CommandInv'  OBVIOUS
<1>1. /\ Doing("start") /\ UNCHANGED <<clock, plan, scrubbing>> /\ state' = "playing"
      /\ feeder'.plan = plan /\ feeder'.chains = plan /\ feeder'.retune = <<>>
      /\ todo' = <<>> \o Tail(todo)
  BY DEF StartFeeder, scrubVars, Then
<1>2. todo[1].do = "start" /\ 1 \in DOMAIN todo /\ todo \in Seq(Steps) /\ todo # <<>>  BY <1>1, Doings
<1>3. Fine(1)  BY <1>2 DEF CommandInv, TodoInv
<1>4. Still /\ ~scrubbing /\ Len(todo) = 1  BY <1>2, <1>3 DEF Fine, Held, Earlier, Undragged, Holds
<1>5. todo' = <<>> /\ DOMAIN todo' = {}
  <2>1. Tail(todo) = <<>>  BY <1>2, <1>4, LastStep
  <2> QED  BY <1>1, <2>1
<1>6. StillInv'  BY <1>1, <1>4 DEF StillInv, Still
<1>7. TodoInv'  BY <1>5 DEF TodoInv
<1>8. FollowInv'  BY <1>1, <1>5, Unchained DEF FollowInv, Follows
<1> QED  BY <1>6, <1>7, <1>8 DEF CommandInv

LEMMA CommandStepsOrDrags == TypeInv /\ CommandInv /\ (StepFrames \/ Scrub) => CommandInv'
<1> SUFFICES ASSUME TypeInv, CommandInv, StepFrames \/ Scrub PROVE CommandInv'  OBVIOUS
<1>1. CASE Scrub
  <2>1. /\ state # "playing" /\ feeder = NoFeeder /\ Len(todo) = 1 /\ todo \in Seq(Steps) /\ todo # <<>>
    BY <1>1, AtRestNow, Doings DEF Scrub
  <2>2. clock'.mode = "paused" /\ feeder' = feeder /\ state' # "playing" /\ todo' = <<>> \o Tail(todo)
    BY <1>1, <2>1 DEF Scrub, PausedAt, Then
  <2>3. DOMAIN todo' = {}
    <3>1. Tail(todo) = <<>>  BY <2>1, LastStep
    <3> QED  BY <2>2, <3>1
  <2> QED  BY <2>1, <2>2, <2>3 DEF CommandInv, StillInv, Still, TodoInv, FollowInv
<1>2. CASE StepFrames
  <2> DEFINE at == PlaceAt(plan, local.t)
             to == Stepped(plan, at, Head(todo).t)
             target == TargetOf(plan, to)
  <2>1. /\ state # "playing" /\ feeder = NoFeeder /\ clock.mode = "paused" /\ Still /\ Len(todo) = 1
        /\ todo \in Seq(Steps) /\ todo # <<>> /\ Doing("step") /\ Head(todo).t \in {-1, 1}
    <3>1. Doing("step")  BY <1>2 DEF StepFrames
    <3> QED  BY <3>1, AtRestNow, Doings DEF Carries
  <2>2. /\ UNCHANGED <<feeder, clock, plan, scrubbing>>
        /\ state' = state \/ (state = "ended" /\ state' = "paused")
    BY <1>2 DEF StepFrames, soundVars, scrubVars
  <2>3. \/ at = NoPlace /\ Then(<<>>)
        \/ at # NoPlace /\ Then(<<StepAt("pend", target), Step("hold")>>)
        \/ at # NoPlace /\ Then(Seeking(Clamp(target)))
    BY <1>2 DEF StepFrames
  <2>4. IsPlan(plan) /\ plan \in Plans /\ local.t \in Int  BY PlansAre DEF TypeInv
  <2>5. at \in Places(plan) \cup {NoPlace}  BY <2>4, PlaceFound
  <2> HIDE DEF at
  <2>6. at # NoPlace => to \in Places(plan)  BY <2>1, <2>4, <2>5, OneStep
  <2> HIDE DEF to
  <2>7. at # NoPlace => target \in Int  BY <2>4, <2>6, TargetThere
  <2> HIDE DEF target
  <2>8. CASE at # NoPlace /\ Then(Seeking(Clamp(target)))
    <3>1. Clamp(target) \in Int  BY <2>4, <2>7, <2>8, ClampThere
    <3> QED  BY <2>1, <2>2, <2>8, <3>1, CommandSeeks
  <2>9. state' # "playing" /\ feeder' = NoFeeder /\ Still'  BY <2>1, <2>2 DEF Still
  <2>10. StillInv' /\ FollowInv'  BY <2>2, <2>9 DEF StillInv, FollowInv, NoFeeder
  <2>11. Tail(todo) = <<>>  BY <2>1, LastStep
  <2>12. CASE Then(<<>>)
    <3>1. todo' = <<>> \o <<>>  BY <2>11, <2>12 DEF Then
    <3>2. DOMAIN todo' = {}  BY <3>1
    <3> QED  BY <2>10, <3>2 DEF CommandInv, TodoInv
  <2>13. CASE Then(<<StepAt("pend", target), Step("hold")>>)
    <3> DEFINE a == StepAt("pend", target)
               b == Step("hold")
    <3>1. a.do = "pend" /\ b.do = "hold"  BY DEF Step, StepAt
    <3>2. todo' = <<a, b>> \o <<>>  BY <2>11, <2>13 DEF Then
    <3> HIDE DEF a, b
    <3>3. DOMAIN todo' = {1, 2} /\ todo'[1] = a /\ todo'[2] = b  BY <3>2
    <3>4. Fine(1)'  BY <3>1, <3>3, PlainIsFine DEF Plain, StepKinds, Holds
    <3>5. Fine(2)'  BY <2>9, <3>1, <3>3 DEF Fine, Joined, Holds
    <3> QED  BY <2>10, <3>3, <3>4, <3>5 DEF CommandInv, TodoInv
  <2> QED  BY <2>3, <2>8, <2>12, <2>13
<1> QED  BY <1>1, <1>2

-----------------------------------------------------------------------------
(* A new plan                                                                *)

\* The first step done, those after it move up by one.
LEMMA MovedUp ==
    ASSUME TypeInv, NEW kind, Doing(kind), Then(<<>>)
    PROVE  /\ Len(todo') = Len(todo) - 1 /\ DOMAIN todo' = 1..(Len(todo) - 1)
           /\ DOMAIN todo = 1..Len(todo) /\ Len(todo) \in Nat \ {0}
           /\ \A k \in DOMAIN todo' : k + 1 \in DOMAIN todo /\ todo'[k] = todo[k + 1] /\ k \in Nat
           /\ \A k \in DOMAIN todo : k > 1 => k - 1 \in DOMAIN todo' /\ todo'[k - 1] = todo[k]
<1>1. todo \in Seq(Steps) /\ todo # <<>>  BY Doings
<1>2. Tail(todo) \in Seq(Steps) /\ Len(Tail(todo)) = Len(todo) - 1 /\ Len(todo) \in Nat \ {0}
      /\ \A k \in 1..(Len(todo) - 1) : Tail(todo)[k] = todo[k + 1]
  BY <1>1
<1>3. todo' = Tail(todo)
  <2>1. todo' = <<>> \o Tail(todo)  BY DEF Then
  <2> QED  BY <1>2, <2>1
<1> DEFINE u == todo'
<1>4. u \in Seq(Steps) /\ Len(u) = Len(todo) - 1 /\ \A k \in 1..(Len(todo) - 1) : u[k] = todo[k + 1]
  BY <1>2, <1>3
<1>5. DOMAIN u = 1..(Len(todo) - 1) /\ DOMAIN todo = 1..Len(todo)  BY <1>1, <1>2, <1>4
<1> QED  BY <1>2, <1>4, <1>5

\* Replanning leaves, after the swap, what sees to the sound.
Replanned(new) ==
    <<Step("uncache"), [Step("swap") EXCEPT !.plan = new], Step("clamp")>> \o AfterPlan(new)
ReplansTo(q, new) ==
    /\ q[1].do = "uncache" /\ q[2].do = "swap" /\ q[2].plan = new /\ q[3].do = "clamp"
    /\ \/ /\ Len(q) = 4 /\ q[4].do = "retune" /\ state = "playing" /\ feeder # NoFeeder
          /\ OnlyChainsOrCropsDiffer(plan, new)
       \/ Len(q) = 4 /\ q[4].do = "here"
       \/ /\ Len(q) = 7 /\ q[4].do = "stop" /\ q[5].do = "join" /\ q[6].do = "hold"
          /\ q[7].do = "start" /\ state = "playing"
       \/ Len(q) = 3 /\ state # "playing"

LEMMA ReplanShape == \A new : ReplansTo(Replanned(new), new)
<1> SUFFICES ASSUME NEW new, NEW q, q = Replanned(new) PROVE ReplansTo(q, new)  OBVIOUS
<1> USE DEF ReplansTo
<1> DEFINE a == Step("uncache")
           b == [Step("swap") EXCEPT !.plan = new]
           c == Step("clamp")
           d == Step("retune")
           e == Step("here")
           f == Step("stop")
           g == Step("join")
           h == Step("hold")
           i == Step("start")
<1>1. /\ a.do = "uncache" /\ b.do = "swap" /\ b.plan = new /\ c.do = "clamp" /\ d.do = "retune"
      /\ e.do = "here" /\ f.do = "stop" /\ g.do = "join" /\ h.do = "hold" /\ i.do = "start"
  BY DEF Step
<1>2. q = <<a, b, c>> \o AfterPlan(new)  BY DEF Replanned
<1>3. \/ /\ AfterPlan(new) = <<d>> /\ state = "playing" /\ feeder # NoFeeder
         /\ OnlyChainsOrCropsDiffer(plan, new)
      \/ AfterPlan(new) = <<e>>
      \/ AfterPlan(new) = <<f, g, h, i>> /\ state = "playing"
      \/ AfterPlan(new) = <<>> /\ state # "playing"
  BY DEF AfterPlan
<1> HIDE DEF a, b, c, d, e, f, g, h, i
<1>4. CASE /\ AfterPlan(new) = <<d>> /\ state = "playing" /\ feeder # NoFeeder
           /\ OnlyChainsOrCropsDiffer(plan, new)
  <2>1. Len(q) = 4 /\ q[1] = a /\ q[2] = b /\ q[3] = c /\ q[4] = d  BY <1>2, <1>4
  <2> QED  BY <1>1, <1>4, <2>1
<1>5. CASE AfterPlan(new) = <<e>>
  <2>1. Len(q) = 4 /\ q[1] = a /\ q[2] = b /\ q[3] = c /\ q[4] = e  BY <1>2, <1>5
  <2> QED  BY <1>1, <2>1
<1>6. CASE AfterPlan(new) = <<f, g, h, i>> /\ state = "playing"
  <2>1. Len(q) = 7 /\ q[1] = a /\ q[2] = b /\ q[3] = c /\ q[4] = f /\ q[5] = g /\ q[6] = h /\ q[7] = i
    BY <1>2, <1>6
  <2> QED  BY <1>1, <1>6, <2>1
<1>7. CASE AfterPlan(new) = <<>> /\ state # "playing"
  <2>1. Len(q) = 3 /\ q[1] = a /\ q[2] = b /\ q[3] = c  BY <1>2, <1>7
  <2> QED  BY <1>1, <1>7, <2>1
<1> QED  BY <1>3, <1>4, <1>5, <1>6, <1>7

LEMMA CommandReplans == TypeInv /\ TypeInv' /\ CommandInv /\ Replan => CommandInv'
<1> SUFFICES ASSUME TypeInv, TypeInv', CommandInv, Replan PROVE CommandInv'  OBVIOUS
<1> DEFINE new == Head(todo).plan
           q == <<Step("uncache"), [Step("swap") EXCEPT !.plan = new], Step("clamp")>> \o AfterPlan(new)
<1>1. Doing("replan") /\ todo' = q \o Tail(todo) /\ UNCHANGED <<state, plan, feeder, clock, scrubbing>>
  BY DEF Replan, Then, soundVars, scrubVars
<1>2. /\ todo \in Seq(Steps) /\ todo # <<>> /\ todo[1].do = "replan" /\ 1 \in DOMAIN todo
      /\ new \in Plans
  BY <1>1, Doings DEF Carries
<1>3. Len(todo) = 1
  <2>1. Fine(1)  BY <1>2 DEF CommandInv, TodoInv
  <2> QED  BY <1>2, <2>1 DEF Fine
<1>4. todo' = q
  <2>1. Tail(todo) = <<>>  BY <1>2, <1>3, LastStep
  <2>2. q \in Seq(Steps)
    <3>1. [Step("swap") EXCEPT !.plan = new] \in Steps
      BY <1>2 DEF Step, Steps, StepKinds, Carries
    <3>2. Step("uncache") \in Steps /\ Step("clamp") \in Steps  BY PlainSteps DEF StepKinds
    <3> QED  BY <3>1, <3>2, AfterSteps
  <2> HIDE DEF q
  <2> QED  BY <1>1, <2>1, <2>2, ConcatEmptySeq
<1>5. /\ q[1].do = "uncache" /\ q[2].do = "swap" /\ q[2].plan = new /\ q[3].do = "clamp"
      /\ \/ /\ Len(q) = 4 /\ q[4].do = "retune" /\ state = "playing" /\ feeder # NoFeeder
            /\ OnlyChainsOrCropsDiffer(plan, new)
         \/ Len(q) = 4 /\ q[4].do = "here"
         \/ /\ Len(q) = 7 /\ q[4].do = "stop" /\ q[5].do = "join" /\ q[6].do = "hold"
            /\ q[7].do = "start" /\ state = "playing"
         \/ Len(q) = 3 /\ state # "playing"
  <2>1. q = Replanned(new)  BY DEF Replanned
  <2> HIDE DEF q, new
  <2>2. ReplansTo(q, new)  BY <2>1, ReplanShape, Zenon
  <2> QED  BY <2>2 DEF ReplansTo
<1> HIDE DEF q, new
<1>6. todo' \in Seq(Steps)  BY DEF TypeInv
<1>7. DOMAIN q = 1..Len(q) /\ 1..3 = {1, 2, 3} /\ 1..4 = {1, 2, 3, 4} /\ 1..7 = {1, 2, 3, 4, 5, 6, 7}
  BY <1>4, <1>6
<1>8. StillInv'  BY <1>1 DEF CommandInv, StillInv, Still
<1>9. \A k \in DOMAIN q : q[k].do \in Plain => Fine(k)'  BY <1>4, PlainIsFine
<1>10. {"uncache", "swap", "clamp", "retune", "stop", "join"} \subseteq Plain
  BY DEF Plain, StepKinds, Holds
<1>11. TodoInv'
  <2>1. CASE Len(q) = 4 /\ q[4].do = "retune"
    BY <1>4, <1>5, <1>7, <1>9, <1>10, <2>1 DEF TodoInv
  <2>2. CASE Len(q) = 4 /\ q[4].do = "here"
    <3>1. Fine(4)'  BY <1>4, <2>2 DEF Fine, Holds
    <3> QED  BY <1>4, <1>5, <1>7, <1>9, <1>10, <2>2, <3>1 DEF TodoInv
  <2>3. CASE /\ Len(q) = 7 /\ q[4].do = "stop" /\ q[5].do = "join" /\ q[6].do = "hold"
             /\ q[7].do = "start" /\ state = "playing"
    <3>1. Fine(6)'
      <4>1. 5 \in 1..(6 - 1)  OBVIOUS
      <4>2. Earlier(6, Joins)'  BY <1>4, <2>3, <4>1 DEF Earlier, Joins
      <4> QED  BY <1>4, <2>3, <4>2 DEF Fine, Joined, Holds
    <3>2. Fine(7)'
      <4>1. 6 \in 1..(7 - 1)  OBVIOUS
      <4>2. Earlier(7, Holds)'  BY <1>4, <2>3, <4>1 DEF Earlier, Holds
      <4>3. ~scrubbing'  BY <1>1, <2>3 DEF CommandInv, StillInv
      <4> QED  BY <1>4, <2>3, <4>2, <4>3 DEF Fine, Held, Undragged, Holds
    <3> QED  BY <1>4, <1>5, <1>7, <1>9, <1>10, <2>3, <3>1, <3>2 DEF TodoInv
  <2>4. CASE Len(q) = 3  BY <1>4, <1>5, <1>7, <1>9, <1>10, <2>4 DEF TodoInv
  <2> QED  BY <1>5, <2>1, <2>2, <2>3, <2>4
<1>12. FollowInv'
  <2> SUFFICES ASSUME feeder # NoFeeder PROVE FollowInv'  BY <1>1 DEF FollowInv
  <2>1. state = "playing"  BY DEF CommandInv, StillInv, Still
  <2>2. Follows
    <3>1. \A k \in DOMAIN todo : k = 1  BY <1>2, <1>3
    <3> QED  BY <1>2, <3>1 DEF CommandInv, FollowInv, Mends
  <2>3. Follows'  BY <1>1, <2>2 DEF Follows
  <2>4. ASSUME NEW j \in DOMAIN q, q[j].do = "swap"
        PROVE  j = 2 /\ \E k \in DOMAIN q : j < k /\ q[k].do \in Mends
    <3>1. j = 2  BY <1>5, <1>7, <2>1, <2>4
    <3>2. \/ 4 \in DOMAIN q /\ q[4].do \in Mends
          \/ 5 \in DOMAIN q /\ q[5].do \in Mends
      BY <1>5, <1>7, <2>1 DEF Mends
    <3> QED  BY <3>1, <3>2
  <2>5. ASSUME NEW k \in DOMAIN q, q[k].do = "retune"
        PROVE  /\ \A j \in 1..(k - 1) :
                      q[j].do = "swap" => OnlyChainsOrCropsDiffer(feeder.plan, q[j].plan)
               /\ Earlier(k, {"swap"})'
    <3>1. k = 4 /\ OnlyChainsOrCropsDiffer(plan, new)  BY <1>5, <1>7, <2>1, <2>5
    <3>2. OnlyChainsOrCropsDiffer(feeder.plan, new)
      <4>1. OnlyChainsOrCropsDiffer(feeder.plan, plan)  BY <2>2 DEF Follows
      <4>2. feeder.plan \in Plans /\ plan \in Plans  BY DEF TypeInv, Feeders
      <4> QED  BY <1>2, <3>1, <4>1, <4>2, Chained
    <3>3. \A j \in 1..(k - 1) : q[j].do = "swap" => j = 2
      BY <1>5, <1>7, <3>1
    <3>4. Earlier(k, {"swap"})'  BY <1>4, <1>5, <3>1 DEF Earlier
    <3> QED  BY <1>5, <3>2, <3>3, <3>4
  <2>6. /\ OnlyChainsOrCropsDiffer(feeder.plan, feeder.chains)
        /\ feeder.retune # <<>> => OnlyChainsOrCropsDiffer(feeder.plan, feeder.retune)
    BY DEF CommandInv, FollowInv
  <2> QED  BY <1>1, <1>4, <2>3, <2>4, <2>5, <2>6 DEF FollowInv
<1> QED  BY <1>8, <1>11, <1>12 DEF CommandInv

LEMMA CommandSwaps == TypeInv /\ CommandInv /\ SwapPlan => CommandInv'
<1> SUFFICES ASSUME TypeInv, CommandInv, SwapPlan PROVE CommandInv'  OBVIOUS
<1>1. /\ Doing("swap") /\ Then(<<>>) /\ plan' = todo[1].plan
      /\ UNCHANGED <<state, feeder, clock, scrubbing>>
  <2>1. Doing("swap") /\ Then(<<>>) /\ plan' = Head(todo).plan
        /\ UNCHANGED <<state, feeder, clock, scrubbing>>
    BY DEF SwapPlan, soundVars, scrubVars
  <2> QED  BY <2>1, Doings
<1>2. todo \in Seq(Steps) /\ todo # <<>> /\ todo[1].do = "swap" /\ 1 \in DOMAIN todo  BY <1>1, Doings
<1>3. StillInv'  BY <1>1 DEF CommandInv, StillInv, Still
<1>4. TodoInv'
  <2> DEFINE s == <<>>
  <2>1. s \in Seq(Steps) /\ todo' = s \o Tail(todo) /\ 1..Len(s) = {}  BY <1>1 DEF Then
  <2> HIDE DEF s
  <2>2. "swap" \notin Holds \cup Joins /\ Still' = Still  BY <1>1 DEF Holds, Joins, Still
  <2> QED  BY <1>1, <1>2, <2>1, <2>2, Continued DEF CommandInv
<1>5. /\ Len(todo') = Len(todo) - 1 /\ DOMAIN todo' = 1..(Len(todo) - 1)
      /\ DOMAIN todo = 1..Len(todo) /\ Len(todo) \in Nat \ {0}
      /\ \A k \in DOMAIN todo' : k + 1 \in DOMAIN todo /\ todo'[k] = todo[k + 1] /\ k \in Nat
      /\ \A k \in DOMAIN todo : k > 1 => k - 1 \in DOMAIN todo' /\ todo'[k - 1] = todo[k]
  BY <1>1, MovedUp
<1>6. FollowInv'
  <2> SUFFICES ASSUME feeder # NoFeeder PROVE FollowInv'  BY <1>1 DEF FollowInv
  <2>1. /\ OnlyChainsOrCropsDiffer(feeder.plan, feeder.chains)
        /\ feeder.retune # <<>> => OnlyChainsOrCropsDiffer(feeder.plan, feeder.retune)
    BY DEF CommandInv, FollowInv
  <2>2. \E k \in DOMAIN todo' : todo'[k].do \in Mends
    <3>1. PICK k \in DOMAIN todo : 1 < k /\ todo[k].do \in Mends  BY <1>2 DEF CommandInv, FollowInv
    <3> QED  BY <1>5, <3>1
  <2>3. ASSUME NEW j \in DOMAIN todo', todo'[j].do = "swap"
        PROVE  \E k \in DOMAIN todo' : j < k /\ todo'[k].do \in Mends
    <3>1. j + 1 \in DOMAIN todo /\ todo[j + 1].do = "swap" /\ j \in Nat  BY <1>5, <2>3
    <3>2. PICK k \in DOMAIN todo : j + 1 < k /\ todo[k].do \in Mends
      BY <3>1 DEF CommandInv, FollowInv
    <3>3. k \in Nat /\ k > 1 /\ j < k - 1  BY <1>5, <3>1, <3>2
    <3> QED  BY <1>5, <3>2, <3>3
  <2>4. ASSUME NEW k \in DOMAIN todo', todo'[k].do = "retune"
        PROVE  /\ \A j \in 1..(k - 1) :
                      todo'[j].do = "swap" => OnlyChainsOrCropsDiffer(feeder.plan, todo'[j].plan)
               /\ OnlyChainsOrCropsDiffer(feeder.plan, plan')
    <3>1. k + 1 \in DOMAIN todo /\ todo[k + 1].do = "retune" /\ k \in Nat /\ k >= 1  BY <1>5, <2>4
    <3>2. \A j \in 1..((k + 1) - 1) :
              todo[j].do = "swap" => OnlyChainsOrCropsDiffer(feeder.plan, todo[j].plan)
      BY <3>1 DEF CommandInv, FollowInv
    <3>3. 1 \in 1..((k + 1) - 1)  BY <3>1
    <3>4. OnlyChainsOrCropsDiffer(feeder.plan, plan')  BY <1>1, <1>2, <3>2, <3>3
    <3>5. ASSUME NEW j \in 1..(k - 1), todo'[j].do = "swap"
          PROVE  OnlyChainsOrCropsDiffer(feeder.plan, todo'[j].plan)
      <4>1. j \in DOMAIN todo' /\ j + 1 \in 1..((k + 1) - 1)  BY <1>5, <3>1
      <4>2. todo'[j] = todo[j + 1]  BY <1>5, <4>1
      <4> QED  BY <3>2, <3>5, <4>1, <4>2
    <3> QED  BY <3>4, <3>5
  <2> QED  BY <1>1, <2>1, <2>2, <2>3, <2>4 DEF FollowInv
<1> QED  BY <1>3, <1>4, <1>6 DEF CommandInv

\* The chains handed over are those of the plan there is.
LEMMA CommandRetunes == TypeInv /\ TypeInv' /\ CommandInv /\ Retune => CommandInv'
<1> SUFFICES ASSUME TypeInv, TypeInv', CommandInv, Retune PROVE CommandInv'  OBVIOUS
<1>1. /\ Doing("retune") /\ Then(<<>>) /\ feeder' = [feeder EXCEPT !.retune = plan]
      /\ UNCHANGED <<state, plan, clock, scrubbing>>
  BY DEF Retune, scrubVars
<1>2. todo \in Seq(Steps) /\ todo # <<>> /\ todo[1].do = "retune" /\ 1 \in DOMAIN todo  BY <1>1, Doings
<1>3. /\ feeder' = NoFeeder <=> feeder = NoFeeder
      /\ feeder # NoFeeder =>
            /\ feeder'.plan = feeder.plan /\ feeder'.pc = feeder.pc
            /\ feeder'.chains = feeder.chains /\ feeder'.retune = plan
  <2>1. CASE feeder = NoFeeder
    <3>1. feeder' = NoFeeder  BY <1>1, <2>1 DEF NoFeeder
    <3> QED  BY <2>1, <3>1
  <2>2. CASE feeder # NoFeeder
    <3>1. feeder \in Feeders  BY <2>2 DEF TypeInv
    <3>2. DOMAIN feeder = {"pc", "stop", "plan", "chains", "retune", "at", "gen", "written"}
      BY <3>1 DEF Feeders
    <3>3. /\ feeder'.plan = feeder.plan /\ feeder'.pc = feeder.pc
          /\ feeder'.chains = feeder.chains /\ feeder'.retune = plan
      BY <1>1, <3>2, Zenon
    <3>4. feeder.pc # "none"  BY <3>1 DEF Feeders
    <3> QED  BY <2>2, <3>3, <3>4 DEF NoFeeder
  <2> QED  BY <2>1, <2>2
<1>4. Still' <=> Still  BY <1>1, <1>3 DEF Still
<1>5. StillInv'
  <2>1. feeder'.pc = feeder.pc  BY <1>3
  <2> QED  BY <1>1, <1>4, <2>1 DEF CommandInv, StillInv
<1>6. TodoInv'
  <2> DEFINE s == <<>>
  <2>1. s \in Seq(Steps) /\ todo' = s \o Tail(todo) /\ 1..Len(s) = {}  BY <1>1 DEF Then
  <2> HIDE DEF s
  <2>2. "retune" \notin Holds \cup Joins  BY DEF Holds, Joins
  <2> QED  BY <1>1, <1>2, <1>3, <1>4, <2>1, <2>2, Continued DEF CommandInv
<1>7. /\ Len(todo') = Len(todo) - 1 /\ DOMAIN todo' = 1..(Len(todo) - 1)
      /\ DOMAIN todo = 1..Len(todo) /\ Len(todo) \in Nat \ {0}
      /\ \A k \in DOMAIN todo' : k + 1 \in DOMAIN todo /\ todo'[k] = todo[k + 1] /\ k \in Nat
      /\ \A k \in DOMAIN todo : k > 1 => k - 1 \in DOMAIN todo' /\ todo'[k - 1] = todo[k]
  BY <1>1, MovedUp
<1>8. FollowInv'
  <2> SUFFICES ASSUME feeder # NoFeeder PROVE FollowInv'  BY <1>3 DEF FollowInv
  <2>1. OnlyChainsOrCropsDiffer(feeder.plan, feeder.chains)
    BY DEF CommandInv, FollowInv
  <2>2. OnlyChainsOrCropsDiffer(feeder.plan, plan)
    <3>1. ~Earlier(1, {"swap"})  BY DEF Earlier
    <3> QED  BY <1>2, <3>1 DEF CommandInv, FollowInv
  <2>3. Follows'
    <3>1. plan = <<>> => feeder.chains = plan
      <4>1. feeder.chains \in Plans /\ feeder.plan \in Plans  BY DEF TypeInv, Feeders
      <4>2. feeder.chains \in Seq(Range(feeder.chains))  BY <4>1, PlansAre, PlanShape
      <4>3. plan = <<>> => Len(feeder.chains) = 0  BY <2>1, <2>2 DEF OnlyChainsOrCropsDiffer
      <4> QED  BY <4>2, <4>3
    <3> QED  BY <1>1, <1>3, <2>2, <3>1 DEF Follows
  <2>4. ASSUME NEW j \in DOMAIN todo', todo'[j].do = "swap"
        PROVE  \E k \in DOMAIN todo' : j < k /\ todo'[k].do \in Mends
    <3>1. j + 1 \in DOMAIN todo /\ todo[j + 1].do = "swap" /\ j \in Nat  BY <1>7, <2>4
    <3>2. PICK k \in DOMAIN todo : j + 1 < k /\ todo[k].do \in Mends
      BY <3>1 DEF CommandInv, FollowInv
    <3>3. k \in Nat /\ k > 1 /\ j < k - 1  BY <1>7, <3>1, <3>2
    <3> QED  BY <1>7, <3>2, <3>3
  <2>5. ASSUME NEW k \in DOMAIN todo', todo'[k].do = "retune"
        PROVE  \A j \in 1..(k - 1) :
                   todo'[j].do = "swap" => OnlyChainsOrCropsDiffer(feeder.plan, todo'[j].plan)
    <3>1. k + 1 \in DOMAIN todo /\ todo[k + 1].do = "retune" /\ k \in Nat /\ k >= 1  BY <1>7, <2>5
    <3>2. \A j \in 1..((k + 1) - 1) :
              todo[j].do = "swap" => OnlyChainsOrCropsDiffer(feeder.plan, todo[j].plan)
      BY <3>1 DEF CommandInv, FollowInv
    <3> SUFFICES ASSUME NEW j \in 1..(k - 1), todo'[j].do = "swap"
                 PROVE  OnlyChainsOrCropsDiffer(feeder.plan, todo'[j].plan)
      OBVIOUS
    <3>3. j \in DOMAIN todo' /\ j + 1 \in 1..((k + 1) - 1)  BY <1>7, <3>1
    <3>4. todo'[j] = todo[j + 1]  BY <1>7, <3>3
    <3> QED  BY <3>2, <3>3, <3>4
  <2> QED  BY <1>1, <1>3, <2>1, <2>2, <2>3, <2>4, <2>5 DEF FollowInv
<1> QED  BY <1>5, <1>6, <1>8 DEF CommandInv

\* ... and the loop's range, whose lock is taken twice
LEMMA CommandClamps == TypeInv /\ CommandInv /\ ClampLoop => CommandInv'
<1> SUFFICES ASSUME TypeInv, CommandInv, ClampLoop PROVE CommandInv'  OBVIOUS
<1>1. /\ Doing("clamp") /\ UNCHANGED <<state, plan, feeder, clock, scrubbing>>
      /\ Then(<<>>) \/ Then(<<Step("relock")>>)
  BY DEF ClampLoop, soundVars, scrubVars
<1>2. todo \in Seq(Steps) /\ todo # <<>> /\ todo[1].do = "clamp"  BY <1>1, Doings
<1>3. StillInv' /\ Still' = Still  BY <1>1 DEF CommandInv, StillInv, Still
<1>4. "clamp" \notin Holds \cup Joins \cup Mends  BY DEF Holds, Joins, Mends
<1>5. PICK s \in {<<>>, <<Step("relock")>>} : Then(s)  BY <1>1
<1>6. /\ s \in Seq(Steps) /\ todo' = s \o Tail(todo)
      /\ \A k \in 1..Len(s) : s[k].do = "relock" /\ todo'[k] = s[k]
  <2> DEFINE a == Step("relock")
  <2>1. a \in Steps /\ a.do = "relock"  BY PlainSteps DEF StepKinds
  <2>2. s = <<>> \/ s = <<a>>  OBVIOUS
  <2> HIDE DEF a
  <2>3. s \in Seq(Steps) /\ \A k \in 1..Len(s) : s[k] = a
    <3>1. CASE s = <<>>
      <4>1. s \in Seq(Steps) /\ Len(s) = 0  BY <3>1, EmptySeq
      <4> QED  BY <4>1
    <3>2. CASE s = <<a>>  BY <2>1, <3>2
    <3> QED  BY <2>2, <3>1, <3>2
  <2>4. todo' = s \o Tail(todo)  BY <1>5 DEF Then
  <2>5. \A k \in 1..Len(s) : todo'[k] = s[k]  BY <1>2, <2>3, <2>4, Spliced
  <2> QED  BY <2>1, <2>3, <2>4, <2>5
<1>7. \A k \in 1..Len(s) : Fine(k)'
  BY <1>6, PlainIsFine DEF Plain, StepKinds, Holds
<1>8. TodoInv'  BY <1>1, <1>2, <1>3, <1>4, <1>6, <1>7, Continued DEF CommandInv
<1>9. \A k \in 1..Len(s) : s[k].do \notin {"swap", "retune"}  BY <1>6
<1>10. FollowInv'  BY <1>1, <1>2, <1>4, <1>6, <1>9, FollowsOn DEF CommandInv
<1> QED  BY <1>3, <1>8, <1>10 DEF CommandInv

-----------------------------------------------------------------------------
(* A command begins                                                          *)

\* What begins changes nothing yet, and finds the sound following the plan.
LEMMA Begun ==
    ASSUME CommandInv, todo = <<>>, UNCHANGED <<state, plan, feeder, clock, scrubbing>>,
           \A k \in DOMAIN todo' : Fine(k)' /\ todo'[k].do \notin {"swap", "retune"}
    PROVE  CommandInv'
<1>1. StillInv'  BY DEF CommandInv, StillInv, Still
<1>2. TodoInv'  BY DEF TodoInv
<1>3. FollowInv'
  <2> SUFFICES ASSUME feeder # NoFeeder PROVE FollowInv'  BY DEF FollowInv
  <2>1. Follows  BY DEF CommandInv, FollowInv
  <2>2. Follows'  BY <2>1 DEF Follows
  <2> QED  BY <2>2 DEF CommandInv, FollowInv
<1> QED  BY <1>1, <1>2, <1>3 DEF CommandInv

\* A step of a script that began: fine, and not one of a new plan's
Begins(k) == Fine(k) /\ todo[k].do \notin {"swap", "retune"}

LEMMA PlainBegins ==
    ASSUME NEW k, todo'[k].do \in Plain \ {"swap", "retune"}
    PROVE  Begins(k)'
BY PlainIsFine DEF Begins

\* Pausing sets the clock after the feeder was joined; what follows finds the
\* player at rest.
LEMMA PausingBegins ==
    ASSUME state' = state, NEW s, s = Pausing, NEW n \in Nat, \A k \in 1..Len(s) : todo'[n + k] = s[k]
    PROVE  /\ \A k \in 1..Len(s) : Begins(n + k)'
           /\ \A k \in Nat : k > n + Len(s) => AtRest(k)'
           /\ Len(s) \in {0, 4}
<1>1. CASE state = "playing"
  <2> DEFINE a == Step("read")
             b == Step("stop")
             c == Step("join")
             d == Step("rest")
  <2>1. a.do = "read" /\ b.do = "stop" /\ c.do = "join" /\ d.do = "rest"  BY DEF Step
  <2>2. s = <<a, b, c, d>>  BY <1>1 DEF Pausing
  <2> HIDE DEF a, b, c, d
  <2>3. Len(s) = 4 /\ s[1] = a /\ s[2] = b /\ s[3] = c /\ s[4] = d  BY <2>2
  <2>4. /\ todo'[n + 1].do = "read" /\ todo'[n + 2].do = "stop" /\ todo'[n + 3].do = "join"
        /\ todo'[n + 4].do = "rest"
    BY <2>1, <2>3
  <2>5. \A k \in {1, 2, 3} : Begins(n + k)'
    BY <2>4, PlainBegins DEF Plain, StepKinds, Holds
  <2>6. Begins(n + 4)'
    <3>1. n + 3 \in 1..((n + 4) - 1)  OBVIOUS
    <3>2. Earlier(n + 4, Joins)'  BY <2>4, <3>1 DEF Earlier, Joins
    <3> QED  BY <2>4, <3>2 DEF Begins, Fine, Joined, Holds
  <2>7. ASSUME NEW k \in Nat, k > n + 4 PROVE AtRest(k)'
    <3>1. n + 4 \in 1..(k - 1)  BY <2>7
    <3>2. Earlier(k, {"rest"})'  BY <2>4, <3>1 DEF Earlier
    <3> QED  BY <3>2 DEF AtRest
  <2>8. 1..4 = {1, 2, 3} \cup {4}  OBVIOUS
  <2> QED  BY <2>3, <2>5, <2>6, <2>7, <2>8
<1>2. CASE state # "playing"
  <2>1. s = <<>>  BY <1>2 DEF Pausing
  <2>2. Len(s) = 0 /\ 1..Len(s) = {}  BY <2>1
  <2> QED  BY <1>2, <2>2 DEF AtRest
<1> QED  BY <1>1, <1>2

LEMMA SeekBegins ==
    ASSUME CommandInv, UNCHANGED <<state, feeder, clock, scrubbing>>, NEW t \in Int, NEW e \in Steps, e.do = "endscrub",
           todo' = <<e>> \o Seeking(t)
    PROVE  \A k \in DOMAIN todo' : Begins(k)'
<1> DEFINE s == Seeking(t)
           u == todo'
<1>1. s \in Seq(Steps)  BY SeekingSteps
<1>2. /\ state = "playing" =>
            /\ Len(s) = 7 /\ s[1].do = "pend" /\ s[2].do = "stop" /\ s[3].do = "join"
            /\ s[4].do = "jump" /\ s[5].do = "clear" /\ s[6].do = "prepare" /\ s[7].do = "start"
      /\ state # "playing" =>
            /\ Len(s) = 4 /\ s[1].do = "pend" /\ s[2].do = "jump" /\ s[3].do = "clear"
            /\ s[4].do = "prepare"
  BY SeekingShape
<1>3. u = <<e>> \o s  OBVIOUS
<1> HIDE DEF s, u
<1>4. /\ Len(u) = 1 + Len(s) /\ u[1] = e /\ Len(s) \in Nat /\ DOMAIN u = 1..Len(u)
      /\ \A k \in 1..Len(s) : u[1 + k] = s[k]
  BY <1>1, <1>3
<1>5. \A k \in 1..Len(s) : Fine(1 + k)'
  <2>1. s = Seeking(t) /\ 1 \in Nat /\ u = todo'  BY DEF s, u
  <2>2. state = "playing" => Len(todo') = 1 + 7  BY <1>2, <1>4, <2>1
  <2> QED  BY <1>4, <2>1, <2>2, SeekingIsFine
<1>6. \A k \in 1..Len(s) : s[k].do \notin {"swap", "retune"}
  <2>1. 1..7 = {1, 2, 3, 4, 5, 6, 7} /\ 1..4 = {1, 2, 3, 4}  OBVIOUS
  <2> QED  BY <1>2, <2>1
<1>7. \A k \in 1..Len(s) : Begins(1 + k)'
  <2>1. u = todo'  BY DEF u
  <2> QED  BY <1>4, <1>5, <1>6, <2>1 DEF Begins
<1>8. Begins(1)'
  <2>1. todo'[1].do = "endscrub"  BY <1>4 DEF u
  <2> QED  BY <2>1, PlainBegins DEF Plain, StepKinds, Holds
<1>9. \A k \in DOMAIN u : k = 1 \/ (k - 1 \in 1..Len(s) /\ 1 + (k - 1) = k)  BY <1>4
<1>10. \A k \in DOMAIN u : Begins(k)'
  <2> SUFFICES ASSUME NEW k \in DOMAIN u PROVE Begins(k)'  OBVIOUS
  <2>1. CASE k = 1  BY <1>8, <2>1
  <2>2. CASE k - 1 \in 1..Len(s) /\ 1 + (k - 1) = k
    <3> DEFINE j == k - 1
    <3>1. j \in 1..Len(s) /\ 1 + j = k  BY <2>2
    <3> HIDE DEF j
    <3>2. Begins(1 + j)'  BY <1>7, <3>1
    <3> QED  BY <3>1, <3>2
  <2> QED  BY <1>9, <2>1, <2>2
<1> QED  BY <1>10 DEF u
-----------------------------------------------------------------------------

\* Where a place within m, n and l things is
IsWithin(m, n, l, k) ==
    \/ k \in 1..m
    \/ \E j \in 1..n : k = m + j
    \/ \E j \in 1..l : k = m + n + j /\ (j = l => k = m + n + l)

LEMMA Within == \A m, n, l \in Nat : \A k \in 1..m + n + l : IsWithin(m, n, l, k)
<1> SUFFICES ASSUME NEW m \in Nat, NEW n \in Nat, NEW l \in Nat, NEW k \in 1..m + n + l
             PROVE  IsWithin(m, n, l, k)
  OBVIOUS
<1> USE DEF IsWithin
<1>1. CASE k > m /\ k <= m + n
  <2> DEFINE j == k - m
  <2>1. j \in 1..n /\ k = m + j  BY <1>1
  <2> QED  BY <2>1
<1>2. CASE k > m + n
  <2> DEFINE j == k - (m + n)
  <2>1. j \in 1..l /\ k = m + n + j  BY <1>2
  <2> QED  BY <2>1
<1> QED  BY <1>1, <1>2


\* Pausing, and then what asks for a player at rest, as the last step
LEMMA PauseBegins ==
    ASSUME state' = state, NEW p \in Seq(Steps), NEW t \in Seq(Steps),
           Len(p) = 0 \/ (Len(p) = 1 /\ p[1].do = "endscrub"),
           \/ Len(t) = 0
           \/ Len(t) = 1 /\ t[1].do \in {"scrub", "tostart"}
           \/ Len(t) = 2 /\ t[1].do = "read" /\ t[2].do = "step",
           todo' = (p \o Pausing) \o t
    PROVE  \A k \in DOMAIN todo' : Begins(k)'
<1> DEFINE s == Pausing
           u == todo'
           v == p \o s
           m == Len(p)
           n == Len(s)
           l == Len(t)
<1>1. s \in Seq(Steps)  BY PausingSteps
<1>2. s = Pausing /\ u = v \o t /\ v = p \o s  OBVIOUS
<1> HIDE DEF s, u, v
<1>3. /\ v \in Seq(Steps) /\ m \in Nat /\ n \in Nat /\ Len(v) = m + n
      /\ \A k \in 1..m + n : v[k] = IF k <= m THEN p[k] ELSE s[k - m]
      /\ DOMAIN v = 1..Len(v)
  <2>1. IsBoth(v, p, s)  BY <1>1, <1>2, Both, Zenon
  <2> QED  BY <2>1 DEF IsBoth
<1>4. /\ u \in Seq(Steps) /\ l \in Nat /\ Len(u) = Len(v) + l /\ DOMAIN u = 1..Len(u)
      /\ \A k \in 1..Len(u) : u[k] = IF k <= Len(v) THEN v[k] ELSE t[k - Len(v)]
  <2>1. IsBoth(u, v, t)  BY <1>2, <1>3, Both, Zenon
  <2> QED  BY <2>1 DEF IsBoth
<1>5. /\ m = 0 \/ (m = 1 /\ p[1].do = "endscrub")
      /\ \/ l = 0
         \/ l = 1 /\ t[1].do \in {"scrub", "tostart"}
         \/ l = 2 /\ t[1].do = "read" /\ t[2].do = "step"
  OBVIOUS
<1>6. /\ \A k \in 1..n : Begins(m + k)'
      /\ \A k \in Nat : k > m + n => AtRest(k)'
  <2>1. \A k \in 1..Len(s) : todo'[m + k] = s[k]
    <3> HIDE DEF m, n, l
    <3>1. ASSUME NEW k \in 1..n PROVE u[m + k] = s[k]
      <4> DEFINE i == m + k
      <4>1. m \in Nat /\ n \in Nat /\ l \in Nat /\ Len(v) = m + n /\ Len(u) = m + n + l  BY <1>3, <1>4
      <4>2. i \in 1..m + n /\ i \in 1..m + n + l /\ i <= m + n /\ ~(i <= m) /\ i - m = k  BY <4>1
      <4> HIDE DEF i
      <4>3. u[i] = s[k]  BY <1>3, <1>4, <4>1, <4>2
      <4> QED  BY <4>3 DEF i
    <3> QED  BY <3>1 DEF u, n
  <2>2. m \in Nat  BY <1>3
  <2> HIDE DEF m
  <2> QED  BY <1>2, <2>1, <2>2, PausingBegins
<1> HIDE DEF m, n, l
<1> SUFFICES ASSUME NEW k \in DOMAIN u PROVE Begins(k)'  BY DEF u
<1>7. k \in 1..m + n + l  BY <1>3, <1>4
<1>8. CASE k \in 1..m
  <2>1. m = 1 /\ p[1].do = "endscrub" /\ k = 1  BY <1>3, <1>5, <1>8
  <2>2. u[1] = p[1]
    <3>1. 1 \in 1..m + n /\ 1 \in 1..Len(u) /\ 1 <= Len(v) /\ 1 <= m  BY <1>3, <1>4, <2>1
    <3> QED  BY <1>3, <1>4, <3>1
  <2>3. todo'[k].do = "endscrub"  BY <2>1, <2>2 DEF u
  <2> QED  BY <2>3, PlainBegins DEF Plain, StepKinds, Holds
<1>9. CASE \E j \in 1..n : k = m + j  BY <1>6, <1>9
<1>10. ASSUME NEW j \in 1..l, k = m + n + j, j = l => k = m + n + l  PROVE Begins(k)'
  <2>1. u[k] = t[j]
    <3>1. k \in 1..Len(u) /\ ~(k <= Len(v)) /\ k - Len(v) = j  BY <1>3, <1>4, <1>10
    <3> QED  BY <1>4, <3>1
  <2>2. AtRest(k)'
    <3>1. k \in Nat /\ k > m + n  BY <1>3, <1>4, <1>10
    <3> QED  BY <1>6, <3>1
  <2>3. \/ j = l /\ t[j].do \in {"scrub", "tostart", "step"}
        \/ t[j].do = "read"
    <3>1. (l = 1 /\ j = 1) \/ (l = 2 /\ j = 1) \/ (l = 2 /\ j = 2)  BY <1>4, <1>5
    <3> QED  BY <1>5, <3>1
  <2>4. CASE j = l /\ t[j].do \in {"scrub", "tostart", "step"}
    <3>1. k = Len(u)  BY <1>3, <1>4, <1>10, <2>4
    <3>2. k = Len(todo') /\ todo'[k].do \in {"scrub", "tostart", "step"}
      BY <2>1, <2>4, <3>1 DEF u
    <3> QED  BY <2>2, <3>2 DEF Begins, Fine, Holds
  <2>5. CASE t[j].do = "read"
    <3>1. todo'[k].do = "read"  BY <2>1, <2>5 DEF u
    <3> QED  BY <3>1, PlainBegins DEF Plain, StepKinds, Holds
  <2> QED  BY <2>3, <2>4, <2>5
<1>11. \/ k \in 1..m
       \/ \E j \in 1..n : k = m + j
       \/ \E j \in 1..l : k = m + n + j /\ (j = l => k = m + n + l)
  <2>1. m \in Nat /\ n \in Nat /\ l \in Nat  BY <1>3, <1>4
  <2>2. IsWithin(m, n, l, k)  BY <1>7, <2>1, Within, Zenon
  <2> QED  BY <2>2 DEF IsWithin
<1> QED  BY <1>8, <1>9, <1>10, <1>11

\* The feeder again: joined, the clock set where it was read, and started last.
LEMMA RestartBegins ==
    ASSUME CommandInv, state = "playing", UNCHANGED <<state, scrubbing>>, NEW n \in Nat,
           todo'[n + 1].do = "read", todo'[n + 2].do = "stop", todo'[n + 3].do = "join",
           todo'[n + 4].do = "hold"
    PROVE  /\ \A k \in 1..4 : Begins(n + k)'
           /\ \A k \in Nat : k > n + 4 => Held(k)'
           /\ Undragged'
<1>1. \A k \in {1, 2, 3} : Begins(n + k)'
  BY PlainBegins DEF Plain, StepKinds, Holds
<1>2. Begins(n + 4)'
  <2>1. n + 3 \in 1..((n + 4) - 1)  OBVIOUS
  <2>2. Earlier(n + 4, Joins)'  BY <2>1 DEF Earlier, Joins
  <2> QED  BY <2>2 DEF Begins, Fine, Joined, Holds
<1>3. ASSUME NEW k \in Nat, k > n + 4 PROVE Held(k)'
  <2>1. n + 4 \in 1..(k - 1)  BY <1>3
  <2>2. Earlier(k, Holds)'  BY <2>1 DEF Earlier, Holds
  <2> QED  BY <2>2 DEF Held
<1>4. Undragged'  BY DEF CommandInv, StillInv, Undragged
<1>5. 1..4 = {1, 2, 3} \cup {4}  OBVIOUS
<1> QED  BY <1>1, <1>2, <1>3, <1>4, <1>5

LEMMA PlayBegins ==
    ASSUME CommandInv, UNCHANGED <<state, scrubbing>>, NEW e \in Steps, e.do = "endscrub",
           todo' = <<e>> \o Playing
    PROVE  \A k \in DOMAIN todo' : Begins(k)'
<1> DEFINE a == Step("read")
           b == Step("rewind")
<1>1. a.do = "read" /\ b.do = "rewind"  BY DEF Step
<1>2. CASE state = "playing"
  <2>1. todo' = <<e>> \o <<>>  BY <1>2 DEF Playing
  <2>2. <<e>> \in Seq(Steps) /\ <<e>> \o <<>> = <<e>>  BY ConcatEmptySeq
  <2>3. todo' = <<e>>  BY <2>1, <2>2, Zenon
  <2> DEFINE u == todo'
             r == <<e>>
  <2>4. u = r /\ r \in Seq(Steps) /\ Len(r) = 1 /\ r[1] = e /\ 1..1 = {1}
    <3>1. r \in Seq(Steps) /\ Len(r) = 1 /\ r[1] = e /\ 1..1 = {1}  OBVIOUS
    <3> QED  BY <2>3, <3>1, Zenon
  <2> HIDE DEF u, r
  <2>5. u \in Seq(Steps) /\ Len(u) = 1 /\ u[1] = e /\ 1..1 = {1}  BY <2>4
  <2>6. DOMAIN u = {1} /\ u[1].do = "endscrub"  BY <2>5, LenProperties
  <2> QED  BY <2>6, PlainBegins DEF u, Plain, StepKinds, Holds
<1>3. CASE state # "playing"
  <2>1. todo' = <<e>> \o <<a, b>>  BY <1>3 DEF Playing
  <2>2. /\ DOMAIN todo' = {1, 2, 3} /\ Len(todo') = 3 /\ todo'[1].do = "endscrub"
        /\ todo'[2].do = "read" /\ todo'[3].do = "rewind"
    <3> DEFINE v == <<a, b>>
               u == todo'
    <3>1. a \in Steps /\ b \in Steps  BY PlainSteps DEF StepKinds
    <3> HIDE DEF a, b
    <3>2. v \in Seq(Steps) /\ Len(v) = 2 /\ v[1] = a /\ v[2] = b  BY <3>1
    <3> DEFINE r == <<e>>
    <3>3. r \in Seq(Steps) /\ Len(r) = 1 /\ r[1] = e  OBVIOUS
    <3>4. u = r \o v  BY <2>1
    <3> HIDE DEF u, v, r
    <3>5. Len(u) = 3 /\ DOMAIN u = 1..Len(u) /\ u[1] = e /\ u[2] = v[1] /\ u[3] = v[2]
      <4>1. /\ Len(u) = Len(r) + Len(v) /\ DOMAIN u = 1..Len(u)
            /\ \A k \in 1..Len(u) : u[k] = IF k <= Len(r) THEN r[k] ELSE v[k - Len(r)]
        <5>1. IsBoth(u, r, v)  BY <3>2, <3>3, <3>4, Both, Zenon
        <5> QED  BY <5>1 DEF IsBoth
      <4>2. Len(u) = 3  BY <3>2, <3>3, <4>1
      <4>3. \A k \in 1..3 : u[k] = IF k <= 1 THEN r[k] ELSE v[k - 1]  BY <3>3, <4>1, <4>2
      <4>4. u[1] = r[1] /\ u[2] = v[1] /\ u[3] = v[2]  BY <4>3
      <4> QED  BY <3>3, <4>1, <4>2, <4>4, Zenon
    <3>6. 1..3 = {1, 2, 3}  OBVIOUS
    <3> QED  BY <1>1, <3>2, <3>5, <3>6 DEF u
  <2> HIDE DEF a, b
  <2>3. Begins(1)' /\ Begins(2)'  BY <2>2, PlainBegins DEF Plain, StepKinds, Holds
  <2>4. Begins(3)'
    <3>1. AtRest(3)' /\ Undragged'  BY <1>3, <2>2 DEF AtRest, Undragged
    <3> QED  BY <2>2, <3>1 DEF Begins, Fine, Holds
  <2> QED  BY <2>2, <2>3, <2>4
<1> QED  BY <1>2, <1>3

LEMMA CommandBegins == TypeInv /\ CommandInv /\ Command => CommandInv'
<1> SUFFICES ASSUME TypeInv, CommandInv, Command PROVE CommandInv'  OBVIOUS
<1>1. todo = <<>> /\ UNCHANGED <<state, plan, feeder, clock, scrubbing>>
  BY DEF Command, TypeInv, soundVars, scrubVars
<1>2. PICK command \in Commands : todo' = Script(command)  BY DEF Command
<1> SUFFICES \A k \in DOMAIN todo' : Begins(k)'
  BY <1>1, Begun DEF Begins
<1> DEFINE e == Step("endscrub")
           d == StepAt("endscrub", 1)
           z == <<>>
<1>3. e \in Steps /\ e.do = "endscrub" /\ d \in Steps /\ d.do = "endscrub"
  BY PlainSteps DEF StepKinds
<1>4. /\ <<e>> \in Seq(Steps) /\ Len(<<e>>) = 1 /\ <<e>>[1] = e
      /\ <<d>> \in Seq(Steps) /\ Len(<<d>>) = 1 /\ <<d>>[1] = d
      /\ z \in Seq(Steps) /\ Len(z) = 0
  BY <1>3, EmptySeq
<1>5. Pausing \in Seq(Steps) /\ plan \in Plans  BY PausingSteps DEF TypeInv
<1>6. CASE command[1] = "play" \/ (command[1] = "toggle" /\ state # "playing")
  <2>1. todo' = <<d>> \o Playing  BY <1>2, <1>6 DEF Script
  <2> HIDE DEF d
  <2> QED  BY <1>1, <1>3, <2>1, PlayBegins
<1>7. CASE command[1] = "pause" \/ (command[1] = "toggle" /\ state = "playing")
  <2>1. todo' = <<d>> \o Pausing  BY <1>2, <1>7 DEF Script
  <2> DEFINE p == <<d>>
  <2>2. p \in Seq(Steps) /\ Len(p) = 1 /\ p[1].do = "endscrub"  BY <1>3, <1>4
  <2>3. todo' = (p \o Pausing) \o z
    <3>1. p \o Pausing \in Seq(Steps)  BY <1>4, <1>5
    <3> HIDE DEF p
    <3>2. \A u \in Seq(Steps) : u \o <<>> = u  OBVIOUS
    <3> QED  BY <2>1, <3>1, <3>2 DEF p
  <2> HIDE DEF p
  <2> QED  BY <1>1, <1>4, <2>2, <2>3, PauseBegins
<1>8. CASE command[1] = "stop"
  <2> DEFINE p == <<e>>
             a == Step("tostart")
             t == <<a>>
  <2>1. todo' = (p \o Pausing) \o t  BY <1>2, <1>8 DEF Script
  <2>2. a \in Steps /\ a.do = "tostart"  BY PlainSteps DEF StepKinds
  <2> HIDE DEF a
  <2>3. p \in Seq(Steps) /\ Len(p) = 1 /\ p[1].do = "endscrub"  BY <1>3, <1>4
  <2>4. t \in Seq(Steps) /\ Len(t) = 1 /\ t[1].do = "tostart"  BY <2>2
  <2> HIDE DEF p, t
  <2> QED  BY <1>1, <2>1, <2>3, <2>4, PauseBegins
<1>9. CASE command[1] = "start"
  <2> DEFINE a == Step("tostart")
  <2>1. todo' = <<e, a>>  BY <1>2, <1>9 DEF Script
  <2>2. a.do = "tostart"  BY DEF Step
  <2> HIDE DEF a, e
  <2>3. DOMAIN todo' = {1, 2} /\ Len(todo') = 2 /\ todo'[1].do = "endscrub" /\ todo'[2].do = "tostart"
    BY <1>3, <2>1, <2>2
  <2>4. Begins(1)'  BY <2>3, PlainBegins DEF Plain, StepKinds, Holds
  <2>5. Begins(2)'  BY <2>3 DEF Begins, Fine, Holds
  <2> QED  BY <2>3, <2>4, <2>5
<1>10. CASE command[1] = "end"
  <2>1. Clamp(LastFramePosition(plan)) \in Int  BY <1>5, PlansAre, LastThere, ClampThere
  <2>2. todo' = <<e>> \o Seeking(Clamp(LastFramePosition(plan)))  BY <1>2, <1>10 DEF Script
  <2> HIDE DEF e
  <2> QED  BY <1>1, <1>3, <2>1, <2>2, SeekBegins
<1>11. CASE command[1] = "seek" /\ command[2] \in Int
  <2>1. Clamp(command[2]) \in Int  BY <1>5, <1>11, ClampThere
  <2>2. todo' = <<e>> \o Seeking(Clamp(command[2]))  BY <1>2, <1>11 DEF Script
  <2> HIDE DEF e
  <2> QED  BY <1>1, <1>3, <2>1, <2>2, SeekBegins
<1>12. CASE command[1] = "scrub" /\ command[2] \in Int
  <2> DEFINE a == StepAt("scrub", command[2])
             t == <<a>>
  <2>1. todo' = Pausing \o t  BY <1>2, <1>12 DEF Script
  <2>2. a \in Steps /\ a.do = "scrub"  BY <1>12, PlainSteps DEF StepKinds
  <2> HIDE DEF a
  <2>3. t \in Seq(Steps) /\ Len(t) = 1 /\ t[1].do = "scrub"  BY <2>2
  <2> HIDE DEF t
  <2>4. todo' = (z \o Pausing) \o t
    <3>1. \A u \in Seq(Steps) : <<>> \o u = u  OBVIOUS
    <3> QED  BY <1>5, <2>1, <3>1
  <2> QED  BY <1>1, <1>4, <2>3, <2>4, PauseBegins
<1>13. CASE command[1] = "step" /\ command[2] \in {-1, 1}
  <2> DEFINE p == <<e>>
             a == Step("read")
             b == StepAt("step", command[2])
             t == <<a, b>>
  <2>1. todo' = (p \o Pausing) \o t  BY <1>2, <1>13 DEF Script
  <2>2. a \in Steps /\ a.do = "read"  BY PlainSteps DEF StepKinds
  <2>3. b \in Steps /\ b.do = "step"  BY <1>13 DEF StepAt, Steps, StepKinds, Carries
  <2> HIDE DEF a, b
  <2>4. p \in Seq(Steps) /\ Len(p) = 1 /\ p[1].do = "endscrub"  BY <1>3, <1>4
  <2>5. t \in Seq(Steps) /\ Len(t) = 2 /\ t[1].do = "read" /\ t[2].do = "step"  BY <2>2, <2>3
  <2> HIDE DEF p, t
  <2> QED  BY <1>1, <2>1, <2>4, <2>5, PauseBegins
<1>14. CASE command[1] = "speed"
  <2>1. CASE state = "playing"
    <3> DEFINE a == Step("read")
               b == Step("stop")
               c == Step("join")
               g == Step("hold")
               h == Step("start")
    <3>1. a.do = "read" /\ b.do = "stop" /\ c.do = "join" /\ g.do = "hold" /\ h.do = "start"
      BY DEF Step
    <3>2. todo' = <<a, b, c, g, h>>  BY <1>2, <1>14, <2>1 DEF Script, Restarting
    <3> HIDE DEF a, b, c, g, h
    <3>3. /\ DOMAIN todo' = (1..4) \cup {5} /\ Len(todo') = 5
          /\ todo'[0 + 1].do = "read" /\ todo'[0 + 2].do = "stop" /\ todo'[0 + 3].do = "join"
          /\ todo'[0 + 4].do = "hold" /\ todo'[5].do = "start"
      BY <3>1, <3>2
    <3>4. (\A k \in 1..4 : Begins(0 + k)') /\ (\A k \in Nat : k > 0 + 4 => Held(k)') /\ Undragged'
      BY <1>1, <2>1, <3>3, RestartBegins
    <3>5. Held(5)'  BY <3>4
    <3>6. Begins(5)'  BY <3>3, <3>4, <3>5 DEF Begins, Fine, Holds
    <3>7. \A k \in 1..4 : 0 + k = k  OBVIOUS
    <3>8. \A k \in 1..4 : Begins(k)'
      <4> SUFFICES ASSUME NEW k \in 1..4 PROVE Begins(k)'  OBVIOUS
      <4>1. Begins(0 + k)' /\ 0 + k = k  BY <3>4, <3>7
      <4> QED  BY <4>1
    <3> QED  BY <3>3, <3>6, <3>8
  <2>2. CASE state # "playing"
    <3>1. todo' = <<>>  BY <1>2, <1>14, <2>2 DEF Script, Restarting
    <3> QED  BY <3>1
  <2> QED  BY <2>1, <2>2
<1>15. CASE command[1] = "loop"
  <2> DEFINE a == [Step("loop") EXCEPT !.plan = command[2]]
  <2>1. a.do = "loop"  BY DEF Step
  <2>2. todo' = <<a>>  BY <1>2, <1>15 DEF Script
  <2> HIDE DEF a
  <2>3. DOMAIN todo' = {1} /\ todo'[1].do = "loop"  BY <2>1, <2>2
  <2> QED  BY <2>3, PlainBegins DEF Plain, StepKinds, Holds
<1>16. CASE command[1] = "plan"
  <2> DEFINE a == Step("read")
             b == [Step("replan") EXCEPT !.plan = command[2]]
  <2>1. a.do = "read" /\ b.do = "replan"  BY DEF Step
  <2>2. todo' = <<a, b>>  BY <1>2, <1>16 DEF Script
  <2> HIDE DEF a, b
  <2>3. DOMAIN todo' = {1, 2} /\ Len(todo') = 2 /\ todo'[1].do = "read" /\ todo'[2].do = "replan"
    BY <2>1, <2>2
  <2>4. Begins(1)'  BY <2>3, PlainBegins DEF Plain, StepKinds, Holds
  <2>5. Begins(2)'  BY <2>3 DEF Begins, Fine, Holds
  <2> QED  BY <2>3, <2>4, <2>5
<1> QED
  BY <1>6, <1>7, <1>8, <1>9, <1>10, <1>11, <1>12, <1>13, <1>14, <1>15, <1>16, Named

LEMMA CommandTaken == TypeInv /\ CommandInv /\ (TakeEnd \/ TakeDevice \/ CloseFeeder) => CommandInv'
<1> SUFFICES ASSUME TypeInv, CommandInv, TakeEnd \/ TakeDevice \/ CloseFeeder PROVE CommandInv'
  OBVIOUS
<1> USE DEF soundVars, loopVars, screenVars, scrubVars
<1>1. todo = <<>> /\ UNCHANGED <<state, plan, feeder, clock, scrubbing>>
  BY DEF TakeEnd, TakeDevice, CloseFeeder, TypeInv
<1> DEFINE a == Step("read")
           b == Step("stop")
           c == Step("join")
           d == Step("joinonly")
           e == Step("hold")
           f == Step("holdend")
           g == Step("shut")
           h == Step("open")
           i == Step("start")
<1>2. /\ a.do = "read" /\ b.do = "stop" /\ c.do = "join" /\ d.do = "joinonly" /\ e.do = "hold"
      /\ f.do = "holdend" /\ g.do = "shut" /\ h.do = "open" /\ i.do = "start"
  BY DEF Step
<1>3. \/ UNCHANGED <<todo, state, plan, scrubbing, feeder, clock>>
      \/ todo' = <<a, b, d, f>>
      \/ todo' = <<a, b, c, e, g, h, i>> /\ state = "playing"
      \/ todo' = <<a, g, h>>
      \/ todo' = <<b, d>>
  BY <1>1 DEF TakeEnd, TakeDevice, CloseFeeder
<1> HIDE DEF a, b, c, d, e, f, g, h, i
<1>4. CASE UNCHANGED <<todo, state, plan, scrubbing, feeder, clock>>  BY <1>4, Elsewhere
<1>5. CASE todo' = <<a, b, d, f>>
  <2>1. /\ DOMAIN todo' = {1, 2, 3, 4} /\ todo'[1].do = "read" /\ todo'[2].do = "stop"
        /\ todo'[3].do = "joinonly" /\ todo'[4].do = "holdend"
    BY <1>2, <1>5
  <2>2. Begins(1)' /\ Begins(2)' /\ Begins(3)'
    BY <2>1, PlainBegins DEF Plain, StepKinds, Holds
  <2>3. Begins(4)'
    <3>1. 3 \in 1..(4 - 1)  OBVIOUS
    <3>2. Earlier(4, Joins)'  BY <2>1, <3>1 DEF Earlier, Joins
    <3> QED  BY <2>1, <3>2 DEF Begins, Fine, Joined, Holds
  <2> QED  BY <1>1, <2>1, <2>2, <2>3, Begun DEF Begins
<1>6. CASE todo' = <<a, b, c, e, g, h, i>> /\ state = "playing"
  <2>1. /\ DOMAIN todo' = (1..4) \cup {5, 6, 7} /\ Len(todo') = 7
        /\ todo'[0 + 1].do = "read" /\ todo'[0 + 2].do = "stop" /\ todo'[0 + 3].do = "join"
        /\ todo'[0 + 4].do = "hold" /\ todo'[5].do = "shut" /\ todo'[6].do = "open"
        /\ todo'[7].do = "start"
    BY <1>2, <1>6
  <2>2. (\A k \in 1..4 : Begins(0 + k)') /\ (\A k \in Nat : k > 0 + 4 => Held(k)') /\ Undragged'
    BY <1>1, <1>6, <2>1, RestartBegins
  <2>3. Begins(5)' /\ Begins(6)'  BY <2>1, PlainBegins DEF Plain, StepKinds, Holds
  <2>4. Held(7)'  BY <2>2
  <2>5. Begins(7)'  BY <2>1, <2>2, <2>4 DEF Begins, Fine, Holds
  <2>6. \A k \in 1..4 : Begins(k)'
    <3> SUFFICES ASSUME NEW k \in 1..4 PROVE Begins(k)'  OBVIOUS
    <3>1. Begins(0 + k)' /\ 0 + k = k  BY <2>2
    <3> QED  BY <3>1
  <2> QED  BY <1>1, <2>1, <2>3, <2>5, <2>6, Begun DEF Begins
<1>7. CASE todo' = <<a, g, h>>
  <2>1. DOMAIN todo' = {1, 2, 3} /\ todo'[1].do = "read" /\ todo'[2].do = "shut" /\ todo'[3].do = "open"
    BY <1>2, <1>7
  <2>2. Begins(1)' /\ Begins(2)' /\ Begins(3)'
    BY <2>1, PlainBegins DEF Plain, StepKinds, Holds
  <2> QED  BY <1>1, <2>1, <2>2, Begun DEF Begins
<1>8. CASE todo' = <<b, d>>
  <2>1. DOMAIN todo' = {1, 2} /\ todo'[1].do = "stop" /\ todo'[2].do = "joinonly"
    BY <1>2, <1>8
  <2>2. Begins(1)' /\ Begins(2)'  BY <2>1, PlainBegins DEF Plain, StepKinds, Holds
  <2> QED  BY <1>1, <2>1, <2>2, Begun DEF Begins
<1> QED  BY <1>3, <1>4, <1>5, <1>6, <1>7, <1>8

LEMMA CommandStep == TypeInv /\ TypeInv' /\ CommandInv /\ [Next]_vars => CommandInv'
<1> SUFFICES ASSUME TypeInv, TypeInv', CommandInv, [Next]_vars PROVE CommandInv'  OBVIOUS
<1>1. CASE Command  BY <1>1, CommandBegins
<1>2. CASE Transport
  BY <1>2, CommandElsewhere, CommandRewinds, CommandPlainSteps, CommandEndsScrub, CommandStops,
     CommandHolds, CommandStarts, CommandStepsOrDrags, CommandReplans, CommandSwaps, CommandClamps,
     CommandRetunes DEF Transport
<1>3. CASE Feeds  BY <1>3, CommandFeeds
<1>4. CASE Pull \/ Decodes \/ Presents \/ Scrubbing \/ UNCHANGED vars  BY <1>4, CommandElsewhere
<1>5. CASE Monitors
  BY <1>5, CommandElsewhere, CommandTaken, CommandPlainSteps DEF Monitors
<1>6. CASE Closes  BY <1>6, CommandElsewhere, CommandTaken DEF Closes
<1> QED  BY <1>1, <1>2, <1>3, <1>4, <1>5, <1>6 DEF Next

-----------------------------------------------------------------------------
(* What the player keeps                                                     *)

\* A new player stands still, with no command under way.
LEMMA CommandInit == Init => CommandInv
<1> SUFFICES ASSUME Init PROVE CommandInv  OBVIOUS
<1>1. state = "paused" /\ feeder = NoFeeder /\ todo = <<>>  BY DEF Init
<1>2. scrubbing => state # "playing"  BY <1>1
<1>3. clock.mode = "paused"  BY DEF Init, PausedAt
<1>4. feeder.pc # "preroll"  BY <1>1 DEF NoFeeder
<1>5. StillInv  BY <1>1, <1>2, <1>3 DEF StillInv, Still
<1>6. TodoInv  BY <1>1 DEF TodoInv
<1>7. FollowInv  BY <1>1 DEF FollowInv
<1> QED  BY <1>5, <1>6, <1>7 DEF CommandInv

\* Whatever is asked of the player, and however its threads interleave: who
\* stands still has no feeder, a command never moves the clock under a running
\* feeder, and a feeder whose plan was replaced is ended or told.
THEOREM PlayerKeepsItsWord == Spec => []IInv
<1>1. Init => IInv  BY TypeInit, CommandInit DEF IInv, CommandInv
<1>2. IInv /\ [Next]_vars => IInv'
  <2> SUFFICES ASSUME IInv, [Next]_vars PROVE IInv'  OBVIOUS
  <2>1. TypeInv' /\ PresenterInv' /\ WorkerInv'  BY TypeStep DEF IInv
  <2>2. CommandInv'  BY <2>1, CommandStep DEF IInv, CommandInv
  <2> QED  BY <2>1, <2>2 DEF IInv, CommandInv
<1> QED  BY <1>1, <1>2, PTL DEF Spec

LEMMA TypesOfIt == IInv => TypeOK
<1> SUFFICES ASSUME IInv PROVE TypeOK  OBVIOUS
<1>1. TypeInv /\ PresenterInv /\ WorkerInv  BY DEF IInv
<1>2. feeder.pc \in {"none", "preroll", "walking", "hearing", "done"}
  BY <1>1 DEF TypeInv, Feeders, NoFeeder
<1>3. loop \in Seq(Nat)
  <2>1. CASE loop \in Nat \X Nat
    <3>1. PICK start \in Nat, end \in Nat : loop = <<start, end>>  BY <2>1
    <3> QED  BY <3>1
  <2>2. CASE loop = <<>>  BY <2>2, EmptySeq
  <2> QED  BY <1>1, <2>1, <2>2 DEF TypeInv, NoLoop
<1>4. \A l \in lanes : l.base <= l.head /\ l.head - l.base <= RingHolds
  BY <1>1 DEF TypeInv, AreLanes, IsLane
<1> QED  BY <1>1, <1>2, <1>3, <1>4 DEF TypeOK, TypeInv, PresenterInv, WorkerInv

\* Between commands the clock runs only while playing, and only then is there
\* a feeder that could move it: play, pause, seek, scrub, step, a new plan, the
\* end of the sound and a change of device all leave it so, in any order.
THEOREM StandsWhenPaused == Spec => []PausedMeansStill
<1>1. IInv => PausedMeansStill
  BY TypesOfIt DEF IInv, StillInv, Still, PausedMeansStill
<1> QED  BY <1>1, PlayerKeepsItsWord, PTL

\* Between commands the feeder plays the plan there is, or has been handed its
\* chains: no edit, made whenever, leaves the sound of an older plan playing.
THEOREM HeardIsThePlan == Spec => []SoundFollowsThePlan
<1>1. IInv => SoundFollowsThePlan
  <2> SUFFICES ASSUME IInv, control = Free, feeder # NoFeeder PROVE Follows
    BY DEF SoundFollowsThePlan, Follows
  <2>1. todo = <<>>  BY DEF IInv, TypeInv
  <2> QED  BY <2>1 DEF IInv, FollowInv
<1> QED  BY <1>1, PlayerKeepsItsWord, PTL

\* Who moves the clock: a reading, which may carry it on; a command, which
\* sets it standing; a feeder's first sound, which sets it going; a loop's
\* turn, which only anchors what comes.
LEMMA ClockMoves ==
    ASSUME IInv, [Next]_vars
    PROVE  \/ \E heard \in Heard : clock' = Read(clock, heard)
           \/ clock'.mode = "paused"
           \/ clock.mode = "paused"
           \/ clock'.last = clock.last
<1> USE DEF commandVars, soundVars, loopVars, screenVars, scrubVars, endVars
<1>1. CASE Command  BY <1>1 DEF Command
<1>2. CASE Transport
  <2>1. CASE ReadClock  BY <2>1 DEF ReadClock
  <2>2. CASE HoldClock  BY <2>2 DEF HoldClock, PausedAt
  <2>3. CASE Scrub  BY <2>3 DEF Scrub, PausedAt
  <2>4. CASE UNCHANGED clock  BY <2>4
  <2> QED
    BY <1>2, <2>1, <2>2, <2>3, <2>4
    DEF Transport, Answer, Decide, EndScrub, StopFeeder, JoinFeeder, Pend, ChangeLanes, StartFeeder,
        StepFrames, SetLoop, Replan, Uncache, SwapPlan, ClampLoop, Retune
<1>3. CASE Feeds
  <2>1. CASE Preroll  BY <2>1 DEF Preroll, IInv, StillInv
  <2>2. CASE Walk
    <3> DEFINE anchors == Append(clock.anchors,
                              [frame |-> Written, at |-> loop[1], gen |-> generations + 1])
    <3>1. UNCHANGED clock \/ clock' = [clock EXCEPT !.anchors = anchors]  BY <2>2 DEF Walk
    <3>2. DOMAIN clock = {"mode", "at", "gen", "anchors", "last"}  BY DEF IInv, TypeInv, Clocks
    <3> HIDE DEF anchors
    <3>3. clock' = [clock EXCEPT !.anchors = anchors] => clock'.last = clock.last
      BY <3>2, Zenon
    <3> QED  BY <3>1, <3>3
  <2>3. CASE HearOut \/ FeederStops  BY <2>3 DEF HearOut, FeederStops
  <2> QED  BY <1>3, <2>1, <2>2, <2>3 DEF Feeds
<1>4. CASE Pull \/ Decodes  BY <1>4 DEF Pull, Decodes
<1>5. CASE Presents  BY <1>5 DEF Presents, Look, FindDue, Take, Put, Tell
<1>6. CASE Scrubbing
  BY <1>6 DEF Scrubbing, NextScrub, WorkerGone, LookInCache, WindowPicture, WindowEnds,
              CheckScrubbing, PutScrubbed, TellScrub
<1>7. CASE Monitors
  BY <1>7 DEF Monitors, NoticeEnd, TakeEnd, NoticeDevice, TakeDevice, SwitchSink, MonitorGone
<1>8. CASE Closes
  BY <1>8 DEF Closes, BeginClose, CloseFeeder, CloseScrub, CloseLanes, CloseSink, CloseMonitor
<1>9. CASE UNCHANGED vars  BY <1>9 DEF vars
<1> QED  BY <1>1, <1>2, <1>3, <1>4, <1>5, <1>6, <1>7, <1>8, <1>9 DEF Next

\* Within a generation the clock never goes back while it runs, though the
\* device reports less heard than before, the feeder loops and commands come.
THEOREM TimeGoesOn == Spec => ClockForward
<1> DEFINE Forward ==
        clock.mode = "running" /\ clock'.mode = "running" /\ clock'.last[1] = clock.last[1]
            => clock'.last[2] >= clock.last[2]
<1>1. IInv /\ [Next]_vars => Forward
  <2> SUFFICES ASSUME IInv, [Next]_vars PROVE Forward  OBVIOUS
  <2>1. clock \in Clocks /\ (clock.mode = "running" => clock.anchors # <<>>)  BY DEF IInv, TypeInv
  <2>2. clock.last[2] \in Int  BY <2>1 DEF Clocks
  <2>3. TypeInv  BY DEF IInv
  <2>4. ASSUME NEW heard \in Heard, clock' = Read(clock, heard) PROVE Forward
    <3>1. heard \in Int  BY <2>3, HeardThere DEF TypeInv
    <3> QED  BY <2>1, <2>4, <3>1, ReadIsAClock
  <2>5. CASE clock'.last = clock.last  BY <2>2, <2>5
  <2> QED  BY <2>4, <2>5, ClockMoves
<1> HIDE DEF Forward
<1>2. []IInv /\ [][Next]_vars => [][Forward]_vars  BY <1>1, PTL
<1> USE DEF Forward
<1>3. ClockForward <=> [][Forward]_vars  BY DEF ClockForward
<1> QED  BY <1>2, <1>3, PlayerKeepsItsWord, PTL DEF Spec
=============================================================================
