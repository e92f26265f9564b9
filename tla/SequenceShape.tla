------------------------------ MODULE SequenceShape ------------------------------
(***************************************************************************)
(* The shapes of pictures: what a sequence's settings may be and which      *)
(* sources they let through uncoded (project/settings.rs), which rectangle  *)
(* crops a picture (project/crop.rs), and the size a sequence is reframed   *)
(* to (project/reframe.rs).                                                 *)
(*                                                                         *)
(* A shape is a picture's displayed width and height, its frame rate, its   *)
(* pixel aspect <<n, d>>, the sampling of its colour, and whether it is     *)
(* turned by a quarter.  The settings of a sequence are the first four.     *)
(* A frame rate is a whole number.  HDR and a varying rate, which are only  *)
(* noted, are left out.                                                     *)
(***************************************************************************)
EXTENDS Integers, FiniteSets

CONSTANTS
    MinSide,    \* MIN_SIZE: the smallest side of a crop
    MaxSide,    \* MAX_DIMENSION: the largest of a sequence
    TopRate,    \* FRAME_RATE_RANGE: the highest frame rate
    Ratios      \* Aspect: the width to height of each preset, <<w, h>>

ASSUME ShapeAssumption ==
    /\ MinSide \in Nat \ {0} /\ MaxSide \in Nat /\ TopRate \in Nat
    /\ Ratios \subseteq (Nat \ {0}) \X (Nat \ {0})

-----------------------------------------------------------------------------
(* Settings                                                                  *)

Sides == {side \in 2..MaxSide : side % 2 = 0}

\* SequenceSettings::validate
ValidSettings(s) ==
    /\ s.width \in Sides /\ s.height \in Sides
    /\ s.rate \in 1..TopRate
    /\ s.pixel[1] > 0 /\ s.pixel[2] > 0

\* reduced: two ratios are the same
SameRatio(p, q) == p[1] * q[2] = q[1] * p[2]

\* copy_eligibility: why the pictures cannot be copied into the sequence
Differs(s, shape) ==
    [resolution |-> s.width # shape.width \/ s.height # shape.height,
     frameRate |-> s.rate # shape.rate,
     pixelAspect |-> ~SameRatio(s.pixel, shape.pixel)]
Eligible(s, shape) == \A what \in DOMAIN Differs(s, shape) : ~Differs(s, shape)[what]

\* sized, at a frame rate; matching is the shape at its own size and rate
Sized(shape, width, height, rate) ==
    [width |-> width, height |-> height, rate |-> rate, pixel |-> shape.pixel]
Matching(shape) == Sized(shape, shape.width, shape.height, shape.rate)

-----------------------------------------------------------------------------
(* Rectangles: x and y of the top left corner, width and height              *)

NoRect == [x |-> 0, y |-> 0, width |-> 0, height |-> 0]
WholePicture(shape) == [x |-> 0, y |-> 0, width |-> shape.width, height |-> shape.height]

\* alignment: the steps across and down the offsets and sides keep to
Steps(shape) ==
    LET coded == CASE shape.chroma = "422" -> <<2, 1>>
                   [] shape.chroma = "444" -> <<1, 1>>
                   [] OTHER -> <<2, 2>>
    IN IF shape.turned THEN <<coded[2], coded[1]>> ELSE coded

\* check
Crops(rect, shape) ==
    LET step == Steps(shape)
    IN /\ rect.x + rect.width <= shape.width /\ rect.y + rect.height <= shape.height
       /\ rect.width >= MinSide /\ rect.height >= MinSide
       /\ rect.x % step[1] = 0 /\ rect.width % step[1] = 0
       /\ rect.y % step[2] = 0 /\ rect.height % step[2] = 0

FloorTo(value, step) == value - (value % step)

\* Sides::nearest: value * n / d to the nearest step, a half up
NearestStep(value, n, d, step) ==
    step * ((2 * value * n + d * step) \div (2 * d * step))

\* width_for, height_for: the other side of a rectangle of a ratio, whose shape
\* on screen is its pixels'
WidthFor(shape, ratio, height) ==
    NearestStep(height, ratio[1] * shape.pixel[2], ratio[2] * shape.pixel[1],
                Steps(shape)[1])
HeightFor(shape, ratio, width) ==
    NearestStep(width, ratio[2] * shape.pixel[1], ratio[1] * shape.pixel[2],
                Steps(shape)[2])

\* A rectangle of those sides in the middle of the picture, on its grid
InTheMiddle(shape, width, height) ==
    [x |-> FloorTo((shape.width - width) \div 2, Steps(shape)[1]),
     y |-> FloorTo((shape.height - height) \div 2, Steps(shape)[2]),
     width |-> width, height |-> height]

\* The sides of the largest rectangle of a ratio
LargestSides(shape, ratio) ==
    LET widest == FloorTo(shape.width, Steps(shape)[1])
        tallest == FloorTo(shape.height, Steps(shape)[2])
    IN IF WidthFor(shape, ratio, tallest) <= widest
       THEN <<WidthFor(shape, ratio, tallest), tallest>>
       ELSE <<widest, IF HeightFor(shape, ratio, widest) < tallest
                      THEN HeightFor(shape, ratio, widest) ELSE tallest>>

\* The whole picture is of the ratio, to within the grid.
FillsPicture(shape, ratio) ==
    /\ WidthFor(shape, ratio, shape.height) >= FloorTo(shape.width, Steps(shape)[1])
    /\ HeightFor(shape, ratio, shape.width) >= FloorTo(shape.height, Steps(shape)[2])

\* centred: NoRect in a picture too small
Centred(shape, ratio) ==
    LET sides == LargestSides(shape, ratio)
    IN IF FillsPicture(shape, ratio) THEN WholePicture(shape)
       ELSE IF sides[1] < MinSide \/ sides[2] < MinSide THEN NoRect
       ELSE InTheMiddle(shape, sides[1], sides[2])

\* has_aspect
HasRatio(rect, shape, ratio) ==
    \/ WidthFor(shape, ratio, rect.height) = rect.width
    \/ HeightFor(shape, ratio, rect.width) = rect.height

\* in_shape
InShape(shape, ratio) == Centred(shape, ratio) = WholePicture(shape)

-----------------------------------------------------------------------------
(* The settings a sequence is reframed to.  shapes and time are functions of  *)
(* the sources: their pictures, and the frames each has on the timeline.      *)

\* most_time: the lowest of the sources with the most
MostTime(sources, time) ==
    CHOOSE s \in sources : \A t \in sources :
        time[t] < time[s] \/ (time[t] = time[s] /\ s <= t)

\* The sources of the ratio that would be copied at their size and this rate
Natives(rate, shapes, ratio) ==
    {s \in DOMAIN shapes :
        LET settings == Sized(shapes[s], shapes[s].width, shapes[s].height, rate)
        IN /\ InShape(shapes[s], ratio)
           /\ ValidSettings(settings) /\ Eligible(settings, shapes[s])}

NoSettings == [width |-> 0, height |-> 0, rate |-> 0, pixel |-> <<0, 0>>]

Even(side) == IF side < 2 THEN 2 ELSE FloorTo(side, 2)

\* size: NoSettings where it is refused
ReframedTo(rate, shapes, time, ratio) ==
    LET natives == Natives(rate, shapes, ratio)
        source == MostTime(IF natives # {} THEN natives ELSE DOMAIN shapes, time)
        shape == shapes[source]
        rect == Centred(shape, ratio)
        cropped == Sized(shape, Even(rect.width), Even(rect.height), rate)
    IN IF natives # {} THEN Sized(shape, shape.width, shape.height, rate)
       ELSE IF rect = NoRect \/ ~ValidSettings(cropped) THEN NoSettings
       ELSE cropped
===============================================================================
