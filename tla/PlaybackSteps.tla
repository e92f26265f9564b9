----------------------------- MODULE PlaybackSteps -----------------------------
(***************************************************************************)
(* Stepping through a plan by real frames, over every seek there is        *)
(* (playback/mod.rs seek and step over playback/plan.rs).                  *)
(***************************************************************************)
EXTENDS PlaybackPlan

CONSTANTS
    Placed      \* the sequences of placed clips a plan is made of

PlansMade == {[i \in DOMAIN placed |-> SegmentOf(placed[i])] : placed \in Placed}

\* A clip on the sequence
IsPlaced(c) ==
    /\ c.source \in DOMAIN FramesOf /\ c.motion \in {"forward", "hold", "reverse"}
    /\ {c.start, c.from, c.to} \subseteq Int /\ c.from < c.to
    /\ c.rate \in (Nat \ {0}) \X (Nat \ {0})

\* As it plays, its pictures lie two units apart or more, and the last one
\* before its out-point begins four before it or earlier.
PicturesLast(c) ==
    LET tick == SegmentOf(c).tick
        Last(ticks, units) == ticks * tick[1] >= units * tick[2]
    IN \A f \in FramesOf[c.source] :
           /\ f < c.to => Last(c.to - f, 4)
           /\ \A g \in FramesOf[c.source] : f < g => Last(g - f, 2)

ASSUME StepsAssumption ==
    /\ FrameLasts[1] >= 2 * FrameLasts[2]
    /\ \A placed \in Placed :
        /\ placed \in Seq(Range(placed))
        /\ \A i \in DOMAIN placed : IsPlaced(placed[i]) /\ PicturesLast(placed[i])
        /\ \A i, j \in DOMAIN placed : i < j => EndOf(placed[i]) <= placed[j].start

VARIABLES
    playing,    \* the plan
    stands      \* the place of the picture on screen

stepVars == <<playing, stands>>

\* A seek to any moment shows the picture of that moment.
StepInit ==
    /\ playing \in PlansMade
    /\ \E t \in 0..(Duration(playing) - 1) : stands = PlaceAt(playing, t)
    /\ stands # NoPlace

\* A step of one frame seeks to where the next picture starts.
StepNext ==
    /\ stands # NoPlace
    /\ \E by \in {1, -1} :
        LET to == Stepped(playing, stands, by)
        IN /\ to # stands
           /\ stands' = PlaceAt(playing, TargetOf(playing, to))
    /\ UNCHANGED playing

StepSpec == StepInit /\ [][StepNext]_stepVars

-----------------------------------------------------------------------------

\* Where a picture starts, that picture is on screen: a step, and the seek to
\* a frame's time, show the frame they name, whatever the rate, the speed and
\* the motion of the clip round to.
StartShowsIt == stands # NoPlace => PlaceAt(playing, TargetOf(playing, stands)) = stands

\* A step forwards and one back end where they began: none is skipped, and none
\* is shown twice, over the edge of a clip and a gap as well.
StepsReturn ==
    LET next == PlaceAfter(playing, stands)
    IN stands # NoPlace /\ next # NoPlace => /\ TargetOf(playing, next) > TargetOf(playing, stands)
                         /\ PlaceBefore(playing, next) = stands

\* A frame is where it is looked for: by its time, and a step away.
StepsHold == StartShowsIt /\ StepsReturn
=============================================================================
