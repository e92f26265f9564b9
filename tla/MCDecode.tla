------------------------------- MODULE MCDecode -------------------------------
(* The preview's pictures, its sound and its steps: three machines that share   *)
(* nothing, in one run.  Each behaviour is one of one of them.                  *)
EXTENDS VideoLane, SoundLanes, PlaybackSteps

VARIABLE part

decodeVars == <<laneVars, soundVars, stepVars, part>>

SegmentsMC ==
    <<[from |-> 0, to |-> 4, sounds |-> TRUE, motion |-> "forward", stream |-> 1, has |-> 6],
      [from |-> 4, to |-> 6, sounds |-> TRUE, motion |-> "reverse", stream |-> 4, has |-> 6]>>
SoundLoopsMC == {<<1, 3>>}

PlanPicturesMC == [s \in {"a"} |-> {0, 2, 3, 6, 9}]
FrameMC == <<26, 3>>
Rates == {<<1, 1>>, <<1, 2>>, <<2, 1>>, <<2, 3>>}
Clip(from, to, start, rate, motion) ==
    [source |-> "a", from |-> from, to |-> to, start |-> start, rate |-> rate, motion |-> motion,
     crop |-> 0, chain |-> 0]
PlacedMC == UNION {
    LET first == Clip(from, from + ticks, 0, rate, motion)
    IN {<<first>>} \cup
       {<<first, Clip(from2, from2 + 4, EndOf(first) + gap, rate2, motion2)>> :
            from2 \in 1..2, gap \in 0..1, rate2 \in Rates, motion2 \in {"forward", "reverse", "hold"}}
    : from \in 0..1, ticks \in 3..4, rate \in Rates, motion \in {"forward", "reverse"}}

\* A machine that is not the part stands in one initial state.
NoLaneYet ==
    /\ direction = "forward" /\ ring = EmptyRing /\ decoder = NoDecoder /\ run = 0 /\ started = 0
    /\ lane = "retired" /\ now = 0 /\ shown = Missing
NoSoundYet ==
    /\ at = 0 /\ loops = NoRange /\ chains = <<>> /\ slot = NoChange /\ heard = Unheard
    /\ current = NoLane /\ upcoming = NoLane /\ retuned = NoLane
NoStepYet == playing = <<>> /\ stands = NoPlace

Init ==
    \/ part = "video" /\ LaneInit /\ NoSoundYet /\ NoStepYet
    \/ part = "sound" /\ SoundInit /\ NoLaneYet /\ NoStepYet
    \/ part = "steps" /\ StepInit /\ NoLaneYet /\ NoSoundYet

Next ==
    /\ \/ part = "video" /\ LaneNext /\ UNCHANGED <<soundVars, stepVars>>
       \/ part = "sound" /\ SoundNext /\ UNCHANGED <<laneVars, stepVars>>
       \/ part = "steps" /\ StepNext /\ UNCHANGED <<laneVars, soundVars>>
    /\ UNCHANGED part

Spec == Init /\ [][Next]_decodeVars /\ LaneFairness
===============================================================================
