------------------------------ MODULE ClipOperations ------------------------------
(***************************************************************************)
(* What is done to a clip, and what it comes to: the operations of          *)
(* project/mod.rs and their one reader, project/evaluate.rs, with the cut   *)
(* of project/split.rs for clips of every motion.                           *)
(*                                                                         *)
(* A clip is its id, its source, the frame it starts at, its operations in  *)
(* the order they were made, whether its sound is detached, and its link.   *)
(* A placement is the clip resolved.  The source's ticks come               *)
(* TicksPerSecond to the second, so a clip's rate (ClipTiming) follows from *)
(* the sequence's frame rate and the clip's speed.                          *)
(***************************************************************************)
EXTENDS ClipTiming, SequenceShape, Sequences, SequencesExt

CONSTANTS
    TicksPerSecond, \* of every source
    Loudest         \* bound: gains and targets of the sound, from 0

ASSUME ClipAssumption == TicksPerSecond \in Nat \ {0} /\ Loudest \in Nat

-----------------------------------------------------------------------------
(* Operations                                                                *)

TrimTo(from, to) == [op |-> "trim", from |-> from, to |-> to]
PlayAt(ratio) == [op |-> "speed", ratio |-> ratio]
HoldFor(frames) == [op |-> "freeze", frames |-> frames]
Backwards == [op |-> "reverse"]
CropBy(rect) == [op |-> "crop", rect |-> rect]
\* gain, denoise and normalise: a level, and whether it is bypassed
Sound(stage, level) == [op |-> stage, level |-> level, bypassed |-> FALSE]

\* audio_stage: the operation is a step of the sound, this one
Stages == {"denoise", "gain", "normalise"}
IsSound(o) == o.op \in Stages

\* no_op: the steps that do nothing at level 0
DoesNothing(o) == o.op \in {"gain", "denoise"} /\ o.level = 0

\* check_operation
InRange(o) ==
    CASE o.op = "trim" -> o.from < o.to
      [] o.op = "speed" -> o.ratio[1] > 0 /\ o.ratio[2] > 0
      [] o.op = "freeze" -> o.frames >= 1
      [] o.op = "crop" -> o.rect.width > 0 /\ o.rect.height > 0
      [] o.op = "normalise" -> o.level \in 1..Loudest
      [] IsSound(o) -> o.level \in 0..Loudest
      [] OTHER -> TRUE

\* The operations of a clip that are, and that are not, of a kind
OfKind(c, kind) == SelectSeq(c.ops, LAMBDA o : o.op = kind)
OpsWithout(c, kinds) == SelectSeq(c.ops, LAMBDA o : o.op \notin kinds)

\* One operation for all of its kind, where the first of them was
Instead(c, kind, o) ==
    LET others == OpsWithout(c, {kind})
        first == SelectInSeq(c.ops, LAMBDA x : x.op = kind)
    IN IF first = 0 THEN Append(others, o) ELSE InsertAt(others, first, o)

\* retimed, held (of a clip that is held) and respeeded
Retimed(c, from, to, start) ==
    [c EXCEPT !.start = start, !.ops = Instead(c, "trim", TrimTo(from, to))]
Held(c, frames) == [c EXCEPT !.ops = Instead(c, "freeze", HoldFor(frames))]
Respeeded(c, ratio) ==
    [c EXCEPT !.ops = IF ratio[1] = ratio[2] THEN OpsWithout(c, {"speed"})
                      ELSE Instead(c, "speed", PlayAt(ratio))]

Reversed(c, reverse) ==
    [c EXCEPT !.ops = OpsWithout(c, {"reverse"})
                      \o (IF reverse THEN <<Backwards>> ELSE <<>>)]

\* recropped, to no rectangle or that of the whole picture: no crop
Recropped(c, rect, shape) ==
    [c EXCEPT !.ops = OpsWithout(c, {"crop"})
                      \o (IF rect \in {NoRect, WholePicture(shape)} THEN <<>>
                          ELSE <<CropBy(rect)>>)]

\* set_audio, bypass_audio, reset_audio
WithStep(c, step) ==
    [c EXCEPT !.ops = OpsWithout(c, {step.op})
                      \o (IF DoesNothing(step) THEN <<>> ELSE <<step>>)]
WithBypass(c, bypassed) ==
    [c EXCEPT !.ops = [i \in DOMAIN @ |-> IF IsSound(@[i])
                                          THEN [@[i] EXCEPT !.bypassed = bypassed]
                                          ELSE @[i]]]
WithoutSteps(c, stages) == [c EXCEPT !.ops = OpsWithout(c, stages)]

-----------------------------------------------------------------------------
(* place: the operations, resolved                                           *)

Lowest(r) ==
    LET k == Max({k \in 1..r[2] : r[1] % k = 0 /\ r[2] % k = 0})
    IN <<r[1] \div k, r[2] \div k>>

SpeedOf(c) ==
    FoldLeft(LAMBDA s, o : Lowest(<<s[1] * o.ratio[1], s[2] * o.ratio[2]>>),
             <<1, 1>>, OfKind(c, "speed"))

\* reaches_sound, of the operations that force a re-encode
ReachesSound(reason) == reason \in {"freeze", "reverse"}

\* The first that reaches the sound, or the first at all
Forced(c) ==
    LET reasons == OpsWithout(c, {"trim", "speed"} \cup Stages)
        first == SelectInSeq(reasons, LAMBDA o : ReachesSound(o.op))
    IN IF reasons = <<>> THEN "none" ELSE reasons[Max({first, 1})].op

\* Where several trims, holds or crops are made, the last of them counts.
LastOf(c, kind) == Last(OfKind(c, kind))

\* A hold wins over a reverse.
MotionOf(c) ==
    IF OfKind(c, "freeze") # <<>> THEN "hold"
    ELSE IF OfKind(c, "reverse") # <<>> THEN "reverse" ELSE "forward"

CropOf(c) == IF OfKind(c, "crop") = <<>> THEN NoRect ELSE LastOf(c, "crop").rect

Placed(c, fps) ==
    LET trim == LastOf(c, "trim")
        speed == SpeedOf(c)
        rate == <<TicksPerSecond * speed[1], fps * speed[2]>>
    IN [clip |-> c.id, source |-> c.source, from |-> trim.from, to |-> trim.to,
        start |-> c.start, rate |-> rate, speed |-> speed, motion |-> MotionOf(c),
        length |-> IF MotionOf(c) = "hold" THEN LastOf(c, "freeze").frames
                   ELSE FramesUntil(rate, trim.to - trim.from),
        forced |-> Forced(c), crop |-> CropOf(c), silent |-> c.detached,
        audio |-> SelectSeq(c.ops, IsSound)]

EndFrame(p) == p.start + p.length
OnScreen(p, frame) == p.start <= frame /\ frame < EndFrame(p)

\* source_at: the tick on screen at a frame of the placement, NoTick for none
NoTick == -1000
SourceAt(p, frame) ==
    LET offset == TicksInto(p.rate, frame - p.start)
        tick == IF p.motion = "reverse" THEN p.to - 1 - offset ELSE p.from + offset
    IN IF p.motion = "hold" THEN p.from
       ELSE IF tick \in p.from..p.to - 1 THEN tick ELSE NoTick

\* Placement::operations: what the evaluator resolved, as operations
Resolved(p) ==
    <<TrimTo(p.from, p.to)>>
    \o (IF p.speed = <<1, 1>> THEN <<>> ELSE <<PlayAt(p.speed)>>)
    \o (CASE p.motion = "hold" -> <<HoldFor(p.length)>>
          [] p.motion = "reverse" -> <<Backwards>>
          [] OTHER -> <<>>)
    \o (IF p.crop = NoRect THEN <<>> ELSE <<CropBy(p.crop)>>)
    \o p.audio

-----------------------------------------------------------------------------
(* halves, for every motion: the two sides of a placement cut at a frame,    *)
(* or none                                                                   *)

Cut(left, right) == [left |-> left, right |-> right]
Part(from, to, start, length) ==
    [from |-> from, to |-> to, start |-> start, length |-> length]
Timed(rate, from, to, start) ==
    Part(from, to, start, FramesUntil(rate, to - from))

\* Mutant: a clip that plays backwards is cut as if it played forwards.
CutForwards(p, at) ==
    LET k == at - p.start
        cut == p.from + TicksInto(p.rate, k)
        to == Min({p.to, cut + TicksInto(p.rate, p.length - k)})
    IN Cut(Timed(p.rate, p.from, cut, p.start), Timed(p.rate, cut, to, at))

\* Backwards, the left half plays the end of the source.
CutSides(p, at) ==
    LET k == at - p.start
        cut == IF p.motion = "reverse" THEN p.to - TicksInto(p.rate, k)
               ELSE p.from + TicksInto(p.rate, k)
        rest == TicksInto(p.rate, p.length - k)
    IN CASE p.motion = "hold" ->
              Cut(Part(p.from, p.to, p.start, k), Part(p.from, p.to, at, p.length - k))
         [] p.motion = "reverse" ->
              Cut(Timed(p.rate, cut, p.to, p.start),
                  Timed(p.rate, Max({p.from, cut - rest}), cut, at))
         [] OTHER ->
              Cut(Timed(p.rate, p.from, cut, p.start),
                  Timed(p.rate, cut, Min({p.to, cut + rest}), at))

Halved(p, at) ==
    {sides \in {CutSides(p, at)} :
        /\ p.start < at /\ at < EndFrame(p)
        /\ sides.left.length = at - p.start
        /\ sides.right.length = EndFrame(p) - at
        /\ sides.left.from < sides.left.to /\ sides.right.from < sides.right.to}

\* with_half, and half_of: a placement, and a clip, cut down to a half
WithHalf(p, half) ==
    [p EXCEPT !.from = half.from, !.to = half.to, !.start = half.start,
              !.length = half.length]
HalfOf(c, p, half) ==
    LET retimed == Retimed(c, half.from, half.to, half.start)
    IN IF p.motion = "hold" THEN Held(retimed, half.length) ELSE retimed

\* evaluate.rs, crop: a placement's frames from one on, up to one, and between
\* two, or none where it cannot be cut there
FromFrame(p, at) ==
    IF at > p.start THEN {WithHalf(p, sides.right) : sides \in Halved(p, at)} ELSE {p}
UpToFrame(p, at) ==
    IF at < EndFrame(p) THEN {WithHalf(p, sides.left) : sides \in Halved(p, at)} ELSE {p}
CutDown(p, first, end) == UNION {UpToFrame(tail, end) : tail \in FromFrame(p, first)}

-----------------------------------------------------------------------------
(* Timeline::picture.  layers are the placements of each visible track, the   *)
(* one in front first.                                                        *)

\* Mutant: the track at the back is in front.
BackAt(layers, frame) ==
    {p \in UNION ToSet(layers) :
        /\ OnScreen(p, frame)
        /\ \A i, j \in DOMAIN layers :
              p \in layers[i] /\ (\E q \in layers[j] : OnScreen(q, frame)) => j <= i}

\* placement_at, of the first track with one
TopAt(layers, frame) ==
    {p \in UNION ToSet(layers) :
        /\ OnScreen(p, frame)
        /\ \A i, j \in DOMAIN layers :
              p \in layers[i] /\ (\E q \in layers[j] : OnScreen(q, frame)) => i <= j}

\* The stretches between the frames at which a clip starts or ends
Stretches(placements) ==
    LET edges == {p.start : p \in placements} \cup {EndFrame(p) : p \in placements}
    IN [i \in 1..Cardinality(edges) - 1 |->
           CHOOSE s \in edges \X edges :
              /\ Cardinality({e \in edges : e < s[1]}) = i - 1
              /\ Cardinality({e \in edges : e < s[2]}) = i]

\* In each the clip in front is one; a run of it stays one piece.
PictureOf(layers) ==
    LET Runs(pieces, top, first) ==
            pieces # <<>> /\ Last(pieces).clip = top.clip /\ EndFrame(Last(pieces)) = first
        With(pieces, top, s) ==
            IF Runs(pieces, top, s[1])
            THEN {Append(Front(pieces), piece) : piece \in CutDown(top, Last(pieces).start, s[2])}
            ELSE {Append(pieces, piece) : piece \in CutDown(top, s[1], s[2])}
        Extended(pieces, s) ==
            LET longer == UNION {With(pieces, top, s) : top \in TopAt(layers, s[1])}
            IN IF longer = {} THEN pieces ELSE CHOOSE l \in longer : TRUE
    IN FoldLeft(Extended, <<>>, Stretches(UNION ToSet(layers)))
===============================================================================
