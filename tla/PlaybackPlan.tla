----------------------------- MODULE PlaybackPlan -----------------------------
(***************************************************************************)
(* What the player plays: playback/plan.rs, playback/timecode.rs and the   *)
(* steps of playback/mod.rs.                                               *)
(*                                                                         *)
(* A plan is a sequence of segments in the order of time.  A segment plays *)
(* the ticks of a source from `from` up to `to` from program time `start`; *)
(* a tick lasts tick[1] / tick[2] units of program time (microseconds in   *)
(* the code), which stands for the source's time base and the clip's       *)
(* speed.  A held or reversed segment shows one picture for each sequence  *)
(* frame from `first` on, `frames` of them.  `until` is where the clip's   *)
(* sequence frames end.  `crop` and `chain` are what a decoder is started  *)
(* with besides.                                                           *)
(***************************************************************************)
EXTENDS ClipTiming, Sequences

CONSTANTS
    FramesOf,       \* the ticks at which each source has a picture
    FrameLasts,     \* a sequence frame lasts FrameLasts[1] / FrameLasts[2] units
    SeamTolerance

ASSUME PlaybackAssumption ==
    /\ FrameLasts \in (Nat \ {0}) \X (Nat \ {0})
    /\ SeamTolerance \in Nat
    /\ \A source \in DOMAIN FramesOf :
           FramesOf[source] \subseteq Nat /\ IsFiniteSet(FramesOf[source])

Nowhere == -1

\* Segment::sequence_frame_start and sequence_frame_place
FrameStart(k) == (k * FrameLasts[1]) \div FrameLasts[2]
FramePlace(k) == Up(k * FrameLasts[1], FrameLasts[2])

\* segment_of: a placement (a clip of ClipTiming at frame `start`) as a segment
SegmentOf(p) ==
    [source |-> p.source, from |-> p.from, to |-> p.to, start |-> FrameStart(p.start),
     tick |-> <<FrameLasts[1] * p.rate[2], FrameLasts[2] * p.rate[1]>>,
     motion |-> p.motion, first |-> p.start, frames |-> LengthOf(p), rate |-> p.rate,
     until |-> FrameStart(EndOf(p)), crop |-> p.crop, chain |-> p.chain]

\* Segment: what its fields are
IsSegment(s) ==
    /\ s.source \in DOMAIN FramesOf /\ s.motion \in {"forward", "hold", "reverse"}
    /\ {s.from, s.to, s.start, s.first, s.frames, s.until} \subseteq Int
    /\ {s.tick, s.rate} \subseteq (Nat \ {0}) \X (Nat \ {0})

Moves(s) == s.motion = "forward"
LastFrameOf(s) == s.first + s.frames - 1

\* sequence_frame_at: the last sequence frame that starts at or before t
SequenceFrameAt(s, t) ==
    Max({s.first, Min({LastFrameOf(s), Up((t + 1) * FrameLasts[2], FrameLasts[1]) - 1})})

PlaceOf(s, k) == Max({FramePlace(k), s.start})

DurationOf(s) ==
    IF Moves(s)
    THEN Min({Up((s.to - s.from) * s.tick[1], s.tick[2]), Max({s.until - s.start, 0})})
    ELSE Max({FrameStart(s.first + s.frames) - s.start, 0})

TimelineEnd(s) == s.start + DurationOf(s)
ContainsFrame(s, t) == s.start <= t /\ t < TimelineEnd(s)

\* Placement::source_at at a sequence frame
NamedTick(s, k) ==
    CASE s.motion = "hold"    -> s.from
      [] s.motion = "reverse" -> s.to - 1 - TicksInto(s.rate, k - s.first)

\* Segment::source_at: the tick on screen at t
SourceAt(s, t) ==
    IF Moves(s) THEN Min({s.from + Nearest((t - s.start) * s.tick[2], s.tick[1]), s.to - 1})
                ELSE Max({s.from, Min({s.to - 1, NamedTick(s, SequenceFrameAt(s, t))})})

-----------------------------------------------------------------------------
(* The pictures of a source, as the keyframe index has them                  *)

AtOrBefore(source, tick) ==
    LET had == {f \in FramesOf[source] : f <= tick} IN IF had = {} THEN Nowhere ELSE Max(had)
Before(source, tick) == AtOrBefore(source, tick - 1)
After(source, tick) ==
    LET had == {f \in FramesOf[source] : f > tick} IN IF had = {} THEN Nowhere ELSE Min(had)
HasPictures(s) == FramesOf[s.source] # {}

\* program_at_backwards: the first sequence frame whose tick is before the
\* picture after this one
ProgramAtBackwards(s, f) ==
    LET next == After(s.source, f)
        passed == IF next # Nowhere /\ next < s.to THEN s.to - next ELSE 0
    IN PlaceOf(s, Min({s.first + Max({FramesUntil(s.rate, passed), 0}), LastFrameOf(s)}))

\* Segment::program_at: where the picture at tick f starts
ProgramAt(s, f) ==
    CASE s.motion = "hold"    -> s.start
      [] s.motion = "reverse" -> ProgramAtBackwards(s, f)
      [] s.motion = "forward" -> s.start + Up(Max({f - s.from, 0}) * s.tick[1], s.tick[2])

\* Segment::shown_at: where what is on screen at t started
ShownAt(s, t, f) == IF Moves(s) THEN ProgramAt(s, f) ELSE PlaceOf(s, SequenceFrameAt(s, t))

-----------------------------------------------------------------------------
(* Plans                                                                     *)

\* check
IsPlan(segments) ==
    /\ segments \in Seq(Range(segments))
    /\ \A i \in DOMAIN segments :
        /\ IsSegment(segments[i])
        /\ segments[i].from < segments[i].to
        /\ i > 1 => segments[i].start + SeamTolerance >= TimelineEnd(segments[i - 1])

\* PlaybackPlan::segment_at: the last segment to have started, unless it is over
IndexAt(segments, t) ==
    LET started == {i \in DOMAIN segments : segments[i].start <= t}
        i == Max(started)
    IN IF started # {} /\ ContainsFrame(segments[i], t) THEN i ELSE 0

\* next_segment_after
IndexAfter(segments, t) ==
    LET later == {i \in DOMAIN segments : segments[i].start > t}
    IN IF later = {} THEN 0 ELSE Min(later)

Duration(segments) == Max({0} \cup {TimelineEnd(segments[i]) : i \in DOMAIN segments})

\* same_timing, same_segment, only_chains_or_crops_differ
SameTiming(a, b) ==
    [a EXCEPT !.crop = 0, !.chain = 0, !.until = 0] = [b EXCEPT !.crop = 0, !.chain = 0, !.until = 0]
SameSegment(a, b) == SameTiming(a, b) /\ a.crop = b.crop
OnlyChainsOrCropsDiffer(old, new) ==
    /\ Len(old) = Len(new)
    /\ \A i \in DOMAIN old : SameTiming(old[i], new[i])

-----------------------------------------------------------------------------
(* Steps by real frames.  A place is <<segment, tick>>, or <<segment,        *)
(* program time>> where one picture is shown for each sequence frame.        *)

NoPlace == <<0, 0>>

\* first_frame: the picture on screen at the in-point
FirstPicture(s) ==
    CASE ~Moves(s) -> ShownAt(s, s.start, 0)
      [] Moves(s) /\ AtOrBefore(s.source, s.from) # Nowhere -> AtOrBefore(s.source, s.from)
      [] OTHER -> After(s.source, s.from)

LastPicture(s) == IF Moves(s) THEN Before(s.source, s.to) ELSE PlaceOf(s, LastFrameOf(s))

\* A segment a step can stand in: it shows something
Shows(s) == ~Moves(s) \/ (HasPictures(s) /\ FirstPicture(s) # Nowhere)
HasLast(s) == ~Moves(s) \/ (HasPictures(s) /\ LastPicture(s) # Nowhere)

\* frame_at: where a step stands at t
PlaceAt(plan, t) ==
    LET i == IF IndexAt(plan, t) # 0 THEN IndexAt(plan, t) ELSE IndexAfter(plan, t)
    IN IF i = 0 THEN NoPlace
       ELSE LET s == plan[i]
                from == Max({t, s.start})
            IN CASE ~Moves(s) -> <<i, ShownAt(s, from, 0)>>
                 [] Moves(s) /\ AtOrBefore(s.source, SourceAt(s, from)) # Nowhere ->
                        <<i, AtOrBefore(s.source, SourceAt(s, from))>>
                 [] OTHER -> NoPlace

\* frame_after, with sequence_step
PlaceAfter(plan, at) ==
    LET s == plan[at[1]]
        frame == SequenceFrameAt(s, at[2])
        next == After(s.source, at[2])
        later == {j \in DOMAIN plan : j > at[1] /\ Shows(plan[j])}
    IN CASE ~Moves(s) /\ frame < LastFrameOf(s) -> <<at[1], PlaceOf(s, frame + 1)>>
         [] Moves(s) /\ next # Nowhere /\ next < s.to -> <<at[1], next>>
         [] Moves(s) /\ ~HasPictures(s) -> NoPlace
         [] OTHER -> IF later = {} THEN NoPlace
                     ELSE <<Min(later), FirstPicture(plan[Min(later)])>>

\* Mutant: a step back goes on below the in-point.
PlaceBeforeAny(plan, at) ==
    LET s == plan[at[1]]
        frame == SequenceFrameAt(s, at[2])
        previous == Before(s.source, at[2])
        earlier == {j \in DOMAIN plan : j < at[1] /\ HasLast(plan[j])}
    IN CASE ~Moves(s) /\ frame > s.first -> <<at[1], PlaceOf(s, frame - 1)>>
         [] Moves(s) /\ previous # Nowhere -> <<at[1], previous>>
         [] OTHER -> IF earlier = {} THEN NoPlace
                     ELSE <<Max(earlier), LastPicture(plan[Max(earlier)])>>

\* frame_before
PlaceBefore(plan, at) ==
    LET s == plan[at[1]]
        frame == SequenceFrameAt(s, at[2])
        previous == Before(s.source, at[2])
        earlier == {j \in DOMAIN plan : j < at[1] /\ HasLast(plan[j])}
    IN CASE ~Moves(s) /\ frame > s.first -> <<at[1], PlaceOf(s, frame - 1)>>
         [] Moves(s) /\ at[2] > FirstPicture(s) /\ previous # Nowhere ->
                <<at[1], Max({previous, FirstPicture(s)})>>
         [] Moves(s) /\ ~Shows(s) -> NoPlace
         [] OTHER -> IF earlier = {} THEN NoPlace
                     ELSE <<Max(earlier), LastPicture(plan[Max(earlier)])>>

\* Inner::step, |by| steps from a place
Stepped(plan, at, by) ==
    LET Next(place) == IF by > 0 THEN PlaceAfter(plan, place) ELSE PlaceBefore(plan, place)
        after[n \in 0..Max({by, -by})] ==
            IF n = 0 THEN at
            ELSE IF Next(after[n - 1]) = NoPlace THEN after[n - 1] ELSE Next(after[n - 1])
    IN after[Max({by, -by})]

\* The program time a step to a place goes to
TargetOf(plan, at) == IF Moves(plan[at[1]]) THEN ProgramAt(plan[at[1]], at[2]) ELSE at[2]

\* last_frame_position
LastFramePosition(plan) ==
    LET end == Duration(plan)
        i == IndexAt(plan, end - 1)
    IN CASE i = 0 -> Max({end - 1, 0})
         [] i # 0 /\ ~Moves(plan[i]) -> LastPicture(plan[i])
         [] i # 0 /\ Moves(plan[i]) /\ ~HasPictures(plan[i]) -> Max({end - 1, 0})
         [] OTHER -> IF LastPicture(plan[i]) = Nowhere THEN end - 1
                     ELSE ProgramAt(plan[i], LastPicture(plan[i]))
=============================================================================
