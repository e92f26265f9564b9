------------------------------- MODULE ClipTiming -------------------------------
(***************************************************************************)
(* Where a clip's source ticks lie in sequence frames: project/trim.rs,    *)
(* project/split.rs and the conversions of project/evaluate.rs they share. *)
(*                                                                         *)
(* A clip plays its source's ticks from `from` up to `to`, beginning at    *)
(* frame `start`, at `rate` = <<n, d>>: d frames last n ticks.  The rate   *)
(* stands for the source's time base, the sequence's, and the clip's       *)
(* speed, which the code only uses together.  Clips play forwards; 64 bits *)
(* are enough for every value.                                             *)
(***************************************************************************)
EXTENDS Integers, FiniteSetsExt

\* rescale: the quotient n / d (d > 0) rounded
Up(n, d) == -((-n) \div d)
Nearest(n, d) ==
    n \div d + (IF 2 * (n % d) > d \/ (2 * (n % d) = d /\ n > 0) THEN 1 ELSE 0)

\* Placement::ticks_into: the ticks after which a frame is on screen
TicksInto(rate, frames) == Nearest(frames * rate[1], rate[2])

\* frames_until: the first frame after which that many ticks are reached,
\* each of them exact to half a tick
FramesUntil(rate, ticks) == Up((2 * ticks - 1) * rate[2], 2 * rate[1])

LengthOf(c) == FramesUntil(c.rate, c.to - c.from)
EndOf(c) == c.start + LengthOf(c)
Covers(c, frame) == c.start <= frame /\ frame < EndOf(c)

\* Placement::source_at: the tick on screen
TickAt(c, frame) == c.from + TicksInto(c.rate, frame - c.start)

-----------------------------------------------------------------------------
(* Split: the halves of c cut at a frame                                     *)

LeftHalf(c, at) == [c EXCEPT !.to = TickAt(c, at)]

\* Mutant: the right half begins a tick after the left half's end.
RightHalfNextTick(c, at) ==
    [c EXCEPT !.from = TickAt(c, at) + 1, !.start = at]

\* A tail that would be a frame too long is left off.
RightHalf(c, at) ==
    LET cut == TickAt(c, at)
    IN [c EXCEPT !.from = cut, !.start = at,
                 !.to = Min({c.to, cut + TicksInto(c.rate, EndOf(c) - at)})]

\* halves gives an answer
Splits(c, at) ==
    /\ c.start < at /\ at < EndOf(c)
    /\ LengthOf(LeftHalf(c, at)) = at - c.start
    /\ LengthOf(RightHalf(c, at)) = EndOf(c) - at
    /\ c.from < TickAt(c, at) /\ TickAt(c, at) < RightHalf(c, at).to

-----------------------------------------------------------------------------
(* Trim.  extent is the source's ticks <<first, end>>; room[1] and room[2]   *)
(* are the frames the clip may not start before, and not end after.          *)

AnyRoom == <<{}, {}>>

\* The edges' moves as far as the room and a frame of length allow
StartMove(c, frames, room) ==
    Max({Min({frames, LengthOf(c) - 1})} \cup {f - c.start : f \in room[1]})
EndMove(c, frames, room) ==
    Min({Max({frames, 1 - LengthOf(c)})} \cup {f - EndOf(c) : f \in room[2]})

\* The in-point, and whether a bound stopped it, moved a tick at a time (four
\* at most) until the clip lasts the frames asked
InPoint(c, frames, extent, room) ==
    LET wanted == StartMove(c, frames, room)
        asked == c.from + Up(wanted * c.rate[1], c.rate[2])
        target == LengthOf(c) - wanted
        first == [tick |-> Max({asked, extent[1]}),
                  clamped |-> wanted # frames \/ asked < extent[1]]
        Better(p) ==
            LET length == FramesUntil(c.rate, c.to - p.tick)
            IN IF p.clamped \/ length = target THEN p
               ELSE IF length > target THEN [p EXCEPT !.tick = @ + 1]
               ELSE IF p.tick > extent[1] THEN [p EXCEPT !.tick = @ - 1]
               ELSE [p EXCEPT !.clamped = TRUE]
        point[step \in 0..4] == IF step = 0 THEN first ELSE Better(point[step - 1])
    IN point[4]

\* trim, Edge::Start: the end stays, so the start is worked out from it
TrimStart(c, frames, extent, room) ==
    LET trimmed == [c EXCEPT !.from = InPoint(c, frames, extent, room).tick]
    IN [trimmed EXCEPT !.start = EndOf(c) - LengthOf(trimmed)]

\* trim, Edge::End
TrimEnd(c, frames, extent, room) ==
    LET length == LengthOf(c) + EndMove(c, frames, room)
        asked == c.from + TicksInto(c.rate, length)
    IN [c EXCEPT !.to = Max({Min({asked, extent[2]}), c.from + 1})]

\* reach: how far the source lets an edge move, in frames
StartReach(c, extent) ==
    LET ticks == c.from - extent[1]
        frames == FramesUntil(c.rate, ticks)
        whole == IF Up(frames * c.rate[1], c.rate[2]) > ticks THEN frames - 1
                                                              ELSE frames
    IN -Max({0, whole})
EndReach(c, extent) ==
    Max({0, ((extent[2] - c.from) * c.rate[2]) \div c.rate[1] - LengthOf(c)})
=============================================================================
