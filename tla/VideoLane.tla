------------------------------- MODULE VideoLane -------------------------------
(***************************************************************************)
(* One lane of the preview's pictures: the ring of frames of               *)
(* decode/ring.rs, filled by a VideoDecoder (decode/mod.rs) or, for a      *)
(* reversed clip, by a ReverseDecoder (playback/reverse.rs), drained by    *)
(* the presenter, started again by keep_up and ended by retire             *)
(* (playback/lanes.rs).                                                    *)
(*                                                                         *)
(* A frame is the tick of its picture and the run of the decoder it came   *)
(* from.  The clock only moves forwards (Player), so the source position   *)
(* asked for only grows, and only falls in a reversed clip.                *)
(***************************************************************************)
EXTENDS Integers, FiniteSets, FiniteSetsExt

CONSTANTS
    Pictures,      \* the ticks of the source's pictures
    Keyframes,
    ClipIn,       \* the clip's first tick
    ClipOut,      \* ... and the first after it
    RingHolds,     \* FrameRing::capacity
    ChunkMax,      \* chunk_frames
    ResyncBehind, ResyncLead

ASSUME LaneAssumption ==
    /\ Pictures \subseteq Nat /\ IsFiniteSet(Pictures)
    /\ Keyframes \subseteq Pictures
    /\ {ClipIn, ClipOut} \subseteq Nat /\ ClipIn < ClipOut
    /\ \E p \in Pictures : p < ClipOut
    /\ {RingHolds, ChunkMax, ResyncBehind} \subseteq Nat \ {0} /\ ResyncLead \in Nat

VARIABLES
    direction,     \* "forward" or "reverse"
    ring,       \* the frames buffered, [tick, run]; and the flags
    decoder,
    run,        \* which decoder of the lane it is
    started,      \* the tick it was started at
    lane,       \* "live", "resyncing", "retiring" or "retired"
    now,        \* the source position the clock is at
    shown       \* the tick of the frame taken last

laneVars == <<direction, ring, decoder, run, started, lane, now, shown>>

Missing == -1
PictureAt(t) == LET had == {p \in Pictures : p <= t} IN IF had = {} THEN Missing ELSE Max(had)
PictureAfter(t) == LET had == {p \in Pictures : p > t} IN IF had = {} THEN Missing ELSE Min(had)

\* The clip's first picture: the one on screen at its in-point.
Floor == IF PictureAt(ClipIn) # Missing THEN PictureAt(ClipIn) ELSE PictureAfter(ClipIn)

-----------------------------------------------------------------------------
(* FrameRing                                                                 *)

EmptyRing == [frames |-> {}, finished |-> FALSE, closed |-> FALSE, taken |-> Missing, asked |-> Missing]
HasRoom(r) == Cardinality(r.frames) < RingHolds
Pushed(r, tick) == [r EXCEPT !.frames = @ \cup {[tick |-> tick, run |-> run]}]
Finished(r) == [r EXCEPT !.finished = TRUE]
Closed(r) == [r EXCEPT !.closed = TRUE, !.frames = {}]

\* Mutant: a ring started again keeps what it held.
KeptAsItWas(r) == r

\* reset
Reset(r) == [r EXCEPT !.frames = {}, !.finished = FALSE, !.taken = Missing]

\* Mutant: a producer blocked on a full ring only looks for the close.
RefusesClosed(r, cancelled) == r.closed

\* push gives up
Refuses(r, cancelled) == r.closed \/ cancelled

\* Mutant: the oldest frame due is taken, not the newest.
OldestDue(frames) == Min({f.tick : f \in frames})

\* take_due, take_due_backwards: of the frames at or before the position ...
NewestDue(frames) == Max({f.tick : f \in frames})

\* ... and the ring after it.  Forwards the older ones are dropped, backwards
\* the newer, and nothing is taken while the last frame taken is still right.
TakesDue(r, t, backwards) ==
    LET due == {f \in r.frames : f.tick <= t}
        takes == due # {} /\ (backwards => r.taken = Missing \/ t < r.taken)
        tick == IF takes THEN NewestDue(due) ELSE Missing
    IN [tick |-> tick,
        ring |-> [r EXCEPT !.asked = t,
                           !.frames = IF backwards THEN {f \in due : f.tick # tick} ELSE @ \ due,
                           !.taken = IF backwards /\ takes THEN tick ELSE @]]

-----------------------------------------------------------------------------
(* VideoDecoder: a process, the thread that reads its frames and pushes      *)
(* them, the lines with their timestamps, and the watcher of the job         *)

\* `hand` is the frame being pushed, `next` the one after it, `line` the next
\* whose timestamp is reported.
Forward(from) ==
    [kind |-> "forward", next |-> from, hand |-> Missing, line |-> from, cancel |-> FALSE,
     process |-> "runs", flow |-> "continue", head |-> Missing, end |-> "none"]

\* The process could not be started: the lane has no decoder.
NoDecoder == [Forward(Missing) EXCEPT !.kind = "none", !.process = "gone", !.end = "failed"]

Decoding == decoder.kind = "forward" /\ decoder.end = "none"

\* Timestamps::line
Report ==
    /\ Decoding /\ decoder.process = "runs" /\ decoder.line # Missing
    /\ decoder' = [decoder EXCEPT !.line = PictureAfter(@)]
    /\ UNCHANGED <<direction, ring, run, started, lane, now, shown>>

Reported == decoder.line = Missing \/ decoder.hand < decoder.line

\* FrameAssembler::chunk has a whole frame.
AssembleFrame ==
    /\ Decoding /\ decoder.process = "runs" /\ decoder.flow = "continue"
    /\ decoder.hand = Missing /\ decoder.next # Missing
    /\ decoder' = [decoder EXCEPT !.hand = decoder.next, !.next = PictureAfter(decoder.next)]
    /\ UNCHANGED <<direction, ring, run, started, lane, now, shown>>

\* Its timestamp is there, and the ring takes it, or not any more.
PushFrame ==
    /\ Decoding /\ decoder.hand # Missing /\ Reported
    /\ \/ /\ Refuses(ring, decoder.cancel)
          /\ decoder' = [decoder EXCEPT !.hand = Missing, !.flow = "stop"]
          /\ UNCHANGED ring
       \/ /\ ~Refuses(ring, decoder.cancel) /\ HasRoom(ring)
          /\ ring' = Pushed(ring, decoder.hand)
          /\ decoder' = [decoder EXCEPT !.hand = Missing, !.head = decoder.hand]
    /\ UNCHANGED <<direction, run, started, lane, now, shown>>

\* No timestamp within TIMESTAMP_WAIT, or none because of a cancel.
MissStamp ==
    /\ Decoding /\ decoder.hand # Missing /\ ~Reported
    /\ decoder' = [decoder EXCEPT !.hand = Missing, !.flow = "fail"]
    /\ UNCHANGED <<direction, ring, run, started, lane, now, shown>>

\* The process is through, or killed ...
Exit ==
    /\ Decoding /\ decoder.process = "runs"
    /\ \/ decoder.next = Missing /\ decoder.line = Missing
       \/ decoder.cancel
       \/ decoder.flow # "continue"
    /\ decoder' = [decoder EXCEPT !.process = "gone"]
    /\ UNCHANGED <<direction, ring, run, started, lane, now, shown>>

\* ... or fails.
Crash ==
    /\ Decoding /\ decoder.process = "runs"
    /\ decoder' = [decoder EXCEPT !.process = "gone", !.flow = "fail"]
    /\ UNCHANGED <<direction, ring, run, started, lane, now, shown>>

\* The watcher: job.wait returns once the process is gone and the reader is
\* through with what it had.
Watch ==
    /\ Decoding /\ decoder.process = "gone" /\ decoder.hand = Missing
    /\ ring' = Finished(ring)
    /\ decoder' = [decoder EXCEPT !.end = CASE decoder.cancel -> "stopped"
                                            [] ~decoder.cancel /\ decoder.flow = "fail" -> "failed"
                                            [] OTHER -> "finished"]
    /\ UNCHANGED <<direction, run, started, lane, now, shown>>

VideoDecodes == Report \/ AssembleFrame \/ PushFrame \/ MissStamp \/ Exit \/ Watch

-----------------------------------------------------------------------------
(* ReverseDecoder: chunks of the clip, the newest first, each decoded        *)
(* forwards while the one before is handed to the ring newest first          *)

\* Run::chunk: at most ChunkMax pictures up to `last` ...
Reach(last) ==
    {p \in Pictures : Floor <= p /\ p <= last
        /\ Cardinality({q \in Pictures : p < q /\ q <= last}) < ChunkMax}

\* ... from the earliest keyframe among them.
ChunkTo(last) ==
    LET keys == Reach(last) \cap Keyframes
        first == Min(IF keys # {} THEN keys ELSE Reach(last))
    IN [frames |-> {p \in Reach(last) : p >= first}, state |-> "decoding"]

NoChunk == [frames |-> {}, state |-> "none"]

Backward(at) ==
    [kind |-> "reverse", pc |-> "collecting", pending |-> ChunkTo(Max({PictureAt(at), Floor})), left |-> {},
     next |-> NoChunk, cancel |-> FALSE, end |-> "none"]

Reversing == decoder.kind = "reverse" /\ decoder.end = "none"

\* The chunk's own decoder ends: run through, or failed.
ChunkEnds ==
    /\ Reversing
    /\ \E which \in {"pending", "next"}, verdict \in {"finished", "failed"} :
        /\ decoder[which].state = "decoding"
        /\ decoder' = [decoder EXCEPT ![which].state = verdict]
    /\ UNCHANGED <<direction, ring, run, started, lane, now, shown>>

\* The next chunk ends before the first picture of this one, or where the
\* presenter has got to if that is earlier.
NextEnd(first) ==
    LET before == PictureAt(first - 1)
        asked == ring.asked
    IN IF before >= Floor /\ asked # Missing /\ asked < before THEN PictureAt(asked) ELSE before

\* What ends the thread ends the ring: run, then finish.
ReverseEnds(how) ==
    /\ decoder' = [decoder EXCEPT !.end = how, !.pending = NoChunk, !.next = NoChunk, !.left = {}]
    /\ ring' = Finished(ring)

\* collect, and the start of the next chunk
Collect ==
    /\ Reversing /\ decoder.pc = "collecting"
    /\ \/ decoder.cancel /\ ReverseEnds("stopped")
       \/ ~decoder.cancel /\ decoder.pending.state = "failed" /\ ReverseEnds("failed")
       \/ /\ ~decoder.cancel /\ decoder.pending.state = "finished"
          /\ LET end == NextEnd(Min(decoder.pending.frames))
             IN decoder' = [decoder EXCEPT !.pc = "handing", !.left = decoder.pending.frames,
                                           !.pending = NoChunk,
                                           !.next = IF end >= Floor THEN ChunkTo(end) ELSE NoChunk]
          /\ UNCHANGED ring
    /\ UNCHANGED <<direction, run, started, lane, now, shown>>

\* hand_over, and the turn of the loop
HandOver ==
    /\ Reversing /\ decoder.pc = "handing"
    /\ \/ decoder.left # {} /\ Refuses(ring, decoder.cancel) /\ ReverseEnds("stopped")
       \/ /\ decoder.left # {} /\ ~Refuses(ring, decoder.cancel) /\ HasRoom(ring)
          /\ ring' = Pushed(ring, Max(decoder.left))
          /\ decoder' = [decoder EXCEPT !.left = @ \ {Max(@)}]
       \/ decoder.left = {} /\ decoder.next = NoChunk /\ ReverseEnds("finished")
       \/ /\ decoder.left = {} /\ decoder.next # NoChunk
          /\ decoder' = [decoder EXCEPT !.pc = "collecting", !.pending = decoder.next, !.next = NoChunk]
          /\ UNCHANGED ring
    /\ UNCHANGED <<direction, run, started, lane, now, shown>>

ReverseDecodes == ChunkEnds \/ Collect \/ HandOver

-----------------------------------------------------------------------------
(* The player: present, keep_up and retire                                   *)

\* The clock moves on.
Advance ==
    /\ \E t \in ClipIn..(ClipOut - 1) :
        /\ IF direction = "forward" THEN t > now ELSE t < now
        /\ now' = t
    /\ UNCHANGED <<direction, ring, decoder, run, started, lane, shown>>

\* Lane::take_due
Ask ==
    /\ lane = "live"
    /\ LET took == TakesDue(ring, now, direction = "reverse")
       IN /\ ring' = took.ring
          /\ shown' = IF took.tick = Missing THEN shown ELSE took.tick
    /\ UNCHANGED <<direction, decoder, run, started, lane, now>>

\* keep_up: too far behind, with a keyframe ahead to start at, the decoder is
\* stopped; once it is gone, the ring is reset ...
Resync ==
    /\ lane = "live" /\ decoder.kind = "forward" /\ decoder.end = "none"
    /\ decoder.head # Missing /\ now - decoder.head >= ResyncBehind
    /\ \E k \in Keyframes : k >= now + ResyncLead
    /\ started' = Min({k \in Keyframes : k >= now + ResyncLead})
    /\ decoder' = [decoder EXCEPT !.cancel = TRUE] /\ lane' = "resyncing"
    /\ UNCHANGED <<direction, ring, run, now, shown>>

\* ... and another is started at that keyframe, if it can be.
Restart ==
    /\ lane = "resyncing" /\ decoder.end # "none"
    /\ ring' = Reset(ring)
    /\ run' = run + 1
    /\ decoder' \in {Forward(started), NoDecoder}
    /\ lane' = "live"
    /\ UNCHANGED <<direction, started, now, shown>>

\* retire: the ring is closed, the decoder stopped and joined.
Retire ==
    /\ lane = "live"
    /\ lane' = "retiring" /\ ring' = Closed(ring)
    /\ decoder' = [decoder EXCEPT !.cancel = TRUE]
    /\ UNCHANGED <<direction, run, started, now, shown>>

Retired ==
    /\ lane = "retiring" /\ decoder.end # "none"
    /\ lane' = "retired"
    /\ UNCHANGED <<direction, ring, decoder, run, started, now, shown>>

-----------------------------------------------------------------------------

LaneInit ==
    /\ direction \in {"forward", "reverse"}
    /\ now = IF direction = "forward" THEN ClipIn ELSE ClipOut - 1
    /\ started = IF direction = "forward" THEN Floor ELSE Max({PictureAt(now), Floor})
    /\ decoder = IF direction = "forward" THEN Forward(started) ELSE Backward(now)
    /\ ring = EmptyRing /\ run = 1 /\ lane = "live" /\ shown = Missing

LaneNext ==
    VideoDecodes \/ Crash \/ ReverseDecodes \/ Advance \/ Ask \/ Resync \/ Restart \/ Retire \/ Retired

LaneSpec == LaneInit /\ [][LaneNext]_laneVars

\* The reader, the process, the watcher and the thread run when they can, the
\* presenter asks again and again; nobody has to move the clock or retire a
\* lane, and no process has to fail.
LaneFairness ==
    /\ WF_laneVars(VideoDecodes) /\ WF_laneVars(ReverseDecodes)
    /\ WF_laneVars(Ask) /\ WF_laneVars(Restart) /\ WF_laneVars(Retired)

-----------------------------------------------------------------------------
(* What it promises                                                          *)

\* What a lane holds of a source: its ring, what is handed to it and the chunk
\* decoded meanwhile.
Held == Cardinality(ring.frames)
        + (IF decoder.kind # "reverse" THEN 0
           ELSE Cardinality(decoder.pending.frames) + Cardinality(decoder.left)
                + Cardinality(decoder.next.frames))

\* The ring is bounded, and holds and reports what the decoder there is now
\* made, not one before it; a reversed lane holds no more than its ring and
\* two chunks, however long the clip (memory_bound).
RingOfItsDecoder ==
    /\ Cardinality(ring.frames) <= RingHolds
    /\ \A f \in ring.frames : f.run = run /\ (direction = "forward" /\ lane = "live" => f.tick >= started)
    /\ ring.finished => decoder.end # "none"
    /\ Held <= RingHolds + 2 * ChunkMax

\* Forwards the pictures shown only go on, and none is shown before its time,
\* over a start again as well; backwards each is exactly the one of the
\* position the clock is at.
PicturesInTime ==
    [][shown' # shown =>
        /\ direction = "forward" => shown' > shown /\ shown' <= now
        /\ direction = "reverse" => shown' = Max({PictureAt(now), Floor})]_laneVars

\* Once the clock stands, the picture of where it stands is shown: no skip
\* loses it.  (Unless its decoder failed, the lane is being taken down, or the
\* decoder was started again further on.)
DueIsShown ==
    <>[](\/ lane # "live" \/ decoder.end = "failed" \/ (direction = "forward" /\ now < started)
         \/ shown = Max({PictureAt(now), Floor}))

\* A decoder that is stopped ends, though its ring is full and nobody takes a
\* frame from it any more: whoever waits for it goes on.
StopReturns == lane \in {"resyncing", "retiring"} ~> lane \in {"live", "retired"}

\* A lane gets where it is going: to the picture due, or to its end.
LaneArrives == DueIsShown /\ StopReturns
=============================================================================
