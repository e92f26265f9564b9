------------------------------ MODULE SoundLanes ------------------------------
(***************************************************************************)
(* One track of the preview's sound: the walk of playback/feeder.rs over   *)
(* the track's segments, the lanes it takes the sound from - the one       *)
(* playing, the one prepared and the one with a changed chain - and the    *)
(* decoders that fill their rings (audio/decoder.rs, audio/reverse.rs).    *)
(*                                                                         *)
(* A tick is one output frame, at speed 1.  A sample is the timeline       *)
(* position whose sound it is, or Silence.  The chain of a clip is a       *)
(* number, one higher with every change.                                   *)
(***************************************************************************)
EXTENDS Integers, Sequences, FiniteSetsExt

CONSTANTS
    Segments,       \* [from, to, sounds, motion, stream, has]: where it plays, whether
                    \* it has sound, and from and to where its stream has any
    SoundRingHolds, \* LANE_SECONDS
    SoundChunk,     \* CHUNK
    ReverseChunk,   \* CHUNK_SECONDS
    Prefetch,       \* PREFETCH
    RetuneAhead, RetunePatience,
    Loops,          \* the loops that may be set, <<start, end>>
    MaxChain        \* bound: how often one clip's chain changes

SoundEnd == Segments[Len(Segments)].to

ASSUME SoundAssumption ==
    /\ Segments \in Seq([from : Nat, to : Nat, sounds : BOOLEAN, motion : {"forward", "reverse", "hold"},
                         stream : Int, has : Int])
    /\ Segments # <<>> /\ Segments[1].from = 0
    /\ \A i \in DOMAIN Segments : Segments[i].from < Segments[i].to
    /\ \A i \in 1..(Len(Segments) - 1) : Segments[i].to = Segments[i + 1].from
    /\ {SoundRingHolds, SoundChunk, ReverseChunk, Prefetch, RetuneAhead, RetunePatience} \subseteq Nat \ {0}
    /\ Loops \subseteq Nat \X Nat
    /\ \A loop \in Loops : loop[1] < loop[2] /\ loop[2] <= SoundEnd
    /\ MaxChain \in Nat

VARIABLES
    at,         \* Walk::position
    loops,      \* the loop range, or NoRange
    chains,     \* the chains of the plan the walk has
    slot,       \* the changed chains handed over, or NoChange
    current, upcoming, retuned,     \* the track's lanes
    heard       \* of the chunk written last: its segment and chain, and how right it is

soundVars == <<at, loops, chains, slot, current, upcoming, retuned, heard>>

NoRange == <<>>
NoChange == <<>>
NoLane == [segment |-> 0]
Unheard ==
    [segment |-> 0, chain |-> 0, ahead |-> {}, silent |-> FALSE, shifted |-> FALSE, starved |-> FALSE,
     astray |-> FALSE]
Silence == -1

SegmentAt(t) == CHOOSE i \in DOMAIN Segments : Segments[i].from <= t /\ t < Segments[i].to
WalkEnd == IF loops = NoRange THEN SoundEnd ELSE loops[2]

-----------------------------------------------------------------------------
(* The decoders and their rings                                              *)

\* AudioDecoder::start, ReverseDecoder::start; `hand` is what is left to push,
\* `next` the position decoded next.  `shifted`, `starved` and `astray` are
\* history: it took over late, it came short before, it plays from elsewhere
\* than where it starts.
SoundLane(i, t, chain) ==
    [segment |-> i, starts |-> t, chain |-> chain, ring |-> <<>>, hand |-> <<>>, next |-> t,
     finished |-> FALSE, shifted |-> FALSE, starved |-> FALSE, astray |-> FALSE]

StartLane(i, t, chosen) == IF Segments[i].sounds THEN SoundLane(i, t, chosen[i]) ELSE NoLane

\* lead_in_frames: silence up to where the stream starts.
Decoded(lane) == lane.next

Sounding(i, t) == IF Segments[i].stream <= t /\ t < Segments[i].has THEN t ELSE Silence

\* samples.resize
Resized(decoded, frames) ==
    [k \in 1..frames |-> IF k <= Len(decoded) THEN decoded[k] ELSE Silence]

HasPlace(lane) == Len(lane.ring) < SoundRingHolds

\* on_chunk of a forward decode; a chunk of a reversed one, which comes out a
\* frame short or long of the stretch it covers; the end of either.
DecodeSound(lane, made) ==
    /\ lane # NoLane /\ ~lane.finished /\ lane.hand = <<>>
    /\ LET s == Segments[lane.segment]
           p == Decoded(lane)
           q == Min({lane.next + ReverseChunk, s.to})
       IN \/ /\ s.motion = "forward" /\ p < s.has /\ HasPlace(lane)
             /\ made = [lane EXCEPT !.ring = Append(@, Sounding(lane.segment, p)), !.next = p + 1]
          \/ /\ s.motion = "reverse" /\ p < s.to
             /\ \E off \in {-1, 0, 1} :
                   made = [lane EXCEPT !.next = q,
                             !.hand = Resized([k \in 1..(q - p + off) |-> Sounding(lane.segment, p + k - 1)], q - p)]
          \/ made = [lane EXCEPT !.finished = TRUE]

\* SampleRing::push
PushSound(lane, made) ==
    /\ lane # NoLane /\ ~lane.finished /\ lane.hand # <<>> /\ HasPlace(lane)
    /\ made = [lane EXCEPT !.ring = Append(@, Head(lane.hand)), !.hand = Tail(@)]

Makes(lane, made) == DecodeSound(lane, made) \/ PushSound(lane, made)

Decoders ==
    /\ \/ Makes(current, current') /\ UNCHANGED <<upcoming, retuned>>
       \/ Makes(upcoming, upcoming') /\ UNCHANGED <<current, retuned>>
       \/ Makes(retuned, retuned') /\ UNCHANGED <<current, upcoming>>
    /\ UNCHANGED <<at, loops, chains, slot, heard>>

\* SampleRing::discard
Discarded(lane, count) == [lane EXCEPT !.ring = SubSeq(@, count + 1, Len(@)), !.shifted = TRUE]

\* SampleRing::take into a chunk of silence
TakenSound(lane, count) ==
    [k \in 1..count |-> IF lane # NoLane /\ k <= Len(lane.ring) THEN lane.ring[k] ELSE Silence]
LeftAfter(lane, count) ==
    IF lane = NoLane THEN lane
    ELSE [lane EXCEPT !.ring = SubSeq(@, count + 1, Len(@)), !.starved = @ \/ Len(lane.ring) < count]

\* How far ahead of the position each sound taken is, and whether one is
\* missing where the stream has it.
Ahead(lane, t, count) ==
    {TakenSound(lane, count)[k] - (t + k - 1) : k \in {j \in 1..count : TakenSound(lane, count)[j] # Silence}}
Missed(lane, t, count) ==
    \E k \in 1..count : TakenSound(lane, count)[k] = Silence /\ Sounding(lane.segment, t + k - 1) # Silence

-----------------------------------------------------------------------------
(* The walk                                                                  *)

\* frames_covering: at least one frame, even of no time.
FramesCovering(span) == Max({span, 1})

\* next_boundary: the next edge of a segment
NextEdge(t) == Min({Segments[i].to : i \in {j \in DOMAIN Segments : Segments[j].to > t}})

\* retune: the change in the slot, taken while no lane is on its way in.
TakesChange == slot # NoChange /\ retuned = NoLane
Restarts(t) ==
    /\ current # NoLane /\ slot[current.segment] # chains[current.segment]
    /\ t + RetuneAhead < Segments[current.segment].to
Retuned(t) == IF Restarts(t) THEN StartLane(current.segment, t + RetuneAhead, slot) ELSE NoLane

\* Mutant: what was prepared with the old chain stays.
KeepsPrepared(changed) == upcoming

\* retune: what was prepared is dropped, and prepared again.
UpcomingAfter(changed) == IF changed THEN NoLane ELSE upcoming

\* Mutant: what a late lane made of a stretch already written is played.
KeepsAll(lane, t) == 0

\* take_retuned
Behind(lane, t) == FramesCovering(t - lane.starts)

\* wrap
Prepared(start) == upcoming # NoLane /\ upcoming.starts = start

\* What plays in the segment: the lane there is, the one prepared in it, which
\* may be for the start of the loop, or a new one.
PlaysIn(i, t, was, next, chosen) ==
    IF was.segment = i THEN was
    ELSE IF next.segment = i THEN [next EXCEPT !.astray = next.starts # t]
    ELSE StartLane(i, t, chosen)

\* take_retuned and the replacement of a lane that never became ready.
TakesOver(lane, i, t, count) ==
    /\ lane.segment = i /\ t >= lane.starts
    /\ Len(lane.ring) >= Behind(lane, t) + count
StillComing(lane, i, t, chosen) ==
    IF lane.segment # i THEN NoLane
    ELSE IF t - lane.starts > RetunePatience THEN StartLane(i, t + RetuneAhead, chosen)
    ELSE lane

\* prefetch: the loop's start, or the next segment.
Prefetched(t, chosen) ==
    LET end == WalkEnd
        later == {Segments[j].to : j \in DOMAIN Segments} \cup {end}
        boundary == Min({e \in later : e > t} \cup {end})
    IN IF loops # NoRange /\ end - t < Prefetch /\ boundary >= end
       THEN StartLane(SegmentAt(loops[1]), loops[1], chosen)
       ELSE IF boundary - t < Prefetch /\ boundary < end
       THEN StartLane(SegmentAt(boundary), boundary, chosen)
       ELSE NoLane

\* A turn of the loop of run: the change taken, a chunk written up to the next
\* boundary, and what plays next prepared.
WriteChunk ==
    LET t == at
        i == SegmentAt(t)
        changed == TakesChange
        chosen == IF changed THEN slot ELSE chains
        coming == IF changed THEN Retuned(t) ELSE retuned
        next == UpcomingAfter(changed)
        cuts == {NextEdge(t), WalkEnd} \cup (IF coming # NoLane THEN {coming.starts} ELSE {})
        count == Min({SoundChunk, FramesCovering(Min({c \in cuts : c > t}) - t)})
        playing == PlaysIn(i, t, current, next, chosen)
        takes == coming # NoLane /\ TakesOver(coming, i, t, count)
        lane == IF ~Segments[i].sounds THEN NoLane
                ELSE IF takes THEN Discarded(coming, Behind(coming, t)) ELSE playing
        wrote == t + count
        kept == IF Segments[i].sounds /\ current.segment # i THEN NoLane ELSE next
    IN /\ t < WalkEnd
       /\ at' = wrote
       /\ chains' = chosen
       /\ slot' = IF changed THEN NoChange ELSE slot
       /\ current' = LeftAfter(lane, count)
       /\ retuned' = IF ~Segments[i].sounds THEN coming
                     ELSE IF coming = NoLane \/ takes THEN NoLane
                     ELSE StillComing(coming, i, t, chosen)
       /\ upcoming' = IF kept # NoLane THEN kept ELSE Prefetched(wrote, chosen)
       /\ heard' = [segment |-> lane.segment, chain |-> IF lane = NoLane THEN 0 ELSE lane.chain,
                    ahead |-> IF lane = NoLane THEN {} ELSE Ahead(lane, t, count),
                    silent |-> lane # NoLane /\ Missed(lane, t, count),
                    shifted |-> lane # NoLane /\ lane.shifted,
                    starved |-> lane # NoLane /\ (lane.starved \/ Len(lane.ring) < count),
                    astray |-> lane # NoLane /\ lane.astray]
       /\ UNCHANGED loops

\* wrap
Wrap ==
    /\ loops # NoRange /\ at >= loops[2]
    /\ at' = loops[1]
    /\ current' = IF Prepared(loops[1]) THEN upcoming
                  ELSE StartLane(SegmentAt(loops[1]), loops[1], chains)
    /\ upcoming' = NoLane
    /\ UNCHANGED <<loops, chains, slot, retuned, heard>>

\* The monitor changes a clip's chain (Feeder::retune): only the newest waits.
ChangeChain ==
    /\ \E i \in DOMAIN Segments :
          LET newest == IF slot = NoChange THEN chains ELSE slot
          IN newest[i] < MaxChain /\ slot' = [newest EXCEPT ![i] = @ + 1]
    /\ UNCHANGED <<at, loops, chains, current, upcoming, retuned, heard>>

\* The loop is set, or lifted.
SetRange ==
    /\ loops' \in Loops \cup {NoRange} /\ loops' # loops
    /\ UNCHANGED <<at, chains, slot, current, upcoming, retuned, heard>>

SoundInit ==
    /\ at = 0 /\ loops \in Loops \cup {NoRange} /\ slot = NoChange
    /\ chains = [i \in DOMAIN Segments |-> 0]
    /\ current = StartLane(1, 0, chains) /\ upcoming = NoLane /\ retuned = NoLane
    /\ heard = Unheard

SoundNext == Decoders \/ WriteChunk \/ Wrap \/ ChangeChain \/ SetRange

SoundSpec == SoundInit /\ [][SoundNext]_soundVars

-----------------------------------------------------------------------------
(* What it promises                                                          *)

\* What is written at a position is the sound of that position, and silence
\* only where the stream has none: across segments, around a loop and over a
\* change of chain, however the decoders run.  Only a decoder that came short
\* shifts the rest of its segment, one that took over may be a frame ahead,
\* and a reversed chunk may lack a frame at its end; and a decoder prepared for
\* the start of the loop plays astray if its clip is entered before the loop.
SoundInTime ==
    ~heard.starved /\ ~heard.astray =>
        /\ heard.ahead \subseteq (IF heard.shifted THEN {0, 1} ELSE {0})
        /\ heard.silent => heard.shifted \/ Segments[heard.segment].motion = "reverse"

\* A clip's chain is never heard as it was before one heard already.
ChainForward ==
    [][heard'.segment = heard.segment => heard'.chain >= heard.chain]_soundVars
=============================================================================
