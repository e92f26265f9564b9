---------------------------- MODULE PlaybackProofs ----------------------------
(***************************************************************************)
(* What the preview shows and plays, for any clip, any sizes of the rings  *)
(* and any timing of the decoders.                                         *)
(*                                                                         *)
(* The pictures (VideoLane): of a clip that plays forwards, what was       *)
(* shown, what the ring holds, what the decoder has in hand and what it    *)
(* decodes next follow each other, and a decoder that was started again    *)
(* begins after all that was shown.  Of a reversed clip, no picture still  *)
(* awaited is missing from the ring before the last one in it, and what a  *)
(* chunk has left is handed over newest first.                             *)
(*                                                                         *)
(* The sound (SoundLanes): a lane that came short nowhere and was entered  *)
(* where it starts holds the sound of the positions from the walk's on,    *)
(* without a gap, up to where it decodes next; one that took over late is  *)
(* at most a frame ahead.  The chain of a lane prepared is the plan's.     *)
(***************************************************************************)
EXTENDS VideoLane, SoundLanes, Extremes, SequenceTheorems

-----------------------------------------------------------------------------
(* The pictures of the source                                                *)

LEMMA LaneConstants ==
    /\ Pictures \subseteq Nat /\ IsFiniteSet(Pictures) /\ Keyframes \subseteq Pictures /\ Missing \notin Pictures
    /\ ClipIn \in Nat /\ ClipOut \in Nat /\ ClipIn < ClipOut
    /\ RingHolds \in Nat \ {0} /\ ChunkMax \in Nat \ {0} /\ ResyncBehind \in Nat \ {0} /\ ResyncLead \in Nat
<1>1. {ClipIn, ClipOut} \subseteq Nat /\ {RingHolds, ChunkMax, ResyncBehind} \subseteq Nat \ {0}
  BY LaneAssumption
<1>2. QED
  BY <1>1, LaneAssumption DEF Missing

LEMMA TicksAreInts == \A p \in Pictures : p \in Int /\ p >= 0
BY LaneConstants

LEMMA Among ==
    ASSUME NEW s, s \subseteq Pictures
    PROVE  s \subseteq Int /\ IsFiniteSet(s) /\ Cardinality(s) \in Nat
<1>1. \A p \in s : p \in Int
  BY LaneConstants
<1>2. QED
  BY <1>1, LaneConstants, FS_Subset, FS_CardinalityType

LEMMA PictureAtIs ==
    ASSUME NEW t \in Int
    PROVE  /\ PictureAt(t) = Missing => \A p \in Pictures : p > t
           /\ PictureAt(t) # Missing => PictureAt(t) \in Pictures /\ PictureAt(t) <= t
           /\ \A p \in Pictures : p <= t => p <= PictureAt(t) /\ PictureAt(t) # Missing
<1> DEFINE had == {p \in Pictures : p <= t}
<1>1. had \subseteq Int /\ IsFiniteSet(had)
  <2>1. had \subseteq Pictures
    OBVIOUS
  <2> HIDE DEF had
  <2>2. QED
    BY <2>1, Among
<1>2. CASE had = {}
  <2>1. PictureAt(t) = Missing
    BY <1>2 DEF PictureAt
  <2>2. \A p \in Pictures : p > t
    BY <1>2, LaneConstants
  <2>3. QED
    BY <1>2, <2>1, <2>2
<1>3. CASE had # {}
  <2>1. PictureAt(t) = Max(had)
    BY <1>3 DEF PictureAt
  <2>2. PictureAt(t) \in had /\ \A p \in had : PictureAt(t) >= p
    <3> HIDE DEF had
    <3>1. QED
      BY <1>1, <1>3, <2>1, MaxIsIn
  <2>3. PictureAt(t) \in Pictures /\ PictureAt(t) <= t /\ PictureAt(t) \in Int /\ PictureAt(t) # Missing
    <3>1. PictureAt(t) \in Pictures /\ PictureAt(t) <= t
      BY <2>2
    <3> HIDE DEF had
    <3>2. QED
      BY <3>1, TicksAreInts, LaneConstants
  <2>4. \A p \in Pictures : p <= t => p <= PictureAt(t)
    BY <2>2, <2>3, LaneConstants
  <2>5. QED
    BY <2>3, <2>4
<1>4. QED
  BY <1>2, <1>3

LEMMA PictureAfterIs ==
    ASSUME NEW t \in Int
    PROVE  PictureAfter(t) = Missing \/ (PictureAfter(t) \in Pictures /\ PictureAfter(t) > t)
<1> DEFINE had == {p \in Pictures : p > t}
<1>1. had \subseteq Int /\ IsFiniteSet(had)
  <2>1. had \subseteq Pictures
    OBVIOUS
  <2> HIDE DEF had
  <2>2. QED
    BY <2>1, Among
<1>2. CASE had # {}
  <2>1. PictureAfter(t) = Min(had)
    BY <1>2 DEF PictureAfter
  <2>2. PictureAfter(t) \in had
    <3> HIDE DEF had
    <3>1. QED
      BY <1>1, <1>2, <2>1, MinIsIn
  <2>3. QED
    BY <2>2
<1>3. QED
  BY <1>2 DEF PictureAfter

LEMMA FloorIs == Floor \in Pictures /\ Floor \in Nat
<1>1. PICK p \in Pictures : p < ClipOut
  BY LaneAssumption
<1>2. ClipIn \in Int
  BY LaneConstants
<1>3. CASE PictureAt(ClipIn) # Missing
  BY <1>2, <1>3, PictureAtIs, LaneConstants DEF Floor
<1>4. CASE PictureAt(ClipIn) = Missing
  <2> DEFINE had == {q \in Pictures : q > ClipIn}
  <2>1. p \in had
    BY <1>2, <1>4, PictureAtIs
  <2>2. PictureAfter(ClipIn) = Min(had)
    BY <2>1 DEF PictureAfter
  <2>3. had \subseteq Int /\ IsFiniteSet(had) /\ had # {}
    <3>1. had \subseteq Pictures
      OBVIOUS
    <3> HIDE DEF had
    <3>2. QED
      BY <2>1, <3>1, Among
  <2>4. Min(had) \in had
    <3> HIDE DEF had
    <3>1. QED
      BY <2>3, MinIsIn
  <2>5. QED
    BY <1>4, <2>2, <2>4, LaneConstants DEF Floor
<1>5. QED
  BY <1>3, <1>4

\* The picture on screen at a position of the clip.
Due(t) == Max({PictureAt(t), Floor})
LEMMA DueIs ==
    ASSUME NEW t \in Int
    PROVE  /\ Due(t) \in Pictures /\ Due(t) >= Floor
           /\ \A p \in Pictures : p <= t => p <= Due(t)
           /\ \A p \in Pictures : p >= Floor /\ p <= t => Due(t) <= t
<1>1. Floor \in Pictures /\ Floor \in Int /\ Floor >= 0
  BY FloorIs
<1>2. PictureAt(t) \in Int
  <2>1. CASE PictureAt(t) = Missing
    BY <2>1 DEF Missing
  <2>2. CASE PictureAt(t) # Missing
    <3>1. PictureAt(t) \in Pictures
      BY <2>2, PictureAtIs
    <3>2. QED
      BY <3>1, TicksAreInts
  <2>3. QED
    BY <2>1, <2>2
<1>3. Due(t) = IF PictureAt(t) >= Floor THEN PictureAt(t) ELSE Floor
  BY <1>1, <1>2, GreaterOf DEF Due
<1>4. PictureAt(t) >= Floor => PictureAt(t) # Missing
  BY <1>1 DEF Missing
<1>5. Due(t) \in Pictures /\ Due(t) >= Floor
  BY <1>1, <1>2, <1>3, <1>4, PictureAtIs
<1>6. \A p \in Pictures : p <= t => p <= Due(t)
  BY <1>1, <1>2, <1>3, PictureAtIs, LaneConstants
<1>7. ASSUME NEW p \in Pictures, p >= Floor, p <= t PROVE Due(t) <= t
  <2>1. p <= PictureAt(t) /\ PictureAt(t) # Missing /\ p \in Int
    BY <1>7, PictureAtIs, LaneConstants
  <2>2. PictureAt(t) <= t
    BY <2>1, PictureAtIs
  <2>3. QED
    BY <1>1, <1>2, <1>3, <1>7, <2>1, <2>2
<1>8. QED
  BY <1>5, <1>6, <1>7

-----------------------------------------------------------------------------
(* The chunks of a reversed clip                                             *)

Small(s) == s \subseteq Pictures /\ IsFiniteSet(s) /\ Cardinality(s) \in Nat /\ Cardinality(s) <= ChunkMax

\* The pictures of a reach: all but the first come after the first, and are
\* fewer than a chunk.
LEMMA ReachIs ==
    ASSUME NEW last \in Int
    PROVE  /\ Small(Reach(last))
           /\ \A p \in Reach(last) : \A q \in Pictures : p <= q /\ q <= last => q \in Reach(last)
           /\ \A p \in Reach(last) : Floor <= p /\ p <= last
           /\ last \in Pictures /\ last >= Floor => last \in Reach(last)
<1> DEFINE After(p) == {q \in Pictures : p < q /\ q <= last}
<1>1. \A p : IsFiniteSet(After(p)) /\ Cardinality(After(p)) \in Nat
  <2>1. \A p : After(p) \subseteq Pictures
    OBVIOUS
  <2> HIDE DEF After
  <2>2. QED
    BY <2>1, Among
<1>2. Reach(last) = {p \in Pictures : Floor <= p /\ p <= last /\ Cardinality(After(p)) < ChunkMax}
  BY DEF Reach
<1>3. Reach(last) \subseteq Pictures /\ IsFiniteSet(Reach(last)) /\ Reach(last) \subseteq Int
  <2>1. Reach(last) \subseteq Pictures
    BY <1>2
  <2>2. QED
    BY <2>1, Among
<1>4. Cardinality(Reach(last)) \in Nat /\ Cardinality(Reach(last)) <= ChunkMax
  <2>1. CASE Reach(last) = {}
    BY <2>1, FS_EmptySet, LaneConstants
  <2>2. CASE Reach(last) # {}
    <3> DEFINE first == Min(Reach(last))
    <3>1. first \in Reach(last) /\ \A p \in Reach(last) : first <= p
      BY <1>3, <2>2, MinIsIn
    <3> HIDE DEF first
    <3>2. Reach(last) \ {first} \subseteq After(first)
      <4>1. \A p \in Reach(last) : p \in Pictures /\ p <= last /\ p \in Int
        BY <1>2, <1>3
      <4>2. \A p \in Reach(last) : p # first => first < p
        BY <1>3, <3>1
      <4>3. QED
        BY <4>1, <4>2
    <3>3. Cardinality(After(first)) < ChunkMax
      BY <1>2, <3>1
    <3>4. Cardinality(Reach(last) \ {first}) <= Cardinality(After(first))
          /\ Cardinality(Reach(last) \ {first}) \in Nat
      <4> HIDE DEF After
      <4>1. IsFiniteSet(Reach(last) \ {first})
        BY <1>3, FS_Subset
      <4>2. QED
        BY <1>1, <3>2, <4>1, FS_Subset, FS_CardinalityType
    <3>5. Cardinality(Reach(last) \ {first}) = Cardinality(Reach(last)) - 1
      BY <1>3, <3>1, FS_RemoveElement
    <3>6. Cardinality(Reach(last)) \in Nat /\ Cardinality(After(first)) \in Nat
      BY <1>1, <1>3, FS_CardinalityType
    <3> HIDE DEF After
    <3>7. QED
      BY <3>3, <3>4, <3>5, <3>6, LaneConstants
  <2>3. QED
    BY <2>1, <2>2
<1>5. ASSUME NEW p \in Reach(last), NEW q \in Pictures, p <= q, q <= last PROVE q \in Reach(last)
  <2>1. p \in Int /\ q \in Int /\ Floor \in Int /\ Floor <= p /\ Cardinality(After(p)) < ChunkMax
    <3>1. p \in Pictures /\ Floor <= p /\ Cardinality(After(p)) < ChunkMax
      BY <1>2
    <3> HIDE DEF After
    <3>2. QED
      BY <3>1, TicksAreInts, FloorIs
  <2>2. After(q) \subseteq After(p)
    <3>1. \A r \in Pictures : q < r => p < r
      BY <1>5, <2>1, LaneConstants
    <3>2. QED
      BY <3>1
  <2>3. Cardinality(After(q)) <= Cardinality(After(p))
    <3> HIDE DEF After
    <3>1. QED
      BY <1>1, <2>2, FS_Subset
  <2>4. Cardinality(After(q)) < ChunkMax
    <3> HIDE DEF After
    <3>1. QED
      BY <1>1, <2>1, <2>3, LaneConstants
  <2>5. Floor <= q
    BY <1>5, <2>1
  <2>6. QED
    BY <1>2, <1>5, <2>4, <2>5
<1>6. ASSUME last \in Pictures, last >= Floor PROVE last \in Reach(last)
  <2>1. After(last) = {}
    <3>1. \A q \in Pictures : q \in Int /\ ~(last < q /\ q <= last)
      BY LaneConstants
    <3>2. QED
      BY <3>1
  <2>2. Cardinality(After(last)) < ChunkMax
    BY <2>1, FS_EmptySet, LaneConstants
  <2>3. Floor <= last
    BY <1>6, FloorIs
  <2>4. QED
    BY <1>2, <1>6, <2>2, <2>3
<1>7. QED
  BY <1>2, <1>3, <1>4, <1>5, <1>6 DEF Small

\* A chunk holds every picture from its first to `last`.
LEMMA ChunkToIs ==
    ASSUME NEW last \in Pictures, last >= Floor
    PROVE  LET c == ChunkTo(last)
           IN /\ c.state = "decoding" /\ DOMAIN c = {"frames", "state"}
              /\ Small(c.frames) /\ c.frames # {}
              /\ \A p \in c.frames : Floor <= p /\ p <= last
              /\ \A q \in Pictures : q <= last => q \in c.frames \/ \A p \in c.frames : q < p
<1> DEFINE keys  == Reach(last) \cap Keyframes
           from  == IF keys # {} THEN keys ELSE Reach(last)
           first == Min(from)
           held  == {p \in Reach(last) : p >= first}
<1>1. last \in Int
  BY LaneConstants
<1>2. /\ Small(Reach(last)) /\ last \in Reach(last)
      /\ \A p \in Reach(last) : \A q \in Pictures : p <= q /\ q <= last => q \in Reach(last)
      /\ \A p \in Reach(last) : Floor <= p /\ p <= last
  BY <1>1, ReachIs
<1>3. from \subseteq Reach(last) /\ from # {} /\ from \subseteq Int /\ IsFiniteSet(from)
  <2>1. from \subseteq Reach(last) /\ from # {}
    BY <1>2
  <2>2. from \subseteq Pictures
    BY <1>2, <2>1 DEF Small
  <2>3. QED
    <3> HIDE DEF from
    <3>1. QED
      BY <2>1, <2>2, Among
<1>4. first \in Reach(last) /\ first \in Int
  <2>1. first \in from
    <3> HIDE DEF from
    <3>1. QED
      BY <1>3, MinIsIn
  <2> HIDE DEF first, from
  <2>2. QED
    BY <1>3, <2>1
<1>5. ChunkTo(last) = [frames |-> held, state |-> "decoding"]
  BY DEF ChunkTo
<1> HIDE DEF first
<1>6. held \subseteq Reach(last) /\ first \in held
  BY <1>4
<1>7. Small(held)
  <2>1. IsFiniteSet(held) /\ Cardinality(held) <= Cardinality(Reach(last)) /\ Cardinality(held) \in Nat
    <3> HIDE DEF held
    <3>1. QED
      BY <1>2, <1>6, FS_Subset, FS_CardinalityType DEF Small
  <2>2. QED
    BY <1>2, <1>6, <2>1, LaneConstants DEF Small
<1>8. ASSUME NEW q \in Pictures, q <= last PROVE q \in held \/ \A p \in held : q < p
  <2>1. q \in Int
    BY LaneConstants
  <2>2. CASE q >= first
    <3>1. q \in Reach(last)
      BY <1>2, <1>4, <1>8, <2>1, <2>2
    <3>2. QED
      BY <2>2, <3>1
  <2>3. CASE q < first
    <3>1. \A p \in held : p \in Pictures /\ p >= first
      BY <1>2 DEF Small
    <3>3. \A p \in held : p \in Int
      <4> HIDE DEF held
      <4>1. QED
        BY <3>1, TicksAreInts
    <3>2. QED
      BY <1>4, <2>1, <2>3, <3>1, <3>3
  <2>4. QED
    BY <1>4, <2>1, <2>2, <2>3
<1> HIDE DEF held
<1>9. QED
  BY <1>2, <1>5, <1>6, <1>7, <1>8

-----------------------------------------------------------------------------
(* The inductive invariant                                                   *)

Ticks == Pictures \cup {Missing}

Chunk(c) ==
    c = NoChunk \/ /\ DOMAIN c = {"frames", "state"} /\ c.state \in {"decoding", "finished", "failed"}
                   /\ Small(c.frames) /\ c.frames # {} /\ \A p \in c.frames : Floor <= p

\* What is in the ring came from the decoder there is, and fits.
RingInv ==
    /\ DOMAIN ring = {"frames", "finished", "closed", "taken", "asked"}
    /\ IsFiniteSet(ring.frames) /\ Cardinality(ring.frames) <= RingHolds
    /\ \A f \in ring.frames : f.tick \in Pictures /\ f.run = run
    /\ ring.finished => decoder.end # "none"
    /\ ring.taken \in Ticks /\ ring.asked \in Int

LaneTyped ==
    /\ direction \in {"forward", "reverse"} /\ now \in ClipIn..(ClipOut - 1)
    /\ shown \in Ticks /\ started \in Pictures

\* Forwards, ticks grow from what was shown over the ring and what was pushed
\* last to what is handed over and what comes next; a decoder started again
\* starts after all that was shown.
ForwardInv == direction = "forward" =>
    /\ DOMAIN decoder = {"kind", "next", "hand", "line", "cancel", "process", "flow", "head", "end"}
    /\ decoder.kind \in {"forward", "none"} /\ decoder.end \in {"none", "stopped", "failed", "finished"}
    /\ decoder.next \in Ticks /\ decoder.hand \in Ticks /\ decoder.head \in Ticks
    /\ shown <= now
    /\ lane = "resyncing" => shown < started
    /\ lane = "live" =>
        /\ \A f \in ring.frames : started <= f.tick /\ shown < f.tick /\ f.tick <= decoder.head
        /\ decoder.hand # Missing =>
            started <= decoder.hand /\ shown < decoder.hand /\ decoder.head < decoder.hand
        /\ decoder.next # Missing =>
            /\ started <= decoder.next /\ shown < decoder.next /\ decoder.head < decoder.next
            /\ decoder.hand < decoder.next
        /\ decoder.head # Missing => shown <= decoder.head

\* Backwards: the pictures that may still be taken, ...
Awaited(q) == Floor <= q /\ q <= now /\ (ring.taken = Missing \/ q < ring.taken)
InRing(q) == \E f \in ring.frames : f.tick = q

\* ... those of the ring without a gap, ...
NoGap == \A f \in ring.frames : \A q \in Pictures : f.tick <= q /\ Awaited(q) => InRing(q)

\* ... and the rest handed over from the newest to the oldest.
Under(frames) == \A f \in ring.frames : \A p \in frames : p < f.tick
Reaches(q, chunk) == chunk # NoChunk /\ (q \in chunk.frames \/ \A p \in chunk.frames : q < p)
Collecting ==
    /\ decoder.pending # NoChunk /\ Under(decoder.pending.frames)
    /\ \A q \in Pictures : Awaited(q) => InRing(q) \/ Reaches(q, decoder.pending)
Handing ==
    /\ Under(decoder.left) /\ Under(decoder.next.frames)
    /\ \A p \in decoder.left : \A r \in decoder.next.frames : r < p
    /\ \A q \in Pictures : Awaited(q) => InRing(q) \/ q \in decoder.left \/ Reaches(q, decoder.next)

ReverseInv == direction = "reverse" =>
    /\ DOMAIN decoder = {"kind", "pc", "pending", "left", "next", "cancel", "end"}
    /\ decoder.kind = "reverse" /\ decoder.pc \in {"collecting", "handing"}
    /\ decoder.end \in {"none", "stopped", "failed", "finished"}
    /\ Chunk(decoder.pending) /\ Chunk(decoder.next)
    /\ Small(decoder.left) /\ \A p \in decoder.left : Floor <= p
    /\ decoder.pc = "collecting" => decoder.left = {} /\ decoder.next = NoChunk
    /\ decoder.pc = "handing" => decoder.pending = NoChunk
    /\ lane # "resyncing"
    /\ ring.asked # Missing => now <= ring.asked
    /\ \A f \in ring.frames : Floor <= f.tick
    /\ lane = "live" => NoGap
    /\ lane = "live" /\ decoder.end = "none" =>
        IF decoder.pc = "collecting" THEN Collecting ELSE Handing

LaneInv == LaneTyped /\ RingInv /\ ForwardInv /\ ReverseInv

LEMMA TicksOrMissing ==
    Missing = -1 /\ \A t \in Ticks : t \in Int /\ (t # Missing => t \in Pictures /\ t >= 0)
<1>1. \A t \in Ticks : t \in Int /\ (t # Missing => t \in Pictures /\ t >= 0)
  BY TicksAreInts DEF Ticks, Missing
<1>2. QED
  BY <1>1 DEF Missing

LEMMA LaneStarts == LaneInit => LaneInv
<1> SUFFICES ASSUME LaneInit PROVE LaneInv
  OBVIOUS
<1>1. now \in ClipIn..(ClipOut - 1) /\ now \in Int
  BY LaneConstants DEF LaneInit
<1>2. Due(now) \in Pictures /\ Due(now) >= Floor /\ Floor \in Pictures
  BY <1>1, DueIs, FloorIs
<1>3. LaneTyped
  <2>1. started \in Pictures
    BY <1>2 DEF LaneInit, Due
  <2>2. QED
    BY <1>1, <2>1 DEF LaneInit, LaneTyped, Ticks
<1>4. RingInv
  <2>1. decoder.end = "none"
    BY DEF LaneInit, Forward, Backward
  <2>2. ring = EmptyRing
    BY DEF LaneInit
  <2>3. QED
    BY <2>1, <2>2, FS_EmptySet, LaneConstants DEF RingInv, EmptyRing, Ticks, Missing
<1>5. ForwardInv
  <2> SUFFICES ASSUME direction = "forward" PROVE ForwardInv
    BY DEF ForwardInv
  <2>1. decoder = Forward(Floor) /\ started = Floor /\ ring = EmptyRing /\ shown = Missing /\ lane = "live"
    BY DEF LaneInit
  <2>2. Floor \in Ticks /\ Missing \in Ticks /\ Floor >= 0
    BY <1>2, FloorIs DEF Ticks
  <2>3. shown <= now /\ shown < Floor
    BY <1>1, <2>1, FloorIs, LaneConstants DEF Missing
  <2>4. QED
    BY <1>2, <2>1, <2>2, <2>3, FloorIs DEF ForwardInv, Forward, EmptyRing, Missing
<1>6. ReverseInv
  <2> SUFFICES ASSUME direction = "reverse" PROVE ReverseInv
    BY DEF ReverseInv
  <2> DEFINE c == ChunkTo(Due(now))
  <2>1. decoder = Backward(now) /\ ring = EmptyRing /\ lane = "live"
    BY DEF LaneInit
  <2>2. /\ c.state = "decoding" /\ DOMAIN c = {"frames", "state"}
        /\ Small(c.frames) /\ c.frames # {}
        /\ \A p \in c.frames : Floor <= p /\ p <= Due(now)
        /\ \A q \in Pictures : q <= Due(now) => q \in c.frames \/ \A p \in c.frames : q < p
    BY <1>2, ChunkToIs
  <2>3. decoder.pending = c /\ decoder.left = {} /\ decoder.next = NoChunk /\ decoder.kind = "reverse"
        /\ decoder.pc = "collecting" /\ decoder.end = "none"
        /\ DOMAIN decoder = {"kind", "pc", "pending", "left", "next", "cancel", "end"}
    BY <2>1 DEF Backward, Due
  <2> HIDE DEF c
  <2>4. Chunk(c) /\ c # NoChunk /\ Chunk(NoChunk) /\ Small({})
    BY <2>2, FS_EmptySet, LaneConstants DEF Chunk, NoChunk, Small
  <2>5. \A q \in Pictures : q <= now => q <= Due(now)
    BY <1>1, DueIs
  <2>6. Collecting
    BY <2>1, <2>2, <2>3, <2>4, <2>5 DEF Collecting, Under, Awaited, Reaches, EmptyRing
  <2>7. QED
    BY <2>1, <2>3, <2>4, <2>6 DEF ReverseInv, NoGap, EmptyRing
<1>7. QED
  BY <1>3, <1>4, <1>5, <1>6 DEF LaneInv

\* A step of a forward decoder that only moves its frame along.
LEMMA DecoderMoves ==
    ASSUME LaneInv, direction = "forward", UNCHANGED <<direction, ring, run, started, lane, now, shown>>,
           DOMAIN decoder' = DOMAIN decoder, decoder'.kind = decoder.kind, decoder'.end = decoder.end,
           decoder'.head = decoder.head,
           \/ decoder'.next = decoder.next /\ decoder'.hand \in {decoder.hand, Missing}
           \/ /\ decoder.next # Missing
              /\ decoder'.hand = decoder.next /\ decoder'.next = PictureAfter(decoder.next)
    PROVE  LaneInv'
<1>1. LaneTyped'
  BY DEF LaneInv, LaneTyped
<1>2. RingInv'
  BY DEF LaneInv, RingInv
<1>3. ReverseInv'
  BY DEF ReverseInv
<1> SUFFICES ForwardInv'
  BY <1>1, <1>2, <1>3 DEF LaneInv
<1>4. ForwardInv
  BY DEF LaneInv
<1>5. /\ decoder.next \in Ticks /\ decoder.hand \in Ticks /\ decoder.head \in Ticks
      /\ shown \in Int /\ started \in Int /\ decoder.next \in Int /\ decoder.head \in Int
  BY <1>4, TicksOrMissing, TicksAreInts DEF ForwardInv, LaneInv, LaneTyped
<1>6. CASE decoder'.next = decoder.next /\ decoder'.hand \in {decoder.hand, Missing}
  BY <1>4, <1>5, <1>6, TicksOrMissing DEF ForwardInv, Ticks
<1>7. CASE /\ decoder.next # Missing
           /\ decoder'.hand = decoder.next /\ decoder'.next = PictureAfter(decoder.next)
  <2>1. decoder'.next = Missing \/ (decoder'.next \in Pictures /\ decoder'.next > decoder.next)
    BY <1>5, <1>7, PictureAfterIs
  <2>2. decoder'.next \in Ticks /\ decoder'.next \in Int
    BY <2>1, TicksAreInts, TicksOrMissing DEF Ticks
  <2>3. QED
    BY <1>4, <1>5, <1>7, <2>1, <2>2 DEF ForwardInv
<1>8. QED
  BY <1>6, <1>7

LEMMA OfItsDirection ==
    ASSUME LaneInv
    PROVE  /\ direction \in {"forward", "reverse"}
           /\ decoder.kind \in {"forward", "none"} => direction = "forward"
           /\ decoder.kind = "reverse" => direction = "reverse"
           /\ direction = "forward" =>
                DOMAIN decoder = {"kind", "next", "hand", "line", "cancel", "process", "flow", "head", "end"}
           /\ direction = "reverse" =>
                DOMAIN decoder = {"kind", "pc", "pending", "left", "next", "cancel", "end"}
BY DEF LaneInv, LaneTyped, ForwardInv, ReverseInv

LEMMA MovesKept ==
    ASSUME LaneInv, Report \/ AssembleFrame \/ MissStamp \/ Exit \/ Crash
    PROVE  LaneInv'
<1>1. direction = "forward" /\ UNCHANGED <<direction, ring, run, started, lane, now, shown>>
  BY OfItsDirection DEF Report, AssembleFrame, MissStamp, Exit, Crash, Decoding
<1>2. DOMAIN decoder = {"kind", "next", "hand", "line", "cancel", "process", "flow", "head", "end"}
  BY <1>1, OfItsDirection
<1>3. CASE AssembleFrame
  <2>1. /\ DOMAIN decoder' = DOMAIN decoder /\ decoder'.kind = decoder.kind /\ decoder'.end = decoder.end
        /\ decoder'.head = decoder.head /\ decoder.next # Missing
        /\ decoder'.hand = decoder.next /\ decoder'.next = PictureAfter(decoder.next)
    BY <1>2, <1>3 DEF AssembleFrame
  <2>2. QED
    BY <1>1, <2>1, DecoderMoves
<1>4. CASE Report \/ MissStamp \/ Exit \/ Crash
  <2>1. /\ DOMAIN decoder' = DOMAIN decoder /\ decoder'.kind = decoder.kind /\ decoder'.end = decoder.end
        /\ decoder'.head = decoder.head
        /\ decoder'.next = decoder.next /\ decoder'.hand \in {decoder.hand, Missing}
    BY <1>2, <1>4 DEF Report, MissStamp, Exit, Crash
  <2>2. QED
    BY <1>1, <2>1, DecoderMoves
<1>5. QED
  BY <1>3, <1>4

\* What a push does to the ring.
LEMMA PushFits ==
    ASSUME LaneInv, NEW tick \in Pictures, ring' = Pushed(ring, tick), run' = run, HasRoom(ring),
           ~ring.finished, decoder'.end = "none"
    PROVE  /\ RingInv'
           /\ ring'.frames = ring.frames \cup {[tick |-> tick, run |-> run]}
           /\ ring'.taken = ring.taken /\ ring'.asked = ring.asked
<1> DEFINE new == [tick |-> tick, run |-> run]
<1>1. RingInv
  BY DEF LaneInv
<1>2. /\ DOMAIN ring' = DOMAIN ring /\ ring'.frames = ring.frames \cup {new} /\ ring'.taken = ring.taken
      /\ ring'.asked = ring.asked /\ ring'.finished = ring.finished
  BY <1>1 DEF RingInv, Pushed
<1>3. new.tick \in Pictures /\ new.run = run
  OBVIOUS
<1> HIDE DEF new
<1>4. IsFiniteSet(ring.frames \cup {new}) /\ Cardinality(ring.frames \cup {new}) <= RingHolds
  <2>1. Cardinality(ring.frames \cup {new}) <= Cardinality(ring.frames) + 1
        /\ Cardinality(ring.frames) \in Nat /\ Cardinality(ring.frames \cup {new}) \in Nat
        /\ IsFiniteSet(ring.frames \cup {new})
    <3> DEFINE F == ring.frames
    <3>1. IsFiniteSet(F)
      BY <1>1 DEF RingInv
    <3> HIDE DEF F
    <3>2. IsFiniteSet(F \cup {new})
          /\ Cardinality(F \cup {new}) = IF new \in F THEN Cardinality(F) ELSE Cardinality(F) + 1
      BY <3>1, FS_AddElement
    <3>3. Cardinality(F) \in Nat /\ Cardinality(F \cup {new}) \in Nat
      BY <3>1, <3>2, FS_CardinalityType
    <3>4. Cardinality(F \cup {new}) <= Cardinality(F) + 1
      BY <3>2, <3>3
    <3>5. QED
      BY <3>2, <3>3, <3>4 DEF F
  <2>2. Cardinality(ring.frames) < RingHolds
    BY DEF HasRoom
  <2>3. QED
    BY <2>1, <2>2, LaneConstants
<1>5. RingInv'
  BY <1>1, <1>2, <1>3, <1>4 DEF RingInv
<1>6. QED
  BY <1>2, <1>5 DEF new

LEMMA PushKept == ASSUME LaneInv, PushFrame PROVE LaneInv'
<1>1. direction = "forward" /\ UNCHANGED <<direction, run, started, lane, now, shown>>
      /\ decoder.end = "none" /\ decoder.hand # Missing
  BY OfItsDirection DEF PushFrame, Decoding
<1>2. DOMAIN decoder = {"kind", "next", "hand", "line", "cancel", "process", "flow", "head", "end"}
  BY <1>1, OfItsDirection
<1>3. CASE Refuses(ring, decoder.cancel)
  <2>1. ring' = ring /\ decoder' = [decoder EXCEPT !.hand = Missing, !.flow = "stop"]
    BY <1>3 DEF PushFrame
  <2>2. /\ DOMAIN decoder' = DOMAIN decoder /\ decoder'.kind = decoder.kind /\ decoder'.end = decoder.end
        /\ decoder'.head = decoder.head /\ decoder'.next = decoder.next /\ decoder'.hand = Missing
    BY <1>2, <2>1
  <2>3. QED
    BY <1>1, <2>1, <2>2, DecoderMoves
<1>4. CASE ~Refuses(ring, decoder.cancel)
  <2>1. HasRoom(ring) /\ ring' = Pushed(ring, decoder.hand)
        /\ decoder' = [decoder EXCEPT !.hand = Missing, !.head = decoder.hand]
    BY <1>4 DEF PushFrame
  <2>2. /\ DOMAIN decoder' = DOMAIN decoder /\ decoder'.kind = decoder.kind /\ decoder'.end = decoder.end
        /\ decoder'.head = decoder.hand /\ decoder'.next = decoder.next /\ decoder'.hand = Missing
    BY <1>2, <2>1
  <2>3. ForwardInv /\ RingInv
    BY DEF LaneInv
  <2>4. decoder.hand \in Pictures
    BY <1>1, <2>3, TicksOrMissing DEF ForwardInv
  <2>5. ~ring.finished
    BY <1>1, <2>3 DEF RingInv
  <2>6. /\ RingInv'
        /\ ring'.frames = ring.frames \cup {[tick |-> decoder.hand, run |-> run]}
    BY <1>1, <2>1, <2>2, <2>4, <2>5, PushFits
  <2>7. LaneTyped' /\ ReverseInv'
    BY <1>1 DEF LaneInv, LaneTyped, ReverseInv
  <2>8. \A f \in ring'.frames : f \in ring.frames \/ f.tick = decoder.hand
    BY <2>6
  <2>9. /\ shown \in Int /\ decoder.next \in Int /\ decoder.head \in Int /\ decoder.hand \in Int
        /\ decoder.head \in Ticks /\ decoder.hand # Missing
        /\ \A f \in ring.frames : f.tick \in Int
    BY <1>1, <2>3, <2>4, TicksOrMissing, TicksAreInts DEF ForwardInv, LaneInv, LaneTyped, RingInv
  <2>10. ForwardInv'
    <3>1. \A f \in ring'.frames : lane = "live" => started <= f.tick /\ shown < f.tick /\ f.tick <= decoder.hand
      BY <1>1, <2>3, <2>8, <2>9 DEF ForwardInv
    <3>2. /\ decoder'.kind \in {"forward", "none"} /\ decoder'.end \in {"none", "stopped", "failed", "finished"}
          /\ decoder'.next \in Ticks /\ decoder'.hand \in Ticks /\ decoder'.head \in Ticks
          /\ shown <= now /\ (lane # "resyncing" \/ shown < started)
      BY <1>1, <2>2, <2>3 DEF ForwardInv, Ticks
    <3>3. lane = "live" /\ decoder.next # Missing =>
            /\ started <= decoder.next /\ shown < decoder.next /\ decoder.hand < decoder.next
            /\ Missing < decoder.next
      BY <1>1, <2>3, <2>4, <2>9, TicksOrMissing DEF ForwardInv
    <3>4. lane = "live" => shown <= decoder.hand
      BY <1>1, <2>3, <2>9 DEF ForwardInv
    <3>5. DOMAIN decoder' = {"kind", "next", "hand", "line", "cancel", "process", "flow", "head", "end"}
      BY <1>2, <2>2
    <3>6. QED
      BY <1>1, <2>2, <2>3, <3>1, <3>2, <3>3, <3>4, <3>5 DEF ForwardInv
  <2>11. QED
    BY <2>6, <2>7, <2>10 DEF LaneInv
<1>5. QED
  BY <1>3, <1>4

LEMMA WatchKept == ASSUME LaneInv, Watch PROVE LaneInv'
<1>1. direction = "forward" /\ UNCHANGED <<direction, run, started, lane, now, shown>> /\ ring' = Finished(ring)
  BY OfItsDirection DEF Watch, Decoding
<1>2. DOMAIN decoder = {"kind", "next", "hand", "line", "cancel", "process", "flow", "head", "end"}
  BY <1>1, OfItsDirection
<1>3. /\ DOMAIN decoder' = DOMAIN decoder /\ decoder'.kind = decoder.kind
      /\ decoder'.end \in {"stopped", "failed", "finished"}
      /\ decoder'.head = decoder.head /\ decoder'.next = decoder.next /\ decoder'.hand = decoder.hand
  BY <1>2 DEF Watch
<1>4. RingInv /\ ForwardInv
  BY DEF LaneInv
<1>5. /\ DOMAIN ring' = DOMAIN ring /\ ring'.frames = ring.frames /\ ring'.taken = ring.taken
      /\ ring'.asked = ring.asked
  BY <1>1, <1>4 DEF RingInv, Finished
<1>6. RingInv'
  BY <1>1, <1>3, <1>4, <1>5 DEF RingInv
<1>7. LaneTyped' /\ ReverseInv'
  BY <1>1 DEF LaneInv, LaneTyped, ReverseInv
<1>8. ForwardInv'
  BY <1>1, <1>3, <1>4, <1>5 DEF ForwardInv
<1>9. QED
  BY <1>6, <1>7, <1>8 DEF LaneInv

LEMMA ResyncKept == ASSUME LaneInv, Resync PROVE LaneInv'
<1> DEFINE ahead == {k \in Keyframes : k >= now + ResyncLead}
<1>1. direction = "forward" /\ UNCHANGED <<direction, ring, run, now, shown>> /\ lane = "live" /\ lane' = "resyncing"
      /\ decoder' = [decoder EXCEPT !.cancel = TRUE] /\ started' = Min(ahead) /\ ahead # {}
      /\ decoder.head # Missing /\ now - decoder.head >= ResyncBehind
  BY OfItsDirection DEF Resync
<1>2. DOMAIN decoder = {"kind", "next", "hand", "line", "cancel", "process", "flow", "head", "end"}
  BY <1>1, OfItsDirection
<1>3. /\ DOMAIN decoder' = DOMAIN decoder /\ decoder'.kind = decoder.kind /\ decoder'.end = decoder.end
      /\ decoder'.head = decoder.head /\ decoder'.next = decoder.next /\ decoder'.hand = decoder.hand
  BY <1>1, <1>2
<1>4. started' \in Pictures /\ started' >= now + ResyncLead
  <2>1. ahead \subseteq Pictures
    BY LaneConstants
  <2>2. started' \in ahead
    <3> HIDE DEF ahead
    <3>1. QED
      BY <1>1, <2>1, Among, MinIsIn
  <2>3. QED
    BY <2>1, <2>2
<1> HIDE DEF ahead
<1>5. LaneTyped /\ RingInv /\ ForwardInv
  BY DEF LaneInv
<1>6. now \in Int /\ shown \in Int /\ decoder.head \in Int /\ started' \in Int
  BY <1>1, <1>4, <1>5, TicksOrMissing, TicksAreInts, LaneConstants DEF LaneTyped, ForwardInv
<1>7. shown < started'
  <2>1. shown <= decoder.head
    BY <1>1, <1>5 DEF ForwardInv
  <2>2. QED
    BY <1>1, <1>4, <1>6, <2>1, LaneConstants
<1>8. LaneTyped'
  BY <1>1, <1>4, <1>5 DEF LaneTyped
<1>9. RingInv'
  BY <1>1, <1>3, <1>5 DEF RingInv
<1>10. ForwardInv'
  BY <1>1, <1>3, <1>5, <1>7 DEF ForwardInv
<1>11. ReverseInv'
  BY <1>1 DEF ReverseInv
<1>12. QED
  BY <1>8, <1>9, <1>10, <1>11 DEF LaneInv

LEMMA RestartKept == ASSUME LaneInv, Restart PROVE LaneInv'
<1>1. LaneTyped /\ RingInv /\ ForwardInv /\ ReverseInv
  BY DEF LaneInv
<1>2. direction = "forward" /\ lane = "resyncing" /\ lane' = "live" /\ UNCHANGED <<direction, started, now, shown>>
      /\ ring' = Reset(ring) /\ decoder' \in {Forward(started), NoDecoder}
  BY <1>1 DEF Restart, LaneTyped, ReverseInv
<1>3. /\ DOMAIN ring' = DOMAIN ring /\ ring'.frames = {} /\ ~ring'.finished /\ ring'.taken = Missing
      /\ ring'.asked = ring.asked
  BY <1>1, <1>2 DEF RingInv, Reset
<1>4. /\ DOMAIN decoder' = {"kind", "next", "hand", "line", "cancel", "process", "flow", "head", "end"}
      /\ decoder'.kind \in {"forward", "none"} /\ decoder'.end \in {"none", "failed"}
      /\ decoder'.next \in {started, Missing} /\ decoder'.hand = Missing /\ decoder'.head = Missing
  <2>1. CASE decoder' = Forward(started)
    BY <2>1 DEF Forward
  <2>2. CASE decoder' = NoDecoder
    <3> DEFINE none == Forward(Missing)
    <3>1. /\ DOMAIN none = {"kind", "next", "hand", "line", "cancel", "process", "flow", "head", "end"}
          /\ none.next = Missing /\ none.hand = Missing /\ none.head = Missing
      BY DEF Forward
    <3>2. decoder' = [none EXCEPT !.kind = "none", !.process = "gone", !.end = "failed"]
      BY <2>2 DEF NoDecoder
    <3> HIDE DEF none
    <3>3. QED
      BY <3>1, <3>2
  <2>3. QED
    BY <1>2, <2>1, <2>2
<1>5. started \in Pictures /\ started >= 0 /\ shown < started /\ started \in Ticks /\ Missing \in Ticks
  BY <1>1, <1>2, TicksAreInts DEF LaneTyped, ForwardInv, Ticks
<1>6. LaneTyped'
  BY <1>1, <1>2 DEF LaneTyped
<1>7. RingInv'
  BY <1>1, <1>3, <1>5, FS_EmptySet, LaneConstants DEF RingInv
<1>8. ForwardInv'
  BY <1>1, <1>2, <1>3, <1>4, <1>5, TicksAreInts DEF ForwardInv, Missing
<1>9. ReverseInv'
  BY <1>2 DEF ReverseInv
<1>10. QED
  BY <1>6, <1>7, <1>8, <1>9 DEF LaneInv

LEMMA RetireKept == ASSUME LaneInv, Retire PROVE LaneInv'
<1>1. LaneTyped /\ RingInv /\ ForwardInv /\ ReverseInv
  BY DEF LaneInv
<1>2. UNCHANGED <<direction, run, started, now, shown>> /\ lane' = "retiring" /\ ring' = Closed(ring)
      /\ decoder' = [decoder EXCEPT !.cancel = TRUE]
  BY DEF Retire
<1>3. /\ DOMAIN ring' = DOMAIN ring /\ ring'.frames = {} /\ ring'.finished = ring.finished
      /\ ring'.taken = ring.taken /\ ring'.asked = ring.asked
  BY <1>1, <1>2 DEF RingInv, Closed
<1>4. LaneTyped'
  BY <1>1, <1>2 DEF LaneTyped
<1>5. decoder'.end = decoder.end
  BY <1>2, OfItsDirection DEF LaneInv
<1>6. RingInv'
  BY <1>1, <1>2, <1>3, <1>5, FS_EmptySet, LaneConstants DEF RingInv
<1>7. ForwardInv'
  BY <1>1, <1>2, <1>3 DEF ForwardInv
<1>8. ReverseInv'
  BY <1>1, <1>2, <1>3 DEF ReverseInv
<1>9. QED
  BY <1>4, <1>6, <1>7, <1>8 DEF LaneInv

LEMMA RetiredKept == ASSUME LaneInv, Retired PROVE LaneInv'
<1>1. UNCHANGED <<direction, ring, decoder, run, started, now, shown>> /\ lane' = "retired"
  BY DEF Retired
<1>2. LaneTyped' /\ RingInv'
  BY <1>1 DEF LaneInv, LaneTyped, RingInv
<1>3. ForwardInv' /\ ReverseInv'
  BY <1>1 DEF LaneInv, ForwardInv, ReverseInv
<1>4. QED
  BY <1>2, <1>3 DEF LaneInv

LEMMA AdvanceKept == ASSUME LaneInv, Advance PROVE LaneInv'
<1>1. LaneTyped /\ RingInv /\ ForwardInv /\ ReverseInv
  BY DEF LaneInv
<1>2. UNCHANGED <<direction, ring, decoder, run, started, lane, shown>> /\ now' \in ClipIn..(ClipOut - 1)
      /\ (direction = "forward" => now' > now) /\ (direction # "forward" => now' < now)
  BY DEF Advance
<1>3. now \in Int /\ now' \in Int /\ shown \in Int /\ Floor \in Int /\ ring.asked \in Int
  BY <1>1, <1>2, LaneConstants, FloorIs, TicksOrMissing DEF LaneTyped, RingInv
<1>4. LaneTyped' /\ RingInv'
  BY <1>1, <1>2 DEF LaneTyped, RingInv
<1>5. ForwardInv'
  <2>1. direction = "forward" => shown <= now'
    BY <1>1, <1>2, <1>3 DEF ForwardInv
  <2>2. QED
    BY <1>1, <1>2, <2>1 DEF ForwardInv
<1>6. ReverseInv'
  <2> SUFFICES ASSUME direction = "reverse" PROVE ReverseInv'
    BY <1>2 DEF ReverseInv
  <2>1. now' < now
    BY <1>2
  <2>2. \A q \in Pictures : Awaited(q)' => Awaited(q)
    BY <1>2, <1>3, <2>1, TicksAreInts DEF Awaited
  <2>3. \A q : InRing(q)' <=> InRing(q)
    BY <1>2 DEF InRing
  <2>4. lane = "live" => NoGap'
    BY <1>1, <1>2, <2>2, <2>3 DEF ReverseInv, NoGap
  <2>5. Collecting => Collecting'
    BY <1>2, <2>2, <2>3 DEF Collecting, Under, Reaches
  <2>6. Handing => Handing'
    BY <1>2, <2>2, <2>3 DEF Handing, Under, Reaches
  <2>7. ring.asked # Missing => now' <= ring.asked
    BY <1>1, <1>3, <2>1 DEF ReverseInv
  <2>8. QED
    BY <1>1, <1>2, <2>4, <2>5, <2>6, <2>7 DEF ReverseInv
<1>7. QED
  BY <1>4, <1>5, <1>6 DEF LaneInv

-----------------------------------------------------------------------------
(* What is taken                                                             *)

\* The frames due, and which of them is taken.
LEMMA TakenIs ==
    ASSUME RingInv, NEW t \in Int, NEW backwards \in BOOLEAN
    PROVE  LET took == TakesDue(ring, t, backwards)
               due == {f \in ring.frames : f.tick <= t}
               takes == due # {} /\ (backwards => ring.taken = Missing \/ t < ring.taken)
           IN /\ takes => /\ took.tick \in Pictures /\ took.tick <= t
                          /\ \E f \in due : f.tick = took.tick
                          /\ \A f \in due : f.tick <= took.tick
              /\ ~takes => took.tick = Missing
              /\ DOMAIN took.ring = {"frames", "finished", "closed", "taken", "asked"}
              /\ took.ring.frames = IF backwards THEN {f \in due : f.tick # took.tick} ELSE ring.frames \ due
              /\ took.ring.taken = IF backwards /\ takes THEN took.tick ELSE ring.taken
              /\ took.ring.asked = t /\ took.ring.finished = ring.finished
<1> DEFINE took == TakesDue(ring, t, backwards)
           due == {f \in ring.frames : f.tick <= t}
           takes == due # {} /\ (backwards => ring.taken = Missing \/ t < ring.taken)
           ticks == {f.tick : f \in due}
<1>1. took.tick = IF takes THEN Max(ticks) ELSE Missing
  BY DEF TakesDue, NewestDue
<1>2. took.ring = [ring EXCEPT !.asked = t,
                               !.frames = IF backwards THEN {f \in due : f.tick # took.tick} ELSE @ \ due,
                               !.taken = IF backwards /\ takes THEN took.tick ELSE @]
  BY DEF TakesDue, NewestDue
<1>3. ticks \subseteq Pictures
  BY DEF RingInv
<1>4. ASSUME takes PROVE Max(ticks) \in ticks /\ \A y \in ticks : Max(ticks) >= y
  <2>1. ticks # {}
    BY <1>4
  <2> HIDE DEF ticks
  <2>2. QED
    BY <1>3, <2>1, Among, MaxIsIn
<1>5. ASSUME takes
      PROVE  /\ took.tick \in Pictures /\ took.tick <= t
             /\ \E f \in due : f.tick = took.tick
             /\ \A f \in due : f.tick <= took.tick
  <2>1. took.tick \in ticks /\ \A y \in ticks : took.tick >= y
    BY <1>1, <1>4, <1>5
  <2>2. \A y \in ticks : y \in Int /\ y <= t
    BY <1>3, TicksAreInts
  <2> HIDE DEF took
  <2>3. \A f \in due : f.tick \in ticks
    OBVIOUS
  <2>4. \E f \in due : f.tick = took.tick
    BY <2>1
  <2> HIDE DEF ticks
  <2>5. took.tick \in Int /\ \A f \in due : f.tick \in Int
    BY <2>1, <2>2, <2>3
  <2>6. QED
    BY <1>3, <2>1, <2>2, <2>3, <2>4, <2>5
<1>6. DOMAIN ring = {"frames", "finished", "closed", "taken", "asked"}
  BY DEF RingInv
<1> HIDE DEF took, ticks
<1>7. /\ DOMAIN took.ring = {"frames", "finished", "closed", "taken", "asked"}
      /\ took.ring.frames = IF backwards THEN {f \in due : f.tick # took.tick} ELSE ring.frames \ due
      /\ took.ring.taken = IF backwards /\ takes THEN took.tick ELSE ring.taken
      /\ took.ring.asked = t /\ took.ring.finished = ring.finished
  <2> HIDE DEF takes, due
  <2>1. QED
    BY <1>2, <1>6
<1>8. ~takes => took.tick = Missing
  BY <1>1
<1>9. QED
  BY <1>5, <1>7, <1>8 DEF took

\* Forwards what is taken comes after all that was shown, and is in time; what
\* stays in the ring comes after it.
LEMMA AskForward ==
    ASSUME LaneInv, Ask, direction = "forward"
    PROVE  /\ LaneInv'
           /\ shown' # shown => shown' > shown /\ shown' <= now
<1> DEFINE took == TakesDue(ring, now, FALSE)
           due == {f \in ring.frames : f.tick <= now}
<1>1. LaneTyped /\ RingInv /\ ForwardInv /\ ReverseInv
  BY DEF LaneInv
<1>2. lane = "live" /\ UNCHANGED <<direction, decoder, run, started, lane, now>>
      /\ ring' = took.ring /\ shown' = IF took.tick = Missing THEN shown ELSE took.tick
  BY DEF Ask
<1>3. /\ now \in Int /\ shown \in Int /\ shown \in Ticks
      /\ decoder.head \in Int /\ decoder.hand \in Int /\ decoder.next \in Int
  <2>1. shown \in Ticks /\ decoder.head \in Ticks /\ decoder.hand \in Ticks /\ decoder.next \in Ticks
    BY <1>1 DEF LaneTyped, ForwardInv
  <2>2. now \in Int
    BY <1>1, LaneConstants DEF LaneTyped
  <2>3. QED
    BY <2>1, <2>2, TicksOrMissing
<1>4. /\ due # {} => /\ took.tick \in Pictures /\ took.tick <= now
                     /\ \E f \in due : f.tick = took.tick
                     /\ \A f \in due : f.tick <= took.tick
      /\ due = {} => took.tick = Missing
      /\ DOMAIN took.ring = {"frames", "finished", "closed", "taken", "asked"}
      /\ took.ring.frames = ring.frames \ due
      /\ took.ring.taken = ring.taken
      /\ took.ring.asked = now /\ took.ring.finished = ring.finished
  <2>1. FALSE \in BOOLEAN
    OBVIOUS
  <2>2. QED
    BY <1>1, <1>3, <2>1, TakenIs
<1> HIDE DEF took
<1>5. \A f \in ring.frames : f.tick \in Int /\ f.tick >= 0 /\ shown < f.tick /\ f.tick <= decoder.head
  BY <1>1, <1>2, TicksAreInts DEF RingInv, ForwardInv
<1>6. \A f \in ring'.frames : f \in ring.frames /\ f.tick > now
  <2>1. \A f \in ring.frames : f \notin due => f.tick > now
    BY <1>3, <1>5
  <2>2. QED
    BY <1>2, <1>4, <2>1
<1>7. CASE due = {}
  <2>1. shown' = shown /\ \A f \in ring'.frames : f \in ring.frames
    BY <1>2, <1>4, <1>6, <1>7
  <2>2. LaneTyped'
    BY <1>1, <1>2, <2>1 DEF LaneTyped
  <2>3. RingInv'
    <3>1. ring'.frames = ring.frames
      BY <1>2, <1>4, <1>7
    <3>2. QED
      BY <1>1, <1>2, <1>3, <1>4, <3>1 DEF RingInv
  <2>4. ForwardInv'
    BY <1>1, <1>2, <2>1 DEF ForwardInv
  <2>5. QED
    BY <1>2, <2>1, <2>2, <2>3, <2>4 DEF LaneInv, ReverseInv
<1>8. CASE due # {}
  <2>1. /\ took.tick \in Pictures /\ took.tick <= now /\ took.tick \in Int /\ took.tick # Missing
        /\ shown < took.tick /\ took.tick <= decoder.head /\ shown' = took.tick
    <3>1. PICK f \in due : f.tick = took.tick
      BY <1>4, <1>8
    <3>2. f \in ring.frames
      BY <3>1
    <3>3. QED
      BY <1>2, <1>4, <1>5, <1>8, <3>1, <3>2, LaneConstants
  <2>2. LaneTyped'
    BY <1>1, <1>2, <2>1 DEF LaneTyped, Ticks
  <2>3. RingInv'
    <3>1. ring'.frames \subseteq ring.frames
      BY <1>6
    <3>2. IsFiniteSet(ring'.frames) /\ Cardinality(ring'.frames) <= RingHolds
      <4> DEFINE F == ring.frames
                 G == ring'.frames
      <4>1. IsFiniteSet(F) /\ Cardinality(F) <= RingHolds /\ G \subseteq F
        BY <1>1, <3>1 DEF RingInv
      <4> HIDE DEF F, G
      <4>2. IsFiniteSet(G) /\ Cardinality(G) <= Cardinality(F)
        BY <4>1, FS_Subset
      <4>3. Cardinality(F) \in Nat /\ Cardinality(G) \in Nat
        BY <4>1, <4>2, FS_CardinalityType
      <4>4. IsFiniteSet(G) /\ Cardinality(G) <= RingHolds
        BY <4>1, <4>2, <4>3, LaneConstants
      <4>5. QED
        BY <4>4 DEF G
    <3>3. QED
      BY <1>1, <1>2, <1>3, <1>4, <3>1, <3>2 DEF RingInv
  <2>4. ForwardInv'
    <3>1. \A f \in ring'.frames : started <= f.tick /\ shown' < f.tick /\ f.tick <= decoder.head
      BY <1>1, <1>2, <1>3, <1>5, <1>6, <2>1 DEF ForwardInv
    <3>2. decoder.hand # Missing => shown' < decoder.hand
      <4>1. decoder.hand # Missing => decoder.head < decoder.hand
        BY <1>1, <1>2 DEF ForwardInv
      <4>2. QED
        BY <1>3, <2>1, <4>1
    <3>3. decoder.next # Missing => shown' < decoder.next
      <4>1. decoder.next # Missing => decoder.head < decoder.next
        BY <1>1, <1>2 DEF ForwardInv
      <4>2. QED
        BY <1>3, <2>1, <4>1
    <3>4. QED
      BY <1>1, <1>2, <2>1, <3>1, <3>2, <3>3 DEF ForwardInv
  <2>5. QED
    BY <1>2, <2>1, <2>2, <2>3, <2>4 DEF LaneInv, ReverseInv
<1>9. QED
  BY <1>7, <1>8

\* Backwards it is the picture of the position itself: the ring has no gap up to
\* it.  What stays in the ring, and what the decoder has still to hand over, is
\* what may still be taken.
LEMMA AskReverse ==
    ASSUME LaneInv, Ask, direction = "reverse"
    PROVE  /\ LaneInv'
           /\ shown' # shown => shown' = Due(now)
<1> DEFINE took == TakesDue(ring, now, TRUE)
           due == {f \in ring.frames : f.tick <= now}
           takes == due # {} /\ (ring.taken = Missing \/ now < ring.taken)
<1>1. LaneTyped /\ RingInv /\ ForwardInv /\ ReverseInv
  BY DEF LaneInv
<1>2. lane = "live" /\ UNCHANGED <<direction, decoder, run, started, lane, now>>
      /\ ring' = took.ring /\ shown' = IF took.tick = Missing THEN shown ELSE took.tick
  BY DEF Ask
<1>3. now \in Int /\ now \in ClipIn..(ClipOut - 1) /\ Floor \in Int
  BY <1>1, LaneConstants, FloorIs DEF LaneTyped
<1>4. /\ takes => /\ took.tick \in Pictures /\ took.tick <= now
                  /\ \E f \in due : f.tick = took.tick
                  /\ \A f \in due : f.tick <= took.tick
      /\ ~takes => took.tick = Missing
      /\ DOMAIN took.ring = {"frames", "finished", "closed", "taken", "asked"}
      /\ took.ring.frames = {f \in due : f.tick # took.tick}
      /\ took.ring.taken = IF takes THEN took.tick ELSE ring.taken
      /\ took.ring.asked = now /\ took.ring.finished = ring.finished
  <2>1. TRUE \in BOOLEAN
    OBVIOUS
  <2>2. QED
    BY <1>1, <1>3, <2>1, TakenIs
<1> HIDE DEF took
<1>5. \A f \in ring.frames : f.tick \in Pictures /\ f.tick \in Int /\ Floor <= f.tick /\ f.tick # Missing
  BY <1>1, TicksAreInts, LaneConstants DEF RingInv, ReverseInv
<1>6. ASSUME takes PROVE took.tick = Due(now)
  <2>1. /\ Due(now) \in Pictures /\ Due(now) >= Floor /\ Due(now) \in Int
        /\ \A p \in Pictures : p <= now => p <= Due(now)
        /\ \A p \in Pictures : p >= Floor /\ p <= now => Due(now) <= now
    BY <1>3, DueIs, TicksAreInts
  <2>2. PICK f \in due : f.tick = took.tick
    BY <1>4, <1>6
  <2>3. f \in ring.frames /\ f.tick \in Pictures /\ f.tick \in Int /\ Floor <= f.tick /\ f.tick <= now
    BY <1>5, <2>2
  <2>4. f.tick <= Due(now) /\ Due(now) <= now
    BY <1>3, <2>1, <2>3
  <2>5. Awaited(Due(now))
    <3>1. ring.taken = Missing \/ Due(now) < ring.taken
      <4>1. ring.taken \in Int
        BY <1>1, TicksOrMissing DEF RingInv
      <4>2. QED
        BY <1>3, <1>6, <2>1, <2>4, <4>1
    <3>2. QED
      BY <2>1, <2>4, <3>1 DEF Awaited
  <2>6. PICK g \in ring.frames : g.tick = Due(now)
    BY <1>1, <1>2, <2>1, <2>3, <2>4, <2>5 DEF ReverseInv, NoGap, InRing
  <2>7. g \in due
    BY <2>4, <2>6
  <2>8. Due(now) <= took.tick /\ took.tick <= Due(now) /\ took.tick \in Int
    BY <1>4, <1>6, <2>2, <2>3, <2>4, <2>6, <2>7
  <2>9. QED
    BY <2>1, <2>8
<1>7. shown' # shown => shown' = Due(now)
  BY <1>2, <1>4, <1>6
<1>8. \A f \in ring'.frames : f \in ring.frames /\ f.tick <= now
  BY <1>2, <1>4
<1>9. LaneTyped'
  <2>1. took.tick \in Ticks
    BY <1>4 DEF Ticks
  <2>2. QED
    BY <1>1, <1>2, <2>1 DEF LaneTyped
<1>10. RingInv'
  <2>1. ring'.frames \subseteq ring.frames
    BY <1>8
  <2>2. IsFiniteSet(ring'.frames) /\ Cardinality(ring'.frames) <= RingHolds
    <3> DEFINE F == ring.frames
               G == ring'.frames
    <3>1. IsFiniteSet(F) /\ Cardinality(F) <= RingHolds /\ G \subseteq F
      BY <1>1, <2>1 DEF RingInv
    <3> HIDE DEF F, G
    <3>2. IsFiniteSet(G) /\ Cardinality(G) <= Cardinality(F)
      BY <3>1, FS_Subset
    <3>3. Cardinality(F) \in Nat /\ Cardinality(G) \in Nat
      BY <3>1, <3>2, FS_CardinalityType
    <3>4. IsFiniteSet(G) /\ Cardinality(G) <= RingHolds
      BY <3>1, <3>2, <3>3, LaneConstants
    <3>5. QED
      BY <3>4 DEF G
  <2>3. ring'.taken \in Ticks
    BY <1>1, <1>2, <1>4 DEF RingInv, Ticks
  <2>4. QED
    BY <1>1, <1>2, <1>3, <1>4, <2>1, <2>2, <2>3 DEF RingInv
<1>11. \A q \in Pictures : Awaited(q)' => Awaited(q) /\ (takes => q # took.tick)
  <2> SUFFICES ASSUME NEW q \in Pictures, Awaited(q)'
               PROVE  Awaited(q) /\ (takes => q # took.tick)
    OBVIOUS
  <2>1. Floor <= q /\ q <= now /\ (ring'.taken = Missing \/ q < ring'.taken) /\ q \in Int
    BY <1>2, TicksAreInts DEF Awaited
  <2>2. CASE takes
    <3>1. ring'.taken = took.tick /\ took.tick # Missing /\ took.tick \in Int
      BY <1>2, <1>4, <2>2, TicksAreInts, LaneConstants
    <3>2. q < took.tick
      BY <2>1, <3>1
    <3>3. ring.taken = Missing \/ q < ring.taken
      <4>1. ring.taken \in Int
        BY <1>1, TicksOrMissing DEF RingInv
      <4>2. QED
        BY <1>3, <2>1, <2>2, <4>1
    <3>4. QED
      BY <2>1, <3>1, <3>2, <3>3 DEF Awaited
  <2>3. CASE ~takes
    BY <1>2, <1>4, <2>1, <2>3 DEF Awaited
  <2>4. QED
    BY <2>2, <2>3
<1>12. \A q \in Pictures : Awaited(q)' /\ InRing(q) => InRing(q)'
  <2> SUFFICES ASSUME NEW q \in Pictures, Awaited(q)', InRing(q)
               PROVE  InRing(q)'
    OBVIOUS
  <2>1. PICK f \in ring.frames : f.tick = q
    BY DEF InRing
  <2>2. q <= now /\ q # took.tick
    <3>1. CASE takes
      BY <1>11, <3>1 DEF Awaited
    <3>2. CASE ~takes
      BY <1>4, <1>11, <3>2, LaneConstants DEF Awaited
    <3>3. QED
      BY <3>1, <3>2
  <2>3. f \in ring'.frames
    BY <1>2, <1>4, <2>1, <2>2
  <2>4. QED
    BY <2>1, <2>3 DEF InRing
<1> HIDE DEF due, takes
<1>13. NoGap'
  BY <1>1, <1>2, <1>8, <1>11, <1>12 DEF ReverseInv, NoGap
<1>14. \A frames : Under(frames) => Under(frames)'
  BY <1>8 DEF Under
<1>15. Collecting => Collecting'
  BY <1>2, <1>11, <1>12, <1>14 DEF Collecting, Reaches
<1>16. Handing => Handing'
  BY <1>2, <1>11, <1>12, <1>14 DEF Handing, Reaches
<1>17. ReverseInv'
  BY <1>1, <1>2, <1>3, <1>4, <1>8, <1>13, <1>15, <1>16 DEF ReverseInv
<1>18. QED
  BY <1>2, <1>7, <1>9, <1>10, <1>17 DEF LaneInv, ForwardInv

-----------------------------------------------------------------------------
(* The reverse decoder's steps                                               *)

LEMMA ReverseEndsKept ==
    ASSUME LaneInv, direction = "reverse", NEW how \in {"stopped", "failed", "finished"}, ReverseEnds(how),
           UNCHANGED <<direction, run, started, lane, now, shown>>
    PROVE  LaneInv'
<1>1. LaneTyped /\ RingInv /\ ReverseInv
  BY DEF LaneInv
<1>2. DOMAIN decoder = {"kind", "pc", "pending", "left", "next", "cancel", "end"}
  BY OfItsDirection
<1>3. /\ DOMAIN decoder' = DOMAIN decoder /\ decoder'.kind = decoder.kind /\ decoder'.pc = decoder.pc
      /\ decoder'.end = how /\ decoder'.pending = NoChunk /\ decoder'.next = NoChunk /\ decoder'.left = {}
  BY <1>2 DEF ReverseEnds
<1>4. /\ DOMAIN ring' = DOMAIN ring /\ ring'.frames = ring.frames /\ ring'.taken = ring.taken
      /\ ring'.asked = ring.asked
  BY <1>1 DEF ReverseEnds, RingInv, Finished
<1>5. LaneTyped' /\ RingInv' /\ ForwardInv'
  BY <1>1, <1>3, <1>4 DEF LaneTyped, RingInv, ForwardInv
<1>6. Chunk(NoChunk) /\ Small({})
  BY FS_EmptySet, LaneConstants DEF Chunk, Small
<1>7. NoGap => NoGap'
  BY <1>4 DEF NoGap, Awaited, InRing
<1>8. ReverseInv'
  BY <1>1, <1>3, <1>4, <1>6, <1>7 DEF ReverseInv
<1>9. QED
  BY <1>5, <1>8 DEF LaneInv

LEMMA ChunkEndsKept == ASSUME LaneInv, ChunkEnds PROVE LaneInv'
<1>1. LaneTyped /\ RingInv /\ ReverseInv
  BY DEF LaneInv
<1>2. direction = "reverse" /\ decoder.end = "none" /\ UNCHANGED <<direction, ring, run, started, lane, now, shown>>
  BY OfItsDirection DEF ChunkEnds, Reversing
<1>3. DOMAIN decoder = {"kind", "pc", "pending", "left", "next", "cancel", "end"}
  BY <1>2, OfItsDirection
<1>4. PICK which \in {"pending", "next"}, verdict \in {"finished", "failed"} :
        decoder[which].state = "decoding" /\ decoder' = [decoder EXCEPT ![which].state = verdict]
  BY DEF ChunkEnds
<1>5. decoder[which] # NoChunk /\ DOMAIN decoder[which] = {"frames", "state"}
  BY <1>1, <1>2, <1>4 DEF ReverseInv, Chunk, NoChunk
<1>6. /\ DOMAIN decoder' = DOMAIN decoder
      /\ decoder'.kind = decoder.kind /\ decoder'.pc = decoder.pc /\ decoder'.end = decoder.end
      /\ decoder'.left = decoder.left
      /\ DOMAIN decoder'[which] = {"frames", "state"}
      /\ decoder'[which].frames = decoder[which].frames /\ decoder'[which].state = verdict
      /\ \A other \in {"pending", "next"} : other # which => decoder'[other] = decoder[other]
  BY <1>3, <1>4, <1>5
<1>7. Chunk(decoder'[which]) /\ decoder'[which] # NoChunk
  BY <1>1, <1>2, <1>5, <1>6 DEF ReverseInv, Chunk, NoChunk
<1>8. /\ decoder'.pending.frames = decoder.pending.frames /\ decoder'.next.frames = decoder.next.frames
      /\ decoder'.pending = NoChunk <=> decoder.pending = NoChunk
      /\ decoder'.next = NoChunk <=> decoder.next = NoChunk
      /\ Chunk(decoder'.pending) /\ Chunk(decoder'.next)
  BY <1>1, <1>2, <1>5, <1>6, <1>7 DEF ReverseInv
<1>9. LaneTyped' /\ RingInv' /\ ForwardInv'
  BY <1>1, <1>2, <1>6 DEF LaneTyped, RingInv, ForwardInv
<1>10. /\ NoGap => NoGap'
       /\ Collecting => Collecting'
       /\ Handing => Handing'
  BY <1>2, <1>6, <1>8 DEF NoGap, Awaited, InRing, Collecting, Handing, Under, Reaches
<1>11. ReverseInv'
  <2>1. (decoder.pc = "collecting" => decoder.left = {} /\ decoder.next = NoChunk)
        /\ (decoder.pc = "handing" => decoder.pending = NoChunk)
    BY <1>1, <1>2 DEF ReverseInv
  <2>2. (decoder'.pc = "collecting" => decoder'.left = {} /\ decoder'.next = NoChunk)
        /\ (decoder'.pc = "handing" => decoder'.pending = NoChunk)
    BY <1>6, <1>8, <2>1
  <2>3. QED
    BY <1>1, <1>2, <1>6, <1>8, <1>10, <2>2 DEF ReverseInv
<1>12. QED
  BY <1>9, <1>11 DEF LaneInv

\* The chunk before a chunk holds what may still be taken below it, or reaches
\* down to it: it ends before the first picture, or at the one the presenter
\* asked for, and what may still be taken is not after that.
LEMMA NextEndIs ==
    ASSUME LaneInv, direction = "reverse", NEW first \in Pictures, Floor <= first
    PROVE  /\ NextEnd(first) < first /\ NextEnd(first) \in Ticks
           /\ \A q \in Pictures : Awaited(q) /\ q < first => q <= NextEnd(first)
<1> DEFINE before == PictureAt(first - 1)
<1>1. first \in Int /\ first >= 0 /\ Floor \in Int /\ Floor >= 0 /\ Missing = -1
  BY TicksAreInts, FloorIs DEF Missing
<1>2. /\ before = Missing \/ (before \in Pictures /\ before <= first - 1)
      /\ \A p \in Pictures : p <= first - 1 => p <= before /\ before # Missing
  BY <1>1, PictureAtIs
<1>3. /\ ring.asked \in Int /\ (ring.asked # Missing => now <= ring.asked) /\ now \in Int
  BY LaneConstants DEF LaneInv, LaneTyped, RingInv, ReverseInv
<1>4. /\ PictureAt(ring.asked) = Missing \/ (PictureAt(ring.asked) \in Pictures /\ PictureAt(ring.asked) <= ring.asked)
      /\ \A p \in Pictures : p <= ring.asked => p <= PictureAt(ring.asked) /\ PictureAt(ring.asked) # Missing
  BY <1>3, PictureAtIs
<1>5. NextEnd(first) = IF before >= Floor /\ ring.asked # Missing /\ ring.asked < before
                       THEN PictureAt(ring.asked) ELSE before
  BY DEF NextEnd
<1> HIDE DEF before
<1>6. before \in Int /\ PictureAt(ring.asked) \in Int
  <2>1. before \in Ticks /\ PictureAt(ring.asked) \in Ticks
    BY <1>2, <1>4 DEF Ticks
  <2>2. QED
    BY <2>1, TicksOrMissing
<1>7. NextEnd(first) \in Ticks
  BY <1>2, <1>4, <1>5 DEF Ticks
<1>8. NextEnd(first) < first
  BY <1>1, <1>2, <1>3, <1>4, <1>5, <1>6
<1>9. ASSUME NEW q \in Pictures, Awaited(q), q < first PROVE q <= NextEnd(first)
  <2>1. q \in Int /\ q <= now /\ q <= first - 1
    BY <1>1, <1>9, TicksAreInts DEF Awaited
  <2>2. q <= before
    BY <1>2, <2>1
  <2>3. ring.asked # Missing => q <= PictureAt(ring.asked)
    BY <1>3, <1>4, <2>1
  <2>4. QED
    BY <1>5, <2>2, <2>3
<1>10. QED
  BY <1>7, <1>8, <1>9

LEMMA CollectKept == ASSUME LaneInv, Collect PROVE LaneInv'
<1>1. LaneTyped /\ RingInv /\ ReverseInv
  BY DEF LaneInv
<1>2. direction = "reverse" /\ decoder.end = "none" /\ decoder.pc = "collecting"
      /\ UNCHANGED <<direction, run, started, lane, now, shown>>
  BY OfItsDirection DEF Collect, Reversing
<1>3. DOMAIN decoder = {"kind", "pc", "pending", "left", "next", "cancel", "end"}
  BY <1>2, OfItsDirection
<1>4. CASE \E how \in {"stopped", "failed"} : ReverseEnds(how)
  <2>1. PICK how \in {"stopped", "failed"} : ReverseEnds(how)
    BY <1>4
  <2>2. how \in {"stopped", "failed", "finished"}
    OBVIOUS
  <2>3. QED
    BY <1>2, <2>1, <2>2, ReverseEndsKept
<1>5. CASE ~ \E how \in {"stopped", "failed"} : ReverseEnds(how)
  <2> DEFINE first == Min(decoder.pending.frames)
             end == NextEnd(first)
             chunk == IF end >= Floor THEN ChunkTo(end) ELSE NoChunk
  <2>1. /\ decoder.pending.state = "finished" /\ ring' = ring
        /\ decoder' = [decoder EXCEPT !.pc = "handing", !.left = decoder.pending.frames,
                                      !.pending = NoChunk, !.next = chunk]
    BY <1>5 DEF Collect
  <2>2. /\ Small(decoder.pending.frames) /\ decoder.pending.frames # {}
        /\ \A p \in decoder.pending.frames : Floor <= p
    BY <1>1, <1>2, <2>1 DEF ReverseInv, Chunk, NoChunk
  <2>3. first \in decoder.pending.frames /\ \A p \in decoder.pending.frames : first <= p
    <3> DEFINE F == decoder.pending.frames
    <3>1. F \subseteq Pictures /\ F # {}
      BY <2>2 DEF Small
    <3> HIDE DEF F
    <3>2. Min(F) \in F /\ \A p \in F : Min(F) <= p
      BY <3>1, Among, MinIsIn
    <3>3. QED
      BY <3>2 DEF F
  <2> HIDE DEF first
  <2>4. first \in Pictures /\ Floor <= first
    BY <2>2, <2>3 DEF Small
  <2>5. /\ end < first /\ end \in Ticks
        /\ \A q \in Pictures : Awaited(q) /\ q < first => q <= end
    BY <1>2, <2>4, NextEndIs
  <2> HIDE DEF end
  <2>6. end \in Int /\ first \in Int /\ Floor \in Int /\ Floor >= 0 /\ Missing = -1
    BY <2>4, <2>5, TicksOrMissing, TicksAreInts, FloorIs
  <2>7. ASSUME end >= Floor
        PROVE  /\ Chunk(chunk) /\ chunk # NoChunk
               /\ \A p \in chunk.frames : p <= end
               /\ \A q \in Pictures : q <= end => Reaches(q, chunk)
    <3>1. end \in Pictures /\ chunk = ChunkTo(end)
      BY <2>5, <2>6, <2>7 DEF Ticks
    <3>2. /\ chunk.state = "decoding" /\ DOMAIN chunk = {"frames", "state"}
          /\ Small(chunk.frames) /\ chunk.frames # {}
          /\ \A p \in chunk.frames : Floor <= p /\ p <= end
          /\ \A q \in Pictures : q <= end => q \in chunk.frames \/ \A p \in chunk.frames : q < p
      BY <2>7, <3>1, ChunkToIs
    <3> HIDE DEF chunk
    <3>3. chunk # NoChunk
      BY <3>2 DEF NoChunk
    <3>4. QED
      BY <3>2, <3>3 DEF Chunk, Reaches
  <2>8. ~(end >= Floor) => chunk = NoChunk
    OBVIOUS
  <2> HIDE DEF chunk
  <2>9. Chunk(NoChunk) /\ NoChunk.frames = {}
    BY DEF Chunk, NoChunk
  <2>10. /\ DOMAIN decoder' = DOMAIN decoder /\ decoder'.kind = decoder.kind /\ decoder'.pc = "handing"
         /\ decoder'.end = decoder.end /\ decoder'.left = decoder.pending.frames
         /\ decoder'.pending = NoChunk /\ decoder'.next = chunk
    BY <1>3, <2>1
  <2>11. Chunk(chunk) /\ \A p \in chunk.frames : p < first /\ p \in Int
    <3>1. CASE end >= Floor
      <4>1. Chunk(chunk) /\ chunk # NoChunk /\ \A p \in chunk.frames : p <= end
        BY <2>7, <3>1
      <4>2. \A p \in chunk.frames : p \in Int
        BY <4>1, TicksAreInts DEF Chunk, Small
      <4>3. QED
        BY <2>5, <2>6, <4>1, <4>2
    <3>2. CASE ~(end >= Floor)
      BY <2>8, <2>9, <3>2
    <3>3. QED
      BY <3>1, <3>2
  <2>12. ASSUME lane = "live" PROVE Handing'
    <3>1. Collecting
      BY <1>1, <1>2, <2>12 DEF ReverseInv
    <3>2. \A p \in decoder.pending.frames : p \in Int
      BY <2>2, TicksAreInts DEF Small
    <3>3. Under(decoder.pending.frames) /\ Under(chunk.frames)
      <4>1. Under(decoder.pending.frames)
        BY <3>1 DEF Collecting
      <4>2. \A f \in ring.frames : first < f.tick /\ f.tick \in Int
        BY <1>1, <2>3, <4>1, TicksAreInts DEF Under, RingInv
      <4>3. QED
        BY <2>6, <2>11, <4>1, <4>2 DEF Under
    <3>4. \A p \in decoder.pending.frames : \A r \in chunk.frames : r < p
      BY <2>3, <2>6, <2>11, <3>2
    <3>5. ASSUME NEW q \in Pictures, Awaited(q)
          PROVE  InRing(q) \/ q \in decoder.pending.frames \/ Reaches(q, chunk)
      <4> SUFFICES ASSUME ~InRing(q), q \notin decoder.pending.frames
                   PROVE  Reaches(q, chunk)
        OBVIOUS
      <4>1. q < first
        BY <2>3, <3>1, <3>5 DEF Collecting, Reaches
      <4>2. q <= end
        BY <2>5, <3>5, <4>1
      <4>3. end >= Floor
        BY <2>6, <3>5, <4>2, TicksAreInts DEF Awaited
      <4>4. QED
        BY <2>7, <4>2, <4>3
    <3>6. \A q : Awaited(q)' <=> Awaited(q)
      BY <1>2, <2>1 DEF Awaited
    <3>7. QED
      BY <1>2, <2>1, <2>10, <3>3, <3>4, <3>5, <3>6 DEF Handing, Under, InRing, Reaches
  <2>13. NoGap => NoGap'
    BY <1>2, <2>1 DEF NoGap, Awaited, InRing
  <2>14. LaneTyped' /\ RingInv' /\ ForwardInv'
    BY <1>1, <1>2, <2>1, <2>10 DEF LaneTyped, RingInv, ForwardInv
  <2>15. ReverseInv'
    BY <1>1, <1>2, <2>1, <2>2, <2>9, <2>10, <2>11, <2>12, <2>13 DEF ReverseInv
  <2>16. QED
    BY <2>14, <2>15 DEF LaneInv
<1>6. QED
  BY <1>4, <1>5

LEMMA HandOverKept == ASSUME LaneInv, HandOver PROVE LaneInv'
<1>1. LaneTyped /\ RingInv /\ ReverseInv
  BY DEF LaneInv
<1>2. direction = "reverse" /\ decoder.end = "none" /\ decoder.pc = "handing"
      /\ UNCHANGED <<direction, run, started, lane, now, shown>>
  BY OfItsDirection DEF HandOver, Reversing
<1>3. DOMAIN decoder = {"kind", "pc", "pending", "left", "next", "cancel", "end"}
  BY <1>2, OfItsDirection
<1>4. CASE \E how \in {"stopped", "finished"} : ReverseEnds(how)
  <2>1. PICK how \in {"stopped", "finished"} : ReverseEnds(how)
    BY <1>4
  <2>2. how \in {"stopped", "failed", "finished"}
    OBVIOUS
  <2>3. QED
    BY <1>2, <2>1, <2>2, ReverseEndsKept
<1>5. CASE decoder.left # {} /\ ~ \E how \in {"stopped", "finished"} : ReverseEnds(how)
  <2> DEFINE last == Max(decoder.left)
  <2>1. /\ HasRoom(ring) /\ ring' = Pushed(ring, last)
        /\ decoder' = [decoder EXCEPT !.left = @ \ {last}]
    BY <1>5 DEF HandOver
  <2>2. Small(decoder.left) /\ \A p \in decoder.left : Floor <= p
    BY <1>1, <1>2 DEF ReverseInv
  <2>3. last \in decoder.left /\ (\A p \in decoder.left : p <= last) /\ Small(decoder.left \ {last})
    <3> DEFINE F == decoder.left
    <3>1. F \subseteq Pictures /\ F # {} /\ IsFiniteSet(F) /\ Cardinality(F) \in Nat /\ Cardinality(F) <= ChunkMax
      BY <1>5, <2>2 DEF Small
    <3> HIDE DEF F
    <3>2. Max(F) \in F /\ \A p \in F : Max(F) >= p
      BY <3>1, Among, MaxIsIn
    <3>3. \A p \in F : p <= Max(F)
      <4>1. \A p \in F : p \in Int
        BY <3>1, TicksAreInts
      <4>2. QED
        BY <3>2, <4>1
    <3>4. F \ {Max(F)} \subseteq F
      OBVIOUS
    <3>5. /\ IsFiniteSet(F \ {Max(F)}) /\ Cardinality(F \ {Max(F)}) <= Cardinality(F)
          /\ Cardinality(F \ {Max(F)}) \in Nat
      <4> DEFINE G == F \ {Max(F)}
      <4>1. G \subseteq F
        OBVIOUS
      <4> HIDE DEF G
      <4>2. IsFiniteSet(G) /\ Cardinality(G) <= Cardinality(F) /\ Cardinality(G) \in Nat
        BY <3>1, <4>1, FS_Subset, FS_CardinalityType
      <4>3. QED
        BY <4>2 DEF G
    <3>6. Cardinality(F \ {Max(F)}) <= ChunkMax
      BY <3>1, <3>5, LaneConstants
    <3>7. QED
      BY <3>1, <3>2, <3>3, <3>5, <3>6 DEF F, Small
  <2> HIDE DEF last
  <2>4. last \in Pictures /\ Floor <= last /\ last \in Int
    BY <2>2, <2>3, TicksAreInts DEF Small
  <2>5. /\ DOMAIN decoder' = DOMAIN decoder /\ decoder'.kind = decoder.kind /\ decoder'.pc = decoder.pc
        /\ decoder'.end = decoder.end /\ decoder'.left = decoder.left \ {last}
        /\ decoder'.pending = decoder.pending /\ decoder'.next = decoder.next
    BY <1>3, <2>1
  <2>6. ~ring.finished
    BY <1>1, <1>2 DEF RingInv
  <2>7. /\ RingInv'
        /\ ring'.frames = ring.frames \cup {[tick |-> last, run |-> run]}
        /\ ring'.taken = ring.taken /\ ring'.asked = ring.asked
    BY <1>2, <2>1, <2>4, <2>5, <2>6, PushFits
  <2>8. \A f \in ring'.frames : f \in ring.frames \/ f.tick = last
    BY <2>7
  <2>9. \A q : InRing(q) \/ q = last => InRing(q)'
    <3>1. [tick |-> last, run |-> run].tick = last
      OBVIOUS
    <3>2. QED
      BY <2>7, <3>1 DEF InRing
  <2>10. \A q : Awaited(q)' <=> Awaited(q)
    BY <1>2, <2>7 DEF Awaited
  <2>11. ASSUME lane = "live" PROVE NoGap' /\ Handing'
    <3>1. NoGap /\ Handing
      BY <1>1, <1>2, <2>11 DEF ReverseInv
    <3>2. \A r \in decoder.next.frames : r < last
      BY <2>3, <3>1 DEF Handing
    <3>3. /\ \A p \in decoder.next.frames : p \in Int
          /\ decoder.next # NoChunk => decoder.next.frames # {}
      BY <1>1, <1>2, TicksAreInts DEF ReverseInv, Chunk, Small, NoChunk
    <3>4. ASSUME NEW q \in Pictures, Awaited(q), last <= q PROVE InRing(q)'
      <4>1. q \in Int
        BY TicksAreInts
      <4>2. ~ Reaches(q, decoder.next)
        BY <2>4, <3>2, <3>3, <3>4, <4>1 DEF Reaches
      <4>3. InRing(q) \/ q \in decoder.left
        BY <3>1, <3>4, <4>2 DEF Handing
      <4>4. q \in decoder.left => q = last
        BY <2>3, <2>4, <3>4, <4>1
      <4>5. QED
        BY <2>9, <4>3, <4>4
    <3>5. NoGap'
      BY <2>8, <2>9, <2>10, <3>1, <3>4 DEF NoGap
    <3>6. /\ \A f \in ring'.frames : \A p \in decoder'.left : p < f.tick
          /\ \A f \in ring'.frames : \A p \in decoder'.next.frames : p < f.tick
      <4>1. \A p \in decoder'.left : p \in decoder.left /\ p < last
        <5>1. \A p \in decoder.left : p \in Int /\ p <= last
          BY <2>2, <2>3, TicksAreInts DEF Small
        <5>2. \A p \in decoder'.left : p \in decoder.left /\ p # last
          BY <2>5
        <5>3. QED
          BY <2>4, <5>1, <5>2
      <4>2. QED
        BY <2>5, <2>8, <3>1, <3>2, <4>1 DEF Handing, Under
    <3>7. \A q \in Pictures : Awaited(q) => InRing(q)' \/ q \in decoder'.left \/ Reaches(q, decoder.next)
      <4>1. \A q \in decoder.left : q = last \/ q \in decoder'.left
        BY <2>5
      <4>2. QED
        BY <2>9, <3>1, <4>1 DEF Handing
    <3>8. \A p \in decoder'.left : \A r \in decoder'.next.frames : r < p
      BY <2>5, <3>1 DEF Handing
    <3>9. Handing'
      BY <2>5, <2>10, <3>6, <3>7, <3>8 DEF Handing, Under, Reaches
    <3>10. QED
      BY <3>5, <3>9
  <2>12. LaneTyped' /\ ForwardInv'
    BY <1>1, <1>2 DEF LaneTyped, ForwardInv
  <2>13. ReverseInv'
    <3>1. \A f \in ring'.frames : Floor <= f.tick
      BY <1>1, <1>2, <2>4, <2>8 DEF ReverseInv
    <3>2. \A p \in decoder'.left : Floor <= p
      BY <2>2, <2>5
    <3>3. QED
      BY <1>1, <1>2, <2>3, <2>5, <2>7, <2>11, <3>1, <3>2 DEF ReverseInv
  <2>14. QED
    BY <2>7, <2>12, <2>13 DEF LaneInv
<1>6. CASE decoder.left = {} /\ ~ \E how \in {"stopped", "finished"} : ReverseEnds(how)
  <2>1. /\ decoder.next # NoChunk /\ ring' = ring
        /\ decoder' = [decoder EXCEPT !.pc = "collecting", !.pending = decoder.next, !.next = NoChunk]
    BY <1>6 DEF HandOver
  <2>2. /\ DOMAIN decoder' = DOMAIN decoder /\ decoder'.kind = decoder.kind /\ decoder'.pc = "collecting"
        /\ decoder'.end = decoder.end /\ decoder'.left = decoder.left
        /\ decoder'.pending = decoder.next /\ decoder'.next = NoChunk
    BY <1>3, <2>1
  <2>3. \A q : (Awaited(q)' <=> Awaited(q)) /\ (InRing(q)' <=> InRing(q))
    BY <1>2, <2>1 DEF Awaited, InRing
  <2>4. NoGap => NoGap'
    BY <2>1, <2>3 DEF NoGap
  <2>5. Handing => Collecting'
    BY <1>6, <2>1, <2>2, <2>3 DEF Handing, Collecting, Under, Reaches
  <2>6. LaneTyped' /\ RingInv' /\ ForwardInv'
    BY <1>1, <1>2, <2>1, <2>2 DEF LaneTyped, RingInv, ForwardInv
  <2>7. Chunk(NoChunk)
    BY DEF Chunk
  <2>8. ReverseInv'
    BY <1>1, <1>2, <1>6, <2>1, <2>2, <2>4, <2>5, <2>7 DEF ReverseInv
  <2>9. QED
    BY <2>6, <2>8 DEF LaneInv
<1>7. QED
  BY <1>4, <1>5, <1>6

-----------------------------------------------------------------------------

LEMMA LaneKept == ASSUME LaneInv, LaneNext PROVE LaneInv'
<1>1. CASE VideoDecodes \/ Crash
  BY <1>1, MovesKept, PushKept, WatchKept DEF VideoDecodes
<1>2. CASE ReverseDecodes
  BY <1>2, ChunkEndsKept, CollectKept, HandOverKept DEF ReverseDecodes
<1>3. CASE Ask
  BY <1>3, OfItsDirection, AskForward, AskReverse
<1>4. CASE Advance \/ Resync \/ Restart \/ Retire \/ Retired
  BY <1>4, AdvanceKept, ResyncKept, RestartKept, RetireKept, RetiredKept
<1>5. QED
  BY <1>1, <1>2, <1>3, <1>4 DEF LaneNext

LEMMA LaneStutters == ASSUME LaneInv, UNCHANGED laneVars PROVE LaneInv'
<1>1. UNCHANGED <<direction, ring, decoder, run, started, lane, now, shown>>
  BY DEF laneVars
<1>2. LaneTyped' /\ RingInv'
  BY <1>1 DEF LaneInv, LaneTyped, RingInv
<1>3. ForwardInv'
  BY <1>1 DEF LaneInv, ForwardInv
<1>4. ReverseInv'
  BY <1>1 DEF LaneInv, ReverseInv, NoGap, Collecting, Handing, Awaited, InRing, Under, Reaches
<1>5. QED
  BY <1>2, <1>3, <1>4 DEF LaneInv

LEMMA LaneHolds == LaneSpec => []LaneInv
<1>1. LaneInv /\ [LaneNext]_laneVars => LaneInv'
  BY LaneKept, LaneStutters
<1>2. QED
  BY <1>1, LaneStarts, PTL DEF LaneSpec

LEMMA HeldIsBounded == LaneInv => RingOfItsDecoder
<1> SUFFICES ASSUME LaneInv PROVE RingOfItsDecoder
  OBVIOUS
<1>1. LaneTyped /\ RingInv /\ ForwardInv /\ ReverseInv
  BY DEF LaneInv
<1>2. Cardinality(ring.frames) \in Nat /\ Cardinality(ring.frames) <= RingHolds
  BY <1>1, FS_CardinalityType DEF RingInv
<1>3. Held <= RingHolds + 2 * ChunkMax
  <2>1. CASE decoder.kind # "reverse"
    BY <1>2, <2>1, LaneConstants DEF Held
  <2>2. CASE decoder.kind = "reverse"
    <3>1. direction = "reverse"
      BY <2>2, OfItsDirection
    <3> DEFINE a == Cardinality(decoder.pending.frames)
               b == Cardinality(decoder.left)
               c == Cardinality(decoder.next.frames)
    <3>2. Small({}) /\ Cardinality({}) = 0 /\ NoChunk.frames = {}
      BY FS_EmptySet, LaneConstants DEF Small, NoChunk
    <3>3. Small(decoder.pending.frames) /\ Small(decoder.left) /\ Small(decoder.next.frames)
      BY <1>1, <3>1, <3>2 DEF ReverseInv, Chunk
    <3>4. a \in Nat /\ b \in Nat /\ c \in Nat /\ a <= ChunkMax /\ b <= ChunkMax /\ c <= ChunkMax
      BY <3>3 DEF Small
    <3>5. a = 0 \/ (b = 0 /\ c = 0)
      BY <1>1, <3>1, <3>2 DEF ReverseInv
    <3>6. Held = Cardinality(ring.frames) + (a + b + c)
      BY <2>2 DEF Held
    <3> HIDE DEF a, b, c
    <3>7. QED
      BY <1>2, <3>4, <3>5, <3>6, LaneConstants
  <2>3. QED
    BY <2>1, <2>2
<1>4. \A f \in ring.frames : f.run = run /\ (direction = "forward" /\ lane = "live" => f.tick >= started)
  BY <1>1, TicksAreInts DEF RingInv, ForwardInv, LaneTyped
<1>5. QED
  BY <1>1, <1>2, <1>3, <1>4 DEF RingOfItsDecoder, RingInv

\* The ring is bounded and holds only frames of the decoder there is, none
\* before the keyframe it was started at; a reversed lane holds at most its
\* ring and two chunks, whatever the clip's length (ring.rs, reverse.rs).
THEOREM RingIsBounded == LaneSpec => []RingOfItsDecoder
BY LaneHolds, HeldIsBounded, PTL

\* Forwards the pictures shown only go on and none before its time, over a
\* start again too; backwards each is the one of the clock's position, though
\* chunks arrive while the clock moves (take_due, take_due_backwards, keep_up).
THEOREM PicturesAreInTime == LaneSpec => PicturesInTime
<1>1. LaneInv /\ [LaneNext]_laneVars =>
        [shown' # shown =>
            /\ direction = "forward" => shown' > shown /\ shown' <= now
            /\ direction = "reverse" => shown' = Max({PictureAt(now), Floor})]_laneVars
  <2> SUFFICES ASSUME LaneInv, LaneNext, shown' # shown
               PROVE  /\ direction = "forward" => shown' > shown /\ shown' <= now
                      /\ direction = "reverse" => shown' = Max({PictureAt(now), Floor})
    BY DEF laneVars
  <2>1. Ask
    <3>1. ~(VideoDecodes \/ Crash)
      BY DEF VideoDecodes, Crash, Report, AssembleFrame, PushFrame, MissStamp, Exit, Watch
    <3>2. ~ReverseDecodes
      BY DEF ReverseDecodes, ChunkEnds, Collect, HandOver
    <3>3. ~(Advance \/ Resync \/ Restart \/ Retire \/ Retired)
      BY DEF Advance, Resync, Restart, Retire, Retired
    <3>4. QED
      BY <3>1, <3>2, <3>3 DEF LaneNext
  <2>2. QED
    BY <2>1, AskForward, AskReverse DEF Due
<1>2. QED
  BY <1>1, LaneHolds, PTL DEF LaneSpec, PicturesInTime

-----------------------------------------------------------------------------
(* A lane of sound                                                           *)

SoundFields == {"segment", "starts", "chain", "ring", "hand", "next", "finished", "shifted", "starved", "astray"}

IsSound(voice) ==
    /\ DOMAIN voice = SoundFields /\ voice.segment \in DOMAIN Segments /\ voice.starts \in Int
    /\ voice.chain \in Nat /\ voice.ring \in Seq(Int) /\ voice.hand \in Seq(Int) /\ voice.next \in Int

\* A sample at a position: its sound, or none where a reversed chunk came short.
May(voice, sound, t) ==
    sound = Sounding(voice.segment, t) \/ (sound = Silence /\ Segments[voice.segment].motion = "reverse")

\* What a lane that came short nowhere holds for the position `t`: the sound of
\* the positions from it on, up to where it decodes next.
Off(voice, t) == voice.next - t - Len(voice.ring) - Len(voice.hand)
Plays(voice, t) ==
    /\ Off(voice, t) \in IF voice.shifted THEN {0, 1} ELSE {0}
    /\ \A k \in 1..Len(voice.ring) : May(voice, voice.ring[k], t + Off(voice, t) + k - 1)
    /\ \A k \in 1..Len(voice.hand) : May(voice, voice.hand[k], t + Off(voice, t) + Len(voice.ring) + k - 1)

Current(voice, t) == IsSound(voice) /\ (voice.starved \/ voice.astray \/ Plays(voice, t))
Fresh(voice) == IsSound(voice) /\ ~voice.starved /\ ~voice.astray /\ ~voice.shifted /\ Plays(voice, voice.starts)

SoundTyped ==
    /\ at \in 0..SoundEnd /\ loops \in Loops \cup {NoRange}
    /\ chains \in [DOMAIN Segments -> Nat]
    /\ slot = NoChange \/ (slot \in [DOMAIN Segments -> Nat] /\ \A i \in DOMAIN Segments : slot[i] >= chains[i])

LanesPlay ==
    /\ current = NoLane \/ (Current(current, at) /\ current.chain <= chains[current.segment])
    /\ upcoming = NoLane \/ (Fresh(upcoming) /\ upcoming.chain = chains[upcoming.segment])
    /\ retuned = NoLane \/ (Fresh(retuned) /\ retuned.chain = chains[retuned.segment])

HeardLast ==
    /\ heard.segment \in DOMAIN Segments \cup {0} /\ heard.chain \in Nat
    /\ heard.segment = 0 => heard.chain = 0
    /\ heard.segment # 0 => heard.chain <= chains[heard.segment]
    /\ heard.segment # 0 /\ heard.segment = current.segment => heard.chain <= current.chain

SoundInv == SoundTyped /\ LanesPlay /\ HeardLast /\ SoundInTime

LEMMA SegmentsAre ==
    /\ Len(Segments) \in Nat \ {0} /\ DOMAIN Segments = 1..Len(Segments) /\ SoundEnd \in Nat
    /\ \A i \in DOMAIN Segments :
          /\ i \in Int /\ Segments[i].from \in Int /\ Segments[i].to \in Int /\ Segments[i].sounds \in BOOLEAN
          /\ Segments[i].stream \in Int /\ Segments[i].has \in Int /\ Segments[i].to \in Nat
<1> DEFINE R == [from : Nat, to : Nat, sounds : BOOLEAN, motion : {"forward", "reverse", "hold"},
                 stream : Int, has : Int]
<1>1. Segments \in Seq(R) /\ Segments # <<>>
  BY SoundAssumption
<1>2. Len(Segments) \in Nat \ {0} /\ DOMAIN Segments = 1..Len(Segments)
  <2> HIDE DEF R
  <2>1. QED
    BY <1>1, EmptySeq, LenProperties
<1>3. \A i \in DOMAIN Segments : Segments[i] \in R
  <2> HIDE DEF R
  <2>1. QED
    BY <1>1, <1>2, ElementOfSeq
<1>4. \A i \in DOMAIN Segments :
          /\ i \in Int /\ Segments[i].from \in Int /\ Segments[i].to \in Int /\ Segments[i].sounds \in BOOLEAN
          /\ Segments[i].stream \in Int /\ Segments[i].has \in Int /\ Segments[i].to \in Nat
  BY <1>2, <1>3
<1>5. SoundEnd \in Nat
  BY <1>2, <1>4 DEF SoundEnd
<1>6. QED
  BY <1>2, <1>4, <1>5

\* Every position before the end is in a segment, as they follow each other:
\* in the first that ends after it.
LEMMA SegmentAtIs ==
    ASSUME NEW t \in Nat, t < SoundEnd
    PROVE  SegmentAt(t) \in DOMAIN Segments /\ Segments[SegmentAt(t)].from <= t /\ t < Segments[SegmentAt(t)].to
<1> DEFINE later == {i \in DOMAIN Segments : t < Segments[i].to}
           i == Min(later)
           n == Len(Segments)
<1>1. n \in Nat \ {0} /\ DOMAIN Segments = 1..n
  BY SegmentsAre
<1>2. n \in later
  BY <1>1 DEF SoundEnd
<1>3. later \subseteq Int /\ IsFiniteSet(later)
  <2>1. later \subseteq 1..n /\ 1..n \subseteq Int /\ IsFiniteSet(1..n)
    <3>1. \A m \in Int : IsFiniteSet(1..m)
      BY FS_Interval
    <3>2. QED
      BY <1>1, <3>1
  <2> HIDE DEF later
  <2>2. QED
    BY <2>1, FS_Subset
<1>4. i \in later /\ \A j \in later : i <= j
  <2> HIDE DEF later
  <2>1. QED
    BY <1>2, <1>3, MinIsIn
<1>5. i \in 1..n /\ t < Segments[i].to
  BY <1>1, <1>4
<1> HIDE DEF i, n
<1>6. Segments[i].from <= t
  <2>1. CASE i = 1
    BY <2>1, SoundAssumption
  <2>2. CASE i # 1
    <3>1. i - 1 \in 1..(n - 1) /\ i - 1 \in 1..n /\ (i - 1) + 1 = i /\ ~(i <= i - 1)
      BY <1>1, <1>5, <2>2
    <3>2. i - 1 \notin later
      BY <1>4, <3>1
    <3>3. ~(t < Segments[i - 1].to) /\ Segments[i - 1].to \in Int
      BY <1>1, <3>1, <3>2, SegmentsAre
    <3>4. Segments[i - 1].to = Segments[i].from
      BY <3>1, SoundAssumption DEF n
    <3>5. QED
      BY <3>3, <3>4
  <2>3. QED
    BY <2>1, <2>2
<1>7. \E j \in DOMAIN Segments : Segments[j].from <= t /\ t < Segments[j].to
  BY <1>1, <1>5, <1>6
<1>8. QED
  BY <1>7 DEF SegmentAt

LEMMA SoundingIs ==
    ASSUME NEW i, NEW t \in Int
    PROVE  Sounding(i, t) \in {t, Silence} /\ Sounding(i, t) \in Int
BY DEF Sounding, Silence

\* A lane that was started has decoded nothing.
LEMMA StartedIsFresh ==
    ASSUME NEW i \in DOMAIN Segments, NEW t \in Int, NEW chosen \in [DOMAIN Segments -> Nat]
    PROVE  /\ StartLane(i, t, chosen) = NoLane
              \/ /\ Fresh(StartLane(i, t, chosen))
                 /\ StartLane(i, t, chosen).chain = chosen[StartLane(i, t, chosen).segment]
           /\ Segments[i].sounds => /\ Fresh(StartLane(i, t, chosen)) /\ StartLane(i, t, chosen).segment = i
                                    /\ StartLane(i, t, chosen).starts = t
                                    /\ StartLane(i, t, chosen).chain = chosen[i]
<1>1. CASE Segments[i].sounds
  <2> DEFINE voice == SoundLane(i, t, chosen[i])
  <2>1. StartLane(i, t, chosen) = voice
    BY <1>1 DEF StartLane
  <2>2. /\ DOMAIN voice = SoundFields /\ voice.segment = i /\ voice.starts = t /\ voice.chain = chosen[i]
        /\ voice.ring = <<>> /\ voice.hand = <<>> /\ voice.next = t
        /\ ~voice.starved /\ ~voice.astray /\ ~voice.shifted
    BY DEF SoundLane, SoundFields
  <2> HIDE DEF voice
  <2>3. IsSound(voice)
    <3>1. <<>> \in Seq(Int) /\ chosen[i] \in Nat
      BY EmptySeq
    <3>2. QED
      BY <2>2, <3>1 DEF IsSound
  <2>4. Plays(voice, t)
    <3>1. Len(voice.ring) = 0 /\ Len(voice.hand) = 0 /\ \A k \in 1..0 : FALSE
      BY <2>2, EmptySeq
    <3>2. Off(voice, t) = 0
      <4>1. t - t - 0 - 0 = 0
        OBVIOUS
      <4>2. QED
        BY <2>2, <3>1, <4>1 DEF Off
    <3>3. QED
      BY <2>2, <3>1, <3>2 DEF Plays
  <2>5. QED
    BY <2>1, <2>2, <2>3, <2>4 DEF Fresh
<1>2. CASE ~Segments[i].sounds
  BY <1>2 DEF StartLane
<1>3. QED
  BY <1>1, <1>2

\* What a decoder makes of a lane: nothing but what comes next is added.
SameLane(made, voice) ==
    /\ made.segment = voice.segment /\ made.starts = voice.starts /\ made.chain = voice.chain
    /\ made.shifted = voice.shifted /\ made.starved = voice.starved /\ made.astray = voice.astray

LEMMA PushedPlays ==
    ASSUME NEW voice, IsSound(voice), NEW made, PushSound(voice, made)
    PROVE  IsSound(made) /\ SameLane(made, voice) /\ \A t \in Int : Plays(voice, t) => Plays(made, t)
<1> DEFINE r == Len(voice.ring)
           h == Len(voice.hand)
<1>1. voice.ring \in Seq(Int) /\ voice.hand \in Seq(Int) /\ voice.hand # <<>> /\ voice.next \in Int
      /\ DOMAIN voice = SoundFields
  BY DEF IsSound, PushSound
<1>2. r \in Nat /\ h \in Nat \ {0}
  BY <1>1, EmptySeq, LenProperties
<1>3. /\ Head(voice.hand) = voice.hand[1] /\ Head(voice.hand) \in Int /\ Tail(voice.hand) \in Seq(Int)
      /\ Len(Tail(voice.hand)) = h - 1
      /\ \A k \in 1..(h - 1) : Tail(voice.hand)[k] = voice.hand[k + 1]
  <2>1. Head(voice.hand) = voice.hand[1]
    BY <1>1
  <2>2. QED
    BY <1>1, <2>1, HeadTailProperties
<1>4. /\ Append(voice.ring, Head(voice.hand)) \in Seq(Int) /\ Len(Append(voice.ring, Head(voice.hand))) = r + 1
      /\ \A k \in 1..r : Append(voice.ring, Head(voice.hand))[k] = voice.ring[k]
      /\ Append(voice.ring, Head(voice.hand))[r + 1] = voice.hand[1]
  BY <1>1, <1>3, AppendProperties
<1>5. /\ DOMAIN made = SoundFields /\ SameLane(made, voice) /\ made.next = voice.next
      /\ made.ring = Append(voice.ring, Head(voice.hand)) /\ made.hand = Tail(voice.hand)
  BY <1>1 DEF PushSound, SoundFields, SameLane
<1>6. IsSound(made)
  BY <1>3, <1>4, <1>5 DEF IsSound, SameLane
<1>7. ASSUME NEW t \in Int, Plays(voice, t) PROVE Plays(made, t)
  <2> DEFINE o == Off(voice, t)
  <2>1. Off(made, t) = o /\ o \in Int /\ o \in (IF voice.shifted THEN {0, 1} ELSE {0})
    <3>1. \A n \in Int, a, b \in Nat : n - t - (a + 1) - (b - 1) = n - t - a - b /\ n - t - a - b \in Int
      OBVIOUS
    <3>2. o = voice.next - t - r - h /\ Off(made, t) = voice.next - t - (r + 1) - (h - 1)
      BY <1>3, <1>4, <1>5 DEF Off
    <3>3. o \in (IF voice.shifted THEN {0, 1} ELSE {0})
      BY <1>7 DEF Plays
    <3> HIDE DEF o, r, h
    <3>4. QED
      BY <1>1, <1>2, <3>1, <3>2, <3>3
  <2> HIDE DEF o
  <2>2. /\ \A k \in 1..r : May(voice, voice.ring[k], t + o + k - 1)
        /\ \A k \in 1..h : May(voice, voice.hand[k], t + o + r + k - 1)
    BY <1>7 DEF Plays, o
  <2> HIDE DEF r, h
  <2>3. \A u, x : May(made, x, u) <=> May(voice, x, u)
    BY <1>5 DEF May, SameLane
  <2>4. ASSUME NEW k \in 1..(r + 1) PROVE May(made, made.ring[k], t + o + k - 1)
    <3>1. CASE k \in 1..r
      BY <1>4, <1>5, <2>2, <2>3, <3>1
    <3>2. CASE k = r + 1
      <4>1. May(voice, voice.hand[1], t + o + r + 1 - 1)
        BY <1>2, <2>2
      <4>2. t + o + r + 1 - 1 = t + o + k - 1
        BY <1>2, <2>1, <3>2
      <4>3. QED
        BY <1>4, <1>5, <2>3, <3>2, <4>1, <4>2
    <3>3. QED
      BY <1>2, <3>1, <3>2
  <2>5. ASSUME NEW k \in 1..(h - 1) PROVE May(made, made.hand[k], t + o + (r + 1) + k - 1)
    <3>1. k + 1 \in 1..h /\ t + o + r + (k + 1) - 1 = t + o + (r + 1) + k - 1
      BY <1>2, <2>1
    <3>2. May(voice, voice.hand[k + 1], t + o + r + (k + 1) - 1)
      BY <2>2, <3>1
    <3>3. QED
      BY <1>3, <1>5, <2>3, <3>1, <3>2
  <2>6. Len(made.ring) = r + 1 /\ Len(made.hand) = h - 1
    BY <1>3, <1>4, <1>5 DEF r, h
  <2>7. QED
    BY <1>5, <2>1, <2>4, <2>5, <2>6 DEF Plays, SameLane
<1>8. QED
  BY <1>5, <1>6, <1>7

LEMMA DecodedPlays ==
    ASSUME NEW voice, IsSound(voice), NEW made, DecodeSound(voice, made)
    PROVE  IsSound(made) /\ SameLane(made, voice) /\ \A t \in Int : Plays(voice, t) => Plays(made, t)
<1> DEFINE r == Len(voice.ring)
           s == Segments[voice.segment]
           p == voice.next
           q == Min({voice.next + ReverseChunk, s.to})
<1>1. voice.ring \in Seq(Int) /\ voice.hand = <<>> /\ p \in Int /\ voice.segment \in DOMAIN Segments
      /\ DOMAIN voice = SoundFields
  BY DEF IsSound, DecodeSound
<1>2. r \in Nat /\ Len(voice.hand) = 0
  BY <1>1, EmptySeq, LenProperties
<1>3. s.to \in Int /\ ReverseChunk \in Nat \ {0}
  BY <1>1, SegmentsAre, SoundAssumption
<1>4. CASE /\ s.motion = "forward" /\ p < s.has /\ HasPlace(voice)
           /\ made = [voice EXCEPT !.ring = Append(@, Sounding(voice.segment, p)), !.next = p + 1]
  <2> DEFINE x == Sounding(voice.segment, p)
             longer == Append(voice.ring, x)
  <2>1. x \in Int
    BY <1>1, SoundingIs
  <2>2. /\ longer \in Seq(Int) /\ Len(longer) = r + 1
        /\ \A k \in 1..r : longer[k] = voice.ring[k]
        /\ longer[r + 1] = x
    BY <1>1, <2>1, AppendProperties
  <2> HIDE DEF longer, x
  <2>3. /\ DOMAIN made = SoundFields /\ SameLane(made, voice) /\ made.next = p + 1
        /\ made.ring = longer /\ made.hand = <<>>
    BY <1>1, <1>4 DEF SoundFields, SameLane, longer, x
  <2>4. IsSound(made)
    BY <1>1, <2>2, <2>3, EmptySeq DEF IsSound, SameLane
  <2>5. ASSUME NEW t \in Int, Plays(voice, t) PROVE Plays(made, t)
    <3> DEFINE o == Off(voice, t)
    <3>1. o = p - t - r - 0 /\ Off(made, t) = (p + 1) - t - (r + 1) - 0
      BY <1>2, <2>2, <2>3, EmptySeq DEF Off
    <3>2. Off(made, t) = o /\ o \in Int /\ o \in (IF voice.shifted THEN {0, 1} ELSE {0})
          /\ t + o + (r + 1) - 1 = p
      <4>1. o \in (IF voice.shifted THEN {0, 1} ELSE {0})
        BY <2>5 DEF Plays
      <4>2. \A a, b \in Int, m \in Nat : /\ (a + 1) - b - (m + 1) - 0 = a - b - m - 0 /\ a - b - m - 0 \in Int
                                        /\ b + (a - b - m - 0) + (m + 1) - 1 = a
        OBVIOUS
      <4> HIDE DEF o, r, p
      <4>3. QED
        BY <1>1, <1>2, <3>1, <4>1, <4>2
    <3> HIDE DEF o
    <3>3. \A k \in 1..r : May(voice, voice.ring[k], t + o + k - 1)
      BY <2>5 DEF Plays, o
    <3> HIDE DEF r
    <3>4. \A u, y : May(made, y, u) <=> May(voice, y, u)
      BY <2>3 DEF May, SameLane
    <3>5. ASSUME NEW k \in 1..(r + 1) PROVE May(made, made.ring[k], t + o + k - 1)
      <4>1. CASE k \in 1..r
        BY <2>2, <2>3, <3>3, <3>4, <4>1
      <4>2. CASE k = r + 1
        <5>1. May(voice, x, p)
          BY DEF May, x
        <5>2. QED
          BY <2>2, <2>3, <3>2, <3>4, <4>2, <5>1
      <4>3. QED
        BY <1>2, <4>1, <4>2
    <3>6. Len(made.ring) = r + 1 /\ Len(made.hand) = 0 /\ \A k \in 1..0 : FALSE
      BY <2>2, <2>3, EmptySeq DEF r
    <3>7. QED
      BY <2>3, <3>2, <3>5, <3>6 DEF Plays, SameLane
  <2>6. QED
    BY <2>3, <2>4, <2>5
<1>5. CASE /\ s.motion = "reverse" /\ p < s.to
           /\ \E off \in {-1, 0, 1} :
                 made = [voice EXCEPT !.next = q,
                           !.hand = Resized([k \in 1..(q - p + off) |-> Sounding(voice.segment, p + k - 1)], q - p)]
  <2>1. PICK off \in {-1, 0, 1} :
                 made = [voice EXCEPT !.next = q,
                           !.hand = Resized([k \in 1..(q - p + off) |-> Sounding(voice.segment, p + k - 1)], q - p)]
    BY <1>5
  <2>2. q \in Int /\ q > p
    <3>1. p + ReverseChunk \in Int /\ p + ReverseChunk > p
      BY <1>1, <1>3
    <3>2. q = IF p + ReverseChunk <= s.to THEN p + ReverseChunk ELSE s.to
      BY <1>3, <3>1, LesserOf
    <3>3. QED
      BY <1>3, <1>5, <3>1, <3>2
  <2> HIDE DEF q
  <2> DEFINE n == q - p
             decoded == [k \in 1..(n + off) |-> Sounding(voice.segment, p + k - 1)]
             chunk == Resized(decoded, n)
  <2>3. n \in Nat \ {0} /\ n + off \in Nat
    BY <1>1, <2>2
  <2> HIDE DEF n
  <2>4. Len(decoded) = n + off /\ \A k \in 1..(n + off) : decoded[k] = Sounding(voice.segment, p + k - 1)
    BY <2>3
  <2> HIDE DEF decoded
  <2>5. chunk = [k \in 1..n |-> IF k <= n + off THEN decoded[k] ELSE Silence]
    BY <2>4 DEF Resized
  <2>6. ASSUME NEW k \in 1..n
        PROVE  chunk[k] \in {Sounding(voice.segment, p + k - 1), Silence} /\ chunk[k] \in Int
    <3>1. k \in Int /\ p + k - 1 \in Int
      BY <1>1, <2>3
    <3>2. Sounding(voice.segment, p + k - 1) \in Int /\ Silence \in Int
      BY <3>1, SoundingIs DEF Silence
    <3>3. k <= n + off => k \in 1..(n + off)
      BY <2>3, <3>1
    <3>4. QED
      BY <2>4, <2>5, <3>2, <3>3
  <2>7. chunk \in Seq(Int) /\ Len(chunk) = n
    <3>1. chunk \in [1..n -> Int]
      BY <2>5, <2>6
    <3> HIDE DEF chunk
    <3>2. QED
      BY <2>3, <3>1
  <2> HIDE DEF chunk
  <2>8. /\ DOMAIN made = SoundFields /\ SameLane(made, voice) /\ made.next = q
        /\ made.ring = voice.ring /\ made.hand = chunk
    BY <1>1, <2>1 DEF SoundFields, SameLane, chunk, decoded, n
  <2>9. IsSound(made)
    BY <1>1, <2>2, <2>7, <2>8 DEF IsSound, SameLane
  <2>10. ASSUME NEW t \in Int, Plays(voice, t) PROVE Plays(made, t)
    <3> DEFINE o == Off(voice, t)
    <3>1. o = p - t - r - 0 /\ Off(made, t) = q - t - r - n
      BY <1>2, <2>7, <2>8 DEF Off
    <3>2. Off(made, t) = o /\ o \in Int /\ o \in (IF voice.shifted THEN {0, 1} ELSE {0}) /\ t + o + r = p
      <4>1. o \in (IF voice.shifted THEN {0, 1} ELSE {0})
        BY <2>10 DEF Plays
      <4>2. n = q - p
        BY DEF n
      <4> HIDE DEF o, r
      <4>3. QED
        BY <1>1, <1>2, <2>2, <3>1, <4>1, <4>2
    <3> HIDE DEF o
    <3>3. \A k \in 1..r : May(voice, voice.ring[k], t + o + k - 1)
      BY <2>10 DEF Plays, o
    <3> HIDE DEF r
    <3>4. \A u, y : May(made, y, u) <=> May(voice, y, u)
      BY <2>8 DEF May, SameLane
    <3>5. ASSUME NEW k \in 1..n PROVE May(made, chunk[k], t + o + r + k - 1)
      <4>1. t + o + r + k - 1 = p + k - 1
        BY <3>2
      <4>2. May(voice, chunk[k], p + k - 1)
        BY <1>5, <2>6 DEF May
      <4>3. QED
        BY <3>4, <4>1, <4>2
    <3>6. Len(made.ring) = r /\ Len(made.hand) = n
      BY <2>7, <2>8 DEF r
    <3>7. QED
      BY <2>8, <3>2, <3>3, <3>4, <3>5, <3>6 DEF Plays, SameLane
  <2>11. QED
    BY <2>8, <2>9, <2>10
<1>6. CASE made = [voice EXCEPT !.finished = TRUE]
  <2>1. /\ DOMAIN made = SoundFields /\ SameLane(made, voice) /\ made.next = voice.next
        /\ made.ring = voice.ring /\ made.hand = voice.hand
    BY <1>1, <1>6 DEF SoundFields, SameLane
  <2>2. IsSound(made)
    BY <2>1 DEF IsSound, SameLane
  <2>3. \A t \in Int : Plays(voice, t) => Plays(made, t)
    BY <2>1 DEF Plays, Off, May, SameLane
  <2>4. QED
    BY <2>1, <2>2, <2>3
<1>7. QED
  BY <1>4, <1>5, <1>6 DEF DecodeSound, Decoded

LEMMA MadePlays ==
    ASSUME NEW voice, IsSound(voice), NEW made, Makes(voice, made)
    PROVE  IsSound(made) /\ SameLane(made, voice) /\ \A t \in Int : Plays(voice, t) => Plays(made, t)
BY PushedPlays, DecodedPlays DEF Makes

\* What is left of a lane's ring when some was taken.
LEMMA Dropped ==
    ASSUME NEW voice, IsSound(voice), NEW count \in Nat
    PROVE  LET rest == SubSeq(voice.ring, count + 1, Len(voice.ring))
           IN /\ rest \in Seq(Int)
              /\ count <= Len(voice.ring) =>
                    Len(rest) = Len(voice.ring) - count
                    /\ \A k \in 1..Len(rest) : rest[k] = voice.ring[count + k]
<1> DEFINE r == Len(voice.ring)
           rest == SubSeq(voice.ring, count + 1, r)
<1>1. voice.ring \in Seq(Int) /\ r \in Nat
  BY LenProperties DEF IsSound
<1> HIDE DEF r
<1>2. count + 1 \in Int /\ r \in Int
  BY <1>1
<1>3. \A i \in (count + 1)..r : voice.ring[i] \in Int
  <2>1. \A i \in (count + 1)..r : i \in 1..Len(voice.ring)
    BY <1>1 DEF r
  <2>2. QED
    BY <1>1, <2>1, ElementOfSeq
<1>4. /\ rest \in Seq(Int)
      /\ Len(rest) = IF count + 1 <= r THEN r - (count + 1) + 1 ELSE 0
      /\ \A i \in 1..(r - (count + 1) + 1) : rest[i] = voice.ring[(count + 1) + i - 1]
  BY <1>2, <1>3, SubSeqProperties
<1> HIDE DEF rest
<1>5. ASSUME count <= r
      PROVE  Len(rest) = r - count /\ \A k \in 1..Len(rest) : rest[k] = voice.ring[count + k]
  <2>1. Len(rest) = r - count
    BY <1>1, <1>4, <1>5
  <2>2. \A k \in 1..(r - count) : k \in 1..(r - (count + 1) + 1) /\ (count + 1) + k - 1 = count + k
    BY <1>1
  <2>3. QED
    BY <1>4, <2>1, <2>2
<1>6. QED
  BY <1>4, <1>5 DEF rest, r

LEMMA LeftPlays ==
    ASSUME NEW voice, NEW t \in Int, Current(voice, t), NEW count \in Nat
    PROVE  /\ Current(LeftAfter(voice, count), t + count)
           /\ LeftAfter(voice, count).segment = voice.segment /\ LeftAfter(voice, count).chain = voice.chain
           /\ LeftAfter(voice, count) # NoLane
<1> DEFINE left == LeftAfter(voice, count)
           r == Len(voice.ring)
           rest == SubSeq(voice.ring, count + 1, r)
<1>1. IsSound(voice) /\ voice # NoLane /\ DOMAIN voice = SoundFields /\ r \in Nat
  <2>1. DOMAIN NoLane = {"segment"}
    BY DEF NoLane
  <2>2. "ring" \in SoundFields /\ "ring" \notin {"segment"}
    BY DEF SoundFields
  <2>3. QED
    BY <2>1, <2>2, LenProperties DEF Current, IsSound
<1>2. left = [voice EXCEPT !.ring = rest, !.starved = @ \/ r < count]
  BY <1>1 DEF LeftAfter
<1>3. /\ rest \in Seq(Int)
      /\ count <= r => Len(rest) = r - count /\ \A k \in 1..Len(rest) : rest[k] = voice.ring[count + k]
  BY <1>1, Dropped
<1> HIDE DEF rest
<1>4. /\ DOMAIN left = SoundFields /\ left.segment = voice.segment /\ left.starts = voice.starts
      /\ left.chain = voice.chain /\ left.hand = voice.hand /\ left.next = voice.next /\ left.ring = rest
      /\ left.shifted = voice.shifted /\ left.astray = voice.astray /\ left.starved = (voice.starved \/ r < count)
  BY <1>1, <1>2 DEF SoundFields
<1> HIDE DEF left
<1>5. IsSound(left)
  BY <1>1, <1>3, <1>4 DEF IsSound
<1>6. ASSUME ~left.starved, ~left.astray PROVE Plays(left, t + count)
  <2> DEFINE o == Off(voice, t)
             h == Len(voice.hand)
  <2>1. Plays(voice, t) /\ count <= r
    <3>1. ~(voice.starved \/ r < count) /\ ~voice.astray
      BY <1>4, <1>6
    <3>2. ~(r < count) /\ Plays(voice, t)
      BY <3>1 DEF Current
    <3> HIDE DEF r
    <3>3. count <= r
      BY <1>1, <3>2
    <3>4. QED
      BY <3>2, <3>3
  <2>2. o \in (IF voice.shifted THEN {0, 1} ELSE {0})
    BY <2>1 DEF Plays
  <2>3. h \in Nat /\ voice.next \in Int
    BY <1>1, LenProperties DEF IsSound
  <2>4. o = voice.next - t - r - h /\ Off(left, t + count) = voice.next - (t + count) - (r - count) - h
    BY <1>3, <1>4, <2>1 DEF Off
  <2>5. /\ \A k \in 1..r : May(voice, voice.ring[k], t + o + k - 1)
        /\ \A k \in 1..h : May(voice, voice.hand[k], t + o + r + k - 1)
    BY <2>1 DEF Plays
  <2>6. Len(left.ring) = r - count /\ Len(left.hand) = h
    BY <1>3, <1>4, <2>1
  <2> HIDE DEF o, h, r
  <2>7. Off(left, t + count) = o /\ o \in Int
    BY <1>1, <2>3, <2>4
  <2>8. \A u, x : May(left, x, u) <=> May(voice, x, u)
    BY <1>4 DEF May
  <2>9. ASSUME NEW k \in 1..(r - count) PROVE May(left, left.ring[k], (t + count) + o + k - 1)
    <3>1. count + k \in 1..r /\ t + o + (count + k) - 1 = (t + count) + o + k - 1
      BY <1>1, <2>7
    <3>2. left.ring[k] = voice.ring[count + k]
      BY <1>3, <1>4, <2>1, <2>6 DEF r
    <3>3. QED
      BY <2>5, <2>8, <3>1, <3>2
  <2>10. ASSUME NEW k \in 1..h PROVE May(left, left.hand[k], (t + count) + o + (r - count) + k - 1)
    <3>1. t + o + r + k - 1 = (t + count) + o + (r - count) + k - 1
      BY <1>1, <2>3, <2>7
    <3>2. QED
      BY <1>4, <2>5, <2>8, <3>1
  <2>11. QED
    BY <1>4, <2>2, <2>6, <2>7, <2>9, <2>10 DEF Plays
<1>7. left # NoLane
  <2>1. DOMAIN NoLane = {"segment"}
    BY DEF NoLane
  <2>2. "ring" \in SoundFields /\ "ring" \notin {"segment"}
    BY DEF SoundFields
  <2>3. QED
    BY <1>4, <2>1, <2>2
<1>8. Current(left, t + count)
  BY <1>5, <1>6 DEF Current
<1>9. QED
  BY <1>4, <1>7, <1>8 DEF left

\* A lane that takes over late is at the position, or a frame ahead of it.
LEMMA LatePlays ==
    ASSUME NEW voice, Fresh(voice), NEW t \in Int, voice.starts <= t, Behind(voice, t) <= Len(voice.ring)
    PROVE  LET made == Discarded(voice, Behind(voice, t))
           IN /\ Current(made, t) /\ made.segment = voice.segment /\ made.chain = voice.chain
              /\ made.shifted /\ ~made.starved /\ ~made.astray
              /\ Len(made.ring) = Len(voice.ring) - Behind(voice, t)
<1> DEFINE b == Behind(voice, t)
           made == Discarded(voice, b)
           r == Len(voice.ring)
           h == Len(voice.hand)
           rest == SubSeq(voice.ring, b + 1, r)
<1>1. IsSound(voice) /\ DOMAIN voice = SoundFields /\ r \in Nat /\ h \in Nat /\ voice.starts \in Int /\ voice.next \in Int
      /\ ~voice.starved /\ ~voice.astray /\ ~voice.shifted /\ Plays(voice, voice.starts)
  BY LenProperties DEF Fresh, IsSound
<1>2. b \in Nat /\ b - (t - voice.starts) \in {0, 1}
  <2>1. t - voice.starts \in Nat
    BY <1>1
  <2>2. b = IF t - voice.starts >= 1 THEN t - voice.starts ELSE 1
    BY <2>1, GreaterOf DEF Behind, FramesCovering
  <2>3. QED
    BY <2>1, <2>2
<1>3. b <= r
  OBVIOUS
<1> HIDE DEF b
<1>4. /\ rest \in Seq(Int) /\ Len(rest) = r - b /\ \A k \in 1..(r - b) : rest[k] = voice.ring[b + k]
  BY <1>1, <1>2, <1>3, Dropped
<1> HIDE DEF rest
<1>5. /\ DOMAIN made = SoundFields /\ made.segment = voice.segment /\ made.starts = voice.starts
      /\ made.chain = voice.chain /\ made.hand = voice.hand /\ made.next = voice.next /\ made.ring = rest
      /\ made.shifted /\ made.astray = voice.astray /\ made.starved = voice.starved
  BY <1>1 DEF SoundFields, Discarded, rest
<1> HIDE DEF made
<1>6. IsSound(made)
  BY <1>1, <1>4, <1>5 DEF IsSound
<1>7. Plays(made, t)
  <2> DEFINE o == Off(voice, voice.starts)
             d == b - (t - voice.starts)
  <2>1. o = 0 /\ o = voice.next - voice.starts - r - h /\ Off(made, t) = voice.next - t - (r - b) - h
    BY <1>1, <1>4, <1>5 DEF Plays, Off
  <2>2. /\ \A k \in 1..r : May(voice, voice.ring[k], voice.starts + 0 + k - 1)
        /\ \A k \in 1..h : May(voice, voice.hand[k], voice.starts + 0 + r + k - 1)
    BY <1>1, <2>1 DEF Plays
  <2>3. Len(made.ring) = r - b /\ Len(made.hand) = h
    BY <1>4, <1>5
  <2> HIDE DEF o, h, r
  <2>4. Off(made, t) = d /\ d \in {0, 1} /\ d \in Int
    <3>1. \A n, from, u \in Int, x, y, z \in Nat :
             0 = n - from - x - y => n - u - (x - z) - y = z - (u - from)
      OBVIOUS
    <3>2. 0 = voice.next - voice.starts - r - h
      BY <2>1
    <3>3. voice.next - t - (r - b) - h = d
      <4>1. /\ voice.next \in Int /\ voice.starts \in Int /\ t \in Int
            /\ r \in Nat /\ h \in Nat /\ b \in Nat
        BY <1>1, <1>2
      <4>2. QED
        BY ONLY <3>1, <3>2, <4>1 DEF d
    <3>4. d \in {0, 1}
      BY <1>2
    <3>5. QED
      BY <2>1, <3>3, <3>4
  <2>5. \A u, x : May(made, x, u) <=> May(voice, x, u)
    BY <1>5 DEF May
  <2>6. ASSUME NEW k \in 1..(r - b) PROVE May(made, made.ring[k], t + d + k - 1)
    <3>1. b + k \in 1..r /\ voice.starts + 0 + (b + k) - 1 = t + d + k - 1
      BY <1>1, <1>2
    <3>2. QED
      BY <1>4, <1>5, <2>2, <2>5, <3>1
  <2>7. ASSUME NEW k \in 1..h PROVE May(made, made.hand[k], t + d + (r - b) + k - 1)
    <3>1. voice.starts + 0 + r + k - 1 = t + d + (r - b) + k - 1
      BY <1>1, <1>2
    <3>2. QED
      BY <1>5, <2>2, <2>5, <3>1
  <2> HIDE DEF d
  <2>8. QED
    BY <1>5, <2>3, <2>4, <2>6, <2>7 DEF Plays
<1>8. QED
  BY <1>1, <1>4, <1>5, <1>6, <1>7 DEF Current, made, b

\* What is taken of a lane is its sound: unless it comes short.
LEMMA TakenIsSound ==
    ASSUME NEW voice, NEW t \in Int, Current(voice, t), NEW count \in Nat,
           ~voice.starved, ~voice.astray, ~(Len(voice.ring) < count)
    PROVE  /\ Ahead(voice, t, count) \subseteq (IF voice.shifted THEN {0, 1} ELSE {0})
           /\ Missed(voice, t, count) => voice.shifted \/ Segments[voice.segment].motion = "reverse"
<1> DEFINE r == Len(voice.ring)
           o == Off(voice, t)
           taken == TakenSound(voice, count)
<1>1. IsSound(voice) /\ Plays(voice, t) /\ r \in Nat
  BY LenProperties DEF Current, IsSound
<1>2. voice # NoLane
  <2>1. DOMAIN NoLane = {"segment"}
    BY DEF NoLane
  <2>2. "ring" \in SoundFields /\ "ring" \notin {"segment"}
    BY DEF SoundFields
  <2>3. QED
    BY <1>1, <2>1, <2>2 DEF IsSound
<1>3. o \in (IF voice.shifted THEN {0, 1} ELSE {0}) /\ \A k \in 1..r : May(voice, voice.ring[k], t + o + k - 1)
  BY <1>1 DEF Plays
<1>4. count <= r
  BY <1>1
<1>5. ASSUME NEW k \in 1..count PROVE taken[k] = voice.ring[k] /\ May(voice, taken[k], t + o + k - 1)
  <2>1. k \in 1..r /\ k <= r
    BY <1>1, <1>4
  <2>2. taken[k] = voice.ring[k]
    BY <1>2, <2>1 DEF TakenSound
  <2>3. QED
    BY <1>3, <2>1, <2>2
<1> HIDE DEF taken, o, r
<1>6. o \in Int
  BY <1>3
<1>7. ASSUME NEW k \in 1..count, taken[k] # Silence PROVE taken[k] - (t + k - 1) = o
  <2>1. k \in Int /\ t + o + k - 1 \in Int
    BY <1>6
  <2>2. taken[k] = t + o + k - 1
    BY <1>5, <1>7, <2>1, SoundingIs DEF May
  <2>3. QED
    BY <1>6, <2>1, <2>2
<1>8. Ahead(voice, t, count) \subseteq (IF voice.shifted THEN {0, 1} ELSE {0})
  <2>1. Ahead(voice, t, count) = {taken[k] - (t + k - 1) : k \in {j \in 1..count : taken[j] # Silence}}
    BY DEF Ahead, taken
  <2>2. \A x \in Ahead(voice, t, count) : x = o
    BY <1>7, <2>1
  <2>3. QED
    BY <1>3, <2>2
<1>9. ASSUME Missed(voice, t, count), ~voice.shifted PROVE Segments[voice.segment].motion = "reverse"
  <2>1. PICK k \in 1..count : taken[k] = Silence /\ Sounding(voice.segment, t + k - 1) # Silence
    BY <1>9 DEF Missed, taken
  <2>2. o = 0 /\ t + o + k - 1 = t + k - 1
    BY <1>3, <1>9
  <2>3. QED
    BY <1>5, <2>1, <2>2 DEF May
<1>10. QED
  BY <1>8, <1>9

-----------------------------------------------------------------------------
(* The walk                                                                  *)

\* The positions the walk stops at are finitely many: there is a next one.
Ends == {Segments[j].to : j \in DOMAIN Segments}

LEMMA LeastAmong ==
    ASSUME NEW a \in Int, NEW b \in Int, NEW S, S \subseteq Ends \cup {a, b}, NEW m \in S
    PROVE  Min(S) \in S /\ Min(S) \in Int /\ Min(S) <= m
<1>1. IsFiniteSet(Ends) /\ \A e \in Ends : e \in Int
  <2>1. \A n \in Int : IsFiniteSet(1..n)
    BY FS_Interval
  <2>2. IsFiniteSet(DOMAIN Segments)
    BY <2>1, SegmentsAre
  <2> DEFINE f == [j \in DOMAIN Segments |-> Segments[j].to]
  <2>3. IsFiniteSet({f[x] : x \in DOMAIN Segments}) /\ Ends = {f[x] : x \in DOMAIN Segments}
    BY <2>2, ImageIsFinite DEF Ends
  <2>4. QED
    BY <2>3, SegmentsAre DEF Ends
<1>2. IsFiniteSet(Ends \cup {a, b}) /\ \A e \in Ends \cup {a, b} : e \in Int
  <2>1. IsFiniteSet(Ends \cup {a}) /\ IsFiniteSet((Ends \cup {a}) \cup {b})
    BY <1>1, FS_AddElement
  <2>2. (Ends \cup {a}) \cup {b} = Ends \cup {a, b}
    OBVIOUS
  <2>3. QED
    BY <1>1, <2>1, <2>2
<1>3. IsFiniteSet(S) /\ S \subseteq Int /\ S # {}
  BY <1>2, FS_Subset
<1>4. QED
  BY <1>3, MinIsIn

LEMMA LoopsAre ==
    ASSUME loops \in Loops \cup {NoRange}
    PROVE  /\ WalkEnd \in Nat /\ WalkEnd <= SoundEnd
           /\ loops # NoRange => loops[1] \in Nat /\ loops[2] \in Nat /\ loops[1] < loops[2] /\ loops[2] <= SoundEnd
<1>1. SoundEnd \in Nat
  BY SegmentsAre
<1>2. loops # NoRange => loops[1] \in Nat /\ loops[2] \in Nat /\ loops[1] < loops[2] /\ loops[2] <= SoundEnd
  BY SoundAssumption
<1>3. QED
  BY <1>1, <1>2 DEF WalkEnd

\* A lane prepared is one started, at a position within the segments.
LEMMA PreparedIsFresh ==
    ASSUME loops \in Loops \cup {NoRange}, NEW t \in Nat, NEW chosen \in [DOMAIN Segments -> Nat]
    PROVE  \/ Prefetched(t, chosen) = NoLane
           \/ /\ Fresh(Prefetched(t, chosen))
              /\ Prefetched(t, chosen).chain = chosen[Prefetched(t, chosen).segment]
<1> DEFINE end == WalkEnd
           later == Ends \cup {end}
           S == {e \in later : e > t} \cup {end}
           boundary == Min(S)
<1>1. end \in Nat /\ end <= SoundEnd /\ SoundEnd \in Nat
  BY LoopsAre, SegmentsAre
<1>2. boundary \in S /\ boundary <= end
  <2>1. S \subseteq Ends \cup {end, end} /\ end \in S /\ end \in Int
    BY <1>1
  <2> HIDE DEF S, end
  <2>2. QED
    BY <2>1, LeastAmong
<1>3. boundary < end => boundary \in Nat /\ boundary < SoundEnd
  <2>1. boundary \in Ends \cup {end}
    BY <1>2
  <2>2. \A e \in Ends : e \in Nat
    BY SegmentsAre DEF Ends
  <2> HIDE DEF boundary, end
  <2>3. QED
    BY <1>1, <2>1, <2>2
<1>4. \A i \in DOMAIN Segments, u \in Int :
         \/ StartLane(i, u, chosen) = NoLane
         \/ /\ Fresh(StartLane(i, u, chosen))
            /\ StartLane(i, u, chosen).chain = chosen[StartLane(i, u, chosen).segment]
  BY StartedIsFresh
<1>5. Prefetched(t, chosen) =
         IF loops # NoRange /\ end - t < Prefetch /\ boundary >= end
         THEN StartLane(SegmentAt(loops[1]), loops[1], chosen)
         ELSE IF boundary - t < Prefetch /\ boundary < end
         THEN StartLane(SegmentAt(boundary), boundary, chosen)
         ELSE NoLane
  BY DEF Prefetched, Ends
<1> HIDE DEF boundary, end
<1>6. CASE loops # NoRange /\ end - t < Prefetch /\ boundary >= end
  <2>1. loops[1] \in Nat /\ loops[1] < SoundEnd
    BY <1>1, <1>6, LoopsAre
  <2>2. SegmentAt(loops[1]) \in DOMAIN Segments
    BY <2>1, SegmentAtIs
  <2>3. QED
    BY <1>4, <1>5, <1>6, <2>1, <2>2
<1>7. CASE ~(loops # NoRange /\ end - t < Prefetch /\ boundary >= end) /\ boundary - t < Prefetch /\ boundary < end
  <2>1. SegmentAt(boundary) \in DOMAIN Segments /\ boundary \in Int
    BY <1>3, <1>7, SegmentAtIs
  <2>2. QED
    BY <1>4, <1>5, <1>7, <2>1
<1>8. QED
  BY <1>5, <1>6, <1>7

LEMMA NoLaneIsNone == NoLane.segment = 0 /\ \A voice : IsSound(voice) => voice # NoLane /\ voice.segment # 0
<1>1. DOMAIN NoLane = {"segment"} /\ NoLane.segment = 0
  BY DEF NoLane
<1>2. "ring" \in SoundFields /\ "ring" \notin {"segment"}
  BY DEF SoundFields
<1>3. 0 \notin DOMAIN Segments
  BY SegmentsAre
<1>4. QED
  BY <1>1, <1>2, <1>3 DEF IsSound

\* A lane entered elsewhere than it starts plays astray.
LEMMA EnteredPlays ==
    ASSUME NEW voice, Fresh(voice), NEW t \in Int
    PROVE  LET made == [voice EXCEPT !.astray = voice.starts # t]
           IN Current(made, t) /\ made.segment = voice.segment /\ made.chain = voice.chain
<1> DEFINE made == [voice EXCEPT !.astray = voice.starts # t]
<1>1. IsSound(voice) /\ DOMAIN voice = SoundFields /\ ~voice.starved /\ ~voice.shifted /\ Plays(voice, voice.starts)
  BY DEF Fresh, IsSound
<1>2. /\ DOMAIN made = SoundFields /\ made.segment = voice.segment /\ made.starts = voice.starts
      /\ made.chain = voice.chain /\ made.ring = voice.ring /\ made.hand = voice.hand /\ made.next = voice.next
      /\ made.shifted = voice.shifted /\ made.starved = voice.starved /\ made.astray = (voice.starts # t)
  BY <1>1 DEF SoundFields
<1> HIDE DEF made
<1>3. IsSound(made)
  BY <1>1, <1>2 DEF IsSound
<1>4. CASE voice.starts = t
  <2>1. Plays(made, t)
    BY <1>1, <1>2, <1>4 DEF Plays, Off, May
  <2>2. QED
    BY <1>2, <1>3, <2>1 DEF Current, made
<1>5. CASE voice.starts # t
  BY <1>2, <1>3, <1>5 DEF Current, made
<1>6. QED
  BY <1>4, <1>5

\* A lane that keeps what was said of it, with a chain of the plan the walk has.
Good(voice, t, chosen) == voice = NoLane \/ (Current(voice, t) /\ voice.chain <= chosen[voice.segment])
Ready(voice, chosen) == voice = NoLane \/ (Fresh(voice) /\ voice.chain = chosen[voice.segment])

LEMMA WriteKeeps ==
    ASSUME SoundInv, WriteChunk
    PROVE  SoundInv' /\ (heard'.segment = heard.segment => heard'.chain >= heard.chain)
<1> DEFINE t == at
           i == SegmentAt(t)
           changed == TakesChange
           chosen == IF changed THEN slot ELSE chains
           coming == IF changed THEN Retuned(t) ELSE retuned
           next == UpcomingAfter(changed)
           cuts == {NextEdge(t), WalkEnd} \cup (IF coming # NoLane THEN {coming.starts} ELSE {})
           count == Min({SoundChunk, FramesCovering(Min({c \in cuts : c > t}) - t)})
           playing == PlaysIn(i, t, current, next, chosen)
           takes == coming # NoLane /\ TakesOver(coming, i, t, count)
           voice == IF ~Segments[i].sounds THEN NoLane
                   ELSE IF takes THEN Discarded(coming, Behind(coming, t)) ELSE playing
           wrote == t + count
           kept == IF Segments[i].sounds /\ current.segment # i THEN NoLane ELSE next
<1>1. /\ t < WalkEnd /\ at' = wrote /\ chains' = chosen
      /\ slot' = IF changed THEN NoChange ELSE slot
      /\ current' = LeftAfter(voice, count)
      /\ retuned' = IF ~Segments[i].sounds THEN coming
                    ELSE IF coming = NoLane \/ takes THEN NoLane
                    ELSE StillComing(coming, i, t, chosen)
      /\ upcoming' = IF kept # NoLane THEN kept ELSE Prefetched(wrote, chosen)
      /\ heard' = [segment |-> voice.segment, chain |-> IF voice = NoLane THEN 0 ELSE voice.chain,
                   ahead |-> IF voice = NoLane THEN {} ELSE Ahead(voice, t, count),
                   silent |-> voice # NoLane /\ Missed(voice, t, count),
                   shifted |-> voice # NoLane /\ voice.shifted,
                   starved |-> voice # NoLane /\ (voice.starved \/ Len(voice.ring) < count),
                   astray |-> voice # NoLane /\ voice.astray]
      /\ loops' = loops
  BY DEF WriteChunk
<1>2. /\ at \in 0..SoundEnd /\ loops \in Loops \cup {NoRange} /\ chains \in [DOMAIN Segments -> Nat]
      /\ slot = NoChange \/ (slot \in [DOMAIN Segments -> Nat] /\ \A j \in DOMAIN Segments : slot[j] >= chains[j])
      /\ Good(current, t, chains) /\ Ready(upcoming, chains) /\ Ready(retuned, chains)
  BY DEF SoundInv, SoundTyped, LanesPlay, Good, Ready
<1>3. t \in Nat /\ t < SoundEnd /\ WalkEnd \in Nat /\ WalkEnd <= SoundEnd /\ SoundEnd \in Nat
  BY <1>1, <1>2, LoopsAre, SegmentsAre
<1>4. i \in DOMAIN Segments /\ t < Segments[i].to
  BY <1>3, SegmentAtIs
<1> HIDE DEF i
<1>5. /\ chosen \in [DOMAIN Segments -> Nat] /\ \A j \in DOMAIN Segments : chosen[j] >= chains[j]
      /\ slot' = NoChange \/ (slot' \in [DOMAIN Segments -> Nat] /\ \A j \in DOMAIN Segments : slot'[j] >= chosen[j])
  <2>1. CASE changed
    BY <1>1, <1>2, <2>1 DEF TakesChange
  <2>2. CASE ~changed
    BY <1>1, <1>2, <2>2
  <2>3. QED
    BY <2>1, <2>2
<1>6. Ready(coming, chosen)
  <2>1. CASE changed /\ Restarts(t)
    <3>1. coming = StartLane(current.segment, t + RetuneAhead, slot) /\ chosen = slot
      BY <2>1 DEF Retuned
    <3>2. current.segment \in DOMAIN Segments
      BY <1>2, <2>1 DEF Restarts, Good, Current, IsSound
    <3>3. t + RetuneAhead \in Int
      BY <1>3, SoundAssumption
    <3> HIDE DEF coming, chosen
    <3>4. QED
      BY <1>5, <3>1, <3>2, <3>3, StartedIsFresh DEF Ready
  <2>2. CASE changed /\ ~Restarts(t)
    BY <2>2 DEF Ready, Retuned
  <2>3. CASE ~changed
    BY <1>2, <2>3
  <2>4. QED
    BY <2>1, <2>2, <2>3
<1>7. Ready(next, chosen)
  <2>1. CASE changed
    BY <2>1 DEF Ready, UpcomingAfter
  <2>2. CASE ~changed
    BY <1>2, <2>2 DEF UpcomingAfter
  <2>3. QED
    BY <2>1, <2>2
<1> HIDE DEF changed, coming, next
<1>8. count \in Nat /\ wrote \in Int /\ wrote \in 0..SoundEnd
  <2> DEFINE S == {c \in cuts : c > t}
             far == IF coming # NoLane THEN coming.starts ELSE WalkEnd
  <2>1. far \in Int
    BY <1>3, <1>6 DEF Ready, Fresh, IsSound
  <2>2. NextEdge(t) \in Ends
    <3> DEFINE E == {Segments[j].to : j \in {k \in DOMAIN Segments : Segments[k].to > t}}
    <3>1. SoundEnd \in E
      BY <1>3, SegmentsAre DEF SoundEnd
    <3>2. E \subseteq Ends \cup {0, 0} /\ E \subseteq Ends /\ 0 \in Int
      BY DEF Ends
    <3>3. NextEdge(t) = Min(E)
      BY DEF NextEdge
    <3> HIDE DEF E
    <3>4. QED
      BY <3>1, <3>2, <3>3, LeastAmong
  <2>3. S \subseteq Ends \cup {WalkEnd, far} /\ WalkEnd \in S
    BY <1>1, <2>2
  <2> HIDE DEF far, S
  <2>4. Min(S) \in S /\ Min(S) \in Int /\ Min(S) <= WalkEnd
    <3>1. WalkEnd \in Int
      BY <1>3
    <3>2. \A T : T \subseteq Ends \cup {WalkEnd, far} =>
                 \A m \in T : Min(T) \in T /\ Min(T) \in Int /\ Min(T) <= m
      BY <2>1, <3>1, LeastAmong
    <3>3. QED
      BY <2>3, <3>2
  <2>5. Min(S) > t
    BY <2>4 DEF S
  <2>6. FramesCovering(Min(S) - t) = Min(S) - t
    <3>1. Min(S) - t \in Int /\ Min(S) - t >= 1
      BY <1>3, <2>4, <2>5
    <3>2. QED
      BY <3>1, GreaterOf DEF FramesCovering
  <2>7. count = Min({SoundChunk, Min(S) - t})
    BY <2>6 DEF S
  <2>8. SoundChunk \in Nat \ {0} /\ Min(S) - t \in Nat \ {0}
    <3>1. SoundChunk \in Nat \ {0}
      BY SoundAssumption
    <3> DEFINE m == Min(S)
    <3>2. m \in Int /\ m > t
      BY <2>4, <2>5
    <3> HIDE DEF m
    <3>3. m - t \in Nat \ {0}
      BY <1>3, <3>2
    <3>4. QED
      BY <3>1, <3>3 DEF m
  <2> HIDE DEF count
  <2>9. count = IF SoundChunk <= Min(S) - t THEN SoundChunk ELSE Min(S) - t
    BY <2>7, <2>8, LesserOf
  <2> DEFINE m == Min(S)
  <2>10. m \in Int /\ m > t /\ m <= SoundEnd
    BY <1>3, <2>4, <2>5
  <2> HIDE DEF m
  <2>11. count \in Nat /\ count <= m - t
    BY <2>8, <2>9 DEF m
  <2>12. QED
    BY <1>3, <2>10, <2>11
<1> HIDE DEF count, cuts
<1>9. Good(playing, t, chosen) /\ (playing # NoLane => playing.segment = i)
      /\ (playing # NoLane /\ heard.segment = i => heard.chain <= playing.chain)
  <2>1. heard.segment = i => heard.chain <= chains[i] /\ heard.chain \in Nat /\ chains[i] \in Nat /\ chosen[i] \in Nat
                             /\ chosen[i] >= chains[i]
    BY <1>2, <1>4, <1>5, NoLaneIsNone, SegmentsAre DEF SoundInv, HeardLast
  <2>2. CASE current.segment = i
    <3>1. playing = current /\ current # NoLane
      BY <1>4, <2>2, NoLaneIsNone, SegmentsAre DEF PlaysIn
    <3>2. current.chain \in Nat /\ chains[i] \in Nat /\ chosen[i] \in Nat /\ chosen[i] >= chains[i]
      BY <1>2, <1>4, <1>5, <3>1 DEF Good, Current, IsSound
    <3> HIDE DEF chosen, playing
    <3>3. current.chain <= chosen[i]
      BY <1>2, <2>2, <3>1, <3>2 DEF Good
    <3>4. heard.segment = i => heard.chain <= current.chain
      BY <1>4, <2>2, SegmentsAre DEF SoundInv, HeardLast
    <3>5. QED
      BY <1>2, <2>2, <3>1, <3>3, <3>4 DEF Good
  <2>3. CASE current.segment # i /\ next.segment = i
    <3>1. next # NoLane
      BY <1>4, <2>3, NoLaneIsNone, SegmentsAre
    <3>2. playing = [next EXCEPT !.astray = next.starts # t]
      BY <2>3 DEF PlaysIn
    <3>3. Fresh(next) /\ next.chain = chosen[i]
      BY <1>7, <2>3, <3>1 DEF Ready
    <3> HIDE DEF playing, chosen
    <3>4. Current(playing, t) /\ playing.segment = i /\ playing.chain = chosen[i]
      BY <1>3, <2>3, <3>2, <3>3, EnteredPlays
    <3>5. chosen[i] \in Nat
      BY <1>4, <1>5
    <3>6. QED
      BY <2>1, <3>4, <3>5 DEF Good
  <2>4. CASE current.segment # i /\ next.segment # i
    <3>1. playing = StartLane(i, t, chosen)
      BY <2>4 DEF PlaysIn
    <3> HIDE DEF playing, chosen
    <3>2. CASE Segments[i].sounds
      <4>1. /\ Fresh(playing) /\ playing.segment = i /\ playing.starts = t /\ playing.chain = chosen[i]
        BY <1>3, <1>4, <1>5, <3>1, <3>2, StartedIsFresh
      <4>2. Current(playing, t)
        BY <4>1 DEF Fresh, Current
      <4>3. chosen[i] \in Nat
        BY <1>4, <1>5
      <4>4. QED
        BY <2>1, <4>1, <4>2, <4>3 DEF Good
    <3>3. CASE ~Segments[i].sounds
      BY <3>1, <3>3 DEF StartLane, Good
    <3>4. QED
      BY <3>2, <3>3
  <2>5. QED
    BY <2>2, <2>3, <2>4
<1> HIDE DEF playing
<1>10. Good(voice, t, chosen) /\ (voice # NoLane => voice.segment = i)
       /\ (voice # NoLane /\ heard.segment = i => heard.chain <= voice.chain)
  <2>1. CASE ~Segments[i].sounds
    BY <2>1 DEF Good
  <2>2. CASE Segments[i].sounds /\ ~takes
    BY <1>9, <2>2
  <2>3. CASE Segments[i].sounds /\ takes
    <3>1. voice = Discarded(coming, Behind(coming, t))
      BY <2>3
    <3>2. /\ coming # NoLane /\ coming.segment = i /\ coming.starts <= t
          /\ Len(coming.ring) >= Behind(coming, t) + count
      <4>1. coming # NoLane /\ coming.segment = i /\ t >= coming.starts
            /\ Len(coming.ring) >= Behind(coming, t) + count
        BY <2>3 DEF TakesOver
      <4>2. coming.starts \in Int
        BY <1>6, <4>1 DEF Ready, Fresh, IsSound
      <4>3. QED
        BY <1>3, <4>1, <4>2
    <3>3. Fresh(coming) /\ coming.chain = chosen[i]
      BY <1>6, <3>2 DEF Ready
    <3>4. Behind(coming, t) <= Len(coming.ring)
      <4>1. Len(coming.ring) \in Nat
        BY <3>3, LenProperties DEF Fresh, IsSound
      <4>2. t - coming.starts \in Int
        BY <1>3, <3>3 DEF Fresh, IsSound
      <4>3. Behind(coming, t) \in Int
        BY <4>2, GreaterOf DEF Behind, FramesCovering
      <4>4. QED
        BY <1>8, <3>2, <4>1, <4>3
    <3> HIDE DEF voice, chosen
    <3>5. Current(voice, t) /\ voice.segment = i /\ voice.chain = chosen[i]
      BY <1>3, <3>1, <3>2, <3>3, <3>4, LatePlays
    <3>6. heard.segment = i => heard.chain <= chosen[i]
      <4>1. heard.segment = i => heard.chain <= chains[i] /\ heard.chain \in Nat
        BY <1>4, SegmentsAre DEF SoundInv, HeardLast
      <4>2. chains[i] \in Nat /\ chosen[i] \in Nat /\ chosen[i] >= chains[i]
        BY <1>2, <1>4, <1>5
      <4>3. QED
        BY <4>1, <4>2
    <3>7. chosen[i] \in Nat
      BY <1>4, <1>5
    <3>8. QED
      BY <3>5, <3>6, <3>7 DEF Good
  <2>4. QED
    BY <2>1, <2>2, <2>3
<1>11. Ready(retuned', chosen)
  <2>1. CASE ~Segments[i].sounds
    BY <1>1, <1>6, <2>1
  <2>2. CASE Segments[i].sounds /\ (coming = NoLane \/ takes)
    BY <1>1, <2>2 DEF Ready
  <2>3. CASE Segments[i].sounds /\ ~(coming = NoLane \/ takes)
    <3>1. retuned' = StillComing(coming, i, t, chosen)
      BY <1>1, <2>3
    <3>2. t + RetuneAhead \in Int
      BY <1>3, SoundAssumption
    <3> HIDE DEF chosen
    <3>3. Ready(StartLane(i, t + RetuneAhead, chosen), chosen)
      BY <1>4, <1>5, <3>2, StartedIsFresh DEF Ready
    <3>4. Ready(NoLane, chosen)
      BY DEF Ready
    <3>5. QED
      BY <1>6, <3>1, <3>3, <3>4 DEF StillComing
  <2>4. QED
    BY <2>1, <2>2, <2>3
<1> HIDE DEF takes
<1>12. Ready(upcoming', chosen)
  <2>1. CASE kept # NoLane
    BY <1>1, <1>7, <2>1
  <2>2. CASE kept = NoLane
    <3>1. upcoming' = Prefetched(wrote, chosen) /\ wrote \in Nat
      BY <1>1, <1>8, <2>2
    <3> HIDE DEF chosen, wrote
    <3>2. QED
      BY <1>2, <1>5, <3>1, PreparedIsFresh DEF Ready
  <2>3. QED
    BY <2>1, <2>2
<1> HIDE DEF kept, voice
<1>13. /\ heard'.segment = voice.segment /\ heard'.chain = (IF voice = NoLane THEN 0 ELSE voice.chain)
       /\ heard'.ahead = (IF voice = NoLane THEN {} ELSE Ahead(voice, t, count))
       /\ heard'.silent = (voice # NoLane /\ Missed(voice, t, count))
       /\ heard'.shifted = (voice # NoLane /\ voice.shifted)
       /\ heard'.starved = (voice # NoLane /\ (voice.starved \/ Len(voice.ring) < count))
       /\ heard'.astray = (voice # NoLane /\ voice.astray)
  BY <1>1
<1>14. CASE voice = NoLane
  <2>1. current' = NoLane
    BY <1>1, <1>14 DEF LeftAfter
  <2>2. heard'.segment = 0 /\ heard'.chain = 0 /\ heard'.ahead = {} /\ ~heard'.silent
    BY <1>13, <1>14, NoLaneIsNone
  <2>3. SoundTyped'
    BY <1>1, <1>2, <1>5, <1>8 DEF SoundTyped
  <2>4. LanesPlay'
    BY <1>1, <1>11, <1>12, <2>1 DEF LanesPlay, Ready
  <2>5. HeardLast'
    BY <2>2 DEF HeardLast
  <2>6. SoundInTime'
    BY <2>2 DEF SoundInTime
  <2>7. heard.segment = 0 => heard.chain = 0
    BY DEF SoundInv, HeardLast
  <2>8. QED
    BY <2>2, <2>3, <2>4, <2>5, <2>6, <2>7 DEF SoundInv
<1>15. CASE voice # NoLane
  <2>1. Current(voice, t) /\ voice.segment = i /\ voice.chain <= chosen[i] /\ voice.chain \in Nat
    BY <1>10, <1>15 DEF Good, Current, IsSound
  <2>2. /\ Current(current', at') /\ current'.segment = i /\ current'.chain = voice.chain /\ current' # NoLane
    <3>1. current' = LeftAfter(voice, count) /\ at' = t + count
      BY <1>1
    <3>2. /\ Current(LeftAfter(voice, count), t + count)
          /\ LeftAfter(voice, count).segment = voice.segment /\ LeftAfter(voice, count).chain = voice.chain
          /\ LeftAfter(voice, count) # NoLane
      <4>1. at \in Int /\ count \in Nat /\ Current(voice, at)
        BY <1>3, <1>8, <2>1
      <4>2. QED
        BY ONLY <4>1, LeftPlays
    <3>3. QED
      BY <2>1, <3>1, <3>2
  <2>3. heard'.segment = i /\ heard'.chain = voice.chain
    BY <1>13, <1>15, <2>1
  <2>4. SoundTyped'
    BY <1>1, <1>2, <1>5, <1>8 DEF SoundTyped
  <2>5. LanesPlay'
    BY <1>1, <1>11, <1>12, <2>1, <2>2 DEF LanesPlay, Ready
  <2>6. HeardLast'
    <3>1. i # 0
      BY <1>4, SegmentsAre
    <3>2. QED
      BY <1>1, <1>4, <2>1, <2>2, <2>3, <3>1 DEF HeardLast
  <2>7. SoundInTime'
    <3>1. SUFFICES ASSUME ~heard'.starved, ~heard'.astray
                   PROVE  /\ heard'.ahead \subseteq (IF heard'.shifted THEN {0, 1} ELSE {0})
                          /\ heard'.silent => heard'.shifted \/ Segments[heard'.segment].motion = "reverse"
      BY DEF SoundInTime
    <3>2. ~voice.starved /\ ~voice.astray /\ ~(Len(voice.ring) < count)
      BY <1>13, <1>15, <3>1
    <3>3. /\ Ahead(voice, t, count) \subseteq (IF voice.shifted THEN {0, 1} ELSE {0})
          /\ Missed(voice, t, count) => voice.shifted \/ Segments[voice.segment].motion = "reverse"
      BY <1>3, <1>8, <2>1, <3>2, TakenIsSound
    <3>4. QED
      BY <1>13, <1>15, <3>3
  <2>8. heard.segment = i => heard'.chain >= heard.chain
    <3>1. heard.segment = i => heard.chain <= voice.chain /\ heard.chain \in Nat
      BY <1>10, <1>15 DEF SoundInv, HeardLast
    <3>2. QED
      BY <2>1, <2>3, <3>1
  <2>9. QED
    BY <2>3, <2>4, <2>5, <2>6, <2>7, <2>8 DEF SoundInv
<1>16. QED
  BY <1>14, <1>15

LEMMA DecodersKeep ==
    ASSUME SoundInv, Decoders
    PROVE  SoundInv' /\ heard' = heard
<1>1. UNCHANGED <<at, loops, chains, slot, heard>>
  BY DEF Decoders
<1>2. SoundTyped' /\ SoundInTime'
  BY <1>1 DEF SoundInv, SoundTyped, SoundInTime
<1>3. ASSUME NEW voice, NEW made, Makes(voice, made), voice = NoLane \/ IsSound(voice)
      PROVE  /\ voice # NoLane /\ made # NoLane /\ IsSound(voice) /\ IsSound(made) /\ SameLane(made, voice)
             /\ \A t \in Int : Plays(voice, t) => Plays(made, t)
  <2>1. voice # NoLane
    BY <1>3 DEF Makes, DecodeSound, PushSound
  <2>2. QED
    BY <1>3, <2>1, MadePlays, NoLaneIsNone
<1>4. ASSUME NEW voice, NEW made, Makes(voice, made), voice = NoLane \/ (Fresh(voice) /\ voice.chain = chains[voice.segment])
      PROVE  made # NoLane /\ Fresh(made) /\ made.chain = chains[made.segment]
  <2>1. voice = NoLane \/ IsSound(voice)
    BY <1>4 DEF Fresh
  <2>2. /\ made # NoLane /\ IsSound(voice) /\ IsSound(made) /\ SameLane(made, voice)
        /\ \A t \in Int : Plays(voice, t) => Plays(made, t)
    BY <1>3, <1>4, <2>1
  <2>3. voice.starts \in Int
    BY <2>2 DEF IsSound
  <2>4. Fresh(voice) /\ voice.chain = chains[voice.segment]
    BY <1>3, <1>4, <2>1
  <2>5. Plays(made, voice.starts) /\ ~made.starved /\ ~made.astray /\ ~made.shifted /\ made.starts = voice.starts
    BY <2>2, <2>3, <2>4 DEF Fresh, SameLane
  <2>6. Fresh(made)
    BY <2>2, <2>5 DEF Fresh
  <2>7. made.chain = chains[made.segment]
    BY <2>2, <2>4 DEF SameLane
  <2>8. QED
    BY <2>2, <2>6, <2>7
<1>5. CASE Makes(current, current') /\ UNCHANGED <<upcoming, retuned>>
  <2>1. current = NoLane \/ IsSound(current)
    BY DEF SoundInv, LanesPlay, Current
  <2>2. /\ current # NoLane /\ current' # NoLane /\ IsSound(current) /\ IsSound(current')
        /\ SameLane(current', current)
        /\ \A t \in Int : Plays(current, t) => Plays(current', t)
    BY <1>3, <1>5, <2>1
  <2>3. at \in Int
    BY SegmentsAre DEF SoundInv, SoundTyped
  <2>4. Current(current', at)
    BY <2>2, <2>3 DEF SoundInv, LanesPlay, Current, SameLane
  <2>5. LanesPlay'
    BY <1>1, <1>5, <2>2, <2>4 DEF SoundInv, LanesPlay, SameLane
  <2>6. HeardLast'
    BY <1>1, <2>2 DEF SoundInv, HeardLast, SameLane
  <2>7. QED
    BY <1>1, <1>2, <2>5, <2>6 DEF SoundInv
<1>6. CASE Makes(upcoming, upcoming') /\ UNCHANGED <<current, retuned>>
  <2>1. upcoming' # NoLane /\ Fresh(upcoming') /\ upcoming'.chain = chains[upcoming'.segment]
    BY <1>4, <1>6 DEF SoundInv, LanesPlay
  <2>2. LanesPlay'
    BY <1>1, <1>6, <2>1 DEF SoundInv, LanesPlay
  <2>3. HeardLast'
    BY <1>1, <1>6 DEF SoundInv, HeardLast
  <2>4. QED
    BY <1>1, <1>2, <2>2, <2>3 DEF SoundInv
<1>7. CASE Makes(retuned, retuned') /\ UNCHANGED <<current, upcoming>>
  <2>1. retuned' # NoLane /\ Fresh(retuned') /\ retuned'.chain = chains[retuned'.segment]
    BY <1>4, <1>7 DEF SoundInv, LanesPlay
  <2>2. LanesPlay'
    BY <1>1, <1>7, <2>1 DEF SoundInv, LanesPlay
  <2>3. HeardLast'
    BY <1>1, <1>7 DEF SoundInv, HeardLast
  <2>4. QED
    BY <1>1, <1>2, <2>2, <2>3 DEF SoundInv
<1>8. QED
  BY <1>5, <1>6, <1>7 DEF Decoders

LEMMA WrapKeeps ==
    ASSUME SoundInv, Wrap
    PROVE  SoundInv' /\ heard' = heard
<1>1. /\ loops # NoRange /\ at' = loops[1] /\ upcoming' = NoLane
      /\ UNCHANGED <<loops, chains, slot, retuned, heard>>
      /\ current' = IF Prepared(loops[1]) THEN upcoming
                    ELSE StartLane(SegmentAt(loops[1]), loops[1], chains)
  BY DEF Wrap
<1>2. loops[1] \in Nat /\ loops[1] < SoundEnd /\ loops[1] \in Int
  <2>1. loops[1] \in Nat /\ loops[2] \in Nat /\ loops[1] < loops[2] /\ loops[2] <= SoundEnd /\ SoundEnd \in Nat
    BY <1>1, LoopsAre, SegmentsAre DEF SoundInv, SoundTyped
  <2>2. QED
    BY <2>1
<1>3. SegmentAt(loops[1]) \in DOMAIN Segments
  BY <1>2, SegmentAtIs
<1>4. SoundTyped' /\ SoundInTime'
  <2>1. loops[1] \in 0..SoundEnd
    BY <1>2, SegmentsAre
  <2>2. QED
    BY <1>1, <2>1 DEF SoundInv, SoundTyped, SoundInTime
<1>5. current' = NoLane
      \/ (Current(current', at') /\ current'.segment \in DOMAIN Segments /\ current'.chain = chains[current'.segment])
  <2>1. CASE Prepared(loops[1])
    <3>1. Fresh(upcoming) /\ upcoming.chain = chains[upcoming.segment] /\ upcoming.starts = loops[1]
      BY <2>1 DEF Prepared, SoundInv, LanesPlay
    <3>2. QED
      BY <1>1, <2>1, <3>1 DEF Fresh, Current, IsSound
  <2>2. CASE ~Prepared(loops[1])
    <3> DEFINE voice == StartLane(SegmentAt(loops[1]), loops[1], chains)
    <3>1. chains \in [DOMAIN Segments -> Nat]
      BY DEF SoundInv, SoundTyped
    <3>2. Segments[SegmentAt(loops[1])].sounds =>
             /\ Fresh(voice) /\ voice.segment = SegmentAt(loops[1]) /\ voice.starts = loops[1]
             /\ voice.chain = chains[SegmentAt(loops[1])]
      BY <1>2, <1>3, <3>1, StartedIsFresh
    <3>3. ~Segments[SegmentAt(loops[1])].sounds => voice = NoLane
      BY DEF StartLane
    <3>4. current' = voice
      BY <1>1, <2>2
    <3> HIDE DEF voice
    <3>5. QED
      BY <1>1, <1>3, <3>2, <3>3, <3>4 DEF Fresh, Current
  <2>3. QED
    BY <2>1, <2>2
<1>6. LanesPlay'
  <2>1. \A j \in DOMAIN Segments : chains[j] <= chains[j]
    BY DEF SoundInv, SoundTyped
  <2>2. QED
    BY <1>1, <1>5, <2>1 DEF SoundInv, LanesPlay
<1>7. HeardLast'
  <2>1. heard.segment # 0 => heard.chain <= chains[heard.segment]
    BY DEF SoundInv, HeardLast
  <2>2. heard.segment # 0 /\ heard.segment = current'.segment => heard.chain <= current'.chain
    BY <1>5, <2>1, NoLaneIsNone
  <2>3. QED
    BY <1>1, <2>1, <2>2 DEF SoundInv, HeardLast
<1>8. QED
  BY <1>1, <1>4, <1>6, <1>7 DEF SoundInv

LEMMA ChangeKeeps ==
    ASSUME SoundInv, ChangeChain
    PROVE  SoundInv' /\ heard' = heard
<1>1. UNCHANGED <<at, loops, chains, current, upcoming, retuned, heard>>
  BY DEF ChangeChain
<1> DEFINE newest == IF slot = NoChange THEN chains ELSE slot
<1>2. PICK i \in DOMAIN Segments : slot' = [newest EXCEPT ![i] = @ + 1]
  BY DEF ChangeChain
<1>3. chains \in [DOMAIN Segments -> Nat]
  BY DEF SoundInv, SoundTyped
<1>4. newest \in [DOMAIN Segments -> Nat] /\ \A j \in DOMAIN Segments : newest[j] >= chains[j]
  BY <1>3 DEF SoundInv, SoundTyped
<1> HIDE DEF newest
<1>5. slot' \in [DOMAIN Segments -> Nat] /\ \A j \in DOMAIN Segments : slot'[j] >= chains[j]
  <2>1. \A j \in DOMAIN Segments : slot'[j] = IF j = i THEN newest[j] + 1 ELSE newest[j]
    BY <1>2, <1>4
  <2>2. slot' \in [DOMAIN Segments -> Nat]
    BY <1>2, <1>4
  <2>3. \A j \in DOMAIN Segments : newest[j] \in Nat /\ chains[j] \in Nat /\ newest[j] >= chains[j]
    BY <1>3, <1>4
  <2>4. QED
    BY <2>1, <2>2, <2>3
<1>6. SoundTyped'
  BY <1>1, <1>5 DEF SoundInv, SoundTyped
<1>7. LanesPlay' /\ HeardLast' /\ SoundInTime'
  BY <1>1 DEF SoundInv, LanesPlay, HeardLast, SoundInTime
<1>8. QED
  BY <1>1, <1>6, <1>7 DEF SoundInv

LEMMA RangeKeeps ==
    ASSUME SoundInv, SetRange
    PROVE  SoundInv' /\ heard' = heard
<1>1. loops' \in Loops \cup {NoRange} /\ UNCHANGED <<at, chains, slot, current, upcoming, retuned, heard>>
  BY DEF SetRange
<1>2. SoundTyped'
  BY <1>1 DEF SoundInv, SoundTyped
<1>3. LanesPlay' /\ HeardLast' /\ SoundInTime'
  BY <1>1 DEF SoundInv, LanesPlay, HeardLast, SoundInTime
<1>4. QED
  BY <1>1, <1>2, <1>3 DEF SoundInv

LEMMA SoundStarts == SoundInit => SoundInv
<1>1. SUFFICES ASSUME SoundInit PROVE SoundInv
  OBVIOUS
<1>2. 1 \in DOMAIN Segments /\ SoundEnd \in Nat
  BY SegmentsAre
<1>3. chains \in [DOMAIN Segments -> Nat] /\ \A j \in DOMAIN Segments : chains[j] = 0
  BY <1>1 DEF SoundInit
<1>4. SoundTyped
  BY <1>1, <1>2, <1>3 DEF SoundInit, SoundTyped
<1>5. current = NoLane \/ (Fresh(current) /\ current.starts = 0 /\ current.segment = 1 /\ current.chain = chains[1])
  <2>1. Segments[1].sounds =>
           /\ Fresh(StartLane(1, 0, chains)) /\ StartLane(1, 0, chains).segment = 1
           /\ StartLane(1, 0, chains).starts = 0 /\ StartLane(1, 0, chains).chain = chains[1]
    BY <1>2, <1>3, StartedIsFresh
  <2>2. ~Segments[1].sounds => StartLane(1, 0, chains) = NoLane
    BY DEF StartLane
  <2>3. QED
    BY <1>1, <2>1, <2>2 DEF SoundInit
<1>6. LanesPlay
  <2>1. at = 0 /\ upcoming = NoLane /\ retuned = NoLane /\ chains[1] <= chains[1]
    BY <1>1, <1>2, <1>3 DEF SoundInit
  <2>2. QED
    BY <1>5, <2>1 DEF LanesPlay, Fresh, Current
<1>7. heard.segment = 0 /\ heard.chain = 0 /\ heard.ahead = {} /\ ~heard.silent
  BY <1>1 DEF SoundInit, Unheard
<1>8. HeardLast /\ SoundInTime
  BY <1>7 DEF HeardLast, SoundInTime
<1>9. QED
  BY <1>4, <1>6, <1>8 DEF SoundInv

LEMMA SoundStep ==
    ASSUME SoundInv, [SoundNext]_soundVars
    PROVE  SoundInv' /\ (heard' = heard \/ (heard'.segment = heard.segment => heard'.chain >= heard.chain))
<1>1. CASE SoundNext
  BY <1>1, DecodersKeep, WriteKeeps, WrapKeeps, ChangeKeeps, RangeKeeps DEF SoundNext
<1>2. CASE UNCHANGED soundVars
  <2>1. UNCHANGED <<at, loops, chains, slot, current, upcoming, retuned, heard>>
    BY <1>2 DEF soundVars
  <2>2. SoundTyped' /\ SoundInTime'
    BY <2>1 DEF SoundInv, SoundTyped, SoundInTime
  <2>3. LanesPlay' /\ HeardLast'
    BY <2>1 DEF SoundInv, LanesPlay, HeardLast
  <2>4. QED
    BY <2>1, <2>2, <2>3 DEF SoundInv
<1>3. QED
  BY <1>1, <1>2

\* What the feeder writes at a position is the sound of that position: over
\* segments, wraps and changes of chain, however the decoders run (feeder.rs,
\* audio/decoder.rs, audio/reverse.rs).
THEOREM SoundIsInTime == SoundSpec => []SoundInTime
<1>1. SoundInv /\ [SoundNext]_soundVars => SoundInv'
  BY SoundStep
<1>2. SoundInv => SoundInTime
  BY DEF SoundInv
<1>3. QED
  BY <1>1, <1>2, SoundStarts, PTL DEF SoundSpec

\* A clip's chain is never heard as it was before one heard already (retune,
\* take_retuned).
THEOREM ChainsGoOn == SoundSpec => ChainForward
<1>1. SoundInv /\ [SoundNext]_soundVars => SoundInv'
  BY SoundStep
<1>2. SoundInv /\ [SoundNext]_soundVars =>
         [heard'.segment = heard.segment => heard'.chain >= heard.chain]_soundVars
  <2>1. SUFFICES ASSUME SoundInv, [SoundNext]_soundVars, heard'.segment = heard.segment
                 PROVE  heard'.chain >= heard.chain
    OBVIOUS
  <2>2. heard.chain \in Nat
    BY <2>1 DEF SoundInv, HeardLast
  <2>3. QED
    BY <2>1, <2>2, SoundStep
<1>3. QED
  BY <1>1, <1>2, SoundStarts, PTL DEF SoundSpec, ChainForward

===============================================================================
