----------------------------- MODULE KeyframeIndex -----------------------------
(***************************************************************************)
(* The keyframe index of one video stream: keyframes/mod.rs of the engine  *)
(* crate.                                                                  *)
(*                                                                         *)
(* The index starts empty.  A question into a tick nobody has read makes   *)
(* ffprobe list the packets of one region, outside the lock, and merges    *)
(* them; a background thread reads what is left, a region at a time, and   *)
(* the index is kept on disk between launches.  Regions are read in any    *)
(* order, by several at once.                                              *)
(*                                                                         *)
(* Ticks are integers from Low to High, High standing for everything past  *)
(* the file; a covered range is the set of its ticks, so that ranges that  *)
(* touch are merged as Coverage::add merges them.  A packet without a      *)
(* timestamp, the byte positions and the sizes are left out.               *)
(***************************************************************************)
EXTENDS Integers, Sequences, FiniteSets, FiniteSetsExt

CONSTANTS
    Files,           \* streams: packets in decode order and the length the probe gives
    Askers,          \* threads that ask
    Low, High,       \* ticks there are
    Asked,           \* ticks asked for
    RegionTicks,     \* CHUNK_SECONDS
    ReorderMargin,   \* REORDER_MARGIN_SECONDS, or half a region
    ShortOfLimit,    \* the two seconds of a stream of unknown length
    LeadingWindow,
    MaxReopened,     \* bound: launches that open the index
    Unread           \* no keyframe, no frame, no file on disk

ASSUME TicksAssumption ==
    /\ Low \in Int /\ High \in Int /\ Low < 0 /\ High > 0
    /\ Asked \subseteq Low..High - 1 /\ Unread \notin Int
ASSUME RegionAssumption ==
    /\ RegionTicks \in Nat \ {0} /\ ReorderMargin \in 0..(RegionTicks \div 2)
    /\ ShortOfLimit \in Nat /\ LeadingWindow \in Nat

\* What the code takes for granted of a stream, and says so where it does.
Pictures == {"idr", "bla", "cra", "recovery", "unread", "p"}
PacketType == [pts : Low..High - 1, key : BOOLEAN, shown : BOOLEAN, picture : Pictures]
\* What is decoded before a keyframe is shown before it; leading pictures come
\* straight after theirs (LEADING_WINDOW); and what an edit list hides is before
\* the frames shown.
KeyframesInOrder(packets) ==
    \A i, k \in DOMAIN packets : i < k /\ packets[k].key =>
        /\ packets[i].pts < packets[k].pts
        /\ packets[i].shown => packets[k].shown
LeadingFirst(packets) ==
    \A i, j \in DOMAIN packets :
        /\ packets[i].key /\ i < j /\ packets[j].pts < packets[i].pts
        /\ \A k \in i + 1..j : ~packets[k].key
        => packets[i + 1].pts < packets[i].pts
\* Reordering never reaches past the margin (REORDER_MARGIN_SECONDS).
ReordersWithin(packets) ==
    \A i, j \in DOMAIN packets : i < j => packets[i].pts <= packets[j].pts + ReorderMargin
\* The length is that of the stream; where the probe knows none, no packet is
\* more than the two seconds after all before it (read_region).
LengthHolds(f) ==
    IF f.length # Unread
    THEN f.length <= High /\ \A i \in DOMAIN f.packets : f.packets[i].pts < f.length
    ELSE \A j \in DOMAIN f.packets :
            /\ f.packets[j].pts + ShortOfLimit < High
            /\ IF j = 1 THEN f.packets[j].pts < RegionTicks
               ELSE \E i \in 1..j - 1 : f.packets[j].pts <= f.packets[i].pts + ShortOfLimit
ASSUME StreamAssumption ==
    \A f \in Files :
        /\ f.packets \in Seq(PacketType) /\ f.length \in Int \cup {Unread}
        /\ KeyframesInOrder(f.packets) /\ LeadingFirst(f.packets) /\ ReordersWithin(f.packets)
        /\ LengthHolds(f)

VARIABLES
    file,       \* the stream, which does not change
    index,      \* StreamIndex
    ask,        \* what each asker is at
    completer,  \* complete_in_background
    stopped,    \* cancel_background
    kept,       \* the index in the cache
    launch
indexVars == <<file, index, ask, completer, stopped, kept, launch>>

-----------------------------------------------------------------------------
(* The file                                                                  *)

Listed(i) == file.packets[i]
Listing == DOMAIN file.packets
KeyPackets == {i \in Listing : Listed(i).key}

\* The packet after the last of the GOP that begins at `i`.
GopEnd(i) == Min({j \in KeyPackets : j > i} \cup {Len(file.packets) + 1})

\* What is so: the keyframes, the frames shown, whether a cut depends on the
\* GOP before.
TrueKeyframes == {Listed(i).pts : i \in KeyPackets}
TrueFrames == {Listed(i).pts : i \in {j \in Listing : Listed(j).shown}}
ClosesGop(picture) == picture \in {"idr", "bla"}
TrueOpen(k) ==
    \E i \in KeyPackets : /\ Listed(i).pts = k /\ ~ClosesGop(Listed(i).picture)
                          /\ \E j \in i + 1..GopEnd(i) - 1 : Listed(j).pts < k

-----------------------------------------------------------------------------
(* A region of it                                                            *)

\* interval: ffprobe seeks to the keyframe at or before `from`, and a region
\* at the start of the stream is read from the beginning of the file.
SeekTo(from) ==
    LET before == {i \in KeyPackets : Listed(i).pts <= from}
    IN IF from <= 0 \/ before = {} THEN 1 ELSE Max(before)

\* It stops before the first packet past the end.
ReadTo(first, limit) ==
    Min({j \in first..Len(file.packets) : Listed(j).pts >= limit} \cup {Len(file.packets) + 1}) - 1

ReachedEnd(last, limit) ==
    IF file.length # Unread THEN limit >= file.length
    ELSE last = {} \/ Max(last) + ShortOfLimit < limit

Region(from) ==
    LET limit == from + RegionTicks
        first == SeekTo(from)
        read  == first..ReadTo(first, limit)
    IN [from |-> from, limit |-> limit, packets |-> read,
        ended |-> ReachedEnd({Listed(i).pts : i \in read}, limit)]

-----------------------------------------------------------------------------
(* The index                                                                 *)

EmptyIndex ==
    [entries |-> [k \in {} |-> Unread], cover |-> {}, frames |-> {}, frameCover |-> {}]
Keyframes(x) == DOMAIN x.entries

\* Coverage::add of [from, to): past the limit is past the file.
Ticks(from, to, ended) == {t \in Low..High : t >= from /\ (t < to \/ ended)}
\* end_of_range: a range that reaches High reaches the end of time.
EndOfRange(cover, t) ==
    LET after == {u \in t..High : u \notin cover} IN IF after = {} THEN High ELSE Min(after)
Whole(x) == 0 \in x.cover /\ EndOfRange(x.cover, 0) = High

Classify(e) == e.leading /\ ~ClosesGop(e.picture)
\* Enough of a GOP was read to say what it is.
SeenEnough(e) == e.closedOut \/ e.after >= LeadingWindow

\* What a region says of the keyframe of packet `i`: the packets seen after it,
\* those shown before it among them, and whether its GOP was seen to its end.
Observed(x, region, i) ==
    LET k     == Listed(i).pts
        gop   == {j \in region.packets : i < j /\ j < GopEnd(i)}
        known == IF k \in Keyframes(x) THEN x.entries[k]
                 ELSE [picture |-> Listed(i).picture, leading |-> FALSE, after |-> 0, closedOut |-> FALSE,
                       open |-> FALSE]
        leads == known.leading \/ \E j \in gop : Listed(j).pts < k
        out   == \/ known.closedOut \/ GopEnd(i) \in region.packets
                 \/ region.ended /\ \A j \in region.packets \cap KeyPackets : j <= i
        now   == [picture |-> known.picture, leading |-> leads, after |-> Cardinality(gop), closedOut |-> out,
                  open |-> known.open]
    IN [now EXCEPT !.open = IF SeenEnough(now) THEN Classify(now) ELSE @]

FirstKey(region) == {Listed(i).pts : i \in region.packets \cap KeyPackets}
\* Where what was read begins: at its first keyframe.
CoverStart(region) ==
    IF region.from <= 0 THEN Low ELSE Min({region.from} \cup FirstKey(region))

\* Mutant: the frames are trusted as far as the packets.
FramesToLimit(region) == region.limit

FramesEnd(region) == region.limit - ReorderMargin

Merged(x, region) ==
    LET keys == region.packets \cap KeyPackets
        seen == {Listed(i).pts : i \in keys}
    IN [entries |-> [k \in Keyframes(x) \cup seen |->
                       IF k \in seen THEN Observed(x, region, CHOOSE i \in keys : Listed(i).pts = k)
                       ELSE x.entries[k]],
        cover |-> x.cover \cup Ticks(CoverStart(region), region.limit, region.ended),
        frames |-> x.frames \cup {Listed(i).pts : i \in {j \in region.packets : Listed(j).shown}},
        frameCover |-> x.frameCover \cup Ticks(CoverStart(region), FramesEnd(region), region.ended)]

-----------------------------------------------------------------------------
(* Questions                                                                 *)

Questions == {"before", "after", "is", "frame", "frameAfter"}
NoRegion == [from |-> 0, limit |-> 0, packets |-> {}, ended |-> FALSE]
Quiet == [pc |-> "quiet", kind |-> "is", pts |-> 0, from |-> 0, region |-> NoRegion, answer |-> Unread]

NotAbove(set, t) == LET at == {u \in set : u <= t} IN IF at = {} THEN Unread ELSE Max(at)
NotBelow(set, t) == LET at == {u \in set : u >= t} IN IF at = {} THEN Unread ELSE Min(at)
OfFrames(kind) == kind \in {"frame", "frameAfter"}
NotNegative(t) == IF t < 0 THEN 0 ELSE t

Ask(a) ==
    /\ ask[a].pc \in {"quiet", "answered"}
    /\ \E kind \in Questions, t \in Asked :
        ask' = [ask EXCEPT ![a] = [Quiet EXCEPT !.pc = "covers", !.kind = kind, !.pts = t,
                                                !.from = IF kind = "frameAfter" THEN t + 1 ELSE t]]
    /\ UNCHANGED <<file, index, completer, stopped, kept, launch>>

\* ensure_covered and ensure_frames_covered: whether there is a region to read
\* is decided under the lock, and it is read without it.
CoversAsked(a) ==
    /\ ask[a].pc = "covers"
    /\ LET from == ask[a].from
           known == IF OfFrames(ask[a].kind) THEN from \in index.frameCover
                    ELSE NotNegative(from) \in index.cover
       IN ask' = [ask EXCEPT ![a].pc = IF known THEN "answers" ELSE "reads",
                             ![a].region = IF known THEN NoRegion ELSE Region(NotNegative(from))]
    /\ UNCHANGED <<file, index, completer, stopped, kept, launch>>

Reads(a) ==
    /\ ask[a].pc = "reads"
    /\ index' = Merged(index, ask[a].region)
    /\ ask' = [ask EXCEPT ![a].pc = "answers", ![a].region = NoRegion]
    /\ UNCHANGED <<file, completer, stopped, kept, launch>>

\* What the index knows; `after` and `frameAfter` go on to the next region
\* while nothing is found in those read.
Found(q) ==
    CASE q.kind = "before" -> NotAbove(Keyframes(index), q.pts)
      [] q.kind = "is" -> IF q.pts \in Keyframes(index) THEN q.pts ELSE Unread
      [] q.kind = "after" -> NotBelow(Keyframes(index), q.pts)
      [] q.kind = "frame" -> NotAbove(index.frames, q.pts)
      [] q.kind = "frameAfter" -> NotBelow(index.frames, q.pts + 1)
Onwards(q) ==
    LET cover == IF OfFrames(q.kind) THEN index.frameCover ELSE index.cover
    IN IF q.kind \notin {"after", "frameAfter"} \/ Found(q) # Unread \/ q.from \notin cover THEN High
       ELSE EndOfRange(cover, q.from)

Answers(a) ==
    /\ ask[a].pc = "answers"
    /\ ask' = IF Onwards(ask[a]) = High
              THEN [ask EXCEPT ![a].pc = "answered", ![a].answer = Found(ask[a])]
              ELSE [ask EXCEPT ![a].pc = "covers", ![a].from = Onwards(ask[a])]
    /\ UNCHANGED <<file, index, completer, stopped, kept, launch>>

-----------------------------------------------------------------------------
(* The background thread, the cache and launches                             *)

Begin ==
    /\ completer.pc = "idle" /\ ~Whole(index)
    /\ completer' = [pc |-> "next", from |-> 0, region |-> NoRegion]
    /\ UNCHANGED <<file, index, ask, stopped, kept, launch>>

\* persist: what the last launch keeps nobody opens.
Persisted == IF launch < MaxReopened THEN index ELSE Unread

\* Mutant: the next region begins where the last one did.
SameAgain(from) == from

\* The next tick not covered, from the last one on.
NextTick(from) == EndOfRange(index.cover, from)

\* stop_background is noticed between two regions; either way the index is
\* written to the cache.
Next_ ==
    /\ completer.pc = "next"
    /\ IF stopped \/ Whole(index) \/ NextTick(completer.from) = High
       THEN completer' = [completer EXCEPT !.pc = "done"] /\ kept' = Persisted
       ELSE /\ completer' = [pc |-> "reads", from |-> NextTick(completer.from),
                             region |-> Region(NextTick(completer.from))]
            /\ UNCHANGED kept
    /\ UNCHANGED <<file, index, ask, stopped, launch>>

CompleterReads ==
    /\ completer.pc = "reads"
    /\ index' = Merged(index, completer.region)
    /\ completer' = [completer EXCEPT !.pc = "next", !.region = NoRegion]
    /\ UNCHANGED <<file, ask, stopped, kept, launch>>

\* MediaEngine::shutdown: the thread is told to stop and what there is is kept.
StopAndPersist ==
    /\ ~stopped
    /\ stopped' = TRUE /\ kept' = Persisted
    /\ UNCHANGED <<file, index, ask, completer, launch>>

\* The next launch, after a shutdown or a crash: KeyframeIndex::open.
Reopen ==
    /\ launch < MaxReopened
    /\ launch' = launch + 1
    /\ index' = IF kept = Unread THEN EmptyIndex ELSE kept
    /\ ask' = [a \in Askers |-> Quiet]
    /\ completer' = [pc |-> "idle", from |-> 0, region |-> NoRegion]
    /\ stopped' = FALSE /\ kept' = IF launch' < MaxReopened THEN kept ELSE Unread
    /\ UNCHANGED file

IndexInit ==
    /\ file \in Files /\ index = EmptyIndex /\ ask = [a \in Askers |-> Quiet]
    /\ completer = [pc |-> "idle", from |-> 0, region |-> NoRegion]
    /\ stopped = FALSE /\ kept = Unread /\ launch = 1

IndexNext ==
    \/ \E a \in Askers : Ask(a) \/ CoversAsked(a) \/ Reads(a) \/ Answers(a)
    \/ Begin \/ Next_ \/ CompleterReads \/ StopAndPersist \/ Reopen

IndexSpec == IndexInit /\ [][IndexNext]_indexVars

-----------------------------------------------------------------------------
(* Properties                                                                *)

\* A GOP too short to be classified before the next one is seen.
Short(i) == GopEnd(i) <= Len(file.packets) /\ GopEnd(i) - i <= LeadingWindow

\* A tick that is covered hides nothing: every keyframe there is known, and
\* every frame shown where the frames are trusted.  A keyframe of whose GOP
\* enough was seen is open exactly when a cut at it depends on the GOP before;
\* and of a stream said to be whole that was seen of every GOP but a short one,
\* which no region need read together with its end (read_region, merge,
\* Coverage::add).
CoveredIsKnown ==
    /\ \A k \in TrueKeyframes : k \in index.cover => k \in Keyframes(index)
    /\ \A t \in TrueFrames : t \in index.frameCover => t \in index.frames
    /\ \A k \in Keyframes(index) : SeenEnough(index.entries[k]) => index.entries[k].open = TrueOpen(k)
    /\ Whole(index) =>
          \A i \in KeyPackets : Listed(i).pts >= 0 =>
              Short(i) \/ index.entries[Listed(i).pts].open = TrueOpen(Listed(i).pts)

\* The keyframe at or before a tick, whether a tick is one, and the frame shown
\* at it are those of the file, however much of it has been read, and by whom.
\* What is answered for at or after it, and for the frame after it, is one, and
\* is nothing only when the file has none; it may not be the nearest (see the
\* README), for what was read may have a gap.
AnswersAreOfTheFile ==
    \A a \in Askers :
        LET q == ask[a] IN
        q.pc = "answered" /\ q.pts >= 0 =>
            /\ q.kind = "before" => q.answer = NotAbove(TrueKeyframes, q.pts)
            /\ q.kind = "is" => (q.answer = q.pts <=> q.pts \in TrueKeyframes)
            /\ q.kind = "frame" => q.answer = NotAbove(TrueFrames, q.pts)
            /\ q.kind = "after" =>
                  \/ q.answer \in {k \in TrueKeyframes : k >= q.pts}
                  \/ q.answer = Unread /\ NotBelow(TrueKeyframes, q.pts) = Unread
            /\ q.kind = "frameAfter" =>
                  \/ q.answer \in {t \in TrueFrames : t > q.pts}
                  \/ q.answer = Unread /\ NotBelow(TrueFrames, q.pts + 1) = Unread

\* The index and what it answers say of the file what is in it.
IndexIsOfTheFile == CoveredIsKnown /\ AnswersAreOfTheFile

\* The background thread gets on: the region it reads begins at a tick nobody
\* has read, and once it is merged that tick is covered, whoever else read
\* meanwhile; so a stream is read to its end in as many regions as it has
\* (complete_in_background).
ReadsAdvance ==
    [][/\ completer.pc = "next" /\ completer'.pc = "reads" => completer'.region.from \notin index.cover
       /\ CompleterReads => completer.region.from \in index'.cover]_indexVars
===============================================================================
