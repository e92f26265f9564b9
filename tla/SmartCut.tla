-------------------------------- MODULE SmartCut --------------------------------
(***************************************************************************)
(* The cut of one video stream: what the planner decides for a clip whose  *)
(* ends fall where they fall among the keyframes (export/plan.rs), the     *)
(* pieces of a smart-cut and the parameter sets at its seams               *)
(* (export/seam.rs), and the packets the executor copies and re-encodes    *)
(* for it (export/execute.rs).                                             *)
(*                                                                         *)
(* A source is its packets in the order they are decoded: "I" a keyframe a *)
(* decoder can start at, "N" one it cannot (a recovery point), "P" a       *)
(* picture that refers to the one before, "B" one between the last two.  A *)
(* maker of pictures is 0 for the source, or the number of an encoder.     *)
(***************************************************************************)
EXTENDS Integers, Sequences, FiniteSets, FiniteSetsExt, Functions

CONSTANT Cuts     \* [packets, known, clips]: a source, the keyframes its index
                  \* knows, and the clips of it, [from, to, whole]

VARIABLES
    cut,
    clip,      \* which clip is being carried out
    todo,      \* its pieces still to come; Unplanned before it is planned
    reader,    \* the next packet of the clip's reader
    recode,    \* recode_from: where the leading pictures of the copy's end begin
    stitch,    \* Stitch: after_seam, seam_sets, and the encoders so far
    sent,      \* the packets on their way to the muxer
    failed

cutVars == <<cut, clip, todo, reader, recode, stitch, sent, failed>>

None == -1
Unplanned == <<[kind |-> "unplanned", from |-> 0, to |-> 0, leading |-> FALSE]>>

-----------------------------------------------------------------------------
(* The source, and what the index says of it                                 *)

Packets == cut.packets
IsKey(p) == p.kind \in {"I", "N"}
EndOfStream == 1 + Max({Packets[i].pts : i \in DOMAIN Packets})
Reorders == \E i, j \in DOMAIN Packets : i < j /\ Packets[i].pts > Packets[j].pts

\* The packets right after a keyframe that are shown before it.
Leading(i) ==
    {j \in DOMAIN Packets : j > i /\ \A k \in (i + 1)..j : Packets[k].pts < Packets[i].pts}

\* KeyframePoint
Point(i) == [pts |-> Packets[i].pts, open |-> Leading(i) # {}, random |-> Packets[i].kind = "I"]
Points == {Point(i) : i \in {j \in DOMAIN Packets : IsKey(Packets[j]) /\ Packets[j].pts \in cut.known}}
Complete == \A i \in DOMAIN Packets : IsKey(Packets[i]) => Packets[i].pts \in cut.known

FirstPoint(points) == IF points = {} THEN None ELSE Min({k.pts : k \in points})
LastPoint(points) == IF points = {} THEN None ELSE Max({k.pts : k \in points})

-----------------------------------------------------------------------------
(* Planning                                                                  *)

NextRandomAccess(at) == FirstPoint({k \in Points : k.pts > at /\ k.random})

\* Mutant: an open keyframe ends a copy as a closed one does.
CleanAnyKey(at) == ~Reorders \/ at >= EndOfStream \/ \E k \in Points : k.pts = at

\* clean_end
CleanEnd(at) == ~Reorders \/ at >= EndOfStream \/ \E k \in Points : k.pts = at /\ ~k.open

StartsCopy(at) == \E k \in Points : k.pts = at /\ k.random

AtKey(at) == \E k \in Points : k.pts = at

\* boundaries: the causes at the two ends ...
InCause(in) ==
    IF StartsCopy(in) THEN {} ELSE IF ~Complete /\ ~AtKey(in) THEN {"unknown"} ELSE {"in"}
OutCause(out) ==
    IF CleanEnd(out) THEN {} ELSE IF AtKey(out) THEN {"open"}
    ELSE IF ~Complete THEN {"unknown"} ELSE {"out"}
Causes(in, out) ==
    LET found == InCause(in) \cup OutCause(out)
    IN IF "unknown" \in found THEN {"unknown"} ELSE found

\* ... and the windows around them, which meet in one where they overlap.
HeadEnd(in, out) ==
    LET next == NextRandomAccess(in) IN IF next = None \/ next > out THEN out ELSE next
TailStart(in, out) ==
    LET last == LastPoint({k \in Points : k.pts < out}) IN IF last < in THEN in ELSE last
Windows(in, out) ==
    LET causes == Causes(in, out)
        head == <<[from |-> in, to |-> HeadEnd(in, out)]>>
        tail == <<[from |-> TailStart(in, out), to |-> out]>>
    IN IF "unknown" \in causes THEN <<>>
       ELSE IF "in" \notin causes THEN IF causes = {} THEN <<>> ELSE tail
       ELSE IF causes = {"in"} THEN head
       ELSE IF head[1].to >= tail[1].from THEN <<[from |-> in, to |-> out]>>
       ELSE head \o tail

\* tier_of
TierOf(c) ==
    LET causes == Causes(c.from, c.to)
    IN IF c.whole \/ "unknown" \in causes THEN "render" ELSE IF causes = {} THEN "copy" ELSE "smart"

\* keyframe_alternative
Distance(a, b) == IF a < b THEN b - a ELSE a - b
NearestPoint(at, points) ==
    LET near == {k \in points : \A j \in points : Distance(k.pts, at) <= Distance(j.pts, at)}
    IN FirstPoint(near)
ClosedAfter(in) == {k \in Points : ~k.open /\ k.pts > in}
Alternative(c) ==
    LET in == NearestPoint(c.from, {k \in Points : k.random})
        out == IF CleanEnd(c.to) THEN c.to
               ELSE IF ClosedAfter(in) # {} THEN NearestPoint(c.to, ClosedAfter(in))
               ELSE IF EndOfStream > in THEN EndOfStream ELSE None
    IN [from |-> in, to |-> IF in = None THEN None ELSE out]

-----------------------------------------------------------------------------
(* pieces                                                                    *)

Recode(from, to) == [kind |-> "recode", from |-> from, to |-> to, leading |-> FALSE]
Remux(from, to, leading) == [kind |-> "remux", from |-> from, to |-> to, leading |-> leading]

PiecesOf(c) ==
    LET causes == Causes(c.from, c.to)
        windows == Windows(c.from, c.to)
        from == IF "in" \in causes THEN windows[1].to ELSE c.from
        to == IF "out" \in causes THEN windows[Len(windows)].from ELSE c.to
        tail == causes \cap {"out", "open"} # {}
    IN IF from >= to \/ from >= c.to THEN <<Recode(c.from, c.to)>>
       ELSE (IF "in" \in causes THEN <<Recode(c.from, from)>> ELSE <<>>)
            \o <<Remux(from, to, tail)>>
            \o (IF tail THEN <<Recode(to, c.to)>> ELSE <<>>)

-----------------------------------------------------------------------------
(* Stitch                                                                    *)

NewStitch == [after |-> FALSE, seam |-> None, seams |-> 0]

\* copied: the first keyframe after a seam carries the source's sets again.
Copied(s, key) ==
    IF s.after /\ key THEN [sets |-> 0, stitch |-> [s EXCEPT !.after = FALSE]]
    ELSE [sets |-> None, stitch |-> s]

\* begin_seam, then `count` pictures of it: the first carries the seam's sets.
Seam(s, count) ==
    [s EXCEPT !.seams = @ + 1, !.seam = IF count = 0 THEN @ ELSE None, !.after = @ \/ count > 0]

-----------------------------------------------------------------------------
(* Carrying a clip out                                                       *)

This == cut.clips[clip]

\* copy_packets: from the keyframe at `from` to the first at or after `to`,
\* those shown in between.
CopyStart(from) == {i \in reader..Len(Packets) : IsKey(Packets[i]) /\ Packets[i].pts >= from}
CopyStop(i, to) ==
    LET ends == {j \in i..Len(Packets) : IsKey(Packets[j]) /\ Packets[j].pts >= to}
    IN IF ends = {} THEN Len(Packets) + 1 ELSE Min(ends)

Shown(from, to) == {j \in DOMAIN Packets : Packets[j].pts >= from /\ Packets[j].pts < to}

InOrder(indexes) ==
    [n \in 1..Cardinality(indexes) |->
        CHOOSE i \in indexes : Cardinality({j \in indexes : j < i}) = n - 1]

\* The first picture copied is a keyframe, and the only one `copied` may mark.
Sent(indexes, sets) ==
    LET order == InOrder(indexes)
    IN [n \in DOMAIN order |-> [clip |-> clip, index |-> order[n], pts |-> Packets[order[n]].pts, maker |-> 0,
                                sets |-> IF n = 1 THEN sets ELSE None]]

CopyPackets(piece) ==
    LET starts == CopyStart(piece.from)
        start == Min(starts)
        stop == CopyStop(start, piece.to)
        copied == Shown(piece.from, piece.to) \cap start..(stop - 1)
        marked == Copied(stitch, TRUE)
        leading == IF piece.leading /\ stop <= Len(Packets) THEN Leading(stop) ELSE {}
    IN IF starts = {} \/ Packets[start].pts # piece.from
       THEN failed' = TRUE /\ UNCHANGED <<reader, recode, stitch, sent>>
       ELSE /\ sent' = sent \o Sent(copied, marked.sets)
            /\ stitch' = marked.stitch
            /\ reader' = stop + Cardinality(leading)
            /\ recode' = IF leading = {} THEN None ELSE Min({Packets[j].pts : j \in leading})
            /\ UNCHANGED failed

\* recode_piece, render_segment: an encoder's pictures, the first of them with
\* its sets; none at all is an error.
Encode(from, to) ==
    LET shown == InOrder(Shown(from, to))
        order == [n \in DOMAIN shown |->
                    [clip |-> clip, index |-> 0, pts |-> from + n - 1, maker |-> stitch.seams + 1,
                     sets |-> IF n = 1 THEN stitch.seams + 1 ELSE None]]
    IN /\ sent' = sent \o order
       /\ stitch' = Seam(stitch, Len(order))
       /\ failed' = (order = <<>>)

\* producer: the clip's tier and the pieces it is made of, and for a copy its
\* reader, which starts at a keyframe before the first copied one.
PlanClip ==
    /\ clip <= Len(cut.clips) /\ todo = Unplanned /\ ~failed
    /\ LET tier == TierOf(This)
           pieces == CASE tier = "copy" -> <<Remux(This.from, This.to, FALSE)>>
                       [] tier = "smart" -> PiecesOf(This)
                       [] tier = "render" -> <<Recode(This.from, This.to)>>
           first == Min({p.from : p \in {q \in Range(pieces) : q.kind = "remux"}} \cup {This.to})
       IN /\ todo' = pieces
          /\ \E i \in DOMAIN Packets :
                /\ Packets[i].kind = "I" /\ Packets[i].pts <= first
                /\ reader' = i
    /\ recode' = None
    /\ UNCHANGED <<cut, clip, stitch, sent, failed>>

\* smart_cut: the next of the pieces.
CarryOut ==
    /\ todo # Unplanned /\ todo # <<>> /\ ~failed
    /\ LET piece == Head(todo)
       IN IF piece.kind = "remux" THEN CopyPackets(piece)
          ELSE /\ Encode(IF recode # None /\ recode < piece.from THEN recode ELSE piece.from, piece.to)
               /\ recode' = None /\ UNCHANGED reader
    /\ todo' = Tail(todo)
    /\ UNCHANGED <<cut, clip>>

\* The clip is through.
NextClip ==
    /\ todo = <<>> /\ ~failed
    /\ clip' = clip + 1 /\ todo' = Unplanned /\ reader' = 1 /\ recode' = None
    /\ UNCHANGED <<cut, stitch, sent, failed>>

CutInit ==
    /\ cut \in Cuts
    /\ clip = 1 /\ todo = Unplanned /\ reader = 1 /\ recode = None
    /\ stitch = NewStitch /\ sent = <<>> /\ failed = FALSE

CutNext == PlanClip \/ CarryOut \/ NextClip

-----------------------------------------------------------------------------

Of(n) == {k \in DOMAIN sent : sent[k].clip = n}

\* Wherever a clip's ends fall among the keyframes, open and closed, and
\* however much of them is indexed: its export does not fail, and every picture
\* of it is sent exactly once, copied or encoded, and no other (boundaries,
\* pieces, copy_packets, smart_cut).
EveryPictureOnce ==
    /\ ~failed
    /\ \A n \in 1..(clip - 1) :
        /\ {sent[k].pts : k \in Of(n)} = cut.clips[n].from..(cut.clips[n].to - 1)
        /\ Cardinality(Of(n)) = cut.clips[n].to - cut.clips[n].from

\* What a picture refers to: the two last pictures before it that others may
\* refer to, a "P" only the last of them if no recovery point lies between.
Anchors(i) == {j \in 1..(i - 1) : Packets[j].kind # "B"}
LastStart(i) == Max({j \in 1..i : Packets[j].kind = "I"})
Refers(i) ==
    CASE Packets[i].kind \in {"I", "N"} -> {}
      [] Packets[i].kind = "B" ->
            {j \in Anchors(i) : Cardinality({k \in Anchors(i) : k > j}) < 2}
      [] Packets[i].kind = "P" ->
            LET last == Max(Anchors(i))
            IN IF Packets[last].kind = "N" THEN {j \in Anchors(i) : j >= LastStart(i)} ELSE {last}

\* Every picture a copied one refers to is copied before it, in the same piece
\* of output: nothing a cut left out is missed by a decoder (clean_end,
\* next_random_access, copy_packets).
CopiedDecodes ==
    \A k \in DOMAIN sent : sent[k].maker = 0 =>
        \A j \in Refers(sent[k].index) :
            \E l \in 1..(k - 1) : /\ sent[l].maker = 0 /\ sent[l].index = j /\ sent[l].clip = sent[k].clip
                                  /\ \A m \in l..k : sent[m].maker = 0

\* The sets a decoder holds when it comes to a packet, from the stream's header
\* or the last that came with one, are those of the packet's maker (Stitch).
HeaderOf == IF \A n \in DOMAIN cut.clips : TierOf(cut.clips[n]) = "render" THEN 1 ELSE 0
InForce(k) ==
    LET given == {l \in 1..k : sent[l].sets # None}
    IN IF given = {} THEN HeaderOf ELSE sent[Max(given)].sets
SetsInForce == \A k \in DOMAIN sent : InForce(k) = sent[k].maker

\* The alternative a smart-cut offers is a copy from end to end, where it is a
\* clip at all (keyframe_alternative).
AlternativeCopies ==
    \A n \in DOMAIN cut.clips :
        LET alt == Alternative(cut.clips[n])
        IN TierOf(cut.clips[n]) = "smart" /\ alt.from < alt.to /\ alt.from # None
              => Causes(alt.from, alt.to) = {}

-----------------------------------------------------------------------------
(* What is said of it afterwards: export/verify.rs, export/report.rs         *)

\* range_of: what a copy of a range must contain, read off the source alone.
RangeOf(from, to) ==
    LET start == Min({i \in DOMAIN Packets : IsKey(Packets[i]) /\ Packets[i].pts = from})
        ends == {j \in (start + 1)..Len(Packets) : IsKey(Packets[j]) /\ Packets[j].pts >= to}
        stop == IF ends = {} THEN Len(Packets) + 1 ELSE Min(ends)
    IN InOrder({j \in start..(stop - 1) : Packets[j].pts >= from /\ Packets[j].pts < to})

\* measure: how many of a clip's packets are its source's, to the bit.
Identical(n) == {k \in Of(n) : sent[k].maker = 0}
Execution(n) ==
    IF Of(n) = {} THEN "empty" ELSE IF Identical(n) = Of(n) THEN "copied"
    ELSE IF Identical(n) = {} THEN "re-encoded" ELSE "partly"

\* What an export copied is what the proof of losslessness expects of the
\* source, packet for packet in one run, and what the report measures is what
\* the plan decided (range_of, contains, measure).
ProvedLossless ==
    \A n \in 1..(clip - 1) :
        LET c == cut.clips[n]
            tier == TierOf(c)
            copies == CASE tier = "copy" -> {Remux(c.from, c.to, FALSE)}
                        [] tier = "smart" -> {p \in Range(PiecesOf(c)) : p.kind = "remux"}
                        [] tier = "render" -> {}
            run == [m \in 1..Cardinality(Identical(n)) |-> sent[Min(Identical(n)) + m - 1].index]
        IN /\ \A p \in copies : Identical(n) # {} /\ RangeOf(p.from, p.to) = run
           /\ tier = "copy" => Execution(n) = "copied"
           /\ tier = "render" => Execution(n) = "re-encoded"

\* A smart-cut's pieces are all of the clip and nothing else, and what it
\* copied is its source's to the bit (copy_packets, recode_piece, report.rs).
CutIsCarriedOut == EveryPictureOnce /\ ProvedLossless

\* What is made of copies and seams is one stream a decoder can follow, and
\* the copy offered in place of a seam is one (clean_end, Stitch,
\* keyframe_alternative).
CutDecodes == CopiedDecodes /\ SetsInForce /\ AlternativeCopies

\* A cut, as it is carried out, is lossless where it says so and plays.
CutHolds == CutIsCarriedOut /\ CutDecodes
===============================================================================
