------------------------------- MODULE ExportPlan -------------------------------
(***************************************************************************)
(* The export planner over a whole timeline: export/plan.rs of the engine  *)
(* crate.  The pictures are planned piece by piece, the sound in a sweep   *)
(* over the edges where one begins or ends; then the copied segments are   *)
(* made to share one encoding, and what has to be encoded is given an      *)
(* encoder or declined.                                                    *)
(*                                                                         *)
(* What the ends of a clip cost is SmartCut's; here a picture's `cut` is   *)
(* "copy" or "smart", or "whole" where its speed, shape or operation       *)
(* encodes it anyway.                                                      *)
(***************************************************************************)
EXTENDS Integers, Sequences, FiniteSets, FiniteSetsExt, Functions

CONSTANTS
    Lines,        \* timelines: their length, pictures and sounds
    Encoding,     \* by source, the signature of its stream
    Encoder,      \* by signature, whether an encoder here makes it
    Hdr           \* the sources whose pictures are HDR

VARIABLES
    line,
    video,        \* segments of pictures
    reached,      \* ... which reach so far
    sweep,        \* the edge the sweep is at, the sound it looks at next and those playing
    audio,        \* segments of sound
    settled       \* the tiers are decided
planVars == <<line, video, reached, sweep, audio, settled>>

NoSource == "none"

-----------------------------------------------------------------------------
(* plan_video                                                                *)

\* A segment: its range, the clips in it, whether what is in it may be copied
\* as far as it alone is concerned, and what is decided.
Segment(from, to, clips, cut) ==
    [from |-> from, to |-> to, clips |-> clips, cut |-> cut, declined |-> FALSE, encodes |-> NoSource]
Gap(from, to) == Segment(from, to, {}, "whole")
SourceOf(s) == IF s.clips = {} THEN NoSource ELSE (CHOOSE c \in s.clips : TRUE).source

\* What is left to the end of the sequence is a gap.
TailGap(segments, to) == IF reached < to THEN Append(segments, Gap(reached, to)) ELSE segments

NextPicture ==
    /\ ~settled
    /\ \E p \in Range(line.pictures) :
        /\ p.start >= reached /\ \A q \in Range(line.pictures) : q.start >= reached => p.start <= q.start
        /\ video' = (IF p.start > reached THEN Append(video, Gap(reached, p.start)) ELSE video)
                     \o <<Segment(p.start, p.end, {p}, p.cut)>>
        /\ reached' = p.end
    /\ UNCHANGED <<line, sweep, audio, settled>>

-----------------------------------------------------------------------------
(* plan_audio                                                                *)

Sounds == line.sounds      \* in the order of their starts
Edges == {0, line.length} \cup {Sounds[i].start : i \in DOMAIN Sounds} \cup {Sounds[i].end : i \in DOMAIN Sounds}

\* Mutant: a sound that ends at an edge plays on.
EndsLate(playing, edge) == {i \in playing : edge <= Sounds[i].end}

\* Those that play on at an edge ...
PlayOn(playing, edge) == {i \in playing : edge < Sounds[i].end}

\* ... and those that have begun by it.
Begun(from, edge) ==
    LET later == {i \in from..Len(Sounds) : Sounds[i].start > edge}
    IN IF later = {} THEN Len(Sounds) + 1 ELSE Min(later)

\* single_sound: one alone is copied unless it is held, filtered or retimed;
\* several are mixed.
SoundCut(playing) ==
    IF Cardinality(playing) = 1 /\ ~Sounds[CHOOSE i \in playing : TRUE].processed THEN "copy" ELSE "whole"

SweepEdge ==
    /\ ~settled /\ Sounds # <<>> /\ sweep.edge < line.length
    /\ LET to == Min({e \in Edges : e > sweep.edge})
           begun == Begun(sweep.next, sweep.edge)
           playing == PlayOn(sweep.playing \cup sweep.next..(begun - 1), sweep.edge)
       IN /\ sweep' = [edge |-> to, next |-> begun, playing |-> playing]
          /\ audio' = Append(audio, IF playing = {} THEN Gap(sweep.edge, to)
                ELSE Segment(sweep.edge, to, {Sounds[i] : i \in playing}, SoundCut(playing)))
    /\ UNCHANGED <<line, video, reached, settled>>

-----------------------------------------------------------------------------
(* share_encoding, tier_of, decline_unencodable                              *)

Candidates(segments) == {i \in DOMAIN segments : segments[i].cut # "whole"}
SignatureOf(s) == Encoding[SourceOf(s)]
Weight(segments, signature) ==
    MapThenSumSet(LAMBDA i : segments[i].to - segments[i].from,
                  {i \in Candidates(segments) : SignatureOf(segments[i]) = signature})
FirstWith(segments, signature) ==
    Min({i \in Candidates(segments) : SignatureOf(segments[i]) = signature})

\* The segment whose encoding the output takes: that of most of what may be
\* copied, the earlier of two alike.
MostCopied(segments) ==
    LET signatures == {SignatureOf(segments[i]) : i \in Candidates(segments)}
        best == {s \in signatures : \A t \in signatures : Weight(segments, s) >= Weight(segments, t)}
    IN Min({FirstWith(segments, s) : s \in best})

Shared(segments) ==
    IF Candidates(segments) = {} THEN segments
    ELSE LET signature == SignatureOf(segments[MostCopied(segments)])
         IN [i \in DOMAIN segments |->
                IF i \in Candidates(segments) /\ SignatureOf(segments[i]) # signature
                THEN [segments[i] EXCEPT !.cut = "whole"] ELSE segments[i]]

\* plan.reference
ReferenceSource(segments) ==
    LET filled == {i \in DOMAIN segments : segments[i].clips # {}}
    IN IF Candidates(segments) # {} THEN SourceOf(segments[MostCopied(segments)])
       ELSE IF filled = {} THEN NoSource ELSE SourceOf(segments[Min(filled)])

\* The source an encoded segment has to match.
Match(s, reference) ==
    IF s.cut = "smart" \/ reference = NoSource THEN SourceOf(s) ELSE reference

Decided(s, reference) ==
    LET match == Match(s, reference)
        hdr == {match, SourceOf(s)} \cap Hdr # {}
    IN IF s.cut = "copy" \/ match = NoSource THEN s
       ELSE IF hdr \/ ~Encoder[Encoding[match]] THEN [s EXCEPT !.declined = TRUE]
       ELSE [s EXCEPT !.encodes = match]

Settle ==
    /\ ~settled
    /\ \A p \in Range(line.pictures) : p.start < reached
    /\ Sounds = <<>> \/ sweep.edge = line.length
    /\ LET whole == IF line.pictures = <<>> THEN <<>> ELSE TailGap(video, line.length)
           shared == Shared(whole)
           reference == ReferenceSource(whole)
       IN video' = [i \in DOMAIN shared |-> Decided(shared[i], reference)]
    /\ audio' = Shared(audio)
    /\ settled' = TRUE
    /\ UNCHANGED <<line, reached, sweep>>

PlanInit ==
    /\ line \in Lines
    /\ video = <<>> /\ reached = 0 /\ audio = <<>> /\ settled = FALSE
    /\ sweep = [edge |-> 0, next |-> 1, playing |-> {}]

PlanNext == NextPicture \/ SweepEdge \/ Settle

-----------------------------------------------------------------------------

Frames == 0..(line.length - 1)
CoveringSegments(segments, frame) == {i \in DOMAIN segments : segments[i].from <= frame /\ frame < segments[i].to}

\* Each stream's segments cover every frame of the sequence once, in order, and
\* what is in a segment is all that plays in each of its frames: no picture and
\* no sound is lost, doubled or carried on past its end (plan_video, plan_audio).
PlayedIsPlanned ==
    settled =>
        \A frame \in Frames :
            /\ video # <<>> => \E i \in DOMAIN video : CoveringSegments(video, frame) = {i}
            /\ \A i \in CoveringSegments(video, frame) :
                    video[i].clips = {p \in Range(line.pictures) : p.start <= frame /\ frame < p.end}
            /\ audio # <<>> => \E i \in DOMAIN audio : CoveringSegments(audio, frame) = {i}
            /\ \A i \in CoveringSegments(audio, frame) :
                    audio[i].clips = {s \in Range(line.sounds) : s.start <= frame /\ frame < s.end}

\* The packets of one output stream can be decoded as one: in a plan that is not
\* declined, whatever is copied, and whatever an encoder makes to stand beside
\* it, carries one encoding (share_encoding, decline_unencodable).
OneEncoding ==
    LET declined == \E i \in DOMAIN video : video[i].declined
        carried == {Encoding[SourceOf(s)] : s \in {t \in Range(video) : t.cut = "copy"}}
                   \cup {Encoding[s.encodes] : s \in {t \in Range(video) : t.encodes # NoSource}}
        sound == {Encoding[SourceOf(s)] : s \in {t \in Range(audio) : t.cut = "copy"}}
    IN settled => /\ ~declined => Cardinality(carried) <= 1
                  /\ Cardinality(sound) <= 1

\* The settled plan of each stream is the sequence, and one stream.
PlanHolds == PlayedIsPlanned /\ OneEncoding
===============================================================================
