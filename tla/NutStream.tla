------------------------------- MODULE NutStream -------------------------------
(***************************************************************************)
(* The container on the export's pipes: export/nut.rs of the engine crate. *)
(*                                                                         *)
(* Packets are read back from what FFmpeg's muxer writes (the external     *)
(* writer, free in every choice the format leaves it) and from what this   *)
(* engine's own Writer does.  A reader predicts: times from the last one   *)
(* of the stream or a syncpoint, fields from the frame code, the first     *)
(* bytes of a packet from the elision headers.  Bytes are counted, not     *)
(* spelled; a data's first bytes are the elision header they equal.        *)
(***************************************************************************)
EXTENDS Integers, Sequences, FiniteSets, SequencesExt

CONSTANTS
    Runs,         \* the frame codes of FFmpeg's main header: its runs
    Codes,        \* how many codes a table has (256)
    Startcode,    \* the code a startcode begins with ('N')
    Elisions,     \* the lengths of FFmpeg's elision headers
    LongFrame,    \* beyond this size nothing is elided (4096)
    GroupBase,    \* what a byte of a number holds (128)
    Nuts          \* [streams, packets]: the streams, [shift, base], and the
                  \* packets in decode order, [stream, pts, key, size, begins]

VARIABLES
    nut,        \* what is sent, and by whom
    told,       \* its packets written so far
    predicted,  \* what FFmpeg expects each stream's next time to follow
    pipe,       \* what is written and not yet read
    follows,    \* Reader::last_pts
    got         \* the packets read

nutVars == <<nut, told, predicted, pipe, follows, got>>

Streams == nut.streams
StreamOf(p) == Streams[p.stream]

-----------------------------------------------------------------------------
(* Numbers                                                                   *)

\* put_v: groups of bits, the highest first.
PutV(n) ==
    LET groups == CHOOSE k \in 1..10 : n < GroupBase ^ k /\ \A j \in 1..(k - 1) : n >= GroupBase ^ j
    IN [i \in 1..groups |-> (n \div (GroupBase ^ (groups - i))) % GroupBase]

\* Bytes::v, read_v
V(bytes) == FoldLeft(LAMBDA value, byte : value * GroupBase + byte, 0, bytes)

\* put_s and Bytes::s
PutS(n) == PutV(IF n > 0 THEN 2 * n - 1 ELSE -2 * n)
S(bytes) == LET v == V(bytes) + 1 IN IF v % 2 = 1 THEN -(v \div 2) ELSE v \div 2

-----------------------------------------------------------------------------
(* The frame-code table                                                      *)

Invalid == [flags |-> {"invalid"}, stream |-> 0, mul |-> 0, lsb |-> 0, delta |-> 0, idx |-> 0]

\* Mutant: the code a startcode begins with is counted like any other.
PlacedAnywhere(run, first) == run

\* One run, with an entry that no frame uses where a startcode begins.
PlacedFrom(run, first) ==
    IF first > Startcode \/ first + Len(run) - 1 < Startcode THEN run
    ELSE SubSeq(run, 1, Startcode - first) \o <<Invalid>> \o SubSeq(run, Startcode - first + 1, Len(run))

RunCodes(r) ==
    [j \in 1..r.count |->
        [flags |-> r.flags, stream |-> r.stream, mul |-> r.mul, lsb |-> r.lsb + j - 1,
         delta |-> S(PutS(r.delta)), idx |-> r.idx]]

\* frame_codes: the runs one after another, read.
FrameCodes(runs) == FoldLeft(LAMBDA table, r : table \o PlacedFrom(RunCodes(r), Len(table)), <<>>, runs)

\* main_header: two runs, of frames and of keyframes, every field coded.
AllCoded == {"stream", "pts", "size"}
OwnRun(flags, count) ==
    [flags |-> flags, stream |-> 0, mul |-> 1, lsb |-> 0, delta |-> 0, idx |-> 0, count |-> count]
OwnRuns ==
    <<OwnRun(AllCoded, Codes \div 2), OwnRun(AllCoded \cup {"key"}, Codes - Codes \div 2 - 1)>>
CODE_FRAME == 0
CODE_KEY == Codes \div 2 + 1

Own == nut.by = "engine"
Table == FrameCodes(IF Own THEN OwnRuns ELSE Runs)
ElisionOf == IF Own THEN <<>> ELSE Elisions
ElidedBy(idx) == IF idx = 0 THEN 0 ELSE ElisionOf[idx]

-----------------------------------------------------------------------------
(* Times                                                                     *)

RECURSIVE CommonDivisor(_, _)
CommonDivisor(a, b) == IF b = 0 THEN a ELSE CommonDivisor(b, a % b)
Reduced(base) == LET d == CommonDivisor(base[1], base[2]) IN <<base[1] \div d, base[2] \div d>>

\* Writer::new: each time base once, in lowest terms.
Bases ==
    FoldLeft(LAMBDA known, s : IF Reduced(s.base) \in ToSet(known) THEN known
                               ELSE Append(known, Reduced(s.base)), <<>>, Streams)
IndexOf(base) == CHOOSE i \in DOMAIN Bases : Bases[i] = Reduced(base)

\* rescale_down
RescaleDown(ticks, from, to) == (ticks * from[1] * to[2]) \div (from[2] * to[1])

\* A syncpoint's time, with the time base it is in.
SyncTime(pts, s) == PutV(pts * Len(Bases) + IndexOf(s.base) - 1)

\* syncpoint: every stream follows from it.
Synchronised(tt, known) ==
    LET base == Bases[(V(tt) % Len(Bases)) + 1]
    IN [s \in DOMAIN Streams |-> RescaleDown(V(tt) \div Len(Bases), base, Reduced(Streams[s].base))]

\* What a coded time stands for: its last bits near the time before, or whole.
TimeOf(coded, last, shift) ==
    LET full == 2 ^ shift
        delta == last - (full - 1) \div 2
    IN IF coded < full THEN ((coded - delta) % full) + delta ELSE coded - full

-----------------------------------------------------------------------------
(* Writing                                                                   *)

Sync(tt) == [kind |-> "sync", tt |-> tt, code |-> 0, flags |-> {}, stream |-> 0, coded |-> <<>>,
             msb |-> <<>>, idx |-> 0, body |-> 0, stripped |-> 0]
Frame(code, flags, p, coded, msb, idx, body, stripped) ==
    [kind |-> "frame", tt |-> <<>>, code |-> code, flags |-> flags, stream |-> p.stream, coded |-> PutV(coded),
     msb |-> PutV(msb), idx |-> idx, body |-> body, stripped |-> stripped]

NextTold == nut.packets[told + 1]

\* Writer::write: a syncpoint, and a frame with every field in full.
WriteOwn ==
    /\ Own /\ told < Len(nut.packets) /\ pipe = <<>>
    /\ LET p == NextTold
       IN pipe' = <<Sync(SyncTime(p.pts, StreamOf(p))),
                    Frame(IF p.key THEN CODE_KEY ELSE CODE_FRAME, {}, p, p.pts + 2 ^ StreamOf(p).shift,
                          p.size, 0, p.size, 0)>>
    /\ told' = told + 1
    /\ UNCHANGED <<nut, predicted, follows, got>>

\* FFmpeg's muxer: a syncpoint wherever it likes, at the packet's time ...
WriteSync ==
    /\ ~Own /\ told < Len(nut.packets) /\ pipe = <<>>
    /\ LET tt == SyncTime(NextTold.pts, StreamOf(NextTold))
       IN pipe' = <<Sync(tt)>> /\ predicted' = Synchronised(tt, predicted)
    /\ UNCHANGED <<nut, told, follows, got>>

\* ... and any code of the table that can say what the packet is.
Intended == FoldLeft(LAMBDA table, r : table \o RunCodes(r), <<>>, Runs)
WireCode(i) == IF i - 1 < Startcode THEN i - 1 ELSE i
WriteFrame ==
    /\ ~Own /\ told < Len(nut.packets) /\ Len(pipe) < 2
    /\ \E i \in DOMAIN Intended, coded \in {TRUE, FALSE} :
        LET p == NextTold
            c == Intended[i]
            stripped == IF p.size > LongFrame THEN 0 ELSE p.begins
            last == predicted[p.stream]
            lsb == p.pts % (2 ^ StreamOf(p).shift)
            need == (IF p.key THEN {"key"} ELSE {})
                    \cup (IF c.stream + 1 # p.stream THEN {"stream"} ELSE {})
                    \cup (IF p.pts - last # c.delta THEN {"pts"} ELSE {})
                    \cup (IF p.size # c.lsb THEN {"size"} ELSE {})
                    \cup (IF stripped # c.idx /\ p.size <= LongFrame THEN {"idx"} ELSE {})
            whole == TimeOf(lsb, last, StreamOf(p).shift) # p.pts
        IN /\ "invalid" \notin c.flags
           /\ coded = ("coded" \in c.flags)
           /\ ~coded => need \subseteq c.flags /\ ("key" \in c.flags) = p.key
           /\ p.size >= c.lsb /\ (p.size - c.lsb) % c.mul = 0
           /\ pipe' = Append(pipe,
                Frame(WireCode(i), IF coded THEN (need \ c.flags) \cup ((c.flags \ {"coded"}) \ need) ELSE {}, p,
                      IF whole THEN p.pts + 2 ^ StreamOf(p).shift ELSE lsb,
                      (p.size - c.lsb) \div c.mul, stripped,
                      p.size - (IF stripped = 0 THEN 0 ELSE Elisions[stripped]), stripped))
    /\ told' = told + 1
    /\ predicted' = [predicted EXCEPT ![NextTold.stream] = NextTold.pts]
    /\ UNCHANGED <<nut, follows, got>>

-----------------------------------------------------------------------------
(* Reading                                                                   *)

Broken == [stream |-> 0, pts |-> 0, key |-> FALSE, size |-> 0, begins |-> 0]

\* Reader::frame.  A body read to the wrong length leaves nothing after it to
\* be read right.
FrameOf(item) ==
    LET c == Table[item.code + 1]
        flags == IF "coded" \in c.flags
                 THEN ((c.flags \ {"coded"}) \ item.flags) \cup (item.flags \ c.flags) ELSE c.flags
        stream == IF "stream" \in flags THEN item.stream ELSE c.stream + 1
        pts == IF "pts" \in flags THEN TimeOf(V(item.coded), follows[stream], Streams[stream].shift)
               ELSE follows[stream] + c.delta
        size == c.lsb + IF "size" \in flags THEN c.mul * V(item.msb) ELSE 0
        idx == IF size > LongFrame THEN 0 ELSE IF "idx" \in flags THEN item.idx ELSE c.idx
    IN IF "invalid" \in c.flags \/ stream \notin DOMAIN Streams
          \/ size - ElidedBy(idx) # item.body \/ idx # item.stripped
       THEN Broken
       ELSE [stream |-> stream, pts |-> pts, key |-> "key" \in flags, size |-> size,
             begins |-> idx]

\* next_packet
ReadItem ==
    /\ pipe # <<>>
    /\ pipe' = Tail(pipe)
    /\ IF pipe[1].kind = "sync"
       THEN follows' = Synchronised(pipe[1].tt, follows) /\ UNCHANGED got
       ELSE LET read == FrameOf(pipe[1])
            IN /\ got' = Append(got, read)
               /\ follows' = IF read = Broken THEN follows ELSE [follows EXCEPT ![read.stream] = read.pts]
    /\ UNCHANGED <<nut, told, predicted>>

NutInit ==
    /\ nut \in Nuts
    /\ told = 0 /\ pipe = <<>> /\ got = <<>>
    /\ predicted = [s \in DOMAIN nut.streams |-> 0]
    /\ follows = [s \in DOMAIN nut.streams |-> 0]

NutNext == WriteOwn \/ WriteSync \/ WriteFrame \/ ReadItem

-----------------------------------------------------------------------------

\* Every packet comes out of the pipe as it went in, its stream, its time to the
\* tick, its length and whether it is a keyframe: whatever FFmpeg left out for
\* the reader to predict, and whatever order the pictures are in (Reader).
PacketsReadBack ==
    \A k \in DOMAIN got :
        LET p == nut.packets[k]
            begins == IF Own \/ p.size > LongFrame THEN 0 ELSE p.begins
        IN got[k] = [p EXCEPT !.begins = begins]
===============================================================================
