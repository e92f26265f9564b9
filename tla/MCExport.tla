-------------------------------- MODULE MCExport --------------------------------
(* An export's planner, the cut of one clip, the pipes' container and the       *)
(* threads and processes that carry the whole out, and a copy with another      *)
(* cropping window: five machines that share nothing, in one run.  Each behaviour is one of one of them.                  *)
EXTENDS ExportPipeline, SmartCut, ExportPlan, NutStream, CropWindow

VARIABLE part

exportVars == <<pipeVars, cutVars, planVars, nutVars, cropVars, part>>

-----------------------------------------------------------------------------
(* The pipeline: a rendered and a smart-cut segment, and the sound's one        *)

Seg(kind, feeds, pieces) == [kind |-> kind, feeds |-> feeds, pieces |-> pieces]
By(by, pts) == [by |-> by, pts |-> pts]
RoutesMC ==
    << <<Seg("render", TRUE, <<By("reader", <<0>>)>>),
         Seg("smart", FALSE, <<By("reader", <<2>>), By("seam", <<4>>)>>)>>,
       <<Seg("encode", FALSE, <<By("reader", <<3, 1>>)>>)>> >>

-----------------------------------------------------------------------------
(* The cut: sources of GOPs closed, with leading pictures, and after a          *)
(* recovery point; clips that begin and end anywhere in them                    *)

Coded(kind, pts) == [kind |-> kind, pts |-> pts]
Gops(from) == {
    <<Coded("I", from), Coded("P", from + 1), Coded("P", from + 2)>>,
    <<Coded("I", from), Coded("P", from + 2), Coded("B", from + 1)>>,
    <<Coded("I", from + 1), Coded("B", from), Coded("P", from + 2)>>,
    <<Coded("N", from), Coded("P", from + 2), Coded("B", from + 1)>>}
SourcesMC == {<<Coded("I", 0), Coded("P", 1), Coded("P", 2)>> \o b \o c : b \in Gops(3), c \in Gops(6)}
KeysOf(s) == {s[i].pts : i \in {j \in DOMAIN s : s[j].kind \in {"I", "N"}}}
Trim(from, to, whole) == [from |-> from, to |-> to, whole |-> whole]
CutsMC == UNION {
    {[packets |-> s, known |-> KeysOf(s) \ unknown, clips |-> <<Trim(from, to, FALSE)>> \o next] :
        unknown \in {{}, {3, 4}, {6, 7}}, from \in 0..3, to \in {5, 6, 7, 8},
        next \in {<<Trim(0, 9, FALSE)>>, <<Trim(4, 9, FALSE), Trim(6, 8, FALSE)>>,
                  <<Trim(2, 4, TRUE), Trim(0, 5, FALSE)>>}} : s \in SourcesMC}

-----------------------------------------------------------------------------
(* The planner: two or three pictures with gaps, and sounds that overlap        *)

Pic(start, end, of, c) == [start |-> start, end |-> end, source |-> of, cut |-> c]
Snd(start, end, of, processed) == [start |-> start, end |-> end, source |-> of, processed |-> processed]
Whats == {"copy", "smart", "whole"}
LinesMC ==
    {[length |-> 6, pictures |-> p, sounds |-> <<>>] :
        p \in {<<Pic(a, b, s1, c1), Pic(b + g, b + g + 1, s2, c2), Pic(b + g + 1, 6, s3, "copy")>> :
                 a \in {0, 1}, b \in {2, 3}, g \in {0, 1}, s1 \in {"a", "b"}, s2 \in {"a", "b", "h"},
                 s3 \in {"a", "b", "c"}, c1 \in Whats, c2 \in Whats} \cup {<<>>}}
    \cup {[length |-> 6, pictures |-> <<Pic(0, 4, "a", "copy")>>, sounds |-> s] :
        s \in {<<Snd(a, b, "a", p), Snd(c, d, s2, FALSE), Snd(4, 5, "b", FALSE)>> :
                 a \in {0, 1}, b \in {2, 3, 5}, c \in {1, 2, 3}, d \in {4, 5, 6}, s2 \in {"a", "b"}, p \in BOOLEAN}}
EncodingMC == [s \in {"a", "b", "c", "h"} |-> CASE s \in {"a", "c"} -> "x" [] s = "b" -> "y" [] s = "h" -> "z"]
EncoderMC == [e \in {"x", "y", "z"} |-> e # "y"]

-----------------------------------------------------------------------------
(* The container: a table with a run across the startcode's entry, times that   *)
(* go back, and sizes on both sides of the limit                                *)

Codes12(flags, stream, mul, lsb, delta, idx, count) ==
    [flags |-> flags, stream |-> stream, mul |-> mul, lsb |-> lsb, delta |-> delta, idx |-> idx, count |-> count]
RunsMC ==
    <<Codes12({"invalid"}, 0, 1, 0, 0, 0, 1), Codes12({"coded"}, 0, 1, 0, 0, 0, 1),
      Codes12({"size", "key", "pts"}, 0, 3, 0, 1, 1, 2), Codes12({"stream", "idx", "key"}, 1, 9, 2, 2, 2, 4),
      Codes12({"pts"}, 0, 3, 4, 1, 2, 3)>>
ElisionsMC == <<2, 4>>
Pkt(stream, pts, key, size, begins) ==
    [stream |-> stream, pts |-> pts, key |-> key, size |-> size, begins |-> begins]
StreamsMC == {<<[shift |-> 1, base |-> <<2, 6>>], [shift |-> 2, base |-> <<1, 2>>]>>,
              <<[shift |-> 2, base |-> <<1, 3>>], [shift |-> 2, base |-> <<1, 3>>]>>}
PacketsMC ==
    {<<Pkt(1, a, TRUE, 5, b), Pkt(2, c, TRUE, 3, 0), Pkt(1, d, FALSE, e, f), Pkt(1, g, FALSE, 4, 2)>> :
        a \in {0, 3}, b \in {0, 1}, c \in {1, 6}, d \in {4, 9}, e \in {2, 5, 9}, f \in {0, 1}, g \in {2, 5}}
NutsMC == {[by |-> w, streams |-> s, packets |-> p] :
             w \in {"engine", "ffmpeg"}, s \in StreamsMC, p \in PacketsMC}

-----------------------------------------------------------------------------
(* The window: nibbles for bytes and short fields, sets of every chroma format,  *)
(* order count, scaling and layering, with and without a window, cut short or    *)
(* unlike the first, in each framing                                             *)

WidthsMC == [constraints |-> 2, vps |-> 2, layers |-> 2, general |-> 3, tier |-> 1, compat |-> 5, sub |-> 3]
ScalesMC == [some |-> <<1, 2>>, all |-> <<1, 2, 1>>]
HeaderMC == [c \in {"h264", "hevc"} |-> IF c = "h264" THEN <<7>> ELSE <<8, 1>>]

Set264(profile, chroma, poc, lists, size, frames, window, tail) ==
    [profile |-> profile, level |-> 0, chroma |-> chroma, separate |-> 0, depth |-> 0, lists |-> lists, poc |-> poc,
     width |-> size, height |-> size, frames_only |-> frames, window |-> window, tail |-> tail, layers |-> <<>>]
Sets264 ==
    {Set264(1, 1, <<0>>, <<>>, s, f, w, IF s = 0 THEN Zeros(12) ELSE <<0, 1>>) :
        s \in {0, 2}, f \in {0, 1}, w \in {NoWindow, <<0, 0, 0, 1>>, <<1, 0, 0, 0>>}}
    \cup {Set264(9, c, p, <<>>, 1, 1, <<0, 1, 0, 0>>, <<>>) : c \in 0..3, p \in {<<1, 2, -1>>, <<2>>, <<3>>}}
    \cup {Set264(9, c, <<2>>, IF c = 3 THEN Append(l, <<3>>) ELSE l, 1, 1, <<0, 1, 0, 0>>, <<1>>) :
             c \in {1, 3}, l \in {<<<<2>>, <<>>>>, <<<<>>, <<-8>>>>}}
SetHevc(layers, chroma, separate, window, tail) ==
    [profile |-> 2, level |-> 1, chroma |-> chroma, separate |-> separate, depth |-> 2, lists |-> <<>>, poc |-> <<2>>,
     width |-> 4, height |-> 8, frames_only |-> 1, window |-> window, tail |-> tail, layers |-> layers]
SetsHevc ==
    {SetHevc(l, c[1], c[2], <<0, 1, 1, 0>>, <<>>) :
        l \in {<<>>, <<3, 2>>}, c \in {<<0, 0>>, <<2, 0>>, <<3, 1>>, <<3, 0>>}}
    \cup {SetHevc(l, 1, 0, w, Zeros(9)) : l \in {<<>>, <<1>>}, w \in {NoWindow, <<0, 1, 1, 0>>, <<2, 2, 0, 0>>}}

RectMC == {[x |-> x, y |-> y, width |-> w, height |-> h] : x \in {0, 1}, y \in {0, 2}, w \in {2}, h \in {2, 4}}

PackedSet(codec, v) == HeaderMC[codec] \o Escaped(BytesOf(SetBits(codec, v, WindowBits(v.window))))
SetUnit(codec, v, short) ==
    LET all == PackedSet(codec, v)
    IN [kind |-> "set", set |-> v, cut |-> short \/ v.poc[1] > 2,
        bytes |-> IF short THEN SubSeq(all, 1, Len(all) \div 2) ELSE all]
PlainUnit == [kind |-> "slice", set |-> <<>>, cut |-> FALSE, bytes |-> <<5, 0, 0, 3, 1>>]

LaidOut(framing, starts, units) ==
    IF framing = 0 THEN FlattenSeq([i \in DOMAIN units |-> starts \o units[i].bytes]) ELSE [i \in DOMAIN units |-> units[i].bytes]
Crop(purpose, codec, rect, framing, starts, meant) ==
    [purpose |-> purpose, codec |-> codec, rect |-> rect, framing |-> framing,
     meant |-> meant, parts |-> [i \in DOMAIN meant |-> LaidOut(framing, starts, meant[i])]]

Framings == {<<0, <<0, 0, 1>>>>, <<0, <<0, 0, 0, 1>>>>, <<1, <<>>>>, <<2, <<>>>>}
Corner == [x |-> 0, y |-> 0, width |-> 2, height |-> 2]
Firsts == {<<"h264", v>> : v \in {s \in Sets264 : s.profile = 1 /\ s.width = 2 /\ s.frames_only = 1}}
          \cup {<<"hevc", v>> : v \in {s \in SetsHevc : s.layers = <<1>> /\ s.chroma = 1}}
Seconds(codec) == IF codec = "h264" THEN {v \in Sets264 : v.poc[1] = 0 /\ v.frames_only = 1}
                  ELSE {v \in SetsHevc : v.layers = <<>> /\ v.chroma = 1}
Delimitable(c) == c.framing # 1 \/ \A i \in 2..Len(c.meant) : \A j \in DOMAIN c.meant[i] :
                                       Len(c.meant[i][j].bytes) < 2 ^ 4
CropsMC == {c \in
    {Crop("crop", "h264", r, 0, <<0, 0, 1>>, <<<<SetUnit("h264", v, FALSE), PlainUnit>>, <<PlainUnit>>>>) :
        r \in RectMC, v \in Sets264}
    \cup {Crop("crop", "hevc", r, 2, <<>>, <<<<PlainUnit, SetUnit("hevc", v, FALSE)>>>>) :
        r \in RectMC, v \in SetsHevc}
    \cup UNION {{Crop("crop", c[1], Corner, f[1], f[2],
               <<<<SetUnit(c[1], c[2], FALSE)>>, <<SetUnit(c[1], v, FALSE), PlainUnit>>, <<PlainUnit, PlainUnit>>>>) :
        v \in Seconds(c[1]), f \in Framings} : c \in Firsts}
    \cup UNION {{Crop("compare", c[1], Corner, 0, <<0, 0, 1>>, <<<<PlainUnit, SetUnit(c[1], c[2], FALSE)>>>>),
                 Crop("crop", c[1], Corner, 2, <<>>, <<<<SetUnit(c[1], c[2], TRUE)>>>>)} :
        c \in {<<"h264", v>> : v \in Sets264} \cup {<<"hevc", v>> : v \in SetsHevc}}
    \cup {Crop("crop", c, Corner, 1, <<>>, <<<<PlainUnit>>>>) : c \in {"h264", "vp9"}} : Delimitable(c)}

-----------------------------------------------------------------------------
(* A machine that is not the part stands in one state, its work done.           *)

NoPipeYet ==
    /\ cancel = FALSE /\ asked = FALSE /\ out = <<>>
    /\ router = [r \in Routes |-> [pc |-> "over", segment |-> 1, piece |-> 1, packet |-> 1,
                                   header |-> "none", result |-> "none"]]
    /\ producer = [r \in Routes |-> NoProducer] /\ queue = [r \in Routes |-> <<>>]
    /\ main = [pc |-> "ended", queues |-> FALSE, written |-> "none", outcome |-> "none"]
    /\ heads = [r \in Routes |-> Waiting]
    /\ muxer = [process |-> "none", input |-> FALSE, unread |-> 0, buffered |-> FALSE]
    /\ files = [partial |-> "absent", target |-> "absent"]
NoCutYet ==
    /\ cut = [packets |-> <<Coded("I", 0)>>, known |-> {0}, clips |-> <<>>]
    /\ clip = 1 /\ todo = Unplanned /\ reader = 1 /\ recode = None
    /\ stitch = NewStitch /\ sent = <<>> /\ failed = FALSE
NoPlanYet ==
    /\ line = [length |-> 0, pictures |-> <<>>, sounds |-> <<>>]
    /\ video = <<>> /\ reached = 0 /\ audio = <<>> /\ settled = TRUE
    /\ sweep = [edge |-> 0, next |-> 1, playing |-> {}]
NoNutYet ==
    /\ nut = [by |-> "engine", streams |-> <<>>, packets |-> <<>>]
    /\ told = 0 /\ pipe = <<>> /\ got = <<>> /\ predicted = <<>> /\ follows = <<>>
NoCropYet ==
    /\ crop = [purpose |-> "crop", codec |-> "none", rect |-> Corner, framing |-> 1, meant |-> <<<<>>>>, parts |-> <<<<>>>>]
    /\ pc = "unsupported" /\ at = <<1, 1>> /\ reading = NotReading /\ source = NoGeometry
    /\ written = [parts |-> <<>>, units |-> <<>>] /\ facts = <<>>

Init ==
    \/ part = "pipe" /\ PipeInit /\ NoCutYet /\ NoPlanYet /\ NoNutYet /\ NoCropYet
    \/ part = "cut" /\ CutInit /\ NoPipeYet /\ NoPlanYet /\ NoNutYet /\ NoCropYet
    \/ part = "plan" /\ PlanInit /\ NoPipeYet /\ NoCutYet /\ NoNutYet /\ NoCropYet
    \/ part = "nut" /\ NutInit /\ NoPipeYet /\ NoCutYet /\ NoPlanYet /\ NoCropYet
    \/ part = "crop" /\ CropInit /\ NoPipeYet /\ NoCutYet /\ NoPlanYet /\ NoNutYet

Next ==
    /\ \/ part = "pipe" /\ PipeNext /\ UNCHANGED <<cutVars, planVars, nutVars, cropVars>>
       \/ part = "cut" /\ CutNext /\ UNCHANGED <<pipeVars, planVars, nutVars, cropVars>>
       \/ part = "plan" /\ PlanNext /\ UNCHANGED <<pipeVars, cutVars, nutVars, cropVars>>
       \/ part = "nut" /\ NutNext /\ UNCHANGED <<pipeVars, cutVars, planVars, cropVars>>
       \/ part = "crop" /\ CropNext /\ UNCHANGED <<pipeVars, cutVars, planVars, nutVars>>
    /\ UNCHANGED part

Spec == Init /\ [][Next]_exportVars /\ PipeFairness

\* What is written reads back: the packets in the pipes' container, and the
\* parameter sets of a stream copied with another window (nut.rs,
\* crop_window.rs).
WrittenReadsBack == PacketsReadBack /\ WindowHolds
===============================================================================
