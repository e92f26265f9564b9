------------------------------- MODULE CropWindow -------------------------------
(***************************************************************************)
(* A stream copied with another cropping window: export/crop_window.rs,    *)
(* and the reading of parameter sets it shares with export/sps.rs.         *)
(*                                                                         *)
(* A sequence parameter set (SPS) is read a field at a time, up to its     *)
(* window; each one of the configuration, then of the packets, is written  *)
(* again with the new window, and every other bit of it as it was.  Field  *)
(* widths and tables of the codecs are constants, so that a small instance *)
(* can have short ones.  Reading the facts two streams are compared by     *)
(* (profile, level, chroma format, bit depth) is the same walk.            *)
(***************************************************************************)
EXTENDS ParameterSets, CropGeometry

CONSTANTS
    Crops,          \* what is asked: see the variable `crop`
    Widths,         \* of the fixed fields: [constraints, vps, layers, general, tier, compat, pad, sub]
    MaxLayers,      \* the sub-layers a table is padded to (8)
    HighProfiles,   \* H264_HIGH
    ScalingLists,   \* sizes of the scaling lists: [some, all], all for chroma format 3
    Block,          \* a macroblock's side (16)
    MaxSize,        \* 2^32 - 1
    SpsHeader,      \* the header of an SPS, by codec
    LengthOfLength  \* the bytes of a length in a configuration record (2)

VARIABLES
    crop,       \* [purpose, codec, rect, framing, parts, meant]: the configuration and the packets,
                \* delimited as `framing` has it (0: by startcodes, otherwise by lengths of so many bytes), and
                \* the sets and slices their units were made of
    pc,         \* "begin", "reads", "rewrites", or what came of it
    at,         \* <<part, unit>>: the part of the stream and its unit under way
    reading,    \* the SPS being read
    source,     \* the first one's geometry, once read
    written,    \* the parts written, and the units of the one under way
    facts       \* what two streams are compared by

cropVars == <<crop, pc, at, reading, source, written, facts>>

-----------------------------------------------------------------------------
(* Reading an SPS                                                            *)

Unseen == [profile |-> 0, level |-> 0, chroma |-> 1, separate |-> 0, depth |-> 0, width |-> 0,
           height |-> 0, frames_only |-> 1, left |-> 0, right |-> 0, top |-> 0, bottom |-> 0]

NotReading == [want |-> "none"]

\* parse_h264 and parse_hevc, and sps::h264 and hevc
Started(codec, unit) ==
    [want |-> IF codec = "h264" THEN "profile" ELSE "vps", at |-> 0,
     bits |-> BitsOf(Unescaped(SubSeq(unit, Len(SpsHeader[codec]) + 1, Len(unit)))),
     seen |-> Unseen, from |-> 0, to |-> 0,
     lists |-> <<>>, scale |-> [left |-> 0, last |-> 8, next |-> 8], count |-> 0, subs |-> 0]

Numbers == {"id", "chroma", "depth", "chroma_depth", "frame_num", "poc", "poc_lsb", "cycle", "refs",
            "width", "height", "left", "right", "top", "bottom"}
Signed == {"scale", "nonref", "topbottom", "cycled"}
Bit == {"separate", "bypass", "scaling", "list", "always_zero", "gaps", "frames_only", "mbaff", "direct",
        "nesting", "window"}

Field(r, codec) ==
    CASE r.want \in Numbers -> Ue(r.bits, r.at)
      [] r.want \in Signed -> Se(r.bits, r.at)
      [] r.want \in Bit -> Fixed(r.bits, r.at, 1)
      [] r.want = "present" -> Fixed(r.bits, r.at, 2)
      [] r.want = "level" -> Fixed(r.bits, r.at, ByteBits)
      [] r.want = "profile" -> Fixed(r.bits, r.at, IF codec = "h264" THEN ByteBits ELSE Widths.general)
      [] r.want = "padding" -> Fixed(r.bits, r.at, 2 * (MaxLayers - r.count))
      [] r.want = "subs" -> Fixed(r.bits, r.at, r.subs)
      [] r.want \in DOMAIN Widths -> Fixed(r.bits, r.at, Widths[r.want])

\* A field read: what it says is kept, and what the loops it is in count.
Scaled(scale, value) ==
    LET next == (scale.last + value + 256) % 256
    IN [left |-> scale.left - 1, last |-> IF next = 0 THEN scale.last ELSE next, next |-> next]

Noted(r, got) ==
    LET v == got.value
        to == [r EXCEPT !.at = got.at,
                        !.seen = IF r.want \in DOMAIN @ THEN [@ EXCEPT ![r.want] = v] ELSE @]
    IN CASE r.want = "scaling" ->
              [to EXCEPT !.lists = IF v = 0 THEN <<>>
                                   ELSE IF r.seen.chroma = 3 THEN ScalingLists.all ELSE ScalingLists.some]
         [] r.want = "list" -> [to EXCEPT !.scale = [left |-> IF v = 1 THEN Head(r.lists) ELSE 0,
                                                     last |-> 8, next |-> 8],
                                          !.lists = Tail(@)]
         [] r.want = "scale" -> [to EXCEPT !.scale = Scaled(@, v)]
         [] r.want \in {"cycle", "layers"} -> [to EXCEPT !.count = v]
         [] r.want = "cycled" -> [to EXCEPT !.count = @ - 1]
         [] r.want = "present" -> [to EXCEPT !.lists = Append(@, v),
                                             !.subs = @ + Widths.sub * (v \div 2) + ByteBits * (v % 2)]
         [] r.want = "direct" -> [to EXCEPT !.from = got.at]
         [] r.want = "height" -> [to EXCEPT !.from = got.at]
         [] r.want \in {"window", "bottom"} -> [to EXCEPT !.to = got.at]
         [] OTHER -> to

\* Straight on from a field to the next
Onward == [constraints |-> "level", chroma_depth |-> "bypass", bypass |-> "scaling",
           frame_num |-> "poc", poc_lsb |-> "refs", always_zero |-> "nonref", nonref |-> "topbottom",
           topbottom |-> "cycle", refs |-> "gaps", gaps |-> "width", width |-> "height",
           mbaff |-> "direct", direct |-> "window", left |-> "right", right |-> "top", top |-> "bottom",
           vps |-> "layers", layers |-> "nesting", nesting |-> "tier", tier |-> "profile",
           compat |-> "level", padding |-> "subs", subs |-> "id", separate |-> "depth"]

\* parse_h264: what is read after `want`, which said v; r has it noted.
After264(r, want, v) ==
    CASE want = "profile" -> "constraints"
      [] want = "level" -> "id"
      [] want = "id" -> IF r.seen.profile \in HighProfiles THEN "chroma" ELSE "frame_num"
      [] want = "chroma" -> IF v = 3 THEN "separate" ELSE "depth"
      [] want = "depth" -> "chroma_depth"
      [] want \in {"scaling", "list", "scale"} ->
            IF want # "scaling" /\ r.scale.left > 0 /\ r.scale.next # 0 THEN "scale"
            ELSE IF r.lists # <<>> THEN "list" ELSE "frame_num"
      [] want = "poc" -> CASE v = 0 -> "poc_lsb" [] v = 1 -> "always_zero" [] v = 2 -> "refs" [] OTHER -> "bad"
      [] want \in {"cycle", "cycled"} -> IF r.count > 255 THEN "bad" ELSE IF r.count > 0 THEN "cycled" ELSE "refs"
      [] want = "height" -> "frames_only"
      [] want = "frames_only" -> IF v = 0 THEN "mbaff" ELSE "direct"
      [] want = "window" -> IF v = 1 THEN "left" ELSE "end"
      [] want = "bottom" -> "end"
      [] OTHER -> Onward[want]

\* parse_hevc, and profile_tier_level
AfterHevc(r, want, v) ==
    CASE want = "profile" -> "compat"
      [] want \in {"level", "present"} ->
            IF Len(r.lists) < r.count THEN "present" ELSE IF r.count > 0 THEN "padding" ELSE "id"
      [] want = "id" -> "chroma"
      [] want = "chroma" -> IF v = 3 THEN "separate" ELSE "width"
      [] want = "separate" -> "width"
      [] want = "height" -> "window"
      [] want = "window" -> IF v = 1 THEN "left" ELSE "end"
      [] want = "bottom" -> "end"
      [] OTHER -> Onward[want]

After(r, want, v) == IF crop.codec = "h264" THEN After264(r, want, v) ELSE AfterHevc(r, want, v)

\* Where the comparison of two streams stops: sps::h264 after the depth, or
\* at once where the profile has none; sps::hevc past the window.
Compared(r) == r.want \in (IF crop.codec = "h264" THEN {"chroma_depth", "frame_num"} ELSE {"end"})

\* A picture's size and the units its window counts in
SizeOf(seen) ==
    IF crop.codec = "hevc" THEN <<seen.width, seen.height>>
    ELSE <<(seen.width + 1) * Block, (seen.height + 1) * Block * (2 - seen.frames_only)>>
UnitOf(seen) ==
    LET s == SubsamplingIs(IF seen.separate = 1 THEN 0 ELSE seen.chroma)
    IN IF crop.codec = "hevc" THEN s ELSE <<s[1], s[2] * (2 - seen.frames_only)>>
ReadGeometry(seen) ==
    IF seen.chroma > 3 \/ SizeOf(seen)[1] > MaxSize \/ SizeOf(seen)[2] > MaxSize THEN NoGeometry
    ELSE GeometryOf(SizeOf(seen), <<seen.left, seen.right, seen.top, seen.bottom>>, UnitOf(seen))

-----------------------------------------------------------------------------
(* Writing it again                                                          *)

\* stop_bit: the payload's last one bit (0: none)
StopBit(bits) ==
    LET ones == {i \in DOMAIN bits : bits[i] = 1}
    IN IF ones = {} THEN 0 ELSE CHOOSE i \in ones : \A j \in ones : j <= i

WindowBits(off) ==
    IF off = NoWindow THEN <<0>>
    ELSE <<1>> \o UeBits(off[1]) \o UeBits(off[2]) \o UeBits(off[3]) \o UeBits(off[4])

\* Mutant: the payload is copied from where the old window began.
RewrittenFrom(r, off) ==
    SpsHeader[crop.codec]
    \o Escaped(BytesOf(SubSeq(r.bits, 1, r.from) \o WindowBits(off)
                       \o SubSeq(r.bits, r.from + 1, StopBit(r.bits))))

\* rewrite
Rewritten(r, off) ==
    SpsHeader[crop.codec]
    \o Escaped(BytesOf(SubSeq(r.bits, 1, r.from) \o WindowBits(off)
                       \o SubSeq(r.bits, r.to + 1, StopBit(r.bits))))

-----------------------------------------------------------------------------
(* A stream                                                                  *)

IsSps(unit) == unit # <<>> /\ unit[1] = SpsHeader[crop.codec][1]

\* The units of a part, as its framing delimits them: record_units, packet.
\* (How a record or a packet lies in memory is its writer's: after startcodes
\* of three bytes or four, or each after its length.)
UnitsOf(part) == IF crop.framing = 0 THEN AnnexBUnits(part) ELSE part

\* push_length: the length of a unit fits the field before it.
LengthBytes(part) == IF part = 1 THEN LengthOfLength ELSE crop.framing
TooLong(part, unit) == crop.framing # 0 /\ Len(unit) >= (2 ^ ByteBits) ^ LengthBytes(part)

Part == at[1]
Units == UnitsOf(crop.parts[Part])
Fail(why) == pc' = why /\ reading' = NotReading /\ UNCHANGED <<at, source, written>>

\* CropWindow::new: the first SPS of the configuration tells the source's
\* geometry.
BeginCrop ==
    /\ pc = "begin"
    /\ IF crop.codec \notin {"h264", "hevc"} THEN Fail("unsupported") /\ UNCHANGED facts
       ELSE \E units \in {UnitsOf(crop.parts[1])} :
            LET sets == {i \in DOMAIN units : IsSps(units[i])}
            IN IF sets = {} THEN Fail("unreadable") /\ UNCHANGED facts
               ELSE /\ pc' = "reads"
                    /\ reading' = Started(crop.codec, units[CHOOSE i \in sets : \A j \in sets : i <= j])
                    /\ UNCHANGED <<at, source, written, facts>>
    /\ UNCHANGED crop

ReadField ==
    /\ pc = "reads" /\ reading.want \notin {"end", "bad"}
    /\ ~(crop.purpose = "compare" /\ Compared(reading))
    /\ \E got \in {Field(reading, crop.codec)} :
        IF ~got.ok THEN Fail("unreadable")
        ELSE \E r \in {Noted(reading, got)} :
                /\ reading' = [r EXCEPT !.want = After(r, reading.want, got.value)]
                /\ UNCHANGED <<pc, at, source, written>>
    /\ UNCHANGED <<crop, facts>>

\* h264_sequence, hevc_sequence; the last number read is HEVC's bit depth.
Compare ==
    /\ pc = "reads" /\ crop.purpose = "compare"
    /\ Compared(reading)
    /\ \E depth \in {IF crop.codec = "h264" THEN [ok |-> TRUE, value |-> reading.seen.depth]
                     ELSE Ue(reading.bits, reading.at)} :
        IF ~depth.ok THEN Fail("unreadable") /\ UNCHANGED facts
        ELSE /\ pc' = "compared"
             /\ facts' = [profile |-> reading.seen.profile, level |-> reading.seen.level,
                          chroma |-> reading.seen.chroma, depth |-> depth.value]
             /\ UNCHANGED <<at, reading, source, written>>
    /\ UNCHANGED crop

ReadBad == pc = "reads" /\ reading.want = "bad" /\ Fail("unreadable") /\ UNCHANGED <<crop, facts>>

\* The first SPS is read: window_for, and then the units one by one.
Measure ==
    /\ pc = "reads" /\ reading.want = "end" /\ crop.purpose = "crop" /\ source = NoGeometry
    /\ \E g \in {ReadGeometry(reading.seen)} :
        CASE ~g.ok -> Fail("unreadable")
          [] g.ok /\ ~Inside(g, crop.rect) -> Fail("outside")
          [] g.ok /\ Inside(g, crop.rect) /\ ~Aligned(g, crop.rect) -> Fail("misaligned")
          [] OTHER -> /\ source' = g /\ pc' = "rewrites" /\ reading' = NotReading
                      /\ UNCHANGED <<at, written>>
    /\ UNCHANGED <<crop, facts>>

\* A unit that is no SPS is copied; a packet after startcodes that has none is
\* not touched at all.
NextUnit ==
    /\ pc = "rewrites" /\ Part <= Len(crop.parts)
    /\ \E units \in {Units} :
        IF at[2] > Len(units)
        THEN /\ written' = [written EXCEPT !.parts = Append(@,
                    IF crop.framing # 0 THEN written.units
                    ELSE IF Part > 1 /\ ~\E i \in DOMAIN units : IsSps(units[i]) THEN crop.parts[Part]
                    ELSE AnnexB(written.units)), !.units = <<>>]
             /\ at' = <<Part + 1, 1>>
             /\ UNCHANGED <<pc, reading, source>>
        ELSE LET unit == units[at[2]]
             IN IF IsSps(unit)
                THEN pc' = "reads" /\ reading' = Started(crop.codec, unit) /\ UNCHANGED <<at, source, written>>
                ELSE /\ written' = [written EXCEPT !.units = Append(@, unit)]
                     /\ at' = <<Part, at[2] + 1>>
                     /\ UNCHANGED <<pc, reading, source>>
    /\ UNCHANGED <<crop, facts>>

\* rewrite_sps
RewriteSps ==
    /\ pc = "reads" /\ reading.want = "end" /\ crop.purpose = "crop" /\ source # NoGeometry
    /\ \E unit \in {Rewritten(reading, WindowFor(source, crop.rect))} :
        CASE ~ReadGeometry(reading.seen).ok -> Fail("unreadable")
          [] ReadGeometry(reading.seen).ok /\ ReadGeometry(reading.seen) # source -> Fail("changes")
          [] ReadGeometry(reading.seen) = source /\ StopBit(reading.bits) <= reading.to -> Fail("unreadable")
          [] ReadGeometry(reading.seen) = source /\ StopBit(reading.bits) > reading.to /\ TooLong(Part, unit) ->
                Fail("long")
          [] OTHER -> /\ written' = [written EXCEPT !.units = Append(@, unit)]
                      /\ at' = <<Part, at[2] + 1>> /\ pc' = "rewrites" /\ reading' = NotReading
                      /\ UNCHANGED source
    /\ UNCHANGED <<crop, facts>>

FinishCrop ==
    /\ pc = "rewrites" /\ Part > Len(crop.parts)
    /\ pc' = "written"
    /\ UNCHANGED <<crop, at, reading, source, written, facts>>

CropInit ==
    /\ crop \in Crops
    /\ pc = "begin" /\ at = <<1, 1>> /\ reading = NotReading /\ source = NoGeometry
    /\ written = [parts |-> <<>>, units |-> <<>>] /\ facts = <<>>

CropNext == BeginCrop \/ ReadField \/ Compare \/ ReadBad \/ Measure \/ NextUnit \/ RewriteSps \/ FinishCrop

-----------------------------------------------------------------------------
(* What the codecs say (external): the syntax an encoder writes a set by     *)

SeBits(n) == UeBits(IF n > 0 THEN 2 * n - 1 ELSE -2 * n)
Each(Op(_), s) == FlattenSeq([i \in DOMAIN s |-> Op(s[i])])

Syntax264(v) ==
    Digits(v.profile, 2, ByteBits) \o Zeros(Widths.constraints) \o Digits(v.level, 2, ByteBits) \o UeBits(0)
    \o (IF v.profile \notin HighProfiles THEN <<>>
        ELSE UeBits(v.chroma) \o (IF v.chroma = 3 THEN <<v.separate>> ELSE <<>>) \o UeBits(v.depth)
             \o UeBits(v.depth) \o <<0>>
             \o (IF v.lists = <<>> THEN <<0>>
                 ELSE <<1>> \o Each(LAMBDA l : IF l = <<>> THEN <<0>> ELSE <<1>> \o Each(SeBits, l), v.lists)))
    \o UeBits(0) \o UeBits(v.poc[1])
    \o (CASE v.poc[1] = 0 -> UeBits(3)
          [] v.poc[1] = 1 -> <<0>> \o SeBits(1) \o SeBits(-1) \o UeBits(Len(v.poc) - 1) \o Each(SeBits, Tail(v.poc))
          [] OTHER -> <<>>)
    \o UeBits(1) \o <<0>> \o UeBits(v.width) \o UeBits(v.height)
    \o (IF v.frames_only = 1 THEN <<1>> ELSE <<0, 1>>) \o <<1>>

SyntaxHevc(v) ==
    Zeros(Widths.vps) \o Digits(Len(v.layers), 2, Widths.layers) \o <<1>> \o Zeros(Widths.tier)
    \o Digits(v.profile, 2, Widths.general) \o Zeros(Widths.compat) \o Digits(v.level, 2, ByteBits)
    \o Each(LAMBDA p : Digits(p, 2, 2), v.layers)
    \o (IF v.layers = <<>> THEN <<>> ELSE Zeros(2 * (MaxLayers - Len(v.layers))))
    \o Each(LAMBDA p : Zeros(Widths.sub * (p \div 2) + ByteBits * (p % 2)), v.layers)
    \o UeBits(0) \o UeBits(v.chroma) \o (IF v.chroma = 3 THEN <<v.separate>> ELSE <<>>)
    \o UeBits(v.width) \o UeBits(v.height)

\* A set with the window it shows by, then the rest of it and the stop bit
SetBits(codec, v, window) ==
    (IF codec = "h264" THEN Syntax264(v) ELSE SyntaxHevc(v)) \o window
    \o (IF codec = "hevc" THEN UeBits(v.depth) ELSE <<>>) \o v.tail \o <<1>>

-----------------------------------------------------------------------------
(* What it promises                                                          *)

Sets == {u \in UNION {ToSet(crop.meant[i]) : i \in DOMAIN crop.meant} : u.kind = "set"}
First == (CHOOSE u \in Sets : \E i \in DOMAIN crop.meant[1] :
              crop.meant[1][i] = u /\ \A j \in 1..(i - 1) : crop.meant[1][j].kind # "set").set
FieldsIn(v) == 2 - v.frames_only
StepOf(v) ==
    LET s == IF v.separate = 1 \/ v.chroma \in {0, 3} THEN <<1, 1>> ELSE IF v.chroma = 1 THEN <<2, 2>> ELSE <<2, 1>>
    IN IF crop.codec = "hevc" THEN s ELSE <<s[1], s[2] * FieldsIn(v)>>
CodedBy(v) == IF crop.codec = "hevc" THEN <<v.width, v.height>>
              ELSE <<(v.width + 1) * Block, (v.height + 1) * Block * FieldsIn(v)>>
ShownWidth(v) == CodedBy(v)[1] - (v.window[1] + v.window[2]) * StepOf(v)[1]
ShownHeight(v) == CodedBy(v)[2] - (v.window[3] + v.window[4]) * StepOf(v)[2]
Alike(v, w) == CodedBy(v) = CodedBy(w) /\ StepOf(v) = StepOf(w) /\ v.window = w.window

Fits(v) == /\ crop.rect.x + crop.rect.width <= ShownWidth(v)
           /\ crop.rect.y + crop.rect.height <= ShownHeight(v)
On(n, step) == n % step = 0
OnUnits(v) == /\ On(crop.rect.x, StepOf(v)[1]) /\ On(crop.rect.width, StepOf(v)[1])
              /\ On(crop.rect.y, StepOf(v)[2]) /\ On(crop.rect.height, StepOf(v)[2])

\* The window that leaves off, besides what the old one does, all around the
\* rectangle
Narrowed(v) ==
    <<v.window[1] + crop.rect.x \div StepOf(v)[1],
      v.window[2] + (ShownWidth(v) - crop.rect.x - crop.rect.width) \div StepOf(v)[1],
      v.window[3] + crop.rect.y \div StepOf(v)[2],
      v.window[4] + (ShownHeight(v) - crop.rect.y - crop.rect.height) \div StepOf(v)[2]>>

\* No startcode, nor what could be taken for part of one
Plain(unit) ==
    /\ unit[Len(unit)] # 0
    /\ \A i \in 1..(Len(unit) - 2) : unit[i] = 0 /\ unit[i + 1] = 0 =>
            unit[i + 2] > 3 \/ (unit[i + 2] = 3 /\ i + 3 <= Len(unit) /\ unit[i + 3] <= 3)

ShowsIt(unit, v) ==
    LET header == Len(SpsHeader[crop.codec])
    IN /\ SubSeq(unit, 1, header) = SpsHeader[crop.codec]
       /\ Plain(unit)
       /\ Unescaped(SubSeq(unit, header + 1, Len(unit)))
            = BytesOf(SetBits(crop.codec, v, WindowBits(Narrowed(v))))

\* A stream that is written shows the rectangle asked for by every SPS in it,
\* every other bit and unit as it was, its units still where a reader finds
\* them; one that is refused could not be, and was for the reason given; and
\* the facts two streams are compared by are those of the set, however it is
\* packed (CropWindow::new, rewrite, packet; sps.rs).
WindowHolds ==
    /\ pc = "written" =>
        /\ \A u \in Sets : ~u.cut /\ Alike(u.set, First)
        /\ Fits(First) /\ OnUnits(First)
        /\ \A i \in DOMAIN crop.meant :
            LET units == UnitsOf(written.parts[i])
            IN /\ Len(units) = Len(crop.meant[i])
               /\ \A j \in DOMAIN units :
                    IF crop.meant[i][j].kind = "set" THEN ShowsIt(units[j], crop.meant[i][j].set)
                                                     ELSE units[j] = crop.meant[i][j].bytes
    /\ pc = "unreadable" => Sets = {} \/ \E u \in Sets : u.cut \/ ShownWidth(u.set) <= 0 \/ ShownHeight(u.set) <= 0
                                             \/ CodedBy(u.set)[1] > MaxSize \/ CodedBy(u.set)[2] > MaxSize
    /\ pc = "outside" => ~Fits(First) \/ crop.rect.width = 0 \/ crop.rect.height = 0
    /\ pc = "misaligned" => Fits(First) /\ ~OnUnits(First)
    /\ pc = "changes" => \E u \in Sets : ~Alike(u.set, First)
    /\ pc = "long" => crop.framing # 0
    /\ pc = "compared" =>
        facts = [profile |-> First.profile, level |-> First.level, chroma |-> First.chroma, depth |-> First.depth]
===============================================================================
