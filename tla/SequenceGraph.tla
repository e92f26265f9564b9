------------------------------ MODULE SequenceGraph ------------------------------
(***************************************************************************)
(* The edits that change what a sequence shows and sounds like, rather than *)
(* where its clips lie (EditHistory): speed, reverse, freezes, crops, the   *)
(* audio chain, the reframe, the sequence's settings, tracks' order and     *)
(* headers, sources, and trims, cuts, joins and keyframe snaps of clips of  *)
(* every motion (project/edit.rs).  The project is open under one lock, so  *)
(* an edit is one step; one that is refused changes nothing.  Undo is       *)
(* EditHistory's.                                                           *)
(*                                                                         *)
(* Each source has a video and an audio stream of one extent.  The clips of *)
(* a track are a set.  Names and the selection are left out.                *)
(***************************************************************************)
EXTENDS ClipOperations

CONSTANTS
    Projects0,      \* the projects that may be opened
    Shapes,       \* the shape of each source's pictures
    SourceExtent, \* the ticks of each source: <<first, end>>
    MaxSteps,     \* bound: edits made
    FirstKinds,   \* bound: the kinds of edit a project with clips begins with
    LastKinds,    \* bound: the kinds of edit that may be the last of them
    CutFrames,    \* bound: frames named by a cut, a freeze, a new clip
    HoldLengths,  \* bound: the frames a freeze lasts
    EdgeMoves,    \* bound: the frames a trim asks for
    TrimsAsked,   \* bound: the ranges a snap or a new clip plays
    SpeedsAsked,      \* bound: the speeds asked for
    RectsAsked,   \* bound: the rectangles asked for
    SidesAsked,   \* bound: the sides of one, <<field, value>>
    StepsAsked,   \* bound: the steps of the sound
    SettingsAsked \* bound: the settings

VARIABLES
    graph,  \* the project: settings, matching, loudness, sources, tracks
    known,  \* Facts: the sources that could be read
    steps,  \* how many edits were made (for the bound)
    edited    \* the edit this step made (for properties)

graphVars == <<graph, known, steps, edited>>

Quieter == [edit |-> "none"]
Unlinked == 0

-----------------------------------------------------------------------------
(* Reading the graph                                                         *)

ClipsIn(g) == UNION {g.tracks[i].clips : i \in DOMAIN g.tracks}
ClipWith(g, id) == CHOOSE c \in ClipsIn(g) : c.id = id
TrackWith(g, id) == CHOOSE i \in DOMAIN g.tracks : \E c \in g.tracks[i].clips : c.id = id
HomeOf(g, c) == g.tracks[TrackWith(g, c.id)]
IdsIn(g) == {c.id : c \in ClipsIn(g)}
FreshId(g) == Max(IdsIn(g) \cup {0}) + 1
PlacedIn(g, c) == Placed(c, g.settings.rate)
PlacementsOf(g, t) == {PlacedIn(g, c) : c \in t.clips}

\* visible and audible
Visible(t) == t.kind = "video" /\ ~t.muted
Audible(g, t) == ~t.muted /\ ((\E i \in DOMAIN g.tracks : g.tracks[i].solo) => t.solo)

\* evaluate, with validate
EvaluatesAt(g) ==
    /\ ValidSettings(g.settings) /\ g.loudness \in 0..Loudest
    /\ \A c \in ClipsIn(g) :
          /\ c.source \in g.sources /\ OfKind(c, "trim") # <<>>
          /\ \A i \in DOMAIN c.ops : InRange(c.ops[i])
    /\ \A i \in DOMAIN g.tracks : \A p, q \in PlacementsOf(g, g.tracks[i]) :
          p.clip # q.clip => EndFrame(p) <= q.start \/ EndFrame(q) <= p.start

\* Facts: the shapes and the extents of the sources that could be read
Unbounded == <<-100, 100>>
ExtentOf(c) == IF c.source \in known THEN SourceExtent ELSE Unbounded

\* picture: a clip whose picture's shape is known
HasPicture(g, c) == HomeOf(g, c).kind = "video" /\ c.source \in known

-----------------------------------------------------------------------------
(* What an edit compiles to                                                  *)

Untouched(g) ==
    [ok |-> TRUE, replaced |-> {}, removed |-> {}, inserted |-> {},
     settings |-> g.settings, matching |-> g.matching, loudness |-> g.loudness,
     sources |-> g.sources]
Refusal == [ok |-> FALSE]
UnlessThat(condition, compiled) == IF condition THEN Refusal ELSE compiled

Replacement(g, clips) == [Untouched(g) EXCEPT !.replaced = clips \ ClipsIn(g)]
OnTrack(t, c) == [track |-> t.id, clip |-> c]

\* touched_track
TouchedBy(g, ch) ==
    {HomeOf(g, c).id : c \in {c \in ClipsIn(g) : \/ c.id \in ch.removed
                                                 \/ \E r \in ch.replaced : r.id = c.id}}
        \cup {x.track : x \in ch.inserted}

Changed(g, ch) ==
    LET Now(c) == IF \E r \in ch.replaced : r.id = c.id
                  THEN CHOOSE r \in ch.replaced : r.id = c.id ELSE c
        Arrived(t) == {x.clip : x \in {x \in ch.inserted : x.track = t.id}}
        Kept(t) == [t EXCEPT !.clips = {Now(c) : c \in {c \in t.clips : c.id \notin ch.removed}}
                                         \cup Arrived(t)]
    IN [settings |-> ch.settings, matching |-> ch.matching, loudness |-> ch.loudness,
        sources |-> ch.sources, tracks |-> [i \in DOMAIN g.tracks |-> Kept(g.tracks[i])]]

ClipsOver(g, ids) == {c \in ClipsIn(g) : c.id \in ids}

\* set_speed, set_reverse
SpeedSet(g, ids, ratio) ==
    Replacement(g, {Respeeded(c, ratio) : c \in ClipsOver(g, ids)})
ReverseSet(g, ids, reverse) ==
    LET differs == {c \in ClipsOver(g, ids) : (OfKind(c, "reverse") # <<>>) # reverse}
    IN UnlessThat(\E c \in ClipsOver(g, ids) : HomeOf(g, c).kind # "video",
                  Replacement(g, {Reversed(c, reverse) : c \in differs}))

\* set_audio: not of a clip whose sound was detached
AudioSet(g, ids, step) ==
    UnlessThat(~InRange(step) \/ \E c \in ClipsOver(g, ids) : c.detached,
               Replacement(g, {WithStep(c, step) : c \in ClipsOver(g, ids)}))

\* set_crop, and its removal, which needs no shape
CropSet(g, ids, rect) ==
    UnlessThat(\E c \in ClipsOver(g, ids) :
                  ~HasPicture(g, c) \/ ~Crops(rect, Shapes[c.source]),
               Replacement(g, {Recropped(c, rect, Shapes[c.source]) : c \in ClipsOver(g, ids)}))
CropReset(g, ids) ==
    Replacement(g, {Recropped(c, NoRect, Shapes[c.source]) : c \in ClipsOver(g, ids)})

\* set_crop_sides, of one side
SideSet(g, id, field, value) ==
    LET c == ClipWith(g, id)
        now == IF CropOf(c) = NoRect THEN WholePicture(Shapes[c.source]) ELSE CropOf(c)
        rect == [now EXCEPT ![field] = value]
    IN UnlessThat(~HasPicture(g, c) \/ ~Crops(rect, Shapes[c.source]),
                  Replacement(g, {Recropped(c, rect, Shapes[c.source])}))

\* crop_to_aspect
AspectSet(g, ids, ratio) ==
    LET Rect(c) == Centred(Shapes[c.source], ratio)
    IN UnlessThat(\E c \in ClipsOver(g, ids) : ~HasPicture(g, c) \/ Rect(c) = NoRect,
                  Replacement(g, {Recropped(c, Rect(c), Shapes[c.source]) :
                                     c \in ClipsOver(g, ids)}))

-----------------------------------------------------------------------------
(* Reframe                                                                   *)

\* The clips that are reframed
OpenClips(g) == UNION {t.clips : t \in {t \in ToSet(g.tracks) : t.kind = "video" /\ ~t.locked}}

ReframedSettings(g, ratio) ==
    LET sources == {c.source : c \in OpenClips(g)}
        Length(c) == PlacedIn(g, c).length
    IN ReframedTo(g.settings.rate, [s \in sources |-> Shapes[s]],
                  [s \in sources |-> MapThenSumSet(Length, {c \in OpenClips(g) : c.source = s})],
                  ratio)

\* The clip's crop has the shape already.
KeepsCrop(c, ratio) ==
    CropOf(c) # NoRect /\ HasRatio(CropOf(c), Shapes[c.source], ratio)

\* Mutant: a crop of the shape stays where the whole picture has it.
ReframedKeeping(c, ratio) ==
    LET shape == Shapes[c.source]
    IN IF KeepsCrop(c, ratio) THEN c
       ELSE IF InShape(shape, ratio) THEN Recropped(c, NoRect, shape)
       ELSE Recropped(c, Centred(shape, ratio), shape)

\* A picture of the shape loses its crop; a crop of the shape stays.
ReframedClip(c, ratio) ==
    LET shape == Shapes[c.source]
    IN IF InShape(shape, ratio) THEN Recropped(c, NoRect, shape)
       ELSE IF KeepsCrop(c, ratio) THEN c
       ELSE Recropped(c, Centred(shape, ratio), shape)

ReframeTo(g, ratio) ==
    LET settings == ReframedSettings(g, ratio)
    IN UnlessThat(\/ OpenClips(g) = {} \/ \E c \in OpenClips(g) : c.source \notin known
                  \/ settings = NoSettings
                  \/ \E c \in OpenClips(g) : /\ ~KeepsCrop(c, ratio)
                                       /\ Centred(Shapes[c.source], ratio) = NoRect,
                  [Replacement(g, {ReframedClip(c, ratio) : c \in OpenClips(g)})
                     EXCEPT !.settings = settings, !.matching = FALSE])

-----------------------------------------------------------------------------
(* Edits of time, of clips of every motion                                   *)

Later(t, frame, id) == {c \in t.clips : c.id # id /\ c.start >= frame}
Shifted(clips, frames) == {[c EXCEPT !.start = @ + frames] : c \in clips}

\* split: the named clips, or all with none named, that can be cut there; the
\* new ids go by track and start
CutAt(g, ids, at) ==
    LET named == {c \in ClipsIn(g) : ids = {} \/ c.id \in ids}
        cuts == UNION {{[clip |-> c, left |-> HalfOf(c, p, sides.left),
                         right |-> HalfOf(c, p, sides.right)] : sides \in Halved(p, at)}
                       : <<c, p>> \in {<<c, PlacedIn(g, c)>> : c \in named}}
        Earlier(cut) == {d \in cuts :
                            \/ TrackWith(g, d.clip.id) < TrackWith(g, cut.clip.id)
                            \/ /\ TrackWith(g, d.clip.id) = TrackWith(g, cut.clip.id)
                               /\ d.clip.start < cut.clip.start}
        Right(cut) == [cut.right EXCEPT !.id = FreshId(g) + Cardinality(Earlier(cut))]
    IN UnlessThat(cuts = {},
                  [Replacement(g, {cut.left : cut \in cuts})
                     EXCEPT !.inserted = {OnTrack(HomeOf(g, cut.clip), Right(cut)) : cut \in cuts}])

\* join: two halves of one cut, in the motion they have
Together(g, left, right) ==
    LET a == ClipWith(g, left)  b == ClipWith(g, right)
        p == PlacedIn(g, a)  q == PlacedIn(g, b)
        joined == CASE p.motion = "hold" -> Held(a, p.length + q.length)
                    [] p.motion = "reverse" -> Retimed(a, q.from, p.to, a.start)
                    [] OTHER -> Retimed(a, p.from, q.to, a.start)
        meet == CASE p.motion = "hold" -> p.from = q.from
                  [] p.motion = "reverse" -> q.to = p.from
                  [] OTHER -> p.to = q.from
    IN UnlessThat(\/ HomeOf(g, a) # HomeOf(g, b) \/ EndFrame(p) # q.start
                  \/ a.source # b.source \/ p.speed # q.speed
                  \/ p.motion # q.motion \/ p.audio # q.audio \/ ~meet,
                  [Replacement(g, {joined}) EXCEPT !.removed = {right}])

\* freeze_frame: where the clip cannot be cut, all of it moves after the hold
FreezeFrame(g, id, at, frames) ==
    LET c == ClipWith(g, id)  p == PlacedIn(g, c)  cuts == Halved(p, at)
        hold == [c EXCEPT !.id = FreshId(g) + Cardinality(cuts), !.start = at,
                          !.detached = FALSE, !.link = Unlinked,
                          !.ops = <<TrimTo(SourceAt(p, at), SourceAt(p, at) + 1), HoldFor(frames)>>]
        rest == {[HalfOf(c, p, sides.right) EXCEPT !.id = FreshId(g), !.start = @ + frames] :
                    sides \in cuts}
        kept == IF cuts = {} THEN {[c EXCEPT !.start = @ + frames]}
                ELSE {HalfOf(c, p, sides.left) : sides \in cuts}
        after == Shifted(Later(HomeOf(g, c), EndFrame(p), id), frames)
    IN UnlessThat(\/ HomeOf(g, c).kind # "video" \/ ~OnScreen(p, at)
                  \/ SourceAt(p, at) = NoTick,
                  [Replacement(g, after \cup kept)
                     EXCEPT !.inserted = {OnTrack(HomeOf(g, c), x) : x \in {hold} \cup rest}])

\* trim_hold: only the length changes
TrimHold(p, edge, frames, room) ==
    LET at == Max({Min({frames, p.length - 1})} \cup {f - p.start : f \in room[1]})
        by == Min({Max({frames, 1 - p.length})} \cup {f - EndFrame(p) : f \in room[2]})
    IN IF edge = "start" THEN Part(p.from, p.to, p.start + at, p.length - at)
                         ELSE Part(p.from, p.to, p.start, p.length + by)

\* trim_moving: backwards, the timeline's start is the source's end, and the
\* room is mirrored
TrimMoving(p, edge, frames, extent, room) ==
    LET mirrored == <<{p.start - (f - EndFrame(p)) : f \in room[2]},
                      {EndFrame(p) + p.start - f : f \in room[1]}>>
        trimmed == CASE p.motion = "forward" /\ edge = "start" -> TrimStart(p, frames, extent, room)
                     [] p.motion = "forward" /\ edge = "end" -> TrimEnd(p, frames, extent, room)
                     [] edge = "start" -> TrimEnd(p, -frames, extent, <<{}, mirrored[2]>>)
                     [] OTHER -> TrimStart(p, -frames, extent, <<mirrored[1], {}>>)
        start == CASE p.motion = "forward" -> trimmed.start
                   [] edge = "start" -> EndFrame(p) - LengthOf(trimmed)
                   [] OTHER -> p.start
    IN IF p.motion = "hold" THEN TrimHold(p, edge, frames, room)
       ELSE Timed(p.rate, trimmed.from, trimmed.to, start)

\* trim_edge: in a ripple the clip keeps its start and the rest follows
TrimOf(g, id, edge, frames, ripple) ==
    LET c == ClipWith(g, id)  p == PlacedIn(g, c)
        others == PlacementsOf(g, HomeOf(g, c)) \ {p}
        room == IF ripple THEN <<{0}, {}>>
                ELSE <<{Max({0} \cup {EndFrame(q) : q \in {q \in others : EndFrame(q) <= p.start}})},
                       {q.start : q \in {q \in others : q.start >= EndFrame(p)}}>>
    IN TrimMoving(p, edge, frames, ExtentOf(c), room)
EdgeTrimmed(g, id, trimmed, ripple) ==
    LET c == ClipWith(g, id)  p == PlacedIn(g, c)
        half == IF ripple THEN [trimmed EXCEPT !.start = p.start] ELSE trimmed
        after == Shifted(Later(HomeOf(g, c), EndFrame(p), id), trimmed.length - p.length)
    IN IF half = Part(p.from, p.to, p.start, p.length) THEN Untouched(g)
       ELSE Replacement(g, {HalfOf(c, p, half)} \cup (IF ripple THEN after ELSE {}))

\* snap_to_keyframes: snaps gives clips their new trims.  A clip linked to one
\* moves its trim alike; what comes after a snapped clip follows on every
\* unlocked track.
Snap(g, snaps) ==
    LET ids == DOMAIN snaps
        Was(id) == PlacedIn(g, ClipWith(g, id))
        Follows(c, id) == LET d == ClipWith(g, id) IN /\ d.link # Unlinked /\ c.link = d.link
                                                      /\ c.source = d.source /\ c.id \notin ids
        partners == {c \in ClipsIn(g) : \E id \in ids : Follows(c, id)}
        NewTrim(c) ==
            IF c.id \in ids THEN snaps[c.id]
            ELSE LET id == Max({id \in ids : Follows(c, id)})
                 IN <<Was(c.id).from + snaps[id][1] - Was(id).from,
                      Was(c.id).to + snaps[id][2] - Was(id).to>>
        Longer(id) == FramesUntil(Was(id).rate, snaps[id][2] - snaps[id][1]) - Was(id).length
        Shift(c) == IF HomeOf(g, c).locked THEN 0
                    ELSE MapThenSumSet(Longer, {id \in ids : EndFrame(Was(id)) <= c.start})
        trimmed == ClipsOver(g, ids) \cup partners
        Snapped(c) == Retimed(c, NewTrim(c)[1], NewTrim(c)[2], c.start + Shift(c))
    IN UnlessThat(\/ \E id \in ids : Was(id).motion # "forward" \/ snaps[id][1] >= snaps[id][2]
                  \/ \E c \in trimmed : HomeOf(g, c).locked \/ NewTrim(c)[1] >= NewTrim(c)[2],
                  Replacement(g, {Snapped(c) : c \in trimmed}
                                 \cup {[c EXCEPT !.start = @ + Shift(c)] :
                                         c \in ClipsIn(g) \ trimmed}))

-----------------------------------------------------------------------------
(* Sources, settings, new clips and tracks                                   *)

\* remove_source, with its clips
SourceRemoved(g, s) ==
    [Untouched(g) EXCEPT !.removed = {c.id : c \in {c \in ClipsIn(g) : c.source = s}},
                         !.sources = @ \ {s}]

\* Edit::SetSettings, SetSequenceLoudness (0 for none)
SettingsSet(g, settings) ==
    UnlessThat(~ValidSettings(settings),
               [Untouched(g) EXCEPT !.settings = settings, !.matching = FALSE])
LoudnessSet(g, target) ==
    UnlessThat(target \notin 0..Loudest, [Untouched(g) EXCEPT !.loudness = target])

\* add_clip: adopt_first_clip gives a sequence that waits for one its shape
ClipAdded(g, track, s, range, start) ==
    LET c == [id |-> FreshId(g), source |-> s, start |-> start, detached |-> FALSE,
              link |-> Unlinked, ops |-> <<TrimTo(range[1], range[2])>>]
        adopts == /\ g.matching /\ ClipsIn(g) = {} /\ track.kind = "video"
                  /\ s \in known /\ ValidSettings(Matching(Shapes[s]))
        added == [Untouched(g) EXCEPT !.inserted = {OnTrack(track, c)}]
    IN UnlessThat(s \notin g.sources,
                  IF adopts THEN [added EXCEPT !.settings = Matching(Shapes[s]), !.matching = FALSE]
                  ELSE added)

-----------------------------------------------------------------------------
(* Steps                                                                     *)

\* Document::apply and commit, of what an edit compiled to
Does(edit, compilation) ==
    \E compiled \in {compilation} :
        /\ compiled.ok /\ compiled # Untouched(graph)
        /\ ~\E t \in ToSet(graph.tracks) : t.locked /\ t.id \in TouchedBy(graph, compiled)
        /\ \E g \in {Changed(graph, compiled)} : EvaluatesAt(g) /\ graph' = g
        /\ edited' = edit /\ steps' = steps + 1 /\ UNCHANGED known

MayDo(kind) ==
    /\ steps < MaxSteps
    /\ steps = 0 /\ ClipsIn(graph) # {} => kind \in FirstKinds
    /\ steps > 0 /\ steps = MaxSteps - 1 => kind \in LastKinds

\* The clips an edit names: one, or those of the open video tracks
Groups == {{id} : id \in IdsIn(graph)} \cup {{c.id : c \in OpenClips(graph)}}

PlaysAt ==
    MayDo("speed") /\ \E ids \in Groups, ratio \in SpeedsAsked :
        Does([edit |-> "speed"], SpeedSet(graph, ids, ratio))
PlaysBackwards ==
    MayDo("reverse") /\ \E ids \in Groups, reverse \in BOOLEAN :
        Does([edit |-> "reverse"], ReverseSet(graph, ids, reverse))

SoundsLike ==
    MayDo("sound") /\ \E ids \in Groups, step \in StepsAsked :
        Does([edit |-> "sound"], AudioSet(graph, ids, step))
Bypasses ==
    MayDo("sound") /\ \E ids \in Groups, bypassed \in BOOLEAN :
        Does([edit |-> "sound"],
             Replacement(graph, {WithBypass(c, bypassed) : c \in ClipsOver(graph, ids)}))
Resets ==
    MayDo("sound") /\ \E ids \in Groups, stages \in {Stages} \cup {{stage} : stage \in Stages} :
        Does([edit |-> "sound"],
             Replacement(graph, {WithoutSteps(c, stages) : c \in ClipsOver(graph, ids)}))
Normalises ==
    MayDo("sound") /\ \E target \in 0..Loudest :
        Does([edit |-> "sound"], LoudnessSet(graph, target))

CropsTo ==
    MayDo("crop") /\ \E ids \in Groups :
        \/ \E rect \in RectsAsked : Does([edit |-> "crop"], CropSet(graph, ids, rect))
        \/ \E ratio \in Ratios : Does([edit |-> "crop"], AspectSet(graph, ids, ratio))
        \/ Does([edit |-> "crop"], CropReset(graph, ids))
CropsSide ==
    MayDo("crop") /\ \E id \in IdsIn(graph), side \in SidesAsked :
        Does([edit |-> "crop"], SideSet(graph, id, side[1], side[2]))

Reframes ==
    MayDo("reframe") /\ \E ratio \in Ratios :
        Does([edit |-> "reframe", ratio |-> ratio], ReframeTo(graph, ratio))

CutsClips ==
    MayDo("cut") /\ \E ids \in Groups \cup {{}}, at \in CutFrames :
        Does([edit |-> "cut"], CutAt(graph, ids, at))
JoinsClips ==
    MayDo("join") /\ \E left, right \in IdsIn(graph) :
        left # right /\ Does([edit |-> "join"], Together(graph, left, right))
Freezes ==
    MayDo("freeze") /\ \E id \in IdsIn(graph), at \in CutFrames, frames \in HoldLengths :
        Does([edit |-> "freeze", id |-> id, at |-> at, frames |-> frames],
             FreezeFrame(graph, id, at, frames))
TrimsEdge ==
    MayDo("trim") /\ \E id \in IdsIn(graph), edge \in {"start", "end"}, frames \in EdgeMoves,
                        ripple \in BOOLEAN :
        \E trimmed \in {TrimOf(graph, id, edge, frames, ripple)} :
            Does([edit |-> "trim", id |-> id, ripple |-> ripple],
                 EdgeTrimmed(graph, id, trimmed, ripple))
Snaps ==
    MayDo("snap") /\ \E ids \in {ids \in Groups : ids # {}} :
        \E snaps \in [ids -> TrimsAsked] :
            Does([edit |-> "snap", snaps |-> snaps], Snap(graph, snaps))

PlacesClip ==
    MayDo("place") /\ \E track \in ToSet(graph.tracks), s \in DOMAIN Shapes, range \in TrimsAsked,
                         start \in CutFrames :
        Does([edit |-> "place"], ClipAdded(graph, track, s, range, start))
Configures ==
    MayDo("settings") /\ \E settings \in SettingsAsked :
        Does([edit |-> "settings"], SettingsSet(graph, settings))

\* add_sources: content that is there already keeps its id
Imports ==
    MayDo("source") /\ \E s \in DOMAIN Shapes \ graph.sources :
        Does([edit |-> "source"], [Untouched(graph) EXCEPT !.sources = @ \cup {s}])
Forgets ==
    MayDo("source") /\ \E s \in graph.sources :
        Does([edit |-> "source"], SourceRemoved(graph, s))

\* describe_source and describe_streams, as a file is read or goes away
Describes ==
    /\ MayDo("source")
    /\ \E s \in graph.sources : known' = IF s \in known THEN known \ {s} ELSE known \cup {s}
    /\ edited' = [edit |-> "describe"] /\ steps' = steps + 1 /\ UNCHANGED graph

\* track_edit and move_track: videos stay above the sound
Headers ==
    MayDo("track") /\ \E i \in DOMAIN graph.tracks, switch \in {"muted", "solo", "locked"} :
        /\ graph' = [graph EXCEPT !.tracks[i][switch] = ~@]
        /\ edited' = [edit |-> "track"] /\ steps' = steps + 1 /\ UNCHANGED known
MovesTrack ==
    MayDo("track") /\ \E i, j \in DOMAIN graph.tracks :
        /\ i # j /\ graph.tracks[i].kind = graph.tracks[j].kind /\ ~graph.tracks[i].locked
        /\ graph' = [graph EXCEPT !.tracks = InsertAt(RemoveAt(@, i), j, @[i])]
        /\ edited' = [edit |-> "track"] /\ steps' = steps + 1 /\ UNCHANGED known

GraphInit ==
    /\ graph \in Projects0 /\ known = DOMAIN Shapes
    /\ steps = 0 /\ edited = Quieter

GraphNext ==
    \/ PlaysAt \/ PlaysBackwards \/ SoundsLike \/ Bypasses \/ Resets \/ Normalises
    \/ CropsTo \/ CropsSide \/ Reframes \/ CutsClips \/ JoinsClips \/ Freezes \/ TrimsEdge
    \/ Snaps \/ PlacesClip \/ Configures \/ Imports \/ Forgets \/ Describes
    \/ Headers \/ MovesTrack

-----------------------------------------------------------------------------
(* Properties                                                                *)

\* Two ticks are the same picture: exactly, or to a tick where a frame is no
\* whole number of them.
SameTick(rate, s, t) == IF rate[1] % rate[2] = 0 THEN s = t ELSE s - t \in -1..1

Layers(g) ==
    FoldLeft(LAMBDA layers, t : Append(layers, PlacementsOf(g, t)), <<>>,
             SelectSeq(g.tracks, Visible))

\* Each frame of a clip is in a piece.
Complete(layers, pieces) ==
    \A p \in UNION ToSet(layers) : \A frame \in p.start..EndFrame(p) - 1 :
        \E piece \in ToSet(pieces) : OnScreen(piece, frame)

\* The picture composed of the visible tracks shows at each frame what the clip
\* in front shows there; pieces of it do not overlap; and where every frame is a
\* whole number of ticks nothing is missing (evaluate.rs: Timeline::picture,
\* crop).
PictureIsTop ==
    LET layers == Layers(graph)
        pieces == PictureOf(layers)
        Exact(p) == p.motion = "hold" \/ p.rate[1] % p.rate[2] = 0
    IN /\ \A i \in 1..Len(pieces) - 1 : EndFrame(pieces[i]) <= pieces[i + 1].start
       /\ \A p \in ToSet(pieces) : \A frame \in p.start..EndFrame(p) - 1 :
             \E i \in DOMAIN layers : \E top \in layers[i] :
                /\ OnScreen(top, frame)
                /\ \A j \in 1..i - 1 : \A q \in layers[j] : ~OnScreen(q, frame)
                /\ p.clip = top.clip /\ p.crop = top.crop /\ p.motion = top.motion
                /\ SameTick(p.rate, SourceAt(p, frame), SourceAt(top, frame))
       /\ (\A p \in UNION ToSet(layers) : Exact(p)) => Complete(layers, pieces)

\* A clip's operations as the evaluator resolved them resolve to the same
\* placement; and its crop lies in the picture it crops, on the colour's grid,
\* whichever edits it came through (evaluate.rs: Placement::operations, place;
\* edit.rs: set_crop_sides, recropped; crop.rs: check, centred).
ClipsResolve ==
    \A c \in ClipsIn(graph) :
        \A p \in {PlacedIn(graph, c)} :
            /\ PlacedIn(graph, [c EXCEPT !.ops = Resolved(p)]) = p
            /\ p.crop # NoRect => Crops(p.crop, Shapes[c.source])

\* What is composed of the clips is what each of them says.
PicturesHold == PictureIsTop /\ ClipsResolve

\* A reframed sequence has a size that can be encoded; every open clip shows
\* the shape asked for, uncropped where its picture has it; a source that has
\* it is copied where one can be; and reframing again changes nothing
\* (reframe.rs).
ReframeSettles ==
    [][edited'.edit = "reframe" /\ steps' # steps =>
         LET ratio == edited'.ratio
             natives == {c \in OpenClips(graph') :
                           LET shape == Shapes[c.source]
                           IN InShape(shape, ratio) /\ shape.rate = graph.settings.rate
                              /\ ValidSettings(Matching(shape))}
         IN /\ ValidSettings(graph'.settings) /\ graph'.settings.rate = graph.settings.rate
            /\ \A c \in OpenClips(graph') :
                  IF InShape(Shapes[c.source], ratio) THEN CropOf(c) = NoRect
                  ELSE Crops(CropOf(c), Shapes[c.source])
            /\ natives # {} => \E c \in natives : Eligible(graph'.settings, Shapes[c.source])
            /\ ReframeTo(graph', ratio) = Untouched(graph')]_graphVars

\* What is heard of a clip, and what is seen of it
Heard(g) ==
    {LET p == PlacedIn(g, c)
     IN [clip |-> c.id, from |-> p.from, to |-> p.to, start |-> p.start, length |-> p.length,
         rate |-> p.rate, motion |-> p.motion, audio |-> p.audio,
         silent |-> p.silent \/ ~Audible(g, HomeOf(g, c)),
         forced |-> IF ReachesSound(p.forced) THEN p.forced ELSE "none"] : c \in ClipsIn(g)}
Seen(g) ==
    LET pieces == PictureOf(Layers(g))
    IN [i \in DOMAIN pieces |-> [pieces[i] EXCEPT !.audio = <<>>]]

\* Editing the sound leaves the picture as it was, and what must be re-encoded
\* of it; a crop or a reframe leaves the sound (evaluate.rs: reaches_sound,
\* Placement::sound_forced; edit.rs: set_audio, recropped).
AspectsKeepApart ==
    [][/\ edited'.edit = "sound" /\ steps' # steps => Seen(graph') = Seen(graph)
       /\ edited'.edit \in {"crop", "reframe"} /\ steps' # steps => Heard(graph') = Heard(graph)]_graphVars

\* Sound and picture, and the shapes asked for, do not disturb one another.
AspectsSettle == AspectsKeepApart /\ ReframeSettles

\* What a track's placements show at a frame: the source and the tick
Shown(placements, frame) ==
    LET there == {p \in placements : OnScreen(p, frame)}
    IN IF there = {} THEN <<0, NoTick>>
       ELSE LET p == CHOOSE p \in there : TRUE IN <<p.source, SourceAt(p, frame)>>
ShowsLike(s, t) == s[1] = t[1] /\ s[2] - t[2] \in -1..1
LastFrame(placements) == Max({0} \cup {EndFrame(p) : p \in placements})

\* Cutting a clip of any motion, and joining its halves, changes no frame; a
\* freeze holds the picture it was made of, and moves the rest of its track
\* behind it; a clip that is trimmed shows what it showed at the frames it
\* keeps, or less than a frame beside it backwards and where its source begins; a snapped clip plays what was asked, and clips that followed its
\* end stay as far behind it (edit.rs: split, join, freeze_frame, trim_edge,
\* snap_to_keyframes).
FramesStay ==
    [][steps' # steps =>
       /\ edited'.edit \in {"cut", "join"} =>
             \A i \in DOMAIN graph.tracks :
                LET was == PlacementsOf(graph, graph.tracks[i])
                    is == PlacementsOf(graph', graph'.tracks[i])
                IN \A frame \in 0..LastFrame(was \cup is) :
                      ShowsLike(Shown(is, frame), Shown(was, frame))
       /\ edited'.edit = "freeze" =>
             LET i == TrackWith(graph, edited'.id)  at == edited'.at
                 was == PlacementsOf(graph, graph.tracks[i])
                 is == PlacementsOf(graph', graph'.tracks[i])
             IN \A frame \in 0..LastFrame(was \cup is) :
                   ShowsLike(Shown(is, frame),
                             Shown(was,
                                   IF frame < at THEN frame
                                   ELSE IF frame < at + edited'.frames THEN at
                                   ELSE frame - edited'.frames))
       /\ edited'.edit = "trim" /\ ~edited'.ripple =>
             LET p == PlacedIn(graph, ClipWith(graph, edited'.id))
                 q == PlacedIn(graph', ClipWith(graph', edited'.id))
             IN \A frame \in p.start..EndFrame(p) - 1 :
                   OnScreen(q, frame) =>
                      LET off == SourceAt(p, frame) - SourceAt(q, frame)
                      IN \/ off \in -1..1
                         \/ /\ q.from = SourceExtent[1] \/ p.motion = "reverse"
                            /\ Max({off, -off}) * p.rate[2] < p.rate[1]
       /\ edited'.edit = "snap" =>
             \A id \in DOMAIN edited'.snaps :
                LET p == PlacedIn(graph, ClipWith(graph, id))
                    q == PlacedIn(graph', ClipWith(graph', id))
                IN /\ <<q.from, q.to>> = edited'.snaps[id]
                   /\ DOMAIN edited'.snaps = {id} =>
                         /\ q.start = p.start
                         /\ \A c \in ClipsIn(graph) :
                               c.start >= EndFrame(p) /\ ~HomeOf(graph, c).locked =>
                                  ClipWith(graph', c.id).start - EndFrame(q) = c.start - EndFrame(p)]_graphVars
===============================================================================
