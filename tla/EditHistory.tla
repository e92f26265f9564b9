------------------------------ MODULE EditHistory ------------------------------
(***************************************************************************)
(* project/edit.rs: Document, the open project and its history.  It is     *)
(* used under the lock of the open project, so one call is one step.  An   *)
(* edit is compiled, checked against the tracks' locks, applied change by  *)
(* change, and taken back if the graph worked and would no longer; the     *)
(* history keeps the inverses of its changes.                              *)
(***************************************************************************)
EXTENDS TimelineEdits

CONSTANTS
    Projects,  \* the projects that may be opened
    Depth,     \* how many entries the history keeps
    MaxEdits,  \* bound: edits made
    LateEdits, \* bound: the kinds of edit the last of them may be
    Frames,    \* bound: the frames an edit may name
    Deltas,    \* by how many frames an edge is trimmed or a cut rolled
    NewClips,  \* the source ranges <<from, to>> clips are added with
    MaxClips,  \* bound: no edit adds a clip to a project of that many
    MaxTracks  \* bound: no edit adds a track to a project of that many

ASSUME DepthAssumption == Depth \in Nat \ {0}
ASSUME BoundsAssumption ==
    /\ MaxEdits \in Nat /\ Frames \subseteq Nat /\ MaxClips \in Nat /\ MaxTracks \in Nat
    /\ Deltas \subseteq Int /\ NewClips \subseteq (Extent[1]..Extent[2]) \X Int

ClipType == [id : Nat \ {0}, from : Int, to : Int, start : Int, rate : Rates,
             link : Nat, detached : BOOLEAN]
TrackType == [id : Nat \ {0}, kind : {"video", "audio"}, locked : BOOLEAN,
              clips : Seq(ClipType)]

\* What was loaded, and validated when it was
ASSUME ProjectsAssumption == \A p \in Projects : p \in Seq(TrackType) /\ IdsOnce(p)

VARIABLES
    project,   \* the graph
    done,      \* the entries undo takes, each its inverse changes
    undone,    \* the entries redo takes, each its forward changes
    gesture,   \* the entry a gesture is building, if one is under way
    evaluates, \* whether the graph is held to evaluating
    edits,     \* how many edits were made (for the bound)
    applied    \* the edit this step applied, if it did (for properties)

vars == <<project, done, undone, gesture, evaluates, edits, applied>>

NoGesture == [open |-> FALSE, changes |-> <<>>]
NoEdit == [edit |-> "none"]

-----------------------------------------------------------------------------

\* push
Push(entries, entry) ==
    LET all == Append(entries, entry)
    IN IF Len(all) > Depth THEN Tail(all) ELSE all

\* end_gesture: what is done once the gesture under way is an entry
Settled ==
    IF gesture.open /\ gesture.changes # <<>> THEN Push(done, gesture.changes)
                                               ELSE done

OnlyReplaces(changes) ==
    \A i \in DOMAIN changes : changes[i].change = "replace-clip"

\* Mutant: the last inverse of a clip is kept, not the first.
CoalesceLatest(recorded, inverses) ==
    IF ~OnlyReplaces(recorded) \/ ~OnlyReplaces(inverses)
    THEN recorded \o inverses
    ELSE SelectSeq(recorded, LAMBDA old :
             \A i \in DOMAIN inverses : inverses[i].clip.id # old.clip.id)
         \o inverses

Has(changes, id) == \E i \in DOMAIN changes : changes[i].clip.id = id

\* coalesce
Coalesce(recorded, inverses) ==
    IF ~OnlyReplaces(recorded) \/ ~OnlyReplaces(inverses)
    THEN recorded \o inverses
    ELSE LET kept[n \in 0..Len(inverses)] ==
                 IF n = 0 THEN recorded
                 ELSE CHOOSE k \in {IF Has(l, inverses[n].clip.id) THEN l ELSE Append(l, inverses[n]) :
                                        l \in {kept[n - 1]}} : TRUE
         IN kept[Len(inverses)]

\* What can be redone after an edit
UndoneAfterEdit == <<>>

\* Edits made in sequence frames are refused if the graph does not evaluate.
InFrames(compiled) == Unless(~Evaluates(project), compiled)

\* Document::commit, of what the changes led to
Commit(edit, result) ==
    /\ result.ok /\ (evaluates => Evaluates(result.project))
    /\ project' = result.project
    /\ evaluates' = TRUE
    /\ undone' = UndoneAfterEdit
    /\ IF gesture.open
       THEN /\ gesture' = [gesture EXCEPT !.changes = Coalesce(@, result.inverses)]
            /\ UNCHANGED done
       ELSE done' = Push(done, result.inverses) /\ UNCHANGED gesture
    /\ edits' = edits + 1 /\ applied' = edit

\* Refused by commit: what was applied is taken back.
RollBack(result) ==
    /\ ~result.ok \/ (evaluates /\ ~Evaluates(result.project))
    /\ project' = Revert(result.project, result.inverses).project
    /\ applied' = NoEdit
    /\ UNCHANGED <<done, undone, gesture, evaluates, edits>>

\* Document::apply, of what the edit compiled to
Apply(edit, compilation) ==
    /\ edits < MaxEdits /\ (edits = MaxEdits - 1 => edit.edit \in LateEdits)
    /\ \E compiled \in {compilation} :
          /\ compiled.ok /\ compiled.changes # <<>>
          /\ ~TouchesLocked(project, compiled.changes)
          /\ \E result \in {ApplyAll(project, compiled.changes)} :
                Commit(edit, result) \/ RollBack(result)

-----------------------------------------------------------------------------
(* The edits                                                                 *)

RoomForClips(n) == Cardinality(Clips(project)) + n <= MaxClips
RoomForTrack == Len(project) < MaxTracks

\* One clip, or two clips exchanging their places
MovesOne ==
    \E id \in Ids(project), track \in TrackIds(project), start \in Frames :
        Apply([edit |-> "move", ids |-> {id}],
              MoveClips(project, <<[clip |-> id, track |-> track, start |-> start]>>))
MovesPast ==
    \E a, b \in Ids(project) :
        LET To(id, place) == [clip |-> id, track |-> project[Home(project, place)].id,
                              start |-> ClipOf(project, place).start]
        IN /\ a < b
           /\ Apply([edit |-> "move", ids |-> {a, b}],
                    MoveClips(project, <<To(a, b), To(b, a)>>))

Removes ==
    \E id \in Ids(project) :
        Apply([edit |-> "remove", ids |-> {id}], RemoveClips(project, {id}))

RippleDeletes ==
    \E id \in Ids(project) :
        Apply([edit |-> "ripple-delete", ids |-> {id}],
              InFrames(RippleDelete(project, {id})))

Trims ==
    \E id \in Ids(project), edge \in {"start", "end"}, frames \in Deltas,
       ripple \in BOOLEAN :
        Apply([edit |-> "trim", id |-> id, edge |-> edge, frames |-> frames,
               ripple |-> ripple],
              InFrames(TrimEdge(project, id, edge, frames, ripple)))

Rolls ==
    \E left, right \in Ids(project), frames \in Deltas :
        /\ left # right
        /\ Apply([edit |-> "roll", left |-> left, right |-> right],
                 InFrames(Roll(project, left, right, frames)))

\* The clips named, or with none named every clip
Splitting(ids, at) == InFrames(Split(project, ids, at))
Cuts ==
    \E at \in Frames, ids \in {{id} : id \in Ids(project)} \cup {Ids(project)} :
        /\ RoomForClips(Cardinality({c \in Clips(project) : c.id \in ids
                                                      /\ Splits(c, at)}))
        /\ Apply([edit |-> "split", ids |-> ids, at |-> at], Splitting(ids, at))

Joins ==
    \E left, right \in Ids(project) :
        /\ left # right
        /\ Apply([edit |-> "join", left |-> left, right |-> right],
                 InFrames(Join(project, left, right)))

Duplicates ==
    \E id \in Ids(project) :
        /\ RoomForClips(1)
        /\ Apply([edit |-> "duplicate"], InFrames(Duplicate(project, {id})))

Pastes ==
    \E id \in Ids(project), at \in Frames :
        /\ RoomForClips(Cardinality(WithLinks(project, {id})))
        /\ Apply([edit |-> "paste", ids |-> {id}], InFrames(Paste(project, {id}, at)))

Detaches ==
    \E id \in Ids(project) :
        /\ RoomForClips(1) /\ RoomForTrack
        /\ Apply([edit |-> "detach", id |-> id], InFrames(DetachAudio(project, id)))

Unlinks ==
    \E id \in Ids(project) :
        Apply([edit |-> "unlink"], Unlink(project, {id}))

Speeds ==
    \E id \in Ids(project), rate \in Rates :
        Apply([edit |-> "speed"], SetSpeed(project, {id}, rate))

Locks ==
    \E track \in TrackIds(project), locked \in BOOLEAN :
        Apply([edit |-> "lock"], SetTrack(project, track, locked))

DropsTrack ==
    \E track \in TrackIds(project) :
        Apply([edit |-> "drop-track"], DropTrack(project, track))

AddsClip ==
    \E track \in TrackIds(project), range \in NewClips, start \in Frames :
        /\ RoomForClips(1)
        /\ Apply([edit |-> "add-clip"],
                 AddClip(project, track, range[1], range[2], start))

AddsTrack ==
    \E kind \in {"video", "audio"} :
        /\ RoomForTrack
        /\ Apply([edit |-> "add-track"], AddTrack(project, kind))

-----------------------------------------------------------------------------
(* Gestures, undo and redo.  With nothing to undo or to redo, the call only  *)
(* ends the gesture.                                                         *)

BeginGesture ==
    /\ gesture' = [open |-> TRUE, changes |-> <<>>]
    /\ done' = Settled
    /\ applied' = NoEdit
    /\ UNCHANGED <<project, undone, evaluates, edits>>

EndGesture ==
    /\ gesture.open
    /\ gesture' = NoGesture /\ done' = Settled
    /\ applied' = NoEdit
    /\ UNCHANGED <<project, undone, evaluates, edits>>

Undo ==
    /\ Settled # <<>>
    /\ \E result \in {Revert(project, Last(Settled))} :
          /\ project' = result.project
          /\ undone' = Append(undone, result.forward)
          /\ evaluates' = Evaluates(result.project)
    /\ done' = Front(Settled)
    /\ gesture' = NoGesture /\ applied' = NoEdit
    /\ UNCHANGED edits

\* An entry that does not apply is dropped.
Redo ==
    /\ undone # <<>>
    /\ \E result \in {ApplyAll(project, Last(undone))} :
          /\ undone' = Front(undone)
          /\ IF result.ok
             THEN /\ project' = result.project
                  /\ done' = Push(Settled, result.inverses)
                  /\ evaluates' = Evaluates(result.project)
             ELSE /\ project' = Revert(result.project, result.inverses).project
                  /\ done' = Settled
                  /\ UNCHANGED evaluates
    /\ gesture' = NoGesture /\ applied' = NoEdit
    /\ UNCHANGED edits

-----------------------------------------------------------------------------

Init ==
    /\ project \in Projects
    /\ done = <<>> /\ undone = <<>> /\ gesture = NoGesture
    /\ evaluates = Evaluates(project)
    /\ edits = 0 /\ applied = NoEdit

AnyEdit ==
    \/ MovesOne \/ MovesPast \/ Removes \/ RippleDeletes \/ Trims \/ Rolls
    \/ Cuts \/ Joins \/ Duplicates \/ Pastes \/ Detaches \/ Unlinks \/ Speeds
    \/ Locks \/ DropsTrack \/ AddsClip \/ AddsTrack

Next == AnyEdit \/ BeginGesture \/ EndGesture \/ Undo \/ Redo

Spec == Init /\ [][Next]_vars
-----------------------------------------------------------------------------
(* Properties                                                                *)

\* Tracks of clips; a history of at most Depth entries, none of them empty; and
\* nothing recorded of a gesture that is not under way (edit.rs: Document).
TypeOK ==
    /\ project \in Seq(TrackType)
    /\ Len(done) <= Depth
    /\ \A entry \in ToSet(done) \cup ToSet(undone) : Len(entry) > 0
    /\ gesture.open \in BOOLEAN /\ (~gesture.open => gesture = NoGesture)
    /\ evaluates \in BOOLEAN /\ edits \in 0..MaxEdits

\* A track lists its clips in the order they play, whatever edits, undos and
\* redos led there (mod.rs, Track: clips "in timeline order").
TimelineOrder ==
    \A i \in DOMAIN project : \A j, k \in DOMAIN project[i].clips :
        j < k => project[i].clips[j].start <= project[i].clips[k].start

Edited(kind) == edits' # edits /\ applied'.edit = kind
Named == applied'.ids
Linked(c, d) == c # d /\ c.link = d.link /\ c.link # NoLink

\* No edit puts a clip on a locked track, takes one away or changes one,
\* however indirectly: by a link, a ripple or a paste (edit.rs: touched_track).
LocksHold ==
    [][edits' # edits =>
         \A i \in DOMAIN project : project[i].locked =>
            \E k \in DOMAIN project' :
               project'[k].id = project[i].id /\ project'[k].clips = project[i].clips]_vars

\* Linked clips are taken away together, and move together: one that follows
\* stays on its track (edit.rs: with_links, with_linked_moves).
LinkedGoTogether ==
    [][/\ Edited("remove") \/ Edited("ripple-delete") =>
            \A c, d \in Clips(project) : c.id \in Named /\ Linked(c, d) =>
               d.id \notin Ids(project')
       /\ Edited("move") =>
            \A c, d \in Clips(project) : Named = {c.id} /\ Linked(c, d) =>
               LET e == ClipOf(project', d.id)
               IN /\ e.start - d.start = ClipOf(project', c.id).start - c.start
                  /\ project'[Home(project', d.id)].id = project[Home(project, d.id)].id]_vars

\* The frames of a clip show what they showed: exactly, or where a frame is no
\* whole number of ticks, to a tick.
ShowsTheSame(part, c) ==
    \A frame \in part.start..EndOf(part) - 1 :
        LET off == TickAt(part, frame) - TickAt(c, frame)
        IN IF c.rate[2] = 1 THEN off = 0 ELSE off \in -1..1

\* The halves of a cut take up the frames of the clip and show its pictures; no
\* tick is in both or, but for the last one where a frame is no whole number of
\* ticks, in neither (split.rs: halves).
CutIsExact ==
    [][Edited("split") =>
         \A right \in Clips(project') : right.id \notin Ids(project) =>
            \E c \in Clips(project) :
               LET left == ClipOf(project', c.id)
               IN /\ c.id \in Named /\ left.start = c.start /\ left.from = c.from
                  /\ EndOf(left) = right.start /\ EndOf(right) = EndOf(c)
                  /\ left.to = right.from
                  /\ c.to - right.to \in (IF c.rate[2] = 1 THEN {0} ELSE {0, 1})
                  /\ ShowsTheSame(left, c) /\ ShowsTheSame(right, c)]_vars

\* The clips after c on its track
Later(p, c) == {d \in ToSet(p[Home(p, c.id)].clips) : d.start >= EndOf(c)}

\* A trimmed clip's other edge stays at its frame, in a ripple the clip stays
\* and those after it follow its end (edit.rs: trim_edge; trim.rs: trim).
TrimKeepsFarEdge ==
    [][Edited("trim") =>
         LET c == ClipOf(project, applied'.id)
             e == ClipOf(project', applied'.id)
         IN /\ applied'.edge = "start" => e.to = c.to
            /\ applied'.edge = "end" => e.from = c.from
            /\ CASE applied'.ripple ->
                      /\ e.start = c.start
                      /\ \A d \in Later(project, c) :
                            ClipOf(project', d.id).start - EndOf(e) = d.start - EndOf(c)
                 [] applied'.edge = "start" -> EndOf(e) = EndOf(c)
                 [] OTHER -> e.start = c.start]_vars

\* A roll moves only the cut: the two clips take up the same frames, with no
\* gap between them, and every other clip stays (edit.rs: roll).
RollMovesTheCut ==
    [][Edited("roll") =>
         LET a == ClipOf(project, applied'.left)
             b == ClipOf(project, applied'.right)
             c == ClipOf(project', applied'.left)
             d == ClipOf(project', applied'.right)
         IN /\ c.start = a.start /\ EndOf(c) = d.start /\ EndOf(d) = EndOf(b)
            /\ Clips(project') \ {c, d} = Clips(project) \ {a, b}]_vars

\* The frames of a clip are those at which its ticks are not yet used up: the
\* first shows its in-point, none a tick at or past its out-point, and it ends
\* at the first that would (evaluate.rs: frames_until, source_at).
FramesHaveTicks ==
    Evaluates(project) =>
        \A c \in Clips(project) : \A frame \in c.start..EndOf(c) + 2 :
            Covers(c, frame) <=> TickAt(c, frame) \in c.from..c.to - 1

\* An edit changes what it is about and leaves the rest where it was.
EditsKeepTheRest ==
    LocksHold /\ LinkedGoTogether /\ TrimKeepsFarEdge /\ RollMovesTheCut

\* The timeline holds together: of the right shape, its clips in order, each
\* with its frames.
TimelineHolds == TypeOK /\ TimelineOrder /\ FramesHaveTicks
=============================================================================
