----------------------------- MODULE TimelineEdits -----------------------------
(***************************************************************************)
(* project/edit.rs: what an edit compiles to, the primitive changes, their *)
(* inverses, and whether a graph evaluates (project/evaluate.rs).          *)
(*                                                                         *)
(* A project is its list of tracks; a track is its id, kind, lock and its  *)
(* clips in a sequence.  There is one source, with a video and an audio    *)
(* stream of one extent and one time base.  A clip's operations are its    *)
(* trim (from, to) and its speed (in rate).  Names, settings, crops, the   *)
(* audio chain, holds and reversed clips, and the selection are left out.  *)
(***************************************************************************)
EXTENDS ClipTiming, Sequences, SequencesExt

CONSTANTS
    NormalRate, \* the rate of a clip at normal speed
    Rates,      \* the rates of clips at each speed
    Extent      \* the ticks of the source: <<first, end>>

ASSUME TimelineAssumption ==
    /\ Rates \subseteq (Nat \ {0}) \X (Nat \ {0}) /\ NormalRate \in Rates
    /\ Extent \in Int \X Int /\ Extent[1] < Extent[2]

NoLink == 0

Clips(p) == UNION {ToSet(p[i].clips) : i \in DOMAIN p}
Ids(p) == {c.id : c \in Clips(p)}
TrackIds(p) == {p[i].id : i \in DOMAIN p}

\* find, find_track: the clip, the index of its track, that of a track
ClipOf(p, id) == CHOOSE c \in Clips(p) : c.id = id
Home(p, id) == CHOOSE i \in DOMAIN p : \E c \in ToSet(p[i].clips) : c.id = id
TrackAt(p, id) == CHOOSE i \in DOMAIN p : p[i].id = id
Kind(p, id) == p[Home(p, id)].kind

NextId(p) == Max(Ids(p) \cup {0}) + 1
NextTrack(p) == Max(TrackIds(p) \cup {0}) + 1

\* Project::validate: no id of a track or of a clip twice
IdsOnce(p) ==
    /\ \A i, k \in DOMAIN p : p[i].id = p[k].id => i = k
    /\ \A i, k \in DOMAIN p :
          \A c \in DOMAIN p[i].clips, d \in DOMAIN p[k].clips :
             p[i].clips[c].id = p[k].clips[d].id => i = k /\ c = d

\* evaluate, with Project::validate: no id twice, no trim empty, no overlap
Evaluates(p) ==
    /\ IdsOnce(p)
    /\ \A c \in Clips(p) : c.from < c.to
    /\ \A i \in DOMAIN p : \A j, k \in DOMAIN p[i].clips :
          j # k => LET c == p[i].clips[j]  d == p[i].clips[k]
                   IN EndOf(c) <= d.start \/ EndOf(d) <= c.start

-----------------------------------------------------------------------------
(* Change::apply and its inverses                                            *)

\* An index of 0 is a place in timeline order.
InsertClip(track, index, c) ==
    [change |-> "insert-clip", track |-> track, index |-> index, clip |-> c]
RemoveClip(id) == [change |-> "remove-clip", id |-> id]
ReplaceClip(c) == [change |-> "replace-clip", clip |-> c]
InsertTrack(index, t) ==
    [change |-> "insert-track", index |-> index, put |-> t]
RemoveTrack(id) == [change |-> "remove-track", id |-> id]
Header(id, locked) == [change |-> "header", id |-> id, locked |-> locked]

\* An inverse applies where its change was: it names what is there.
Applies(p, ch) ==
    CASE ch.change = "insert-clip" -> ch.track \in TrackIds(p)
      [] ch.change = "remove-clip" -> ch.id \in Ids(p)
      [] ch.change = "replace-clip" -> ch.clip.id \in Ids(p)
      [] ch.change = "insert-track" -> TRUE
      [] OTHER -> ch.id \in TrackIds(p)

SlotOf(p, id) ==
    SelectInSeq(p[Home(p, id)].clips, LAMBDA c : c.id = id)

\* Where a clip is inserted
Place(clips, index, c) ==
    IF index = 0 THEN 1 + Cardinality({i \in DOMAIN clips :
                                          clips[i].start <= c.start})
    ELSE Min({index, Len(clips) + 1})

After(p, ch) ==
    CASE ch.change = "insert-clip" ->
           LET t == TrackAt(p, ch.track)
           IN [p EXCEPT ![t].clips =
                  InsertAt(@, Place(@, ch.index, ch.clip), ch.clip)]
      [] ch.change = "remove-clip" ->
           [p EXCEPT ![Home(p, ch.id)].clips = RemoveAt(@, SlotOf(p, ch.id))]
      [] ch.change = "replace-clip" ->
           [p EXCEPT ![Home(p, ch.clip.id)].clips[SlotOf(p, ch.clip.id)] =
                  ch.clip]
      [] ch.change = "insert-track" ->
           InsertAt(p, Min({ch.index, Len(p) + 1}), ch.put)
      [] ch.change = "remove-track" -> RemoveAt(p, TrackAt(p, ch.id))
      [] ch.change = "header" -> [p EXCEPT ![TrackAt(p, ch.id)].locked = ch.locked]

InverseOf(p, ch) ==
    CASE ch.change = "insert-clip" -> RemoveClip(ch.clip.id)
      [] ch.change = "remove-clip" ->
           InsertClip(p[Home(p, ch.id)].id, SlotOf(p, ch.id), ClipOf(p, ch.id))
      [] ch.change = "replace-clip" -> ReplaceClip(ClipOf(p, ch.clip.id))
      [] ch.change = "insert-track" -> RemoveTrack(ch.put.id)
      [] ch.change = "remove-track" ->
           LET t == TrackAt(p, ch.id) IN InsertTrack(t, p[t])
      [] ch.change = "header" -> Header(ch.id, p[TrackAt(p, ch.id)].locked)

\* One change more, or one that does not apply
Onto(s, ch) ==
    IF ~s.ok \/ ~Applies(s.project, ch) THEN [s EXCEPT !.ok = FALSE]
    ELSE [ok |-> TRUE, project |-> After(s.project, ch),
          inverses |-> Append(s.inverses, InverseOf(s.project, ch))]

\* apply_all: the project after the changes and their inverses, in the order
\* applied; not ok at the first change that does not apply.  (Each step is
\* worked out once, and not for every use made of it.)
ApplyAll(p, changes) ==
    LET run[n \in 0..Len(changes)] ==
            IF n = 0 THEN [ok |-> TRUE, project |-> p, inverses |-> <<>>]
            ELSE CHOOSE s \in {Onto(t, changes[n]) : t \in {run[n - 1]}} : TRUE
    IN run[Len(changes)]

\* One inverse more; what does not apply is left out.
Back(s, ch) ==
    IF ~Applies(s.project, ch) THEN s
    ELSE [project |-> After(s.project, ch),
          forward |-> <<InverseOf(s.project, ch)>> \o s.forward]

\* revert: backwards; the forward changes too
Revert(p, inverses) ==
    LET run[n \in 0..Len(inverses)] ==
            IF n = 0 THEN [project |-> p, forward |-> <<>>]
            ELSE CHOOSE s \in {Back(t, inverses[Len(inverses) - n + 1]) : t \in {run[n - 1]}} : TRUE
    IN run[Len(inverses)]

-----------------------------------------------------------------------------
(* Compiling an edit: its changes, or a refusal                              *)

Refusal == [ok |-> FALSE, changes |-> <<>>]
Changes(changes) == [ok |-> TRUE, changes |-> changes]
Unless(condition, compiled) == IF condition THEN Refusal ELSE compiled

\* A set of numbers, the least first
Sorted(S) ==
    [n \in 1..Cardinality(S) |->
        CHOOSE x \in S : Cardinality({y \in S : y < x}) = n - 1]

\* The clips in the order of their ids
InOrder(clips) ==
    LET ids == Sorted({c.id : c \in clips})
    IN [n \in DOMAIN ids |-> CHOOSE c \in clips : c.id = ids[n]]
Replacing(clips) ==
    LET seq == InOrder(clips) IN [i \in DOMAIN seq |-> ReplaceClip(seq[i])]
Removing(ids) ==
    LET seq == Sorted(ids) IN [i \in DOMAIN seq |-> RemoveClip(seq[i])]

\* with_links: the clips and all linked to one of them
WithLinks(p, ids) ==
    LET links == {c.link : c \in {c \in Clips(p) : c.id \in ids}} \ {NoLink}
    IN ids \cup {c.id : c \in {c \in Clips(p) : c.link \in links}}

\* with_linked_moves: the same move in time for linked clips
Partners(p, all, step) ==
    LET c == ClipOf(p, step.clip)
        seq == InOrder({d \in Clips(p) : /\ c.link # NoLink /\ d.link = c.link
                                         /\ \A i \in DOMAIN all : all[i].clip # d.id})
    IN [i \in DOMAIN seq |->
          [clip |-> seq[i].id, track |-> p[Home(p, seq[i].id)].id,
           start |-> seq[i].start + step.start - c.start]]
WithLinkedMoves(p, moves) ==
    LET all[n \in 0..Len(moves)] ==
            IF n = 0 THEN moves
            ELSE all[n - 1] \o Partners(p, all[n - 1], moves[n])
    IN all[Len(moves)]

\* Mutant: a moved clip is replaced where it stands in the list.
MovedInPlace(p, moves) ==
    [i \in DOMAIN moves |->
        ReplaceClip([ClipOf(p, moves[i].clip) EXCEPT !.start = moves[i].start])]

\* move_clips: all leave, then each arrives
Moved(p, moves) ==
    LET chosen == Sorted({i \in DOMAIN moves :
                     \/ p[Home(p, moves[i].clip)].id # moves[i].track
                     \/ ClipOf(p, moves[i].clip).start # moves[i].start})
        moving == [n \in DOMAIN chosen |-> moves[chosen[n]]]
    IN [i \in DOMAIN moving |-> RemoveClip(moving[i].clip)]
       \o [i \in DOMAIN moving |->
             InsertClip(moving[i].track, 0,
                        [ClipOf(p, moving[i].clip) EXCEPT !.start = moving[i].start])]

MoveClips(p, named) ==
    LET moves == WithLinkedMoves(p, named)
    IN Unless(\E i \in DOMAIN moves :
                 Kind(p, moves[i].clip) # p[TrackAt(p, moves[i].track)].kind,
              Changes(Moved(p, moves)))

RemoveClips(p, ids) == Changes(Removing(WithLinks(p, ids)))

\* shift_after: the clips of a track, but one, from a frame on, later
ShiftAfter(p, track, id, frame, shift) ==
    IF shift = 0 THEN <<>>
    ELSE Replacing({[c EXCEPT !.start = @ + shift] :
            c \in {c \in ToSet(p[track].clips) : c.id # id /\ c.start >= frame}})

\* ripple_delete
RippleDelete(p, named) ==
    LET ids == WithLinks(p, named)
        Shift(i, c) == MapThenSumSet(LengthOf,
                          {d \in ToSet(p[i].clips) : d.id \in ids
                                                    /\ EndOf(d) <= c.start})
        shifted == UNION {{[c EXCEPT !.start = @ - Shift(i, c)] :
                             c \in {c \in ToSet(p[i].clips) :
                                      c.id \notin ids /\ Shift(i, c) > 0}} :
                          i \in DOMAIN p}
    IN Changes(Removing(ids) \o Replacing(shifted))

\* The frames a clip may grow to: its neighbours', or frame 0 in a ripple
Room(p, c, ripple) ==
    LET others == {d \in ToSet(p[Home(p, c.id)].clips) : d.id # c.id}
    IN IF ripple THEN <<{0}, {}>>
       ELSE <<{Max({0} \cup {EndOf(d) : d \in {d \in others : EndOf(d) <= c.start}})},
              {d.start : d \in {d \in others : d.start >= EndOf(c)}}>>

\* trim_edge
TrimEdge(p, id, edge, frames, ripple) ==
    LET c == ClipOf(p, id)
        trimmed == IF edge = "start"
                   THEN TrimStart(c, frames, Extent, Room(p, c, ripple))
                   ELSE TrimEnd(c, frames, Extent, Room(p, c, ripple))
        placed == IF ripple THEN [trimmed EXCEPT !.start = c.start] ELSE trimmed
        shift == IF ripple THEN LengthOf(trimmed) - LengthOf(c) ELSE 0
    IN Changes(IF placed = c THEN <<>>
               ELSE <<ReplaceClip(placed)>>
                    \o ShiftAfter(p, Home(p, id), id, EndOf(c), shift))

\* roll
Roll(p, left, right, frames) ==
    LET a == ClipOf(p, left)  b == ClipOf(p, right)
        lowest == Max({1 - LengthOf(a), StartReach(b, Extent)})
        highest == Min({EndReach(a, Extent), LengthOf(b) - 1})
        delta == Min({Max({frames, Min({lowest, 0})}), Max({highest, 0})})
        rolled == TrimEnd(a, delta, Extent, AnyRoom)
        taken == TrimStart(b, delta, Extent, AnyRoom)
    IN Unless(\/ Home(p, left) # Home(p, right) \/ EndOf(a) # b.start
              \/ EndOf(rolled) # taken.start,
              Changes(IF delta = 0 THEN <<>>
                      ELSE <<ReplaceClip(rolled), ReplaceClip(taken)>>))

\* split: every clip named that runs across the frame, at most one on a track;
\* the right halves get new ids
Split(p, ids, at) ==
    LET across == {c \in Clips(p) : c.id \in ids /\ Splits(c, at)}
        tracks == Sorted({Home(p, c.id) : c \in across})
        cut == [n \in DOMAIN tracks |-> CHOOSE c \in across : Home(p, c.id) = tracks[n]]
        Pair(n) ==
            <<ReplaceClip(LeftHalf(cut[n], at)),
              InsertClip(p[tracks[n]].id, 0,
                         [RightHalf(cut[n], at) EXCEPT !.id = NextId(p) + n - 1])>>
    IN Unless(cut = <<>>,
              Changes([i \in 1..2 * Len(cut) |-> Pair((i + 1) \div 2)[2 - (i % 2)]]))

\* join: two halves of one cut
Join(p, left, right) ==
    LET a == ClipOf(p, left)  b == ClipOf(p, right)
    IN Unless(\/ Home(p, left) # Home(p, right) \/ EndOf(a) # b.start
              \/ a.rate # b.rate \/ a.to # b.from,
              Changes(<<RemoveClip(right), ReplaceClip([a EXCEPT !.to = b.to])>>))

\* duplicate: each copy right after its original, the rest of the track along
Duplicate(p, ids) ==
    LET those == {c \in Clips(p) : c.id \in ids}
        Rank(c) == Cardinality({d \in those \ {c} :
                       \/ Home(p, d.id) < Home(p, c.id)
                       \/ Home(p, d.id) = Home(p, c.id) /\ d.start < c.start})
        named == [n \in 1..Cardinality(those) |-> CHOOSE c \in those : Rank(c) = n - 1]
        Shift(i, c) == MapThenSumSet(LengthOf,
                          {d \in ToSet(p[i].clips) : d.id \in ids /\ d.start < c.start})
        shifted == UNION {{[c EXCEPT !.start = @ + Shift(i, c)] :
                             c \in {c \in ToSet(p[i].clips) : Shift(i, c) # 0}} :
                          i \in DOMAIN p}
        Copy(n) ==
            LET c == named[n]  i == Home(p, c.id)
            IN InsertClip(p[i].id, 0, [c EXCEPT !.id = NextId(p) + n - 1,
                                                !.start = EndOf(c) + Shift(i, c)])
    IN Changes(Replacing(shifted) \o [n \in DOMAIN named |-> Copy(n)])

\* paste: room is made on every unlocked track, then the copies are put there,
\* linked to each other
Paste(p, named, at) ==
    LET ids == WithLinks(p, named)
        originals == InOrder({c \in Clips(p) : c.id \in ids})
        origin == Min({c.start : c \in ToSet(originals)})
        span == Max({EndOf(c) : c \in ToSet(originals)}) - origin
        targets == {Home(p, id) : id \in ids}
        open == {i \in DOMAIN p : ~p[i].locked \/ i \in targets}
        later == UNION {{c \in ToSet(p[i].clips) : c.start >= at} : i \in open}
        Fresh(n) == NextId(p) + n - 1
        \* A group is named after the copy of the clip it was named after, or
        \* after the first of its copies.
        Group(link) ==
            LET n == Max({0} \cup {n \in DOMAIN originals : originals[n].id = link})
            IN Fresh(IF n # 0 THEN n
                     ELSE Min({m \in DOMAIN originals : originals[m].link = link}))
        Copy(n) ==
            LET c == originals[n]
            IN InsertClip(p[Home(p, c.id)].id, 0,
                   [c EXCEPT !.id = Fresh(n), !.start = at + c.start - origin,
                             !.link = IF c.link = NoLink THEN NoLink
                                                         ELSE Group(c.link)])
    IN Unless(\E i \in targets : \E c \in ToSet(p[i].clips) :
                 c.start < at /\ at < EndOf(c),
              Changes(Replacing({[c EXCEPT !.start = @ + span] : c \in later})
                      \o [n \in DOMAIN originals |-> Copy(n)]))

\* sound_range: the ticks that play under the pictures
SoundOf(c) ==
    LET from == Max({c.from, Extent[1]})
    IN [c EXCEPT !.from = from,
                 !.to = Min({from + (LengthOf(c) * c.rate[1]) \div c.rate[2],
                             Extent[2]})]

\* detach_audio, of one clip: on the first audio track with room, or a new one
DetachAudio(p, id) ==
    LET c == ClipOf(p, id)
        link == IF c.link = NoLink THEN id ELSE c.link
        sound == [SoundOf(c) EXCEPT !.id = NextId(p), !.link = link]
        lane == SelectInSeq(p, LAMBDA t :
                   /\ t.kind = "audio"
                   /\ \A d \in ToSet(t.clips) :
                         EndOf(c) <= d.start \/ EndOf(d) <= c.start)
        new == [id |-> NextTrack(p), kind |-> "audio", locked |-> FALSE,
                clips |-> <<>>]
        puts == IF lane # 0 THEN <<InsertClip(p[lane].id, 0, sound)>>
                ELSE <<InsertClip(new.id, 0, sound)>>
        quiet == ReplaceClip([c EXCEPT !.detached = TRUE, !.link = link])
    IN IF Kind(p, id) # "video" \/ c.detached THEN Changes(<<>>)
       ELSE Unless(sound.to <= sound.from,
                   Changes((IF lane # 0 THEN <<>>
                            ELSE <<InsertTrack(Len(p) + 1, new)>>)
                           \o <<quiet>> \o puts))

Unlink(p, ids) ==
    Changes(Replacing({[c EXCEPT !.link = NoLink] :
        c \in {c \in Clips(p) : c.id \in WithLinks(p, ids) /\ c.link # NoLink}}))

\* set_speed
SetSpeed(p, ids, rate) ==
    Changes(Replacing({[c EXCEPT !.rate = rate] :
        c \in {c \in Clips(p) : c.id \in ids /\ c.rate # rate}}))

\* track_edit: SetTrack, RemoveTrack
SetTrack(p, track, locked) ==
    Changes(IF p[TrackAt(p, track)].locked = locked THEN <<>>
            ELSE <<Header(track, locked)>>)
DropTrack(p, track) == Changes(<<RemoveTrack(track)>>)

\* add_clip
AddClip(p, track, from, to, start) ==
    Changes(<<InsertClip(track, 0,
                 [id |-> NextId(p), from |-> from, to |-> to, start |-> start,
                  rate |-> NormalRate, link |-> NoLink, detached |-> FALSE])>>)

\* add_track: below the last of its kind
AddTrack(p, kind) ==
    LET same == {i \in DOMAIN p : p[i].kind = kind}
        first == IF kind = "video" THEN 1 ELSE Len(p) + 1
    IN Changes(<<InsertTrack(IF same = {} THEN first ELSE Max(same) + 1,
                             [id |-> NextTrack(p), kind |-> kind,
                              locked |-> FALSE, clips |-> <<>>])>>)

-----------------------------------------------------------------------------

\* Mutant: a clip that arrives on a track does not touch it.
TouchedByLeaving(p, ch) ==
    CASE ch.change = "remove-clip" -> {p[Home(p, ch.id)].id}
      [] ch.change = "replace-clip" /\ ch.clip.id \in Ids(p) ->
           {p[Home(p, ch.clip.id)].id}
      [] ch.change = "remove-track" -> {ch.id}
      [] OTHER -> {}

\* touched_track
Touched(p, ch) ==
    CASE ch.change = "insert-clip" -> {ch.track}
      [] ch.change = "remove-clip" -> {p[Home(p, ch.id)].id}
      [] ch.change = "replace-clip" -> {p[Home(p, ch.clip.id)].id}
      [] ch.change = "remove-track" -> {ch.id}
      [] OTHER -> {}

TouchesLocked(p, changes) ==
    \E i \in DOMAIN changes : \E t \in Touched(p, changes[i]) :
        t \in TrackIds(p) /\ p[TrackAt(p, t)].locked
=============================================================================
