----------------------------- MODULE MCEditHistory -----------------------------
(* Instances of EditHistory for TLC. *)
EXTENDS EditHistoryRefinement

\* A frame of one tick and a third stands for every rate at which a frame is no
\* whole number of ticks, and a cut may leave a tick off; at the others it is two
\* ticks, and half of one.
Uneven == <<4, 3>>
Slow == <<1, 2>>
Doubled == <<2, 1>>
ThreeRates == {Uneven, Slow, Doubled}
NineTicks == <<0, 9>>

Clip(id, from, to, start, link) ==
    [id |-> id, from |-> from, to |-> to, start |-> start, rate |-> Uneven,
     link |-> link, detached |-> FALSE]
Track(id, kind, clips) ==
    [id |-> id, kind |-> kind, locked |-> FALSE, clips |-> clips]

\* Two clips that meet, and the first one's sound
Touching ==
    <<Track(1, "video", <<[Clip(1, 0, 3, 0, 1) EXCEPT !.detached = TRUE],
                          Clip(2, 3, 8, 2, 0)>>),
      Track(2, "audio", <<Clip(3, 0, 3, 0, 1)>>)>>

\* A project that does not evaluate: two clips overlap
Overlapping ==
    <<Track(1, "video", <<Clip(1, 0, 3, 0, 0), Clip(2, 3, 7, 1, 0)>>)>>

TwoProjects == {Touching, Overlapping}
SomeDeltas == {-1, 2}
FewLate == {"unlink"}
SomeFrames == {0, 1, 4}
OneNewClip == {<<4, 7>>}
=============================================================================
