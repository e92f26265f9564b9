------------------------------- MODULE MCPlayer -------------------------------
(* A clip of two frames, and what an edit may make of it.                          *)
EXTENDS Player

PicturesMC == [s \in {"a", "b"} |-> 0..1]
FrameMC == <<1, 1>>

Clip(source, start, frames, motion, chain, crop) ==
    [source |-> source, from |-> 0, to |-> frames, start |-> start, tick |-> <<1, 1>>,
     motion |-> motion, first |-> start, frames |-> frames, rate |-> <<1, 1>>,
     until |-> start + frames, crop |-> crop, chain |-> chain]

\* A clip after a gap; the same one louder; and a still in the gap, which makes
\* the clip the second.
Lone == <<Clip("a", 1, 2, "forward", 0, 0)>>
Louder == <<Clip("a", 1, 2, "forward", 1, 0)>>
Filled == <<Clip("b", 0, 1, "hold", 0, 0), Clip("a", 1, 2, "forward", 0, 0)>>

PlansMC == {Lone, Louder, Filled}
LoudnessOnly == {Lone, Louder}
LoopsMC == {<<1, 3>>}
==============================================================================
