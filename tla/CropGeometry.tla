------------------------------ MODULE CropGeometry ------------------------------
(***************************************************************************)
(* What a cropping window means: the arithmetic of export/crop_window.rs.  *)
(*                                                                         *)
(* A coded picture of whole blocks is shown less what a window's offsets,  *)
(* counted in units of luma samples, leave off at each side.               *)
(***************************************************************************)
EXTENDS Integers

\* subsampling: luma samples per chroma sample, across and down
SubsamplingIs(chroma) == CASE chroma \in {0, 3} -> <<1, 1>> [] chroma = 1 -> <<2, 2>> [] chroma = 2 -> <<2, 1>>

NoGeometry == [ok |-> FALSE]
NoWindow == <<0, 0, 0, 0>>

\* geometry: what is shown of a coded picture with these offsets (left,
\* right, top, bottom) in these units, if anything is
GeometryOf(size, off, unit) ==
    LET left == off[1] * unit[1]
        right == off[2] * unit[1]
        top == off[3] * unit[2]
        bottom == off[4] * unit[2]
    IN IF left + right < size[1] /\ top + bottom < size[2]
       THEN [ok |-> TRUE, coded |-> size, unit |-> unit,
             shown |-> [x |-> left, y |-> top, width |-> size[1] - left - right,
                        height |-> size[2] - top - bottom]]
       ELSE NoGeometry

\* window_for: whether a window of `g` can show the rectangle ...
Inside(g, rect) ==
    /\ rect.width > 0 /\ rect.height > 0
    /\ rect.x + rect.width <= g.shown.width
    /\ rect.y + rect.height <= g.shown.height
Aligned(g, rect) ==
    /\ rect.x % g.unit[1] = 0 /\ rect.width % g.unit[1] = 0
    /\ rect.y % g.unit[2] = 0 /\ rect.height % g.unit[2] = 0

\* ... and its offsets, in the coded picture's units
WindowFor(g, rect) ==
    LET left == g.shown.x + rect.x
        top == g.shown.y + rect.y
    IN <<left \div g.unit[1], (g.coded[1] - left - rect.width) \div g.unit[1],
         top \div g.unit[2], (g.coded[2] - top - rect.height) \div g.unit[2]>>

===============================================================================
