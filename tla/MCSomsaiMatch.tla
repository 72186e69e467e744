--------------------------- MODULE MCSomsaiMatch ---------------------------
(* Instances of SomsaiMatch for TLC.                                       *)
EXTENDS SomsaiMatch

CONSTANTS r1, b1

Red1 == {r1}
Blue1 == {b1}
NoBots == {}

\* Nobody ever leaves the room: for runs about the draft and the scores.
Everybody == {Members}
\* The second team may drop out of the room.
BlueMayDrop == {Members, {r1}}

=============================================================================
