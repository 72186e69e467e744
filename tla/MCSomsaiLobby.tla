--------------------------- MODULE MCSomsaiLobby ---------------------------
(* Instances of SomsaiLobby for TLC.                                       *)
EXTENDS SomsaiLobby

CONSTANTS p1, p2, p3, p4, n1

Two == {p1, p2}
Three == {p1, p2, p3}
Four == {p1, p2, p3, p4}
Noone == {}
OneRoom == {n1}
OneId == {1}
TwoIds == {1, 2}
ThreeIds == {1, 2, 3}
Solo == {1}
Duo == {2}

\* Players are interchangeable (in the runs that check no liveness).
PlayerSymmetry == Permutations(Players)

=============================================================================
