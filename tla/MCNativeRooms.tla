--------------------------- MODULE MCNativeRooms ---------------------------
(***************************************************************************)
(* Players of one room.  They are not interchangeable for the list of      *)
(* users, but nothing tells one name from another.                         *)
(***************************************************************************)
EXTENDS NativeRooms, TLC

Alike == Permutations(Users)

=============================================================================
