--------------------------- MODULE MCReplayStore ---------------------------
(***************************************************************************)
(* Three scores that compete, two with the same total and the best one     *)
(* imported, and a failed play that an earlier version left behind.        *)
(***************************************************************************)
EXTENDS ReplayStore

MCTotal == [s \in Scores |-> IF s = 4 THEN 2 ELSE 1]

=============================================================================
