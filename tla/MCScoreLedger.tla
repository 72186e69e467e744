---------------------------- MODULE MCScoreLedger ----------------------------
(* Instances of ScoreLedger for TLC.                                        *)
EXTENDS ScoreLedger, TLC

CONSTANTS m1, m2

\* A pass, a better one with other mods, and a failed play.
MCPlays == {[total |-> 1, pp |-> 2, mods |-> "NM", passed |-> TRUE, valid |-> TRUE],
            [total |-> 2, pp |-> 1, mods |-> "HD", passed |-> TRUE, valid |-> TRUE],
            [total |-> 3, pp |-> 3, mods |-> "NM", passed |-> FALSE, valid |-> TRUE]}

\* Two passes whose totals and PP disagree on which is better.
MCTwoPlays == {p \in MCPlays : p.passed}

MCSymmetry == Permutations({m1, m2})
=============================================================================
