---------------------------- MODULE MCBeatmapPolicy ----------------------------
(* BeatmapPolicy for TLC: every bound is a constant of the configuration.     *)
EXTENDS BeatmapPolicy
=============================================================================
