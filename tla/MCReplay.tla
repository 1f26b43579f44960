------------------------------ MODULE MCReplay ------------------------------
(***************************************************************************)
(* The matches of Arena recorded: with a frame every cycle, every four (so *)
(* that rounds end on, before and after a frame), and one longer than any  *)
(* round; the first and last round, or the second.                         *)
(***************************************************************************)
EXTENDS Replay, Arena

MCEveries == {1, 4, 7}
MCRecords == {{1, 3}, {2}}
=============================================================================
