------------------------------- MODULE MCMars -------------------------------
(***************************************************************************)
(* Whole matches on a core of 18 cells, whose P-space has one cell beside  *)
(* cell 0 (a core of 16 or fewer has none) and which leaves two warriors   *)
(* of four instructions room to be apart: deaths on the first and on the   *)
(* last instruction, ties, queues at the limit, and two matches on one     *)
(* machine.                                                                *)
(***************************************************************************)
EXTENDS Mars, Arena
=============================================================================
