------------------------------ MODULE MCMulti ------------------------------
(***************************************************************************)
(* Three jobs on the two lanes, so that one lane starts a second match     *)
(* while the other is in the middle of its own, and each match has a round *)
(* that warrior 0 starts and one that warrior 1 does.                      *)
(***************************************************************************)
EXTENDS Multi

MCSeeds == << -5, 0, 127780 >>
=============================================================================
