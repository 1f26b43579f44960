------------------------------- MODULE MCFast -------------------------------
(***************************************************************************)
(* The fast engine against the reference: the matches of Arena, and its    *)
(* one-instruction experiments played as matches.                          *)
(***************************************************************************)
EXTENDS Fast, Arena

MCJobs == Matches \cup Experiments
=============================================================================
