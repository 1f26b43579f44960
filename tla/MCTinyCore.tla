----------------------------- MODULE MCTinyCore -----------------------------
(***************************************************************************)
(* The smallest core Config::check accepts, two cells, where a tie's 2 in  *)
(* P-space cell 0 is not a number below the core size.  Warrior 1 loads    *)
(* its last result into warrior 0's B number; warrior 0 post-increments    *)
(* through it.                                                             *)
(***************************************************************************)
EXTENDS Fast, Arena

MCJobs == { Job(Make(<< Ins("NOP", "F", "BPostinc", 0, "Immediate", 0) >>, NoPin),
                Make(<< Ins("LDP", "AB", "Immediate", 0, "Direct", 1) >>, NoPin), 0) }

\* fast.rs:1, "the same semantics as Mars", on a core Config::check accepts.
SameSemantics == FastIsMars
=============================================================================
