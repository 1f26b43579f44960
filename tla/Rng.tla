-------------------------------- MODULE Rng --------------------------------
(***************************************************************************)
(* pMARS's position generator, the one both engines and the interleaved    *)
(* loop draw the seed of the next round from.                              *)
(***************************************************************************)
EXTENDS Integers

\* i32 without its least value, which TLC cannot write down.
MaxI32 == 2147483647
I32 == -MaxI32 .. MaxI32

\* Rust's / and % truncate toward zero: quotient and remainder by 127773.
Quot(s) == IF s >= 0 THEN s \div 127773 ELSE -((-s) \div 127773)
Rest(s) == s - 127773 * Quot(s)

PmarsRng(s) ==
  LET x == 16807 * Rest(s) - 2836 * Quot(s)
  IN IF x < 0 THEN x + 2147483647 ELSE x
=============================================================================
