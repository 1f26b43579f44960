------------------------------- MODULE Tokens -------------------------------
(***************************************************************************)
(* The tokens get_token() of asm.rs cuts a line into.  A line is a         *)
(* sequence of them; spacing is left out, and with it the digits of two    *)
(* numbers that a rewriting would run together.  A keyword or the symbol   *)
(* of an operator is its own kind; a name is a sequence of strings, the    *)
(* two digits "&" appends to it being a string of their own.               *)
(***************************************************************************)
EXTENDS Integers, Sequences

CONSTANTS
  Registers,  \* the names of one letter, the evaluator's registers
  Huge,       \* one more than the greatest integer: 2^63 in the code
  Wide,       \* 2^16, the size of the u16 a FOR count is cut to
  GrpMax      \* GRPMAX, labels before one instruction

ASSUME TokensAssumption == Huge \in Nat \ {0} /\ Wide \in Nat \ {0} /\ GrpMax \in Nat

Sym(k)  == [k |-> k, s |-> << >>, n |-> 0]
Num(n)  == [k |-> "num", s |-> << >>, n |-> n]
Name(s) == [k |-> "name", s |-> s, n |-> 0]

\* What starts at token i of e.
KindAt(e, i) == IF i \in DOMAIN e THEN e[i].k ELSE "end"

\* The text from token i on.
From(e, i) == SubSeq(e, i, Len(e))

\* A number as text: a negative one is a minus and a number.
Shown(v) == IF v < 0 THEN <<Sym("-"), Num(-v)>> ELSE <<Num(v)>>
=============================================================================
