----------------------------- MODULE Evaluator -----------------------------
(***************************************************************************)
(* The expression evaluator of the assembler, the eval.c part of asm.rs,   *)
(* on tokens.  The ported precedence climbing, with its two peculiarities: *)
(* one operator can be handed back through save_oper, and "==" cannot be   *)
(* told from none there.                                                   *)
(*                                                                         *)
(* What an evaluation reads and changes is a record m: at, the next token; *)
(* x and v, the values left and right of the operator at hand; err,        *)
(* eval_expr's status; regs; save.  Integers are numbers of                *)
(* -Huge .. Huge - 1, i64 in the code.                                     *)
(***************************************************************************)
EXTENDS Integers, Sequences, Tokens

Wrap(x) == ((x + Huge) % (2 * Huge)) - Huge

\* Towards zero, as the machine divides.
Trunc(x, y) ==
  LET q == (IF x < 0 THEN -x ELSE x) \div (IF y < 0 THEN -y ELSE y)
  IN IF (x < 0) = (y < 0) THEN q ELSE -q

\* EQUAL is 0, the number that also says that no operator was saved.
Saved(op) == IF op = "==" THEN "none" ELSE op

\* Gone wrong: comparisons bind as loosely as &&.
PrecedenceLoose(op) ==
  CASE op \in {"*", "/", "%"} -> 5
    [] op \in {"+", "-"}      -> 4
    [] op \in {">", "<", "==", "!=", ">=", "<=", "&&"} -> 2
    [] op = "||"              -> 1
    [] OTHER                  -> 0

Precedence(op) ==
  CASE op \in {"*", "/", "%"} -> 5
    [] op \in {"+", "-"}      -> 4
    [] op \in {">", "<", "==", "!=", ">=", "<="} -> 3
    [] op = "&&"              -> 2
    [] op = "||"              -> 1
    [] OTHER                  -> 0

Operators == {"*", "/", "%", "+", "-", ">", "<", "==", "!=", ">=", "<=", "&&", "||"}

\* calc's tests for overflow, each made before the wrapping operation.
AddOverflows(x, y) ==
  IF x > 0 THEN y > 0 /\ x > Huge - 1 - y ELSE y < 0 /\ x < -Huge - y

SubOverflows(x, y) ==
  IF x > 0 THEN y < 0 /\ x > Wrap(Huge - 1 + y) ELSE y > 0 /\ x < Wrap(-Huge + y)

MulOverflows(x, y) ==
  /\ x \notin {0, -1} /\ y \notin {0, -1}
  /\ Trunc(Trunc(IF (x > 0) = (y > 0) THEN Huge - 1 ELSE -Huge, y), x) = 0

Overflows(x, y, op) ==
  \/ op = "+" /\ AddOverflows(x, y)
  \/ op = "-" /\ SubOverflows(x, y)
  \/ op = "*" /\ MulOverflows(x, y)

Bool(b) == IF b THEN 1 ELSE 0

Computed(x, y, op) ==
  CASE op = "+" -> Wrap(x + y)
    [] op = "-" -> Wrap(x - y)
    [] op = "*" -> Wrap(x * y)
    [] op = "/" -> IF y = 0 THEN 0 ELSE Wrap(Trunc(x, y))
    [] op = "%" -> IF y = 0 THEN 0 ELSE x - y * Trunc(x, y)
    [] op = "&&" -> Bool(x # 0 /\ y # 0)
    [] op = "||" -> Bool(x # 0 \/ y # 0)
    [] op = "==" -> Bool(x = y)
    [] op = "!=" -> Bool(x # y)
    [] op = "<" -> Bool(x < y)
    [] op = ">" -> Bool(x > y)
    [] op = "<=" -> Bool(x <= y)
    [] op = ">=" -> Bool(x >= y)
    [] op = "ident" -> y
    [] OTHER -> 0

\* calc: the value, and what becomes of the status.
Calc(m, op) ==
  [m EXCEPT
     !.v = Computed(m.x, m.v, op),
     !.err = CASE op \in {"/", "%"} /\ m.v = 0    -> "div"
               [] op \notin Operators \cup {"ident"} -> "bad"
               [] @ = "ok" /\ Overflows(m.x, m.v, op) -> "overflow"
               [] OTHER -> @]

\* Gone wrong: the operator an earlier evaluation saved stays.
OnlyPassed(m) == [m EXCEPT !.at = @ + 1]

\* getop has read an operator.
Passed(m) == [m EXCEPT !.at = @ + 1, !.save = "none"]

\* What starts an operator and is none by itself.
Halves == {"=", "!", "&", "|"}

\* The member of a singleton.  An intermediate result is bound in one so
\* that it is computed once.
The(S) == CHOOSE r \in S : TRUE

RECURSIVE Eval(_, _, _, _), GetVal(_, _)

\* eval without its caller's operator: a whole expression from m.at.
Inner(e, m) == Eval(e, [m EXCEPT !.x = 0], -1, "ident")

\* getval: a value at m.at.  A name of several letters is a register and
\* operators there are not.
GetVal(e, m) ==
  LET k == KindAt(e, m.at)
      after == [m EXCEPT !.at = @ + 1]
      Apply(Op(_)) == [GetVal(e, after) EXCEPT !.v = Op(@)]
  IN CASE k = "(" -> The({[in EXCEPT !.at = @ + 1,
                                     !.err = IF KindAt(e, in.at) = ")" THEN @ ELSE "bad"] :
                          in \in {Inner(e, after)}})
       [] k = "-" -> Apply(LAMBDA v : Wrap(-v))
       [] k = "!" -> Apply(LAMBDA v : Bool(v = 0))
       [] k = "+" -> GetVal(e, after)
       [] k = "name" /\ e[m.at].s \in Registers /\ KindAt(e, after.at) = "=" ->
            The({[in EXCEPT !.regs[e[m.at].s] = in.v] :
                 in \in {Inner(e, [after EXCEPT !.at = @ + 1])}})
       [] k = "name" /\ e[m.at].s \in Registers /\ KindAt(e, after.at) # "=" ->
            [after EXCEPT !.v = m.regs[e[m.at].s]]
       [] k = "num" /\ e[m.at].n < Huge -> [after EXCEPT !.v = e[m.at].n]
       [] k = "num" /\ e[m.at].n >= Huge -> [after EXCEPT !.v = 0, !.err = "bad"]
       [] k = "name" /\ e[m.at].s \notin Registers -> [after EXCEPT !.v = 0, !.err = "bad"]
       [] OTHER -> [m EXCEPT !.v = 0, !.err = "bad"]

\* The rest of eval, with both values at hand: op is applied, or waits for
\* the tighter operator that follows.
Applied(e, got, prev, op) ==
  LET op2   == KindAt(e, got.at)
      now   == Passed(got)
      done  == Calc(now, op)
      prec1 == Precedence(op)
      prec2 == Precedence(op2)
      stays == prec2 >= prev \/ prec1 <= prev
  IN CASE op2 \in {")", "end"} -> Calc(got, op)
       [] op2 \in Halves -> [got EXCEPT !.at = Len(e) + 1, !.v = 0, !.err = "bad"]
       [] op2 \notin {")", "end"} \cup Halves /\ prec1 >= prec2 /\ stays ->
            Eval(e, [done EXCEPT !.x = done.v], prec1, op2)
       [] op2 \notin {")", "end"} \cup Halves /\ prec1 >= prec2 /\ ~stays ->
            [done EXCEPT !.save = Saved(op2)]
       [] op2 \notin {")", "end"} \cup Halves /\ prec1 < prec2 ->
            The({IF both.save # "none" /\ Precedence(both.save) >= prev
                 THEN [Eval(e, [both EXCEPT !.x = both.v], prec2, both.save) EXCEPT !.save = "none"]
                 ELSE both :
                 both \in {Calc([right EXCEPT !.x = got.x], op) :
                   right \in {Eval(e, [now EXCEPT !.x = got.v], prec1, op2)}}})

\* eval: from m.at, with m.x and its operator at hand, in a caller of the
\* given precedence.
Eval(e, m, prev, op) ==
  The({Applied(e, got, prev, op) : got \in {[GetVal(e, m) EXCEPT !.x = m.x]}})

\* eval_expr: the status is "ok", "overflow" (a warning), "bad" or "div".
EvalExpr(e, regs, save) ==
  The({[m EXCEPT !.err = IF m.at \in DOMAIN e THEN "bad" ELSE @] :
       m \in {Inner(e, [at |-> 1, x |-> 0, v |-> 0, err |-> "ok", regs |-> regs, save |-> save])}})
=============================================================================
