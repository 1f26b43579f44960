------------------------------ MODULE Meaning ------------------------------
(***************************************************************************)
(* What a Redcode program means, for comparison with what the assembler    *)
(* makes of it: a program is a tree of items, blocks are unrolled where    *)
(* they stand, then every symbol is known at once and every operand is     *)
(* worth what a rule of grouping says.  No passes, no rewritten text, no   *)
(* automaton and no saved operator.                                        *)
(***************************************************************************)
EXTENDS Redcode, Tokens, SequencesExt

-----------------------------------------------------------------------------
\* Expressions.

BinaryOps == {"*", "/", "%", "+", "-", "<", ">", "<=", ">=", "==", "!=", "&&", "||"}

Level(op) ==
  CASE op \in {"*", "/", "%"} -> 5 [] op \in {"+", "-"} -> 4
    [] op = "&&" -> 2 [] op = "||" -> 1 [] OTHER -> 3

Holds(b) == IF b THEN 1 ELSE 0
Mag(x) == IF x < 0 THEN -x ELSE x
Quotient(x, y) == IF (x < 0) = (y < 0) THEN Mag(x) \div Mag(y) ELSE -(Mag(x) \div Mag(y))

Exactly(x, op, y) ==
  CASE op = "+" -> x + y [] op = "-" -> x - y [] op = "*" -> x * y
    [] op = "/" -> Quotient(x, y) [] op = "%" -> x - y * Quotient(x, y)
    [] op = "<" -> Holds(x < y) [] op = ">" -> Holds(x > y)
    [] op = "<=" -> Holds(x <= y) [] op = ">=" -> Holds(x >= y)
    [] op = "==" -> Holds(x = y) [] op = "!=" -> Holds(x # y)
    [] op = "&&" -> Holds(x # 0 /\ y # 0) [] op = "||" -> Holds(x # 0 \/ y # 0)

\* The tokens of e outside all parentheses.
Outer(e) ==
  LET open(i, k) == Cardinality({j \in 1 .. i : e[j].k = k})
  IN {i \in DOMAIN e : open(i, "(") = open(i, ")") /\ e[i].k # ")"}

Assignments(e) ==
  {i \in Outer(e) : e[i].k = "name" /\ e[i].s \in Registers /\ KindAt(e, i + 1) = "="}
Binaries(e) ==
  {i \in Outer(e) \ {1} : e[i].k \in BinaryOps /\ e[i - 1].k \in {"num", "name", ")"}}

\* The number, among the operators at q, of the one after the right operand
\* of the first.  A run of ever tighter operators groups to the right.  What
\* follows the run ends that operand if it is looser than the first operator,
\* and belongs to it, with all the rest, if not: this is where the evaluator
\* differs from the usual rule, by which 5-2*1-1 would be 2 and not 4.
After(e, q) ==
  LET level(n) == Level(e[q[n]].k)
      run == CHOOSE n \in DOMAIN q : /\ \A t \in 1 .. n - 1 : level(t) < level(t + 1)
                                     /\ n < Len(q) => level(n) >= level(n + 1)
  IN IF run = 1 \/ (run < Len(q) /\ level(run + 1) < level(1)) THEN run + 1 ELSE Len(q) + 1

\* e's exact value v, if it has one (ok); within, whether it and every value
\* on the way is an integer, and least, whether one is the least of them.
Ints == -Huge .. Huge - 1
Atom(v, ok, regs) ==
  [v |-> v, ok |-> ok, within |-> v \in Ints, least |-> v = -Huge, regs |-> regs]
Both(v, p, q, regs) ==
  [v |-> v, ok |-> p.ok /\ q.ok, within |-> p.within /\ q.within /\ v \in Ints,
   least |-> p.least \/ q.least \/ v = -Huge, regs |-> regs]

RECURSIVE Worth(_, _)

\* The first assignment, at i, takes what follows it.
Assigned(e, i, rest, regs) ==
  LET left == Worth(SubSeq(e, 1, i - 1) \o <<Num(rest.v)>>, regs)
  IN Both(left.v, left, rest, [rest.regs EXCEPT ![e[i].s] = rest.v])

Operated(x, op, y) ==
  IF op \in {"/", "%"} /\ y.v = 0 THEN Atom(0, FALSE, y.regs)
  ELSE Both(Exactly(x.v, op, y.v), x, y, y.regs)

\* The value so far, then the next operator: == is lost after a tighter run.
Continued(so, op, tighter, rest) ==
  [Both(rest.v, so, rest, rest.regs) EXCEPT !.ok = @ /\ ~(tighter /\ op = "==")]

\* The operators are at q, the first has its right operand up to end.
FirstWorth(e, at, end, x) == Operated(x, e[at].k, Worth(SubSeq(e, at + 1, end), x.regs))
Grouped(e, q, end, so) ==
  IF end = Len(e) THEN so
  ELSE Continued(so, e[end + 1].k, end + 1 # q[2], Worth(<<Num(so.v)>> \o From(e, end + 1), so.regs))
RightEnd(e, q, n) == IF n > Len(q) THEN Len(e) ELSE q[n] - 1
Chain(e, q, end, regs) ==
  Grouped(e, q, end, FirstWorth(e, q[1], end, Worth(SubSeq(e, 1, q[1] - 1), regs)))
InOrder(S) == SetToSortSeq(S, <)

Signed(sign, x) ==
  Both(CASE sign = "-" -> -x.v [] sign = "+" -> x.v [] sign = "!" -> Holds(x.v = 0), x, x, x.regs)

Leftmost(S) == CHOOSE i \in S : \A j \in S : i <= j
WorthChain(e, q, regs) == Chain(e, q, RightEnd(e, q, After(e, q)), regs)
WorthAssigned(e, i, regs) == Assigned(e, i, Worth(From(e, i + 2), regs), regs)

Worth(e, regs) ==
  IF Assignments(e) # {} THEN WorthAssigned(e, Leftmost(Assignments(e)), regs)
  ELSE IF Binaries(e) # {} THEN WorthChain(e, InOrder(Binaries(e)), regs)
  ELSE IF KindAt(e, 1) \in {"-", "+", "!"} THEN Signed(e[1].k, Worth(Tail(e), regs))
  ELSE IF KindAt(e, 1) = "(" /\ e[Len(e)].k = ")" THEN Worth(SubSeq(e, 2, Len(e) - 1), regs)
  ELSE IF Len(e) = 1 /\ e[1].k = "num" THEN Atom(e[1].n, TRUE, regs)
  ELSE IF Len(e) = 1 /\ e[1].k = "name" /\ e[1].s \in Registers THEN Atom(regs[e[1].s], TRUE, regs)
  ELSE Atom(0, FALSE, regs)

-----------------------------------------------------------------------------
\* Programs.  Labels are names as they are written, counters attached.

Item(kind, labels, op, text, body) ==
  [kind |-> kind, labels |-> labels, op |-> op, text |-> text, body |-> body]
Ins(labels, op, text)   == Item("ins", labels, op, text, << >>)
Labels(labels)          == Item("labels", labels, "", << >>, << >>)
Repeat(labels, n, body) == Item("for", labels, "", n, body)   \* the last label counts
Alias(labels, text)     == Item("equ", labels, "", text, << >>)
Macro(labels, body)     == Item("macro", labels, "", <<Sym("EQU")>>, body)  \* no operand
Use(labels, name)       == Item("use", labels, "", name, << >>)
Check(text)             == Item("check", << >>, "", text, << >>)
Raw(e, lines)           == Item("raw", << >>, e, << >>, lines)  \* as it is, to be met with e

RECURSIVE Concat(_), Render(_)
Concat(q) == IF q = << >> THEN << >> ELSE Head(q) \o Concat(Tail(q))

\* An item as lines of source.
Lines(it) ==
  LET labels == Concat(it.labels)
  IN CASE it.kind = "raw"    -> it.body
       [] it.kind = "ins"    -> <<labels \o <<Sym(it.op)>> \o it.text>>
       [] it.kind = "labels" -> <<labels>>
       [] it.kind = "use"    -> <<labels \o it.text>>
       [] it.kind = "check"  -> <<<<Sym(";"), Sym("ASSERT")>> \o it.text>>
       [] it.kind = "equ"    -> <<labels \o <<Sym("EQU")>> \o it.text>>
       [] it.kind = "macro"  ->
            LET inner == Render(it.body)
            IN [i \in DOMAIN inner |->
                 (IF i = 1 THEN labels ELSE << >>) \o <<Sym("EQU")>> \o inner[i]]
       [] it.kind = "for"    ->
            <<labels \o <<Sym("FOR")>> \o it.text>> \o Render(it.body) \o <<<<Sym("ROF")>>>>
Render(items) == IF items = << >> THEN << >> ELSE Lines(Head(items)) \o Render(Tail(items))

\* A state of the unrolling: the instructions so far; the symbols; the
\* labels waiting for an instruction; the lines read to expand blocks and
\* texts; whether END has been met, and whether all is well so far.
Blank(regs, predefined) ==
  [code |-> << >>, labels |-> {}, aliases |-> predefined, pending |-> << >>, regs |-> regs,
   read |-> 0, count |-> 0, stop |-> FALSE, ok |-> TRUE]

Known(S, name)  == name \in {s.name : s \in S.labels}
IsAlias(S, name) == name \in {s.name : s \in S.aliases}
At(S, name)     == (CHOOSE s \in S.labels : s.name = name).at
BodyOf(S, name) == (CHOOSE s \in S.aliases : s.name = name).body
TextOf(S, name) == (CHOOSE s \in S.aliases : s.name = name).text

Counts(cs, name) == \E i \in DOMAIN cs : cs[i].name = name
CountOf(cs, name) ==
  cs[CHOOSE i \in DOMAIN cs : cs[i].name = name /\ \A j \in DOMAIN cs : cs[j].name = name => j <= i].v

Two(v) == (IF v < 10 THEN "0" ELSE "") \o ToString(v)

\* Names with the counters attached to them replaced.
RECURSIVE Named(_, _)
Named(text, cs) ==
  IF text = << >> THEN << >>
  ELSE IF KindAt(text, 1) = "name" /\ KindAt(text, 2) = "&"
       THEN Named(<<Name(Append(text[1].s, Two(CountOf(cs, text[3].s))))>> \o From(text, 4), cs)
  ELSE <<Head(text)>> \o Named(Tail(text), cs)

\* Counters, the line number and the texts known replaced, text by text; a
\* text within itself stays a name, which nothing knows.
RECURSIVE Replaced(_, _, _)
Replaced(text, S, cs) ==
  IF text = << >> THEN << >>
  ELSE LET t == Head(text)
           r == CASE t.k = "CURLINE" -> <<Num(S.count)>>
                  [] t.k = "name" /\ Counts(cs, t.s) -> <<Num(CountOf(cs, t.s))>>
                  [] t.k = "name" /\ ~Counts(cs, t.s) /\ IsAlias(S, t.s) ->
                       Replaced(TextOf(S, t.s),
                                [S EXCEPT !.aliases = {a \in @ : a.name # t.s}], cs)
                  [] OTHER -> <<t>>
       IN r \o Replaced(Tail(text), S, cs)

\* Labels replaced by what they are from position at.
Placed(text, S, at) ==
  [i \in DOMAIN text |-> IF text[i].k = "name" /\ Known(S, text[i].s)
                         THEN Num(At(S, text[i].s) - at) ELSE text[i]]

Settle(S, names) ==
  [S EXCEPT !.labels = @ \cup {[name |-> names[i], at |-> S.count] : i \in DOMAIN names},
            !.pending = << >>]

RECURSIVE Take(_, _, _, _), TakeAll(_, _, _, _), Rounds(_, _, _, _, _, _)

\* A text of several lines where an instruction may stand: the line that
\* names it stands for its first.
Used(S, names, body, cs) ==
  IF body = << >> THEN [S EXCEPT !.ok = FALSE]
  ELSE [TakeAll([S EXCEPT !.pending = names], body, cs, TRUE) EXCEPT !.read = @ - 1]

\* A block whose count has the value n; the last of its names counts.
Counter(names) == IF names = << >> THEN << >> ELSE <<[name |-> Last(names), v |-> 0]>>
Blocked(S, it, names, n, cs, inside) ==
  CASE ~n.ok \/ (n.v > 0 /\ n.v % Wide = 0) -> [S EXCEPT !.ok = FALSE]
    [] n.ok /\ n.v <= 0 -> [S EXCEPT !.read = @ + Holds(inside) * (Len(Render(it.body)) + 1)]
    [] n.ok /\ n.v > 0 /\ n.v % Wide # 0 -> Rounds(S, it.body, cs, Counter(names), 1, n.v % Wide)

\* An item under its names, its text with all in it replaced.
Taken(S, it, names, text, n, cs, inside) ==
  CASE it.kind = "labels" -> [S EXCEPT !.pending = names]
    [] it.kind = "ins" ->
         [Settle(S, names) EXCEPT
            !.code = Append(@, [op |-> it.op, text |-> text, at |-> S.count]),
            !.count = @ + Holds(it.op \in Opcodes),
            !.stop = it.op = "END",
            !.ok = @ /\ \A t \in DOMAIN text : text[t].k # "EQU"]
    [] it.kind \in {"equ", "macro"} ->
         [S EXCEPT !.pending = << >>, !.aliases = @ \cup
            {[name |-> names[i], text |-> it.text, body |-> it.body] : i \in DOMAIN names}]
    [] it.kind = "use" /\ ~IsAlias(S, it.text[1].s) ->  \* a label, then
         [S EXCEPT !.pending = names \o <<it.text[1].s>>]
    [] it.kind = "use" /\ IsAlias(S, it.text[1].s) -> Used(S, names, BodyOf(S, it.text[1].s), cs)
    [] it.kind = "check" -> [S EXCEPT !.regs = n.regs, !.ok = @ /\ n.ok /\ n.v # 0]
    [] it.kind = "for" ->
         Blocked([Settle(S, IF names = << >> THEN << >> ELSE Front(names)) EXCEPT !.regs = n.regs],
                 it, names, n, cs, inside)

Meant(S, it, text, names, cs, inside) ==
  Taken(S, it, names, text, Worth(Placed(text, S, S.count), S.regs), cs, inside)

\* An item with its own labels.  One that is known already makes nothing of
\* the line; a text can have no label of another's name.
WithLabels(S, it, own, cs, inside) ==
  CASE \E name \in ToSet(own) \cup (IF it.kind = "use" THEN {it.text[1].s} ELSE {}) : Known(S, name) ->
         [S EXCEPT !.ok = @ /\ it.kind # "for"]
    [] Len(S.pending) + Len(own) > GrpMax \/ (\E name \in ToSet(own) : IsAlias(S, name)) ->
         [S EXCEPT !.ok = FALSE]
    [] OTHER -> Meant(S, it, Replaced(Named(it.text, cs), S, cs), S.pending \o own, cs, inside)

\* One item, in a block or a text (inside, where a line is counted as it is
\* read) or not.
Take(S, it, cs, inside) ==
  IF S.stop THEN S
  ELSE WithLabels([S EXCEPT !.read = @ + Holds(inside)], it,
              [i \in DOMAIN it.labels |-> Named(it.labels[i], cs)[1].s], cs, inside)

TakeAll(S, items, cs, inside) ==
  IF items = << >> THEN S ELSE TakeAll(Take(S, Head(items), cs, inside), Tail(items), cs, inside)

Rounds(S, body, cs, c, r, last) ==
  IF r > last \/ S.stop THEN S
  ELSE LET cs2 == cs \o [i \in DOMAIN c |-> [c[i] EXCEPT !.v = r]]
           T   == TakeAll(S, body, cs2, TRUE)
       IN Rounds([T EXCEPT !.read = @ + Holds(~T.stop)], body, cs, c, r + 1, last)

-----------------------------------------------------------------------------
\* The warrior, every symbol being known: W.ok says there is one.

ModeNames == {<<"#", "Immediate">>, <<"$", "Direct">>, <<"@", "BIndirect">>, <<"*", "AIndirect">>,
              <<"<", "BPredec">>, <<"{", "APredec">>, <<">", "BPostinc">>, <<"}", "APostinc">>}
Modal(text)  == \E p \in ModeNames : p[1] = KindAt(text, 1)
Mode(text)   == IF Modal(text) THEN (CHOOSE p \in ModeNames : p[1] = KindAt(text, 1))[2]
                ELSE "Direct"
Field(text)  == LET e == IF Modal(text) THEN Tail(text) ELSE text
                IN IF e = << >> THEN <<Num(0)>> ELSE e

\* The modifier the '94 standard gives an instruction written without one.
Standard(op, am, bm) ==
  CASE op \in {"DAT", "NOP"} -> "F"
    [] op \in {"SPL", "JMP", "JMZ", "JMN", "DJN"} -> "B"
    [] op \notin {"DAT", "NOP", "SPL", "JMP", "JMZ", "JMN", "DJN"} ->
         CASE am = "Immediate" -> "AB"
           [] am # "Immediate" /\ (bm = "Immediate" \/ op \in {"SLT", "LDP", "STP"}) -> "B"
           [] OTHER -> IF op \in {"ADD", "SUB", "MUL", "DIV", "MOD"} THEN "F" ELSE "I"

Commas(text) == {i \in DOMAIN text : text[i].k = ","}
First(text)  == IF Commas(text) = {} THEN text ELSE SubSeq(text, 1, Leftmost(Commas(text)) - 1)
Other(text)  == IF Commas(text) = {} THEN << >> ELSE From(text, Leftmost(Commas(text)) + 1)

\* An instruction with the operands a and b, worth va and vb.
Instructed(W, op, mod, a, b, va, vb) ==
  [W EXCEPT !.regs = vb.regs, !.ok = @ /\ va.ok /\ vb.ok,
     !.code = Append(@,
       [op |-> op, am |-> Mode(a), a |-> va.v % CoreSize, bm |-> Mode(b), b |-> vb.v % CoreSize,
        mod |-> IF mod # "" THEN mod ELSE Standard(op, Mode(a), Mode(b))])]

Fields(W, op, mod, a, b, va) == Instructed(W, op, mod, a, b, va, Worth(Field(b), va.regs))
Operands(W, op, mod, a, b)   == Fields(W, op, mod, a, b, Worth(Field(a), W.regs))

\* The only operand of DAT is its second.
Written(W, op, mod, text) ==
  IF op = "DAT" /\ Commas(text) = {}
  THEN Operands([W EXCEPT !.ok = @ /\ text # << >>], op, mod, <<Sym("#"), Num(0)>>, text)
  ELSE Operands([W EXCEPT !.ok = /\ @ /\ First(text) # << >>
                                 /\ Commas(text) # {} => Other(text) # << >>
                                 /\ Commas(text) = {} => op \in {"SPL", "JMP", "NOP"}],
                op, mod, First(text), Other(text))

Directive(W, op, v) ==
  [W EXCEPT !.regs = v.regs, !.ok = @ /\ v.ok,
     !.start = CASE op = "ORG" -> v.v % CoreSize
                 [] op = "END" -> IF @ = 0 THEN v.v % CoreSize ELSE @
                 [] OTHER -> @,
     !.pin = IF op = "PIN" THEN v.v ELSE @]

EncodeText(W, op, text) ==
  IF op \notin Opcodes THEN Directive(W, op, Worth(Field(text), W.regs))
  ELSE IF KindAt(text, 1) = "." THEN Written(W, op, text[2].s[1], From(text, 3))
  ELSE Written(W, op, "", text)

Encode(W, S, line) ==
  EncodeText(W, line.op, Placed(Replaced(line.text, S, << >>), S,
                                IF line.op \in Opcodes THEN line.at ELSE 0))

RECURSIVE EncodeAll(_, _, _)
EncodeAll(W, S, lines) ==
  IF lines = << >> THEN W ELSE EncodeAll(Encode(W, S, Head(lines)), S, Tail(lines))

\* What the unrolled program S is; without an instruction nothing is encoded.
Warriored(S) ==
  LET W == [code |-> << >>, start |-> 0, pin |-> NoPin, regs |-> S.regs,
            ok |-> S.ok /\ S.count <= MaxLength]
  IN IF S.count = 0 THEN W ELSE EncodeAll(W, S, S.code)
=============================================================================
