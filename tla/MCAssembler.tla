---------------------------- MODULE MCAssembler ----------------------------
(***************************************************************************)
(* The assembler on programs of up to three items out of a dozen, on       *)
(* programs made to meet its limits, and on assertions of every form with  *)
(* up to three operators, compared with what each means.                   *)
(***************************************************************************)
EXTENDS Assembler, Evaluator, Meaning

VARIABLE prog  \* the program the source was written from

V(s) == Name(<<s>>)
Zero == Num(0)
Comma == Sym(",")
x == V("x")
y == V("y")
k == V("k")
m == V("m")
i == V("i")
j == V("j")
a == V("a")

MCRegisters  == {<<"a">>, <<"w">>}
MCPredefined == <<[name |-> <<"CORESIZE">>, value |-> CoreSize]>>
MCPins       == -Huge .. Huge

\* The items of the family: labels before and after their use, texts before
\* and after theirs, blocks that run twice, a growing number of times and
\* not at all, labels that come twice, a text of several lines, a register,
\* the line number and the directives.
Family == {
  Ins(<< <<x>> >>, "MOV", <<Sym("."), V("AB"), Sym("#"), k, Sym("*"), Num(2), Comma, Sym(">"), x>>),
  Ins(<< >>, "ADD", <<x, Sym("+"), a, Comma, Sym("@"), V("CORESIZE"), Sym("-"), Num(1)>>),
  Ins(<< <<x>> >>, "DAT", <<Sym("<"), Name(<<"y", "02">>)>>),
  Labels(<< <<x>> >>),
  Alias(<< <<k>> >>, <<Num(1), Sym("+"), Num(2)>>),
  Repeat(<< <<i>> >>, <<Num(2)>>, <<Ins(<< <<y, Sym("&"), i>> >>, "SLT", <<Name(<<"y", "01">>), Comma, i>>)>>),
  Repeat(<< <<x>>, <<i>> >>, <<k, Sym("-"), Num(1)>>,
         <<Repeat(<< <<j>> >>, <<i, Sym("-"), Num(1)>>, <<Ins(<< >>, "JMP", <<j, Sym("-"), i>>)>>)>>),
  Repeat(<< >>, <<Num(0)>>,
         <<Repeat(<< <<i>> >>, <<Num(1)>>, <<Ins(<< <<x>> >>, "NOP", <<Zero>>)>>), Alias(<< <<k>> >>, <<Zero>>)>>),
  Macro(<< <<m>> >>, <<Ins(<< >>, "SPL", <<x>>),
                       Ins(<< >>, "SUB", <<a, Sym("="), Sym("CURLINE"), Comma, k>>)>>),
  Use(<< >>, <<m>>),
  Ins(<< >>, "ORG", <<x, Sym("+"), Num(1)>>),
  Ins(<< >>, "END", <<k>>)
}

Upto(n) == UNION {[1 .. l -> Family] : l \in 0 .. n}

\* Expressions, as assertions.
N(n) == <<Num(n)>>
O(o) == <<Sym(o)>>
Least == <<Sym("("), Sym("-"), Num(Huge - 1), Sym("-"), Num(1), Sym(")")>>
FewOps == {"+", "-", "*", "/", "<", "==", "&&", "||"}

Checks ==
     {p \o O(o) \o q : p, q \in {N(0), N(3), N(Huge - 1), O("-") \o N(1), Least}, o \in BinaryOps}
  \cup {N(5) \o O(o) \o N(3) \o O(o2) \o N(2) \o O(o3) \o N(4) : o, o2, o3 \in FewOps}
  \cup UNION {{O("(") \o N(5) \o O(o) \o N(2) \o O(")") \o O(o2) \o N(3),
               N(5) \o O(o) \o O("(") \o N(2) \o O(o2) \o N(3) \o O(")"),
               O("-") \o N(5) \o O(o) \o O("!") \o N(2) \o O(o2) \o O("-") \o O("-") \o N(3),
               <<a>> \o O("=") \o N(5) \o O(o) \o N(2) \o O(o2) \o <<a>>,
               N(5) \o O(o) \o <<a>> \o O("=") \o N(2) \o O(o2) \o <<a>>} : o, o2 \in FewOps}

\* The evaluator of the runs returns what its signature says: AssemblerProofs
\* supposes it of every evaluator, here it is seen on up to three tokens.
Bits == {N(3), N(Huge - 1), N(Huge), <<a>>, <<x>>} \cup {O(o) : o \in (ExprKinds \ {"num"}) \cup {"<", ">", "*", ","}}
ASSUME EvalExprAssumption ==
  \A p, q, r \in Bits \cup {<< >>} : \A op \in BinaryOps \cup {"none"} :
    Valued(EvalExpr(p \o q \o r, [n \in MCRegisters |-> 0 - Huge], op))

\* Blocks and texts about as large as the limits allow, and above.
Nops(n) == [q \in 1 .. n |-> Ins(<< >>, "NOP", N(0))]
Sum(n)  == [q \in 1 .. 2 * n - 1 |-> IF q % 2 = 1 THEN Num(1) ELSE Sym("+")]
Large ==
     {<<Repeat(<< >>, N(n), Nops(b))>> : n \in 1 .. Wide + 1, b \in 0 .. 2}
  \cup {<<Repeat(<< >>, N(n), <<Repeat(<< >>, N(b), << >>)>>)>> : n, b \in 1 .. 3}
  \cup {<<Repeat(<< >>, N(n), <<Ins(<< >>, "PIN", N(3))>>)>> : n \in 4 .. Wide - 1}
  \cup {<<Alias(<< <<k>> >>, Sum(n)), Ins(<< >>, "JMP", <<k, Sym("-")>> \o Sum(b))>> : n, b \in 1 .. 4}
  \cup {<<Repeat(<< >>, N(1), <<Repeat(<< >>, N(1), <<Ins(<< >>, "JMP", Sum(n))>>)>>)>> : n \in 2 .. 6}
  \cup {<<Macro(<< <<m>> >>, <<Repeat(<< >>, N(n), Nops(1))>> \o Nops(1)), Use(<< <<x>> >>, <<m>>),
          Use(<< >>, <<m>>)>> : n \in 0 .. 3}
  \cup {<<Repeat(<< >>, N(2), <<Use(<< >>, <<m>>)>>)>>, <<Ins(<< >>, "PIN", N(3))>> \o Nops(1)}
  \cup {[q \in 1 .. n |-> Labels(<< <<V(ToString(q))>> >>)] \o Nops(1) : n \in GrpMax .. GrpMax + 1}

\* Sources that are no programs, and what is said of each.
Op(o, text) == <<Sym(o)>> \o text
Block(n, lines) == << <<Sym("FOR")>> \o n >> \o lines \o << <<Sym("ROF")>> >>
Equ1(s, text) == <<V(s), Sym("EQU")>> \o text
Faulty == {
  Raw("Snf", <<Op("MOV", <<V("zz"), Comma>> \o N(0))>>), Raw("Snf", <<Op("JMP", N(1) \o O("+") \o <<V("zz")>>)>>),
  Raw("Nop", <<Op("MOV", N(1))>>), Raw("Syn", <<Op("MOV", << >>)>>), Raw("Syn", <<Op("JMP", O("."))>>),
  Raw("Syn", <<Op("MOV", N(1) \o <<Comma>>)>>), Raw("App", <<Op("JMP", O("FOR"))>>),
  Raw("Exp", <<Op("MOV", <<Sym("."), V("Q")>> \o N(0))>>), Raw("Exp", <<Op("MOV", N(1) \o <<Comma, Sym(":")>>)>>),
  Raw("App", <<Op("JMP", O(":"))>>), Raw("App", <<Op("JMP", N(1) \o O("@") \o N(2))>>),
  Raw("App", <<Op("MOV", N(1) \o <<Comma>> \o N(2) \o <<Comma>>)>>),
  Raw("For", << <<Sym("ROF")>> >>), Raw("Rof", << <<Sym("FOR"), Num(1)>>, Op("NOP", N(0)) >>),
  Raw("Ann", << <<Sym("EQU"), Num(1)>> >>), Raw("Tok", << <<x, Sym(":"), Sym("+")>> >>),
  Raw("Misc", << <<Sym("CURLINE")>> >>), Raw("Dlb", << <<x>> >>),
  Raw("Cat", << <<x, Sym("&"), y>> \o Op("NOP", N(0)) >>),
  Raw("Cat", << <<x, Sym("&"), y, Sym("&"), i>> \o Op("NOP", N(0)) >>),
  Raw("Rec", <<Equ1("k", <<k>>), Op("JMP", <<k>>)>>), Raw("Rec", <<Op("JMP", <<k>>), Equ1("k", N(1) \o <<k>>)>>),
  Raw("Rec", <<Equ1("m", Op("NOP", N(0))), <<Sym("EQU"), m>>, <<m>>, <<m>> >>),
  Raw("Evl", <<Op("JMP", O("("))>>), Raw("Evl", <<Op("NOP", N(0)), Op("ORG", O("("))>>), Raw("Evl", Block(O("("), << >>)),
  Raw("Div", <<Op("MOV", N(1) \o O("%") \o <<Zero, Comma, x>>), <<x>> \o Op("NOP", N(0))>>),
  Raw("Div", <<Op("NOP", N(0)), Op("ORG", N(1) \o O("/") \o N(0))>>),
  Raw("Chk", << <<Sym(";"), Sym("ASSERT"), Zero, Sym(";"), x>> >>),
  Raw("Bas", << <<Sym(";"), Sym("ASSERT"), V("zz")>> >>),
  Raw("Nas", Block(N(0), << <<Sym(";"), Sym("ASSERT"), Zero>>, <<Num(1)>> >>)),
  Raw("Ofl", <<Op("DAT", N(Huge - 1) \o O("+") \o N(1))>>),
  Raw("Ofl", Block(N(Huge - 1) \o O("*") \o N(2), << >>)),
  Raw("Doe", <<Op("ORG", N(1)), Op("NOP", N(0)), Op("NOP", N(0)), Op("END", N(1))>>),
  Raw("Ofs", <<Op("ORG", N(2)), Op("NOP", N(0))>>), Raw("Lin", Block(N(MaxLength + 1), <<Op("NOP", N(0))>>)),
  Raw("Buf", <<Op("JMP", Sum(MaxText \div 2 + 1))>>), Raw("Buf", <<Op("JMP", Sum(MaxText \div 2) \o <<V("zz")>>)>>),
  Raw("Buf", <<Op("JMP", Sum(MaxText \div 2) \o O("CURLINE"))>>),
  Raw("Buf", << <<x>> \o Op("JMP", Sum(MaxText \div 2) \o <<x>>)>>), Raw("Buf", <<Op("NOP", N(0)), <<x>> \o Op("JMP", N(0)), Op("JMP", Sum(MaxText \div 2) \o <<x>>)>>),
  Raw("Buf", <<Op("JMP", <<k>>), Equ1("k", Sum(MaxText \div 2 + 1))>>),
  Raw("Buf", <<Op("JMP", <<k, a>>), Equ1("k", Sum(MaxText \div 2) \o O("+"))>>),
  Raw("Deep", <<Op("JMP", <<k>>), Op("JMP", <<k>>), Equ1("k", Sum(MaxDepth))>>),
  Raw("Exp", <<Equ1("m", N(1)), <<Sym("EQU"), V("z"), Sym("EQU"), Num(5)>>, Op("JMP", <<m>>)>>),
  Raw("Exp", <<Equ1("m", N(1)), <<Sym("EQU"), V("z"), Sym("EQU"), Num(5)>>, Op("JMP", <<m, a>>)>>)
}

Programs == Upto(3) \cup {<<Check(e)>> : e \in Checks} \cup Large \cup {<<f>> : f \in Faulty}

\* As it is, or in a ;redcode frame with text around it.
Framed(lines) ==
  << <<Sym(";"), Sym("ASSERT"), Zero>>, <<Sym("ROF")>>, <<Sym(";"), Sym("REDCODE")>>, << >>, <<Sym(";"), x>> >>
  \o lines \o << <<Sym(";"), Sym("REDCODE")>>, <<Sym("ROF")>> >>

SourcesOf(p) ==
  {Render(p)} \cup IF Len(p) <= 1 \/ p \in Large THEN {Framed(Render(p))} ELSE {}

MCInit == prog \in Programs /\ source \in SourcesOf(prog) /\ Init
MCNext == Next /\ UNCHANGED prog
MCSpec == MCInit /\ [][MCNext]_<<vars, prog>> /\ WF_<<vars, prog>>(MCNext)

\* A text of two lines as the operand of an instruction; prog is the program
\* with the text written out.
EquInit ==
  /\ prog = <<Ins(<< >>, "MOV", N(1) \o <<Comma>> \o N(2)), Ins(<< >>, "NOP", N(0))>>
  /\ source = <<Equ1("m", N(1) \o <<Comma>> \o N(2)), Op("EQU", <<Sym("NOP"), Zero>>), Op("MOV", <<m>>)>>
  /\ Init
EquSpec == EquInit /\ [][MCNext]_<<vars, prog>> /\ WF_<<vars, prog>>(MCNext)

-----------------------------------------------------------------------------
Said(e) == \E d \in DOMAIN asm.diags : asm.diags[d].e = e

Unrolled ==
  TakeAll(Blank([r \in Registers |-> IF r = <<"w">> THEN Warriors ELSE 0],
                {[name |-> <<"CORESIZE">>, text |-> N(CoreSize), body |-> << >>]}),
          prog, << >>, FALSE)

\* What comes out is what the program means: an accepted one is as long as was
\* counted and the warrior it describes, with every block unrolled, text
\* replaced and label counted as if all were known at once; a program that
\* describes one is refused for a limit only, and for the lines expanded
\* exactly when there are too many, however they are nested; what is no
\* program is told why.  (asm.rs, run)
AssemblesAsWritten ==
  phase = "done" =>
    /\ Accepted => Len(Result.code) = made.count
    /\ IF prog # << >> /\ prog[1].kind = "raw" THEN Said(prog[1].op)
       ELSE IF prog # << >> /\ prog[1].kind = "check" THEN ~Said("Work")
       ELSE LET S == Unrolled
                W == Warriored(S)
            IN /\ Accepted => W.ok /\ Result = [code |-> W.code, start |-> W.start, pin |-> W.pin]
               /\ W.ok => Accepted \/ \E e \in {"Deep", "Work", "Exx", "Buf"} : Said(e)
               /\ S.ok /\ ~Said("Deep") /\ ~Said("Exx") => (Said("Work") <=> S.read > MaxExpansion)

\* "EQU (single- and multi-line) is textual substitution" (asm.rs:14): a
\* program written with a text is the program with the text written out.
EquIsTextual ==
  Accepted =>
    LET W == Warriored(Unrolled)
    IN W.ok /\ Result = [code |-> W.code, start |-> W.start, pin |-> W.pin]

\* The expressions about to be evaluated.
Due == IF Resuming("assert") \/ Resuming("for") THEN {dest}
       ELSE IF phase = "encode" /\ stack = << >> /\ ret # Running /\ ~Erred(asm) THEN {ins.a, ins.b} \ {<< >>}
       ELSE {}

\* A value reported as good is the exact one, by the rule of grouping; an
\* overflow is reported where there is one, and nowhere else, unless the
\* least integer comes in.  (calc, eval)
ValueAsWritten ==
  \A e \in Due :
    LET r == eval_expr(e, asm.regs, asm.save)
        w == Worth(e, asm.regs)
    IN /\ r.err \in {"ok", "overflow"} => w.ok
       /\ r.err = "ok" /\ w.within => r.v = w.v /\ r.regs = w.regs
       /\ w.ok /\ w.within => r.err = "ok"
       /\ w.ok /\ ~w.within /\ ~w.least => r.err # "ok"

\* The operator one evaluation leaves in save_oper is never taken up by the
\* next.  (eval)
NothingCarried ==
  \A e \in Due : \A op \in Operators :
    LET r == eval_expr(e, asm.regs, asm.save)
        o == eval_expr(e, asm.regs, op)
    IN o.v = r.v /\ o.err = r.err /\ o.regs = r.regs
=============================================================================
