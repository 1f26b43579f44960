----------------------------- MODULE Assembler -----------------------------
(***************************************************************************)
(* The assembler of asm.rs: assemble_full on one source.  It reads the     *)
(* source, rewrites it (pass 1: EQU substitution, labels already seen, FOR *)
(* blocks), and encodes what it wrote (pass 2: the line automaton and the  *)
(* evaluator).                                                             *)
(*                                                                         *)
(* trav2 and automaton call themselves once per token, and equsub, blkfor  *)
(* and the two char_ functions call them and go on afterwards.  stack      *)
(* holds the active calls, the innermost first; asm.depth counts them as   *)
(* the code does, so a call made last (Again) leaves its caller counted    *)
(* although nothing of it is kept.  dest is the one text all of pass 1     *)
(* writes to.                                                              *)
(*                                                                         *)
(* Left out: spacing and what it joins, `\` continuation, ;name, ;author   *)
(* and the other comments, and the size of the source.                     *)
(***************************************************************************)
EXTENDS Redcode, Tokens, SequencesExt

CONSTANTS
  Predefined,    \* the predefined symbols: a sequence of [name, value]
  Warriors,      \* Config::warriors
  FirstWarrior,  \* Config::first_warrior
  MaxDepth,      \* MAX_DEPTH
  MaxExpansion,  \* MAX_EXPANSION
  MaxOut,        \* the 100 000 lines of blkfor's guard
  MaxInstr,      \* MAXINSTR
  MaxText,       \* MAXALLCHAR, in tokens
  eval_expr(_, _, _)  \* the evaluator: expression, registers, save_oper

ASSUME AssemblerAssumption ==
  /\ MaxDepth \in Nat \ {0} /\ MaxExpansion \in Nat /\ MaxOut \in Nat
  /\ MaxInstr \in Nat /\ MaxText \in Nat /\ Warriors \in Nat
  /\ Predefined \in Seq([name: Seq(STRING), value: Int])

VARIABLES
  phase,   \* "read", "expand", "encode", "done"
  source,  \* the lines of the source
  pos,     \* the next of them to read
  framed,  \* a ;redcode has been seen
  asm,     \* the fields of struct Asm that outlive a line
  ins,     \* those that dfashell resets for each line
  dest,    \* the text trav2 is writing
  stack,   \* the active calls, innermost first
  ret,     \* what the last call returned, or Running
  made     \* the warrior so far

vars == <<phase, source, pos, framed, asm, ins, dest, stack, ret, made>>

\* What trav2 returns; it is also told one of these (wdecl).
SNIL == 0
SLBL == 1
SVAL == 2
SCOM == 3
SPSE == 4
SFOR == 5
SROF == 6
SERR == -1
Running == -2

PseudoOps == {"ORG", "END", "PIN"}
Blocks    == {"FOR", "ROF"}

\* The keyword of an addressing mode.
ModeOf == [t \in {"#", "$", "@", "<", ">", "*", "{", "}"} |->
  CASE t = "#" -> "Immediate" [] t = "$" -> "Direct"
    [] t = "@" -> "BIndirect" [] t = "*" -> "AIndirect"
    [] t = "<" -> "BPredec"   [] t = "{" -> "APredec"
    [] t = ">" -> "BPostinc"  [] t = "}" -> "APostinc"]

\* What a token may be: part of an expression, a word, a mode, or neither.
ExprKinds == {"num", "(", ")", "/", "+", "-", "%", "!", "=", "==", "!=", "<=", ">=", "&&", "||"}
Words     == {"name", "CURLINE", "EQU", "ASSERT", "REDCODE"} \cup Blocks \cup Opcodes \cup PseudoOps
Kinds     == ExprKinds \cup Words \cup DOMAIN ModeOf \cup {".", ",", ":", "&", "|", ";", "other"}

\* The parts of a name; what "&" appends are the two digits of a FOR counter.
TwoDigits(v) == IF v < 10 THEN "0" \o ToString(v) ELSE ToString(v)
Part == STRING \cup {TwoDigits(v) : v \in 0 .. Wide}

Token == [k: Kinds, s: Seq(Part), n: Int]

-----------------------------------------------------------------------------
\* The helpers of struct Asm, on its record m.

NoLine == <<0, 0>>  \* aline: the list and the line in it that is being read

CurLine(m)  == m.lists[m.aline[1]][m.aline[2]]
NextLine(m) ==
  IF m.aline # NoLine /\ m.aline[2] < Len(m.lists[m.aline[1]])
  THEN <<m.aline[1], m.aline[2] + 1>> ELSE NoLine
Loc(m) == IF m.aline = NoLine THEN 0 ELSE CurLine(m).loc

Errors == {"Buf", "Tok", "Syn", "Snf", "Nop", "Evl", "Exp", "Rec", "Ann", "Lin", "App", "Zln",
           "Idn", "Rof", "For", "Grp", "Chk", "Nas", "Bas", "Exx", "Cat", "Dlb", "Ofs", "Doe",
           "Div", "Ofl", "Misc", "Deep", "Work"}

\* E::warning.
Warnings == {"Ann", "Rof", "Zln", "Dlb", "Ofl", "Nas", "Ofs", "Doe", "Bas", "Idn"}

ErrAt(m, e, loc) == [m EXCEPT !.lineErr = TRUE, !.diags = Append(@, [e |-> e, line |-> loc])]
Err(m, e) == ErrAt(m, e, Loc(m))
Erred(m)  == \E i \in DOMAIN m.diags : m.diags[i].e \notin Warnings

\* The newest symbol of that name, 0 if there is none.
Lookup(m, name) ==
  LET C == {k \in DOMAIN m.refs : name \in m.refs[k].names}
  IN IF C = {} THEN 0 ELSE CHOOSE k \in C : \A j \in C : j <= k

PushRef(m, names, kind, v, visit) ==
  [m EXCEPT !.refs = Append(@, [names |-> names, kind |-> kind, v |-> v, visit |-> visit]),
            !.counters = IF kind = "stack" THEN Append(@, Len(m.refs) + 1) ELSE @]

PopCounter(m) ==
  IF m.counters = << >> THEN m
  ELSE [m EXCEPT !.refs[Last(m.counters)].names = {},
                 !.counters = Front(@)]

\* The labels collected before an instruction become symbols.
Labelled(m) ==
  IF m.symtbl = << >> THEN m
  ELSE PushRef([m EXCEPT !.symtbl = << >>],
               ToSet(m.symtbl), "label", m.line, FALSE)

\* Gone wrong: a limit is reported each time it is met.
HaltEach(m, e) == [Err([m EXCEPT !.halted = TRUE], e) EXCEPT !.vcont = FALSE]

Halt(m, e) ==
  [(IF m.halted THEN m ELSE Err([m EXCEPT !.halted = TRUE], e)) EXCEPT !.vcont = FALSE]

\* expand_one: the code goes on only if the result is not halted.
ExpandOne(m) ==
  LET c == [m EXCEPT !.expanded = @ + 1]
  IN IF c.expanded > MaxExpansion THEN Halt(c, "Work") ELSE c

AddLine(m, text) == [m EXCEPT !.out = Append(@, [text |-> text, loc |-> Loc(m)])]

\* concat succeeds.
Fits(text, more) == Len(text) + Len(more) < MaxText

Failed(r) == r.err \in {"bad", "div"}
EvalError(r) == IF r.err = "div" THEN "Div" ELSE "Evl"

\* Asm::eval has been called with result r, and has not failed.
Evaluated(m, r) == [m EXCEPT !.regs = r.regs, !.save = r.save]
Overflown(m, r) == IF r.err = "overflow" THEN Err(m, "Ofl") ELSE m
Eval1(e) == eval_expr(e, asm.regs, asm.save)

-----------------------------------------------------------------------------
Frame(pc, buf, w, st, base) ==
  [pc |-> pc, buf |-> buf, w |-> w, st |-> st, base |-> base,
   ref |-> 0, aline |-> NoLine, n |-> 0, limit |-> 0, names |-> {}]

\* The fields dfashell gives a line; opcode, filled and last stay.
NewLine(i) ==
  [i EXCEPT !.modifier = "none", !.a = << >>, !.b = << >>, !.am = "Direct", !.bm = "Direct"]

Init ==
  /\ phase = "read" /\ source \in Seq(Seq(Token)) /\ pos = 1 /\ framed = FALSE
  /\ asm = [lists |-> << << >> >> \o
              [i \in DOMAIN Predefined |-> <<[text |-> <<Num(Predefined[i].value)>>, loc |-> 0]>>],
            refs |-> [i \in DOMAIN Predefined |->
              [names |-> {Predefined[i].name}, kind |-> "text", v |-> i + 1, visit |-> FALSE]],
            counters |-> << >>, symtbl |-> << >>, statefine |-> 0,
            depth |-> 0, expanded |-> 0, halted |-> FALSE,
            line |-> 0, vcont |-> TRUE, aline |-> NoLine, out |-> << >>,
            diags |-> << >>, lineErr |-> FALSE, noassert |-> TRUE, save |-> "none",
            regs |-> [r \in Registers |->
              IF FirstWarrior /\ r \in {<<"w">>, <<"s">>} THEN Warriors ELSE 0]]
  /\ ins = [opcode |-> "MOV", filled |-> FALSE, last |-> "Op", modifier |-> "none",
            a |-> << >>, b |-> << >>, am |-> "Direct", bm |-> "Direct"]
  /\ dest = << >> /\ stack = << >> /\ ret = Running
  /\ made = [code |-> << >>, offset |-> 0, pin |-> NoPin, count |-> 0]

-----------------------------------------------------------------------------
\* read and globalswitch.

\* The line up to a ";" other than its first token.
Uncommented(line) ==
  LET C == {i \in 2 .. Len(line) : line[i].k = ";"}
  IN IF C = {} THEN line ELSE SubSeq(line, 1, (CHOOSE i \in C : \A j \in C : i <= j) - 1)

ReadLine ==
  /\ phase = "read" /\ pos <= Len(source)
  /\ LET line  == source[pos]
         first == KindAt(line, 1)
         which == KindAt(line, 2)
     IN IF first = ";" /\ which = "REDCODE"
        THEN /\ framed' = TRUE
             /\ pos' = IF framed THEN Len(source) + 1 ELSE pos + 1
             /\ asm' = IF framed THEN asm ELSE [asm EXCEPT !.lists[1] = << >>]
        ELSE /\ pos' = pos + 1
             /\ asm' = IF first = "end" \/ (first = ";" /\ which # "ASSERT") THEN asm
                       ELSE [asm EXCEPT !.lists[1] =
                               Append(@, [text |-> Uncommented(line), loc |-> pos])]
             /\ UNCHANGED framed
  /\ UNCHANGED <<phase, source, ins, dest, stack, ret, made>>

ReadDone ==
  /\ phase = "read" /\ pos > Len(source)
  /\ phase' = "expand"
  /\ asm' = [asm EXCEPT !.aline = IF asm.lists[1] = << >> THEN NoLine ELSE <<1, 1>>]
  /\ UNCHANGED <<source, pos, framed, ins, dest, stack, ret, made>>

-----------------------------------------------------------------------------
\* Pass 1.  Calls: what the top of the stack may do.

Top  == stack[1]
Rest == Tail(Top.buf)
Tok  == KindAt(Top.buf, 1)

Calling(pc)  == ret = Running /\ stack # << >> /\ Top.pc = pc
Resuming(pc) == ret # Running /\ stack # << >> /\ Top.pc = pc

Return(m, r) ==
  /\ asm' = [m EXCEPT !.depth = Top.base]
  /\ stack' = Tail(stack) /\ ret' = r

\* The call becomes f, and f goes on.
Become(m, f) == asm' = m /\ stack' = <<f>> \o Tail(stack) /\ ret' = Running

\* The call becomes f, which waits for a call of trav2.
Await(m, f, buf, w) ==
  /\ asm' = m /\ ret' = Running
  /\ stack' = <<Frame("trav2", buf, w, "Op", m.depth), f>> \o Tail(stack)

\* Its last act is to call itself.
Again(m, buf, w) == Become(m, [Top EXCEPT !.pc = "trav2", !.buf = buf, !.w = w])

\* concat, then the rest of the line.
Copy(m, text, buf, w) ==
  IF Fits(dest, text)
  THEN dest' = dest \o text /\ Again(m, buf, w)
  ELSE Return(Err(m, "Buf"), SERR) /\ UNCHANGED dest

Refuse(e) == Return(Err([asm EXCEPT !.depth = @ + 1], e), SERR)

\* enter has let the call in.
Entered == [asm EXCEPT !.depth = @ + 1]
Trav2 ==
  /\ phase = "expand" /\ Calling("trav2") /\ asm.depth < MaxDepth
  /\ UNCHANGED <<phase, source, pos, framed, ins, made>>

TooDeep ==
  /\ Calling("trav2") \/ Calling("automaton")
  /\ asm.depth >= MaxDepth
  /\ Return(Halt(asm, "Deep"), SERR)
  /\ UNCHANGED <<phase, source, pos, framed, ins, dest, made>>

LineOver == Trav2 /\ Tok = "end" /\ Return(Entered, Top.w) /\ UNCHANGED dest

Comment ==
  /\ Trav2 /\ Tok = ";" /\ UNCHANGED dest
  /\ IF Top.w = SNIL /\ asm.statefine = 0 /\ KindAt(Top.buf, 2) = "ASSERT"
     THEN Await(Entered, [Top EXCEPT !.pc = "assert"], From(Top.buf, 3), SVAL)
     ELSE Return(Entered, Top.w)

Checked(m, r) ==
  IF Failed(r) THEN Err(m, "Bas")
  ELSE LET o == [Overflown(m, r) EXCEPT !.noassert = FALSE]
       IN IF r.v = 0 THEN Err(o, "Chk") ELSE o

Asserted ==
  /\ Resuming("assert")
  /\ \E r \in {Eval1(dest)} : Return(Checked(Evaluated(asm, r), r), Top.w)
  /\ UNCHANGED <<phase, source, pos, framed, ins, dest, made>>

\* Inside a FOR that runs no rounds: only its own ROF matters.
Skip ==
  /\ Trav2 /\ asm.statefine > 0 /\ Tok \notin {"end", ";"} /\ UNCHANGED dest
  /\ CASE Tok = "ROF"  -> Return([Entered EXCEPT !.statefine = @ - 1], SERR)
       [] Tok = "FOR"  -> Return([Entered EXCEPT !.statefine = @ + 1], SERR)
       [] Tok = "name" -> Again(Entered, Rest, SNIL)
       [] OTHER        -> Return(Entered, SNIL)

Live == Trav2 /\ asm.statefine = 0

\* A block or an EQU among the operands, an operand where a line starts.
Misplaced ==
  /\ Live /\ UNCHANGED dest
  /\ \/ Tok \in Blocks \cup {"EQU"} \cup Opcodes \cup PseudoOps /\ Top.w > SLBL /\ Refuse("App")
     \/ Tok = "CURLINE" /\ Top.w <= SLBL /\ Refuse("Misc")
     \/ /\ Tok \notin {"end", ";", "name", "CURLINE", "EQU"} \cup Blocks \cup Opcodes \cup PseudoOps
        /\ Top.w <= SLBL /\ Refuse("Tok")

Rof == Live /\ Tok = "ROF" /\ Top.w <= SLBL /\ Return(Entered, SROF) /\ UNCHANGED dest

Curline == Live /\ Tok = "CURLINE" /\ Top.w > SLBL /\ Copy(Entered, <<Num(asm.line)>>, Rest, Top.w)

Operator ==
  /\ Live /\ Top.w > SLBL
  /\ Tok \notin {"end", ";", "name", "CURLINE", "EQU"} \cup Blocks \cup Opcodes \cup PseudoOps
  /\ Copy(Entered, <<Top.buf[1]>>, Rest, Top.w)

\* An operator is written with its modifier attached, and that is copied
\* with it, unread.
Opcode ==
  /\ Live /\ Tok \in Opcodes \cup PseudoOps /\ Top.w <= SLBL
  /\ LET glued == IF KindAt(Top.buf, 2) = "." /\ Len(Top.buf) > 2 THEN 3 ELSE 1
         text  == SubSeq(Top.buf, 1, glued)
     IN IF Fits(dest, text)
        THEN /\ dest' = dest \o text
             /\ Await(Entered, [Top EXCEPT !.pc = "opcode"], From(Top.buf, glued + 1),
                      IF Tok \in Opcodes THEN SVAL ELSE SPSE)
        ELSE Refuse("Buf") /\ UNCHANGED dest

Numbered(m, op) ==
  IF op \in Opcodes THEN [Labelled(m) EXCEPT !.line = @ + 1]
  ELSE [Labelled(m) EXCEPT !.vcont = @ /\ op # "END"]

OpcodeDone ==
  /\ Resuming("opcode")
  /\ IF ret = SERR THEN Return(asm, SERR) ELSE Return(Numbered(asm, Tok), SCOM)
  /\ UNCHANGED <<phase, source, pos, framed, ins, dest, made>>

-----------------------------------------------------------------------------
\* EQU.

\* How many of the lines after the one being read go on with its EQU.
EquLines(m) ==
  LET L == m.lists[m.aline[1]]
      i == m.aline[2]
      IsEqu(j) == KindAt(L[i + j].text, 1) = "EQU"
  IN CHOOSE n \in 0 .. Len(L) - i : /\ \A j \in 1 .. n : IsEqu(j)
                                    /\ n < Len(L) - i => ~IsEqu(n + 1)

\* equtbl.
Defined(m, text) ==
  LET L == m.lists[m.aline[1]]
      i == m.aline[2]
      n == EquLines(m)
      body == [j \in 1 .. n + 1 |->
        [text |-> IF j = 1 THEN text ELSE Tail(L[i + j - 1].text), loc |-> L[i + j - 1].loc]]
  IN PushRef([m EXCEPT !.lists = Append(@, body), !.aline[2] = @ + n, !.symtbl = << >>],
             ToSet(m.symtbl), "text", Len(m.lists) + 1, FALSE)

Equ ==
  /\ Live /\ Tok = "EQU" /\ Top.w <= SLBL /\ UNCHANGED dest
  /\ Return(IF asm.symtbl = << >> THEN Err(Entered, "Ann") ELSE Defined(Entered, Rest), SVAL)

\* A name, the digits of the FOR counters attached to it, and the text
\* after them.  A counter that is none ends the name one counter later.
Joined(m, buf) ==
  LET attached(i) == KindAt(buf, 2 * i) = "&" /\ KindAt(buf, 2 * i + 1) = "name"
      counter(i)  == Lookup(m, buf[2 * i + 1].s)
      known(i)    == attached(i) /\ counter(i) # 0 /\ m.refs[counter(i)].kind = "stack"
      n == CHOOSE i \in 0 .. Len(buf) : (\A j \in 1 .. i : known(j)) /\ ~known(i + 1)
      used == IF ~attached(n + 1) THEN n ELSE IF attached(n + 2) THEN n + 2 ELSE n + 1
  IN [name |-> buf[1].s \o [i \in 1 .. n |-> TwoDigits(m.refs[counter(i)].v)],
      rest |-> From(buf, 2 * used + 2),
      m    |-> IF used = n THEN m ELSE Err(m, "Cat")]

\* j is what the line goes on with, k the symbol of that name.
Naming == Live /\ Tok = "name"
J == Joined(Entered, Top.buf)
K == Lookup(asm, J.name)
IsText(k) == k # 0 /\ asm.refs[k].kind = "text"

\* Gone wrong: a name is replaced although it is being replaced already.
SubstituteAgain ==
  /\ Naming /\ IsText(K) /\ UNCHANGED dest
  /\ Await([J.m EXCEPT !.refs[K].visit = TRUE, !.aline = <<asm.refs[K].v, 1>>],
           [Top EXCEPT !.pc = "equ", !.buf = J.rest, !.ref = K, !.aline = asm.aline],
           asm.lists[asm.refs[K].v][1].text, Top.w)

\* equsub, up to the first line of the text.
Substitute ==
  /\ Naming /\ IsText(K) /\ UNCHANGED dest
  /\ IF asm.refs[K].visit THEN Return(Err(J.m, "Rec"), SERR)
     ELSE Await([J.m EXCEPT !.refs[K].visit = TRUE, !.aline = <<asm.refs[K].v, 1>>],
                [Top EXCEPT !.pc = "equ", !.buf = J.rest, !.ref = K, !.aline = asm.aline],
                asm.lists[asm.refs[K].v][1].text, Top.w)

\* equsub, once a line of the text is read: the next, or the rest of the
\* line the name was on.
EquLine ==
  /\ Resuming("equ")
  /\ LET next == NextLine(asm)
         more == next # NoLine /\ asm.vcont
         m    == IF ~more THEN asm
                 ELSE ExpandOne(IF asm.statefine = 0 /\ ret = SCOM THEN AddLine(asm, dest) ELSE asm)
     IN IF more /\ ~m.halted
        THEN /\ Await([m EXCEPT !.aline = next], Top, m.lists[next[1]][next[2]].text, SNIL)
             /\ dest' = << >>
        ELSE /\ Become([m EXCEPT !.aline = Top.aline, !.refs[Top.ref].visit = FALSE],
                       [Top EXCEPT !.pc = "trav2", !.w = ret])
             /\ UNCHANGED dest
  /\ UNCHANGED <<phase, source, pos, framed, ins, made>>

\* Gone wrong: it is relative after ORG, END and PIN too.
DistanceAlways(m, ref, w) == Shown(IF ref.kind = "label" THEN ref.v - m.line ELSE ref.v)

\* A label seen before is relative to this instruction, absolute after ORG,
\* END and PIN.
Distance(m, ref, w) == Shown(IF ref.kind = "label" /\ w # SPSE THEN ref.v - m.line ELSE ref.v)

Value ==
  /\ Naming /\ K # 0 /\ ~IsText(K) /\ Top.w > SLBL
  /\ Copy(J.m, Distance(asm, asm.refs[K], Top.w), J.rest, Top.w)

DoubleLabel ==
  /\ Naming /\ K # 0 /\ ~IsText(K) /\ Top.w <= SLBL /\ UNCHANGED dest
  /\ Return(Err(J.m, "Idn"), SERR)

Declare ==
  /\ Naming /\ K = 0 /\ Top.w <= SLBL /\ UNCHANGED dest
  /\ Again(IF Len(asm.symtbl) < GrpMax THEN [J.m EXCEPT !.symtbl = Append(@, J.name)]
           ELSE Err(J.m, "Grp"),
           IF KindAt(J.rest, 1) = ":" THEN Tail(J.rest) ELSE J.rest, SLBL)

\* A label not seen yet, or a register, is left to pass 2.
Unknown == Naming /\ K = 0 /\ Top.w > SLBL /\ Copy(J.m, <<Name(J.name)>>, J.rest, Top.w)

-----------------------------------------------------------------------------
\* FOR: blkfor.

\* The last label is the counter, the others name the next instruction.
For ==
  /\ Live /\ Tok = "FOR" /\ Top.w <= SLBL /\ dest' = << >>
  /\ LET labels == asm.symtbl
         m == IF labels = << >> THEN Entered
              ELSE [Labelled([Entered EXCEPT !.symtbl = Front(labels)])
                      EXCEPT !.symtbl = << >>]
     IN Await(m, [Top EXCEPT !.pc = "for",
                             !.names = IF labels = << >> THEN {} ELSE {Last(labels)}],
              Rest, SVAL)

ForCount ==
  /\ Resuming("for")
  /\ \E r \in {Eval1(dest)} :
     LET m == Overflown(Evaluated(asm, r), r)
         p == PushRef(m, Top.names, "stack", 1, TRUE)
     IN \/ Failed(r) /\ Return(Err(m, EvalError(r)), SFOR)
        \/ ~Failed(r) /\ r.v <= 0 /\ Return([m EXCEPT !.statefine = @ + 1], SFOR)
        \/ /\ ~Failed(r) /\ r.v > 0
           /\ Become(p, [Top EXCEPT !.pc = "round", !.ref = Len(p.refs), !.aline = asm.aline,
                                    !.n = 1, !.limit = r.v % Wide])
  /\ UNCHANGED <<phase, source, pos, framed, ins, dest, made>>

ForRound ==
  /\ Calling("round")
  /\ IF asm.vcont /\ Top.n <= Top.limit /\ asm.aline # NoLine
     THEN Become([asm EXCEPT !.refs[Top.ref].v = Top.n, !.aline = Top.aline],
                 [Top EXCEPT !.pc = "body"])
     ELSE Return(PopCounter(asm), SFOR)
  /\ UNCHANGED <<phase, source, pos, framed, ins, dest, made>>

EndRound(m) ==
  Become(IF Len(m.out) > MaxOut THEN [Err(m, "Exx") EXCEPT !.vcont = FALSE] ELSE m,
         [Top EXCEPT !.pc = "round", !.n = @ + 1])

ForLine ==
  /\ Calling("body")
  /\ LET next == NextLine(asm)
         m    == ExpandOne(asm)
     IN \/ ~asm.vcont /\ EndRound(asm) /\ UNCHANGED dest
        \/ /\ asm.vcont /\ next = NoLine /\ UNCHANGED dest
           /\ EndRound([Err(asm, "Rof") EXCEPT !.vcont = FALSE])
        \/ asm.vcont /\ next # NoLine /\ m.halted /\ EndRound(m) /\ UNCHANGED dest
        \/ /\ asm.vcont /\ next # NoLine /\ ~m.halted /\ dest' = << >>
           /\ Await([m EXCEPT !.aline = next], Top, asm.lists[next[1]][next[2]].text, SNIL)
  /\ UNCHANGED <<phase, source, pos, framed, ins, made>>

ForLineDone ==
  /\ Resuming("body")
  /\ CASE ret = SROF -> EndRound(asm)
       [] ret = SCOM -> Become(AddLine(asm, dest), Top)
       [] OTHER      -> Become(asm, Top)
  /\ UNCHANGED <<phase, source, pos, framed, ins, dest, made>>

-----------------------------------------------------------------------------
\* expand: one line of the source after the other.

ExpandLine ==
  /\ phase = "expand" /\ stack = << >> /\ ret = Running
  /\ asm.aline # NoLine /\ asm.vcont
  /\ dest' = << >>
  /\ stack' = <<Frame("trav2", CurLine(asm).text, SNIL, "Op", asm.depth)>>
  /\ UNCHANGED <<phase, source, pos, framed, asm, ins, ret, made>>

ExpandedLine ==
  /\ phase = "expand" /\ stack = << >> /\ ret # Running
  /\ LET m == CASE ret = SCOM -> AddLine(asm, dest)
                [] ret = SROF -> Err(asm, "For")
                [] OTHER      -> asm
     IN asm' = [m EXCEPT !.aline = NextLine(m)]
  /\ ret' = Running
  /\ UNCHANGED <<phase, source, pos, framed, ins, dest, stack, made>>

\* Gone wrong: the warrior may be as long as a program.
CountedLong(m) ==
  LET dropped == IF m.symtbl = << >> THEN m ELSE ErrAt([m EXCEPT !.symtbl = << >>], "Dlb", 0)
      checked == IF m.noassert THEN ErrAt(dropped, "Nas", 0) ELSE dropped
  IN CASE m.line > MaxInstr -> ErrAt(checked, "Exx", 0)
       [] m.line = 0        -> ErrAt(checked, "Zln", 0)
       [] OTHER -> [checked EXCEPT !.line = 0, !.out = << >>, !.lists = Append(@, m.out),
                                   !.aline = <<Len(m.lists) + 1, 0>>]

\* run after expand, and encode up to its loop.
Counted(m) ==
  LET dropped == IF m.symtbl = << >> THEN m ELSE ErrAt([m EXCEPT !.symtbl = << >>], "Dlb", 0)
      checked == IF m.noassert THEN ErrAt(dropped, "Nas", 0) ELSE dropped
      limited == IF m.line > MaxLength THEN ErrAt(checked, "Lin", 0) ELSE checked
  IN CASE m.line > MaxInstr -> ErrAt(checked, "Exx", 0)
       [] m.line = 0        -> ErrAt(limited, "Zln", 0)
       [] OTHER -> [limited EXCEPT !.line = 0, !.out = << >>, !.lists = Append(@, m.out),
                                   !.aline = <<Len(m.lists) + 1, 0>>]

\* Gone wrong: the loop goes on to the end of the source, although END and
\* the limits have stopped its lines.
ExpandDoneLate ==
  /\ phase = "expand" /\ stack = << >> /\ ret = Running /\ asm.aline = NoLine
  /\ phase' = IF asm.line \in 1 .. MaxInstr THEN "encode" ELSE "done"
  /\ asm' = Counted(asm)
  /\ made' = [made EXCEPT !.count = asm.line]
  /\ UNCHANGED <<source, pos, framed, ins, dest, stack, ret>>

ExpandDone ==
  /\ phase = "expand" /\ stack = << >> /\ ret = Running
  /\ asm.aline = NoLine \/ ~asm.vcont
  /\ phase' = IF asm.line \in 1 .. MaxInstr THEN "encode" ELSE "done"
  /\ asm' = Counted(asm)
  /\ made' = [made EXCEPT !.count = asm.line]
  /\ UNCHANGED <<source, pos, framed, ins, dest, stack, ret>>

-----------------------------------------------------------------------------
\* Pass 2: the line automaton.  Top.st is the state a call is made in.

Starts    == {"ModAddrExp", "AddrExpA", "AddrExpB"}
Collects  == {"ExpFs", "Expr"}

\* The state in which the expression of an operand is collected.
Collecting(st) == IF st = "AddrExpB" THEN "Expr" ELSE "ExpFs"

\* ins on entering the call.
Here == [ins EXCEPT !.last = Top.st, !.filled = @ /\ Top.st \in Collects]

Automaton(states) ==
  /\ phase = "encode" /\ Calling("automaton") /\ asm.depth < MaxDepth /\ Top.st \in states
  /\ UNCHANGED <<phase, source, pos, framed, dest, made>>

GoTo(st, i, buf) == ins' = i /\ Become(Entered, [Top EXCEPT !.buf = buf, !.st = st])
Stop(m) == ins' = Here /\ Return(m, SNIL)

AutoOver == Automaton(Starts \cup Collects \cup {"Modf"}) /\ Tok = "end" /\ Stop(Entered)

AutoOp ==
  /\ Automaton({"Op"})
  /\ \/ Tok \in Opcodes   /\ GoTo("ModAddrExp", [Here EXCEPT !.opcode = Tok], Rest)
     \/ Tok \in PseudoOps /\ GoTo("Expr", [Here EXCEPT !.opcode = Tok], Rest)
     \/ /\ Tok \notin Opcodes \cup PseudoOps /\ Return(Err(Entered, "Exp"), SNIL)
        /\ ins' = IF Tok \in Words THEN [Here EXCEPT !.opcode = "none"] ELSE Here

AutoModifier ==
  \/ Automaton({"ModAddrExp"}) /\ Tok = "." /\ GoTo("Modf", Here, Rest)
  \/ /\ Automaton({"Modf"}) /\ Tok # "end"
     /\ \/ \E mod \in Modifiers : /\ Top.buf[1] = Name(<<mod>>)
                                  /\ GoTo("AddrExpA", [Here EXCEPT !.modifier = mod], Rest)
        \/ (\A mod \in Modifiers : Top.buf[1] # Name(<<mod>>)) /\ Stop(Err(Entered, "Exp"))

\* The start of an operand: its mode, or what its expression starts with.
AutoStart ==
  /\ Automaton(Starts)
  /\ \/ /\ Tok \in DOMAIN ModeOf
        /\ GoTo(Collecting(Top.st),
                IF Top.st = "AddrExpB" THEN [Here EXCEPT !.bm = ModeOf[Tok]]
                ELSE [Here EXCEPT !.am = ModeOf[Tok]], Rest)
     \/ Tok \in ExprKinds /\ GoTo(Collecting(Top.st), Here, Top.buf)
     \/ /\ Tok \notin DOMAIN ModeOf \cup ExprKinds \cup Words \cup {"end"}
        /\ ~(Tok = "." /\ Top.st = "ModAddrExp")
        /\ Stop(Err(Entered, IF Top.st = "ModAddrExp" THEN "App" ELSE "Exp"))

\* More of the expression.  What does not fit is an error and left out.
Collected(m, t) ==
  LET fits == Fits(IF Top.st = "Expr" THEN ins.b ELSE ins.a, <<t>>)
  IN /\ Become(IF fits THEN m ELSE Err(m, "Buf"), [Top EXCEPT !.buf = Rest])
     /\ ins' = [Here EXCEPT !.filled = TRUE,
                  !.a = IF Top.st = "ExpFs" /\ fits THEN Append(@, t) ELSE @,
                  !.b = IF Top.st = "Expr"  /\ fits THEN Append(@, t) ELSE @]

AutoCollect ==
  /\ Automaton(Collects)
  /\ \/ Tok \in ExprKinds \cup {"<", ">", "*"} /\ Collected(Entered, Top.buf[1])
     \/ Tok = "," /\ Top.st = "ExpFs" /\ GoTo("AddrExpB", Here, Rest)
     \/ /\ Tok \notin ExprKinds \cup {"<", ">", "*"} \cup Words \cup {"end"}
        /\ ~(Tok = "," /\ Top.st = "ExpFs")
        /\ Stop(Err(Entered, "App"))

\* char_ref and char_expr: a symbol is replaced by the first line of its
\* text or its distance, read in the same state; the rest of the line is
\* read in the state that ends in.
Symbol == IF Tok = "name" THEN Lookup(asm, Top.buf[1].s) ELSE 0

AutoSymbol ==
  /\ Automaton(Starts \cup Collects) /\ Symbol # 0 /\ ins' = Here
  /\ LET ref  == asm.refs[Symbol]
         abs  == Top.st = "Expr" /\ ins.opcode \notin Opcodes
         text == IF ref.kind = "text" THEN asm.lists[ref.v][1].text
                 ELSE Shown(IF abs THEN ref.v ELSE ref.v - asm.line)
     IN IF ref.visit THEN Return(Err(Entered, "Rec"), SNIL)
        ELSE /\ asm' = [Entered EXCEPT !.refs[Symbol].visit = TRUE] /\ ret' = Running
             /\ stack' = <<Frame("automaton", text, SNIL, Top.st, asm.depth + 1),
                           [Top EXCEPT !.pc = "symbol", !.buf = Rest, !.ref = Symbol]>> \o Tail(stack)

SymbolDone ==
  /\ Resuming("symbol")
  /\ Become([asm EXCEPT !.refs[Top.ref].visit = FALSE],
            [Top EXCEPT !.pc = "automaton", !.st = IF @ = "Expr" THEN "Expr" ELSE ins.last])
  /\ UNCHANGED <<phase, source, pos, framed, ins, dest, made>>

\* A register, or a symbol that is nowhere.
AutoUnknown ==
  /\ Automaton(Starts \cup Collects) /\ Tok \in Words /\ Symbol = 0
  /\ LET register == Tok = "name" /\ Top.buf[1].s \in Registers
         side     == IF Top.st = "Expr" THEN ins.b ELSE ins.a
     IN \/ ~register /\ Stop(Err(Entered, "Snf"))
        \/ register /\ Top.st \in Starts /\ GoTo(Collecting(Top.st), Here, Top.buf)
        \/ register /\ Top.st \in Collects /\ Fits(side, <<Top.buf[1]>>)
           /\ Collected(Entered, Top.buf[1])
        \/ register /\ Top.st \in Collects /\ ~Fits(side, <<Top.buf[1]>>)
           /\ Stop(Err(Entered, "Buf"))

-----------------------------------------------------------------------------
\* encode: one rewritten line after the other.

EncodeLine ==
  /\ phase = "encode" /\ stack = << >> /\ ret = Running /\ NextLine(asm) # NoLine
  /\ ins' = NewLine(ins)
  /\ asm' = [asm EXCEPT !.lineErr = FALSE, !.aline = NextLine(asm)]
  /\ stack' = <<Frame("automaton", CurLine(asm').text, SNIL, "Op", asm.depth)>>
  /\ UNCHANGED <<phase, source, pos, framed, dest, ret, made>>

OneOperand == {"DAT", "SPL", "JMP", "NOP"}

\* The end of dfashell: an instruction with one operand, or none.
Shelled(i) ==
  CASE i.opcode = "DAT" /\ i.b = << >> ->
         [i EXCEPT !.bm = i.am, !.b = i.a, !.am = "Immediate", !.a = <<Num(0)>>]
    [] i.opcode \in OneOperand \ {"DAT"} /\ i.b = << >> ->
         [i EXCEPT !.bm = "Direct", !.b = <<Num(0)>>]
    [] OTHER -> i

ShellErr(m, i) ==
  CASE i.opcode \in Opcodes /\ ~i.filled /\ ~m.lineErr -> Err(m, "Syn")
    [] i.opcode \in Opcodes \ OneOperand /\ (i.filled \/ m.lineErr) /\ i.b = << >> -> Err(m, "Nop")
    [] OTHER -> m

OrZero(e) == IF e = << >> THEN <<Num(0)>> ELSE e

default_modifier(op, am, bm) ==
  CASE op \in {"DAT", "NOP"} -> "F"
    [] op \in {"JMP", "JMZ", "JMN", "DJN", "SPL"} -> "B"
    [] op \in {"SLT", "LDP", "STP"} -> IF am = "Immediate" THEN "AB" ELSE "B"
    [] OTHER -> IF am = "Immediate" THEN "AB"
                ELSE IF bm = "Immediate" THEN "B"
                ELSE IF op \in {"MOV", "CMP", "SEQ", "SNE"} THEN "I" ELSE "F"

\* ORG, END and PIN, whose operand has the value r.
Directed(m, i, r) ==
  CASE Failed(r) -> asm' = Err(m, EvalError(r)) /\ made' = made
    [] ~Failed(r) /\ i.opcode = "ORG" -> asm' = m /\ made' = [made EXCEPT !.offset = r.v % CoreSize]
    [] ~Failed(r) /\ i.opcode = "PIN" -> asm' = m /\ made' = [made EXCEPT !.pin = r.v]
    [] ~Failed(r) /\ i.opcode \notin {"ORG", "PIN"} ->
         /\ asm'  = IF r.v # 0 /\ made.offset # 0 THEN Err(m, "Doe") ELSE m
         /\ made' = IF r.v # 0 /\ made.offset = 0 THEN [made EXCEPT !.offset = r.v % CoreSize]
                    ELSE made

\* Gone wrong: a field is not reduced to the core.
EncodedRaw(m, i, ra, rb) ==
  IF Failed(ra) \/ Failed(rb)
  THEN asm' = Err(m, EvalError(IF Failed(ra) THEN ra ELSE rb)) /\ made' = made
  ELSE /\ asm' = [m EXCEPT !.line = @ + 1]
       /\ made' = [made EXCEPT !.code = Append(@,
            [op |-> i.opcode, am |-> i.am, a |-> ra.v, bm |-> i.bm, b |-> rb.v % CoreSize,
             mod |-> IF i.modifier # "none" THEN i.modifier
                     ELSE default_modifier(i.opcode, i.am, i.bm)])]

\* An instruction, whose fields have the values ra and rb.
Encoded(m, i, ra, rb) ==
  IF Failed(ra) \/ Failed(rb)
  THEN asm' = Err(m, EvalError(IF Failed(ra) THEN ra ELSE rb)) /\ made' = made
  ELSE /\ asm' = [(IF "overflow" \in {ra.err, rb.err} THEN Err(m, "Ofl") ELSE m)
                    EXCEPT !.line = @ + 1]
       /\ made' = [made EXCEPT !.code = Append(@,
            [op |-> i.opcode, am |-> i.am, a |-> ra.v % CoreSize, bm |-> i.bm, b |-> rb.v % CoreSize,
             mod |-> IF i.modifier # "none" THEN i.modifier
                     ELSE default_modifier(i.opcode, i.am, i.bm)])]

\* Once there is an error, no field is evaluated.
EncodedLine ==
  /\ phase = "encode" /\ stack = << >> /\ ret # Running
  /\ LET i  == IF ins.filled \/ asm.lineErr THEN Shelled(ins) ELSE ins
         m  == ShellErr(asm, ins)
     IN /\ ins' = i
        /\ \/ Erred(m) /\ asm' = m /\ made' = made
           \/ /\ ~Erred(m) /\ i.opcode \in PseudoOps
              /\ \E r \in {Eval1(OrZero(i.b))} : Directed(Overflown(Evaluated(m, r), r), i, r)
           \/ /\ ~Erred(m) /\ i.opcode \notin PseudoOps
              /\ \E ra \in {Eval1(OrZero(i.a))} :
                 \E rb \in {eval_expr(OrZero(i.b), ra.regs, ra.save)} :
                   Encoded(Evaluated(m, IF Failed(ra) THEN ra ELSE rb), i, ra, rb)
  /\ ret' = Running
  /\ UNCHANGED <<phase, source, pos, framed, dest, stack>>

EncodeDone ==
  /\ phase = "encode" /\ stack = << >> /\ ret = Running /\ NextLine(asm) = NoLine
  /\ phase' = "done"
  /\ asm' = IF made.offset >= made.count THEN ErrAt(asm, "Ofs", 0) ELSE asm
  /\ UNCHANGED <<source, pos, framed, ins, dest, stack, ret, made>>

-----------------------------------------------------------------------------
Read   == ReadLine \/ ReadDone
Pass1  == \/ ExpandLine \/ ExpandedLine \/ ExpandDone
          \/ LineOver \/ Comment \/ Asserted \/ Skip \/ Misplaced \/ Rof \/ Curline \/ Operator
          \/ Opcode \/ OpcodeDone \/ Equ \/ Substitute \/ EquLine
          \/ Value \/ DoubleLabel \/ Declare \/ Unknown
          \/ For \/ ForCount \/ ForRound \/ ForLine \/ ForLineDone
Pass2  == \/ EncodeLine \/ EncodedLine \/ EncodeDone
          \/ AutoOver \/ AutoOp \/ AutoModifier \/ AutoStart \/ AutoCollect
          \/ AutoSymbol \/ SymbolDone \/ AutoUnknown

Next == Read \/ Pass1 \/ Pass2 \/ TooDeep

\* The assembler is one thread that goes on as long as it can.
Spec == Init /\ [][Next]_vars /\ WF_vars(Next)

\* assemble_full: a warrior if nothing but warnings was reported.
Accepted == phase = "done" /\ ~Erred(asm)
Result   == [code |-> made.code, start |-> made.offset, pin |-> made.pin]

-----------------------------------------------------------------------------
Line    == [text: Seq(Token), loc: Nat]
Ref     == [names: SUBSET Seq(Part), kind: {"text", "stack", "label"}, v: Nat, visit: BOOLEAN]
Diag    == [e: Errors, line: Nat]
Place   == Nat \X Nat
Returns == SERR .. SROF
States  == Starts \cup Collects \cup {"Op", "Modf"}

AsmType ==
  [lists: Seq(Seq(Line)), refs: Seq(Ref), counters: Seq(Nat), symtbl: Seq(Seq(Part)),
   statefine: Nat, depth: Nat, expanded: Nat, halted: BOOLEAN, line: Nat, vcont: BOOLEAN,
   aline: Place, out: Seq(Line), diags: Seq(Diag), lineErr: BOOLEAN,
   noassert: BOOLEAN, save: Kinds \cup {"none"}, regs: [Registers -> Int]]
InsType ==
  [opcode: Opcodes \cup PseudoOps \cup {"none"}, modifier: Modifiers \cup {"none"},
   filled: BOOLEAN, last: States, a: Seq(Token), b: Seq(Token), am: Modes, bm: Modes]
FrameType ==
  [pc: {"trav2", "assert", "opcode", "equ", "for", "round", "body", "automaton", "symbol"},
   buf: Seq(Token), w: Returns, st: States, base: Nat, ref: Nat, aline: Place,
   n: Nat, limit: Nat, names: SUBSET Seq(Part)]
MadeType == [code: Seq(Instruction), offset: Addr, pin: Pins \cup {NoPin}, count: Nat]

\* What the evaluator returns: a number, which a PIN may be given, and what it
\* leaves in the registers and in save_oper.
Valued(r) == /\ r.v \in Int /\ r.v \in Pins /\ r.regs \in [Registers -> Int]
             /\ r.save \in Kinds \cup {"none"}

\* The fields have their types.
TypeOK ==
  /\ phase \in {"read", "expand", "encode", "done"} /\ pos \in Nat /\ framed \in BOOLEAN
  /\ asm \in AsmType /\ ins \in InsType
  /\ dest \in Seq(Token) /\ ret \in Returns \cup {Running} /\ stack \in Seq(FrameType)
  /\ made \in MadeType

\* The active calls of the given kinds.
Waiting(pcs) == {f \in DOMAIN stack : stack[f].pc \in pcs}

\* The bookkeeping of the recursion agrees with the calls there are, however
\* they end, by a limit as well: a symbol is marked as being replaced if and
\* only if one call is replacing it, the live FOR counters are those of the
\* blocks that are running, the innermost last, and with no call active none
\* is counted.
CallsUnwind ==
  LET replacing == Waiting({"equ", "symbol"})
      running   == Waiting({"round", "body"})
  IN /\ \A f, g \in replacing : stack[f].ref = stack[g].ref => f = g
     /\ {r \in DOMAIN asm.refs : asm.refs[r].visit /\ asm.refs[r].kind # "stack"}
          = {stack[f].ref : f \in replacing}
     /\ ToSet(asm.counters) = {stack[f].ref : f \in running}
     /\ \A f, g \in running : f < g => stack[f].ref > stack[g].ref
     /\ \A c, d \in DOMAIN asm.counters : c < d => asm.counters[c] < asm.counters[d]
     /\ stack = << >> => asm.depth = 0
     /\ \A f \in DOMAIN stack : stack[f].base <= asm.depth

\* Where a limit is reported.
Limits == {d \in DOMAIN asm.diags : asm.diags[d].e \in {"Deep", "Work"}}

\* Neither limit is passed by more than the step that meets it, one that is
\* met is reported once, and then there is no warrior.
LimitsKept ==
  /\ asm.depth <= MaxDepth /\ asm.expanded <= MaxExpansion + 1
  /\ asm.halted <=> Limits # {}
  /\ \A d, f \in Limits : d = f
  /\ asm.expanded > MaxExpansion => asm.halted
  /\ asm.halted => ~Accepted

\* What the assembler accepts is a warrior the engines take: the instructions
\* counted are no more than allowed, the fields are in the core, and it starts
\* at a counted instruction unless a warning says not. (That the code is the
\* instructions counted is not so for every source: MCAssembler's EquIsTextual.)
AcceptedFits ==
  Accepted =>
    /\ made.count <= MaxLength /\ Result \in Warrior
    /\ \/ Result.start < made.count
       \/ \E d \in DOMAIN asm.diags : asm.diags[d].e \in {"Ofs", "Zln"}

\* Every source is answered, whatever it is nested in and however often its
\* blocks run.
Answers == <>(phase = "done")
=============================================================================
