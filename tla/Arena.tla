------------------------------- MODULE Arena -------------------------------
(***************************************************************************)
(* Warriors and matches for checking the engines: a handful of programs    *)
(* that between them use every opcode, P-space with and without a shared   *)
(* PIN, full process queues and division by zero; and one-instruction      *)
(* experiments over opcodes, modifiers and modes.                          *)
(***************************************************************************)
EXTENDS Redcode

CONSTANTS p1, p2  \* two PINs

Ins(op, mod, am, a, bm, b) ==
  [op |-> op, mod |-> mod, am |-> am, a |-> a % CoreSize, bm |-> bm, b |-> b % CoreSize]

Make(code, pin) == [code |-> code, start |-> 0, pin |-> pin]

Imp == Make(<< Ins("MOV", "I", "Direct", 0, "Direct", 1) >>, NoPin)

Dwarf == Make(<< Ins("ADD", "AB", "Immediate", 4, "Direct", 3),
                 Ins("MOV", "I", "Direct", 2, "BIndirect", 2),
                 Ins("JMP", "B", "Direct", -2, "Direct", 0),
                 Ins("DAT", "F", "Immediate", 0, "Immediate", 0) >>, NoPin)

\* Fills its queue, then keeps splitting at the limit.
Splitter == Make(<< Ins("SPL", "B", "Direct", 0, "BPredec", -3),
                    Ins("DJN", "F", "Direct", -1, "APredec", -5) >>, NoPin)

\* Dies on its sixth instruction.
Timer == Make(<< Ins("NOP", "F", "Direct", 0, "APostinc", 4),
                 Ins("NOP", "F", "Direct", 0, "Direct", 0),
                 Ins("DJN", "B", "Direct", -1, "Immediate", 2) >>, NoPin)

\* Learns: reads its last result, remembers it in P-space cell 1, and dies
\* on what another round, or its P-space partner, left there.
Learner(pin) ==
  [Make(<< Ins("LDP", "AB", "Immediate", 1, "Direct", 3),
           Ins("STP", "AB", "Immediate", 5, "Immediate", 1),
           Ins("JMN", "B", "Direct", 2, "Direct", 1),
           Ins("JMP", "B", "Direct", -2, "Direct", 0) >>, pin) EXCEPT !.start = 0]

\* Lives in the first round of a match, and dies in every other.
Debutant == Make(<< Ins("LDP", "AB", "Immediate", 0, "Direct", 3),
                    Ins("SNE", "AB", "Immediate", -1, "Direct", 2),
                    Ins("JMP", "B", "Direct", 0, "Direct", 0),
                    Ins("DAT", "F", "Immediate", 0, "Immediate", 0) >>, NoPin)

\* Overwrites its own result cell and its memory.
Forger(pin) == Make(<< Ins("STP", "AB", "Immediate", 7, "Immediate", 2),
                       Ins("STP", "BA", "Immediate", 3, "Immediate", 3),
                       Ins("SLT", "AB", "Immediate", 2, "BPostinc", 4),
                       Ins("JMZ", "F", "Direct", -3, "Direct", 1) >>, pin)

\* Divides, by zero in one half first.
Divider == [Make(<< Ins("DIV", "F", "Direct", 2, "Direct", 4),
                    Ins("MOD", "X", "AIndirect", 1, "BPostinc", 1),
                    Ins("DAT", "F", "Immediate", 0, "Immediate", 2),
                    Ins("SPL", "B", "Direct", -3, "Direct", 0) >>, NoPin) EXCEPT !.start = 3]

Teams == { <<Imp, Imp>>, <<Imp, Dwarf>>, <<Dwarf, Splitter>>,
           <<Splitter, Divider>>, <<Debutant, Dwarf>>, <<Divider, Debutant>>, <<Timer, Imp>>,
           <<Learner(p1), Learner(p1)>>, <<Learner(p1), Forger(p2)>>,
           <<Forger(p1), Learner(p1)>>, <<Learner(NoPin), Forger(NoPin)>> }

Job(a, b, s) == [team |-> [w \in {0, 1} |-> IF w = 0 THEN a ELSE b], seed |-> s]

\* One negative seed, the generator's fixed point, and one whose quotient by
\* 127773 is not zero.
Matches == { Job(t[1], t[2], s) : t \in Teams, s \in {-5, 0, 127780} }

\* An instruction followed by two cells it can use, one of them executable.
Experiment(ins) ==
  Make(<< ins, Ins("SEQ", "X", "APredec", 1, "BPostinc", 2),
               Ins("DAT", "F", "Immediate", 0, "Direct", 3) >>, p1)

\* Every opcode and modifier, over the modes that move something, the two
\* operands on one cell or on two; every pair of modes for three opcodes
\* that tell snapshots from cells.
Experiments ==
  LET ModePairs == {<<"APredec", "APostinc">>, <<"BPostinc", "BPredec">>,
                    <<"Immediate", "AIndirect">>, <<"BIndirect", "Direct">>}
      Fields == {<<1, 1>>, <<2, 1>>}
      Ops == { Ins(o, m, p[1], f[1], p[2], f[2]) :
                 o \in Opcodes, m \in Modifiers, p \in ModePairs, f \in Fields }
      Operands == { Ins(om[1], om[2], am, f[1], bm, f[2]) :
                      om \in {<<"MOV", "I">>, <<"DJN", "F">>, <<"SNE", "I">>},
                      am \in Modes, bm \in Modes, f \in Fields }
  IN { Job(Experiment(i), Forger(p1), 7) : i \in Ops \cup Operands }
=============================================================================
