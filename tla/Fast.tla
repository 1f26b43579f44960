-------------------------------- MODULE Fast --------------------------------
(***************************************************************************)
(* The fast engine, fast.rs: the machine of Mars in another layout.  Cells *)
(* are encoded, opcode and modifier in one byte; each process queue is a   *)
(* ring buffer of a power of two of slots with a head and a length; P-space *)
(* always has two banks; the loop of a round is unrolled by pairs and      *)
(* counts its budget down before each instruction.  The promise, "the same *)
(* semantics as Mars", is the refinement FastIsMars at the end.            *)
(*                                                                         *)
(* A modifier is the set of <<target half, source half>> pairs its match   *)
(* arm handles.  Every number stored is below 65536 (MCFast checks it), so *)
(* the casts to u16 do not cut and are left out.                           *)
(***************************************************************************)
EXTENDS Redcode, Rng, SequencesExt

CONSTANTS
  MaxProcesses, MaxCycles, MinDistance, Rounds, Jobs, NoJob, MaxMatches

W == {0, 1}

\* As of Mars; and fewer processes than a ring of 2^30 slots holds, where
\* Config::check allows twice that.
ASSUME FastAssumption ==
  /\ MaxProcesses \in Nat \ {0} /\ MaxProcesses < 1073741824
  /\ MaxCycles \in Nat \ {0}
  /\ MinDistance \in Nat /\ MinDistance >= MaxLength
  /\ CoreSize >= 2 * MinDistance
  /\ Rounds \in Nat /\ NoJob \notin Jobs
  /\ MaxMatches \in Nat
  /\ Jobs \subseteq [team: [W -> Warrior], seed: I32]
  /\ \A j \in Jobs : \A w \in W : Len(j.team[w].code) <= MaxLength

VARIABLES
  core,        \* Engine.core, encoded cells
  qbuf,        \* ring buffers of process addresses, one per warrior
  head, len,   \* Run.head, Run.len
  pspace, bank, lastResult,
  job, seed, round, pos, score,
  turn,        \* which half of the unrolled pair comes next
  budget,      \* run's `steps`: instructions left to start
  outcome, phase, ledger

queue == <<qbuf, head, len>>
memory == <<pspace, bank, lastResult>>
match == <<job, seed, round, pos, score>>
vars == <<core, queue, memory, match, turn, budget, outcome, phase, ledger>>

-----------------------------------------------------------------------------
\* Encoding.

O == [DAT |-> 0, MOV |-> 1, ADD |-> 2, SUB |-> 3, MUL |-> 4, DIV |-> 5, MOD |-> 6,
      JMP |-> 7, JMZ |-> 8, JMN |-> 9, DJN |-> 10, SPL |-> 11, SLT |-> 12, CMP |-> 13,
      SEQ |-> 14, SNE |-> 15, NOP |-> 16, LDP |-> 17, STP |-> 18]
M == [F |-> 0, A |-> 1, B |-> 2, AB |-> 3, BA |-> 4, X |-> 5, I |-> 6]
Enc == [Direct |-> 0, Immediate |-> 1, AIndirect |-> 2, BIndirect |-> 3,
        APredec |-> 4, BPredec |-> 5, APostinc |-> 6, BPostinc |-> 7]

Encode(i) == [a |-> i.a, b |-> i.b, opm |-> O[i.op] * 8 + M[i.mod],
              am |-> Enc[i.am], bm |-> Enc[i.bm]]

\* The tables of decode, indexed from 1 here.
OpTable == << "DAT", "MOV", "ADD", "SUB", "MUL", "DIV", "MOD", "JMP", "JMZ", "JMN",
              "DJN", "SPL", "SLT", "CMP", "SEQ", "SNE", "NOP", "LDP", "STP" >>
ModTable == << "F", "A", "B", "AB", "BA", "X", "I" >>
ModeTable == << "Direct", "Immediate", "AIndirect", "BIndirect",
                "APredec", "BPredec", "APostinc", "BPostinc" >>

Decode(c) == [op |-> OpTable[(c.opm \div 8) + 1], mod |-> ModTable[(c.opm % 8) + 1],
              am |-> ModeTable[c.am + 1], a |-> c.a,
              bm |-> ModeTable[c.bm + 1], b |-> c.b]

\* Cell::default, what clearing the core to zeroes leaves.
Zeroes == [a |-> 0, b |-> 0, opm |-> 0, am |-> 0, bm |-> 0]

\* Compiled::new
Compiled(w) == [code |-> [k \in 1 .. Len(w.code) |-> Encode(w.code[k])],
                start |-> w.start, pin |-> w.pin]

-----------------------------------------------------------------------------
\* Ring buffers: slots, a power of two, make `& mask` a remainder.

PowersOfTwo ==
  {1, 2, 4, 8, 16, 32, 64, 128, 256, 512, 1024, 2048, 4096,
   8192, 16384, 32768, 65536, 131072, 262144, 524288, 1048576, 2097152,
   4194304, 8388608, 16777216, 33554432, 67108864, 134217728, 268435456,
   536870912, 1073741824}

\* next_power_of_two
Slots == CHOOSE n \in PowersOfTwo : n >= MaxProcesses + 1 /\ n < 2 * (MaxProcesses + 1)

Push(q, v) == [q EXCEPT !.buf[(q.head + q.len) % Slots] = v, !.len = @ + 1]

\* Gone wrong: the head runs off its buffer.
PopUnmasked(q) == [q EXCEPT !.head = @ + 1, !.len = @ - 1]

Pop(q) == [q EXCEPT !.head = (@ + 1) % Slots, !.len = @ - 1]
Queue(w) == [buf |-> qbuf[w], head |-> head[w], len |-> len[w]]

Fold(x) == IF x >= CoreSize THEN x - CoreSize ELSE x
Dec(x) == IF x = 0 THEN CoreSize - 1 ELSE x - 1
Postinc(x) == IF x + 1 = CoreSize THEN 0 ELSE x + 1

\* (offset, address, numbers) of an operand, and the core it leaves.  p is the
\* cell the field names, c1 the core after the predecrement.
NumbersOf(c) == [a |-> c.a, b |-> c.b]

Predecrement(c, p, mode) ==
  CASE mode = Enc.APredec -> [c EXCEPT ![p].a = Dec(@)]
    [] mode = Enc.BPredec -> [c EXCEPT ![p].b = Dec(@)]
    [] OTHER              -> c

Postincrement(c, p, mode) ==
  CASE mode = Enc.APostinc -> [c EXCEPT ![p].a = Postinc(@)]
    [] mode = Enc.BPostinc -> [c EXCEPT ![p].b = Postinc(@)]
    [] OTHER               -> c

Through(c1, pc, p, mode, ptr) ==
  [ptr  |-> ptr,
   at   |-> Fold(pc + ptr),
   num  |-> NumbersOf(c1[Fold(pc + ptr)]),
   core |-> Postincrement(c1, p, mode)]

Pointer(c1, p, mode, field) ==
  Fold(field + IF mode \in {Enc.APredec, Enc.AIndirect, Enc.APostinc}
               THEN c1[p].a ELSE c1[p].b)

Indirect(c1, pc, p, mode, field) == Through(c1, pc, p, mode, Pointer(c1, p, mode, field))

Operand(c, pc, ir, mode, field) ==
  CASE mode = Enc.Immediate -> [ptr |-> 0, at |-> pc, num |-> NumbersOf(ir), core |-> c]
    [] mode = Enc.Direct    -> Through(c, pc, Fold(pc + field), mode, field)
    [] OTHER                -> LET p == Fold(pc + field)
                               IN Indirect(Predecrement(c, p, mode), pc, p, mode, field)

Snapshot(q, pc, ir, A, B) ==
  [q |-> q, op |-> ir.opm \div 8, m |-> ir.opm % 8,
   src |-> A.at, x |-> A.num, y |-> B.num, t |-> Fold(pc + B.ptr), core |-> B.core,
   next |-> Fold(pc + 1), jump |-> Fold(pc + A.ptr), skip |-> Fold(pc + 2)]

\* pop, fetch and the operands: the head of step and exec.  q is the queue
\* without the process taken.
Fetched ==
  LET pc == qbuf[turn][head[turn]]
      ir == core[pc]
      A  == Operand(core, pc, ir, ir.am, ir.a)
      B  == Operand(A.core, pc, ir, ir.bm, ir.b)
  IN Snapshot(Pop(Queue(turn)), pc, ir, A, B)

\* The halves an arm writes or compares, each with its source half.
Pairs(m) == CASE m = M.A  -> {<<"a", "a">>}
              [] m = M.B  -> {<<"b", "b">>}
              [] m = M.AB -> {<<"b", "a">>}
              [] m = M.BA -> {<<"a", "b">>}
              [] m = M.X  -> {<<"a", "b">>, <<"b", "a">>}
              [] OTHER    -> {<<"a", "a">>, <<"b", "b">>}

\* Cell c with the target half of each pair in v set to the pair's value.
SetPairs(c, v) ==
  [h \in DOMAIN c |-> IF \E p \in DOMAIN v : p[1] = h
                      THEN v[CHOOSE p \in DOMAIN v : p[1] = h]
                      ELSE c[h]]

\* Gone wrong: BA taken for AB.
TestedAsSource(m) == IF m \in {M.A, M.AB} THEN {"a"}
                     ELSE IF m \in {M.B, M.BA} THEN {"b"} ELSE {"a", "b"}

\* The halves JMZ, JMN and DJN look at.
Tested(m) == IF m \in {M.A, M.BA} THEN {"a"}
             ELSE IF m \in {M.B, M.AB} THEN {"b"} ELSE {"a", "b"}

-----------------------------------------------------------------------------
\* One instruction: the budget is charged first, and an empty queue after it
\* ends the round for the other warrior.

Win(w) == IF w = 0 THEN "win0" ELSE "win1"

Executing(ops) ==
  /\ phase = "running" /\ outcome = "none" /\ budget > 0
  /\ core[qbuf[turn][head[turn]]].opm \div 8 \in ops

EndTurn(q) ==
  /\ qbuf' = [qbuf EXCEPT ![turn] = q.buf]
  /\ head' = [head EXCEPT ![turn] = q.head]
  /\ len' = [len EXCEPT ![turn] = q.len]
  /\ budget' = budget - 1
  /\ IF q.len # 0 THEN turn' = 1 - turn /\ UNCHANGED outcome
                  ELSE outcome' = Win(1 - turn) /\ UNCHANGED turn
  /\ UNCHANGED <<bank, match, phase, ledger>>

Store(F, cell) == core' = [F.core EXCEPT ![F.t] = cell]
KeepsPspace == UNCHANGED <<pspace, lastResult>>

Dat ==
  /\ Executing({O.DAT})
  /\ LET F == Fetched IN core' = F.core /\ EndTurn(F.q)
  /\ KeepsPspace

Nop ==
  /\ Executing({O.NOP})
  /\ LET F == Fetched IN core' = F.core /\ EndTurn(Push(F.q, F.next))
  /\ KeepsPspace

Mov ==
  /\ Executing({O.MOV})
  /\ LET F == Fetched
         taken == [p \in Pairs(F.m) |-> F.x[p[2]]]
     IN /\ IF F.m = M.I
           THEN Store(F, [F.core[F.src] EXCEPT !.a = F.x.a, !.b = F.x.b])
           ELSE Store(F, SetPairs(F.core[F.t], taken))
        /\ EndTurn(Push(F.q, F.next))
  /\ KeepsPspace

Arithmetic ==
  /\ Executing({O.ADD, O.SUB, O.MUL})
  /\ LET F == Fetched
         Result(h, s) == CASE F.op = O.ADD -> Fold(F.y[h] + F.x[s])
                           [] F.op = O.SUB -> Fold(F.y[h] + CoreSize - F.x[s])
                           [] F.op = O.MUL -> (F.y[h] * F.x[s]) % CoreSize
     IN /\ Store(F, SetPairs(F.core[F.t], [p \in Pairs(F.m) |-> Result(p[1], p[2])]))
        /\ EndTurn(Push(F.q, F.next))
  /\ KeepsPspace

Division ==
  /\ Executing({O.DIV, O.MOD})
  /\ LET F == Fetched
         Result(h, s) == IF F.op = O.DIV THEN F.y[h] \div F.x[s] ELSE F.y[h] % F.x[s]
         defined == {p \in Pairs(F.m) : F.x[p[2]] # 0}
     IN /\ Store(F, SetPairs(F.core[F.t], [p \in defined |-> Result(p[1], p[2])]))
        /\ EndTurn(IF defined = Pairs(F.m) THEN Push(F.q, F.next) ELSE F.q)
  /\ KeepsPspace

Jmp ==
  /\ Executing({O.JMP})
  /\ LET F == Fetched IN core' = F.core /\ EndTurn(Push(F.q, F.jump))
  /\ KeepsPspace

Jmz ==
  /\ Executing({O.JMZ})
  /\ LET F == Fetched
         z == \A h \in Tested(F.m) : F.y[h] = 0
     IN core' = F.core /\ EndTurn(Push(F.q, IF z THEN F.jump ELSE F.next))
  /\ KeepsPspace

Jmn ==
  /\ Executing({O.JMN})
  /\ LET F  == Fetched
         nz == \E h \in Tested(F.m) : F.y[h] # 0
     IN core' = F.core /\ EndTurn(Push(F.q, IF nz THEN F.jump ELSE F.next))
  /\ KeepsPspace

Djn ==
  /\ Executing({O.DJN})
  /\ LET F  == Fetched
         c  == F.core[F.t]
         nz == \E h \in Tested(F.m) : Dec(F.y[h]) # 0
     IN /\ Store(F, [h \in DOMAIN c |-> IF h \in Tested(F.m) THEN Dec(c[h]) ELSE c[h]])
        /\ EndTurn(Push(F.q, IF nz THEN F.jump ELSE F.next))
  /\ KeepsPspace

Spl ==
  /\ Executing({O.SPL})
  /\ LET F == Fetched
         q == Push(F.q, F.next)
     IN /\ core' = F.core
        /\ EndTurn(IF q.len < MaxProcesses THEN Push(q, F.jump) ELSE q)
  /\ KeepsPspace

Slt ==
  /\ Executing({O.SLT})
  /\ LET F  == Fetched
         lt == \A p \in Pairs(F.m) : F.x[p[2]] < F.y[p[1]]
     IN core' = F.core /\ EndTurn(Push(F.q, IF lt THEN F.skip ELSE F.next))
  /\ KeepsPspace

\* CMP.I, SEQ.I and SNE.I compare the opcode bytes, so a CMP cell and a SEQ
\* cell differ although they execute alike.
Compare ==
  /\ Executing({O.CMP, O.SEQ, O.SNE})
  /\ LET F  == Fetched
         u  == F.core[F.src]
         v  == F.core[F.t]
         eq == /\ \A p \in Pairs(F.m) : F.x[p[2]] = F.y[p[1]]
               /\ F.m = M.I => u.opm = v.opm /\ u.am = v.am /\ u.bm = v.bm
         take == IF F.op = O.SNE THEN ~eq ELSE eq
     IN core' = F.core /\ EndTurn(Push(F.q, IF take THEN F.skip ELSE F.next))
  /\ KeepsPspace

GetPspace(w, idx) == LET i == idx % PspaceSize
                     IN IF i = 0 THEN lastResult[w] ELSE pspace[bank[w]][i]

SetPspace(w, idx, v) ==
  LET i == idx % PspaceSize
  IN IF i = 0
     THEN lastResult' = [lastResult EXCEPT ![w] = v] /\ UNCHANGED pspace
     ELSE pspace' = [pspace EXCEPT ![bank[w]][i] = v] /\ UNCHANGED lastResult

Ldp ==
  /\ Executing({O.LDP})
  /\ LET F == Fetched
         v == GetPspace(turn, IF F.m \in {M.A, M.AB} THEN F.x.a ELSE F.x.b)
         c == F.core[F.t]
     IN /\ Store(F, IF F.m \in {M.A, M.BA} THEN [c EXCEPT !.a = v] ELSE [c EXCEPT !.b = v])
        /\ EndTurn(Push(F.q, F.next))
  /\ KeepsPspace

Stp ==
  /\ Executing({O.STP})
  /\ LET F == Fetched
     IN /\ core' = F.core
        /\ CASE F.m = M.A  -> SetPspace(turn, F.y.a, F.x.a)
             [] F.m = M.AB -> SetPspace(turn, F.y.b, F.x.a)
             [] F.m = M.BA -> SetPspace(turn, F.y.a, F.x.b)
             [] OTHER      -> SetPspace(turn, F.y.b, F.x.b)
        /\ EndTurn(Push(F.q, F.next))

Step == \/ Dat \/ Nop \/ Mov \/ Arithmetic \/ Division \/ Jmp \/ Jmz \/ Jmn \/ Djn
        \/ Spl \/ Slt \/ Compare \/ Ldp \/ Stp

-----------------------------------------------------------------------------
\* Matches and rounds.

NoScore == [w1 |-> 0, w2 |-> 0, ties |-> 0]
FreshBank == [i \in 0 .. PspaceSize - 1 |-> 0]

BeginMatch(j) ==
  /\ phase = "idle" /\ Len(ledger) < MaxMatches
  /\ bank' = [w \in W |-> IF /\ j.team[0].pin # NoPin
                             /\ j.team[0].pin = j.team[1].pin THEN 0 ELSE w]
  /\ pspace' = [b \in W |-> FreshBank]
  /\ lastResult' = [w \in W |-> CoreSize - 1]
  /\ job' = j /\ seed' = j.seed /\ round' = 0 /\ score' = NoScore
  /\ phase' = "ready"
  /\ UNCHANGED <<core, queue, pos, turn, budget, outcome, ledger>>

\* load walks each warrior's code around the ring from its position.
Laid(l, cell) == [core |-> [l.core EXCEPT ![l.at] = cell],
                  at   |-> IF l.at + 1 = CoreSize THEN 0 ELSE l.at + 1]
Lay(c, code, at) == FoldLeft(Laid, [core |-> c, at |-> at], code).core

StartRound ==
  /\ phase = "ready" /\ round < Rounds
  /\ LET sep == MinDistance
         p   == sep + (seed % (CoreSize + 1 - 2 * sep))
         w0  == Compiled(job.team[0])
         w1  == Compiled(job.team[1])
     IN /\ pos' = p
        /\ core' = Lay(Lay([i \in Addr |-> Zeroes], w0.code, 0), w1.code, p)
        /\ qbuf' = [qbuf EXCEPT ![0][0] = w0.start % CoreSize,
                                ![1][0] = (p + w1.start) % CoreSize]
  /\ head' = [w \in W |-> 0] /\ len' = [w \in W |-> 1]
  /\ seed' = PmarsRng(seed)
  /\ turn' = round % 2 /\ budget' = 2 * MaxCycles /\ outcome' = "none"
  /\ round' = round + 1
  /\ phase' = "running"
  /\ UNCHANGED <<memory, job, score, ledger>>

TimeUp ==
  /\ phase = "running" /\ outcome = "none" /\ budget = 0
  /\ outcome' = "tie"
  /\ UNCHANGED <<core, queue, memory, match, turn, budget, phase, ledger>>

FinishRound ==
  /\ phase = "running" /\ outcome # "none"
  /\ lastResult' = IF outcome = "tie" THEN [w \in W |-> 2]
                   ELSE [w \in W |-> IF outcome = Win(w) THEN 1 ELSE 0]
  /\ score' = CASE outcome = "win0" -> [score EXCEPT !.w1 = @ + 1]
                [] outcome = "win1" -> [score EXCEPT !.w2 = @ + 1]
                [] outcome = "tie"  -> [score EXCEPT !.ties = @ + 1]
  /\ phase' = "ready"
  /\ UNCHANGED <<core, queue, pspace, bank, job, seed, round, pos, turn, budget,
                 outcome, ledger>>

FinishMatch ==
  /\ phase = "ready" /\ round = Rounds
  /\ ledger' = Append(ledger, [job |-> job, score |-> score])
  /\ phase' = "idle"
  /\ UNCHANGED <<core, queue, memory, match, turn, budget, outcome>>

\* Engine::new
Init ==
  /\ core = [i \in Addr |-> Zeroes]
  /\ qbuf = [w \in W |-> [i \in 0 .. Slots - 1 |-> 0]]
  /\ head = [w \in W |-> 0] /\ len = [w \in W |-> 0]
  /\ pspace = [b \in W |-> FreshBank] /\ bank = [w \in W |-> w]
  /\ lastResult = [w \in W |-> CoreSize - 1]
  /\ job = NoJob /\ seed = 0 /\ round = 0 /\ pos = 0 /\ score = NoScore
  /\ turn = 0 /\ budget = 0 /\ outcome = "none"
  /\ phase = "idle" /\ ledger = << >>

Next == \/ \E j \in Jobs : BeginMatch(j)
        \/ StartRound \/ Step \/ TimeUp \/ FinishRound \/ FinishMatch

Spec == Init /\ [][Next]_vars /\ WF_vars(StartRound \/ Step \/ TimeUp \/ FinishRound \/ FinishMatch)

-----------------------------------------------------------------------------
\* Properties.

MaxU16 == 65535

\* Ring indices stay inside their buffers, queues inside the process limit,
\* every stored number fits its u16 and every encoded byte its table.
TypeOK ==
  /\ \A i \in Addr : /\ core[i].a \in 0 .. MaxU16 /\ core[i].b \in 0 .. MaxU16
                     /\ core[i].opm \div 8 \in 0 .. 18 /\ core[i].opm % 8 \in 0 .. 6
                     /\ core[i].am \in 0 .. 7 /\ core[i].bm \in 0 .. 7
  /\ \A w \in W : /\ head[w] \in 0 .. Slots - 1
                  /\ len[w] \in 0 .. MaxProcesses
                  /\ qbuf[w] \in [0 .. Slots - 1 -> Addr]
  /\ bank \in [W -> W]
  /\ turn \in W
  /\ budget \in 0 .. 2 * MaxCycles

\* The machine of Mars that this engine's state stands for: decoded cells;
\* the live window of each ring, oldest first; the banks in use; and the
\* budget before the instruction that ended the round.  No round of this
\* engine has begun while pos is 0.
Decoded(c) == [i \in Addr |-> Decode(c[i])]
Live(q) == [k \in 1 .. q.len |-> q.buf[(q.head + k - 1) % Slots]]
Fatal == outcome \in {"win0", "win1"}

Cells == Decoded(core)
Processes == [w \in W |-> Live(Queue(w))]
Banks == [b \in {bank[w] : w \in W} |-> pspace[b]]
Left == IF Fatal THEN budget + 1 ELSE budget
Done == IF pos = 0 THEN 0 ELSE 2 * MaxCycles - budget

Reference ==
  INSTANCE Mars WITH
    core    <- Cells,
    queues  <- Processes,
    pspace  <- Banks,
    mover   <- turn,
    left    <- Left,
    done    <- Done,
    written <- {},
    Noting  <- FALSE

\* The fast engine has the semantics of Mars: every behaviour of it, seen
\* through the mapping, is one the reference engine can have, to the cell,
\* the process order, the P-space, the turns and the score.
FastIsMars == Reference!Init /\ [][Reference!Next]_Reference!vars
=============================================================================
