----------------------------- MODULE MarsProofs -----------------------------
(***************************************************************************)
(* Proofs about the reference engine, for every core size, process limit,  *)
(* budget, number of rounds and set of matches.                            *)
(***************************************************************************)
EXTENDS Mars, CommonProofs

-----------------------------------------------------------------------------
\* Numbers.

\* What the assumption on the constants says, as the proofs cite it.
LEMMA Constants ==
  /\ CoreSize \in Nat /\ CoreSize >= 2
  /\ MaxLength \in Nat /\ MaxLength >= 1
  /\ MinDistance \in Nat /\ MinDistance >= MaxLength
  /\ CoreSize >= 2 * MinDistance
  /\ MaxProcesses \in Nat /\ MaxProcesses >= 1
  /\ MaxCycles \in Nat /\ MaxCycles >= 1
BY CoreSizeAssumption, MaxLengthAssumption, MarsAssumption, SMT

\* A warrior is never placed closer than MinDistance to the other, on either
\* side, whatever the seed.
LEMMA PositionRange ==
  ASSUME NEW s \in I32
  PROVE  /\ Position(s) \in Addr
         /\ Position(s) \in MinDistance .. CoreSize - MinDistance
<1> DEFINE n == CoreSize + 1 - 2 * MinDistance
<1>1. /\ CoreSize \in Nat /\ MinDistance \in Nat /\ MinDistance >= 1
      /\ n \in Nat /\ n >= 1
  BY Constants
<1>2. s % n \in 0 .. n - 1
  BY <1>1, SMT DEF I32
<1> QED BY <1>1, <1>2 DEF Position, Addr

\* Folding keeps addresses on the ring.
LEMMA RingArithmetic ==
  ASSUME NEW x \in Addr, NEW y \in Addr
  PROVE  /\ Add(x, y) \in Addr /\ Add(x, 2) \in Addr
         /\ Inc(x) \in Addr /\ Dec(x) \in Addr
BY Constants DEF Addr, Add, Inc, Dec

\* P-space has at least one cell and an index always falls inside it.
LEMMA PspaceIndex ==
  /\ PspaceSize \in Nat \ {0}
  /\ \A idx \in Nat : idx % PspaceSize \in PCells
<1>1. PspaceDivisor \in 1 .. 16 /\ CoreSize % PspaceDivisor = 0
  <2>1. \E i \in 1 .. 16 : /\ CoreSize % i = 0
                           /\ \A j \in 1 .. 16 : CoreSize % j = 0 => j <= i
    BY Constants
  <2> QED BY <2>1 DEF PspaceDivisor
<1>2. PspaceSize \in Nat \ {0}
  BY <1>1, Constants DEF PspaceSize
<1> QED BY <1>2 DEF PCells

-----------------------------------------------------------------------------
\* What an instruction does to the core, whatever it is.

Core == [Addr -> Instruction]

\* A cell whose numbers are replaced by numbers of the ring is a cell.
LEMMA CellUpdate ==
  ASSUME NEW c \in Instruction, NEW x \in Addr, NEW y \in Addr
  PROVE  /\ [c EXCEPT !.a = x] \in Instruction
         /\ [c EXCEPT !.b = y] \in Instruction
         /\ [c EXCEPT !.a = x, !.b = y] \in Instruction
         /\ c.a \in Addr /\ c.b \in Addr
         /\ c.am \in Modes /\ c.bm \in Modes /\ c.mod \in Modifiers
BY DEF Instruction

\* Setting halves of an instruction to addresses leaves an instruction.
LEMMA SetHalvesType ==
  ASSUME NEW c \in Instruction, NEW x, NEW y, NEW setA \in BOOLEAN, NEW setB \in BOOLEAN,
         setA => x \in Addr, setB => y \in Addr
  PROVE  SetHalves(c, setA, x, setB, y) \in Instruction
BY DEF SetHalves, Instruction

\* A modifier's halves are such a choice of halves.
LEMMA SelectedType ==
  \A c \in Instruction, m \in Modifiers, x, y \in Addr :
    SetHalves(c, OnA(m), x, OnB(m), y) \in Instruction
<1> SUFFICES ASSUME NEW c \in Instruction, NEW m \in Modifiers, NEW x \in Addr, NEW y \in Addr
             PROVE  SetHalves(c, OnA(m), x, OnB(m), y) \in Instruction
  OBVIOUS
<1>1. OnA(m) \in BOOLEAN /\ OnB(m) \in BOOLEAN
  BY DEF OnA, OnB
<1> QED BY <1>1, SetHalvesType

\* Evaluating an operand leaves a core, finds a cell of it, and changes no
\* cell but the one it notes.
LEMMA OperandSound ==
  ASSUME NEW c \in Core, NEW pc \in Addr, NEW ir \in Instruction,
         NEW mode \in Modes, NEW field \in Addr
  PROVE  LET A == Operand(c, pc, ir, mode, field)
         IN /\ A.ptr \in Addr /\ A.at \in Addr
            /\ A.cell \in Instruction
            /\ A.core \in Core
            /\ A.wrote \subseteq Addr
            /\ \A i \in Addr : A.core[i] # c[i] => i \in A.wrote
<1>1. CASE mode = "Immediate"
  BY <1>1, Constants DEF Operand, Addr
<1>2. CASE mode # "Immediate"
  <2> DEFINE p   == Add(pc, field)
             pre == Predecrement(c, p, mode)
             ptr == IF mode = "Direct" THEN field
                    ELSE Add(field, IF ViaA(mode) THEN pre[p].a ELSE pre[p].b)
             at  == Add(pc, ptr)
             moves == mode \in {"APredec", "BPredec", "APostinc", "BPostinc"}
  <2>1. p \in Addr
    BY RingArithmetic
  <2>2. /\ pre \in Core
        /\ \A i \in Addr : pre[i] # c[i] => moves /\ i = p
    <3>1. /\ [c[p] EXCEPT !.a = Dec(@)] \in Instruction
          /\ [c[p] EXCEPT !.b = Dec(@)] \in Instruction
      BY <2>1, RingArithmetic DEF Core, Instruction
    <3> QED BY <2>1, <3>1 DEF Predecrement, Core
  <2>3. ptr \in Addr
    BY <2>1, <2>2, RingArithmetic, CellUpdate DEF Core
  <2>4. at \in Addr
    BY <2>3, RingArithmetic
  <2>5. /\ Postincrement(pre, p, mode) \in Core
        /\ \A i \in Addr : Postincrement(pre, p, mode)[i] # pre[i] => moves /\ i = p
    <3>1. /\ [pre[p] EXCEPT !.a = Inc(@)] \in Instruction
          /\ [pre[p] EXCEPT !.b = Inc(@)] \in Instruction
      BY <2>1, <2>2, RingArithmetic DEF Core, Instruction
    <3> QED BY <2>1, <2>2, <3>1 DEF Postincrement, Core
  <2>6. Operand(c, pc, ir, mode, field) =
          [ptr |-> ptr, at |-> at, cell |-> pre[at],
           core |-> Postincrement(pre, p, mode), wrote |-> IF moves THEN {p} ELSE {}]
    BY <1>2 DEF Operand, Through, Pointed
  <2> HIDE DEF p, pre, ptr, at, moves
  <2>7. pre[at] \in Instruction
    BY <2>2, <2>4 DEF Core
  <2> QED BY <2>1, <2>2, <2>3, <2>4, <2>5, <2>6, <2>7
<1> QED BY <1>1, <1>2

\* What the head of every instruction leaves for its body.
IsFetched(F) ==
  /\ F.ir \in Instruction /\ F.m \in Modifiers
  /\ F.air \in Instruction /\ F.bir \in Instruction
  /\ F.src \in Addr /\ F.t \in Addr
  /\ F.next \in Addr /\ F.jump \in Addr /\ F.skip \in Addr
  /\ F.core \in Core
  /\ F.wrote \subseteq Addr
  /\ \A i \in Addr : F.core[i] # core[i] => i \in F.wrote

\* The warrior to move has a process.
CanMove ==
  /\ core \in Core
  /\ mover \in W
  /\ queues \in [W -> Seq(Addr)]
  /\ queues[mover] # << >> /\ Len(queues[mover]) <= MaxProcesses
  /\ lastResult \in [W -> Addr]
  /\ bank \in [W -> W]
  /\ pspace \in [{bank[w] : w \in W} -> [PCells -> Addr]]

\* What the head of every opcode evaluates is what IsFetched says of it.
LEMMA FetchedSound ==
  ASSUME CanMove
  PROVE  IsFetched(Fetched)
<1> DEFINE pc == Head(queues[mover])
           ir == core[pc]
           A  == Operand(core, pc, ir, ir.am, ir.a)
           B  == Operand(A.core, pc, ir, ir.bm, ir.b)
<1>1. pc \in Addr
  BY DEF CanMove
<1>2. ir \in Instruction
  BY <1>1 DEF CanMove, Core
<1>3. /\ ir.am \in Modes /\ ir.bm \in Modes /\ ir.mod \in Modifiers
      /\ ir.a \in Addr /\ ir.b \in Addr
  BY <1>2 DEF Instruction
<1>4. core \in Core
  BY DEF CanMove
<1> HIDE DEF ir, pc
<1>5. /\ A.ptr \in Addr /\ A.at \in Addr /\ A.cell \in Instruction /\ A.core \in Core
      /\ A.wrote \subseteq Addr
      /\ \A i \in Addr : A.core[i] # core[i] => i \in A.wrote
  BY <1>1, <1>2, <1>3, <1>4, OperandSound
<1> HIDE DEF A
<1>6. /\ B.ptr \in Addr /\ B.at \in Addr /\ B.cell \in Instruction /\ B.core \in Core
      /\ B.wrote \subseteq Addr
      /\ \A i \in Addr : B.core[i] # A.core[i] => i \in B.wrote
  BY <1>1, <1>2, <1>3, <1>5, OperandSound
<1> HIDE DEF B
<1>7. /\ Add(pc, B.ptr) \in Addr /\ Inc(pc) \in Addr
      /\ Add(pc, A.ptr) \in Addr /\ Add(pc, 2) \in Addr
  BY <1>1, <1>5, <1>6, RingArithmetic
<1>8. Fetched = [ir |-> ir, m |-> ir.mod, air |-> A.cell, src |-> A.at, bir |-> B.cell,
                 t |-> Add(pc, B.ptr), core |-> B.core, wrote |-> A.wrote \cup B.wrote,
                 next |-> Inc(pc), jump |-> Add(pc, A.ptr), skip |-> Add(pc, 2)]
  BY DEF Fetched, Snapshot, A, B, ir, pc
<1> QED BY <1>2, <1>3, <1>5, <1>6, <1>7, <1>8 DEF IsFetched

\* The queue of the warrior that moves, without the process that moved, and
\* with one process put back.
LEMMA QueueSound ==
  ASSUME CanMove, NEW x \in Addr
  PROVE  /\ Tail(queues[mover]) \in Seq(Addr)
         /\ Len(Tail(queues[mover])) <= MaxProcesses
         /\ Requeued(x) \in Seq(Addr)
         /\ Len(Requeued(x)) <= MaxProcesses
<1>1. queues[mover] \in Seq(Addr) /\ MaxProcesses \in Nat
  BY MarsAssumption DEF CanMove
<1>2. /\ Tail(queues[mover]) \in Seq(Addr)
      /\ Len(Tail(queues[mover])) = Len(queues[mover]) - 1
      /\ Len(queues[mover]) \in Nat
  BY <1>1 DEF CanMove
<1> QED BY <1>1, <1>2 DEF CanMove, Requeued

\* The core changes only where the step says it wrote.
NotesAll ==
  /\ core' \in Core
  /\ \E cells \in SUBSET Addr : /\ Note(cells)
                               /\ \A i \in Addr : core'[i] # core[i] => i \in cells

\* An opcode that stores one instruction notes every cell it changed.
LEMMA WritesSound ==
  ASSUME NEW F, IsFetched(F), NEW cell \in Instruction, Writes(F, cell)
  PROVE  NotesAll
<1>1. Note(F.wrote \cup {F.t}) /\ F.wrote \cup {F.t} \in SUBSET Addr
  BY DEF Writes, IsFetched
<1>2. core' \in Core
  BY DEF Writes, IsFetched, Core
<1>3. \A i \in Addr : core'[i] # core[i] => i \in F.wrote \cup {F.t}
  BY DEF Writes, IsFetched, Core
<1> QED BY <1>1, <1>2, <1>3 DEF NotesAll

\* An opcode that stores nothing notes what its operands changed.
LEMMA KeepsSound ==
  ASSUME NEW F, IsFetched(F), Keeps(F)
  PROVE  NotesAll
BY DEF Keeps, IsFetched, NotesAll

\* What any instruction does: one queue changes, by the rules of EndTurn; the
\* core changes where noted; P-space is left alone or stored to once.
Effect ==
  /\ \E q \in Seq(Addr) : Len(q) <= MaxProcesses /\ EndTurn(q)
  /\ NotesAll
  /\ KeepsPspace \/ \E idx, v \in Addr : SetPspace(mover, idx, v)

\* Every opcode's action is an Effect on queue, core and P-space.
LEMMA EffectOfStep ==
  ASSUME CanMove, Step
  PROVE  Effect
<1> DEFINE F == Fetched
<1>1. IsFetched(F)
  BY FetchedSound
<1>2. \A x \in Addr : /\ Requeued(x) \in Seq(Addr) /\ Len(Requeued(x)) <= MaxProcesses
                     /\ Tail(queues[mover]) \in Seq(Addr)
                     /\ Len(Tail(queues[mover])) <= MaxProcesses
  BY QueueSound
<1>3. /\ F.next \in Addr /\ F.jump \in Addr /\ F.skip \in Addr /\ F.t \in Addr
      /\ F.src \in Addr /\ F.core \in Core
      /\ F.core[F.t] \in Instruction /\ F.core[F.src] \in Instruction
      /\ F.air \in Instruction /\ F.bir \in Instruction
      /\ F.air.a \in Addr /\ F.air.b \in Addr /\ F.bir.a \in Addr /\ F.bir.b \in Addr
      /\ F.m \in Modifiers /\ F.ir.op \in Opcodes
  BY <1>1 DEF IsFetched, Core, Instruction
<1>4. ForA(F.m, F.air) \in Addr /\ ForB(F.m, F.air) \in Addr
  BY <1>3 DEF ForA, ForB
<1>5. Addr \subseteq Nat /\ \A n \in Nat : n % CoreSize \in Addr
  BY Constants DEF Addr
<1> HIDE DEF F
<1>dat. CASE Dat
  BY <1>dat, <1>1, <1>2, <1>3, KeepsSound DEF Dat, Effect, F
<1>nop. CASE Nop
  BY <1>nop, <1>1, <1>2, <1>3, KeepsSound DEF Nop, Effect, F
<1>mov. CASE Mov
  <2>1. [F.core[F.src] EXCEPT !.a = F.air.a, !.b = F.air.b] \in Instruction
    BY <1>3, CellUpdate
  <2>2. SetHalves(F.core[F.t], OnA(F.m), ForA(F.m, F.air), OnB(F.m), ForB(F.m, F.air))
          \in Instruction
    BY <1>3, <1>4, SelectedType
  <2> QED BY <1>mov, <1>1, <1>2, <1>3, <2>1, <2>2, WritesSound DEF Mov, Effect, F
<1>arithmetic. CASE Arithmetic
  <2>1. \A x, y \in Addr : F.ir.op \in {"ADD", "SUB", "MUL"} => Calc(F.ir.op, x, y) \in Addr
    <3> SUFFICES ASSUME NEW x \in Addr, NEW y \in Addr, F.ir.op \in {"ADD", "SUB", "MUL"}
                 PROVE  Calc(F.ir.op, x, y) \in Addr
      OBVIOUS
    <3>1. x + y \in Nat /\ x + CoreSize - y \in Nat /\ x * y \in Nat
      BY Constants DEF Addr
    <3> QED BY <3>1, <1>5 DEF Calc
  <2>2. F.ir.op \in {"ADD", "SUB", "MUL"}
    BY <1>arithmetic DEF Arithmetic, Executing, Fetched, Snapshot, F
  <2>3. SetHalves(F.core[F.t], OnA(F.m), Calc(F.ir.op, F.bir.a, ForA(F.m, F.air)),
                               OnB(F.m), Calc(F.ir.op, F.bir.b, ForB(F.m, F.air))) \in Instruction
    BY <1>3, <1>4, <2>1, <2>2, SelectedType
  <2> QED BY <1>arithmetic, <1>1, <1>2, <1>3, <2>3, WritesSound DEF Arithmetic, Effect, F
<1>division. CASE Division
  <2>1. \A x \in Addr, y \in Addr \ {0} : Quotient(F.ir.op, x, y) \in Addr
    BY Constants DEF Quotient, Addr
  <2> QED BY <1>division, <1>1, <1>2, <1>3, <1>4, <2>1, SetHalvesType, WritesSound, KeepsSound
          DEF Division, Effect, F, OnA, OnB
<1>jmp. CASE Jmp
  BY <1>jmp, <1>1, <1>2, <1>3, KeepsSound DEF Jmp, Effect, F
<1>jmzjmn. CASE JmzJmn
  BY <1>jmzjmn, <1>1, <1>2, <1>3, KeepsSound DEF JmzJmn, Effect, F
<1>djn. CASE Djn
  <2>1. \A c \in Instruction :
          SetHalves(c, OnA(F.m), Dec(c.a), OnB(F.m), Dec(c.b)) \in Instruction
    BY <1>3, RingArithmetic, CellUpdate, SelectedType
  <2> QED BY <1>djn, <1>1, <1>2, <1>3, <2>1, WritesSound DEF Djn, Effect, F
<1>spl. CASE Spl
  <2>1. \A q \in Seq(Addr), x \in Addr :
          ~Full(q) => Append(q, x) \in Seq(Addr) /\ Len(Append(q, x)) <= MaxProcesses
    BY MarsAssumption DEF Full
  <2> QED BY <1>spl, <1>1, <1>2, <1>3, <2>1, KeepsSound DEF Spl, Effect, F
<1>slt. CASE Slt
  BY <1>slt, <1>1, <1>2, <1>3, KeepsSound DEF Slt, Effect, F
<1>compare. CASE Compare
  BY <1>compare, <1>1, <1>2, <1>3, KeepsSound DEF Compare, Effect, F
<1>ldp. CASE Ldp
  <2>1. \A idx \in Addr : GetPspace(mover, idx) \in Addr
    BY <1>5, PspaceIndex DEF GetPspace, CanMove
  <2>2. \A toA \in BOOLEAN, v \in Addr : SetHalves(F.core[F.t], toA, v, ~toA, v) \in Instruction
    BY <1>3, SetHalvesType
  <2>3. \A S : (F.m \in S) \in BOOLEAN
    OBVIOUS
  <2> QED BY <1>ldp, <1>1, <1>2, <1>3, <2>1, <2>2, <2>3, WritesSound DEF Ldp, Effect, F
<1>stp. CASE Stp
  BY <1>stp, <1>1, <1>2, <1>3, KeepsSound DEF Stp, Effect, F
<1> QED BY <1>dat, <1>nop, <1>mov, <1>arithmetic, <1>division, <1>jmp, <1>jmzjmn, <1>djn,
           <1>spl, <1>slt, <1>compare, <1>ldp, <1>stp DEF Step

-----------------------------------------------------------------------------
\* The inductive invariant.  TypeOK needs the queue of the warrior to move
\* not to be empty, which is OutcomeSound; the bound on `done` and the tie
\* after the whole budget are FairTurns; and what the warriors load and share
\* comes from a match that was asked for.

JobKnown ==
  phase # "idle" => /\ job \in Jobs
                    /\ bank = [w \in W |-> IF Shared(job) THEN 0 ELSE w]

IInv == TypeOK /\ JobKnown /\ OutcomeSound /\ FairTurns

\* Cores of two cells are left out: a tie's 2 is not below their size.
ThreeCells == CoreSize >= 3

\* A new machine satisfies the invariant.
LEMMA InitIInv ==
  ASSUME ThreeCells, Init
  PROVE  IInv
<1>1. TypeOK
  <2>1. core \in [Addr -> Instruction] /\ pos \in Addr
    BY Constants DEF Init, Instruction, EMPTY, Opcodes, Modifiers, Modes, Addr
  <2>2. pspace \in [{bank[w] : w \in W} -> [PCells -> Addr]]
    BY Constants DEF Init, FreshBank, Addr, W
  <2>3. lastResult \in [W -> Addr] /\ bank \in [W -> W]
    BY Constants DEF Init, Addr
  <2>4. queues \in [W -> Seq(Addr)] /\ \A w \in W : Len(queues[w]) <= MaxProcesses
    BY MarsAssumption DEF Init
  <2>5. seed \in I32
    BY I32Bounds DEF Init
  <2>6. /\ round \in 0 .. Rounds /\ mover \in W
        /\ left \in 0 .. 2 * MaxCycles /\ done \in 0 .. 2 * MaxCycles
    BY MarsAssumption DEF Init, W
  <2>7. score \in [w1: Nat, w2: Nat, ties: Nat]
    BY DEF Init, NoScore
  <2>8. /\ job \in Jobs \cup {NoJob} /\ written \subseteq Addr
        /\ outcome \in {"none", "win0", "win1", "tie"}
        /\ phase \in {"idle", "ready", "running"}
        /\ ledger \in Seq([job: Jobs, score: [w1: Nat, w2: Nat, ties: Nat]])
    BY DEF Init
  <2> QED BY <2>1, <2>2, <2>3, <2>4, <2>5, <2>6, <2>7, <2>8 DEF TypeOK
<1> QED BY <1>1 DEF Init, IInv, JobKnown, OutcomeSound, FairTurns

\* begin_match keeps it: a fresh P-space, and a team of known warriors.
LEMMA BeginMatchIInv ==
  ASSUME IInv, NEW j \in Jobs, BeginMatch(j)
  PROVE  IInv'
<1>1. TypeOK'
  <2>1. lastResult' \in [W -> Addr]
    BY Constants DEF BeginMatch, FreshResults, Addr
  <2>2. bank' \in [W -> W]
    BY DEF BeginMatch, W
  <2>3. pspace' \in [{bank'[w] : w \in W} -> [PCells -> Addr]]
    <3>1. FreshBank \in [PCells -> Addr]
      BY Constants DEF FreshBank, Addr
    <3>2. {bank'[w] : w \in W} = IF Shared(j) THEN {0} ELSE W
      BY DEF BeginMatch, W
    <3> QED BY <3>1, <3>2 DEF BeginMatch
  <2>4. job' \in Jobs /\ seed' \in I32
    BY MarsAssumption DEF BeginMatch
  <2>5. score' \in [w1: Nat, w2: Nat, ties: Nat] /\ round' \in 0 .. Rounds
    BY MarsAssumption DEF BeginMatch, NoScore
  <2> QED BY <2>1, <2>2, <2>3, <2>4, <2>5 DEF BeginMatch, turn, IInv, TypeOK
<1> QED BY <1>1 DEF BeginMatch, IInv, JobKnown, OutcomeSound, FairTurns

\* A warrior at any address leaves a core a core.
LEMMA PlacedCore ==
  ASSUME NEW c \in Core, NEW v \in Warrior, NEW p \in Addr
  PROVE  Placed(c, v, p) \in Core
<1>1. v.code \in Seq(Instruction)
  BY DEF Warrior
<1>2. ASSUME NEW i \in Addr, (i - p) % CoreSize < Len(v.code)
      PROVE  v.code[((i - p) % CoreSize) + 1] \in Instruction
  <2>1. (i - p) % CoreSize \in Nat
    BY Constants DEF Addr
  <2> QED BY <1>1, <1>2, <2>1
<1> QED BY <1>2 DEF Placed, Core

\* load keeps it: one process each, and the positions on the ring.
LEMMA StartRoundIInv ==
  ASSUME IInv, StartRound
  PROVE  IInv'
<1>1. job \in Jobs /\ job' = job /\ bank' = bank
  BY DEF StartRound, IInv, JobKnown
<1>2. job.team[0] \in Warrior /\ job.team[1] \in Warrior
  BY <1>1, MarsAssumption DEF W
<1>3. pos' \in Addr /\ pos' = Position(seed) /\ 0 \in Addr
  BY PositionRange, Constants DEF StartRound, IInv, TypeOK, Addr
<1>4. core' \in Core
  <2> DEFINE blank == [i \in Addr |-> EMPTY]
  <2>1. blank \in Core
    BY Constants DEF Core, Instruction, EMPTY, Opcodes, Modifiers, Modes, Addr
  <2>2. core' = Placed(Placed(blank, job.team[0], 0), job.team[1], Position(seed))
    BY DEF StartRound
  <2> HIDE DEF blank
  <2>3. Placed(blank, job.team[0], 0) \in Core
    BY <1>2, <1>3, <2>1, PlacedCore
  <2> QED BY <1>2, <1>3, <2>2, <2>3, PlacedCore
<1>5. \A w \in W : queues'[w] \in Seq(Addr) /\ Len(queues'[w]) = 1
  <2>1. job.team[0].start \in Addr /\ job.team[1].start \in Addr
    BY <1>2 DEF Warrior
  <2>2. /\ Add(0, job.team[0].start) \in Addr
        /\ Add(Position(seed), job.team[1].start) \in Addr
    BY <1>3, <2>1, RingArithmetic
  <2>3. queues' = [w \in W |-> << Add(IF w = 0 THEN 0 ELSE Position(seed),
                                     job.team[w].start) >>]
    BY DEF StartRound
  <2>4. \A x \in Addr : << x >> \in Seq(Addr) /\ Len(<< x >>) = 1
    OBVIOUS
  <2> QED BY <2>2, <2>3, <2>4 DEF W
<1>6. queues' \in [W -> Seq(Addr)]
  <2>1. queues' = [w \in W |-> queues'[w]]
    BY DEF StartRound
  <2>2. \A w \in W : queues'[w] \in Seq(Addr)
    BY <1>5
  <2> QED BY <2>1, <2>2
<1>7. seed' \in I32
  BY RngRange DEF StartRound, IInv, TypeOK
<1>8. /\ round' \in 0 .. Rounds /\ round' = round + 1 /\ round \in Nat
      /\ mover' \in W /\ mover' = round % 2
      /\ left' \in 0 .. 2 * MaxCycles /\ done' \in 0 .. 2 * MaxCycles
      /\ left' = 2 * MaxCycles /\ done' = 0
  BY MarsAssumption DEF StartRound, IInv, TypeOK, W
<1>9. TypeOK'
  <2>1. \A w \in W : Len(queues'[w]) <= MaxProcesses
    BY <1>5, Constants
  <2>2. written' \subseteq Addr /\ outcome' = "none" /\ phase' = "running"
    BY DEF StartRound
  <2>3. /\ bank' \in [W -> W] /\ pspace' \in [{bank'[w] : w \in W} -> [PCells -> Addr]]
        /\ lastResult' \in [W -> Addr] /\ job' \in Jobs \cup {NoJob}
        /\ score' \in [w1: Nat, w2: Nat, ties: Nat]
        /\ ledger' \in Seq([job: Jobs, score: [w1: Nat, w2: Nat, ties: Nat]])
    BY DEF StartRound, IInv, TypeOK
  <2> QED BY <1>3, <1>4, <1>6, <1>7, <1>8, <2>1, <2>2, <2>3 DEF TypeOK, Core
<1>10. OutcomeSound'
  BY <1>5 DEF StartRound, OutcomeSound, Win
<1>11. FairTurns'
  BY <1>8 DEF StartRound, FairTurns
<1> QED BY <1>1, <1>9, <1>10, <1>11 DEF IInv, StartRound, JobKnown

\* The round's bookkeeping after an instruction: the one place where the three
\* counts and the outcome change together.
LEMMA StepIInv ==
  ASSUME IInv, Step
  PROVE  IInv'
<1>1. phase = "running" /\ outcome = "none" /\ left > 0
  BY DEF Step, Dat, Nop, Mov, Arithmetic, Division, Jmp, JmzJmn, Djn, Spl, Slt,
         Compare, Ldp, Stp, Executing
<1>2. CanMove
  BY <1>1 DEF CanMove, Core, IInv, TypeOK, OutcomeSound, Win, W
<1>3. Effect
  BY <1>2, EffectOfStep
<1>4. PICK q \in Seq(Addr) : Len(q) <= MaxProcesses /\ EndTurn(q)
  BY <1>3 DEF Effect
<1>5. /\ mover \in W /\ left \in 0 .. 2 * MaxCycles /\ done \in 0 .. 2 * MaxCycles
      /\ round \in 0 .. Rounds /\ done + left = 2 * MaxCycles
      /\ mover = (round - 1 + done) % 2
  BY <1>1, Constants DEF IInv, TypeOK, FairTurns
<1>6. /\ queues' = [queues EXCEPT ![mover] = q] /\ done' = done + 1
      /\ bank' = bank /\ job' = job /\ seed' = seed /\ round' = round /\ pos' = pos
      /\ score' = score /\ phase' = phase /\ ledger' = ledger
      /\ \/ q = << >> /\ outcome' = Win(1 - mover) /\ mover' = mover /\ left' = left
         \/ q # << >> /\ mover' = 1 - mover /\ left' = left - 1 /\ outcome' = outcome
  BY <1>4 DEF EndTurn, match
<1>7. TypeOK'
  <2>1. core' \in Core /\ written' \subseteq Addr
    BY <1>3 DEF Effect, NotesAll, Note
  <2>2. /\ queues' \in [W -> Seq(Addr)]
        /\ \A w \in W : Len(queues'[w]) <= MaxProcesses
    BY <1>4, <1>6 DEF IInv, TypeOK
  <2>3. lastResult' \in [W -> Addr] /\ pspace' \in [{bank[w] : w \in W} -> [PCells -> Addr]]
    <3>1. CASE KeepsPspace
      BY <3>1 DEF KeepsPspace, IInv, TypeOK
    <3>2. ASSUME NEW idx \in Addr, NEW v \in Addr, SetPspace(mover, idx, v)
          PROVE  /\ lastResult' \in [W -> Addr]
                 /\ pspace' \in [{bank[w] : w \in W} -> [PCells -> Addr]]
      <4>1. idx % PspaceSize \in PCells
        BY PspaceIndex DEF Addr
      <4> DEFINE banks == {bank[w] : w \in W}
                 i == idx % PspaceSize
      <4>2. bank[mover] \in banks
        BY <1>5
      <4>3. pspace \in [banks -> [PCells -> Addr]] /\ lastResult \in [W -> Addr]
        BY DEF IInv, TypeOK
      <4>4. \/ lastResult' = [lastResult EXCEPT ![mover] = v] /\ pspace' = pspace
            \/ lastResult' = lastResult /\ pspace' = [pspace EXCEPT ![bank[mover]][i] = v]
        BY <3>2 DEF SetPspace
      <4> HIDE DEF banks, i
      <4>5. [pspace EXCEPT ![bank[mover]][i] = v] \in [banks -> [PCells -> Addr]]
        BY <4>1, <4>2, <4>3 DEF i
      <4> QED BY <4>3, <4>4, <4>5 DEF banks
    <3> QED BY <1>3, <3>1, <3>2 DEF Effect
  <2>4. left' \in 0 .. 2 * MaxCycles /\ done' \in 0 .. 2 * MaxCycles
    BY <1>1, <1>5, <1>6, Constants
  <2>5. mover' \in W /\ outcome' \in {"none", "win0", "win1", "tie"}
    BY <1>1, <1>5, <1>6 DEF W, Win
  <2> QED BY <1>6, <2>1, <2>2, <2>3, <2>4, <2>5 DEF IInv, TypeOK, Core
<1>8. OutcomeSound'
  <2>1. \A w \in W : queues[w] # << >>
    BY <1>1 DEF IInv, OutcomeSound, Win, W
  <2>2. DOMAIN queues = W
    BY DEF IInv, TypeOK
  <2> QED BY <1>1, <1>5, <1>6, <2>1, <2>2 DEF OutcomeSound, Win, W
<1>9. FairTurns'
  BY <1>1, <1>5, <1>6, Constants DEF FairTurns, Win, W
<1> QED BY <1>1, <1>6, <1>7, <1>8, <1>9 DEF IInv, JobKnown, Shared

\* A budget that is spent keeps it: both are still alive then.
LEMMA TimeUpIInv ==
  ASSUME IInv, TimeUp
  PROVE  IInv'
<1>1. TypeOK'
  BY DEF TimeUp, machine, match, IInv, TypeOK
<1>2. OutcomeSound'
  BY Constants DEF TimeUp, machine, match, IInv, TypeOK, OutcomeSound, FairTurns, Win, W
<1>3. FairTurns'
  BY DEF TimeUp, machine, match, IInv, FairTurns
<1> QED BY <1>1, <1>2, <1>3 DEF TimeUp, machine, match, IInv, JobKnown

\* The end of a round keeps it: a result is below the core size of three.
LEMMA FinishRoundIInv ==
  ASSUME ThreeCells, IInv, FinishRound
  PROVE  IInv'
<1>1. lastResult' \in [W -> Addr]
  BY Constants DEF FinishRound, ResultOf, ThreeCells, Addr
<1>2. score' \in [w1: Nat, w2: Nat, ties: Nat]
  BY DEF FinishRound, IInv, TypeOK
<1>3. /\ UNCHANGED <<core, queues, pspace, bank, job, seed, round, pos, turn, written, ledger>>
      /\ phase' = "ready"
  BY DEF FinishRound
<1>4. TypeOK'
  BY <1>1, <1>2, <1>3 DEF turn, IInv, TypeOK
<1> QED BY <1>4 DEF FinishRound, IInv, JobKnown, OutcomeSound, FairTurns

\* The end of a match keeps it.
LEMMA FinishMatchIInv ==
  ASSUME IInv, FinishMatch
  PROVE  IInv'
<1>1. ledger' \in Seq([job: Jobs, score: [w1: Nat, w2: Nat, ties: Nat]])
  BY DEF FinishMatch, IInv, TypeOK, JobKnown
<1>2. TypeOK'
  BY <1>1 DEF FinishMatch, machine, match, turn, IInv, TypeOK
<1> QED BY <1>2 DEF FinishMatch, IInv, JobKnown, OutcomeSound, FairTurns

\* The engine's invariant, on every core of three cells or more.
THEOREM Invariant ==
  ASSUME ThreeCells
  PROVE  Spec => []IInv
<1>1. Init => IInv
  BY InitIInv
<1>2. IInv /\ [Next]_vars => IInv'
  <2> SUFFICES ASSUME IInv, [Next]_vars PROVE IInv'
    OBVIOUS
  <2>1. ASSUME NEW j \in Jobs, BeginMatch(j) PROVE IInv'
    BY <2>1, BeginMatchIInv
  <2>2. CASE StartRound
    BY <2>2, StartRoundIInv
  <2>3. CASE Step
    BY <2>3, StepIInv
  <2>4. CASE TimeUp
    BY <2>4, TimeUpIInv
  <2>5. CASE FinishRound
    BY <2>5, FinishRoundIInv
  <2>6. CASE FinishMatch
    BY <2>6, FinishMatchIInv
  <2>7. CASE UNCHANGED vars
    BY <2>7 DEF vars, machine, match, turn, IInv, TypeOK, JobKnown, OutcomeSound, FairTurns
  <2> QED BY <2>1, <2>2, <2>3, <2>4, <2>5, <2>6, <2>7 DEF Next
<1> QED BY <1>1, <1>2, PTL DEF Spec

-----------------------------------------------------------------------------
\* The properties the runs check, for every value of the constants.

\* Addresses, P-space values and queues stay in range (TypeOK).
THEOREM TypesHold ==
  ASSUME ThreeCells
  PROVE  Spec => []TypeOK
<1>1. IInv => TypeOK
  BY DEF IInv
<1> QED BY <1>1, Invariant, PTL

\* The outcome of a round is what its queues and its budget show.
THEOREM OutcomesHold ==
  ASSUME ThreeCells
  PROVE  Spec => []OutcomeSound
<1>1. IInv => OutcomeSound
  BY DEF IInv
<1> QED BY <1>1, Invariant, PTL

\* Neither warrior ever gets an instruction more than its share.
THEOREM TurnsAreFair ==
  ASSUME ThreeCells
  PROVE  Spec => []FairTurns
<1>1. IInv => FairTurns
  BY DEF IInv
<1> QED BY <1>1, Invariant, PTL

\* An observer told of `written` misses no change of the core.
THEOREM ObserverMissesNothing ==
  ASSUME ThreeCells
  PROVE  Spec => WritesNoted
<1> DEFINE Told == Noting /\ phase = "running" /\ phase' = "running" =>
                     \A i \in Addr : core'[i] # core[i] => i \in written'
<1>1. ASSUME IInv, [Next]_vars
      PROVE  [Told]_vars
  <2>1. CASE Step
    <3>1. phase = "running" /\ outcome = "none"
      BY <2>1 DEF Step, Dat, Nop, Mov, Arithmetic, Division, Jmp, JmzJmn, Djn, Spl, Slt,
         Compare, Ldp, Stp, Executing
    <3>2. CanMove
      BY <1>1, <3>1 DEF CanMove, Core, IInv, TypeOK, OutcomeSound, Win, W
    <3>3. NotesAll
      BY <2>1, <3>2, EffectOfStep DEF Effect
    <3> QED BY <3>3 DEF NotesAll, Note
  <2>2. CASE TimeUp
    BY <2>2 DEF TimeUp, machine
  <2>3. ASSUME \/ \E j \in Jobs : BeginMatch(j)
               \/ StartRound \/ FinishRound \/ FinishMatch
        PROVE  ~(phase = "running" /\ phase' = "running")
    BY <2>3 DEF BeginMatch, StartRound, FinishRound, FinishMatch
  <2> QED BY <1>1, <2>1, <2>2, <2>3 DEF Next
<1> QED BY <1>1, Invariant, PTL DEF Spec, WritesNoted

\* A warrior's P-space is touched by nobody it did not share a PIN with, and
\* its cell 0 by nobody at all, while a round runs.
THEOREM PspaceIsPrivate ==
  ASSUME ThreeCells
  PROVE  Spec => PspacePrivate
<1> DEFINE Private ==
      phase = "running" /\ phase' = "running" =>
        \A w \in W \ {mover} : \A i \in PCells :
          GetPspace(w, i)' # GetPspace(w, i) =>
            /\ i # 0
            /\ job.team[0].pin = job.team[1].pin /\ job.team[0].pin # NoPin
<1>1. ASSUME IInv, [Next]_vars
      PROVE  [Private]_vars
  <2>1. CASE Step
    <3>1. phase = "running" /\ outcome = "none"
      BY <2>1 DEF Step, Dat, Nop, Mov, Arithmetic, Division, Jmp, JmzJmn, Djn, Spl, Slt,
         Compare, Ldp, Stp, Executing
    <3>2. CanMove
      BY <1>1, <3>1 DEF CanMove, Core, IInv, TypeOK, OutcomeSound, Win, W
    <3>3. Effect
      BY <2>1, <3>2, EffectOfStep
    <3>4. bank' = bank
      BY <3>3 DEF Effect, EndTurn
    <3>5. CASE KeepsPspace
      BY <3>4, <3>5 DEF KeepsPspace, GetPspace
    <3>6. ASSUME NEW idx \in Addr, NEW v \in Addr, SetPspace(mover, idx, v)
          PROVE  Private
      <4> SUFFICES ASSUME NEW w \in W \ {mover}, NEW i \in PCells,
                          GetPspace(w, i)' # GetPspace(w, i)
                   PROVE  i # 0 /\ Shared(job)
        BY DEF Shared
      <4>1. i % PspaceSize = i
        BY PspaceIndex DEF PCells
      <4>2. i # 0
        <5>1. lastResult \in [W -> Addr] /\ mover \in W
          BY <3>2 DEF CanMove
        <5>2. lastResult'[w] = lastResult[w]
          BY <3>6, <5>1 DEF SetPspace
        <5> QED BY <4>1, <5>2 DEF GetPspace
      <4>3. bank[w] = bank[mover]
        BY <3>2, <3>4, <3>6, <4>1, <4>2 DEF SetPspace, GetPspace, CanMove
      <4>4. bank = [x \in W |-> IF Shared(job) THEN 0 ELSE x]
        BY <1>1, <3>1 DEF IInv, JobKnown
      <4> QED BY <3>2, <4>2, <4>3, <4>4 DEF CanMove
    <3> QED BY <3>3, <3>5, <3>6 DEF Effect
  <2>2. CASE TimeUp
    BY <2>2 DEF TimeUp, machine, GetPspace
  <2>3. ASSUME \/ \E j \in Jobs : BeginMatch(j)
               \/ StartRound \/ FinishRound \/ FinishMatch
        PROVE  ~(phase = "running" /\ phase' = "running")
    BY <2>3 DEF BeginMatch, StartRound, FinishRound, FinishMatch
  <2> QED BY <1>1, <2>1, <2>2, <2>3 DEF Next
<1> QED BY <1>1, Invariant, PTL DEF Spec, PspacePrivate

-----------------------------------------------------------------------------
\* Loading: the warriors do not overlap and each begins at its start.

\* Remainders one turn around the ring away.
LEMMA OneTurn ==
  ASSUME NEW x \in Int
  PROVE  /\ 0 <= x /\ x < CoreSize => x % CoreSize = x
         /\ CoreSize <= x /\ x < 2 * CoreSize => x % CoreSize = x - CoreSize
         /\ -CoreSize <= x /\ x < 0 => x % CoreSize = x + CoreSize
<1>1. CoreSize \in Nat \ {0}
  BY Constants
<1>2. ASSUME 0 <= x, x < CoreSize PROVE x % CoreSize = x
  BY <1>1, <1>2
<1>3. ASSUME CoreSize <= x, x < 2 * CoreSize PROVE x % CoreSize = x - CoreSize
  BY <1>1, <1>3
<1>4. ASSUME -CoreSize <= x, x < 0 PROVE x % CoreSize = x + CoreSize
  BY <1>1, <1>4
<1> QED BY <1>2, <1>3, <1>4

\* A warrior of n instructions at p, seen from cell i: within it at k when
\* i = p + k around the ring, outside it when i is n or more further on.
LEMMA PlacedInside ==
  ASSUME NEW c \in Core, NEW v \in Warrior, NEW p \in Addr,
         NEW k \in 1 .. Len(v.code), Len(v.code) < CoreSize
  PROVE  /\ (p + k - 1) % CoreSize \in Addr
         /\ Placed(c, v, p)[(p + k - 1) % CoreSize] = v.code[k]
<1> DEFINE i == (p + k - 1) % CoreSize
<1>1. /\ CoreSize \in Nat \ {0} /\ p \in Int /\ k \in Int /\ Len(v.code) \in Nat
      /\ 0 <= p /\ p < CoreSize /\ 1 <= k /\ k < CoreSize
  BY Constants DEF Addr, Warrior
<1>2. \/ p + k - 1 < CoreSize /\ i = p + k - 1
      \/ p + k - 1 >= CoreSize /\ i = p + k - 1 - CoreSize
  BY <1>1, OneTurn
<1>3. i \in Addr
  BY <1>1, <1>2 DEF Addr
<1>4. (i - p) % CoreSize = k - 1
  <2>1. CASE i = p + k - 1
    <3>1. i - p = k - 1
      BY <1>1, <2>1
    <3>2. k - 1 \in Int /\ 0 <= k - 1 /\ k - 1 < CoreSize
      BY <1>1
    <3> HIDE DEF i
    <3> QED BY <3>1, <3>2, OneTurn
  <2>2. CASE i = p + k - 1 - CoreSize
    <3>1. i - p = k - 1 - CoreSize
      BY <1>1, <2>2
    <3>2. /\ k - 1 - CoreSize \in Int
          /\ -CoreSize <= k - 1 - CoreSize /\ k - 1 - CoreSize < 0
      BY <1>1
    <3>3. (k - 1 - CoreSize) % CoreSize = k - 1 - CoreSize + CoreSize
      BY <3>2, OneTurn
    <3> HIDE DEF i
    <3> QED BY <1>1, <3>1, <3>3
  <2> QED BY <1>2, <2>1, <2>2
<1> HIDE DEF i
<1>5. Placed(c, v, p)[i] = v.code[k]
  BY <1>1, <1>3, <1>4 DEF Placed
<1> QED BY <1>3, <1>5 DEF i

\* Placing a warrior changes no cell farther from its position than its length.
LEMMA PlacedOutside ==
  ASSUME NEW c \in Core, NEW v \in Warrior, NEW p \in Addr, NEW i \in Addr,
         (i - p) % CoreSize >= Len(v.code)
  PROVE  Placed(c, v, p)[i] = c[i]
<1>1. Len(v.code) \in Nat /\ (i - p) % CoreSize \in Nat
  BY Constants DEF Warrior, Addr
<1> QED BY <1>1 DEF Placed

\* After load both warriors are in the core entire.
LEMMA LoadedByStartRound ==
  ASSUME IInv, StartRound
  PROVE  LoadedIntact'
<1> DEFINE p == Position(seed)
           A == job.team[0]
           B == job.team[1]
           blank == [i \in Addr |-> EMPTY]
           first == Placed(blank, A, 0)
<1>1. job \in Jobs /\ job' = job
  BY DEF StartRound, IInv, JobKnown
<1>2. /\ A \in Warrior /\ B \in Warrior
      /\ Len(A.code) <= MaxLength /\ Len(B.code) <= MaxLength
  BY <1>1, MarsAssumption DEF W
<1>3. /\ p \in Addr /\ p \in MinDistance .. CoreSize - MinDistance /\ 0 \in Addr
      /\ pos' = p
  BY PositionRange, Constants DEF StartRound, IInv, TypeOK, Addr
<1>4. core' = Placed(first, B, p)
  BY DEF StartRound
<1>5. queues' = [w \in W |-> << Add(IF w = 0 THEN 0 ELSE p, job.team[w].start) >>]
  BY DEF StartRound
<1>6. blank \in Core
  BY Constants DEF Core, Instruction, EMPTY, Opcodes, Modifiers, Modes, Addr
<1>7. /\ Len(A.code) \in Nat /\ Len(B.code) \in Nat
      /\ Len(A.code) < CoreSize /\ Len(B.code) < CoreSize
  BY <1>2, Constants DEF Warrior
<1> HIDE DEF p, A, B, blank
<1>8. first \in Core
  BY <1>2, <1>3, <1>6, PlacedCore
<1> HIDE DEF first
<1>9. ASSUME NEW k \in 1 .. Len(A.code)
      PROVE  core'[(0 + k - 1) % CoreSize] = A.code[k]
  <2> DEFINE i == (0 + k - 1) % CoreSize
  <2>1. i \in Addr /\ first[i] = A.code[k]
    BY <1>2, <1>3, <1>6, <1>7, PlacedInside DEF first
  <2>2. i = k - 1
    <3>1. /\ k \in Int /\ 0 + k - 1 = k - 1 /\ 0 + k - 1 \in Int
          /\ 0 <= 0 + k - 1 /\ 0 + k - 1 < CoreSize
      BY <1>7, Constants
    <3> QED BY <3>1, OneTurn
  <2>3. (i - p) % CoreSize = k - 1 - p + CoreSize
    <3>1. k - 1 - p \in Int /\ -CoreSize <= k - 1 - p /\ k - 1 - p < 0
      BY <1>2, <1>3, <1>7, Constants
    <3> QED BY <2>2, <3>1, OneTurn
  <2>4. (i - p) % CoreSize >= Len(B.code)
    BY <1>2, <1>3, <1>7, <2>3, Constants
  <2> QED BY <1>2, <1>3, <1>4, <1>8, <2>1, <2>4, PlacedOutside
<1>10. ASSUME NEW k \in 1 .. Len(B.code)
       PROVE  core'[(p + k - 1) % CoreSize] = B.code[k]
  BY <1>2, <1>3, <1>4, <1>7, <1>8, PlacedInside
<1>11. \A x, y \in Addr : Add(x, y) = (x + y) % CoreSize
  BY OneTurn, Constants DEF Add, Addr
<1>12. A.start \in Addr /\ B.start \in Addr
  BY <1>2 DEF Warrior
<1>13. /\ queues'[0] = << Add(0, A.start) >>
       /\ queues'[1] = << Add(p, B.start) >>
  BY <1>5 DEF W, A, B
<1>14. /\ queues'[0] = << (0 + A.start) % CoreSize >>
       /\ queues'[1] = << (p + B.start) % CoreSize >>
  BY <1>3, <1>11, <1>12, <1>13
<1> QED BY <1>1, <1>3, <1>9, <1>10, <1>14 DEF LoadedIntact, W, A, B

\* Whatever seed a match was given and however far the generator has run, at
\* the start of every round each warrior is in the core entire and its
\* process at its start.
THEOREM LoadingIsIntact ==
  ASSUME ThreeCells
  PROVE  Spec => []LoadedIntact
<1>1. Init => LoadedIntact
  BY DEF Init, LoadedIntact
<1>2. ASSUME IInv, LoadedIntact, [Next]_vars
      PROVE  LoadedIntact'
  <2>1. CASE StartRound
    BY <1>2, <2>1, LoadedByStartRound
  <2>2. CASE Step
    <3>1. phase = "running" /\ outcome = "none"
      BY <2>2 DEF Step, Dat, Nop, Mov, Arithmetic, Division, Jmp, JmzJmn, Djn, Spl, Slt,
         Compare, Ldp, Stp, Executing
    <3>2. CanMove
      BY <1>2, <3>1 DEF CanMove, Core, IInv, TypeOK, OutcomeSound, Win, W
    <3>3. done' = done + 1
      BY <2>2, <3>2, EffectOfStep DEF Effect, EndTurn
    <3> QED BY <1>2, <3>3 DEF LoadedIntact, IInv, TypeOK
  <2>3. CASE TimeUp
    BY <1>2, <2>3 DEF TimeUp, machine, match, LoadedIntact
  <2>4. ASSUME \/ \E j \in Jobs : BeginMatch(j)
               \/ FinishRound \/ FinishMatch
        PROVE  phase' # "running"
    BY <2>4 DEF BeginMatch, FinishRound, FinishMatch
  <2>5. CASE UNCHANGED vars
    BY <1>2, <2>5 DEF vars, machine, match, turn, LoadedIntact
  <2> QED BY <1>2, <2>1, <2>2, <2>3, <2>4, <2>5 DEF Next, LoadedIntact
<1> QED BY <1>1, <1>2, Invariant, PTL DEF Spec

\* What the end of a round writes to P-space is what its queues show, and it
\* stays until the next round begins: from OutcomeSound, which says which
\* queue is empty under which outcome.
LEMMA CarriedByFinishRound ==
  ASSUME IInv, FinishRound
  PROVE  ResultCarries'
<1>1. /\ phase = "running" /\ outcome \in {"win0", "win1", "tie"}
      /\ queues' = queues /\ lastResult' = [w \in W |-> ResultOf(w)]
  BY DEF FinishRound, IInv, TypeOK
<1>2. \A w \in W : queues[w] = << >> <=> outcome = Win(1 - w)
  BY <1>1 DEF IInv, OutcomeSound
<1>3. ASSUME NEW w \in W
      PROVE  lastResult'[w] = IF queues'[w] = << >> THEN 0
                              ELSE IF queues'[1 - w] = << >> THEN 1 ELSE 2
  <2>1. lastResult'[w] = ResultOf(w) /\ 1 - w \in W /\ 1 - (1 - w) = w
    BY <1>1 DEF W
  <2>2. /\ queues'[w] = << >> <=> outcome = Win(1 - w)
        /\ queues'[1 - w] = << >> <=> outcome = Win(w)
    BY <1>1, <1>2, <2>1
  <2>3. Win(w) # Win(1 - w) /\ Win(w) # "tie" /\ Win(1 - w) # "tie"
        /\ outcome \in {Win(w), Win(1 - w), "tie"}
    BY <1>1 DEF W, Win
  <2> QED BY <2>1, <2>2, <2>3 DEF ResultOf
<1> QED BY <1>3 DEF ResultCarries

\* P-space cell 0 tells each warrior how the round before ended, in every
\* round of every match.
THEOREM ResultsCarry ==
  ASSUME ThreeCells
  PROVE  Spec => []ResultCarries
<1>1. Init => ResultCarries
  BY DEF Init, ResultCarries
<1>2. ASSUME IInv, ResultCarries, [Next]_vars
      PROVE  ResultCarries'
  <2>1. CASE FinishRound
    BY <1>2, <2>1, CarriedByFinishRound
  <2>2. ASSUME NEW j \in Jobs, BeginMatch(j) PROVE ResultCarries'
    BY <2>2 DEF BeginMatch, ResultCarries
  <2>3. CASE StartRound \/ FinishMatch
    BY <2>3 DEF StartRound, FinishMatch, ResultCarries
  <2>4. CASE Step
    <3>1. phase = "running" /\ outcome = "none"
      BY <2>4 DEF Step, Dat, Nop, Mov, Arithmetic, Division, Jmp, JmzJmn, Djn, Spl, Slt,
         Compare, Ldp, Stp, Executing
    <3>2. CanMove
      BY <1>2, <3>1 DEF CanMove, Core, IInv, TypeOK, OutcomeSound, Win, W
    <3>3. phase' = "running"
      BY <2>4, <3>1, <3>2, EffectOfStep DEF Effect, EndTurn
    <3> QED BY <3>3 DEF ResultCarries
  <2>5. CASE TimeUp
    BY <2>5 DEF TimeUp, ResultCarries
  <2>6. CASE UNCHANGED vars
    BY <1>2, <2>6 DEF vars, machine, match, turn, ResultCarries
  <2> QED BY <1>2, <2>1, <2>2, <2>3, <2>4, <2>5, <2>6 DEF Next
<1> QED BY <1>1, <1>2, Invariant, PTL DEF Spec

-----------------------------------------------------------------------------
\* A match depends on its warriors and its seed alone.
\*
\* Between two matches a machine keeps everything, so no invariant over the
\* variables says this.  What does: from the moment a match begins, the part
\* of the state that the rest of the match depends on (Seen) is made of the
\* match by a number of applications of one function (After), and the end
\* (Closed) is met only once on that way.

\* A state of a match: what it has come to, and its round while one is played.
State(j, s, r, sc, ps, b, lr, pl) ==
  [job |-> j, seed |-> s, round |-> r, score |-> sc, pspace |-> ps, bank |-> b,
   results |-> lr, play |-> pl]
Play(c, qs, m, l, o) == <<[core |-> c, queues |-> qs, mover |-> m, left |-> l, outcome |-> o]>>

\* Between rounds the core, the queues and the turn are those of the last
\* round or match, and not looked at.
Seen == State(job, seed, round, score, pspace, bank, lastResult,
              IF phase = "running" THEN Play(core, queues, mover, left, outcome) ELSE << >>)

\* What BeginMatch makes of the match j.
Fresh(j) ==
  State(j, j.seed, 0, NoScore,
        [b \in (IF Shared(j) THEN {0} ELSE W) |-> FreshBank],
        [w \in W |-> IF Shared(j) THEN 0 ELSE w], FreshResults, << >>)

\* What StartRound makes of v.
Started(v) ==
  LET p == Position(v.seed)
  IN State(v.job, PmarsRng(v.seed), v.round + 1, v.score, v.pspace, v.bank, v.results,
           Play(Placed(Placed([i \in Addr |-> EMPTY], v.job.team[0], 0), v.job.team[1], p),
                [w \in W |-> << Add(IF w = 0 THEN 0 ELSE p, v.job.team[w].start) >>],
                v.round % 2, 2 * MaxCycles, "none"))

\* What TimeUp and FinishRound make of v, in the play p.
Tied(v, p) ==
  State(v.job, v.seed, v.round, v.score, v.pspace, v.bank, v.results,
        Play(p.core, p.queues, p.mover, p.left, "tie"))

Finished(v, p) ==
  State(v.job, v.seed, v.round,
        CASE p.outcome = "win0" -> [v.score EXCEPT !.w1 = @ + 1]
          [] p.outcome = "win1" -> [v.score EXCEPT !.w2 = @ + 1]
          [] p.outcome = "tie"  -> [v.score EXCEPT !.ties = @ + 1],
        v.pspace, v.bank,
        [w \in W |-> IF p.outcome = "tie" THEN 2 ELSE IF p.outcome = Win(w) THEN 1 ELSE 0],
        << >>)

\* What an instruction works with, in core c with the queue q to move.
FetchedOf(c, q) ==
  LET pc == Head(q)
      ir == c[pc]
      A  == Operand(c, pc, ir, ir.am, ir.a)
      B  == Operand(A.core, pc, ir, ir.bm, ir.b)
  IN Snapshot(pc, ir, A, B)

\* The cell an instruction leaves at its target; got is what LDP reads.
MovedCell(F) ==
  IF F.m = "I" THEN [F.core[F.src] EXCEPT !.a = F.air.a, !.b = F.air.b]
  ELSE SetHalves(F.core[F.t], OnA(F.m), ForA(F.m, F.air), OnB(F.m), ForB(F.m, F.air))
CalcCell(F) ==
  SetHalves(F.core[F.t], OnA(F.m), Calc(F.ir.op, F.bir.a, ForA(F.m, F.air)),
                         OnB(F.m), Calc(F.ir.op, F.bir.b, ForB(F.m, F.air)))
DividesA(F) == OnA(F.m) /\ ForA(F.m, F.air) # 0
DividesB(F) == OnB(F.m) /\ ForB(F.m, F.air) # 0
DividedCell(F) ==
  SetHalves(F.core[F.t],
    DividesA(F), IF DividesA(F) THEN Quotient(F.ir.op, F.bir.a, ForA(F.m, F.air)) ELSE 0,
    DividesB(F), IF DividesB(F) THEN Quotient(F.ir.op, F.bir.b, ForB(F.m, F.air)) ELSE 0)
Lowered(F, c) == SetHalves(c, OnA(F.m), Dec(c.a), OnB(F.m), Dec(c.b))
LoadedCell(F, got) == SetHalves(F.core[F.t], F.m \in {"A", "BA"}, got, ~(F.m \in {"A", "BA"}), got)

Target(F, cell) == [F.core EXCEPT ![F.t] = cell]

\* The core, the mover's queue and P-space after an instruction.
CoreAfter(F, got) ==
  LET op == F.ir.op
  IN CASE op = "MOV" -> Target(F, MovedCell(F))
       [] op \in {"ADD", "SUB", "MUL"} -> Target(F, CalcCell(F))
       [] op \in {"DIV", "MOD"} -> IF DividesA(F) \/ DividesB(F) THEN Target(F, DividedCell(F)) ELSE F.core
       [] op = "DJN" -> Target(F, Lowered(F, F.core[F.t]))
       [] op = "LDP" -> Target(F, LoadedCell(F, got))
       [] OTHER -> F.core

Lives(F) == (OnA(F.m) => ForA(F.m, F.air) # 0) /\ (OnB(F.m) => ForB(F.m, F.air) # 0)
Less(F)  == /\ OnA(F.m) => ForA(F.m, F.air) < F.bir.a
            /\ OnB(F.m) => ForB(F.m, F.air) < F.bir.b
Equal(F) == /\ OnA(F.m) => ForA(F.m, F.air) = F.bir.a
            /\ OnB(F.m) => ForB(F.m, F.air) = F.bir.b
            /\ F.m = "I" => /\ F.core[F.src].op = F.core[F.t].op
                            /\ F.core[F.src].mod = F.core[F.t].mod
                            /\ F.core[F.src].am = F.core[F.t].am
                            /\ F.core[F.src].bm = F.core[F.t].bm

QueueAfter(F, q) ==
  LET op == F.ir.op
      Put(at) == Append(Tail(q), at)
  IN CASE op = "DAT" -> Tail(q)
       [] op \in {"DIV", "MOD"} -> IF Lives(F) THEN Put(F.next) ELSE Tail(q)
       [] op = "JMP" -> Put(F.jump)
       [] op \in {"JMZ", "JMN"} -> Put(IF Zero(F.m, F.bir) = (op = "JMZ") THEN F.jump ELSE F.next)
       [] op = "DJN" -> Put(IF ~Zero(F.m, Lowered(F, F.bir)) THEN F.jump ELSE F.next)
       [] op = "SPL" -> IF Full(Put(F.next)) THEN Put(F.next) ELSE Append(Put(F.next), F.jump)
       [] op = "SLT" -> Put(IF Less(F) THEN F.skip ELSE F.next)
       [] op \in {"CMP", "SEQ", "SNE"} -> Put(IF Equal(F) = (op # "SNE") THEN F.skip ELSE F.next)
       [] OTHER -> Put(F.next)

\* What LDP reads, and what STP writes where.
Got(F, w, ps, b, lr) ==
  LET i == (IF F.m \in {"A", "AB"} THEN F.air.a ELSE F.air.b) % PspaceSize
  IN IF i = 0 THEN lr[w] ELSE ps[b[w]][i]

Index(F) == (IF F.m \in {"A", "BA"} THEN F.bir.a ELSE F.bir.b) % PspaceSize
Sent(F)  == IF F.m \in {"A", "AB"} THEN F.air.a ELSE F.air.b
PspaceAfter(F, w, ps, b) ==
  IF F.ir.op = "STP" /\ Index(F) # 0 THEN [ps EXCEPT ![b[w]][Index(F)] = Sent(F)] ELSE ps
ResultsAfter(F, w, lr) ==
  IF F.ir.op = "STP" /\ Index(F) = 0 THEN [lr EXCEPT ![w] = Sent(F)] ELSE lr

\* What an instruction makes of v, in the play p: F is what it works with, q
\* the queue it leaves.
Executed(v, p, F, q) ==
  State(v.job, v.seed, v.round, v.score,
        PspaceAfter(F, p.mover, v.pspace, v.bank), v.bank, ResultsAfter(F, p.mover, v.results),
        Play(CoreAfter(F, Got(F, p.mover, v.pspace, v.bank, v.results)),
             [p.queues EXCEPT ![p.mover] = q],
             IF q = << >> THEN p.mover ELSE 1 - p.mover,
             IF q = << >> THEN p.left ELSE p.left - 1,
             IF q = << >> THEN Win(1 - p.mover) ELSE p.outcome))

Stepped(v, p) ==
  LET F == FetchedOf(p.core, p.queues[p.mover])
  IN Executed(v, p, F, QueueAfter(F, p.queues[p.mover]))

Closed(v) == v.play = << >> /\ v.round = Rounds

After(v) ==
  IF v.play = << >> THEN Started(v)
  ELSE IF v.play[1].outcome # "none" THEN Finished(v, v.play[1])
  ELSE IF v.play[1].left = 0 THEN Tied(v, v.play[1])
  ELSE Stepped(v, v.play[1])

\* n steps lead from a to v along h, none of them from the end.
Leads(h, n, a, v) ==
  /\ h[0] = a /\ h[n] = v
  /\ \A i \in 1 .. n : ~Closed(h[i - 1]) /\ h[i] = After(h[i - 1])
Reached(a, v) == \E n \in Nat : \E h : Leads(h, n, a, v)

-----------------------------------------------------------------------------
\* The end of a match is the same every time.

LEMMA ReachedAtOnce ==
  ASSUME NEW a
  PROVE  Reached(a, a)
<1>1. Leads([i \in 0 .. 0 |-> a], 0, a, a)
  BY DEF Leads
<1> QED BY <1>1 DEF Reached

LEMMA ReachedNext ==
  ASSUME NEW a, NEW v, Reached(a, v), ~Closed(v)
  PROVE  Reached(a, After(v))
<1>1. PICK n \in Nat : \E h : Leads(h, n, a, v)
  BY DEF Reached
<1>2. PICK h : Leads(h, n, a, v)
  BY <1>1
<1> DEFINE g == [i \in 0 .. n + 1 |-> IF i = n + 1 THEN After(v) ELSE h[i]]
<1>3. g[0] = a /\ g[n + 1] = After(v)
  BY <1>2 DEF Leads
<1>4. ASSUME NEW i \in 1 .. n + 1 PROVE ~Closed(g[i - 1]) /\ g[i] = After(g[i - 1])
  <2>1. g[i - 1] = h[i - 1]
    OBVIOUS
  <2>2. CASE i = n + 1
    BY <1>2, <2>1, <2>2 DEF Leads
  <2>3. CASE i # n + 1
    <3>1. i \in 1 .. n /\ g[i] = h[i]
      BY <2>3
    <3> HIDE DEF g
    <3> QED BY <1>2, <2>1, <3>1 DEF Leads
  <2> QED BY <2>2, <2>3
<1>5. Leads(g, n + 1, a, After(v))
  <2> HIDE DEF g
  <2> QED BY <1>3, <1>4 DEF Leads
<1> QED BY <1>5 DEF Reached

\* Two ways from one state are the same as long as both go on.
LEMMA SameWay ==
  ASSUME NEW a, NEW v, NEW w, NEW n \in Nat, NEW m \in Nat, NEW g, NEW h,
         Leads(g, n, a, v), Leads(h, m, a, w)
  PROVE  \A i \in Nat : i <= n /\ i <= m => g[i] = h[i]
<1> DEFINE T == {i \in Nat : i <= n /\ i <= m => g[i] = h[i]}
<1>1. 0 \in T
  BY DEF Leads
<1>2. ASSUME NEW i \in Nat, i \in T PROVE i + 1 \in T
  <2> SUFFICES ASSUME i + 1 <= n, i + 1 <= m PROVE g[i + 1] = h[i + 1]
    OBVIOUS
  <2>1. i + 1 \in 1 .. n /\ i + 1 \in 1 .. m /\ (i + 1) - 1 = i /\ g[i] = h[i]
    BY <1>2
  <2> QED BY <2>1 DEF Leads
<1>3. Nat \subseteq T
  <2> HIDE DEF T
  <2> QED BY <1>1, <1>2, AllNaturals
<1> QED BY <1>3

LEMMA ReachedOnce ==
  ASSUME NEW a, NEW v, NEW w, Reached(a, v), Reached(a, w), Closed(v), Closed(w)
  PROVE  v = w
<1>1. PICK n \in Nat : \E g : Leads(g, n, a, v)
  BY DEF Reached
<1>2. PICK m \in Nat : \E h : Leads(h, m, a, w)
  BY DEF Reached
<1>3. PICK g : Leads(g, n, a, v)
  BY <1>1
<1>4. PICK h : Leads(h, m, a, w)
  BY <1>2
<1>5. \A i \in Nat : i <= n /\ i <= m => g[i] = h[i]
  BY <1>3, <1>4, SameWay
<1>6. ~(n < m)
  <2> SUFFICES ASSUME n < m PROVE FALSE
    OBVIOUS
  <2>1. n + 1 \in 1 .. m /\ (n + 1) - 1 = n /\ g[n] = h[n]
    BY <1>5
  <2> QED BY <1>3, <1>4, <2>1 DEF Leads
<1>7. ~(m < n)
  <2> SUFFICES ASSUME m < n PROVE FALSE
    OBVIOUS
  <2>1. m + 1 \in 1 .. n /\ (m + 1) - 1 = m /\ g[m] = h[m]
    BY <1>5
  <2> QED BY <1>3, <1>4, <2>1 DEF Leads
<1>8. n = m
  BY <1>6, <1>7
<1> QED BY <1>3, <1>4, <1>5, <1>8 DEF Leads

-----------------------------------------------------------------------------
\* Every step of the machine within a match is an application of After.

\* What an instruction does is what the functions above say.
Turned ==
  LET F == Fetched
  IN /\ phase = "running" /\ outcome = "none" /\ left > 0
     /\ core' = CoreAfter(F, Got(F, mover, pspace, bank, lastResult))
     /\ EndTurn(QueueAfter(F, queues[mover]))
     /\ pspace' = PspaceAfter(F, mover, pspace, bank)
     /\ lastResult' = ResultsAfter(F, mover, lastResult)

LEMMA FetchedIs ==
  /\ Fetched = FetchedOf(core, queues[mover])
  /\ Fetched.ir = core[Head(queues[mover])]
BY DEF Fetched, FetchedOf, Snapshot

\* An instruction that leaves P-space alone.
LEMMA Quiet ==
  ASSUME NEW F, F.ir.op # "STP", KeepsPspace
  PROVE  /\ pspace' = PspaceAfter(F, mover, pspace, bank)
         /\ lastResult' = ResultsAfter(F, mover, lastResult)
BY DEF KeepsPspace, PspaceAfter, ResultsAfter

LEMMA StepTurned ==
  ASSUME Step
  PROVE  Turned
<1> DEFINE F == Fetched
<1>0. /\ \A ops : Executing(ops) => /\ phase = "running" /\ outcome = "none" /\ left > 0
                                    /\ F.ir.op \in ops
  BY FetchedIs DEF Executing
<1> HIDE DEF F
<1>1. CASE Dat
  BY <1>0, <1>1, Quiet DEF Dat, Turned, F, Keeps, CoreAfter, QueueAfter
<1>2. CASE Nop
  BY <1>0, <1>2, Quiet DEF Nop, Turned, F, Keeps, CoreAfter, QueueAfter, Requeued
<1>3. CASE Mov
  BY <1>0, <1>3, Quiet DEF Mov, Turned, F, Writes, CoreAfter, QueueAfter, Requeued, Target, MovedCell
<1>4. CASE Arithmetic
  BY <1>0, <1>4, Quiet DEF Arithmetic, Turned, F, Writes, CoreAfter, QueueAfter, Requeued, Target, CalcCell
<1>5. CASE Division
  BY <1>0, <1>5, Quiet DEF Division, Turned, F, Writes, Keeps, CoreAfter, QueueAfter, Requeued, Target,
     DividedCell, DividesA, DividesB, Lives
<1>6. CASE Jmp
  BY <1>0, <1>6, Quiet DEF Jmp, Turned, F, Keeps, CoreAfter, QueueAfter, Requeued
<1>7. CASE JmzJmn
  BY <1>0, <1>7, Quiet DEF JmzJmn, Turned, F, Keeps, CoreAfter, QueueAfter, Requeued
<1>8. CASE Djn
  BY <1>0, <1>8, Quiet DEF Djn, Turned, F, Writes, CoreAfter, QueueAfter, Requeued, Target, Lowered
<1>9. CASE Spl
  BY <1>0, <1>9, Quiet DEF Spl, Turned, F, Keeps, CoreAfter, QueueAfter, Requeued
<1>10. CASE Slt
  BY <1>0, <1>10, Quiet DEF Slt, Turned, F, Keeps, CoreAfter, QueueAfter, Requeued, Less
<1>11. CASE Compare
  <2> DEFINE same == F.ir.op # "SNE"
             Put(at) == Append(Tail(queues[mover]), at)
  <2>1. F.ir.op \in {"CMP", "SEQ", "SNE"} /\ phase = "running" /\ outcome = "none" /\ left > 0
    BY <1>0, <1>11 DEF Compare
  <2>2. Keeps(F) /\ KeepsPspace /\ EndTurn(Put(IF Equal(F) = same THEN F.skip ELSE F.next))
    BY <1>11 DEF Compare, Equal, F, Requeued
  <2>3. QueueAfter(F, queues[mover]) = Put(IF Equal(F) = same THEN F.skip ELSE F.next)
    BY <2>1 DEF QueueAfter
  <2>4. core' = CoreAfter(F, Got(F, mover, pspace, bank, lastResult))
    BY <2>1, <2>2 DEF Keeps, CoreAfter
  <2>5. EndTurn(QueueAfter(F, queues[mover]))
    BY <2>2, <2>3
  <2>6. pspace' = PspaceAfter(F, mover, pspace, bank) /\ lastResult' = ResultsAfter(F, mover, lastResult)
    BY <2>1, <2>2, Quiet
  <2> QED BY <2>1, <2>4, <2>5, <2>6 DEF Turned, F
<1>12. CASE Ldp
  BY <1>0, <1>12, Quiet DEF Ldp, Turned, F, Writes, CoreAfter, QueueAfter, Requeued, Target, LoadedCell,
     Got, GetPspace
<1>13. CASE Stp
  BY <1>0, <1>13 DEF Stp, Turned, F, Keeps, CoreAfter, QueueAfter, Requeued, SetPspace, Index, Sent,
     PspaceAfter, ResultsAfter
<1> QED BY <1>1, <1>2, <1>3, <1>4, <1>5, <1>6, <1>7, <1>8, <1>9, <1>10, <1>11, <1>12, <1>13 DEF Step

\* What Seen is made of, while a round is played and between rounds.
LEMMA SeenPlaying ==
  ASSUME phase = "running"
  PROVE  /\ Seen.job = job /\ Seen.seed = seed /\ Seen.round = round /\ Seen.score = score
         /\ Seen.pspace = pspace /\ Seen.bank = bank /\ Seen.results = lastResult
         /\ Seen.play # << >>
         /\ Seen.play[1] = [core |-> core, queues |-> queues, mover |-> mover, left |-> left,
                            outcome |-> outcome]
BY DEF Seen, State, Play

LEMMA SeenWaiting ==
  ASSUME phase # "running"
  PROVE  /\ Seen.job = job /\ Seen.seed = seed /\ Seen.round = round /\ Seen.score = score
         /\ Seen.pspace = pspace /\ Seen.bank = bank /\ Seen.results = lastResult
         /\ Seen.play = << >>
BY DEF Seen, State, Play

\* The steps of a match.
LEMMA StepSeen ==
  ASSUME Step
  PROVE  phase' = "running" /\ job' = job /\ ~Closed(Seen) /\ Seen' = After(Seen)
<1> DEFINE F == Fetched
           q == QueueAfter(F, queues[mover])
           p == [core |-> core, queues |-> queues, mover |-> mover, left |-> left, outcome |-> outcome]
<1>1. /\ phase = "running" /\ outcome = "none" /\ left > 0
      /\ core' = CoreAfter(F, Got(F, mover, pspace, bank, lastResult))
      /\ EndTurn(q)
      /\ pspace' = PspaceAfter(F, mover, pspace, bank)
      /\ lastResult' = ResultsAfter(F, mover, lastResult)
  BY StepTurned DEF Turned
<1>2. F = FetchedOf(p.core, p.queues[p.mover]) /\ q = QueueAfter(F, p.queues[p.mover])
  BY FetchedIs
<1>3. Seen.play # << >> /\ Seen.play[1] = p
  BY <1>1, SeenPlaying
<1> HIDE DEF F, q
<1>4. After(Seen) = Executed(Seen, p, F, q)
  BY <1>1, <1>2, <1>3 DEF After, Stepped
<1>5. /\ queues' = [queues EXCEPT ![mover] = q]
      /\ mover' = IF q = << >> THEN mover ELSE 1 - mover
      /\ left' = IF q = << >> THEN left ELSE left - 1
      /\ outcome' = IF q = << >> THEN Win(1 - mover) ELSE outcome
      /\ bank' = bank /\ job' = job /\ seed' = seed /\ round' = round /\ score' = score
      /\ phase' = phase
  BY <1>1 DEF EndTurn, match
<1>6. Seen' = State(job, seed, round, score, pspace', bank, lastResult',
                    Play(core', queues', mover', left', outcome'))
  BY <1>1, <1>5 DEF Seen
<1>7. Seen' = Executed(Seen, p, F, q)
  BY <1>1, <1>5, <1>6, SeenPlaying DEF Executed
<1> QED BY <1>1, <1>3, <1>4, <1>5, <1>7 DEF Closed

LEMMA TimeUpSeen ==
  ASSUME TimeUp
  PROVE  phase' = "running" /\ job' = job /\ ~Closed(Seen) /\ Seen' = After(Seen)
<1> DEFINE p == [core |-> core, queues |-> queues, mover |-> mover, left |-> left, outcome |-> outcome]
<1>1. Seen.play # << >> /\ Seen.play[1] = p
  BY SeenPlaying DEF TimeUp
<1>2. After(Seen) = Tied(Seen, p)
  BY <1>1 DEF After, TimeUp
<1>3. Seen' = State(job, seed, round, score, pspace, bank, lastResult,
                    Play(core, queues, mover, left, "tie"))
  BY DEF Seen, TimeUp, machine, match
<1>4. Seen' = Tied(Seen, p)
  BY <1>3, SeenPlaying DEF Tied, TimeUp
<1> QED BY <1>1, <1>2, <1>4 DEF Closed, TimeUp, match

LEMMA FinishRoundSeen ==
  ASSUME FinishRound
  PROVE  phase' = "ready" /\ job' = job /\ ~Closed(Seen) /\ Seen' = After(Seen)
<1> DEFINE p == [core |-> core, queues |-> queues, mover |-> mover, left |-> left, outcome |-> outcome]
<1>1. Seen.play # << >> /\ Seen.play[1] = p
  BY SeenPlaying DEF FinishRound
<1>2. After(Seen) = Finished(Seen, p)
  BY <1>1 DEF After, FinishRound
<1>3. Seen' = State(job, seed, round, score', pspace, bank, lastResult', << >>)
  BY DEF Seen, FinishRound
<1>4. Seen' = Finished(Seen, p)
  BY <1>3, SeenPlaying DEF Finished, FinishRound, ResultOf
<1> QED BY <1>1, <1>2, <1>4 DEF Closed, FinishRound

LEMMA StartRoundSeen ==
  ASSUME StartRound
  PROVE  phase' = "running" /\ job' = job /\ ~Closed(Seen) /\ Seen' = After(Seen)
<1>1. Seen.play = << >> /\ Seen.round = round /\ round < Rounds
  BY SeenWaiting DEF StartRound
<1>2. ~Closed(Seen)
  BY <1>1, MarsAssumption DEF Closed
<1>3. After(Seen) = Started(Seen)
  BY <1>1 DEF After
<1>4. Seen' = State(job, seed', round', score, pspace, bank, lastResult,
                    Play(core', queues', mover', left', outcome'))
  BY DEF Seen, StartRound
<1>5. Seen' = Started(Seen)
  BY <1>4, SeenWaiting DEF Started, StartRound
<1> QED BY <1>2, <1>3, <1>5 DEF StartRound

LEMMA BeginMatchSeen ==
  ASSUME NEW j \in Jobs, BeginMatch(j)
  PROVE  phase' = "ready" /\ job' = j /\ Seen' = Fresh(j)
BY DEF BeginMatch, Seen, Fresh

\* What is being played was reached from its beginning, and so was the end of
\* whatever has been played.
Played(e) == \E v : Closed(v) /\ v.score = e.score /\ Reached(Fresh(e.job), v)
Repeated ==
  /\ phase # "idle" => Reached(Fresh(job), Seen)
  /\ ledger \in Seq([job: Jobs, score: [w1: Nat, w2: Nat, ties: Nat]])
  /\ \A i \in 1 .. Len(ledger) : Played(ledger[i])

LEMMA NextRepeated ==
  ASSUME IInv, IInv', Repeated, [Next]_vars
  PROVE  Repeated'
<1>0. ledger' \in Seq([job: Jobs, score: [w1: Nat, w2: Nat, ties: Nat]])
  BY DEF IInv, TypeOK
<1>1. ASSUME NEW j \in Jobs, BeginMatch(j) PROVE Repeated'
  BY <1>0, <1>1, BeginMatchSeen, ReachedAtOnce DEF Repeated, BeginMatch, Played
<1>2. CASE StartRound \/ Step \/ TimeUp \/ FinishRound
  <2>1. phase # "idle" /\ phase' # "idle" /\ ledger' = ledger
    BY <1>2, StepTurned, StepSeen DEF StartRound, TimeUp, FinishRound, Turned, EndTurn
  <2>2. job' = job /\ ~Closed(Seen) /\ Seen' = After(Seen)
    BY <1>2, StartRoundSeen, StepSeen, TimeUpSeen, FinishRoundSeen
  <2>3. Reached(Fresh(job'), Seen')
    BY <2>1, <2>2, ReachedNext DEF Repeated
  <2> QED BY <1>0, <2>1, <2>3 DEF Repeated, Played
<1>3. CASE FinishMatch
  <2> DEFINE e == [job |-> job, score |-> score]
  <2>1. phase = "ready" /\ round = Rounds /\ phase' = "idle" /\ ledger' = Append(ledger, e)
    BY <1>3 DEF FinishMatch
  <2>2. Closed(Seen) /\ Seen.score = e.score /\ Reached(Fresh(e.job), Seen)
    BY <2>1, SeenWaiting DEF Closed, Repeated
  <2>3. Played(e)
    <3> HIDE DEF e
    <3> QED BY <2>2 DEF Played
  <2> HIDE DEF e
  <2>4. ASSUME NEW i \in 1 .. Len(ledger') PROVE Played(ledger'[i])
    BY <2>1, <2>3, <2>4 DEF Repeated
  <2> QED BY <1>0, <2>1, <2>4 DEF Repeated, Played
<1>4. CASE UNCHANGED vars
  BY <1>4 DEF vars, machine, match, turn, Repeated, Seen, Played
<1> QED BY <1>1, <1>2, <1>3, <1>4 DEF Next

\* The score of a match is a function of the match, whatever the machine has
\* played before and however often.
THEOREM MatchesRepeat ==
  ASSUME ThreeCells
  PROVE  Spec => []MatchRepeatable
<1>1. Init => Repeated
  BY DEF Init, Repeated
<1>2. IInv /\ IInv' /\ Repeated /\ [Next]_vars => Repeated'
  BY NextRepeated
<1>3. Repeated => MatchRepeatable
  <2> SUFFICES ASSUME Repeated, NEW i \in 1 .. Len(ledger), NEW k \in 1 .. Len(ledger),
                      ledger[i].job = ledger[k].job
               PROVE  ledger[i].score = ledger[k].score
    BY DEF MatchRepeatable
  <2>1. PICK v : Closed(v) /\ v.score = ledger[i].score /\ Reached(Fresh(ledger[i].job), v)
    BY DEF Repeated, Played
  <2>2. PICK w : Closed(w) /\ w.score = ledger[k].score /\ Reached(Fresh(ledger[k].job), w)
    BY DEF Repeated, Played
  <2>3. v = w
    BY <2>1, <2>2, ReachedOnce
  <2> QED BY <2>1, <2>2, <2>3
<1> QED BY <1>1, <1>2, <1>3, Invariant, PTL DEF Spec
=============================================================================
