-------------------------------- MODULE Mars --------------------------------
(***************************************************************************)
(* The reference engine, mars.rs: a machine that plays matches one after   *)
(* another, a match being Rounds rounds of two warriors on a shared core.  *)
(* One action per opcode family (an arm of step_noting's match), one for   *)
(* each of begin_match, load and the end of a round.                       *)
(*                                                                         *)
(* The control is the code's; `steps`, the benchmark counter, is left out, *)
(* and the cells an instruction writes are noted as a set (every observer  *)
(* sorts them and drops repeats).  ledger is a history variable.           *)
(***************************************************************************)
EXTENDS Redcode, Rng

CONSTANTS
  MaxProcesses,  \* processes a warrior may have, `-p`
  MaxCycles,     \* instructions each warrior gets per round, `-c`
  MinDistance,   \* cells between the two load addresses, `-d`
  Rounds,        \* rounds of a match, `-r`
  Jobs,          \* the matches that may be asked for
  NoJob,         \* no match asked for yet
  MaxMatches,    \* bound: matches played by one machine
  Noting         \* whether steps note what they write (round_observed) or not

W == {0, 1}

\* Config::check, and what a match is: two assembled warriors and a seed.
ASSUME MarsAssumption ==
  /\ MaxProcesses \in Nat \ {0}
  /\ MaxCycles \in Nat \ {0}
  /\ MinDistance \in Nat /\ MinDistance >= MaxLength
  /\ CoreSize >= 2 * MinDistance
  /\ Rounds \in Nat /\ NoJob \notin Jobs
  /\ MaxMatches \in Nat /\ Noting \in BOOLEAN
  /\ Jobs \subseteq [team: [W -> Warrior], seed: I32]
  /\ \A j \in Jobs : \A w \in W : Len(j.team[w].code) <= MaxLength

VARIABLES
  core,        \* Mars.core
  queues,      \* each warrior's processes, oldest first
  pspace,      \* the P-space banks of the match
  bank,        \* the bank each warrior uses
  lastResult,  \* P-space cell 0 of each warrior
  job,         \* the match being played (arguments of play)
  seed,        \* play's seed, advanced every round
  round,       \* play's r: rounds started
  pos,         \* load address of warrior 1 this round
  score,       \* play's score
  mover,       \* play_round's w
  left,        \* play_round's steps: instructions until the round is a tie
  done,        \* instructions executed this round
  outcome,     \* "none" while the round runs
  phase,       \* "idle" between matches, "ready" between rounds, "running"
  written,     \* the cells the last instruction wrote
  ledger       \* history: every match played, with its score

machine == <<core, queues, pspace, bank, lastResult>>
match == <<job, seed, round, pos, score>>
turn == <<mover, left, done, outcome>>
vars == <<machine, match, turn, phase, written, ledger>>

-----------------------------------------------------------------------------
\* Arithmetic on the core's ring: fold once, never divide.
Add(x, y) == IF x + y >= CoreSize THEN x + y - CoreSize ELSE x + y
Inc(x) == Add(x, 1)
Dec(x) == IF x = 0 THEN CoreSize - 1 ELSE x - 1

PCells == 0 .. PspaceSize - 1
FreshBank == [i \in PCells |-> 0]

\* P-space cell 0 is private to each warrior, the others belong to its bank.
GetPspace(w, idx) == LET i == idx % PspaceSize
                     IN IF i = 0 THEN lastResult[w] ELSE pspace[bank[w]][i]

SetPspace(w, idx, v) ==
  LET i == idx % PspaceSize
  IN IF i = 0
     THEN /\ lastResult' = [lastResult EXCEPT ![w] = v]
          /\ UNCHANGED pspace
     ELSE /\ pspace' = [pspace EXCEPT ![bank[w]][i] = v]
          /\ UNCHANGED lastResult

-----------------------------------------------------------------------------
\* Operand evaluation.

ViaA(mode) == mode \in {"AIndirect", "APredec", "APostinc"}

Predecrement(c, p, mode) ==
  CASE mode = "APredec" -> [c EXCEPT ![p].a = Dec(@)]
    [] mode = "BPredec" -> [c EXCEPT ![p].b = Dec(@)]
    [] OTHER            -> c

Postincrement(c, p, mode) ==
  CASE mode = "APostinc" -> [c EXCEPT ![p].a = Inc(@)]
    [] mode = "BPostinc" -> [c EXCEPT ![p].b = Inc(@)]
    [] OTHER             -> c

\* Where the operand points (offset and address), the cell it points to as
\* it is after the predecrement and before the postincrement, and the core
\* and the noted cell the evaluation leaves.  p is the cell the field names,
\* pre the core after the predecrement.
Pointed(pre, pc, p, mode, ptr) ==
  [ptr   |-> ptr,
   at    |-> Add(pc, ptr),
   cell  |-> pre[Add(pc, ptr)],
   core  |-> Postincrement(pre, p, mode),
   wrote |-> IF mode \in {"APredec", "BPredec", "APostinc", "BPostinc"}
             THEN {p} ELSE {}]

Through(pre, pc, p, mode, field) ==
  Pointed(pre, pc, p, mode,
          IF mode = "Direct" THEN field
          ELSE Add(field, IF ViaA(mode) THEN pre[p].a ELSE pre[p].b))

\* An immediate operand's numbers are those of ir, the instruction as it was
\* fetched.
Operand(c, pc, ir, mode, field) ==
  IF mode = "Immediate"
  THEN [ptr |-> 0, at |-> pc, cell |-> ir, core |-> c, wrote |-> {}]
  ELSE LET p == Add(pc, field)
       IN Through(Predecrement(c, p, mode), pc, p, mode, field)

\* What an instruction works with, of its two operands.
Snapshot(pc, ir, A, B) ==
  [ir    |-> ir,
   m     |-> ir.mod,
   air   |-> A.cell,
   src   |-> A.at,
   bir   |-> B.cell,
   t     |-> Add(pc, B.ptr),
   core  |-> B.core,
   wrote |-> A.wrote \cup B.wrote,
   next  |-> Inc(pc),
   jump  |-> Add(pc, A.ptr),
   skip  |-> Add(pc, 2)]

\* What every instruction does before it executes: take the process, copy
\* the instruction, evaluate the A operand, then the B operand.
Fetched ==
  LET pc == Head(queues[mover])
      ir == core[pc]
      A  == Operand(core, pc, ir, ir.am, ir.a)
      B  == Operand(A.core, pc, ir, ir.bm, ir.b)
  IN Snapshot(pc, ir, A, B)

-----------------------------------------------------------------------------
\* What a modifier selects: the halves of the target cell, and the half of
\* the source that goes with each.

OnA(m) == m \in {"A", "BA", "F", "X", "I"}
OnB(m) == m \in {"B", "AB", "F", "X", "I"}
ForA(m, s) == IF m \in {"BA", "X"} THEN s.b ELSE s.a
ForB(m, s) == IF m \in {"AB", "X"} THEN s.a ELSE s.b

SetHalves(c, setA, x, setB, y) ==
  [c EXCEPT !.a = IF setA THEN x ELSE @, !.b = IF setB THEN y ELSE @]

\* ADD, SUB and MUL of target number x and source number y.
Calc(op, x, y) ==
  CASE op = "ADD" -> (x + y) % CoreSize
    [] op = "SUB" -> (x + CoreSize - y) % CoreSize
    [] op = "MUL" -> (x * y) % CoreSize

\* DIV and MOD, for a divisor other than zero.
Quotient(op, x, y) == IF op = "DIV" THEN x \div y ELSE x % y

-----------------------------------------------------------------------------
\* The shape of a step.  A warrior whose last process dies ends the round;
\* otherwise the other warrior is to move.

Win(w) == IF w = 0 THEN "win0" ELSE "win1"

Executing(ops) ==
  /\ phase = "running" /\ outcome = "none" /\ left > 0
  /\ core[Head(queues[mover])].op \in ops

Requeued(at) == Append(Tail(queues[mover]), at)

\* Gone wrong: a death on the last instruction is a tie.
BudgetFirst(q) ==
  /\ queues' = [queues EXCEPT ![mover] = q]
  /\ done' = done + 1
  /\ IF q = << >> /\ left > 1
     THEN outcome' = Win(1 - mover) /\ UNCHANGED <<mover, left>>
     ELSE mover' = 1 - mover /\ left' = left - 1 /\ UNCHANGED outcome
  /\ UNCHANGED <<bank, match, phase, ledger>>

\* Gone wrong: a warrior moves again after a split.
SplitsAgain(q) ==
  /\ queues' = [queues EXCEPT ![mover] = q]
  /\ done' = done + 1
  /\ IF q = << >>
     THEN outcome' = Win(1 - mover) /\ UNCHANGED <<mover, left>>
     ELSE /\ mover' = IF Len(q) > Len(queues[mover]) THEN mover ELSE 1 - mover
          /\ left' = left - 1 /\ UNCHANGED outcome
  /\ UNCHANGED <<bank, match, phase, ledger>>

EndTurn(q) ==
  /\ queues' = [queues EXCEPT ![mover] = q]
  /\ done' = done + 1
  /\ IF q = << >>
     THEN outcome' = Win(1 - mover) /\ UNCHANGED <<mover, left>>
     ELSE mover' = 1 - mover /\ left' = left - 1 /\ UNCHANGED outcome
  /\ UNCHANGED <<bank, match, phase, ledger>>

\* The two implementations of Notes: a list of cells, or nothing.
Note(cells) == written' = IF Noting THEN cells ELSE {}

\* Gone wrong: what the operands wrote is not noted.
NotesTarget(F, cell) ==
  /\ core' = [F.core EXCEPT ![F.t] = cell]
  /\ Note({F.t})

\* The instruction writes cell t; or only its operands wrote.
Writes(F, cell) ==
  /\ core' = [F.core EXCEPT ![F.t] = cell]
  /\ Note(F.wrote \cup {F.t})
Keeps(F) ==
  /\ core' = F.core
  /\ Note(F.wrote)

KeepsPspace == UNCHANGED <<pspace, lastResult>>

Dat ==
  /\ Executing({"DAT"})
  /\ Keeps(Fetched)
  /\ EndTurn(Tail(queues[mover]))
  /\ KeepsPspace

Nop ==
  /\ Executing({"NOP"})
  /\ LET F == Fetched IN Keeps(F) /\ EndTurn(Requeued(F.next))
  /\ KeepsPspace

\* MOV.I copies the source cell as it is now, with the numbers it had when
\* the operand was evaluated.
Mov ==
  /\ Executing({"MOV"})
  /\ LET F    == Fetched
         cell == IF F.m = "I"
                 THEN [F.core[F.src] EXCEPT !.a = F.air.a, !.b = F.air.b]
                 ELSE SetHalves(F.core[F.t], OnA(F.m), ForA(F.m, F.air),
                                             OnB(F.m), ForB(F.m, F.air))
     IN Writes(F, cell) /\ EndTurn(Requeued(F.next))
  /\ KeepsPspace

Arithmetic ==
  /\ Executing({"ADD", "SUB", "MUL"})
  /\ LET F == Fetched
         x == Calc(F.ir.op, F.bir.a, ForA(F.m, F.air))
         y == Calc(F.ir.op, F.bir.b, ForB(F.m, F.air))
     IN /\ Writes(F, SetHalves(F.core[F.t], OnA(F.m), x, OnB(F.m), y))
        /\ EndTurn(Requeued(F.next))
  /\ KeepsPspace

\* Division by zero kills the process and leaves its half unwritten; the
\* other half is still written.
Division ==
  /\ Executing({"DIV", "MOD"})
  /\ LET F  == Fetched
         x  == ForA(F.m, F.air)
         y  == ForB(F.m, F.air)
         wa == OnA(F.m) /\ x # 0
         wb == OnB(F.m) /\ y # 0
         alive == (OnA(F.m) => x # 0) /\ (OnB(F.m) => y # 0)
     IN /\ IF wa \/ wb
           THEN Writes(F, SetHalves(F.core[F.t],
                            wa, IF wa THEN Quotient(F.ir.op, F.bir.a, x) ELSE 0,
                            wb, IF wb THEN Quotient(F.ir.op, F.bir.b, y) ELSE 0))
           ELSE Keeps(F)
        /\ EndTurn(IF alive THEN Requeued(F.next) ELSE Tail(queues[mover]))
  /\ KeepsPspace

Jmp ==
  /\ Executing({"JMP"})
  /\ LET F == Fetched IN Keeps(F) /\ EndTurn(Requeued(F.jump))
  /\ KeepsPspace

\* The numbers the modifier selects are all zero.
Zero(m, s) == (OnA(m) => s.a = 0) /\ (OnB(m) => s.b = 0)

JmzJmn ==
  /\ Executing({"JMZ", "JMN"})
  /\ LET F    == Fetched
         take == Zero(F.m, F.bir) = (F.ir.op = "JMZ")
     IN Keeps(F) /\ EndTurn(Requeued(IF take THEN F.jump ELSE F.next))
  /\ KeepsPspace

\* The cell is decremented as it is at execution, the decision is taken on
\* the decremented snapshot.
Djn ==
  /\ Executing({"DJN"})
  /\ LET F    == Fetched
         Down(c) == SetHalves(c, OnA(F.m), Dec(c.a), OnB(F.m), Dec(c.b))
         take == ~Zero(F.m, Down(F.bir))
     IN /\ Writes(F, Down(F.core[F.t]))
        /\ EndTurn(Requeued(IF take THEN F.jump ELSE F.next))
  /\ KeepsPspace

\* Gone wrong: one process too many.
LimitReached(q) == Len(q) > MaxProcesses
Full(q) == Len(q) >= MaxProcesses

\* The next instruction is queued before the new process, which is dropped
\* when the queue is full.
Spl ==
  /\ Executing({"SPL"})
  /\ LET F == Fetched
         q == Requeued(F.next)
     IN /\ Keeps(F)
        /\ EndTurn(IF Full(q) THEN q ELSE Append(q, F.jump))
  /\ KeepsPspace

Slt ==
  /\ Executing({"SLT"})
  /\ LET F  == Fetched
         lt == /\ OnA(F.m) => ForA(F.m, F.air) < F.bir.a
               /\ OnB(F.m) => ForB(F.m, F.air) < F.bir.b
     IN Keeps(F) /\ EndTurn(Requeued(IF lt THEN F.skip ELSE F.next))
  /\ KeepsPspace

\* CMP and SEQ skip on equality, SNE on inequality.  The I modifier also
\* compares what the two cells are at execution, numbers aside.
Compare ==
  /\ Executing({"CMP", "SEQ", "SNE"})
  /\ LET F  == Fetched
         x  == F.core[F.src]
         y  == F.core[F.t]
         eq == /\ OnA(F.m) => ForA(F.m, F.air) = F.bir.a
               /\ OnB(F.m) => ForB(F.m, F.air) = F.bir.b
               /\ F.m = "I" => /\ x.op = y.op /\ x.mod = y.mod
                               /\ x.am = y.am /\ x.bm = y.bm
         take == eq = (F.ir.op # "SNE")
     IN Keeps(F) /\ EndTurn(Requeued(IF take THEN F.skip ELSE F.next))
  /\ KeepsPspace

Ldp ==
  /\ Executing({"LDP"})
  /\ LET F == Fetched
         v == GetPspace(mover, IF F.m \in {"A", "AB"} THEN F.air.a ELSE F.air.b)
         toA == F.m \in {"A", "BA"}
     IN Writes(F, SetHalves(F.core[F.t], toA, v, ~toA, v)) /\ EndTurn(Requeued(F.next))
  /\ KeepsPspace

Stp ==
  /\ Executing({"STP"})
  /\ LET F   == Fetched
         idx == IF F.m \in {"A", "BA"} THEN F.bir.a ELSE F.bir.b
         v   == IF F.m \in {"A", "AB"} THEN F.air.a ELSE F.air.b
     IN Keeps(F) /\ SetPspace(mover, idx, v) /\ EndTurn(Requeued(F.next))

Step == \/ Dat \/ Nop \/ Mov \/ Arithmetic \/ Division \/ Jmp \/ JmzJmn \/ Djn
        \/ Spl \/ Slt \/ Compare \/ Ldp \/ Stp

-----------------------------------------------------------------------------
\* Matches and rounds.

NoScore == [w1 |-> 0, w2 |-> 0, ties |-> 0]

\* Gone wrong: two warriors without a PIN share.
SamePin(j) == j.team[1].pin = j.team[0].pin

Shared(j) == j.team[0].pin # NoPin /\ j.team[1].pin = j.team[0].pin

\* Gone wrong: cell 0 is left from the match before.
KeptResults == lastResult

FreshResults == [w \in W |-> CoreSize - 1]

\* begin_match: fresh P-space, one bank for two warriors with the same PIN.
BeginMatch(j) ==
  /\ phase = "idle" /\ Len(ledger) < MaxMatches
  /\ bank' = [w \in W |-> IF Shared(j) THEN 0 ELSE w]
  /\ pspace' = [b \in (IF Shared(j) THEN {0} ELSE W) |-> FreshBank]
  /\ lastResult' = FreshResults
  /\ job' = j /\ seed' = j.seed /\ round' = 0 /\ score' = NoScore
  /\ phase' = "ready"
  /\ UNCHANGED <<core, queues, pos, turn, written, ledger>>

\* Gone wrong: the distance is kept one way around the ring only.
PositionOneSided(s) == MinDistance + (s % (CoreSize - MinDistance))

\* Where a round puts warrior 1: Rust's rem_euclid is TLA+'s %.
Position(s) == MinDistance + (s % (CoreSize + 1 - 2 * MinDistance))

\* Cell i of a core loaded with warrior v at p over core c.
Placed(c, v, p) ==
  [i \in Addr |-> LET k == (i - p) % CoreSize
                  IN IF k < Len(v.code) THEN v.code[k + 1] ELSE c[i]]

\* The head of a round: choose the position, load the warriors, give each
\* one process, and let warrior r % 2 move first.
StartRound ==
  /\ phase = "ready" /\ round < Rounds
  /\ LET p     == Position(seed)
         blank == [i \in Addr |-> EMPTY]
     IN /\ pos' = p
        /\ core' = Placed(Placed(blank, job.team[0], 0), job.team[1], p)
        /\ queues' = [w \in W |-> << Add(IF w = 0 THEN 0 ELSE p, job.team[w].start) >>]
  /\ seed' = PmarsRng(seed)
  /\ mover' = round % 2 /\ left' = 2 * MaxCycles /\ done' = 0
  /\ outcome' = "none"
  /\ round' = round + 1
  /\ phase' = "running"
  /\ written' = {}
  /\ UNCHANGED <<pspace, bank, lastResult, job, score, ledger>>

\* Both warriors outlived their budget.
TimeUp ==
  /\ phase = "running" /\ outcome = "none" /\ left = 0
  /\ outcome' = "tie"
  /\ UNCHANGED <<machine, match, mover, left, done, phase, written, ledger>>

\* Gone wrong: warrior 0's result for both.
ResultOfFirst(w) == IF outcome = "tie" THEN 2 ELSE IF outcome = Win(0) THEN 1 ELSE 0

\* What P-space cell 0 of warrior w is told of a round.
ResultOf(w) == IF outcome = "tie" THEN 2 ELSE IF outcome = Win(w) THEN 1 ELSE 0

\* The result goes to P-space cell 0 of each warrior and to the score.
FinishRound ==
  /\ phase = "running" /\ outcome # "none"
  /\ lastResult' = [w \in W |-> ResultOf(w)]
  /\ score' = CASE outcome = "win0" -> [score EXCEPT !.w1 = @ + 1]
                [] outcome = "win1" -> [score EXCEPT !.w2 = @ + 1]
                [] outcome = "tie"  -> [score EXCEPT !.ties = @ + 1]
  /\ phase' = "ready"
  /\ UNCHANGED <<core, queues, pspace, bank, job, seed, round, pos, turn, written, ledger>>

\* Gone wrong: one round too many is waited for.
OneRoundMore ==
  /\ phase = "ready" /\ round > Rounds
  /\ ledger' = Append(ledger, [job |-> job, score |-> score])
  /\ phase' = "idle"
  /\ UNCHANGED <<machine, match, turn, written>>

\* play returns its score; the machine may be given another match.
FinishMatch ==
  /\ phase = "ready" /\ round = Rounds
  /\ ledger' = Append(ledger, [job |-> job, score |-> score])
  /\ phase' = "idle"
  /\ UNCHANGED <<machine, match, turn, written>>

\* Mars::new
Init ==
  /\ core = [i \in Addr |-> EMPTY]
  /\ queues = [w \in W |-> << >>]
  /\ pspace = [w \in W |-> FreshBank]
  /\ bank = [w \in W |-> w]
  /\ lastResult = [w \in W |-> CoreSize - 1]
  /\ job = NoJob
  /\ seed = 0 /\ round = 0 /\ pos = 0 /\ score = NoScore
  /\ mover = 0 /\ left = 0 /\ done = 0 /\ outcome = "none"
  /\ phase = "idle" /\ written = {} /\ ledger = << >>

Next == \/ \E j \in Jobs : BeginMatch(j)
        \/ StartRound \/ Step \/ TimeUp \/ FinishRound \/ FinishMatch

\* The engine is a loop: while it has something to do, it does it.
Spec == Init /\ [][Next]_vars /\ WF_vars(StartRound \/ Step \/ TimeUp \/ FinishRound \/ FinishMatch)

-----------------------------------------------------------------------------
\* Properties.

\* Every variable holds what the Rust types and the normalization of numbers
\* allow: addresses and P-space values below the core size (of three cells or
\* more, see MCTinyCore), no queue beyond the process limit.
TypeOK ==
  /\ core \in [Addr -> Instruction]
  /\ queues \in [W -> Seq(Addr)]
  /\ \A w \in W : Len(queues[w]) <= MaxProcesses
  /\ bank \in [W -> W]
  /\ pspace \in [{bank[w] : w \in W} -> [PCells -> Addr]]
  /\ lastResult \in [W -> Addr]
  /\ job \in Jobs \cup {NoJob}
  /\ seed \in I32
  /\ round \in 0 .. Rounds
  /\ pos \in Addr
  /\ score \in [w1: Nat, w2: Nat, ties: Nat]
  /\ mover \in W
  /\ left \in 0 .. 2 * MaxCycles
  /\ done \in 0 .. 2 * MaxCycles
  /\ outcome \in {"none", "win0", "win1", "tie"}
  /\ phase \in {"idle", "ready", "running"}
  /\ written \subseteq Addr
  /\ ledger \in Seq([job: Jobs, score: [w1: Nat, w2: Nat, ties: Nat]])

\* A round has the outcome its queues show: while it runs both warriors have
\* a process, a winner has one and the loser has none, and a tie has both
\* alive with the whole budget spent; a death on the last instruction of the
\* budget is a win, never a tie.
OutcomeSound ==
  phase = "running" =>
    /\ \A w \in W : queues[w] = << >> <=> outcome = Win(1 - w)
    /\ outcome = "tie" => left = 0 /\ done = 2 * MaxCycles

\* The warriors alternate from the one that started, so neither ever gets
\* more than MaxCycles instructions nor one more than its turn; the budget
\* and the count of instructions done are two views of the same number.
FairTurns ==
  phase = "running" =>
    LET fatal == IF outcome \in {"win0", "win1"} THEN 1 ELSE 0
    IN /\ done + left = 2 * MaxCycles + fatal
       /\ mover = (round - 1 + done - fatal) % 2

\* When a round starts, each warrior lies in the core entire and unmixed
\* with the other, its process on its start instruction: the position drawn
\* from any seed keeps them MinDistance apart both ways around the ring.
LoadedIntact ==
  phase = "running" /\ done = 0 =>
    \A w \in W :
      LET base == IF w = 0 THEN 0 ELSE pos
          code == job.team[w].code
      IN /\ \A k \in 1 .. Len(code) : core[(base + k - 1) % CoreSize] = code[k]
         /\ queues[w] = << (base + job.team[w].start) % CoreSize >>

\* P-space cell 0 carries to the next round what happened in this one: zero
\* for a warrior that died, otherwise the number of survivors.
ResultCarries ==
  phase = "ready" /\ round > 0 =>
    \A w \in W :
      lastResult[w] = IF queues[w] = << >> THEN 0
                      ELSE IF queues[1 - w] = << >> THEN 1 ELSE 2

\* A machine that has played other matches before plays a match as a new one
\* does: nothing of an earlier match (core, queues, P-space, banks, results)
\* reaches a later one.
MatchRepeatable ==
  \A i, k \in 1 .. Len(ledger) :
    ledger[i].job = ledger[k].job => ledger[i].score = ledger[k].score

\* The observer hears of every cell an instruction changes: a viewer that
\* redraws only the cells in `written` never shows a stale core.
WritesNoted ==
  [][Noting /\ phase = "running" /\ phase' = "running" =>
       \A i \in Addr : core'[i] # core[i] => i \in written']_vars

\* An instruction of one warrior changes no P-space cell another warrior can
\* read with LDP, unless both declared the same PIN, and never its cell 0.
PspacePrivate ==
  [][phase = "running" /\ phase' = "running" =>
       \A w \in W \ {mover} : \A i \in PCells :
         GetPspace(w, i)' # GetPspace(w, i) =>
           /\ i # 0
           /\ job.team[0].pin = job.team[1].pin /\ job.team[0].pin # NoPin]_vars

\* Every match that begins ends: the budget bounds each round and the
\* machine goes on to the last one.
MatchEnds == (phase = "ready") ~> (phase = "idle")
=============================================================================
