# Verification of board-corewar in TLA+

board-corewar plays Core War: two warriors, programs in Redcode, run in turn
on one ring of memory cells until one has no process left or both have spent
their budget of instructions.  The repository has a reference engine, a fast
engine that must agree with it to the cell, two ways of playing many matches
at once, a king-of-the-hill directory that outlives its runs, recorders for
replays, and an assembler.  These modules say what each part does, as its code
does it, and what it is good for; TLC checks that on small instances, and
TLAPS proves the most important of it for every instance.

## 1. Inventory

| Part | Source | State | Operations | Module |
|---|---|---|---|---|
| Machine word | `src/redcode.rs` | none | comparing and building instructions | `Redcode` |
| Position generator | `src/mars.rs` `pmars_rng` | a 32-bit seed, held by the caller | draw | `Rng` |
| Reference engine | `src/mars.rs` | core, process queues, P-space, last results | `begin_match`, `load`, one step per opcode, end of round, `play` | `Mars` |
| Fast engine | `src/fast.rs`, `build.rs` | the same, encoded; ring buffers | the same | `Fast` |
| Interleaved player | `src/multi.rs` | two lanes (engine, match, budget), a count per lane | `start_job`, `start_round`, `settle`, `end_round`, hot loop | `Multi` |
| Thread pool | `src/pool.rs` | a shared counter, workers, their results | claim, play, join | `Pool` |
| Hill | `src/hill.rs` | five files and a lock file | `init`, `open`, `challenge`, `show`, `verify` | `Hill` |
| Trace recorder | `src/trace.rs` | pending writes, frames | `after_step`, `flush`, the last frame | `Replay` |
| Browser replay | `wasm/src/lib.rs` | core snapshot, events, head and length of each queue | `loaded`, `after_step` | `Replay` |
| Assembler | `src/asm.rs` | symbol tables, rewritten lines, active calls, the two limits' counters, `save_oper`, registers | read, rewrite (pass 1), encode (pass 2), evaluate | `Tokens`, `Evaluator`, `Assembler` |
| Command line | `src/main.rs`, `src/report.rs` | none that outlives a run | `tournament`, `versus`: jobs, points, table; `hill` | `Tables`, `Hill` |

How they interact.  `play` of an engine calls `begin_match`, then for each
round draws a position, `load`s the core and runs it; what one round leaves
for the next is P-space and the last results only.  `pool` and `multi` own
several engines and hand them matches: by an atomic counter among threads, or
by alternating two engines in one thread.  `tournament` and `versus` make
one batch of jobs, hand it to either, and find whose score is whose again by
its position in what comes back.  Every warrior played has come through the
assembler, twice where it may move first or second.  `hill` plays its matches
through the pool (`challenge`, `verify`) and keeps what they came to.  The
recorders are observers of the reference engine, which calls them after each
load and each instruction.  The hill's runs are separate processes that share
nothing but the directory.

What is hard in it, part by part, with the properties that make it correct:

- *Engines.*  Snapshots against cells: an operand is copied when it is
  evaluated, the cell may change before the instruction executes.  Process
  limit, budget and ring arithmetic at their boundaries.  A machine is used
  for match after match, so what is left of one must not reach the next.  The
  fast engine must do the same thing in another layout and another loop.
- *Interleaved player.*  Two rounds advance in one loop and end at different
  places in it; whoever is interrupted must be brought to the boundary of a
  pair of moves, which may itself end its round.
- *Thread pool.*  Jobs claimed concurrently, joined in another order than
  played.
- *Hill.*  Several processes, each reading and writing several files, killed
  at any point, with a rules file that people edit at any time.
- *Recorders.*  What is inferred (a pushed process, the last frame) rather
  than told.
- *Assembler.*  A text that is rewritten while it is read, by functions that
  call themselves once per token; counters that cut this off anywhere inside;
  labels that are numbers in one pass and names in the other; marks and
  variables that must be taken back on every way out; an evaluator that tests
  for overflow with operations that overflow.
- *Command line.*  Files that do not assemble, copies and directories between
  the arguments and the jobs; nothing but the order ties a score to a warrior.

`PROJECT.json` lists the hazards one by one, each at its line.

## 2. Modules

`Redcode` holds the sets of opcodes, modifiers and modes, the instruction as a
record, the empty cell and `Config`'s sizes (`PspaceSize` among them, the
core size over its largest divisor up to 16).  `Rng` is `pmars_rng`, on signed
integers, the quotient and the remainder cut towards zero as Rust's are.

`Mars` is the reference engine.  One variable per field of `Mars` (`core`,
`queues`, `pspace`, `bank`, `lastResult`) and one per local of `play` and
`play_round` that outlives a step (`seed`, `round`, `pos`, `score`, `mover` for
`w`, `left` for `steps`, `done`).  One action per arm of the `match` in
`step_noting`, each doing all of it: take the process, copy the instruction,
evaluate both operands with their side effects, execute, requeue or die, and
note the cells written.  `BeginMatch`, `StartRound`, `TimeUp`, `FinishRound` and
`FinishMatch` are the rest of `play`.  `ledger` is a history variable.

`Fast` is the fast engine, with its own encoding of cells, ring buffers with
masked indices, per-modifier tables of halves, and its unrolled loop: `turn`
says which half of a pair comes next and `budget` is counted down before the
instruction.  `FastIsMars` is its promise, "the same semantics as `Mars`", as a
refinement of `Mars` with the mapping written under `Reference`.

`Multi` is the interleaved player.  `calls` is the stack of calls among
`start_job`, `start_round`, `settle` and `end_round`, so that one lane's chain
of calls is made before the other lane is settled, as in the code; `at` is the
place in the four moves of the hot loop.  An instruction is nondeterministic:
it kills its warrior or it does not.  `Pool` is the thread pool, with a match
reduced to the score and the instruction count of its job.  Both rest on the
engine: that a match comes to the same on a used engine is `MatchRepeatable`
of `Mars`.

`Hill` has one variable per file, since files are replaced whole (written
beside and renamed).  A run takes one step for each file it reads or writes,
may crash between any two (the kernel then drops its lock), and other runs and
an editor of `hill.toml` act in between.  The computation inside a challenge
(entrants, missing matches, joining one by one, ranking, trimming, retaining)
is `Challenged`, in the code's order.  The code ranks with a stable sort; here
`Ranked` puts one member after another behind those it does not come before,
which is the same order and can be proved about.  `Verify` is the list of problems
`cw hill verify` reports.

`Replay` extends `Mars` with both recorders.  They act in the very step that
calls them: each action of `Mars` is taken together with what `loaded`,
`after_step` or the end of a round does to the recorders, in a round that is
recorded, and with nothing in one that is not.  `pending` and `frames` are the
fields of `trace.rs`'s `Recorder`, `head`, `len` and `events` those of the
browser's.  `Page` is what a page makes of the events, as the crate's own
`replay` does; `writer` is a history variable.

`Assembler` is `assemble_full` on a source that is already cut into tokens
(`Tokens`; a line is a sequence of them, and spacing is left out).  `stack`
holds the active calls of `trav2`, `automaton`, `equsub`, `blkfor` and the two
`char_` functions, so that a limit met deep inside unwinds through every one of
them as in the code; `asm` has the assembler's own fields; `phase` goes through
reading, pass 1, pass 2 and `done`.  A call made last (`Again`) leaves its
caller counted in `asm.depth`, as the recursion does.  The evaluator is a
constant operator of `Assembler`, so that what is proved of it holds for any;
the runs give it `EvalExpr` of `Evaluator`, which is `eval` and `calc` with
precedence climbing, `save_oper`, the registers and the overflow tests on
integers of a given width.

`Meaning` is the specification the assembler is compared with: a program is a
tree of items, a block is unrolled where it stands, then every symbol is known
at once and an expression is worth what one rule of grouping says.  It has no
passes, no rewriting and no saved operator.  `MCAssembler` draws programs,
writes each as a source, and compares what comes out (`AssemblesAsWritten`).

`Tables` extends `Pool` with what `cw tournament` and `cw versus` do around
it: expanding directories, leaving out what does not assemble, skipping copies,
making the jobs, and adding the scores up to a table.

`Arena` has the programs and matches the engines are checked on.  The `MC`
modules give the constants their values.  Operators whose comment begins
"Gone wrong" are small deliberate mistakes, one beside each definition a
property depends on: with the mistake in place of the definition the property
fails, which shows that the property constrains the code.

## 3. Runs

| Run | Module | Instance | Question |
|---|---|---|---|
| `mars` | `MCMars` | 11 pairs of programs x 3 seeds, 3 rounds, 2 matches | does the reference engine keep its promises? |
| `fast` | `MCFast` | the same, and one-instruction experiments | does the fast engine implement it? |
| `tiny_core` | `MCTinyCore` | a core of two cells | ... also on the smallest core `Config::check` accepts? (no) |
| `multi` | `MCMulti` | 3 matches of 2 rounds, deaths anywhere | is each lane's match the one played alone? |
| `pool` | `MCPool` | 10 command lines, 0 to 4 jobs on 1 to 4 threads | is a batch what one thread plays, and the table each warrior's own? |
| `replay` | `MCReplay` | the programs of `mars`, 3 frame lengths, 2 choices of rounds | do the recordings show the round that was played? |
| `assembler` | `MCAssembler` | programs of up to 3 items out of 12, programs about the limits, 46 faulty sources, over 1100 expressions | does what comes out say what the program means? |
| `assembler_equ` | `MCAssembler` | a text of two lines as an operand | is `EQU` textual substitution? (no) |
| `hill` | `MCHill` | 2 runs, 2 challenges, 1 crash, 1 edit | does a hill survive concurrency, crashes and edits? |
| `hill_ranking` | `MCHill` | 1 run, size made smaller | is a saved table ranked? (no) |
| `hill_init` | `MCHill` | 2 concurrent inits | does init refuse a hill? (no) |
| `hill_stale` | `MCHill` | 2 challenges, 1 edit | do edited rules stay applied? (no) |

### Bounds, and why they are enough

*Engines.*  A core of 18 cells has a P-space of two cells (a core of 16 or
fewer has only cell 0, one of 17 has 17) and leaves two warriors of four
instructions at distance 4 eleven positions.  Three processes make `SPL` meet the limit from both sides; six
instructions each let a warrior fill its queue, die in the middle or live to
the end of the budget, and three rounds let P-space carry a result to a round
that depends on it, with each warrior moving first.  Two matches on one
machine are what repetition needs.  The programs use every opcode between
them; the experiments of `fast` run every opcode with every modifier over mode
pairs that move both operands, on one cell and on two, and every pair of modes
for the three opcodes that tell a snapshot from a cell.  Seeds: one negative,
the generator's fixed point 0, and one above its divisor.

*Multi.*  Three jobs on two lanes make one lane start a second match while the
other is inside its own, and leave one lane alone at the end.  Two rounds start
with different warriors; two instructions each put a round's end at every place
of the loop.
Fewer jobs than lanes, or no rounds, is no start of this run: a lane without a
job is met where the other plays the last one.  The theorems about `Multi`
hold for any number of jobs and rounds; `Returns` is checked for these only.

*Replay.*  With six cycles to a round, a frame every cycle, every four and
every seven makes rounds end on a frame, between two, and before the first;
the programs end them in the first cycle, in the middle of one and at the end
of the budget, with two pushes, one or none, at the process limit and below.
The rounds recorded are the outer two or the middle one, so that a recorder
meets what an unrecorded round left.

*Pool.*  Four workers and four jobs cover no jobs, fewer threads than jobs,
more threads asked for than jobs, and one thread; the rest is proved.  The
command lines have copies, a source that does not assemble for one side or for
either, a directory, members of a hill alone and together with `--against`, one
seed and two, and the points of a hill as well as the usual ones; two are turned
away, and `BatchesFit` has TLC see that the others are all within the four jobs.

*Assembler.*  Every limit is small enough to be met and passed: integers up to
15 (`Huge`), a `FOR` count of three bits (`Wide`), 3 labels before an
instruction (`GrpMax`), 16 nested calls, 12 lines read, 6 written and 11 tokens
to a text (`MaxDepth`, `MaxExpansion`, `MaxOut`, `MaxText`), a core of 7 cells
and warriors of 5 instructions.  The twelve items have labels before and after
their use, texts before and after theirs, a text of several lines, blocks that
run twice, a growing number of times, in one another and not at all, labels
that come twice, `&` counters, registers, `CURLINE`, `ORG` and `END`; three of
them in any order are what it takes for one to change what another means to a
third.  Each faulty source is one way to be refused.  The expressions put
every operator between values at the edge of the integers, and every three of
eight operators in a row, with parentheses, signs and assignments.

*Hill.*  Three warriors that beat one another in a circle are the fewest for
which dropping one changes how the others rank.  The rules vary in every field
the code branches on.  `MaxChallenges`, `MaxEdits`, `MaxCrashes`, `MaxInits`
and `MaxFiles` bound a behaviour: two challenges with a crash between any two
steps of either show a torn save and its repair.  Runs are interchangeable, so
the invariants are checked up to symmetry.

### Fairness

Only the liveness properties `MatchEnds`, `Answers` and the two `Returns` use
it.  An engine, the assembler and the interleaved player run in one thread and
always take their next step: weak fairness of that step; nothing obliges anyone to ask for
another match.  In the pool every thread is scheduled by the operating system,
so each worker and the caller is weakly fair.  Runs of the hill are fair in
what they have begun; being started, crashing and editing are not.

`CHECK_DEADLOCK FALSE` stands where the system stops: a bounded machine that
has played its matches, a batch that has returned, a hill whose bounds are
spent.

## 4. What the runs show

On these instances the reference engine ends its rounds as the queues show,
gives the warriors equal turns, loads them whole, hides P-space, tells the
observer of every changed cell and repeats its matches.  The fast engine is
the reference engine seen through the mapping, to the cell and to the order of
processes.  The interleaved player and the pool return what sequential play
returns.  A recorded round ends in exactly one last frame on its own cycle,
its frames painted in order show each cell's last writer, and its events
replay to the machine's core and queues at every instruction, also at a death
and at a split the limit dropped.  A hill keeps its members' sources, its ages
and arrivals, its reproducible results and every challenge, across a crash at
any point, and the next challenge repairs what the crash left.

A batch's table is made of each warrior's own matches, whatever the schedule,
the copies left out and the files that do not assemble.  The assembler answers
every source, unwinds its calls and marks, reports a limit once and makes no
warrior then, and an accepted program is the one it means.

Writing `Meaning` down showed what the language is, where the documentation is
silent: operators of one precedence group to the left only until a tighter one
came between (`5 - 2 * 1 - 1` is 5 - (2 - 1), so 4), and `==` after such a run
makes the expression bad; a `FOR` count counts modulo 2^16; the least integer
escapes the overflow tests; and the caps count lines read and calls nested, not
text produced.

Five statements of the repository do not hold of the code; each has its run,
whose counterexample is short:

- *A saved hill need not be in order* (`hill_ranking`).  `challenge` ranks the
  table, then trims it, and does not rank again: with a smaller `size`, the
  scores of those that stay no longer count the dropped members, and `verify`
  reports "ranking".
- *`init` can overwrite a hill* (`hill_init`).  It tests for `hill.toml`
  without the lock the other commands take; of two concurrent runs the slower
  one replaces the files of a hill the faster has finished.
- *Edited rules can be undone* (`hill_stale`).  `open` reads `hill.toml` before
  it waits for the lock, and may then save under rules that another challenge
  has already replaced.
- *The engines differ on a core of two cells* (`tiny_core`).  The 2 a tie
  leaves in P-space is not below the core size; the fast engine's increment
  compares, the reference's folds.
- *A text of several lines is no operand* (`assembler_equ`).  Used among
  operands it loses the line being written and counts its instruction twice.

## 5. Proofs

`CommonProofs` holds what several proofs need: that the generator's 64-bit
arithmetic stays within 32 bits (`RngRange`), what a fold over a sequence is,
what a sum over a finite set is (`SumsTo`), and that a finite set can be listed
in any order of it.  `MarsProofs` proves, for every core of three cells or more (`ThreeCells`; two
cells are the exception above), every limit, budget and set of matches
allowed by `MarsAssumption`, which is `Config::check` and the shape of what the
assembler returns:

- `TypesHold`, `OutcomesHold`, `TurnsAreFair`, `LoadingIsIntact`:
  `Spec => []` of the invariants `TypeOK`, `OutcomeSound`, `FairTurns` and
  `LoadedIntact` the run `mars` checks;
- `ResultsCarry`: `ResultCarries`, from `CarriedByFinishRound`, as nothing
  touches a queue or a last result between two rounds;
- `ObserverMissesNothing`, `PspaceIsPrivate`: the action properties
  `WritesNoted` and `PspacePrivate`.

The inductive invariant `IInv` is `TypeOK`, that a match is known whenever the
machine is not fresh (`JobKnown`), `OutcomeSound` and `FairTurns`.
`TypeOK` alone is not inductive: a step reads `Head(queues[mover])`, which is an
address only because a running round's warriors have processes, which is
`OutcomeSound`, which needs to know who is to move and what is left,
`FairTurns`.  The argument for the thirteen opcode actions is made once:
`FetchedSound` says what evaluating the operands yields and which cells it
touched, `EffectOfStep` that every opcode ends in the same kind of effect on
queue, core and P-space, and the invariant is shown for that effect.
`LoadedIntact` follows from arithmetic on the ring: a position keeps the
warriors `MinDistance` apart both ways around (`PositionRange`), so the second
one placed covers no cell of the first.

`MatchesRepeat` shows `MatchRepeatable`, which no invariant over the machine's
variables implies: it compares two matches of one behaviour, and between them
the machine keeps its core, queues and P-space.  The argument is that `Seen`,
the part of the state the rest of a match can depend on, is always what a
number of applications of one function, `After`, make of `Fresh(job)`: each
opcode action is `Stepped`, each round's start and end `Started`, `Tied` and
`Finished`.  `Closed` is met only once on that way (`ReachedOnce`), so two
matches of one job end in the same state, and have the same score.

`ReplayProofs` proves all four properties of the recorders, for every core of
three cells or more, every frame length and every choice of rounds.  A recorded
match is a match of `Mars`, so `IInv` holds of it; to this the inductive
invariant `RInv` adds what the recorders hold (`Recorded`) and three relations
that only together survive a step.  `Follows`: the page made of the events so
far is the machine, and the head and the length the browser's recorder
remembers are those of each queue.  `Framed`: the frames so far are on
multiples of their length, and painting them and then the pending writes gives
the history `writer`.  `Shown`: once the round has ended, the frames are what
`FramesEndWithRound` and `FramesPaintWriters` say.  `Page` and the painting are folds over what was told so far,
so a step extends one by a single application (`HistoryExtends`).  The rest is what one instruction does: it changes only the
cells it notes, at most three, takes the head of the mover's queue and adds at
most two to its back, so that the event tells all of it and fits its bits.

`FastProofs` proves that the fast engine refines the reference
(`FastRefinesMars`: `Spec` implies `FastIsMars`) and its `TypeOK`, for every core of three
cells or more, every limit, budget and set of matches.  That two cells are too
few is the finding of `tiny_core`, so `ThreeCells` cannot be dropped;
`FastAssumption` bounds `MaxProcesses` by 2^30, as `PowersOfTwo` lists the
sizes of a ring.  The mapping decodes the cells and reads each ring from its
head for its length; P-space is the banks in use.  `left` and `done` come from
the budget, which this engine charges before the instruction it pays for: the
one that ended the round is given back.  The inductive invariant `IInv` is
`Typed` and `Playing`: what is running has been loaded, and while nobody has
won both warriors have a process, without which a step would read a slot that
is not live.  The proof goes from the parts to the steps:

- encoding and decoding are inverse on opcodes, modifiers and modes
  (the tables of `Decode` against `O`, `M` and `Enc`), so a decoded cell's
  operand is the reference's in each of the eight modes;
- a ring is a queue: taking from it drops the head of `Live`, pushing appends,
  and never over what is live, as there are more slots than processes
  (`RingSize`);
- a set of pairs of halves writes what the reference's `SetHalves` writes, for
  each modifier;
- with these, one lemma for each opcode action says it is the reference's, and
  others say it of loading (a fold over the code against the reference's
  placing), of starting and finishing rounds and of matches.

The refinement is of safety: that a match ends is shown of `Mars` by TLC.

`PoolProofs` proves `TypeOK`, `ClaimedOnce` and `SameAsSequential` (the scores
and the total of instructions) for every number of jobs and threads, from an
invariant that adds what a worker holds (`HeldScoresRight`), what leaving and
joining imply (`JoinedStored`), and the one-thread path (`PlayedInOrder`).  The
total of instructions rests on a second one, `Counted`: each engine has counted the jobs
its worker played, and the total those of the workers joined, or, with one
thread, of the jobs before the next.  As no job was played by two workers, what
a join adds is a sum over other jobs than before (`SumAdds`).

It also proves `TableAsPlayed` (`TablesArePlayed`), of `TablesSpec` and every command line
(`TablesAssumption`: files and directories are lists, the points are integers,
the scores counts).  The loops that make the jobs and those that add the scores
up are folds, followed step by step like those of the other modules.  While the
jobs are made, the list so far is that of the matches before the next one, each
at the number `Before` counts for it and on all its seeds (`Listed`); so each
number is one match on one seed (`JobsApart`).  A cell, a total and a score of a
tournament are then sums over all jobs (`SumOfSteps`), in which only the
warrior's own jobs count, and the property's are sums over its rivals and seeds:
they are the same because a job each stands for one of these and the others are
worth nothing (`SumMoved`).  That there is an order by score with ties as on the
command line is `ListExists`, for any finite set in any order.

`MultiProofs` proves `TypeOK`, `MovesAlternate`, `RoundsAsPlayed`,
`ScoresInJobOrder` and `StepsAddUp` of the interleaved player for every list of jobs, number of
rounds, budget and placing, and whatever instructions kill (`MultiAssumption`
says what `Config::check` does of the sizes).  None is inductive.  That the
warriors alternate rests on whose turn it is being known wherever a lane is: at
each of the four places of the hot loop (`HotOK`), while a call for it is
pending (`CallOK`), and when the loop may be entered (`IdleOK`).  That a tie
comes after the whole budget rests on the moves made and the budget left adding
up in each of these places (`Going`).  Scores rest on a job belonging to one
lane at a time (`Owned`) and being finished before its lane takes another
(`Finished`).  What a call does is shown to disturb neither the other lane nor
its pending call (`CallStep`), and what leaving the hot loop does is shown once
for all eight ways of leaving it (`LeaveKeeps`).

That the instructions reported are those played (`StepsHold`) needs a second
invariant on top of that one, `Accounted`: wherever a round is about to be
ended, its lane's count is its moves (`EndCounted`), and until the end what the
two engines have counted is the moves of all rounds logged (`Reported`).  The
property's two nested folds are shown to be sums (`SumsTo`): finishing a round
adds one term to one of them (`SumGrows`, `MovedSum`).

`AssemblerProofs` proves `LimitsKept` and `CallsUnwind` for every source, every
evaluator and all values of the limits, and `TypeOK` and `AcceptedFits` for
every evaluator that returns what its signature says.

`LimitsKept`: the calls nested and the lines read stay within their limits, a
limit that is met is reported once, and then no warrior is made.  The depth
after a return is within its limit because each active call remembers the one
it was made at (`Framed`); the expansions are within theirs because a limit
that was met has stopped the lines (`halted => ~vcont` in `Sound`), and only a
line that goes on is expanded.

`CallsUnwind`: a symbol is marked exactly while one call replaces it, and the
counters are those of the blocks that run, in their order, whichever way a call
ends.  A return leaves what the call below has to find, so the invariant `CInv`
speaks of the whole stack: the depths calls were made at never decrease inward
and the outermost was made at none (`Nested`); marks and counters are what the
calls account for, no two calls replace one symbol, and inner blocks have newer
counters (`Linked`), which is why dropping the newest counter drops that of the
block that ends (`CallsUncount`).  Two facts are there for pass 2, which marks
whatever symbol it finds: a counter keeps a name only while its block runs
(`Book`), and in pass 2 no block runs (`Automata`), so what it finds is no
counter.  `CallsOnTop` says what the invariant asks of a top and the rest of
the stack, and from it follow the few moves all actions are made of:
`CallsReturn`, `CallsBecome`, `CallsPush`, `CallsMark`, `CallsUnmark`,
`CallsCount`.  Of the constants it needs only that the predefined symbols are a
sequence of names and values (`AssemblerAssumption`).

`TypeOK` says that the code never indexes what is not there, and that needs an
invariant of its own, `TInv`.  While a call is active or has just returned, the
line it reads exists (`At`), although lists are appended to and calls go back
to lines before theirs: a call that goes on elsewhere when it resumes does so at
a line it saved (`Placed`).  A symbol that stands for a text has one, and it is
not the source, whose first line may be missing (`Texts`).  What
is in the list of counters is one, and counts no further than the 16 bits of a
`FOR` count, which bounds the digits it gives to names (`Counts`).  A line has no opcode only after an error, so encoding one that has
none is never accepted.  Most steps only add to what there is (`Goes`, `Alike`),
which one lemma each carries through.  `TInv` also keeps what the end says of
the count: pass 2 begins with as many instructions as were counted, and either
an error or no more than allowed; it ends with an error, a warning about the
start, or a start within them.  That is `AcceptedFits`.  The theorems suppose
`Evaluates`: that whatever the expression, the registers and `save_oper`, the
evaluator returns a number, registers and a saved operator, which is the type of
`eval_expr` in the code.  `EvalExpr` is recursive and cannot be spoken of in a
proof; `MCAssembler` has TLC see it of all expressions of up to three tokens
(`EvalExprAssumption`).  A literal is not known to be in `STRING` by these
provers, so kinds, words and errors are finite sets spelled out (`Kinds`,
`Errors`), as the code's enums are.

`HillProofs` proves `TypeOK`, `AgesCountArrivals`, `MembersHaveSources`,
`ResultsReproducible`, `NoLostChallenge` and `VerifiesOnceSaved` of the hill for any number of runs,
challenges, crashes, edits, files and warriors, whatever a match comes to.
`HillAssumption` says what the constants are: the rules' fields, that a match
gives a score, and that `None` and `Garbage` are none of the others.

A challenge computes with loops over members and challengers, which are folds
here; a fold is reached by one application after another (`FoldSteps`), so that a loop can be followed to its end.  The
library's induction theorems take the formula as an operator; `AllNaturals`
states induction for a set of numbers instead, from the least element of a well-founded
order.  With that, ranking, keeping and trimming are shown to pick members, each
once (`PickedFrom`), entering to let in only the new (`Newcomers`), and a join to
give the next arrival number, age the others by one and leave the joiner at
nought (`JoinAges`, `JoinedKeeps`).

The inductive invariant `AllSound` says of every place a table or results can
be, on disk or in the memory of a run between reading and writing, that they
are sound (`KeptTables`, `KeptResults`), besides what a run holds where
(`Shape`).  The invariants themselves speak of the files only, and a save
copies memory to a file, so they are not inductive.  Soundness needs no lock:
what is saved was made of something sound.  That no challenge is lost does,
and has an invariant of its own, `Alone`: the lock is one run's from its load
to its last write (`LockHeld`), what it loaded is still on disk (`Current`),
and nobody is still making the hill by then (`OneInit`).  `NoneLost` therefore
assumes `MaxInits = 1`: two inits at once do lose challenges, which is the
finding of `hill_init`.

That `verify` finds nothing after a challenge (`VerifiedOnceSaved`, under the
same assumption) compares the saved table with what ranking it again would
make.  Ranking gives a list in which each comes before the next (`InOrder`);
members with distinct arrival numbers have only one such order; and a score is
a sum over the others, which does not depend on how they are listed (`SumsTo`:
such a sum exists, is unique, and is what the fold gives).  So a table that was
ranked and not trimmed after is its own ranking (`Orderly`).  The invariant
`Saved` carries this from the computation through the run's memory to the two
files, and says what is torn in between: who is about to save the table has its
own results on disk.

Only model-checked: liveness, which no prover here can do; and of the
assembler what compares it with `Meaning`, whose definitions are
recursive, so that nothing can be proved of them here.  That the code is as long
as was counted is part of `AssemblesAsWritten`, and not of `AcceptedFits`: it
holds of the sources of that run, and not of every source, since a text of
several lines among operands is counted as an instruction too many (the finding
of `EquIsTextual`).

## 6. Not modelled

SHA-256, JSON, TOML, file names, times and printed tables: the hill's model
takes a warrior as its id and a match as a constant function of parameters,
warriors in order and seed.  The benchmark counter of the engines.  The
generated dispatch of `build.rs`, which is the decoding `Fast` models.

Of the assembler: the cutting of a line into tokens, so spacing, the digits two
substituted numbers run together and `\` continuation; `;name`, `;author` and
the other comments; the size of the source; what the diagnostics say beside
their kind and line.  Of the command line: the parsing of arguments, salted
seeds, and `check`, `list`, `pair`, `battle` and `trace`, which call one
function each and print; the texts of the reports.  Of the browser's crate: the
session and the C functions around the recorder, which hand texts and buffers
over in one thread, between calls that keep nothing but them.

## 7. Plan

Done, in this order: `Redcode`, `Rng`, `Mars`, `MarsProofs`, `Fast`, `Hill`,
`Pool`, `PoolProofs`, `Multi`, `Replay`, `Tokens`, `Evaluator`, `Assembler`,
`Meaning`, `AssemblerProofs`, `Tables`, `CommonProofs`, `MultiProofs`,
`HillProofs`, `ReplayProofs`, `FastProofs`.

The plan is done; what stays with TLC is named at the end of section 5.
