------------------------------- MODULE Multi -------------------------------
(***************************************************************************)
(* The interleaved player, multi.rs: one thread, two lanes, each with an   *)
(* engine and a match of its own, their instructions taken in turn.  The   *)
(* hot loop stops in the middle of a pair of moves whenever a round ends,  *)
(* and the other lane is then `settled`: the move it owes warrior 1 is     *)
(* paid before the loop is entered again from the top.                     *)
(*                                                                         *)
(* start_job, start_round, settle and end_round call one another until the *)
(* lane has a round to play; `calls` is what is still to be called, first  *)
(* first.  What an instruction does is left to Mars and Fast: here it      *)
(* kills its warrior's last process or it does not.                        *)
(***************************************************************************)
EXTENDS Rng, SequencesExt

CONSTANTS
  Seeds,       \* the seed of each job; job numbers start at 0
  Rounds,      \* rounds of a match
  MaxCycles, MinDistance, CoreSize,  \* Config
  NoJob

Lanes == {0, 1}
NumJobs == Len(Seeds)
JobNumbers == 0 .. NumJobs - 1

ASSUME MultiAssumption ==
  /\ Seeds \in Seq(I32)
  /\ Rounds \in Nat /\ MaxCycles \in Nat \ {0}
  /\ MinDistance \in Nat \ {0} /\ CoreSize \in Nat /\ CoreSize >= 2 * MinDistance
  /\ NoJob \notin JobNumbers

VARIABLES
  lane,     \* the two Lanes
  calls,    \* calls still to be made, the next one first
  budgets,  \* b0 and b1, the hot loop's own count
  at,       \* where the hot loop is in its four moves; None outside it
  next,     \* the next job to start
  results,  \* the score of each job
  steps,    \* Multi.steps, set when play_all returns
  returned, \* whether it has
  log       \* history: the rounds each job has played

vars == <<lane, calls, budgets, at, next, results, steps, returned, log>>

None == -1

NoScore == [w1 |-> 0, w2 |-> 0, ties |-> 0]
Won(w) == IF w = 0 THEN "win0" ELSE "win1"

\* moves (who moved, in order) and fell (whose last process died) are what
\* the lane's engine has seen of this round: history.
FreshLane == [job |-> NoJob, round |-> 0, seed |-> 0, pos |-> 0, score |-> NoScore,
              budget |-> 0, executed |-> 0, owes |-> FALSE, engineSteps |-> 0,
              moves |-> << >>, fell |-> None]

\* The head of `calls` is made, and makes these calls before the others.
Calls(more) == calls' = more \o Tail(calls)
Calling(name) == calls # << >> /\ Head(calls).name = name
Call(name, l) == [name |-> name, lane |-> l]
EndCall(l, outcome) == [name |-> "end_round", lane |-> l, outcome |-> outcome]

\* A step of warrior w in the engine of a lane, the last of its life or not.
Stepped(L, w, alive) ==
  [L EXCEPT !.moves = Append(@, w), !.fell = IF alive THEN @ ELSE w]

-----------------------------------------------------------------------------
StartJob ==
  /\ Calling("start_job")
  /\ LET l == Head(calls).lane
     IN IF next >= NumJobs \/ Rounds = 0
        THEN /\ lane' = [lane EXCEPT ![l].job = NoJob]
             /\ Calls(<< >>) /\ UNCHANGED next
        ELSE /\ next' = next + 1
             /\ lane' = [lane EXCEPT ![l].job = next, ![l].round = 0,
                                     ![l].seed = Seeds[next + 1], ![l].score = NoScore]
             /\ Calls(<< Call("start_round", l) >>)
  /\ UNCHANGED <<budgets, at, results, steps, returned, log>>

Position(s) == MinDistance + (s % (CoreSize + 1 - 2 * MinDistance))

\* Odd rounds start with warrior 1, as if warrior 0 had just moved.
StartRound ==
  /\ Calling("start_round")
  /\ LET l == Head(calls).lane
     IN /\ lane' = [lane EXCEPT ![l].pos = Position(lane[l].seed),
                                ![l].seed = PmarsRng(@),
                                ![l].budget = 2 * MaxCycles,
                                ![l].executed = 0,
                                ![l].owes = (lane[l].round % 2 = 1)]
        /\ Calls(<< Call("settle", l) >>)
  /\ UNCHANGED <<budgets, at, next, results, steps, returned, log>>

\* Gone wrong: the budget is not looked at.
SettleUnchecked ==
  /\ Calling("settle")
  /\ LET l == Head(calls).lane
         L == [lane[l] EXCEPT !.owes = FALSE]
     IN IF ~lane[l].owes \/ lane[l].job = NoJob
        THEN Calls(<< >>) /\ UNCHANGED lane
        ELSE \E alive \in BOOLEAN :
               /\ lane' = [lane EXCEPT ![l] =
                    Stepped([L EXCEPT !.budget = @ - 1, !.executed = @ + 1], 1, alive)]
               /\ Calls(IF alive THEN << >> ELSE << EndCall(l, "win0") >>)
  /\ UNCHANGED <<budgets, at, next, results, steps, returned, log>>

\* A lane that owes warrior 1 a move: pay it, unless the budget is spent.
Settle ==
  /\ Calling("settle")
  /\ LET l == Head(calls).lane
         L == [lane[l] EXCEPT !.owes = FALSE]
     IN IF ~lane[l].owes \/ lane[l].job = NoJob
        THEN Calls(<< >>) /\ UNCHANGED lane
        ELSE IF L.budget = 0
        THEN Calls(<< EndCall(l, "tie") >>) /\ lane' = [lane EXCEPT ![l] = L]
        ELSE \E alive \in BOOLEAN :
               /\ lane' = [lane EXCEPT ![l] =
                    Stepped([L EXCEPT !.budget = @ - 1, !.executed = @ + 1], 1, alive)]
               /\ Calls(IF alive THEN << >> ELSE << EndCall(l, "win0") >>)
  /\ UNCHANGED <<budgets, at, next, results, steps, returned, log>>

\* Gone wrong: the columns are swapped.
ScoredSwapped(score, outcome) ==
  CASE outcome = "win0" -> [score EXCEPT !.w2 = @ + 1]
    [] outcome = "win1" -> [score EXCEPT !.w1 = @ + 1]
    [] outcome = "tie"  -> [score EXCEPT !.ties = @ + 1]

Scored(score, outcome) ==
  CASE outcome = "win0" -> [score EXCEPT !.w1 = @ + 1]
    [] outcome = "win1" -> [score EXCEPT !.w2 = @ + 1]
    [] outcome = "tie"  -> [score EXCEPT !.ties = @ + 1]

EndRound ==
  /\ Calling("end_round")
  /\ LET l == Head(calls).lane
         outcome == Head(calls).outcome
         L == [lane[l] EXCEPT !.engineSteps = @ + lane[l].executed,
                              !.score = Scored(@, outcome),
                              !.round = @ + 1]
     IN /\ lane' = [lane EXCEPT ![l] = [L EXCEPT !.moves = << >>, !.fell = None]]
        /\ IF L.round = Rounds
           THEN /\ results' = [results EXCEPT ![L.job] = L.score]
                /\ Calls(<< Call("start_job", l) >>)
           ELSE Calls(<< Call("start_round", l) >>) /\ UNCHANGED results
        /\ log' = [log EXCEPT ![L.job] = Append(@,
                     [outcome |-> outcome, pos |-> L.pos, seed |-> L.seed,
                      moves |-> Len(L.moves), fell |-> L.fell])]
  /\ UNCHANGED <<budgets, at, next, steps, returned>>

-----------------------------------------------------------------------------
\* The loop of play_all, entered with no call pending.

Ready == calls = << >> /\ at = None /\ ~returned
Active(l) == lane[l].job # NoJob

EnterBoth ==
  /\ Ready /\ Active(0) /\ Active(1)
  /\ budgets' = [l \in Lanes |-> lane[l].budget]
  /\ at' = 0
  /\ UNCHANGED <<lane, calls, next, results, steps, returned, log>>

\* The four moves of the hot loop: lane 0 and lane 1 for warrior 0, then
\* both for warrior 1.
LaneAt(i) == i % 2
WarriorAt(i) == i \div 2

\* Gone wrong: the other lane always, or never, owes.
OwesAlways(i) == TRUE
OwesNever(i) == FALSE

\* Where a round ends in the middle of the four, the other lane has moved
\* warrior 0 and owes warrior 1 a move, except at the first and the last.
OtherOwes(i) == i \in {1, 2}

\* Gone wrong: the count replaces what was executed before.
CountedAfresh(L, b) == [L EXCEPT !.executed = L.budget - b, !.budget = b]

\* A lane takes the loop's count back.
Counted(L, b) == [L EXCEPT !.executed = @ + L.budget - b, !.budget = b]

\* The loop is left: both lanes take their counts back, one ends its round,
\* the other is settled.
Leave(outcome, L, b) ==
  LET ended == LaneAt(at)
      other == 1 - ended
      back  == [l \in Lanes |-> Counted(L[l], b[l])]
  IN /\ lane' = [back EXCEPT ![other].owes = OtherOwes(at)]
     /\ budgets' = [l \in Lanes |-> 0]
     /\ at' = None
     /\ calls' = << EndCall(ended, outcome), Call("settle", other) >>

HotSpent ==
  /\ at # None /\ budgets[LaneAt(at)] = 0
  /\ Leave("tie", lane, budgets)
  /\ UNCHANGED <<next, results, steps, returned, log>>

HotMove ==
  /\ at # None /\ budgets[LaneAt(at)] > 0
  /\ \E alive \in BOOLEAN :
       LET l == LaneAt(at)
           w == WarriorAt(at)
           L == [lane EXCEPT ![l] = Stepped(@, w, alive)]
           b == [budgets EXCEPT ![l] = @ - 1]
       IN IF alive
          THEN lane' = L /\ budgets' = b /\ at' = (at + 1) % 4 /\ UNCHANGED calls
          ELSE Leave(Won(1 - w), L, b)
  /\ UNCHANGED <<next, results, steps, returned, log>>

\* Gone wrong: the lane left is taken to be the first.
FirstLane == {l \in {0} : Active(0) /\ ~Active(1)}

LaneLeft == {l \in Lanes : Active(l) /\ ~Active(1 - l)}

\* One lane left: Run::run plays the rest of its round, from warrior 0, n
\* instructions of it.
Single ==
  /\ Ready
  /\ \E l \in LaneLeft : \E n \in 0 .. lane[l].budget, alive \in BOOLEAN :
       LET loser == (n - 1) % 2
       IN /\ IF alive THEN n = lane[l].budget ELSE n > 0
          /\ lane' = [lane EXCEPT
               ![l].moves = @ \o [i \in 1 .. n |-> (i - 1) % 2],
               ![l].fell = IF alive THEN @ ELSE loser,
               ![l].executed = @ + n,
               ![l].budget = @ - n]
          /\ calls' = << EndCall(l, IF alive THEN "tie" ELSE Won(1 - loser)) >>
  /\ UNCHANGED <<budgets, at, next, results, steps, returned, log>>

Return ==
  /\ Ready /\ ~Active(0) /\ ~Active(1)
  /\ returned' = TRUE
  /\ steps' = steps + lane[0].engineSteps + lane[1].engineSteps
  /\ lane' = [l \in Lanes |-> [lane[l] EXCEPT !.engineSteps = 0]]
  /\ UNCHANGED <<calls, budgets, at, next, results, log>>

Init ==
  /\ lane = [l \in Lanes |-> FreshLane]
  /\ calls = << Call("start_job", 0), Call("start_job", 1) >>
  /\ budgets = [l \in Lanes |-> 0] /\ at = None
  /\ next = 0 /\ steps = 0 /\ returned = FALSE
  /\ results = [j \in JobNumbers |-> NoScore]
  /\ log = [j \in JobNumbers |-> << >>]

Next == \/ StartJob \/ StartRound \/ Settle \/ EndRound
        \/ EnterBoth \/ HotSpent \/ HotMove \/ Single \/ Return

Spec == Init /\ [][Next]_vars /\ WF_vars(Next)

-----------------------------------------------------------------------------
\* Properties.

\* Budgets, counts and the loop's position are in range, and a lane is only
\* asked to end a round it has.
TypeOK ==
  /\ \A l \in Lanes :
       /\ lane[l].job \in JobNumbers \cup {NoJob}
       /\ lane[l].round \in 0 .. Rounds
       /\ lane[l].seed \in I32
       /\ lane[l].budget \in 0 .. 2 * MaxCycles
       /\ lane[l].executed \in 0 .. 2 * MaxCycles
       /\ budgets[l] \in 0 .. 2 * MaxCycles
  /\ at \in {None} \cup 0 .. 3
  /\ next \in 0 .. NumJobs
  /\ \A i \in 1 .. Len(calls) :
       calls[i].name = "end_round" => lane[calls[i].lane].job # NoJob

\* multi.rs:13, "each lane's own sequence of steps is exactly the sequential
\* one": within a round the warriors alternate from the one whose turn it is
\* to start, however often the loop was left and entered, and none moves
\* after the round's death or beyond its budget.
MovesAlternate ==
  \A l \in Lanes :
    LET L == lane[l]
    IN Active(l) =>
       /\ \A i \in 1 .. Len(L.moves) : L.moves[i] = (L.round + i - 1) % 2
       /\ Len(L.moves) <= 2 * MaxCycles

\* The seed round i of a job is placed by: the job's, then the one drawn when
\* the round before it started.
Drawn(j, i) == IF i = 1 THEN Seeds[j + 1] ELSE log[j][i - 1].seed

\* Every round ever finished is one Engine::play could have played: the
\* position its seed gives, a death reported as a win of the other warrior
\* by the instruction that caused it, and a tie only after the whole budget.
RoundsAsPlayed ==
  \A j \in JobNumbers : \A i \in 1 .. Len(log[j]) :
    LET r == log[j][i]
    IN /\ r.pos = Position(Drawn(j, i)) /\ r.seed = PmarsRng(Drawn(j, i))
       /\ IF r.outcome = "tie"
          THEN r.fell = None /\ r.moves = 2 * MaxCycles
          ELSE /\ r.fell = (i - 1 + r.moves - 1) % 2
               /\ r.outcome = Won(1 - r.fell)
               /\ r.moves \in 1 .. 2 * MaxCycles

Tally(rounds, outcome) == Cardinality({i \in DOMAIN rounds : rounds[i].outcome = outcome})

\* When play_all returns, every job has had all its rounds, once, and its
\* score is theirs, whichever lane played it and in whatever order.
ScoresInJobOrder ==
  returned =>
    \A j \in JobNumbers :
      /\ Len(log[j]) = Rounds
      /\ results[j] = [w1 |-> Tally(log[j], "win0"), w2 |-> Tally(log[j], "win1"),
                       ties |-> Tally(log[j], "tie")]

\* The instructions reported are those executed: none is lost or counted
\* twice where a lane leaves the hot loop, settles and enters it again.
StepsAddUp ==
  returned =>
    steps = FoldFunction(LAMBDA rounds, n : n + FoldLeft(LAMBDA m, r : m + r.moves, 0, rounds),
                         0, log)

\* play_all returns: no lane waits for the other, nor for one that has no job
\* left.
Returns == <>returned
=============================================================================
