---------------------------- MODULE MultiProofs ----------------------------
(***************************************************************************)
(* What the interleaved player promises, for every number of jobs and of   *)
(* rounds, every budget and every way the rounds end: each lane's moves    *)
(* alternate, every round is one Engine::play could have played, every job *)
(* gets the score of its own rounds, and no instruction is lost or counted *)
(* twice.                                                                  *)
(*                                                                         *)
(* None of this is inductive as it stands.  That the warriors alternate    *)
(* rests on whose turn it is being known wherever the lane is: at each of  *)
(* the four places of the hot loop, while a move is owed, and when the     *)
(* loop may be entered (Turn in HotOK, CallOK and IdleOK).  That a tie   *)
(* comes after the whole budget rests on the moves and what is left adding *)
(* up (InRound), and the scores on a job being played by one lane at a     *)
(* time and finished before its lane takes another (Owned, Finished).      *)
(* The instructions add up because those of the rounds logged are what the *)
(* two lanes have counted at every place a round ends (Accounted).         *)
(***************************************************************************)
EXTENDS Multi, CommonProofs, SequenceTheorems

Outcomes == {"win0", "win1", "tie"}
Score    == [w1: Nat, w2: Nat, ties: Nat]
LaneRec  == [job: JobNumbers \cup {NoJob}, round: 0 .. Rounds, seed: I32, pos: Int, score: Score,
             budget: 0 .. 2 * MaxCycles, executed: 0 .. 2 * MaxCycles, owes: BOOLEAN,
             engineSteps: Int, moves: Seq(Lanes), fell: {None} \cup Lanes]
Entry    == [outcome: Outcomes, pos: Int, seed: I32, moves: Nat, fell: {None} \cup Lanes]
CallSet  == [name: {"start_job", "start_round", "settle"}, lane: Lanes]
              \cup [name: {"end_round"}, lane: Lanes, outcome: Outcomes]

Typed ==
  /\ lane \in [Lanes -> LaneRec]
  /\ budgets \in [Lanes -> 0 .. 2 * MaxCycles]
  /\ at \in {None} \cup 0 .. 3
  /\ next \in 0 .. NumJobs
  /\ results \in [JobNumbers -> Score]
  /\ log \in [JobNumbers -> Seq(Entry)]

\* No call is pending, one, or one for each lane.
CallsOK ==
  \/ calls = << >>
  \/ \E c \in CallSet : calls = <<c>>
  \/ \E c, d \in CallSet : calls = <<c, d>> /\ c.lane # d.lane

\* The calls pending for a lane.
Pending(l) == {c \in CallSet : c.lane = l /\ \E i \in 1 .. Len(calls) : calls[i] = c}

Tallied(rounds) == [w1 |-> Tally(rounds, "win0"), w2 |-> Tally(rounds, "win1"),
                    ties |-> Tally(rounds, "tie")]

\* A lane has a match in which a round remains to be played.
Playing(L) ==
  /\ L.job \in JobNumbers
  /\ L.round = Len(log[L.job]) /\ L.round < Rounds
  /\ L.score = Tallied(log[L.job])

\* The round that is played was placed by its seed.
Placed(L) ==
  /\ L.pos = Position(Drawn(L.job, L.round + 1))
  /\ L.seed = PmarsRng(Drawn(L.job, L.round + 1))

Alternates(L) == \A i \in 1 .. Len(L.moves) : L.moves[i] = (L.round + i - 1) % 2
Turn(L) == (L.round + Len(L.moves)) % 2

\* A round that goes on, with this much of the budget left.
Going(L, left) ==
  /\ Alternates(L)
  /\ Len(L.moves) + left = 2 * MaxCycles
  /\ L.executed + L.budget = 2 * MaxCycles
  /\ L.fell = None

\* A round that is over, with this outcome.
Decided(L, outcome) ==
  /\ Alternates(L)
  /\ IF outcome = "tie"
     THEN L.fell = None /\ Len(L.moves) = 2 * MaxCycles
     ELSE /\ L.fell = (L.round + Len(L.moves) - 1) % 2
          /\ outcome = Won(1 - L.fell)
          /\ Len(L.moves) \in 1 .. 2 * MaxCycles

InRound(L, left) == Playing(L) /\ Placed(L) /\ Going(L, left)
Over(L, outcome) == Playing(L) /\ Placed(L) /\ Decided(L, outcome)

\* The warrior that moves next in a lane at each place of the hot loop.
HotTurn(l) == IF l = 0 THEN (IF at \in {1, 2} THEN 1 ELSE 0) ELSE (IF at \in {2, 3} THEN 1 ELSE 0)

Exhausted == next = NumJobs \/ Rounds = 0

\* What a pending call finds in its lane.
CallOK(c) ==
  LET L == lane[c.lane]
  IN /\ c.name = "start_job"   => L.moves = << >> /\ L.fell = None
     /\ c.name = "start_round" => /\ Playing(L) /\ L.moves = << >> /\ L.fell = None
                                  /\ L.seed = Drawn(L.job, L.round + 1)
     /\ c.name = "settle"      => /\ InRound(L, L.budget)
                                  /\ Turn(L) = IF L.owes THEN 1 ELSE 0
     /\ c.name = "end_round"   => Over(L, c.outcome)

\* A lane for which no call is pending.
IdleOK(l) == Active(l) => InRound(lane[l], lane[l].budget) /\ Turn(lane[l]) = 0
HotOK(l)  == InRound(lane[l], budgets[l]) /\ Turn(lane[l]) = HotTurn(l)

LaneOK(l) ==
  /\ \A c \in Pending(l) : CallOK(c)
  /\ Pending(l) = {} => IF at = None THEN IdleOK(l) ELSE HotOK(l)
  /\ Pending(l) = {} /\ ~Active(l) => Exhausted

\* A lane's job is one that was started, and its own.
Owned ==
  /\ \A l \in Lanes : Active(l) => lane[l].job < next
  /\ Active(0) => lane[0].job # lane[1].job

\* l is in the middle of job j.
Busy(l, j) == lane[l].job = j /\ \A c \in Pending(l) : c.name # "start_job"

\* A job has its rounds and its score unless a lane is in the middle of it
\* or it is still to start.
Finished ==
  \A j \in JobNumbers :
    /\ j >= next => log[j] = << >> /\ results[j] = NoScore
    /\ j < next => \/ \E l \in Lanes : Busy(l, j)
                   \/ Len(log[j]) = Rounds /\ results[j] = Tallied(log[j])

IInv ==
  /\ Typed /\ CallsOK
  /\ at # None => calls = << >>
  /\ returned => calls = << >> /\ at = None /\ ~Active(0) /\ ~Active(1)
  /\ \A l \in Lanes : LaneOK(l)
  /\ Owned /\ Finished /\ RoundsAsPlayed

-----------------------------------------------------------------------------
\* Constants and numbers.

\* What the assumption on the constants says, as the proofs cite it.
LEMMA Constants ==
  /\ MaxCycles \in Nat /\ MaxCycles >= 1 /\ Rounds \in Nat
  /\ NumJobs \in Nat /\ JobNumbers = 0 .. NumJobs - 1 /\ NoJob \notin JobNumbers
  /\ \A j \in JobNumbers : Seeds[j + 1] \in I32
  /\ MinDistance \in Nat /\ CoreSize \in Nat /\ CoreSize + 1 - 2 * MinDistance >= 1
<1>1. NumJobs \in Nat /\ \A k \in 1 .. NumJobs : Seeds[k] \in I32
  BY MultiAssumption DEF NumJobs
<1>2. ASSUME NEW j \in JobNumbers PROVE Seeds[j + 1] \in I32
  <2>1. j + 1 \in 1 .. NumJobs
    BY <1>1 DEF JobNumbers
  <2> QED
    BY <1>1, <2>1
<1> QED
  BY <1>1, <1>2, MultiAssumption DEF JobNumbers

\* A position is an integer.
LEMMA PositionType ==
  ASSUME NEW s \in I32
  PROVE  Position(s) \in Int
<1>1. s \in Int
  BY I32Bounds
<1>2. s % (CoreSize + 1 - 2 * MinDistance) \in Int
  BY <1>1, Constants
<1> QED
  BY <1>2, Constants DEF Position

\* One more round in a list is one more of its outcome.
LEMMA TallyAppend ==
  ASSUME NEW s \in Seq(Entry), NEW r \in Entry, NEW o \in Outcomes
  PROVE  Tally(Append(s, r), o) = IF r.outcome = o THEN Tally(s, o) + 1 ELSE Tally(s, o)
<1> DEFINE S == {i \in DOMAIN s : s[i].outcome = o}
           n == Len(s) + 1
           T == {i \in DOMAIN Append(s, r) : Append(s, r)[i].outcome = o}
<1>1. /\ Len(s) \in Nat /\ DOMAIN s = 1 .. Len(s) /\ DOMAIN Append(s, r) = 1 .. n
      /\ \A i \in 1 .. Len(s) : Append(s, r)[i] = s[i]
      /\ Append(s, r)[n] = r
  OBVIOUS
<1>2. IsFiniteSet(S)
  <2>1. IsFiniteSet(1 .. Len(s))
    BY <1>1, FS_Interval
  <2>2. S \subseteq 1 .. Len(s)
    BY <1>1
  <2> QED
    BY <2>1, <2>2, FS_Subset
<1>3. n \notin S
  BY <1>1
<1>4. T = IF r.outcome = o THEN S \cup {n} ELSE S
  BY <1>1
<1>5. Cardinality(S \cup {n}) = Cardinality(S) + 1
  <2> HIDE DEF S, n
  <2> QED
    BY <1>2, <1>3, FS_AddElement
<1> QED
  BY <1>4, <1>5 DEF Tally

\* No rounds have no outcomes.
LEMMA TallyNone ==
  ASSUME NEW o
  PROVE  Tally(<< >>, o) = 0
<1> DEFINE S == {i \in DOMAIN << >> : << >>[i].outcome = o}
<1>1. S = {}
  OBVIOUS
<1> QED
  BY <1>1, FS_EmptySet DEF Tally

-----------------------------------------------------------------------------
\* Calls.

\* The calls of each name are calls.
LEMMA CallSetParts ==
  /\ \A l \in Lanes : Call("start_job", l) \in CallSet /\ Call("start_round", l) \in CallSet
                     /\ Call("settle", l) \in CallSet
  /\ \A l \in Lanes, o \in Outcomes : EndCall(l, o) \in CallSet
  /\ \A c \in CallSet : c.lane \in Lanes
BY DEF CallSet, Call, EndCall

\* Two calls in front of one another, as a sequence.
LEMMA TwoCalls ==
  ASSUME NEW c \in CallSet, NEW d \in CallSet
  PROVE  <<c>> \o <<d>> = <<c, d>>
<1> DEFINE s == <<c>>
           t == <<d>>
           u == <<c, d>>
<1>1. s \in Seq(CallSet) /\ Len(s) = 1 /\ s[1] = c /\ t \in Seq(CallSet) /\ Len(t) = 1 /\ t[1] = d
  OBVIOUS
<1>2. u \in Seq(CallSet) /\ Len(u) = 2 /\ u[1] = c /\ u[2] = d
  OBVIOUS
<1> HIDE DEF s, t, u
<1>3. s \o t \in Seq(CallSet) /\ Len(s \o t) = 2 /\ (s \o t)[1] = c /\ (s \o t)[2] = d
  BY <1>1, ConcatProperties
<1>4. s \o t = u
  BY <1>2, <1>3, SeqEqual
<1> QED
  BY <1>4 DEF s, t, u

\* An empty stack has no call pending for a lane.
LEMMA NoCalls ==
  ASSUME calls = << >>, NEW l
  PROVE  Pending(l) = {}
BY DEF Pending

\* The first of the calls is its lane's only one.
LEMMA FirstCall ==
  ASSUME CallsOK, calls # << >>
  PROVE  /\ Head(calls) \in CallSet /\ Head(calls).lane \in Lanes
         /\ Pending(Head(calls).lane) = {Head(calls)}
<1>1. CASE \E c \in CallSet : calls = <<c>>
  <2>1. PICK c \in CallSet : calls = <<c>>
    BY <1>1
  <2> QED
    BY <2>1, CallSetParts DEF Pending
<1>2. CASE \E c, d \in CallSet : calls = <<c, d>> /\ c.lane # d.lane
  <2>1. PICK c \in CallSet, d \in CallSet : calls = <<c, d>> /\ c.lane # d.lane
    BY <1>2
  <2> QED
    BY <2>1, CallSetParts DEF Pending
<1> QED
  BY <1>1, <1>2 DEF CallsOK

\* A call that is made is replaced by one of its lane, or none.
LEMMA CallMade ==
  ASSUME CallsOK, calls # << >>, NEW l, l = Head(calls).lane,
         NEW more, Calls(more),
         more = << >> \/ \E c \in CallSet : more = <<c>> /\ c.lane = l
  PROVE  /\ CallsOK'
         /\ more = << >> => Pending(l)' = {}
         /\ \A c \in CallSet : more = <<c>> => Pending(l)' = {c}
         /\ \A o : o # l => Pending(o)' = Pending(o)
<1>1. CASE \E c \in CallSet : calls = <<c>>
  <2>1. PICK c \in CallSet : calls = <<c>>
    BY <1>1
  <2>2. calls' = more
    BY <2>1 DEF Calls
  <2> QED
    BY <2>1, <2>2 DEF Pending, CallsOK
<1>2. CASE \E c, d \in CallSet : calls = <<c, d>> /\ c.lane # d.lane
  <2>1. PICK c \in CallSet, d \in CallSet : calls = <<c, d>> /\ c.lane # d.lane
    BY <1>2
  <2>2. CASE more = << >>
    <3>1. calls' = <<d>>
      BY <2>1, <2>2 DEF Calls
    <3> QED
      BY <2>1, <2>2, <3>1 DEF Pending, CallsOK
  <2>3. CASE \E e \in CallSet : more = <<e>> /\ e.lane = l
    <3>1. PICK e \in CallSet : more = <<e>> /\ e.lane = l
      BY <2>3
    <3>2. calls' = <<e, d>>
      <4>1. Tail(calls) = <<d>>
        BY <2>1
      <4>2. calls' = <<e>> \o <<d>>
        BY <3>1, <4>1 DEF Calls
      <4> QED
        BY <4>2, TwoCalls
    <3> QED
      BY <2>1, <3>1, <3>2 DEF Pending, CallsOK
  <2> QED
    BY <2>2, <2>3
<1> QED
  BY <1>1, <1>2 DEF CallsOK

\* What goes on in a lane is undisturbed by what is done to the other.
LEMMA OtherLane ==
  ASSUME IInv, NEW o \in Lanes, LaneOK(o), lane'[o] = lane[o], Pending(o)' = Pending(o),
         at = None, at' = None, Exhausted => Exhausted',
         lane[o].job \in JobNumbers => log'[lane[o].job] = log[lane[o].job]
  PROVE  LaneOK(o)'
<1> DEFINE L == lane[o]
<1>1. ASSUME Playing(L)
      PROVE  /\ Playing(lane[o])'
             /\ Drawn(lane[o].job, lane[o].round + 1)' = Drawn(L.job, L.round + 1)
             /\ Placed(lane[o])' <=> Placed(L)
  BY <1>1 DEF Playing, Placed, Drawn, Tallied, Tally
<1>2. ASSUME NEW left, InRound(L, left) PROVE InRound(lane[o], left)'
  BY <1>1, <1>2 DEF InRound
<1>3. ASSUME NEW c \in Pending(o), CallOK(c) PROVE CallOK(c)'
  <2>1. c.lane = o
    BY DEF Pending
  <2>2. ASSUME c.name = "end_round" PROVE CallOK(c)'
    BY <1>1, <1>3, <2>1, <2>2 DEF CallOK, Over
  <2>3. ASSUME c.name = "settle" PROVE CallOK(c)'
    <3>1. InRound(lane[o], lane[o].budget)'
      BY <1>2, <1>3, <2>1, <2>3 DEF CallOK
    <3> QED
      BY <1>3, <2>1, <2>3, <3>1 DEF CallOK, Turn
  <2>4. ASSUME c.name = "start_round" PROVE CallOK(c)'
    BY <1>1, <1>3, <2>1, <2>4 DEF CallOK
  <2>5. ASSUME c.name = "start_job" PROVE CallOK(c)'
    BY <1>1, <1>3, <2>1, <2>5 DEF CallOK
  <2> QED
    BY <2>2, <2>3, <2>4, <2>5 DEF Pending, CallSet
<1>4. IdleOK(o) => IdleOK(o)'
  BY <1>2 DEF IdleOK, Active, Turn
<1> QED
  BY <1>3, <1>4 DEF LaneOK, Active

-----------------------------------------------------------------------------
\* A call that is made.

\* What remains to be shown of the step that makes a call of lane l.
LEMMA CallStep ==
  ASSUME IInv, NEW l \in Lanes, calls # << >>, l = Head(calls).lane,
         NEW more, Calls(more),
         more = << >> \/ \E c \in CallSet : more = <<c>> /\ c.lane = l,
         UNCHANGED <<budgets, at, returned>>,
         Typed', lane'[1 - l] = lane[1 - l], Exhausted => Exhausted',
         \A j \in JobNumbers \ {lane[l].job} : log'[j] = log[j],
         more = << >> => IdleOK(l)' /\ (~Active(l)' => Exhausted'),
         \A c \in CallSet : more = <<c>> /\ c.lane = l => CallOK(c)',
         Owned', Finished', RoundsAsPlayed'
  PROVE  IInv'
<1>1. at = None /\ at' = None /\ ~returned'
  BY DEF IInv
<1>2. /\ CallsOK'
      /\ more = << >> => Pending(l)' = {}
      /\ \A c \in CallSet : more = <<c>> => Pending(l)' = {c}
      /\ \A o : o # l => Pending(o)' = Pending(o)
  BY CallMade DEF IInv
<1>3. LaneOK(l)'
  BY <1>1, <1>2 DEF LaneOK
<1>4. 1 - l \in Lanes /\ 1 - l # l /\ Lanes = {l, 1 - l}
  BY DEF Lanes
<1>5. LaneOK(1 - l)'
  <2>1. PICK o \in Lanes : o = 1 - l
    BY <1>4
  <2>2. lane[o].job \in JobNumbers => lane[o].job # lane[l].job
    BY <1>4, <2>1, Constants DEF IInv, Owned, Active, Lanes
  <2>3. LaneOK(o)'
    BY <1>1, <1>2, <1>4, <2>1, <2>2, OtherLane DEF IInv
  <2> QED
    BY <2>1, <2>3
<1>6. \A q \in Lanes : LaneOK(q)'
  BY <1>3, <1>4, <1>5
<1> QED
  BY <1>1, <1>2, <1>6 DEF IInv

\* What the invariant says of the lane of the call that is made next.
LEMMA CallFacts ==
  ASSUME IInv, calls # << >>, NEW l, l = Head(calls).lane
  PROVE  /\ Head(calls) \in CallSet /\ l \in Lanes /\ Pending(l) = {Head(calls)}
         /\ CallOK(Head(calls)) /\ lane[l] \in LaneRec
         /\ 1 - l \in Lanes /\ 1 - l # l /\ Lanes = {l, 1 - l}
<1>1. Head(calls) \in CallSet /\ l \in Lanes /\ Pending(l) = {Head(calls)}
  BY FirstCall DEF IInv
<1>2. CallOK(Head(calls)) /\ lane[l] \in LaneRec
  BY <1>1 DEF IInv, LaneOK, Typed
<1> QED
  BY <1>1, <1>2 DEF Lanes

\* Where a call of l begins or goes on with a match, nothing but l's pending
\* call changes who owns and who has finished what.
LEMMA StillOwned ==
  ASSUME IInv, NEW l \in Lanes, lane'[l].job = lane[l].job, lane'[1 - l] = lane[1 - l],
         Pending(1 - l)' = Pending(1 - l), UNCHANGED <<next, results, log>>,
         \A c \in Pending(l)' : c.name # "start_job"
  PROVE  Owned' /\ Finished' /\ RoundsAsPlayed'
<1>1. 1 - l \in Lanes /\ Lanes = {l, 1 - l}
  BY DEF Lanes
<1>2. Owned'
  BY <1>1 DEF IInv, Owned, Active, Lanes
<1>3. Finished'
  <2>1. \A j : (\E q \in Lanes : Busy(q, j)) => (\E q \in Lanes : Busy(q, j)')
    BY <1>1 DEF Busy
  <2> QED
    BY <2>1 DEF IInv, Finished, Tallied, Tally
<1>4. RoundsAsPlayed'
  BY DEF IInv, RoundsAsPlayed, Drawn
<1> QED
  BY <1>2, <1>3, <1>4

\* A match goes on while no round of it ends.
LEMMA StillPlaying ==
  ASSUME NEW l, Playing(lane[l]), log' = log, lane'[l].job = lane[l].job,
         lane'[l].round = lane[l].round, lane'[l].score = lane[l].score
  PROVE  /\ Playing(lane[l])'
         /\ Drawn(lane[l].job, lane[l].round + 1)' = Drawn(lane[l].job, lane[l].round + 1)
<1>1. Tallied(log[lane[l].job])' = Tallied(log[lane[l].job])
  BY DEF Tallied, Tally
<1>2. Playing(lane[l])'
  BY <1>1 DEF Playing
<1>3. Drawn(lane[l].job, lane[l].round + 1)' = Drawn(lane[l].job, lane[l].round + 1)
  BY DEF Drawn
<1> QED
  BY <1>2, <1>3

\* start_round keeps the invariant: it loads, or ends the job.
LEMMA StartRoundKeeps ==
  ASSUME IInv, StartRound
  PROVE  IInv'
<1>1. PICK l : l = Head(calls).lane
  OBVIOUS
<1> DEFINE L == lane[l]
           M == [L EXCEPT !.pos = Position(L.seed), !.seed = PmarsRng(L.seed),
                          !.budget = 2 * MaxCycles, !.executed = 0, !.owes = (L.round % 2 = 1)]
           c == Call("settle", l)
<1>2. /\ calls # << >> /\ Head(calls).name = "start_round"
      /\ lane' = [lane EXCEPT ![l] = M] /\ Calls(<<c>>)
      /\ UNCHANGED <<budgets, at, next, results, steps, returned, log>>
  BY <1>1 DEF StartRound, Calling
<1>3. /\ l \in Lanes /\ L \in LaneRec /\ CallOK(Head(calls))
      /\ 1 - l \in Lanes /\ 1 - l # l
  BY <1>1, <1>2, CallFacts
<1>4. Playing(L) /\ L.moves = << >> /\ L.fell = None /\ L.seed = Drawn(L.job, L.round + 1)
  BY <1>1, <1>2, <1>3 DEF CallOK
<1>5. M \in LaneRec
  <2>1. PmarsRng(L.seed) \in I32 /\ Position(L.seed) \in Int
    BY <1>3, RngRange, PositionType DEF LaneRec
  <2>2. 2 * MaxCycles \in 0 .. 2 * MaxCycles /\ 0 \in 0 .. 2 * MaxCycles
    BY Constants
  <2> QED
    BY <1>3, <2>1, <2>2 DEF LaneRec
<1>6. lane' \in [Lanes -> LaneRec] /\ lane'[l] = M /\ lane'[1 - l] = lane[1 - l]
  BY <1>2, <1>3, <1>5 DEF IInv, Typed
<1>7. Typed'
  BY <1>2, <1>6 DEF IInv, Typed
<1>8. /\ M.job = L.job /\ M.round = L.round /\ M.score = L.score /\ M.moves = << >>
      /\ M.fell = None /\ M.budget = 2 * MaxCycles /\ M.executed = 0
      /\ (M.owes <=> L.round % 2 = 1) /\ M.pos = Position(L.seed) /\ M.seed = PmarsRng(L.seed)
  BY <1>3, <1>4 DEF LaneRec
<1> HIDE DEF M
<1>9. Playing(lane[l])' /\ Placed(lane[l])'
  <2>1. /\ Playing(lane[l])'
        /\ Drawn(lane[l].job, lane[l].round + 1)' = Drawn(L.job, L.round + 1)
    BY <1>2, <1>4, <1>6, <1>8, StillPlaying
  <2> QED
    BY <1>4, <1>6, <1>8, <2>1 DEF Placed
<1>10. InRound(lane[l], lane[l].budget)'
  BY <1>6, <1>8, <1>9, Constants DEF InRound, Going, Alternates
<1>11. L.round % 2 \in {0, 1} /\ Turn(lane[l])' = L.round % 2
  <2>1. L.round \in Nat /\ Len(M.moves) = 0
    BY <1>3, <1>8 DEF LaneRec
  <2> QED
    BY <1>6, <1>8, <2>1 DEF Turn
<1>12. CallOK(c)'
  <2>1. Turn(lane[l])' = IF lane'[l].owes THEN 1 ELSE 0
    BY <1>6, <1>8, <1>11
  <2> QED
    BY <1>10, <2>1 DEF CallOK, Call
<1>13. c \in CallSet /\ c.lane = l /\ c.name # "start_job"
  BY <1>3, CallSetParts DEF Call
<1>14. Pending(l)' = {c} /\ Pending(1 - l)' = Pending(1 - l)
  BY <1>1, <1>2, <1>3, <1>13, CallMade DEF IInv
<1>15. Owned' /\ Finished' /\ RoundsAsPlayed'
  BY <1>2, <1>3, <1>6, <1>8, <1>13, <1>14, StillOwned
<1>16. Exhausted => Exhausted'
  BY <1>2 DEF Exhausted
<1> QED
  BY <1>1, <1>2, <1>3, <1>6, <1>7, <1>12, <1>13, <1>15, <1>16, CallStep

\* The warrior whose turn it is makes one more move.
LEMMA OneMove ==
  ASSUME NEW L, L.moves \in Seq(Lanes), L.round \in Nat, Alternates(L),
         NEW N, N.moves = Append(L.moves, Turn(L)), N.round = L.round
  PROVE  /\ Alternates(N) /\ N.moves \in Seq(Lanes) /\ Len(L.moves) \in Nat
         /\ Len(N.moves) = Len(L.moves) + 1 /\ Turn(N) = 1 - Turn(L)
         /\ (N.round + Len(N.moves) - 1) % 2 = Turn(L)
         /\ Turn(L) \in Lanes
<1>1. Len(L.moves) \in Nat /\ Turn(L) \in Lanes
  BY DEF Turn, Lanes
<1>2. /\ N.moves \in Seq(Lanes) /\ Len(N.moves) = Len(L.moves) + 1
      /\ \A i \in 1 .. Len(L.moves) : N.moves[i] = L.moves[i]
      /\ N.moves[Len(L.moves) + 1] = Turn(L)
  BY <1>1
<1>3. Alternates(N)
  BY <1>1, <1>2 DEF Alternates, Turn
<1>4. Turn(N) = 1 - Turn(L) /\ (N.round + Len(N.moves) - 1) % 2 = Turn(L)
  <2>1. PICK n \in Nat : n = L.round + Len(L.moves)
    BY <1>1
  <2>2. (n + 1) % 2 = 1 - (n % 2)
    OBVIOUS
  <2>3. N.round + Len(N.moves) = n + 1 /\ N.round + Len(N.moves) - 1 = n
    BY <1>1, <1>2, <2>1
  <2> QED
    BY <2>1, <2>2, <2>3 DEF Turn
<1> QED
  BY <1>1, <1>2, <1>3, <1>4

\* A round goes on where its lane keeps its match, its place and its seed.
LEMMA StillPlaced ==
  ASSUME NEW l, Playing(lane[l]), Placed(lane[l]), log' = log, lane'[l].job = lane[l].job,
         lane'[l].round = lane[l].round, lane'[l].score = lane[l].score,
         lane'[l].pos = lane[l].pos, lane'[l].seed = lane[l].seed
  PROVE  Playing(lane[l])' /\ Placed(lane[l])'
<1>1. /\ Playing(lane[l])'
      /\ Drawn(lane[l].job, lane[l].round + 1)' = Drawn(lane[l].job, lane[l].round + 1)
  BY StillPlaying
<1> QED
  BY <1>1 DEF Placed

\* A call that plays in l's round, or ends it.
LEMMA RoundStep ==
  ASSUME IInv, NEW l \in Lanes, calls # << >>, l = Head(calls).lane,
         Playing(lane[l]), Placed(lane[l]), UNCHANGED <<budgets, at, next, results, returned, log>>,
         NEW M \in LaneRec, lane' = [lane EXCEPT ![l] = M],
         M.job = lane[l].job, M.round = lane[l].round, M.score = lane[l].score,
         M.pos = lane[l].pos, M.seed = lane[l].seed,
         NEW more, Calls(more),
         \/ more = << >> /\ Going(M, M.budget) /\ Turn(M) = 0
         \/ \E o \in Outcomes : more = <<EndCall(l, o)>> /\ Decided(M, o)
  PROVE  IInv'
<1>1. lane' \in [Lanes -> LaneRec] /\ lane'[l] = M /\ lane'[1 - l] = lane[1 - l] /\ 1 - l # l
  BY DEF IInv, Typed, Lanes
<1>2. Typed'
  BY <1>1 DEF IInv, Typed
<1>3. Playing(lane[l])' /\ Placed(lane[l])'
  BY <1>1, StillPlaced
<1>4. \/ more = << >>
      \/ \E c \in CallSet : more = <<c>> /\ c.lane = l /\ c.name # "start_job" /\ CallOK(c)'
  <2>1. ASSUME NEW o \in Outcomes, more = <<EndCall(l, o)>>, Decided(M, o)
        PROVE  \E c \in CallSet : more = <<c>> /\ c.lane = l /\ c.name # "start_job" /\ CallOK(c)'
    <3>1. EndCall(l, o) \in CallSet
      BY CallSetParts
    <3>2. EndCall(l, o).lane = l /\ EndCall(l, o).name = "end_round" /\ EndCall(l, o).outcome = o
      BY DEF EndCall
    <3>3. Over(lane[l], o)'
      BY <1>1, <1>3, <2>1 DEF Over
    <3>4. CallOK(EndCall(l, o))'
      BY <3>2, <3>3 DEF CallOK
    <3> QED
      BY <2>1, <3>1, <3>2, <3>4
  <2> QED
    BY <2>1
<1>5. Pending(1 - l)' = Pending(1 - l) /\ \A c \in Pending(l)' : c.name # "start_job"
  BY <1>1, <1>4, CallMade DEF IInv
<1>6. Owned' /\ Finished' /\ RoundsAsPlayed'
  BY <1>1, <1>5, StillOwned
<1>7. more = << >> => IdleOK(l)' /\ (~Active(l)' => Exhausted')
  <2>1. M.job # NoJob
    BY Constants DEF Playing
  <2>2. ASSUME more = << >> PROVE Going(M, M.budget) /\ Turn(M) = 0
    BY <2>2 DEF EndCall
  <2> QED
    BY <1>1, <1>3, <2>1, <2>2 DEF IdleOK, Active, InRound
<1>8. ASSUME NEW c \in CallSet, more = <<c>> PROVE CallOK(c)'
  BY <1>4, <1>8
<1>9. Exhausted => Exhausted'
  BY DEF Exhausted
<1>10. more = << >> \/ \E c \in CallSet : more = <<c>> /\ c.lane = l
  BY <1>4
<1> QED
  BY <1>1, <1>2, <1>6, <1>7, <1>8, <1>9, <1>10, CallStep

\* settle keeps it: the owed move is made, and may end the round.
LEMMA SettleKeeps ==
  ASSUME IInv, Settle
  PROVE  IInv'
<1>1. PICK l : l = Head(calls).lane
  OBVIOUS
<1> DEFINE L == lane[l]
<1>2. /\ calls # << >> /\ Head(calls).name = "settle"
      /\ UNCHANGED <<budgets, at, next, results, steps, returned, log>>
  BY <1>1 DEF Settle, Calling
<1>3. /\ l \in Lanes /\ L \in LaneRec /\ CallOK(Head(calls))
      /\ 1 - l \in Lanes /\ 1 - l # l
  BY <1>1, <1>2, CallFacts
<1>4. InRound(L, L.budget) /\ Turn(L) = IF L.owes THEN 1 ELSE 0
  BY <1>1, <1>2, <1>3 DEF CallOK
<1>5. /\ Playing(L) /\ Placed(L) /\ Alternates(L) /\ L.fell = None
      /\ Len(L.moves) + L.budget = 2 * MaxCycles /\ L.executed + L.budget = 2 * MaxCycles
  BY <1>4 DEF InRound, Going
<1>6. /\ L.job \in JobNumbers /\ L.job # NoJob /\ L.owes \in BOOLEAN
      /\ L.moves \in Seq(Lanes) /\ L.round \in Nat /\ Len(L.moves) \in Nat
      /\ L.budget \in 0 .. 2 * MaxCycles /\ L.executed \in 0 .. 2 * MaxCycles
  BY <1>3, <1>5, Constants DEF Playing, LaneRec
<1>7. CASE ~L.owes
  <2>1. lane' = [lane EXCEPT ![l] = L] /\ Calls(<< >>)
    BY <1>1, <1>3, <1>6, <1>7 DEF Settle, IInv, Typed
  <2>2. Going(L, L.budget) /\ Turn(L) = 0
    BY <1>4, <1>7 DEF InRound
  <2> QED
    BY <1>1, <1>2, <1>3, <1>5, <2>1, <2>2, RoundStep
<1>8. CASE L.owes /\ L.budget = 0
  <2> DEFINE M == [L EXCEPT !.owes = FALSE]
  <2>1. lane' = [lane EXCEPT ![l] = M] /\ Calls(<<EndCall(l, "tie")>>)
    BY <1>1, <1>6, <1>8 DEF Settle
  <2>2. /\ M \in LaneRec /\ M.job = L.job /\ M.round = L.round /\ M.score = L.score
        /\ M.pos = L.pos /\ M.seed = L.seed /\ M.moves = L.moves /\ M.fell = L.fell
    BY <1>3 DEF LaneRec
  <2> HIDE DEF M
  <2>3. Decided(M, "tie")
    BY <1>5, <1>6, <1>8, <2>2 DEF Decided, Alternates
  <2> QED
    BY <1>1, <1>2, <1>3, <1>5, <2>1, <2>2, <2>3, RoundStep DEF Outcomes
<1>9. CASE L.owes /\ L.budget # 0
  <2>1. PICK alive \in BOOLEAN :
          LET P == [L EXCEPT !.owes = FALSE, !.budget = L.budget - 1, !.executed = L.executed + 1]
          IN /\ lane' = [lane EXCEPT ![l] = Stepped(P, 1, alive)]
             /\ Calls(IF alive THEN << >> ELSE << EndCall(l, "win0") >>)
    BY <1>1, <1>6, <1>9 DEF Settle
  <2> DEFINE P == [L EXCEPT !.owes = FALSE, !.budget = L.budget - 1, !.executed = L.executed + 1]
             M == Stepped(P, 1, alive)
  <2>2. /\ M.moves = Append(L.moves, 1)
        /\ (alive => M.fell = L.fell) /\ (~alive => M.fell = 1)
        /\ M.budget = L.budget - 1 /\ M.executed = L.executed + 1
        /\ M.job = L.job /\ M.round = L.round /\ M.score = L.score
        /\ M.pos = L.pos /\ M.seed = L.seed
    BY <1>3 DEF Stepped, LaneRec
  <2>3. Turn(L) = 1
    BY <1>4, <1>9
  <2>4. /\ Alternates(M) /\ M.moves \in Seq(Lanes) /\ Len(M.moves) = Len(L.moves) + 1
        /\ Turn(M) = 0 /\ (M.round + Len(M.moves) - 1) % 2 = 1
    <3>1. M.moves = Append(L.moves, Turn(L)) /\ M.round = L.round
      BY <2>2, <2>3
    <3> HIDE DEF M
    <3>2. /\ Alternates(M) /\ M.moves \in Seq(Lanes) /\ Len(M.moves) = Len(L.moves) + 1
          /\ Turn(M) = 1 - Turn(L) /\ (M.round + Len(M.moves) - 1) % 2 = Turn(L)
      BY <1>5, <1>6, <3>1, OneMove
    <3> QED
      BY <2>3, <3>2
  <2>5. L.budget - 1 \in 0 .. 2 * MaxCycles /\ L.executed + 1 \in 0 .. 2 * MaxCycles
    <3>1. PICK m \in Int : m = 2 * MaxCycles
      BY Constants
    <3>2. PICK b \in 0 .. m, e \in 0 .. m : b = L.budget /\ e = L.executed
      BY <1>6, <3>1
    <3>3. e + b = m /\ b # 0
      BY <1>5, <1>9, <3>1, <3>2
    <3>4. b - 1 \in 0 .. m /\ e + 1 \in 0 .. m
      BY <3>3
    <3> QED
      BY <3>1, <3>2, <3>4
  <2>6. M \in LaneRec
    BY <1>3, <2>4, <2>5 DEF Stepped, LaneRec, Lanes
  <2> HIDE DEF M
  <2>7. CASE alive
    <3>1. /\ Len(M.moves) + M.budget = 2 * MaxCycles /\ M.executed + M.budget = 2 * MaxCycles
          /\ M.fell = None
      <4>1. M.fell = None
        BY <1>5, <2>2, <2>7
      <4>2. PICK m \in Int, b \in Int, e \in Int, n \in Int :
              m = Len(L.moves) /\ b = L.budget /\ e = L.executed /\ n = 2 * MaxCycles
        BY <1>6, Constants
      <4>3. m + b = n /\ e + b = n
        BY <1>5, <4>2
      <4>4. Len(M.moves) = m + 1 /\ M.budget = b - 1 /\ M.executed = e + 1
        BY <2>2, <2>4, <4>2
      <4>5. Len(M.moves) + M.budget = n /\ M.executed + M.budget = n
        BY <4>3, <4>4
      <4> QED
        BY <4>1, <4>2, <4>5
    <3>2. Going(M, M.budget)
      BY <2>4, <3>1 DEF Going
    <3>3. Calls(<< >>)
      BY <2>1, <2>7
    <3> QED
      BY <1>1, <1>2, <1>3, <1>5, <2>1, <2>2, <2>4, <2>6, <3>2, <3>3, RoundStep DEF M
  <2>8. CASE ~alive
    <3>1. Len(M.moves) \in 1 .. 2 * MaxCycles
      BY <1>5, <1>6, <1>9, <2>4, Constants
    <3>2. Decided(M, "win0")
      BY <2>2, <2>4, <2>8, <3>1 DEF Decided, Won
    <3>3. Calls(<< EndCall(l, "win0") >>)
      BY <2>1, <2>8
    <3> QED
      BY <1>1, <1>2, <1>3, <1>5, <2>1, <2>2, <2>6, <3>2, <3>3, RoundStep DEF M, Outcomes
  <2> QED
    BY <2>7, <2>8
<1> QED
  BY <1>6, <1>7, <1>8, <1>9

\* start_job keeps it: the lane takes the next job, or none is left.
LEMMA StartJobKeeps ==
  ASSUME IInv, StartJob
  PROVE  IInv'
<1>1. PICK l : l = Head(calls).lane
  OBVIOUS
<1> DEFINE L == lane[l]
<1>2. /\ calls # << >> /\ Head(calls).name = "start_job"
      /\ UNCHANGED <<budgets, at, results, steps, returned, log>>
  BY <1>1 DEF StartJob, Calling
<1>3. /\ l \in Lanes /\ L \in LaneRec /\ CallOK(Head(calls)) /\ Pending(l) = {Head(calls)}
      /\ 1 - l \in Lanes /\ 1 - l # l /\ Lanes = {l, 1 - l}
  BY <1>1, <1>2, CallFacts
<1>4. L.moves = << >> /\ L.fell = None
  BY <1>1, <1>2, <1>3 DEF CallOK
<1>5. next \in Int /\ 0 <= next /\ next <= NumJobs /\ NumJobs \in Nat
  BY Constants DEF IInv, Typed
<1>6. \A j : ~Busy(l, j)
  BY <1>2, <1>3 DEF Busy
<1>7. \A j \in JobNumbers : j < next =>
        Busy(1 - l, j) \/ (Len(log[j]) = Rounds /\ results[j] = Tallied(log[j]))
  BY <1>3, <1>6 DEF IInv, Finished
<1>8. RoundsAsPlayed'
  BY <1>2 DEF IInv, RoundsAsPlayed, Drawn
<1>9. ASSUME NEW M \in LaneRec, lane' = [lane EXCEPT ![l] = M]
      PROVE  lane' \in [Lanes -> LaneRec] /\ lane'[l] = M /\ lane'[1 - l] = lane[1 - l]
  BY <1>3, <1>9 DEF IInv, Typed
<1>10. ASSUME Pending(1 - l)' = Pending(1 - l), lane'[1 - l] = lane[1 - l], NEW j \in JobNumbers,
              Busy(1 - l, j) \/ (Len(log[j]) = Rounds /\ results[j] = Tallied(log[j]))
       PROVE  \/ \E q \in Lanes : Busy(q, j)'
              \/ Len(log[j])' = Rounds /\ results'[j] = Tallied(log[j])'
  BY <1>2, <1>3, <1>10 DEF Busy, Tallied, Tally
<1>11. CASE next >= NumJobs \/ Rounds = 0
  <2> DEFINE M == [L EXCEPT !.job = NoJob]
  <2>1. lane' = [lane EXCEPT ![l] = M] /\ Calls(<< >>) /\ next' = next
    BY <1>1, <1>11 DEF StartJob
  <2>2. M \in LaneRec /\ M.job = NoJob
    BY <1>3 DEF LaneRec
  <2> HIDE DEF M
  <2>3. lane' \in [Lanes -> LaneRec] /\ lane'[l] = M /\ lane'[1 - l] = lane[1 - l]
    BY <1>9, <2>1, <2>2
  <2>4. Typed'
    BY <1>2, <2>1, <2>3 DEF IInv, Typed
  <2>5. Exhausted'
    BY <1>5, <1>11, <2>1 DEF Exhausted
  <2>6. IdleOK(l)'
    BY <2>2, <2>3 DEF IdleOK, Active
  <2>7. Pending(1 - l)' = Pending(1 - l)
    BY <1>1, <1>2, <1>3, <2>1, CallMade DEF IInv
  <2>8. Owned'
    BY <1>3, <2>1, <2>2, <2>3 DEF IInv, Owned, Active, Lanes
  <2>9. Finished'
    BY <1>2, <1>7, <1>10, <2>1, <2>3, <2>7 DEF IInv, Finished
  <2> QED
    BY <1>1, <1>2, <1>3, <1>8, <2>1, <2>3, <2>4, <2>5, <2>6, <2>8, <2>9, CallStep
<1>12. CASE ~(next >= NumJobs \/ Rounds = 0)
  <2> DEFINE M == [L EXCEPT !.job = next, !.round = 0, !.seed = Seeds[next + 1], !.score = NoScore]
             c == Call("start_round", l)
  <2>0. PICK k : k = next
    OBVIOUS
  <2>1. lane' = [lane EXCEPT ![l] = M] /\ Calls(<<c>>) /\ next' = next + 1
    BY <1>1, <1>12 DEF StartJob
  <2>2. k \in JobNumbers /\ next + 1 \in 0 .. NumJobs /\ Seeds[next + 1] \in I32
    BY <1>5, <1>12, <2>0, Constants
  <2>3. NoScore \in Score /\ 0 \in 0 .. Rounds
    BY Constants DEF NoScore, Score
  <2>4. /\ M \in LaneRec /\ M.job = k /\ M.round = 0 /\ M.seed = Seeds[k + 1]
        /\ M.score = NoScore /\ M.moves = << >> /\ M.fell = None
    BY <1>3, <1>4, <2>0, <2>2, <2>3 DEF LaneRec
  <2> HIDE DEF M
  <2>5. lane' \in [Lanes -> LaneRec] /\ lane'[l] = M /\ lane'[1 - l] = lane[1 - l]
    BY <1>9, <2>1, <2>4
  <2>6. Typed'
    BY <1>2, <2>1, <2>2, <2>5 DEF IInv, Typed
  <2>7. log[k] = << >>
    BY <1>5, <2>0, <2>2 DEF IInv, Finished
  <2>8. NoScore = Tallied(<< >>)
    BY TallyNone DEF NoScore, Tallied
  <2>9. Playing(lane[l])'
    <3>1. lane'[l].job = k /\ log'[k] = << >> /\ Len(<< >>) = 0 /\ Rounds > 0
      BY <1>2, <1>12, <2>4, <2>5, <2>7, Constants
    <3>2. Tallied(log[k])' = NoScore
      BY <2>8, <3>1
    <3> QED
      BY <2>2, <2>4, <2>5, <3>1, <3>2 DEF Playing
  <2>10. c \in CallSet /\ c.lane = l /\ c.name = "start_round"
    BY <1>3, CallSetParts DEF Call
  <2>11. CallOK(c)'
    <3>1. Drawn(lane[l].job, lane[l].round + 1)' = M.seed
      BY <2>4, <2>5 DEF Drawn
    <3> QED
      BY <2>4, <2>5, <2>9, <2>10, <3>1 DEF CallOK
  <2>12. Pending(1 - l)' = Pending(1 - l) /\ Pending(l)' = {c}
    BY <1>1, <1>2, <1>3, <2>1, <2>10, CallMade DEF IInv
  <2>13. Owned'
    <3>1. \A q \in Lanes : Active(q) => lane[q].job \in JobNumbers /\ lane[q].job < next
      BY DEF IInv, Owned, Active, Typed, LaneRec
    <3>2. Active(l)' /\ lane'[l].job < next'
      BY <1>5, <2>0, <2>1, <2>2, <2>4, <2>5, Constants DEF Active
    <3>3. Active(1 - l)' => lane'[1 - l].job < next' /\ lane'[1 - l].job # k
      BY <1>3, <1>5, <2>0, <2>1, <2>5, <3>1, Constants DEF Active
    <3> QED
      BY <1>3, <2>2, <2>4, <2>5, <3>2, <3>3, Constants DEF Owned, Active, Lanes
  <2>14. Finished'
    <3>1. Busy(l, k)'
      BY <2>4, <2>5, <2>10, <2>12 DEF Busy
    <3>2. ASSUME NEW j \in JobNumbers, j >= next'
          PROVE  log'[j] = << >> /\ results'[j] = NoScore
      BY <1>2, <1>5, <2>1, <3>2, Constants DEF IInv, Finished
    <3>3. ASSUME NEW j \in JobNumbers, j < next'
          PROVE  \/ \E q \in Lanes : Busy(q, j)'
                 \/ Len(log[j])' = Rounds /\ results'[j] = Tallied(log[j])'
      <4>1. j = k \/ j < next
        BY <1>5, <2>0, <2>1, <3>3, Constants
      <4> QED
        BY <1>3, <1>7, <1>10, <2>5, <2>12, <3>1, <4>1
    <3> QED
      BY <3>2, <3>3 DEF Finished
  <2>15. Exhausted => Exhausted'
    BY <1>5, <1>12 DEF Exhausted
  <2> QED
    BY <1>1, <1>2, <1>3, <1>8, <2>1, <2>5, <2>6, <2>10, <2>11, <2>13, <2>14, <2>15, CallStep
<1> QED
  BY <1>11, <1>12

\* A round more in the list of a job is a round more in its score.
LEMMA ScoredTally ==
  ASSUME NEW s \in Seq(Entry), NEW r \in Entry
  PROVE  /\ Tallied(s) \in Score
         /\ Scored(Tallied(s), r.outcome) = Tallied(Append(s, r))
<1>1. ASSUME NEW o PROVE Tally(s, o) \in Nat
  <2> DEFINE S == {i \in DOMAIN s : s[i].outcome = o}
  <2>1. IsFiniteSet(1 .. Len(s)) /\ S \subseteq 1 .. Len(s)
    BY FS_Interval
  <2>2. IsFiniteSet(S)
    BY <2>1, FS_Subset
  <2> QED
    BY <2>2, FS_CardinalityType DEF Tally
<1>2. Tallied(s) \in Score
  BY <1>1 DEF Tallied, Score
<1>3. r.outcome \in Outcomes
  BY DEF Entry
<1>4. \A o \in Outcomes :
        Tally(Append(s, r), o) = IF r.outcome = o THEN Tally(s, o) + 1 ELSE Tally(s, o)
  BY TallyAppend
<1>5. PICK a \in Nat, b \in Nat, c \in Nat :
        a = Tally(s, "win0") /\ b = Tally(s, "win1") /\ c = Tally(s, "tie")
  BY <1>1
<1> DEFINE T == [w1 |-> a, w2 |-> b, ties |-> c]
<1>6. Tallied(s) = T
  BY <1>5 DEF Tallied
<1>7. /\ Scored(T, "win0") = [T EXCEPT !.w1 = T.w1 + 1]
      /\ Scored(T, "win1") = [T EXCEPT !.w2 = T.w2 + 1]
      /\ Scored(T, "tie") = [T EXCEPT !.ties = T.ties + 1]
  <2> HIDE DEF T
  <2> QED
    BY DEF Scored
<1>8. CASE r.outcome = "win0"
  <2>1. Tally(Append(s, r), "win0") = a + 1 /\ Tally(Append(s, r), "win1") = b
        /\ Tally(Append(s, r), "tie") = c
    BY <1>4, <1>5, <1>8 DEF Outcomes
  <2>2. Scored(T, "win0") = [w1 |-> a + 1, w2 |-> b, ties |-> c]
    BY <1>7 DEF T
  <2>3. Scored(T, "win0") = Tallied(Append(s, r))
    BY <2>1, <2>2 DEF Tallied
  <2> QED
    BY <1>2, <1>6, <1>8, <2>1, <2>3
<1>9. CASE r.outcome = "win1"
  <2>1. Tally(Append(s, r), "win0") = a /\ Tally(Append(s, r), "win1") = b + 1
        /\ Tally(Append(s, r), "tie") = c
    BY <1>4, <1>5, <1>9 DEF Outcomes
  <2>2. Scored(T, "win1") = [w1 |-> a, w2 |-> b + 1, ties |-> c]
    BY <1>7 DEF T
  <2>3. Scored(T, "win1") = Tallied(Append(s, r))
    BY <2>1, <2>2 DEF Tallied
  <2> QED
    BY <1>2, <1>6, <1>9, <2>1, <2>3
<1>10. CASE r.outcome = "tie"
  <2>1. Tally(Append(s, r), "win0") = a /\ Tally(Append(s, r), "win1") = b
        /\ Tally(Append(s, r), "tie") = c + 1
    BY <1>4, <1>5, <1>10 DEF Outcomes
  <2>2. Scored(T, "tie") = [w1 |-> a, w2 |-> b, ties |-> c + 1]
    BY <1>7 DEF T
  <2>3. Scored(T, "tie") = Tallied(Append(s, r))
    BY <2>1, <2>2 DEF Tallied
  <2> QED
    BY <1>2, <1>6, <1>10, <2>1, <2>3
<1> QED
  BY <1>2, <1>3, <1>8, <1>9, <1>10 DEF Outcomes

\* end_round keeps it: the round is scored, and the other lane settled.
LEMMA EndRoundKeeps ==
  ASSUME IInv, EndRound
  PROVE  IInv'
<1>1. PICK l, outcome : l = Head(calls).lane /\ outcome = Head(calls).outcome
  OBVIOUS
<1>2. PICK j, s, n : j = lane[l].job /\ s = log[j] /\ n = lane[l].round
  OBVIOUS
<1> DEFINE L == lane[l]
           M == [L EXCEPT !.engineSteps = @ + L.executed, !.score = Scored(L.score, outcome),
                          !.round = n + 1, !.moves = << >>, !.fell = None]
           r == [outcome |-> outcome, pos |-> L.pos, seed |-> L.seed,
                 moves |-> Len(L.moves), fell |-> L.fell]
           more == IF n + 1 = Rounds THEN <<Call("start_job", l)>> ELSE <<Call("start_round", l)>>
<1>3. /\ calls # << >> /\ Head(calls).name = "end_round"
      /\ lane' = [lane EXCEPT ![l] = M] /\ Calls(more)
      /\ results' = IF n + 1 = Rounds THEN [results EXCEPT ![j] = M.score] ELSE results
      /\ log' = [log EXCEPT ![j] = Append(log[j], r)]
      /\ UNCHANGED <<budgets, at, next, returned>>
  <2> DEFINE K == [L EXCEPT !.engineSteps = @ + L.executed, !.score = Scored(@, outcome),
                             !.round = @ + 1]
  <2>1. calls # << >> /\ Head(calls).name = "end_round"
    BY DEF EndRound, Calling
  <2>2. /\ lane' = [lane EXCEPT ![l] = [K EXCEPT !.moves = << >>, !.fell = None]]
        /\ IF K.round = Rounds
           THEN results' = [results EXCEPT ![K.job] = K.score] /\ Calls(<<Call("start_job", l)>>)
           ELSE Calls(<<Call("start_round", l)>>) /\ UNCHANGED results
        /\ log' = [log EXCEPT ![K.job] = Append(@,
                     [outcome |-> outcome, pos |-> K.pos, seed |-> K.seed,
                      moves |-> Len(K.moves), fell |-> K.fell])]
    BY <1>1 DEF EndRound
  <2>3. UNCHANGED <<budgets, at, next, returned>>
    BY DEF EndRound
  <2>4. l \in Lanes /\ L \in LaneRec
    BY <1>1, <2>1, CallFacts
  <2>5. L = [job |-> L.job, round |-> L.round, seed |-> L.seed, pos |-> L.pos,
             score |-> L.score, budget |-> L.budget, executed |-> L.executed, owes |-> L.owes,
             engineSteps |-> L.engineSteps, moves |-> L.moves, fell |-> L.fell]
    BY <2>4 DEF LaneRec
  <2>6. K.round = n + 1 /\ K.job = j /\ K.score = M.score
    BY <1>2, <2>5
  <2>7. [K EXCEPT !.moves = << >>, !.fell = None] = M
    BY <1>2, <2>5
  <2>8. K.pos = L.pos /\ K.seed = L.seed /\ K.moves = L.moves /\ K.fell = L.fell
    BY <2>5
  <2> HIDE DEF K, M, L
  <2>9. log' = [log EXCEPT ![j] = Append(log[j], r)]
    BY <2>2, <2>6, <2>8
  <2> QED BY <2>1, <2>2, <2>3, <2>6, <2>7, <2>9
<1>4. /\ l \in Lanes /\ L \in LaneRec /\ CallOK(Head(calls)) /\ Head(calls) \in CallSet
      /\ 1 - l \in Lanes /\ 1 - l # l /\ Lanes = {l, 1 - l} /\ Pending(l) = {Head(calls)}
  BY <1>1, <1>3, CallFacts
<1>5. Playing(L) /\ Placed(L) /\ Decided(L, outcome) /\ outcome \in Outcomes
  BY <1>1, <1>3, <1>4 DEF CallOK, Over, CallSet
<1>6. /\ j \in JobNumbers /\ s \in Seq(Entry) /\ n \in Nat /\ n = Len(s) /\ n < Rounds
      /\ L.score = Tallied(s)
  BY <1>2, <1>4, <1>5 DEF IInv, Typed, Playing, LaneRec
<1>7. r \in Entry /\ r.outcome = outcome /\ r.seed = L.seed
  BY <1>4, <1>5 DEF Entry, LaneRec
<1>8. M.score = Tallied(Append(s, r)) /\ M.score \in Score
  <2>1. Scored(L.score, outcome) = Tallied(Append(s, r))
    BY <1>6, <1>7, ScoredTally
  <2>2. Append(s, r) \in Seq(Entry)
    BY <1>6, <1>7
  <2>3. Tallied(Append(s, r)) \in Score
    BY <1>7, <2>2, ScoredTally
  <2> QED
    BY <1>4, <2>1, <2>3 DEF LaneRec
<1>9. /\ M \in LaneRec /\ M.job = j /\ M.round = n + 1 /\ M.moves = << >> /\ M.fell = None
      /\ M.seed = L.seed
  <2>1. L.engineSteps + L.executed \in Int /\ n + 1 \in 0 .. Rounds
    <3>1. L.engineSteps \in Int /\ L.executed \in Int
      BY <1>4, Constants DEF LaneRec
    <3> QED
      BY <1>6, <3>1, Constants
  <2>2. Scored(L.score, outcome) \in Score
    BY <1>4, <1>8 DEF LaneRec
  <2>3. << >> \in Seq(Lanes)
    OBVIOUS
  <2>4. PICK e, q : e = L.engineSteps + L.executed /\ q = Scored(L.score, outcome)
    OBVIOUS
  <2>5. M = [L EXCEPT !.engineSteps = e, !.score = q, !.round = n + 1, !.moves = << >>,
                      !.fell = None]
    BY <2>4
  <2> QED
    BY <1>2, <1>4, <2>1, <2>2, <2>3, <2>4, <2>5 DEF LaneRec
<1>10. /\ Append(s, r) \in Seq(Entry) /\ Len(Append(s, r)) = n + 1
       /\ \A i \in 1 .. n : Append(s, r)[i] = s[i]
       /\ Append(s, r)[n + 1] = r
  BY <1>6, <1>7
<1> HIDE DEF M, r
<1>11. lane' \in [Lanes -> LaneRec] /\ lane'[l] = M /\ lane'[1 - l] = lane[1 - l]
  BY <1>3, <1>4, <1>9 DEF IInv, Typed
<1>12. /\ log' \in [JobNumbers -> Seq(Entry)] /\ log'[j] = Append(s, r)
       /\ \A k \in JobNumbers \ {j} : log'[k] = log[k]
  BY <1>2, <1>3, <1>6, <1>10 DEF IInv, Typed
<1>13. /\ results' \in [JobNumbers -> Score]
       /\ \A k \in JobNumbers \ {j} : results'[k] = results[k]
       /\ n + 1 = Rounds => results'[j] = M.score
  BY <1>3, <1>6, <1>8 DEF IInv, Typed
<1>14. Typed'
  BY <1>3, <1>11, <1>12, <1>13 DEF IInv, Typed
<1>15. j < next /\ next \in Int
  BY <1>2, <1>4, <1>6, Constants DEF IInv, Owned, Active, Typed
<1>16. /\ \A c : more = <<c>> => c \in CallSet /\ c.lane = l /\ CallOK(c)'
       /\ \E c \in CallSet : more = <<c>> /\ c.lane = l
  <2>1. CASE n + 1 = Rounds
    <3> DEFINE c == Call("start_job", l)
    <3>1. c \in CallSet /\ c.lane = l /\ c.name = "start_job" /\ more = <<c>>
      BY <1>4, <2>1, CallSetParts DEF Call
    <3>2. CallOK(c)'
      BY <1>9, <1>11, <3>1 DEF CallOK
    <3> QED
      BY <3>1, <3>2
  <2>2. CASE n + 1 # Rounds
    <3> DEFINE c == Call("start_round", l)
    <3>1. c \in CallSet /\ c.lane = l /\ c.name = "start_round" /\ more = <<c>>
      BY <1>4, <2>2, CallSetParts DEF Call
    <3>2. Playing(lane[l])'
      <4>1. lane'[l].job = j /\ lane'[l].round = n + 1 /\ lane'[l].score = Tallied(Append(s, r))
        BY <1>8, <1>9, <1>11
      <4>2. n + 1 < Rounds
        BY <1>6, <2>2, Constants
      <4>3. Tallied(log[j])' = Tallied(Append(s, r))
        BY <1>12
      <4> QED
        BY <1>6, <1>10, <1>12, <4>1, <4>2, <4>3 DEF Playing
    <3>3. Drawn(lane[l].job, lane[l].round + 1)' = M.seed
      <4>1. lane'[l].job = j /\ lane'[l].round + 1 = n + 2 /\ n + 2 # 1 /\ n + 2 - 1 = n + 1
        BY <1>6, <1>9, <1>11
      <4>2. log'[j][n + 1].seed = M.seed
        BY <1>7, <1>9, <1>10, <1>12
      <4>3. PICK i : i = lane'[l].round + 1
        OBVIOUS
      <4>4. i # 1 /\ i - 1 = n + 1
        BY <1>6, <4>1, <4>3
      <4>5. Drawn(lane[l].job, lane[l].round + 1)' = log'[j][n + 1].seed
        BY <4>1, <4>3, <4>4 DEF Drawn
      <4> QED
        BY <4>2, <4>5
    <3>4. CallOK(c)'
      BY <1>9, <1>11, <3>1, <3>2, <3>3 DEF CallOK
    <3> QED
      BY <3>1, <3>4
  <2> QED
    BY <2>1, <2>2
<1>17. /\ Pending(1 - l)' = Pending(1 - l)
       /\ n + 1 # Rounds => \A c \in Pending(l)' : c.name # "start_job"
  <2>1. Pending(1 - l)' = Pending(1 - l) /\ \A c \in CallSet : more = <<c>> => Pending(l)' = {c}
    BY <1>1, <1>3, <1>4, <1>16, CallMade DEF IInv
  <2> DEFINE c == Call("start_round", l)
  <2>2. c \in CallSet /\ c.name = "start_round" /\ (n + 1 # Rounds => more = <<c>>)
    BY <1>4, CallSetParts DEF Call
  <2> QED
    BY <2>1, <2>2
<1>18. Owned'
  BY <1>2, <1>3, <1>4, <1>9, <1>11 DEF IInv, Owned, Active, Lanes
<1>19. Finished'
  <2>1. ASSUME NEW k \in JobNumbers, k >= next'
        PROVE  log'[k] = << >> /\ results'[k] = NoScore
    BY <1>3, <1>12, <1>13, <1>15, <2>1, Constants DEF IInv, Finished
  <2>2. ASSUME NEW k \in JobNumbers, k < next', k # j
        PROVE  \/ \E q \in Lanes : Busy(q, k)'
               \/ Len(log[k])' = Rounds /\ results'[k] = Tallied(log[k])'
    <3>1. Busy(1 - l, k) \/ (Len(log[k]) = Rounds /\ results[k] = Tallied(log[k]))
      BY <1>2, <1>3, <1>4, <2>2 DEF IInv, Finished, Busy
    <3>2. Busy(1 - l, k) => Busy(1 - l, k)'
      BY <1>11, <1>17 DEF Busy
    <3>3. log'[k] = log[k] /\ results'[k] = results[k]
      BY <1>12, <1>13, <2>2
    <3>4. Tallied(log[k])' = Tallied(log[k])
      BY <3>3
    <3> QED
      BY <1>4, <3>1, <3>2, <3>3, <3>4
  <2>3. \/ \E q \in Lanes : Busy(q, j)'
        \/ Len(log[j])' = Rounds /\ results'[j] = Tallied(log[j])'
    <3>1. CASE n + 1 = Rounds
      <4>1. Len(log'[j]) = Rounds /\ results'[j] = Tallied(Append(s, r))
        BY <1>8, <1>10, <1>12, <1>13, <3>1
      <4>2. Tallied(log[j])' = Tallied(Append(s, r))
        BY <1>12
      <4> QED
        BY <4>1, <4>2
    <3>2. CASE n + 1 # Rounds
      BY <1>4, <1>9, <1>11, <1>17, <3>2 DEF Busy
    <3> QED
      BY <3>1, <3>2
  <2> QED
    BY <2>1, <2>2, <2>3 DEF Finished
<1>20. RoundsAsPlayed'
  <2> SUFFICES ASSUME NEW k \in JobNumbers, NEW i \in 1 .. Len(log'[k])
               PROVE  /\ log'[k][i].pos = Position(Drawn(k, i)')
                      /\ log'[k][i].seed = PmarsRng(Drawn(k, i)')
                      /\ log'[k][i].outcome = "tie" =>
                           log'[k][i].fell = None /\ log'[k][i].moves = 2 * MaxCycles
                      /\ log'[k][i].outcome # "tie" =>
                           /\ log'[k][i].fell = (i - 1 + log'[k][i].moves - 1) % 2
                           /\ log'[k][i].outcome = Won(1 - log'[k][i].fell)
                           /\ log'[k][i].moves \in 1 .. 2 * MaxCycles
    BY DEF RoundsAsPlayed
  <2>0. Len(log'[k]) \in Nat /\ i \in Int /\ 1 <= i /\ i <= Len(log'[k])
    BY <1>12
  <2>1. CASE k # j \/ i <= n
    <3>1. i \in 1 .. Len(log[k]) /\ log'[k][i] = log[k][i]
      <4>1. CASE k # j
        BY <1>12, <4>1
      <4>2. CASE k = j /\ i <= n
        BY <1>2, <1>6, <1>10, <1>12, <2>0, <4>2
      <4> QED
        BY <2>1, <4>1, <4>2
    <3>2. Drawn(k, i)' = Drawn(k, i)
      <4>1. CASE i = 1
        BY <4>1 DEF Drawn
      <4>2. CASE i # 1
        <5>1. log'[k][i - 1] = log[k][i - 1]
          <6>1. CASE k # j
            BY <1>12, <6>1
          <6>2. CASE k = j /\ i <= n
            <7>1. i - 1 \in 1 .. n
              BY <1>6, <2>0, <4>2, <6>2
            <7> QED
              BY <1>2, <1>10, <1>12, <6>2, <7>1
          <6> QED
            BY <2>1, <6>1, <6>2
        <5> QED
          BY <4>2, <5>1 DEF Drawn
      <4> QED
        BY <4>1, <4>2
    <3> QED
      BY <3>1, <3>2 DEF IInv, RoundsAsPlayed
  <2>2. CASE k = j /\ i = n + 1
    <3>1. /\ log'[k][i] = r /\ r.outcome = outcome /\ r.pos = L.pos /\ r.seed = L.seed
          /\ r.moves = Len(L.moves) /\ r.fell = L.fell
      BY <1>10, <1>12, <2>2 DEF r
    <3>2. Drawn(k, i)' = Drawn(L.job, L.round + 1)
      <4>1. CASE n = 0
        BY <1>2, <2>2, <4>1 DEF Drawn
      <4>2. CASE n # 0
        <5>1. n \in 1 .. n /\ n + 1 # 1 /\ n + 1 - 1 = n
          BY <1>6, <4>2
        <5>2. log'[j][n] = log[j][n]
          BY <1>2, <1>10, <1>12, <5>1
        <5> QED
          BY <1>2, <2>2, <5>1, <5>2 DEF Drawn
      <4> QED
        BY <4>1, <4>2
    <3>3. i - 1 = L.round
      BY <1>2, <1>6, <2>2
    <3> QED
      BY <1>5, <3>1, <3>2, <3>3 DEF Placed, Decided
  <2>3. CASE k = j /\ ~(i <= n)
    <3>1. i = n + 1
      BY <1>6, <1>10, <1>12, <2>0, <2>3
    <3> QED
      BY <2>2, <2>3, <3>1
  <2> QED
    BY <2>1, <2>3
<1>21. Exhausted => Exhausted'
  BY <1>3 DEF Exhausted
<1>22. more # << >>
  BY <1>16
<1>23. \A k \in JobNumbers \ {lane[l].job} : log'[k] = log[k]
  BY <1>2, <1>12
<1> HIDE DEF more
<1> QED
  BY <1>1, <1>3, <1>4, <1>11, <1>14, <1>16, <1>18, <1>19, <1>20, <1>21, <1>22, <1>23, CallStep

-----------------------------------------------------------------------------
\* The loop.

\* The calls made by a step that found none pending.
LEMMA NewCalls ==
  ASSUME NEW c \in CallSet
  PROVE  /\ calls' = <<c>> => /\ CallsOK' /\ Pending(c.lane)' = {c}
                              /\ \A o : o # c.lane => Pending(o)' = {}
         /\ \A d \in CallSet : calls' = <<c, d>> /\ c.lane # d.lane =>
              CallsOK' /\ Pending(c.lane)' = {c} /\ Pending(d.lane)' = {d}
<1>1. ASSUME calls' = <<c>>
      PROVE  CallsOK' /\ Pending(c.lane)' = {c} /\ \A o : o # c.lane => Pending(o)' = {}
  BY <1>1 DEF CallsOK, Pending
<1>2. ASSUME NEW d \in CallSet, calls' = <<c, d>>, c.lane # d.lane
      PROVE  CallsOK' /\ Pending(c.lane)' = {c} /\ Pending(d.lane)' = {d}
  BY <1>2 DEF CallsOK, Pending
<1> QED
  BY <1>1, <1>2

\* Nor does a step of the loop change who owns and who has finished what.
LEMMA LoopOwned ==
  ASSUME IInv, calls = << >>, UNCHANGED <<next, results, log>>,
         \A l \in Lanes : lane'[l].job = lane[l].job,
         \A l \in Lanes : \A c \in Pending(l)' : c.name # "start_job"
  PROVE  Owned' /\ Finished' /\ RoundsAsPlayed'
<1>1. 0 \in Lanes /\ 1 \in Lanes
  BY DEF Lanes
<1>2. Owned'
  BY <1>1 DEF IInv, Owned, Active
<1>3. Finished'
  <2>1. \A j : (\E q \in Lanes : Busy(q, j)) => (\E q \in Lanes : Busy(q, j)')
    BY DEF Busy
  <2> QED
    BY <2>1 DEF IInv, Finished, Tallied, Tally
<1>4. RoundsAsPlayed'
  BY DEF IInv, RoundsAsPlayed, Drawn
<1> QED
  BY <1>2, <1>3, <1>4

\* Entering the hot loop keeps it: both lanes are at the start of a pair.
LEMMA EnterBothKeeps ==
  ASSUME IInv, EnterBoth
  PROVE  IInv'
<1>1. /\ calls = << >> /\ at = None /\ ~returned /\ calls' = << >> /\ at' = 0
      /\ budgets' = [l \in Lanes |-> lane[l].budget]
      /\ UNCHANGED <<lane, next, results, returned, log>>
      /\ Active(0) /\ Active(1)
  BY DEF EnterBoth, Ready
<1>2. \A l \in Lanes : Pending(l) = {} /\ Pending(l)' = {}
  BY <1>1, NoCalls DEF Pending
<1>3. Typed'
  <2>1. \A l \in Lanes : lane[l].budget \in 0 .. 2 * MaxCycles
    BY DEF IInv, Typed, LaneRec
  <2>2. 0 \in {None} \cup 0 .. 3
    OBVIOUS
  <2> QED
    BY <1>1, <2>1, <2>2 DEF IInv, Typed
<1>4. ASSUME NEW l \in Lanes PROVE LaneOK(l)'
  <2>1. InRound(lane[l], lane[l].budget) /\ Turn(lane[l]) = 0
    BY <1>1, <1>2 DEF IInv, LaneOK, IdleOK, Lanes
  <2>2. budgets'[l] = lane[l].budget /\ lane'[l] = lane[l]
    BY <1>1
  <2>3. Playing(lane[l])' /\ Placed(lane[l])'
    BY <1>1, <2>1, StillPlaced DEF InRound
  <2>4. Going(lane[l], budgets[l])'
    BY <2>1, <2>2 DEF InRound, Going, Alternates
  <2>5. HotTurn(l)' = 0
    BY <1>1 DEF HotTurn
  <2>6. HotOK(l)'
    BY <2>1, <2>2, <2>3, <2>4, <2>5 DEF HotOK, InRound, Turn
  <2>7. Active(l)' /\ at' # None
    BY <1>1 DEF Active, Lanes, None
  <2> QED
    BY <1>2, <2>6, <2>7 DEF LaneOK
<1>5. Owned' /\ Finished' /\ RoundsAsPlayed'
  BY <1>1, <1>2, LoopOwned
<1> QED
  BY <1>1, <1>3, <1>4, <1>5 DEF IInv, CallsOK

\* What the hot loop finds.
LEMMA HotFacts ==
  ASSUME IInv, at # None, NEW e, e = LaneAt(at)
  PROVE  /\ at \in 0 .. 3 /\ calls = << >> /\ ~returned
         /\ e \in Lanes /\ 1 - e \in Lanes /\ 1 - e # e /\ Lanes = {e, 1 - e}
         /\ \A l \in Lanes : /\ HotOK(l) /\ Pending(l) = {} /\ lane[l] \in LaneRec
                              /\ budgets[l] \in 0 .. 2 * MaxCycles
         /\ HotTurn(e) = WarriorAt(at) /\ HotTurn(1 - e) = IF OtherOwes(at) THEN 1 ELSE 0
<1>1. at \in 0 .. 3 /\ calls = << >> /\ ~returned
  BY DEF IInv, Typed
<1>2. \A l \in Lanes : /\ HotOK(l) /\ Pending(l) = {} /\ lane[l] \in LaneRec
                       /\ budgets[l] \in 0 .. 2 * MaxCycles
  BY <1>1, NoCalls DEF IInv, LaneOK, Typed
<1>3. e \in Lanes /\ 1 - e \in Lanes /\ 1 - e # e /\ Lanes = {e, 1 - e}
  BY <1>1 DEF LaneAt, Lanes
<1>4. at = 0 \/ at = 1 \/ at = 2 \/ at = 3
  BY <1>1
<1>5. HotTurn(e) = WarriorAt(at) /\ HotTurn(1 - e) = IF OtherOwes(at) THEN 1 ELSE 0
  BY <1>4 DEF LaneAt, HotTurn, WarriorAt, OtherOwes
<1> QED
  BY <1>1, <1>2, <1>3, <1>5

\* The loop is left with a lane's round ended.
LEMMA LeaveKeeps ==
  ASSUME IInv, at # None, NEW e, e = LaneAt(at), NEW o \in Outcomes,
         NEW L \in [Lanes -> LaneRec], NEW b \in [Lanes -> 0 .. 2 * MaxCycles],
         L[1 - e] = lane[1 - e], b[1 - e] = budgets[1 - e],
         Decided(L[e], o),
         L[e].job = lane[e].job, L[e].round = lane[e].round, L[e].score = lane[e].score,
         L[e].pos = lane[e].pos, L[e].seed = lane[e].seed,
         L[e].executed + L[e].budget = 2 * MaxCycles,
         Leave(o, L, b), UNCHANGED <<next, results, returned, log>>
  PROVE  IInv'
<1>1. /\ at \in 0 .. 3 /\ calls = << >> /\ ~returned
      /\ e \in Lanes /\ 1 - e \in Lanes /\ 1 - e # e /\ Lanes = {e, 1 - e}
      /\ \A l \in Lanes : /\ HotOK(l) /\ Pending(l) = {} /\ lane[l] \in LaneRec
                           /\ budgets[l] \in 0 .. 2 * MaxCycles
      /\ HotTurn(1 - e) = IF OtherOwes(at) THEN 1 ELSE 0
  BY HotFacts
<1>2. PICK q : q = 1 - e
  OBVIOUS
<1>3. PICK w \in BOOLEAN : w = OtherOwes(at)
  <2>1. CASE at \in {1, 2}
    <3>1. TRUE = OtherOwes(at)
      BY <2>1 DEF OtherOwes
    <3> QED
      BY <3>1
  <2>2. CASE at \notin {1, 2}
    <3>1. FALSE = OtherOwes(at)
      BY <2>2 DEF OtherOwes
    <3> QED
      BY <3>1
  <2> QED
    BY <2>1, <2>2
<1> DEFINE back == [l \in Lanes |-> Counted(L[l], b[l])]
           c == EndCall(e, o)
           d == Call("settle", q)
<1>4. /\ lane' = [back EXCEPT ![q].owes = w] /\ budgets' = [l \in Lanes |-> 0]
      /\ at' = None /\ calls' = <<c, d>>
  BY <1>2, <1>3 DEF Leave
<1>5. \A l \in Lanes : /\ Playing(lane[l]) /\ Placed(lane[l]) /\ Going(lane[l], budgets[l])
                       /\ Turn(lane[l]) = HotTurn(l)
  BY <1>1 DEF HotOK, InRound
<1>6. ASSUME NEW l \in Lanes
      PROVE  /\ L[l].executed + L[l].budget = 2 * MaxCycles /\ L[l] \in LaneRec
             /\ L[l].job = lane[l].job /\ L[l].round = lane[l].round
             /\ L[l].score = lane[l].score /\ L[l].pos = lane[l].pos /\ L[l].seed = lane[l].seed
  BY <1>1, <1>5 DEF Going
<1>7. ASSUME NEW l \in Lanes
      PROVE  /\ Counted(L[l], b[l]) \in LaneRec
             /\ Counted(L[l], b[l]).executed + b[l] = 2 * MaxCycles
             /\ Counted(L[l], b[l]).budget = b[l]
  <2>1. PICK x \in Int, y \in Int, z \in Int, m \in Int :
          x = L[l].executed /\ y = L[l].budget /\ z = b[l] /\ m = 2 * MaxCycles
    <3>1. 2 * MaxCycles \in Int /\ b[l] \in Int
      BY Constants
    <3>2. L[l].executed \in Int /\ L[l].budget \in Int
      <4>1. PICK K \in LaneRec : K = L[l]
        OBVIOUS
      <4>2. K.executed \in 0 .. 2 * MaxCycles /\ K.budget \in 0 .. 2 * MaxCycles
        BY DEF LaneRec
      <4>3. K.executed \in Int /\ K.budget \in Int
        BY <4>2
      <4> QED BY <4>1, <4>3
    <3> QED
      BY <3>1, <3>2, Zenon
  <2>2. x + y = m /\ 0 <= z /\ z <= m
    BY <1>6, <2>1
  <2>3. x + y - z \in 0 .. m /\ x + y - z + z = m
    BY <2>2
  <2>4. PICK K : K = L[l]
    OBVIOUS
  <2>5. PICK f : f = x + y - z
    OBVIOUS
  <2>6. Counted(L[l], b[l]) = [K EXCEPT !.executed = f, !.budget = z]
    BY <2>1, <2>4, <2>5 DEF Counted
  <2>7. K \in LaneRec /\ f \in 0 .. m /\ z \in 0 .. m
    BY <1>6, <2>1, <2>3, <2>4, <2>5
  <2>8. /\ [K EXCEPT !.executed = f, !.budget = z] \in LaneRec
        /\ [K EXCEPT !.executed = f, !.budget = z].executed = f
        /\ [K EXCEPT !.executed = f, !.budget = z].budget = z
    BY <2>1, <2>7 DEF LaneRec
  <2> QED
    BY <2>1, <2>3, <2>5, <2>6, <2>8
<1>8. ASSUME NEW l \in Lanes
      PROVE  /\ Counted(L[l], b[l]).job = lane[l].job /\ Counted(L[l], b[l]).round = lane[l].round
             /\ Counted(L[l], b[l]).score = lane[l].score /\ Counted(L[l], b[l]).pos = lane[l].pos
             /\ Counted(L[l], b[l]).seed = lane[l].seed
             /\ Counted(L[l], b[l]).moves = L[l].moves /\ Counted(L[l], b[l]).fell = L[l].fell
  BY <1>6 DEF Counted, LaneRec
<1>9. PICK M \in LaneRec, N \in LaneRec : M = Counted(L[e], b[e]) /\ N = Counted(L[q], b[q])
  BY <1>1, <1>2, <1>7
<1>10. back \in [Lanes -> LaneRec] /\ back[e] = M /\ back[q] = N
  BY <1>1, <1>2, <1>7, <1>9
<1> DEFINE P == [N EXCEPT !.owes = w]
<1>11. lane' = [back EXCEPT ![q] = P]
  BY <1>4, <1>10
<1>12. /\ P \in LaneRec /\ (P.owes <=> w) /\ P.job = N.job /\ P.round = N.round
       /\ P.score = N.score /\ P.pos = N.pos /\ P.seed = N.seed /\ P.moves = N.moves
       /\ P.fell = N.fell /\ P.executed = N.executed /\ P.budget = N.budget
  BY DEF LaneRec
<1> HIDE DEF back, P
<1>13. lane' \in [Lanes -> LaneRec] /\ lane'[e] = M /\ lane'[q] = P
  BY <1>1, <1>2, <1>10, <1>11, <1>12
<1>14. Typed'
  <2>1. 0 \in 0 .. 2 * MaxCycles
    BY Constants
  <2> QED
    BY <1>4, <1>13, <2>1 DEF IInv, Typed
<1>15. /\ Playing(lane[e])' /\ Placed(lane[e])' /\ Playing(lane[q])' /\ Placed(lane[q])'
  BY <1>1, <1>2, <1>5, <1>8, <1>9, <1>12, <1>13, StillPlaced
<1>16. /\ c \in CallSet /\ c.lane = e /\ c.name = "end_round" /\ c.outcome = o
       /\ d \in CallSet /\ d.lane = q /\ d.name = "settle"
  BY <1>1, <1>2, CallSetParts DEF Call, EndCall
<1> HIDE DEF c, d
<1>17. CallOK(c)'
  BY <1>1, <1>8, <1>9, <1>13, <1>15, <1>16 DEF CallOK, Over, Decided, Alternates
<1>18. CallOK(d)'
  <2>1. L[q] = lane[q] /\ b[q] = budgets[q]
    BY <1>2
  <2>2. Alternates(lane[q]) /\ Len(lane[q].moves) + b[q] = 2 * MaxCycles /\ lane[q].fell = None
    BY <1>1, <1>2, <1>5, <2>1 DEF Going
  <2>3. /\ P.moves = lane[q].moves /\ P.round = lane[q].round /\ P.fell = lane[q].fell
        /\ P.budget = b[q] /\ P.executed + b[q] = 2 * MaxCycles
    BY <1>1, <1>2, <1>7, <1>8, <1>9, <1>12, <2>1
  <2>4. InRound(lane[q], lane[q].budget)'
    BY <1>13, <1>15, <2>2, <2>3 DEF InRound, Going, Alternates
  <2>5. Turn(lane[q])' = IF lane'[q].owes THEN 1 ELSE 0
    BY <1>1, <1>2, <1>3, <1>5, <1>12, <1>13, <2>3 DEF Turn
  <2> QED
    BY <1>16, <2>4, <2>5 DEF CallOK
<1>19. CallsOK' /\ Pending(e)' = {c} /\ Pending(q)' = {d}
  BY <1>1, <1>2, <1>4, <1>16, NewCalls
<1>20. \A l \in Lanes : LaneOK(l)'
  BY <1>1, <1>2, <1>17, <1>18, <1>19 DEF LaneOK
<1>21. Owned' /\ Finished' /\ RoundsAsPlayed'
  BY <1>1, <1>2, <1>8, <1>9, <1>12, <1>13, <1>16, <1>19, LoopOwned
<1> QED
  BY <1>1, <1>4, <1>14, <1>19, <1>20, <1>21 DEF IInv

\* A lane whose budget is spent in the hot loop keeps it.
LEMMA HotSpentKeeps ==
  ASSUME IInv, HotSpent
  PROVE  IInv'
<1>1. PICK e : e = LaneAt(at)
  OBVIOUS
<1>2. /\ at # None /\ budgets[e] = 0 /\ Leave("tie", lane, budgets)
      /\ UNCHANGED <<next, results, returned, log>>
  BY <1>1 DEF HotSpent
<1>3. /\ e \in Lanes /\ HotOK(e) /\ lane \in [Lanes -> LaneRec]
      /\ budgets \in [Lanes -> 0 .. 2 * MaxCycles]
  BY <1>1, <1>2, HotFacts DEF IInv, Typed
<1>4. /\ Alternates(lane[e]) /\ lane[e].fell = None /\ Len(lane[e].moves) + 0 = 2 * MaxCycles
      /\ lane[e].executed + lane[e].budget = 2 * MaxCycles
  BY <1>2, <1>3 DEF HotOK, InRound, Going
<1>5. Len(lane[e].moves) \in Nat
  BY <1>3 DEF LaneRec
<1>6. Decided(lane[e], "tie")
  BY <1>4, <1>5 DEF Decided
<1> QED
  BY <1>1, <1>2, <1>3, <1>4, <1>6, LeaveKeeps DEF Outcomes

\* What a move of warrior w in the hot loop does to its lane.
LEMMA HotStep ==
  ASSUME IInv, at # None, NEW e, e = LaneAt(at), budgets[e] > 0,
         NEW alive \in BOOLEAN, NEW M, M = Stepped(lane[e], WarriorAt(at), alive)
  PROVE  /\ M \in LaneRec /\ Alternates(M) /\ Len(M.moves) = Len(lane[e].moves) + 1
         /\ M.job = lane[e].job /\ M.round = lane[e].round /\ M.score = lane[e].score
         /\ M.pos = lane[e].pos /\ M.seed = lane[e].seed
         /\ M.budget = lane[e].budget /\ M.executed = lane[e].executed
         /\ Turn(M) = 1 - HotTurn(e) /\ (M.round + Len(M.moves) - 1) % 2 = WarriorAt(at)
         /\ alive => M.fell = None
         /\ ~alive => M.fell = WarriorAt(at)
         /\ WarriorAt(at) \in Lanes
<1> DEFINE L == lane[e]
<1>1. /\ L \in LaneRec /\ HotOK(e) /\ HotTurn(e) = WarriorAt(at)
  BY HotFacts
<1>2. Alternates(L) /\ L.fell = None /\ Turn(L) = WarriorAt(at)
  BY <1>1 DEF HotOK, InRound, Going
<1>3. L.moves \in Seq(Lanes) /\ L.round \in Nat
  BY <1>1, Constants DEF LaneRec
<1>4. /\ M.moves = Append(L.moves, Turn(L)) /\ M.round = L.round
      /\ M.job = L.job /\ M.score = L.score /\ M.pos = L.pos /\ M.seed = L.seed
      /\ M.budget = L.budget /\ M.executed = L.executed
      /\ (alive => M.fell = None) /\ (~alive => M.fell = WarriorAt(at))
  BY <1>1, <1>2 DEF Stepped, LaneRec
<1>5. /\ Alternates(M) /\ M.moves \in Seq(Lanes) /\ Len(M.moves) = Len(L.moves) + 1
      /\ Turn(M) = 1 - Turn(L) /\ (M.round + Len(M.moves) - 1) % 2 = Turn(L)
      /\ Turn(L) \in Lanes
  BY <1>2, <1>3, <1>4, OneMove
<1>6. M \in LaneRec
  <2>1. PICK g, v : g = Append(L.moves, Turn(L)) /\ v = (IF alive THEN None ELSE WarriorAt(at))
    OBVIOUS
  <2>2. M = [L EXCEPT !.moves = g, !.fell = v]
    BY <1>2, <2>1 DEF Stepped
  <2>3. g \in Seq(Lanes) /\ v \in {None} \cup Lanes
    BY <1>2, <1>4, <1>5, <2>1
  <2> QED
    BY <1>1, <2>2, <2>3 DEF LaneRec
<1> QED
  BY <1>1, <1>2, <1>4, <1>5, <1>6

\* A move of the hot loop keeps it, fatal or not.
LEMMA HotMoveKeeps ==
  ASSUME IInv, HotMove
  PROVE  IInv'
<1>1. PICK e, w : e = LaneAt(at) /\ w = WarriorAt(at)
  OBVIOUS
<1>2. at # None /\ budgets[e] > 0 /\ UNCHANGED <<next, results, returned, log>>
  BY <1>1 DEF HotMove
<1>3. PICK alive \in BOOLEAN :
        LET L == [lane EXCEPT ![e] = Stepped(@, w, alive)]
            b == [budgets EXCEPT ![e] = @ - 1]
        IN IF alive
           THEN lane' = L /\ budgets' = b /\ at' = (at + 1) % 4 /\ UNCHANGED calls
           ELSE Leave(Won(1 - w), L, b)
  BY <1>1 DEF HotMove
<1>4. /\ at \in 0 .. 3 /\ calls = << >> /\ ~returned
      /\ e \in Lanes /\ 1 - e \in Lanes /\ 1 - e # e /\ Lanes = {e, 1 - e}
      /\ \A l \in Lanes : /\ HotOK(l) /\ Pending(l) = {} /\ lane[l] \in LaneRec
                           /\ budgets[l] \in 0 .. 2 * MaxCycles
      /\ HotTurn(e) = w
  BY <1>1, <1>2, HotFacts
<1>5. \A l \in Lanes : /\ Playing(lane[l]) /\ Placed(lane[l]) /\ Going(lane[l], budgets[l])
                       /\ Turn(lane[l]) = HotTurn(l)
  BY <1>4 DEF HotOK, InRound
<1>6. PICK M : M = Stepped(lane[e], w, alive)
  OBVIOUS
<1>7. /\ M \in LaneRec /\ Alternates(M) /\ Len(M.moves) = Len(lane[e].moves) + 1
      /\ M.job = lane[e].job /\ M.round = lane[e].round /\ M.score = lane[e].score
      /\ M.pos = lane[e].pos /\ M.seed = lane[e].seed
      /\ M.budget = lane[e].budget /\ M.executed = lane[e].executed
      /\ Turn(M) = 1 - w /\ (M.round + Len(M.moves) - 1) % 2 = w
      /\ (alive => M.fell = None) /\ (~alive => M.fell = w) /\ w \in Lanes
  BY <1>1, <1>2, <1>4, <1>6, HotStep
<1>8. PICK L, b : L = [lane EXCEPT ![e] = M] /\ b = [budgets EXCEPT ![e] = budgets[e] - 1]
  OBVIOUS
<1>9. /\ L \in [Lanes -> LaneRec] /\ L[e] = M /\ L[1 - e] = lane[1 - e]
      /\ b \in [Lanes -> 0 .. 2 * MaxCycles] /\ b[e] = budgets[e] - 1
      /\ b[1 - e] = budgets[1 - e]
  <2>1. budgets[e] - 1 \in 0 .. 2 * MaxCycles
    BY <1>2, <1>4, Constants
  <2> QED
    BY <1>4, <1>7, <1>8, <2>1 DEF IInv, Typed
<1>10. PICK n \in Nat, k \in Int, m \in Int :
         n = Len(lane[e].moves) /\ k = budgets[e] /\ m = 2 * MaxCycles
  <2>1. Len(lane[e].moves) \in Nat
    BY <1>4 DEF LaneRec
  <2>2. budgets[e] \in Int /\ 2 * MaxCycles \in Int
    BY <1>4, Constants
  <2> QED
    BY <2>1, <2>2
<1>11. n + k = m /\ k > 0 /\ Len(M.moves) = n + 1 /\ lane[e].executed + lane[e].budget = m
  BY <1>2, <1>4, <1>5, <1>7, <1>10 DEF Going
<1>12. CASE alive
  <2>1. lane' = L /\ budgets' = b /\ at' = (at + 1) % 4 /\ calls' = calls
    BY <1>3, <1>6, <1>8, <1>12
  <2>2. at' \in 0 .. 3 /\ at' # None
    BY <1>4, <2>1 DEF None
  <2>3. Typed'
    BY <1>2, <1>9, <2>1, <2>2 DEF IInv, Typed
  <2>4. \A l \in Lanes : Pending(l)' = {}
    BY <1>4, <2>1 DEF Pending
  <2>5. HotTurn(e)' = 1 - w /\ HotTurn(1 - e)' = HotTurn(1 - e)
    <3>1. \/ at = 0 /\ at' = 1
          \/ at = 1 /\ at' = 2
          \/ at = 2 /\ at' = 3
          \/ at = 3 /\ at' = 0
      BY <1>4, <2>1
    <3> QED
      BY <1>1, <3>1 DEF HotTurn, LaneAt, WarriorAt
  <2>6. PICK q : q = 1 - e
    OBVIOUS
  <2>7. /\ Playing(lane[e])' /\ Placed(lane[e])' /\ Playing(lane[q])' /\ Placed(lane[q])'
    BY <1>2, <1>4, <1>5, <1>7, <1>9, <2>1, <2>6, StillPlaced
  <2>8. HotOK(e)'
    <3>1. Len(M.moves) + b[e] = 2 * MaxCycles
      <4>1. Len(M.moves) = n + 1 /\ b[e] = k - 1 /\ 2 * MaxCycles = n + k
        BY <1>9, <1>10, <1>11
      <4>2. (n + 1) + (k - 1) = n + k
        BY <1>10
      <4> QED
        BY <4>1, <4>2
    <3>2. Going(lane[e], budgets[e])'
      BY <1>7, <1>9, <1>10, <1>11, <1>12, <2>1, <3>1 DEF Going, Alternates
    <3> QED
      BY <1>7, <1>9, <2>1, <2>5, <2>7, <3>2 DEF HotOK, InRound, Turn
  <2>9. HotOK(q)'
    <3>1. Going(lane[q], budgets[q])'
      BY <1>4, <1>5, <1>9, <2>1, <2>6 DEF Going, Alternates
    <3> QED
      BY <1>4, <1>5, <1>9, <2>1, <2>5, <2>6, <2>7, <3>1 DEF HotOK, InRound, Turn
  <2>10. \A l \in Lanes : Active(l)
    BY <1>5, Constants DEF Active, Playing
  <2>11. \A l \in Lanes : LaneOK(l)'
    BY <1>4, <1>7, <1>9, <2>1, <2>2, <2>4, <2>6, <2>8, <2>9, <2>10 DEF LaneOK, Active
  <2>12. Owned' /\ Finished' /\ RoundsAsPlayed'
    BY <1>2, <1>4, <1>7, <1>9, <2>1, <2>4, LoopOwned
  <2> QED
    BY <1>2, <1>4, <2>1, <2>2, <2>3, <2>11, <2>12 DEF IInv, CallsOK
<1>13. CASE ~alive
  <2>1. Leave(Won(1 - w), L, b)
    BY <1>3, <1>6, <1>8, <1>13
  <2>2. Won(1 - w) \in Outcomes /\ Won(1 - w) # "tie"
    BY <1>7 DEF Won, Outcomes
  <2>3. Len(M.moves) \in 1 .. 2 * MaxCycles
    BY <1>10, <1>11
  <2>4. Decided(L[e], Won(1 - w))
    BY <1>7, <1>9, <1>13, <2>2, <2>3 DEF Decided
  <2>5. L[e].executed + L[e].budget = 2 * MaxCycles
    BY <1>7, <1>9, <1>10, <1>11
  <2> QED
    BY <1>1, <1>2, <1>7, <1>9, <2>1, <2>2, <2>4, <2>5, LeaveKeeps
<1> QED
  BY <1>12, <1>13

\* An even number more does not change a parity.
LEMMA Even ==
  ASSUME NEW a \in Nat, a % 2 = 0, NEW k \in Nat
  PROVE  (a + k) % 2 = k % 2
OBVIOUS

\* n moves in turn, from warrior 0 on; M is L with such moves made.
Turns(t, n) == t \in Seq(Lanes) /\ Len(t) = n /\ \A i \in 1 .. n : t[i] = (i - 1) % 2
Extended(M, L, t) == M.moves = L.moves \o t /\ M.round = L.round

\* A lane whose turn is warrior 0's makes n moves in a row.
LEMMA ManyMoves ==
  ASSUME NEW L, L.moves \in Seq(Lanes), L.round \in Nat, Alternates(L), Turn(L) = 0, NEW n \in Nat,
         NEW t, Turns(t, n), NEW N, Extended(N, L, t)
  PROVE  /\ Alternates(N) /\ N.moves \in Seq(Lanes) /\ Len(L.moves) \in Nat
         /\ Len(N.moves) = Len(L.moves) + n
         /\ n > 0 => (n - 1) % 2 \in Lanes /\ (N.round + Len(N.moves) - 1) % 2 = (n - 1) % 2
<1>1. \A i \in 1 .. n : i - 1 \in Nat /\ (i - 1) % 2 \in Lanes
  BY DEF Lanes
<1>2. t \in Seq(Lanes) /\ Len(t) = n /\ \A i \in 1 .. n : t[i] = (i - 1) % 2
  BY DEF Turns
<1>3. N.moves = L.moves \o t /\ N.round = L.round
  BY DEF Extended
<1>4. PICK m \in Nat, r \in Nat : m = Len(L.moves) /\ r = L.round
  OBVIOUS
<1>5. /\ N.moves \in Seq(Lanes) /\ Len(N.moves) = m + n
      /\ \A i \in 1 .. m + n : N.moves[i] = IF i <= m THEN L.moves[i] ELSE t[i - m]
  <2>1. PICK s \in Seq(Lanes) : s = L.moves
    OBVIOUS
  <2>2. Len(s) = m /\ N.moves = s \o t
    BY <1>3, <1>4, <2>1
  <2>3. /\ s \o t \in Seq(Lanes) /\ Len(s \o t) = Len(s) + Len(t)
        /\ \A i \in 1 .. Len(s) + Len(t) :
             (s \o t)[i] = IF i <= Len(s) THEN s[i] ELSE t[i - Len(s)]
    BY <1>2, ConcatProperties
  <2> QED
    BY <1>2, <2>1, <2>2, <2>3
<1>6. (r + m) % 2 = 0
  BY <1>4 DEF Turn
<1>7. ASSUME NEW i \in 1 .. m + n PROVE N.moves[i] = (r + i - 1) % 2
  <2>1. CASE i <= m
    <3>1. i \in 1 .. m /\ N.moves[i] = L.moves[i]
      BY <1>5, <2>1
    <3>2. L.moves[i] = (L.round + i - 1) % 2
      BY <1>4, <3>1 DEF Alternates
    <3> QED
      BY <1>4, <3>1, <3>2
  <2>2. CASE ~(i <= m)
    <3>1. PICK k \in 1 .. n : i = m + k
      <4>1. i - m \in 1 .. n /\ i = m + (i - m)
        BY <2>2
      <4> QED
        BY <4>1
    <3>2. N.moves[i] = (k - 1) % 2
      <4>1. i - m = k
        BY <3>1
      <4> QED
        BY <1>2, <1>5, <2>2, <4>1
    <3>3. k - 1 \in Nat /\ r + m \in Nat /\ r + i - 1 = (r + m) + (k - 1)
      BY <3>1
    <3>4. ((r + m) + (k - 1)) % 2 = (k - 1) % 2
      BY <1>6, <3>3, Even
    <3> QED
      BY <3>2, <3>3, <3>4
  <2> QED
    BY <2>1, <2>2
<1>8. Alternates(N)
  BY <1>3, <1>4, <1>5, <1>7 DEF Alternates
<1>9. ASSUME n > 0
      PROVE  (n - 1) % 2 \in Lanes /\ (N.round + Len(N.moves) - 1) % 2 = (n - 1) % 2
  <2>1. n - 1 \in Nat /\ n \in 1 .. n /\ r + m \in Nat /\ r + (m + n) - 1 = (r + m) + (n - 1)
    BY <1>9
  <2>2. ((r + m) + (n - 1)) % 2 = (n - 1) % 2
    BY <1>6, <2>1, Even
  <2> QED
    BY <1>1, <1>3, <1>4, <1>5, <2>1, <2>2
<1> QED
  BY <1>4, <1>5, <1>8, <1>9

\* A move outside the hot loop keeps it.
LEMMA SingleKeeps ==
  ASSUME IInv, Single
  PROVE  IInv'
<1>1. /\ calls = << >> /\ at = None /\ ~returned
      /\ UNCHANGED <<budgets, at, next, results, returned, log>>
  BY DEF Single, Ready
<1>2. PICK l \in LaneLeft : \E n \in 0 .. lane[l].budget, alive \in BOOLEAN :
        LET loser == (n - 1) % 2
        IN /\ IF alive THEN n = lane[l].budget ELSE n > 0
           /\ lane' = [lane EXCEPT
                ![l].moves = @ \o [i \in 1 .. n |-> (i - 1) % 2],
                ![l].fell = IF alive THEN @ ELSE loser,
                ![l].executed = @ + n,
                ![l].budget = @ - n]
           /\ calls' = << EndCall(l, IF alive THEN "tie" ELSE Won(1 - loser)) >>
  BY DEF Single
<1> DEFINE L == lane[l]
<1>3. PICK n \in 0 .. L.budget, alive \in BOOLEAN :
        LET loser == (n - 1) % 2
        IN /\ IF alive THEN n = L.budget ELSE n > 0
           /\ lane' = [lane EXCEPT
                ![l].moves = @ \o [i \in 1 .. n |-> (i - 1) % 2],
                ![l].fell = IF alive THEN @ ELSE loser,
                ![l].executed = @ + n,
                ![l].budget = @ - n]
           /\ calls' = << EndCall(l, IF alive THEN "tie" ELSE Won(1 - loser)) >>
  BY <1>2
<1>4. PICK loser, o : loser = (n - 1) % 2 /\ o = (IF alive THEN "tie" ELSE Won(1 - loser))
  OBVIOUS
<1>5. PICK g, v, x, y : /\ g = L.moves \o [i \in 1 .. n |-> (i - 1) % 2]
                        /\ v = (IF alive THEN L.fell ELSE loser)
                        /\ x = L.executed + n /\ y = L.budget - n
  OBVIOUS
<1> DEFINE M == [L EXCEPT !.moves = g, !.fell = v, !.executed = x, !.budget = y]
<1>6. /\ l \in Lanes /\ 1 - l \in Lanes /\ 1 - l # l /\ Lanes = {l, 1 - l}
      /\ Active(l) /\ ~Active(1 - l)
  <2>1. l \in Lanes /\ Active(l) /\ ~Active(1 - l)
    BY <1>2 DEF LaneLeft
  <2> QED
    BY <2>1 DEF Lanes
<1>7. lane' = [lane EXCEPT ![l] = M] /\ calls' = << EndCall(l, o) >>
  BY <1>3, <1>4, <1>5, <1>6 DEF IInv, Typed
<1>8. L \in LaneRec /\ \A k \in Lanes : Pending(k) = {}
  BY <1>1, <1>6, NoCalls DEF IInv, Typed
<1>9. /\ Playing(L) /\ Placed(L) /\ Alternates(L) /\ L.fell = None /\ Turn(L) = 0
      /\ Len(L.moves) + L.budget = 2 * MaxCycles /\ L.executed + L.budget = 2 * MaxCycles
      /\ Exhausted
  BY <1>1, <1>6, <1>8 DEF IInv, LaneOK, IdleOK, InRound, Going
<1>10. PICK d \in Int, z \in Int, m \in Nat, k \in Int :
         d = L.budget /\ z = L.executed /\ m = Len(L.moves) /\ k = 2 * MaxCycles
  <2>1. 2 * MaxCycles \in Int
    BY Constants
  <2>2. L.budget \in Int /\ L.executed \in Int /\ Len(L.moves) \in Nat
    BY <1>8, <2>1 DEF LaneRec
  <2> QED
    BY <2>1, <2>2
<1>11. m + d = k /\ z + d = k /\ n \in Nat /\ n <= d /\ 0 <= z /\ 0 <= d
  BY <1>8, <1>9, <1>10, Constants DEF LaneRec
<1>12. x \in 0 .. 2 * MaxCycles /\ y \in 0 .. 2 * MaxCycles
  <2>1. 0 <= z + n /\ z + n <= k /\ 0 <= d - n /\ d - n <= k
    BY <1>11
  <2>2. x = z + n /\ y = d - n
    BY <1>5, <1>10
  <2>3. z + n \in 0 .. k /\ d - n \in 0 .. k
    BY <1>11, <2>1
  <2> QED
    BY <1>10, <2>2, <2>3
<1>13. M.moves = g /\ M.fell = v /\ M.round = L.round /\ M.job = L.job /\ M.score = L.score
       /\ M.pos = L.pos /\ M.seed = L.seed
  BY <1>8 DEF LaneRec
<1>14. L.moves \in Seq(Lanes) /\ L.round \in Nat
  BY <1>8, Constants DEF LaneRec
<1>15. /\ Alternates(M) /\ g \in Seq(Lanes) /\ Len(g) = m + n
       /\ n > 0 => loser \in Lanes /\ (M.round + Len(M.moves) - 1) % 2 = loser
  <2> HIDE DEF M
  <2> DEFINE t == [i \in 1 .. n |-> (i - 1) % 2]
  <2>1. M.moves = L.moves \o t
    BY <1>5, <1>13
  <2>2. t \in Seq(Lanes) /\ Len(t) = n /\ \A i \in 1 .. n : t[i] = (i - 1) % 2
    <3>1. \A i \in 1 .. n : i - 1 \in Nat /\ (i - 1) % 2 \in Lanes
      BY DEF Lanes
    <3> QED
      BY <1>11, <3>1
  <2> HIDE DEF t
  <2>3. n \in Nat /\ M.round = L.round
    BY <1>11, <1>13
  <2>4. /\ Alternates(M) /\ M.moves \in Seq(Lanes) /\ Len(M.moves) = Len(L.moves) + n
        /\ n > 0 => (n - 1) % 2 \in Lanes /\ (M.round + Len(M.moves) - 1) % 2 = (n - 1) % 2
    <3>1. Turns(t, n) /\ Extended(M, L, t)
      BY <2>1, <2>3, <2>2 DEF Turns, Extended
    <3> QED
      <4>1. PICK P, N : P = L /\ N = M
        OBVIOUS
      <4>2. /\ P.moves \in Seq(Lanes) /\ P.round \in Nat /\ Alternates(P) /\ Turn(P) = 0
            /\ Turns(t, n) /\ Extended(N, P, t)
        BY <1>9, <1>14, <3>1, <4>1
      <4>3. /\ Alternates(N) /\ N.moves \in Seq(Lanes) /\ Len(N.moves) = Len(P.moves) + n
            /\ n > 0 => (n - 1) % 2 \in Lanes /\ (N.round + Len(N.moves) - 1) % 2 = (n - 1) % 2
        BY <2>3, <4>2, ManyMoves
      <4> QED
        BY <4>1, <4>3
  <2> QED
    BY <1>4, <1>10, <1>13, <2>4
<1>16. (alive => n = d) /\ (~alive => n > 0)
  BY <1>3, <1>10
<1>17. M \in LaneRec
  <2>1. v \in {None} \cup Lanes
    BY <1>5, <1>9, <1>15, <1>16
  <2> QED
    BY <1>8, <1>12, <1>15, <2>1 DEF LaneRec
<1> HIDE DEF M
<1>18. lane' \in [Lanes -> LaneRec] /\ lane'[l] = M /\ lane'[1 - l] = lane[1 - l]
  BY <1>6, <1>7, <1>17 DEF IInv, Typed
<1>19. Typed'
  BY <1>1, <1>18 DEF IInv, Typed
<1>20. Playing(lane[l])' /\ Placed(lane[l])'
  BY <1>1, <1>9, <1>13, <1>18, StillPlaced
<1>21. Decided(M, o) /\ o \in Outcomes
  <2>1. CASE alive
    <3>1. o = "tie" /\ M.fell = None /\ Len(M.moves) = 2 * MaxCycles
      BY <1>4, <1>5, <1>9, <1>10, <1>11, <1>13, <1>15, <1>16, <2>1
    <3> QED
      BY <1>15, <3>1 DEF Decided, Outcomes
  <2>2. CASE ~alive
    <3>1. o = Won(1 - loser) /\ M.fell = loser /\ loser \in Lanes
          /\ (M.round + Len(M.moves) - 1) % 2 = loser
      BY <1>4, <1>5, <1>13, <1>15, <1>16, <2>2
    <3>2. Len(M.moves) \in 1 .. 2 * MaxCycles
      <4>1. Len(M.moves) = m + n
        BY <1>13, <1>15
      <4>2. m + n \in 1 .. k
        BY <1>11, <1>16, <2>2
      <4> QED
        BY <1>10, <4>1, <4>2
    <3>3. o # "tie" /\ o \in Outcomes
      BY <3>1 DEF Won, Outcomes
    <3> QED
      BY <1>15, <3>1, <3>2, <3>3 DEF Decided
  <2> QED
    BY <2>1, <2>2
<1>22. PICK c \in CallSet : c = EndCall(l, o) /\ c.lane = l /\ c.name = "end_round" /\ c.outcome = o
  BY <1>6, <1>21, CallSetParts DEF EndCall
<1>23. CallsOK' /\ Pending(l)' = {c} /\ Pending(1 - l)' = {}
  BY <1>6, <1>7, <1>22, NewCalls
<1>24. CallOK(c)'
  BY <1>18, <1>20, <1>21, <1>22 DEF CallOK, Over, Decided, Alternates
<1>25. \A q \in Lanes : LaneOK(q)'
  BY <1>1, <1>6, <1>9, <1>18, <1>23, <1>24 DEF LaneOK, IdleOK, Active, Exhausted
<1>26. Owned' /\ Finished' /\ RoundsAsPlayed'
  BY <1>1, <1>6, <1>13, <1>18, <1>22, <1>23, LoopOwned
<1> QED
  BY <1>1, <1>19, <1>23, <1>25, <1>26 DEF IInv

\* Returning keeps it: no lane has a job any more.
LEMMA ReturnKeeps ==
  ASSUME IInv, Return
  PROVE  IInv'
<1>1. /\ calls = << >> /\ at = None /\ ~returned /\ ~Active(0) /\ ~Active(1)
      /\ lane' = [l \in Lanes |-> [lane[l] EXCEPT !.engineSteps = 0]]
      /\ UNCHANGED <<calls, budgets, at, next, results, log>>
  BY DEF Return, Ready
<1>2. \A l \in Lanes : Pending(l) = {} /\ Pending(l)' = {} /\ ~Active(l)
  BY <1>1, NoCalls DEF Pending, Lanes
<1>3. \A l \in Lanes : lane[l] \in LaneRec
  BY DEF IInv, Typed
<1>4. \A l \in Lanes : lane'[l] \in LaneRec /\ lane'[l].job = lane[l].job
  <2>1. ASSUME NEW l \in Lanes PROVE lane'[l] \in LaneRec /\ lane'[l].job = lane[l].job
    <3>1. PICK K \in LaneRec : K = lane[l]
      BY <1>3
    <3>2. lane'[l] = [K EXCEPT !.engineSteps = 0]
      BY <1>1, <3>1
    <3> QED
      BY <3>1, <3>2 DEF LaneRec
  <2> QED
    BY <2>1
<1>5. Typed'
  BY <1>1, <1>4 DEF IInv, Typed
<1>6. \A l \in Lanes : ~Active(l)'
  BY <1>2, <1>4 DEF Active
<1>7. Exhausted /\ Exhausted'
  BY <1>1, <1>2 DEF IInv, LaneOK, Exhausted, Lanes
<1>8. \A l \in Lanes : LaneOK(l)'
  BY <1>1, <1>2, <1>6, <1>7 DEF LaneOK, IdleOK, Active
<1>9. Owned' /\ Finished' /\ RoundsAsPlayed'
  BY <1>1, <1>2, <1>4, LoopOwned
<1> QED
  BY <1>1, <1>5, <1>6, <1>8, <1>9 DEF IInv, CallsOK, Lanes

-----------------------------------------------------------------------------
\* The invariant.

\* play_all begins in it.
LEMMA InitIInv == Init => IInv
<1> SUFFICES ASSUME Init PROVE IInv
  OBVIOUS
<1>1. /\ \A l \in Lanes : lane[l] = FreshLane
      /\ lane = [l \in Lanes |-> FreshLane]
      /\ calls = << Call("start_job", 0), Call("start_job", 1) >>
      /\ budgets = [l \in Lanes |-> 0] /\ at = None /\ next = 0 /\ returned = FALSE
      /\ results = [j \in JobNumbers |-> NoScore] /\ log = [j \in JobNumbers |-> << >>]
  BY DEF Init
<1>2. /\ FreshLane \in LaneRec /\ FreshLane.job = NoJob /\ FreshLane.moves = << >>
      /\ FreshLane.fell = None
  <2>1. 0 \in 0 .. 2 * MaxCycles /\ 0 \in 0 .. Rounds /\ 0 \in I32 /\ NoScore \in Score
        /\ << >> \in Seq(Lanes)
    BY Constants, I32Bounds DEF NoScore, Score
  <2> QED
    BY <2>1 DEF FreshLane, LaneRec
<1>3. Typed
  <2>1. 0 \in 0 .. 2 * MaxCycles /\ 0 \in 0 .. NumJobs /\ NoScore \in Score
    BY Constants DEF NoScore, Score
  <2> QED
    BY <1>1, <1>2, <2>1 DEF Typed
<1>4. /\ CallsOK /\ Pending(0) = {Call("start_job", 0)} /\ Pending(1) = {Call("start_job", 1)}
  BY <1>1, CallSetParts DEF CallsOK, Pending, Call, Lanes
<1>5. \A l \in Lanes : LaneOK(l)
  BY <1>1, <1>2, <1>4 DEF LaneOK, CallOK, Call, Lanes
<1>6. Owned
  BY <1>1, <1>2 DEF Owned, Active, Lanes
<1>7. Finished
  BY <1>1, Constants DEF Finished
<1>8. RoundsAsPlayed
  BY <1>1 DEF RoundsAsPlayed
<1> QED
  BY <1>1, <1>3, <1>4, <1>5, <1>6, <1>7, <1>8 DEF IInv

\* What leaves everything alone keeps it.
LEMMA StutterKeeps ==
  ASSUME IInv, UNCHANGED vars
  PROVE  IInv'
<1>1. UNCHANGED <<lane, calls, budgets, at, next, results, returned, log>>
  BY DEF vars
<1>2. Typed' /\ CallsOK' /\ Owned' /\ RoundsAsPlayed' /\ \A l : Pending(l)' = Pending(l)
  BY <1>1 DEF IInv, Typed, CallsOK, Owned, Active, RoundsAsPlayed, Drawn, Pending
<1>3. Finished'
  BY <1>1, <1>2 DEF IInv, Finished, Busy, Tallied, Tally
<1>4. ASSUME NEW l \in Lanes PROVE LaneOK(l)'
  <2>1. \A L : Playing(L)' <=> Playing(L)
    BY <1>1 DEF Playing, Tallied, Tally
  <2>2. \A j, i : Drawn(j, i)' = Drawn(j, i)
    BY <1>1 DEF Drawn
  <2>3. \A L : Placed(L)' <=> Placed(L)
    BY <2>2 DEF Placed
  <2>4. \A L, left : InRound(L, left)' <=> InRound(L, left)
    BY <2>1, <2>3 DEF InRound, Going, Alternates
  <2>5. \A L, o : Over(L, o)' <=> Over(L, o)
    BY <2>1, <2>3 DEF Over, Decided, Alternates
  <2>6. ASSUME NEW c, CallOK(c) PROVE CallOK(c)'
    BY <1>1, <2>1, <2>2, <2>4, <2>5, <2>6 DEF CallOK, Turn
  <2>7. (IdleOK(l) => IdleOK(l)') /\ (HotOK(l) => HotOK(l)')
    BY <1>1, <2>4 DEF IdleOK, HotOK, Active, Turn, HotTurn
  <2>8. /\ \A c : CallOK(c) => CallOK(c)'
        /\ (IdleOK(l) => IdleOK(l)') /\ (HotOK(l) => HotOK(l)')
    BY <2>6, <2>7
  <2> QED
    BY <1>1, <1>2, <2>8 DEF IInv, LaneOK, Active, Exhausted
<1> QED
  BY <1>1, <1>2, <1>3, <1>4 DEF IInv, Active

\* The invariant is inductive.
LEMMA NextKeeps == IInv /\ [Next]_vars => IInv'
<1> SUFFICES ASSUME IInv, [Next]_vars PROVE IInv'
  OBVIOUS
<1>1. CASE StartJob
  BY <1>1, StartJobKeeps
<1>2. CASE StartRound
  BY <1>2, StartRoundKeeps
<1>3. CASE Settle
  BY <1>3, SettleKeeps
<1>4. CASE EndRound
  BY <1>4, EndRoundKeeps
<1>5. CASE EnterBoth
  BY <1>5, EnterBothKeeps
<1>6. CASE HotSpent
  BY <1>6, HotSpentKeeps
<1>7. CASE HotMove
  BY <1>7, HotMoveKeeps
<1>8. CASE Single
  BY <1>8, SingleKeeps
<1>9. CASE Return
  BY <1>9, ReturnKeeps
<1>10. CASE UNCHANGED vars
  BY <1>10, StutterKeeps
<1> QED
  BY <1>1, <1>2, <1>3, <1>4, <1>5, <1>6, <1>7, <1>8, <1>9, <1>10 DEF Next

\* The interleaved player always satisfies its invariant.
LEMMA Invariance == Spec => []IInv
<1> QED
  BY InitIInv, NextKeeps, PTL DEF Spec

-----------------------------------------------------------------------------
\* The instructions reported.

\* The instructions of a list of rounds, and of all rounds ever finished.
MovesOf(rounds) == FoldLeft(LAMBDA m, r : m + r.moves, 0, rounds)
Moved == FoldFunction(LAMBDA rounds, n : n + MovesOf(rounds), 0, log)

\* What the first n of some rounds add.
AddedBy(s, n) == [q \in (1 .. n) \X Int |-> q[2] + s[q[1]].moves]

\* The rounds are added one after another.
LEMMA MovesHistory ==
  ASSUME NEW s \in Seq(Entry)
  PROVE  HasHistory(Len(s), Int, 0, AddedBy(s, Len(s)), MovesOf(s))
<1> DEFINE n == Len(s)
           F == AddedBy(s, n)
<1>1. /\ n \in Nat /\ DOMAIN s = 1 .. n /\ 0 \in Int
      /\ \A i \in 1 .. n : s[i].moves \in Int
  <2>1. ASSUME NEW i \in 1 .. n PROVE s[i].moves \in Int
    <3>1. s[i] \in Entry
      OBVIOUS
    <3>2. s[i].moves \in Nat
      BY <3>1 DEF Entry
    <3> QED BY <3>2
  <2> QED BY <2>1
<1> HIDE DEF n
<1>2. \A i \in 1 .. n : \A v \in Int : F[<<i, v>>] = v + s[i].moves
  BY DEF AddedBy
<1>3. F \in [(1 .. n) \X Int -> Int]
  <2>1. \A i \in 1 .. n : \A v \in Int : v + s[i].moves \in Int
    BY <1>1
  <2> QED BY <2>1 DEF AddedBy
<1> HIDE DEF F
<1>4. PICK g \in [SUBSET (1 .. n) -> Int] : IsFold(g, n, 0, F)
  BY <1>1, <1>3, FoldExists
<1> DEFINE Is(it) == it = [r \in SUBSET (1 .. n) |->
                            IF r = {} THEN 0 ELSE it[r \ {Max(r)}] + s[Max(r)].moves]
           iter == CHOOSE it : Is(it)
<1>5. Is(g)
  <2>1. ASSUME NEW r \in SUBSET (1 .. n), r # {}
        PROVE  g[r] = g[r \ {Max(r)}] + s[Max(r)].moves
    <3> DEFINE x == Max(r)
    <3>1. x \in 1 .. n
      BY <1>1, <2>1, MaxIn
    <3> HIDE DEF x
    <3>2. r \ {x} \in SUBSET (1 .. n) /\ g[r \ {x}] \in Int
      OBVIOUS
    <3>3. g[r] = F[<<x, g[r \ {x}]>>]
      BY <1>4, <2>1 DEF x, IsFold
    <3> QED BY <1>2, <3>1, <3>2, <3>3 DEF x
  <2>2. g[{}] = 0
    BY <1>4 DEF IsFold
  <2> QED BY <2>1, <2>2
<1>6. Is(iter)
  <2> HIDE DEF Is
  <2> QED BY <1>5
<1>7. MovesOf(s) = iter[1 .. n]
  BY <1>1 DEF MovesOf, FoldLeft, MapThenFoldSet
<1> HIDE DEF iter
<1>8. HasHistory(n, Int, 0, F, iter[1 .. n])
  <2>1. iter[{}] = 0
    BY <1>6
  <2>2. ASSUME NEW r \in SUBSET (1 .. n), r # {}, iter[r \ {Max(r)}] \in Int
        PROVE  iter[r] = F[<<Max(r), iter[r \ {Max(r)}]>>]
    <3>1. Max(r) \in 1 .. n
      BY <1>1, <2>2, MaxIn
    <3>2. iter[r] = iter[r \ {Max(r)}] + s[Max(r)].moves
      BY <1>6, <2>2
    <3> QED BY <1>2, <2>2, <3>1, <3>2
  <2>3. FoldsIn(Int, iter, n, F)
    BY <2>2 DEF FoldsIn
  <2> QED BY <1>1, <1>3, <2>1, <2>3, FoldSteps
<1> QED BY <1>7, <1>8 DEF n, F

\* No rounds have no moves, and a round more has its own more.
LEMMA MovesAppend ==
  ASSUME NEW s \in Seq(Entry), NEW r \in Entry
  PROVE  /\ MovesOf(<< >>) = 0
         /\ MovesOf(s) \in Int
         /\ MovesOf(Append(s, r)) = MovesOf(s) + r.moves
<1> DEFINE n == Len(s)
           z == Append(s, r)
<1>1. n \in Nat /\ z \in Seq(Entry) /\ Len(z) = n + 1 /\ z[n + 1] = r
      /\ \A i \in 1 .. n : z[i] = s[i]
  OBVIOUS
<1>2. HasHistory(n, Int, 0, AddedBy(s, n), MovesOf(s))
  BY MovesHistory
<1>3. HasHistory(n + 1, Int, 0, AddedBy(z, n + 1), MovesOf(z))
  BY <1>1, MovesHistory
<1> HIDE DEF n, z
<1>4. Alike(AddedBy(z, n + 1), AddedBy(s, n), n, Int)
  <2> SUFFICES ASSUME NEW i \in 1 .. n, NEW v \in Int
               PROVE  AddedBy(z, n + 1)[<<i, v>>] = AddedBy(s, n)[<<i, v>>]
    BY DEF Alike
  <2>1. i \in 1 .. (n + 1) /\ z[i] = s[i]
    BY <1>1
  <2> QED BY <2>1 DEF AddedBy
<1>5. MovesOf(s) \in Int /\ MovesOf(z) = AddedBy(z, n + 1)[<<n + 1, MovesOf(s)>>]
  BY <1>1, <1>2, <1>3, <1>4, HistoryExtends
<1>6. n + 1 \in 1 .. (n + 1)
  BY <1>1
<1>7. MovesOf(z) = MovesOf(s) + z[n + 1].moves
  BY <1>5, <1>6 DEF AddedBy
<1>8. MovesOf(<< >>) = 0
  <2>1. << >> \in Seq(Entry) /\ Len(<< >>) = 0
    OBVIOUS
  <2>2. HasHistory(0, Int, 0, AddedBy(<< >>, 0), MovesOf(<< >>))
    BY <2>1, MovesHistory
  <2> QED BY <2>2 DEF HasHistory
<1> QED BY <1>1, <1>5, <1>7, <1>8 DEF z

\* The moves of each job's rounds.
MovesByJob(l) == [j \in JobNumbers |-> MovesOf(l[j])]

\* What is reported is the sum of what each job took.
LEMMA MovedSum ==
  ASSUME log \in [JobNumbers -> Seq(Entry)]
  PROVE  /\ IsFiniteSet(JobNumbers)
         /\ MovesByJob(log) \in [JobNumbers -> Int]
         /\ SumsTo(JobNumbers, MovesByJob(log), Moved)
<1> DEFINE U == JobNumbers
           F == MovesByJob(log)
<1>1. IsFiniteSet(U)
  BY Constants, FS_Interval
<1>2. F \in [U -> Int]
  <2>1. ASSUME NEW j \in U PROVE MovesOf(log[j]) \in Int
    <3>1. log[j] \in Seq(Entry)
      OBVIOUS
    <3>2. HasHistory(Len(log[j]), Int, 0, AddedBy(log[j], Len(log[j])), MovesOf(log[j]))
      BY <3>1, MovesHistory
    <3>3. Len(log[j]) \in 0 .. Len(log[j])
      BY <3>1
    <3> QED BY <3>2, <3>3 DEF HasHistory
  <2> QED BY <2>1 DEF MovesByJob
<1>3. DOMAIN log = U /\ \A y \in U : F[y] = MovesOf(log[y])
  BY DEF MovesByJob
<1> HIDE DEF U, F
<1>4. PICK g \in [SUBSET U -> Int] : IsSum(g, U, F)
  BY <1>1, <1>2, SumExists
<1> DEFINE Is(it) == it = [s \in SUBSET U |->
                            IF s = {} THEN 0 ELSE it[s \ {OneOf(s)}] + MovesOf(log[OneOf(s)])]
           iter == CHOOSE it : Is(it)
<1>5. ASSUME NEW s \in SUBSET U, s # {} PROVE OneOf(s) \in U
  BY <1>1, <1>5, WithoutOne
<1>6. Is(g)
  BY <1>3, <1>4, <1>5 DEF IsSum
<1>7. Is(iter)
  <2> HIDE DEF Is
  <2> QED BY <1>6
<1>8. Moved = iter[U]
  BY <1>3 DEF Moved, FoldFunction, FoldFunctionOnSet, MapThenFoldSet, OneOf
<1> HIDE DEF iter
<1>9. IsSum(iter, U, F)
  BY <1>3, <1>5, <1>7 DEF IsSum
<1>10. iter[U] = g[U] /\ g[U] \in Int
  BY <1>1, <1>4, <1>9, SumUnique
<1> DEFINE v == Moved
<1> HIDE DEF v
<1>11. v = g[U]
  BY <1>8, <1>10 DEF v
<1>12. SumsTo(U, F, v)
  BY <1>4, <1>10, <1>11 DEF SumsTo
<1> QED BY <1>1, <1>2, <1>12 DEF U, F, v

\* A lane asked to end its round has counted every instruction of it.
EndCounted(l) ==
  \A c \in Pending(l) : c.name = "end_round" => lane[l].executed = Len(lane[l].moves)

\* What the two engines report so far is what their finished rounds took.
Reported ==
  IF returned THEN steps = Moved
  ELSE steps = 0 /\ Moved = lane[0].engineSteps + lane[1].engineSteps

Accounted == (\A l \in Lanes : EndCounted(l)) /\ Reported

\* At first nothing is reported and nothing was played.
LEMMA InitAccounted == Init => Accounted
<1> SUFFICES ASSUME Init PROVE Accounted
  OBVIOUS
<1>1. /\ lane = [l \in Lanes |-> FreshLane] /\ returned = FALSE /\ steps = 0
      /\ log = [j \in JobNumbers |-> << >>]
      /\ calls = << Call("start_job", 0), Call("start_job", 1) >>
  BY DEF Init
<1>2. \A l \in Lanes : EndCounted(l)
  <2> SUFFICES ASSUME NEW l \in Lanes, NEW c \in Pending(l) PROVE c.name # "end_round"
    BY DEF EndCounted
  <2>1. c = Call("start_job", 0) \/ c = Call("start_job", 1)
    BY <1>1 DEF Pending
  <2> QED BY <2>1 DEF Call
<1>3. Moved = 0
  <2>1. log \in [JobNumbers -> Seq(Entry)]
    BY <1>1
  <2>2. \A j \in JobNumbers : MovesByJob(log)[j] = MovesOf(<< >>)
    BY <1>1 DEF MovesByJob
  <2>3. MovesOf(<< >>) = 0
    <3>1. << >> \in Seq(Entry) /\ Len(<< >>) = 0
      OBVIOUS
    <3>2. HasHistory(0, Int, 0, AddedBy(<< >>, 0), MovesOf(<< >>))
      BY <3>1, MovesHistory
    <3> QED BY <3>2 DEF HasHistory
  <2> QED BY <2>1, <2>2, <2>3, MovedSum, SumOfNone
<1>4. lane[0].engineSteps + lane[1].engineSteps = 0
  BY <1>1 DEF FreshLane, Lanes
<1> QED BY <1>1, <1>2, <1>3, <1>4 DEF Accounted, Reported

\* A step that ends no round and reports nothing.
LEMMA ReportedStill ==
  ASSUME Reported, UNCHANGED <<steps, returned, log>>,
         \A l \in Lanes : lane'[l].engineSteps = lane[l].engineSteps
  PROVE  Reported'
<1>1. Moved' = Moved
  BY DEF Moved, FoldFunction, FoldFunctionOnSet, MapThenFoldSet
<1>2. 0 \in Lanes /\ 1 \in Lanes
  BY DEF Lanes
<1> QED BY <1>1, <1>2 DEF Reported

\* A call of lane l that is made, and replaced by one or none, keeps the counts
\* of the lanes if it keeps the count of l.
LEMMA CallCounted ==
  ASSUME IInv, \A q \in Lanes : EndCounted(q), calls # << >>, NEW l \in Lanes, l = Head(calls).lane,
         NEW more, Calls(more), lane'[1 - l] = lane[1 - l],
         \/ more = << >>
         \/ \E c \in CallSet : /\ more = <<c>> /\ c.lane = l
                               /\ c.name = "end_round"
                                   => lane'[l].executed = Len(lane'[l].moves)
  PROVE  \A q \in Lanes : EndCounted(q)'
<1>1. /\ more = << >> => Pending(l)' = {}
      /\ \A c \in CallSet : more = <<c>> => Pending(l)' = {c}
      /\ \A o : o # l => Pending(o)' = Pending(o)
  <2>1. more = << >> \/ \E c \in CallSet : more = <<c>> /\ c.lane = l
    OBVIOUS
  <2>2. CallsOK
    BY DEF IInv
  <2> QED BY <2>1, <2>2, CallMade
<1>2. EndCounted(l)'
  <2>1. CASE more = << >>
    BY <1>1, <2>1 DEF EndCounted
  <2>2. CASE more # << >>
    <3>1. PICK c \in CallSet : /\ more = <<c>>
                               /\ c.name = "end_round"
                                    => lane'[l].executed = Len(lane'[l].moves)
      BY <2>2
    <3>2. Pending(l)' = {c}
      BY <1>1, <3>1
    <3> QED BY <3>1, <3>2 DEF EndCounted
  <2> QED BY <2>1, <2>2
<1>3. ASSUME NEW q \in Lanes, q # l PROVE EndCounted(q)'
  <2>1. q = 1 - l
    BY <1>3 DEF Lanes
  <2>2. Pending(q)' = Pending(q) /\ lane'[q] = lane[q]
    BY <1>1, <1>3, <2>1
  <2> QED BY <2>2 DEF EndCounted
<1> QED BY <1>2, <1>3

\* Starting a job or a round.
LEMMA StartAccounted ==
  ASSUME IInv, Accounted, StartJob \/ StartRound
  PROVE  Accounted'
<1>1. PICK l : l = Head(calls).lane
  OBVIOUS
<1>2. calls # << >> /\ UNCHANGED <<steps, returned, log>>
  BY DEF StartJob, StartRound, Calling
<1>3. l \in Lanes /\ lane[l] \in LaneRec /\ 1 - l # l /\ 1 - l \in Lanes
  BY <1>1, <1>2, CallFacts
<1>4. lane \in [Lanes -> LaneRec]
  BY DEF IInv, Typed
<1>5. lane'[1 - l] = lane[1 - l] /\ lane'[l].engineSteps = lane[l].engineSteps
  <2> DEFINE L == lane[l]
  <2>1. CASE StartJob
    <3>1. \/ lane' = [lane EXCEPT ![l].job = NoJob]
          \/ lane' = [lane EXCEPT ![l].job = next, ![l].round = 0,
                                  ![l].seed = Seeds[next + 1], ![l].score = NoScore]
      BY <1>1, <2>1 DEF StartJob
    <3>2. CASE lane' = [lane EXCEPT ![l].job = NoJob]
      BY <1>3, <1>4, <3>2 DEF LaneRec
    <3>3. CASE lane' = [lane EXCEPT ![l].job = next, ![l].round = 0,
                                    ![l].seed = Seeds[next + 1], ![l].score = NoScore]
      <4>1. lane' = [lane EXCEPT ![l] = [L EXCEPT !.job = next, !.round = 0,
                                         !.seed = Seeds[next + 1], !.score = NoScore]]
        BY <1>3, <1>4, <3>3
      <4> QED BY <1>3, <1>4, <4>1 DEF LaneRec
    <3> QED BY <3>1, <3>2, <3>3
  <2>2. CASE StartRound
    <3> DEFINE M == [L EXCEPT !.pos = Position(L.seed), !.seed = PmarsRng(L.seed),
                              !.budget = 2 * MaxCycles, !.executed = 0,
                              !.owes = (L.round % 2 = 1)]
    <3>1. lane' = [lane EXCEPT ![l] = M]
      BY <1>1, <2>2 DEF StartRound
    <3>2. M.engineSteps = L.engineSteps
      BY <1>3 DEF LaneRec
    <3> HIDE DEF M
    <3> QED BY <1>3, <1>4, <3>1, <3>2
  <2> QED BY <2>1, <2>2
<1>6. \/ Calls(<< >>)
      \/ \E c \in CallSet : Calls(<<c>>) /\ c.lane = l /\ c.name # "end_round"
  <2>1. /\ Call("start_round", l) \in CallSet /\ Call("settle", l) \in CallSet
        /\ Call("start_round", l).lane = l /\ Call("settle", l).lane = l
        /\ Call("start_round", l).name # "end_round" /\ Call("settle", l).name # "end_round"
    BY <1>3, CallSetParts DEF Call
  <2> QED BY <1>1, <2>1 DEF StartJob, StartRound
<1>7. \A q \in Lanes : EndCounted(q)'
  BY <1>1, <1>2, <1>3, <1>5, <1>6, CallCounted DEF Accounted
<1>8. \A q \in Lanes : lane'[q].engineSteps = lane[q].engineSteps
  <2>1. \A q \in Lanes : q = l \/ q = 1 - l
    BY <1>3 DEF Lanes
  <2> QED BY <1>5, <2>1
<1> QED BY <1>2, <1>7, <1>8, ReportedStill DEF Accounted

\* Paying an owed move.
LEMMA SettleAccounted ==
  ASSUME IInv, Accounted, Settle
  PROVE  Accounted'
<1>1. PICK l : l = Head(calls).lane
  OBVIOUS
<1> DEFINE L == lane[l]
<1>2. calls # << >> /\ Head(calls).name = "settle" /\ UNCHANGED <<steps, returned, log>>
  BY DEF Settle, Calling
<1>3. /\ l \in Lanes /\ L \in LaneRec /\ CallOK(Head(calls))
      /\ 1 - l \in Lanes /\ 1 - l # l
  BY <1>1, <1>2, CallFacts
<1>4. Len(L.moves) + L.budget = 2 * MaxCycles /\ L.executed + L.budget = 2 * MaxCycles
  BY <1>1, <1>2, <1>3 DEF CallOK, InRound, Going
<1>5. /\ L.moves \in Seq(Lanes) /\ Len(L.moves) \in Nat /\ L.budget \in Int
      /\ L.executed \in Int /\ 2 * MaxCycles \in Int /\ 1 \in Lanes
  BY <1>3, Constants DEF LaneRec, Lanes
<1>6. L.executed = Len(L.moves)
  BY <1>4, <1>5
<1>7. lane \in [Lanes -> LaneRec]
  BY DEF IInv, Typed
<1>8. PICK M : /\ lane' = [lane EXCEPT ![l] = M]
               /\ M.executed = Len(M.moves) /\ M.engineSteps = L.engineSteps
               /\ \/ Calls(<< >>)
                  \/ \E o \in Outcomes : Calls(<< EndCall(l, o) >>)
  <2>1. "tie" \in Outcomes /\ "win0" \in Outcomes
    BY DEF Outcomes
  <2>2. CASE ~L.owes \/ L.job = NoJob
    <3>1. lane' = [lane EXCEPT ![l] = L] /\ Calls(<< >>)
      BY <1>1, <1>3, <1>7, <2>2 DEF Settle
    <3> QED BY <1>6, <3>1
  <2>3. CASE ~(~L.owes \/ L.job = NoJob)
    <3> DEFINE K == [L EXCEPT !.owes = FALSE]
    <3>1. /\ K.executed = L.executed /\ K.moves = L.moves /\ K.budget = L.budget
          /\ K.engineSteps = L.engineSteps
      BY <1>3 DEF LaneRec
    <3>2. CASE K.budget = 0
      <4>1. lane' = [lane EXCEPT ![l] = K] /\ Calls(<< EndCall(l, "tie") >>)
        BY <1>1, <2>3, <3>2 DEF Settle
      <4> QED BY <1>6, <2>1, <3>1, <4>1
    <3>3. CASE K.budget # 0
      <4>1. PICK alive \in BOOLEAN :
              /\ lane' = [lane EXCEPT ![l] =
                    Stepped([K EXCEPT !.budget = @ - 1, !.executed = @ + 1], 1, alive)]
              /\ Calls(IF alive THEN << >> ELSE << EndCall(l, "win0") >>)
        BY <1>1, <2>3, <3>3 DEF Settle
      <4> DEFINE N == Stepped([K EXCEPT !.budget = @ - 1, !.executed = @ + 1], 1, alive)
      <4>2. /\ N.executed = L.executed + 1 /\ N.moves = Append(L.moves, 1)
            /\ N.engineSteps = L.engineSteps
        BY <1>3 DEF Stepped, LaneRec
      <4>3. Len(Append(L.moves, 1)) = Len(L.moves) + 1
        BY <1>5
      <4> HIDE DEF N
      <4>4. N.executed = Len(N.moves)
        BY <1>6, <4>2, <4>3
      <4>5. lane' = [lane EXCEPT ![l] = N]
        BY <4>1 DEF N
      <4> QED BY <2>1, <4>1, <4>2, <4>4, <4>5
    <3> QED BY <3>2, <3>3
  <2> QED BY <2>2, <2>3
<1> HIDE DEF L
<1>9. lane'[1 - l] = lane[1 - l] /\ lane'[l] = M
  BY <1>3, <1>7, <1>8
<1>10. \/ Calls(<< >>)
       \/ \E c \in CallSet : Calls(<<c>>) /\ c.lane = l
  <2>1. \A o \in Outcomes : EndCall(l, o) \in CallSet /\ EndCall(l, o).lane = l
    BY <1>3, CallSetParts DEF EndCall
  <2> QED BY <1>8, <2>1
<1>11. \A q \in Lanes : EndCounted(q)'
  BY <1>1, <1>2, <1>3, <1>8, <1>9, <1>10, CallCounted DEF Accounted
<1>12. \A q \in Lanes : lane'[q].engineSteps = lane[q].engineSteps
  <2>1. \A q \in Lanes : q = l \/ q = 1 - l
    BY <1>3 DEF Lanes
  <2> QED BY <1>8, <1>9, <2>1 DEF L
<1> QED BY <1>2, <1>11, <1>12, ReportedStill DEF Accounted

\* The one place where instructions are reported: a round ends.
LEMMA EndRoundAccounted ==
  ASSUME IInv, Accounted, EndRound
  PROVE  Accounted'
<1>1. PICK l, outcome : l = Head(calls).lane /\ outcome = Head(calls).outcome
  OBVIOUS
<1>2. PICK j : j = lane[l].job
  OBVIOUS
<1> DEFINE L == lane[l]
           r == [outcome |-> outcome, pos |-> L.pos, seed |-> L.seed,
                 moves |-> Len(L.moves), fell |-> L.fell]
<1>3. calls # << >> /\ Head(calls).name = "end_round" /\ UNCHANGED returned
  BY DEF EndRound, Calling
<1>4. /\ l \in Lanes /\ L \in LaneRec /\ CallOK(Head(calls)) /\ Head(calls) \in CallSet
      /\ 1 - l \in Lanes /\ 1 - l # l /\ Lanes = {l, 1 - l} /\ Pending(l) = {Head(calls)}
  BY <1>1, <1>3, CallFacts
<1>5. /\ j \in JobNumbers /\ outcome \in Outcomes
      /\ log \in [JobNumbers -> Seq(Entry)] /\ lane \in [Lanes -> LaneRec] /\ ~returned
  BY <1>1, <1>2, <1>3, <1>4 DEF CallOK, Over, Playing, CallSet, IInv, Typed
<1>6. L.executed = Len(L.moves)
  BY <1>3, <1>4 DEF Accounted, EndCounted
<1>7. r \in Entry /\ r.moves = Len(L.moves)
  BY <1>4, <1>5 DEF Entry, LaneRec
<1>8. PICK more : /\ Calls(more)
                  /\ \E c \in CallSet : more = <<c>> /\ c.lane = l /\ c.name # "end_round"
  <2>1. /\ Call("start_job", l) \in CallSet /\ Call("start_round", l) \in CallSet
        /\ Call("start_job", l).lane = l /\ Call("start_round", l).lane = l
        /\ Call("start_job", l).name # "end_round" /\ Call("start_round", l).name # "end_round"
    BY <1>4, CallSetParts DEF Call
  <2>2. Calls(<<Call("start_job", l)>>) \/ Calls(<<Call("start_round", l)>>)
    BY <1>1 DEF EndRound
  <2> QED BY <2>1, <2>2
<1>9. /\ lane'[1 - l] = lane[1 - l] /\ lane'[l].engineSteps = L.engineSteps + L.executed
      /\ log' = [log EXCEPT ![j] = Append(log[j], r)]
      /\ steps' = steps
  <2> DEFINE K == [L EXCEPT !.engineSteps = @ + L.executed, !.score = Scored(@, outcome),
                             !.round = @ + 1]
  <2>1. /\ lane' = [lane EXCEPT ![l] = [K EXCEPT !.moves = << >>, !.fell = None]]
        /\ log' = [log EXCEPT ![K.job] = Append(@,
                     [outcome |-> outcome, pos |-> K.pos, seed |-> K.seed,
                      moves |-> Len(K.moves), fell |-> K.fell])]
        /\ steps' = steps
    BY <1>1 DEF EndRound
  <2>2. L = [job |-> L.job, round |-> L.round, seed |-> L.seed, pos |-> L.pos,
             score |-> L.score, budget |-> L.budget, executed |-> L.executed, owes |-> L.owes,
             engineSteps |-> L.engineSteps, moves |-> L.moves, fell |-> L.fell]
    BY <1>4 DEF LaneRec
  <2>3. /\ K.job = j /\ K.pos = L.pos /\ K.seed = L.seed /\ K.moves = L.moves /\ K.fell = L.fell
        /\ [K EXCEPT !.moves = << >>, !.fell = None].engineSteps = L.engineSteps + L.executed
    BY <1>2, <2>2
  <2> HIDE DEF K, L
  <2>4. log' = [log EXCEPT ![j] = Append(log[j], r)]
    BY <2>1, <2>3
  <2> QED BY <1>4, <1>5, <2>1, <2>3, <2>4
<1>10. \A q \in Lanes : EndCounted(q)'
  BY <1>1, <1>3, <1>4, <1>8, <1>9, CallCounted DEF Accounted
<1> HIDE DEF r
<1>11. /\ log' \in [JobNumbers -> Seq(Entry)] /\ log'[j] = Append(log[j], r)
       /\ \A k \in JobNumbers \ {j} : log'[k] = log[k]
       /\ log[j] \in Seq(Entry)
  BY <1>5, <1>7, <1>9
<1>12. Moved' = Moved + Len(L.moves)
  <2> DEFINE F == MovesByJob(log)
             G == MovesByJob(log')
  <2>1. IsFiniteSet(JobNumbers) /\ F \in [JobNumbers -> Int] /\ SumsTo(JobNumbers, F, Moved)
    BY <1>5, MovedSum
  <2>2. SumsTo(JobNumbers, G, Moved')
    <3>1. (log \in [JobNumbers -> Seq(Entry)] =>
             SumsTo(JobNumbers, MovesByJob(log), Moved))'
      BY MovedSum, PTL
    <3> QED BY <1>11, <3>1
  <2>3. G[j] = F[j] + Len(L.moves)
    <3>1. MovesOf(Append(log[j], r)) = MovesOf(log[j]) + r.moves
      BY <1>7, <1>11, MovesAppend
    <3> QED BY <1>5, <1>7, <1>11, <3>1 DEF MovesByJob
  <2>4. \A k \in JobNumbers \ {j} : G[k] = F[k]
    BY <1>11 DEF MovesByJob
  <2>5. PICK d \in Int : d = Len(L.moves)
    BY <1>4 DEF LaneRec
  <2>6. PICK v, w : v = Moved /\ w = Moved'
    OBVIOUS
  <2>7. SumsTo(JobNumbers, F, v) /\ SumsTo(JobNumbers, G, w)
    BY <2>1, <2>2, <2>6
  <2>8. G[j] = F[j] + d
    BY <2>3, <2>5
  <2> HIDE DEF F, G
  <2>9. w = v + d
    <3>1. IsFiniteSet(JobNumbers) /\ F \in [JobNumbers -> Int] /\ j \in JobNumbers
      BY <1>5, <2>1
    <3> QED BY <2>4, <2>7, <2>8, <3>1, SumGrows
  <2> QED BY <2>5, <2>6, <2>9
<1>13. Reported'
  <2>1. Reported /\ \A q \in Lanes : lane[q].engineSteps \in Int
    BY <1>5 DEF Accounted, LaneRec
  <2>2. L.executed \in Int /\ (l = 0 \/ l = 1)
    BY <1>4, Constants DEF LaneRec, Lanes
  <2>3. Moved = lane[0].engineSteps + lane[1].engineSteps /\ steps = 0
    BY <1>5, <2>1 DEF Reported
  <2>4. Moved' = lane'[0].engineSteps + lane'[1].engineSteps
    <3>1. PICK a \in Int, b \in Int, d \in Int :
            a = lane[l].engineSteps /\ b = lane[1 - l].engineSteps /\ d = L.executed
      BY <1>4, <2>1, <2>2
    <3>2. lane'[l].engineSteps = a + d /\ lane'[1 - l].engineSteps = b
      BY <1>9, <3>1
    <3>3. Moved' = Moved + d
      BY <1>6, <1>12, <3>1
    <3>4. CASE l = 0
      <4>1. 1 - l = 1 /\ Moved = a + b
        BY <2>3, <3>1, <3>4
      <4> QED BY <3>2, <3>3, <3>4, <4>1
    <3>5. CASE l = 1
      <4>1. 1 - l = 0 /\ Moved = b + a
        BY <2>3, <3>1, <3>5
      <4> QED BY <3>2, <3>3, <3>5, <4>1
    <3> QED BY <2>2, <3>4, <3>5
  <2> QED BY <1>3, <1>5, <1>9, <2>3, <2>4 DEF Reported
<1> QED BY <1>10, <1>13 DEF Accounted

\* Leaving the hot loop with one lane's round at its end.
LEMMA LeaveAccounted ==
  ASSUME IInv, Accounted, at # None, NEW e, e = LaneAt(at), NEW o,
         NEW L \in [Lanes -> LaneRec], NEW b \in [Lanes -> Int],
         L[e].executed + L[e].budget - b[e] = Len(L[e].moves),
         \A l \in Lanes : L[l].engineSteps = lane[l].engineSteps,
         Leave(o, L, b), UNCHANGED <<steps, returned, log>>
  PROVE  Accounted'
<1>1. e \in Lanes /\ 1 - e \in Lanes /\ 1 - e # e /\ Lanes = {e, 1 - e}
  BY HotFacts
<1>2. PICK q, w : q = 1 - e /\ w = OtherOwes(at)
  OBVIOUS
<1> DEFINE back == [l \in Lanes |-> Counted(L[l], b[l])]
<1>3. /\ lane' = [back EXCEPT ![q].owes = w]
      /\ calls' = << EndCall(e, o), Call("settle", q) >>
  BY <1>2 DEF Leave
<1>4. \A l \in Lanes : /\ back[l].executed = L[l].executed + L[l].budget - b[l]
                       /\ back[l].moves = L[l].moves
                       /\ back[l].engineSteps = L[l].engineSteps
  <2> SUFFICES ASSUME NEW l \in Lanes
               PROVE  /\ back[l].executed = L[l].executed + L[l].budget - b[l]
                      /\ back[l].moves = L[l].moves
                      /\ back[l].engineSteps = L[l].engineSteps
    OBVIOUS
  <2>1. PICK K \in LaneRec : K = L[l]
    OBVIOUS
  <2>2. PICK x, y : x = K.executed + K.budget - b[l] /\ y = b[l]
    OBVIOUS
  <2>3. back[l] = [K EXCEPT !.executed = x, !.budget = y]
    BY <2>1, <2>2 DEF Counted
  <2> HIDE DEF back
  <2>4. back[l].executed = x /\ back[l].moves = K.moves /\ back[l].engineSteps = K.engineSteps
    BY <2>3 DEF LaneRec
  <2> QED BY <2>1, <2>2, <2>4
<1>5. back = [l \in Lanes |-> back[l]]
  OBVIOUS
<1> HIDE DEF back
<1>6. \A l \in Lanes : lane'[l].engineSteps = lane[l].engineSteps
  <2>1. lane'[q].engineSteps = back[q].engineSteps
    <3> DEFINE K == [back[q] EXCEPT !.owes = w]
    <3>1. lane'[q] = K
      BY <1>1, <1>2, <1>3, <1>5
    <3>2. \A l \in Lanes : back[l] = Counted(L[l], b[l])
      BY DEF back
    <3>3. K.engineSteps = back[q].engineSteps
      BY <1>1, <1>2, <3>2 DEF Counted, LaneRec
    <3> QED BY <3>1, <3>3
  <2>2. lane'[e] = back[e]
    BY <1>1, <1>2, <1>3, <1>5
  <2> QED BY <1>1, <1>2, <1>4, <2>1, <2>2
<1>7. lane'[e].executed = Len(lane'[e].moves)
  <2>1. lane'[e] = back[e]
    BY <1>1, <1>2, <1>3, <1>5
  <2> QED BY <1>1, <1>4, <2>1
<1>8. \A l \in Lanes : EndCounted(l)'
  <2> SUFFICES ASSUME NEW l \in Lanes, NEW c \in Pending(l)', c.name = "end_round"
               PROVE  lane'[l].executed = Len(lane'[l].moves)
    BY DEF EndCounted
  <2>1. c.lane = l /\ (c = EndCall(e, o) \/ c = Call("settle", q))
    BY <1>3 DEF Pending
  <2>2. l = e
    BY <2>1 DEF EndCall, Call
  <2> QED BY <1>7, <2>2
<1> QED BY <1>6, <1>8, ReportedStill DEF Accounted

\* Entering the hot loop and going through it.
LEMMA HotAccounted ==
  ASSUME IInv, Accounted, EnterBoth \/ HotSpent \/ HotMove
  PROVE  Accounted'
<1>1. UNCHANGED <<steps, returned, log>>
  BY DEF EnterBoth, HotSpent, HotMove
<1>2. CASE EnterBoth
  <2>1. calls' = calls /\ lane' = lane
    BY <1>2 DEF EnterBoth
  <2>2. \A l \in Lanes : EndCounted(l)'
    BY <2>1 DEF Accounted, EndCounted, Pending
  <2> QED BY <1>1, <2>1, <2>2, ReportedStill DEF Accounted
<1>3. ASSUME at # None, NEW e, e = LaneAt(at)
      PROVE  /\ calls = << >> /\ e \in Lanes /\ lane[e] \in LaneRec
             /\ lane \in [Lanes -> LaneRec] /\ budgets \in [Lanes -> Int]
             /\ lane[e].executed + lane[e].budget - budgets[e] = Len(lane[e].moves)
             /\ Len(lane[e].moves) \in Int /\ budgets[e] \in Int
             /\ lane[e].executed \in Int /\ lane[e].budget \in Int
             /\ lane[e].moves \in Seq(Lanes)
  <2>1. /\ calls = << >> /\ e \in Lanes /\ lane[e] \in LaneRec /\ HotOK(e)
        /\ budgets[e] \in 0 .. 2 * MaxCycles
    BY <1>3, HotFacts
  <2>2. /\ Len(lane[e].moves) + budgets[e] = 2 * MaxCycles
        /\ lane[e].executed + lane[e].budget = 2 * MaxCycles
    BY <2>1 DEF HotOK, InRound, Going
  <2>3. /\ Len(lane[e].moves) \in Int /\ budgets[e] \in Int
        /\ lane[e].executed \in Int /\ lane[e].budget \in Int
        /\ lane[e].moves \in Seq(Lanes) /\ 2 * MaxCycles \in Int
    BY <2>1, Constants DEF LaneRec
  <2>4. lane \in [Lanes -> LaneRec] /\ budgets \in [Lanes -> Int]
    BY Constants DEF IInv, Typed
  <2>5. PICK a \in Int, x \in Int, y \in Int, z \in Int, m \in Int :
          /\ a = Len(lane[e].moves) /\ x = lane[e].executed /\ y = lane[e].budget
          /\ z = budgets[e] /\ m = 2 * MaxCycles
    BY <2>3
  <2>6. a + z = m /\ x + y = m
    BY <2>2, <2>5
  <2>7. x + y - z = a
    BY <2>6
  <2>8. lane[e].executed + lane[e].budget - budgets[e] = Len(lane[e].moves)
    BY <2>5, <2>7
  <2> QED BY <2>1, <2>3, <2>4, <2>8
<1>4. CASE HotSpent
  <2>1. at # None /\ Leave("tie", lane, budgets)
    BY <1>4 DEF HotSpent
  <2>2. PICK e : e = LaneAt(at)
    OBVIOUS
  <2> QED BY <1>1, <1>3, <2>1, <2>2, LeaveAccounted
<1>5. CASE HotMove
  <2>1. PICK e, w : e = LaneAt(at) /\ w = WarriorAt(at)
    OBVIOUS
  <2>2. at # None
    BY <1>5 DEF HotMove
  <2>3. PICK alive \in BOOLEAN :
        LET L == [lane EXCEPT ![e] = Stepped(@, w, alive)]
            b == [budgets EXCEPT ![e] = @ - 1]
        IN IF alive
           THEN lane' = L /\ budgets' = b /\ at' = (at + 1) % 4 /\ UNCHANGED calls
           ELSE Leave(Won(1 - w), L, b)
    BY <1>5, <2>1 DEF HotMove
  <2>4. PICK M : M = Stepped(lane[e], w, alive)
    OBVIOUS
  <2>5. budgets[e] > 0
    BY <1>5, <2>1 DEF HotMove
  <2>6. /\ M \in LaneRec /\ Len(M.moves) = Len(lane[e].moves) + 1
        /\ M.budget = lane[e].budget /\ M.executed = lane[e].executed
    BY <2>1, <2>2, <2>4, <2>5, HotStep
  <2>7. M.engineSteps = lane[e].engineSteps
    BY <1>3, <2>1, <2>2, <2>4 DEF Stepped, LaneRec
  <2>8. PICK L, b : L = [lane EXCEPT ![e] = M] /\ b = [budgets EXCEPT ![e] = budgets[e] - 1]
    OBVIOUS
  <2>9. /\ L \in [Lanes -> LaneRec] /\ L[e] = M /\ \A l \in Lanes \ {e} : L[l] = lane[l]
        /\ b \in [Lanes -> Int] /\ b[e] = budgets[e] - 1
    BY <1>3, <2>1, <2>2, <2>6, <2>8
  <2>10. \A l \in Lanes : L[l].engineSteps = lane[l].engineSteps
    BY <2>7, <2>9
  <2>11. CASE alive
    <3>1. lane' = L /\ calls' = calls
      BY <2>3, <2>4, <2>8, <2>11
    <3>2. calls = << >>
      BY <1>3, <2>1, <2>2
    <3>3. \A l \in Lanes : EndCounted(l)'
      BY <3>1, <3>2 DEF EndCounted, Pending
    <3> QED BY <1>1, <2>10, <3>1, <3>3, ReportedStill DEF Accounted
  <2>12. CASE ~alive
    <3>1. Leave(Won(1 - w), L, b)
      BY <2>3, <2>4, <2>8, <2>12
    <3>2. L[e].executed + L[e].budget - b[e] = Len(L[e].moves)
      <4>1. lane[e].executed + lane[e].budget - budgets[e] = Len(lane[e].moves)
            /\ Len(lane[e].moves) \in Int /\ budgets[e] \in Int
            /\ lane[e].executed \in Int /\ lane[e].budget \in Int
        BY <1>3, <2>1, <2>2
      <4>2. PICK a \in Int, x \in Int, y \in Int, z \in Int :
              /\ a = Len(lane[e].moves) /\ x = lane[e].executed /\ y = lane[e].budget
              /\ z = budgets[e]
        BY <4>1
      <4>3. /\ L[e].executed = x /\ L[e].budget = y /\ b[e] = z - 1
            /\ Len(L[e].moves) = a + 1
        BY <2>6, <2>9, <4>2
      <4>4. x + y - z = a
        BY <4>1, <4>2
      <4>5. x + y - (z - 1) = a + 1
        BY <4>4
      <4> QED BY <4>3, <4>5
    <3> QED BY <1>1, <2>1, <2>2, <2>9, <2>10, <3>1, <3>2, LeaveAccounted
  <2> QED BY <2>11, <2>12
<1> QED BY <1>2, <1>4, <1>5

\* The last lane plays its round to the end.
LEMMA SingleAccounted ==
  ASSUME IInv, Accounted, Single
  PROVE  Accounted'
<1>1. calls = << >> /\ at = None /\ UNCHANGED <<steps, returned, log>>
  BY DEF Single, Ready
<1>0. PICK l \in LaneLeft : \E n \in 0 .. lane[l].budget, alive \in BOOLEAN :
        LET loser == (n - 1) % 2
        IN /\ IF alive THEN n = lane[l].budget ELSE n > 0
           /\ lane' = [lane EXCEPT
                ![l].moves = @ \o [i \in 1 .. n |-> (i - 1) % 2],
                ![l].fell = IF alive THEN @ ELSE loser,
                ![l].executed = @ + n,
                ![l].budget = @ - n]
           /\ calls' = << EndCall(l, IF alive THEN "tie" ELSE Won(1 - loser)) >>
  BY DEF Single
<1>2. PICK n \in 0 .. lane[l].budget, alive \in BOOLEAN :
        LET loser == (n - 1) % 2
        IN /\ IF alive THEN n = lane[l].budget ELSE n > 0
           /\ lane' = [lane EXCEPT
                ![l].moves = @ \o [i \in 1 .. n |-> (i - 1) % 2],
                ![l].fell = IF alive THEN @ ELSE loser,
                ![l].executed = @ + n,
                ![l].budget = @ - n]
           /\ calls' = << EndCall(l, IF alive THEN "tie" ELSE Won(1 - loser)) >>
  BY <1>0
<1> DEFINE L == lane[l]
<1>3. /\ l \in Lanes /\ Active(l) /\ L \in LaneRec /\ lane \in [Lanes -> LaneRec]
  BY DEF LaneLeft, IInv, Typed
<1>4. Pending(l) = {}
  BY <1>1, NoCalls
<1>5. InRound(L, L.budget)
  BY <1>1, <1>3, <1>4 DEF IInv, LaneOK, IdleOK
<1>6. /\ Len(L.moves) \in Int /\ L.budget \in Int /\ L.executed \in Int /\ 2 * MaxCycles \in Int
      /\ L.moves \in Seq(Lanes)
  BY <1>3, Constants DEF LaneRec
<1>7. L.executed = Len(L.moves)
  <2>1. Len(L.moves) + L.budget = 2 * MaxCycles /\ L.executed + L.budget = 2 * MaxCycles
    BY <1>5 DEF InRound, Going
  <2> QED BY <1>6, <2>1
<1>8. n \in Nat
  BY <1>6
<1>9. PICK g, v, x, y : /\ g = L.moves \o [i \in 1 .. n |-> (i - 1) % 2]
                        /\ v = (IF alive THEN L.fell ELSE (n - 1) % 2)
                        /\ x = L.executed + n /\ y = L.budget - n
  OBVIOUS
<1>10. x = Len(g)
  <2> DEFINE t == [i \in 1 .. n |-> (i - 1) % 2]
  <2>1. t \in Seq(Int) /\ Len(t) = n
    BY <1>8
  <2>2. L.moves \in Seq(Int)
    BY <1>6 DEF Lanes
  <2> HIDE DEF t
  <2> DEFINE u == L.moves
  <2> HIDE DEF u
  <2>3. Len(u \o t) = Len(u) + Len(t)
    <3>1. u \in Seq(Int)
      BY <2>2 DEF u
    <3> QED BY <2>1, <3>1, ConcatProperties
  <2>4. g = L.moves \o t
    BY <1>9 DEF t
  <2> QED BY <1>7, <1>9, <2>1, <2>3, <2>4 DEF u
<1> DEFINE M == [L EXCEPT !.moves = g, !.fell = v, !.executed = x, !.budget = y]
<1>11. lane' = [lane EXCEPT ![l] = M]
  BY <1>2, <1>3, <1>9
<1>12. M.executed = x /\ M.moves = g /\ M.engineSteps = L.engineSteps
  BY <1>3 DEF LaneRec
<1> HIDE DEF M
<1>13. lane'[l] = M /\ \A q \in Lanes \ {l} : lane'[q] = lane[q]
  BY <1>3, <1>11
<1>14. \A q \in Lanes : EndCounted(q)'
  <2> SUFFICES ASSUME NEW q \in Lanes, NEW c \in Pending(q)'
               PROVE  lane'[q].executed = Len(lane'[q].moves)
    BY DEF EndCounted
  <2>1. PICK o : calls' = << EndCall(l, o) >>
    BY <1>2
  <2>2. c.lane = q /\ c = EndCall(l, o)
    BY <2>1 DEF Pending
  <2>3. q = l
    BY <2>2 DEF EndCall
  <2> QED BY <1>10, <1>12, <1>13, <2>3
<1>15. \A q \in Lanes : lane'[q].engineSteps = lane[q].engineSteps
  BY <1>12, <1>13
<1> QED BY <1>1, <1>14, <1>15, ReportedStill DEF Accounted

\* play_all returns: what the engines counted is reported, once.
LEMMA ReturnAccounted ==
  ASSUME IInv, Accounted, Return
  PROVE  Accounted'
<1>1. /\ calls = << >> /\ ~returned /\ calls' = calls /\ log' = log /\ returned' = TRUE
      /\ steps' = steps + lane[0].engineSteps + lane[1].engineSteps
  BY DEF Return, Ready
<1>2. \A l \in Lanes : EndCounted(l)'
  BY <1>1 DEF EndCounted, Pending
<1>3. Moved' = Moved
  BY <1>1 DEF Moved, FoldFunction, FoldFunctionOnSet, MapThenFoldSet
<1>4. lane[0].engineSteps \in Int /\ lane[1].engineSteps \in Int
  BY DEF IInv, Typed, LaneRec, Lanes
<1>5. steps' = Moved
  BY <1>1, <1>4 DEF Accounted, Reported
<1> QED BY <1>1, <1>2, <1>3, <1>5 DEF Accounted, Reported

\* What is reported is what was played, however the loop was left and entered.
LEMMA AccountedInvariant == Spec => []Accounted
<1>1. IInv /\ Accounted /\ [Next]_vars => Accounted'
  <2> SUFFICES ASSUME IInv, Accounted, [Next]_vars PROVE Accounted'
    OBVIOUS
  <2>1. CASE UNCHANGED vars
    <3>1. UNCHANGED <<lane, calls, steps, returned, log>>
      BY <2>1 DEF vars
    <3>2. \A l \in Lanes : EndCounted(l)'
      BY <3>1 DEF Accounted, EndCounted, Pending
    <3> QED BY <3>1, <3>2, ReportedStill DEF Accounted
  <2> QED BY <2>1, StartAccounted, SettleAccounted, EndRoundAccounted, HotAccounted,
             SingleAccounted, ReturnAccounted DEF Next
<1> QED BY <1>1, InitAccounted, Invariance, PTL DEF Spec

-----------------------------------------------------------------------------
\* The theorems.

\* A lane that is not settling a call is in a round of its own or has no
\* match: in either case its moves alternate.
LEMMA IInvAlternates == IInv => MovesAlternate
<1> SUFFICES ASSUME IInv, NEW l \in Lanes, Active(l)
             PROVE  /\ \A i \in 1 .. Len(lane[l].moves) :
                          lane[l].moves[i] = (lane[l].round + i - 1) % 2
                    /\ Len(lane[l].moves) <= 2 * MaxCycles
  BY DEF MovesAlternate
<1> DEFINE L == lane[l]
<1>1. LaneOK(l) /\ L \in LaneRec
  BY DEF IInv, Typed
<1>2. L.moves = << >> \/ (\E left : Going(L, left) /\ left \in 0 .. 2 * MaxCycles)
      \/ (\E o : Decided(L, o))
  <2>1. CASE Pending(l) = {}
    <3>1. InRound(L, L.budget) \/ InRound(L, budgets[l])
      BY <1>1, <2>1 DEF LaneOK, IdleOK, HotOK
    <3>2. L.budget \in 0 .. 2 * MaxCycles /\ budgets[l] \in 0 .. 2 * MaxCycles
      BY <1>1 DEF IInv, Typed, LaneRec
    <3> QED
      BY <3>1, <3>2 DEF InRound
  <2>2. CASE Pending(l) # {}
    <3>1. PICK c \in CallSet : c.lane = l /\ CallOK(c)
      BY <1>1, <2>2 DEF LaneOK, Pending
    <3>2. L.budget \in 0 .. 2 * MaxCycles
      BY <1>1 DEF LaneRec
    <3> QED
      BY <3>1, <3>2 DEF CallOK, CallSet, InRound, Over
  <2> QED
    BY <2>1, <2>2
<1>3. Len(L.moves) \in Nat /\ 2 * MaxCycles \in Nat
  BY <1>1, Constants DEF LaneRec
<1>4. CASE L.moves = << >>
  BY <1>3, <1>4
<1>5. CASE \E left : Going(L, left) /\ left \in 0 .. 2 * MaxCycles
  BY <1>3, <1>5 DEF Going, Alternates
<1>6. CASE \E o : Decided(L, o)
  <2>1. Alternates(L) /\ (Len(L.moves) = 2 * MaxCycles \/ Len(L.moves) \in 1 .. 2 * MaxCycles)
    BY <1>6 DEF Decided
  <2> QED
    BY <1>3, <2>1 DEF Alternates
<1> QED
  BY <1>2, <1>4, <1>5, <1>6

\* The invariant has the types in it.
LEMMA IInvTypes == IInv => TypeOK
<1> SUFFICES ASSUME IInv PROVE TypeOK
  OBVIOUS
<1>1. ASSUME NEW i \in 1 .. Len(calls), calls[i].name = "end_round"
      PROVE  lane[calls[i].lane].job # NoJob
  <2>1. calls[i] \in CallSet
    BY DEF IInv, CallsOK
  <2>2. calls[i] \in Pending(calls[i].lane) /\ calls[i].lane \in Lanes
    BY <2>1, CallSetParts DEF Pending
  <2>3. CallOK(calls[i])
    BY <2>2 DEF IInv, LaneOK
  <2> QED
    BY <1>1, <2>3, Constants DEF CallOK, Over, Playing
<1>2. \A l \in Lanes : lane[l] \in LaneRec /\ budgets[l] \in 0 .. 2 * MaxCycles
  BY DEF IInv, Typed
<1> QED
  BY <1>1, <1>2 DEF IInv, Typed, TypeOK, LaneRec

\* The invariant has the scores of finished jobs in it.
LEMMA IInvScores == IInv => ScoresInJobOrder
<1> SUFFICES ASSUME IInv, returned, NEW j \in JobNumbers
             PROVE  Len(log[j]) = Rounds /\ results[j] = Tallied(log[j])
  BY DEF ScoresInJobOrder, Tallied
<1>1. calls = << >> /\ at = None /\ \A l \in Lanes : ~Active(l)
  BY DEF IInv, Lanes
<1>2. Pending(0) = {} /\ 0 \in Lanes
  BY <1>1, NoCalls DEF Lanes
<1>3. Exhausted
  BY <1>1, <1>2 DEF IInv, LaneOK
<1>4. \A l \in Lanes : lane[l].job # j
  BY <1>1, Constants DEF Active
<1>5. next \in 0 .. NumJobs /\ j \in Int /\ j < NumJobs /\ NumJobs \in Int
  BY Constants DEF IInv, Typed
<1>6. CASE j < next
  BY <1>4, <1>6 DEF IInv, Finished, Busy
<1>7. CASE ~(j < next)
  <2>1. log[j] = << >> /\ results[j] = NoScore
    BY <1>5, <1>7 DEF IInv, Finished
  <2>2. Rounds = 0
    BY <1>3, <1>5, <1>7 DEF Exhausted
  <2>3. Tallied(<< >>) = NoScore
    BY TallyNone DEF Tallied, NoScore
  <2> QED
    BY <2>1, <2>2, <2>3
<1> QED
  BY <1>6, <1>7

\* Budgets, counts, seeds and the round number stay in range, and a lane
\* is only asked to end a round it has: for any jobs, rounds and budget.
THEOREM TypesHold == Spec => []TypeOK
<1> QED
  BY Invariance, IInvTypes, PTL

\* Each lane's own sequence of steps is the sequential one (multi.rs:13),
\* however often the hot loop is left and entered.
THEOREM WarriorsAlternate == Spec => []MovesAlternate
<1> QED
  BY Invariance, IInvAlternates, PTL

\* Every round that was finished is one Engine::play could have played.
THEOREM RoundsHold == Spec => []RoundsAsPlayed
<1>1. IInv => RoundsAsPlayed
  BY DEF IInv
<1> QED
  BY <1>1, Invariance, PTL

\* When play_all returns, each job has the score of all its rounds.
THEOREM ScoresHold == Spec => []ScoresInJobOrder
<1> QED
  BY Invariance, IInvScores, PTL
\* The instructions play_all reports are those of the rounds it finished: none
\* is lost or counted twice where the hot loop is left, settled and entered.
THEOREM StepsHold == Spec => []StepsAddUp
<1>1. Accounted => StepsAddUp
  BY DEF Accounted, Reported, StepsAddUp, Moved, MovesOf
<1> QED
  BY <1>1, AccountedInvariant, PTL
=============================================================================
