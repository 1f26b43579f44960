------------------------------- MODULE Tables -------------------------------
(***************************************************************************)
(* cw tournament and cw versus, main.rs: from the files on the command     *)
(* line to the jobs of one batch, which the pool plays, and from its       *)
(* scores, in job order, to the table.  Scores find their warriors again   *)
(* by position alone: the n-th score is that of the n-th job, and the n-th *)
(* key says who played it.                                                 *)
(*                                                                         *)
(* A file is the number of its source; two files with one source are the   *)
(* same warrior.  The lanes of `--lanes 2` play the same jobs in the same  *)
(* order (ScoresInJobOrder of Multi).                                      *)
(***************************************************************************)
EXTENDS Pool, SequencesExt

CONSTANTS
  Batches,          \* the command lines
  Positions,        \* CORE + 1 - 2 DISTANCE
  AsFirst, AsSecond \* the sources that assemble with W and S, and without

\* A file, or a directory and the files in it.
Path == [dir: {FALSE}, file: Nat] \cup [dir: {TRUE}, files: SUBSET Nat]
IsCommand(b) ==
  IF b.command = "tournament" THEN b.files \in Seq(Nat)
  ELSE /\ b.files \in Seq(Path) /\ b.against \in Seq(Path)
       /\ b.members \in Seq(Nat) /\ b.seeds \in Seq(Nat)
       /\ b.points \in [win: Int, tie: Int, loss: Int]
       /\ \A p \in ToSet(b.files \o b.against) : p.dir => IsFiniteSet(p.files)

ASSUME TablesAssumption ==
  /\ Positions \in Nat \ {0}
  /\ Scores \subseteq [w1: Nat, w2: Nat, ties: Nat]
  /\ \A b \in Batches : IsCommand(b)

VARIABLES
  batch,  \* the command line
  keys    \* who plays each job, and on which seed

tables == <<batch, keys, vars>>

Tournament(b) == b.command = "tournament"

-----------------------------------------------------------------------------
\* From files to jobs.

\* The numbers of a set, least first.
Sorted(S) ==
  CHOOSE list \in [1 .. Cardinality(S) -> S] :
    ToSet(list) = S /\ \A m, n \in DOMAIN list : m < n => list[m] < list[n]

\* A directory stands for its *.red files, sorted.
expand(paths) ==
  FoldLeft(LAMBDA out, p : out \o (IF p.dir THEN Sorted(p.files) ELSE <<p.file>>), << >>, paths)

\* Side::load: the files that do not assemble are left out.
Loaded(files, accepted) ==
  FoldLeft(LAMBDA side, f : IF f \in accepted THEN Append(side, f) ELSE side, << >>, files)

Left(b)  == IF Tournament(b) THEN b.files ELSE Loaded(expand(b.files), AsFirst)
Right(b) == IF Tournament(b) THEN b.files
            ELSE Loaded(b.members \o expand(b.against), AsSecond)

\* cw exits with 1 or 2 before anything is played.
Refused(b) ==
  IF Tournament(b) THEN ~ToSet(b.files) \subseteq AsFirst \cap AsSecond
  ELSE Left(b) = << >> \/ Right(b) = << >>

\* Who plays whom: every two warriors of a tournament, the first of them as A;
\* every warrior and every opponent that is not its copy.
Opposed(b, i, j) == IF Tournament(b) THEN i < j ELSE Left(b)[i] # Right(b)[j]

\* On which seeds, after so many jobs.
Seeds(b, k) == IF Tournament(b) THEN <<(k * 997) % Positions>> ELSE b.seeds

\* The jobs, each with who plays it and its seed.
WithMatch(b, ks, i, j) ==
  IF Opposed(b, i, j)
  THEN ks \o [s \in DOMAIN Seeds(b, Len(ks)) |-> <<i, j, Seeds(b, Len(ks))[s]>>]
  ELSE ks
WithMatches(b, ks, i) ==
  FoldLeft(LAMBDA r, j : WithMatch(b, r, i, j), ks, [j \in DOMAIN Right(b) |-> j])
Keys(b) == FoldLeft(LAMBDA r, i : WithMatches(b, r, i), << >>, [i \in DOMAIN Left(b) |-> i])

Between(key, i, j) == key[1] = i /\ key[2] = j

-----------------------------------------------------------------------------
\* From scores to the table.

NoRecord == [wins |-> 0, ties |-> 0, losses |-> 0]

\* Gone wrong: a warrior's record with an opponent is that of the last seed.
LastSeed(t, s) == [wins |-> s.w1, ties |-> s.ties, losses |-> s.w2]

\* Record::add, of A's score.
WithScore(t, s) ==
  [wins |-> t.wins + s.w1, ties |-> t.ties + s.ties, losses |-> t.losses + s.w2]

\* The cell of warrior i and opponent j after the scores of all keys, which
\* is None if they did not play (Met).
Cell(i, j) ==
  FoldLeft(LAMBDA t, k : IF Between(keys[k], i, j) THEN WithScore(t, scores[k - 1]) ELSE t,
           NoRecord, [k \in DOMAIN keys |-> k])
Met(i) == {keys[k][2] : k \in {n \in DOMAIN keys : keys[n][1] = i}}

Together(t, u) ==
  [wins |-> t.wins + u.wins, ties |-> t.ties + u.ties, losses |-> t.losses + u.losses]
Total(i) ==
  FoldLeft(LAMBDA t, j : IF j \in Met(i) THEN Together(t, Cell(i, j)) ELSE t,
           NoRecord, [j \in DOMAIN Right(batch) |-> j])

\* Both warriors of a match get their points, 3 a win and 1 a tie.
TournamentScore(i) ==
  FoldLeft(LAMBDA n, k :
             LET s == scores[k - 1]
             IN n + (IF keys[k][1] = i THEN 3 * s.w1 + s.ties ELSE 0)
                  + (IF keys[k][2] = i THEN 3 * s.w2 + s.ties ELSE 0),
           0, [k \in DOMAIN keys |-> k])

\* Record::points.
Points(t, p) == t.wins * p.win + t.ties * p.tie + t.losses * p.loss

\* What order sorts by.
Score(b, i) == IF Tournament(b) THEN TournamentScore(i) ELSE Points(Total(i), b.points)

\* Stable: equal scores keep the order of the command line.
Order(score) ==
  CHOOSE list \in [DOMAIN score -> DOMAIN score] :
    /\ ToSet(list) = DOMAIN score
    /\ \A m, n \in DOMAIN list : m < n =>
         \/ score[list[m]] > score[list[n]]
         \/ score[list[m]] = score[list[n]] /\ list[m] < list[n]

\* The row of warrior i.  The score of a versus is divided by the number of
\* its seeds, and it says how many opponents the warrior has met.
Row(b, i, score) ==
  IF Tournament(b) THEN [warrior |-> i, score |-> score]
  ELSE [warrior |-> i, score |-> score, opponents |-> Cardinality(Met(i)),
        wins |-> Total(i).wins, ties |-> Total(i).ties, losses |-> Total(i).losses]

\* The rows, best first.
Ordered(b, score, order) == [place \in DOMAIN order |-> Row(b, order[place], score[order[place]])]
Scored(b, score) == Ordered(b, score, Order(score))
Standings(b) == Scored(b, [i \in DOMAIN Left(b) |-> Score(b, i)])

-----------------------------------------------------------------------------
TablesInit ==
  /\ batch \in {b \in Batches : ~Refused(b)}
  /\ keys = Keys(batch)
  /\ Init /\ jobs = Len(keys)

TablesNext == Next /\ UNCHANGED <<batch, keys>>

TablesSpec == /\ TablesInit /\ [][TablesNext]_tables
              /\ WF_tables(Caller /\ UNCHANGED <<batch, keys>>)
              /\ \A t \in 1 .. MaxJobs :
                   WF_tables(t \in Workers /\ Worker(t) /\ UNCHANGED <<batch, keys>>)

-----------------------------------------------------------------------------
\* Properties.

\* The number of the match of i and j on the s-th seed: README, "every
\* warrior plays every opponent on every seed", in that order, and the pairs
\* of a tournament in the order they are counted.
Before(b, i, j) ==
  {m \in (DOMAIN Left(b)) \X (DOMAIN Right(b)) :
     /\ m[1] < i \/ (m[1] = i /\ m[2] < j)
     /\ IF Tournament(b) THEN m[1] < m[2] ELSE Left(b)[m[1]] # Right(b)[m[2]]}
MatchOf(b, i, j, s) ==
  IF Tournament(b) THEN Cardinality(Before(b, i, j))
  ELSE Cardinality(Before(b, i, j)) * Len(b.seeds) + s - 1

\* What i took from its match with j on the s-th seed, as A or as B.
Taken(b, i, j, s) ==
  LET p == IF Tournament(b) THEN [win |-> 3, tie |-> 1, loss |-> 0] ELSE b.points
      r == IF Tournament(b) /\ j < i THEN ScoreOf[MatchOf(b, j, i, s)]
                                     ELSE ScoreOf[MatchOf(b, i, j, s)]
      won  == IF Tournament(b) /\ j < i THEN r.w2 ELSE r.w1
      lost == IF Tournament(b) /\ j < i THEN r.w1 ELSE r.w2
  IN p.win * won + p.tie * r.ties + p.loss * lost

Worth(b, i) ==
  LET rivals == {j \in DOMAIN Right(b) :
                   IF Tournament(b) THEN i # j ELSE Left(b)[i] # Right(b)[j]}
      seeds  == IF Tournament(b) THEN {1} ELSE DOMAIN b.seeds
  IN MapThenSumSet(LAMBDA m : Taken(b, i, m[1], m[2]), rivals \X seeds)

\* README: "pair k placed like -F D+997k mod (S+1-2D)"; a match of versus is
\* "the cw pair with the same seed".
Placed(b, key, k) ==
  IF Tournament(b) THEN key[3] = (997 * k) % Positions
  ELSE \E s \in DOMAIN b.seeds : key[3] = b.seeds[s] /\ k = MatchOf(b, key[1], key[2], s)

\* However the threads ran, the table gives each warrior the points of its
\* own matches, against each rival on each seed and none twice, it is in the
\* order of those points with ties as on the command line, and every match is
\* placed as documented.
TableAsPlayed ==
  Returned =>
    \E rows \in {Standings(batch)} :
       /\ {rows[n].warrior : n \in DOMAIN rows} = DOMAIN Left(batch)
       /\ \A n \in DOMAIN rows : rows[n].score = Worth(batch, rows[n].warrior)
       /\ \A m, n \in DOMAIN rows : m < n =>
            \/ rows[m].score > rows[n].score
            \/ rows[m].score = rows[n].score /\ rows[m].warrior < rows[n].warrior
       /\ \A k \in Numbers : Placed(batch, keys[k + 1], k)
=============================================================================
