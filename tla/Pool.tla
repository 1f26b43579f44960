-------------------------------- MODULE Pool --------------------------------
(***************************************************************************)
(* pool.rs: a batch of matches on several threads.  Each worker owns an    *)
(* engine and takes the number of the next unplayed job from a shared      *)
(* counter; the caller joins the workers in the order it spawned them and  *)
(* puts their scores where the job numbers say.  One thread plays the jobs *)
(* in order, without the counter.                                          *)
(*                                                                         *)
(* An engine plays a match as a fresh one does (MatchRepeatable of Mars),  *)
(* so a job has one score and one instruction count, whoever plays it.     *)
(***************************************************************************)
EXTENDS Integers, Sequences, FiniteSetsExt

CONSTANTS
  MaxJobs,  \* bound: jobs in a batch
  MaxAsked, \* bound: threads asked for
  Scores,   \* what a match can come to
  Default,  \* Score::default, which the result is filled with
  ScoreOf,  \* the score of each job
  StepsOf   \* the instructions each job takes

ASSUME PoolAssumption ==
  /\ MaxJobs \in Nat /\ MaxAsked \in Nat
  /\ Default \in Scores
  /\ ScoreOf \in [0 .. MaxJobs - 1 -> Scores]
  /\ StepsOf \in [0 .. MaxJobs - 1 -> Nat]

VARIABLES
  jobs,    \* jobs.len()
  threads, \* `threads`, clamped
  next,    \* the shared counter
  work,    \* the job each worker is playing, or idle or exited
  done,    \* the <<job, score>> pairs each worker holds, in order
  engine,  \* instructions each worker's engine has run
  joined,  \* workers the caller has joined
  scores,  \* the result
  steps    \* the total of instructions

vars == <<jobs, threads, next, work, done, engine, joined, scores, steps>>

idle == -1
exited == -2

Numbers == 0 .. jobs - 1
Workers == 1 .. threads

\* Gone wrong: no thread for no job.
Capped(asked, n) == IF asked > n THEN n ELSE asked

\* threads.clamp(1, jobs.len().max(1))
Clamped(asked, n) ==
  LET most == IF n > 1 THEN n ELSE 1
  IN IF asked < 1 THEN 1 ELSE IF asked > most THEN most ELSE asked

\* Gone wrong: a load and a store, another worker adding in between.
LoadThenStore(t) ==
  /\ threads > 1 /\ work[t] = idle
  /\ \E seen \in {next, next - 1} \ {-1} :
       /\ next' = seen + 1
       /\ work' = [work EXCEPT ![t] = IF seen < jobs THEN seen ELSE exited]
  /\ UNCHANGED <<jobs, threads, done, engine, joined, scores, steps>>

\* fetch_add: the value before is this worker's, no two get the same.
Claim(t) ==
  /\ threads > 1 /\ work[t] = idle
  /\ next' = next + 1
  /\ work' = [work EXCEPT ![t] = IF next < jobs THEN next ELSE exited]
  /\ UNCHANGED <<jobs, threads, done, engine, joined, scores, steps>>

Play(t) ==
  /\ work[t] \in Numbers
  /\ done' = [done EXCEPT ![t] = Append(@, <<work[t], ScoreOf[work[t]]>>)]
  /\ engine' = [engine EXCEPT ![t] = @ + StepsOf[work[t]]]
  /\ work' = [work EXCEPT ![t] = idle]
  /\ UNCHANGED <<jobs, threads, next, joined, scores, steps>>

\* The caller waits for the next worker and stores what it played.
Stored(t) ==
  [k \in Numbers |->
     IF \E i \in 1 .. Len(done[t]) : done[t][i][1] = k
     THEN done[t][CHOOSE i \in 1 .. Len(done[t]) : done[t][i][1] = k][2]
     ELSE scores[k]]

\* Gone wrong: every job claimed is not every job played; a first worker is
\* never joined.
AllClaimed(t) == next >= jobs
AfterFirst(t) == joined = t

Exited(t) == work[t] = exited
Added(n) == steps + n
NextToJoin(t) == joined = t - 1

Join(t) ==
  /\ threads > 1 /\ NextToJoin(t) /\ Exited(t)
  /\ scores' = Stored(t)
  /\ steps' = Added(engine[t])
  /\ joined' = t
  /\ UNCHANGED <<jobs, threads, next, work, done, engine>>

\* One thread: the caller plays the jobs itself, in order, on one engine
\* (next is here the position of its iterator).
PlayAlone ==
  /\ threads = 1 /\ next < jobs
  /\ scores' = [scores EXCEPT ![next] = ScoreOf[next]]
  /\ steps' = steps + StepsOf[next]
  /\ next' = next + 1
  /\ UNCHANGED <<jobs, threads, work, done, engine, joined>>

ReturnAlone ==
  /\ threads = 1 /\ next = jobs /\ joined = 0
  /\ joined' = 1
  /\ UNCHANGED <<jobs, threads, next, work, done, engine, scores, steps>>

Init ==
  /\ jobs \in 0 .. MaxJobs
  /\ \E asked \in 0 .. MaxAsked : threads = Clamped(asked, jobs)
  /\ next = 0
  /\ work = [t \in Workers |-> idle]
  /\ done = [t \in Workers |-> << >>]
  /\ engine = [t \in Workers |-> 0]
  /\ joined = 0
  /\ scores = [k \in Numbers |-> Default]
  /\ steps = 0

Worker(t) == Claim(t) \/ Play(t)
Caller == (\E t \in Workers : Join(t)) \/ PlayAlone \/ ReturnAlone

Next == (\E t \in Workers : Worker(t)) \/ Caller

\* Every thread is scheduled, and matches end (MatchEnds of Mars).
Spec == /\ Init /\ [][Next]_vars
        /\ WF_vars(Caller)
        /\ \A t \in 1 .. MaxJobs : WF_vars(t \in Workers /\ Worker(t))

-----------------------------------------------------------------------------
\* Properties.

\* Between one thread and as many as asked for run, each playing a job of the
\* batch, idle or gone; what they hold and the result are scores of jobs.
TypeOK ==
  /\ jobs \in 0 .. MaxJobs
  /\ threads \in Nat \ {0}
  /\ next \in Nat
  /\ work \in [Workers -> Numbers \cup {idle, exited}]
  /\ done \in [Workers -> Seq(Numbers \X Scores)]
  /\ engine \in [Workers -> Nat]
  /\ joined \in 0 .. threads
  /\ scores \in [Numbers -> Scores]
  /\ steps \in Nat

\* Job k is with worker t: being played, or among the scores it holds.
Played(t, k) == \E i \in 1 .. Len(done[t]) : done[t][i][1] = k
Holds(t, k) == work[t] = k \/ Played(t, k)

\* No job is lost and none is played twice: every number the counter has
\* given out is with exactly one worker, once, and no other number is.
ClaimedOnce ==
  threads > 1 =>
    /\ \A k \in Numbers : k < next <=> \E t \in Workers : Holds(t, k)
    /\ \A t, u \in Workers : \A k \in Numbers : Holds(t, k) /\ Holds(u, k) => t = u
    /\ \A t \in Workers : \A i, j \in 1 .. Len(done[t]) :
         /\ i # j => done[t][i][1] # done[t][j][1]
         /\ done[t][i][1] # work[t]

Returned == joined = threads

ScoresOfAll == \A k \in Numbers : scores[k] = ScoreOf[k]
StepsOfAll  == steps = MapThenSumSet(LAMBDA k : StepsOf[k], Numbers)

\* pool.rs, "both the same as playing the jobs one after another": what
\* play_all returns is, job by job, the score that job has, and the
\* instructions of all jobs, although each engine counted a part of them,
\* however the threads ran.
SameAsSequential == Returned => ScoresOfAll /\ StepsOfAll

\* Every batch is played to its end.
Returns == <>Returned
=============================================================================
