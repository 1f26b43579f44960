----------------------------- MODULE PoolProofs -----------------------------
(***************************************************************************)
(* What play_all promises, for every number of jobs and of threads: no job *)
(* is lost or played twice, and the scores and the total of instructions   *)
(* are those of playing the jobs one after another.                        *)
(*                                                                         *)
(* ClaimedOnce alone is not inductive for the result: it must be known     *)
(* that a worker leaves only when the counter is past the last job, that   *)
(* the caller joins only workers that left, and that what a joined worker  *)
(* played is in the result with the right score.  The total needs more     *)
(* (Counted): each engine has counted the jobs its worker has played, and  *)
(* the total those of the workers joined.                                  *)
(*                                                                         *)
(* Then what cw tournament and cw versus make of a batch: the jobs are     *)
(* those of all matches, each at its number (Listed), and the loops over   *)
(* jobs and cells add up what the property adds up over rivals and seeds.  *)
(***************************************************************************)
EXTENDS Tables, CommonProofs

\* Each score a worker holds is that of its job.
HeldScoresRight ==
  \A t \in Workers : \A i \in 1 .. Len(done[t]) :
    done[t][i][2] = ScoreOf[done[t][i][1]]

\* Several workers: who has left saw the counter past the end, only those are
\* joined, and the joined workers' scores are in the result.
JoinedStored ==
  threads > 1 =>
    /\ \A t \in Workers : work[t] = exited => next >= jobs
    /\ \A t \in 1 .. joined : work[t] = exited
    /\ \A t \in 1 .. joined : \A k \in Numbers : Played(t, k) => scores[k] = ScoreOf[k]

\* One worker: the jobs before the iterator's place are in the result.
PlayedInOrder ==
  threads = 1 =>
    /\ next <= jobs
    /\ joined = 1 => next = jobs
    /\ \A k \in Numbers : k < next => scores[k] = ScoreOf[k]

IInv == TypeOK /\ ClaimedOnce /\ HeldScoresRight /\ JoinedStored /\ PlayedInOrder

-----------------------------------------------------------------------------
\* A clamped thread count is at least one, whatever was asked for.
LEMMA ClampedRange ==
  ASSUME NEW asked \in Nat, NEW n \in Nat
  PROVE  Clamped(asked, n) \in Nat \ {0}
BY DEF Clamped

\* The jobs an appended score adds to a worker's list: its own.
LEMMA AppendedJob ==
  ASSUME NEW S, NEW s \in Seq(S), NEW e \in S
  PROVE  /\ Append(s, e) \in Seq(S)
         /\ Len(Append(s, e)) = Len(s) + 1
         /\ \A i \in 1 .. Len(s) : Append(s, e)[i] = s[i]
         /\ Append(s, e)[Len(s) + 1] = e
  OBVIOUS

-----------------------------------------------------------------------------
\* Before anything is claimed the invariant holds.
LEMMA InitIInv == Init => IInv
<1> SUFFICES ASSUME Init PROVE IInv
  OBVIOUS
<1>1. PICK asked \in 0 .. MaxAsked : threads = Clamped(asked, jobs)
  BY DEF Init
<1>2. jobs \in 0 .. MaxJobs /\ jobs \in Nat /\ threads \in Nat \ {0}
  BY <1>1, ClampedRange, PoolAssumption DEF Init
<1>3. /\ next = 0 /\ joined = 0 /\ steps = 0
      /\ work = [t \in Workers |-> idle]
      /\ done = [t \in Workers |-> << >>]
      /\ engine = [t \in Workers |-> 0]
      /\ scores = [k \in Numbers |-> Default]
  BY DEF Init
<1>4. TypeOK
  BY <1>2, <1>3, PoolAssumption DEF TypeOK
<1>5. \A t \in Workers : \A k \in Numbers : ~Holds(t, k)
  BY <1>2, <1>3 DEF Holds, Played, Numbers, idle
<1>6. ClaimedOnce
  BY <1>2, <1>3, <1>5 DEF ClaimedOnce, Numbers
<1>7. HeldScoresRight
  BY <1>3 DEF HeldScoresRight
<1>8. JoinedStored
  BY <1>2, <1>3 DEF JoinedStored, idle, exited
<1>9. PlayedInOrder
  BY <1>2, <1>3 DEF PlayedInOrder, Numbers
<1> QED BY <1>4, <1>6, <1>7, <1>8, <1>9 DEF IInv

\* fetch_add gives a worker a number no worker has.
LEMMA ClaimIInv ==
  ASSUME IInv, NEW t \in Workers, Claim(t)
  PROVE  IInv'
<1>1. /\ threads > 1 /\ work[t] = idle /\ next' = next + 1
      /\ work' = [work EXCEPT ![t] = IF next < jobs THEN next ELSE exited]
      /\ UNCHANGED <<jobs, threads, done, engine, joined, scores, steps>>
  BY DEF Claim
<1>2. /\ jobs \in Nat /\ threads \in Nat /\ next \in Nat /\ joined \in 0 .. threads
      /\ work \in [Workers -> Numbers \cup {idle, exited}]
  BY PoolAssumption DEF IInv, TypeOK
<1>3. /\ Workers' = Workers /\ Numbers' = Numbers
      /\ next < jobs => next \in Numbers
  BY <1>1, <1>2 DEF Workers, Numbers
<1>4. TypeOK'
  BY <1>1, <1>2, <1>3 DEF IInv, TypeOK
<1>5. \A u \in Workers : \A k : Played(u, k)' <=> Played(u, k)
  BY <1>1 DEF Played
<1>6. \A u \in Workers : \A k \in Numbers :
        Holds(u, k)' <=> Holds(u, k) \/ (u = t /\ k = next)
  BY <1>1, <1>2, <1>3, <1>5 DEF Holds, Numbers, idle, exited
<1>7. \A u \in Workers : \A k \in Numbers : Holds(u, k) => k < next
  BY <1>1 DEF IInv, ClaimedOnce
<1>8. ClaimedOnce'
  <2>1. \A k \in Numbers : k < next' <=> \E u \in Workers : Holds(u, k)'
    BY <1>1, <1>2, <1>6 DEF IInv, ClaimedOnce, Numbers
  <2>2. \A u, v \in Workers : \A k \in Numbers : Holds(u, k)' /\ Holds(v, k)' => u = v
    BY <1>1, <1>2, <1>6, <1>7 DEF IInv, ClaimedOnce, Numbers
  <2>3. ASSUME NEW u \in Workers, NEW i \in 1 .. Len(done[u])
        PROVE  done[u][i][1] # work'[u]
    <3>1. done[u][i][1] \in Numbers /\ Played(u, done[u][i][1])
      BY DEF IInv, TypeOK, Played
    <3>2. done[u][i][1] < next /\ done[u][i][1] # exited
      BY <1>2, <1>7, <3>1 DEF Holds, Numbers, exited
    <3> QED BY <1>1, <1>2, <3>1, <3>2 DEF IInv, ClaimedOnce, Numbers
  <2> QED BY <1>1, <1>3, <2>1, <2>2, <2>3 DEF IInv, ClaimedOnce
<1>9. HeldScoresRight'
  BY <1>1, <1>3 DEF IInv, HeldScoresRight
<1>10. JoinedStored'
  <2>1. \A u \in 1 .. joined : u \in Workers /\ u # t
    BY <1>1, <1>2 DEF IInv, JoinedStored, Workers, idle, exited
  <2>2. \A u \in Workers : work'[u] = exited => next' >= jobs
    BY <1>1, <1>2 DEF IInv, JoinedStored, exited
  <2>3. \A u \in 1 .. joined : work'[u] = exited
    BY <1>1, <1>2, <2>1 DEF IInv, JoinedStored
  <2> QED BY <1>1, <1>3, <1>5, <2>1, <2>2, <2>3 DEF IInv, JoinedStored
<1>11. PlayedInOrder'
  BY <1>1, <1>2 DEF PlayedInOrder
<1> QED BY <1>4, <1>8, <1>9, <1>10, <1>11 DEF IInv

\* The score of a match goes to the list of the worker that played it.
LEMMA PlayIInv ==
  ASSUME IInv, NEW t \in Workers, Play(t)
  PROVE  IInv'
<1> DEFINE k0 == work[t]
           e  == <<k0, ScoreOf[k0]>>
           n  == Len(done[t])
<1>1. /\ k0 \in Numbers
      /\ done' = [done EXCEPT ![t] = Append(@, e)]
      /\ engine' = [engine EXCEPT ![t] = @ + StepsOf[k0]]
      /\ work' = [work EXCEPT ![t] = idle]
      /\ UNCHANGED <<jobs, threads, next, joined, scores, steps>>
  BY DEF Play
<1>2. /\ jobs \in 0 .. MaxJobs /\ threads \in Nat /\ next \in Nat
      /\ joined \in 0 .. threads /\ MaxJobs \in Nat
      /\ work \in [Workers -> Numbers \cup {idle, exited}]
      /\ done \in [Workers -> Seq(Numbers \X Scores)]
      /\ engine \in [Workers -> Nat]
  BY PoolAssumption DEF IInv, TypeOK
<1>3. /\ e \in Numbers \X Scores /\ StepsOf[k0] \in Nat
      /\ e[1] = k0 /\ e[2] = ScoreOf[k0]
  BY <1>1, <1>2, PoolAssumption DEF Numbers
<1>4. /\ done[t] \in Seq(Numbers \X Scores) /\ n \in Nat
      /\ done'[t] \in Seq(Numbers \X Scores)
      /\ Len(done'[t]) = n + 1
      /\ \A i \in 1 .. n : done'[t][i] = done[t][i]
      /\ done'[t][n + 1] = e
      /\ \A u \in Workers \ {t} : done'[u] = done[u]
  <2>1. done[t] \in Seq(Numbers \X Scores) /\ done'[t] = Append(done[t], e)
    BY <1>1, <1>2
  <2> QED BY <1>1, <1>2, <1>3, <2>1, AppendedJob
<1> HIDE DEF e, n
<1>5. Workers' = Workers /\ Numbers' = Numbers
  BY <1>1 DEF Workers, Numbers
<1>6. TypeOK'
  <2>1. done' \in [Workers -> Seq(Numbers \X Scores)]
    BY <1>1, <1>2, <1>4
  <2>2. engine' \in [Workers -> Nat]
    BY <1>1, <1>2, <1>3
  <2>3. work' \in [Workers -> Numbers \cup {idle, exited}]
    BY <1>1, <1>2
  <2> QED BY <1>1, <1>5, <2>1, <2>2, <2>3 DEF IInv, TypeOK
\* t has played k0 too; who holds what is as before.
<1>7. \A u \in Workers : \A k : Played(u, k)' <=> Played(u, k) \/ (u = t /\ k = k0)
  <2>1. ASSUME NEW k PROVE Played(t, k)' <=> Played(t, k) \/ k = k0
    <3>1. (\E i \in 1 .. n + 1 : done'[t][i][1] = k)
            <=> (\E i \in 1 .. n : done[t][i][1] = k) \/ k = k0
      <4>1. 1 .. n + 1 = (1 .. n) \cup {n + 1}
        BY <1>4
      <4>2. done'[t][n + 1][1] = k0
        BY <1>3, <1>4
      <4> QED BY <1>4, <4>1, <4>2
    <3> QED BY <1>4, <3>1 DEF Played, n
  <2>2. ASSUME NEW u \in Workers \ {t}, NEW k PROVE Played(u, k)' <=> Played(u, k)
    BY <1>4 DEF Played
  <2> QED BY <2>1, <2>2
<1>8. k0 # idle /\ k0 # exited
  BY <1>1, <1>2 DEF Numbers, idle, exited
<1>9. \A u \in Workers : \A k \in Numbers : Holds(u, k)' <=> Holds(u, k)
  <2>1. \A k \in Numbers : k # idle
    BY <1>2 DEF Numbers, idle
  <2> QED BY <1>1, <1>2, <1>7, <2>1 DEF Holds
<1>10. ClaimedOnce'
  <2> SUFFICES ASSUME threads > 1 PROVE ClaimedOnce'
    BY <1>1 DEF ClaimedOnce
  <2>1. \A k \in Numbers : k < next' <=> \E u \in Workers : Holds(u, k)'
    BY <1>1, <1>9 DEF IInv, ClaimedOnce
  <2>2. \A u, v \in Workers : \A k \in Numbers : Holds(u, k)' /\ Holds(v, k)' => u = v
    BY <1>9 DEF IInv, ClaimedOnce
  <2>3. ASSUME NEW i \in 1 .. n PROVE done[t][i][1] # k0 /\ done[t][i][1] \in Numbers
    BY <1>4, <2>3 DEF IInv, ClaimedOnce, n
  <2>4. ASSUME NEW u \in Workers, NEW i \in 1 .. Len(done'[u])
        PROVE  /\ done'[u][i][1] # work'[u]
               /\ \A j \in 1 .. Len(done'[u]) : i # j => done'[u][i][1] # done'[u][j][1]
    <3>1. CASE u # t
      BY <1>1, <1>2, <1>4, <3>1 DEF IInv, ClaimedOnce
    <3>2. CASE u = t
      <4>1. done'[t][i][1] \in Numbers
        BY <1>1, <1>3, <1>4, <2>3, <3>2
      <4>2. done'[t][i][1] # work'[t]
        <5>1. work'[t] = idle /\ idle \notin Numbers
          BY <1>1, <1>2 DEF Numbers, idle
        <5> QED BY <4>1, <5>1
      <4>3. ASSUME NEW j \in 1 .. n + 1, i # j
            PROVE  done'[t][i][1] # done'[t][j][1]
        <5>1. CASE i \in 1 .. n /\ j \in 1 .. n
          BY <1>4, <4>3, <5>1 DEF IInv, ClaimedOnce, n
        <5>2. CASE i = n + 1 /\ j \in 1 .. n
          BY <1>3, <1>4, <2>3, <5>2
        <5>3. CASE i \in 1 .. n /\ j = n + 1
          BY <1>3, <1>4, <2>3, <5>3
        <5> QED BY <1>4, <3>2, <4>3, <5>1, <5>2, <5>3
      <4> QED BY <1>4, <3>2, <4>2, <4>3
    <3> QED BY <3>1, <3>2
  <2> QED BY <1>5, <2>1, <2>2, <2>4 DEF ClaimedOnce
<1>11. HeldScoresRight'
  <2>1. ASSUME NEW u \in Workers, NEW i \in 1 .. Len(done'[u])
        PROVE  done'[u][i][2] = ScoreOf[done'[u][i][1]]
    BY <1>3, <1>4 DEF IInv, HeldScoresRight, n
  <2> QED BY <1>5, <2>1 DEF HeldScoresRight
<1>12. JoinedStored'
  <2> SUFFICES ASSUME threads > 1 PROVE JoinedStored'
    BY <1>1 DEF JoinedStored
  <2>1. \A u \in 1 .. joined : u \in Workers /\ u # t
    BY <1>2, <1>8 DEF IInv, JoinedStored, Workers
  <2> QED BY <1>1, <1>2, <1>5, <1>7, <2>1 DEF IInv, JoinedStored, idle, exited
<1>13. PlayedInOrder'
  BY <1>1, <1>5 DEF IInv, PlayedInOrder
<1> QED BY <1>6, <1>10, <1>11, <1>12, <1>13 DEF IInv

\* Joining a worker stores the score of every job it played, and no other.
LEMMA JoinIInv ==
  ASSUME IInv, NEW t \in Workers, Join(t)
  PROVE  IInv'
<1>1. /\ threads > 1 /\ joined = t - 1 /\ work[t] = exited
      /\ scores' = Stored(t) /\ steps' = steps + engine[t] /\ joined' = t
      /\ UNCHANGED <<jobs, threads, next, work, done, engine>>
  BY DEF Join, NextToJoin, Exited, Added
<1>2. /\ jobs \in 0 .. MaxJobs /\ threads \in Nat /\ joined \in 0 .. threads
      /\ t \in Nat /\ t \in 1 .. threads /\ steps \in Nat /\ engine[t] \in Nat
      /\ scores \in [Numbers -> Scores] /\ done[t] \in Seq(Numbers \X Scores)
  BY DEF IInv, TypeOK, Workers
<1>3. Workers' = Workers /\ Numbers' = Numbers
  BY <1>1 DEF Workers, Numbers
<1>4. ASSUME NEW k \in Numbers, Played(t, k)
      PROVE  scores'[k] = ScoreOf[k]
  <2> DEFINE i == CHOOSE i \in 1 .. Len(done[t]) : done[t][i][1] = k
  <2>1. i \in 1 .. Len(done[t]) /\ done[t][i][1] = k
    BY <1>4 DEF Played
  <2>2. scores'[k] = done[t][i][2]
    BY <1>1, <1>4 DEF Stored, Played
  <2> HIDE DEF i
  <2> QED BY <2>1, <2>2 DEF IInv, HeldScoresRight
<1>5. ASSUME NEW k \in Numbers, ~Played(t, k)
      PROVE  scores'[k] = scores[k]
  BY <1>1, <1>5 DEF Stored, Played
<1>6. scores' \in [Numbers -> Scores]
  <2>1. Stored(t) = [k \in Numbers |-> Stored(t)[k]]
    <3> DEFINE f(k) ==
          IF \E i \in 1 .. Len(done[t]) : done[t][i][1] = k
          THEN done[t][CHOOSE i \in 1 .. Len(done[t]) : done[t][i][1] = k][2]
          ELSE scores[k]
    <3>1. Stored(t) = [k \in Numbers |-> f(k)]
      BY DEF Stored
    <3> HIDE DEF f
    <3> QED BY <3>1
  <2>2. ASSUME NEW k \in Numbers PROVE Stored(t)[k] \in Scores
    <3>1. ScoreOf[k] \in Scores /\ scores[k] \in Scores
      BY <1>2, PoolAssumption DEF Numbers
    <3> QED BY <1>1, <1>4, <1>5, <3>1
  <2> QED BY <1>1, <2>1, <2>2
<1>7. TypeOK'
  BY <1>1, <1>2, <1>3, <1>6 DEF IInv, TypeOK
<1>8. \A u \in Workers : \A k : (Played(u, k)' <=> Played(u, k)) /\ (Holds(u, k)' <=> Holds(u, k))
  BY <1>1 DEF Played, Holds
<1>9. ClaimedOnce'
  BY <1>1, <1>3, <1>8 DEF IInv, ClaimedOnce
<1>10. HeldScoresRight'
  BY <1>1, <1>3 DEF IInv, HeldScoresRight
<1>11. JoinedStored'
  <2>1. \A u \in 1 .. joined' : u \in Workers /\ (u = t \/ u \in 1 .. joined)
    BY <1>1, <1>2 DEF Workers
  <2>2. ASSUME NEW u \in 1 .. joined', NEW k \in Numbers, Played(u, k)
        PROVE  scores'[k] = ScoreOf[k]
    BY <1>1, <1>4, <1>5, <2>1, <2>2 DEF IInv, JoinedStored
  <2>3. \A u \in 1 .. joined' : work'[u] = exited
    BY <1>1, <2>1 DEF IInv, JoinedStored
  <2> QED BY <1>1, <1>3, <1>8, <2>1, <2>2, <2>3 DEF IInv, JoinedStored
<1>12. PlayedInOrder'
  BY <1>1, <1>2 DEF PlayedInOrder
<1> QED BY <1>7, <1>9, <1>10, <1>11, <1>12 DEF IInv

\* A caller on its own plays the next job, or is through.
LEMMA AloneIInv ==
  ASSUME IInv, PlayAlone \/ ReturnAlone
  PROVE  IInv'
<1>1. /\ threads = 1 /\ UNCHANGED <<jobs, threads, work, done, engine>>
      /\ next \in Nat /\ jobs \in 0 .. MaxJobs /\ MaxJobs \in Nat
      /\ scores \in [Numbers -> Scores] /\ steps \in Nat
  BY PoolAssumption DEF IInv, TypeOK, PlayAlone, ReturnAlone
<1>2. Workers' = Workers /\ Numbers' = Numbers
  BY <1>1 DEF Workers, Numbers
<1>3. ASSUME PlayAlone
      PROVE  TypeOK' /\ PlayedInOrder'
  <2>1. /\ next \in Numbers /\ next' = next + 1 /\ joined' = joined
        /\ scores' = [scores EXCEPT ![next] = ScoreOf[next]]
        /\ steps' = steps + StepsOf[next]
    BY <1>1, <1>3 DEF PlayAlone, Numbers
  <2>2. ScoreOf[next] \in Scores /\ StepsOf[next] \in Nat
    BY <1>1, <2>1, PoolAssumption DEF Numbers
  <2>3. TypeOK'
    BY <1>1, <1>2, <2>1, <2>2 DEF IInv, TypeOK
  <2>4. PlayedInOrder'
    BY <1>1, <1>2, <1>3, <2>1 DEF IInv, PlayedInOrder, PlayAlone, Numbers
  <2> QED BY <2>3, <2>4
<1>4. ASSUME ReturnAlone
      PROVE  TypeOK' /\ PlayedInOrder'
  BY <1>1, <1>2, <1>4 DEF IInv, TypeOK, PlayedInOrder, ReturnAlone
<1>5. ClaimedOnce' /\ JoinedStored'
  BY <1>1 DEF ClaimedOnce, JoinedStored
<1>6. HeldScoresRight'
  BY <1>1, <1>2 DEF IInv, HeldScoresRight
<1> QED BY <1>3, <1>4, <1>5, <1>6 DEF IInv

\* Every step keeps it.
LEMMA InvariantStep ==
  ASSUME IInv, [Next]_vars
  PROVE  IInv'
<1>1. ASSUME NEW t \in Workers, Worker(t) PROVE IInv'
  BY <1>1, ClaimIInv, PlayIInv DEF Worker
<1>2. CASE Caller
  BY <1>2, JoinIInv, AloneIInv DEF Caller
<1>3. CASE UNCHANGED vars
  BY <1>3 DEF vars, IInv, TypeOK, ClaimedOnce, HeldScoresRight, JoinedStored,
     PlayedInOrder, Workers, Numbers, Holds, Played
<1> QED BY <1>1, <1>2, <1>3 DEF Next

\* The inductive invariant of play_all.
THEOREM Invariant == Spec => []IInv
BY InitIInv, InvariantStep, PTL DEF Spec

\* The counter, the workers' jobs and lists, the joined count and the result
\* keep the ranges play_all gives them, whatever the number of threads.
THEOREM PoolTyped == Spec => []TypeOK
BY Invariant, PTL DEF IInv

\* However many threads claim jobs, each number given out is one worker's
\* and is played once.
THEOREM JobsClaimedOnce == Spec => []ClaimedOnce
BY Invariant, PTL DEF IInv

\* The scores returned are those of the jobs.
LEMMA ScoresReturned ==
  ASSUME IInv, Returned
  PROVE  ScoresOfAll
<1>1. ASSUME NEW k \in Numbers PROVE scores[k] = ScoreOf[k]
  <2>1. threads \in Nat /\ threads >= 1 /\ jobs \in Nat /\ next \in Nat /\ joined = threads
    BY PoolAssumption DEF IInv, TypeOK, Returned
  <2>2. CASE threads = 1
    BY <2>1, <2>2 DEF IInv, PlayedInOrder, Numbers
  <2>3. CASE threads > 1
    <3>1. 1 \in Workers /\ \A t \in Workers : t \in 1 .. joined /\ work[t] = exited
      BY <2>1, <2>3 DEF IInv, JoinedStored, Workers
    <3>2. k < next
      BY <2>1, <2>3, <3>1 DEF IInv, JoinedStored, Numbers
    <3>3. PICK t \in Workers : Holds(t, k)
      BY <2>3, <3>2 DEF IInv, ClaimedOnce
    <3>4. Played(t, k)
      BY <2>1, <3>1, <3>3 DEF Holds, Numbers, exited
    <3> QED BY <2>3, <3>1, <3>4 DEF IInv, JoinedStored
  <2> QED BY <2>1, <2>2, <2>3
<1> QED BY <1>1 DEF ScoresOfAll

-----------------------------------------------------------------------------
\* The instructions.

\* Those of the jobs worker t has played, of the jobs played by a worker that
\* is joined, and of the jobs a single worker is through with.
OfWorker(t) == [k \in Numbers |-> IF Played(t, k) THEN StepsOf[k] ELSE 0]
OfJoined    == [k \in Numbers |-> IF \E u \in 1 .. joined : Played(u, k) THEN StepsOf[k] ELSE 0]
OfThrough   == [k \in Numbers |-> IF k < next THEN StepsOf[k] ELSE 0]

Counted ==
  /\ threads = 1 => SumsTo(Numbers, OfThrough, steps)
  /\ threads > 1 => /\ SumsTo(Numbers, OfJoined, steps)
                    /\ \A t \in Workers : SumsTo(Numbers, OfWorker(t), engine[t])

\* There are finitely many jobs, and what they take are numbers.
LEMMA AmountsOK ==
  ASSUME TypeOK
  PROVE  /\ IsFiniteSet(Numbers) /\ \A k \in Numbers : StepsOf[k] \in Nat
         /\ OfJoined \in [Numbers -> Int] /\ OfThrough \in [Numbers -> Int]
         /\ \A t : OfWorker(t) \in [Numbers -> Int]
<1>1. jobs \in 0 .. MaxJobs /\ MaxJobs \in Nat
  BY PoolAssumption DEF TypeOK
<1>2. IsFiniteSet(Numbers)
  BY <1>1, FS_Interval DEF Numbers
<1>3. \A k \in Numbers : StepsOf[k] \in Nat
  BY <1>1, PoolAssumption DEF Numbers
<1> QED BY <1>2, <1>3 DEF OfJoined, OfThrough, OfWorker

LEMMA InitCounted == Init => Counted
<1> SUFFICES ASSUME Init PROVE Counted
  OBVIOUS
<1>1. TypeOK
  BY InitIInv DEF IInv
<1>2. /\ next = 0 /\ joined = 0 /\ steps = 0 /\ \A t \in Workers : engine[t] = 0
      /\ \A t \in Workers : \A k : ~Played(t, k)
  BY DEF Init, Played
<1>3. \A k \in Numbers : ~(k < next)
  BY <1>1, <1>2 DEF TypeOK, Numbers
<1>4. \A k \in Numbers : ~\E u \in 1 .. joined : Played(u, k)
  BY <1>2
<1>5. SumsTo(Numbers, OfThrough, steps)
  BY <1>1, <1>2, <1>3, AmountsOK, SumToNone DEF OfThrough
<1>6. SumsTo(Numbers, OfJoined, steps)
  BY <1>1, <1>2, <1>4, AmountsOK, SumToNone DEF OfJoined
<1>7. ASSUME NEW t \in Workers PROVE SumsTo(Numbers, OfWorker(t), engine[t])
  BY <1>1, <1>2, AmountsOK, SumToNone DEF OfWorker
<1> QED BY <1>5, <1>6, <1>7 DEF Counted

\* A claim plays nothing.
LEMMA ClaimCounted ==
  ASSUME IInv, Counted, NEW t \in Workers, Claim(t)
  PROVE  Counted'
<1>1. /\ threads > 1 /\ UNCHANGED <<jobs, threads, done, engine, joined, steps>>
      /\ Workers' = Workers /\ Numbers' = Numbers
  BY DEF Claim, Workers, Numbers
<1>2. OfJoined' = OfJoined /\ \A u : OfWorker(u)' = OfWorker(u)
  BY <1>1 DEF OfJoined, OfWorker, Played
<1>3. ~(threads' = 1)
  BY <1>1
<1> QED BY <1>1, <1>2, <1>3 DEF Counted

\* A match adds its instructions to its worker's engine, once.
LEMMA PlayCounted ==
  ASSUME IInv, Counted, NEW t \in Workers, Play(t)
  PROVE  Counted'
<1> DEFINE k0 == work[t]
           e  == <<k0, ScoreOf[k0]>>
<1>1. /\ k0 \in Numbers
      /\ done' = [done EXCEPT ![t] = Append(@, e)]
      /\ engine' = [engine EXCEPT ![t] = @ + StepsOf[k0]]
      /\ UNCHANGED <<jobs, threads, next, joined, steps>>
      /\ Workers' = Workers /\ Numbers' = Numbers
  BY DEF Play, Workers, Numbers
<1>2. TypeOK /\ k0 # idle /\ k0 # exited
  BY <1>1 DEF IInv, TypeOK, Numbers, idle, exited
<1>3. done[t] \in Seq(Numbers \X Scores) /\ e \in Numbers \X Scores /\ e[1] = k0
  BY <1>1, <1>2, PoolAssumption DEF TypeOK, Numbers
<1>4. \A k : Played(t, k)' <=> Played(t, k) \/ k = k0
  <2> DEFINE n == Len(done[t])
  <2>1. /\ n \in Nat /\ Len(Append(done[t], e)) = n + 1
        /\ \A i \in 1 .. n : Append(done[t], e)[i] = done[t][i]
        /\ Append(done[t], e)[n + 1] = e
    BY <1>3, AppendedJob
  <2>2. done'[t] = Append(done[t], e)
    BY <1>1, <1>2 DEF TypeOK
  <2>3. 1 .. n + 1 = (1 .. n) \cup {n + 1}
    BY <2>1
  <2> HIDE DEF e
  <2> QED BY <1>3, <2>1, <2>2, <2>3 DEF Played
<1>5. \A u \in Workers \ {t} : done'[u] = done[u] /\ engine'[u] = engine[u]
  BY <1>1, <1>2 DEF TypeOK
<1>6. \A u \in Workers \ {t} : \A k : Played(u, k)' <=> Played(u, k)
  BY <1>5 DEF Played
<1>7. CASE threads = 1
  BY <1>1, <1>7 DEF Counted, OfThrough
<1>8. CASE threads > 1
  <2>1. OfJoined' = OfJoined
    <3>1. \A u \in 1 .. joined : u \in Workers \ {t}
      BY <1>2, <1>8 DEF IInv, JoinedStored, TypeOK, Workers
    <3> QED BY <1>1, <1>6, <3>1 DEF OfJoined
  <2>2. ASSUME NEW u \in Workers \ {t} PROVE SumsTo(Numbers, OfWorker(u)', engine'[u])
    <3>1. OfWorker(u)' = OfWorker(u)
      BY <1>1, <1>6 DEF OfWorker
    <3> QED BY <1>5, <1>8, <3>1 DEF Counted
  <2>3. SumsTo(Numbers, OfWorker(t)', engine'[t])
    <3>1. ~Played(t, k0)
      BY <1>8 DEF IInv, ClaimedOnce, Played
    <3>2. OfWorker(t)' = [k \in Numbers |-> IF Played(t, k) \/ k = k0 THEN StepsOf[k] ELSE 0]
      BY <1>1, <1>4 DEF OfWorker
    <3> DEFINE F == OfWorker(t)
               G == [k \in Numbers |-> IF Played(t, k) \/ k = k0 THEN StepsOf[k] ELSE 0]
    <3>3. StepsOf[k0] \in Int /\ IsFiniteSet(Numbers) /\ \A k \in Numbers : StepsOf[k] \in Nat
      BY <1>1, <1>2, AmountsOK
    <3>4. F \in [Numbers -> Int] /\ G \in [Numbers -> Int]
      BY <1>2, <3>3, AmountsOK
    <3>5. G[k0] = F[k0] + StepsOf[k0] /\ \A k \in Numbers \ {k0} : G[k] = F[k]
      BY <1>1, <3>1, <3>3 DEF OfWorker
    <3>6. SumsTo(Numbers, F, engine[t])
      BY <1>8 DEF Counted
    <3>7. engine'[t] = engine[t] + StepsOf[k0]
      BY <1>1, <1>2 DEF TypeOK
    <3> HIDE DEF F, G, k0
    <3>8. SumsTo(Numbers, G, engine[t] + StepsOf[k0])
      BY <1>1, <3>3, <3>4, <3>5, <3>6, SumRaised
    <3> QED BY <3>2, <3>7, <3>8 DEF G
  <2> QED BY <1>1, <1>8, <2>1, <2>2, <2>3 DEF Counted
<1> QED BY <1>2, <1>7, <1>8 DEF TypeOK

\* Joining a worker adds what its engine has counted, of jobs no other worker
\* has played.
LEMMA JoinCounted ==
  ASSUME IInv, Counted, NEW t \in Workers, Join(t)
  PROVE  Counted'
<1>1. /\ threads > 1 /\ joined = t - 1 /\ joined' = t /\ steps' = steps + engine[t]
      /\ UNCHANGED <<jobs, threads, next, done, engine>>
      /\ Workers' = Workers /\ Numbers' = Numbers
  BY DEF Join, NextToJoin, Added, Workers, Numbers
<1>2. TypeOK /\ t \in Nat /\ t >= 1 /\ threads \in Nat /\ t <= threads
  BY DEF IInv, TypeOK, Workers
<1>3. \A u : OfWorker(u)' = OfWorker(u)
  BY <1>1 DEF OfWorker, Played
<1>4. \A k \in Numbers : OfJoined'[k] = OfJoined[k] + OfWorker(t)[k]
  <2> TAKE k \in Numbers
  <2>1. \A u \in 1 .. joined' : u \in 1 .. joined \/ u = t
    BY <1>1, <1>2
  <2>2. 1 .. joined \subseteq 1 .. joined' /\ t \in 1 .. joined'
    BY <1>1, <1>2
  <2>3. \A u : Played(u, k)' <=> Played(u, k)
    BY <1>1 DEF Played
  <2>4. Played(t, k) => ~\E u \in 1 .. joined : Played(u, k)
    <3>1. \A u \in 1 .. joined : u \in Workers /\ u # t
      BY <1>1, <1>2 DEF Workers
    <3> QED BY <1>1, <3>1 DEF IInv, ClaimedOnce, Holds
  <2>5. (\E u \in 1 .. joined' : Played(u, k)') <=> Played(t, k) \/ \E u \in 1 .. joined : Played(u, k)
    BY <2>1, <2>2, <2>3
  <2>6. StepsOf[k] \in Nat
    BY <1>2, AmountsOK
  <2>7. OfJoined'[k] = IF Played(t, k) \/ \E u \in 1 .. joined : Played(u, k) THEN StepsOf[k] ELSE 0
    BY <1>1, <2>5 DEF OfJoined
  <2> QED BY <2>4, <2>6, <2>7 DEF OfJoined, OfWorker
<1>5. SumsTo(Numbers, OfJoined, steps) /\ SumsTo(Numbers, OfWorker(t), engine[t])
  BY <1>1 DEF Counted
<1>6. SumsTo(Numbers, OfJoined', steps + engine[t])
  BY <1>2, <1>4, <1>5, AmountsOK, SumAdds
<1>7. ~(threads' = 1)
  BY <1>1
<1> QED BY <1>1, <1>3, <1>6, <1>7 DEF Counted

\* One thread counts in the order it plays.
LEMMA AloneCounted ==
  ASSUME IInv, Counted, PlayAlone \/ ReturnAlone
  PROVE  Counted'
<1>1. threads = 1 /\ threads' = 1 /\ ~(threads' > 1) /\ Numbers' = Numbers
  BY DEF PlayAlone, ReturnAlone, Numbers
<1>2. CASE ReturnAlone
  BY <1>1, <1>2 DEF ReturnAlone, Counted, OfThrough
<1>3. CASE PlayAlone
  <2>1. next \in Numbers /\ next \in Nat /\ next' = next + 1 /\ steps' = steps + StepsOf[next]
    BY <1>3 DEF PlayAlone, IInv, TypeOK, Numbers
  <2> DEFINE F == OfThrough
             G == [k \in Numbers |-> IF k < next + 1 THEN StepsOf[k] ELSE 0]
  <2>2. OfThrough' = G
    BY <1>1, <2>1 DEF OfThrough
  <2>3. /\ IsFiniteSet(Numbers) /\ \A k \in Numbers : StepsOf[k] \in Nat
        /\ F \in [Numbers -> Int] /\ G \in [Numbers -> Int]
    BY AmountsOK DEF IInv
  <2>4. \A k \in Numbers : k \in Int
    BY DEF Numbers
  <2>5. G[next] = F[next] + StepsOf[next] /\ \A k \in Numbers \ {next} : G[k] = F[k]
    BY <2>1, <2>3, <2>4 DEF OfThrough
  <2>6. SumsTo(Numbers, F, steps) /\ StepsOf[next] \in Int
    BY <1>1, <2>1, <2>3 DEF Counted
  <2> HIDE DEF F, G
  <2>7. SumsTo(Numbers, G, steps + StepsOf[next])
    BY <2>1, <2>3, <2>5, <2>6, SumRaised
  <2> QED BY <1>1, <2>1, <2>2, <2>7 DEF Counted
<1> QED BY <1>2, <1>3

\* What the property compares the total with is a sum of the same kind.
LEMMA AllSum ==
  ASSUME TypeOK, NEW F \in [Numbers -> Int], \A k \in Numbers : F[k] = StepsOf[k]
  PROVE  SumsTo(Numbers, F, MapThenSumSet(LAMBDA k : StepsOf[k], Numbers))
<1>1. IsFiniteSet(Numbers)
  BY AmountsOK
<1>2. PICK g \in [SUBSET Numbers -> Int] : IsSum(g, Numbers, F)
  BY <1>1, SumExists
<1> DEFINE U == Numbers
           Is(it) == it = [s \in SUBSET U |->
                            IF s = {} THEN 0 ELSE StepsOf[OneOf(s)] + it[s \ {OneOf(s)}]]
           iter == CHOOSE it : Is(it)
           v == MapThenSumSet(LAMBDA k : StepsOf[k], Numbers)
<1>3. \A s \in SUBSET U : s # {} => OneOf(s) \in U /\ s \ {OneOf(s)} \in SUBSET U
  BY <1>1, WithoutOne
<1>4. Is(g)
  <2> DEFINE h == [s \in SUBSET U |-> IF s = {} THEN 0 ELSE StepsOf[OneOf(s)] + g[s \ {OneOf(s)}]]
  <2>1. ASSUME NEW s \in SUBSET U PROVE g[s] = h[s]
    <3>1. s # {} => F[OneOf(s)] \in Int /\ F[OneOf(s)] = StepsOf[OneOf(s)] /\ g[s \ {OneOf(s)}] \in Int
      BY <1>3
    <3>2. g[s] = IF s = {} THEN 0 ELSE g[s \ {OneOf(s)}] + F[OneOf(s)]
      BY <1>2 DEF IsSum
    <3> QED BY <3>1, <3>2
  <2> QED BY <2>1
<1>5. Is(iter)
  <2> HIDE DEF Is
  <2> QED BY <1>4
<1>6. v = iter[U]
  BY DEF MapThenSumSet, MapThenFoldSet, OneOf
<1> HIDE DEF iter, v
<1>7. \A s \in SUBSET U : iter[s] = IF s = {} THEN 0 ELSE F[OneOf(s)] + iter[s \ {OneOf(s)}]
  BY <1>3, <1>5
<1> HIDE DEF U, Is
<1>8. F \in [U -> Int] /\ IsFiniteSet(U)
  BY <1>1 DEF U
<1>9. SumsTo(U, F, iter[U])
  BY <1>7, <1>8, SumFolded
<1> QED BY <1>6, <1>9 DEF U, v

\* pool.rs, "both the same as playing the jobs one after another": the scores
\* and the total of instructions are those of the jobs, whatever the number of
\* threads and the order in which they ran.
THEOREM PoolIsSequential == Spec => []SameAsSequential
<1>1. Counted /\ IInv /\ [Next]_vars => Counted'
  <2> SUFFICES ASSUME Counted, IInv, [Next]_vars PROVE Counted'
    OBVIOUS
  <2>1. ASSUME NEW t \in Workers, Worker(t) PROVE Counted'
    BY <2>1, ClaimCounted, PlayCounted DEF Worker
  <2>2. CASE Caller
    BY <2>2, JoinCounted, AloneCounted DEF Caller
  <2>3. CASE UNCHANGED vars
    BY <2>3 DEF vars, Counted, OfThrough, OfJoined, OfWorker, Workers, Numbers, Played
  <2> QED BY <2>1, <2>2, <2>3 DEF Next
<1>2. IInv /\ Counted => SameAsSequential
  <2> SUFFICES ASSUME IInv, Counted, Returned
               PROVE  steps = MapThenSumSet(LAMBDA k : StepsOf[k], Numbers)
    BY ScoresReturned DEF SameAsSequential, StepsOfAll
  <2>1. /\ TypeOK /\ threads \in Nat /\ threads >= 1 /\ jobs \in Nat /\ next \in Nat
        /\ joined = threads /\ IsFiniteSet(Numbers)
    BY PoolAssumption, AmountsOK DEF IInv, TypeOK, Returned
  <2>2. \E F \in [Numbers -> Int] : SumsTo(Numbers, F, steps) /\ \A k \in Numbers : F[k] = StepsOf[k]
    <3>1. CASE threads = 1
      <4>1. \A k \in Numbers : k < next
        BY <2>1, <3>1 DEF IInv, PlayedInOrder, Numbers
      <4> QED BY <2>1, <3>1, <4>1, AmountsOK DEF Counted, OfThrough
    <3>2. CASE threads > 1
      <4>1. \A t \in Workers : t \in 1 .. joined /\ work[t] = exited
        BY <2>1, <3>2 DEF IInv, JoinedStored, Workers
      <4>2. ASSUME NEW k \in Numbers PROVE \E u \in 1 .. joined : Played(u, k)
        <5>1. 1 \in Workers
          BY <2>1 DEF Workers
        <5>2. k < next
          BY <2>1, <3>2, <4>1, <5>1 DEF IInv, JoinedStored, Numbers
        <5>3. PICK u \in Workers : Holds(u, k)
          BY <3>2, <5>2 DEF IInv, ClaimedOnce
        <5>4. work[u] # k
          BY <2>1, <4>1 DEF Numbers, exited
        <5> QED BY <4>1, <5>3, <5>4 DEF Holds
      <4> QED BY <2>1, <3>2, <4>2, AmountsOK DEF Counted, OfJoined
    <3> QED BY <2>1, <3>1, <3>2
  <2>3. PICK F \in [Numbers -> Int] : SumsTo(Numbers, F, steps) /\ \A k \in Numbers : F[k] = StepsOf[k]
    BY <2>2
  <2> DEFINE v == MapThenSumSet(LAMBDA k : StepsOf[k], Numbers)
  <2>4. SumsTo(Numbers, F, v)
    BY <2>1, <2>3, AllSum
  <2> HIDE DEF v
  <2>5. steps = v
    BY <2>1, <2>3, <2>4, SumIsOne
  <2> QED BY <2>5 DEF v
<1> QED BY <1>1, <1>2, InitCounted, Invariant, PTL DEF Spec

-----------------------------------------------------------------------------
\* The sides of a command line.

\* What loading one more file makes of a side.
LoadedBy(files, accepted) ==
  [q \in (1 .. Len(files)) \X Seq(Nat) |->
     IF files[q[1]] \in accepted THEN Append(q[2], files[q[1]]) ELSE q[2]]

\* The files are loaded one after another.
LEMMA LoadedHistory ==
  ASSUME NEW files \in Seq(Nat), NEW accepted
  PROVE  HasHistory(Len(files), Seq(Nat), << >>, LoadedBy(files, accepted), Loaded(files, accepted))
<1> DEFINE n == Len(files)
           V == Seq(Nat)
           v0 == << >>
           F == LoadedBy(files, accepted)
           Step(k, v) == IF files[k] \in accepted THEN Append(v, files[k]) ELSE v
<1>1. n \in Nat /\ v0 \in V /\ DOMAIN files = 1 .. n
  OBVIOUS
<1>2. ASSUME NEW k \in 1 .. n, NEW v \in V PROVE Step(k, v) \in V
  OBVIOUS
<1>3. \A k \in 1 .. n : \A v \in V : F[<<k, v>>] = Step(k, v)
  BY DEF LoadedBy
<1>4. F \in [(1 .. n) \X V -> V]
  BY <1>2 DEF LoadedBy
<1> HIDE DEF n, V, v0, F
<1>5. PICK g \in [SUBSET (1 .. n) -> V] : IsFold(g, n, v0, F)
  BY <1>1, <1>4, FoldExists
<1> DEFINE Is(it) == it = [s \in SUBSET (1 .. n) |->
                            IF s = {} THEN v0 ELSE IF files[Max(s)] \in accepted THEN Append(it[s \ {Max(s)}], files[Max(s)]) ELSE it[s \ {Max(s)}]]
           iter == CHOOSE it : Is(it)
<1>6. Is(g)
  <2>1. ASSUME NEW s \in SUBSET (1 .. n), s # {}
        PROVE  g[s] = IF files[Max(s)] \in accepted THEN Append(g[s \ {Max(s)}], files[Max(s)]) ELSE g[s \ {Max(s)}]
    <3> DEFINE x == Max(s)
    <3>1. x \in 1 .. n
      BY <1>1, <2>1, MaxIn
    <3> HIDE DEF x
    <3>2. s \ {x} \in SUBSET (1 .. n) /\ g[s \ {x}] \in V
      OBVIOUS
    <3>3. g[s] = F[<<x, g[s \ {x}]>>]
      BY <1>5, <2>1 DEF x, IsFold
    <3>4. g[s] = Step(x, g[s \ {x}])
      <4> HIDE DEF Step
      <4> QED BY <1>3, <3>1, <3>2, <3>3
    <3> QED BY <3>4 DEF x
  <2>2. g[{}] = v0
    BY <1>5 DEF IsFold
  <2> QED BY <2>1, <2>2
<1>7. Is(iter)
  <2> HIDE DEF Is
  <2> QED BY <1>6
<1>8. Loaded(files, accepted) = iter[1 .. n]
  BY <1>1 DEF Loaded, FoldLeft, MapThenFoldSet, v0
<1> HIDE DEF iter
<1>9. HasHistory(n, V, v0, F, iter[1 .. n])
  <2>1. iter[{}] = v0
    BY <1>7
  <2>2. ASSUME NEW s \in SUBSET (1 .. n), s # {}, iter[s \ {Max(s)}] \in V
        PROVE  iter[s] = F[<<Max(s), iter[s \ {Max(s)}]>>]
    <3>1. Max(s) \in 1 .. n
      BY <1>1, <2>2, MaxIn
    <3>2. iter[s] = Step(Max(s), iter[s \ {Max(s)}])
      BY <1>7, <2>2
    <3> HIDE DEF Step
    <3> QED BY <1>3, <2>2, <3>1, <3>2
  <2>3. FoldsIn(V, iter, n, F)
    BY <2>2 DEF FoldsIn
  <2> QED BY <1>1, <1>4, <2>1, <2>3, FoldSteps
<1> QED BY <1>8, <1>9 DEF n, V, v0, F

\* A side is a list of sources.
LEMMA LoadedOK ==
  ASSUME NEW files \in Seq(Nat), NEW accepted
  PROVE  Loaded(files, accepted) \in Seq(Nat)
<1> DEFINE n == Len(files)
<1>1. n \in Nat /\ n \in 0 .. n
  OBVIOUS
<1> HIDE DEF n
<1>2. HasHistory(n, Seq(Nat), << >>, LoadedBy(files, accepted), Loaded(files, accepted))
  BY LoadedHistory DEF n
<1> QED BY <1>1, <1>2 DEF HasHistory

\* The numbers of a directory are in a list.
LEMMA SortedOK ==
  ASSUME NEW S \in SUBSET Nat, IsFiniteSet(S)
  PROVE  Sorted(S) \in Seq(Nat)
<1> DEFINE R == {p \in S \X S : p[1] < p[2]}
<1>0. Orders(R, S)
  <2>1. ASSUME NEW x \in S, NEW y \in S PROVE <<x, y>> \in R <=> x < y
    OBVIOUS
  <2> HIDE DEF R
  <2>2. S \subseteq Nat
    OBVIOUS
  <2> QED BY <2>1, <2>2 DEF Orders
<1> HIDE DEF R
<1>1. PICK list \in [1 .. Cardinality(S) -> S] :
        ToSet(list) = S /\ \A m, n \in DOMAIN list : m < n => list[m] < list[n]
  <2>1. PICK list : Lists(list, S, R)
    BY <1>0, ListExists
  <2>2. ASSUME NEW m \in DOMAIN list, NEW n \in DOMAIN list, m < n PROVE list[m] < list[n]
    BY <2>1, <2>2 DEF Lists, R
  <2> QED BY <2>1, <2>2 DEF Lists
<1>2. Sorted(S) \in [1 .. Cardinality(S) -> S]
  BY <1>1 DEF Sorted
<1>3. Cardinality(S) \in Nat
  BY FS_CardinalityType
<1> DEFINE n == Cardinality(S)
           l == Sorted(S)
<1> HIDE DEF n, l
<1>4. n \in Nat /\ l \in [1 .. n -> Nat]
  BY <1>2, <1>3 DEF n, l
<1>5. l \in Seq(Nat)
  BY <1>4
<1> QED BY <1>5 DEF l

\* What expanding one more path adds.
ExpandedBy(paths) ==
  [q \in (1 .. Len(paths)) \X Seq(Nat) |->
     q[2] \o (IF paths[q[1]].dir THEN Sorted(paths[q[1]].files) ELSE <<paths[q[1]].file>>)]

\* Directories are expanded one after another.
LEMMA ExpandHistory ==
  ASSUME NEW paths \in Seq(Path), \A p \in ToSet(paths) : p.dir => IsFiniteSet(p.files)
  PROVE  HasHistory(Len(paths), Seq(Nat), << >>, ExpandedBy(paths), expand(paths))
<1> DEFINE n == Len(paths)
           V == Seq(Nat)
           v0 == << >>
           F == ExpandedBy(paths)
           Step(k, v) == v \o (IF paths[k].dir THEN Sorted(paths[k].files) ELSE <<paths[k].file>>)
<1>1. n \in Nat /\ v0 \in V /\ DOMAIN paths = 1 .. n
  OBVIOUS
<1>2. ASSUME NEW k \in 1 .. n, NEW v \in V PROVE Step(k, v) \in V
  <2>1. paths[k] \in Path /\ paths[k] \in ToSet(paths)
    BY DEF ToSet
  <2>2. CASE paths[k].dir
    <3>1. paths[k].files \in SUBSET Nat /\ IsFiniteSet(paths[k].files)
      BY <2>1, <2>2 DEF Path
    <3>2. Sorted(paths[k].files) \in Seq(Nat)
      BY <3>1, SortedOK
    <3> QED BY <2>2, <3>2
  <2>3. CASE ~paths[k].dir
    <3>1. paths[k].file \in Nat
      BY <2>1, <2>3 DEF Path
    <3> QED BY <2>3, <3>1
  <2> QED BY <2>2, <2>3
<1>3. \A k \in 1 .. n : \A v \in V : F[<<k, v>>] = Step(k, v)
  BY DEF ExpandedBy
<1>4. F \in [(1 .. n) \X V -> V]
  BY <1>2 DEF ExpandedBy
<1> HIDE DEF n, V, v0, F
<1>5. PICK g \in [SUBSET (1 .. n) -> V] : IsFold(g, n, v0, F)
  BY <1>1, <1>4, FoldExists
<1> DEFINE Is(it) == it = [s \in SUBSET (1 .. n) |->
                            IF s = {} THEN v0 ELSE it[s \ {Max(s)}] \o (IF paths[Max(s)].dir THEN Sorted(paths[Max(s)].files) ELSE <<paths[Max(s)].file>>)]
           iter == CHOOSE it : Is(it)
<1>6. Is(g)
  <2>1. ASSUME NEW s \in SUBSET (1 .. n), s # {}
        PROVE  g[s] = g[s \ {Max(s)}] \o (IF paths[Max(s)].dir THEN Sorted(paths[Max(s)].files) ELSE <<paths[Max(s)].file>>)
    <3> DEFINE x == Max(s)
    <3>1. x \in 1 .. n
      BY <1>1, <2>1, MaxIn
    <3> HIDE DEF x
    <3>2. s \ {x} \in SUBSET (1 .. n) /\ g[s \ {x}] \in V
      OBVIOUS
    <3>3. g[s] = F[<<x, g[s \ {x}]>>]
      BY <1>5, <2>1 DEF x, IsFold
    <3>4. g[s] = Step(x, g[s \ {x}])
      <4> HIDE DEF Step
      <4> QED BY <1>3, <3>1, <3>2, <3>3
    <3> QED BY <3>4 DEF x
  <2>2. g[{}] = v0
    BY <1>5 DEF IsFold
  <2> QED BY <2>1, <2>2
<1>7. Is(iter)
  <2> HIDE DEF Is
  <2> QED BY <1>6
<1>8. expand(paths) = iter[1 .. n]
  BY <1>1 DEF expand, FoldLeft, MapThenFoldSet, v0
<1> HIDE DEF iter
<1>9. HasHistory(n, V, v0, F, iter[1 .. n])
  <2>1. iter[{}] = v0
    BY <1>7
  <2>2. ASSUME NEW s \in SUBSET (1 .. n), s # {}, iter[s \ {Max(s)}] \in V
        PROVE  iter[s] = F[<<Max(s), iter[s \ {Max(s)}]>>]
    <3>1. Max(s) \in 1 .. n
      BY <1>1, <2>2, MaxIn
    <3>2. iter[s] = Step(Max(s), iter[s \ {Max(s)}])
      BY <1>7, <2>2
    <3> HIDE DEF Step
    <3> QED BY <1>3, <2>2, <3>1, <3>2
  <2>3. FoldsIn(V, iter, n, F)
    BY <2>2 DEF FoldsIn
  <2> QED BY <1>1, <1>4, <2>1, <2>3, FoldSteps
<1> QED BY <1>8, <1>9 DEF n, V, v0, F

\* What is expanded is a list of sources.
LEMMA ExpandOK ==
  ASSUME NEW paths \in Seq(Path), \A p \in ToSet(paths) : p.dir => IsFiniteSet(p.files)
  PROVE  expand(paths) \in Seq(Nat)
<1> DEFINE n == Len(paths)
<1>1. n \in Nat /\ n \in 0 .. n
  OBVIOUS
<1> HIDE DEF n
<1>2. HasHistory(n, Seq(Nat), << >>, ExpandedBy(paths), expand(paths))
  BY ExpandHistory DEF n
<1> QED BY <1>1, <1>2 DEF HasHistory

\* Both sides of a command line are; those of a tournament are one.
LEMMA SidesOK ==
  ASSUME NEW b \in Batches
  PROVE  /\ Left(b) \in Seq(Nat) /\ Right(b) \in Seq(Nat)
         /\ Tournament(b) => Left(b) = Right(b)
         /\ ~Tournament(b) => b.seeds \in Seq(Nat) /\ b.points \in [win: Int, tie: Int, loss: Int]
<1>1. IsCommand(b)
  BY TablesAssumption
<1>2. CASE Tournament(b)
  BY <1>1, <1>2 DEF Tournament, IsCommand, Left, Right
<1>3. CASE ~Tournament(b)
  <2>1. /\ b.files \in Seq(Path) /\ b.against \in Seq(Path) /\ b.members \in Seq(Nat)
        /\ b.seeds \in Seq(Nat) /\ b.points \in [win: Int, tie: Int, loss: Int]
        /\ \A p \in ToSet(b.files \o b.against) : p.dir => IsFiniteSet(p.files)
    BY <1>1, <1>3 DEF Tournament, IsCommand
  <2>2. /\ \A p \in ToSet(b.files) : p.dir => IsFiniteSet(p.files)
        /\ \A p \in ToSet(b.against) : p.dir => IsFiniteSet(p.files)
    <3> DEFINE f == b.files
               a == b.against
               z == f \o a
               P == Path
    <3>1. f \in Seq(P) /\ a \in Seq(P)
      BY <2>1
    <3> HIDE DEF f, a, P
    <3>2. /\ \A k \in DOMAIN f : k \in DOMAIN z /\ z[k] = f[k]
          /\ \A k \in DOMAIN a : Len(f) + k \in DOMAIN z /\ z[Len(f) + k] = a[k]
      BY <3>1
    <3> HIDE DEF z
    <3>3. ToSet(f) \subseteq ToSet(z) /\ ToSet(a) \subseteq ToSet(z)
      BY <3>2 DEF ToSet
    <3> QED BY <2>1, <3>3 DEF f, a, z
  <2>3. expand(b.files) \in Seq(Nat) /\ expand(b.against) \in Seq(Nat)
    BY <2>1, <2>2, ExpandOK
  <2>4. b.members \o expand(b.against) \in Seq(Nat)
    BY <2>1, <2>3
  <2> QED BY <1>3, <2>1, <2>3, <2>4, LoadedOK DEF Left, Right
<1> QED BY <1>2, <1>3

-----------------------------------------------------------------------------
\* The jobs of a command line.

\* The seeds of a match.
SeedCount(b) == IF Tournament(b) THEN 1 ELSE Len(b.seeds)
\* Who plays a job, and its seed; and the places on either side.
Key == Nat \X Nat \X Nat
Lefts(b)  == 1 .. Len(Left(b))
Rights(b) == 1 .. Len(Right(b))

\* The job of a match on its s-th seed, counted from 1.
Job(b, m, s) == Cardinality(Before(b, m[1], m[2])) * SeedCount(b) + s

\* The jobs K are those of the matches D, each on all its seeds.
Listed(b, K, D) ==
  /\ K \in Seq(Key)
  /\ Len(K) = Cardinality(D) * SeedCount(b)
  /\ \A m \in D : \A s \in 1 .. SeedCount(b) :
       /\ Job(b, m, s) \in 1 .. Len(K)
       /\ K[Job(b, m, s)] = <<m[1], m[2], Seeds(b, Cardinality(Before(b, m[1], m[2])) * SeedCount(b))[s]>>
  /\ \A k \in 1 .. Len(K) : \E m \in D : \E s \in 1 .. SeedCount(b) : k = Job(b, m, s)

\* The sides have places 1, 2, ... and each match its seeds.
LEMMA RangesOK ==
  ASSUME NEW b \in Batches
  PROVE  /\ Len(Left(b)) \in Nat /\ DOMAIN Left(b) = Lefts(b)
         /\ Len(Right(b)) \in Nat /\ DOMAIN Right(b) = Rights(b)
         /\ SeedCount(b) \in Nat
         /\ \A k \in Nat : /\ Seeds(b, k) \in Seq(Nat) /\ Len(Seeds(b, k)) = SeedCount(b)
                           /\ DOMAIN Seeds(b, k) = 1 .. SeedCount(b)
<1>1. Left(b) \in Seq(Nat) /\ Right(b) \in Seq(Nat)
  BY SidesOK
<1>2. CASE Tournament(b)
  <2>1. \A k \in Nat : (k * 997) % Positions \in Nat
    BY TablesAssumption
  <2> QED BY <1>1, <1>2, <2>1 DEF SeedCount, Seeds, Lefts, Rights
<1>3. CASE ~Tournament(b)
  <2>1. b.seeds \in Seq(Nat)
    BY <1>3, SidesOK
  <2> QED BY <1>1, <1>3, <2>1 DEF SeedCount, Seeds, Lefts, Rights
<1> QED BY <1>2, <1>3

\* The matches before the next are those before this one, and this one if
\* it is played.
LEMMA BeforeSteps ==
  ASSUME NEW b \in Batches
  PROVE  /\ \A i, j \in Nat : IsFiniteSet(Before(b, i, j)) /\ Cardinality(Before(b, i, j)) \in Nat
         /\ \A i \in Lefts(b) : \A j \in Rights(b) :
              /\ <<i, j>> \notin Before(b, i, j)
              /\ Before(b, i, j + 1) = Before(b, i, j) \cup (IF Opposed(b, i, j) THEN {<<i, j>>} ELSE {})
         /\ \A i \in Lefts(b) : Before(b, i, Len(Right(b)) + 1) = Before(b, i + 1, 1)
         /\ Before(b, 1, 1) = {}
<1> DEFINE n1 == Len(Left(b))
           n2 == Len(Right(b))
           M  == (1 .. n1) \X (1 .. n2)
           Plays(m) == Opposed(b, m[1], m[2])
           Early(i, j) == {m \in M : (m[1] < i \/ (m[1] = i /\ m[2] < j)) /\ Plays(m)}
<1>1. n1 \in Nat /\ n2 \in Nat /\ DOMAIN Left(b) = 1 .. n1 /\ DOMAIN Right(b) = 1 .. n2
  BY RangesOK DEF Lefts, Rights
<1>2. \A i, j \in Nat : Before(b, i, j) = Early(i, j)
  BY <1>1 DEF Before, Opposed
<1>3. Lefts(b) = 1 .. n1 /\ Rights(b) = 1 .. n2
  BY DEF Lefts, Rights
<1> HIDE DEF n1, n2, Plays
<1>4. IsFiniteSet(M)
  <2>1. IsFiniteSet(1 .. n1) /\ IsFiniteSet(1 .. n2)
    BY <1>1, FS_Interval
  <2> QED BY <2>1, FS_Product
<1>5. ASSUME NEW i \in Nat, NEW j \in Nat
      PROVE  IsFiniteSet(Early(i, j)) /\ Cardinality(Early(i, j)) \in Nat
  <2>1. IsFiniteSet(Early(i, j))
    BY <1>4, FS_Subset
  <2> QED BY <2>1, FS_CardinalityType
<1>6. ASSUME NEW i \in 1 .. n1, NEW j \in 1 .. n2
      PROVE  /\ i \in Nat /\ j \in Nat /\ j + 1 \in Nat
             /\ <<i, j>> \notin Early(i, j)
             /\ Early(i, j + 1) = Early(i, j) \cup (IF Plays(<<i, j>>) THEN {<<i, j>>} ELSE {})
  <2>1. i \in Nat /\ j \in Nat /\ j + 1 \in Nat
    BY <1>1
  <2>2. <<i, j>> \in M /\ <<i, j>>[1] = i /\ <<i, j>>[2] = j
    OBVIOUS
  <2>3. ASSUME NEW m \in M
        PROVE  (m[1] < i \/ (m[1] = i /\ m[2] < j + 1))
                 <=> (m[1] < i \/ (m[1] = i /\ m[2] < j)) \/ m = <<i, j>>
    BY <1>1
  <2> HIDE DEF M
  <2>4. \A m \in M : m \in Early(i, j + 1) <=> m \in Early(i, j) \/ (m = <<i, j>> /\ Plays(<<i, j>>))
    BY <2>2, <2>3
  <2>5. <<i, j>> \notin Early(i, j)
    BY <2>1, <2>2
  <2> QED BY <2>1, <2>2, <2>4, <2>5
<1>7. ASSUME NEW i \in 1 .. n1
      PROVE  i + 1 \in Nat /\ i \in Nat /\ n2 + 1 \in Nat /\ Early(i, n2 + 1) = Early(i + 1, 1)
  BY <1>1
<1>8. Early(1, 1) = {}
  BY <1>1
<1>9. \A i, j : Plays(<<i, j>>) <=> Opposed(b, i, j)
  BY DEF Plays
<1> HIDE DEF Early
<1>10. \A i \in 1 .. n1 : \A j \in 1 .. n2 :
         /\ <<i, j>> \notin Before(b, i, j)
         /\ Before(b, i, j + 1) = Before(b, i, j) \cup (IF Opposed(b, i, j) THEN {<<i, j>>} ELSE {})
  <2> SUFFICES ASSUME NEW i \in 1 .. n1, NEW j \in 1 .. n2
               PROVE  /\ <<i, j>> \notin Before(b, i, j)
                      /\ Before(b, i, j + 1) = Before(b, i, j) \cup (IF Opposed(b, i, j) THEN {<<i, j>>} ELSE {})
    OBVIOUS
  <2>1. Before(b, i, j) = Early(i, j) /\ Before(b, i, j + 1) = Early(i, j + 1)
    BY <1>2, <1>6
  <2> QED BY <1>6, <1>9, <2>1
<1>11. ASSUME NEW i \in 1 .. n1 PROVE Before(b, i, n2 + 1) = Before(b, i + 1, 1)
  <2>1. 1 \in Nat
    OBVIOUS
  <2> QED BY <1>2, <1>7, <2>1
<1>12. Before(b, 1, 1) = {}
  <2>1. 1 \in Nat
    OBVIOUS
  <2> QED BY <1>2, <1>8, <2>1
<1>13. \A i, j \in Nat : IsFiniteSet(Before(b, i, j)) /\ Cardinality(Before(b, i, j)) \in Nat
  BY <1>2, <1>5
<1> QED BY <1>3, <1>10, <1>11, <1>12, <1>13 DEF n2

\* Nothing is listed before the first match.
LEMMA ListedFirst ==
  ASSUME NEW b \in Batches
  PROVE  Listed(b, << >>, Before(b, 1, 1))
<1>1. Before(b, 1, 1) = {} /\ SeedCount(b) \in Nat /\ Cardinality({}) = 0
  BY BeforeSteps, RangesOK, FS_EmptySet
<1> DEFINE P == Key
           e == << >>
<1>2. e \in Seq(P) /\ Len(e) = 0 /\ 1 .. Len(e) = {}
  OBVIOUS
<1>3. 0 = 0 * SeedCount(b)
  BY <1>1
<1> HIDE DEF P, e
<1>4. Listed(b, e, {})
  BY <1>1, <1>2, <1>3 DEF Listed, P
<1> QED BY <1>1, <1>4 DEF e

\* A match is listed after those before it.
LEMMA ListedStep ==
  ASSUME NEW b \in Batches, NEW i \in Lefts(b), NEW j \in Rights(b), NEW K,
         Listed(b, K, Before(b, i, j))
  PROVE  Listed(b, WithMatch(b, K, i, j), Before(b, i, j + 1))
<1> DEFINE D == Before(b, i, j)
           E == Before(b, i, j + 1)
           L == SeedCount(b)
           c == Cardinality(D)
           N == Len(K)
           seeds == Seeds(b, N)
           more == [s \in DOMAIN seeds |-> <<i, j, seeds[s]>>]
           Z == K \o more
<1>1. /\ i \in Nat /\ j \in Nat /\ j + 1 \in Nat /\ L \in Nat
      /\ IsFiniteSet(D) /\ c \in Nat /\ <<i, j>> \notin D
      /\ E = D \cup (IF Opposed(b, i, j) THEN {<<i, j>>} ELSE {})
  <2>1. i \in Nat /\ j \in Nat /\ j + 1 \in Nat
    BY RangesOK DEF Lefts, Rights
  <2> QED BY <2>1, RangesOK, BeforeSteps
<1>2. K \in Seq(Key) /\ N \in Nat /\ N = c * L
  BY DEF Listed
<1>3. CASE ~Opposed(b, i, j)
  <2>1. E = D /\ WithMatch(b, K, i, j) = K
    BY <1>1, <1>3 DEF WithMatch
  <2> QED BY <2>1
<1>4. CASE Opposed(b, i, j)
  <2>1. WithMatch(b, K, i, j) = Z
    BY <1>4 DEF WithMatch
  <2>2. E = D \cup {<<i, j>>} /\ Cardinality(E) = c + 1
    BY <1>1, <1>4, FS_AddElement
  <2>3. seeds \in Seq(Nat) /\ Len(seeds) = L /\ DOMAIN seeds = 1 .. L
    BY <1>2, RangesOK
  <2>4. more \in Seq(Key) /\ Len(more) = L /\ \A s \in 1 .. L : more[s] = <<i, j, seeds[s]>>
    <3>1. \A s \in 1 .. L : <<i, j, seeds[s]>> \in Key
      BY <1>1, <2>3 DEF Key
    <3> DEFINE P == Key
    <3> HIDE DEF P, seeds, L
    <3>2. more \in [1 .. L -> P] /\ \A s \in 1 .. L : more[s] = <<i, j, seeds[s]>>
      BY <2>3, <3>1 DEF P
    <3> HIDE DEF more
    <3>3. more \in Seq(P) /\ Len(more) = L
      BY <1>1, <3>2
    <3> QED BY <3>2, <3>3 DEF P
  <2>5. (c + 1) * L = c * L + L
    BY <1>1
  <2> DEFINE P == Key
  <2> HIDE DEF more, P
  <2>6. /\ Z \in Seq(P) /\ Len(Z) = N + L
        /\ \A k \in 1 .. N : Z[k] = K[k]
        /\ \A s \in 1 .. L : Z[N + s] = more[s]
    <3>1. K \in Seq(P) /\ more \in Seq(P) /\ Len(more) = L /\ Len(K) = N
      BY <1>2, <2>4 DEF P
    <3> HIDE DEF L, N
    <3> QED BY <3>1
  <2> HIDE DEF Z, seeds
  <2>7. \A s : Job(b, <<i, j>>, s) = N + s
    BY <1>2 DEF Job
  <2>8. ASSUME NEW m \in E, NEW s \in 1 .. L
        PROVE  /\ Job(b, m, s) \in 1 .. Len(Z)
               /\ Z[Job(b, m, s)] = <<m[1], m[2], Seeds(b, Cardinality(Before(b, m[1], m[2])) * L)[s]>>
    <3>1. CASE m \in D
      <4>1. /\ Job(b, m, s) \in 1 .. N
            /\ K[Job(b, m, s)] = <<m[1], m[2], Seeds(b, Cardinality(Before(b, m[1], m[2])) * L)[s]>>
        BY <3>1 DEF Listed
      <4> QED BY <1>1, <1>2, <2>6, <4>1
    <3>2. CASE m = <<i, j>>
      <4>1. m[1] = i /\ m[2] = j /\ Job(b, m, s) = N + s /\ N + s \in 1 .. (N + L)
        BY <1>1, <1>2, <2>7, <3>2
      <4>2. Seeds(b, Cardinality(Before(b, m[1], m[2])) * L) = seeds
        BY <1>2, <4>1 DEF seeds
      <4> QED BY <2>4, <2>6, <4>1, <4>2
    <3> QED BY <2>2, <3>1, <3>2
  <2>9. ASSUME NEW k \in 1 .. Len(Z)
        PROVE  \E m \in E : \E s \in 1 .. L : k = Job(b, m, s)
    <3>1. CASE k <= N
      <4>1. k \in 1 .. N
        BY <1>1, <1>2, <2>6, <3>1
      <4>2. \E m \in D : \E s \in 1 .. L : k = Job(b, m, s)
        BY <4>1 DEF Listed
      <4> QED BY <2>2, <4>2
    <3>2. CASE k > N
      <4>1. k - N \in 1 .. L /\ k = N + (k - N)
        BY <1>1, <1>2, <2>6, <3>2
      <4>2. k = Job(b, <<i, j>>, k - N) /\ <<i, j>> \in E
        BY <2>2, <2>7, <4>1
      <4> QED BY <4>1, <4>2
    <3> QED BY <1>2, <2>6, <3>1, <3>2
  <2>10. Len(Z) = Cardinality(E) * L
    BY <1>2, <2>2, <2>5, <2>6
  <2>11. Listed(b, Z, E)
    BY <2>6, <2>8, <2>9, <2>10 DEF Listed, P
  <2> QED BY <2>1, <2>11
<1> QED BY <1>3, <1>4

\* With a match the jobs are jobs.
LEMMA WithMatchOK ==
  ASSUME NEW b \in Batches, NEW i \in Lefts(b), NEW j \in Rights(b), NEW K \in Seq(Key)
  PROVE  WithMatch(b, K, i, j) \in Seq(Key)
<1> DEFINE L == SeedCount(b)
           seeds == Seeds(b, Len(K))
           more == [s \in DOMAIN seeds |-> <<i, j, seeds[s]>>]
           P == Key
<1>1. i \in Nat /\ j \in Nat /\ L \in Nat
  BY RangesOK DEF Lefts, Rights
<1>2. seeds \in Seq(Nat) /\ DOMAIN seeds = 1 .. L
  BY RangesOK
<1>3. \A s \in 1 .. L : <<i, j, seeds[s]>> \in P
  BY <1>1, <1>2 DEF Key
<1>4. WithMatch(b, K, i, j) = IF Opposed(b, i, j) THEN K \o more ELSE K
  BY DEF WithMatch
<1> HIDE DEF P, seeds, L
<1>5. more \in [1 .. L -> P]
  BY <1>2, <1>3
<1> HIDE DEF more
<1>6. more \in Seq(P) /\ K \in Seq(P)
  BY <1>1, <1>5 DEF P
<1> QED BY <1>4, <1>6 DEF P

\* What meeting one more opponent makes of the jobs.
MatchedBy(b, i) ==
  [q \in (1 .. Len(Right(b))) \X Seq(Key) |-> WithMatch(b, q[2], i, q[1])]

\* A warrior meets one opponent after another.
LEMMA MatchesHistory ==
  ASSUME NEW b \in Batches, NEW i \in Lefts(b), NEW K \in Seq(Key)
  PROVE  HasHistory(Len(Right(b)), Seq(Key), K, MatchedBy(b, i), WithMatches(b, K, i))
<1> DEFINE n == Len(Right(b))
           V == Seq(Key)
           v0 == K
           F == MatchedBy(b, i)
           Step(k, v) == WithMatch(b, v, i, [j \in DOMAIN Right(b) |-> j][k])
<1>1. n \in Nat /\ v0 \in V /\ DOMAIN [j \in DOMAIN Right(b) |-> j] = 1 .. n /\ DOMAIN Right(b) = 1 .. n
  BY RangesOK DEF Rights
<1>2. ASSUME NEW k \in 1 .. n, NEW v \in V PROVE Step(k, v) \in V
  <2>1. k \in Rights(b) /\ [j \in DOMAIN Right(b) |-> j][k] = k
    BY <1>1 DEF Rights
  <2> QED BY <2>1, WithMatchOK
<1>3. \A k \in 1 .. n : \A v \in V : F[<<k, v>>] = Step(k, v)
  BY <1>1 DEF MatchedBy
<1>4. F \in [(1 .. n) \X V -> V]
  BY <1>1, <1>2 DEF MatchedBy
<1> HIDE DEF n, V, v0, F
<1>5. PICK g \in [SUBSET (1 .. n) -> V] : IsFold(g, n, v0, F)
  BY <1>1, <1>4, FoldExists
<1> DEFINE Is(it) == it = [s \in SUBSET (1 .. n) |->
                            IF s = {} THEN v0 ELSE WithMatch(b, it[s \ {Max(s)}], i, [j \in DOMAIN Right(b) |-> j][Max(s)])]
           iter == CHOOSE it : Is(it)
<1>6. Is(g)
  <2>1. ASSUME NEW s \in SUBSET (1 .. n), s # {}
        PROVE  g[s] = WithMatch(b, g[s \ {Max(s)}], i, [j \in DOMAIN Right(b) |-> j][Max(s)])
    <3> DEFINE x == Max(s)
    <3>1. x \in 1 .. n
      BY <1>1, <2>1, MaxIn
    <3> HIDE DEF x
    <3>2. s \ {x} \in SUBSET (1 .. n) /\ g[s \ {x}] \in V
      OBVIOUS
    <3>3. g[s] = F[<<x, g[s \ {x}]>>]
      BY <1>5, <2>1 DEF x, IsFold
    <3>4. g[s] = Step(x, g[s \ {x}])
      <4> HIDE DEF Step
      <4> QED BY <1>3, <3>1, <3>2, <3>3
    <3> QED BY <3>4 DEF x
  <2>2. g[{}] = v0
    BY <1>5 DEF IsFold
  <2> QED BY <2>1, <2>2
<1>7. Is(iter)
  <2> HIDE DEF Is
  <2> QED BY <1>6
<1>8. WithMatches(b, K, i) = iter[1 .. n]
  BY <1>1 DEF WithMatches, FoldLeft, MapThenFoldSet, v0
<1> HIDE DEF iter
<1>9. HasHistory(n, V, v0, F, iter[1 .. n])
  <2>1. iter[{}] = v0
    BY <1>7
  <2>2. ASSUME NEW s \in SUBSET (1 .. n), s # {}, iter[s \ {Max(s)}] \in V
        PROVE  iter[s] = F[<<Max(s), iter[s \ {Max(s)}]>>]
    <3>1. Max(s) \in 1 .. n
      BY <1>1, <2>2, MaxIn
    <3>2. iter[s] = Step(Max(s), iter[s \ {Max(s)}])
      BY <1>7, <2>2
    <3> HIDE DEF Step
    <3> QED BY <1>3, <2>2, <3>1, <3>2
  <2>3. FoldsIn(V, iter, n, F)
    BY <2>2 DEF FoldsIn
  <2> QED BY <1>1, <1>4, <2>1, <2>3, FoldSteps
<1> QED BY <1>8, <1>9 DEF n, V, v0, F

\* After a warrior has met its opponents all its matches are listed.
LEMMA MatchesListed ==
  ASSUME NEW b \in Batches, NEW i \in Lefts(b), NEW K, Listed(b, K, Before(b, i, 1))
  PROVE  Listed(b, WithMatches(b, K, i), Before(b, i + 1, 1))
<1> DEFINE n == Len(Right(b))
           end == WithMatches(b, K, i)
<1>1. K \in Seq(Key) /\ n \in Nat /\ Rights(b) = 1 .. n
  BY RangesOK DEF Listed, Rights
<1>2. HasHistory(n, Seq(Key), K, MatchedBy(b, i), end)
  BY <1>1, MatchesHistory
<1> HIDE DEF end
<1>3. PICK hist \in [0 .. n -> Seq(Key)] :
        /\ hist[0] = K /\ hist[n] = end
        /\ \A j \in 1 .. n : hist[j] = MatchedBy(b, i)[<<j, hist[j - 1]>>]
  BY <1>2 DEF HasHistory
<1> DEFINE Good(j) == Listed(b, hist[j], Before(b, i, j + 1))
           T == {j \in Nat : j <= n => Good(j)}
<1>4. 0 \in T
  BY <1>3
<1>5. ASSUME NEW j \in Nat, j \in T PROVE j + 1 \in T
  <2> SUFFICES ASSUME j + 1 <= n PROVE Good(j + 1)
    OBVIOUS
  <2>1. /\ j + 1 \in 1 .. n /\ (j + 1) - 1 = j /\ j \in 0 .. n /\ hist[j] \in Seq(Key)
        /\ j + 1 \in Rights(b) /\ Listed(b, hist[j], Before(b, i, j + 1))
    BY <1>1, <1>5
  <2>2. hist[j + 1] = WithMatch(b, hist[j], i, j + 1)
    BY <1>3, <2>1 DEF MatchedBy
  <2>3. Listed(b, WithMatch(b, hist[j], i, j + 1), Before(b, i, (j + 1) + 1))
    BY <2>1, ListedStep
  <2> QED BY <2>2, <2>3
<1>6. n \in T
  <2> HIDE DEF T
  <2> QED BY <1>1, <1>4, <1>5, AllNaturals
<1>7. Listed(b, end, Before(b, i, n + 1))
  BY <1>1, <1>3, <1>6
<1>8. Before(b, i, n + 1) = Before(b, i + 1, 1)
  BY BeforeSteps
<1> QED BY <1>7, <1>8 DEF end

\* Of any jobs it makes jobs.
LEMMA MatchesOK ==
  ASSUME NEW b \in Batches, NEW i \in Lefts(b), NEW K \in Seq(Key)
  PROVE  WithMatches(b, K, i) \in Seq(Key)
<1> DEFINE n == Len(Right(b))
<1>1. n \in Nat /\ n \in 0 .. n
  BY RangesOK
<1> HIDE DEF n
<1>2. HasHistory(n, Seq(Key), K, MatchedBy(b, i), WithMatches(b, K, i))
  BY MatchesHistory DEF n
<1> QED BY <1>1, <1>2 DEF HasHistory

\* What one more warrior makes of the jobs.
KeyedBy(b) ==
  [q \in (1 .. Len(Left(b))) \X Seq(Key) |-> WithMatches(b, q[2], q[1])]

\* One warrior after another meets its opponents.
LEMMA KeysHistory ==
  ASSUME NEW b \in Batches
  PROVE  HasHistory(Len(Left(b)), Seq(Key), << >>, KeyedBy(b), Keys(b))
<1> DEFINE n == Len(Left(b))
           V == Seq(Key)
           v0 == << >>
           F == KeyedBy(b)
           Step(k, v) == WithMatches(b, v, [i \in DOMAIN Left(b) |-> i][k])
<1>1. n \in Nat /\ v0 \in V /\ DOMAIN [i \in DOMAIN Left(b) |-> i] = 1 .. n /\ DOMAIN Left(b) = 1 .. n
  BY RangesOK DEF Lefts
<1>2. ASSUME NEW k \in 1 .. n, NEW v \in V PROVE Step(k, v) \in V
  <2>1. k \in Lefts(b) /\ [i \in DOMAIN Left(b) |-> i][k] = k
    BY <1>1 DEF Lefts
  <2> QED BY <2>1, MatchesOK
<1>3. \A k \in 1 .. n : \A v \in V : F[<<k, v>>] = Step(k, v)
  BY <1>1 DEF KeyedBy
<1>4. F \in [(1 .. n) \X V -> V]
  BY <1>1, <1>2 DEF KeyedBy
<1> HIDE DEF n, V, v0, F
<1>5. PICK g \in [SUBSET (1 .. n) -> V] : IsFold(g, n, v0, F)
  BY <1>1, <1>4, FoldExists
<1> DEFINE Is(it) == it = [s \in SUBSET (1 .. n) |->
                            IF s = {} THEN v0 ELSE WithMatches(b, it[s \ {Max(s)}], [i \in DOMAIN Left(b) |-> i][Max(s)])]
           iter == CHOOSE it : Is(it)
<1>6. Is(g)
  <2>1. ASSUME NEW s \in SUBSET (1 .. n), s # {}
        PROVE  g[s] = WithMatches(b, g[s \ {Max(s)}], [i \in DOMAIN Left(b) |-> i][Max(s)])
    <3> DEFINE x == Max(s)
    <3>1. x \in 1 .. n
      BY <1>1, <2>1, MaxIn
    <3> HIDE DEF x
    <3>2. s \ {x} \in SUBSET (1 .. n) /\ g[s \ {x}] \in V
      OBVIOUS
    <3>3. g[s] = F[<<x, g[s \ {x}]>>]
      BY <1>5, <2>1 DEF x, IsFold
    <3>4. g[s] = Step(x, g[s \ {x}])
      <4> HIDE DEF Step
      <4> QED BY <1>3, <3>1, <3>2, <3>3
    <3> QED BY <3>4 DEF x
  <2>2. g[{}] = v0
    BY <1>5 DEF IsFold
  <2> QED BY <2>1, <2>2
<1>7. Is(iter)
  <2> HIDE DEF Is
  <2> QED BY <1>6
<1>8. Keys(b) = iter[1 .. n]
  BY <1>1 DEF Keys, FoldLeft, MapThenFoldSet, v0
<1> HIDE DEF iter
<1>9. HasHistory(n, V, v0, F, iter[1 .. n])
  <2>1. iter[{}] = v0
    BY <1>7
  <2>2. ASSUME NEW s \in SUBSET (1 .. n), s # {}, iter[s \ {Max(s)}] \in V
        PROVE  iter[s] = F[<<Max(s), iter[s \ {Max(s)}]>>]
    <3>1. Max(s) \in 1 .. n
      BY <1>1, <2>2, MaxIn
    <3>2. iter[s] = Step(Max(s), iter[s \ {Max(s)}])
      BY <1>7, <2>2
    <3> HIDE DEF Step
    <3> QED BY <1>3, <2>2, <3>1, <3>2
  <2>3. FoldsIn(V, iter, n, F)
    BY <2>2 DEF FoldsIn
  <2> QED BY <1>1, <1>4, <2>1, <2>3, FoldSteps
<1> QED BY <1>8, <1>9 DEF n, V, v0, F

\* All the matches.
Matches(b) == {m \in Lefts(b) \X Rights(b) : Opposed(b, m[1], m[2])}

\* The jobs of a command line are those of all its matches.
LEMMA KeysListed ==
  ASSUME NEW b \in Batches
  PROVE  Listed(b, Keys(b), Matches(b))
<1> DEFINE n == Len(Left(b))
           end == Keys(b)
<1>1. n \in Nat /\ Lefts(b) = 1 .. n
  BY RangesOK DEF Lefts
<1>2. HasHistory(n, Seq(Key), << >>, KeyedBy(b), end)
  BY KeysHistory
<1> HIDE DEF end
<1>3. PICK hist \in [0 .. n -> Seq(Key)] :
        /\ hist[0] = << >> /\ hist[n] = end
        /\ \A i \in 1 .. n : hist[i] = KeyedBy(b)[<<i, hist[i - 1]>>]
  BY <1>2 DEF HasHistory
<1> DEFINE Good(i) == Listed(b, hist[i], Before(b, i + 1, 1))
           T == {i \in Nat : i <= n => Good(i)}
<1>4. 0 \in T
  BY <1>3, ListedFirst
<1>5. ASSUME NEW i \in Nat, i \in T PROVE i + 1 \in T
  <2> SUFFICES ASSUME i + 1 <= n PROVE Good(i + 1)
    OBVIOUS
  <2>1. /\ i + 1 \in 1 .. n /\ (i + 1) - 1 = i /\ i \in 0 .. n /\ hist[i] \in Seq(Key)
        /\ i + 1 \in Lefts(b) /\ Listed(b, hist[i], Before(b, i + 1, 1))
    BY <1>1, <1>5
  <2>2. hist[i + 1] = WithMatches(b, hist[i], i + 1)
    BY <1>3, <2>1 DEF KeyedBy
  <2>3. Listed(b, WithMatches(b, hist[i], i + 1), Before(b, (i + 1) + 1, 1))
    BY <2>1, MatchesListed
  <2> QED BY <2>2, <2>3
<1>6. n \in T
  <2> HIDE DEF T
  <2> QED BY <1>1, <1>4, <1>5, AllNaturals
<1>7. Listed(b, end, Before(b, n + 1, 1))
  BY <1>1, <1>3, <1>6
<1>8. Before(b, n + 1, 1) = Matches(b)
  <2>1. DOMAIN Left(b) = 1 .. n /\ DOMAIN Right(b) = Rights(b)
    BY RangesOK DEF Lefts
  <2>2. Before(b, n + 1, 1) = {m \in (1 .. n) \X Rights(b) :
          (m[1] < n + 1 \/ (m[1] = n + 1 /\ m[2] < 1)) /\ Opposed(b, m[1], m[2])}
    BY <2>1 DEF Before, Opposed
  <2>3. \A m \in (1 .. n) \X Rights(b) : m[1] < n + 1
    BY <1>1
  <2> QED BY <1>1, <2>2, <2>3 DEF Matches
<1> QED BY <1>7, <1>8 DEF end

\* Two matches, or two seeds of one, are not one job.
LEMMA JobsApart ==
  ASSUME NEW b \in Batches, NEW m \in Matches(b), NEW p \in Matches(b),
         NEW s \in 1 .. SeedCount(b), NEW t \in 1 .. SeedCount(b), Job(b, m, s) = Job(b, p, t)
  PROVE  m = p /\ s = t
<1> DEFINE K == Keys(b)
           L == SeedCount(b)
           Shown(q, u) == Seeds(b, Cardinality(Before(b, q[1], q[2])) * L)[u]
<1>1. Listed(b, K, Matches(b))
  BY KeysListed
<1> HIDE DEF K
<1>2. K[Job(b, m, s)] = <<m[1], m[2], Shown(m, s)>> /\ K[Job(b, p, t)] = <<p[1], p[2], Shown(p, t)>>
  BY <1>1 DEF Listed
<1> HIDE DEF Shown
<1>3. m[1] = p[1] /\ m[2] = p[2]
  BY <1>2
<1>4. m \in Lefts(b) \X Rights(b) /\ p \in Lefts(b) \X Rights(b)
  BY DEF Matches
<1>5. m = p
  BY <1>3, <1>4
<1>6. m[1] \in Nat /\ m[2] \in Nat /\ L \in Nat
  <2>1. L \in Nat
    BY RangesOK
  <2> HIDE DEF L
  <2> QED BY <1>4, <2>1 DEF Lefts, Rights
<1> DEFINE c == Cardinality(Before(b, m[1], m[2]))
<1>7. c \in Nat
  BY <1>6, BeforeSteps
<1>8. c * L \in Nat /\ Job(b, m, s) = c * L + s /\ Job(b, p, t) = c * L + t
  BY <1>5, <1>6, <1>7 DEF Job
<1> DEFINE d == c * L
<1> HIDE DEF d, c, L
<1>9. s \in Int /\ t \in Int
  BY <1>6 DEF L
<1> QED BY <1>5, <1>8, <1>9 DEF d

-----------------------------------------------------------------------------
\* The scores of a batch that is played.

\* A batch that has been played: its scores are those of its jobs.
AllPlayed ==
  /\ TypeOK /\ ScoresOfAll
  /\ batch \in Batches /\ keys = Keys(batch) /\ jobs = Len(keys)

\* What cells and totals are, and what points are given.
Records == [wins: Nat, ties: Nat, losses: Nat]
PointsFor == [win: Int, tie: Int, loss: Int]

\* What a score is worth for the first warrior.
Value(s, p) == s.w1 * p.win + s.ties * p.tie + s.w2 * p.loss

\* The jobs of a batch that has been played are of its matches, and have scores.
LEMMA KeysOK ==
  ASSUME AllPlayed
  PROVE  /\ Len(keys) \in Nat /\ DOMAIN keys = 1 .. Len(keys) /\ IsFiniteSet(1 .. Len(keys))
         /\ \A k \in 1 .. Len(keys) :
              /\ keys[k] \in Key /\ \E m \in Matches(batch) : keys[k][1] = m[1] /\ keys[k][2] = m[2]
              /\ k - 1 \in Numbers
              /\ scores[k - 1] \in [w1: Nat, w2: Nat, ties: Nat]
<1>1. Listed(batch, keys, Matches(batch))
  BY KeysListed DEF AllPlayed
<1> DEFINE K == keys
           P == Key
<1>2. K \in Seq(P)
  BY <1>1 DEF Listed
<1>3. Len(K) \in Nat /\ DOMAIN K = 1 .. Len(K) /\ \A k \in 1 .. Len(K) : K[k] \in P
  <2> HIDE DEF K, P
  <2> QED BY <1>2
<1>4. ASSUME NEW k \in 1 .. Len(keys)
      PROVE  \E m \in Matches(batch) : keys[k][1] = m[1] /\ keys[k][2] = m[2]
  <2>1. PICK m \in Matches(batch), s \in 1 .. SeedCount(batch) : k = Job(batch, m, s)
    BY <1>1 DEF Listed
  <2>2. keys[Job(batch, m, s)]
          = <<m[1], m[2], Seeds(batch, Cardinality(Before(batch, m[1], m[2])) * SeedCount(batch))[s]>>
    BY <1>1 DEF Listed
  <2> QED BY <2>1, <2>2
<1>5. ASSUME NEW k \in 1 .. Len(keys)
      PROVE  k - 1 \in Numbers /\ scores[k - 1] \in [w1: Nat, w2: Nat, ties: Nat]
  <2>1. k - 1 \in Numbers
    BY <1>3 DEF AllPlayed, Numbers
  <2>2. scores[k - 1] \in Scores
    BY <2>1 DEF AllPlayed, TypeOK
  <2> QED BY <2>1, <2>2, TablesAssumption
<1>6. IsFiniteSet(1 .. Len(keys))
  BY <1>3, FS_Interval
<1> QED BY <1>3, <1>4, <1>5, <1>6

\* The job of a match has its warriors and, as the property counts it, its score.
LEMMA JobOK ==
  ASSUME AllPlayed, NEW m \in Matches(batch), NEW s \in 1 .. SeedCount(batch)
  PROVE  /\ Job(batch, m, s) \in 1 .. Len(keys)
         /\ keys[Job(batch, m, s)][1] = m[1] /\ keys[Job(batch, m, s)][2] = m[2]
         /\ MatchOf(batch, m[1], m[2], s) = Job(batch, m, s) - 1
         /\ ScoreOf[MatchOf(batch, m[1], m[2], s)] = scores[Job(batch, m, s) - 1]
<1>1. Listed(batch, keys, Matches(batch)) /\ batch \in Batches
  BY KeysListed DEF AllPlayed
<1> DEFINE c == Cardinality(Before(batch, m[1], m[2]))
           J == Job(batch, m, s)
<1>2. J \in 1 .. Len(keys) /\ keys[J] = <<m[1], m[2], Seeds(batch, c * SeedCount(batch))[s]>>
  BY <1>1 DEF Listed
<1>3. c \in Nat
  <2>1. m[1] \in Nat /\ m[2] \in Nat
    BY DEF Matches, Lefts, Rights
  <2> QED BY <1>1, <2>1, BeforeSteps
<1>4. MatchOf(batch, m[1], m[2], s) = J - 1
  <2>1. CASE Tournament(batch)
    <3>1. SeedCount(batch) = 1 /\ s = 1 /\ MatchOf(batch, m[1], m[2], s) = c
      BY <2>1 DEF SeedCount, MatchOf
    <3>2. J = c * 1 + 1
      BY <3>1 DEF Job
    <3> QED BY <1>3, <3>1, <3>2
  <2>2. CASE ~Tournament(batch)
    <3> DEFINE L == SeedCount(batch)
    <3>1. L \in Nat
      BY <1>1, RangesOK
    <3>2. /\ MatchOf(batch, m[1], m[2], s) = c * L + s - 1
          /\ J = c * L + s
      BY <2>2 DEF SeedCount, MatchOf, Job
    <3> HIDE DEF L
    <3>3. c * L \in Nat /\ s \in Int
      BY <1>3, <3>1 DEF L
    <3> DEFINE d == c * L
    <3> HIDE DEF d, c
    <3> QED BY <3>2, <3>3 DEF d
  <2> QED BY <2>1, <2>2
<1> HIDE DEF J
<1>5. J - 1 \in Numbers
  BY <1>2, KeysOK
<1>6. ScoreOf[J - 1] = scores[J - 1]
  BY <1>5 DEF AllPlayed, ScoresOfAll
<1> QED BY <1>2, <1>4, <1>6 DEF J

\* What records are worth adds up.
LEMMA PointsAdd ==
  ASSUME NEW t \in Records, NEW u \in Records, NEW p \in PointsFor, NEW s \in [w1: Nat, w2: Nat, ties: Nat]
  PROVE  /\ Points(t, p) \in Int /\ Value(s, p) \in Int
         /\ WithScore(t, s) \in Records /\ Together(t, u) \in Records
         /\ Points(WithScore(t, s), p) = Points(t, p) + Value(s, p)
         /\ Points(Together(t, u), p) = Points(t, p) + Points(u, p)
<1>1. /\ t.wins \in Nat /\ t.ties \in Nat /\ t.losses \in Nat
      /\ u.wins \in Nat /\ u.ties \in Nat /\ u.losses \in Nat
      /\ s.w1 \in Nat /\ s.ties \in Nat /\ s.w2 \in Nat
      /\ p.win \in Int /\ p.tie \in Int /\ p.loss \in Int
  BY DEF Records, PointsFor
<1>2. \A x, y, z \in Int : (x + y) * z = x * z + y * z /\ x * z \in Int
  OBVIOUS
<1>3. /\ (t.wins + s.w1) * p.win = t.wins * p.win + s.w1 * p.win
      /\ (t.ties + s.ties) * p.tie = t.ties * p.tie + s.ties * p.tie
      /\ (t.losses + s.w2) * p.loss = t.losses * p.loss + s.w2 * p.loss
      /\ (t.wins + u.wins) * p.win = t.wins * p.win + u.wins * p.win
      /\ (t.ties + u.ties) * p.tie = t.ties * p.tie + u.ties * p.tie
      /\ (t.losses + u.losses) * p.loss = t.losses * p.loss + u.losses * p.loss
  BY <1>1, <1>2
<1>4. /\ t.wins * p.win \in Int /\ t.ties * p.tie \in Int /\ t.losses * p.loss \in Int
      /\ u.wins * p.win \in Int /\ u.ties * p.tie \in Int /\ u.losses * p.loss \in Int
      /\ s.w1 * p.win \in Int /\ s.ties * p.tie \in Int /\ s.w2 * p.loss \in Int
  BY <1>1, <1>2
<1>5. /\ WithScore(t, s) = [wins |-> t.wins + s.w1, ties |-> t.ties + s.ties, losses |-> t.losses + s.w2]
      /\ Together(t, u) = [wins |-> t.wins + u.wins, ties |-> t.ties + u.ties, losses |-> t.losses + u.losses]
  BY DEF WithScore, Together
<1>6. WithScore(t, s) \in Records /\ Together(t, u) \in Records
  BY <1>1, <1>5 DEF Records
<1>7. /\ Points(WithScore(t, s), p)
           = (t.wins + s.w1) * p.win + (t.ties + s.ties) * p.tie + (t.losses + s.w2) * p.loss
      /\ Points(Together(t, u), p)
           = (t.wins + u.wins) * p.win + (t.ties + u.ties) * p.tie + (t.losses + u.losses) * p.loss
      /\ Points(t, p) = t.wins * p.win + t.ties * p.tie + t.losses * p.loss
      /\ Points(u, p) = u.wins * p.win + u.ties * p.tie + u.losses * p.loss
      /\ Value(s, p) = s.w1 * p.win + s.ties * p.tie + s.w2 * p.loss
  BY <1>5 DEF Points, Value
<1> DEFINE a1 == t.wins * p.win
           a2 == t.ties * p.tie
           a3 == t.losses * p.loss
           b1 == u.wins * p.win
           b2 == u.ties * p.tie
           b3 == u.losses * p.loss
           c1 == s.w1 * p.win
           c2 == s.ties * p.tie
           c3 == s.w2 * p.loss
<1>8. /\ Points(t, p) = a1 + a2 + a3 /\ Points(u, p) = b1 + b2 + b3 /\ Value(s, p) = c1 + c2 + c3
      /\ Points(WithScore(t, s), p) = (a1 + c1) + (a2 + c2) + (a3 + c3)
      /\ Points(Together(t, u), p) = (a1 + b1) + (a2 + b2) + (a3 + b3)
      /\ a1 \in Int /\ a2 \in Int /\ a3 \in Int /\ b1 \in Int /\ b2 \in Int /\ b3 \in Int
      /\ c1 \in Int /\ c2 \in Int /\ c3 \in Int
  BY <1>3, <1>4, <1>7
<1> HIDE DEF a1, a2, a3, b1, b2, b3, c1, c2, c3
<1> QED BY <1>6, <1>8

\* Nothing is worth nothing.
LEMMA NoPoints ==
  ASSUME NEW p \in PointsFor
  PROVE  NoRecord \in Records /\ Points(NoRecord, p) = 0
<1>1. p.win \in Int /\ p.tie \in Int /\ p.loss \in Int
  BY DEF PointsFor
<1>2. \A x \in Int : 0 * x = 0
  OBVIOUS
<1>3. 0 * p.win = 0 /\ 0 * p.tie = 0 /\ 0 * p.loss = 0
  BY <1>1, <1>2
<1>4. Points(NoRecord, p) = 0 * p.win + 0 * p.tie + 0 * p.loss
  BY DEF Points, NoRecord
<1> QED BY <1>3, <1>4 DEF Records, NoRecord

\* A score adds its worth to that of a record, and a record its own.
LEMMA ScoreAdds ==
  ASSUME NEW t \in Records, NEW p \in PointsFor, NEW s \in [w1: Nat, w2: Nat, ties: Nat]
  PROVE  /\ Points(t, p) \in Int /\ Value(s, p) \in Int /\ WithScore(t, s) \in Records
         /\ Points(WithScore(t, s), p) = Points(t, p) + Value(s, p)
BY PointsAdd

LEMMA RecordAdds ==
  ASSUME NEW t \in Records, NEW u \in Records, NEW p \in PointsFor
  PROVE  /\ Points(t, p) \in Int /\ Together(t, u) \in Records
         /\ Points(Together(t, u), p) = Points(t, p) + Points(u, p)
<1> DEFINE s == [w1 |-> 0, w2 |-> 0, ties |-> 0]
<1>1. s \in [w1: Nat, w2: Nat, ties: Nat]
  OBVIOUS
<1> HIDE DEF s
<1> QED BY <1>1, PointsAdd

\* What the score of one more job makes of a cell.
CellBy(i, j) ==
  [q \in (1 .. Len(keys)) \X Records |->
     IF Between(keys[q[1]], i, j) THEN WithScore(q[2], scores[q[1] - 1]) ELSE q[2]]

\* A cell adds up the scores of its jobs, in their order.
LEMMA CellHistory ==
  ASSUME AllPlayed, NEW i, NEW j
  PROVE  HasHistory(Len(keys), Records, NoRecord, CellBy(i, j), Cell(i, j))
<1> DEFINE n == Len(keys)
           V == Records
           v0 == NoRecord
           F == CellBy(i, j)
           Step(k, v) == IF Between(keys[[p \in DOMAIN keys |-> p][k]], i, j) THEN WithScore(v, scores[[p \in DOMAIN keys |-> p][k] - 1]) ELSE v
<1>1. n \in Nat /\ v0 \in V /\ DOMAIN [p \in DOMAIN keys |-> p] = 1 .. n /\ DOMAIN keys = 1 .. n
  BY KeysOK DEF Records, NoRecord
<1>2. ASSUME NEW k \in 1 .. n, NEW v \in V PROVE Step(k, v) \in V
  <2>1. [p \in DOMAIN keys |-> p][k] = k /\ scores[k - 1] \in [w1: Nat, w2: Nat, ties: Nat]
    BY <1>1, KeysOK
  <2>2. [win |-> 0, tie |-> 0, loss |-> 0] \in PointsFor
    BY DEF PointsFor
  <2>3. WithScore(v, scores[k - 1]) \in Records
    BY <1>2, <2>1, <2>2, ScoreAdds
  <2> QED BY <1>2, <2>1, <2>3
<1>3. \A k \in 1 .. n : \A v \in V : F[<<k, v>>] = Step(k, v)
  BY <1>1 DEF CellBy
<1>4. F \in [(1 .. n) \X V -> V]
  BY <1>1, <1>2 DEF CellBy
<1> HIDE DEF n, V, v0, F
<1>5. PICK g \in [SUBSET (1 .. n) -> V] : IsFold(g, n, v0, F)
  BY <1>1, <1>4, FoldExists
<1> DEFINE Is(it) == it = [s \in SUBSET (1 .. n) |->
                            IF s = {} THEN v0 ELSE IF Between(keys[[p \in DOMAIN keys |-> p][Max(s)]], i, j) THEN WithScore(it[s \ {Max(s)}], scores[[p \in DOMAIN keys |-> p][Max(s)] - 1]) ELSE it[s \ {Max(s)}]]
           iter == CHOOSE it : Is(it)
<1>6. Is(g)
  <2>1. ASSUME NEW s \in SUBSET (1 .. n), s # {}
        PROVE  g[s] = IF Between(keys[[p \in DOMAIN keys |-> p][Max(s)]], i, j) THEN WithScore(g[s \ {Max(s)}], scores[[p \in DOMAIN keys |-> p][Max(s)] - 1]) ELSE g[s \ {Max(s)}]
    <3> DEFINE x == Max(s)
    <3>1. x \in 1 .. n
      BY <1>1, <2>1, MaxIn
    <3> HIDE DEF x
    <3>2. s \ {x} \in SUBSET (1 .. n) /\ g[s \ {x}] \in V
      OBVIOUS
    <3>3. g[s] = F[<<x, g[s \ {x}]>>]
      BY <1>5, <2>1 DEF x, IsFold
    <3>4. g[s] = Step(x, g[s \ {x}])
      <4> HIDE DEF Step
      <4> QED BY <1>3, <3>1, <3>2, <3>3
    <3> QED BY <3>4 DEF x
  <2>2. g[{}] = v0
    BY <1>5 DEF IsFold
  <2> QED BY <2>1, <2>2
<1>7. Is(iter)
  <2> HIDE DEF Is
  <2> QED BY <1>6
<1>8. Cell(i, j) = iter[1 .. n]
  BY <1>1 DEF Cell, FoldLeft, MapThenFoldSet, v0
<1> HIDE DEF iter
<1>9. HasHistory(n, V, v0, F, iter[1 .. n])
  <2>1. iter[{}] = v0
    BY <1>7
  <2>2. ASSUME NEW s \in SUBSET (1 .. n), s # {}, iter[s \ {Max(s)}] \in V
        PROVE  iter[s] = F[<<Max(s), iter[s \ {Max(s)}]>>]
    <3>1. Max(s) \in 1 .. n
      BY <1>1, <2>2, MaxIn
    <3>2. iter[s] = Step(Max(s), iter[s \ {Max(s)}])
      BY <1>7, <2>2
    <3> HIDE DEF Step
    <3> QED BY <1>3, <2>2, <3>1, <3>2
  <2>3. FoldsIn(V, iter, n, F)
    BY <2>2 DEF FoldsIn
  <2> QED BY <1>1, <1>4, <2>1, <2>3, FoldSteps
<1> QED BY <1>8, <1>9 DEF n, V, v0, F

\* A cell is worth what its scores are worth.
LEMMA CellSum ==
  ASSUME AllPlayed, NEW i, NEW j, NEW p \in PointsFor, NEW F,
         F = [k \in 1 .. Len(keys) |-> IF Between(keys[k], i, j) THEN Value(scores[k - 1], p) ELSE 0]
  PROVE  /\ Cell(i, j) \in Records /\ F \in [1 .. Len(keys) -> Int]
         /\ SumsTo(1 .. Len(keys), F, Points(Cell(i, j), p))
<1> DEFINE n == Len(keys)
<1>1. n \in Nat /\ n \in 0 .. n /\ \A k \in 1 .. n : scores[k - 1] \in [w1: Nat, w2: Nat, ties: Nat]
  BY KeysOK
<1>2. HasHistory(n, Records, NoRecord, CellBy(i, j), Cell(i, j))
  BY CellHistory
<1>3. PICK hist \in [0 .. n -> Records] :
        /\ hist[0] = NoRecord /\ hist[n] = Cell(i, j)
        /\ \A k \in 1 .. n : hist[k] = CellBy(i, j)[<<k, hist[k - 1]>>]
  BY <1>2 DEF HasHistory
<1> DEFINE worth == [k \in 0 .. n |-> Points(hist[k], p)]
<1>4. \A k \in 0 .. n : Points(hist[k], p) \in Int
  BY <1>3, RecordAdds
<1>5. worth \in [0 .. n -> Int] /\ worth[0] = 0 /\ worth[n] = Points(Cell(i, j), p)
  BY <1>1, <1>3, <1>4, NoPoints
<1>6. ASSUME NEW k \in 1 .. n
      PROVE  Value(scores[k - 1], p) \in Int /\ worth[k] = worth[k - 1] + F[k]
  <2>1. k \in 0 .. n /\ k - 1 \in 0 .. n
    BY <1>1
  <2>2. hist[k - 1] \in Records /\ worth[k] = Points(hist[k], p) /\ worth[k - 1] = Points(hist[k - 1], p)
    BY <1>3, <2>1
  <2>3. hist[k] = IF Between(keys[k], i, j) THEN WithScore(hist[k - 1], scores[k - 1]) ELSE hist[k - 1]
    BY <1>3, <2>2 DEF CellBy
  <2>4. /\ Value(scores[k - 1], p) \in Int /\ Points(hist[k - 1], p) \in Int
        /\ Points(WithScore(hist[k - 1], scores[k - 1]), p) = Points(hist[k - 1], p) + Value(scores[k - 1], p)
    BY <1>1, <2>2, ScoreAdds
  <2> HIDE DEF worth
  <2> QED BY <2>2, <2>3, <2>4
<1>7. F \in [1 .. n -> Int]
  <2>1. \A k \in 1 .. n : Value(scores[k - 1], p) \in Int
    BY <1>6
  <2> HIDE DEF worth
  <2> QED BY <2>1
<1> HIDE DEF worth
<1>8. SumsTo(1 .. n, F, worth[n])
  BY <1>1, <1>5, <1>6, <1>7, SumOfSteps
<1> QED BY <1>1, <1>3, <1>5, <1>7, <1>8

\* What one more cell makes of a total.
TotalBy(i) ==
  [q \in (1 .. Len(Right(batch))) \X Records |->
     IF q[1] \in Met(i) THEN Together(q[2], Cell(i, q[1])) ELSE q[2]]

\* A total adds up the cells of a row, in their order.
LEMMA TotalHistory ==
  ASSUME AllPlayed, NEW i
  PROVE  HasHistory(Len(Right(batch)), Records, NoRecord, TotalBy(i), Total(i))
<1> DEFINE n == Len(Right(batch))
           V == Records
           v0 == NoRecord
           F == TotalBy(i)
           Step(k, v) == IF [p \in DOMAIN Right(batch) |-> p][k] \in Met(i) THEN Together(v, Cell(i, [p \in DOMAIN Right(batch) |-> p][k])) ELSE v
<1>1. n \in Nat /\ v0 \in V /\ DOMAIN [p \in DOMAIN Right(batch) |-> p] = 1 .. n /\ DOMAIN Right(batch) = 1 .. n
  BY RangesOK DEF AllPlayed, Rights, Records, NoRecord
<1>2. ASSUME NEW k \in 1 .. n, NEW v \in V PROVE Step(k, v) \in V
  <2>1. [p \in DOMAIN Right(batch) |-> p][k] = k
    BY <1>1
  <2>2. [win |-> 0, tie |-> 0, loss |-> 0] \in PointsFor
    BY DEF PointsFor
  <2>3. Cell(i, k) \in Records
    BY <2>2, CellSum
  <2>4. Together(v, Cell(i, k)) \in Records
    BY <1>2, <2>2, <2>3, RecordAdds
  <2> QED BY <1>2, <2>1, <2>4
<1>3. \A k \in 1 .. n : \A v \in V : F[<<k, v>>] = Step(k, v)
  BY <1>1 DEF TotalBy
<1>4. F \in [(1 .. n) \X V -> V]
  BY <1>1, <1>2 DEF TotalBy
<1> HIDE DEF n, V, v0, F
<1>5. PICK g \in [SUBSET (1 .. n) -> V] : IsFold(g, n, v0, F)
  BY <1>1, <1>4, FoldExists
<1> DEFINE Is(it) == it = [s \in SUBSET (1 .. n) |->
                            IF s = {} THEN v0 ELSE IF [p \in DOMAIN Right(batch) |-> p][Max(s)] \in Met(i) THEN Together(it[s \ {Max(s)}], Cell(i, [p \in DOMAIN Right(batch) |-> p][Max(s)])) ELSE it[s \ {Max(s)}]]
           iter == CHOOSE it : Is(it)
<1>6. Is(g)
  <2>1. ASSUME NEW s \in SUBSET (1 .. n), s # {}
        PROVE  g[s] = IF [p \in DOMAIN Right(batch) |-> p][Max(s)] \in Met(i) THEN Together(g[s \ {Max(s)}], Cell(i, [p \in DOMAIN Right(batch) |-> p][Max(s)])) ELSE g[s \ {Max(s)}]
    <3> DEFINE x == Max(s)
    <3>1. x \in 1 .. n
      BY <1>1, <2>1, MaxIn
    <3> HIDE DEF x
    <3>2. s \ {x} \in SUBSET (1 .. n) /\ g[s \ {x}] \in V
      OBVIOUS
    <3>3. g[s] = F[<<x, g[s \ {x}]>>]
      BY <1>5, <2>1 DEF x, IsFold
    <3>4. g[s] = Step(x, g[s \ {x}])
      <4> HIDE DEF Step
      <4> QED BY <1>3, <3>1, <3>2, <3>3
    <3> QED BY <3>4 DEF x
  <2>2. g[{}] = v0
    BY <1>5 DEF IsFold
  <2> QED BY <2>1, <2>2
<1>7. Is(iter)
  <2> HIDE DEF Is
  <2> QED BY <1>6
<1>8. Total(i) = iter[1 .. n]
  BY <1>1 DEF Total, FoldLeft, MapThenFoldSet, v0
<1> HIDE DEF iter
<1>9. HasHistory(n, V, v0, F, iter[1 .. n])
  <2>1. iter[{}] = v0
    BY <1>7
  <2>2. ASSUME NEW s \in SUBSET (1 .. n), s # {}, iter[s \ {Max(s)}] \in V
        PROVE  iter[s] = F[<<Max(s), iter[s \ {Max(s)}]>>]
    <3>1. Max(s) \in 1 .. n
      BY <1>1, <2>2, MaxIn
    <3>2. iter[s] = Step(Max(s), iter[s \ {Max(s)}])
      BY <1>7, <2>2
    <3> HIDE DEF Step
    <3> QED BY <1>3, <2>2, <3>1, <3>2
  <2>3. FoldsIn(V, iter, n, F)
    BY <2>2 DEF FoldsIn
  <2> QED BY <1>1, <1>4, <2>1, <2>3, FoldSteps
<1> QED BY <1>8, <1>9 DEF n, V, v0, F

\* A total is worth what the scores of the warrior's jobs are worth.
LEMMA TotalSum ==
  ASSUME AllPlayed, NEW i, NEW p \in PointsFor, NEW F,
         F = [k \in 1 .. Len(keys) |-> IF keys[k][1] = i THEN Value(scores[k - 1], p) ELSE 0]
  PROVE  F \in [1 .. Len(keys) -> Int] /\ SumsTo(1 .. Len(keys), F, Points(Total(i), p))
<1> DEFINE n == Len(Right(batch))
           Z == 1 .. Len(keys)
           H(j) == [k \in Z |-> IF keys[k][1] = i /\ keys[k][2] <= j THEN Value(scores[k - 1], p) ELSE 0]
           C(j) == [k \in Z |-> IF Between(keys[k], i, j) THEN Value(scores[k - 1], p) ELSE 0]
<1>1. /\ n \in Nat /\ n \in 0 .. n /\ IsFiniteSet(Z) /\ DOMAIN keys = Z
      /\ \A k \in Z : keys[k][2] \in 1 .. n /\ Value(scores[k - 1], p) \in Int
  <2>1. n \in Nat /\ Rights(batch) = 1 .. n
    BY RangesOK DEF AllPlayed, Rights
  <2>2. \A k \in Z : keys[k][2] \in Rights(batch)
    BY KeysOK DEF Matches
  <2>3. ASSUME NEW k \in Z PROVE Value(scores[k - 1], p) \in Int
    <3>1. scores[k - 1] \in [w1: Nat, w2: Nat, ties: Nat]
      BY KeysOK
    <3> QED BY <3>1, NoPoints, ScoreAdds
  <2> QED BY <2>1, <2>2, <2>3, KeysOK
<1>2. HasHistory(n, Records, NoRecord, TotalBy(i), Total(i))
  BY TotalHistory
<1>3. PICK hist \in [0 .. n -> Records] :
        /\ hist[0] = NoRecord /\ hist[n] = Total(i)
        /\ \A j \in 1 .. n : hist[j] = TotalBy(i)[<<j, hist[j - 1]>>]
  BY <1>2 DEF HasHistory
<1> HIDE DEF n, Z
<1>4. \A j : H(j) \in [Z -> Int] /\ C(j) \in [Z -> Int]
  BY <1>1
<1> DEFINE Good(j) == SumsTo(Z, H(j), Points(hist[j], p))
           T == {j \in Nat : j <= n => Good(j)}
<1>5. 0 \in T
  <2>1. \A k \in Z : ~(keys[k][2] <= 0)
    BY <1>1
  <2>2. H(0) = [k \in Z |-> 0]
    BY <2>1
  <2> HIDE DEF H
  <2>3. SumsTo(Z, H(0), 0)
    BY <1>1, <2>2, SumToNone
  <2> QED BY <1>3, <2>3, NoPoints
<1>6. ASSUME NEW j \in Nat, j \in T PROVE j + 1 \in T
  <2> SUFFICES ASSUME j + 1 <= n PROVE Good(j + 1)
    OBVIOUS
  <2>1. /\ j + 1 \in 1 .. n /\ (j + 1) - 1 = j /\ j \in 0 .. n /\ hist[j] \in Records
        /\ SumsTo(Z, H(j), Points(hist[j], p))
    BY <1>1, <1>3, <1>6
  <2> HIDE DEF T, Good
  <2>2. hist[j + 1] = IF j + 1 \in Met(i) THEN Together(hist[j], Cell(i, j + 1)) ELSE hist[j]
    BY <1>3, <2>1 DEF TotalBy, n
  <2>3. Cell(i, j + 1) \in Records /\ SumsTo(Z, C(j + 1), Points(Cell(i, j + 1), p))
    BY CellSum DEF Z
  <2>4. ASSUME NEW k \in Z PROVE H(j + 1)[k] = H(j)[k] + C(j + 1)[k]
    <3>1. keys[k][2] \in Nat /\ Value(scores[k - 1], p) \in Int
      BY <1>1
    <3>2. keys[k][2] <= j + 1 <=> keys[k][2] <= j \/ keys[k][2] = j + 1
      BY <3>1
    <3>3. ~(keys[k][2] <= j /\ keys[k][2] = j + 1)
      BY <3>1
    <3> QED BY <3>1, <3>2, <3>3 DEF Between
  <2>5. CASE j + 1 \in Met(i)
    <3>1. Points(Together(hist[j], Cell(i, j + 1)), p) = Points(hist[j], p) + Points(Cell(i, j + 1), p)
      BY <2>1, <2>3, RecordAdds
    <3> HIDE DEF H, C
    <3>2. SumsTo(Z, H(j + 1), Points(hist[j], p) + Points(Cell(i, j + 1), p))
      BY <1>1, <1>4, <2>1, <2>3, <2>4, SumAdds
    <3> QED BY <2>2, <2>5, <3>1, <3>2 DEF Good
  <2>6. CASE j + 1 \notin Met(i)
    <3>1. \A k \in Z : ~Between(keys[k], i, j + 1)
      BY <1>1, <2>6 DEF Met, Between
    <3>2. \A k \in Z : C(j + 1)[k] = 0
      BY <3>1
    <3>3. \A k \in Z : H(j)[k] \in Int
      BY <1>4
    <3>4. H(j + 1) = [k \in Z |-> H(j + 1)[k]] /\ H(j) = [k \in Z |-> H(j)[k]]
      OBVIOUS
    <3> HIDE DEF H, C
    <3>5. \A k \in Z : H(j + 1)[k] = H(j)[k]
      BY <2>4, <3>2, <3>3
    <3>6. H(j + 1) = H(j)
      BY <3>4, <3>5
    <3> QED BY <2>1, <2>2, <2>6, <3>6 DEF Good
  <2> QED BY <2>5, <2>6
<1>7. n \in T
  <2> HIDE DEF T
  <2> QED BY <1>1, <1>5, <1>6, AllNaturals
<1>8. H(n) = F
  <2>1. \A k \in Z : keys[k][2] <= n
    BY <1>1
  <2> QED BY <2>1 DEF Z
<1>9. SumsTo(Z, F, Points(Total(i), p))
  <2>1. SumsTo(Z, H(n), Points(hist[n], p))
    BY <1>1, <1>7
  <2> HIDE DEF H
  <2> QED BY <1>3, <1>8, <2>1
<1>10. F \in [Z -> Int]
  <2>1. H(n) \in [Z -> Int]
    BY <1>4
  <2> HIDE DEF H
  <2> QED BY <1>8, <2>1
<1> QED BY <1>9, <1>10 DEF Z

\* What warrior i gets of a job, as its A and as its B.
Gained(i, k) ==
  (IF keys[k][1] = i THEN 3 * scores[k - 1].w1 + scores[k - 1].ties ELSE 0)
    + (IF keys[k][2] = i THEN 3 * scores[k - 1].w2 + scores[k - 1].ties ELSE 0)
\* What one more job makes of a score.
GainedBy(i) == [q \in (1 .. Len(keys)) \X Int |-> q[2] + Gained(i, q[1])]

\* It is what the code adds, in two steps.
LEMMA GainedOK ==
  ASSUME AllPlayed, NEW i, NEW k \in 1 .. Len(keys)
  PROVE  /\ Gained(i, k) \in Int
         /\ \A v \in Int :
              v + (IF keys[k][1] = i THEN 3 * scores[k - 1].w1 + scores[k - 1].ties ELSE 0)
                + (IF keys[k][2] = i THEN 3 * scores[k - 1].w2 + scores[k - 1].ties ELSE 0)
                = v + Gained(i, k)
<1>1. scores[k - 1].w1 \in Nat /\ scores[k - 1].w2 \in Nat /\ scores[k - 1].ties \in Nat
  BY KeysOK
<1> DEFINE a == IF keys[k][1] = i THEN 3 * scores[k - 1].w1 + scores[k - 1].ties ELSE 0
           c == IF keys[k][2] = i THEN 3 * scores[k - 1].w2 + scores[k - 1].ties ELSE 0
<1>2. a \in Int /\ c \in Int /\ Gained(i, k) = a + c
  BY <1>1 DEF Gained
<1> HIDE DEF a, c
<1>3. Gained(i, k) \in Int /\ \A v \in Int : v + a + c = v + Gained(i, k)
  BY <1>2
<1> QED BY <1>3 DEF a, c

\* A score of a tournament adds up what is gained of the jobs, in their order.
LEMMA GainedHistory ==
  ASSUME AllPlayed, NEW i
  PROVE  HasHistory(Len(keys), Int, 0, GainedBy(i), TournamentScore(i))
<1> DEFINE n == Len(keys)
           V == Int
           v0 == 0
           F == GainedBy(i)
           Step(k, v) == v + (IF keys[[p \in DOMAIN keys |-> p][k]][1] = i THEN 3 * scores[[p \in DOMAIN keys |-> p][k] - 1].w1 + scores[[p \in DOMAIN keys |-> p][k] - 1].ties ELSE 0)
                + (IF keys[[p \in DOMAIN keys |-> p][k]][2] = i THEN 3 * scores[[p \in DOMAIN keys |-> p][k] - 1].w2 + scores[[p \in DOMAIN keys |-> p][k] - 1].ties ELSE 0)
<1>1. n \in Nat /\ v0 \in V /\ DOMAIN [p \in DOMAIN keys |-> p] = 1 .. n /\ DOMAIN keys = 1 .. n
  BY KeysOK
<1>2. ASSUME NEW k \in 1 .. n, NEW v \in V PROVE Step(k, v) \in V
  <2>1. [p \in DOMAIN keys |-> p][k] = k
    BY <1>1
  <2>2. Step(k, v) = v + (IF keys[k][1] = i THEN 3 * scores[k - 1].w1 + scores[k - 1].ties ELSE 0)
                       + (IF keys[k][2] = i THEN 3 * scores[k - 1].w2 + scores[k - 1].ties ELSE 0)
    BY <2>1
  <2> HIDE DEF Step
  <2>3. Step(k, v) = v + Gained(i, k) /\ Gained(i, k) \in Int
    BY <1>2, <2>2, GainedOK
  <2> QED BY <1>2, <2>3
<1>3. \A k \in 1 .. n : \A v \in V : F[<<k, v>>] = Step(k, v)
  <2> SUFFICES ASSUME NEW k \in 1 .. n, NEW v \in V PROVE F[<<k, v>>] = Step(k, v)
    OBVIOUS
  <2>1. [p \in DOMAIN keys |-> p][k] = k
    BY <1>1
  <2>2. Step(k, v) = v + (IF keys[k][1] = i THEN 3 * scores[k - 1].w1 + scores[k - 1].ties ELSE 0)
                       + (IF keys[k][2] = i THEN 3 * scores[k - 1].w2 + scores[k - 1].ties ELSE 0)
    BY <2>1
  <2> HIDE DEF Step
  <2>3. Step(k, v) = v + Gained(i, k)
    BY <2>2, GainedOK
  <2> QED BY <2>3 DEF GainedBy
<1>4. F \in [(1 .. n) \X V -> V]
  BY GainedOK DEF GainedBy
<1> HIDE DEF n, V, v0, F
<1>5. PICK g \in [SUBSET (1 .. n) -> V] : IsFold(g, n, v0, F)
  BY <1>1, <1>4, FoldExists
<1> DEFINE Is(it) == it = [s \in SUBSET (1 .. n) |->
                            IF s = {} THEN v0 ELSE it[s \ {Max(s)}] + (IF keys[[p \in DOMAIN keys |-> p][Max(s)]][1] = i THEN 3 * scores[[p \in DOMAIN keys |-> p][Max(s)] - 1].w1 + scores[[p \in DOMAIN keys |-> p][Max(s)] - 1].ties ELSE 0)
                + (IF keys[[p \in DOMAIN keys |-> p][Max(s)]][2] = i THEN 3 * scores[[p \in DOMAIN keys |-> p][Max(s)] - 1].w2 + scores[[p \in DOMAIN keys |-> p][Max(s)] - 1].ties ELSE 0)]
           iter == CHOOSE it : Is(it)
<1>6. Is(g)
  <2>1. ASSUME NEW s \in SUBSET (1 .. n), s # {}
        PROVE  g[s] = g[s \ {Max(s)}] + (IF keys[[p \in DOMAIN keys |-> p][Max(s)]][1] = i THEN 3 * scores[[p \in DOMAIN keys |-> p][Max(s)] - 1].w1 + scores[[p \in DOMAIN keys |-> p][Max(s)] - 1].ties ELSE 0)
                + (IF keys[[p \in DOMAIN keys |-> p][Max(s)]][2] = i THEN 3 * scores[[p \in DOMAIN keys |-> p][Max(s)] - 1].w2 + scores[[p \in DOMAIN keys |-> p][Max(s)] - 1].ties ELSE 0)
    <3> DEFINE x == Max(s)
    <3>1. x \in 1 .. n
      BY <1>1, <2>1, MaxIn
    <3> HIDE DEF x
    <3>2. s \ {x} \in SUBSET (1 .. n) /\ g[s \ {x}] \in V
      OBVIOUS
    <3>3. g[s] = F[<<x, g[s \ {x}]>>]
      BY <1>5, <2>1 DEF x, IsFold
    <3>4. g[s] = Step(x, g[s \ {x}])
      <4> HIDE DEF Step
      <4> QED BY <1>3, <3>1, <3>2, <3>3
    <3> QED BY <3>4 DEF x
  <2>2. g[{}] = v0
    BY <1>5 DEF IsFold
  <2> QED BY <2>1, <2>2
<1>7. Is(iter)
  <2> HIDE DEF Is
  <2> QED BY <1>6
<1>8. TournamentScore(i) = iter[1 .. n]
  BY <1>1 DEF TournamentScore, FoldLeft, MapThenFoldSet, v0
<1> HIDE DEF iter
<1>9. HasHistory(n, V, v0, F, iter[1 .. n])
  <2>1. iter[{}] = v0
    BY <1>7
  <2>2. ASSUME NEW s \in SUBSET (1 .. n), s # {}, iter[s \ {Max(s)}] \in V
        PROVE  iter[s] = F[<<Max(s), iter[s \ {Max(s)}]>>]
    <3>1. Max(s) \in 1 .. n
      BY <1>1, <2>2, MaxIn
    <3>2. iter[s] = Step(Max(s), iter[s \ {Max(s)}])
      BY <1>7, <2>2
    <3> HIDE DEF Step
    <3> QED BY <1>3, <2>2, <3>1, <3>2
  <2>3. FoldsIn(V, iter, n, F)
    BY <2>2 DEF FoldsIn
  <2> QED BY <1>1, <1>4, <2>1, <2>3, FoldSteps
<1> QED BY <1>8, <1>9 DEF n, V, v0, F

\* A tournament's score is the sum of what was gained.
LEMMA GainedSum ==
  ASSUME AllPlayed, NEW i, NEW F, F = [k \in 1 .. Len(keys) |-> Gained(i, k)]
  PROVE  F \in [1 .. Len(keys) -> Int] /\ SumsTo(1 .. Len(keys), F, TournamentScore(i))
<1> DEFINE n == Len(keys)
<1>1. n \in Nat /\ \A k \in 1 .. n : Gained(i, k) \in Int
  BY KeysOK, GainedOK
<1>2. HasHistory(n, Int, 0, GainedBy(i), TournamentScore(i))
  BY GainedHistory
<1>3. PICK hist \in [0 .. n -> Int] :
        /\ hist[0] = 0 /\ hist[n] = TournamentScore(i)
        /\ \A k \in 1 .. n : hist[k] = GainedBy(i)[<<k, hist[k - 1]>>]
  BY <1>2 DEF HasHistory
<1>4. F \in [1 .. n -> Int] /\ \A k \in 1 .. n : F[k] = Gained(i, k)
  BY <1>1
<1>5. \A k \in 1 .. n : hist[k] = hist[k - 1] + F[k]
  <2> TAKE k \in 1 .. n
  <2>1. k - 1 \in 0 .. n
    BY <1>1
  <2>2. hist[k - 1] \in Int
    BY <1>3, <2>1
  <2> QED BY <1>3, <1>4, <2>2 DEF GainedBy
<1>6. SumsTo(1 .. n, F, hist[n])
  BY <1>1, <1>3, <1>4, <1>5, SumOfSteps
<1> QED BY <1>3, <1>4, <1>6

-----------------------------------------------------------------------------
\* What a warrior's matches are worth.

\* The rivals of warrior i, each with its seeds.
Meetings(b, i) ==
  {j \in DOMAIN Right(b) : IF Tournament(b) THEN i # j ELSE Left(b)[i] # Right(b)[j]}
    \X (IF Tournament(b) THEN {1} ELSE DOMAIN b.seeds)

\* There are finitely many, each of an opponent and a seed.
LEMMA MeetingsOK ==
  ASSUME NEW b \in Batches, NEW i
  PROVE  /\ IsFiniteSet(Meetings(b, i))
         /\ \A m \in Meetings(b, i) : m[1] \in Rights(b) /\ m[2] \in 1 .. SeedCount(b)
<1> DEFINE J == {j \in DOMAIN Right(b) : IF Tournament(b) THEN i # j ELSE Left(b)[i] # Right(b)[j]}
           S == IF Tournament(b) THEN {1} ELSE DOMAIN b.seeds
<1>1. J \subseteq Rights(b) /\ Len(Right(b)) \in Nat /\ SeedCount(b) \in Nat
  BY RangesOK
<1>2. S = 1 .. SeedCount(b)
  <2>1. CASE Tournament(b)
    BY <2>1 DEF SeedCount
  <2>2. CASE ~Tournament(b)
    <3>1. b.seeds \in Seq(Nat)
      BY <2>2, SidesOK
    <3> QED BY <2>2, <3>1 DEF SeedCount
  <2> QED BY <2>1, <2>2
<1>3. IsFiniteSet(Rights(b)) /\ IsFiniteSet(1 .. SeedCount(b))
  BY <1>1, FS_Interval DEF Rights
<1> HIDE DEF J, S
<1>4. IsFiniteSet(J) /\ IsFiniteSet(S)
  BY <1>1, <1>2, <1>3, FS_Subset
<1>5. IsFiniteSet(J \X S)
  BY <1>4, FS_Product
<1>6. Meetings(b, i) = J \X S
  BY DEF Meetings, J, S
<1> QED BY <1>1, <1>2, <1>5, <1>6

\* What the property compares a score with is a sum.
LEMMA WorthSum ==
  ASSUME NEW b \in Batches, NEW i, NEW F \in [Meetings(b, i) -> Int],
         \A m \in Meetings(b, i) : F[m] = Taken(b, i, m[1], m[2])
  PROVE  SumsTo(Meetings(b, i), F, Worth(b, i))
<1> DEFINE U == Meetings(b, i)
           Is(it) == it = [s \in SUBSET U |->
                            IF s = {} THEN 0
                            ELSE Taken(b, i, OneOf(s)[1], OneOf(s)[2]) + it[s \ {OneOf(s)}]]
           iter == CHOOSE it : Is(it)
<1>1. IsFiniteSet(U)
  BY MeetingsOK
<1>2. \A s \in SUBSET U : s # {} => OneOf(s) \in U
  BY <1>1, WithoutOne
<1>3. PICK g \in [SUBSET U -> Int] : IsSum(g, U, F)
  BY <1>1, SumExists
<1>4. Is(g)
  <2> DEFINE B(s) == IF s = {} THEN 0
                     ELSE Taken(b, i, OneOf(s)[1], OneOf(s)[2]) + g[s \ {OneOf(s)}]
  <2>1. ASSUME NEW s \in SUBSET U PROVE g[s] = B(s)
    <3>1. /\ s # {} => F[OneOf(s)] \in Int /\ F[OneOf(s)] = Taken(b, i, OneOf(s)[1], OneOf(s)[2])
          /\ g[s \ {OneOf(s)}] \in Int
      BY <1>2
    <3>2. g[s] = IF s = {} THEN 0 ELSE g[s \ {OneOf(s)}] + F[OneOf(s)]
      BY <1>3 DEF IsSum
    <3> HIDE DEF U
    <3> QED BY <3>1, <3>2
  <2> HIDE DEF B, U
  <2>2. g = [s \in SUBSET U |-> B(s)]
    BY <2>1
  <2> QED BY <2>2 DEF B
<1>5. Is(iter)
  <2> HIDE DEF Is
  <2> QED BY <1>4
<1>6. Worth(b, i) = iter[U]
  BY DEF Worth, MapThenSumSet, MapThenFoldSet, OneOf, Meetings
<1> HIDE DEF iter
<1>7. \A s \in SUBSET U : iter[s] = IF s = {} THEN 0 ELSE F[OneOf(s)] + iter[s \ {OneOf(s)}]
  <2>1. ASSUME NEW s \in SUBSET U
        PROVE  iter[s] = IF s = {} THEN 0
                         ELSE Taken(b, i, OneOf(s)[1], OneOf(s)[2]) + iter[s \ {OneOf(s)}]
    BY <1>5
  <2> HIDE DEF U, Is
  <2> QED BY <1>2, <2>1 DEF U
<1> HIDE DEF U
<1>8. F \in [U -> Int]
  BY DEF U
<1>9. SumsTo(U, F, iter[U])
  BY <1>1, <1>7, <1>8, SumFolded
<1> QED BY <1>6, <1>9 DEF U

\* Of a tournament: a warrior takes from its match with a rival what it gains
\* of its job, and it gains nothing of the other jobs.
LEMMA TournamentWorth ==
  ASSUME AllPlayed, Tournament(batch), NEW i \in Lefts(batch)
  PROVE  TournamentScore(i) = Worth(batch, i)
<1> DEFINE U == Meetings(batch, i)
           Z == 1 .. Len(keys)
           D(j) == IF j < i THEN <<j, i>> ELSE <<i, j>>
           To(j) == Job(batch, D(j), 1)
           G == [k \in Z |-> Gained(i, k)]
           F == [m \in U |-> Taken(batch, i, m[1], m[2])]
           to == [m \in U |-> To(m[1])]
<1>1. batch \in Batches /\ SeedCount(batch) = 1 /\ 1 \in 1 .. SeedCount(batch)
  BY DEF AllPlayed, SeedCount
<1>2. /\ Lefts(batch) = Rights(batch) /\ Lefts(batch) \subseteq Nat
      /\ i \in Nat /\ \A j \in Rights(batch) : j \in Nat
  <2>1. Left(batch) = Right(batch)
    BY <1>1, SidesOK
  <2> QED BY <2>1, <1>1, RangesOK DEF Lefts, Rights
<1>3. ASSUME NEW m \in U
      PROVE  /\ m[1] \in Rights(batch) /\ m[1] # i /\ m[2] = 1 /\ m = <<m[1], 1>>
             /\ D(m[1]) \in Matches(batch)
  <2>1. m[1] \in DOMAIN Right(batch) /\ m[1] # i /\ m[2] = 1 /\ m = <<m[1], 1>>
    BY DEF Meetings
  <2>2. m[1] \in Rights(batch)
    BY <1>1, <2>1, RangesOK
  <2>3. m[1] < i \/ i < m[1]
    BY <1>2, <2>1, <2>2
  <2> QED BY <1>2, <2>1, <2>2, <2>3 DEF Matches, Opposed
<1>4. ASSUME NEW m \in U
      PROVE  to[m] \in Z /\ F[m] = G[to[m]] /\ F[m] \in Int
  <2> DEFINE j == m[1]
             d == D(j)
             J == Job(batch, d, 1)
             r == scores[J - 1]
  <2>1. /\ j \in Nat /\ j # i /\ m[2] = 1 /\ d \in Matches(batch)
        /\ d = IF j < i THEN <<j, i>> ELSE <<i, j>>
    BY <1>2, <1>3
  <2>2. to[m] = J
    OBVIOUS
  <2>3. F[m] = Taken(batch, i, j, 1)
    BY <2>1
  <2> HIDE DEF d, j, D, To, to, F
  <2>4. /\ J \in Z /\ keys[J][1] = d[1] /\ keys[J][2] = d[2]
        /\ ScoreOf[MatchOf(batch, d[1], d[2], 1)] = r
    BY <1>1, <2>1, JobOK
  <2> HIDE DEF J
  <2>5. r.w1 \in Nat /\ r.w2 \in Nat /\ r.ties \in Nat /\ r = scores[J - 1]
    BY <2>4, KeysOK
  <2>6. G[J] = Gained(i, J)
    BY <2>4
  <2> HIDE DEF r, G
  <2>7. CASE j < i
    <3>1. d[1] = j /\ d[2] = i
      BY <2>1, <2>7
    <3>2. Gained(i, J) = 0 + (3 * r.w2 + r.ties)
      BY <2>1, <2>4, <2>5, <3>1 DEF Gained
    <3>3. Taken(batch, i, j, 1) = 3 * r.w2 + 1 * r.ties + 0 * r.w1
      BY <2>4, <2>7, <3>1 DEF Taken
    <3>4. Gained(i, J) = Taken(batch, i, j, 1) /\ Gained(i, J) \in Int
      BY <2>5, <3>2, <3>3
    <3> QED BY <2>2, <2>3, <2>4, <2>6, <3>4
  <2>8. CASE ~(j < i)
    <3>1. d[1] = i /\ d[2] = j
      BY <2>1, <2>8
    <3>2. Gained(i, J) = (3 * r.w1 + r.ties) + 0
      BY <2>1, <2>4, <2>5, <3>1 DEF Gained
    <3>3. Taken(batch, i, j, 1) = 3 * r.w1 + 1 * r.ties + 0 * r.w2
      BY <2>4, <2>8, <3>1 DEF Taken
    <3>4. Gained(i, J) = Taken(batch, i, j, 1) /\ Gained(i, J) \in Int
      BY <2>5, <3>2, <3>3
    <3> QED BY <2>2, <2>3, <2>4, <2>6, <3>4
  <2> QED BY <2>7, <2>8
<1>5. to \in [U -> Z] /\ F \in [U -> Int] /\ \A m \in U : F[m] = Taken(batch, i, m[1], m[2])
  BY <1>4
<1>6. ASSUME NEW m \in U, NEW p \in U, to[m] = to[p] PROVE m = p
  <2>1. To(m[1]) = To(p[1])
    BY <1>6
  <2>2. D(m[1]) = D(p[1])
    <3> HIDE DEF D
    <3> QED BY <1>1, <1>3, <2>1, JobsApart
  <2>3. m[1] \in Nat /\ p[1] \in Nat /\ m[1] # i /\ p[1] # i
    BY <1>2, <1>3
  <2>4. m[1] = p[1]
    BY <1>2, <2>2, <2>3
  <2> QED BY <1>3, <2>4
<1>7. ASSUME NEW k \in Z, \A m \in U : to[m] # k PROVE G[k] = 0
  <2>1. PICK d \in Matches(batch), s \in 1 .. SeedCount(batch) : k = Job(batch, d, s)
    <3>1. Listed(batch, keys, Matches(batch))
      BY <1>1, KeysListed DEF AllPlayed
    <3> QED BY <3>1 DEF Listed
  <2>2. /\ d = <<d[1], d[2]>> /\ d[1] < d[2] /\ d[1] \in Rights(batch) /\ d[2] \in Rights(batch)
        /\ s = 1 /\ d[1] \in Nat /\ d[2] \in Nat
    BY <1>1, <1>2 DEF Matches, Opposed
  <2>3. \A j \in Rights(batch) : j # i => <<j, 1>> \in U
    BY <1>1, RangesOK DEF Meetings
  <2>4. ASSUME NEW j \in Rights(batch), j # i PROVE D(j) # d
    <3>1. <<j, 1>> \in U /\ to[<<j, 1>>] = To(j)
      BY <2>3, <2>4
    <3> HIDE DEF D, to
    <3> QED BY <1>7, <2>1, <2>2, <3>1
  <2>5. d[1] # i
    <3> SUFFICES ASSUME d[1] = i PROVE FALSE
      OBVIOUS
    <3>1. D(d[2]) = <<i, d[2]>> /\ d[2] # i
      BY <1>2, <2>2
    <3> QED BY <2>2, <2>4, <3>1
  <2>6. d[2] # i
    <3> SUFFICES ASSUME d[2] = i PROVE FALSE
      OBVIOUS
    <3>1. D(d[1]) = <<d[1], i>> /\ d[1] # i
      BY <1>2, <2>2
    <3> QED BY <2>2, <2>4, <3>1
  <2>7. keys[k][1] = d[1] /\ keys[k][2] = d[2]
    BY <2>1, JobOK
  <2>8. Gained(i, k) = 0
    BY <2>5, <2>6, <2>7 DEF Gained
  <2> QED BY <2>8
<1>8. G \in [Z -> Int] /\ SumsTo(Z, G, TournamentScore(i))
  BY GainedSum
<1>9. IsFiniteSet(U) /\ IsFiniteSet(Z)
  BY <1>1, MeetingsOK, KeysOK
<1>10. SumsTo(U, F, Worth(batch, i))
  <2> HIDE DEF F
  <2> QED BY <1>1, <1>5, WorthSum
<1>11. \A m \in U : G[to[m]] = F[m]
  BY <1>4
<1> HIDE DEF U, Z, G, F, to
<1>12. Worth(batch, i) = TournamentScore(i)
  BY <1>5, <1>6, <1>7, <1>8, <1>9, <1>10, <1>11, SumMoved
<1> QED BY <1>12

\* Of a versus: a warrior takes from its match with an opponent what its score
\* is worth, and its total is of its own matches.
LEMMA VersusWorth ==
  ASSUME AllPlayed, ~Tournament(batch), NEW i \in Lefts(batch)
  PROVE  Points(Total(i), batch.points) = Worth(batch, i)
<1> DEFINE p == batch.points
           U == Meetings(batch, i)
           Z == 1 .. Len(keys)
           D(m) == <<i, m[1]>>
           To(m) == Job(batch, D(m), m[2])
           G == [k \in Z |-> IF keys[k][1] = i THEN Value(scores[k - 1], p) ELSE 0]
           F == [m \in U |-> Taken(batch, i, m[1], m[2])]
           to == [m \in U |-> To(m)]
<1>1. batch \in Batches /\ p \in PointsFor /\ DOMAIN batch.seeds = 1 .. SeedCount(batch)
  <2>1. batch \in Batches
    BY DEF AllPlayed
  <2>2. batch.seeds \in Seq(Nat)
    BY <2>1, SidesOK
  <2> QED BY <2>1, <2>2, SidesOK DEF PointsFor, SeedCount
<1>2. ASSUME NEW m \in U
      PROVE  /\ m = <<m[1], m[2]>> /\ m[2] \in 1 .. SeedCount(batch)
             /\ D(m) \in Matches(batch)
  <2>1. /\ m[1] \in DOMAIN Right(batch) /\ Left(batch)[i] # Right(batch)[m[1]]
        /\ m = <<m[1], m[2]>> /\ m[2] \in 1 .. SeedCount(batch)
    BY <1>1 DEF Meetings
  <2>2. m[1] \in Rights(batch)
    BY <1>1, <2>1, RangesOK
  <2> QED BY <2>1, <2>2 DEF Matches, Opposed
<1>3. ASSUME NEW m \in U
      PROVE  to[m] \in Z /\ F[m] = G[to[m]] /\ F[m] \in Int
  <2> DEFINE j == m[1]
             s == m[2]
             d == D(m)
             J == Job(batch, d, s)
             r == scores[J - 1]
  <2>1. s \in 1 .. SeedCount(batch) /\ d \in Matches(batch) /\ d[1] = i /\ d[2] = j
    BY <1>2
  <2>2. to[m] = J /\ F[m] = Taken(batch, i, j, s)
    OBVIOUS
  <2> HIDE DEF d, j, s, D, To, to, F
  <2>3. J \in Z /\ keys[J][1] = i /\ ScoreOf[MatchOf(batch, i, j, s)] = r
    BY <2>1, JobOK
  <2> HIDE DEF J
  <2>4. r \in [w1: Nat, w2: Nat, ties: Nat]
    BY <2>3, KeysOK
  <2>5. G[J] = Value(r, p)
    BY <2>3
  <2> HIDE DEF r, G
  <2>6. Value(r, p) \in Int
    BY <1>1, <2>4, NoPoints, ScoreAdds
  <2>7. Taken(batch, i, j, s) = p.win * r.w1 + p.tie * r.ties + p.loss * r.w2
    BY <2>3 DEF Taken
  <2>8. p.win * r.w1 + p.tie * r.ties + p.loss * r.w2 = r.w1 * p.win + r.ties * p.tie + r.w2 * p.loss
    <3>1. \A x, y \in Int : x * y = y * x
      OBVIOUS
    <3>2. /\ p.win \in Int /\ p.tie \in Int /\ p.loss \in Int
          /\ r.w1 \in Int /\ r.ties \in Int /\ r.w2 \in Int
      BY <1>1, <2>4 DEF PointsFor
    <3> HIDE DEF p
    <3>3. p.win * r.w1 = r.w1 * p.win /\ p.tie * r.ties = r.ties * p.tie /\ p.loss * r.w2 = r.w2 * p.loss
      BY <3>1, <3>2
    <3> QED BY <3>3
  <2> QED BY <2>2, <2>3, <2>5, <2>6, <2>7, <2>8 DEF Value
<1>4. to \in [U -> Z] /\ F \in [U -> Int] /\ \A m \in U : F[m] = Taken(batch, i, m[1], m[2])
  BY <1>3
<1>5. ASSUME NEW m \in U, NEW q \in U, to[m] = to[q] PROVE m = q
  <2>1. To(m) = To(q)
    BY <1>5
  <2>2. D(m) = D(q) /\ m[2] = q[2]
    <3> HIDE DEF D
    <3> QED BY <1>1, <1>2, <2>1, JobsApart
  <2>3. m[1] = q[1]
    BY <2>2
  <2> QED BY <1>2, <2>2, <2>3
<1>6. ASSUME NEW k \in Z, \A m \in U : to[m] # k PROVE G[k] = 0
  <2> SUFFICES ASSUME keys[k][1] = i PROVE FALSE
    OBVIOUS
  <2>1. PICK d \in Matches(batch), s \in 1 .. SeedCount(batch) : k = Job(batch, d, s)
    <3>1. Listed(batch, keys, Matches(batch))
      BY <1>1, KeysListed DEF AllPlayed
    <3> QED BY <3>1 DEF Listed
  <2>2. d[1] = i
    BY <2>1, JobOK
  <2>3. d = <<i, d[2]>> /\ d[2] \in DOMAIN Right(batch) /\ Left(batch)[i] # Right(batch)[d[2]]
    <3>1. d = <<d[1], d[2]>> /\ d[2] \in Rights(batch) /\ Left(batch)[d[1]] # Right(batch)[d[2]]
      BY DEF Matches, Opposed
    <3> QED BY <1>1, <2>2, <3>1, RangesOK
  <2> DEFINE m == <<d[2], s>>
  <2>4. m \in U /\ m[1] = d[2] /\ m[2] = s
    BY <1>1, <2>3 DEF Meetings
  <2>5. to[m] = Job(batch, d, s)
    BY <2>3, <2>4
  <2> QED BY <1>6, <2>1, <2>4, <2>5
<1>7. G \in [Z -> Int] /\ SumsTo(Z, G, Points(Total(i), p))
  <2> HIDE DEF p
  <2> QED BY <1>1, TotalSum
<1>8. IsFiniteSet(U) /\ IsFiniteSet(Z)
  BY <1>1, MeetingsOK, KeysOK
<1>9. SumsTo(U, F, Worth(batch, i))
  <2> HIDE DEF F
  <2> QED BY <1>1, <1>4, WorthSum
<1>10. \A m \in U : G[to[m]] = F[m]
  BY <1>3
<1> HIDE DEF U, Z, G, F, to
<1>11. Worth(batch, i) = Points(Total(i), p)
  BY <1>4, <1>5, <1>6, <1>7, <1>8, <1>9, <1>10, SumMoved
<1> QED BY <1>11

\* There is an order by any scores.
LEMMA OrderOK ==
  ASSUME NEW n \in Nat, NEW score \in [1 .. n -> Int]
  PROVE  /\ Order(score) \in [1 .. n -> 1 .. n] /\ ToSet(Order(score)) = 1 .. n
         /\ \A p, q \in 1 .. n : p < q =>
              \/ score[Order(score)[p]] > score[Order(score)[q]]
              \/ score[Order(score)[p]] = score[Order(score)[q]] /\ Order(score)[p] < Order(score)[q]
<1> DEFINE Z == 1 .. n
           Ahead(x, y) == score[x] > score[y] \/ (score[x] = score[y] /\ x < y)
           R == {q \in Z \X Z : Ahead(q[1], q[2])}
           IsOrder(list) == /\ ToSet(list) = DOMAIN score
                            /\ \A p, q \in DOMAIN list : p < q => Ahead(list[p], list[q])
<1>1. IsFiniteSet(Z) /\ Cardinality(Z) = n
  BY FS_Interval
<1>2. DOMAIN score = Z /\ \A x \in Z : score[x] \in Int /\ x \in Int
  OBVIOUS
<1>3. \A x, y \in Z : <<x, y>> \in R <=> Ahead(x, y)
  OBVIOUS
<1> HIDE DEF Z, R
<1>4. Orders(R, Z)
  <2>1. \A x, y \in Z : x # y => Ahead(x, y) \/ Ahead(y, x)
    BY <1>2
  <2>2. \A x, y, z \in Z : Ahead(x, y) /\ Ahead(y, z) => Ahead(x, z)
    BY <1>2
  <2> HIDE DEF Ahead
  <2> QED BY <1>3, <2>1, <2>2 DEF Orders
<1> HIDE DEF Ahead
<1>5. PICK list : Lists(list, Z, R)
  BY <1>1, <1>4, ListExists
<1>6. list \in [Z -> Z] /\ IsOrder(list)
  <2>1. list \in [Z -> Z] /\ ToSet(list) = Z
    BY <1>1, <1>5 DEF Lists, Z
  <2>2. ASSUME NEW p \in DOMAIN list, NEW q \in DOMAIN list, p < q
        PROVE  Ahead(list[p], list[q])
    <3>1. <<list[p], list[q]>> \in R
      BY <1>5, <2>2 DEF Lists
    <3>2. list[p] \in Z /\ list[q] \in Z
      BY <2>1
    <3> QED BY <1>3, <3>1, <3>2
  <2> QED BY <1>2, <2>1, <2>2
<1>7. Order(score) = CHOOSE l \in [DOMAIN score -> DOMAIN score] : IsOrder(l)
  BY DEF Order, Ahead
<1>8. \E l \in [DOMAIN score -> DOMAIN score] : IsOrder(l)
  BY <1>2, <1>6
<1> HIDE DEF IsOrder
<1>9. Order(score) \in [DOMAIN score -> DOMAIN score] /\ IsOrder(Order(score))
  BY <1>7, <1>8
<1> DEFINE o == Order(score)
<1> HIDE DEF o
<1>10. o \in [Z -> Z] /\ ToSet(o) = Z /\ \A p, q \in Z : p < q => Ahead(o[p], o[q])
  BY <1>2, <1>9 DEF o, IsOrder
<1> QED BY <1>10 DEF o, Z, Ahead

\* Where a match is placed.
LEMMA PlacedOK ==
  ASSUME AllPlayed, NEW k \in Numbers
  PROVE  Placed(batch, keys[k + 1], k)
<1> DEFINE L == SeedCount(batch)
           c(m) == Cardinality(Before(batch, m[1], m[2]))
<1>1. /\ batch \in Batches /\ Listed(batch, keys, Matches(batch)) /\ k + 1 \in 1 .. Len(keys)
      /\ k \in Int
  BY KeysListed, KeysOK DEF AllPlayed, Numbers
<1>2. PICK m \in Matches(batch), s \in 1 .. L : k + 1 = Job(batch, m, s)
  BY <1>1 DEF Listed
<1>3. keys[k + 1] = <<m[1], m[2], Seeds(batch, c(m) * L)[s]>>
  BY <1>1, <1>2 DEF Listed
<1>4. MatchOf(batch, m[1], m[2], s) = (k + 1) - 1 /\ (k + 1) - 1 = k
  BY <1>1, <1>2, JobOK
<1>5. CASE Tournament(batch)
  <2>1. L = 1 /\ s = 1 /\ MatchOf(batch, m[1], m[2], s) = c(m)
    BY <1>5 DEF SeedCount, MatchOf
  <2>2. c(m) * 1 = k /\ k * 997 = 997 * k
    BY <1>1, <1>4, <2>1
  <2>3. Seeds(batch, c(m) * L) = <<(k * 997) % Positions>>
    BY <1>5, <2>1, <2>2 DEF Seeds
  <2> HIDE DEF c
  <2>4. keys[k + 1][3] = (997 * k) % Positions
    BY <1>3, <2>1, <2>2, <2>3
  <2> QED BY <1>5, <2>4 DEF Placed
<1>6. CASE ~Tournament(batch)
  <2>1. Seeds(batch, c(m) * L) = batch.seeds
    BY <1>6 DEF Seeds
  <2>2. s \in DOMAIN batch.seeds
    BY <1>1, <1>6, SidesOK DEF SeedCount
  <2> HIDE DEF c
  <2>3. /\ keys[k + 1][1] = m[1] /\ keys[k + 1][2] = m[2] /\ keys[k + 1][3] = batch.seeds[s]
        /\ k = MatchOf(batch, m[1], m[2], s)
    BY <1>3, <1>4, <2>1
  <2> QED BY <1>6, <2>2, <2>3 DEF Placed
<1> QED BY <1>5, <1>6

\* The table of a batch that has been played.
LEMMA TableRight ==
  ASSUME AllPlayed
  PROVE  \E rows \in {Standings(batch)} :
           /\ {rows[n].warrior : n \in DOMAIN rows} = DOMAIN Left(batch)
           /\ \A n \in DOMAIN rows : rows[n].score = Worth(batch, rows[n].warrior)
           /\ \A m, n \in DOMAIN rows : m < n =>
                \/ rows[m].score > rows[n].score
                \/ rows[m].score = rows[n].score /\ rows[m].warrior < rows[n].warrior
           /\ \A k \in Numbers : Placed(batch, keys[k + 1], k)
<1> DEFINE N == Len(Left(batch))
           score == [i \in 1 .. N |-> Score(batch, i)]
           o == Order(score)
           rows == Standings(batch)
<1>1. N \in Nat /\ DOMAIN Left(batch) = 1 .. N /\ Lefts(batch) = 1 .. N
  BY RangesOK DEF AllPlayed, Lefts
<1>2. ASSUME NEW i \in 1 .. N PROVE Score(batch, i) = Worth(batch, i) /\ Score(batch, i) \in Int
  <2>1. CASE Tournament(batch)
    <3>1. TournamentScore(i) = Worth(batch, i)
      BY <1>1, <2>1, TournamentWorth
    <3>2. TournamentScore(i) \in Int
      BY GainedSum DEF SumsTo
    <3> QED BY <2>1, <3>1, <3>2 DEF Score
  <2>2. CASE ~Tournament(batch)
    <3>1. Points(Total(i), batch.points) = Worth(batch, i)
      BY <1>1, <2>2, VersusWorth
    <3>2. batch.points \in PointsFor
      BY <2>2, SidesOK DEF AllPlayed, PointsFor
    <3>3. Points(Total(i), batch.points) \in Int
      BY <3>2, TotalSum DEF SumsTo
    <3> QED BY <2>2, <3>1, <3>3 DEF Score
  <2> QED BY <2>1, <2>2
<1>3. score \in [1 .. N -> Int] /\ \A i \in 1 .. N : score[i] = Worth(batch, i)
  BY <1>2
<1>4. Standings(batch) = Scored(batch, score)
  BY <1>1 DEF Standings
<1> HIDE DEF score, N
<1>5. /\ o \in [1 .. N -> 1 .. N] /\ ToSet(o) = 1 .. N
      /\ \A p, q \in 1 .. N : p < q =>
           score[o[p]] > score[o[q]] \/ (score[o[p]] = score[o[q]] /\ o[p] < o[q])
  BY <1>1, <1>3, OrderOK
<1>6. rows = [place \in DOMAIN o |-> Row(batch, o[place], score[o[place]])]
  BY <1>4 DEF Scored, Ordered
<1> HIDE DEF o, rows
<1>7. DOMAIN rows = 1 .. N
  BY <1>5, <1>6
<1>8. ASSUME NEW n \in 1 .. N
      PROVE  o[n] \in 1 .. N /\ rows[n].warrior = o[n] /\ rows[n].score = score[o[n]]
  <2>1. rows[n] = Row(batch, o[n], score[o[n]])
    BY <1>5, <1>6
  <2>2. Row(batch, o[n], score[o[n]]).warrior = o[n] /\ Row(batch, o[n], score[o[n]]).score = score[o[n]]
    BY DEF Row
  <2> QED BY <1>5, <2>1, <2>2
<1>9. {rows[n].warrior : n \in DOMAIN rows} = DOMAIN Left(batch)
  <2>1. ToSet(o) = {o[n] : n \in 1 .. N}
    BY <1>5 DEF ToSet
  <2>2. {rows[n].warrior : n \in 1 .. N} = {o[n] : n \in 1 .. N}
    BY <1>8
  <2> QED BY <1>1, <1>5, <1>7, <2>1, <2>2
<1>10. \A n \in DOMAIN rows : rows[n].score = Worth(batch, rows[n].warrior)
  BY <1>3, <1>7, <1>8
<1>11. \A m, n \in DOMAIN rows : m < n =>
         \/ rows[m].score > rows[n].score
         \/ rows[m].score = rows[n].score /\ rows[m].warrior < rows[n].warrior
  BY <1>5, <1>7, <1>8
<1> QED BY <1>9, <1>10, <1>11, PlacedOK DEF rows

\* README, "every warrior plays every opponent on every seed": whatever the
\* command line and however the threads ran, the table gives each warrior the
\* points of its own matches, in the order of those points, and each match is
\* placed as documented.
THEOREM TablesArePlayed == TablesSpec => []TableAsPlayed
<1> DEFINE Inv == IInv /\ batch \in Batches /\ keys = Keys(batch) /\ jobs = Len(keys)
<1>1. TablesInit => Inv
  BY InitIInv DEF TablesInit
<1>2. Inv /\ [TablesNext]_tables => Inv'
  <2> SUFFICES ASSUME Inv, [TablesNext]_tables PROVE Inv'
    OBVIOUS
  <2>1. [Next]_vars /\ UNCHANGED <<batch, keys>>
    BY DEF TablesNext, tables, vars
  <2>2. IInv'
    BY <2>1, InvariantStep
  <2>3. jobs' = jobs
    BY <2>1 DEF Next, Worker, Caller, Claim, Play, Join, PlayAlone, ReturnAlone, vars
  <2> QED BY <2>1, <2>2, <2>3
<1>3. Inv => TableAsPlayed
  <2> SUFFICES ASSUME Inv, Returned PROVE TableAsPlayed
    BY DEF TableAsPlayed
  <2>1. AllPlayed
    BY ScoresReturned DEF AllPlayed, IInv
  <2> QED BY <2>1, TableRight DEF TableAsPlayed
<1> QED BY <1>1, <1>2, <1>3, PTL DEF TablesSpec
=============================================================================
