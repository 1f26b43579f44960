------------------------------- MODULE MCPool -------------------------------
(***************************************************************************)
(* Batches of up to four jobs on up to four threads, every job with a      *)
(* score and an instruction count of its own: tournaments of two and three *)
(* warriors, and warriors against opponents with copies, sources that do   *)
(* not assemble, directories, members of a hill and one seed or two.       *)
(***************************************************************************)
EXTENDS Tables

S(w1, w2, ties) == [w1 |-> w1, w2 |-> w2, ties |-> ties]
MCScoreOf == [k \in 0 .. MaxJobs - 1 |-> <<S(1, 2, 0), S(0, 1, 2), S(3, 0, 0), S(1, 1, 1)>>[k + 1]]
MCDefault == S(0, 0, 0)
MCScores == {MCDefault} \cup {MCScoreOf[k] : k \in DOMAIN MCScoreOf}
MCStepsOf == [k \in 0 .. MaxJobs - 1 |-> 10 ^ k]

File(f) == [dir |-> FALSE, file |-> f]
Dir(files) == [dir |-> TRUE, files |-> files]
Round(files) == [command |-> "tournament", files |-> files]
Against(files, members, against, seeds) ==
  [command |-> "versus", files |-> files, members |-> members, against |-> against,
   seeds |-> seeds, points |-> IF members = << >> THEN [win |-> 3, tie |-> 1, loss |-> 0]
                               ELSE [win |-> 2, tie |-> 0, loss |-> -1]]

\* Source 4 reads W and S; 5 assembles for nobody.
MCAsFirst  == {1, 2, 3, 4}
MCAsSecond == {1, 2, 3}

MCBatches == {
  Round(<<2, 1>>), Round(<<1, 2, 1>>), Round(<<3, 1, 2>>), Round(<<1, 4>>),
  Against(<<File(1)>>, << >>, <<File(1)>>, <<7>>),
  Against(<<File(1)>>, << >>, <<File(5), File(4)>>, <<7>>),
  Against(<<File(5), File(2)>>, << >>, <<Dir({4, 3, 1})>>, <<7, 0>>),
  Against(<<Dir({2, 1})>>, <<2, 1>>, << >>, <<0, 7>>),
  Against(<<File(1), File(3)>>, <<3, 1>>, <<File(2)>>, <<7>>),
  Against(<<File(4), File(1)>>, << >>, <<File(1), File(1)>>, <<7>>)
}

\* Every command line above that cw does not turn away is within the bound on
\* jobs, so that it is played.
ASSUME BatchesFit == \A b \in MCBatches : Refused(b) \/ Len(Keys(b)) <= MaxJobs
=============================================================================
