------------------------------- MODULE MCHill -------------------------------
(***************************************************************************)
(* Three warriors that beat each other in a circle, so that who is on the  *)
(* hill decides how the others rank, and rules that differ in everything a *)
(* rule can: size, tie break, placement, parameters and points.            *)
(***************************************************************************)
EXTENDS Hill

CONSTANTS r1, r2

RuleSet == LET R(size, newer, random, params, tie) ==
                 [size |-> size, newer |-> newer, random |-> random, params |-> params,
                  points |-> [win |-> 3, tie |-> tie, loss |-> 0]]
           IN { R(2, FALSE, FALSE, "p", 1),  \* the rules of most hills
                R(0, TRUE,  FALSE, "p", 1),  \* a ladder, newer first
                R(2, FALSE, TRUE,  "p", 1),  \* random placement
                R(2, FALSE, FALSE, "q", 4) } \* other parameters and points

TwoRules == { R \in RuleSet : R.params = "p" /\ ~R.random }

\* Warrior 3 is too long for "q".
MCAssembles(params, x) == params = "p" \/ x # 3

\* Under "p", 1 beats 2, 2 beats 3 and 3 beats 1, the other way round from
\* the second position; "q" has two rounds, one of them a tie.
MCPlay(params, a, b, seed) ==
  LET aWins == (b = a + 1) = (seed = 0)
  IN IF params = "q" THEN [w1 |-> IF aWins THEN 1 ELSE 0, w2 |-> IF aWins THEN 0 ELSE 1, ties |-> 1]
     ELSE IF aWins THEN [w1 |-> 1, w2 |-> 0, ties |-> 0]
     ELSE [w1 |-> 0, w2 |-> 1, ties |-> 0]

MCHashSeed(a, b) == 0
MCDrawnSeed(draw, a, b) == (draw + a) % 2

RunSymmetry == Permutations(Runs)
=============================================================================
