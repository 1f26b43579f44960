----------------------------- MODULE HillProofs -----------------------------
(***************************************************************************)
(* What a hill promises for any number of runs, challenges, crashes and    *)
(* edits, whatever a match comes to.                                       *)
(*                                                                         *)
(* What a challenge makes of a table is found by following its folds one   *)
(* member or challenger at a time (CommonProofs): ranking loses and adds   *)
(* nobody, who is kept had a source, who enters is new, and a join gives   *)
(* the next arrival number and ages the others by one.                     *)
(*                                                                         *)
(* That a table and results are sound needs no lock: what is saved was     *)
(* made of something sound.  That no challenge is lost does: a challenge   *)
(* starts from the table on disk, because the lock is one run's from its   *)
(* load to its last write (LockHeld), and because who made the directory a *)
(* hill has stopped writing by then (OneInit).  This is for one init; two  *)
(* at once are the exception the run hill_init shows.                      *)
(*                                                                         *)
(* That verify finds nothing wrong with what was saved (Saved) compares a  *)
(* table with a ranking of itself: ranking sorts, distinct members have    *)
(* only one order, and a member's score is a sum over the others that does *)
(* not depend on theirs.                                                   *)
(***************************************************************************)
EXTENDS Hill, CommonProofs

-----------------------------------------------------------------------------
\* Ranking, keeping and entering.

\* Inserting anywhere.
LEMMA Inserting ==
  ASSUME NEW S, NEW s \in Seq(S), NEW e \in S, NEW p \in 1 .. Len(s) + 1
  PROVE  /\ InsertAt(s, p, e) \in Seq(S)
         /\ Len(InsertAt(s, p, e)) = Len(s) + 1
         /\ \A k \in 1 .. Len(s) + 1 :
              InsertAt(s, p, e)[k] = IF k < p THEN s[k] ELSE IF k = p THEN e ELSE s[k - 1]
<1> DEFINE n == Len(s)
           a == SubSeq(s, 1, p - 1)
           b == SubSeq(s, p, n)
           c == a \o <<e>>
<1>1. n \in Nat /\ p \in Nat /\ p >= 1 /\ p <= n + 1
  OBVIOUS
<1>2. a \in Seq(S) /\ Len(a) = p - 1 /\ \A k \in 1 .. p - 1 : a[k] = s[k]
  BY <1>1
<1>3. b \in Seq(S) /\ Len(b) = n - p + 1 /\ \A k \in 1 .. n - p + 1 : b[k] = s[k + p - 1]
  BY <1>1
<1>4. InsertAt(s, p, e) = c \o b
  BY DEF InsertAt
<1> HIDE DEF a, b
<1>5. c \in Seq(S) /\ Len(c) = p /\ \A k \in 1 .. p : c[k] = IF k = p THEN e ELSE a[k]
  BY <1>1, <1>2
<1> HIDE DEF c
<1>6. /\ c \o b \in Seq(S) /\ Len(c \o b) = n + 1
      /\ \A k \in 1 .. n + 1 : (c \o b)[k] = IF k <= p THEN c[k] ELSE b[k - p]
  <2>0. c \in Seq(S) /\ b \in Seq(S)
    BY <1>3, <1>5
  <2>1. c \o b \in Seq(S) /\ Len(c \o b) = Len(c) + Len(b)
    BY <2>0
  <2>2. Len(c) + Len(b) = n + 1
    BY <1>1, <1>3, <1>5
  <2>3. \A k \in 1 .. Len(c) + Len(b) :
          (c \o b)[k] = IF k <= Len(c) THEN c[k] ELSE b[k - Len(c)]
    BY <2>0
  <2> QED BY <1>5, <2>1, <2>2, <2>3
<1>7. ASSUME NEW k \in 1 .. n + 1
      PROVE  (c \o b)[k] = IF k < p THEN s[k] ELSE IF k = p THEN e ELSE s[k - 1]
  <2>1. CASE k <= p
    BY <1>1, <1>2, <1>5, <1>6, <2>1
  <2>2. CASE k > p
    <3>1. k - p \in 1 .. n - p + 1 /\ (k - p) + p - 1 = k - 1 /\ ~(k <= p)
      BY <1>1, <2>2
    <3>2. (c \o b)[k] = b[k - p] /\ b[k - p] = s[k - 1]
      BY <1>3, <1>6, <3>1
    <3>3. ~(k < p) /\ k # p
      BY <1>1, <2>2
    <3> QED BY <3>2, <3>3
  <2>3. k <= p \/ k > p
    BY <1>1
  <2> QED BY <2>1, <2>2, <2>3
<1> QED BY <1>4, <1>6, <1>7

\* Inserting behind the last is appending.
LEMMA InsertAtEnd ==
  ASSUME NEW S, NEW s \in Seq(S), NEW e \in S
  PROVE  InsertAt(s, Len(s) + 1, e) = Append(s, e)
<1>1. SubSeq(s, 1, (Len(s) + 1) - 1) = s /\ SubSeq(s, Len(s) + 1, Len(s)) = << >>
  OBVIOUS
<1>2. InsertAt(s, Len(s) + 1, e) = (s \o <<e>>) \o << >>
  BY <1>1 DEF InsertAt
<1>3. (s \o <<e>>) \o << >> = Append(s, e)
  OBVIOUS
<1> QED BY <1>2, <1>3

\* The place Insert gives is one of the table's or the one after it.
LEMMA InsertPlace ==
  ASSUME NEW S, NEW ranked \in Seq(S), NEW m, NEW score, NEW R
  PROVE  1 + Cardinality({ i \in DOMAIN ranked : ~Before(m, ranked[i], score, R) })
           \in 1 .. Len(ranked) + 1
<1> DEFINE D == { i \in 1 .. Len(ranked) : ~Before(m, ranked[i], score, R) }
<1> DEFINE n == Len(ranked)
<1>0. n \in Nat
  OBVIOUS
<1>1. IsFiniteSet(1 .. n) /\ Cardinality(1 .. n) = n
  <2>1. 1 \in Int /\ n \in Int
    BY <1>0
  <2> HIDE DEF n
  <2>2. IsFiniteSet(1 .. n) /\ Cardinality(1 .. n) = IF 1 > n THEN 0 ELSE n - 1 + 1
    BY <2>1, FS_Interval
  <2> QED BY <1>0, <2>2
<1>2. IsFiniteSet(D) /\ Cardinality(D) <= Cardinality(1 .. Len(ranked)) /\ Cardinality(D) \in Nat
  BY <1>1, FS_Subset, FS_CardinalityType
<1>3. DOMAIN ranked = 1 .. Len(ranked)
  OBVIOUS
<1>4. Cardinality(D) \in Nat /\ Cardinality(D) <= n
  BY <1>1, <1>2
<1>5. { i \in DOMAIN ranked : ~Before(m, ranked[i], score, R) } = D
  BY <1>3
<1> DEFINE c == Cardinality({ i \in DOMAIN ranked : ~Before(m, ranked[i], score, R) })
<1>6. c = Cardinality(D)
  BY <1>5, Zenon
<1> HIDE DEF D, c
<1>7. 1 + c \in 1 .. n + 1
  BY <1>0, <1>4, <1>6
<1> QED BY <1>7 DEF c

\* Inserting a member makes a table of a table.
LEMMA InsertIs ==
  ASSUME NEW v \in Seq(Member), NEW m \in Member, NEW score, NEW R
  PROVE  /\ Insert(v, m, score, R) \in Seq(Member)
         /\ \E p \in 1 .. Len(v) + 1 : Insert(v, m, score, R) = InsertAt(v, p, m)
<1> DEFINE p == 1 + Cardinality({ k \in DOMAIN v : ~Before(m, v[k], score, R) })
<1>1. p \in 1 .. Len(v) + 1
  BY InsertPlace
<1> HIDE DEF p
<1>2. Insert(v, m, score, R) = InsertAt(v, p, m)
  BY DEF Insert, p
<1> QED BY <1>1, <1>2, Inserting

\* The scores members are ranked by.
ScoresOf(members, matches, R) ==
  LET S == IdsOf(members) IN [x \in S |-> ScoreOf(x, S, matches, R.points)]

\* hist: the table after each member.
RankedBy(hist, members, matches, R) ==
  /\ hist \in [0 .. Len(members) -> Seq(Member)]
  /\ hist[0] = << >>
  /\ hist[Len(members)] = Ranked(members, matches, R)
  /\ \A i \in 1 .. Len(members) :
       hist[i] = Insert(hist[i - 1], members[i], ScoresOf(members, matches, R), R)

\* Ranking puts in one member after another.
LEMMA RankedHistory ==
  ASSUME NEW members \in Seq(Member), NEW matches, NEW R
  PROVE  \E hist : RankedBy(hist, members, matches, R)
<1> DEFINE n == Len(members)
           S == IdsOf(members)
           score == [x \in S |-> ScoreOf(x, S, matches, R.points)]
           V == Seq(Member)
           F == [q \in (1 .. n) \X V |-> Insert(q[2], members[q[1]], score, R)]
<1>1. n \in Nat /\ DOMAIN members = 1 .. n
  OBVIOUS
<1> HIDE DEF score, n, V
<1>2. ASSUME NEW v \in V, NEW i \in 1 .. n PROVE Insert(v, members[i], score, R) \in V
  <2>1. members[i] \in Member
    BY <1>1
  <2> QED BY <2>1, InsertIs DEF V
<1>3. F \in [(1 .. n) \X V -> V]
  BY <1>2
<1>4. PICK g \in [SUBSET (1 .. n) -> V] : IsFold(g, n, << >>, F)
  <2>1. << >> \in V
    BY DEF V
  <2> HIDE DEF F
  <2> QED BY <1>1, <1>3, <2>1, FoldExists
<1> DEFINE Is(it) == it = [s \in SUBSET (1 .. n) |->
                            IF s = {} THEN << >>
                            ELSE Insert(it[s \ {Max(s)}], members[Max(s)], score, R)]
           iter == CHOOSE it : Is(it)
<1>5. Is(g)
  <2>1. ASSUME NEW s \in SUBSET (1 .. n), s # {}
        PROVE  g[s] = Insert(g[s \ {Max(s)}], members[Max(s)], score, R)
    <3> DEFINE x == Max(s)
    <3>1. x \in 1 .. n
      BY <1>1, <2>1, MaxIn
    <3> HIDE DEF x
    <3>2. s \ {x} \in SUBSET (1 .. n) /\ g[s \ {x}] \in V
      OBVIOUS
    <3> QED BY <1>4, <2>1, <3>1, <3>2 DEF x, IsFold
  <2>2. g[{}] = << >>
    BY <1>4 DEF IsFold
  <2> QED BY <2>1, <2>2
<1>6. Is(iter)
  <2> HIDE DEF Is
  <2> QED BY <1>5
<1>7. Ranked(members, matches, R) = iter[1 .. n]
  BY <1>1 DEF Ranked, FoldLeft, MapThenFoldSet, score
<1> HIDE DEF iter
<1>8. HasHistory(n, V, << >>, F, iter[1 .. n])
  <2>1. iter[{}] = << >>
    BY <1>6
  <2>2. ASSUME NEW s \in SUBSET (1 .. n), s # {}, iter[s \ {Max(s)}] \in V
        PROVE  iter[s] = F[<<Max(s), iter[s \ {Max(s)}]>>]
    <3>1. Max(s) \in 1 .. n
      BY <1>1, <2>2, MaxIn
    <3>2. iter[s] = Insert(iter[s \ {Max(s)}], members[Max(s)], score, R)
      BY <1>6, <2>2
    <3> QED BY <2>2, <3>1, <3>2
  <2>3. << >> \in V
    BY DEF V
  <2>4. FoldsIn(V, iter, n, F)
    BY <2>2 DEF FoldsIn
  <2> HIDE DEF F
  <2> QED BY <1>1, <1>3, <2>1, <2>3, <2>4, FoldSteps
<1>9. PICK hist \in [0 .. n -> V] :
        /\ hist[0] = << >>
        /\ hist[n] = iter[1 .. n]
        /\ \A i \in 1 .. n : hist[i] = F[<<i, hist[i - 1]>>]
  BY <1>8 DEF HasHistory
<1>10. ASSUME NEW i \in 1 .. n
      PROVE  hist[i - 1] \in V /\ hist[i] = Insert(hist[i - 1], members[i], score, R)
  <2>1. i - 1 \in 0 .. n
    BY <1>1
  <2>2. hist[i - 1] \in V
    BY <1>9, <2>1
  <2>3. F[<<i, hist[i - 1]>>] = Insert(hist[i - 1], members[i], score, R)
    BY <2>2
  <2> HIDE DEF F
  <2> QED BY <1>9, <2>2, <2>3
<1>11. score = ScoresOf(members, matches, R)
  BY DEF score, ScoresOf
<1>12. RankedBy(hist, members, matches, R)
  BY <1>7, <1>9, <1>10, <1>11 DEF RankedBy, V, n
<1> QED BY <1>12

\* hist: who is kept of the first members.
KeptBy(hist, members, R) ==
  /\ hist \in [0 .. Len(members) -> Seq(Member)]
  /\ hist[0] = << >>
  /\ hist[Len(members)] = Kept(members, R)
  /\ \A i \in 1 .. Len(members) :
       hist[i] = IF members[i].id \in sources /\ Assembles(R.params, members[i].id)
                 THEN Append(hist[i - 1], members[i]) ELSE hist[i - 1]

\* Who is kept is found one after another.
LEMMA KeptHistory ==
  ASSUME NEW members \in Seq(Member), NEW R
  PROVE  \E hist : KeptBy(hist, members, R)
<1> DEFINE n == Len(members)
           V == Seq(Member)
           Op(v, e) == IF e.id \in sources /\ Assembles(R.params, e.id) THEN Append(v, e) ELSE v
           F == [q \in (1 .. n) \X V |-> Op(q[2], members[q[1]])]
<1>1. n \in Nat /\ DOMAIN members = 1 .. n
  OBVIOUS
<1>2. ASSUME NEW v \in V, NEW i \in 1 .. n PROVE Op(v, members[i]) \in V
  <2>1. members[i] \in Member
    BY <1>1
  <2> QED BY <2>1
<1> HIDE DEF n, V
<1>3. F \in [(1 .. n) \X V -> V]
  BY <1>2
<1>4. PICK g \in [SUBSET (1 .. n) -> V] : IsFold(g, n, << >>, F)
  <2>1. << >> \in V
    BY DEF V
  <2> HIDE DEF F
  <2> QED BY <1>1, <1>3, <2>1, FoldExists
<1> DEFINE Is(it) == it = [s \in SUBSET (1 .. n) |->
                            IF s = {} THEN << >>
                            ELSE Op(it[s \ {Max(s)}], members[Max(s)])]
           iter == CHOOSE it : Is(it)
<1>5. Is(g)
  <2>1. ASSUME NEW s \in SUBSET (1 .. n), s # {}
        PROVE  g[s] = Op(g[s \ {Max(s)}], members[Max(s)])
    <3> DEFINE x == Max(s)
    <3>1. x \in 1 .. n
      BY <1>1, <2>1, MaxIn
    <3> HIDE DEF x
    <3>2. s \ {x} \in SUBSET (1 .. n) /\ g[s \ {x}] \in V
      OBVIOUS
    <3> QED BY <1>4, <2>1, <3>1, <3>2 DEF x, IsFold
  <2>2. g[{}] = << >>
    BY <1>4 DEF IsFold
  <2> QED BY <2>1, <2>2
<1>6. Is(iter)
  <2> HIDE DEF Is
  <2> QED BY <1>5
<1>7. Kept(members, R) = iter[1 .. n]
  BY <1>1 DEF Kept, FoldLeft, MapThenFoldSet
<1> HIDE DEF iter
<1>8. HasHistory(n, V, << >>, F, iter[1 .. n])
  <2>1. iter[{}] = << >>
    BY <1>6
  <2>2. ASSUME NEW s \in SUBSET (1 .. n), s # {}, iter[s \ {Max(s)}] \in V
        PROVE  iter[s] = F[<<Max(s), iter[s \ {Max(s)}]>>]
    <3>1. Max(s) \in 1 .. n
      BY <1>1, <2>2, MaxIn
    <3>2. iter[s] = Op(iter[s \ {Max(s)}], members[Max(s)])
      BY <1>6, <2>2
    <3> QED BY <2>2, <3>1, <3>2
  <2>3. << >> \in V
    BY DEF V
  <2>4. FoldsIn(V, iter, n, F)
    BY <2>2 DEF FoldsIn
  <2> HIDE DEF F
  <2> QED BY <1>1, <1>3, <2>1, <2>3, <2>4, FoldSteps
<1>9. PICK hist \in [0 .. n -> V] :
        /\ hist[0] = << >>
        /\ hist[n] = iter[1 .. n]
        /\ \A i \in 1 .. n : hist[i] = F[<<i, hist[i - 1]>>]
  BY <1>8 DEF HasHistory
<1>10. ASSUME NEW i \in 1 .. n
      PROVE  hist[i - 1] \in V /\ hist[i] = Op(hist[i - 1], members[i])
  <2>1. i - 1 \in 0 .. n
    BY <1>1
  <2>2. hist[i - 1] \in V
    BY <1>9, <2>1
  <2>3. F[<<i, hist[i - 1]>>] = Op(hist[i - 1], members[i])
    BY <2>2
  <2> HIDE DEF F, Op
  <2> QED BY <1>9, <2>2, <2>3
<1>11. KeptBy(hist, members, R)
  BY <1>7, <1>9, <1>10 DEF KeptBy, V, n
<1> QED BY <1>11

\* hist: who enters of the first files.
EnteredBy(hist, given, members, R) ==
  /\ hist \in [0 .. Len(given) -> Seq(Ids)]
  /\ hist[0] = << >>
  /\ hist[Len(given)] = Entrants(given, members, R)
  /\ \A i \in 1 .. Len(given) :
       hist[i] = IF given[i] \in Ids /\ Assembles(R.params, given[i])
                    /\ given[i] \notin IdsOf(members) /\ given[i] \notin ToSet(hist[i - 1])
                 THEN Append(hist[i - 1], given[i]) ELSE hist[i - 1]

\* So is who enters.
LEMMA EntrantsHistory ==
  ASSUME NEW given \in FileLists, NEW members, NEW R
  PROVE  \E hist : EnteredBy(hist, given, members, R)
<1> DEFINE n == Len(given)
           V == Seq(Ids)
           Op(v, e) == IF e \in Ids /\ Assembles(R.params, e)
                          /\ e \notin IdsOf(members) /\ e \notin ToSet(v)
                       THEN Append(v, e) ELSE v
           F == [q \in (1 .. n) \X V |-> Op(q[2], given[q[1]])]
<1>1. n \in Nat /\ DOMAIN given = 1 .. n
  <2>1. PICK m \in 0 .. MaxFiles : given \in [1 .. m -> Ids \cup {Garbage}]
    BY DEF FileLists, SeqOf
  <2> QED BY <2>1
<1>2. ASSUME NEW v \in V, NEW i \in 1 .. n PROVE Op(v, given[i]) \in V
  OBVIOUS
<1> HIDE DEF n, V
<1>3. F \in [(1 .. n) \X V -> V]
  BY <1>2
<1>4. PICK g \in [SUBSET (1 .. n) -> V] : IsFold(g, n, << >>, F)
  <2>1. << >> \in V
    BY DEF V
  <2> HIDE DEF F
  <2> QED BY <1>1, <1>3, <2>1, FoldExists
<1> DEFINE Is(it) == it = [s \in SUBSET (1 .. n) |->
                            IF s = {} THEN << >>
                            ELSE Op(it[s \ {Max(s)}], given[Max(s)])]
           iter == CHOOSE it : Is(it)
<1>5. Is(g)
  <2>1. ASSUME NEW s \in SUBSET (1 .. n), s # {}
        PROVE  g[s] = Op(g[s \ {Max(s)}], given[Max(s)])
    <3> DEFINE x == Max(s)
    <3>1. x \in 1 .. n
      BY <1>1, <2>1, MaxIn
    <3> HIDE DEF x
    <3>2. s \ {x} \in SUBSET (1 .. n) /\ g[s \ {x}] \in V
      OBVIOUS
    <3> QED BY <1>4, <2>1, <3>1, <3>2 DEF x, IsFold
  <2>2. g[{}] = << >>
    BY <1>4 DEF IsFold
  <2> QED BY <2>1, <2>2
<1>6. Is(iter)
  <2> HIDE DEF Is
  <2> QED BY <1>5
<1>7. Entrants(given, members, R) = iter[1 .. n]
  BY <1>1 DEF Entrants, FoldLeft, MapThenFoldSet
<1> HIDE DEF iter
<1>8. HasHistory(n, V, << >>, F, iter[1 .. n])
  <2>1. iter[{}] = << >>
    BY <1>6
  <2>2. ASSUME NEW s \in SUBSET (1 .. n), s # {}, iter[s \ {Max(s)}] \in V
        PROVE  iter[s] = F[<<Max(s), iter[s \ {Max(s)}]>>]
    <3>1. Max(s) \in 1 .. n
      BY <1>1, <2>2, MaxIn
    <3>2. iter[s] = Op(iter[s \ {Max(s)}], given[Max(s)])
      BY <1>6, <2>2
    <3> QED BY <2>2, <3>1, <3>2
  <2>3. << >> \in V
    BY DEF V
  <2>4. FoldsIn(V, iter, n, F)
    BY <2>2 DEF FoldsIn
  <2> HIDE DEF F
  <2> QED BY <1>1, <1>3, <2>1, <2>3, <2>4, FoldSteps
<1>9. PICK hist \in [0 .. n -> V] :
        /\ hist[0] = << >>
        /\ hist[n] = iter[1 .. n]
        /\ \A i \in 1 .. n : hist[i] = F[<<i, hist[i - 1]>>]
  BY <1>8 DEF HasHistory
<1>10. ASSUME NEW i \in 1 .. n
      PROVE  hist[i - 1] \in V /\ hist[i] = Op(hist[i - 1], given[i])
  <2>1. i - 1 \in 0 .. n
    BY <1>1
  <2>2. hist[i - 1] \in V
    BY <1>9, <2>1
  <2>3. F[<<i, hist[i - 1]>>] = Op(hist[i - 1], given[i])
    BY <2>2
  <2> HIDE DEF F, Op
  <2> QED BY <1>9, <2>2, <2>3
<1>11. EnteredBy(hist, given, members, R)
  BY <1>7, <1>9, <1>10 DEF EnteredBy, V, n
<1> QED BY <1>11

\* ms are some of the first i members of ns, each once, in any order: q says
\* where each was.
PickedUpTo(q, i, ms, ns) ==
  /\ q \in [1 .. Len(ms) -> 1 .. i]
  /\ \A j, k \in 1 .. Len(ms) : j # k => q[j] # q[k]
  /\ \A k \in 1 .. Len(ms) : ms[k] = ns[q[k]]

PickedBy(q, ms, ns) == PickedUpTo(q, Len(ns), ms, ns)
PickedFrom(ms, ns) == \E q : PickedBy(q, ms, ns)

\* Picking from what was picked is picking.
LEMMA PickedTwice ==
  ASSUME NEW ms \in Seq(Member), NEW ns \in Seq(Member), NEW os \in Seq(Member),
         PickedFrom(ms, ns), PickedFrom(ns, os)
  PROVE  PickedFrom(ms, os)
<1>1. PICK p : PickedBy(p, ms, ns)
  BY DEF PickedFrom
<1>2. PICK q : PickedBy(q, ns, os)
  BY DEF PickedFrom
<1> DEFINE r == [i \in 1 .. Len(ms) |-> q[p[i]]]
<1>3. PickedBy(r, ms, os)
  BY <1>1, <1>2 DEF PickedBy, PickedUpTo
<1> QED BY <1>3 DEF PickedFrom

\* Who is picked has the id of one there was.
LEMMA PickedIds ==
  ASSUME NEW ms \in Seq(Member), NEW ns \in Seq(Member), PickedFrom(ms, ns)
  PROVE  IdsOf(ms) \subseteq IdsOf(ns)
BY DEF PickedFrom, PickedBy, PickedUpTo, IdsOf

\* Nobody is on a table twice.
Distinct(ms) == \A i, k \in 1 .. Len(ms) : i # k => ms[i].id # ms[k].id

\* Picking each at most once leaves nobody twice.
LEMMA PickedDistinct ==
  ASSUME NEW ms \in Seq(Member), NEW ns \in Seq(Member), PickedFrom(ms, ns), Distinct(ns)
  PROVE  Distinct(ms)
<1>1. PICK q : PickedBy(q, ms, ns)
  BY DEF PickedFrom
<1>2. \A i, k \in 1 .. Len(ms) :
        /\ q[i] \in 1 .. Len(ns) /\ q[k] \in 1 .. Len(ns)
        /\ i # k => q[i] # q[k]
        /\ ms[i] = ns[q[i]] /\ ms[k] = ns[q[k]]
  BY <1>1 DEF PickedBy, PickedUpTo
<1> SUFFICES ASSUME NEW i \in 1 .. Len(ms), NEW k \in 1 .. Len(ms), i # k
             PROVE  ms[i].id # ms[k].id
  BY DEF Distinct
<1> DEFINE a == q[i]
           b == q[k]
<1>3. a \in 1 .. Len(ns) /\ b \in 1 .. Len(ns) /\ a # b /\ ms[i] = ns[a] /\ ms[k] = ns[b]
  BY <1>2
<1> HIDE DEF a, b
<1>4. ns[a].id # ns[b].id
  BY <1>3 DEF Distinct
<1> QED BY <1>3, <1>4

\* What was picked from the first i was picked from the first i + 1.
LEMMA PickedLonger ==
  ASSUME NEW i \in Nat, NEW q, NEW ms, NEW ns, PickedUpTo(q, i, ms, ns)
  PROVE  PickedUpTo(q, i + 1, ms, ns)
<1>1. 1 .. i \subseteq 1 .. (i + 1)
  OBVIOUS
<1> QED BY <1>1 DEF PickedUpTo

\* Taking one more, from behind those already taken, is picking.
LEMMA PickOneMore ==
  ASSUME NEW ns \in Seq(Member), NEW ms \in Seq(Member), NEW i \in Nat, i + 1 <= Len(ns),
         NEW p \in 1 .. Len(ms) + 1, \E q : PickedUpTo(q, i, ms, ns)
  PROVE  \E q : PickedUpTo(q, i + 1, InsertAt(ms, p, ns[i + 1]), ns)
<1> DEFINE out == InsertAt(ms, p, ns[i + 1])
<1>1. PICK q : PickedUpTo(q, i, ms, ns)
  OBVIOUS
<1>2. /\ Len(out) = Len(ms) + 1 /\ Len(ms) \in Nat
      /\ \A k \in 1 .. Len(ms) + 1 :
           out[k] = IF k < p THEN ms[k] ELSE IF k = p THEN ns[i + 1] ELSE ms[k - 1]
  <2>1. ns[i + 1] \in Member
    OBVIOUS
  <2> QED BY <2>1, Inserting
<1> HIDE DEF out
<1> DEFINE r == [k \in 1 .. Len(ms) + 1 |->
                   IF k < p THEN q[k] ELSE IF k = p THEN i + 1 ELSE q[k - 1]]
<1>3. r \in [1 .. Len(out) -> 1 .. (i + 1)]
  BY <1>1, <1>2 DEF PickedUpTo
<1> DEFINE at(k) == IF k < p THEN k ELSE k - 1
<1>4. \A k \in 1 .. Len(ms) + 1 : k # p =>
        at(k) \in 1 .. Len(ms) /\ r[k] = q[at(k)] /\ out[k] = ms[at(k)] /\ q[at(k)] \in 1 .. i
  <2> SUFFICES ASSUME NEW k \in 1 .. Len(ms) + 1, k # p
               PROVE  /\ at(k) \in 1 .. Len(ms) /\ r[k] = q[at(k)]
                      /\ out[k] = ms[at(k)] /\ q[at(k)] \in 1 .. i
    OBVIOUS
  <2>1. at(k) \in 1 .. Len(ms)
    BY <1>2
  <2>2. r[k] = q[at(k)] /\ out[k] = ms[at(k)]
    BY <1>2
  <2>3. q \in [1 .. Len(ms) -> 1 .. i]
    BY <1>1 DEF PickedUpTo
  <2> HIDE DEF at
  <2> QED BY <2>1, <2>2, <2>3
<1>5. r[p] = i + 1 /\ out[p] = ns[i + 1]
  BY <1>2
<1>6. \A j, k \in 1 .. Len(ms) + 1 : j # p /\ k # p /\ j # k => at(j) # at(k)
  BY <1>2
<1> HIDE DEF r, at
<1>7. ASSUME NEW j \in 1 .. Len(out), NEW k \in 1 .. Len(out), j # k PROVE r[j] # r[k]
  <2>1. CASE j = p
    BY <1>2, <1>4, <1>5, <1>7, <2>1
  <2>2. CASE k = p
    BY <1>2, <1>4, <1>5, <1>7, <2>2
  <2>3. CASE j # p /\ k # p
    BY <1>1, <1>2, <1>4, <1>6, <1>7, <2>3 DEF PickedUpTo
  <2> QED BY <2>1, <2>2, <2>3
<1>8. ASSUME NEW k \in 1 .. Len(out) PROVE out[k] = ns[r[k]]
  <2>1. CASE k = p
    BY <1>5, <2>1
  <2>2. CASE k # p
    <3>1. at(k) \in 1 .. Len(ms) /\ r[k] = q[at(k)] /\ out[k] = ms[at(k)]
      BY <1>2, <1>4, <2>2
    <3>2. ms[at(k)] = ns[q[at(k)]]
      BY <1>1, <3>1 DEF PickedUpTo
    <3> QED BY <3>1, <3>2
  <2> QED BY <2>1, <2>2
<1>9. PickedUpTo(r, i + 1, out, ns)
  BY <1>3, <1>7, <1>8 DEF PickedUpTo
<1> QED BY <1>9 DEF out

\* With one member more there is one id more.
LEMMA InsertedIds ==
  ASSUME NEW s \in Seq(Member), NEW e \in Member, NEW p \in 1 .. Len(s) + 1
  PROVE  IdsOf(InsertAt(s, p, e)) = IdsOf(s) \cup {e.id}
<1> DEFINE t == InsertAt(s, p, e)
           n == Len(s)
<1>1. /\ n \in Nat /\ Len(t) = n + 1
      /\ \A k \in 1 .. n + 1 : t[k] = IF k < p THEN s[k] ELSE IF k = p THEN e ELSE s[k - 1]
  BY Inserting
<1> HIDE DEF t, n
<1>2. ASSUME NEW k \in 1 .. n + 1 PROVE t[k].id \in IdsOf(s) \cup {e.id}
  <2>1. CASE k < p
    BY <1>1, <2>1 DEF IdsOf, n
  <2>2. CASE k = p
    BY <1>1, <2>2
  <2>3. CASE k > p
    <3>1. k - 1 \in 1 .. n /\ t[k] = s[k - 1]
      BY <1>1, <2>3
    <3> QED BY <3>1 DEF IdsOf, n
  <2> QED BY <1>1, <2>1, <2>2, <2>3
<1>3. ASSUME NEW k \in 1 .. n PROVE \E j \in 1 .. n + 1 : t[j] = s[k]
  <2>1. CASE k < p
    <3>1. k \in 1 .. n + 1 /\ t[k] = s[k]
      BY <1>1, <2>1
    <3> QED BY <3>1
  <2>2. CASE ~(k < p)
    <3>1. k + 1 \in 1 .. n + 1 /\ ~(k + 1 < p) /\ k + 1 # p /\ (k + 1) - 1 = k
      BY <1>1, <2>2
    <3>2. t[k + 1] = s[k]
      BY <1>1, <3>1
    <3> QED BY <3>1, <3>2
  <2> QED BY <2>1, <2>2
<1>4. p \in 1 .. n + 1 /\ t[p] = e
  BY <1>1 DEF n
<1>5. IdsOf(t) = { t[k].id : k \in 1 .. n + 1 } /\ IdsOf(s) = { s[k].id : k \in 1 .. n }
  BY <1>1 DEF IdsOf, n
<1>6. IdsOf(t) \subseteq IdsOf(s) \cup {e.id}
  BY <1>2, <1>5
<1>7. IdsOf(s) \subseteq IdsOf(t) /\ e.id \in IdsOf(t)
  BY <1>3, <1>4, <1>5
<1> QED BY <1>6, <1>7 DEF t

\* Ranking loses and adds nobody.
LEMMA RankedPicks ==
  ASSUME NEW members \in Seq(Member), NEW matches, NEW R
  PROVE  /\ Ranked(members, matches, R) \in Seq(Member)
         /\ PickedFrom(Ranked(members, matches, R), members)
         /\ IdsOf(Ranked(members, matches, R)) = IdsOf(members)
<1> DEFINE n == Len(members)
<1>0. PICK hist : RankedBy(hist, members, matches, R)
  BY RankedHistory
<1>1. /\ hist \in [0 .. n -> Seq(Member)]
      /\ hist[0] = << >>
      /\ hist[n] = Ranked(members, matches, R)
      /\ \A i \in 1 .. n :
           hist[i] = Insert(hist[i - 1], members[i], ScoresOf(members, matches, R), R)
  BY <1>0 DEF RankedBy
<1> DEFINE Good(i) == /\ \E q : PickedUpTo(q, i, hist[i], members)
                      /\ IdsOf(hist[i]) = {members[k].id : k \in 1 .. i}
           T == {i \in Nat : i <= n => Good(i)}
<1>2. n \in Nat
  OBVIOUS
<1>3. Good(0)
  <2>1. PickedUpTo(<< >>, 0, << >>, members) /\ IdsOf(<< >>) = {}
    BY DEF PickedUpTo, IdsOf
  <2> QED BY <1>1, <2>1
<1> HIDE DEF Good
<1>4. ASSUME NEW i \in Nat, i + 1 <= n, Good(i) PROVE Good(i + 1)
  <2>1. i + 1 \in 1 .. n /\ (i + 1) - 1 = i /\ hist[i] \in Seq(Member)
    BY <1>1, <1>2, <1>4
  <2>2. PICK p \in 1 .. Len(hist[i]) + 1 : hist[i + 1] = InsertAt(hist[i], p, members[i + 1])
    <3>1. members[i + 1] \in Member
      BY <2>1
    <3>2. hist[i + 1] = Insert(hist[i], members[i + 1], ScoresOf(members, matches, R), R)
      BY <1>1, <2>1
    <3> QED BY <2>1, <3>1, <3>2, InsertIs
  <2>3. \E q : PickedUpTo(q, i, hist[i], members)
    BY <1>4 DEF Good
  <2>4. \E q : PickedUpTo(q, i + 1, hist[i + 1], members)
    BY <1>4, <2>1, <2>2, <2>3, PickOneMore
  <2>5. IdsOf(hist[i + 1]) = IdsOf(hist[i]) \cup {members[i + 1].id}
    <3>1. members[i + 1] \in Member
      BY <2>1
    <3> QED BY <2>1, <2>2, <3>1, InsertedIds
  <2>6. {members[k].id : k \in 1 .. (i + 1)}
          = {members[k].id : k \in 1 .. i} \cup {members[i + 1].id}
    <3>1. 1 .. (i + 1) = (1 .. i) \cup {i + 1}
      OBVIOUS
    <3> QED BY <3>1
  <2> QED BY <1>4, <2>4, <2>5, <2>6 DEF Good
<1>5. n \in T
  <2>1. 0 \in T
    BY <1>3
  <2>2. \A i \in Nat : i \in T => i + 1 \in T
    BY <1>2, <1>4
  <2> HIDE DEF T, n
  <2> QED BY <1>2, <2>1, <2>2, AllNaturals
<1>6. PICK q : PickedUpTo(q, n, hist[n], members)
  BY <1>2, <1>5 DEF Good
<1>7. PickedBy(q, hist[n], members)
  BY <1>6 DEF PickedUpTo, PickedBy
<1>8. hist[n] \in Seq(Member)
  BY <1>1, <1>2
<1>9. IdsOf(hist[n]) = IdsOf(members)
  <2>1. IdsOf(hist[n]) = {members[k].id : k \in 1 .. n}
    BY <1>2, <1>5 DEF Good
  <2>2. IdsOf(members) = {members[k].id : k \in 1 .. n}
    BY DEF IdsOf
  <2> QED BY <2>1, <2>2
<1> QED BY <1>1, <1>7, <1>8, <1>9 DEF PickedFrom

\* Trimming adds nobody.
LEMMA TrimmedPicks ==
  ASSUME NEW members \in Seq(Member), NEW R \in Rules
  PROVE  /\ Trimmed(members, R) \in Seq(Member)
         /\ PickedFrom(Trimmed(members, R), members)
         /\ R.size > 0 => Len(Trimmed(members, R)) <= R.size
<1>1. R.size \in Nat
  BY HillAssumption
<1>2. /\ Trimmed(members, R) \in Seq(Member)
      /\ Len(Trimmed(members, R)) <= Len(members)
      /\ R.size > 0 => Len(Trimmed(members, R)) <= R.size
      /\ \A i \in 1 .. Len(Trimmed(members, R)) : Trimmed(members, R)[i] = members[i]
  BY <1>1 DEF Trimmed
<1> DEFINE q == [i \in 1 .. Len(Trimmed(members, R)) |-> i]
<1>3. PickedBy(q, Trimmed(members, R), members)
  BY <1>2 DEF PickedBy, PickedUpTo
<1> QED BY <1>2, <1>3 DEF PickedFrom

\* Who is kept was a member and has a source the rules accept.
LEMMA KeptPicks ==
  ASSUME NEW members \in Seq(Member), NEW R
  PROVE  /\ Kept(members, R) \in Seq(Member)
         /\ PickedFrom(Kept(members, R), members)
         /\ IdsOf(Kept(members, R)) \subseteq sources
         /\ \A x \in IdsOf(Kept(members, R)) : Assembles(R.params, x)
<1> DEFINE n == Len(members)
<1>0. PICK hist : KeptBy(hist, members, R)
  BY KeptHistory
<1>1. /\ hist \in [0 .. n -> Seq(Member)]
      /\ hist[0] = << >>
      /\ hist[n] = Kept(members, R)
      /\ \A i \in 1 .. n :
           hist[i] = IF members[i].id \in sources /\ Assembles(R.params, members[i].id)
                     THEN Append(hist[i - 1], members[i]) ELSE hist[i - 1]
  BY <1>0 DEF KeptBy
<1> DEFINE Good(i) == /\ \E q : PickedUpTo(q, i, hist[i], members)
                      /\ IdsOf(hist[i]) \subseteq sources
                      /\ \A x \in IdsOf(hist[i]) : Assembles(R.params, x)
           T == {i \in Nat : i <= n => Good(i)}
<1>2. n \in Nat
  OBVIOUS
<1>3. Good(0)
  <2>1. PickedUpTo(<< >>, 0, << >>, members) /\ IdsOf(<< >>) = {}
    BY DEF PickedUpTo, IdsOf
  <2> QED BY <1>1, <2>1
<1> HIDE DEF Good
<1>4. ASSUME NEW i \in Nat, i + 1 <= n, Good(i) PROVE Good(i + 1)
  <2>1. i + 1 \in 1 .. n /\ (i + 1) - 1 = i /\ hist[i] \in Seq(Member)
    BY <1>1, <1>2, <1>4
  <2>2. hist[i + 1] = hist[i] \/ /\ hist[i + 1] = Append(hist[i], members[i + 1])
                                 /\ members[i + 1].id \in sources
                                 /\ Assembles(R.params, members[i + 1].id)
    BY <1>1, <2>1
  <2>3. CASE hist[i + 1] = hist[i]
    <3>1. PICK q : PickedUpTo(q, i, hist[i], members)
      BY <1>4 DEF Good
    <3>2. PickedUpTo(q, i + 1, hist[i], members)
      BY <3>1, PickedLonger
    <3> QED BY <1>4, <2>3, <3>2 DEF Good
  <2>4. CASE /\ hist[i + 1] = Append(hist[i], members[i + 1]) /\ members[i + 1].id \in sources
             /\ Assembles(R.params, members[i + 1].id)
    <3> DEFINE ms == hist[i]
               e == members[i + 1]
    <3>1. e \in Member /\ Len(ms) + 1 \in 1 .. Len(ms) + 1
      BY <2>1
    <3>2. Append(ms, e) = InsertAt(ms, Len(ms) + 1, e)
      <4> HIDE DEF ms, e
      <4>1. ms \in Seq(Member) /\ e \in Member
        BY <2>1, <3>1 DEF ms
      <4> QED BY <4>1, InsertAtEnd
    <3>5. \E q : PickedUpTo(q, i, ms, members)
      BY <1>4 DEF Good
    <3>3. \E q : PickedUpTo(q, i + 1, hist[i + 1], members)
      BY <1>4, <2>1, <2>4, <3>1, <3>2, <3>5, PickOneMore
    <3>4. IdsOf(Append(ms, e)) = IdsOf(ms) \cup {e.id}
      BY <2>1, <3>1 DEF IdsOf
    <3> QED BY <1>4, <2>4, <3>3, <3>4 DEF Good
  <2> QED BY <2>2, <2>3, <2>4
<1>5. n \in T
  <2>1. 0 \in T
    BY <1>3
  <2>2. \A i \in Nat : i \in T => i + 1 \in T
    BY <1>2, <1>4
  <2> HIDE DEF T, n
  <2> QED BY <1>2, <2>1, <2>2, AllNaturals
<1>6. Good(n)
  BY <1>2, <1>5
<1>7. PICK q : PickedUpTo(q, n, hist[n], members)
  BY <1>6 DEF Good
<1>8. PickedBy(q, hist[n], members)
  BY <1>7 DEF PickedUpTo, PickedBy
<1>9. hist[n] \in Seq(Member)
  BY <1>1, <1>2
<1> QED BY <1>1, <1>6, <1>8, <1>9 DEF PickedFrom, Good

\* What enters is new to the hill, and enters once.
Newcomers(entrants, members) ==
  /\ entrants \in Seq(Ids)
  /\ \A i \in 1 .. Len(entrants) : entrants[i] \notin IdsOf(members)
  /\ \A i, k \in 1 .. Len(entrants) : i # k => entrants[i] # entrants[k]

\* Who enters is a warrior the rules accept, not a member, and enters once.
LEMMA EntrantsNew ==
  ASSUME NEW given \in FileLists, NEW members, NEW R
  PROVE  /\ Newcomers(Entrants(given, members, R), members)
         /\ \A x \in ToSet(Entrants(given, members, R)) : Assembles(R.params, x)
<1> DEFINE n == Len(given)
<1>0. PICK hist : EnteredBy(hist, given, members, R)
  BY EntrantsHistory
<1>1. /\ hist \in [0 .. n -> Seq(Ids)]
      /\ hist[0] = << >>
      /\ hist[n] = Entrants(given, members, R)
      /\ \A i \in 1 .. n :
           hist[i] = IF given[i] \in Ids /\ Assembles(R.params, given[i])
                        /\ given[i] \notin IdsOf(members) /\ given[i] \notin ToSet(hist[i - 1])
                     THEN Append(hist[i - 1], given[i]) ELSE hist[i - 1]
  BY <1>0 DEF EnteredBy
<1> DEFINE Good(i) == /\ Newcomers(hist[i], members)
                      /\ \A x \in ToSet(hist[i]) : Assembles(R.params, x)
           T == {i \in Nat : i <= n => Good(i)}
<1>2. n \in Nat
  <2>1. PICK m \in 0 .. MaxFiles : given \in [1 .. m -> Ids \cup {Garbage}]
    BY DEF FileLists, SeqOf
  <2> QED BY <2>1
<1>3. Good(0)
  <2>1. Newcomers(<< >>, members) /\ ToSet(<< >>) = {}
    BY DEF Newcomers, ToSet
  <2> QED BY <1>1, <2>1
<1> HIDE DEF Good
<1>4. ASSUME NEW i \in Nat, i + 1 <= n, Good(i) PROVE Good(i + 1)
  <2> DEFINE x == given[i + 1]
             s == hist[i]
  <2>1. i + 1 \in 1 .. n /\ (i + 1) - 1 = i /\ s \in Seq(Ids)
    BY <1>1, <1>2, <1>4
  <2>2. \/ hist[i + 1] = s
        \/ /\ hist[i + 1] = Append(s, x)
           /\ x \in Ids /\ x \notin IdsOf(members) /\ x \notin ToSet(s)
           /\ Assembles(R.params, x)
    BY <1>1, <2>1
  <2>3. Newcomers(s, members) /\ \A y \in ToSet(s) : Assembles(R.params, y)
    BY <1>4 DEF Good
  <2>4. ASSUME x \in Ids, x \notin IdsOf(members), x \notin ToSet(s)
        PROVE  Newcomers(Append(s, x), members) /\ ToSet(Append(s, x)) = ToSet(s) \cup {x}
    <3> HIDE DEF x, s
    <3>1. /\ Append(s, x) \in Seq(Ids) /\ Len(Append(s, x)) = Len(s) + 1 /\ Len(s) \in Nat
          /\ \A k \in 1 .. Len(s) + 1 : Append(s, x)[k] = IF k = Len(s) + 1 THEN x ELSE s[k]
      BY <2>1, <2>4
    <3>2. \A k \in 1 .. Len(s) : s[k] # x
      BY <2>1, <2>4 DEF ToSet
    <3>3. ToSet(Append(s, x)) = ToSet(s) \cup {x}
      <4>1. ToSet(s) = { s[k] : k \in 1 .. Len(s) }
        BY <2>1 DEF ToSet
      <4>2. ToSet(Append(s, x)) = { Append(s, x)[k] : k \in 1 .. Len(s) + 1 }
        BY <3>1 DEF ToSet
      <4>3. \A k \in 1 .. Len(s) : k \in 1 .. Len(s) + 1 /\ Append(s, x)[k] = s[k]
        BY <3>1
      <4>4. Len(s) + 1 \in 1 .. Len(s) + 1 /\ Append(s, x)[Len(s) + 1] = x
        BY <3>1
      <4>5. \A k \in 1 .. Len(s) + 1 : k = Len(s) + 1 \/ k \in 1 .. Len(s)
        BY <3>1
      <4> QED BY <4>1, <4>2, <4>3, <4>4, <4>5
    <3> HIDE DEF IdsOf
    <3>4. Newcomers(Append(s, x), members)
      BY <2>3, <2>4, <3>1, <3>2 DEF Newcomers
    <3> QED BY <3>3, <3>4
  <2> HIDE DEF x, s
  <2>5. CASE hist[i + 1] = s
    BY <2>3, <2>5 DEF Good
  <2>6. CASE hist[i + 1] # s
    BY <2>2, <2>3, <2>4, <2>6 DEF Good
  <2> QED BY <2>5, <2>6
<1>5. n \in T
  <2>1. 0 \in T
    BY <1>3
  <2>2. \A i \in Nat : i \in T => i + 1 \in T
    BY <1>2, <1>4
  <2> HIDE DEF T, n
  <2> QED BY <1>2, <2>1, <2>2, AllNaturals
<1> QED BY <1>1, <1>2, <1>5 DEF Good

-----------------------------------------------------------------------------
\* Ranking what is ranked changes nothing: the order is one, so long as
\* scores are numbers, and Insert keeps to it.

\* Nobody is behind one he comes before.
InOrder(ms, score, R) ==
  \A i, k \in 1 .. Len(ms) : i < k => ~Before(ms[k], ms[i], score, R)

\* Who comes before whom is a matter of two numbers.
LEMMA BeforeOrder ==
  ASSUME NEW S, NEW score \in [S -> Int], NEW R \in Rules,
         NEW a \in Member, NEW b \in Member, NEW m \in Member,
         a.id \in S, b.id \in S, m.id \in S
  PROVE  /\ Before(a, b, score, R) => ~Before(b, a, score, R)
         /\ Before(m, a, score, R) /\ ~Before(b, a, score, R) => Before(m, b, score, R)
<1>1. /\ score[a.id] \in Int /\ score[b.id] \in Int /\ score[m.id] \in Int
      /\ a.arrived \in Nat /\ b.arrived \in Nat /\ m.arrived \in Nat
  BY DEF Member
<1>2. R.newer \in BOOLEAN
  BY HillAssumption
<1> QED BY <1>1, <1>2 DEF Before

\* The members one inserted does not come before are the first ones.
LEMMA BehindFirst ==
  ASSUME NEW S, NEW score \in [S -> Int], NEW R \in Rules, NEW v \in Seq(Member),
         NEW m \in Member, IdsOf(v) \subseteq S, m.id \in S, InOrder(v, score, R)
  PROVE  \E c \in 0 .. Len(v) :
           /\ Insert(v, m, score, R) = InsertAt(v, c + 1, m)
           /\ \A i \in 1 .. Len(v) : i <= c <=> ~Before(m, v[i], score, R)
<1> DEFINE n == Len(v)
           D == { i \in 1 .. n : ~Before(m, v[i], score, R) }
           c == Cardinality(D)
<1>1. n \in Nat /\ DOMAIN v = 1 .. n
  OBVIOUS
<1>2. \A i \in 1 .. n : v[i] \in Member /\ v[i].id \in S
  BY DEF IdsOf
<1>3. Leading(D)
  <2> SUFFICES ASSUME NEW i \in Nat, NEW k \in Nat, 1 <= i, i < k, k \in D PROVE i \in D
    BY DEF Leading
  <2>1. i \in 1 .. n /\ k \in 1 .. n /\ ~Before(m, v[k], score, R)
    BY <1>1
  <2>2. ~Before(v[k], v[i], score, R)
    BY <2>1 DEF InOrder
  <2>3. Before(m, v[i], score, R) => Before(m, v[k], score, R)
    BY <1>2, <2>1, <2>2, BeforeOrder
  <2> QED BY <2>1, <2>3
<1>4. D \in SUBSET (1 .. n)
  OBVIOUS
<1>5. D = { i \in DOMAIN v : ~Before(m, v[i], score, R) }
  BY <1>1
<1>6. \A i \in 1 .. n : i \in D <=> ~Before(m, v[i], score, R)
  OBVIOUS
<1>7. Insert(v, m, score, R) = InsertAt(v, 1 + c, m)
  BY <1>5, Zenon DEF Insert
<1> HIDE DEF D, n
<1>8. c \in 0 .. n /\ D = 1 .. c
  BY <1>1, <1>3, <1>4, LeadingSet
<1> HIDE DEF c
<1>9. 1 + c = c + 1 /\ \A i \in 1 .. n : i \in D <=> i <= c
  BY <1>1, <1>8
<1> QED BY <1>6, <1>7, <1>8, <1>9 DEF n

\* Inserting keeps the order.
LEMMA InsertInOrder ==
  ASSUME NEW S, NEW score \in [S -> Int], NEW R \in Rules, NEW v \in Seq(Member),
         NEW m \in Member, IdsOf(v) \subseteq S, m.id \in S, InOrder(v, score, R)
  PROVE  InOrder(Insert(v, m, score, R), score, R)
<1> DEFINE n == Len(v)
<1>1. PICK c \in 0 .. n :
        /\ Insert(v, m, score, R) = InsertAt(v, c + 1, m)
        /\ \A i \in 1 .. n : i <= c <=> ~Before(m, v[i], score, R)
  BY BehindFirst
<1> DEFINE t == InsertAt(v, c + 1, m)
<1>2. n \in Nat /\ c \in Nat /\ c + 1 \in 1 .. n + 1
  OBVIOUS
<1>3. /\ Len(t) = n + 1
      /\ \A k \in 1 .. n + 1 : t[k] = IF k < c + 1 THEN v[k] ELSE IF k = c + 1 THEN m ELSE v[k - 1]
  BY <1>2, Inserting
<1>4. \A i \in 1 .. n : v[i] \in Member /\ v[i].id \in S
  BY DEF IdsOf
<1> HIDE DEF t, n
<1>5. ASSUME NEW i \in 1 .. n + 1, NEW k \in 1 .. n + 1, i < k
      PROVE  ~Before(t[k], t[i], score, R)
  <2>1. CASE i < c + 1 /\ k < c + 1
    <3>1. t[i] = v[i] /\ t[k] = v[k] /\ i \in 1 .. n /\ k \in 1 .. n
      BY <1>2, <1>3, <2>1
    <3> QED BY <1>5, <3>1 DEF InOrder, n
  <2>2. CASE i < c + 1 /\ k = c + 1
    <3>1. t[i] = v[i] /\ t[k] = m /\ i \in 1 .. n /\ i <= c
      BY <1>2, <1>3, <2>2
    <3> QED BY <1>1, <3>1
  <2>3. CASE i < c + 1 /\ k > c + 1
    <3>1. t[i] = v[i] /\ t[k] = v[k - 1] /\ i \in 1 .. n /\ k - 1 \in 1 .. n /\ i < k - 1
      BY <1>2, <1>3, <2>3
    <3> QED BY <3>1 DEF InOrder, n
  <2>4. CASE i = c + 1
    <3>1. t[i] = m /\ t[k] = v[k - 1] /\ k - 1 \in 1 .. n /\ ~(k - 1 <= c)
      BY <1>2, <1>3, <1>5, <2>4
    <3>2. Before(m, v[k - 1], score, R)
      BY <1>1, <3>1
    <3> QED BY <1>4, <3>1, <3>2, BeforeOrder
  <2>5. CASE i > c + 1
    <3>1. /\ t[i] = v[i - 1] /\ t[k] = v[k - 1]
          /\ i - 1 \in 1 .. n /\ k - 1 \in 1 .. n /\ i - 1 < k - 1
      BY <1>2, <1>3, <1>5, <2>5
    <3> QED BY <3>1 DEF InOrder, n
  <2> QED BY <1>2, <1>5, <2>1, <2>2, <2>3, <2>4, <2>5
<1> QED BY <1>1, <1>3, <1>5 DEF InOrder, t

\* A ranked table is in order.
LEMMA RankedInOrder ==
  ASSUME NEW members \in Seq(Member), NEW matches, NEW R \in Rules,
         ScoresOf(members, matches, R) \in [IdsOf(members) -> Int]
  PROVE  InOrder(Ranked(members, matches, R), ScoresOf(members, matches, R), R)
<1> DEFINE n == Len(members)
           S == IdsOf(members)
           score == ScoresOf(members, matches, R)
<1>0. PICK hist : RankedBy(hist, members, matches, R)
  BY RankedHistory
<1>1. /\ hist \in [0 .. n -> Seq(Member)]
      /\ hist[0] = << >>
      /\ hist[n] = Ranked(members, matches, R)
      /\ \A i \in 1 .. n : hist[i] = Insert(hist[i - 1], members[i], score, R)
  BY <1>0 DEF RankedBy
<1>2. /\ n \in Nat /\ score \in [S -> Int]
      /\ \A i \in 1 .. n : members[i] \in Member /\ members[i].id \in S
  BY DEF IdsOf
<1> HIDE DEF n, S, score
<1> DEFINE Good(i) == IdsOf(hist[i]) \subseteq S /\ InOrder(hist[i], score, R)
           T == {i \in Nat : i <= n => Good(i)}
<1>3. Good(0)
  BY <1>1 DEF IdsOf, InOrder
<1> HIDE DEF Good
<1>4. ASSUME NEW i \in Nat, i + 1 <= n, Good(i) PROVE Good(i + 1)
  <2> DEFINE v == hist[i]
             m == members[i + 1]
  <2>1. i + 1 \in 1 .. n /\ (i + 1) - 1 = i /\ v \in Seq(Member) /\ m \in Member /\ m.id \in S
    BY <1>1, <1>2, <1>4
  <2>2. hist[i + 1] = Insert(v, m, score, R)
    BY <1>1, <2>1
  <2>3. IdsOf(v) \subseteq S /\ InOrder(v, score, R)
    BY <1>4 DEF Good
  <2> HIDE DEF v, m
  <2>4. InOrder(hist[i + 1], score, R)
    BY <1>2, <2>1, <2>2, <2>3, InsertInOrder
  <2>5. PICK p \in 1 .. Len(v) + 1 : Insert(v, m, score, R) = InsertAt(v, p, m)
    BY <2>1, InsertIs
  <2>6. IdsOf(InsertAt(v, p, m)) = IdsOf(v) \cup {m.id}
    BY <2>1, InsertedIds
  <2> QED BY <2>1, <2>2, <2>3, <2>4, <2>5, <2>6 DEF Good
<1>5. n \in T
  <2>1. 0 \in T
    BY <1>3
  <2>2. \A i \in Nat : i \in T => i + 1 \in T
    BY <1>2, <1>4
  <2> HIDE DEF T
  <2> QED BY <1>2, <2>1, <2>2, AllNaturals
<1> QED BY <1>1, <1>2, <1>5 DEF Good, score

\* Who comes before nobody goes last.
LEMMA InsertLast ==
  ASSUME NEW v \in Seq(Member), NEW m \in Member, NEW score, NEW R,
         \A i \in 1 .. Len(v) : ~Before(m, v[i], score, R)
  PROVE  Insert(v, m, score, R) = Append(v, m)
<1> DEFINE n == Len(v)
<1>1. n \in Nat /\ DOMAIN v = 1 .. n
  OBVIOUS
<1>2. { i \in DOMAIN v : ~Before(m, v[i], score, R) } = 1 .. n
  BY <1>1
<1>3. Insert(v, m, score, R) = InsertAt(v, 1 + Cardinality(1 .. n), m)
  BY <1>2, Zenon DEF Insert
<1>4. Cardinality(1 .. n) = n
  <2>1. n \in Nat /\ 1 \in Int /\ n \in Int
    BY <1>1
  <2> HIDE DEF n
  <2>2. Cardinality(1 .. n) = IF 1 > n THEN 0 ELSE n - 1 + 1
    BY <2>1, FS_Interval
  <2> QED BY <2>1, <2>2
<1>5. 1 + n = n + 1
  BY <1>1
<1> QED BY <1>3, <1>4, <1>5, InsertAtEnd

\* A table in order is what ranking makes of it.
LEMMA RankedAgain ==
  ASSUME NEW ms \in Seq(Member), NEW matches, NEW R,
         InOrder(ms, ScoresOf(ms, matches, R), R)
  PROVE  Ranked(ms, matches, R) = ms
<1> DEFINE n == Len(ms)
           score == ScoresOf(ms, matches, R)
<1>0. PICK hist : RankedBy(hist, ms, matches, R)
  BY RankedHistory
<1>1. /\ hist[0] = << >> /\ hist[n] = Ranked(ms, matches, R)
      /\ \A i \in 1 .. n : hist[i] = Insert(hist[i - 1], ms[i], score, R)
  BY <1>0 DEF RankedBy
<1>2. /\ n \in Nat /\ \A i \in 1 .. n : ms[i] \in Member
      /\ \A i, k \in 1 .. n : i < k => ~Before(ms[k], ms[i], score, R)
  BY DEF InOrder
<1>3. /\ SubSeq(ms, 1, 0) = << >> /\ SubSeq(ms, 1, n) = ms
      /\ \A i \in 0 .. n : /\ SubSeq(ms, 1, i) \in Seq(Member) /\ Len(SubSeq(ms, 1, i)) = i
                           /\ \A k \in 1 .. i : SubSeq(ms, 1, i)[k] = ms[k]
  OBVIOUS
<1>4. \A i \in 0 .. n : i < n => SubSeq(ms, 1, i + 1) = Append(SubSeq(ms, 1, i), ms[i + 1])
  OBVIOUS
<1> HIDE DEF n, score
<1> DEFINE T == {i \in Nat : i <= n => hist[i] = SubSeq(ms, 1, i)}
<1>5. 0 \in T
  BY <1>1, <1>3
<1>6. ASSUME NEW i \in Nat, i \in T PROVE i + 1 \in T
  <2> SUFFICES ASSUME i + 1 <= n PROVE hist[i + 1] = SubSeq(ms, 1, i + 1)
    OBVIOUS
  <2> DEFINE v == SubSeq(ms, 1, i)
             m == ms[i + 1]
  <2>1. i + 1 \in 1 .. n /\ (i + 1) - 1 = i /\ i \in 0 .. n /\ i < n
    BY <1>2
  <2>2. hist[i] = v
    BY <1>2, <1>6
  <2>3. hist[i + 1] = Insert(v, m, score, R)
    BY <1>1, <2>1, <2>2
  <2>4. v \in Seq(Member) /\ Len(v) = i /\ m \in Member
    BY <1>2, <1>3, <2>1
  <2>5. ASSUME NEW k \in 1 .. i PROVE ~Before(m, v[k], score, R)
    <3>1. k \in 1 .. n /\ k < i + 1 /\ v[k] = ms[k]
      BY <1>2, <1>3, <2>1
    <3> QED BY <1>2, <2>1, <3>1
  <2>6. SubSeq(ms, 1, i + 1) = Append(v, m)
    BY <1>4, <2>1
  <2> HIDE DEF v, m
  <2> QED BY <2>3, <2>4, <2>5, <2>6, InsertLast
<1>7. n \in T
  <2> HIDE DEF T
  <2> QED BY <1>2, <1>5, <1>6, AllNaturals
<1> QED BY <1>1, <1>2, <1>3, <1>7

-----------------------------------------------------------------------------
\* Scores: numbers, and the same from all matches as from those of members.

\* A table has finitely many members.
LEMMA IdsFinite ==
  ASSUME NEW ms \in Seq(Member)
  PROVE  IsFiniteSet(IdsOf(ms))
<1> DEFINE n == Len(ms)
           f == [i \in 1 .. n |-> ms[i].id]
<1>1. f \in Surjection(1 .. n, IdsOf(ms))
  BY DEF Surjection, IdsOf
<1>2. n \in Nat /\ ExistsSurjection(1 .. n, IdsOf(ms))
  BY <1>1 DEF ExistsSurjection
<1> HIDE DEF n
<1> QED BY <1>2, FS_NatSurjection

\* F gives the points of x from each opponent.
ArePoints(F, U, x, matches, p) == \A y \in U : F[y] = PointsFrom(x, y, matches, p)

\* A score is the sum of the points from each opponent.
LEMMA ScoreSum ==
  ASSUME NEW x, NEW S, NEW U, U = S \ {x}, IsFiniteSet(U), NEW matches, NEW p,
         NEW F \in [U -> Int], ArePoints(F, U, x, matches, p)
  PROVE  SumsTo(U, F, ScoreOf(x, S, matches, p))
<1>1. PICK g \in [SUBSET U -> Int] : IsSum(g, U, F)
  BY SumExists
<1> DEFINE Points(y) == PointsFrom(x, y, matches, p)
           Is(it) == it = [s \in SUBSET U |->
                            IF s = {} THEN 0 ELSE it[s \ {OneOf(s)}] + Points(OneOf(s))]
           iter == CHOOSE it : Is(it)
<1>2. ASSUME NEW s \in SUBSET U, s # {} PROVE OneOf(s) \in U
  BY <1>2, WithoutOne
<1>3. Is(g)
  BY <1>1, <1>2 DEF IsSum, ArePoints
<1>4. Is(iter)
  <2> HIDE DEF Is
  <2> QED BY <1>3
<1>5. ScoreOf(x, S, matches, p) = iter[U]
  BY DEF ScoreOf, FoldSet, MapThenFoldSet, OneOf
<1> HIDE DEF iter
<1>6. IsSum(iter, U, F)
  BY <1>2, <1>4 DEF IsSum, ArePoints
<1>7. iter[U] = g[U]
  BY <1>1, <1>6, SumUnique
<1>8. U \in SUBSET U
  OBVIOUS
<1>9. g[U] \in Int
  BY <1>1, <1>8
<1> DEFINE v == ScoreOf(x, S, matches, p)
<1> HIDE DEF v
<1>10. v = g[U]
  BY <1>5, <1>7 DEF v
<1>11. SumsTo(U, F, v)
  BY <1>1, <1>9, <1>10 DEF SumsTo
<1> QED BY <1>11 DEF v

\* Scores over the matches of a table's members are numbers, and they are the
\* same from any results that have these matches.
LEMMA ScoresKept ==
  ASSUME NEW ms \in Seq(Member), NEW matches, NEW between, NEW R \in Rules,
         \A k \in PairsOf(IdsOf(ms)) : matches[k] \in Score /\ between[k] = matches[k]
  PROVE  /\ ScoresOf(ms, matches, R) \in [IdsOf(ms) -> Int]
         /\ ScoresOf(ms, between, R) = ScoresOf(ms, matches, R)
<1> DEFINE S == IdsOf(ms)
           p == R.points
<1>1. p.win \in Int /\ p.tie \in Int /\ p.loss \in Int
  BY HillAssumption
<1>2. IsFiniteSet(S)
  BY IdsFinite
<1> HIDE DEF S, p
<1>3. ASSUME NEW x \in S, NEW y \in S \ {x}
      PROVE  /\ PointsFrom(x, y, matches, p) \in Int
             /\ PointsFrom(x, y, between, p) = PointsFrom(x, y, matches, p)
  <2> DEFINE k == Pairing(x, y)
  <2>1. k \in PairsOf(S)
    <3>1. \A z \in {<<w, w>> : w \in S} : z[1] = z[2]
      OBVIOUS
    <3>2. k[1] # k[2]
      BY DEF Pairing
    <3>3. k \notin {<<w, w>> : w \in S}
      BY <3>1, <3>2
    <3> QED BY <3>3 DEF PairsOf
  <2> HIDE DEF k
  <2>2. matches[k] \in Score /\ between[k] = matches[k]
    BY <2>1 DEF S
  <2>3. matches[k].w1 \in Int /\ matches[k].w2 \in Int /\ matches[k].ties \in Int
    BY <2>2 DEF Score
  <2> QED BY <1>1, <2>2, <2>3 DEF PointsFrom, k
<1>4. ASSUME NEW x \in S
      PROVE  /\ ScoreOf(x, S, matches, p) \in Int
             /\ ScoreOf(x, S, between, p) = ScoreOf(x, S, matches, p)
  <2> DEFINE U == S \ {x}
             F == [y \in U |-> PointsFrom(x, y, matches, p)]
  <2>1. IsFiniteSet(U)
    BY <1>2, FS_RemoveElement
  <2>2. /\ F \in [U -> Int]
        /\ ArePoints(F, U, x, matches, p) /\ ArePoints(F, U, x, between, p)
    BY <1>3 DEF ArePoints
  <2>3. U = S \ {x}
    OBVIOUS
  <2> HIDE DEF F, U
  <2>4. SumsTo(U, F, ScoreOf(x, S, matches, p))
    BY <2>1, <2>2, <2>3, ScoreSum
  <2>5. SumsTo(U, F, ScoreOf(x, S, between, p))
    BY <2>1, <2>2, <2>3, ScoreSum
  <2> QED BY <2>1, <2>4, <2>5, SumIsOne
<1>5. ScoresOf(ms, matches, R) = [x \in S |-> ScoreOf(x, S, matches, p)]
  BY DEF ScoresOf, S, p
<1>6. ScoresOf(ms, between, R) = [x \in S |-> ScoreOf(x, S, between, p)]
  BY DEF ScoresOf, S, p
<1> QED BY <1>4, <1>5, <1>6 DEF S

-----------------------------------------------------------------------------
\* One challenger more.

\* Ageing makes members of members.
LEMMA AgedType ==
  ASSUME NEW members \in Seq(Member), NEW x
  PROVE  /\ Aged(members, x) \in Seq(Member)
         /\ Len(Aged(members, x)) = Len(members)
         /\ \A i \in 1 .. Len(members) :
              /\ Aged(members, x)[i].id = members[i].id
              /\ Aged(members, x)[i].arrived = members[i].arrived
              /\ Aged(members, x)[i].age = IF members[i].id = x THEN members[i].age
                                           ELSE members[i].age + 1
<1>1. \A i \in 1 .. Len(members) : members[i] \in Member
  OBVIOUS
<1>2. \A m \in Member : [m EXCEPT !.age = @ + 1] \in Member
  BY DEF Member
<1> QED BY <1>1, <1>2 DEF Aged, Member

\* What Join makes its table of.
LEMMA JoinType ==
  ASSUME NEW h \in State, NEW x \in Ids, NEW matches, NEW R \in Rules
  PROVE  /\ Join(h, x, matches, R) \in State
         /\ Join(h, x, matches, R).next = h.next + 1
         /\ \E ms \in Seq(Member) :
              /\ PickedFrom(ms, Append(h.members, [id |-> x, arrived |-> h.next, age |-> 0]))
              /\ Join(h, x, matches, R).members = Aged(ms, x)
<1> DEFINE new == [id |-> x, arrived |-> h.next, age |-> 0]
           all == Append(h.members, new)
           ranked == Ranked(all, matches, R)
           ms == Trimmed(ranked, R)
<1>1. h.next \in Nat /\ h.members \in Seq(Member) /\ new \in Member
  BY DEF State, Member
<1>2. all \in Seq(Member)
  BY <1>1
<1> HIDE DEF all
<1>3. ranked \in Seq(Member) /\ PickedFrom(ranked, all)
  BY <1>2, RankedPicks
<1> HIDE DEF ranked
<1>4. ms \in Seq(Member) /\ PickedFrom(ms, ranked)
  BY <1>3, TrimmedPicks
<1> HIDE DEF ms
<1>5. PickedFrom(ms, all)
  BY <1>2, <1>3, <1>4, PickedTwice
<1>6. Join(h, x, matches, R) = [next |-> h.next + 1, members |-> Aged(ms, x)]
  BY DEF Join, ms, ranked, all
<1>7. Aged(ms, x) \in Seq(Member)
  BY <1>4, AgedType
<1> QED BY <1>1, <1>4, <1>5, <1>6, <1>7 DEF State, all

\* A join leaves the ages right: one arrival number more, one year more for the others.
LEMMA JoinAges ==
  ASSUME NEW h \in State, NEW x \in Ids, NEW matches, NEW R \in Rules,
         AgesRight(h), Distinct(h.members), x \notin IdsOf(h.members)
  PROVE  /\ AgesRight(Join(h, x, matches, R))
         /\ Distinct(Join(h, x, matches, R).members)
         /\ IdsOf(Join(h, x, matches, R).members) \subseteq IdsOf(h.members) \cup {x}
<1> DEFINE j == Join(h, x, matches, R)
           new == [id |-> x, arrived |-> h.next, age |-> 0]
           old == h.members
           all == Append(old, new)
<1>1. /\ j \in State /\ j.next = h.next + 1
      /\ \E ms \in Seq(Member) : PickedFrom(ms, all) /\ j.members = Aged(ms, x)
  BY JoinType
<1> HIDE DEF j
<1>2. PICK ms \in Seq(Member) : PickedFrom(ms, all) /\ j.members = Aged(ms, x)
  BY <1>1
<1>3. PICK q : PickedBy(q, ms, all)
  BY <1>2 DEF PickedFrom
<1>4. /\ h.next \in Nat /\ old \in Seq(Member) /\ Len(old) \in Nat
      /\ new \in Member /\ Len(all) = Len(old) + 1
      /\ \A i \in 1 .. Len(all) : all[i] = IF i = Len(old) + 1 THEN new ELSE old[i]
  BY DEF State, Member
<1>5. /\ Len(j.members) = Len(ms)
      /\ \A i \in 1 .. Len(ms) :
           /\ j.members[i].id = ms[i].id
           /\ j.members[i].arrived = ms[i].arrived
           /\ j.members[i].age = IF ms[i].id = x THEN ms[i].age ELSE ms[i].age + 1
  BY <1>2, AgedType
<1>6. \A i \in 1 .. Len(old) : /\ old[i] \in Member /\ old[i].id # x
                               /\ old[i].age = h.next - 1 - old[i].arrived
                               /\ old[i].arrived # h.next
  <2>1. \A i \in 1 .. Len(old) : old[i] \in Member /\ old[i].id # x
    BY <1>4 DEF IdsOf
  <2>2. \A i \in 1 .. Len(old) : old[i].age = h.next - 1 - old[i].arrived
    BY DEF AgesRight
  <2> QED BY <1>4, <2>1, <2>2 DEF Member
<1>7. \A i, k \in 1 .. Len(old) : i # k => old[i].arrived # old[k].arrived
  BY DEF AgesRight
<1> HIDE DEF all, old
<1>8. \A i \in 1 .. Len(ms) : q[i] \in 1 .. Len(all) /\ ms[i] = all[q[i]]
  BY <1>3 DEF PickedBy, PickedUpTo
<1>9. ASSUME NEW i \in 1 .. Len(ms)
      PROVE  j.members[i].age = j.next - 1 - j.members[i].arrived
  <2>1. CASE q[i] = Len(old) + 1
    <3>1. ms[i].id = x /\ ms[i].age = 0 /\ ms[i].arrived = h.next
      BY <1>4, <1>8, <2>1
    <3> QED BY <1>1, <1>4, <1>5, <3>1
  <2>2. CASE q[i] # Len(old) + 1
    <3>1. q[i] \in 1 .. Len(old) /\ ms[i] = old[q[i]]
      BY <1>4, <1>8, <2>2
    <3>2. j.members[i].age = ms[i].age + 1 /\ ms[i].age = h.next - 1 - ms[i].arrived
      BY <1>5, <1>6, <3>1
    <3>3. ms[i].arrived \in Nat
      BY <1>6, <3>1 DEF Member
    <3> QED BY <1>1, <1>4, <1>5, <3>2, <3>3
  <2> QED BY <2>1, <2>2
<1>10. ASSUME NEW i \in 1 .. Len(ms), NEW k \in 1 .. Len(ms), i # k
       PROVE  j.members[i].arrived # j.members[k].arrived
  <2>1. q[i] # q[k]
    BY <1>3, <1>10 DEF PickedBy, PickedUpTo
  <2>2. all[q[i]].arrived # all[q[k]].arrived
    <3> DEFINE a == q[i]
               b == q[k]
    <3>1. a \in 1 .. Len(old) + 1 /\ b \in 1 .. Len(old) + 1 /\ a # b
      BY <1>4, <1>8, <2>1
    <3> HIDE DEF a, b
    <3>2. CASE a = Len(old) + 1
      <4>1. b \in 1 .. Len(old) /\ all[a] = new /\ all[b] = old[b]
        BY <1>4, <3>1, <3>2
      <4> QED BY <1>6, <4>1 DEF a, b
    <3>3. CASE b = Len(old) + 1
      <4>1. a \in 1 .. Len(old) /\ all[b] = new /\ all[a] = old[a]
        BY <1>4, <3>1, <3>3
      <4> QED BY <1>6, <4>1 DEF a, b
    <3>4. CASE a \in 1 .. Len(old) /\ b \in 1 .. Len(old)
      <4>1. all[a] = old[a] /\ all[b] = old[b]
        BY <1>4, <3>4
      <4> QED BY <1>7, <3>1, <3>4, <4>1 DEF a, b
    <3> QED BY <1>4, <3>1, <3>2, <3>3, <3>4
  <2> QED BY <1>5, <1>8, <2>2
<1>11. AgesRight(j)
  BY <1>5, <1>9, <1>10 DEF AgesRight
<1>12. IdsOf(j.members) \subseteq IdsOf(old) \cup {x}
  <2> SUFFICES ASSUME NEW i \in 1 .. Len(ms) PROVE j.members[i].id \in IdsOf(old) \cup {x}
    BY <1>5 DEF IdsOf
  <2>1. all[q[i]].id \in IdsOf(old) \cup {x}
    <3> DEFINE a == q[i]
    <3>1. a \in 1 .. Len(old) + 1
      BY <1>4, <1>8
    <3> HIDE DEF a
    <3>2. CASE a = Len(old) + 1
      <4>1. all[a].id = x
        BY <1>4, <3>2
      <4> QED BY <4>1 DEF a
    <3>3. CASE a \in 1 .. Len(old)
      <4>1. all[a] = old[a]
        BY <1>4, <3>3
      <4> QED BY <3>3, <4>1 DEF a, IdsOf
    <3> QED BY <1>4, <3>1, <3>2, <3>3
  <2> QED BY <1>5, <1>8, <2>1
<1>13. Distinct(j.members)
  <2>1. Distinct(all)
    <3>1. all \in Seq(Member) /\ Distinct(old)
      BY <1>4 DEF all, old
    <3>2. \A i \in 1 .. Len(old) : all[i].id = old[i].id /\ old[i].id # x
      BY <1>4, <1>6
    <3>3. all[Len(old) + 1].id = x
      BY <1>4
    <3> SUFFICES ASSUME NEW i \in 1 .. Len(old) + 1, NEW k \in 1 .. Len(old) + 1, i # k
                 PROVE  all[i].id # all[k].id
      BY <1>4 DEF Distinct
    <3>4. CASE i \in 1 .. Len(old) /\ k \in 1 .. Len(old)
      BY <3>1, <3>2, <3>4 DEF Distinct
    <3>5. CASE i = Len(old) + 1
      <4>1. k \in 1 .. Len(old)
        BY <1>4, <3>5
      <4> QED BY <3>2, <3>3, <3>5, <4>1
    <3>6. CASE k = Len(old) + 1
      <4>1. i \in 1 .. Len(old)
        BY <1>4, <3>6
      <4> QED BY <3>2, <3>3, <3>6, <4>1
    <3> QED BY <1>4, <3>4, <3>5, <3>6
  <2>2. all \in Seq(Member)
    BY <1>4 DEF all, old
  <2>3. Distinct(ms)
    BY <1>2, <2>1, <2>2, PickedDistinct
  <2> QED BY <1>5, <2>3 DEF Distinct
<1> QED BY <1>11, <1>12, <1>13 DEF j, old

-----------------------------------------------------------------------------
\* hist: the table after each challenger.
JoinedBy(hist, h, entrants, matches, R) ==
  /\ hist \in [0 .. Len(entrants) -> State]
  /\ hist[0] = h
  /\ hist[Len(entrants)] = Joined(h, entrants, matches, R)
  /\ \A i \in 1 .. Len(entrants) : hist[i] = Join(hist[i - 1], entrants[i], matches, R)

\* The challengers join one after another.
LEMMA JoinedHistory ==
  ASSUME NEW h \in State, NEW entrants \in Seq(Ids), NEW matches, NEW R \in Rules
  PROVE  \E hist : JoinedBy(hist, h, entrants, matches, R)
<1> DEFINE n == Len(entrants)
           V == State
           Op(v, e) == Join(v, e, matches, R)
           F == [q \in (1 .. n) \X V |-> Op(q[2], entrants[q[1]])]
<1>1. n \in Nat /\ DOMAIN entrants = 1 .. n
  OBVIOUS
<1>2. ASSUME NEW v \in V, NEW i \in 1 .. n PROVE Op(v, entrants[i]) \in V
  <2>1. entrants[i] \in Ids
    BY <1>1
  <2> QED BY <2>1, JoinType
<1> HIDE DEF n, V
<1>3. F \in [(1 .. n) \X V -> V]
  BY <1>2
<1>4. PICK g \in [SUBSET (1 .. n) -> V] : IsFold(g, n, h, F)
  <2>1. h \in V
    BY DEF V
  <2> HIDE DEF F
  <2> QED BY <1>1, <1>3, <2>1, FoldExists
<1> DEFINE Is(it) == it = [s \in SUBSET (1 .. n) |->
                            IF s = {} THEN h
                            ELSE Op(it[s \ {Max(s)}], entrants[Max(s)])]
           iter == CHOOSE it : Is(it)
<1>5. Is(g)
  <2>1. ASSUME NEW s \in SUBSET (1 .. n), s # {}
        PROVE  g[s] = Op(g[s \ {Max(s)}], entrants[Max(s)])
    <3> DEFINE x == Max(s)
    <3>1. x \in 1 .. n
      BY <1>1, <2>1, MaxIn
    <3> HIDE DEF x
    <3>2. s \ {x} \in SUBSET (1 .. n) /\ g[s \ {x}] \in V
      OBVIOUS
    <3> QED BY <1>4, <2>1, <3>1, <3>2 DEF x, IsFold
  <2>2. g[{}] = h
    BY <1>4 DEF IsFold
  <2> QED BY <2>1, <2>2
<1>6. Is(iter)
  <2> HIDE DEF Is
  <2> QED BY <1>5
<1>7. Joined(h, entrants, matches, R) = iter[1 .. n]
  BY <1>1 DEF Joined, FoldLeft, MapThenFoldSet
<1> HIDE DEF iter
<1>8. HasHistory(n, V, h, F, iter[1 .. n])
  <2>1. iter[{}] = h
    BY <1>6
  <2>2. ASSUME NEW s \in SUBSET (1 .. n), s # {}, iter[s \ {Max(s)}] \in V
        PROVE  iter[s] = F[<<Max(s), iter[s \ {Max(s)}]>>]
    <3>1. Max(s) \in 1 .. n
      BY <1>1, <2>2, MaxIn
    <3>2. iter[s] = Op(iter[s \ {Max(s)}], entrants[Max(s)])
      BY <1>6, <2>2
    <3> QED BY <2>2, <3>1, <3>2
  <2>3. h \in V
    BY DEF V
  <2>4. FoldsIn(V, iter, n, F)
    BY <2>2 DEF FoldsIn
  <2> HIDE DEF F
  <2> QED BY <1>1, <1>3, <2>1, <2>3, <2>4, FoldSteps
<1>9. PICK hist \in [0 .. n -> V] :
        /\ hist[0] = h
        /\ hist[n] = iter[1 .. n]
        /\ \A i \in 1 .. n : hist[i] = F[<<i, hist[i - 1]>>]
  BY <1>8 DEF HasHistory
<1>10. ASSUME NEW i \in 1 .. n
      PROVE  hist[i - 1] \in V /\ hist[i] = Op(hist[i - 1], entrants[i])
  <2>1. i - 1 \in 0 .. n
    BY <1>1
  <2>2. hist[i - 1] \in V
    BY <1>9, <2>1
  <2>3. F[<<i, hist[i - 1]>>] = Op(hist[i - 1], entrants[i])
    BY <2>2
  <2> HIDE DEF F, Op
  <2> QED BY <1>9, <2>2, <2>3
<1>11. JoinedBy(hist, h, entrants, matches, R)
  BY <1>7, <1>9, <1>10 DEF JoinedBy, V, n
<1> QED BY <1>11

\* So do the joins of all challengers, and they bring in nobody else.
LEMMA JoinedKeeps ==
  ASSUME NEW h \in State, NEW entrants, NEW matches, NEW R \in Rules,
         AgesRight(h), Distinct(h.members), Newcomers(entrants, h.members)
  PROVE  LET j == Joined(h, entrants, matches, R)
         IN /\ j \in State
            /\ AgesRight(j) /\ Distinct(j.members)
            /\ j.next >= h.next
            /\ IdsOf(j.members) \subseteq IdsOf(h.members) \cup ToSet(entrants)
<1> DEFINE n == Len(entrants)
<1>1. entrants \in Seq(Ids) /\ n \in Nat
  BY DEF Newcomers
<1>0. PICK hist : JoinedBy(hist, h, entrants, matches, R)
  BY <1>1, JoinedHistory
<1>2. /\ hist \in [0 .. n -> State]
      /\ hist[0] = h
      /\ hist[n] = Joined(h, entrants, matches, R)
      /\ \A i \in 1 .. n : hist[i] = Join(hist[i - 1], entrants[i], matches, R)
  BY <1>0 DEF JoinedBy
<1> DEFINE Good(i) == /\ AgesRight(hist[i]) /\ Distinct(hist[i].members)
                      /\ hist[i].next >= h.next
                      /\ IdsOf(hist[i].members)
                           \subseteq IdsOf(h.members) \cup {entrants[k] : k \in 1 .. i}
           T == {i \in Nat : i <= n => Good(i)}
<1>3. Good(0)
  BY <1>2 DEF State
<1>4. ASSUME NEW i \in Nat, i + 1 <= n, Good(i) PROVE Good(i + 1)
  <2> DEFINE x == entrants[i + 1]
             before == hist[i]
             after == hist[i + 1]
  <2>1. i + 1 \in 1 .. n /\ i \in 0 .. n /\ (i + 1) - 1 = i
    BY <1>1, <1>4
  <2>2. before \in State /\ x \in Ids
    BY <1>1, <1>2, <2>1
  <2>3. after = Join(before, x, matches, R)
    BY <1>2, <2>1
  <2>4. x \notin IdsOf(before.members)
    <3>1. x \notin IdsOf(h.members) /\ \A k \in 1 .. i : entrants[k] # x
      BY <1>1, <2>1 DEF Newcomers
    <3>2. IdsOf(before.members) \subseteq IdsOf(h.members) \cup {entrants[k] : k \in 1 .. i}
      BY <1>4
    <3> HIDE DEF x, before
    <3> QED BY <3>1, <3>2
  <2>5. /\ AgesRight(after) /\ Distinct(after.members)
        /\ IdsOf(after.members) \subseteq IdsOf(before.members) \cup {x}
        /\ after.next = before.next + 1
    <3>1. AgesRight(before) /\ Distinct(before.members)
      BY <1>4
    <3> HIDE DEF after, before, x
    <3>2. /\ AgesRight(after) /\ Distinct(after.members)
          /\ IdsOf(after.members) \subseteq IdsOf(before.members) \cup {x}
      BY <2>2, <2>3, <2>4, <3>1, JoinAges
    <3>3. after.next = before.next + 1
      BY <2>2, <2>3, JoinType
    <3> QED BY <3>2, <3>3
  <2>6. after.next >= h.next
    <3>1. before.next \in Nat /\ h.next \in Nat /\ before.next >= h.next
      BY <1>4, <2>2 DEF State
    <3> QED BY <2>5, <3>1
  <2>7. IdsOf(after.members) \subseteq IdsOf(h.members) \cup {entrants[k] : k \in 1 .. (i + 1)}
    <3>1. {entrants[k] : k \in 1 .. i} \cup {x} \subseteq {entrants[k] : k \in 1 .. (i + 1)}
      OBVIOUS
    <3>2. IdsOf(before.members) \subseteq IdsOf(h.members) \cup {entrants[k] : k \in 1 .. i}
      BY <1>4
    <3> HIDE DEF after, before, x
    <3> QED BY <2>5, <3>1, <3>2
  <2> QED BY <2>5, <2>6, <2>7
<1> HIDE DEF Good
<1>5. n \in T
  <2>1. 0 \in T
    BY <1>3
  <2>2. \A i \in Nat : i \in T => i + 1 \in T
    BY <1>1, <1>4
  <2> HIDE DEF T, n
  <2> QED BY <1>1, <2>1, <2>2, AllNaturals
<1>6. Good(n)
  BY <1>1, <1>5
<1>7. {entrants[k] : k \in 1 .. n} = ToSet(entrants)
  BY <1>1 DEF ToSet
<1>8. hist[n] \in State
  BY <1>1, <1>2
<1> QED BY <1>2, <1>6, <1>7, <1>8 DEF Good

-----------------------------------------------------------------------------
\* A challenge.

\* The members of a table are warriors.
LEMMA IdsIn ==
  ASSUME NEW ms \in Seq(Member)
  PROVE  IdsOf(ms) \subseteq Ids
<1>1. \A i \in 1 .. Len(ms) : ms[i] \in Member
  OBVIOUS
<1> QED BY <1>1 DEF IdsOf, Member

\* Fewer members or another order leave the ages right.
LEMMA PickedAges ==
  ASSUME NEW next \in Nat, NEW ms \in Seq(Member), NEW ns \in Seq(Member),
         PickedFrom(ms, ns), AgesRight([next |-> next, members |-> ns])
  PROVE  AgesRight([next |-> next, members |-> ms])
<1>1. PICK q : PickedBy(q, ms, ns)
  BY DEF PickedFrom
<1>2. \A i, k \in 1 .. Len(ns) : /\ ns[i].age = next - 1 - ns[i].arrived
                                 /\ i # k => ns[i].arrived # ns[k].arrived
  BY DEF AgesRight
<1>3. \A i, k \in 1 .. Len(ms) : /\ ms[i].age = next - 1 - ms[i].arrived
                                 /\ i # k => ms[i].arrived # ms[k].arrived
  <2>1. /\ \A i \in 1 .. Len(ms) : q[i] \in 1 .. Len(ns) /\ ms[i] = ns[q[i]]
        /\ \A i, k \in 1 .. Len(ms) : i # k => q[i] # q[k]
    BY <1>1 DEF PickedBy, PickedUpTo
  <2> SUFFICES ASSUME NEW i \in 1 .. Len(ms), NEW k \in 1 .. Len(ms)
               PROVE  /\ ms[i].age = next - 1 - ms[i].arrived
                      /\ i # k => ms[i].arrived # ms[k].arrived
    OBVIOUS
  <2> DEFINE a == q[i]
             b == q[k]
  <2>2. a \in 1 .. Len(ns) /\ b \in 1 .. Len(ns) /\ (i # k => a # b)
        /\ ms[i] = ns[a] /\ ms[k] = ns[b]
    BY <2>1
  <2> HIDE DEF a, b
  <2>3. ns[a].age = next - 1 - ns[a].arrived /\ (a # b => ns[a].arrived # ns[b].arrived)
    BY <1>2, <2>2
  <2> QED BY <2>2, <2>3
<1> QED BY <1>3 DEF AgesRight

\* The table a challenge saves is sound, counts on, and lists only warriors
\* with a source.
LEMMA ChallengedTable ==
  ASSUME NEW R \in Rules, NEW h \in State, AgesRight(h), Distinct(h.members), NEW cache,
         NEW given \in FileLists, NEW draw
  PROVE  LET out == Challenged(R, h, cache, given, draw)
         IN /\ out.state \in State
            /\ AgesRight(out.state) /\ Distinct(out.state.members)
            /\ out.state.next >= h.next
            /\ IdsOf(out.state.members) \subseteq sources \cup out.stored
            /\ out.stored \subseteq Ids
<1> DEFINE out      == Challenged(R, h, cache, given, draw)
           entrants == Entrants(given, h.members, R)
           kept     == Kept(h.members, R)
           all      == IdsOf(kept) \cup ToSet(entrants)
           missing  == PairsOf(all) \ DOMAIN cache.matches
           matches  == Inserted([k \in missing |-> Play(R.params, k[1], k[2], SeedFor(R, draw, k))],
                                cache.matches)
           start    == [h EXCEPT !.members = kept]
           joined   == Joined(start, entrants, matches, R)
           ranked   == Ranked(joined.members, matches, R)
           final    == Trimmed(ranked, R)
<1>1. out.state = [next |-> joined.next, members |-> final] /\ out.stored = ToSet(entrants)
  BY DEF Challenged
<1>2. h.next \in Nat /\ h.members \in Seq(Member) /\ h = [next |-> h.next, members |-> h.members]
  BY DEF State
<1> HIDE DEF out, matches
<1>3. /\ kept \in Seq(Member) /\ PickedFrom(kept, h.members)
      /\ IdsOf(kept) \subseteq sources
  BY <1>2, KeptPicks
<1>4. Newcomers(entrants, h.members)
  BY EntrantsNew
<1> HIDE DEF kept, entrants
<1>5. start = [next |-> h.next, members |-> kept]
  BY <1>2
<1>6. /\ start \in State /\ AgesRight(start) /\ start.next = h.next /\ start.members = kept
      /\ Distinct(start.members)
  BY <1>2, <1>3, <1>5, PickedAges, PickedDistinct DEF State
<1> HIDE DEF start
<1>7. Newcomers(entrants, start.members)
  BY <1>2, <1>3, <1>4, <1>6, PickedIds DEF Newcomers
<1>8. /\ joined \in State /\ AgesRight(joined) /\ Distinct(joined.members) /\ joined.next >= h.next
      /\ IdsOf(joined.members) \subseteq IdsOf(kept) \cup ToSet(entrants)
  BY <1>6, <1>7, JoinedKeeps
<1> HIDE DEF joined
<1>9. /\ joined.next \in Nat /\ joined.members \in Seq(Member)
      /\ joined = [next |-> joined.next, members |-> joined.members]
  BY <1>8 DEF State
<1>10. ranked \in Seq(Member) /\ PickedFrom(ranked, joined.members)
  BY <1>9, RankedPicks
<1> HIDE DEF ranked
<1>11. final \in Seq(Member) /\ PickedFrom(final, ranked)
  BY <1>10, TrimmedPicks
<1> HIDE DEF final
<1>12. PickedFrom(final, joined.members)
  BY <1>9, <1>10, <1>11, PickedTwice
<1>13. AgesRight([next |-> joined.next, members |-> final])
  BY <1>8, <1>9, <1>11, <1>12, PickedAges
<1>14. IdsOf(final) \subseteq sources \cup ToSet(entrants)
  BY <1>3, <1>8, <1>9, <1>11, <1>12, PickedIds
<1>15. ToSet(entrants) \subseteq Ids
  BY <1>4 DEF Newcomers, ToSet
<1>16. Distinct(final)
  BY <1>8, <1>9, <1>11, <1>12, PickedDistinct
<1> HIDE DEF all, missing
<1> QED BY <1>1, <1>8, <1>9, <1>11, <1>13, <1>14, <1>15, <1>16 DEF State, out


\* A results.json with nothing in it can be played again.
LEMMA NothingReproducible ==
  ASSUME NEW R \in Rules
  PROVE  Reproducible(NoResults(R)) /\ NoResults(R).fingerprint = Fingerprint(R)
BY HillAssumption DEF Reproducible, NoResults, Fingerprint

\* Whatever pairs are played and whoever is left, the results kept are.
LEMMA PlayedReproducible ==
  ASSUME NEW R \in Rules, NEW cache, NEW missing, NEW draw, NEW S, NEW seeds, NEW matches,
         Reproducible(cache), cache.fingerprint = Fingerprint(R),
         seeds = IF R.random
                 THEN Inserted([k \in missing |-> SeedFor(R, draw, k)], cache.seeds)
                 ELSE cache.seeds,
         matches = Inserted([k \in missing |-> Play(R.params, k[1], k[2], SeedFor(R, draw, k))],
                            cache.matches)
  PROVE  Reproducible([fingerprint |-> cache.fingerprint,
                       matches |-> Retain(matches, S),
                       seeds |-> RetainSeeds(seeds, Retain(matches, S))])
<1> DEFINE kept == Retain(matches, S)
           keptSeeds == RetainSeeds(seeds, kept)
<1>1. /\ cache.fingerprint[1] = R.params /\ cache.fingerprint[2] = R.random
      /\ R.random \in BOOLEAN
  BY HillAssumption DEF Fingerprint
<1>2. /\ DOMAIN matches = missing \cup DOMAIN cache.matches
      /\ \A k \in missing : matches[k] = Play(R.params, k[1], k[2], SeedFor(R, draw, k))
      /\ \A k \in DOMAIN cache.matches \ missing : matches[k] = cache.matches[k]
  BY DEF Inserted
<1>3. /\ DOMAIN kept = DOMAIN matches \cap PairsOf(S)
      /\ \A k \in DOMAIN kept : kept[k] = matches[k]
  BY DEF Retain
<1>4. /\ DOMAIN keptSeeds = DOMAIN seeds \cap DOMAIN kept
      /\ \A k \in DOMAIN keptSeeds : keptSeeds[k] = seeds[k]
  BY DEF RetainSeeds
<1> HIDE DEF kept, keptSeeds
<1>5. CASE R.random
  <2>1. /\ DOMAIN seeds = DOMAIN matches
        /\ \A k \in missing : seeds[k] = SeedFor(R, draw, k)
        /\ \A k \in DOMAIN cache.matches \ missing : seeds[k] = cache.seeds[k]
    BY <1>1, <1>2, <1>5 DEF Inserted, Reproducible
  <2>2. \A k \in DOMAIN kept : kept[k] = Play(R.params, k[1], k[2], keptSeeds[k])
    BY <1>1, <1>2, <1>3, <1>4, <1>5, <2>1 DEF Reproducible
  <2> QED BY <1>1, <1>3, <1>4, <1>5, <2>1, <2>2 DEF Reproducible, kept, keptSeeds
<1>6. CASE ~R.random
  <2>1. DOMAIN keptSeeds = {}
    BY <1>1, <1>4, <1>6 DEF Reproducible
  <2>2. \A k \in DOMAIN kept : kept[k] = Play(R.params, k[1], k[2], HashSeed(k[1], k[2]))
    BY <1>1, <1>2, <1>3, <1>6 DEF Reproducible, SeedFor
  <2> QED BY <1>1, <1>6, <2>1, <2>2 DEF Reproducible, kept, keptSeeds
<1> QED BY <1>1, <1>5, <1>6

\* What a challenge makes of reproducible results is reproducible.
LEMMA ChallengeReproducible ==
  ASSUME NEW R \in Rules, NEW h, NEW cache, NEW given, NEW draw,
         Reproducible(cache), cache.fingerprint = Fingerprint(R)
  PROVE  Reproducible(Challenged(R, h, cache, given, draw).results)
<1> DEFINE entrants == Entrants(given, h.members, R)
           kept     == Kept(h.members, R)
           all      == IdsOf(kept) \cup ToSet(entrants)
           missing  == PairsOf(all) \ DOMAIN cache.matches
           seeds    == IF R.random
                       THEN Inserted([k \in missing |-> SeedFor(R, draw, k)], cache.seeds)
                       ELSE cache.seeds
           matches  == Inserted([k \in missing |-> Play(R.params, k[1], k[2], SeedFor(R, draw, k))],
                                cache.matches)
           joined   == Joined([h EXCEPT !.members = kept], entrants, matches, R)
           final    == Trimmed(Ranked(joined.members, matches, R), R)
           between  == Retain(matches, IdsOf(final))
<1>1. Challenged(R, h, cache, given, draw).results
        = [fingerprint |-> cache.fingerprint,
           matches |-> between,
           seeds   |-> RetainSeeds(seeds, between)]
  BY DEF Challenged
<1>2. seeds = IF R.random
              THEN Inserted([k \in missing |-> SeedFor(R, draw, k)], cache.seeds)
              ELSE cache.seeds
  OBVIOUS
<1>3. matches = Inserted([k \in missing |-> Play(R.params, k[1], k[2], SeedFor(R, draw, k))],
                         cache.matches)
  OBVIOUS
<1> HIDE DEF missing, seeds, matches, final
<1> QED BY <1>1, <1>2, <1>3, PlayedReproducible

\* A pair has two warriors of its set.
LEMMA PairsIn ==
  ASSUME NEW S \in SUBSET Ids
  PROVE  /\ PairsOf(S) \subseteq PairsOf(Ids)
         /\ \A k \in PairsOf(S) : k[1] \in Ids /\ k[2] \in Ids
BY DEF PairsOf, Pairing

\* The results of a challenge are scores of pairs of warriors.
LEMMA ChallengedScores ==
  ASSUME NEW R \in Rules, NEW h \in State, AgesRight(h), Distinct(h.members),
         NEW cache, IsResults(cache),
         NEW given \in FileLists, NEW draw, R.random => draw \in Draws
  PROVE  IsResults(Challenged(R, h, cache, given, draw).results)
<1> DEFINE entrants == Entrants(given, h.members, R)
           kept     == Kept(h.members, R)
           all      == IdsOf(kept) \cup ToSet(entrants)
           missing  == PairsOf(all) \ DOMAIN cache.matches
           seeds    == IF R.random
                       THEN Inserted([k \in missing |-> SeedFor(R, draw, k)], cache.seeds)
                       ELSE cache.seeds
           matches  == Inserted([k \in missing |-> Play(R.params, k[1], k[2], SeedFor(R, draw, k))],
                                cache.matches)
           joined   == Joined([h EXCEPT !.members = kept], entrants, matches, R)
           final    == Trimmed(Ranked(joined.members, matches, R), R)
           between  == Retain(matches, IdsOf(final))
           out      == Challenged(R, h, cache, given, draw)
<1>1. /\ out.results = [fingerprint |-> cache.fingerprint,
                        matches |-> between,
                        seeds   |-> RetainSeeds(seeds, between)]
      /\ out.state.members = final
  BY DEF Challenged
<1>2. IdsOf(final) \subseteq Ids
  <2>1. out.state \in State
    BY ChallengedTable
  <2> HIDE DEF out, final
  <2>2. final \in Seq(Member)
    BY <1>1, <2>1 DEF State
  <2> QED BY <2>2, IdsIn
<1>3. all \subseteq Ids
  <2>1. h.members \in Seq(Member)
    BY DEF State
  <2>2. IdsOf(kept) \subseteq Ids
    <3>1. kept \in Seq(Member)
      BY <2>1, KeptPicks
    <3> HIDE DEF kept
    <3> QED BY <3>1, IdsIn
  <2>3. ToSet(entrants) \subseteq Ids
    BY EntrantsNew DEF Newcomers, ToSet
  <2> QED BY <2>2, <2>3
<1> HIDE DEF all, final, seeds
<1>4. \A k \in missing : Play(R.params, k[1], k[2], SeedFor(R, draw, k)) \in Score
  <2> SUFFICES ASSUME NEW k \in missing
               PROVE  Play(R.params, k[1], k[2], SeedFor(R, draw, k)) \in Score
    OBVIOUS
  <2>1. k[1] \in Ids /\ k[2] \in Ids
    BY <1>3, PairsIn
  <2>2. SeedFor(R, draw, k)
          \in {HashSeed(k[1], k[2])} \cup {DrawnSeed(d, k[1], k[2]) : d \in Draws}
    BY DEF SeedFor
  <2> HIDE DEF missing
  <2> QED BY <2>1, <2>2, HillAssumption
<1> HIDE DEF missing
<1>5. \A k \in DOMAIN matches : matches[k] \in Score
  BY <1>4 DEF IsResults, Inserted
<1> HIDE DEF matches
<1>6. /\ DOMAIN between = DOMAIN matches \cap PairsOf(IdsOf(final))
      /\ \A k \in DOMAIN between : between[k] = matches[k]
  BY DEF Retain
<1> HIDE DEF between
<1>7. DOMAIN RetainSeeds(seeds, between) \subseteq DOMAIN between
  BY DEF RetainSeeds
<1>8. DOMAIN between \subseteq PairsOf(Ids)
  BY <1>2, <1>6, PairsIn
<1> QED BY <1>1, <1>5, <1>6, <1>7, <1>8 DEF IsResults, out

-----------------------------------------------------------------------------
\* What verify finds.

\* A table and its results go together, under R: what verify looks at besides
\* ids, sources and what each match came to.  A table that lost members to the
\* last trim need not be in order.
Orderly(R, shrunk, st, res) ==
  /\ \A x \in IdsOf(st.members) : Assembles(R.params, x)
  /\ R.size > 0 => Len(st.members) <= R.size
  /\ res.fingerprint = Fingerprint(R)
  /\ DOMAIN res.matches = PairsOf(IdsOf(st.members))
  /\ shrunk \/ Ranked(st.members, res.matches, R) = st.members

\* More warriors have more pairs.
LEMMA PairsGrow ==
  ASSUME NEW S, NEW A, S \subseteq A
  PROVE  PairsOf(S) \subseteq PairsOf(A)
<1> SUFFICES ASSUME NEW k \in PairsOf(S) PROVE k \in PairsOf(A)
  OBVIOUS
<1>1. PICK x \in S, y \in S : k = Pairing(x, y)
  BY DEF PairsOf
<1>2. k \notin { <<z, z>> : z \in S }
  BY DEF PairsOf
<1>3. k \notin { <<z, z>> : z \in A }
  <2> SUFFICES ASSUME NEW z \in A, k = <<z, z>> PROVE FALSE
    OBVIOUS
  <2>1. x = z
    BY <1>1 DEF Pairing
  <2> QED BY <1>2, <2>1
<1> QED BY <1>1, <1>3 DEF PairsOf

\* What the members of a final table were played and ranked by stays in it.
LEMMA RankingStands ==
  ASSUME NEW ms \in Seq(Member), NEW matches, NEW R \in Rules, NEW ranked,
         ranked = Ranked(ms, matches, R),
         \A k \in PairsOf(IdsOf(ms)) : k \in DOMAIN matches /\ matches[k] \in Score
  PROVE  Ranked(ranked, Retain(matches, IdsOf(ranked)), R) = ranked
<1> DEFINE between == Retain(matches, IdsOf(ranked))
           score == ScoresOf(ms, matches, R)
<1>1. ranked \in Seq(Member) /\ IdsOf(ranked) = IdsOf(ms)
  BY RankedPicks
<1>2. \A k \in PairsOf(IdsOf(ms)) : matches[k] \in Score /\ between[k] = matches[k]
  BY <1>1 DEF Retain
<1> HIDE DEF between, score
<1>3. /\ score \in [IdsOf(ms) -> Int]
      /\ ScoresOf(ms, between, R) = score
  BY <1>2, ScoresKept DEF score
<1>4. InOrder(ranked, score, R)
  BY <1>3, RankedInOrder DEF score
<1>5. ScoresOf(ranked, between, R) = score
  BY <1>1, <1>3 DEF ScoresOf
<1>6. Ranked(ranked, between, R) = ranked
  BY <1>1, <1>4, <1>5, RankedAgain
<1> QED BY <1>6 DEF between

\* What a challenge saves goes together, under the rules it was made with.
LEMMA ChallengedOrderly ==
  ASSUME NEW R \in Rules, NEW h \in State, AgesRight(h), Distinct(h.members),
         NEW cache, IsResults(cache), cache.fingerprint = Fingerprint(R),
         NEW given \in FileLists, NEW draw, R.random => draw \in Draws
  PROVE  LET out == Challenged(R, h, cache, given, draw)
         IN Orderly(R, out.shrunk, out.state, out.results)
<1> DEFINE out      == Challenged(R, h, cache, given, draw)
           entrants == Entrants(given, h.members, R)
           kept     == Kept(h.members, R)
           all      == IdsOf(kept) \cup ToSet(entrants)
           missing  == PairsOf(all) \ DOMAIN cache.matches
           matches  == Inserted([k \in missing |-> Play(R.params, k[1], k[2], SeedFor(R, draw, k))],
                                cache.matches)
           start    == [h EXCEPT !.members = kept]
           joined   == Joined(start, entrants, matches, R)
           ranked   == Ranked(joined.members, matches, R)
           final    == Trimmed(ranked, R)
           between  == Retain(matches, IdsOf(final))
<1>1. /\ out.state.members = final /\ out.shrunk = (final # ranked)
      /\ out.results.matches = between /\ out.results.fingerprint = cache.fingerprint
  BY DEF Challenged
<1>2. h.next \in Nat /\ h.members \in Seq(Member) /\ h = [next |-> h.next, members |-> h.members]
  BY DEF State
<1>3. /\ kept \in Seq(Member) /\ PickedFrom(kept, h.members)
      /\ \A x \in IdsOf(kept) : Assembles(R.params, x)
  BY <1>2, KeptPicks
<1>4. /\ Newcomers(entrants, h.members)
      /\ \A x \in ToSet(entrants) : Assembles(R.params, x)
  BY EntrantsNew
<1>5. all \subseteq Ids
  <2>1. ToSet(entrants) \subseteq Ids
    BY <1>4 DEF Newcomers, ToSet
  <2> HIDE DEF kept, entrants
  <2> QED BY <1>3, <2>1, IdsIn
<1>6. \A k \in missing : Play(R.params, k[1], k[2], SeedFor(R, draw, k)) \in Score
  <2> HIDE DEF all
  <2> SUFFICES ASSUME NEW k \in missing
               PROVE  Play(R.params, k[1], k[2], SeedFor(R, draw, k)) \in Score
    OBVIOUS
  <2>1. k[1] \in Ids /\ k[2] \in Ids
    BY <1>5, PairsIn
  <2>2. SeedFor(R, draw, k)
          \in {HashSeed(k[1], k[2])} \cup {DrawnSeed(d, k[1], k[2]) : d \in Draws}
    BY DEF SeedFor
  <2> HIDE DEF missing
  <2> QED BY <2>1, <2>2, HillAssumption
<1>7. /\ PairsOf(all) \subseteq DOMAIN matches
      /\ \A k \in DOMAIN matches : matches[k] \in Score
  <2>1. DOMAIN matches = missing \cup DOMAIN cache.matches
    BY DEF Inserted
  <2> HIDE DEF all
  <2>2. PairsOf(all) \subseteq DOMAIN matches
    BY <2>1
  <2> HIDE DEF missing
  <2>3. \A k \in DOMAIN matches : matches[k] \in Score
    BY <1>6 DEF IsResults, Inserted
  <2> QED BY <2>2, <2>3
<1> HIDE DEF out, matches, kept, entrants
<1>8. /\ start \in State /\ AgesRight(start) /\ start.members = kept
      /\ Distinct(start.members)
  <2>1. start = [next |-> h.next, members |-> kept]
    BY <1>2
  <2> HIDE DEF start
  <2> QED BY <1>2, <1>3, <2>1, PickedAges, PickedDistinct DEF State
<1> HIDE DEF start
<1>9. Newcomers(entrants, start.members)
  BY <1>2, <1>3, <1>4, <1>8, PickedIds DEF Newcomers
<1>10. joined \in State /\ IdsOf(joined.members) \subseteq all
  BY <1>8, <1>9, JoinedKeeps
<1> HIDE DEF joined
<1>11. joined.members \in Seq(Member)
  BY <1>10 DEF State
<1>12. /\ ranked \in Seq(Member) /\ IdsOf(ranked) = IdsOf(joined.members)
       /\ ranked = Ranked(joined.members, matches, R)
  BY <1>11, RankedPicks
<1> HIDE DEF ranked
<1>13. /\ final \in Seq(Member) /\ PickedFrom(final, ranked)
       /\ R.size > 0 => Len(final) <= R.size
  BY <1>12, TrimmedPicks
<1> HIDE DEF final
<1>14. IdsOf(final) \subseteq all
  BY <1>10, <1>12, <1>13, PickedIds
<1>15. \A x \in IdsOf(final) : Assembles(R.params, x)
  BY <1>3, <1>4, <1>14
<1>16. PairsOf(IdsOf(joined.members)) \subseteq PairsOf(all)
  BY <1>10, PairsGrow
<1>17. PairsOf(IdsOf(final)) \subseteq PairsOf(all)
  BY <1>14, PairsGrow
<1> HIDE DEF all, missing
<1>18. DOMAIN between = PairsOf(IdsOf(final))
  BY <1>7, <1>17 DEF Retain
<1>19. ASSUME final = ranked PROVE Ranked(final, between, R) = final
  <2>1. \A k \in PairsOf(IdsOf(joined.members)) : k \in DOMAIN matches /\ matches[k] \in Score
    BY <1>7, <1>16
  <2>2. Ranked(ranked, Retain(matches, IdsOf(ranked)), R) = ranked
    BY <1>11, <1>12, <2>1, RankingStands
  <2> QED BY <1>19, <2>2
<1> HIDE DEF between
<1>20. Orderly(R, out.shrunk, out.state, out.results)
  BY <1>1, <1>13, <1>15, <1>18, <1>19 DEF Orderly
<1> QED BY <1>20 DEF out

\* What verify tells apart.
Problems == {"state", "source", "size", "rules", "results", "result", "ranking"}

\* On an orderly table with its sources and sound results verify finds at most
\* the order, and only after a trim.
LEMMA OrderlyVerifies ==
  ASSUME NEW R \in Rules, NEW shrunk \in BOOLEAN, NEW st \in State, NEW res, NEW src,
         Orderly(R, shrunk, st, res), Distinct(st.members), IdsOf(st.members) \subseteq src,
         Reproducible(res)
  PROVE  Verify(R, st, res, src) \subseteq (IF shrunk THEN {"ranking"} ELSE {})
<1> DEFINE S      == IdsOf(st.members)
           stale  == res.fingerprint # Fingerprint(R)
           pairs  == PairsOf(S)
           stored == DOMAIN res.matches
           seeded == IF R.random THEN DOMAIN res.seeds ELSE pairs
           Seed(k) == IF R.random THEN res.seeds[k] ELSE HashSeed(k[1], k[2])
           twice   == \E i, k \in 1 .. Len(st.members) :
                        i # k /\ st.members[i].id = st.members[k].id
           missing == \E x \in S : x \notin src \/ ~Assembles(R.params, x)
           large   == R.size > 0 /\ Len(st.members) > R.size
           gaps    == ~stale /\ (pairs # stored \/ pairs \ seeded # {})
           wrong   == ~stale /\ \E k \in pairs \cap stored \cap seeded :
                        /\ \A x \in {k[1], k[2]} : x \in src /\ Assembles(R.params, x)
                        /\ res.matches[k] # Play(R.params, k[1], k[2], Seed(k))
           order   == /\ ~stale /\ pairs \subseteq stored
                      /\ Ranked(st.members, res.matches, R) # st.members
           found   == [state |-> twice, source |-> missing, size |-> large, rules |-> stale,
                       results |-> gaps, result |-> wrong, ranking |-> order]
<1>1. Verify(R, st, res, src) = { k \in DOMAIN found : found[k] }
  BY DEF Verify
<1>2. ~stale /\ stored = pairs /\ (order => shrunk)
  BY DEF Orderly
<1>3. ~twice
  BY DEF Distinct
<1>4. ~missing
  BY DEF Orderly
<1>5. ~large
  <2>1. Len(st.members) \in Nat /\ R.size \in Nat
    BY HillAssumption DEF State
  <2> QED BY <2>1 DEF Orderly
<1>6. /\ res.fingerprint[1] = R.params /\ res.fingerprint[2] = R.random
      /\ R.random \in BOOLEAN
  BY <1>2, HillAssumption DEF Fingerprint
<1>7. ~gaps
  BY <1>2, <1>6 DEF Reproducible
<1>8. ~wrong
  BY <1>2, <1>6 DEF Reproducible
<1> HIDE DEF twice, missing, large, stale, gaps, wrong, order
<1>9. ASSUME NEW k \in DOMAIN found, found[k]
      PROVE  k \in (IF shrunk THEN {"ranking"} ELSE {})
  <2>1. k \in Problems
    BY DEF Problems
  <2>2. k # "state" /\ k # "source" /\ k # "size"
    BY <1>3, <1>4, <1>5, <1>9
  <2>3. k # "rules" /\ k # "results" /\ k # "result"
    BY <1>2, <1>7, <1>8, <1>9
  <2>4. k = "ranking"
    BY <2>1, <2>2, <2>3 DEF Problems
  <2>5. order
    BY <1>9, <2>4
  <2> QED BY <1>2, <2>4, <2>5
<1> HIDE DEF found
<1> QED BY <1>1, <1>9

-----------------------------------------------------------------------------
\* What the files and the runs hold.

Making  == {"init state", "init results", "init rules"}
Holding == {"loaded", "save results", "save state", "log"}
Places  == {"idle", "waiting"} \cup Making \cup Holding

\* Where runs are, and what a run has read besides the table and the results.
Shape ==
  /\ pc \in [Runs -> Places]
  /\ DOMAIN my = Runs
  /\ rules \in Rules \cup {None}
  /\ sources \in SUBSET Ids
  /\ history \in Nat
  /\ torn \in BOOLEAN
  /\ lock \in Runs \cup {None}
  /\ \A r \in Runs :
       /\ pc[r] = "idle" => my[r] = None
       /\ pc[r] \in Making \cup {"waiting", "loaded"} => my[r].rules \in Rules
       /\ pc[r] \in {"waiting", "loaded"} => /\ my[r].given \in FileLists
                                            /\ my[r].seed \in Draws \cup {None}

SoundResults(res) == IsResults(res) /\ Reproducible(res)

\* Every copy of the results, on disk and in memory, is sound.
KeptResults ==
  /\ results # None \/ rules # None => SoundResults(results)
  /\ \A r \in Runs :
       /\ pc[r] \in {"init rules", "waiting"} => SoundResults(results)
       /\ pc[r] = "loaded" => /\ SoundResults(my[r].cache)
                              /\ my[r].cache.fingerprint = Fingerprint(my[r].rules)
       /\ pc[r] = "save results" => SoundResults(my[r].out.results)

\* A table with nobody twice, with the ages right, whose members' sources are
\* on disk.
SoundTable(st, src) ==
  /\ st \in State
  /\ AgesRight(st)
  /\ Distinct(st.members)
  /\ IdsOf(st.members) \subseteq src

\* Every copy of the table is sound.
KeptTables ==
  /\ state # None \/ rules # None => SoundTable(state, sources)
  /\ \A r \in Runs :
       /\ pc[r] \in {"init results", "init rules", "waiting"} => SoundTable(state, sources)
       /\ pc[r] = "loaded" => SoundTable(my[r].state, sources)
       /\ pc[r] \in {"save results", "save state"} => SoundTable(my[r].out.state, sources)

AllSound == Shape /\ KeptResults /\ KeptTables

\* A table with nobody in it is sound.
LEMMA NoTableSound ==
  /\ NoState \in State /\ AgesRight(NoState)
  /\ Distinct(NoState.members) /\ IdsOf(NoState.members) = {}
BY DEF NoState, State, AgesRight, Distinct, IdsOf

\* So are results with nothing in them.
LEMMA NoResultsSound ==
  ASSUME NEW R \in Rules
  PROVE  SoundResults(NoResults(R)) /\ NoResults(R).fingerprint = Fingerprint(R)
<1>1. IsResults(NoResults(R))
  BY DEF IsResults, NoResults
<1> QED BY <1>1, NothingReproducible DEF SoundResults

\* At first there is nothing that could be unsound.
LEMMA InitKept == Init => AllSound
<1> SUFFICES ASSUME Init PROVE AllSound
  OBVIOUS
<1>1. /\ rules = None /\ results = None /\ state = None /\ sources = {} /\ history = 0
      /\ lock = None /\ torn = FALSE
      /\ pc = [r \in Runs |-> "idle"] /\ my = [r \in Runs |-> None]
  BY DEF Init
<1> QED BY <1>1 DEF AllSound, Shape, KeptResults, KeptTables, Places, Making

\* Writing the files of a new hill.
LEMMA InitStepsKept ==
  ASSUME AllSound, NEW r \in Runs,
         \/ \E R \in Rules : InitCheck(r, R)
         \/ InitState(r) \/ InitResults(r) \/ InitRules(r)
  PROVE  AllSound'
<1> USE DEF AllSound
<1>1. ASSUME NEW R \in Rules, InitCheck(r, R) PROVE AllSound'
  <2>1. /\ pc' = [pc EXCEPT ![r] = "init state"] /\ my' = [my EXCEPT ![r] = [rules |-> R]]
        /\ UNCHANGED <<rules, state, results, sources, history, lock, torn>>
    BY <1>1 DEF InitCheck, Pause, Goto, files
  <2>2. Shape'
    BY <2>1 DEF Shape, Places, Making
  <2>3. KeptResults'
    BY <2>1 DEF Shape, KeptResults
  <2>4. KeptTables'
    BY <2>1 DEF Shape, KeptTables, SoundTable
  <2> QED BY <2>2, <2>3, <2>4
<1>2. CASE InitState(r)
  <2>1. /\ pc' = [pc EXCEPT ![r] = "init results"] /\ state' = NoState
        /\ pc[r] = "init state"
        /\ UNCHANGED <<rules, results, sources, history, my, lock, torn>>
    BY <1>2 DEF InitState, Pause, Goto
  <2>2. Shape'
    BY <2>1 DEF Shape, Places, Making
  <2>3. KeptResults'
    BY <2>1 DEF Shape, KeptResults
  <2>4. SoundTable(state', sources')
    BY <2>1, NoTableSound DEF SoundTable
  <2>5. KeptTables'
    BY <2>1, <2>4 DEF Shape, KeptTables, SoundTable
  <2> QED BY <2>2, <2>3, <2>5
<1>3. CASE InitResults(r)
  <2>1. /\ pc' = [pc EXCEPT ![r] = "init rules"] /\ results' = NoResults(my[r].rules)
        /\ pc[r] = "init results"
        /\ UNCHANGED <<rules, state, sources, history, my, lock, torn>>
    BY <1>3 DEF InitResults, Pause, Goto
  <2>2. Shape'
    BY <2>1 DEF Shape, Places, Making
  <2>3. SoundResults(results')
    BY <2>1, NoResultsSound DEF Shape, Making
  <2>4. KeptResults'
    BY <2>1, <2>3 DEF Shape, KeptResults
  <2>5. KeptTables'
    BY <2>1 DEF Shape, KeptTables, SoundTable
  <2> QED BY <2>2, <2>4, <2>5
<1>4. CASE InitRules(r)
  <2>1. /\ pc' = [pc EXCEPT ![r] = "idle"] /\ my' = [my EXCEPT ![r] = None]
        /\ pc[r] = "init rules" /\ rules' = my[r].rules
        /\ UNCHANGED <<state, results, sources, history, lock, torn>>
    BY <1>4 DEF InitRules, Pause, Goto, Forget
  <2>2. Shape'
    BY <2>1 DEF Shape, Places, Making
  <2>3. KeptResults'
    BY <2>1 DEF Shape, KeptResults
  <2>4. KeptTables'
    BY <2>1 DEF Shape, KeptTables, SoundTable
  <2> QED BY <2>2, <2>3, <2>4
<1> QED BY <1>1, <1>2, <1>3, <1>4

\* What a run loads is what is on disk, or no results at all.
LEMMA LoadKept ==
  ASSUME AllSound, NEW r \in Runs, Load(r)
  PROVE  AllSound'
<1> DEFINE R == my[r].rules
           cache == IF Fresh(R) THEN results ELSE NoResults(R)
<1>1. pc[r] = "waiting" /\ R \in Rules /\ SoundResults(results) /\ SoundTable(state, sources)
  BY DEF Load, AllSound, Shape, KeptResults, KeptTables
<1>2. SoundResults(cache) /\ cache.fingerprint = Fingerprint(R)
  BY <1>1, NoResultsSound DEF Fresh
<1>3. /\ DOMAIN my' = Runs
      /\ my'[r] = [rules |-> R, given |-> my[r].given, seed |-> my[r].seed,
                   state |-> state, cache |-> cache]
      /\ \A q \in Runs \ {r} : my'[q] = my[q]
  BY DEF Load, AllSound, Shape
<1>4. pc' = [pc EXCEPT ![r] = "loaded"] /\ lock' = r
      /\ UNCHANGED <<rules, state, results, sources, history, torn>>
  BY DEF Load, TakeLock, Goto, files
<1> HIDE DEF cache
<1>5. /\ my'[r].rules = R /\ my'[r].given = my[r].given /\ my'[r].seed = my[r].seed
      /\ my'[r].state = state /\ my'[r].cache = cache
  BY <1>3
<1>6. /\ pc' \in [Runs -> Places] /\ pc'[r] = "loaded"
      /\ \A q \in Runs \ {r} : pc'[q] = pc[q]
  BY <1>4 DEF AllSound, Shape, Places, Holding
<1>7. Shape'
  BY <1>1, <1>3, <1>4, <1>5, <1>6 DEF AllSound, Shape, Making
<1>8. KeptResults'
  BY <1>2, <1>3, <1>4, <1>5, <1>6 DEF AllSound, KeptResults
<1>9. KeptTables'
  BY <1>1, <1>3, <1>4, <1>5, <1>6 DEF AllSound, KeptTables, SoundTable
<1> QED BY <1>7, <1>8, <1>9 DEF AllSound

\* What a run makes of what it loaded.
LEMMA ChallengeKept ==
  ASSUME AllSound, NEW r \in Runs, Challenge(r)
  PROVE  AllSound'
<1> DEFINE m == my[r]
<1>1. PICK draw \in (IF m.rules.random /\ m.seed = None THEN Draws ELSE {m.seed}) :
        /\ WriteSources(Challenged(m.rules, m.state, m.cache, m.given, draw).stored)
        /\ my' = [my EXCEPT ![r] =
                   [rules |-> m.rules,
                    out |-> Challenged(m.rules, m.state, m.cache, m.given, draw)]]
  BY DEF Challenge
<1> DEFINE out == Challenged(m.rules, m.state, m.cache, m.given, draw)
<1>2. /\ pc[r] = "loaded" /\ m.rules \in Rules /\ m.given \in FileLists
      /\ m.seed \in Draws \cup {None}
      /\ SoundTable(m.state, sources) /\ SoundResults(m.cache)
      /\ m.cache.fingerprint = Fingerprint(m.rules)
  BY DEF Challenge, AllSound, Shape, KeptResults, KeptTables
<1>3. m.rules.random => draw \in Draws
  BY <1>1, <1>2
<1>4. /\ out.state \in State /\ AgesRight(out.state) /\ Distinct(out.state.members)
      /\ IdsOf(out.state.members) \subseteq sources \cup out.stored
      /\ out.stored \subseteq Ids
  BY <1>2, ChallengedTable DEF SoundTable
<1>5. SoundResults(out.results)
  BY <1>2, <1>3, ChallengedScores, ChallengeReproducible DEF SoundTable, SoundResults
<1> HIDE DEF out
<1>6. sources' = sources \cup out.stored
  BY <1>1 DEF WriteSources, out
<1>7. /\ DOMAIN my' = Runs /\ my'[r] = [rules |-> m.rules, out |-> out]
      /\ \A q \in Runs \ {r} : my'[q] = my[q]
  BY <1>1 DEF AllSound, Shape, out
<1>8. /\ pc' = [pc EXCEPT ![r] = "save results"]
      /\ UNCHANGED <<rules, state, results, history, lock, torn>>
  BY DEF Challenge, Goto
<1>9. /\ pc' \in [Runs -> Places] /\ pc'[r] = "save results"
      /\ \A q \in Runs \ {r} : pc'[q] = pc[q]
  BY <1>8 DEF AllSound, Shape, Places, Holding
<1>10. \A st : SoundTable(st, sources) => SoundTable(st, sources')
  BY <1>6 DEF SoundTable
<1>11. SoundTable(out.state, sources')
  BY <1>4, <1>6 DEF SoundTable
<1>12. Shape'
  BY <1>4, <1>6, <1>7, <1>8, <1>9 DEF AllSound, Shape, Making
<1>13. my'[r].out = out
  BY <1>7
<1>14. KeptResults'
  <2>1. results' # None \/ rules' # None => SoundResults(results')
    BY <1>8 DEF AllSound, KeptResults
  <2>2. ASSUME NEW q \in Runs
        PROVE  /\ pc'[q] \in {"init rules", "waiting"} => SoundResults(results')
               /\ pc'[q] = "loaded" => /\ SoundResults(my'[q].cache)
                                       /\ my'[q].cache.fingerprint = Fingerprint(my'[q].rules)
               /\ pc'[q] = "save results" => SoundResults(my'[q].out.results)
    <3>1. CASE q = r
      <4>1. pc'[q] = "save results" /\ my'[q].out = out
        BY <1>9, <1>13, <3>1
      <4> QED BY <1>5, <4>1
    <3>2. CASE q # r
      <4>1. pc'[q] = pc[q] /\ my'[q] = my[q] /\ results' = results
        BY <1>7, <1>8, <1>9, <3>2
      <4> QED BY <4>1 DEF AllSound, KeptResults
    <3> QED BY <3>1, <3>2
  <2> QED BY <2>1, <2>2 DEF KeptResults
<1>15. KeptTables'
  <2>1. state' # None \/ rules' # None => SoundTable(state', sources')
    BY <1>8, <1>10 DEF AllSound, KeptTables
  <2>2. ASSUME NEW q \in Runs
        PROVE  /\ pc'[q] \in {"init results", "init rules", "waiting"}
                    => SoundTable(state', sources')
               /\ pc'[q] = "loaded" => SoundTable(my'[q].state, sources')
               /\ pc'[q] \in {"save results", "save state"}
                    => SoundTable(my'[q].out.state, sources')
    <3>1. CASE q = r
      <4>1. pc'[q] = "save results" /\ my'[q].out = out
        BY <1>9, <1>13, <3>1
      <4> QED BY <1>11, <4>1
    <3>2. CASE q # r
      <4>1. pc'[q] = pc[q] /\ my'[q] = my[q] /\ state' = state
        BY <1>7, <1>8, <1>9, <3>2
      <4> QED BY <1>10, <4>1 DEF AllSound, KeptTables
    <3> QED BY <3>1, <3>2
  <2> QED BY <2>1, <2>2 DEF KeptTables
<1> QED BY <1>12, <1>14, <1>15 DEF AllSound

\* Writing the files a challenge has made, and giving up.
LEMMA EndStepsKept ==
  ASSUME AllSound, NEW r \in Runs,
         \/ \E given \in FileLists, seed \in Draws \cup {None} : Open(r, given, seed)
         \/ Report(r) \/ SaveResults(r) \/ SaveState(r) \/ Log(r) \/ Crash(r)
  PROVE  AllSound'
<1> USE DEF AllSound
<1>1. ASSUME NEW given \in FileLists, NEW seed \in Draws \cup {None}, Open(r, given, seed)
      PROVE  AllSound'
  <2>1. /\ pc' = [pc EXCEPT ![r] = "waiting"] /\ rules # None
        /\ my' = [my EXCEPT ![r] = [rules |-> rules, given |-> given, seed |-> seed]]
        /\ UNCHANGED <<rules, state, results, sources, history, lock, torn>>
    BY <1>1 DEF Open, Pause, Goto, files
  <2>2. Shape'
    BY <2>1 DEF Shape, Places, Making
  <2>3. KeptResults'
    BY <2>1 DEF Shape, KeptResults
  <2>4. KeptTables'
    BY <2>1 DEF Shape, KeptTables
  <2> QED BY <2>2, <2>3, <2>4
<1>2. CASE Report(r)
  <2>1. /\ pc' = [pc EXCEPT ![r] = "idle"] /\ my' = [my EXCEPT ![r] = None] /\ lock' = None
        /\ UNCHANGED <<rules, state, results, sources, history, torn>>
    BY <1>2 DEF Report, Goto, Forget, files
  <2> QED BY <2>1 DEF Shape, KeptResults, KeptTables, Places, Making
<1>3. CASE SaveResults(r)
  <2>1. /\ pc' = [pc EXCEPT ![r] = "save state"] /\ pc[r] = "save results"
        /\ results' = my[r].out.results /\ torn' = TRUE
        /\ UNCHANGED <<rules, state, sources, history, lock, my>>
    BY <1>3 DEF SaveResults, Goto
  <2>2. SoundResults(results')
    BY <2>1 DEF KeptResults
  <2>3. Shape'
    BY <2>1 DEF Shape, Places, Making, Holding
  <2>4. KeptResults'
    BY <2>1, <2>2 DEF Shape, KeptResults
  <2>5. KeptTables'
    BY <2>1 DEF Shape, KeptTables
  <2> QED BY <2>3, <2>4, <2>5
<1>4. CASE SaveState(r)
  <2>1. /\ pc' = [pc EXCEPT ![r] = "log"] /\ pc[r] = "save state"
        /\ state' = my[r].out.state /\ torn' = FALSE
        /\ UNCHANGED <<rules, results, sources, history, lock, my>>
    BY <1>4 DEF SaveState, Goto
  <2>2. SoundTable(state', sources')
    BY <2>1 DEF KeptTables
  <2>3. Shape'
    BY <2>1 DEF Shape, Places, Making, Holding
  <2>4. KeptResults'
    BY <2>1 DEF Shape, KeptResults
  <2>5. KeptTables'
    BY <2>1, <2>2 DEF Shape, KeptTables
  <2> QED BY <2>3, <2>4, <2>5
<1>5. CASE Log(r)
  <2>1. /\ pc' = [pc EXCEPT ![r] = "idle"] /\ my' = [my EXCEPT ![r] = None] /\ lock' = None
        /\ history' \in {history, history + 1}
        /\ UNCHANGED <<rules, state, results, sources, torn>>
    BY <1>5 DEF Log, Goto, Forget
  <2>2. history' \in Nat
    BY <2>1 DEF Shape
  <2>3. Shape'
    BY <2>1, <2>2 DEF Shape, Places, Making
  <2>4. KeptResults'
    BY <2>1 DEF Shape, KeptResults
  <2>5. KeptTables'
    BY <2>1 DEF Shape, KeptTables
  <2> QED BY <2>3, <2>4, <2>5
<1>6. CASE Crash(r)
  <2>1. PICK some \in SUBSET (IF pc[r] = "loaded"
                              THEN ToSet(Entrants(my[r].given, my[r].state.members, my[r].rules))
                              ELSE {}) : sources' = sources \cup some
    BY <1>6 DEF Crash
  <2>2. some \subseteq Ids
    BY <2>1, EntrantsNew DEF Shape, Newcomers, ToSet
  <2>3. /\ pc' = [pc EXCEPT ![r] = "idle"] /\ my' = [my EXCEPT ![r] = None]
        /\ lock' \in {lock, None}
        /\ UNCHANGED <<rules, state, results, history, torn>>
    BY <1>6 DEF Crash, Goto, Forget, Dropped
  <2>4. \A st : SoundTable(st, sources) => SoundTable(st, sources')
    BY <2>1 DEF SoundTable
  <2>5. Shape'
    BY <2>1, <2>2, <2>3 DEF Shape, Places, Making
  <2>6. KeptResults'
    BY <2>3 DEF Shape, KeptResults
  <2>7. KeptTables'
    BY <2>3, <2>4 DEF Shape, KeptTables
  <2> QED BY <2>5, <2>6, <2>7
<1> QED BY <1>1, <1>2, <1>3, <1>4, <1>5, <1>6

\* However runs interleave and wherever they die, what they hold is sound.
THEOREM HillInvariant == Spec => []AllSound
<1>1. AllSound /\ [Next]_vars => AllSound'
  <2> SUFFICES ASSUME AllSound, [Next]_vars PROVE AllSound'
    OBVIOUS
  <2>1. ASSUME NEW r \in Runs, \/ \E R \in Rules : InitCheck(r, R)
                               \/ \E given \in FileLists, seed \in Draws \cup {None} :
                                    Open(r, given, seed)
                               \/ Step(r)
                               \/ Crash(r)
        PROVE  AllSound'
    BY <2>1, InitStepsKept, LoadKept, ChallengeKept, EndStepsKept DEF Step
  <2>2. ASSUME NEW R \in Rules, Edit(R) PROVE AllSound'
    BY <2>2 DEF Edit, AllSound, Shape, KeptResults, KeptTables
  <2>3. CASE UNCHANGED vars
    BY <2>3 DEF vars, files, AllSound, Shape, KeptResults, KeptTables
  <2> QED BY <2>1, <2>2, <2>3 DEF Next
<1> QED BY <1>1, InitKept, PTL DEF Spec

\* The files and the runs' memory hold what they should.
THEOREM TypesHold == Spec => []TypeOK
<1>1. AllSound => TypeOK
  BY DEF AllSound, Shape, KeptResults, KeptTables, SoundResults, SoundTable, TypeOK
<1> QED BY <1>1, HillInvariant, PTL

\* Whatever runs, crashes and edits there were, a member's age counts those
\* who came after it and no arrival number was given twice.
THEOREM AgesHold == Spec => []AgesCountArrivals
<1>1. AllSound => AgesCountArrivals
  BY DEF AllSound, KeptTables, SoundTable, AgesCountArrivals
<1> QED BY <1>1, HillInvariant, PTL

\* Whenever a run dies, every warrior the table lists can be read again.
THEOREM SourcesHold == Spec => []MembersHaveSources
<1>1. AllSound => MembersHaveSources
  BY DEF AllSound, KeptTables, SoundTable, MembersHaveSources
<1> QED BY <1>1, HillInvariant, PTL

\* No result is kept under other rules, another seed or another placement
\* than it was played with.
THEOREM ResultsHold == Spec => []ResultsReproducible
<1>1. AllSound => ResultsReproducible
  BY DEF AllSound, KeptResults, SoundResults, ResultsReproducible
<1> QED BY <1>1, HillInvariant, PTL

-----------------------------------------------------------------------------
\* No challenge is lost.

\* The lock is held from the load to the last write, and by nobody else.
LockHeld == \A r \in Runs : pc[r] \in Holding <=> lock = r

Counts == [challenges: Nat, edits: Nat, crashes: Nat, inits: Nat]

\* One run makes the hill, before it is one and before its table is written.
OneInit ==
  /\ spent \in Counts
  /\ spent.inits = 0 => rules = None /\ state = None /\ \A r \in Runs : pc[r] \notin Making
  /\ \A r, q \in Runs : pc[r] \in Making /\ pc[q] \in Making => r = q
  /\ \A r \in Runs : /\ pc[r] \in Making => rules = None
                     /\ pc[r] = "init state" => state = None
                     /\ pc[r] \in Holding \cup {"waiting"} => rules # None

\* Who holds the lock has read the table that is on disk, and will replace it
\* by one that counts on from it.
Current ==
  \A r \in Runs :
    /\ pc[r] = "loaded" => my[r].state = state
    /\ pc[r] \in {"save results", "save state"} => my[r].out.state.next >= state.next

Alone == LockHeld /\ OneInit /\ Current

\* Counting one more of anything but inits leaves the inits as they were.
LEMMA OneMore ==
  ASSUME NEW s \in Counts
  PROVE  /\ [s EXCEPT !.challenges = @ + 1] \in Counts
         /\ [s EXCEPT !.challenges = @ + 1].inits = s.inits
         /\ [s EXCEPT !.edits = @ + 1] \in Counts
         /\ [s EXCEPT !.edits = @ + 1].inits = s.inits
         /\ [s EXCEPT !.crashes = @ + 1] \in Counts
         /\ [s EXCEPT !.crashes = @ + 1].inits = s.inits
         /\ [s EXCEPT !.inits = @ + 1] \in Counts
         /\ [s EXCEPT !.inits = @ + 1].inits = s.inits + 1
         /\ s.inits \in Nat
BY DEF Counts

\* At first nobody runs and there is no hill.
LEMMA InitAlone == Init => Alone
<1> SUFFICES ASSUME Init PROVE Alone
  OBVIOUS
<1>1. /\ rules = None /\ state = None /\ lock = None
      /\ spent = [challenges |-> 0, edits |-> 0, crashes |-> 0, inits |-> 0]
      /\ pc = [r \in Runs |-> "idle"]
  BY DEF Init
<1> QED BY <1>1, HillAssumption DEF Alone, LockHeld, OneInit, Current, Making, Holding, Counts

\* Making a hill.
LEMMA InitStepsAlone ==
  ASSUME MaxInits = 1, AllSound, Alone, NEW r \in Runs,
         \/ \E R \in Rules : InitCheck(r, R)
         \/ InitState(r) \/ InitResults(r) \/ InitRules(r)
  PROVE  Alone'
<1>0. pc \in [Runs -> Places] /\ DOMAIN my = Runs /\ lock \in Runs \cup {None}
  BY DEF AllSound, Shape
<1>1. ASSUME NEW R \in Rules, InitCheck(r, R) PROVE Alone'
  <2>1. /\ pc' = [pc EXCEPT ![r] = "init state"] /\ pc[r] = "idle" /\ rules = None
        /\ my' = [my EXCEPT ![r] = [rules |-> R]]
        /\ spent.inits < 1 /\ spent' = [spent EXCEPT !.inits = @ + 1]
        /\ UNCHANGED <<rules, state, lock>>
    BY <1>1 DEF InitCheck, Pause, Goto, Spend, files
  <2>2. spent \in Counts /\ spent' \in Counts /\ spent'.inits = spent.inits + 1
        /\ spent.inits \in Nat
    BY <2>1, OneMore DEF Alone, OneInit
  <2>3. spent.inits < 1
    BY <2>1
  <2>4. spent.inits = 0 /\ spent'.inits # 0
    BY <2>2, <2>3
  <2>5. LockHeld'
    BY <1>0, <2>1 DEF Alone, LockHeld, Holding
  <2>6. OneInit'
    BY <1>0, <2>1, <2>2, <2>4 DEF Alone, OneInit, Holding, Making
  <2>7. Current'
    BY <1>0, <2>1 DEF Alone, Current
  <2> QED BY <2>5, <2>6, <2>7 DEF Alone
<1>2. CASE InitState(r)
  <2>1. /\ pc' = [pc EXCEPT ![r] = "init results"] /\ pc[r] = "init state"
        /\ UNCHANGED <<rules, my, lock, spent>>
    BY <1>2 DEF InitState, Pause, Goto
  <2>2. LockHeld'
    BY <1>0, <2>1 DEF Alone, LockHeld, Holding
  <2>3. rules = None /\ spent.inits # 0
    BY <2>1 DEF Alone, OneInit, Making
  <2>4. \A q \in Runs : pc'[q] \notin Holding
    BY <1>0, <2>1, <2>3 DEF Alone, OneInit, Holding
  <2>5. OneInit'
    BY <1>0, <2>1, <2>3 DEF Alone, OneInit, Holding, Making
  <2>6. Current'
    BY <2>4 DEF Current, Holding
  <2> QED BY <2>2, <2>5, <2>6 DEF Alone
<1>3. CASE InitResults(r)
  <2>1. /\ pc' = [pc EXCEPT ![r] = "init rules"] /\ pc[r] = "init results"
        /\ UNCHANGED <<rules, state, my, lock, spent>>
    BY <1>3 DEF InitResults, Pause, Goto
  <2> QED BY <1>0, <2>1 DEF Alone, LockHeld, OneInit, Current, Holding, Making
<1>4. CASE InitRules(r)
  <2>1. /\ pc' = [pc EXCEPT ![r] = "idle"] /\ pc[r] = "init rules"
        /\ rules' = my[r].rules /\ my' = [my EXCEPT ![r] = None]
        /\ UNCHANGED <<state, lock, spent>>
    BY <1>4 DEF InitRules, Pause, Goto, Forget
  <2>2. rules' # None
    BY <2>1, HillAssumption DEF AllSound, Shape, Making
  <2>3. LockHeld'
    BY <1>0, <2>1 DEF Alone, LockHeld, Holding
  <2>4. \A q \in Runs : pc'[q] \notin Making
    BY <1>0, <2>1 DEF Alone, OneInit, Making
  <2>5. spent.inits # 0
    BY <2>1 DEF Alone, OneInit, Making
  <2>6. OneInit'
    BY <1>0, <2>1, <2>2, <2>4, <2>5 DEF Alone, OneInit, Holding, Making
  <2>7. Current'
    BY <1>0, <2>1 DEF Alone, Current
  <2> QED BY <2>3, <2>6, <2>7 DEF Alone
<1> QED BY <1>1, <1>2, <1>3, <1>4

\* Challenging one.
LEMMA ChallengeStepsAlone ==
  ASSUME AllSound, Alone, NEW r \in Runs,
         \/ \E given \in FileLists, seed \in Draws \cup {None} : Open(r, given, seed)
         \/ Load(r) \/ Report(r) \/ Challenge(r)
         \/ SaveResults(r) \/ SaveState(r) \/ Log(r) \/ Crash(r)
  PROVE  Alone'
<1>0. /\ pc \in [Runs -> Places] /\ DOMAIN my = Runs /\ lock \in Runs \cup {None}
      /\ None \notin Runs
  BY HillAssumption DEF AllSound, Shape
<1>1. ASSUME NEW given, NEW seed, Open(r, given, seed) PROVE Alone'
  <2>1. /\ pc' = [pc EXCEPT ![r] = "waiting"] /\ pc[r] = "idle" /\ rules # None
        /\ my' = [my EXCEPT ![r] = [rules |-> rules, given |-> given, seed |-> seed]]
        /\ spent' = [spent EXCEPT !.challenges = @ + 1]
        /\ UNCHANGED <<rules, state, lock>>
    BY <1>1 DEF Open, Pause, Goto, Spend, files
  <2>2. LockHeld'
    BY <1>0, <2>1 DEF Alone, LockHeld, Holding
  <2>3. spent' \in Counts /\ spent'.inits = spent.inits
    BY <2>1, OneMore DEF Alone, OneInit
  <2>4. OneInit'
    BY <1>0, <2>1, <2>3 DEF Alone, OneInit, Holding, Making
  <2>5. Current'
    BY <1>0, <2>1 DEF Alone, Current
  <2> QED BY <2>2, <2>4, <2>5 DEF Alone
<1>2. CASE Load(r)
  <2>1. /\ pc' = [pc EXCEPT ![r] = "loaded"] /\ pc[r] = "waiting" /\ lock = None /\ lock' = r
        /\ my'[r].state = state /\ \A q \in Runs \ {r} : my'[q] = my[q]
        /\ UNCHANGED <<rules, state, spent>>
    BY <1>0, <1>2 DEF Load, TakeLock, Goto, files
  <2>2. LockHeld'
    BY <1>0, <2>1 DEF Alone, LockHeld, Holding
  <2>3. OneInit'
    BY <1>0, <2>1 DEF Alone, OneInit, Holding, Making
  <2>4. Current'
    BY <1>0, <2>1 DEF Alone, Current
  <2> QED BY <2>2, <2>3, <2>4 DEF Alone
<1>3. CASE Report(r) \/ Log(r) \/ Crash(r)
  <2>1. /\ pc' = [pc EXCEPT ![r] = "idle"] /\ my' = [my EXCEPT ![r] = None]
        /\ lock' = IF pc[r] \in Holding THEN None ELSE lock
        /\ spent' \in {spent, [spent EXCEPT !.crashes = @ + 1]}
        /\ UNCHANGED <<rules, state>>
    <3>1. pc[r] \in Holding <=> lock = r
      BY DEF Alone, LockHeld
    <3>2. CASE Report(r)
      BY <3>2 DEF Report, Goto, Forget, Holding, files
    <3>3. CASE Log(r)
      BY <3>3 DEF Log, Goto, Forget, Holding
    <3>4. CASE Crash(r)
      BY <3>1, <3>4 DEF Crash, Goto, Forget, Dropped, Spend
    <3> QED BY <1>3, <3>2, <3>3, <3>4
  <2>2. LockHeld'
    BY <1>0, <2>1 DEF Alone, LockHeld, Holding
  <2>3. spent' \in Counts /\ spent'.inits = spent.inits
    BY <2>1, OneMore DEF Alone, OneInit
  <2>4. OneInit'
    BY <1>0, <2>1, <2>3 DEF Alone, OneInit, Holding, Making
  <2>5. Current'
    BY <1>0, <2>1 DEF Alone, Current
  <2> QED BY <2>2, <2>4, <2>5 DEF Alone
<1>4. CASE Challenge(r)
  <2>1. /\ pc' = [pc EXCEPT ![r] = "save results"] /\ pc[r] = "loaded"
        /\ UNCHANGED <<rules, state, lock, spent>>
    BY <1>4 DEF Challenge, Goto
  <2> DEFINE m == my[r]
  <2>2. PICK draw : my' = [my EXCEPT ![r] =
                      [rules |-> m.rules,
                       out |-> Challenged(m.rules, m.state, m.cache, m.given, draw)]]
    BY <1>4 DEF Challenge
  <2> DEFINE out == Challenged(m.rules, m.state, m.cache, m.given, draw)
  <2>3. m.rules \in Rules /\ m.given \in FileLists /\ m.state \in State
        /\ AgesRight(m.state) /\ Distinct(m.state.members)
    BY <2>1 DEF AllSound, Shape, KeptTables, SoundTable
  <2>4. out.state.next >= m.state.next
    BY <2>3, ChallengedTable
  <2>5. m.state = state
    BY <2>1 DEF Alone, Current
  <2> HIDE DEF out
  <2>6. my'[r].out = out /\ \A q \in Runs \ {r} : my'[q] = my[q]
    BY <1>0, <2>2 DEF out
  <2>7. LockHeld'
    BY <1>0, <2>1 DEF Alone, LockHeld, Holding
  <2>8. OneInit'
    BY <1>0, <2>1 DEF Alone, OneInit, Holding, Making
  <2>9. Current'
    BY <1>0, <2>1, <2>4, <2>5, <2>6 DEF Alone, Current
  <2> QED BY <2>7, <2>8, <2>9 DEF Alone
<1>5. CASE SaveResults(r)
  <2>1. /\ pc' = [pc EXCEPT ![r] = "save state"] /\ pc[r] = "save results"
        /\ UNCHANGED <<rules, state, lock, my, spent>>
    BY <1>5 DEF SaveResults, Goto
  <2> QED BY <1>0, <2>1 DEF Alone, LockHeld, OneInit, Current, Holding, Making
<1>6. CASE SaveState(r)
  <2>1. /\ pc' = [pc EXCEPT ![r] = "log"] /\ pc[r] = "save state"
        /\ UNCHANGED <<rules, lock, my, spent>>
    BY <1>6 DEF SaveState, Goto
  <2>2. LockHeld'
    BY <1>0, <2>1 DEF Alone, LockHeld, Holding
  <2>3. rules # None
    BY <2>1 DEF Alone, OneInit, Holding
  <2>4. OneInit'
    BY <1>0, <2>1, <2>3 DEF Alone, OneInit, Holding, Making
  <2>5. lock = r
    BY <2>1 DEF Alone, LockHeld, Holding
  <2>6. \A q \in Runs : pc'[q] \notin {"loaded", "save results", "save state"}
    BY <1>0, <2>1, <2>2, <2>5 DEF LockHeld, Holding
  <2>7. Current'
    BY <2>6 DEF Current
  <2> QED BY <2>2, <2>4, <2>7 DEF Alone
<1> QED BY <1>1, <1>2, <1>3, <1>4, <1>5, <1>6

\* With one init, who holds the lock works on what is on disk.
LEMMA AloneInvariant ==
  ASSUME MaxInits = 1
  PROVE  Spec => []Alone
<1>1. AllSound /\ Alone /\ [Next]_vars => Alone'
  <2> SUFFICES ASSUME AllSound, Alone, [Next]_vars PROVE Alone'
    OBVIOUS
  <2>1. ASSUME NEW r \in Runs, \/ \E R \in Rules : InitCheck(r, R)
                               \/ \E given \in FileLists, seed \in Draws \cup {None} :
                                    Open(r, given, seed)
                               \/ Step(r)
                               \/ Crash(r)
        PROVE  Alone'
    BY <2>1, InitStepsAlone, ChallengeStepsAlone DEF Step
  <2>2. ASSUME NEW R \in Rules, Edit(R) PROVE Alone'
    <3>1. /\ rules # None /\ rules' = R /\ R # None
          /\ spent' = [spent EXCEPT !.edits = @ + 1]
          /\ UNCHANGED <<state, lock, pc, my>>
      BY <2>2, HillAssumption DEF Edit, Spend
    <3>2. spent' \in Counts /\ spent'.inits = spent.inits
      BY <3>1, OneMore DEF Alone, OneInit
    <3>3. spent.inits # 0 /\ \A r \in Runs : pc[r] \notin Making
      BY <3>1 DEF Alone, OneInit
    <3>4. OneInit'
      BY <3>1, <3>2, <3>3 DEF Alone, OneInit, Making
    <3>5. LockHeld' /\ Current'
      BY <3>1 DEF Alone, LockHeld, Current
    <3> QED BY <3>4, <3>5 DEF Alone
  <2>3. CASE UNCHANGED vars
    BY <2>3 DEF vars, files, Alone, LockHeld, OneInit, Current
  <2> QED BY <2>1, <2>2, <2>3 DEF Next
<1> QED BY <1>1, InitAlone, HillInvariant, PTL DEF Spec

\* However many runs challenge a hill made once, and wherever they die, none
\* replaces a table by one computed from an older one.
THEOREM NoneLost ==
  ASSUME MaxInits = 1
  PROVE  Spec => NoLostChallenge
<1>1. AllSound /\ Alone /\ [Next]_vars =>
        [state # None => state' # None /\ state'.next >= state.next]_vars
  <2> SUFFICES ASSUME AllSound, Alone, Next, state # None
               PROVE  state' # None /\ state'.next >= state.next
    BY DEF vars
  <2>1. state \in State /\ state.next \in Nat
    BY DEF AllSound, KeptTables, SoundTable, State
  <2>2. CASE state' = state
    BY <2>1, <2>2
  <2>3. ASSUME NEW r \in Runs, InitState(r) PROVE FALSE
    BY <2>3 DEF InitState, Alone, OneInit
  <2>4. ASSUME NEW r \in Runs, SaveState(r) PROVE state' # None /\ state'.next >= state.next
    BY <2>4, HillAssumption
       DEF SaveState, AllSound, KeptTables, SoundTable, Alone, Current
  <2>5. (\A r \in Runs : ~InitState(r) /\ ~SaveState(r)) => state' = state
    BY DEF Next, Step, InitCheck, Open, InitResults, InitRules, Load, Report, Challenge,
       SaveResults, Log, Crash, Edit, files
  <2> QED BY <2>2, <2>3, <2>4, <2>5
<1> QED BY <1>1, AloneInvariant, HillInvariant, PTL DEF Spec, NoLostChallenge

-----------------------------------------------------------------------------
\* A saved challenge verifies.

\* What a run will save, table and results together, under its rules.
Paired(R, out) ==
  /\ R \in Rules /\ out.shrunk \in BOOLEAN
  /\ Orderly(R, out.shrunk, out.state, out.results)

\* What was saved last, when nothing is half saved.
Told == last # None => rules # None /\ last.rules \in Rules /\ last.shrunk \in BOOLEAN
Settled == ~torn /\ last # None => Orderly(last.rules, last.shrunk, state, results)

\* Table and results on disk go together under the rules of the last save, but
\* for the one run that has written its results and not yet its table.
Saved ==
  /\ Told /\ Settled
  /\ \A r \in Runs :
       /\ pc[r] \in {"save results", "save state"} => Paired(my[r].rules, my[r].out)
       /\ pc[r] = "save state" => torn /\ results = my[r].out.results

\* At first nothing was saved.
LEMMA InitSaved == Init => Saved
<1> SUFFICES ASSUME Init PROVE Saved
  OBVIOUS
<1>1. last = None /\ torn = FALSE /\ pc = [r \in Runs |-> "idle"]
  BY DEF Init
<1> QED BY <1>1 DEF Saved, Told, Settled

\* A step of a run that leaves what was saved, and its own way to a save, alone.
LEMMA AsideSaved ==
  ASSUME Saved, NEW r \in Runs, DOMAIN pc = Runs, DOMAIN my = Runs,
         NEW label, pc' = [pc EXCEPT ![r] = label], label \notin {"save results", "save state"},
         \A q \in Runs \ {r} : my'[q] = my[q],
         UNCHANGED <<last, torn, results, state>>,
         rules' = rules \/ last = None
  PROVE  Saved'
<1>1. /\ Told'
      /\ Settled'
  BY DEF Saved, Told, Settled
<1>2. ASSUME NEW q \in Runs
      PROVE  /\ pc'[q] \in {"save results", "save state"} => Paired(my'[q].rules, my'[q].out)
             /\ pc'[q] = "save state" => torn' /\ results' = my'[q].out.results
  <2>1. CASE q = r
    <3>1. pc'[q] = label
      BY <2>1
    <3> QED BY <3>1
  <2>2. CASE q # r
    <3>1. pc'[q] = pc[q] /\ my'[q] = my[q]
      BY <2>2
    <3> QED BY <3>1 DEF Saved
  <2> QED BY <2>1, <2>2
<1> QED BY <1>1, <1>2 DEF Saved

\* Making a hill, which has saved nothing yet.
LEMMA InitStepsSaved ==
  ASSUME AllSound, Alone, Saved, NEW r \in Runs,
         \/ \E R \in Rules : InitCheck(r, R)
         \/ InitState(r) \/ InitResults(r) \/ InitRules(r)
  PROVE  Saved'
<1>1. DOMAIN pc = Runs /\ DOMAIN my = Runs
  BY DEF AllSound, Shape
<1>2. rules = None
  BY DEF InitCheck, InitState, InitResults, InitRules, Alone, OneInit, Making
<1>3. last = None
  BY <1>2 DEF Saved, Told
<1>4. /\ UNCHANGED <<last, torn>>
      /\ \A q \in Runs \ {r} : my'[q] = my[q]
  <2>1. ASSUME NEW R \in Rules, InitCheck(r, R)
        PROVE  UNCHANGED <<last, torn>> /\ \A q \in Runs \ {r} : my'[q] = my[q]
    BY <1>1, <2>1 DEF InitCheck, Pause
  <2>2. CASE InitState(r)
    BY <2>2 DEF InitState, Pause
  <2>3. CASE InitResults(r)
    BY <2>3 DEF InitResults, Pause
  <2>4. CASE InitRules(r)
    BY <1>1, <2>4 DEF InitRules, Pause, Forget
  <2> QED BY <2>1, <2>2, <2>3, <2>4
<1>5. /\ pc'[r] \notin {"save results", "save state"}
      /\ \A q \in Runs \ {r} : pc'[q] = pc[q]
  BY <1>1 DEF InitCheck, InitState, InitResults, InitRules, Goto
<1>6. Told' /\ Settled'
  BY <1>3, <1>4 DEF Told, Settled
<1>7. ASSUME NEW q \in Runs PROVE pc'[q] \notin {"save results", "save state"}
  <2>1. q # r => pc[q] \notin {"save results", "save state"}
    BY <1>2 DEF Alone, OneInit, Holding
  <2> QED BY <1>5, <2>1
<1> QED BY <1>6, <1>7 DEF Saved

\* What a run makes of what it loaded goes together.
LEMMA ChallengeSaved ==
  ASSUME AllSound, Saved, NEW r \in Runs, Challenge(r)
  PROVE  Saved'
<1> DEFINE m == my[r]
<1>1. PICK draw \in (IF m.rules.random /\ m.seed = None THEN Draws ELSE {m.seed}) :
        my' = [my EXCEPT ![r] =
                [rules |-> m.rules,
                 out |-> Challenged(m.rules, m.state, m.cache, m.given, draw)]]
  BY DEF Challenge
<1> DEFINE out == Challenged(m.rules, m.state, m.cache, m.given, draw)
<1>2. /\ pc[r] = "loaded" /\ m.rules \in Rules /\ m.given \in FileLists
      /\ m.seed \in Draws \cup {None}
      /\ m.state \in State /\ AgesRight(m.state) /\ Distinct(m.state.members)
      /\ IsResults(m.cache) /\ m.cache.fingerprint = Fingerprint(m.rules)
  BY DEF Challenge, AllSound, Shape, KeptResults, KeptTables, SoundTable, SoundResults
<1>3. m.rules.random => draw \in Draws
  BY <1>1, <1>2
<1>4. Orderly(m.rules, out.shrunk, out.state, out.results)
  BY <1>2, <1>3, ChallengedOrderly
<1>5. out.shrunk \in BOOLEAN
  BY DEF Challenged
<1> HIDE DEF out
<1>6. Paired(m.rules, out)
  BY <1>2, <1>4, <1>5 DEF Paired
<1>7. /\ my'[r].rules = m.rules /\ my'[r].out = out
      /\ \A q \in Runs \ {r} : my'[q] = my[q]
  BY <1>1 DEF AllSound, Shape, out
<1>8. /\ pc'[r] = "save results" /\ \A q \in Runs \ {r} : pc'[q] = pc[q]
      /\ UNCHANGED <<rules, state, results, last, torn>>
  BY DEF Challenge, Goto, AllSound, Shape
<1>9. Told' /\ Settled'
  BY <1>8 DEF Saved, Told, Settled
<1>10. ASSUME NEW q \in Runs
       PROVE  /\ pc'[q] \in {"save results", "save state"} => Paired(my'[q].rules, my'[q].out)
              /\ pc'[q] = "save state" => torn' /\ results' = my'[q].out.results
  <2>1. CASE q = r
    BY <1>6, <1>7, <1>8, <2>1
  <2>2. CASE q # r
    <3>1. pc'[q] = pc[q] /\ my'[q] = my[q]
      BY <1>7, <1>8, <2>2
    <3> QED BY <1>8, <3>1 DEF Saved
  <2> QED BY <2>1, <2>2
<1> QED BY <1>9, <1>10 DEF Saved

\* The lock keeps the others from their saves.
LEMMA OnlyOneSaves ==
  ASSUME LockHeld, NEW r \in Runs, pc[r] \in Holding, NEW q \in Runs, q # r
  PROVE  pc[q] \notin {"save results", "save state"}
BY DEF LockHeld, Holding

\* Writing the results, and then the table they belong to.
LEMMA SavesSaved ==
  ASSUME AllSound, Alone, Saved, NEW r \in Runs, SaveResults(r) \/ SaveState(r)
  PROVE  Saved'
<1>1. /\ DOMAIN pc = Runs /\ pc[r] \in Holding
      /\ \A q \in Runs \ {r} : pc'[q] = pc[q]
      /\ my' = my /\ rules' = rules
  BY DEF AllSound, Shape, SaveResults, SaveState, Goto, Holding
<1>2. rules # None /\ Paired(my[r].rules, my[r].out)
  BY DEF SaveResults, SaveState, Alone, OneInit, Saved, Holding
<1>3. ASSUME NEW q \in Runs \ {r} PROVE pc'[q] \notin {"save results", "save state"}
  BY <1>1, OnlyOneSaves DEF Alone
<1>4. CASE SaveResults(r)
  <2>1. /\ pc'[r] = "save state" /\ torn' = TRUE /\ results' = my[r].out.results
        /\ last' = last
    BY <1>1, <1>4 DEF SaveResults, Goto
  <2>2. Told' /\ Settled'
    BY <1>1, <2>1 DEF Saved, Told, Settled
  <2> QED BY <1>1, <1>2, <1>3, <2>1, <2>2 DEF Saved
<1>5. CASE SaveState(r)
  <2>1. /\ pc'[r] = "log" /\ state' = my[r].out.state /\ results' = results
        /\ last' = [rules |-> my[r].rules, shrunk |-> my[r].out.shrunk]
    BY <1>1, <1>5 DEF SaveState, Goto
  <2>2. results = my[r].out.results
    BY <1>5 DEF SaveState, Saved
  <2>3. last'.rules = my[r].rules /\ last'.shrunk = my[r].out.shrunk
    BY <2>1
  <2>4. Told' /\ Settled'
    BY <1>1, <1>2, <2>1, <2>2, <2>3 DEF Told, Settled, Paired
  <2> QED BY <1>3, <2>1, <2>4 DEF Saved
<1> QED BY <1>4, <1>5

\* With one init, what is on disk goes together once a challenge is saved.
LEMMA SavedInvariant ==
  ASSUME MaxInits = 1
  PROVE  Spec => []Saved
<1>1. AllSound /\ Alone /\ Saved /\ [Next]_vars => Saved'
  <2> SUFFICES ASSUME AllSound, Alone, Saved, [Next]_vars PROVE Saved'
    OBVIOUS
  <2>0. DOMAIN pc = Runs /\ DOMAIN my = Runs
    BY DEF AllSound, Shape
  <2>1. ASSUME NEW r \in Runs, NEW given, NEW seed, Open(r, given, seed) PROVE Saved'
    <3>1. /\ pc' = [pc EXCEPT ![r] = "waiting"] /\ \A q \in Runs \ {r} : my'[q] = my[q]
          /\ UNCHANGED <<last, torn, results, state, rules>>
      BY <2>0, <2>1 DEF Open, Goto, Pause, files
    <3> QED BY <2>0, <3>1, AsideSaved
  <2>2. ASSUME NEW r \in Runs, Load(r) PROVE Saved'
    <3>1. /\ pc' = [pc EXCEPT ![r] = "loaded"] /\ \A q \in Runs \ {r} : my'[q] = my[q]
          /\ UNCHANGED <<last, torn, results, state, rules>>
      BY <2>0, <2>2 DEF Load, Goto, files
    <3> QED BY <2>0, <3>1, AsideSaved
  <2>3. ASSUME NEW r \in Runs, Report(r) \/ Log(r) \/ Crash(r) PROVE Saved'
    <3>1. /\ pc' = [pc EXCEPT ![r] = "idle"] /\ \A q \in Runs \ {r} : my'[q] = my[q]
          /\ UNCHANGED <<last, torn, results, state, rules>>
      BY <2>0, <2>3 DEF Report, Log, Crash, Goto, Forget, files
    <3> QED BY <2>0, <3>1, AsideSaved
  <2>4. ASSUME NEW r \in Runs, Step(r) PROVE Saved'
    BY <2>2, <2>3, <2>4, InitStepsSaved, ChallengeSaved, SavesSaved DEF Step
  <2>5. ASSUME NEW R \in Rules, Edit(R) PROVE Saved'
    <3>1. /\ rules' = R /\ R # None
          /\ UNCHANGED <<state, results, pc, my, last, torn>>
      BY <2>5, HillAssumption DEF Edit
    <3>2. Told' /\ Settled'
      BY <3>1 DEF Saved, Told, Settled
    <3> QED BY <3>1, <3>2 DEF Saved
  <2>6. CASE UNCHANGED vars
    BY <2>6 DEF vars, files, Saved, Told, Settled
  <2> QED BY <2>1, <2>3, <2>4, <2>5, <2>6, InitStepsSaved DEF Next
<1> QED BY <1>1, InitSaved, AloneInvariant, HillInvariant, PTL DEF Spec

\* hill.rs, save and verify: whatever was killed or edited before, verify finds
\* nothing wrong with a hill whose last challenge was saved under its rules, but
\* for the order of a table the last trim shortened.
THEOREM VerifiedOnceSaved ==
  ASSUME MaxInits = 1
  PROVE  Spec => []VerifiesOnceSaved
<1>1. AllSound /\ Saved => VerifiesOnceSaved
  <2> SUFFICES ASSUME AllSound, Saved, ~torn, last # None, rules = last.rules
               PROVE  Verify(rules, state, results, sources)
                        \subseteq (IF last.shrunk THEN {"ranking"} ELSE {})
    BY DEF VerifiesOnceSaved
  <2>1. rules # None /\ rules \in Rules /\ last.shrunk \in BOOLEAN
    BY DEF Saved, Told
  <2>2. Orderly(rules, last.shrunk, state, results)
    BY DEF Saved, Settled
  <2>3. /\ state \in State /\ Distinct(state.members)
        /\ IdsOf(state.members) \subseteq sources
    BY <2>1 DEF AllSound, KeptTables, SoundTable
  <2>4. Reproducible(results)
    BY <2>1 DEF AllSound, KeptResults, SoundResults
  <2> QED BY <2>1, <2>2, <2>3, <2>4, OrderlyVerifies
<1> QED BY <1>1, SavedInvariant, HillInvariant, PTL DEF Spec
=============================================================================
