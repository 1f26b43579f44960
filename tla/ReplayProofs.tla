---------------------------- MODULE ReplayProofs ----------------------------
(***************************************************************************)
(* What the recorders promise of every match, for every core of three      *)
(* cells or more, every length of a frame and every choice of rounds.      *)
(*                                                                         *)
(* The engine's own invariant (MarsProofs) holds of a recorded match, as   *)
(* recording changes nothing of the machine.  Over a recorded round, two   *)
(* things are carried along: the page made of the events so far is the     *)
(* machine (Follows), and the frames so far, with what is pending over     *)
(* them, are the cells written (Framed).                                   *)
(***************************************************************************)
EXTENDS Replay, MarsProofs

-----------------------------------------------------------------------------
\* The invariant.

\* Some cells with the warrior that wrote each.
Colours == UNION {[S -> W] : S \in SUBSET Addr}

\* Some cells with their instructions, at most three.
Cells == UNION {[S -> Instruction] : S \in {S \in SUBSET Addr : IsFiniteSet(S) /\ Cardinality(S) <= 3}}

Frames == [cycle: 1 .. MaxCycles, processes: [W -> 0 .. MaxProcesses], writes: Colours]

Events == [header: Nat, head: Addr, pushed: {p \in Seq(Addr) : Len(p) <= 2}, cells: Cells]

\* What the recorders hold.
Recorded ==
  /\ every \in Everies /\ record \in Records
  /\ pending \in Colours /\ writer \in Colours
  /\ frames \in Seq(Frames) /\ events \in Seq(Events)
  /\ loaded \in Core
  /\ head \in [W -> Addr] /\ len \in [W -> 0 .. MaxProcesses]

\* The browser's recorder knows the queues and made an event of each instruction.
UpToDate ==
  /\ head = [w \in W |-> HeadOf(queues[w])] /\ len = [w \in W |-> Len(queues[w])]
  /\ Len(events) = done

\* The page of the machine as it is.
Shows == [sound |-> TRUE, queues |-> queues, core |-> core]

\* While a round is recorded, the page made of its events is the machine.
Follows == phase = "running" /\ Recording => UpToDate /\ Page = Shows

\* After n instructions k frames, of 2 * every instructions each, are full.
Due(k, n) == k * (2 * every) <= n /\ n < (k + 1) * (2 * every)

\* There is a frame for each full interval, the last one made just now if the
\* interval is full just now.
FramesDue ==
  /\ \A i \in 1 .. Len(frames) : frames[i].cycle = i * every
  /\ Due(Len(frames), done)
  /\ Len(frames) > 0 /\ done = Len(frames) * (2 * every) =>
       pending = << >> /\ frames[Len(frames)].processes = Processes

\* What the frames paint, with what is pending over it, is what was written.
FramesPaint == Over(pending, FoldLeft(Paint, << >>, frames)) = writer

Framed == phase = "running" /\ Recording => FramesDue /\ FramesPaint

\* What is left of a recorded round when it has ended.
Shown == FramesEndWithRound /\ FramesPaintWriters

RInv == IInv /\ Recorded /\ Follows /\ Framed /\ Shown

-----------------------------------------------------------------------------
\* What an instruction does to its queue and what it writes.

\* The process that moved is gone and at most two are put back.
Grows == \E p \in Seq(Addr) : Len(p) <= 2 /\ EndTurn(Tail(queues[mover]) \o p)

\* Three cells are written at most: one by each operand and one by the opcode.
FewNoted == \E x, y, z : written' \subseteq {x, y, z}

\* An operand writes one cell at most.
LEMMA OperandFew ==
  ASSUME NEW c, NEW pc, NEW ir, NEW mode, NEW field
  PROVE  \E x : Operand(c, pc, ir, mode, field).wrote \subseteq {x}
<1>1. CASE mode = "Immediate"
  BY <1>1 DEF Operand
<1>2. CASE mode # "Immediate"
  <2> DEFINE p == Add(pc, field)
  <2>1. Operand(c, pc, ir, mode, field).wrote \in {{p}, {}}
    BY <1>2 DEF Operand, Through, Pointed
  <2> QED BY <2>1
<1> QED BY <1>1, <1>2

\* Nor do the two of them write more than two.
LEMMA FetchedFew == \E x, y : Fetched.wrote \subseteq {x, y}
<1> DEFINE pc == Head(queues[mover])
           ir == core[pc]
           A  == Operand(core, pc, ir, ir.am, ir.a)
           B  == Operand(A.core, pc, ir, ir.bm, ir.b)
<1>1. Fetched.wrote = A.wrote \cup B.wrote
  BY DEF Fetched, Snapshot
<1>2. PICK x : A.wrote \subseteq {x}
  BY OperandFew
<1>3. PICK y : B.wrote \subseteq {y}
  BY OperandFew
<1> HIDE DEF A, B
<1> QED BY <1>1, <1>2, <1>3

\* However the core is left, few cells are noted.
LEMMA NotesFew ==
  ASSUME Note(Fetched.wrote) \/ \E c : Note(Fetched.wrote \cup {c})
  PROVE  FewNoted
<1>1. PICK x, y : Fetched.wrote \subseteq {x, y}
  BY FetchedFew
<1>2. CASE Note(Fetched.wrote)
  BY <1>1, <1>2 DEF Note, FewNoted
<1>3. ASSUME NEW c, Note(Fetched.wrote \cup {c}) PROVE FewNoted
  <2>1. written' \subseteq {x, y, c}
    BY <1>1, <1>3 DEF Note
  <2> QED BY <2>1 DEF FewNoted
<1> QED BY <1>2, <1>3

\* However the queue is left, it has lost its head and gained two at most.
LEMMA TurnGrows ==
  ASSUME CanMove, NEW q, EndTurn(q),
         \/ q = Tail(queues[mover])
         \/ \E x \in Addr : q = Requeued(x)
         \/ \E x, y \in Addr : q = Append(Requeued(x), y)
  PROVE  Grows
<1> DEFINE t == Tail(queues[mover])
<1>1. t \in Seq(Addr)
  BY DEF CanMove
<1> HIDE DEF t
<1>2. CASE q = t
  <2>1. t \o << >> = t /\ << >> \in Seq(Addr) /\ Len(<< >>) <= 2
    BY <1>1
  <2> QED BY <1>2, <2>1 DEF Grows, t
<1>3. ASSUME NEW x \in Addr, q = Requeued(x) PROVE Grows
  <2>1. Append(t, x) = t \o <<x>> /\ <<x>> \in Seq(Addr) /\ Len(<<x>>) <= 2
    BY <1>1
  <2>2. EndTurn(t \o <<x>>)
    BY <1>3, <2>1 DEF Requeued, t
  <2> QED BY <2>1, <2>2 DEF Grows, t
<1>4. ASSUME NEW x \in Addr, NEW y \in Addr, q = Append(Requeued(x), y) PROVE Grows
  <2>1. /\ Append(Append(t, x), y) = t \o <<x, y>> /\ <<x, y>> \in Seq(Addr)
        /\ Len(<<x, y>>) <= 2
    BY <1>1
  <2>2. EndTurn(t \o <<x, y>>)
    BY <1>4, <2>1 DEF Requeued, t
  <2> QED BY <2>1, <2>2 DEF Grows, t
<1> QED BY <1>2, <1>3, <1>4 DEF t

\* So it is with every opcode.
LEMMA StepShape ==
  ASSUME CanMove, Step
  PROVE  Grows /\ FewNoted
<1> DEFINE F == Fetched
<1>1. F.next \in Addr /\ F.jump \in Addr /\ F.skip \in Addr
  BY FetchedSound DEF IsFetched
<1> HIDE DEF F
<1>2. FewNoted
  <2>1. Note(F.wrote) \/ \E c : Note(F.wrote \cup {c})
    BY DEF Step, Dat, Nop, Mov, Arithmetic, Division, Jmp, JmzJmn, Djn, Spl, Slt, Compare, Ldp,
           Stp, Writes, Keeps, F
  <2> QED BY <2>1, NotesFew DEF F
<1>3. Grows
  <2>1. \E q : /\ EndTurn(q)
               /\ \/ q = Tail(queues[mover])
                  \/ \E x \in Addr : q = Requeued(x)
                  \/ \E x, y \in Addr : q = Append(Requeued(x), y)
    <3>1. CASE Dat \/ Division
      BY <1>1, <3>1 DEF Dat, Division, F
    <3>2. CASE Nop \/ Mov \/ Arithmetic \/ Ldp \/ Stp \/ Jmp
      BY <1>1, <3>2 DEF Nop, Mov, Arithmetic, Ldp, Stp, Jmp, F
    <3>3. CASE JmzJmn \/ Djn \/ Slt \/ Compare
      BY <1>1, <3>3 DEF JmzJmn, Djn, Slt, Compare, F
    <3>4. CASE Spl
      BY <1>1, <3>4 DEF Spl, F
    <3> QED BY <3>1, <3>2, <3>3, <3>4 DEF Step
  <2> QED BY <2>1, TurnGrows
<1> QED BY <1>2, <1>3

-----------------------------------------------------------------------------
\* Replaying and painting go on event by event and frame by frame.

\* What a page may show.
Pages == [sound: BOOLEAN, queues: [W -> Seq(Addr)], core: Core]

\* An event makes a page of a page.
LEMMA ReplayedPage ==
  ASSUME NEW page \in Pages, NEW e \in Events
  PROVE  Replayed(page, e) \in Pages
<1> DEFINE w == e.header % 2
<1>1. w \in W
  <2>1. e.header \in Nat
    BY DEF Events
  <2> QED BY <2>1 DEF W
<1>2. \A q \in Seq(Addr) : SubSeq(q, 2, Len(q)) \o e.pushed \in Seq(Addr)
  <2>1. e.pushed \in Seq(Addr)
    BY DEF Events
  <2>2. \A q \in Seq(Addr) : SubSeq(q, 2, Len(q)) \in Seq(Addr)
    OBVIOUS
  <2> QED BY <2>1, <2>2
<1>3. [page.queues EXCEPT ![w] = SubSeq(@, 2, Len(@)) \o e.pushed] \in [W -> Seq(Addr)]
  BY <1>1, <1>2 DEF Pages
<1>4. Over(e.cells, page.core) \in Core
  <2>1. PICK S \in SUBSET Addr : e.cells \in [S -> Instruction]
    BY DEF Events, Cells
  <2>2. page.core \in [Addr -> Instruction]
    BY DEF Pages, Core
  <2> QED BY <2>1, <2>2 DEF Over, Core
<1>5. (/\ page.sound
       /\ page.queues[w] # << >> /\ Head(page.queues[w]) = e.head
       /\ Len(e.pushed) = (e.header \div 2) % 4
       /\ Cardinality(DOMAIN e.cells) = e.header \div 8) \in BOOLEAN
  BY DEF Pages
<1> QED BY <1>3, <1>4, <1>5 DEF Replayed, Pages

\* A frame makes colours of colours.
LEMMA PaintColours ==
  ASSUME NEW seen \in Colours, NEW f \in Frames
  PROVE  Paint(seen, f) \in Colours
<1>1. PICK S \in SUBSET Addr : seen \in [S -> W]
  BY DEF Colours
<1>2. PICK R \in SUBSET Addr : f.writes \in [R -> W]
  BY DEF Frames, Colours
<1>3. Paint(seen, f) \in [R \cup S -> W] /\ R \cup S \in SUBSET Addr
  BY <1>1, <1>2 DEF Paint, Over
<1> QED BY <1>3 DEF Colours

\* What the first n events of s make of a page, and the frames of colours.
ReplayedBy(s, n) == [q \in (1 .. n) \X Pages |-> Replayed(q[2], s[q[1]])]
PaintedBy(s, n) == [q \in (1 .. n) \X Colours |-> Paint(q[2], s[q[1]])]

\* The events are replayed one after another.
LEMMA ReplayedHistory ==
  ASSUME NEW s \in Seq(Events), NEW v0 \in Pages
  PROVE  HasHistory(Len(s), Pages, v0, ReplayedBy(s, Len(s)), FoldLeft(Replayed, v0, s))
<1> DEFINE n == Len(s)
           F == ReplayedBy(s, n)
           V == Pages
<1>1. n \in Nat /\ DOMAIN s = 1 .. n
  OBVIOUS
<1>2. \A i \in 1 .. n : \A v \in V : F[<<i, v>>] = Replayed(v, s[i])
  BY DEF ReplayedBy
<1>3. F \in [(1 .. n) \X V -> V]
  <2>1. \A i \in 1 .. n : s[i] \in Events
    BY <1>1
  <2>2. \A i \in 1 .. n : \A v \in V : Replayed(v, s[i]) \in V
    BY <2>1, ReplayedPage
  <2> HIDE DEF n
  <2> QED BY <2>2 DEF ReplayedBy
<1> HIDE DEF n, V, F
<1>4. PICK g \in [SUBSET (1 .. n) -> V] : IsFold(g, n, v0, F)
  BY <1>1, <1>3, FoldExists DEF V
<1> DEFINE Is(it) == it = [r \in SUBSET (1 .. n) |->
                            IF r = {} THEN v0 ELSE Replayed(it[r \ {Max(r)}], s[Max(r)])]
           iter == CHOOSE it : Is(it)
<1>5. Is(g)
  <2>1. ASSUME NEW r \in SUBSET (1 .. n), r # {}
        PROVE  g[r] = Replayed(g[r \ {Max(r)}], s[Max(r)])
    <3> DEFINE x == Max(r)
    <3>1. x \in 1 .. n
      BY <1>1, <2>1, MaxIn
    <3> HIDE DEF x
    <3>2. r \ {x} \in SUBSET (1 .. n) /\ g[r \ {x}] \in V
      OBVIOUS
    <3>3. g[r] = F[<<x, g[r \ {x}]>>]
      BY <1>4, <2>1 DEF x, IsFold
    <3> QED BY <1>2, <3>1, <3>2, <3>3 DEF x
  <2>2. g[{}] = v0
    BY <1>4 DEF IsFold
  <2> QED BY <2>1, <2>2
<1>6. Is(iter)
  <2> HIDE DEF Is
  <2> QED BY <1>5
<1>7. FoldLeft(Replayed, v0, s) = iter[1 .. n]
  BY <1>1 DEF FoldLeft, MapThenFoldSet
<1> HIDE DEF iter
<1>8. HasHistory(n, V, v0, F, iter[1 .. n])
  <2>1. iter[{}] = v0
    BY <1>6
  <2>2. ASSUME NEW r \in SUBSET (1 .. n), r # {}, iter[r \ {Max(r)}] \in V
        PROVE  iter[r] = F[<<Max(r), iter[r \ {Max(r)}]>>]
    <3>1. Max(r) \in 1 .. n
      BY <1>1, <2>2, MaxIn
    <3>2. iter[r] = Replayed(iter[r \ {Max(r)}], s[Max(r)])
      BY <1>6, <2>2
    <3> QED BY <1>2, <2>2, <3>1, <3>2
  <2>3. FoldsIn(V, iter, n, F)
    BY <2>2 DEF FoldsIn
  <2> QED BY <1>1, <1>3, <2>1, <2>3, FoldSteps DEF V
<1> QED BY <1>7, <1>8 DEF n, V, F

\* One event more is replayed on what the others made.
LEMMA ReplayedAppend ==
  ASSUME NEW s \in Seq(Events), NEW e \in Events, NEW v0 \in Pages
  PROVE  /\ FoldLeft(Replayed, v0, << >>) = v0
         /\ FoldLeft(Replayed, v0, s) \in Pages
         /\ FoldLeft(Replayed, v0, Append(s, e)) = Replayed(FoldLeft(Replayed, v0, s), e)
<1> DEFINE n == Len(s)
           z == Append(s, e)
<1>1. n \in Nat /\ z \in Seq(Events) /\ Len(z) = n + 1 /\ z[n + 1] = e
      /\ \A i \in 1 .. n : z[i] = s[i]
  OBVIOUS
<1>2. HasHistory(n, Pages, v0, ReplayedBy(s, n), FoldLeft(Replayed, v0, s))
  BY ReplayedHistory
<1>3. HasHistory(n + 1, Pages, v0, ReplayedBy(z, n + 1), FoldLeft(Replayed, v0, z))
  BY <1>1, ReplayedHistory
<1> HIDE DEF n, z
<1>4. Alike(ReplayedBy(z, n + 1), ReplayedBy(s, n), n, Pages)
  <2> SUFFICES ASSUME NEW i \in 1 .. n, NEW v \in Pages
               PROVE  ReplayedBy(z, n + 1)[<<i, v>>] = ReplayedBy(s, n)[<<i, v>>]
    BY DEF Alike
  <2>1. i \in 1 .. (n + 1) /\ z[i] = s[i]
    BY <1>1
  <2> QED BY <2>1 DEF ReplayedBy
<1>5. /\ FoldLeft(Replayed, v0, s) \in Pages
      /\ FoldLeft(Replayed, v0, z) = ReplayedBy(z, n + 1)[<<n + 1, FoldLeft(Replayed, v0, s)>>]
  BY <1>1, <1>2, <1>3, <1>4, HistoryExtends
<1>6. n + 1 \in 1 .. (n + 1)
  BY <1>1
<1>7. FoldLeft(Replayed, v0, z) = Replayed(FoldLeft(Replayed, v0, s), z[n + 1])
  BY <1>5, <1>6 DEF ReplayedBy
<1>8. FoldLeft(Replayed, v0, << >>) = v0
  <2>1. << >> \in Seq(Events) /\ Len(<< >>) = 0
    OBVIOUS
  <2>2. HasHistory(0, Pages, v0, ReplayedBy(<< >>, 0), FoldLeft(Replayed, v0, << >>))
    BY <2>1, ReplayedHistory
  <2> QED BY <2>2 DEF HasHistory
<1> QED BY <1>1, <1>5, <1>7, <1>8 DEF z

\* The frames are painted one over the other.
LEMMA PaintHistory ==
  ASSUME NEW s \in Seq(Frames), NEW v0 \in Colours
  PROVE  HasHistory(Len(s), Colours, v0, PaintedBy(s, Len(s)), FoldLeft(Paint, v0, s))
<1> DEFINE n == Len(s)
           F == PaintedBy(s, n)
           V == Colours
<1>1. n \in Nat /\ DOMAIN s = 1 .. n
  OBVIOUS
<1>2. \A i \in 1 .. n : \A v \in V : F[<<i, v>>] = Paint(v, s[i])
  BY DEF PaintedBy
<1>3. F \in [(1 .. n) \X V -> V]
  <2>1. \A i \in 1 .. n : s[i] \in Frames
    BY <1>1
  <2>2. \A i \in 1 .. n : \A v \in V : Paint(v, s[i]) \in V
    BY <2>1, PaintColours
  <2> HIDE DEF n
  <2> QED BY <2>2 DEF PaintedBy
<1> HIDE DEF n, V, F
<1>4. PICK g \in [SUBSET (1 .. n) -> V] : IsFold(g, n, v0, F)
  BY <1>1, <1>3, FoldExists DEF V
<1> DEFINE Is(it) == it = [r \in SUBSET (1 .. n) |->
                            IF r = {} THEN v0 ELSE Paint(it[r \ {Max(r)}], s[Max(r)])]
           iter == CHOOSE it : Is(it)
<1>5. Is(g)
  <2>1. ASSUME NEW r \in SUBSET (1 .. n), r # {}
        PROVE  g[r] = Paint(g[r \ {Max(r)}], s[Max(r)])
    <3> DEFINE x == Max(r)
    <3>1. x \in 1 .. n
      BY <1>1, <2>1, MaxIn
    <3> HIDE DEF x
    <3>2. r \ {x} \in SUBSET (1 .. n) /\ g[r \ {x}] \in V
      OBVIOUS
    <3>3. g[r] = F[<<x, g[r \ {x}]>>]
      BY <1>4, <2>1 DEF x, IsFold
    <3> QED BY <1>2, <3>1, <3>2, <3>3 DEF x
  <2>2. g[{}] = v0
    BY <1>4 DEF IsFold
  <2> QED BY <2>1, <2>2
<1>6. Is(iter)
  <2> HIDE DEF Is
  <2> QED BY <1>5
<1>7. FoldLeft(Paint, v0, s) = iter[1 .. n]
  BY <1>1 DEF FoldLeft, MapThenFoldSet
<1> HIDE DEF iter
<1>8. HasHistory(n, V, v0, F, iter[1 .. n])
  <2>1. iter[{}] = v0
    BY <1>6
  <2>2. ASSUME NEW r \in SUBSET (1 .. n), r # {}, iter[r \ {Max(r)}] \in V
        PROVE  iter[r] = F[<<Max(r), iter[r \ {Max(r)}]>>]
    <3>1. Max(r) \in 1 .. n
      BY <1>1, <2>2, MaxIn
    <3>2. iter[r] = Paint(iter[r \ {Max(r)}], s[Max(r)])
      BY <1>6, <2>2
    <3> QED BY <1>2, <2>2, <3>1, <3>2
  <2>3. FoldsIn(V, iter, n, F)
    BY <2>2 DEF FoldsIn
  <2> QED BY <1>1, <1>3, <2>1, <2>3, FoldSteps DEF V
<1> QED BY <1>7, <1>8 DEF n, V, F

\* One frame more is painted over what the others show.
LEMMA PaintAppend ==
  ASSUME NEW s \in Seq(Frames), NEW e \in Frames, NEW v0 \in Colours
  PROVE  /\ FoldLeft(Paint, v0, << >>) = v0
         /\ FoldLeft(Paint, v0, s) \in Colours
         /\ FoldLeft(Paint, v0, Append(s, e)) = Paint(FoldLeft(Paint, v0, s), e)
<1> DEFINE n == Len(s)
           z == Append(s, e)
<1>1. n \in Nat /\ z \in Seq(Frames) /\ Len(z) = n + 1 /\ z[n + 1] = e
      /\ \A i \in 1 .. n : z[i] = s[i]
  OBVIOUS
<1>2. HasHistory(n, Colours, v0, PaintedBy(s, n), FoldLeft(Paint, v0, s))
  BY PaintHistory
<1>3. HasHistory(n + 1, Colours, v0, PaintedBy(z, n + 1), FoldLeft(Paint, v0, z))
  BY <1>1, PaintHistory
<1> HIDE DEF n, z
<1>4. Alike(PaintedBy(z, n + 1), PaintedBy(s, n), n, Colours)
  <2> SUFFICES ASSUME NEW i \in 1 .. n, NEW v \in Colours
               PROVE  PaintedBy(z, n + 1)[<<i, v>>] = PaintedBy(s, n)[<<i, v>>]
    BY DEF Alike
  <2>1. i \in 1 .. (n + 1) /\ z[i] = s[i]
    BY <1>1
  <2> QED BY <2>1 DEF PaintedBy
<1>5. /\ FoldLeft(Paint, v0, s) \in Colours
      /\ FoldLeft(Paint, v0, z) = PaintedBy(z, n + 1)[<<n + 1, FoldLeft(Paint, v0, s)>>]
  BY <1>1, <1>2, <1>3, <1>4, HistoryExtends
<1>6. n + 1 \in 1 .. (n + 1)
  BY <1>1
<1>7. FoldLeft(Paint, v0, z) = Paint(FoldLeft(Paint, v0, s), z[n + 1])
  BY <1>5, <1>6 DEF PaintedBy
<1>8. FoldLeft(Paint, v0, << >>) = v0
  <2>1. << >> \in Seq(Frames) /\ Len(<< >>) = 0
    OBVIOUS
  <2>2. HasHistory(0, Colours, v0, PaintedBy(<< >>, 0), FoldLeft(Paint, v0, << >>))
    BY <2>1, PaintHistory
  <2> QED BY <2>2 DEF HasHistory
<1> QED BY <1>1, <1>5, <1>7, <1>8 DEF z

-----------------------------------------------------------------------------
\* One event.

\* What a page reads in a header.
Reads(h, w, k, n) == h \in Nat /\ h % 2 = w /\ (h \div 2) % 4 = k /\ h \div 8 = n

\* Two numbers in one word come out of it again.
LEMMA HeaderRead ==
  ASSUME NEW w \in W, NEW k \in Nat, k <= 2, NEW n \in Nat
  PROVE  Reads(Header(w, k, n), w, k, n)
<1>1. w \in 0 .. 1
  BY DEF W
<1> QED BY <1>1 DEF Header, Reads

\* What was put at the back of a queue is found there.
LEMMA BackOf ==
  ASSUME NEW t \in Seq(Addr), NEW p \in Seq(Addr)
  PROVE  SubSeq(t \o p, Len(t \o p) - Len(p) + 1, Len(t \o p)) = p
<1> DEFINE q == t \o p
           r == SubSeq(q, Len(q) - Len(p) + 1, Len(q))
<1>1. /\ q \in Seq(Addr) /\ Len(q) = Len(t) + Len(p) /\ Len(t) \in Nat /\ Len(p) \in Nat
      /\ \A i \in 1 .. Len(p) : q[Len(t) + i] = p[i]
  OBVIOUS
<1> HIDE DEF q
<1>2. Len(q) - Len(p) + 1 = Len(t) + 1
  BY <1>1
<1>3. r = SubSeq(q, Len(t) + 1, Len(q))
  BY <1>2
<1>4. Len(r) = Len(p) /\ r \in Seq(Addr) /\ \A i \in 1 .. Len(p) : r[i] = p[i]
  BY <1>1, <1>3
<1> HIDE DEF r
<1>5. r = p
  BY <1>4
<1> QED BY <1>5 DEF r, q

\* The rest of a queue.
LEMMA RestOf ==
  ASSUME NEW q \in Seq(Addr), q # << >>
  PROVE  /\ SubSeq(q, 2, Len(q)) = Tail(q) /\ Tail(q) \in Seq(Addr)
         /\ Len(Tail(q)) = Len(q) - 1 /\ Head(q) \in Addr
<1>1. Len(q) \in Nat \ {0} /\ Tail(q) \in Seq(Addr) /\ Len(Tail(q)) = Len(q) - 1
      /\ \A i \in 1 .. Len(Tail(q)) : Tail(q)[i] = q[i + 1]
  OBVIOUS
<1> DEFINE r == SubSeq(q, 2, Len(q))
<1>2. /\ r \in Seq(Addr) /\ Len(r) = Len(q) - 1
      /\ \A i \in 1 .. Len(r) : r[i] = q[i + 1]
  BY <1>1
<1> HIDE DEF r
<1>3. r = Tail(q)
  BY <1>1, <1>2
<1>4. Head(q) \in Addr
  OBVIOUS
<1> QED BY <1>1, <1>3, <1>4 DEF r

\* Few cells can be counted.
LEMMA FewCells ==
  ASSUME NEW S, NEW x, NEW y, NEW z, S \subseteq {x, y, z}
  PROVE  IsFiniteSet(S) /\ Cardinality(S) \in Nat /\ Cardinality(S) <= 3
<1>1. IsFiniteSet({}) /\ Cardinality({}) = 0
  BY FS_EmptySet
<1>2. IsFiniteSet({x}) /\ Cardinality({x}) = 1
  BY FS_Singleton
<1>3. /\ IsFiniteSet({x} \cup {y}) /\ Cardinality({x} \cup {y}) \in {1, 2}
  BY <1>2, FS_AddElement
<1>4. /\ IsFiniteSet(({x} \cup {y}) \cup {z}) /\ Cardinality(({x} \cup {y}) \cup {z}) \in {1, 2, 3}
  BY <1>3, FS_AddElement
<1>5. ({x} \cup {y}) \cup {z} = {x, y, z}
  OBVIOUS
<1>6. IsFiniteSet({x, y, z}) /\ Cardinality({x, y, z}) \in {1, 2, 3}
  BY <1>4, <1>5
<1>7. IsFiniteSet(S) /\ Cardinality(S) <= Cardinality({x, y, z})
  BY <1>6, FS_Subset
<1>8. Cardinality(S) \in Nat
  BY <1>7, FS_CardinalityType
<1> QED BY <1>6, <1>7, <1>8

\* Only a round that runs, with a process to move, takes a step.
LEMMA StepMoves ==
  ASSUME IInv, Step
  PROVE  phase = "running" /\ outcome = "none" /\ CanMove
<1>1. phase = "running" /\ outcome = "none"
  BY DEF Step, Dat, Nop, Mov, Arithmetic, Division, Jmp, JmzJmn, Djn, Spl, Slt,
         Compare, Ldp, Stp, Executing
<1>2. CanMove
  BY <1>1 DEF CanMove, Core, IInv, TypeOK, OutcomeSound, Win, W
<1> QED BY <1>1, <1>2

\* What a step does, as the recorders hear of it: p is put back on the queue.
Heard(p) ==
  /\ p \in Seq(Addr) /\ Len(p) \in Nat /\ Len(p) <= 2
  /\ mover \in W /\ core \in Core /\ queues \in [W -> Seq(Addr)]
  /\ queues[mover] \in Seq(Addr) /\ queues[mover] # << >>
  /\ queues' = [queues EXCEPT ![mover] = Tail(queues[mover]) \o p]
  /\ done' = done + 1
  /\ UNCHANGED <<match, phase>>
  /\ core' \in Core /\ written' \subseteq Addr
  /\ \A i \in Addr : core'[i] # core[i] => i \in written'
  /\ IsFiniteSet(written') /\ Cardinality(written') \in Nat /\ Cardinality(written') <= 3

\* A step puts back what it puts back and notes what it writes.
LEMMA StepHeard ==
  ASSUME IInv, Step
  PROVE  \E p : Heard(p)
<1>1. CanMove
  BY StepMoves
<1>2. Grows /\ FewNoted
  BY <1>1, StepShape
<1>3. NotesAll
  BY <1>1, EffectOfStep DEF Effect
<1>4. PICK p \in Seq(Addr) : Len(p) <= 2 /\ EndTurn(Tail(queues[mover]) \o p)
  BY <1>2 DEF Grows
<1>5. /\ queues' = [queues EXCEPT ![mover] = Tail(queues[mover]) \o p]
      /\ done' = done + 1 /\ UNCHANGED <<match, phase>>
  BY <1>4 DEF EndTurn
<1>6. /\ core' \in Core /\ written' \subseteq Addr
      /\ \A i \in Addr : core'[i] # core[i] => i \in written'
  BY <1>3, ReplayAssumption DEF NotesAll, Note
<1>7. IsFiniteSet(written') /\ Cardinality(written') \in Nat /\ Cardinality(written') <= 3
  <2>1. PICK x, y, z : written' \subseteq {x, y, z}
    BY <1>2 DEF FewNoted
  <2> QED BY <2>1, FewCells
<1>8. queues[mover] \in Seq(Addr) /\ queues[mover] # << >>
  BY <1>1 DEF CanMove
<1>9. Len(p) \in Nat /\ Len(p) <= 2
  BY <1>4
<1>10. mover \in W /\ core \in Core /\ queues \in [W -> Seq(Addr)]
  BY <1>1 DEF CanMove
<1>11. Heard(p)
  BY <1>5, <1>6, <1>7, <1>8, <1>9, <1>10 DEF Heard
<1> QED BY <1>11

\* Cells written over a core as they are now are the core as it is now.
LEMMA OverCore ==
  ASSUME NEW c \in Core, NEW d \in Core, NEW S \in SUBSET Addr,
         \A i \in Addr : d[i] # c[i] => i \in S
  PROVE  Over([i \in S |-> d[i]], c) = d
<1>1. DOMAIN c = Addr /\ d = [i \in Addr |-> d[i]]
  BY DEF Core
<1>2. Over([i \in S |-> d[i]], c) = [i \in Addr |-> IF i \in S THEN d[i] ELSE c[i]]
  BY <1>1 DEF Over
<1>3. \A i \in Addr : (IF i \in S THEN d[i] ELSE c[i]) = d[i]
  OBVIOUS
<1> QED BY <1>1, <1>2, <1>3

\* The recorder knows the queue of the warrior that moves.
KnowsQueue == head[mover] = HeadOf(queues[mover]) /\ len[mover] = Len(queues[mover])

\* The event the browser's recorder makes of a step tells the page the step.
LEMMA EventTells ==
  ASSUME NEW p, Heard(p), KnowsQueue
  PROVE  LET e == Event(mover, queues'[mover], written', core')
         IN /\ e \in Events
            /\ Replayed([sound |-> TRUE, queues |-> queues, core |-> core], e)
                 = [sound |-> TRUE, queues |-> queues', core |-> core']
<1> DEFINE q == queues[mover]
           t == Tail(q)
           n == Cardinality(written')
           cells == [i \in written' |-> core'[i]]
           e == Event(mover, queues'[mover], written', core')
<1>1. q \in Seq(Addr) /\ q # << >>
  BY DEF Heard
<1>2. p \in Seq(Addr) /\ Len(p) \in Nat /\ Len(p) <= 2
  BY DEF Heard
<1>3. mover \in W /\ core \in Core /\ queues \in [W -> Seq(Addr)]
  BY DEF Heard
<1>4. queues' = [queues EXCEPT ![mover] = t \o p]
  BY DEF Heard
<1>5. queues'[mover] = t \o p
  <2> HIDE DEF t
  <2> QED BY <1>4, <1>3
<1>6. /\ n \in Nat /\ IsFiniteSet(written') /\ n <= 3 /\ written' \in SUBSET Addr
      /\ core' \in Core /\ \A i \in Addr : core'[i] # core[i] => i \in written'
  BY DEF Heard
<1>7. /\ q \in Seq(Addr) /\ q # << >> /\ p \in Seq(Addr) /\ Len(p) \in Nat /\ Len(p) <= 2
      /\ queues' = [queues EXCEPT ![mover] = t \o p] /\ queues'[mover] = t \o p
      /\ n \in Nat /\ IsFiniteSet(written') /\ n <= 3 /\ written' \in SUBSET Addr
      /\ core' \in Core /\ \A i \in Addr : core'[i] # core[i] => i \in written'
  BY <1>1, <1>2, <1>4, <1>5, <1>6
<1>8. /\ t \in Seq(Addr) /\ Len(t) = Len(q) - 1 /\ Head(q) \in Addr
      /\ SubSeq(q, 2, Len(q)) = t
  BY <1>7, RestOf
<1>9. head[mover] = Head(q) /\ len[mover] = Len(q)
  BY <1>1 DEF HeadOf, KnowsQueue
<1> HIDE DEF q, t, n, cells
<1>10. Len(t \o p) + 1 - Len(q) = Len(p)
  <2>1. Len(t \o p) = Len(t) + Len(p)
    BY <1>2, <1>8
  <2>2. Len(t) \in Nat /\ Len(p) \in Nat /\ Len(q) \in Nat
    BY <1>1, <1>2, <1>8
  <2> QED BY <1>8, <2>1, <2>2
<1>11. e = [header |-> Header(mover, Len(p), n), head |-> Head(q), pushed |-> p, cells |-> cells]
  <2>1. Pushed(Len(t \o p), len[mover]) = Len(p)
    BY <1>9, <1>10 DEF Pushed
  <2>2. SubSeq(t \o p, Len(t \o p) - Len(p) + 1, Len(t \o p)) = p
    BY <1>7, <1>8, BackOf
  <2> QED BY <1>7, <1>9, <2>1, <2>2 DEF Event, n, cells
<1>12. Reads(Header(mover, Len(p), n), mover, Len(p), n)
  <2>1. n \in Nat
    BY <1>6
  <2> QED BY <1>2, <1>3, <2>1, HeaderRead
<1>13. DOMAIN cells = written' /\ cells \in [written' -> Instruction]
  BY <1>7 DEF cells, Core
<1>14. e \in Events
  <2>1. cells \in Cells
    BY <1>7, <1>13 DEF Cells, n
  <2>2. p \in {r \in Seq(Addr) : Len(r) <= 2}
    BY <1>2
  <2>3. Header(mover, Len(p), n) \in Nat
    BY <1>12 DEF Reads
  <2> QED BY <1>8, <1>11, <2>1, <2>2, <2>3 DEF Events
<1>15. Over(cells, core) = core'
  BY <1>7, <1>3, OverCore DEF cells
<1> HIDE DEF e
<1>16. Replayed([sound |-> TRUE, queues |-> queues, core |-> core], e)
         = [sound |-> TRUE, queues |-> queues', core |-> core']
  <2> DEFINE page == [sound |-> TRUE, queues |-> queues, core |-> core]
  <2>1. /\ e.header % 2 = mover /\ (e.header \div 2) % 4 = Len(p) /\ e.header \div 8 = n
        /\ e.head = Head(q) /\ e.pushed = p /\ e.cells = cells
    <3>1. /\ e.header = Header(mover, Len(p), n)
          /\ e.head = Head(q) /\ e.pushed = p /\ e.cells = cells
      BY <1>11
    <3>2. Reads(e.header, mover, Len(p), n)
      BY <1>12, <3>1
    <3> QED BY <3>1, <3>2 DEF Reads
  <2>2. /\ page.sound /\ page.queues[mover] # << >> /\ Head(page.queues[mover]) = e.head
        /\ Len(e.pushed) = (e.header \div 2) % 4
        /\ Cardinality(DOMAIN e.cells) = e.header \div 8
    BY <1>7, <1>13, <2>1 DEF q, n
  <2>3. [page.queues EXCEPT ![mover] = SubSeq(@, 2, Len(@)) \o e.pushed] = queues'
    <3>1. page.queues = queues /\ SubSeq(queues[mover], 2, Len(queues[mover])) \o e.pushed = t \o p
      BY <1>8, <2>1 DEF q
    <3> QED BY <1>7, <3>1
  <2>4. Over(e.cells, page.core) = core'
    BY <1>15, <2>1
  <2> HIDE DEF page
  <2>5. Replayed(page, e) = [sound |-> TRUE, queues |-> queues', core |-> core']
    BY <2>1, <2>2, <2>3, <2>4 DEF Replayed
  <2> QED BY <2>5 DEF page
<1> QED BY <1>14, <1>16 DEF e

-----------------------------------------------------------------------------
\* The page is the machine.

\* Before the first event a page is one.
LEMMA BlankPage ==
  ASSUME IInv, phase = "running", loaded \in Core
  PROVE  Blank \in Pages
<1>1. job \in Jobs /\ pos \in Addr /\ 0 \in Addr
  BY Constants DEF IInv, JobKnown, TypeOK, Addr
<1>2. \A w \in W : job.team[w].start \in Addr
  BY <1>1, MarsAssumption DEF Warrior
<1>3. \A w \in W : Add(IF w = 0 THEN 0 ELSE pos, job.team[w].start) \in Addr
  BY <1>1, <1>2, RingArithmetic
<1> DEFINE q == [w \in W |-> << Add(IF w = 0 THEN 0 ELSE pos, job.team[w].start) >>]
<1>4. q \in [W -> Seq(Addr)]
  <2>1. \A x \in Addr : << x >> \in Seq(Addr)
    OBVIOUS
  <2> QED BY <1>3, <2>1
<1>5. Blank = [sound |-> TRUE, queues |-> q, core |-> loaded]
  BY DEF Blank
<1> HIDE DEF q
<1> QED BY <1>4, <1>5 DEF Pages

\* An instruction told keeps the page and the recorder up to date.
LEMMA ToldFollows ==
  ASSUME IInv, Recorded, UpToDate, Page = Shows, Step, Told
  PROVE  /\ UpToDate' /\ Page' = Shows'
         /\ events' \in Seq(Events)
<1>1. phase = "running" /\ CanMove
  BY StepMoves
<1>2. PICK p : Heard(p)
  BY StepHeard
<1>3. mover \in W /\ DOMAIN queues = W /\ done \in Nat
  BY Constants DEF IInv, TypeOK
<1>4. KnowsQueue
  BY <1>3 DEF UpToDate, KnowsQueue
<1> DEFINE e == Event(mover, queues'[mover], written', core')
<1>5. e \in Events /\ Replayed(Shows, e) = Shows'
  BY <1>2, <1>4, EventTells DEF Shows
<1>6. events' = Append(events, e) /\ loaded' = loaded
  BY DEF Told
<1> HIDE DEF e
<1>7. events \in Seq(Events) /\ loaded \in Core
  BY DEF Recorded
<1>8. Blank \in Pages
  BY <1>1, <1>7, BlankPage
<1>9. Page' = Shows'
  <2>1. Blank' = Blank
    BY <1>2, <1>6 DEF Heard, match, Blank
  <2>2. Page' = FoldLeft(Replayed, Blank, Append(events, e))
    BY <1>6, <2>1 DEF Page
  <2>3. FoldLeft(Replayed, Blank, Append(events, e)) = Replayed(Page, e)
    BY <1>5, <1>7, <1>8, ReplayedAppend DEF Page
  <2> QED BY <1>5, <2>2, <2>3
<1>10. events' \in Seq(Events) /\ Len(events') = done'
  <2>1. Len(events) = done /\ done' = done + 1
    BY <1>2 DEF UpToDate, Heard
  <2>2. /\ Append(events, e) \in Seq(Events)
        /\ Len(Append(events, e)) = Len(events) + 1
    BY <1>5, <1>7
  <2> QED BY <1>6, <2>1, <2>2
<1>11. /\ head' = [w \in W |-> HeadOf(queues'[w])]
       /\ len' = [w \in W |-> Len(queues'[w])]
  <2>1. /\ head = [w \in W |-> HeadOf(queues[w])] /\ len = [w \in W |-> Len(queues[w])]
        /\ head' = [head EXCEPT ![mover] = HeadOf(queues'[mover])]
        /\ len' = [len EXCEPT ![mover] = Len(queues'[mover])]
    BY DEF UpToDate, Told
  <2>2. \A w \in W : w # mover => queues'[w] = queues[w]
    <3>1. PICK q : queues' = [queues EXCEPT ![mover] = q]
      BY <1>2 DEF Heard
    <3> QED BY <1>3, <3>1
  <2> QED BY <1>3, <2>1, <2>2
<1> QED BY <1>9, <1>10, <1>11 DEF UpToDate

-----------------------------------------------------------------------------
\* The frames are what was written.

\* What is over what is over the rest is over all of it.
LEMMA OverOver ==
  ASSUME NEW x \in Colours, NEW y \in Colours, NEW z \in Colours
  PROVE  /\ Over(x, y) \in Colours
         /\ Over(Over(x, y), z) = Over(x, Over(y, z))
<1>1. PICK A \in SUBSET Addr : x \in [A -> W]
  BY DEF Colours
<1>2. PICK B \in SUBSET Addr : y \in [B -> W]
  BY DEF Colours
<1>3. PICK C \in SUBSET Addr : z \in [C -> W]
  BY DEF Colours
<1>4. Over(x, y) \in [A \cup B -> W] /\ A \cup B \in SUBSET Addr
  BY <1>1, <1>2 DEF Over
<1>5. DOMAIN x = A /\ DOMAIN y = B /\ DOMAIN z = C
  BY <1>1, <1>2, <1>3
<1>6. Over(Over(x, y), z)
        = [c \in (A \cup B) \cup C |-> IF c \in A THEN x[c] ELSE IF c \in B THEN y[c] ELSE z[c]]
  BY <1>5 DEF Over
<1>7. Over(x, Over(y, z))
        = [c \in A \cup (B \cup C) |-> IF c \in A THEN x[c] ELSE IF c \in B THEN y[c] ELSE z[c]]
  BY <1>5 DEF Over
<1>8. (A \cup B) \cup C = A \cup (B \cup C)
  OBVIOUS
<1> QED BY <1>4, <1>6, <1>7, <1>8 DEF Colours

\* Nothing over some cells is those cells.
LEMMA OverNothing ==
  ASSUME NEW x \in Colours
  PROVE  << >> \in Colours /\ Over(<< >>, x) = x
<1>1. PICK A \in SUBSET Addr : x \in [A -> W]
  BY DEF Colours
<1>2. DOMAIN << >> = {} /\ << >> = [c \in {} |-> 0]
  OBVIOUS
<1>3. << >> \in [{} -> W] /\ {} \in SUBSET Addr
  BY <1>2
<1>4. Over(<< >>, x) = [c \in A |-> x[c]]
  BY <1>1, <1>2 DEF Over
<1> QED BY <1>1, <1>3, <1>4 DEF Colours

\* Nothing is a multiple between a multiple and the next.
LEMMA NotBetween ==
  ASSUME NEW P \in Nat \ {0}, NEW k \in Int, NEW q \in Int, k * P < q * P, q * P < (k + 1) * P
  PROVE  FALSE
<1>1. CASE q <= k
  <2>1. k - q \in Nat /\ (k - q) * P \in Nat
    BY <1>1
  <2>2. (k - q) * P = k * P - q * P
    OBVIOUS
  <2> QED BY <2>1, <2>2
<1>2. CASE q >= k + 1
  <2>1. q - k - 1 \in Nat /\ (q - k - 1) * P \in Nat
    BY <1>2
  <2>2. (q - k - 1) * P = q * P - (k + 1) * P
    OBVIOUS
  <2> QED BY <2>1, <2>2
<1> QED BY <1>1, <1>2

\* What leaves no remainder is a multiple.
LEMMA Multiple ==
  ASSUME NEW P \in Nat \ {0}, NEW x \in Nat, x % P = 0
  PROVE  x \div P \in Int /\ x = (x \div P) * P
OBVIOUS

\* An instruction more fills the interval or leaves it as it is.
LEMMA NextDue ==
  ASSUME NEW k \in Nat, NEW n \in Nat, every \in Nat \ {0}, Due(k, n)
  PROVE  /\ (n + 1) % (2 * every) = 0 =>
              /\ n + 1 = (k + 1) * (2 * every) /\ (n + 1) \div 2 = (k + 1) * every
              /\ Due(k + 1, n + 1)
         /\ (n + 1) % (2 * every) # 0 =>
              Due(k, n + 1) /\ n + 1 # k * (2 * every)
<1> DEFINE P == 2 * every
           m == k * P
<1>1. P \in Nat /\ P > 0 /\ m \in Nat /\ (k + 1) * P = m + P /\ (k + 2) * P = m + P + P
  OBVIOUS
<1>2. m <= n /\ n < m + P
  BY <1>1 DEF Due
<1>3. n + 1 = m + P \/ (n + 1 < m + P /\ n + 1 > m)
  BY <1>1, <1>2
<1>4. CASE n + 1 = m + P
  <2>1. (n + 1) % P = 0
    <3>1. n + 1 = (k + 1) * P + 0 /\ k + 1 \in Int /\ 0 \in 0 .. P - 1
      BY <1>1, <1>4
    <3> QED BY <1>1, <3>1
  <2>2. (n + 1) \div 2 = (k + 1) * every
    <3>1. n + 1 = 2 * ((k + 1) * every) /\ (k + 1) * every \in Nat
      BY <1>1, <1>4
    <3> DEFINE h == (k + 1) * every
    <3> HIDE DEF h
    <3>2. n + 1 = 2 * h /\ h \in Nat
      BY <3>1 DEF h
    <3> QED BY <3>2 DEF h
  <2>3. Due(k + 1, n + 1)
    BY <1>1, <1>4 DEF Due
  <2> QED BY <1>1, <1>4, <2>1, <2>2, <2>3
<1>5. CASE n + 1 < m + P /\ n + 1 > m
  <2>1. (n + 1) % P # 0
    <3> SUFFICES ASSUME (n + 1) % P = 0 PROVE FALSE
      OBVIOUS
    <3> DEFINE q == (n + 1) \div P
    <3>1. P \in Nat \ {0} /\ n + 1 \in Nat
      BY <1>1
    <3>2. q \in Int /\ n + 1 = q * P
      <4> HIDE DEF P
      <4> QED BY <3>1, Multiple
    <3>3. k * P < q * P /\ q * P < (k + 1) * P
      BY <1>1, <1>5, <3>2
    <3> HIDE DEF P, q
    <3> QED BY <3>1, <3>2, <3>3, NotBetween
  <2>2. Due(k, n + 1)
    BY <1>1, <1>5 DEF Due
  <2> QED BY <1>1, <1>5, <2>1, <2>2
<1> QED BY <1>3, <1>4, <1>5

\* A warrior's processes are few.
LEMMA ProcessesFew ==
  ASSUME NEW qs \in [W -> Seq(Addr)], \A w \in W : Len(qs[w]) <= MaxProcesses
  PROVE  [w \in W |-> Len(qs[w])] \in [W -> 0 .. MaxProcesses]
<1>1. ASSUME NEW w \in W PROVE Len(qs[w]) \in 0 .. MaxProcesses
  <2>1. Len(qs[w]) \in Nat /\ Len(qs[w]) <= MaxProcesses
    OBVIOUS
  <2> QED BY <2>1, MarsAssumption
<1> QED BY <1>1

\* What an instruction wrote, over what was written before.
Wrote == [c \in written' |-> mover]

\* It is a warrior for each of some cells.
LEMMA WroteColours ==
  ASSUME IInv, Step
  PROVE  Wrote \in Colours
<1>1. PICK p : Heard(p)
  BY StepHeard
<1> QED BY <1>1 DEF Wrote, Colours, Heard

\* Frames of a cycle of the round, of processes there can be.
LEMMA FrameMade ==
  ASSUME NEW c \in 1 .. MaxCycles, NEW q \in [W -> 0 .. MaxProcesses], NEW x \in Colours
  PROVE  Frame(c, q, x) \in Frames
BY DEF Frame, Frames

\* One frame more.
LEMMA FramesMore ==
  ASSUME NEW fs \in Seq(Frames), NEW f \in Frames
  PROVE  /\ Append(fs, f) \in Seq(Frames) /\ Len(Append(fs, f)) = Len(fs) + 1
         /\ Append(fs, f)[Len(fs) + 1] = f
         /\ \A i \in 1 .. Len(fs) : Append(fs, f)[i] = fs[i]
OBVIOUS

\* What the frames paint when x is what they and what is pending show.
LEMMA PaintedColours ==
  ASSUME Recorded, NEW x \in Colours
  PROVE  /\ FoldLeft(Paint, << >>, frames) \in Colours
         /\ FramesPaint =>
              Over(Over(x, pending), FoldLeft(Paint, << >>, frames)) = Over(x, writer)
<1>1. << >> \in Colours /\ frames \in Seq(Frames) /\ pending \in Colours
  BY OverNothing DEF Recorded
<1>2. HasHistory(Len(frames), Colours, << >>, PaintedBy(frames, Len(frames)),
                 FoldLeft(Paint, << >>, frames))
  BY <1>1, PaintHistory
<1>3. FoldLeft(Paint, << >>, frames) \in Colours
  <2>1. Len(frames) \in 0 .. Len(frames)
    BY <1>1
  <2> QED BY <1>2, <2>1 DEF HasHistory
<1> DEFINE z == FoldLeft(Paint, << >>, frames)
<1>4. Over(Over(x, pending), z) = Over(x, Over(pending, z))
  BY <1>1, <1>3, OverOver
<1> QED BY <1>3, <1>4 DEF FramesPaint

\* Written is that over what was there.
LEMMA WrittenOver ==
  ASSUME NEW was
  PROVE  Written(was, written', mover) = Over(Wrote, was)
<1>1. DOMAIN Wrote = written' /\ \A c \in written' : Wrote[c] = mover
  BY DEF Wrote
<1>2. DOMAIN was \cup written' = written' \cup DOMAIN was
  OBVIOUS
<1> HIDE DEF Wrote
<1> QED BY <1>1, <1>2 DEF Written, Over

\* An instruction painted keeps the frames and what is pending.
LEMMA PaintedFramed ==
  ASSUME IInv, TypeOK', Recorded, FramesDue, FramesPaint, Step, Painted, UNCHANGED asked,
         writer' = Written(writer, written', mover)
  PROVE  /\ frames' \in Seq(Frames) /\ pending' \in Colours
         /\ FramesDue' /\ FramesPaint'
<1> DEFINE now == Over(Wrote, pending)
           k == Len(frames)
           z == FoldLeft(Paint, << >>, frames)
<1>1. Wrote \in Colours /\ pending \in Colours /\ frames \in Seq(Frames)
  BY WroteColours DEF Recorded
<1>2. every \in Nat \ {0} /\ every' = every
  BY ReplayAssumption DEF Recorded, asked
<1>3. k \in Nat /\ done \in Nat /\ done' = done + 1 /\ done' \in 0 .. 2 * MaxCycles
  <2>1. PICK p : Heard(p)
    BY StepHeard
  <2>2. done \in Nat
    BY Constants DEF IInv, TypeOK
  <2> QED BY <1>1, <2>1, <2>2 DEF Heard, TypeOK
<1>4. now \in Colours
  BY <1>1, OverOver
<1>5. writer' = Over(Wrote, writer)
  BY WrittenOver
<1>6. Over(now, z) = writer' /\ z \in Colours
  BY <1>1, <1>5, PaintedColours
<1>7. Written(pending, written', mover) = now
  BY WrittenOver
<1>8. Due(k, done) /\ \A i \in 1 .. k : frames[i].cycle = i * every
  BY DEF FramesDue
<1> HIDE DEF now, k, z
<1>9. CASE done' % (2 * every) = 0
  <2>1. frames' = Append(frames, Frame(done' \div 2, Processes', now)) /\ pending' = << >>
    BY <1>7, <1>9 DEF Painted
  <2> DEFINE f == Frame(done' \div 2, Processes', now)
  <2>2. /\ done' = (k + 1) * (2 * every) /\ done' \div 2 = (k + 1) * every
        /\ Due(k + 1, done')
    BY <1>2, <1>3, <1>8, <1>9, NextDue
  <2>3. done' \div 2 \in 1 .. MaxCycles
    <3>1. (k + 1) * every \in Nat \ {0}
      BY <1>2, <1>3
    <3> QED BY <1>3, <2>2, <3>1, Constants
  <2>4. Processes' \in [W -> 0 .. MaxProcesses]
    <3>1. queues' \in [W -> Seq(Addr)] /\ \A w \in W : Len(queues'[w]) <= MaxProcesses
      BY DEF TypeOK
    <3> QED BY <3>1, ProcessesFew DEF Processes
  <2>5. f \in Frames
    BY <1>4, <2>3, <2>4, FrameMade
  <2>6. f.cycle = (k + 1) * every /\ f.processes = Processes' /\ f.writes = now
    BY <2>2 DEF Frame
  <2> HIDE DEF f
  <2>7. /\ frames' \in Seq(Frames) /\ Len(frames') = k + 1 /\ frames'[k + 1] = f
        /\ \A i \in 1 .. k : frames'[i] = frames[i]
    BY <1>1, <2>1, <2>5, FramesMore DEF k, f
  <2>8. FoldLeft(Paint, << >>, frames') = writer'
    <3>1. FoldLeft(Paint, << >>, frames') = Paint(z, f)
      BY <1>1, <2>1, <2>5, OverNothing, PaintAppend DEF f, z
    <3> QED BY <1>6, <2>6, <3>1 DEF Paint
  <2>9. pending' \in Colours /\ FramesPaint'
    <3>1. writer' \in Colours
      BY <1>1, <1>5, OverOver DEF Recorded
    <3>2. Over(pending', FoldLeft(Paint, << >>, frames')) = writer'
      BY <2>1, <2>8, <3>1, OverNothing
    <3>3. FramesPaint'
      BY <3>2 DEF FramesPaint
    <3>4. pending' \in Colours
      BY <1>1, <2>1, OverNothing
    <3> QED BY <3>3, <3>4
  <2>10. FramesDue'
    <3>1. \A i \in 1 .. (k + 1) : frames'[i].cycle = i * every
      BY <1>3, <1>8, <2>6, <2>7
    <3> QED BY <1>2, <2>1, <2>2, <2>6, <2>7, <3>1 DEF FramesDue, Due
  <2> QED BY <2>7, <2>9, <2>10
<1>10. CASE done' % (2 * every) # 0
  <2>1. frames' = frames /\ pending' = now
    BY <1>7, <1>10 DEF Painted
  <2>2. Due(k, done') /\ done' # k * (2 * every)
    BY <1>2, <1>3, <1>8, <1>10, NextDue
  <2>3. FramesPaint'
    BY <1>6, <2>1 DEF FramesPaint, z
  <2>4. FramesDue'
    BY <1>2, <1>8, <2>1, <2>2 DEF FramesDue, Due, k
  <2> QED BY <1>1, <1>4, <2>1, <2>3, <2>4
<1> QED BY <1>9, <1>10

\* The cycle a round of n instructions ends on, after k full intervals: that
\* of the last frame, if it was made just now, or a later one.
LEMMA EndAfter ==
  ASSUME NEW k \in Nat, NEW n \in Nat, NEW h \in Nat \ {0}, k * (2 * h) <= n
  PROVE  /\ k * h \in Nat
         /\ n = k * (2 * h) => (n + 1) \div 2 = k * h
         /\ (n + 1) \div 2 = k * h => n = k * (2 * h)
         /\ n # k * (2 * h) => k * h < (n + 1) \div 2
<1> DEFINE m == k * h
<1>1. m \in Nat /\ k * (2 * h) = 2 * m
  OBVIOUS
<1> HIDE DEF m
<1>2. 2 * m <= n
  BY <1>1
<1>3. n = 2 * m => (n + 1) \div 2 = m
  BY <1>1
<1>4. n # 2 * m => (n + 1) \div 2 > m
  BY <1>1, <1>2
<1>5. (n + 1) \div 2 \in Nat
  OBVIOUS
<1>6. n # 2 * m => m < (n + 1) \div 2 /\ (n + 1) \div 2 # m
  BY <1>1, <1>4, <1>5
<1> QED BY <1>1, <1>3, <1>4, <1>6 DEF m

\* A round ends after an instruction at least, within its cycles.
LEMMA EndsWithin ==
  ASSUME IInv, FinishRound
  PROVE  done \in Nat \ {0} /\ EndCycle \in 1 .. MaxCycles
<1>1. /\ phase = "running" /\ outcome \in {"win0", "win1", "tie"}
      /\ left \in 0 .. 2 * MaxCycles /\ done \in 0 .. 2 * MaxCycles
  BY DEF FinishRound, IInv, TypeOK
<1>2. done \in Nat \ {0}
  BY <1>1, Constants DEF IInv, OutcomeSound, FairTurns
<1>3. (done + 1) \div 2 \in 1 .. MaxCycles
  BY <1>1, <1>2, Constants
<1> QED BY <1>2, <1>3 DEF EndCycle

\* The frames are in the order of their cycles.
LEMMA CyclesGrow ==
  ASSUME every \in Nat \ {0}, NEW i \in Nat
  PROVE  i * every < (i + 1) * every
OBVIOUS

\* What is pending, or the end itself, becomes a frame, and the round is shown.
LEMMA EndShown ==
  ASSUME IInv, Recorded, FramesDue, FramesPaint, FinishRound, LastFrame,
         UNCHANGED <<asked, writer>>
  PROVE  frames' \in Seq(Frames) /\ pending' \in Colours /\ Shown'
<1> DEFINE k == Len(frames)
           z == FoldLeft(Paint, << >>, frames)
           c == EndCycle
<1>1. /\ frames \in Seq(Frames) /\ pending \in Colours /\ writer \in Colours
      /\ every \in Nat \ {0} /\ every' = every /\ writer' = writer
  BY ReplayAssumption DEF Recorded, asked
<1>2. /\ k \in Nat /\ done \in Nat \ {0} /\ c \in 1 .. MaxCycles
      /\ EndCycle' = c /\ Processes' = Processes
  <2>1. done' = done /\ queues' = queues
    BY DEF FinishRound, turn
  <2> QED BY <1>1, <2>1, EndsWithin DEF EndCycle, Processes
<1>3. /\ k * (2 * every) <= done /\ \A i \in 1 .. k : frames[i].cycle = i * every
      /\ k > 0 /\ done = k * (2 * every) =>
           pending = << >> /\ frames[k].processes = Processes
  BY DEF FramesDue, Due
<1>4. z \in Colours /\ Over(pending, z) = writer /\ << >> \in Colours
  BY <1>1, PaintedColours, OverNothing DEF FramesPaint
<1>5. /\ done = k * (2 * every) => c = k * every
      /\ c = k * every => done = k * (2 * every)
      /\ done # k * (2 * every) => k * every < c
  BY <1>1, <1>2, <1>3, EndAfter DEF EndCycle
<1>6. k > 0 => Last(frames) = frames[k]
  BY DEF Last
<1>7. frames = << >> <=> k = 0
  BY <1>1
<1> HIDE DEF z, c
<1>8. CASE FrameMissing
  <2> DEFINE f == Frame(c, Processes, pending)
  <2>1. frames' = Append(frames, f) /\ pending' = << >>
    BY <1>8 DEF LastFrame, c
  <2>2. f \in Frames /\ f.cycle = c /\ f.processes = Processes /\ f.writes = pending
    <3>1. Processes \in [W -> 0 .. MaxProcesses]
      BY ProcessesFew DEF Processes, IInv, TypeOK
    <3>2. f \in Frames
      BY <1>1, <1>2, <3>1, FrameMade
    <3> QED BY <3>2 DEF Frame
  <2> HIDE DEF f, k
  <2>3. /\ frames' \in Seq(Frames) /\ Len(frames') = k + 1 /\ frames'[k + 1] = f
        /\ \A i \in 1 .. k : frames'[i] = frames[i]
    BY <1>1, <2>1, <2>2, FramesMore DEF k
  <2>4. k > 0 => k * every < c
    <3>1. CASE pending # << >>
      BY <1>3, <1>5, <3>1
    <3>2. CASE frames # << >> /\ Last(frames).cycle # EndCycle
      <4>1. k > 0 /\ Last(frames) = frames[k]
        BY <1>2, <1>6, <1>7, <3>2
      <4>2. frames[k].cycle = k * every
        BY <1>2, <1>3, <4>1
      <4>3. c # k * every
        BY <3>2, <4>1, <4>2 DEF c
      <4> QED BY <1>5, <4>3
    <3>3. CASE frames = << >>
      BY <1>2, <1>7, <3>3
    <3> QED BY <1>8, <3>1, <3>2, <3>3 DEF FrameMissing
  <2>5. ASSUME NEW i \in 1 .. k
        PROVE  frames'[i].cycle = i * every /\ frames'[i].cycle < frames'[i + 1].cycle
    <3>1. frames'[i].cycle = i * every
      BY <1>3, <2>3
    <3>2. CASE i < k
      <4>1. i \in Nat /\ i + 1 \in 1 .. k
        BY <1>2, <3>2
      <4>2. frames'[i + 1].cycle = (i + 1) * every
        BY <1>3, <2>3, <4>1
      <4>3. i * every < (i + 1) * every
        BY <1>1, <4>1, CyclesGrow
      <4> QED BY <3>1, <4>2, <4>3
    <3>3. CASE i = k
      BY <1>2, <2>2, <2>3, <2>4, <3>1, <3>3
    <3> QED BY <1>2, <3>1, <3>2, <3>3
  <2>6. Last(frames') = f
    BY <2>3 DEF Last
  <2>7. FramesEndWithRound'
    <3>1. frames' # << >>
      BY <1>2, <2>3
    <3>2. Len(frames') - 1 = k
      BY <1>2, <2>3
    <3> QED BY <1>1, <1>2, <2>2, <2>5, <2>6, <3>1, <3>2 DEF FramesEndWithRound
  <2>8. FramesPaintWriters'
    <3>1. FoldLeft(Paint, << >>, frames') = Paint(z, f)
      BY <1>1, <1>4, <2>1, <2>2, PaintAppend DEF z
    <3>2. FoldLeft(Paint, << >>, frames') = writer'
      BY <1>1, <1>4, <2>2, <3>1 DEF Paint
    <3> QED BY <3>2 DEF FramesPaintWriters
  <2> QED BY <1>4, <2>1, <2>3, <2>7, <2>8 DEF Shown
<1>9. CASE ~FrameMissing
  <2>1. frames' = frames /\ pending' = pending
    BY <1>9 DEF LastFrame
  <2>2. pending = << >> /\ frames # << >> /\ Last(frames).cycle = c
    BY <1>9 DEF FrameMissing, c
  <2>3. k > 0
    BY <1>2, <1>7, <2>2
  <2>4. Last(frames) = frames[k] /\ frames[k].cycle = k * every
    BY <1>2, <1>3, <1>6, <2>3
  <2>5. frames[k].processes = Processes
    BY <1>3, <1>5, <2>2, <2>3, <2>4
  <2>6. ASSUME NEW i \in 1 .. k - 1
        PROVE  frames[i].cycle = i * every /\ frames[i].cycle < frames[i + 1].cycle
    <3>1. i \in Nat /\ i \in 1 .. k /\ i + 1 \in 1 .. k
      BY <1>2
    <3>2. frames[i].cycle = i * every /\ frames[i + 1].cycle = (i + 1) * every
      BY <1>3, <3>1
    <3> QED BY <1>1, <3>1, <3>2, CyclesGrow
  <2>7. FramesEndWithRound'
    BY <1>1, <1>2, <2>1, <2>2, <2>4, <2>5, <2>6 DEF FramesEndWithRound
  <2>8. FramesPaintWriters'
    <3>1. z = writer
      BY <1>4, <2>2, OverNothing
    <3>2. FoldLeft(Paint, << >>, frames') = writer'
      BY <1>1, <2>1, <3>1 DEF z
    <3> QED BY <3>2 DEF FramesPaintWriters
  <2> QED BY <1>1, <2>1, <2>7, <2>8 DEF Shown
<1> QED BY <1>8, <1>9

-----------------------------------------------------------------------------
\* The invariant holds.

\* Recording changes nothing of the machine.
LEMMA ObservedNext ==
  ASSUME ReplayNext \/ UNCHANGED allVars
  PROVE  [Next]_vars
<1>1. CASE ReplayNext
  BY <1>1 DEF ReplayNext, ObservedStart, ObservedStep, ObservedEnd, Unobserved, Next
<1>2. CASE UNCHANGED allVars
  BY <1>2 DEF allVars
<1> QED BY <1>1, <1>2

\* Any step of the machine keeps its invariant.
LEMMA MachineKeeps ==
  ASSUME ThreeCells, IInv, [Next]_vars
  PROVE  IInv'
<1>1. ASSUME NEW j \in Jobs, BeginMatch(j) PROVE IInv'
  BY <1>1, BeginMatchIInv
<1>2. CASE StartRound
  BY <1>2, StartRoundIInv
<1>3. CASE Step
  BY <1>3, StepIInv
<1>4. CASE TimeUp
  BY <1>4, TimeUpIInv
<1>5. CASE FinishRound
  BY <1>5, FinishRoundIInv
<1>6. CASE FinishMatch
  BY <1>6, FinishMatchIInv
<1>7. CASE UNCHANGED vars
  BY <1>7 DEF vars, machine, match, turn, IInv, TypeOK, JobKnown, OutcomeSound, FairTurns
<1> QED BY <1>1, <1>2, <1>3, <1>4, <1>5, <1>6, <1>7 DEF Next

\* What the recorders know of a queue is an address and a count.
LEMMA KnownQueues ==
  ASSUME NEW qs \in [W -> Seq(Addr)], \A w \in W : Len(qs[w]) <= MaxProcesses
  PROVE  /\ [w \in W |-> HeadOf(qs[w])] \in [W -> Addr]
         /\ [w \in W |-> Len(qs[w])] \in [W -> 0 .. MaxProcesses]
<1>1. ASSUME NEW w \in W PROVE HeadOf(qs[w]) \in Addr
  <2>1. 0 \in Addr
    BY Constants DEF Addr
  <2>2. CASE qs[w] # << >>
    <3>1. Head(qs[w]) \in Addr
      BY <2>2, RestOf
    <3> QED BY <2>2, <3>1 DEF HeadOf
  <2> QED BY <2>1, <2>2 DEF HeadOf
<1> QED BY <1>1, ProcessesFew

\* Recorders that have heard nothing.
LEMMA Nothing == << >> \in Colours /\ << >> \in Seq(Frames) /\ << >> \in Seq(Events)
<1>1. {} \in SUBSET Addr /\ << >> \in [{} -> W]
  <2>1. << >> = [c \in {} |-> 0]
    OBVIOUS
  <2> QED BY <2>1
<1> QED BY <1>1 DEF Colours

\* Before the first match they have.
LEMMA InitRInv ==
  ASSUME ThreeCells, ReplayInit
  PROVE  RInv
<1>1. IInv
  BY InitIInv DEF ReplayInit
<1>2. core \in Core /\ phase = "idle" /\ 0 \in Addr /\ 0 \in 0 .. MaxProcesses
  BY <1>1, Constants DEF ReplayInit, Init, IInv, TypeOK, Core, Addr
<1>3. << >> \in Colours /\ << >> \in Seq(Frames) /\ << >> \in Seq(Events)
  BY Nothing
<1>4. Recorded
  BY <1>2, <1>3 DEF ReplayInit, Recorded
<1>5. Follows /\ Framed /\ Shown
  BY <1>2 DEF Follows, Framed, Shown, FramesEndWithRound, FramesPaintWriters, Ended
<1> QED BY <1>1, <1>4, <1>5 DEF RInv

\* A round that is recorded begins with the loaded core, and nothing written.
LEMMA StartRInv ==
  ASSUME IInv, IInv', RInv, ObservedStart
  PROVE  RInv'
<1>1. /\ core' \in Core /\ queues' \in [W -> Seq(Addr)]
      /\ \A w \in W : Len(queues'[w]) <= MaxProcesses
  BY DEF IInv, TypeOK, Core
<1>2. << >> \in Colours /\ << >> \in Seq(Frames) /\ << >> \in Seq(Events)
  BY Nothing
<1>3. /\ phase' = "running" /\ done' = 0 /\ writer' = << >> /\ every' = every /\ record' = record
      /\ StartRound /\ job' = job
  BY DEF ObservedStart, StartRound, asked
<1>4. Shown'
  BY <1>3 DEF Shown, FramesEndWithRound, FramesPaintWriters, Ended
<1>5. CASE round' \in record
  <2>1. /\ loaded' = core'
        /\ head' = [w \in W |-> HeadOf(queues'[w])]
        /\ len' = [w \in W |-> Len(queues'[w])]
        /\ pending' = << >> /\ frames' = << >> /\ events' = << >>
    BY <1>5 DEF ObservedStart
  <2>2. Recorded'
    BY <1>1, <1>2, <1>3, <2>1, KnownQueues DEF Recorded, RInv
  <2>3. UpToDate'
    BY <1>3, <2>1 DEF UpToDate
  <2>4. Page' = Shows'
    <3>1. Blank' = Shows'
      BY <1>3, <2>1 DEF Blank, Shows, StartRound
    <3>2. Blank' \in Pages
      BY <1>1, <3>1 DEF Shows, Pages
    <3>3. \A b \in Pages : FoldLeft(Replayed, b, << >>) = b
      <4> SUFFICES ASSUME NEW b \in Pages PROVE FoldLeft(Replayed, b, << >>) = b
        OBVIOUS
      <4>1. HasHistory(0, Pages, b, ReplayedBy(<< >>, 0), FoldLeft(Replayed, b, << >>))
        <5>1. Len(<< >>) = 0
          OBVIOUS
        <5> QED BY <1>2, <5>1, ReplayedHistory
      <4> QED BY <4>1 DEF HasHistory
    <3> QED BY <2>1, <3>1, <3>2, <3>3 DEF Page
  <2>5. FramesDue'
    <3>1. every \in Nat \ {0}
      BY ReplayAssumption DEF RInv, Recorded
    <3> QED BY <1>3, <2>1, <3>1 DEF FramesDue, Due
  <2>6. FramesPaint'
    <3>1. FoldLeft(Paint, << >>, << >>) = << >>
      <4>1. HasHistory(0, Colours, << >>, PaintedBy(<< >>, 0), FoldLeft(Paint, << >>, << >>))
        <5>1. Len(<< >>) = 0
          OBVIOUS
        <5> QED BY <1>2, <5>1, PaintHistory
      <4> QED BY <4>1 DEF HasHistory
    <3>2. Over(<< >>, << >>) = << >>
      BY <1>2, OverNothing
    <3> QED BY <1>3, <2>1, <3>1, <3>2 DEF FramesPaint
  <2> QED BY <1>4, <2>2, <2>3, <2>4, <2>5, <2>6 DEF RInv, Follows, Framed
<1>6. CASE round' \notin record
  <2>1. UNCHANGED recorders
    BY <1>6 DEF ObservedStart
  <2>2. Recorded'
    BY <1>2, <1>3, <2>1 DEF RInv, Recorded, recorders
  <2>3. Follows' /\ Framed'
    BY <1>3, <1>6 DEF Follows, Framed, Recording
  <2> QED BY <1>4, <2>2, <2>3 DEF RInv
<1> QED BY <1>5, <1>6

\* An instruction is told and painted if the round is recorded.
LEMMA StepRInv ==
  ASSUME IInv, IInv', RInv, ObservedStep
  PROVE  RInv'
<1>1. /\ Step /\ phase = "running" /\ UNCHANGED asked
      /\ writer' = Written(writer, written', mover)
  BY StepMoves DEF ObservedStep, Written
<1>2. PICK p : Heard(p)
  BY <1>1, StepHeard
<1>3. phase' = "running" /\ round' = round /\ every' = every /\ record' = record
  BY <1>1, <1>2 DEF Heard, match, asked
<1>4. TypeOK' /\ Recorded
  BY DEF IInv, RInv
<1>5. writer' \in Colours
  <2>1. Wrote \in Colours /\ writer \in Colours
    BY <1>1, <1>4, WroteColours DEF Recorded
  <2>2. Over(Wrote, writer) \in Colours
    BY <2>1, OverOver
  <2> QED BY <1>1, <2>2, WrittenOver
<1>6. Shown'
  BY <1>3 DEF Shown, FramesEndWithRound, FramesPaintWriters, Ended
<1>7. CASE Recording
  <2>1. UpToDate /\ Page = Shows /\ FramesDue /\ FramesPaint
    BY <1>1, <1>7 DEF RInv, Follows, Framed
  <2>2. Painted /\ Told
    BY <1>7 DEF ObservedStep
  <2>3. UpToDate' /\ Page' = Shows' /\ events' \in Seq(Events)
    BY <1>1, <1>4, <2>1, <2>2, ToldFollows
  <2>4. /\ frames' \in Seq(Frames) /\ pending' \in Colours
        /\ FramesDue' /\ FramesPaint'
    BY <1>1, <1>4, <2>1, <2>2, PaintedFramed
  <2>5. loaded' = loaded
    BY <2>2 DEF Told
  <2>6. head' \in [W -> Addr] /\ len' \in [W -> 0 .. MaxProcesses]
    <3>1. queues' \in [W -> Seq(Addr)] /\ \A w \in W : Len(queues'[w]) <= MaxProcesses
      BY <1>4 DEF TypeOK
    <3>2. /\ head' = [w \in W |-> HeadOf(queues'[w])]
          /\ len' = [w \in W |-> Len(queues'[w])]
      BY <2>3 DEF UpToDate
    <3> QED BY <3>1, <3>2, KnownQueues
  <2>7. Recorded'
    BY <1>3, <1>4, <1>5, <2>3, <2>4, <2>5, <2>6 DEF Recorded
  <2> QED BY <1>6, <2>3, <2>4, <2>7 DEF RInv, Follows, Framed
<1>8. CASE ~Recording
  <2>1. UNCHANGED recorders /\ ~Recording'
    BY <1>3, <1>8 DEF ObservedStep, Recording
  <2>2. Recorded'
    BY <1>3, <1>4, <1>5, <2>1 DEF Recorded, recorders
  <2> QED BY <1>6, <2>1, <2>2 DEF RInv, Follows, Framed
<1> QED BY <1>7, <1>8

\* A recorded round that ended has its last frame.
LEMMA EndRInv ==
  ASSUME IInv, IInv', RInv, ObservedEnd
  PROVE  RInv'
<1>1. /\ FinishRound /\ phase = "running" /\ phase' = "ready" /\ round' = round
      /\ UNCHANGED <<asked, loaded, events, head, len, writer>>
      /\ every' = every /\ record' = record
  BY DEF ObservedEnd, FinishRound, asked
<1>2. Recorded
  BY DEF RInv
<1>3. Follows' /\ Framed'
  BY <1>1 DEF Follows, Framed
<1>4. CASE Recording
  <2>1. LastFrame /\ FramesDue /\ FramesPaint
    BY <1>1, <1>4 DEF ObservedEnd, RInv, Framed
  <2>2. frames' \in Seq(Frames) /\ pending' \in Colours /\ Shown'
    BY <1>1, <1>2, <2>1, EndShown
  <2>3. Recorded'
    BY <1>1, <1>2, <2>2 DEF Recorded
  <2> QED BY <1>3, <2>2, <2>3 DEF RInv
<1>5. CASE ~Recording
  <2>1. UNCHANGED <<pending, frames>> /\ ~Recording'
    BY <1>1, <1>5 DEF ObservedEnd, Recording
  <2>2. Recorded'
    BY <1>1, <1>2, <2>1 DEF Recorded
  <2>3. Shown'
    BY <2>1 DEF Shown, FramesEndWithRound, FramesPaintWriters, Ended
  <2> QED BY <1>3, <2>2, <2>3 DEF RInv
<1> QED BY <1>4, <1>5

\* What a match does between its rounds, and the end of a round's time, is
\* not heard of.
LEMMA UnobservedRInv ==
  ASSUME IInv, IInv', RInv, Unobserved
  PROVE  RInv'
<1>1. /\ UNCHANGED <<pending, frames, loaded, events, head, len, writer>>
      /\ every' = every /\ record' = record
  BY DEF Unobserved, asked, recorders
<1>2. Recorded'
  BY <1>1 DEF RInv, Recorded
<1>3. ASSUME NEW j \in Jobs, BeginMatch(j) PROVE Follows' /\ Framed' /\ Shown'
  BY <1>3 DEF BeginMatch, Follows, Framed, Shown, FramesEndWithRound, FramesPaintWriters, Ended
<1>4. ASSUME FinishMatch PROVE Follows' /\ Framed' /\ Shown'
  BY <1>4 DEF FinishMatch, Follows, Framed, Shown, FramesEndWithRound, FramesPaintWriters, Ended
<1>5. ASSUME TimeUp PROVE Follows' /\ Framed' /\ Shown'
  <2>1. /\ phase = "running" /\ phase' = phase /\ round' = round /\ done' = done
        /\ queues' = queues /\ core' = core /\ job' = job /\ pos' = pos
    BY <1>5 DEF TimeUp, machine, match
  <2>2. Shown'
    BY <2>1 DEF Shown, FramesEndWithRound, FramesPaintWriters, Ended
  <2>3. Follows'
    <3>1. Page' = Page /\ Shows' = Shows /\ (UpToDate' <=> UpToDate) /\ (Recording' <=> Recording)
      BY <1>1, <2>1 DEF Page, Blank, Shows, UpToDate, Recording
    <3> QED BY <2>1, <3>1 DEF RInv, Follows
  <2>4. Framed'
    <3>1. /\ FramesDue' <=> FramesDue
          /\ FramesPaint' <=> FramesPaint
          /\ Recording' <=> Recording
      BY <1>1, <2>1 DEF FramesDue, Due, FramesPaint, Processes, Recording
    <3> QED BY <2>1, <3>1 DEF RInv, Framed
  <2> QED BY <2>2, <2>3, <2>4
<1> QED BY <1>2, <1>3, <1>4, <1>5 DEF Unobserved, RInv

\* Nothing happens to the recorders when nothing happens.
LEMMA StutterRInv ==
  ASSUME IInv', RInv, UNCHANGED allVars
  PROVE  RInv'
<1>1. /\ UNCHANGED vars /\ UNCHANGED <<pending, frames, loaded, events, head, len, writer>>
      /\ every' = every /\ record' = record
  BY DEF allVars, asked, recorders
<1>2. /\ phase' = phase /\ round' = round /\ done' = done
      /\ queues' = queues /\ core' = core /\ job' = job /\ pos' = pos
  BY <1>1 DEF vars, machine, match, turn
<1>3. Recorded' /\ (Recording' <=> Recording)
  BY <1>1, <1>2 DEF RInv, Recorded, Recording
<1>4. Follows'
  <2>1. Page' = Page /\ Shows' = Shows /\ (UpToDate' <=> UpToDate)
    BY <1>1, <1>2 DEF Page, Blank, Shows, UpToDate
  <2> QED BY <1>2, <1>3, <2>1 DEF RInv, Follows
<1>5. Framed'
  <2>1. (FramesDue' <=> FramesDue) /\ (FramesPaint' <=> FramesPaint)
    BY <1>1, <1>2 DEF FramesDue, Due, FramesPaint, Processes
  <2> QED BY <1>2, <1>3, <2>1 DEF RInv, Framed
<1>6. Shown'
  BY <1>1, <1>2, <1>3
     DEF RInv, Shown, FramesEndWithRound, FramesPaintWriters, Ended, EndCycle, Processes
<1> QED BY <1>3, <1>4, <1>5, <1>6 DEF RInv

\* The recorders' invariant, on every core of three cells or more.
THEOREM RInvariant ==
  ASSUME ThreeCells
  PROVE  ReplaySpec => []RInv
<1>1. ReplayInit => RInv
  BY InitRInv
<1>2. RInv /\ [ReplayNext]_allVars => RInv'
  <2> SUFFICES ASSUME RInv, ReplayNext \/ UNCHANGED allVars PROVE RInv'
    OBVIOUS
  <2>1. IInv /\ IInv'
    BY ObservedNext, MachineKeeps DEF RInv
  <2>2. CASE ObservedStart
    BY <2>1, <2>2, StartRInv
  <2>3. CASE ObservedStep
    BY <2>1, <2>3, StepRInv
  <2>4. CASE ObservedEnd
    BY <2>1, <2>4, EndRInv
  <2>5. CASE Unobserved
    BY <2>1, <2>5, UnobservedRInv
  <2>6. CASE UNCHANGED allVars
    BY <2>1, <2>6, StutterRInv
  <2> QED BY <2>2, <2>3, <2>4, <2>5, <2>6 DEF ReplayNext
<1> QED BY <1>1, <1>2, PTL DEF ReplaySpec

-----------------------------------------------------------------------------
\* What the runs check, for every value of the constants.

\* A recorded round has its frames at every interval and one on the cycle it
\* ended, showing the processes left (trace.rs's after_step and last_frame).
THEOREM FramesAreDue ==
  ASSUME ThreeCells
  PROVE  ReplaySpec => []FramesEndWithRound
<1>1. RInv => FramesEndWithRound
  BY DEF RInv, Shown
<1> QED BY <1>1, RInvariant, PTL

\* A viewer that paints the frames one over the other shows every cell in the
\* colour of the warrior that wrote it last (trace.rs's pending).
THEOREM FramesPaintAll ==
  ASSUME ThreeCells
  PROVE  ReplaySpec => []FramesPaintWriters
<1>1. RInv => FramesPaintWriters
  BY DEF RInv, Shown
<1> QED BY <1>1, RInvariant, PTL

\* At every moment of a recorded round the events, replayed by a page from the
\* loaded core, give the machine's core and its queues in order, and are one
\* for each instruction (the browser's after_step and replay).
THEOREM ReplayFollows ==
  ASSUME ThreeCells
  PROVE  ReplaySpec => []ReplayIsRound
<1>1. RInv => ReplayIsRound
  <2> SUFFICES ASSUME RInv, phase = "running", Recording
               PROVE  /\ Page.sound /\ Page.core = core /\ Page.queues = queues
                      /\ Len(events) = done
    BY DEF ReplayIsRound
  <2>1. UpToDate /\ Page = Shows
    BY DEF RInv, Follows
  <2> QED BY <2>1 DEF UpToDate, Shows
<1> QED BY <1>1, RInvariant, PTL

\* What the recorders hold is about cells, warriors and processes there are,
\* and an event's counts fit the bits they have.
THEOREM RecordersTyped ==
  ASSUME ThreeCells
  PROVE  ReplaySpec => []ReplayTypeOK
<1>1. RInv => ReplayTypeOK
  <2> SUFFICES ASSUME Recorded PROVE ReplayTypeOK
    BY DEF RInv
  <2>1. DOMAIN pending \subseteq Addr
    BY DEF Recorded, Colours
  <2>2. ASSUME NEW i \in 1 .. Len(frames)
        PROVE  /\ frames[i].cycle \in 1 .. MaxCycles
               /\ frames[i].processes \in [W -> 0 .. MaxProcesses]
               /\ DOMAIN frames[i].writes \subseteq Addr
    <3>1. frames[i] \in Frames
      BY DEF Recorded
    <3>2. frames[i].writes \in Colours
      BY <3>1 DEF Frames
    <3>3. DOMAIN frames[i].writes \subseteq Addr
      BY <3>2 DEF Colours
    <3> QED BY <3>1, <3>3 DEF Frames
  <2>3. ASSUME NEW i \in 1 .. Len(events)
        PROVE  Len(events[i].pushed) <= 2 /\ Cardinality(DOMAIN events[i].cells) <= 3
    <3>1. events[i] \in Events
      BY DEF Recorded
    <3>2. events[i].cells \in Cells /\ Len(events[i].pushed) <= 2
      BY <3>1 DEF Events
    <3>3. PICK S \in {S \in SUBSET Addr : IsFiniteSet(S) /\ Cardinality(S) <= 3} :
                events[i].cells \in [S -> Instruction]
      BY <3>2 DEF Cells
    <3> QED BY <3>2, <3>3
  <2> QED BY <2>1, <2>2, <2>3 DEF ReplayTypeOK, Recorded
<1> QED BY <1>1, RInvariant, PTL
=============================================================================
