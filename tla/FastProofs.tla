----------------------------- MODULE FastProofs -----------------------------
(***************************************************************************)
(* The fast engine is the reference engine seen through the mapping of     *)
(* Fast, for every core of three cells or more, every limit and budget and *)
(* every set of matches.                                                   *)
(***************************************************************************)
EXTENDS Fast, CommonProofs

-----------------------------------------------------------------------------
\* Numbers.

\* What the assumption on the constants says, as the proofs cite it.
LEMMA Constants ==
  /\ CoreSize \in Nat /\ CoreSize >= 2 /\ CoreSize <= 65535
  /\ MaxLength \in Nat /\ MaxLength >= 1
  /\ MinDistance \in Nat /\ MinDistance >= MaxLength
  /\ CoreSize >= 2 * MinDistance
  /\ MaxProcesses \in Nat /\ MaxProcesses >= 1
  /\ MaxCycles \in Nat /\ MaxCycles >= 1
BY CoreSizeAssumption, MaxLengthAssumption, FastAssumption, SMT

\* There is a power of two above every number of processes allowed: a ring
\* always has a slot to spare.
LEMMA RingSize == Slots \in Nat /\ Slots > MaxProcesses
<1>1. PICK n \in Nat : n = MaxProcesses + 1 /\ n >= 1 /\ n <= 1073741824
  BY Constants, FastAssumption
<1>2. \E s \in PowersOfTwo : s >= n /\ s < 2 * n
  BY <1>1 DEF PowersOfTwo
<1>3. Slots \in PowersOfTwo /\ Slots >= MaxProcesses + 1
  BY <1>1, <1>2 DEF Slots
<1>4. PowersOfTwo \subseteq Nat
  BY DEF PowersOfTwo
<1> QED BY <1>3, <1>4, Constants

\* Indices into a ring, which the mask folds.
LEMMA RingIndex ==
  ASSUME NEW h \in 0 .. Slots - 1, NEW k \in 0 .. Slots
  PROVE  (h + k) % Slots = (IF h + k < Slots THEN h + k ELSE h + k - Slots)
<1>1. PICK s \in Nat : s = Slots /\ s >= 1
  BY RingSize, Constants
<1>2. PICK n \in Nat : n = h + k
  OBVIOUS
<1>3. CASE n < s
  <2>1. n % s = n
    BY <1>1, <1>3
  <2> QED BY <1>1, <1>2, <1>3, <2>1
<1>4. CASE n >= s /\ n < 2 * s
  <2>1. n % s = n - s
    BY <1>1, <1>4
  <2> QED BY <1>1, <1>2, <1>4, <2>1
<1>5. CASE n >= 2 * s
  BY <1>1, <1>2, <1>5
<1> QED BY <1>1, <1>3, <1>4, <1>5

\* Folding is the reference's addition on the ring of cells.
LEMMA RingArithmetic ==
  ASSUME NEW x \in Addr, NEW y \in Addr
  PROVE  /\ Fold(x + y) = Reference!Add(x, y) /\ Fold(x + y) \in Addr
         /\ Fold(x + 1) = Reference!Inc(x) /\ Fold(x + 1) \in Addr
         /\ Fold(x + 2) = Reference!Add(x, 2) /\ Fold(x + 2) \in Addr
         /\ Dec(x) = Reference!Dec(x) /\ Dec(x) \in Addr
         /\ Postinc(x) = Reference!Inc(x) /\ Postinc(x) \in Addr
BY Constants DEF Addr, Fold, Dec, Postinc, Reference!Add, Reference!Inc, Reference!Dec

-----------------------------------------------------------------------------
\* Encoded cells.

Opms == {n \in Nat : n \div 8 \in 0 .. 18 /\ n % 8 \in 0 .. 6}
Cell == [a: Addr, b: Addr, opm: Opms, am: 0 .. 7, bm: 0 .. 7]
Core == [Addr -> Cell]
Numbered == [a: Addr, b: Addr]

\* Each byte is a number of its table.
LEMMA ModeDecoded ==
  ASSUME NEW m \in 0 .. 7
  PROVE  /\ ModeTable[m + 1] = "Immediate" <=> m = Enc.Immediate
         /\ ModeTable[m + 1] = "Direct" <=> m = Enc.Direct
         /\ ModeTable[m + 1] = "AIndirect" <=> m = Enc.AIndirect
         /\ ModeTable[m + 1] = "BIndirect" <=> m = Enc.BIndirect
         /\ ModeTable[m + 1] = "APredec" <=> m = Enc.APredec
         /\ ModeTable[m + 1] = "BPredec" <=> m = Enc.BPredec
         /\ ModeTable[m + 1] = "APostinc" <=> m = Enc.APostinc
         /\ ModeTable[m + 1] = "BPostinc" <=> m = Enc.BPostinc
<1>1. \/ m = 0 \/ m = 1 \/ m = 2 \/ m = 3 \/ m = 4 \/ m = 5 \/ m = 6 \/ m = 7
  OBVIOUS
<1> QED BY <1>1 DEF ModeTable, Enc

\* A core with a number of one cell replaced.
WithA(c, p, v) == [c EXCEPT ![p].a = v]
WithB(c, p, v) == [c EXCEPT ![p].b = v]

\* A cell whose number is replaced decodes to the instruction with it replaced.
LEMMA DecodedUpdate ==
  ASSUME NEW c \in Core, NEW p \in Addr, NEW v \in Addr
  PROVE  /\ WithA(c, p, v) \in Core /\ Decoded(WithA(c, p, v)) = WithA(Decoded(c), p, v)
         /\ WithB(c, p, v) \in Core /\ Decoded(WithB(c, p, v)) = WithB(Decoded(c), p, v)
<1>1. c[p] \in Cell
  BY DEF Core
<1>2. [c[p] EXCEPT !.a = v] \in Cell /\ [c[p] EXCEPT !.b = v] \in Cell
  BY <1>1 DEF Cell
<1>3. WithA(c, p, v) \in Core /\ WithB(c, p, v) \in Core
  BY <1>2 DEF Core, WithA, WithB
<1>4. /\ Decode([c[p] EXCEPT !.a = v]) = [Decode(c[p]) EXCEPT !.a = v]
      /\ Decode([c[p] EXCEPT !.b = v]) = [Decode(c[p]) EXCEPT !.b = v]
  BY <1>1 DEF Decode, Cell
<1> HIDE DEF Decode
<1>6. Decoded(WithA(c, p, v)) = WithA(Decoded(c), p, v)
  BY <1>4 DEF Decoded, Core, WithA
<1>7. Decoded(WithB(c, p, v)) = WithB(Decoded(c), p, v)
  BY <1>4 DEF Decoded, Core, WithB
<1> QED BY <1>3, <1>6, <1>7

\* The numbers of a cell are not encoded.
LEMMA DecodedNumbers ==
  ASSUME NEW c \in Core, NEW p \in Addr
  PROVE  /\ Decoded(c)[p].a = c[p].a /\ Decoded(c)[p].b = c[p].b
         /\ c[p].a \in Addr /\ c[p].b \in Addr
BY DEF Decoded, Decode, Core, Cell

\* Predecrement is the reference's.
LEMMA PredecrementDecoded ==
  ASSUME NEW c \in Core, NEW p \in Addr, NEW m \in 0 .. 7
  PROVE  /\ Predecrement(c, p, m) \in Core
         /\ Decoded(Predecrement(c, p, m)) = Reference!Predecrement(Decoded(c), p, ModeTable[m + 1])
<1> DEFINE d == ModeTable[m + 1]
           C == Decoded(c)
<1>1. /\ C[p].a = c[p].a /\ C[p].b = c[p].b /\ c[p].a \in Addr /\ c[p].b \in Addr
  BY DecodedNumbers
<1>2. PICK x \in Addr, y \in Addr :
        /\ x = Dec(c[p].a) /\ x = Reference!Dec(c[p].a)
        /\ y = Dec(c[p].b) /\ y = Reference!Dec(c[p].b)
  BY <1>1, RingArithmetic
<1>3. Predecrement(c, p, m) = CASE m = Enc.APredec -> WithA(c, p, x)
                                [] m = Enc.BPredec -> WithB(c, p, y)
                                [] OTHER           -> c
  BY <1>2 DEF Predecrement, WithA, WithB
<1>4. Reference!Predecrement(C, p, d) = CASE d = "APredec" -> WithA(C, p, x)
                                          [] d = "BPredec" -> WithB(C, p, y)
                                          [] OTHER         -> C
  BY <1>1, <1>2 DEF Reference!Predecrement, WithA, WithB
<1>5. /\ d = "APredec" <=> m = Enc.APredec
      /\ d = "BPredec" <=> m = Enc.BPredec
      /\ Enc.APredec # Enc.BPredec
  BY ModeDecoded DEF Enc
<1>6. /\ WithA(c, p, x) \in Core /\ Decoded(WithA(c, p, x)) = WithA(C, p, x)
      /\ WithB(c, p, y) \in Core /\ Decoded(WithB(c, p, y)) = WithB(C, p, y)
  BY DecodedUpdate
<1> HIDE DEF d, C
<1> QED BY <1>3, <1>4, <1>5, <1>6 DEF C, d

\* And so is postincrement.
LEMMA PostincrementDecoded ==
  ASSUME NEW c \in Core, NEW p \in Addr, NEW m \in 0 .. 7
  PROVE  /\ Postincrement(c, p, m) \in Core
         /\ Decoded(Postincrement(c, p, m)) = Reference!Postincrement(Decoded(c), p, ModeTable[m + 1])
<1> DEFINE d == ModeTable[m + 1]
           C == Decoded(c)
<1>1. /\ C[p].a = c[p].a /\ C[p].b = c[p].b /\ c[p].a \in Addr /\ c[p].b \in Addr
  BY DecodedNumbers
<1>2. PICK x \in Addr, y \in Addr :
        /\ x = Postinc(c[p].a) /\ x = Reference!Inc(c[p].a)
        /\ y = Postinc(c[p].b) /\ y = Reference!Inc(c[p].b)
  BY <1>1, RingArithmetic
<1>3. Postincrement(c, p, m) = CASE m = Enc.APostinc -> WithA(c, p, x)
                               [] m = Enc.BPostinc -> WithB(c, p, y)
                               [] OTHER            -> c
  BY <1>2 DEF Postincrement, WithA, WithB
<1>4. Reference!Postincrement(C, p, d) = CASE d = "APostinc" -> WithA(C, p, x)
                                           [] d = "BPostinc" -> WithB(C, p, y)
                                           [] OTHER          -> C
  BY <1>1, <1>2 DEF Reference!Postincrement, WithA, WithB
<1>5. /\ d = "APostinc" <=> m = Enc.APostinc
      /\ d = "BPostinc" <=> m = Enc.BPostinc
      /\ Enc.APostinc # Enc.BPostinc
  BY ModeDecoded DEF Enc
<1>6. /\ WithA(c, p, x) \in Core /\ Decoded(WithA(c, p, x)) = WithA(C, p, x)
      /\ WithB(c, p, y) \in Core /\ Decoded(WithB(c, p, y)) = WithB(C, p, y)
  BY DecodedUpdate
<1> HIDE DEF d, C
<1> QED BY <1>3, <1>4, <1>5, <1>6 DEF C, d

\* What an operand is, as Fast has it.
IsOperand(A) == /\ A.ptr \in Addr /\ A.at \in Addr
                /\ A.num \in Numbered /\ A.core \in Core

\* An operand of the reference that is the same.
SameOperand(A, R) == /\ R.ptr = A.ptr /\ R.at = A.at /\ R.core = Decoded(A.core)
                     /\ R.cell.a = A.num.a /\ R.cell.b = A.num.b
                     /\ \E c \in Cell : R.cell = Decode(c)

\* The address an operand goes through, or is.
LEMMA ThroughDecoded ==
  ASSUME NEW c \in Core, NEW pc \in Addr, NEW p \in Addr, NEW m \in 0 .. 7, NEW ptr \in Addr
  PROVE  /\ IsOperand(Through(c, pc, p, m, ptr))
         /\ SameOperand(Through(c, pc, p, m, ptr),
                        Reference!Pointed(Decoded(c), pc, p, ModeTable[m + 1], ptr))
<1> DEFINE A == Through(c, pc, p, m, ptr)
           R == Reference!Pointed(Decoded(c), pc, p, ModeTable[m + 1], ptr)
<1>1. PICK at \in Addr : at = Fold(pc + ptr) /\ at = Reference!Add(pc, ptr)
  BY RingArithmetic
<1>2. /\ A.ptr = ptr /\ A.at = at /\ A.num = NumbersOf(c[at])
      /\ A.core = Postincrement(c, p, m)
  BY <1>1 DEF Through
<1>3. /\ R.ptr = ptr /\ R.at = at /\ R.cell = Decoded(c)[at]
      /\ R.core = Reference!Postincrement(Decoded(c), p, ModeTable[m + 1])
  BY <1>1 DEF Reference!Pointed
<1>4. /\ A.num.a = c[at].a /\ A.num.b = c[at].b /\ A.num \in Numbered
  BY <1>2, DecodedNumbers DEF NumbersOf, Numbered
<1>5. R.cell.a = c[at].a /\ R.cell.b = c[at].b
  BY <1>3, DecodedNumbers
<1>6. A.core \in Core /\ R.core = Decoded(A.core)
  BY <1>2, <1>3, PostincrementDecoded
<1>7. Decoded(c)[at] = Decode(c[at]) /\ c[at] \in Cell
  BY DEF Decoded, Core
<1> HIDE DEF A, R
<1>8. IsOperand(A) /\ SameOperand(A, R)
  BY <1>2, <1>3, <1>4, <1>5, <1>6, <1>7 DEF IsOperand, SameOperand
<1> QED BY <1>8 DEF A, R

\* What an operand points to is the same in both engines, and so is the core
\* its evaluation leaves.
LEMMA OperandDecoded ==
  ASSUME NEW c \in Core, NEW pc \in Addr, NEW ir \in Cell, NEW m \in 0 .. 7, NEW field \in Addr
  PROVE  /\ IsOperand(Operand(c, pc, ir, m, field))
         /\ SameOperand(Operand(c, pc, ir, m, field),
                        Reference!Operand(Decoded(c), pc, Decode(ir), ModeTable[m + 1], field))
<1> DEFINE d == ModeTable[m + 1]
           A == Operand(c, pc, ir, m, field)
           R == Reference!Operand(Decoded(c), pc, Decode(ir), d, field)
<1>1. CASE m = Enc.Immediate
  <2>1. d = "Immediate"
    BY <1>1, ModeDecoded
  <2>2. A = [ptr |-> 0, at |-> pc, num |-> NumbersOf(ir), core |-> c]
    BY <1>1 DEF Operand, Enc
  <2>3. R = [ptr |-> 0, at |-> pc, cell |-> Decode(ir), core |-> Decoded(c), wrote |-> {}]
    BY <2>1 DEF Reference!Operand
  <2>4. /\ NumbersOf(ir).a = ir.a /\ NumbersOf(ir).b = ir.b /\ NumbersOf(ir) \in Numbered
        /\ Decode(ir).a = ir.a /\ Decode(ir).b = ir.b /\ 0 \in Addr
    BY Constants DEF NumbersOf, Numbered, Cell, Decode, Addr
  <2> HIDE DEF A, R
  <2>5. IsOperand(A) /\ SameOperand(A, R)
    BY <2>2, <2>3, <2>4 DEF IsOperand, SameOperand
  <2> QED BY <2>5 DEF A, R, d
<1>2. CASE m # Enc.Immediate
  <2>1. PICK p \in Addr : p = Fold(pc + field) /\ p = Reference!Add(pc, field)
    BY RingArithmetic
  <2> DEFINE pre == Predecrement(c, p, m)
  <2>2. /\ pre \in Core
        /\ Decoded(pre) = Reference!Predecrement(Decoded(c), p, d)
    BY PredecrementDecoded
  <2>3. d # "Immediate" /\ (d = "Direct" <=> m = Enc.Direct)
    BY <1>2, ModeDecoded
  <2>4. R = Reference!Through(Decoded(pre), pc, p, d, field)
    BY <2>1, <2>2, <2>3 DEF Reference!Operand
  <2>5. CASE m = Enc.Direct
    <3>1. pre = c
      BY <2>5 DEF Predecrement, Enc
    <3>2. A = Through(c, pc, p, m, field)
      BY <2>1, <2>5 DEF Operand, Enc
    <3>3. R = Reference!Pointed(Decoded(c), pc, p, d, field)
      BY <2>3, <2>4, <2>5, <3>1 DEF Reference!Through
    <3> HIDE DEF d
    <3> QED BY <3>2, <3>3, ThroughDecoded DEF d
  <2>6. CASE m # Enc.Direct
    <3>1. /\ pre[p].a \in Addr /\ pre[p].b \in Addr
          /\ Decoded(pre)[p].a = pre[p].a /\ Decoded(pre)[p].b = pre[p].b
      BY <2>2, DecodedNumbers
    <3>2. Reference!ViaA(d) <=> m \in {Enc.APredec, Enc.AIndirect, Enc.APostinc}
      BY ModeDecoded DEF Reference!ViaA
    <3> HIDE DEF pre, d
    <3>3. PICK num \in Addr :
            /\ num = IF m \in {Enc.APredec, Enc.AIndirect, Enc.APostinc}
                     THEN pre[p].a ELSE pre[p].b
            /\ num = IF Reference!ViaA(d) THEN Decoded(pre)[p].a ELSE Decoded(pre)[p].b
      BY <3>1, <3>2
    <3>4. PICK ptr \in Addr : ptr = Fold(field + num) /\ ptr = Reference!Add(field, num)
      BY RingArithmetic
    <3>5. A = Through(pre, pc, p, m, ptr)
      BY <1>2, <2>1, <2>6, <3>3, <3>4 DEF Operand, Indirect, Pointer, pre
    <3>6. R = Reference!Pointed(Decoded(pre), pc, p, d, ptr)
      BY <2>3, <2>4, <2>6, <3>3, <3>4 DEF Reference!Through
    <3> QED BY <2>2, <3>5, <3>6, ThroughDecoded DEF d
  <2> QED BY <2>5, <2>6
<1> QED BY <1>1, <1>2

-----------------------------------------------------------------------------
\* Ring buffers.

Buffer == [0 .. Slots - 1 -> Addr]
Ring == [buf: Buffer, head: 0 .. Slots - 1, len: 0 .. Slots]

\* The live window of a ring is a sequence of its length.
LEMMA LiveSeq ==
  ASSUME NEW q \in Ring
  PROVE  /\ Live(q) \in Seq(Addr) /\ Len(Live(q)) = q.len
         /\ \A k \in 1 .. q.len : Live(q)[k] = q.buf[(q.head + k - 1) % Slots]
<1>1. PICK n \in 0 .. Slots : n = q.len
  BY DEF Ring
<1>2. PICK h \in 0 .. Slots - 1 : h = q.head
  BY DEF Ring
<1>3. q.buf \in Buffer
  BY DEF Ring
<1>4. ASSUME NEW k \in 1 .. n PROVE q.buf[(h + k - 1) % Slots] \in Addr
  <2>1. k - 1 \in 0 .. Slots /\ h + (k - 1) = h + k - 1
    BY RingSize
  <2>2. (h + k - 1) % Slots \in 0 .. Slots - 1
    BY <2>1, RingIndex, RingSize
  <2> QED BY <1>3, <2>2 DEF Buffer
<1>5. Live(q) = [k \in 1 .. n |-> q.buf[(h + k - 1) % Slots]]
  BY <1>1, <1>2 DEF Live
<1>6. n \in Nat
  BY RingSize
<1> QED BY <1>1, <1>2, <1>4, <1>5, <1>6

\* Taking the head leaves the rest, in order.
LEMMA LivePop ==
  ASSUME NEW q \in Ring, q.len > 0
  PROVE  /\ Pop(q) \in Ring /\ Pop(q).len = q.len - 1
         /\ Live(q) # << >> /\ Head(Live(q)) = q.buf[q.head]
         /\ Live(Pop(q)) = Tail(Live(q))
<1>1. PICK n \in 0 .. Slots : n = q.len
  BY DEF Ring
<1>2. PICK h \in 0 .. Slots - 1 : h = q.head
  BY DEF Ring
<1>3. PICK s \in Nat : s = Slots /\ s >= 1
  BY RingSize, Constants
<1> DEFINE g == IF h + 1 < s THEN h + 1 ELSE 0
           r == Pop(q)
<1>4. (h + 1) % Slots = g /\ g \in 0 .. Slots - 1
  <2>1. 1 \in 0 .. Slots
    BY <1>3
  <2>2. (h + 1) % Slots = IF h + 1 < Slots THEN h + 1 ELSE h + 1 - Slots
    BY <2>1, RingIndex
  <2> QED BY <1>3, <2>2
<1>5. r.buf = q.buf /\ r.head = g /\ r.len = n - 1 /\ r \in Ring
  <2>1. n - 1 \in 0 .. Slots
    BY <1>1, <1>3
  <2>2. r = [q EXCEPT !.head = g, !.len = n - 1]
    BY <1>1, <1>2, <1>4 DEF Pop, Ring
  <2> HIDE DEF g
  <2> QED BY <1>4, <2>1, <2>2 DEF Ring
<1>6. /\ Live(q) \in Seq(Addr) /\ Len(Live(q)) = n
      /\ Live(r) \in Seq(Addr) /\ Len(Live(r)) = n - 1
  BY <1>1, <1>5, LiveSeq
<1>7. \A k \in 1 .. n : Live(q)[k] = q.buf[(h + k - 1) % Slots]
  BY <1>1, <1>2, LiveSeq
<1>8. \A k \in 1 .. n - 1 : Live(r)[k] = q.buf[(g + k - 1) % Slots]
  BY <1>5, LiveSeq
<1>9. Head(Live(q)) = q.buf[q.head] /\ Live(q) # << >>
  <2>1. (h + 1 - 1) % Slots = h
    <3>1. 0 \in 0 .. Slots /\ h + 1 - 1 = h + 0 /\ h + 0 = h /\ h < Slots
      BY <1>3
    <3>2. (h + 0) % Slots = IF h + 0 < Slots THEN h + 0 ELSE h + 0 - Slots
      BY <3>1, RingIndex
    <3> QED BY <3>1, <3>2
  <2>2. 1 \in 1 .. n
    BY <1>1
  <2>3. Live(q)[1] = q.buf[h]
    BY <1>7, <2>1, <2>2
  <2> QED BY <1>2, <1>6, <2>2, <2>3
<1>10. ASSUME NEW k \in 1 .. n - 1 PROVE Live(r)[k] = Tail(Live(q))[k]
  <2>1. k - 1 \in 0 .. Slots /\ k \in 0 .. Slots /\ k + 1 \in 1 .. n
    BY <1>3
  <2>2. (g + (k - 1)) % Slots = IF g + (k - 1) < Slots THEN g + (k - 1) ELSE g + (k - 1) - Slots
    BY <1>4, <2>1, RingIndex
  <2>3. (h + k) % Slots = IF h + k < Slots THEN h + k ELSE h + k - Slots
    BY <2>1, RingIndex
  <2>4. (g + (k - 1)) % Slots = (h + k) % Slots
    BY <1>3, <2>2, <2>3
  <2>5. g + k - 1 = g + (k - 1) /\ h + (k + 1) - 1 = h + k
    BY <1>3, <1>4
  <2>6. Live(r)[k] = Live(q)[k + 1]
    BY <1>7, <1>8, <2>1, <2>4, <2>5
  <2> QED BY <1>6, <2>1, <2>6
<1>11. Live(r) = Tail(Live(q))
  <2>1. Tail(Live(q)) \in Seq(Addr) /\ Len(Tail(Live(q))) = n - 1
    BY <1>6, <1>9
  <2> HIDE DEF r
  <2> QED BY <1>6, <1>10, <2>1
<1> QED BY <1>1, <1>5, <1>9, <1>11

\* Adding at the end of the window appends.
LEMMA LivePush ==
  ASSUME NEW q \in Ring, q.len < Slots, NEW v \in Addr
  PROVE  /\ Push(q, v) \in Ring /\ Push(q, v).len = q.len + 1
         /\ Live(Push(q, v)) = Append(Live(q), v)
<1>1. PICK n \in 0 .. Slots - 1 : n = q.len
  BY RingSize DEF Ring
<1>2. PICK h \in 0 .. Slots - 1 : h = q.head
  BY DEF Ring
<1>3. PICK s \in Nat : s = Slots /\ s >= 1
  BY RingSize, Constants
<1> DEFINE e == (h + n) % Slots
           r == Push(q, v)
<1>4. e = (IF h + n < s THEN h + n ELSE h + n - s) /\ e \in 0 .. Slots - 1
  BY <1>3, RingIndex
<1>5. /\ r.buf = [q.buf EXCEPT ![e] = v] /\ r.head = h /\ r.len = n + 1
      /\ q.buf \in Buffer
  BY <1>1, <1>2 DEF Push, Ring
<1>6. r \in Ring
  <2>1. [q.buf EXCEPT ![e] = v] \in Buffer /\ n + 1 \in 0 .. Slots
    BY <1>3, <1>5 DEF Buffer
  <2> QED BY <1>1, <1>2, <2>1 DEF Push, Ring
<1>7. /\ Live(q) \in Seq(Addr) /\ Len(Live(q)) = n
      /\ Live(r) \in Seq(Addr) /\ Len(Live(r)) = n + 1
  BY <1>1, <1>5, <1>6, LiveSeq
<1>8. \A k \in 1 .. n : Live(q)[k] = q.buf[(h + k - 1) % Slots]
  BY <1>1, <1>2, LiveSeq
<1>9. \A k \in 1 .. n + 1 : Live(r)[k] = r.buf[(h + k - 1) % Slots]
  BY <1>5, <1>6, LiveSeq
<1> HIDE DEF r
<1>10. ASSUME NEW k \in 1 .. n PROVE Live(r)[k] = Live(q)[k]
  <2>1. k - 1 \in 0 .. Slots /\ h + k - 1 = h + (k - 1)
    BY <1>3
  <2>2. (h + k - 1) % Slots = IF h + (k - 1) < s THEN h + (k - 1) ELSE h + (k - 1) - s
    BY <1>3, <2>1, RingIndex
  <2>3. (h + k - 1) % Slots # e /\ (h + k - 1) % Slots \in 0 .. Slots - 1
    BY <1>3, <1>4, <2>2
  <2>4. r.buf[(h + k - 1) % Slots] = q.buf[(h + k - 1) % Slots]
    BY <1>5, <2>3 DEF Buffer
  <2> QED BY <1>8, <1>9, <2>4
<1>11. Live(r)[n + 1] = v
  <2>1. h + (n + 1) - 1 = h + n /\ n + 1 \in 1 .. n + 1
    BY <1>3
  <2>2. r.buf[e] = v
    BY <1>4, <1>5 DEF Buffer
  <2> QED BY <1>9, <2>1, <2>2
<1>12. Live(r) = Append(Live(q), v)
  BY <1>3, <1>7, <1>10, <1>11
<1> QED BY <1>1, <1>5, <1>6, <1>12 DEF r

-----------------------------------------------------------------------------
\* The tables.

LEMMA OpDecoded ==
  ASSUME NEW n \in 0 .. 18
  PROVE  /\ OpTable[n + 1] \in Opcodes
         /\ OpTable[n + 1] = "DAT" <=> n = O.DAT
         /\ OpTable[n + 1] = "MOV" <=> n = O.MOV
         /\ OpTable[n + 1] = "ADD" <=> n = O.ADD
         /\ OpTable[n + 1] = "SUB" <=> n = O.SUB
         /\ OpTable[n + 1] = "MUL" <=> n = O.MUL
         /\ OpTable[n + 1] = "DIV" <=> n = O.DIV
         /\ OpTable[n + 1] = "MOD" <=> n = O.MOD
         /\ OpTable[n + 1] = "JMP" <=> n = O.JMP
         /\ OpTable[n + 1] = "JMZ" <=> n = O.JMZ
         /\ OpTable[n + 1] = "JMN" <=> n = O.JMN
         /\ OpTable[n + 1] = "DJN" <=> n = O.DJN
         /\ OpTable[n + 1] = "SPL" <=> n = O.SPL
         /\ OpTable[n + 1] = "SLT" <=> n = O.SLT
         /\ OpTable[n + 1] = "CMP" <=> n = O.CMP
         /\ OpTable[n + 1] = "SEQ" <=> n = O.SEQ
         /\ OpTable[n + 1] = "SNE" <=> n = O.SNE
         /\ OpTable[n + 1] = "NOP" <=> n = O.NOP
         /\ OpTable[n + 1] = "LDP" <=> n = O.LDP
         /\ OpTable[n + 1] = "STP" <=> n = O.STP
<1>1. \/ n = 0 \/ n = 1 \/ n = 2 \/ n = 3 \/ n = 4 \/ n = 5 \/ n = 6 \/ n = 7 \/ n = 8
      \/ n = 9 \/ n = 10 \/ n = 11 \/ n = 12 \/ n = 13 \/ n = 14 \/ n = 15 \/ n = 16
      \/ n = 17 \/ n = 18
  OBVIOUS
<1> QED BY <1>1 DEF OpTable, O, Opcodes

LEMMA ModifierDecoded ==
  ASSUME NEW m \in 0 .. 6
  PROVE  /\ ModTable[m + 1] \in Modifiers
         /\ ModTable[m + 1] = "A" <=> m = M.A
         /\ ModTable[m + 1] = "B" <=> m = M.B
         /\ ModTable[m + 1] = "AB" <=> m = M.AB
         /\ ModTable[m + 1] = "BA" <=> m = M.BA
         /\ ModTable[m + 1] = "F" <=> m = M.F
         /\ ModTable[m + 1] = "X" <=> m = M.X
         /\ ModTable[m + 1] = "I" <=> m = M.I
<1>1. \/ m = 0 \/ m = 1 \/ m = 2 \/ m = 3 \/ m = 4 \/ m = 5 \/ m = 6
  OBVIOUS
<1> QED BY <1>1 DEF ModTable, M, Modifiers

\* The numbers of the tables name their entries.
LEMMA Tabled ==
  /\ \A op \in Opcodes : O[op] \in 0 .. 18 /\ OpTable[O[op] + 1] = op
  /\ \A m \in Modifiers : M[m] \in 0 .. 6 /\ ModTable[M[m] + 1] = m
  /\ \A d \in Modes : Enc[d] \in 0 .. 7 /\ ModeTable[Enc[d] + 1] = d
<1>1. \A op \in Opcodes : O[op] \in 0 .. 18 /\ OpTable[O[op] + 1] = op
  BY DEF Opcodes, O, OpTable
<1>2. \A m \in Modifiers : M[m] \in 0 .. 6 /\ ModTable[M[m] + 1] = m
  BY DEF Modifiers, M, ModTable
<1>3. \A d \in Modes : Enc[d] \in 0 .. 7 /\ ModeTable[Enc[d] + 1] = d
  BY DEF Modes, Enc, ModeTable
<1> QED BY <1>1, <1>2, <1>3

\* An instruction survives its encoding.
LEMMA EncodeDecode ==
  ASSUME NEW i \in Instruction
  PROVE  Encode(i) \in Cell /\ Decode(Encode(i)) = i
<1>1. PICK n \in 0 .. 18 : n = O[i.op] /\ OpTable[n + 1] = i.op
  BY Tabled DEF Instruction
<1>2. PICK m \in 0 .. 6 : m = M[i.mod] /\ ModTable[m + 1] = i.mod
  BY Tabled DEF Instruction
<1>3. PICK d \in 0 .. 7 : d = Enc[i.am] /\ ModeTable[d + 1] = i.am
  BY Tabled DEF Instruction
<1>4. PICK e \in 0 .. 7 : e = Enc[i.bm] /\ ModeTable[e + 1] = i.bm
  BY Tabled DEF Instruction
<1>5. (n * 8 + m) \div 8 = n /\ (n * 8 + m) % 8 = m /\ n * 8 + m \in Nat
  OBVIOUS
<1>6. Encode(i) = [a |-> i.a, b |-> i.b, opm |-> n * 8 + m, am |-> d, bm |-> e]
  BY <1>1, <1>2, <1>3, <1>4 DEF Encode
<1>7. i.a \in Addr /\ i.b \in Addr
  BY DEF Instruction
<1>8. Encode(i) \in Cell
  BY <1>5, <1>6, <1>7 DEF Cell, Opms
<1>9. Decode(Encode(i)) = [op |-> i.op, mod |-> i.mod, am |-> i.am, a |-> i.a,
                           bm |-> i.bm, b |-> i.b]
  <2> DEFINE c == Encode(i)
  <2>1. c.opm \div 8 = n /\ c.opm % 8 = m
    BY <1>5, <1>6
  <2>2. c.a = i.a /\ c.b = i.b /\ c.am = d /\ c.bm = e
    BY <1>6
  <2>3. Decode(c) = [op |-> OpTable[n + 1], mod |-> ModTable[m + 1], am |-> ModeTable[d + 1],
                     a |-> i.a, bm |-> ModeTable[e + 1], b |-> i.b]
    BY <2>1, <2>2 DEF Decode
  <2> HIDE DEF c
  <2> QED BY <1>1, <1>2, <1>3, <1>4, <2>3 DEF c
<1> QED BY <1>8, <1>9 DEF Instruction

\* A cleared cell is DAT.F $0, $0.
LEMMA ZeroesDecoded == Zeroes \in Cell /\ Decode(Zeroes) = EMPTY
<1>1. Zeroes \in Cell
  BY Constants DEF Zeroes, Cell, Opms, Addr
<1>2. 0 \div 8 = 0 /\ 0 % 8 = 0
  OBVIOUS
<1>3. Decode(Zeroes) = EMPTY
  BY <1>2 DEF Zeroes, Decode, EMPTY, OpTable, ModTable, ModeTable
<1> QED BY <1>1, <1>3

-----------------------------------------------------------------------------
\* Modifiers.

\* The source half that goes with each half of the target.
HalfA(d) == IF d \in {"BA", "X"} THEN "b" ELSE "a"
HalfB(d) == IF d \in {"AB", "X"} THEN "a" ELSE "b"

\* At most one pair for each half of the target.
PairSet(setA, s, setB, t) == {p \in {<<"a", s>>, <<"b", t>>} : (p[1] = "a" /\ setA) \/ (p[1] = "b" /\ setB)}

\* The pairs an arm handles are the halves the modifier of the reference
\* selects, each with its source.
LEMMA PairsDecoded ==
  ASSUME NEW m \in 0 .. 6
  PROVE  LET d == ModTable[m + 1]
         IN Pairs(m) = PairSet(Reference!OnA(d), HalfA(d), Reference!OnB(d), HalfB(d))
<1>1. \/ m = 0 \/ m = 1 \/ m = 2 \/ m = 3 \/ m = 4 \/ m = 5 \/ m = 6
  OBVIOUS
<1>2. CASE m = 0
  BY <1>2 DEF Pairs, M, ModTable, PairSet, HalfA, HalfB, Reference!OnA, Reference!OnB
<1>3. CASE m = 1
  BY <1>3 DEF Pairs, M, ModTable, PairSet, HalfA, HalfB, Reference!OnA, Reference!OnB
<1>4. CASE m = 2
  BY <1>4 DEF Pairs, M, ModTable, PairSet, HalfA, HalfB, Reference!OnA, Reference!OnB
<1>5. CASE m = 3
  BY <1>5 DEF Pairs, M, ModTable, PairSet, HalfA, HalfB, Reference!OnA, Reference!OnB
<1>6. CASE m = 4
  BY <1>6 DEF Pairs, M, ModTable, PairSet, HalfA, HalfB, Reference!OnA, Reference!OnB
<1>7. CASE m = 5
  BY <1>7 DEF Pairs, M, ModTable, PairSet, HalfA, HalfB, Reference!OnA, Reference!OnB
<1>8. CASE m = 6
  BY <1>8 DEF Pairs, M, ModTable, PairSet, HalfA, HalfB, Reference!OnA, Reference!OnB
<1> QED BY <1>1, <1>2, <1>3, <1>4, <1>5, <1>6, <1>7, <1>8

\* The numbers the reference reads through a modifier.
LEMMA SourceHalves ==
  ASSUME NEW d, NEW x \in Numbered, NEW i, i.a = x.a, i.b = x.b
  PROVE  /\ Reference!ForA(d, i) = x[HalfA(d)] /\ x[HalfA(d)] \in Addr
         /\ Reference!ForB(d, i) = x[HalfB(d)] /\ x[HalfB(d)] \in Addr
BY DEF Numbered, HalfA, HalfB, Reference!ForA, Reference!ForB

\* A cell with some of its numbers replaced decodes to the instruction with
\* them replaced.
LEMMA SetPairsDecoded ==
  ASSUME NEW c \in Cell, NEW setA \in BOOLEAN, NEW setB \in BOOLEAN,
         NEW x \in Addr, NEW y \in Addr, NEW s, NEW t, NEW v,
         DOMAIN v = PairSet(setA, s, setB, t),
         setA => v[<<"a", s>>] = x, setB => v[<<"b", t>>] = y
  PROVE  /\ SetPairs(c, v) \in Cell
         /\ Decode(SetPairs(c, v)) = Reference!SetHalves(Decode(c), setA, x, setB, y)
<1> DEFINE a == IF setA THEN x ELSE c.a
           b == IF setB THEN y ELSE c.b
           z == SetPairs(c, v)
<1>1. \A p : p \in DOMAIN v <=> (p = <<"a", s>> /\ setA) \/ (p = <<"b", t>> /\ setB)
  BY DEF PairSet
<1>2. /\ (\E p \in DOMAIN v : p[1] = "a") <=> setA
      /\ (\E p \in DOMAIN v : p[1] = "b") <=> setB
      /\ \A h \in {"opm", "am", "bm"} : ~ \E p \in DOMAIN v : p[1] = h
  BY <1>1
<1>3. /\ setA => (CHOOSE p \in DOMAIN v : p[1] = "a") = <<"a", s>>
      /\ setB => (CHOOSE p \in DOMAIN v : p[1] = "b") = <<"b", t>>
  BY <1>1
<1>4. DOMAIN c = {"a", "b", "opm", "am", "bm"}
  BY DEF Cell
<1>5. z = [h \in {"a", "b", "opm", "am", "bm"} |->
             IF h = "a" THEN a ELSE IF h = "b" THEN b ELSE c[h]]
  <2>1. \A h \in DOMAIN c : (IF \E p \in DOMAIN v : p[1] = h
                             THEN v[CHOOSE p \in DOMAIN v : p[1] = h] ELSE c[h])
                          = IF h = "a" THEN a ELSE IF h = "b" THEN b ELSE c[h]
    BY <1>2, <1>3, <1>4
  <2> QED BY <1>4, <2>1 DEF SetPairs
<1>6. z = [a |-> a, b |-> b, opm |-> c.opm, am |-> c.am, bm |-> c.bm]
  BY <1>5
<1>7. a \in Addr /\ b \in Addr
  BY DEF Cell
<1> HIDE DEF a, b, z
<1>8. z \in Cell
  BY <1>6, <1>7 DEF Cell
<1>9. Decode(z) = [Decode(c) EXCEPT !.a = a, !.b = b]
  <2>1. z.a = a /\ z.b = b /\ z.opm = c.opm /\ z.am = c.am /\ z.bm = c.bm
    BY <1>6
  <2>2. /\ OpTable[(z.opm \div 8) + 1] = OpTable[(c.opm \div 8) + 1]
        /\ ModTable[(z.opm % 8) + 1] = ModTable[(c.opm % 8) + 1]
        /\ ModeTable[z.am + 1] = ModeTable[c.am + 1]
        /\ ModeTable[z.bm + 1] = ModeTable[c.bm + 1]
    BY <2>1
  <2>3. Decode(z) = [op |-> OpTable[(c.opm \div 8) + 1], mod |-> ModTable[(c.opm % 8) + 1],
                     am |-> ModeTable[c.am + 1], a |-> a, bm |-> ModeTable[c.bm + 1], b |-> b]
    BY <2>1, <2>2 DEF Decode
  <2> DEFINE d == [Decode(c) EXCEPT !.a = a]
  <2>4. d = [op |-> OpTable[(c.opm \div 8) + 1], mod |-> ModTable[(c.opm % 8) + 1],
             am |-> ModeTable[c.am + 1], a |-> a, bm |-> ModeTable[c.bm + 1], b |-> c.b]
    BY DEF Decode
  <2>5. [Decode(c) EXCEPT !.a = a, !.b = b] = [d EXCEPT !.b = b]
    OBVIOUS
  <2> HIDE DEF d
  <2> QED BY <2>3, <2>4, <2>5
<1>10. Reference!SetHalves(Decode(c), setA, x, setB, y) = [Decode(c) EXCEPT !.a = a, !.b = b]
  BY DEF Reference!SetHalves, Decode, a, b
<1> QED BY <1>8, <1>9, <1>10 DEF z

\* One number of a cell replaced, and both.
WithBoth(c, x, y) == [c EXCEPT !.a = x, !.b = y]

LEMMA NumberReplaced ==
  ASSUME NEW c \in Cell, NEW x \in Addr
  PROVE  /\ [c EXCEPT !.a = x] \in Cell /\ Decode([c EXCEPT !.a = x]) = [Decode(c) EXCEPT !.a = x]
         /\ [c EXCEPT !.b = x] \in Cell /\ Decode([c EXCEPT !.b = x]) = [Decode(c) EXCEPT !.b = x]
BY DEF Cell, Decode

LEMMA NumbersReplaced ==
  ASSUME NEW c \in Cell, NEW x \in Addr, NEW y \in Addr
  PROVE  WithBoth(c, x, y) \in Cell /\ Decode(WithBoth(c, x, y)) = WithBoth(Decode(c), x, y)
<1> DEFINE z == [c EXCEPT !.a = x]
<1>1. z \in Cell /\ Decode(z) = [Decode(c) EXCEPT !.a = x]
  BY NumberReplaced
<1>2. WithBoth(c, x, y) = [z EXCEPT !.b = y]
  BY DEF Cell, WithBoth
<1>3. WithBoth(Decode(c), x, y) = [[Decode(c) EXCEPT !.a = x] EXCEPT !.b = y]
  BY DEF Decode, WithBoth
<1> HIDE DEF z
<1>4. [z EXCEPT !.b = y] \in Cell /\ Decode([z EXCEPT !.b = y]) = [Decode(z) EXCEPT !.b = y]
  BY <1>1 DEF Cell, Decode
<1> QED BY <1>1, <1>2, <1>3, <1>4

\* Storing a cell.
LEMMA StoreDecoded ==
  ASSUME NEW c \in Core, NEW t \in Addr, NEW cell \in Cell
  PROVE  /\ [c EXCEPT ![t] = cell] \in Core
         /\ Decoded([c EXCEPT ![t] = cell]) = [Decoded(c) EXCEPT ![t] = Decode(cell)]
BY DEF Core, Decoded

\* And reading one.
LEMMA CellDecoded ==
  ASSUME NEW c \in Core, NEW t \in Addr
  PROVE  Decoded(c)[t] = Decode(c[t]) /\ c[t] \in Cell
BY DEF Core, Decoded

\* The halves JMZ, JMN and DJN look at are those the modifier selects.
LEMMA TestedDecoded ==
  ASSUME NEW m \in 0 .. 6
  PROVE  /\ Tested(m) \subseteq {"a", "b"}
         /\ "a" \in Tested(m) <=> Reference!OnA(ModTable[m + 1])
         /\ "b" \in Tested(m) <=> Reference!OnB(ModTable[m + 1])
<1>1. \/ m = 0 \/ m = 1 \/ m = 2 \/ m = 3 \/ m = 4 \/ m = 5 \/ m = 6
  OBVIOUS
<1> QED BY <1>1 DEF Tested, M, ModTable, Reference!OnA, Reference!OnB

\* The divisor the P-space size comes from is one of the core's.
LEMMA PspaceIndex ==
  /\ PspaceSize \in Nat \ {0}
  /\ \A idx \in Nat : idx % PspaceSize \in 0 .. PspaceSize - 1
<1>1. PspaceDivisor \in 1 .. 16 /\ CoreSize % PspaceDivisor = 0
  <2>1. \E i \in 1 .. 16 : /\ CoreSize % i = 0
                           /\ \A j \in 1 .. 16 : CoreSize % j = 0 => j <= i
    BY Constants
  <2> QED BY <2>1 DEF PspaceDivisor
<1>2. PspaceSize \in Nat \ {0}
  BY <1>1, Constants DEF PspaceSize
<1> QED BY <1>2

-----------------------------------------------------------------------------
\* The state.

ThreeCells == CoreSize >= 3
Bank == [0 .. PspaceSize - 1 -> Addr]
Outcomes == {"none", "win0", "win1", "tie"}

\* What every state of the engine is: encoded cells and rings that hold
\* addresses, no queue beyond the process limit, and every counter in range.
Typed ==
  /\ core \in Core
  /\ qbuf \in [W -> Buffer]
  /\ head \in [W -> 0 .. Slots - 1]
  /\ len \in [W -> 0 .. MaxProcesses]
  /\ pspace \in [W -> Bank]
  /\ bank \in [W -> W]
  /\ lastResult \in [W -> Addr]
  /\ job \in Jobs \cup {NoJob}
  /\ seed \in I32
  /\ round \in 0 .. Rounds
  /\ pos \in Addr
  /\ turn \in W
  /\ budget \in 0 .. 2 * MaxCycles
  /\ outcome \in Outcomes
  /\ phase \in {"idle", "ready", "running"}

\* A match that is on has a job; a round that is on has been loaded, and while
\* nobody has won it both warriors have a process.
Playing ==
  /\ phase # "idle" => job \in Jobs
  /\ phase = "running" => pos # 0
  /\ phase = "running" /\ outcome = "none" => \A w \in W : len[w] > 0

IInv == Typed /\ Playing

\* The warrior to move can move.
CanMove == IInv /\ phase = "running" /\ outcome = "none" /\ budget > 0

\* What an instruction works with, here and in the reference.
IsFetched(F) ==
  /\ F.q \in Ring /\ F.op \in 0 .. 18 /\ F.m \in 0 .. 6
  /\ F.src \in Addr /\ F.t \in Addr /\ F.x \in Numbered /\ F.y \in Numbered
  /\ F.core \in Core
  /\ F.next \in Addr /\ F.jump \in Addr /\ F.skip \in Addr

SameFetched(F, R) ==
  /\ R.ir.op = OpTable[F.op + 1] /\ R.m = ModTable[F.m + 1]
  /\ R.src = F.src /\ R.t = F.t
  /\ R.air.a = F.x.a /\ R.air.b = F.x.b /\ R.bir.a = F.y.a /\ R.bir.b = F.y.b
  /\ \E c \in Cell : R.bir = Decode(c)
  /\ R.core = Decoded(F.core)
  /\ R.next = F.next /\ R.jump = F.jump /\ R.skip = F.skip

\* The queue of the warrior to move, as a ring.
LEMMA QueueOf ==
  ASSUME CanMove
  PROVE  /\ turn \in W /\ Queue(turn) \in Ring /\ Queue(turn).len > 0
         /\ Queue(turn).len <= MaxProcesses
         /\ qbuf[turn][head[turn]] \in Addr
         /\ Processes[turn] = Live(Queue(turn))
         /\ Head(Processes[turn]) = qbuf[turn][head[turn]]
<1>1. turn \in W /\ Queue(turn) = [buf |-> qbuf[turn], head |-> head[turn], len |-> len[turn]]
  BY DEF CanMove, IInv, Typed, Queue
<1>2. /\ qbuf[turn] \in Buffer /\ head[turn] \in 0 .. Slots - 1
      /\ len[turn] \in 0 .. MaxProcesses /\ len[turn] > 0
  BY <1>1 DEF CanMove, IInv, Typed, Playing
<1>3. len[turn] \in 0 .. Slots
  BY <1>2, RingSize, Constants
<1>4. Queue(turn) \in Ring
  BY <1>1, <1>2, <1>3 DEF Ring
<1>5. qbuf[turn][head[turn]] \in Addr
  BY <1>2 DEF Buffer
<1>6. Processes[turn] = Live(Queue(turn))
  BY <1>1 DEF Processes
<1>7. Queue(turn).len = len[turn] /\ Queue(turn).buf = qbuf[turn] /\ Queue(turn).head = head[turn]
  BY <1>1
<1>8. Head(Live(Queue(turn))) = qbuf[turn][head[turn]]
  BY <1>2, <1>4, <1>7, LivePop
<1> QED BY <1>1, <1>2, <1>4, <1>5, <1>6, <1>7, <1>8

\* The head of an instruction is the reference's.
LEMMA FetchedDecoded ==
  ASSUME CanMove
  PROVE  /\ IsFetched(Fetched) /\ SameFetched(Fetched, Reference!Fetched)
         /\ Fetched.q = Pop(Queue(turn))
         /\ Fetched.op = core[qbuf[turn][head[turn]]].opm \div 8
<1>1. PICK pc \in Addr : pc = qbuf[turn][head[turn]] /\ pc = Head(Processes[turn])
  BY QueueOf
<1>2. core \in Core
  BY DEF CanMove, IInv, Typed
<1>3. PICK ir \in Cell : ir = core[pc]
  BY <1>2 DEF Core
<1>4. /\ ir.am \in 0 .. 7 /\ ir.bm \in 0 .. 7 /\ ir.a \in Addr /\ ir.b \in Addr
      /\ ir.opm \div 8 \in 0 .. 18 /\ ir.opm % 8 \in 0 .. 6
  BY <1>3 DEF Cell, Opms
<1>5. Cells = Decoded(core) /\ Cells[pc] = Decode(ir)
  BY <1>2, <1>3, CellDecoded DEF Cells
<1>6. /\ Decode(ir).op = OpTable[(ir.opm \div 8) + 1] /\ Decode(ir).mod = ModTable[(ir.opm % 8) + 1]
      /\ Decode(ir).am = ModeTable[ir.am + 1] /\ Decode(ir).a = ir.a
      /\ Decode(ir).bm = ModeTable[ir.bm + 1] /\ Decode(ir).b = ir.b
  BY DEF Decode
<1> DEFINE A == Operand(core, pc, ir, ir.am, ir.a)
           B == Operand(A.core, pc, ir, ir.bm, ir.b)
           RA == Reference!Operand(Cells, pc, Decode(ir), ModeTable[ir.am + 1], ir.a)
           RB == Reference!Operand(RA.core, pc, Decode(ir), ModeTable[ir.bm + 1], ir.b)
<1>7. IsOperand(A) /\ SameOperand(A, RA)
  BY <1>2, <1>4, <1>5, OperandDecoded
<1>8. RA.core = Decoded(A.core) /\ A.core \in Core
  BY <1>7 DEF IsOperand, SameOperand
<1> HIDE DEF A, RA
<1>9. IsOperand(B) /\ SameOperand(B, RB)
  BY <1>4, <1>8, OperandDecoded
<1> HIDE DEF B, RB
<1>10. Fetched = Snapshot(Pop(Queue(turn)), pc, ir, A, B)
  BY <1>1, <1>3 DEF Fetched, A, B
<1>11. Reference!Fetched = Reference!Snapshot(pc, Decode(ir), RA, RB)
  BY <1>1, <1>5, <1>6 DEF Reference!Fetched, RA, RB
<1>12. /\ Fold(pc + A.ptr) = Reference!Add(pc, A.ptr) /\ Fold(pc + A.ptr) \in Addr
       /\ Fold(pc + B.ptr) = Reference!Add(pc, B.ptr) /\ Fold(pc + B.ptr) \in Addr
       /\ Fold(pc + 1) = Reference!Inc(pc) /\ Fold(pc + 1) \in Addr
       /\ Fold(pc + 2) = Reference!Add(pc, 2) /\ Fold(pc + 2) \in Addr
  BY <1>7, <1>9, RingArithmetic DEF IsOperand
<1>13. Pop(Queue(turn)) \in Ring
  BY QueueOf, LivePop
<1> DEFINE F == Fetched
           R == Reference!Fetched
<1>14. /\ F.q = Pop(Queue(turn)) /\ F.op = ir.opm \div 8 /\ F.m = ir.opm % 8
       /\ F.src = A.at /\ F.x = A.num /\ F.y = B.num /\ F.t = Fold(pc + B.ptr)
       /\ F.core = B.core /\ F.next = Fold(pc + 1) /\ F.jump = Fold(pc + A.ptr)
       /\ F.skip = Fold(pc + 2)
  BY <1>10 DEF Snapshot
<1>15. /\ R.ir = Decode(ir) /\ R.m = Decode(ir).mod /\ R.air = RA.cell /\ R.src = RA.at
       /\ R.bir = RB.cell /\ R.t = Reference!Add(pc, RB.ptr) /\ R.core = RB.core
       /\ R.next = Reference!Inc(pc) /\ R.jump = Reference!Add(pc, RA.ptr)
       /\ R.skip = Reference!Add(pc, 2)
  BY <1>11 DEF Reference!Snapshot
<1> HIDE DEF F, R
<1>16. IsFetched(F)
  BY <1>4, <1>7, <1>9, <1>12, <1>13, <1>14 DEF IsFetched, IsOperand
<1>17. SameFetched(F, R)
  BY <1>6, <1>7, <1>9, <1>12, <1>14, <1>15 DEF SameFetched, SameOperand
<1> QED BY <1>1, <1>3, <1>14, <1>16, <1>17 DEF F, R

-----------------------------------------------------------------------------
\* The end of a turn.

\* A turn ends as the reference's does, with the live window of the ring as
\* the queue: the budget here is charged before the instruction, so the one a
\* warrior dies of is given back by the mapping.
LEMMA EndTurnDecoded ==
  ASSUME CanMove, NEW q \in Ring, EndTurn(q)
  PROVE  Reference!EndTurn(Live(q))
<1>1. /\ qbuf' = [qbuf EXCEPT ![turn] = q.buf]
      /\ head' = [head EXCEPT ![turn] = q.head]
      /\ len' = [len EXCEPT ![turn] = q.len]
      /\ budget' = budget - 1 /\ bank' = bank /\ pos' = pos /\ phase' = phase
      /\ UNCHANGED <<bank, job, seed, round, pos, score, phase, ledger>>
      /\ IF q.len # 0 THEN turn' = 1 - turn /\ UNCHANGED outcome
                      ELSE outcome' = Win(1 - turn) /\ UNCHANGED turn
  BY DEF EndTurn, match
<1>2. /\ turn \in W /\ qbuf \in [W -> Buffer] /\ head \in [W -> 0 .. Slots - 1]
      /\ len \in [W -> 0 .. MaxProcesses] /\ budget \in Nat /\ MaxCycles \in Nat
      /\ phase = "running" /\ outcome = "none" /\ pos # 0
  BY Constants DEF CanMove, IInv, Typed, Playing
<1>3. Processes' = [Processes EXCEPT ![turn] = Live(q)]
  <2>1. Processes' = [w \in W |-> Live([buf |-> qbuf'[w], head |-> head'[w], len |-> len'[w]])]
    BY DEF Processes, Queue
  <2>2. Processes = [w \in W |-> Live([buf |-> qbuf[w], head |-> head[w], len |-> len[w]])]
    BY DEF Processes, Queue
  <2>3. q = [buf |-> q.buf, head |-> q.head, len |-> q.len]
    BY DEF Ring
  <2>4. /\ qbuf'[turn] = q.buf /\ head'[turn] = q.head /\ len'[turn] = q.len
        /\ \A w \in W \ {turn} : qbuf'[w] = qbuf[w] /\ head'[w] = head[w] /\ len'[w] = len[w]
    BY <1>1, <1>2
  <2>5. \A w \in W : Processes'[w] = IF w = turn THEN Live(q) ELSE Processes[w]
    BY <2>1, <2>2, <2>3, <2>4
  <2> QED BY <1>2, <2>1, <2>2, <2>5
<1>4. Live(q) = << >> <=> q.len = 0
  BY LiveSeq
<1>5. Done' = Done + 1
  BY <1>1, <1>2 DEF Done
<1>6. ~Fatal /\ Left = budget
  BY <1>2 DEF Fatal, Left
<1>7. CASE q.len # 0
  <2>1. turn' = 1 - turn /\ outcome' = outcome /\ Left' = Left - 1
    BY <1>1, <1>2, <1>6, <1>7 DEF Fatal, Left
  <2> QED BY <1>1, <1>3, <1>4, <1>5, <1>7, <2>1 DEF Reference!EndTurn, Reference!match
<1>8. CASE q.len = 0
  <2>1. outcome' = Win(1 - turn) /\ turn' = turn /\ outcome' \in {"win0", "win1"}
    BY <1>1, <1>8 DEF Win
  <2>2. Left' = Left
    BY <1>1, <1>2, <1>6, <2>1 DEF Fatal, Left
  <2>3. Win(1 - turn) = Reference!Win(1 - turn)
    BY DEF Win, Reference!Win
  <2> QED BY <1>1, <1>3, <1>4, <1>5, <1>8, <2>1, <2>2, <2>3 DEF Reference!EndTurn, Reference!match
<1> QED BY <1>7, <1>8

\* And leaves a state of the engine.
LEMMA EndTurnIInv ==
  ASSUME CanMove, NEW q \in Ring, q.len <= MaxProcesses, EndTurn(q),
         core' \in Core, pspace' \in [W -> Bank], lastResult' \in [W -> Addr]
  PROVE  IInv'
<1>1. /\ qbuf' = [qbuf EXCEPT ![turn] = q.buf]
      /\ head' = [head EXCEPT ![turn] = q.head]
      /\ len' = [len EXCEPT ![turn] = q.len]
      /\ budget' = budget - 1
      /\ UNCHANGED <<bank, job, seed, round, pos, phase>>
      /\ IF q.len # 0 THEN turn' = 1 - turn /\ UNCHANGED outcome
                      ELSE outcome' = Win(1 - turn) /\ UNCHANGED turn
  BY DEF EndTurn, match
<1>2. q.buf \in Buffer /\ q.head \in 0 .. Slots - 1 /\ q.len \in 0 .. MaxProcesses
  BY Constants, RingSize DEF Ring
<1>3. qbuf' \in [W -> Buffer] /\ head' \in [W -> 0 .. Slots - 1] /\ len' \in [W -> 0 .. MaxProcesses]
  BY <1>1, <1>2 DEF CanMove, IInv, Typed
<1>4. turn' \in W /\ outcome' \in Outcomes /\ budget' \in 0 .. 2 * MaxCycles
  BY <1>1, Constants DEF CanMove, IInv, Typed, W, Outcomes, Win
<1>5. Typed'
  BY <1>1, <1>3, <1>4 DEF CanMove, IInv, Typed
<1>6. outcome' = "none" => q.len # 0
  BY <1>1 DEF Win
<1>7. outcome' = "none" => \A w \in W : len'[w] > 0
  BY <1>1, <1>2, <1>6 DEF CanMove, IInv, Typed, Playing
<1>8. Playing'
  BY <1>1, <1>7 DEF CanMove, IInv, Playing
<1> QED BY <1>5, <1>8 DEF IInv

-----------------------------------------------------------------------------
\* The shape of an instruction.

\* An instruction that may execute here may execute in the reference.
LEMMA ExecutingDecoded ==
  ASSUME IInv, NEW ops, Executing(ops)
  PROVE  /\ CanMove
         /\ Fetched.op \in ops /\ Fetched.op \in 0 .. 18
         /\ \A rops : OpTable[Fetched.op + 1] \in rops => Reference!Executing(rops)
<1>1. CanMove
  BY DEF Executing, CanMove
<1>2. Fetched.op = core[qbuf[turn][head[turn]]].opm \div 8 /\ Fetched.op \in 0 .. 18
  BY <1>1, FetchedDecoded DEF IsFetched
<1>3. Fetched.op \in ops
  BY <1>2 DEF Executing
<1>4. Cells[Head(Processes[turn])].op = OpTable[Fetched.op + 1]
  <2>1. PICK pc \in Addr : pc = qbuf[turn][head[turn]] /\ pc = Head(Processes[turn])
    BY <1>1, QueueOf
  <2>2. Cells[pc] = Decode(core[pc])
    BY <1>1 DEF CanMove, IInv, Typed, Core, Cells, Decoded
  <2>3. Decode(core[pc]).op = OpTable[(core[pc].opm \div 8) + 1]
    BY DEF Decode
  <2> QED BY <1>2, <2>1, <2>2, <2>3
<1>5. Left > 0
  BY <1>1 DEF CanMove, Left, Fatal
<1> QED BY <1>1, <1>2, <1>3, <1>4, <1>5 DEF Reference!Executing, CanMove

\* The queue without the process taken, and with one more at its end.
LEMMA Requeue ==
  ASSUME CanMove
  PROVE  /\ Fetched.q \in Ring /\ Fetched.q.len < MaxProcesses
         /\ Live(Fetched.q) = Tail(Processes[turn])
         /\ \A v \in Addr : /\ Push(Fetched.q, v) \in Ring
                            /\ Push(Fetched.q, v).len <= MaxProcesses
                            /\ Live(Push(Fetched.q, v)) = Reference!Requeued(v)
<1>1. PICK q \in Ring : /\ q = Queue(turn) /\ q.len > 0 /\ q.len <= MaxProcesses
                        /\ Processes[turn] = Live(q)
  BY QueueOf
<1>2. Fetched.q = Pop(q)
  BY <1>1, FetchedDecoded
<1>3. /\ Pop(q) \in Ring /\ Pop(q).len = q.len - 1
      /\ Live(Pop(q)) = Tail(Live(q))
  BY <1>1, LivePop
<1>4. q.len \in Nat /\ Pop(q).len \in Nat /\ Pop(q).len < MaxProcesses /\ Pop(q).len < Slots
  BY <1>1, <1>3, RingSize, Constants DEF Ring
<1>5. ASSUME NEW v \in Addr
      PROVE  /\ Push(Pop(q), v) \in Ring
             /\ Push(Pop(q), v).len <= MaxProcesses
             /\ Live(Push(Pop(q), v)) = Reference!Requeued(v)
  <2>1. /\ Push(Pop(q), v) \in Ring /\ Push(Pop(q), v).len = Pop(q).len + 1
        /\ Live(Push(Pop(q), v)) = Append(Live(Pop(q)), v)
    BY <1>3, <1>4, LivePush
  <2> QED BY <1>1, <1>3, <1>4, <2>1, Constants DEF Reference!Requeued
<1> QED BY <1>1, <1>2, <1>3, <1>4, <1>5

\* An instruction that leaves the P-space alone.
LEMMA PspaceKept ==
  ASSUME CanMove, NEW q, EndTurn(q), KeepsPspace
  PROVE  /\ Reference!KeepsPspace
         /\ pspace' \in [W -> Bank] /\ lastResult' \in [W -> Addr]
BY DEF EndTurn, KeepsPspace, Reference!KeepsPspace, Banks, CanMove, IInv, Typed

\* One that writes nothing but what its operands wrote.
LEMMA KeepingTurn ==
  ASSUME CanMove, NEW q \in Ring, q.len <= MaxProcesses,
         core' = Fetched.core, EndTurn(q), KeepsPspace
  PROVE  /\ Reference!Keeps(Reference!Fetched)
         /\ Reference!EndTurn(Live(q)) /\ Reference!KeepsPspace /\ IInv'
<1>1. IsFetched(Fetched) /\ SameFetched(Fetched, Reference!Fetched)
  BY FetchedDecoded
<1>2. Cells' = Reference!Fetched.core /\ core' \in Core
  BY <1>1 DEF Cells, IsFetched, SameFetched
<1>3. Reference!Keeps(Reference!Fetched)
  BY <1>2 DEF Reference!Keeps, Reference!Note
<1> QED BY <1>2, <1>3, PspaceKept, EndTurnDecoded, EndTurnIInv

\* One that also writes its target.
LEMMA WritingTurn ==
  ASSUME CanMove, NEW q \in Ring, q.len <= MaxProcesses, NEW cell \in Cell,
         Store(Fetched, cell), EndTurn(q), KeepsPspace
  PROVE  /\ Reference!Writes(Reference!Fetched, Decode(cell))
         /\ Reference!EndTurn(Live(q)) /\ Reference!KeepsPspace /\ IInv'
<1>1. IsFetched(Fetched) /\ SameFetched(Fetched, Reference!Fetched)
  BY FetchedDecoded
<1>2. /\ core' = [Fetched.core EXCEPT ![Fetched.t] = cell] /\ core' \in Core
      /\ Cells' = [Decoded(Fetched.core) EXCEPT ![Fetched.t] = Decode(cell)]
  BY <1>1, StoreDecoded DEF Store, IsFetched, Cells
<1>3. Reference!Writes(Reference!Fetched, Decode(cell))
  BY <1>1, <1>2 DEF Reference!Writes, Reference!Note, SameFetched
<1> QED BY <1>2, <1>3, PspaceKept, EndTurnDecoded, EndTurnIInv

-----------------------------------------------------------------------------
\* Each instruction is the reference's.

LEMMA DatDecoded == ASSUME IInv, Dat PROVE Reference!Dat /\ IInv'
<1>1. /\ CanMove /\ Fetched.op \in {O.DAT} /\ Fetched.op \in 0 .. 18
      /\ \A rops : OpTable[Fetched.op + 1] \in rops => Reference!Executing(rops)
  BY ExecutingDecoded DEF Dat
<1>2. OpTable[Fetched.op + 1] = "DAT"
  BY <1>1, OpDecoded
<1>3. Reference!Executing({"DAT"})
  BY <1>1, <1>2
<1> DEFINE q == Fetched.q
<1>4. q \in Ring /\ q.len <= MaxProcesses /\ Live(q) = Tail(Processes[turn])
  BY <1>1, Requeue, Constants DEF Ring
<1>5. core' = Fetched.core /\ EndTurn(q) /\ KeepsPspace
  BY DEF Dat
<1> HIDE DEF q
<1>6. /\ Reference!Keeps(Reference!Fetched)
      /\ Reference!EndTurn(Live(q)) /\ Reference!KeepsPspace /\ IInv'
  BY <1>1, <1>4, <1>5, KeepingTurn
<1> QED BY <1>3, <1>4, <1>6 DEF Reference!Dat

\* One that keeps and goes on at v; one that writes and goes on.
LEMMA KeepingStep ==
  ASSUME CanMove, NEW v \in Addr,
         core' = Fetched.core, EndTurn(Push(Fetched.q, v)), KeepsPspace
  PROVE  /\ Reference!Keeps(Reference!Fetched)
         /\ Reference!EndTurn(Reference!Requeued(v)) /\ Reference!KeepsPspace /\ IInv'
<1>1. PICK q \in Ring : /\ q = Push(Fetched.q, v) /\ q.len <= MaxProcesses
                        /\ Live(q) = Reference!Requeued(v)
  BY Requeue
<1> QED BY <1>1, KeepingTurn

LEMMA WritingStep ==
  ASSUME CanMove, NEW v \in Addr, NEW cell \in Cell,
         Store(Fetched, cell), EndTurn(Push(Fetched.q, v)), KeepsPspace
  PROVE  /\ Reference!Writes(Reference!Fetched, Decode(cell))
         /\ Reference!EndTurn(Reference!Requeued(v)) /\ Reference!KeepsPspace /\ IInv'
<1>1. PICK q \in Ring : /\ q = Push(Fetched.q, v) /\ q.len <= MaxProcesses
                        /\ Live(q) = Reference!Requeued(v)
  BY Requeue
<1> QED BY <1>1, WritingTurn

LEMMA NopDecoded == ASSUME IInv, Nop PROVE Reference!Nop /\ IInv'
<1>1. CanMove /\ Reference!Executing({"NOP"})
  <2>1. OpTable[Fetched.op + 1] = "NOP"
    <3>1. Executing({O.NOP})
      BY DEF Nop
    <3>2. Fetched.op \in {O.NOP} /\ Fetched.op \in 0 .. 18
      BY <3>1, ExecutingDecoded
    <3> QED BY <3>2, OpDecoded
  <2> QED BY <2>1, ExecutingDecoded DEF Nop
<1>2. /\ Fetched.next \in Addr /\ Fetched.next = Reference!Fetched.next
  BY <1>1, FetchedDecoded DEF IsFetched, SameFetched
<1>3. core' = Fetched.core /\ EndTurn(Push(Fetched.q, Fetched.next)) /\ KeepsPspace
  BY DEF Nop
<1>4. /\ Reference!Keeps(Reference!Fetched)
      /\ Reference!EndTurn(Reference!Requeued(Fetched.next)) /\ Reference!KeepsPspace /\ IInv'
  BY <1>1, <1>2, <1>3, KeepingStep
<1> QED BY <1>1, <1>2, <1>4 DEF Reference!Nop

LEMMA JmpDecoded == ASSUME IInv, Jmp PROVE Reference!Jmp /\ IInv'
<1>1. CanMove /\ Reference!Executing({"JMP"})
  <2>1. OpTable[Fetched.op + 1] = "JMP"
    <3>1. Executing({O.JMP})
      BY DEF Jmp
    <3>2. Fetched.op \in {O.JMP} /\ Fetched.op \in 0 .. 18
      BY <3>1, ExecutingDecoded
    <3> QED BY <3>2, OpDecoded
  <2> QED BY <2>1, ExecutingDecoded DEF Jmp
<1>2. /\ Fetched.jump \in Addr /\ Fetched.jump = Reference!Fetched.jump
  BY <1>1, FetchedDecoded DEF IsFetched, SameFetched
<1>3. core' = Fetched.core /\ EndTurn(Push(Fetched.q, Fetched.jump)) /\ KeepsPspace
  BY DEF Jmp
<1>4. /\ Reference!Keeps(Reference!Fetched)
      /\ Reference!EndTurn(Reference!Requeued(Fetched.jump)) /\ Reference!KeepsPspace /\ IInv'
  BY <1>1, <1>2, <1>3, KeepingStep
<1> QED BY <1>1, <1>2, <1>4 DEF Reference!Jmp

\* The numbers JMZ, JMN and DJN test, in both engines.
LEMMA ZeroDecoded ==
  ASSUME NEW m \in 0 .. 6, NEW y, NEW i, i.a = y.a, i.b = y.b
  PROVE  (\A h \in Tested(m) : y[h] = 0) <=> Reference!Zero(ModTable[m + 1], i)
BY TestedDecoded DEF Reference!Zero

LEMMA JmzDecoded == ASSUME IInv, Jmz PROVE Reference!JmzJmn /\ IInv'
<1> DEFINE F == Fetched
           R == Reference!Fetched
           z == \A h \in Tested(F.m) : F.y[h] = 0
           v == IF z THEN F.jump ELSE F.next
<1>1. CanMove /\ OpTable[F.op + 1] = "JMZ" /\ Reference!Executing({"JMZ", "JMN"})
  <2>1. OpTable[F.op + 1] = "JMZ"
    <3>1. Executing({O.JMZ})
      BY DEF Jmz
    <3>2. Fetched.op \in {O.JMZ} /\ Fetched.op \in 0 .. 18
      BY <3>1, ExecutingDecoded
    <3> QED BY <3>2, OpDecoded
  <2> QED BY <2>1, ExecutingDecoded DEF Jmz
<1>2. IsFetched(F) /\ SameFetched(F, R)
  BY <1>1, FetchedDecoded
<1>3. core' = F.core /\ EndTurn(Push(F.q, v)) /\ KeepsPspace
  BY DEF Jmz
<1> HIDE DEF F, R
<1>4. z <=> Reference!Zero(R.m, R.bir)
  BY <1>2, ZeroDecoded DEF IsFetched, SameFetched
<1>5. /\ v \in Addr
      /\ v = IF Reference!Zero(R.m, R.bir) = (R.ir.op = "JMZ") THEN R.jump ELSE R.next
  BY <1>1, <1>2, <1>4 DEF IsFetched, SameFetched
<1> HIDE DEF v
<1>6. /\ Reference!Keeps(R)
      /\ Reference!EndTurn(Reference!Requeued(v)) /\ Reference!KeepsPspace /\ IInv'
  BY <1>1, <1>3, <1>5, KeepingStep DEF F, R
<1> QED BY <1>1, <1>5, <1>6 DEF Reference!JmzJmn, R

LEMMA JmnDecoded == ASSUME IInv, Jmn PROVE Reference!JmzJmn /\ IInv'
<1> DEFINE F == Fetched
           R == Reference!Fetched
           nz == \E h \in Tested(F.m) : F.y[h] # 0
           v == IF nz THEN F.jump ELSE F.next
<1>1. CanMove /\ OpTable[F.op + 1] = "JMN" /\ Reference!Executing({"JMZ", "JMN"})
  <2>1. OpTable[F.op + 1] = "JMN"
    <3>1. Executing({O.JMN})
      BY DEF Jmn
    <3>2. Fetched.op \in {O.JMN} /\ Fetched.op \in 0 .. 18
      BY <3>1, ExecutingDecoded
    <3> QED BY <3>2, OpDecoded
  <2> QED BY <2>1, ExecutingDecoded DEF Jmn
<1>2. IsFetched(F) /\ SameFetched(F, R)
  BY <1>1, FetchedDecoded
<1>3. core' = F.core /\ EndTurn(Push(F.q, v)) /\ KeepsPspace
  BY DEF Jmn
<1> HIDE DEF F, R
<1>4. ~nz <=> Reference!Zero(R.m, R.bir)
  BY <1>2, ZeroDecoded DEF IsFetched, SameFetched
<1>5. /\ v \in Addr
      /\ v = IF Reference!Zero(R.m, R.bir) = (R.ir.op = "JMZ") THEN R.jump ELSE R.next
  <2>1. Reference!Zero(R.m, R.bir) \in BOOLEAN
    BY DEF Reference!Zero
  <2>2. (Reference!Zero(R.m, R.bir) = (R.ir.op = "JMZ")) <=> nz
    BY <1>1, <1>2, <1>4, <2>1 DEF SameFetched
  <2> QED BY <1>2, <2>2 DEF IsFetched, SameFetched
<1> HIDE DEF v
<1>6. /\ Reference!Keeps(R)
      /\ Reference!EndTurn(Reference!Requeued(v)) /\ Reference!KeepsPspace /\ IInv'
  BY <1>1, <1>3, <1>5, KeepingStep DEF F, R
<1> QED BY <1>1, <1>5, <1>6 DEF Reference!JmzJmn, R

LEMMA SplDecoded == ASSUME IInv, Spl PROVE Reference!Spl /\ IInv'
<1> DEFINE F == Fetched
           R == Reference!Fetched
           q == Push(F.q, F.next)
           r == IF q.len < MaxProcesses THEN Push(q, F.jump) ELSE q
           s == Reference!Requeued(R.next)
<1>1. CanMove /\ Reference!Executing({"SPL"})
  <2>1. OpTable[F.op + 1] = "SPL"
    <3>1. Executing({O.SPL})
      BY DEF Spl
    <3>2. Fetched.op \in {O.SPL} /\ Fetched.op \in 0 .. 18
      BY <3>1, ExecutingDecoded
    <3> QED BY <3>2, OpDecoded
  <2> QED BY <2>1, ExecutingDecoded DEF Spl
<1>2. IsFetched(F) /\ SameFetched(F, R)
  BY <1>1, FetchedDecoded
<1>3. core' = F.core /\ EndTurn(r) /\ KeepsPspace
  BY DEF Spl
<1> HIDE DEF F, R
<1>4. q \in Ring /\ q.len <= MaxProcesses /\ Live(q) = s
  BY <1>1, <1>2, Requeue DEF IsFetched, SameFetched, F
<1> HIDE DEF q, s
<1>5. Len(s) = q.len /\ q.len \in Nat
  BY <1>4, LiveSeq, RingSize DEF Ring
<1>6. r \in Ring /\ r.len <= MaxProcesses
      /\ Live(r) = IF Reference!Full(s) THEN s ELSE Append(s, R.jump)
  <2>1. CASE q.len < MaxProcesses
    <3>1. q.len < Slots
      BY <1>5, <2>1, RingSize, Constants
    <3>2. /\ Push(q, F.jump) \in Ring /\ Push(q, F.jump).len = q.len + 1
          /\ Live(Push(q, F.jump)) = Append(s, R.jump)
      BY <1>2, <1>4, <3>1, LivePush DEF IsFetched, SameFetched
    <3>3. ~ Reference!Full(s) /\ q.len + 1 <= MaxProcesses
      BY <1>5, <2>1, Constants DEF Reference!Full
    <3> QED BY <2>1, <3>2, <3>3
  <2>2. CASE q.len >= MaxProcesses
    BY <1>4, <1>5, <2>2, Constants DEF Reference!Full
  <2> QED BY <1>5, <2>1, <2>2, Constants
<1> HIDE DEF r
<1>7. Reference!Keeps(R) /\ Reference!EndTurn(Live(r)) /\ Reference!KeepsPspace /\ IInv'
  BY <1>1, <1>3, <1>6, KeepingTurn DEF F, R
<1> QED BY <1>1, <1>6, <1>7 DEF Reference!Spl, R, s

\* The pairs of target and source half modifier d stands for.
Paired(p, d) == \/ p = <<"a", HalfA(d)>> /\ Reference!OnA(d)
                \/ p = <<"b", HalfB(d)>> /\ Reference!OnB(d)

\* What SLT and the comparisons look at, in both engines.
LEMMA PairsSources ==
  ASSUME NEW m \in 0 .. 6, NEW x \in Numbered, NEW i, i.a = x.a, i.b = x.b,
         NEW d, d = ModTable[m + 1]
  PROVE  /\ \A p : p \in Pairs(m) <=> Paired(p, d)
         /\ Reference!ForA(d, i) = x[HalfA(d)] /\ x[HalfA(d)] \in Addr
         /\ Reference!ForB(d, i) = x[HalfB(d)] /\ x[HalfB(d)] \in Addr
<1>1. Pairs(m) = PairSet(Reference!OnA(d), HalfA(d), Reference!OnB(d), HalfB(d))
  BY PairsDecoded
<1>2. \A p : p \in Pairs(m) <=> Paired(p, d)
  BY <1>1 DEF PairSet, Paired
<1>3. /\ Reference!ForA(d, i) = x[HalfA(d)] /\ x[HalfA(d)] \in Addr
      /\ Reference!ForB(d, i) = x[HalfB(d)] /\ x[HalfB(d)] \in Addr
  BY SourceHalves
<1> QED BY <1>2, <1>3

LEMMA SltDecoded == ASSUME IInv, Slt PROVE Reference!Slt /\ IInv'
<1> DEFINE F == Fetched
           R == Reference!Fetched
           d == R.m
           lt == \A p \in Pairs(F.m) : F.x[p[2]] < F.y[p[1]]
           rt == /\ Reference!OnA(d) => Reference!ForA(d, R.air) < R.bir.a
                 /\ Reference!OnB(d) => Reference!ForB(d, R.air) < R.bir.b
           v == IF lt THEN F.skip ELSE F.next
<1>1. CanMove /\ Reference!Executing({"SLT"})
  <2>1. OpTable[F.op + 1] = "SLT"
    <3>1. Executing({O.SLT})
      BY DEF Slt
    <3>2. Fetched.op \in {O.SLT} /\ Fetched.op \in 0 .. 18
      BY <3>1, ExecutingDecoded
    <3> QED BY <3>2, OpDecoded
  <2> QED BY <2>1, ExecutingDecoded DEF Slt
<1>2. IsFetched(F) /\ SameFetched(F, R)
  BY <1>1, FetchedDecoded
<1>3. core' = F.core /\ EndTurn(Push(F.q, v)) /\ KeepsPspace
  BY DEF Slt
<1> HIDE DEF F, R
<1>4. lt <=> rt
  <2>1. /\ \A p : p \in Pairs(F.m) <=> Paired(p, d)
        /\ Reference!ForA(d, R.air) = F.x[HalfA(d)] /\ Reference!ForB(d, R.air) = F.x[HalfB(d)]
    BY <1>2, PairsSources DEF IsFetched, SameFetched
  <2>2. F.y["a"] = R.bir.a /\ F.y["b"] = R.bir.b
    BY <1>2 DEF SameFetched
  <2>3. lt <=> /\ Reference!OnA(d) => F.x[HalfA(d)] < F.y["a"]
               /\ Reference!OnB(d) => F.x[HalfB(d)] < F.y["b"]
    <3> DEFINE Less(p) == F.x[p[2]] < F.y[p[1]]
    <3>1. /\ Less(<<"a", HalfA(d)>>) <=> F.x[HalfA(d)] < F.y["a"]
          /\ Less(<<"b", HalfB(d)>>) <=> F.x[HalfB(d)] < F.y["b"]
      OBVIOUS
    <3>2. lt <=> \A p \in Pairs(F.m) : Less(p)
      OBVIOUS
    <3> HIDE DEF lt, Less
    <3>3. lt <=> /\ Reference!OnA(d) => Less(<<"a", HalfA(d)>>)
                 /\ Reference!OnB(d) => Less(<<"b", HalfB(d)>>)
      BY <2>1, <3>2 DEF Paired
    <3> QED BY <3>1, <3>3
  <2> QED BY <2>1, <2>2, <2>3
<1>5. v \in Addr /\ v = IF rt THEN R.skip ELSE R.next
  BY <1>2, <1>4 DEF IsFetched, SameFetched
<1> HIDE DEF v, lt
<1>6. /\ Reference!Keeps(R)
      /\ Reference!EndTurn(Reference!Requeued(v)) /\ Reference!KeepsPspace /\ IInv'
  BY <1>1, <1>3, <1>5, KeepingStep DEF F, R
<1> QED BY <1>1, <1>5, <1>6 DEF Reference!Slt, R

\* The opcode byte of a cell is the opcode and the modifier, no more and no
\* less, so equal bytes and equal modes are equal instructions but for the
\* numbers.
LEMMA SameBytes ==
  ASSUME NEW u \in Cell, NEW v \in Cell
  PROVE  (u.opm = v.opm /\ u.am = v.am /\ u.bm = v.bm)
           <=> /\ Decode(u).op = Decode(v).op /\ Decode(u).mod = Decode(v).mod
               /\ Decode(u).am = Decode(v).am /\ Decode(u).bm = Decode(v).bm
<1> SUFFICES ASSUME Decode(u).op = Decode(v).op, Decode(u).mod = Decode(v).mod,
                    Decode(u).am = Decode(v).am, Decode(u).bm = Decode(v).bm
             PROVE  u.opm = v.opm /\ u.am = v.am /\ u.bm = v.bm
  BY DEF Decode
<1>1. u.am = v.am /\ u.bm = v.bm
  <2>1. \A m, n \in 0 .. 7 : ModeTable[m + 1] = ModeTable[n + 1] => m = n
    BY DEF ModeTable
  <2>2. ModeTable[u.am + 1] = ModeTable[v.am + 1] /\ ModeTable[u.bm + 1] = ModeTable[v.bm + 1]
    BY DEF Decode
  <2> QED BY <2>1, <2>2 DEF Cell
<1>2. u.opm \div 8 = v.opm \div 8
  <2>1. \A m, n \in 0 .. 18 : OpTable[m + 1] = OpTable[n + 1] => m = n
    BY DEF OpTable
  <2>2. OpTable[(u.opm \div 8) + 1] = OpTable[(v.opm \div 8) + 1]
    BY DEF Decode
  <2>3. u.opm \div 8 \in 0 .. 18 /\ v.opm \div 8 \in 0 .. 18
    BY DEF Cell, Opms
  <2> QED BY <2>1, <2>2, <2>3
<1>3. u.opm % 8 = v.opm % 8
  <2>1. \A m, n \in 0 .. 6 : ModTable[m + 1] = ModTable[n + 1] => m = n
    BY DEF ModTable
  <2>2. ModTable[(u.opm % 8) + 1] = ModTable[(v.opm % 8) + 1]
    BY DEF Decode
  <2>3. u.opm % 8 \in 0 .. 6 /\ v.opm % 8 \in 0 .. 6
    BY DEF Cell, Opms
  <2> QED BY <2>1, <2>2, <2>3
<1>4. u.opm = v.opm
  <2>1. u.opm \in Nat /\ v.opm \in Nat
    BY DEF Cell, Opms
  <2>2. \A m, n \in Nat : m \div 8 = n \div 8 /\ m % 8 = n % 8 => m = n
    OBVIOUS
  <2> QED BY <1>2, <1>3, <2>1, <2>2
<1> QED BY <1>1, <1>4

LEMMA CompareDecoded == ASSUME IInv, Compare PROVE Reference!Compare /\ IInv'
<1> DEFINE F == Fetched
           R == Reference!Fetched
           d == R.m
           Same(p) == F.x[p[2]] = F.y[p[1]]
           u == F.core[F.src]
           w == F.core[F.t]
           eq == /\ \A p \in Pairs(F.m) : F.x[p[2]] = F.y[p[1]]
                 /\ F.m = M.I => u.opm = w.opm /\ u.am = w.am /\ u.bm = w.bm
           x == R.core[R.src]
           y == R.core[R.t]
           req == /\ Reference!OnA(R.m) => Reference!ForA(R.m, R.air) = R.bir.a
                  /\ Reference!OnB(R.m) => Reference!ForB(R.m, R.air) = R.bir.b
                  /\ R.m = "I" => /\ x.op = y.op /\ x.mod = y.mod
                                  /\ x.am = y.am /\ x.bm = y.bm
           take == IF F.op = O.SNE THEN ~eq ELSE eq
           v == IF take THEN F.skip ELSE F.next
<1>1. CanMove /\ Reference!Executing({"CMP", "SEQ", "SNE"})
  <2>1. OpTable[F.op + 1] \in {"CMP", "SEQ", "SNE"}
    <3>1. Executing({O.CMP, O.SEQ, O.SNE})
      BY DEF Compare
    <3>2. Fetched.op \in {O.CMP, O.SEQ, O.SNE} /\ Fetched.op \in 0 .. 18
      BY <3>1, ExecutingDecoded
    <3> QED BY <3>2, OpDecoded
  <2> QED BY <2>1, ExecutingDecoded DEF Compare
<1>2. IsFetched(F) /\ SameFetched(F, R)
  BY <1>1, FetchedDecoded
<1>3. core' = F.core /\ EndTurn(Push(F.q, v)) /\ KeepsPspace
  BY DEF Compare
<1> HIDE DEF F, R
<1>4. (\A p \in Pairs(F.m) : F.x[p[2]] = F.y[p[1]])
        <=> /\ Reference!OnA(R.m) => Reference!ForA(R.m, R.air) = R.bir.a
            /\ Reference!OnB(R.m) => Reference!ForB(R.m, R.air) = R.bir.b
  <2>1. /\ \A p : p \in Pairs(F.m) <=> Paired(p, d)
        /\ Reference!ForA(d, R.air) = F.x[HalfA(d)] /\ Reference!ForB(d, R.air) = F.x[HalfB(d)]
    BY <1>2, PairsSources DEF IsFetched, SameFetched
  <2>2. F.y["a"] = R.bir.a /\ F.y["b"] = R.bir.b
    BY <1>2 DEF SameFetched
  <2>3. /\ Same(<<"a", HalfA(d)>>) <=> F.x[HalfA(d)] = F.y["a"]
        /\ Same(<<"b", HalfB(d)>>) <=> F.x[HalfB(d)] = F.y["b"]
    OBVIOUS
  <2>4. (\A p \in Pairs(F.m) : F.x[p[2]] = F.y[p[1]]) <=> \A p \in Pairs(F.m) : Same(p)
    OBVIOUS
  <2> HIDE DEF Same
  <2>5. (\A p \in Pairs(F.m) : Same(p))
          <=> /\ Reference!OnA(d) => Same(<<"a", HalfA(d)>>)
              /\ Reference!OnB(d) => Same(<<"b", HalfB(d)>>)
    BY <2>1 DEF Paired
  <2> QED BY <2>1, <2>2, <2>3, <2>4, <2>5
<1>5. F.m = M.I <=> R.m = "I"
  BY <1>2, ModifierDecoded DEF IsFetched, SameFetched
<1>6. (u.opm = w.opm /\ u.am = w.am /\ u.bm = w.bm)
        <=> x.op = y.op /\ x.mod = y.mod /\ x.am = y.am /\ x.bm = y.bm
  <2>1. u \in Cell /\ w \in Cell /\ x = Decode(u) /\ y = Decode(w)
    BY <1>2, CellDecoded DEF IsFetched, SameFetched
  <2> HIDE DEF u, w, x, y
  <2> QED BY <2>1, SameBytes
<1> HIDE DEF u, w, x, y
<1>7. eq <=> req
  BY <1>4, <1>5, <1>6
<1>8. F.op = O.SNE <=> R.ir.op = "SNE"
  BY <1>2, OpDecoded DEF IsFetched, SameFetched
<1>9. take <=> (req = (R.ir.op # "SNE"))
  <2>1. req \in BOOLEAN /\ (R.ir.op # "SNE") \in BOOLEAN
    OBVIOUS
  <2> HIDE DEF eq, req
  <2> QED BY <1>7, <1>8, <2>1
<1> HIDE DEF eq, take
<1>10. v \in Addr /\ v = IF req = (R.ir.op # "SNE") THEN R.skip ELSE R.next
  BY <1>2, <1>9 DEF IsFetched, SameFetched
<1> HIDE DEF v
<1>11. /\ Reference!Keeps(R)
       /\ Reference!EndTurn(Reference!Requeued(v)) /\ Reference!KeepsPspace /\ IInv'
  BY <1>1, <1>3, <1>10, KeepingStep DEF F, R
<1> QED BY <1>1, <1>10, <1>11 DEF Reference!Compare, R, x, y

\* Setting the halves an arm writes.
LEMMA PairsWritten ==
  ASSUME NEW F, NEW R, IsFetched(F), SameFetched(F, R),
         NEW v, DOMAIN v = Pairs(F.m), NEW x \in Addr, NEW y \in Addr,
         Reference!OnA(R.m) => v[<<"a", HalfA(R.m)>>] = x,
         Reference!OnB(R.m) => v[<<"b", HalfB(R.m)>>] = y
  PROVE  /\ SetPairs(F.core[F.t], v) \in Cell
         /\ Decode(SetPairs(F.core[F.t], v))
              = Reference!SetHalves(R.core[R.t], Reference!OnA(R.m), x, Reference!OnB(R.m), y)
<1> DEFINE d == R.m
<1>1. R.core[R.t] = Decode(F.core[F.t]) /\ F.core[F.t] \in Cell
  BY CellDecoded DEF IsFetched, SameFetched
<1>2. Pairs(F.m) = PairSet(Reference!OnA(d), HalfA(d), Reference!OnB(d), HalfB(d))
  BY PairsDecoded DEF IsFetched, SameFetched
<1>3. Reference!OnA(d) \in BOOLEAN /\ Reference!OnB(d) \in BOOLEAN
  BY DEF Reference!OnA, Reference!OnB
<1> QED BY <1>1, <1>2, <1>3, SetPairsDecoded

LEMMA MovDecoded == ASSUME IInv, Mov PROVE Reference!Mov /\ IInv'
<1> DEFINE F == Fetched
           R == Reference!Fetched
           d == R.m
           taken == [p \in Pairs(F.m) |-> F.x[p[2]]]
           cell == IF F.m = M.I THEN [F.core[F.src] EXCEPT !.a = F.x.a, !.b = F.x.b]
                   ELSE SetPairs(F.core[F.t], taken)
           rcell == IF R.m = "I"
                    THEN [R.core[R.src] EXCEPT !.a = R.air.a, !.b = R.air.b]
                    ELSE Reference!SetHalves(R.core[R.t],
                           Reference!OnA(R.m), Reference!ForA(R.m, R.air),
                           Reference!OnB(R.m), Reference!ForB(R.m, R.air))
<1>1. CanMove /\ Reference!Executing({"MOV"})
  <2>1. OpTable[F.op + 1] = "MOV"
    <3>1. Executing({O.MOV})
      BY DEF Mov
    <3>2. Fetched.op \in {O.MOV} /\ Fetched.op \in 0 .. 18
      BY <3>1, ExecutingDecoded
    <3> QED BY <3>2, OpDecoded
  <2> QED BY <2>1, ExecutingDecoded DEF Mov
<1>2. IsFetched(F) /\ SameFetched(F, R)
  BY <1>1, FetchedDecoded
<1>3. Store(F, cell) /\ EndTurn(Push(F.q, F.next)) /\ KeepsPspace
  BY DEF Mov
<1> HIDE DEF F, R
<1>4. F.m = M.I <=> R.m = "I"
  BY <1>2, ModifierDecoded DEF IsFetched, SameFetched
<1>5. cell \in Cell /\ Decode(cell) = rcell
  <2>1. /\ R.core[R.src] = Decode(F.core[F.src]) /\ F.core[F.src] \in Cell
        /\ R.core[R.t] = Decode(F.core[F.t]) /\ F.core[F.t] \in Cell
    BY <1>2, CellDecoded DEF IsFetched, SameFetched
  <2>2. CASE F.m = M.I
    <3>1. F.x.a \in Addr /\ F.x.b \in Addr /\ R.air.a = F.x.a /\ R.air.b = F.x.b
      BY <1>2 DEF IsFetched, SameFetched, Numbered
    <3>2. rcell = WithBoth(Decode(F.core[F.src]), F.x.a, F.x.b)
      BY <1>4, <2>1, <2>2, <3>1 DEF WithBoth
    <3>3. cell = WithBoth(F.core[F.src], F.x.a, F.x.b)
      BY <2>2 DEF WithBoth
    <3> HIDE DEF cell, rcell
    <3>4. PICK c \in Cell, x \in Addr, y \in Addr :
            c = F.core[F.src] /\ x = F.x.a /\ y = F.x.b
      BY <2>1, <3>1
    <3>5. WithBoth(c, x, y) \in Cell /\ Decode(WithBoth(c, x, y)) = WithBoth(Decode(c), x, y)
      BY NumbersReplaced
    <3> QED BY <3>2, <3>3, <3>4, <3>5
  <2>3. CASE F.m # M.I
    <3>1. /\ \A p : p \in Pairs(F.m) <=> Paired(p, d)
          /\ Reference!ForA(d, R.air) = F.x[HalfA(d)] /\ F.x[HalfA(d)] \in Addr
          /\ Reference!ForB(d, R.air) = F.x[HalfB(d)] /\ F.x[HalfB(d)] \in Addr
      BY <1>2, PairsSources DEF IsFetched, SameFetched
    <3>2. /\ DOMAIN taken = Pairs(F.m)
          /\ Reference!OnA(d) => taken[<<"a", HalfA(d)>>] = F.x[HalfA(d)]
          /\ Reference!OnB(d) => taken[<<"b", HalfB(d)>>] = F.x[HalfB(d)]
      BY <3>1 DEF Paired
    <3> HIDE DEF taken
    <3>3. /\ SetPairs(F.core[F.t], taken) \in Cell
          /\ Decode(SetPairs(F.core[F.t], taken))
               = Reference!SetHalves(R.core[R.t], Reference!OnA(R.m), F.x[HalfA(d)],
                                     Reference!OnB(R.m), F.x[HalfB(d)])
      BY <1>2, <3>1, <3>2, PairsWritten
    <3> QED BY <1>4, <2>3, <3>1, <3>3
  <2> QED BY <2>2, <2>3
<1> HIDE DEF cell
<1>6. F.next \in Addr /\ F.next = R.next
  BY <1>2 DEF IsFetched, SameFetched
<1>7. /\ Reference!Writes(R, rcell)
      /\ Reference!EndTurn(Reference!Requeued(R.next)) /\ Reference!KeepsPspace /\ IInv'
  BY <1>1, <1>3, <1>5, <1>6, WritingStep DEF F, R
<1> QED BY <1>1, <1>7 DEF Reference!Mov, R

\* ADD, SUB and MUL on the ring: no division is needed for the first two.
LEMMA CalcDecoded ==
  ASSUME NEW x \in Addr, NEW y \in Addr
  PROVE  /\ Fold(y + x) = Reference!Calc("ADD", y, x) /\ Fold(y + x) \in Addr
         /\ Fold(y + CoreSize - x) = Reference!Calc("SUB", y, x) /\ Fold(y + CoreSize - x) \in Addr
         /\ (y * x) % CoreSize = Reference!Calc("MUL", y, x) /\ (y * x) % CoreSize \in Addr
<1>1. PICK c \in Nat : c = CoreSize /\ c >= 2
  BY Constants
<1>2. ASSUME NEW n \in 0 .. 2 * c - 1
      PROVE  Fold(n) = n % c /\ Fold(n) \in Addr
  <2>1. CASE n < c
    <3>1. n % c = n
      BY <1>1, <2>1
    <3> QED BY <1>1, <2>1, <3>1 DEF Fold, Addr
  <2>2. CASE n >= c
    <3>1. n % c = n - c
      BY <1>1, <2>2
    <3> QED BY <1>1, <2>2, <3>1 DEF Fold, Addr
  <2> QED BY <1>1, <2>1, <2>2
<1>3. y + x \in 0 .. 2 * c - 1 /\ y + c - x \in 0 .. 2 * c - 1
  BY <1>1 DEF Addr
<1>4. PICK n \in Nat : n = y * x
  BY DEF Addr
<1>5. n % c \in 0 .. c - 1
  BY <1>1
<1> QED BY <1>1, <1>2, <1>3, <1>4, <1>5 DEF Reference!Calc, Addr

LEMMA ArithmeticDecoded == ASSUME IInv, Arithmetic PROVE Reference!Arithmetic /\ IInv'
<1> DEFINE F == Fetched
           R == Reference!Fetched
           d == R.m
           Result(h, s) == CASE F.op = O.ADD -> Fold(F.y[h] + F.x[s])
                             [] F.op = O.SUB -> Fold(F.y[h] + CoreSize - F.x[s])
                             [] F.op = O.MUL -> (F.y[h] * F.x[s]) % CoreSize
           v == [p \in Pairs(F.m) |-> Result(p[1], p[2])]
           cell == SetPairs(F.core[F.t], v)
           x == Reference!Calc(R.ir.op, R.bir.a, Reference!ForA(R.m, R.air))
           y == Reference!Calc(R.ir.op, R.bir.b, Reference!ForB(R.m, R.air))
<1>1. CanMove /\ F.op \in {O.ADD, O.SUB, O.MUL} /\ Reference!Executing({"ADD", "SUB", "MUL"})
  <2>1. OpTable[F.op + 1] \in {"ADD", "SUB", "MUL"}
    <3>1. Executing({O.ADD, O.SUB, O.MUL})
      BY DEF Arithmetic
    <3>2. Fetched.op \in {O.ADD, O.SUB, O.MUL} /\ Fetched.op \in 0 .. 18
      BY <3>1, ExecutingDecoded
    <3> QED BY <3>2, OpDecoded
  <2> QED BY <2>1, ExecutingDecoded DEF Arithmetic
<1>2. IsFetched(F) /\ SameFetched(F, R)
  BY <1>1, FetchedDecoded
<1>3. Store(F, cell) /\ EndTurn(Push(F.q, F.next)) /\ KeepsPspace
  BY DEF Arithmetic
<1> HIDE DEF F, R
<1>4. /\ \A p : p \in Pairs(F.m) <=> Paired(p, d)
      /\ Reference!ForA(d, R.air) = F.x[HalfA(d)] /\ F.x[HalfA(d)] \in Addr
      /\ Reference!ForB(d, R.air) = F.x[HalfB(d)] /\ F.x[HalfB(d)] \in Addr
  BY <1>2, PairsSources DEF IsFetched, SameFetched
<1>5. /\ F.y["a"] = R.bir.a /\ F.y["a"] \in Addr
      /\ F.y["b"] = R.bir.b /\ F.y["b"] \in Addr
  BY <1>2 DEF IsFetched, SameFetched, Numbered
<1>6. /\ R.ir.op = "ADD" <=> F.op = O.ADD
      /\ R.ir.op = "SUB" <=> F.op = O.SUB
      /\ R.ir.op = "MUL" <=> F.op = O.MUL
      /\ O.ADD # O.SUB /\ O.ADD # O.MUL /\ O.SUB # O.MUL
  BY <1>2, OpDecoded DEF IsFetched, SameFetched, O
<1>7. ASSUME NEW n \in Addr, NEW k \in Addr, NEW h, NEW s, F.y[h] = n, F.x[s] = k
      PROVE  Result(h, s) = Reference!Calc(R.ir.op, n, k) /\ Result(h, s) \in Addr
  BY <1>1, <1>6, <1>7, CalcDecoded
<1>8. /\ Result("a", HalfA(d)) = x /\ x \in Addr
      /\ Result("b", HalfB(d)) = y /\ y \in Addr
  <2> HIDE DEF Result
  <2>1. PICK n \in Addr, k \in Addr : n = F.y["a"] /\ k = F.x[HalfA(d)]
    BY <1>4, <1>5
  <2>2. PICK p \in Addr, q \in Addr : p = F.y["b"] /\ q = F.x[HalfB(d)]
    BY <1>4, <1>5
  <2>3. /\ Result("a", HalfA(d)) = Reference!Calc(R.ir.op, n, k) /\ Result("a", HalfA(d)) \in Addr
        /\ Result("b", HalfB(d)) = Reference!Calc(R.ir.op, p, q) /\ Result("b", HalfB(d)) \in Addr
    BY <1>7, <2>1, <2>2
  <2>4. x = Reference!Calc(R.ir.op, n, k) /\ y = Reference!Calc(R.ir.op, p, q)
    BY <1>4, <1>5, <2>1, <2>2
  <2> QED BY <2>3, <2>4
<1> HIDE DEF Result, x, y
<1>9. /\ DOMAIN v = Pairs(F.m)
      /\ Reference!OnA(d) => v[<<"a", HalfA(d)>>] = x
      /\ Reference!OnB(d) => v[<<"b", HalfB(d)>>] = y
  BY <1>4, <1>8 DEF Paired
<1> HIDE DEF v
<1>10. /\ cell \in Cell
       /\ Decode(cell) = Reference!SetHalves(R.core[R.t], Reference!OnA(R.m), x, Reference!OnB(R.m), y)
  BY <1>2, <1>8, <1>9, PairsWritten
<1> HIDE DEF cell
<1>11. F.next \in Addr /\ F.next = R.next
  BY <1>2 DEF IsFetched, SameFetched
<1>12. /\ Reference!Writes(R, Decode(cell))
       /\ Reference!EndTurn(Reference!Requeued(R.next)) /\ Reference!KeepsPspace /\ IInv'
  BY <1>1, <1>3, <1>10, <1>11, WritingStep DEF F, R
<1> QED BY <1>1, <1>10, <1>12 DEF Reference!Arithmetic, R, x, y

LEMMA DivisionDecoded == ASSUME IInv, Division PROVE Reference!Division /\ IInv'
<1> DEFINE F == Fetched
           R == Reference!Fetched
           d == R.m
           Result(h, s) == IF F.op = O.DIV THEN F.y[h] \div F.x[s] ELSE F.y[h] % F.x[s]
           defined == {p \in Pairs(F.m) : F.x[p[2]] # 0}
           v == [p \in defined |-> Result(p[1], p[2])]
           cell == SetPairs(F.core[F.t], v)
           q == IF defined = Pairs(F.m) THEN Push(F.q, F.next) ELSE F.q
           x == Reference!ForA(R.m, R.air)
           y == Reference!ForB(R.m, R.air)
           wa == Reference!OnA(R.m) /\ x # 0
           wb == Reference!OnB(R.m) /\ y # 0
           alive == (Reference!OnA(R.m) => x # 0) /\ (Reference!OnB(R.m) => y # 0)
           n == IF wa THEN Reference!Quotient(R.ir.op, R.bir.a, x) ELSE 0
           k == IF wb THEN Reference!Quotient(R.ir.op, R.bir.b, y) ELSE 0
<1>1. CanMove /\ F.op \in {O.DIV, O.MOD} /\ Reference!Executing({"DIV", "MOD"})
  <2>1. OpTable[F.op + 1] \in {"DIV", "MOD"}
    <3>1. Executing({O.DIV, O.MOD})
      BY DEF Division
    <3>2. Fetched.op \in {O.DIV, O.MOD} /\ Fetched.op \in 0 .. 18
      BY <3>1, ExecutingDecoded
    <3> QED BY <3>2, OpDecoded
  <2> QED BY <2>1, ExecutingDecoded DEF Division
<1>2. IsFetched(F) /\ SameFetched(F, R)
  BY <1>1, FetchedDecoded
<1>3. Store(F, cell) /\ EndTurn(q) /\ KeepsPspace
  BY DEF Division
<1>4. /\ F.q \in Ring /\ F.q.len < MaxProcesses /\ Live(F.q) = Tail(Processes[turn])
      /\ Push(F.q, F.next) \in Ring /\ Push(F.q, F.next).len <= MaxProcesses
      /\ Live(Push(F.q, F.next)) = Reference!Requeued(R.next)
  BY <1>1, <1>2, Requeue DEF IsFetched, SameFetched
<1> HIDE DEF F, R
<1>5. /\ \A p : p \in Pairs(F.m) <=> Paired(p, d)
      /\ x = F.x[HalfA(d)] /\ x \in Addr
      /\ y = F.x[HalfB(d)] /\ y \in Addr
  BY <1>2, PairsSources DEF IsFetched, SameFetched
<1>6. /\ F.y["a"] = R.bir.a /\ F.y["a"] \in Addr
      /\ F.y["b"] = R.bir.b /\ F.y["b"] \in Addr
  BY <1>2 DEF IsFetched, SameFetched, Numbered
<1> HIDE DEF x, y
<1>7. \A p : p \in defined <=> (p = <<"a", HalfA(d)>> /\ wa) \/ (p = <<"b", HalfB(d)>> /\ wb)
  BY <1>5 DEF Paired
<1>8. defined = Pairs(F.m) <=> alive
  <2>1. defined = Pairs(F.m) <=> \A p \in Pairs(F.m) : p \in defined
    OBVIOUS
  <2>2. <<"a", HalfA(d)>> # <<"b", HalfB(d)>>
    OBVIOUS
  <2> HIDE DEF defined
  <2>3. /\ \A p \in Pairs(F.m) : Paired(p, d)
        /\ Reference!OnA(d) => <<"a", HalfA(d)>> \in Pairs(F.m)
        /\ Reference!OnB(d) => <<"b", HalfB(d)>> \in Pairs(F.m)
    BY <1>5 DEF Paired
  <2>4. /\ <<"a", HalfA(d)>> \in defined <=> wa
        /\ <<"b", HalfB(d)>> \in defined <=> wb
    BY <1>7, <2>2
  <2>5. (\A p \in Pairs(F.m) : p \in defined) <=> (Reference!OnA(d) => wa) /\ (Reference!OnB(d) => wb)
    BY <2>3, <2>4 DEF Paired
  <2> QED BY <2>1, <2>5
<1>9. R.ir.op = "DIV" <=> F.op = O.DIV
  BY <1>2, OpDecoded DEF IsFetched, SameFetched
<1>10. \A i \in Addr, j \in Addr \ {0} : Reference!Quotient(R.ir.op, i, j) \in Addr
  BY Constants DEF Reference!Quotient, Addr
<1>11. /\ n \in Addr /\ k \in Addr
       /\ wa => Result("a", HalfA(d)) = n
       /\ wb => Result("b", HalfB(d)) = k
  <2>1. 0 \in Addr
    BY Constants DEF Addr
  <2> QED BY <1>5, <1>6, <1>9, <1>10, <2>1 DEF Reference!Quotient
<1> HIDE DEF Result, n, k, defined
<1>12. /\ DOMAIN v = PairSet(wa, HalfA(d), wb, HalfB(d))
       /\ wa => v[<<"a", HalfA(d)>>] = n
       /\ wb => v[<<"b", HalfB(d)>>] = k
  <2>1. DOMAIN v = PairSet(wa, HalfA(d), wb, HalfB(d))
    BY <1>7 DEF PairSet
  <2> QED BY <1>7, <1>11, <2>1
<1> HIDE DEF v
<1>13. R.core[R.t] = Decode(F.core[F.t]) /\ F.core[F.t] \in Cell
  BY <1>2, CellDecoded DEF IsFetched, SameFetched
<1>14. /\ cell \in Cell
       /\ Decode(cell) = Reference!SetHalves(R.core[R.t], wa, n, wb, k)
  <2>1. wa \in BOOLEAN /\ wb \in BOOLEAN
    BY DEF Reference!OnA, Reference!OnB
  <2> HIDE DEF wa, wb
  <2> QED BY <1>11, <1>12, <1>13, <2>1, SetPairsDecoded
<1> HIDE DEF cell
<1>15. /\ q \in Ring /\ q.len <= MaxProcesses
       /\ Live(q) = IF alive THEN Reference!Requeued(R.next) ELSE Tail(Processes[turn])
  <2>1. F.q.len <= MaxProcesses
    BY <1>4, Constants, RingSize DEF Ring
  <2> HIDE DEF alive
  <2> QED BY <1>4, <1>8, <2>1
<1> HIDE DEF q, alive
<1>16. /\ Reference!Writes(R, Decode(cell))
       /\ Reference!EndTurn(Live(q)) /\ Reference!KeepsPspace /\ IInv'
  BY <1>1, <1>3, <1>14, <1>15, WritingTurn DEF F, R
<1>17. IF wa \/ wb THEN Reference!Writes(R, Reference!SetHalves(R.core[R.t], wa, n, wb, k))
                  ELSE Reference!Keeps(R)
  <2>1. CASE wa \/ wb
    BY <1>14, <1>16, <2>1
  <2>2. CASE ~(wa \/ wb)
    <3>1. Reference!SetHalves(R.core[R.t], wa, n, wb, k) = R.core[R.t]
      BY <1>13, <2>2 DEF Reference!SetHalves, Decode
    <3>2. Cells' = [R.core EXCEPT ![R.t] = R.core[R.t]]
      BY <1>14, <1>16, <3>1 DEF Reference!Writes
    <3>3. R.core = [i \in Addr |-> R.core[i]]
      BY <1>2 DEF SameFetched, Decoded
    <3>4. Cells' = R.core
      BY <3>2, <3>3
    <3> QED BY <2>2, <3>4 DEF Reference!Keeps, Reference!Note
  <2> QED BY <2>1, <2>2
<1> QED BY <1>1, <1>15, <1>16, <1>17 DEF Reference!Division, R, x, y, n, k, alive

\* DJN decrements the halves it tests.
LEMMA DownDecoded ==
  ASSUME NEW m \in 0 .. 6, NEW c \in Cell
  PROVE  LET r == [h \in DOMAIN c |-> IF h \in Tested(m) THEN Dec(c[h]) ELSE c[h]]
             d == ModTable[m + 1]
         IN /\ r \in Cell
            /\ Decode(r) = Reference!SetHalves(Decode(c), Reference!OnA(d), Reference!Dec(Decode(c).a),
                                               Reference!OnB(d), Reference!Dec(Decode(c).b))
<1> DEFINE d == ModTable[m + 1]
           r == [h \in DOMAIN c |-> IF h \in Tested(m) THEN Dec(c[h]) ELSE c[h]]
           x == IF Reference!OnA(d) THEN Reference!Dec(c.a) ELSE c.a
           y == IF Reference!OnB(d) THEN Reference!Dec(c.b) ELSE c.b
<1>1. /\ Tested(m) \subseteq {"a", "b"}
      /\ "a" \in Tested(m) <=> Reference!OnA(d)
      /\ "b" \in Tested(m) <=> Reference!OnB(d)
  BY TestedDecoded
<1>2. /\ c.a \in Addr /\ c.b \in Addr /\ Decode(c).a = c.a /\ Decode(c).b = c.b
      /\ DOMAIN c = {"a", "b", "opm", "am", "bm"}
  BY DEF Cell, Decode
<1>3. /\ Dec(c.a) = Reference!Dec(c.a) /\ Reference!Dec(c.a) \in Addr
      /\ Dec(c.b) = Reference!Dec(c.b) /\ Reference!Dec(c.b) \in Addr
  BY <1>2, RingArithmetic
<1>4. x \in Addr /\ y \in Addr
  BY <1>2, <1>3
<1>5. \A h \in DOMAIN c : (IF h \in Tested(m) THEN Dec(c[h]) ELSE c[h])
                            = IF h = "a" THEN x ELSE IF h = "b" THEN y ELSE c[h]
  BY <1>1, <1>2, <1>3
<1>6. r = WithBoth(c, x, y)
  <2>1. r = [h \in DOMAIN c |-> IF h = "a" THEN x ELSE IF h = "b" THEN y ELSE c[h]]
    BY <1>5
  <2> HIDE DEF r, x, y
  <2>2. WithBoth(c, x, y) = [h \in DOMAIN c |-> IF h = "a" THEN x ELSE IF h = "b" THEN y ELSE c[h]]
    BY DEF WithBoth
  <2> QED BY <2>1, <2>2
<1>7. WithBoth(Decode(c), x, y)
        = Reference!SetHalves(Decode(c), Reference!OnA(d), Reference!Dec(Decode(c).a),
                              Reference!OnB(d), Reference!Dec(Decode(c).b))
  BY <1>2 DEF WithBoth, Reference!SetHalves
<1> HIDE DEF r, x, y
<1>8. r \in Cell /\ Decode(r) = WithBoth(Decode(c), x, y)
  BY <1>4, <1>6, NumbersReplaced
<1> QED BY <1>7, <1>8 DEF r, d

LEMMA DjnDecoded == ASSUME IInv, Djn PROVE Reference!Djn /\ IInv'
<1> DEFINE F == Fetched
           R == Reference!Fetched
           c == F.core[F.t]
           nz == \E h \in Tested(F.m) : Dec(F.y[h]) # 0
           v == IF nz THEN F.jump ELSE F.next
           cell == [h \in DOMAIN c |-> IF h \in Tested(F.m) THEN Dec(c[h]) ELSE c[h]]
           Down(i) == Reference!SetHalves(i, Reference!OnA(R.m), Reference!Dec(i.a),
                                             Reference!OnB(R.m), Reference!Dec(i.b))
<1>1. CanMove /\ Reference!Executing({"DJN"})
  <2>1. OpTable[F.op + 1] = "DJN"
    <3>1. Executing({O.DJN})
      BY DEF Djn
    <3>2. Fetched.op \in {O.DJN} /\ Fetched.op \in 0 .. 18
      BY <3>1, ExecutingDecoded
    <3> QED BY <3>2, OpDecoded
  <2> QED BY <2>1, ExecutingDecoded DEF Djn
<1>2. IsFetched(F) /\ SameFetched(F, R)
  BY <1>1, FetchedDecoded
<1>3. Store(F, cell) /\ EndTurn(Push(F.q, v)) /\ KeepsPspace
  BY DEF Djn
<1> HIDE DEF F, R
<1>4. /\ F.m \in 0 .. 6 /\ R.m = ModTable[F.m + 1]
      /\ R.core[R.t] = Decode(c) /\ c \in Cell
  BY <1>2, CellDecoded DEF IsFetched, SameFetched
<1> HIDE DEF c
<1>5. cell \in Cell /\ Decode(cell) = Down(R.core[R.t])
  BY <1>4, DownDecoded
<1>6. ~nz <=> Reference!Zero(R.m, Down(R.bir))
  <2>1. PICK i \in Cell : R.bir = Decode(i)
    BY <1>2 DEF SameFetched
  <2>2. /\ Reference!OnA(R.m) => Down(R.bir).a = Reference!Dec(R.bir.a)
        /\ Reference!OnB(R.m) => Down(R.bir).b = Reference!Dec(R.bir.b)
    BY <2>1 DEF Reference!SetHalves, Decode
  <2> HIDE DEF Down
  <2>3. /\ Reference!Dec(R.bir.a) = Dec(F.y["a"]) /\ Reference!Dec(R.bir.b) = Dec(F.y["b"])
    BY <1>2, RingArithmetic DEF IsFetched, SameFetched, Numbered
  <2>4. /\ Tested(F.m) \subseteq {"a", "b"}
        /\ "a" \in Tested(F.m) <=> Reference!OnA(R.m)
        /\ "b" \in Tested(F.m) <=> Reference!OnB(R.m)
    BY <1>4, TestedDecoded
  <2>5. ~nz <=> /\ Reference!OnA(R.m) => Dec(F.y["a"]) = 0
                /\ Reference!OnB(R.m) => Dec(F.y["b"]) = 0
    BY <2>4
  <2> QED BY <2>2, <2>3, <2>5 DEF Reference!Zero
<1> HIDE DEF nz, cell, Down
<1>7. v \in Addr /\ v = IF ~Reference!Zero(R.m, Down(R.bir)) THEN R.jump ELSE R.next
  BY <1>2, <1>6 DEF IsFetched, SameFetched
<1> HIDE DEF v
<1>8. /\ Reference!Writes(R, Decode(cell))
      /\ Reference!EndTurn(Reference!Requeued(v)) /\ Reference!KeepsPspace /\ IInv'
  BY <1>1, <1>3, <1>5, <1>7, WritingStep DEF F, R
<1> QED BY <1>1, <1>5, <1>7, <1>8 DEF Reference!Djn, R, Down

-----------------------------------------------------------------------------
\* P-space.

\* Both engines have the same ring, P-space and cleared cell.
LEMMA SameNames ==
  /\ Reference!PspaceSize = PspaceSize /\ Reference!Addr = Addr
  /\ Reference!EMPTY = EMPTY /\ Reference!W = W
BY DEF Reference!PspaceSize, PspaceSize, Reference!PspaceDivisor, PspaceDivisor,
       Reference!Addr, Addr, Reference!EMPTY, EMPTY, Reference!W, W

\* What is read, whatever the index.
LEMMA GetDecoded ==
  ASSUME IInv, NEW w \in W, NEW i \in Addr
  PROVE  GetPspace(w, i) = Reference!GetPspace(w, i) /\ GetPspace(w, i) \in Addr
<1>1. i % PspaceSize \in 0 .. PspaceSize - 1
  BY PspaceIndex DEF Addr
<1>2. /\ lastResult[w] \in Addr /\ bank[w] \in W /\ pspace[bank[w]] \in Bank
      /\ Banks[bank[w]] = pspace[bank[w]]
  BY DEF IInv, Typed, Banks
<1> QED BY <1>1, <1>2, SameNames DEF GetPspace, Reference!GetPspace, Bank

\* What is written, in the bank of the warrior.
LEMMA SetDecoded ==
  ASSUME IInv, NEW w \in W, NEW i \in Addr, NEW v \in Addr, SetPspace(w, i, v), bank' = bank
  PROVE  /\ Reference!SetPspace(w, i, v)
         /\ pspace' \in [W -> Bank] /\ lastResult' \in [W -> Addr]
<1> DEFINE k == i % PspaceSize
<1>1. k \in 0 .. PspaceSize - 1
  BY PspaceIndex DEF Addr
<1>2. /\ lastResult \in [W -> Addr] /\ bank \in [W -> W] /\ pspace \in [W -> Bank]
  BY DEF IInv, Typed
<1>3. CASE k = 0
  <2>1. lastResult' = [lastResult EXCEPT ![w] = v] /\ pspace' = pspace
    BY <1>3 DEF SetPspace
  <2>2. Banks' = Banks
    BY <2>1 DEF Banks
  <2> QED BY <1>2, <1>3, <2>1, <2>2, SameNames DEF Reference!SetPspace
<1>4. CASE k # 0
  <2>1. pspace' = [pspace EXCEPT ![bank[w]][k] = v] /\ lastResult' = lastResult
    BY <1>4 DEF SetPspace
  <2> HIDE DEF k
  <2>2. pspace' = [pspace EXCEPT ![bank[w]] = [pspace[bank[w]] EXCEPT ![k] = v]]
    BY <1>2, <2>1
  <2>3. [pspace[bank[w]] EXCEPT ![k] = v] \in Bank /\ bank[w] \in W
    BY <1>1, <1>2 DEF Bank
  <2>4. pspace' \in [W -> Bank]
    BY <1>2, <2>2, <2>3
  <2>5. Banks' = [Banks EXCEPT ![bank[w]] = [Banks[bank[w]] EXCEPT ![k] = v]]
    <3>1. Banks' = [b \in {bank[u] : u \in W} |-> pspace'[b]]
      BY DEF Banks
    <3>2. \A b \in {bank[u] : u \in W} : b \in W
      BY <1>2
    <3> QED BY <1>2, <2>2, <2>3, <3>1, <3>2 DEF Banks
  <2>6. Banks' = [Banks EXCEPT ![bank[w]][k] = v]
    BY <2>5
  <2> QED BY <1>2, <1>4, <2>1, <2>4, <2>6, SameNames DEF Reference!SetPspace, k
<1> QED BY <1>3, <1>4

LEMMA LdpDecoded == ASSUME IInv, Ldp PROVE Reference!Ldp /\ IInv'
<1> DEFINE F == Fetched
           R == Reference!Fetched
           c == F.core[F.t]
           i == IF F.m \in {M.A, M.AB} THEN F.x.a ELSE F.x.b
           v == GetPspace(turn, i)
           cell == IF F.m \in {M.A, M.BA} THEN [c EXCEPT !.a = v] ELSE [c EXCEPT !.b = v]
           toA == R.m \in {"A", "BA"}
           x == IF toA THEN v ELSE c.a
           y == IF ~toA THEN v ELSE c.b
<1>1. CanMove /\ Reference!Executing({"LDP"})
  <2>1. OpTable[F.op + 1] = "LDP"
    <3>1. Executing({O.LDP})
      BY DEF Ldp
    <3>2. Fetched.op \in {O.LDP} /\ Fetched.op \in 0 .. 18
      BY <3>1, ExecutingDecoded
    <3> QED BY <3>2, OpDecoded
  <2> QED BY <2>1, ExecutingDecoded DEF Ldp
<1>2. IsFetched(F) /\ SameFetched(F, R)
  BY <1>1, FetchedDecoded
<1>3. Store(F, cell) /\ EndTurn(Push(F.q, F.next)) /\ KeepsPspace
  BY DEF Ldp
<1> HIDE DEF F, R
<1>4. /\ F.m \in {M.A, M.AB} <=> R.m \in {"A", "AB"}
      /\ F.m \in {M.A, M.BA} <=> R.m \in {"A", "BA"}
  BY <1>2, ModifierDecoded DEF IsFetched, SameFetched
<1>5. /\ i \in Addr /\ i = IF R.m \in {"A", "AB"} THEN R.air.a ELSE R.air.b
      /\ F.next \in Addr /\ F.next = R.next
      /\ R.core[R.t] = Decode(c) /\ c \in Cell
  BY <1>2, <1>4, CellDecoded DEF IsFetched, SameFetched, Numbered
<1> HIDE DEF c, i
<1>6. v \in Addr /\ v = Reference!GetPspace(turn, i)
  BY <1>1, <1>5, GetDecoded DEF CanMove, IInv, Typed
<1> HIDE DEF v
<1>7. cell = WithBoth(c, x, y)
  <2>1. CASE toA
    <3>1. cell = [c EXCEPT !.a = v] /\ x = v /\ y = c.b
      BY <1>4, <2>1
    <3>2. [c EXCEPT !.a = v] = WithBoth(c, v, c.b)
      BY <1>5 DEF WithBoth, Cell
    <3> QED BY <3>1, <3>2
  <2>2. CASE ~toA
    <3>1. cell = [c EXCEPT !.b = v] /\ x = c.a /\ y = v
      BY <1>4, <2>2
    <3>2. [c EXCEPT !.b = v] = WithBoth(c, c.a, v)
      BY <1>5 DEF WithBoth, Cell
    <3> QED BY <3>1, <3>2
  <2> QED BY <2>1, <2>2
<1>8. WithBoth(Decode(c), x, y) = Reference!SetHalves(R.core[R.t], toA, v, ~toA, v)
  <2>1. Decode(c).a = c.a /\ Decode(c).b = c.b
    BY DEF Decode
  <2> QED BY <1>5, <2>1 DEF WithBoth, Reference!SetHalves
<1>9. x \in Addr /\ y \in Addr
  BY <1>5, <1>6 DEF Cell
<1> HIDE DEF cell, x, y
<1>10. cell \in Cell /\ Decode(cell) = WithBoth(Decode(c), x, y)
  BY <1>5, <1>7, <1>9, NumbersReplaced
<1>11. /\ Reference!Writes(R, Decode(cell))
       /\ Reference!EndTurn(Reference!Requeued(R.next)) /\ Reference!KeepsPspace /\ IInv'
  BY <1>1, <1>3, <1>5, <1>10, WritingStep DEF F, R
<1> QED BY <1>1, <1>5, <1>6, <1>8, <1>10, <1>11 DEF Reference!Ldp, R

LEMMA StpDecoded == ASSUME IInv, Stp PROVE Reference!Stp /\ IInv'
<1> DEFINE F == Fetched
           R == Reference!Fetched
           i == IF R.m \in {"A", "BA"} THEN R.bir.a ELSE R.bir.b
           v == IF R.m \in {"A", "AB"} THEN R.air.a ELSE R.air.b
           q == Push(F.q, F.next)
<1>1. CanMove /\ turn \in W /\ Reference!Executing({"STP"})
  <2>1. OpTable[F.op + 1] = "STP"
    <3>1. Executing({O.STP})
      BY DEF Stp
    <3>2. Fetched.op \in {O.STP} /\ Fetched.op \in 0 .. 18
      BY <3>1, ExecutingDecoded
    <3> QED BY <3>2, OpDecoded
  <2> QED BY <2>1, ExecutingDecoded DEF Stp, CanMove, IInv, Typed
<1>2. IsFetched(F) /\ SameFetched(F, R)
  BY <1>1, FetchedDecoded
<1>3. core' = F.core /\ EndTurn(q)
  BY DEF Stp
<1>4. (CASE F.m = M.A  -> SetPspace(turn, F.y.a, F.x.a)
         [] F.m = M.AB -> SetPspace(turn, F.y.b, F.x.a)
         [] F.m = M.BA -> SetPspace(turn, F.y.a, F.x.b)
         [] OTHER      -> SetPspace(turn, F.y.b, F.x.b))
  BY DEF Stp
<1>5. q \in Ring /\ q.len <= MaxProcesses /\ Live(q) = Reference!Requeued(R.next)
  BY <1>1, <1>2, Requeue DEF IsFetched, SameFetched
<1> HIDE DEF F, R, q
<1>6. /\ R.m = "A" <=> F.m = M.A
      /\ R.m = "AB" <=> F.m = M.AB
      /\ R.m = "BA" <=> F.m = M.BA
      /\ M.A # M.AB /\ M.A # M.BA /\ M.AB # M.BA
  BY <1>2, ModifierDecoded DEF IsFetched, SameFetched, M
<1>7. /\ F.x.a \in Addr /\ F.x.b \in Addr /\ F.y.a \in Addr /\ F.y.b \in Addr
      /\ F.x.a = R.air.a /\ F.x.b = R.air.b /\ F.y.a = R.bir.a /\ F.y.b = R.bir.b
  BY <1>2 DEF IsFetched, SameFetched, Numbered
<1>8. i \in Addr /\ v \in Addr
  BY <1>7
<1>9. SetPspace(turn, i, v)
  BY <1>4, <1>6, <1>7
<1> HIDE DEF i, v
<1>10. /\ Reference!SetPspace(turn, i, v)
       /\ pspace' \in [W -> Bank] /\ lastResult' \in [W -> Addr]
  BY <1>1, <1>3, <1>8, <1>9, SetDecoded DEF CanMove, EndTurn
<1>11. Cells' = R.core /\ core' \in Core
  BY <1>2, <1>3 DEF Cells, IsFetched, SameFetched
<1>12. Reference!Keeps(R)
  BY <1>11 DEF Reference!Keeps, Reference!Note
<1>13. Reference!EndTurn(Reference!Requeued(R.next)) /\ IInv'
  BY <1>1, <1>3, <1>5, <1>10, <1>11, EndTurnDecoded, EndTurnIInv
<1> QED BY <1>1, <1>10, <1>12, <1>13 DEF Reference!Stp, R, i, v

\* Every instruction is one of the reference, and leaves a state of the engine.
LEMMA StepDecoded == ASSUME IInv, Step PROVE Reference!Step /\ IInv'
<1>dat. CASE Dat BY <1>dat, DatDecoded DEF Reference!Step
<1>nop. CASE Nop BY <1>nop, NopDecoded DEF Reference!Step
<1>mov. CASE Mov BY <1>mov, MovDecoded DEF Reference!Step
<1>arithmetic. CASE Arithmetic BY <1>arithmetic, ArithmeticDecoded DEF Reference!Step
<1>division. CASE Division BY <1>division, DivisionDecoded DEF Reference!Step
<1>jmp. CASE Jmp BY <1>jmp, JmpDecoded DEF Reference!Step
<1>jmz. CASE Jmz BY <1>jmz, JmzDecoded DEF Reference!Step
<1>jmn. CASE Jmn BY <1>jmn, JmnDecoded DEF Reference!Step
<1>djn. CASE Djn BY <1>djn, DjnDecoded DEF Reference!Step
<1>spl. CASE Spl BY <1>spl, SplDecoded DEF Reference!Step
<1>slt. CASE Slt BY <1>slt, SltDecoded DEF Reference!Step
<1>compare. CASE Compare BY <1>compare, CompareDecoded DEF Reference!Step
<1>ldp. CASE Ldp BY <1>ldp, LdpDecoded DEF Reference!Step
<1>stp. CASE Stp BY <1>stp, StpDecoded DEF Reference!Step
<1> QED BY <1>dat, <1>nop, <1>mov, <1>arithmetic, <1>division, <1>jmp, <1>jmz, <1>jmn,
           <1>djn, <1>spl, <1>slt, <1>compare, <1>ldp, <1>stp DEF Step

-----------------------------------------------------------------------------
\* Loading.

\* What loading a warrior goes through: the core and the address to go on at.
Laying == [core: Core, at: Addr]
LaidBy(hist, c, code, at) ==
  /\ hist \in [0 .. Len(code) -> Laying]
  /\ hist[0] = [core |-> c, at |-> at]
  /\ \A i \in 1 .. Len(code) : hist[i] = Laid(hist[i - 1], code[i])
  /\ Lay(c, code, at) = hist[Len(code)].core

\* Laying one cell.
LEMMA LaidOne ==
  ASSUME NEW l \in Laying, NEW cell \in Cell
  PROVE  /\ Laid(l, cell) \in Laying
         /\ Laid(l, cell).core = [l.core EXCEPT ![l.at] = cell]
         /\ Laid(l, cell).at = Postinc(l.at)
<1>1. l.core \in Core /\ l.at \in Addr
  BY DEF Laying
<1>2. [l.core EXCEPT ![l.at] = cell] \in Core
  BY <1>1 DEF Core
<1>3. Postinc(l.at) \in Addr
  BY <1>1, RingArithmetic
<1> QED BY <1>2, <1>3 DEF Laid, Laying, Postinc

\* Code is laid cell by cell.
LEMMA LayHistory ==
  ASSUME NEW c \in Core, NEW code \in Seq(Cell), NEW at \in Addr
  PROVE  \E hist : LaidBy(hist, c, code, at)
<1> DEFINE n == Len(code)
           V == Laying
           v0 == [core |-> c, at |-> at]
           F == [q \in (1 .. n) \X V |-> Laid(q[2], code[q[1]])]
<1>1. n \in Nat /\ DOMAIN code = 1 .. n /\ v0 \in V
  BY DEF Laying
<1>2. ASSUME NEW v \in V, NEW i \in 1 .. n PROVE Laid(v, code[i]) \in V
  <2>1. code[i] \in Cell
    BY <1>1
  <2> QED BY <2>1, LaidOne
<1> HIDE DEF n, V, v0
<1>3. F \in [(1 .. n) \X V -> V]
  BY <1>2
<1>4. PICK g \in [SUBSET (1 .. n) -> V] : IsFold(g, n, v0, F)
  <2> HIDE DEF F
  <2> QED BY <1>1, <1>3, FoldExists
<1> DEFINE Is(it) == it = [s \in SUBSET (1 .. n) |->
                            IF s = {} THEN v0 ELSE Laid(it[s \ {Max(s)}], code[Max(s)])]
           iter == CHOOSE it : Is(it)
<1>5. Is(g)
  <2>1. ASSUME NEW s \in SUBSET (1 .. n), s # {}
        PROVE  g[s] = Laid(g[s \ {Max(s)}], code[Max(s)])
    <3> DEFINE x == Max(s)
    <3>1. x \in 1 .. n
      BY <1>1, <2>1, MaxIn
    <3> HIDE DEF x
    <3>2. s \ {x} \in SUBSET (1 .. n) /\ g[s \ {x}] \in V
      OBVIOUS
    <3> QED BY <1>4, <2>1, <3>1, <3>2 DEF x, IsFold
  <2>2. g[{}] = v0
    BY <1>4 DEF IsFold
  <2> QED BY <2>1, <2>2
<1>6. Is(iter)
  <2> HIDE DEF Is
  <2> QED BY <1>5
<1>7. Lay(c, code, at) = iter[1 .. n].core
  BY <1>1 DEF Lay, FoldLeft, MapThenFoldSet, v0
<1> HIDE DEF iter
<1>8. HasHistory(n, V, v0, F, iter[1 .. n])
  <2>1. iter[{}] = v0
    BY <1>6
  <2>2. ASSUME NEW s \in SUBSET (1 .. n), s # {}, iter[s \ {Max(s)}] \in V
        PROVE  iter[s] = F[<<Max(s), iter[s \ {Max(s)}]>>]
    <3>1. Max(s) \in 1 .. n
      BY <1>1, <2>2, MaxIn
    <3>2. iter[s] = Laid(iter[s \ {Max(s)}], code[Max(s)])
      BY <1>6, <2>2
    <3> QED BY <2>2, <3>1, <3>2
  <2>3. FoldsIn(V, iter, n, F)
    BY <2>2 DEF FoldsIn
  <2> HIDE DEF F
  <2> QED BY <1>1, <1>3, <2>1, <2>3, FoldSteps
<1>9. PICK hist \in [0 .. n -> V] :
        /\ hist[0] = v0
        /\ hist[n] = iter[1 .. n]
        /\ \A i \in 1 .. n : hist[i] = F[<<i, hist[i - 1]>>]
  <2> HIDE DEF F
  <2> QED BY <1>8 DEF HasHistory
<1>10. \A i \in 1 .. n : hist[i] = Laid(hist[i - 1], code[i])
  <2> SUFFICES ASSUME NEW i \in 1 .. n PROVE hist[i] = Laid(hist[i - 1], code[i])
    OBVIOUS
  <2>1. i - 1 \in 0 .. n
    BY <1>1
  <2>2. hist[i - 1] \in V /\ hist[i] = F[<<i, hist[i - 1]>>]
    BY <1>9, <2>1
  <2> QED BY <2>2
<1> QED BY <1>7, <1>9, <1>10 DEF LaidBy, n, V, v0

\* A ring has one place for each offset.
LEMMA Offset ==
  ASSUME NEW at \in Addr, NEW i \in Addr
  PROVE  /\ (i - at) % CoreSize \in 0 .. CoreSize - 1
         /\ \A k \in 0 .. CoreSize - 1 : (i - at) % CoreSize = k <=> i = Fold(at + k)
<1>1. PICK c \in Nat : c = CoreSize /\ c >= 2
  BY Constants
<1>2. PICK d \in Int : d = i - at
  BY DEF Addr
<1>3. d % c = IF d >= 0 THEN d ELSE d + c
  <2>1. d >= -c /\ d < c
    BY <1>1, <1>2 DEF Addr
  <2> QED BY <1>1, <2>1
<1> QED BY <1>1, <1>2, <1>3 DEF Addr, Fold

\* After k cells the first k places from at hold them and the others what they
\* held.
LEMMA LayPlaces ==
  ASSUME NEW c \in Core, NEW code \in Seq(Cell), NEW at \in Addr, Len(code) <= CoreSize
  PROVE  /\ Lay(c, code, at) \in Core
         /\ \A i \in Addr : Lay(c, code, at)[i] = LET k == (i - at) % CoreSize
                                                  IN IF k < Len(code) THEN code[k + 1] ELSE c[i]
<1> DEFINE n == Len(code)
           Off(i) == (i - at) % CoreSize
<1>1. PICK hist : LaidBy(hist, c, code, at)
  BY LayHistory
<1> DEFINE Good(k) == /\ hist[k].at = Fold(at + k)
                      /\ \A i \in Addr : hist[k].core[i] = IF Off(i) < k THEN code[Off(i) + 1] ELSE c[i]
           T == {k \in Nat : k <= n => Good(k)}
<1>2. n \in Nat /\ CoreSize \in Nat /\ n <= CoreSize
  BY Constants
<1>3. \A i \in Addr : Off(i) \in 0 .. CoreSize - 1
  BY Offset
<1>4. 0 \in T
  <2>1. hist[0] = [core |-> c, at |-> at]
    BY <1>1 DEF LaidBy
  <2>2. Fold(at + 0) = at
    BY Constants DEF Fold, Addr
  <2>3. \A i \in Addr : ~ (Off(i) < 0)
    BY <1>2, <1>3
  <2> HIDE DEF Off
  <2> QED BY <2>1, <2>2, <2>3
<1>5. ASSUME NEW k \in Nat, k \in T PROVE k + 1 \in T
  <2> SUFFICES ASSUME k + 1 <= n PROVE Good(k + 1)
    OBVIOUS
  <2>1. k \in 0 .. n /\ k + 1 \in 1 .. n /\ (k + 1) - 1 = k /\ k \in 0 .. CoreSize - 1 /\ Good(k)
    BY <1>2, <1>5
  <2> HIDE DEF Good
  <2>2. hist[k + 1] = Laid(hist[k], code[k + 1]) /\ hist[k] \in Laying /\ code[k + 1] \in Cell
    BY <1>1, <2>1 DEF LaidBy
  <2>3. /\ hist[k + 1].core = [hist[k].core EXCEPT ![hist[k].at] = code[k + 1]]
        /\ hist[k + 1].at = Postinc(hist[k].at)
        /\ hist[k].core \in Core /\ hist[k].at \in Addr
    BY <2>2, LaidOne DEF Laying
  <2>4. hist[k].at = Fold(at + k)
    BY <2>1 DEF Good
  <2>5. Postinc(hist[k].at) = Fold(at + (k + 1))
    BY <1>2, <2>1, <2>4 DEF Postinc, Fold, Addr
  <2>6. ASSUME NEW i \in Addr
        PROVE  hist[k + 1].core[i] = IF Off(i) < k + 1 THEN code[Off(i) + 1] ELSE c[i]
    <3>1. hist[k].core[i] = IF Off(i) < k THEN code[Off(i) + 1] ELSE c[i]
      BY <2>1 DEF Good
    <3>2. Off(i) = k <=> i = hist[k].at
      BY <2>1, <2>4, Offset
    <3>3. Off(i) \in Nat
      BY <1>3
    <3> HIDE DEF Off
    <3>4. CASE i = hist[k].at
      <4>1. hist[k + 1].core[i] = code[k + 1]
        BY <2>3, <3>4 DEF Core
      <4> QED BY <3>2, <3>4, <4>1
    <3>5. CASE i # hist[k].at
      <4>1. hist[k + 1].core[i] = hist[k].core[i]
        BY <2>3, <3>5 DEF Core
      <4>2. Off(i) < k + 1 <=> Off(i) < k
        BY <3>2, <3>3, <3>5
      <4> QED BY <3>1, <4>1, <4>2
    <3> QED BY <3>4, <3>5
  <2> QED BY <2>3, <2>5, <2>6 DEF Good
<1>6. Nat \subseteq T
  <2> HIDE DEF T
  <2> QED BY <1>4, <1>5, AllNaturals
<1>7. Good(n)
  <2> HIDE DEF Good
  <2> QED BY <1>2, <1>6
<1>8. Lay(c, code, at) = hist[n].core /\ hist[n] \in Laying
  BY <1>1, <1>2 DEF LaidBy
<1> HIDE DEF n
<1> QED BY <1>7, <1>8 DEF Laying, n

\* A warrior is loaded as the reference places it.
LEMMA LoadDecoded ==
  ASSUME NEW c \in Core, NEW w \in Warrior, NEW at \in Addr, Len(w.code) <= CoreSize
  PROVE  /\ Lay(c, Compiled(w).code, at) \in Core
         /\ Decoded(Lay(c, Compiled(w).code, at)) = Reference!Placed(Decoded(c), w, at)
<1> DEFINE n == Len(w.code)
           code == [k \in 1 .. n |-> Encode(w.code[k])]
           r == Lay(c, code, at)
<1>1. w.code \in Seq(Instruction) /\ n \in Nat /\ \A k \in 1 .. n : w.code[k] \in Instruction
  BY DEF Warrior
<1>2. \A k \in 1 .. n : Encode(w.code[k]) \in Cell /\ Decode(Encode(w.code[k])) = w.code[k]
  BY <1>1, EncodeDecode
<1>3. code \in Seq(Cell) /\ Len(code) = n /\ Compiled(w).code = code
  BY <1>1, <1>2 DEF Compiled
<1>4. \A k \in 1 .. n : Decode(code[k]) = w.code[k]
  BY <1>2
<1> HIDE DEF code
<1>5. /\ r \in Core
      /\ \A i \in Addr : r[i] = LET k == (i - at) % CoreSize
                                IN IF k < n THEN code[k + 1] ELSE c[i]
  BY <1>3, LayPlaces
<1> HIDE DEF r
<1>6. ASSUME NEW i \in Addr
      PROVE  Decode(r[i]) = LET k == (i - at) % CoreSize
                            IN IF k < n THEN w.code[k + 1] ELSE Decoded(c)[i]
  <2>1. PICK k \in 0 .. CoreSize - 1 : k = (i - at) % CoreSize
    BY Offset
  <2>2. r[i] = IF k < n THEN code[k + 1] ELSE c[i]
    BY <1>5, <2>1
  <2>3. k < n => k + 1 \in 1 .. n
    BY <1>1, Constants
  <2>4. Decoded(c)[i] = Decode(c[i])
    BY DEF Decoded
  <2> HIDE DEF n
  <2> QED BY <1>4, <2>1, <2>2, <2>3, <2>4
<1>7. Decoded(r) = [i \in Addr |-> Decode(r[i])]
  BY <1>5 DEF Decoded, Core
<1>8. Decoded(r) = Reference!Placed(Decoded(c), w, at)
  BY <1>6, <1>7, SameNames DEF Reference!Placed
<1> QED BY <1>3, <1>5, <1>8 DEF r

-----------------------------------------------------------------------------
\* Matches and rounds.

LEMMA BeginMatchDecoded ==
  ASSUME IInv, NEW j \in Jobs, BeginMatch(j)
  PROVE  Reference!BeginMatch(j) /\ IInv'
<1> DEFINE shared == Reference!Shared(j)
<1>1. /\ bank' = [w \in W |-> IF shared THEN 0 ELSE w]
      /\ pspace' = [b \in W |-> FreshBank]
      /\ lastResult' = [w \in W |-> CoreSize - 1]
      /\ job' = j /\ seed' = j.seed /\ round' = 0 /\ score' = NoScore
      /\ phase = "idle" /\ Len(ledger) < MaxMatches /\ phase' = "ready"
      /\ UNCHANGED <<core, qbuf, head, len, pos, turn, budget, outcome, ledger>>
  BY DEF BeginMatch, Reference!Shared, queue
<1> HIDE DEF shared
<1>2. Reference!FreshBank = FreshBank /\ FreshBank \in Bank
  BY SameNames, Constants DEF Reference!FreshBank, Reference!PCells, FreshBank, Bank, Addr
<1>3. Banks' = [b \in (IF shared THEN {0} ELSE W) |-> Reference!FreshBank]
  <2>1. {bank'[w] : w \in W} = IF shared THEN {0} ELSE W
    BY <1>1 DEF W
  <2>2. Banks' = [b \in {bank'[w] : w \in W} |-> pspace'[b]]
    BY DEF Banks
  <2>3. \A b \in {bank'[w] : w \in W} : b \in W
    BY <2>1 DEF W
  <2> QED BY <1>1, <1>2, <2>1, <2>2, <2>3
<1>4. /\ Cells' = Cells /\ Processes' = Processes /\ Left' = Left /\ Done' = Done
  BY <1>1 DEF Cells, Processes, Queue, Left, Fatal, Done
<1>5. Reference!BeginMatch(j)
  BY <1>1, <1>3, <1>4, SameNames
     DEF Reference!BeginMatch, Reference!FreshResults, Reference!turn, Reference!NoScore, NoScore, shared
<1>6. j.seed \in I32 /\ 0 \in 0 .. Rounds
  BY FastAssumption
<1>7. bank' \in [W -> W] /\ lastResult' \in [W -> Addr] /\ pspace' \in [W -> Bank]
  BY <1>1, <1>2, Constants DEF W, Addr
<1>8. Typed' /\ Playing'
  BY <1>1, <1>6, <1>7 DEF IInv, Typed, Playing
<1> QED BY <1>5, <1>8 DEF IInv

\* No seed places warrior 1 nearer than MinDistance to warrior 0.
LEMMA PositionRange ==
  ASSUME NEW s \in I32
  PROVE  LET p == MinDistance + (s % (CoreSize + 1 - 2 * MinDistance))
         IN p \in Addr /\ p # 0
<1> DEFINE n == CoreSize + 1 - 2 * MinDistance
<1>1. /\ CoreSize \in Nat /\ MinDistance \in Nat /\ MinDistance >= 1
      /\ n \in Nat /\ n >= 1
  BY Constants
<1>2. s % n \in 0 .. n - 1
  BY <1>1, SMT DEF I32
<1> QED BY <1>1, <1>2 DEF Addr

LEMMA TimeUpDecoded == ASSUME IInv, TimeUp PROVE Reference!TimeUp /\ IInv'
<1>1. /\ phase = "running" /\ outcome = "none" /\ budget = 0 /\ outcome' = "tie"
      /\ UNCHANGED <<core, qbuf, head, len, pspace, bank, lastResult, job, seed, round, pos, score,
                     turn, budget, phase, ledger>>
  BY DEF TimeUp, queue, memory, match
<1>2. /\ Left = 0 /\ Left' = Left /\ Done' = Done /\ Cells' = Cells
      /\ Processes' = Processes /\ Banks' = Banks
  BY <1>1 DEF Left, Fatal, Done, Cells, Processes, Queue, Banks
<1>3. Reference!TimeUp
  BY <1>1, <1>2 DEF Reference!TimeUp, Reference!machine, Reference!match
<1>4. IInv'
  BY <1>1 DEF IInv, Typed, Playing, Outcomes
<1> QED BY <1>3, <1>4

LEMMA FinishRoundDecoded ==
  ASSUME ThreeCells, IInv, FinishRound
  PROVE  Reference!FinishRound /\ IInv'
<1>1. /\ phase = "running" /\ outcome # "none" /\ phase' = "ready"
      /\ UNCHANGED <<core, qbuf, head, len, pspace, bank, job, seed, round, pos,
                     turn, budget, outcome, ledger>>
      /\ lastResult' = IF outcome = "tie" THEN [w \in W |-> 2]
                       ELSE [w \in W |-> IF outcome = Win(w) THEN 1 ELSE 0]
      /\ score' = CASE outcome = "win0" -> [score EXCEPT !.w1 = @ + 1]
                    [] outcome = "win1" -> [score EXCEPT !.w2 = @ + 1]
                    [] outcome = "tie"  -> [score EXCEPT !.ties = @ + 1]
  BY DEF FinishRound, queue
<1>2. /\ Left' = Left /\ Done' = Done /\ Cells' = Cells
      /\ Processes' = Processes /\ Banks' = Banks
  BY <1>1 DEF Left, Fatal, Done, Cells, Processes, Queue, Banks
<1>3. lastResult' = [w \in W |-> Reference!ResultOf(w)]
  BY <1>1 DEF Reference!ResultOf, Reference!Win, Win
<1>4. Reference!FinishRound
  BY <1>1, <1>2, <1>3, SameNames DEF Reference!FinishRound, Reference!turn
<1>5. lastResult' \in [W -> Addr]
  BY <1>1, Constants DEF ThreeCells, Addr
<1>6. IInv'
  BY <1>1, <1>5 DEF IInv, Typed, Playing
<1> QED BY <1>4, <1>6

LEMMA FinishMatchDecoded == ASSUME IInv, FinishMatch PROVE Reference!FinishMatch /\ IInv'
<1>1. /\ phase = "ready" /\ round = Rounds /\ phase' = "idle"
      /\ ledger' = Append(ledger, [job |-> job, score |-> score])
      /\ UNCHANGED <<core, qbuf, head, len, pspace, bank, lastResult, job, seed, round, pos, score,
                     turn, budget, outcome>>
  BY DEF FinishMatch, queue, memory, match
<1>2. /\ Left' = Left /\ Done' = Done /\ Cells' = Cells
      /\ Processes' = Processes /\ Banks' = Banks
  BY <1>1 DEF Left, Fatal, Done, Cells, Processes, Queue, Banks
<1>3. Reference!FinishMatch
  BY <1>1, <1>2 DEF Reference!FinishMatch, Reference!machine, Reference!match, Reference!turn
<1>4. IInv'
  BY <1>1 DEF IInv, Typed, Playing
<1> QED BY <1>3, <1>4

\* The generator is the one of the reference.
LEMMA SameRng == \A s : Reference!PmarsRng(s) = PmarsRng(s)
BY DEF Reference!PmarsRng, PmarsRng, Reference!Rest, Rest, Reference!Quot, Quot

\* A start of a warrior on the ring.
LEMMA StartFolded ==
  ASSUME NEW p \in Addr, NEW s \in Addr
  PROVE  (p + s) % CoreSize = Reference!Add(p, s) /\ Reference!Add(p, s) \in Addr
BY CalcDecoded, RingArithmetic DEF Reference!Calc

\* A round starts as the reference's: the core cleared and both warriors
\* laid, one process each, whatever the round before left.
LEMMA StartRoundDecoded == ASSUME IInv, StartRound PROVE Reference!StartRound /\ IInv'
<1> DEFINE sep == MinDistance
           p == MinDistance + (seed % (CoreSize + 1 - 2 * MinDistance))
           t0 == job.team[0]
           t1 == job.team[1]
           blank == [i \in Addr |-> Zeroes]
           one == Lay(blank, Compiled(t0).code, 0)
           two == Lay(one, Compiled(t1).code, p)
           s0 == t0.start % CoreSize
           s1 == (p + t1.start) % CoreSize
<1>1. /\ phase = "ready" /\ round < Rounds /\ pos' = p /\ core' = two
      /\ qbuf' = [qbuf EXCEPT ![0][0] = s0, ![1][0] = s1]
      /\ head' = [w \in W |-> 0] /\ len' = [w \in W |-> 1]
      /\ seed' = PmarsRng(seed) /\ turn' = round % 2
      /\ budget' = 2 * MaxCycles /\ outcome' = "none" /\ round' = round + 1
      /\ phase' = "running"
      /\ UNCHANGED <<pspace, bank, lastResult, job, score, ledger>>
  BY DEF StartRound, memory, Compiled
<1>2. seed \in I32 /\ job \in Jobs /\ qbuf \in [W -> Buffer]
  BY <1>1 DEF IInv, Typed, Playing
<1>3. p \in Addr /\ p # 0 /\ 0 \in Addr
  BY <1>2, PositionRange, Constants DEF Addr
<1>4. /\ t0 \in Warrior /\ Len(t0.code) <= CoreSize
      /\ t1 \in Warrior /\ Len(t1.code) <= CoreSize
  <2>1. job.team \in [W -> Warrior] /\ \A w \in W : Len(job.team[w].code) <= MaxLength
    BY <1>2, FastAssumption
  <2>2. t0 \in Warrior /\ t1 \in Warrior /\ Len(t0.code) <= MaxLength /\ Len(t1.code) <= MaxLength
    BY <2>1 DEF W
  <2>3. Len(t0.code) \in Nat /\ Len(t1.code) \in Nat
    BY <2>2 DEF Warrior
  <2> QED BY <2>2, <2>3, Constants
<1> HIDE DEF p, t0, t1
<1>5. blank \in Core /\ Decoded(blank) = [i \in Addr |-> EMPTY]
  <2>1. blank \in Core
    BY ZeroesDecoded DEF Core
  <2>2. \A i \in Addr : Decode(blank[i]) = EMPTY
    BY ZeroesDecoded
  <2> HIDE DEF blank
  <2> QED BY <2>1, <2>2 DEF Decoded
<1> HIDE DEF blank
<1>6. one \in Core /\ Decoded(one) = Reference!Placed(Decoded(blank), t0, 0)
  BY <1>3, <1>4, <1>5, LoadDecoded
<1> HIDE DEF one
<1>7. two \in Core /\ Decoded(two) = Reference!Placed(Decoded(one), t1, p)
  BY <1>3, <1>4, <1>6, LoadDecoded
<1> HIDE DEF two
<1>8. /\ s0 = Reference!Add(0, t0.start) /\ s0 \in Addr
      /\ s1 = Reference!Add(p, t1.start) /\ s1 \in Addr
  <2>1. t0.start \in Addr /\ t1.start \in Addr
    BY <1>4 DEF Warrior
  <2>2. 0 + t0.start = t0.start
    BY <2>1 DEF Addr
  <2> QED BY <1>3, <2>1, <2>2, StartFolded
<1> HIDE DEF s0, s1
<1>9. /\ qbuf' \in [W -> Buffer]
      /\ qbuf'[0][0] = s0 /\ qbuf'[1][0] = s1
  <2>1. 0 \in 0 .. Slots - 1 /\ 0 \in W /\ 1 \in W
    BY RingSize, Constants DEF W
  <2>2. [qbuf[0] EXCEPT ![0] = s0] \in Buffer /\ [qbuf[1] EXCEPT ![0] = s1] \in Buffer
    BY <1>2, <1>8, <2>1 DEF Buffer
  <2>3. qbuf' = [qbuf EXCEPT ![0] = [qbuf[0] EXCEPT ![0] = s0],
                             ![1] = [qbuf[1] EXCEPT ![0] = s1]]
    BY <1>1, <1>2, <2>1
  <2>4. qbuf'[0] = [qbuf[0] EXCEPT ![0] = s0] /\ qbuf'[1] = [qbuf[1] EXCEPT ![0] = s1]
    BY <1>2, <2>1, <2>3
  <2> QED BY <1>2, <2>1, <2>2, <2>3, <2>4 DEF Buffer, W
<1>10. Processes' = [w \in W |-> << qbuf'[w][0] >>]
  <2>1. ASSUME NEW w \in W PROVE Processes'[w] = << qbuf'[w][0] >>
    <3>1. Processes'[w] = Live([buf |-> qbuf'[w], head |-> 0, len |-> 1])
      BY <1>1 DEF Processes, Queue
    <3>2. (0 + 1 - 1) % Slots = 0
      BY RingSize, Constants
    <3>3. Live([buf |-> qbuf'[w], head |-> 0, len |-> 1]) = [k \in 1 .. 1 |-> qbuf'[w][(0 + k - 1) % Slots]]
      BY DEF Live
    <3>4. \A k \in 1 .. 1 : qbuf'[w][(0 + k - 1) % Slots] = qbuf'[w][0]
      BY <3>2
    <3> QED BY <3>1, <3>3, <3>4
  <2>2. Processes' = [w \in W |-> Processes'[w]]
    BY DEF Processes
  <2> QED BY <2>1, <2>2
<1>11. Processes' = [w \in W |-> << Reference!Add(IF w = 0 THEN 0 ELSE p, job.team[w].start) >>]
  BY <1>8, <1>9, <1>10 DEF W, t0, t1
<1>12. /\ Cells' = Reference!Placed(Reference!Placed([i \in Addr |-> EMPTY], job.team[0], 0), job.team[1], p)
       /\ core' \in Core
  BY <1>1, <1>5, <1>6, <1>7 DEF Cells, t0, t1
<1>13. /\ Left' = 2 * MaxCycles /\ Done' = 0 /\ Banks' = Banks
  BY <1>1, <1>3, Constants DEF Left, Fatal, Done, Banks
<1>14. p = Reference!Position(seed)
  BY DEF Reference!Position, p
<1>15. Reference!StartRound
  BY <1>1, <1>11, <1>12, <1>13, <1>14, SameNames, SameRng DEF Reference!StartRound
<1>16. PmarsRng(seed) \in I32
  BY <1>2, RngRange
<1>17. Typed'
  <2>1. head' \in [W -> 0 .. Slots - 1] /\ len' \in [W -> 0 .. MaxProcesses]
    BY <1>1, RingSize, Constants
  <2>2. turn' \in W /\ budget' \in 0 .. 2 * MaxCycles /\ round' \in 0 .. Rounds
    <3>1. round \in Nat /\ Rounds \in Nat /\ round + 1 <= Rounds
      BY <1>1, FastAssumption DEF IInv, Typed
    <3> QED BY <1>1, <3>1, Constants DEF W
  <2> QED BY <1>1, <1>2, <1>3, <1>9, <1>12, <1>16, <2>1, <2>2 DEF IInv, Typed, Outcomes
<1>18. Playing'
  BY <1>1, <1>2, <1>3 DEF Playing
<1> QED BY <1>15, <1>17, <1>18 DEF IInv

\* The engine starts as the reference does.
LEMMA InitDecoded == ASSUME Init PROVE Reference!Init /\ IInv
<1>1. core = [i \in Addr |-> Zeroes] /\ core \in Core /\ Cells = [i \in Addr |-> EMPTY]
  BY ZeroesDecoded DEF Init, Core, Cells, Decoded
<1>2. Processes = [w \in W |-> << >>]
  <2>1. \A w \in W : Queue(w) = [buf |-> qbuf[w], head |-> 0, len |-> 0]
    BY DEF Init, Queue
  <2>2. \A w \in W : Live(Queue(w)) = << >>
    BY <2>1 DEF Live
  <2> QED BY <2>2 DEF Processes
<1>3. Reference!FreshBank = FreshBank /\ FreshBank \in Bank
  BY SameNames, Constants DEF Reference!FreshBank, Reference!PCells, FreshBank, Bank, Addr
<1>4. Banks = [w \in W |-> Reference!FreshBank]
  <2>1. {bank[w] : w \in W} = W
    BY DEF Init
  <2> QED BY <1>3, <2>1 DEF Init, Banks
<1>5. Left = 0 /\ Done = 0
  BY DEF Init, Left, Fatal, Done
<1>6. Reference!Init
  BY <1>1, <1>2, <1>4, <1>5, SameNames DEF Init, Reference!Init, Reference!NoScore, NoScore
<1>7. Typed
  <2>1. 0 \in Addr /\ CoreSize - 1 \in Addr /\ 0 \in 0 .. Slots - 1 /\ 0 \in 0 .. MaxProcesses
    BY Constants, RingSize DEF Addr
  <2>2. /\ qbuf \in [W -> Buffer] /\ head \in [W -> 0 .. Slots - 1] /\ len \in [W -> 0 .. MaxProcesses]
        /\ pspace \in [W -> Bank] /\ bank \in [W -> W] /\ lastResult \in [W -> Addr]
    BY <1>3, <2>1 DEF Init, Buffer
  <2>3. 0 \in I32 /\ 0 \in W /\ 0 \in 0 .. 2 * MaxCycles /\ 0 \in 0 .. Rounds
    BY I32Bounds, Constants, FastAssumption DEF W
  <2> QED BY <1>1, <2>1, <2>2, <2>3 DEF Init, Typed, Outcomes
<1>8. Playing
  BY DEF Init, Playing
<1> QED BY <1>6, <1>7, <1>8 DEF IInv

\* Every step is one of the reference.
LEMMA NextDecoded == ASSUME ThreeCells, IInv, Next PROVE Reference!Next /\ IInv'
<1>1. CASE \E j \in Jobs : BeginMatch(j)
  BY <1>1, BeginMatchDecoded DEF Reference!Next
<1>2. CASE StartRound
  BY <1>2, StartRoundDecoded DEF Reference!Next
<1>3. CASE Step
  BY <1>3, StepDecoded DEF Reference!Next
<1>4. CASE TimeUp
  BY <1>4, TimeUpDecoded DEF Reference!Next
<1>5. CASE FinishRound
  BY <1>5, FinishRoundDecoded DEF Reference!Next
<1>6. CASE FinishMatch
  BY <1>6, FinishMatchDecoded DEF Reference!Next
<1> QED BY <1>1, <1>2, <1>3, <1>4, <1>5, <1>6 DEF Next

\* What changes nothing here changes nothing there.
LEMMA StutterDecoded == ASSUME IInv, UNCHANGED vars PROVE UNCHANGED Reference!vars /\ IInv'
<1>1. UNCHANGED <<core, qbuf, head, len, pspace, bank, lastResult, job, seed, round, pos, score,
                  turn, budget, outcome, phase, ledger>>
  BY DEF vars, queue, memory, match
<1>2. /\ Left' = Left /\ Done' = Done /\ Cells' = Cells
      /\ Processes' = Processes /\ Banks' = Banks
  BY <1>1 DEF Left, Fatal, Done, Cells, Processes, Queue, Banks
<1>3. UNCHANGED Reference!vars
  BY <1>1, <1>2 DEF Reference!vars, Reference!machine, Reference!match, Reference!turn
<1>4. IInv'
  BY <1>1 DEF IInv, Typed, Playing
<1> QED BY <1>3, <1>4

-----------------------------------------------------------------------------
\* The results.

\* The inductive invariant.
THEOREM FastInvariant ==
  ASSUME ThreeCells
  PROVE  Spec => []IInv
<1>1. Init => IInv
  BY InitDecoded
<1>2. IInv /\ [Next]_vars => IInv'
  BY NextDecoded, StutterDecoded
<1> QED BY <1>1, <1>2, PTL DEF Spec

\* No ring index leaves its buffer, no queue its limit, no number its 16 bits
\* and no encoded byte its table.
THEOREM FastTyped ==
  ASSUME ThreeCells
  PROVE  Spec => []TypeOK
<1>1. IInv => TypeOK
  <2> SUFFICES ASSUME IInv PROVE TypeOK
    OBVIOUS
  <2>1. ASSUME NEW i \in Addr
        PROVE  /\ core[i].a \in 0 .. MaxU16 /\ core[i].b \in 0 .. MaxU16
               /\ core[i].opm \div 8 \in 0 .. 18 /\ core[i].opm % 8 \in 0 .. 6
               /\ core[i].am \in 0 .. 7 /\ core[i].bm \in 0 .. 7
    <3>1. core[i] \in Cell
      BY DEF IInv, Typed, Core
    <3>2. Addr \subseteq 0 .. MaxU16
      <4>1. MaxU16 \in Nat /\ CoreSize <= MaxU16
        BY Constants DEF MaxU16
      <4> QED BY <4>1, Constants DEF Addr
    <3> QED BY <3>1, <3>2 DEF Cell, Opms
  <2>2. ASSUME NEW w \in W
        PROVE  /\ head[w] \in 0 .. Slots - 1 /\ len[w] \in 0 .. MaxProcesses
               /\ qbuf[w] \in [0 .. Slots - 1 -> Addr]
    BY DEF IInv, Typed, Buffer
  <2> QED BY <2>1, <2>2 DEF TypeOK, IInv, Typed
<1> QED BY <1>1, FastInvariant, PTL

\* The fast engine implements the reference engine.
THEOREM FastRefinesMars ==
  ASSUME ThreeCells
  PROVE  Spec => FastIsMars
<1>1. Init => Reference!Init
  BY InitDecoded
<1>2. IInv /\ [Next]_vars => [Reference!Next]_Reference!vars
  BY NextDecoded, StutterDecoded
<1> QED BY <1>1, <1>2, FastInvariant, PTL DEF Spec, FastIsMars

=============================================================================
