-------------------------- MODULE AssemblerProofs --------------------------
(***************************************************************************)
(* Three invariants of the assembler, for every source and all values of   *)
(* the limits, two of them whatever the evaluator returns.                 *)
(*                                                                         *)
(* First, the two limits: neither is passed, one that is met is reported   *)
(* once, and then there is no warrior (LimitsKept).  That alone is not     *)
(* inductive.  That the depth is within its limit after a return rests on  *)
(* the depths the active calls were made at (Framed); that the expansions  *)
(* are within theirs rests on a limit that was met having stopped the      *)
(* lines (halted => ~vcont in Sound), since only a line that goes on is    *)
(* expanded.                                                               *)
(*                                                                         *)
(* Second, the bookkeeping of the recursion (CallsUnwind).  Its invariant  *)
(* (CInv) says of the whole stack what a return needs of the call below:   *)
(* the depths calls are made at never decrease inward (Nested), and the    *)
(* counters end in that of the innermost block (Linked).  That pass 2      *)
(* never replaces a counter rests on a counter without a running block     *)
(* having no name (Book), and on no block running then (Automata).         *)
(*                                                                         *)
(* Third, the types of the fields (TypeOK), for an evaluator that returns  *)
(* what its signature says (Evaluates), and what they leave to be said of  *)
(* an accepted warrior (AcceptedFits).  The invariant (TInv) says where    *)
(* the code indexes: while a call is active it reads a line that is there  *)
(* (At), a text symbol has a text other than the source, a call that goes  *)
(* on elsewhere goes on at a line (Placed), and counters count within the  *)
(* bits of a FOR count (Counts), of which names are made.  A line has no   *)
(* opcode only after an error, so none is accepted.                        *)
(***************************************************************************)
EXTENDS Assembler, TLAPS, WellFoundedInduction

\* The fields the limits are about.
Kept == {"depth", "expanded", "halted", "vcont", "diags"}

\* Where a limit is reported in d.
LimitsOf(d) == {n \in DOMAIN d : d[n].e \in {"Deep", "Work"}}
IsSequence(d) == \E S : d \in Seq(S)

Sound(m) ==
  /\ Kept \subseteq DOMAIN m
  /\ m.depth \in 0 .. MaxDepth /\ m.expanded \in 0 .. MaxExpansion + 1
  /\ m.halted \in BOOLEAN /\ m.vcont \in BOOLEAN
  /\ m.expanded > MaxExpansion => m.halted
  /\ m.halted => ~m.vcont
  /\ IsSequence(m.diags)
  /\ m.halted <=> LimitsOf(m.diags) # {}
  /\ \A d, f \in LimitsOf(m.diags) : d = f

\* An active call was made at a depth within the limit.
FrameOK(f) == "base" \in DOMAIN f /\ f.base \in 0 .. MaxDepth
Framed(s) == \E S : s \in Seq(S) /\ \A f \in S : FrameOK(f)

IInv == Sound(asm) /\ Framed(stack)

\* n is m but for what the limits do not depend on.
Same(m, n) ==
  /\ Kept \subseteq DOMAIN n
  /\ n.depth = m.depth /\ n.expanded = m.expanded /\ n.halted = m.halted
  /\ n.diags = m.diags /\ n.vcont \in BOOLEAN /\ (n.vcont => m.vcont)

-----------------------------------------------------------------------------
\* A state that differs in other fields only is sound if the first is.
LEMMA SameSound ==
  ASSUME NEW m, NEW n, Sound(m), Same(m, n)
  PROVE  Sound(n)
BY DEF Sound, Same

\* Reporting anything but a limit changes nothing about the limits.
LEMMA ErrSound ==
  ASSUME NEW m, NEW e, NEW loc, Sound(m), e \notin {"Deep", "Work"}
  PROVE  Sound(ErrAt(m, e, loc))
<1> DEFINE n == ErrAt(m, e, loc)
           rep == [e |-> e, line |-> loc]
<1>1. PICK S : m.diags \in Seq(S)
  BY DEF Sound, IsSequence
<1>2. /\ Kept \subseteq DOMAIN n /\ n.depth = m.depth /\ n.expanded = m.expanded
      /\ n.halted = m.halted /\ n.vcont = m.vcont /\ n.diags = Append(m.diags, rep)
  BY DEF Sound, Kept, ErrAt
<1>3. /\ Append(m.diags, rep) \in Seq(S \cup {rep})
      /\ DOMAIN Append(m.diags, rep) = DOMAIN m.diags \cup {Len(m.diags) + 1}
      /\ \A i \in DOMAIN m.diags : Append(m.diags, rep)[i] = m.diags[i]
      /\ Append(m.diags, rep)[Len(m.diags) + 1] = rep
      /\ Len(m.diags) + 1 \notin DOMAIN m.diags
  BY <1>1
<1>4. LimitsOf(n.diags) = LimitsOf(m.diags)
  <2>1. rep.e = e
    OBVIOUS
  <2> QED
    BY <1>2, <1>3, <2>1 DEF LimitsOf
<1>5. IsSequence(n.diags)
  BY <1>2, <1>3 DEF IsSequence
<1> QED
  BY <1>2, <1>4, <1>5 DEF Sound

\* Meeting a limit is reported once, and stops the lines.
LEMMA HaltSound ==
  ASSUME NEW m, NEW e, e \in {"Deep", "Work"},
         Kept \subseteq DOMAIN m, m.depth \in 0 .. MaxDepth, m.expanded \in 0 .. MaxExpansion + 1,
         m.halted \in BOOLEAN, IsSequence(m.diags), m.halted <=> LimitsOf(m.diags) # {},
         \A d, f \in LimitsOf(m.diags) : d = f
  PROVE  Sound(Halt(m, e)) /\ Halt(m, e).halted
<1> DEFINE rep == [e |-> e, line |-> Loc([m EXCEPT !.halted = TRUE])]
<1>1. CASE m.halted
  <2>1. Halt(m, e) = [m EXCEPT !.vcont = FALSE]
    BY <1>1 DEF Halt
  <2> QED
    BY <1>1, <2>1 DEF Sound, Kept
<1>2. CASE ~m.halted
  <2> DEFINE n == Halt(m, e)
  <2>1. PICK S : m.diags \in Seq(S)
    BY DEF IsSequence
  <2>2. /\ Kept \subseteq DOMAIN n /\ n.depth = m.depth /\ n.expanded = m.expanded
        /\ n.halted = TRUE /\ n.vcont = FALSE /\ n.diags = Append(m.diags, rep)
    BY <1>2 DEF Halt, Err, ErrAt, Kept
  <2>3. /\ Append(m.diags, rep) \in Seq(S \cup {rep})
        /\ DOMAIN Append(m.diags, rep) = DOMAIN m.diags \cup {Len(m.diags) + 1}
        /\ \A i \in DOMAIN m.diags : Append(m.diags, rep)[i] = m.diags[i]
        /\ Append(m.diags, rep)[Len(m.diags) + 1] = rep
    BY <2>1
  <2>4. LimitsOf(n.diags) = {Len(m.diags) + 1}
    <3>1. rep.e \in {"Deep", "Work"}
      OBVIOUS
    <3>2. LimitsOf(m.diags) = {}
      BY <1>2
    <3> QED
      BY <2>2, <2>3, <3>1, <3>2 DEF LimitsOf
  <2>5. IsSequence(n.diags)
    BY <2>2, <2>3 DEF IsSequence
  <2> QED
    BY <2>2, <2>4, <2>5 DEF Sound
<1> QED
  BY <1>1, <1>2

\* A line that goes on is expanded once more, or the limit is met.
LEMMA ExpandOneSound ==
  ASSUME NEW m, Sound(m), m.vcont
  PROVE  Sound(ExpandOne(m))
<1> DEFINE c == [m EXCEPT !.expanded = @ + 1]
<1> USE AssemblerAssumption
<1>1. /\ Kept \subseteq DOMAIN c /\ c.depth = m.depth /\ c.expanded = m.expanded + 1
      /\ c.halted = m.halted /\ c.vcont = m.vcont /\ c.diags = m.diags
  BY DEF Sound, Kept
<1>2. ~m.halted /\ m.expanded <= MaxExpansion
  BY DEF Sound
<1>3. c.expanded \in 0 .. MaxExpansion + 1
  BY <1>1, <1>2 DEF Sound
<1>4. CASE c.expanded > MaxExpansion
  <2>1. Sound(Halt(c, "Work"))
    BY <1>1, <1>3, HaltSound DEF Sound
  <2> QED
    BY <1>4, <2>1 DEF ExpandOne
<1>5. CASE ~(c.expanded > MaxExpansion)
  <2>1. Sound(c)
    BY <1>1, <1>2, <1>3, <1>5 DEF Sound
  <2> QED
    BY <1>5, <2>1 DEF ExpandOne
<1> QED
  BY <1>4, <1>5

-----------------------------------------------------------------------------
\* The helpers that do not touch the limits.

\* The assembler's helpers change neither counters nor limits.
LEMMA HelpersSame ==
  ASSUME NEW m, Sound(m)
  PROVE  /\ \A names, kind, v, visit : Same(m, PushRef(m, names, kind, v, visit))
         /\ Same(m, PopCounter(m)) /\ Same(m, Labelled(m))
         /\ \A text : Same(m, AddLine(m, text)) /\ Same(m, Defined(m, text))
         /\ \A r : Same(m, Evaluated(m, r))
         /\ \A op : Same(m, Numbered(m, op))
<1>1. ASSUME NEW names, NEW kind, NEW v, NEW visit
      PROVE  Same(m, PushRef(m, names, kind, v, visit))
  BY DEF Same, Sound, Kept, PushRef
<1>2. Same(m, PopCounter(m))
  BY DEF Same, Sound, Kept, PopCounter
<1>3. Same(m, Labelled(m))
  BY DEF Same, Sound, Kept, Labelled, PushRef
<1>4. ASSUME NEW text PROVE Same(m, AddLine(m, text))
  BY DEF Same, Sound, Kept, AddLine
<1>5. ASSUME NEW text PROVE Same(m, Defined(m, text))
  BY DEF Same, Sound, Kept, Defined, PushRef
<1>6. ASSUME NEW r PROVE Same(m, Evaluated(m, r))
  BY DEF Same, Sound, Kept, Evaluated
<1>7. ASSUME NEW op PROVE Same(m, Numbered(m, op))
  BY <1>3 DEF Same, Sound, Kept, Numbered
<1> QED
  BY <1>1, <1>2, <1>3, <1>4, <1>5, <1>6, <1>7

\* The helpers that may report something, never a limit.
LEMMA HelpersSound ==
  ASSUME NEW m, Sound(m)
  PROVE  /\ \A e : e \notin {"Deep", "Work"} => Sound(Err(m, e))
         /\ \A r : Sound(Overflown(m, r)) /\ Sound(Checked(m, r))
         /\ \A buf : Sound(Joined(m, buf).m)
         /\ \A i : Sound(ShellErr(m, i))
         /\ Sound(Counted(m))
<1>1. ASSUME NEW e, e \notin {"Deep", "Work"} PROVE Sound(Err(m, e))
  BY <1>1, ErrSound DEF Err
<1>2. ASSUME NEW r PROVE Sound(Overflown(m, r))
  BY <1>1 DEF Overflown
<1>3. ASSUME NEW r PROVE Sound(Checked(m, r))
  <2> DEFINE o == [Overflown(m, r) EXCEPT !.noassert = FALSE]
  <2>1. Sound(o)
    <3>1. Same(Overflown(m, r), o)
      BY <1>2 DEF Same, Sound, Kept
    <3> QED
      BY <1>2, <3>1, SameSound
  <2>2. Sound(Err(o, "Chk"))
    BY <2>1, ErrSound DEF Err
  <2>3. Sound(Err(m, "Bas"))
    BY <1>1
  <2> QED
    BY <2>1, <2>2, <2>3 DEF Checked
<1>4. ASSUME NEW buf PROVE Sound(Joined(m, buf).m)
  <2>1. Sound(Err(m, "Cat"))
    BY <1>1
  <2> QED
    BY <2>1 DEF Joined
<1>5. ASSUME NEW i PROVE Sound(ShellErr(m, i))
  <2>1. Sound(Err(m, "Syn")) /\ Sound(Err(m, "Nop"))
    BY <1>1
  <2> QED
    BY <2>1 DEF ShellErr
<1>6. Sound(Counted(m))
  <2> DEFINE empty   == [m EXCEPT !.symtbl = << >>]
             dropped == IF m.symtbl = << >> THEN m ELSE ErrAt(empty, "Dlb", 0)
             checked == IF m.noassert THEN ErrAt(dropped, "Nas", 0) ELSE dropped
             limited == IF m.line > MaxLength THEN ErrAt(checked, "Lin", 0) ELSE checked
             begun   == [limited EXCEPT !.line = 0, !.out = << >>, !.lists = Append(@, m.out),
                                        !.aline = <<Len(m.lists) + 1, 0>>]
  <2>1. Same(m, empty)
    BY DEF Same, Sound, Kept
  <2>2. Sound(dropped)
    BY <2>1, SameSound, ErrSound
  <2>3. Sound(checked)
    BY <2>2, ErrSound
  <2>4. Sound(limited)
    BY <2>3, ErrSound
  <2>5. Sound(begun)
    <3>1. Same(limited, begun)
      BY <2>4 DEF Same, Sound, Kept
    <3> QED
      BY <2>4, <3>1, SameSound
  <2>6. Sound(ErrAt(checked, "Exx", 0)) /\ Sound(ErrAt(limited, "Zln", 0))
    BY <2>3, <2>4, ErrSound
  <2> QED
    BY <2>5, <2>6 DEF Counted
<1> QED
  BY <1>1, <1>2, <1>3, <1>4, <1>5, <1>6

-----------------------------------------------------------------------------
\* The stack.

\* One sound frame is a sound stack.
LEMMA FramedOne ==
  ASSUME NEW f, FrameOK(f)
  PROVE  Framed(<<f>>)
<1> DEFINE S == {f}
<1>1. <<f>> \in Seq(S) /\ \A g \in S : FrameOK(g)
  OBVIOUS
<1> HIDE DEF S
<1> QED
  BY <1>1 DEF Framed

\* A sound frame pushed on a sound stack.
LEMMA FramedPush ==
  ASSUME NEW s, Framed(s), NEW f, FrameOK(f)
  PROVE  Framed(<<f>> \o s)
<1>1. PICK S : s \in Seq(S) /\ \A g \in S : FrameOK(g)
  BY DEF Framed
<1>2. <<f>> \o s \in Seq(S \cup {f})
  BY <1>1
<1> QED
  BY <1>1, <1>2 DEF Framed

\* Two sound frames pushed on a sound stack.
LEMMA FramedPush2 ==
  ASSUME NEW s, Framed(s), NEW f, FrameOK(f), NEW g, FrameOK(g)
  PROVE  Framed(<<f, g>> \o s)
<1>1. PICK S : s \in Seq(S) /\ \A h \in S : FrameOK(h)
  BY DEF Framed
<1>2. <<f, g>> \o s \in Seq(S \cup {f, g})
  BY <1>1
<1> QED
  BY <1>1, <1>2 DEF Framed

\* The top of a sound stack is sound, and so is the rest.
LEMMA FramedTop ==
  ASSUME NEW s, Framed(s), s # << >>
  PROVE  FrameOK(s[1]) /\ Framed(Tail(s))
<1>1. PICK S : s \in Seq(S) /\ \A f \in S : FrameOK(f)
  BY DEF Framed
<1>2. s[1] \in S /\ Tail(s) \in Seq(S)
  BY <1>1
<1> QED
  BY <1>1, <1>2 DEF Framed

-----------------------------------------------------------------------------
\* What a call may do keeps the invariant, if it leaves asm sound.

\* Returning keeps the invariant: the depth is the caller's again.
LEMMA ReturnKeeps ==
  ASSUME IInv, stack # << >>, NEW m, Sound(m), NEW r, Return(m, r)
  PROVE  IInv'
<1>1. FrameOK(Top) /\ Framed(Tail(stack))
  BY FramedTop DEF IInv, Top
<1>2. Sound([m EXCEPT !.depth = Top.base])
  BY <1>1 DEF Sound, Kept, FrameOK
<1> QED
  BY <1>1, <1>2 DEF IInv, Return

\* Going on in the same call keeps it.
LEMMA BecomeKeeps ==
  ASSUME IInv, stack # << >>, NEW m, Sound(m), NEW f, FrameOK(f), Become(m, f)
  PROVE  IInv'
<1>1. Framed(Tail(stack))
  BY FramedTop DEF IInv
<1> QED
  BY <1>1, FramedPush DEF IInv, Become

\* A call keeps it: the callee counts one deeper.
LEMMA AwaitKeeps ==
  ASSUME IInv, stack # << >>, NEW m, Sound(m), NEW f, FrameOK(f), NEW buf, NEW w,
         Await(m, f, buf, w)
  PROVE  IInv'
<1>1. Framed(Tail(stack))
  BY FramedTop DEF IInv
<1>2. FrameOK(Frame("trav2", buf, w, "Op", m.depth))
  BY DEF Sound, FrameOK, Frame
<1> QED
  BY <1>1, <1>2, FramedPush2 DEF IInv, Await

\* A call made last keeps it: the caller stays counted.
LEMMA AgainKeeps ==
  ASSUME IInv, stack # << >>, NEW m, Sound(m), NEW buf, NEW w, Again(m, buf, w)
  PROVE  IInv'
<1>1. FrameOK([Top EXCEPT !.pc = "trav2", !.buf = buf, !.w = w])
  BY FramedTop DEF IInv, Top, FrameOK
<1> QED
  BY <1>1, BecomeKeeps DEF Again

\* Copying a text and going on keeps it, and so does refusing it.
LEMMA CopyKeeps ==
  ASSUME IInv, stack # << >>, NEW m, Sound(m), NEW text, NEW buf, NEW w, Copy(m, text, buf, w)
  PROVE  IInv'
<1>1. Sound(Err(m, "Buf"))
  BY HelpersSound
<1> QED
  BY <1>1, ReturnKeeps, AgainKeeps DEF Copy

-----------------------------------------------------------------------------
\* The actions, one after the other.

\* Entering a call below the limit keeps the counters in their limits.
LEMMA EnteredSound ==
  ASSUME IInv, asm.depth < MaxDepth
  PROVE  Sound(Entered)
BY AssemblerAssumption DEF IInv, Sound, Kept, Entered

\* The calls of pass 1 that a token starts.
LEMMA Trav2Keeps ==
  ASSUME IInv, Trav2,
         \/ LineOver \/ Comment \/ Skip \/ Misplaced \/ Rof \/ Curline \/ Operator \/ Opcode
         \/ Equ \/ Substitute \/ Value \/ DoubleLabel \/ Declare \/ Unknown \/ For
  PROVE  IInv'
<1>1. stack # << >> /\ asm.depth < MaxDepth
  BY DEF Trav2, Calling
<1>2. Sound(Entered) /\ FrameOK(Top)
  BY <1>1, EnteredSound, FramedTop DEF IInv, Top
<1>3. ASSUME NEW e, e \notin {"Deep", "Work"}, Refuse(e) PROVE IInv'
  <2>1. Sound(Err([asm EXCEPT !.depth = @ + 1], e))
    BY <1>2, <1>3, HelpersSound DEF Entered
  <2> QED
    BY <1>1, <1>3, <2>1, ReturnKeeps DEF Refuse
<1>4. Sound(J.m)
  BY <1>2, HelpersSound DEF J
<1>5. CASE LineOver
  BY <1>1, <1>2, <1>5, ReturnKeeps DEF LineOver
<1>6. CASE Comment
  <2>1. FrameOK([Top EXCEPT !.pc = "assert"])
    BY <1>2 DEF FrameOK
  <2> QED
    BY <1>1, <1>2, <1>6, <2>1, AwaitKeeps, ReturnKeeps DEF Comment
<1>7. CASE Skip
  <2>1. /\ Sound([Entered EXCEPT !.statefine = @ - 1])
        /\ Sound([Entered EXCEPT !.statefine = @ + 1])
    <3>1. /\ Same(Entered, [Entered EXCEPT !.statefine = @ - 1])
          /\ Same(Entered, [Entered EXCEPT !.statefine = @ + 1])
      BY <1>2 DEF Same, Sound, Kept
    <3> QED
      BY <1>2, <3>1, SameSound
  <2> QED
    BY <1>1, <1>2, <1>7, <2>1, ReturnKeeps, AgainKeeps DEF Skip
<1>8. CASE Misplaced
  BY <1>3, <1>8 DEF Misplaced
<1>9. CASE Rof
  BY <1>1, <1>2, <1>9, ReturnKeeps DEF Rof
<1>10. CASE Curline
  BY <1>1, <1>2, <1>10, CopyKeeps DEF Curline
<1>11. CASE Operator
  BY <1>1, <1>2, <1>11, CopyKeeps DEF Operator
<1>12. CASE Opcode
  <2>1. FrameOK([Top EXCEPT !.pc = "opcode"])
    BY <1>2 DEF FrameOK
  <2> QED
    BY <1>1, <1>2, <1>3, <1>12, <2>1, AwaitKeeps DEF Opcode
<1>13. CASE Equ
  <2>1. Sound(Err(Entered, "Ann")) /\ Sound(Defined(Entered, Rest))
    BY <1>2, HelpersSound, HelpersSame, SameSound
  <2> QED
    BY <1>1, <1>13, <2>1, ReturnKeeps DEF Equ
<1>14. CASE Substitute
  <2>1. Sound([J.m EXCEPT !.refs[K].visit = TRUE, !.aline = <<asm.refs[K].v, 1>>])
    <3>1. Same(J.m, [J.m EXCEPT !.refs[K].visit = TRUE, !.aline = <<asm.refs[K].v, 1>>])
      BY <1>4 DEF Same, Sound, Kept
    <3> QED
      BY <1>4, <3>1, SameSound
  <2>2. FrameOK([Top EXCEPT !.pc = "equ", !.buf = J.rest, !.ref = K, !.aline = asm.aline])
    BY <1>2 DEF FrameOK
  <2>3. Sound(Err(J.m, "Rec"))
    BY <1>4, HelpersSound
  <2> QED
    BY <1>1, <1>14, <2>1, <2>2, <2>3, AwaitKeeps, ReturnKeeps DEF Substitute
<1>15. CASE Value
  BY <1>1, <1>4, <1>15, CopyKeeps DEF Value
<1>16. CASE DoubleLabel
  <2>1. Sound(Err(J.m, "Idn"))
    BY <1>4, HelpersSound
  <2> QED
    BY <1>1, <1>16, <2>1, ReturnKeeps DEF DoubleLabel
<1>17. CASE Declare
  <2>1. Sound([J.m EXCEPT !.symtbl = Append(@, J.name)])
    <3>1. Same(J.m, [J.m EXCEPT !.symtbl = Append(@, J.name)])
      BY <1>4 DEF Same, Sound, Kept
    <3> QED
      BY <1>4, <3>1, SameSound
  <2>2. Sound(Err(J.m, "Grp"))
    BY <1>4, HelpersSound
  <2> QED
    BY <1>1, <1>17, <2>1, <2>2, AgainKeeps DEF Declare
<1>18. CASE Unknown
  BY <1>1, <1>4, <1>18, CopyKeeps DEF Unknown
<1>19. CASE For
  <2> DEFINE labels == asm.symtbl
             shorter == [Entered EXCEPT !.symtbl = Front(labels)]
             m == IF labels = << >> THEN Entered ELSE [Labelled(shorter) EXCEPT !.symtbl = << >>]
             f == [Top EXCEPT !.pc = "for",
                              !.names = IF labels = << >> THEN {} ELSE {Last(labels)}]
  <2>1. Sound(m)
    <3>1. Same(Entered, shorter)
      BY <1>2 DEF Same, Sound, Kept
    <3>2. Sound(Labelled(shorter))
      BY <1>2, <3>1, HelpersSame, SameSound
    <3>3. Same(Labelled(shorter), [Labelled(shorter) EXCEPT !.symtbl = << >>])
      BY <3>2 DEF Same, Sound, Kept
    <3> QED
      BY <1>2, <3>2, <3>3, SameSound
  <2>2. FrameOK(f)
    BY <1>2 DEF FrameOK
  <2>3. Await(m, f, Rest, SVAL)
    BY <1>19 DEF For
  <2> QED
    BY <1>1, <2>1, <2>2, <2>3, AwaitKeeps
<1> QED
  BY <1>5, <1>6, <1>7, <1>8, <1>9, <1>10, <1>11, <1>12, <1>13, <1>14, <1>15, <1>16, <1>17,
     <1>18, <1>19

\* What pass 1 does with what a call returned, and its loop over the lines.
LEMMA Pass1Keeps ==
  ASSUME IInv,
         \/ Asserted \/ OpcodeDone \/ EquLine \/ ForCount \/ ForRound \/ ForLine \/ ForLineDone
         \/ ExpandLine \/ ExpandedLine \/ ExpandDone
  PROVE  IInv'
<1>1. Sound(asm) /\ Framed(stack) /\ (stack # << >> => FrameOK(Top))
  BY FramedTop DEF IInv, Top
<1>2. CASE Asserted
  <2>1. stack # << >>
    BY <1>2 DEF Asserted, Resuming
  <2>2. PICK r : Return(Checked(Evaluated(asm, r), r), Top.w)
    BY <1>2 DEF Asserted
  <2>3. Sound(Checked(Evaluated(asm, r), r))
    BY <1>1, HelpersSame, SameSound, HelpersSound
  <2> QED
    BY <2>1, <2>2, <2>3, ReturnKeeps
<1>3. CASE OpcodeDone
  <2>1. stack # << >>
    BY <1>3 DEF OpcodeDone, Resuming
  <2>2. Sound(Numbered(asm, Tok))
    BY <1>1, HelpersSame, SameSound
  <2> QED
    BY <1>1, <1>3, <2>1, <2>2, ReturnKeeps DEF OpcodeDone
<1>4. CASE EquLine
  <2> DEFINE next == NextLine(asm)
             more == next # NoLine /\ asm.vcont
             line == IF asm.statefine = 0 /\ ret = SCOM THEN AddLine(asm, dest) ELSE asm
             m    == IF ~more THEN asm ELSE ExpandOne(line)
  <2>1. stack # << >>
    BY <1>4 DEF EquLine, Resuming
  <2>2. Sound(line) /\ line.vcont = asm.vcont
    <3>1. Sound(AddLine(asm, dest)) /\ AddLine(asm, dest).vcont = asm.vcont
      <4>1. AddLine(asm, dest).vcont = asm.vcont
        BY <1>1 DEF Sound, Kept, AddLine
      <4> QED
        BY <1>1, <4>1, HelpersSame, SameSound
    <3> QED
      BY <1>1, <3>1
  <2>3. Sound(m)
    <3>1. more => Sound(ExpandOne(line))
      BY <2>2, ExpandOneSound
    <3> QED
      BY <1>1, <3>1
  <2>4. CASE more /\ ~m.halted
    <3>1. Await([m EXCEPT !.aline = next], Top, m.lists[next[1]][next[2]].text, SNIL)
      BY <1>4, <2>4 DEF EquLine
    <3>2. Sound([m EXCEPT !.aline = next])
      <4>1. Same(m, [m EXCEPT !.aline = next])
        BY <2>3 DEF Same, Sound, Kept
      <4> QED
        BY <2>3, <4>1, SameSound
    <3> QED
      BY <1>1, <2>1, <3>1, <3>2, AwaitKeeps
  <2>5. CASE ~(more /\ ~m.halted)
    <3> DEFINE n == [m EXCEPT !.aline = Top.aline, !.refs[Top.ref].visit = FALSE]
               f == [Top EXCEPT !.pc = "trav2", !.w = ret]
    <3>1. Become(n, f)
      BY <1>4, <2>5 DEF EquLine
    <3>2. Sound(n)
      <4>1. Same(m, n)
        BY <2>3 DEF Same, Sound, Kept
      <4> QED
        BY <2>3, <4>1, SameSound
    <3>3. FrameOK(f)
      BY <1>1, <2>1 DEF FrameOK
    <3> QED
      BY <2>1, <3>1, <3>2, <3>3, BecomeKeeps
  <2> QED
    BY <2>4, <2>5
<1>5. CASE ForCount
  <2>1. stack # << >>
    BY <1>5 DEF ForCount, Resuming
  <2>2. PICK r :
          LET m == Overflown(Evaluated(asm, r), r)
              p == PushRef(m, Top.names, "stack", 1, TRUE)
          IN \/ Return(Err(m, EvalError(r)), SFOR)
             \/ Return([m EXCEPT !.statefine = @ + 1], SFOR)
             \/ Become(p, [Top EXCEPT !.pc = "round", !.ref = Len(p.refs), !.aline = asm.aline,
                                      !.n = 1, !.limit = r.v % Wide])
    BY <1>5 DEF ForCount
  <2> DEFINE m == Overflown(Evaluated(asm, r), r)
             p == PushRef(m, Top.names, "stack", 1, TRUE)
             f == [Top EXCEPT !.pc = "round", !.ref = Len(p.refs), !.aline = asm.aline,
                              !.n = 1, !.limit = r.v % Wide]
  <2>3. Sound(m)
    BY <1>1, HelpersSame, SameSound, HelpersSound
  <2>4. Sound(Err(m, EvalError(r)))
    <3>1. EvalError(r) \notin {"Deep", "Work"}
      BY DEF EvalError
    <3> QED
      BY <2>3, <3>1, HelpersSound
  <2>5. Sound([m EXCEPT !.statefine = @ + 1])
    <3>1. Same(m, [m EXCEPT !.statefine = @ + 1])
      BY <2>3 DEF Same, Sound, Kept
    <3> QED
      BY <2>3, <3>1, SameSound
  <2>6. Sound(p) /\ FrameOK(f)
    <3>1. Sound(p)
      BY <2>3, HelpersSame, SameSound
    <3>2. FrameOK(f)
      BY <1>1, <2>1 DEF FrameOK
    <3> QED
      BY <3>1, <3>2
  <2> QED
    BY <2>1, <2>2, <2>4, <2>5, <2>6, ReturnKeeps, BecomeKeeps
<1>6. CASE ForRound
  <2> DEFINE n == [asm EXCEPT !.refs[Top.ref].v = Top.n, !.aline = Top.aline]
             f == [Top EXCEPT !.pc = "body"]
  <2>1. stack # << >>
    BY <1>6 DEF ForRound, Calling
  <2>2. Become(n, f) \/ Return(PopCounter(asm), SFOR)
    BY <1>6 DEF ForRound
  <2>3. Sound(n)
    <3>1. Same(asm, n)
      BY <1>1 DEF Same, Sound, Kept
    <3> QED
      BY <1>1, <3>1, SameSound
  <2>4. Sound(PopCounter(asm)) /\ FrameOK(f)
    <3>1. Sound(PopCounter(asm))
      BY <1>1, HelpersSame, SameSound
    <3>2. FrameOK(f)
      BY <1>1, <2>1 DEF FrameOK
    <3> QED
      BY <3>1, <3>2
  <2> QED
    BY <2>1, <2>2, <2>3, <2>4, ReturnKeeps, BecomeKeeps
<1>7. ASSUME stack # << >>, NEW m, Sound(m), EndRound(m) PROVE IInv'
  <2> DEFINE n == [Err(m, "Exx") EXCEPT !.vcont = FALSE]
             f == [Top EXCEPT !.pc = "round", !.n = @ + 1]
  <2>1. Sound(n)
    <3>1. Sound(Err(m, "Exx"))
      BY <1>7, HelpersSound
    <3>2. Same(Err(m, "Exx"), n)
      BY <3>1 DEF Same, Sound, Kept
    <3> QED
      BY <3>1, <3>2, SameSound
  <2>2. FrameOK(f)
    BY <1>1, <1>7 DEF FrameOK
  <2>3. Become(n, f) \/ Become(m, f)
    BY <1>7 DEF EndRound
  <2> QED
    BY <1>7, <2>1, <2>2, <2>3, BecomeKeeps
<1>8. CASE ForLine
  <2> DEFINE next == NextLine(asm)
             m    == ExpandOne(asm)
             n    == [Err(asm, "Rof") EXCEPT !.vcont = FALSE]
  <2>1. stack # << >>
    BY <1>8 DEF ForLine, Calling
  <2>2. \/ EndRound(asm)
        \/ EndRound(n)
        \/ asm.vcont /\ EndRound(m)
        \/ asm.vcont /\ Await([m EXCEPT !.aline = next], Top,
                             asm.lists[next[1]][next[2]].text, SNIL)
    BY <1>8 DEF ForLine
  <2>3. Sound(n)
    <3>1. Sound(Err(asm, "Rof"))
      BY <1>1, HelpersSound
    <3>2. Same(Err(asm, "Rof"), n)
      BY <3>1 DEF Same, Sound, Kept
    <3> QED
      BY <3>1, <3>2, SameSound
  <2>4. asm.vcont => Sound(m) /\ Sound([m EXCEPT !.aline = next])
    <3> SUFFICES ASSUME asm.vcont PROVE Sound(m) /\ Sound([m EXCEPT !.aline = next])
      OBVIOUS
    <3>1. Sound(m)
      BY <1>1, ExpandOneSound
    <3>2. Same(m, [m EXCEPT !.aline = next])
      BY <3>1 DEF Same, Sound, Kept
    <3> QED
      BY <3>1, <3>2, SameSound
  <2> QED
    BY <1>1, <1>7, <2>1, <2>2, <2>3, <2>4, AwaitKeeps
<1>9. CASE ForLineDone
  <2>1. stack # << >>
    BY <1>9 DEF ForLineDone, Resuming
  <2>2. EndRound(asm) \/ Become(AddLine(asm, dest), Top) \/ Become(asm, Top)
    BY <1>9 DEF ForLineDone
  <2>3. Sound(AddLine(asm, dest))
    BY <1>1, HelpersSame, SameSound
  <2> QED
    BY <1>1, <1>7, <2>1, <2>2, <2>3, BecomeKeeps
<1>10. CASE ExpandLine
  <2> DEFINE f == Frame("trav2", CurLine(asm).text, SNIL, "Op", asm.depth)
  <2>1. stack' = <<f>> /\ asm' = asm
    BY <1>10 DEF ExpandLine
  <2>2. FrameOK(f)
    BY <1>1 DEF Sound, FrameOK, Frame
  <2> QED
    BY <1>1, <2>1, <2>2, FramedOne DEF IInv
<1>11. CASE ExpandedLine
  <2> DEFINE m == CASE ret = SCOM -> AddLine(asm, dest)
                    [] ret = SROF -> Err(asm, "For")
                    [] OTHER      -> asm
             n == [m EXCEPT !.aline = NextLine(m)]
  <2>1. asm' = n /\ stack' = stack
    BY <1>11 DEF ExpandedLine
  <2>2. Sound(m)
    <3>1. Sound(AddLine(asm, dest)) /\ Sound(Err(asm, "For"))
      BY <1>1, HelpersSame, SameSound, HelpersSound
    <3>2. SCOM # SROF
      BY DEF SCOM, SROF
    <3> QED
      BY <1>1, <3>1, <3>2
  <2>3. Sound(n)
    <3>1. Same(m, n)
      BY <2>2 DEF Same, Sound, Kept
    <3> QED
      BY <2>2, <3>1, SameSound
  <2> QED
    BY <1>1, <2>1, <2>3 DEF IInv
<1>12. CASE ExpandDone
  <2>1. asm' = Counted(asm) /\ stack' = stack
    BY <1>12 DEF ExpandDone
  <2> QED
    BY <1>1, <2>1, HelpersSound DEF IInv
<1> QED
  BY <1>2, <1>3, <1>4, <1>5, <1>6, <1>8, <1>9, <1>10, <1>11, <1>12

\* The calls of the line automaton.
LEMMA Pass2Keeps ==
  ASSUME IInv,
         \/ AutoOver \/ AutoOp \/ AutoModifier \/ AutoStart \/ AutoCollect \/ AutoSymbol
         \/ SymbolDone \/ AutoUnknown
  PROVE  IInv'
<1>1. Sound(asm) /\ (stack # << >> => FrameOK(Top))
  BY FramedTop DEF IInv, Top
<1> DEFINE Called == stack # << >> /\ asm.depth < MaxDepth
<1>2. ASSUME NEW states, Automaton(states) PROVE Called
  BY <1>2 DEF Automaton, Calling
<1>3. Called => Sound(Entered) /\ FrameOK(Top)
  BY <1>1, EnteredSound
<1>4. ASSUME Called, NEW st, NEW i, NEW buf, GoTo(st, i, buf) PROVE IInv'
  <2>1. FrameOK([Top EXCEPT !.buf = buf, !.st = st])
    BY <1>3, <1>4 DEF FrameOK
  <2> QED
    BY <1>3, <1>4, <2>1, BecomeKeeps DEF GoTo
<1>5. ASSUME Called, NEW m, Sound(m), Stop(m) PROVE IInv'
  BY <1>5, ReturnKeeps DEF Stop
<1>6. Called => \A e : e \notin {"Deep", "Work"} => Sound(Err(Entered, e))
  BY <1>3, HelpersSound
<1>7. ASSUME Called, NEW t, Collected(Entered, t) PROVE IInv'
  <2>1. FrameOK([Top EXCEPT !.buf = Rest])
    BY <1>3, <1>7 DEF FrameOK
  <2>2. Sound(Entered) /\ Sound(Err(Entered, "Buf"))
    BY <1>3, <1>6, <1>7
  <2> QED
    BY <1>7, <2>1, <2>2, BecomeKeeps DEF Collected
<1>8. CASE AutoOver
  BY <1>2, <1>3, <1>5, <1>8 DEF AutoOver
<1>9. CASE AutoOp
  <2>1. Called
    BY <1>2, <1>9 DEF AutoOp
  <2>2. Sound(Err(Entered, "Exp"))
    BY <1>6, <2>1
  <2> QED
    BY <1>4, <1>9, <2>1, <2>2, ReturnKeeps DEF AutoOp
<1>10. CASE AutoModifier
  <2>1. Called
    BY <1>2, <1>10 DEF AutoModifier
  <2>2. Sound(Err(Entered, "Exp"))
    BY <1>6, <2>1
  <2> QED
    BY <1>4, <1>5, <1>10, <2>1, <2>2 DEF AutoModifier
<1>11. CASE AutoStart
  <2>1. Called
    BY <1>2, <1>11 DEF AutoStart
  <2>2. Sound(Err(Entered, "Exp")) /\ Sound(Err(Entered, "App"))
    BY <1>6, <2>1
  <2> QED
    BY <1>4, <1>5, <1>11, <2>1, <2>2 DEF AutoStart
<1>12. CASE AutoCollect
  <2>1. Called
    BY <1>2, <1>12 DEF AutoCollect
  <2>2. Sound(Err(Entered, "App"))
    BY <1>6, <2>1
  <2> QED
    BY <1>4, <1>5, <1>7, <1>12, <2>1, <2>2 DEF AutoCollect
<1>13. CASE AutoSymbol
  <2>1. Called
    BY <1>2, <1>13 DEF AutoSymbol
  <2>2. CASE Return(Err(Entered, "Rec"), SNIL)
    BY <1>6, <2>1, <2>2, ReturnKeeps
  <2>3. CASE ~asm.refs[Symbol].visit
    <3> DEFINE n == [Entered EXCEPT !.refs[Symbol].visit = TRUE]
               g == [Top EXCEPT !.pc = "symbol", !.buf = Rest, !.ref = Symbol]
    <3>1. PICK text : LET f == Frame("automaton", text, SNIL, Top.st, asm.depth + 1)
                      IN asm' = n /\ stack' = <<f, g>> \o Tail(stack)
      BY <1>13, <2>3 DEF AutoSymbol
    <3> DEFINE f == Frame("automaton", text, SNIL, Top.st, asm.depth + 1)
    <3>2. Sound(n)
      <4>1. Same(Entered, n)
        BY <1>3, <2>1 DEF Same, Sound, Kept
      <4> QED
        BY <1>3, <2>1, <4>1, SameSound
    <3>3. FrameOK(f) /\ FrameOK(g)
      BY <1>1, <2>1, AssemblerAssumption DEF Sound, FrameOK, Frame
    <3>4. Framed(Tail(stack))
      BY <2>1, FramedTop DEF IInv
    <3>5. Framed(<<f, g>> \o Tail(stack))
      BY <3>3, <3>4, FramedPush2
    <3> QED
      BY <3>1, <3>2, <3>5 DEF IInv
  <2> QED
    BY <1>13, <2>2, <2>3 DEF AutoSymbol
<1>14. CASE SymbolDone
  <2> DEFINE n == [asm EXCEPT !.refs[Top.ref].visit = FALSE]
             f == [Top EXCEPT !.pc = "automaton",
                              !.st = IF @ = "Expr" THEN "Expr" ELSE ins.last]
  <2>1. stack # << >> /\ Become(n, f)
    BY <1>14 DEF SymbolDone, Resuming
  <2>2. Sound(n)
    <3>1. Same(asm, n)
      BY <1>1 DEF Same, Sound, Kept
    <3> QED
      BY <1>1, <3>1, SameSound
  <2>3. FrameOK(f)
    BY <1>1, <2>1 DEF FrameOK
  <2> QED
    BY <2>1, <2>2, <2>3, BecomeKeeps
<1>15. CASE AutoUnknown
  <2>1. Called
    BY <1>2, <1>15 DEF AutoUnknown
  <2>2. Sound(Err(Entered, "Snf")) /\ Sound(Err(Entered, "Buf"))
    BY <1>6, <2>1
  <2> QED
    BY <1>4, <1>5, <1>7, <1>15, <2>1, <2>2 DEF AutoUnknown
<1> QED
  BY <1>8, <1>9, <1>10, <1>11, <1>12, <1>13, <1>14, <1>15

\* The loop of pass 2 over the lines.
LEMMA EncodeKeeps ==
  ASSUME IInv, EncodeLine \/ EncodedLine \/ EncodeDone
  PROVE  IInv'
<1>1. Sound(asm) /\ Framed(stack)
  BY DEF IInv
<1>2. ASSUME NEW m, Sound(m), NEW e, e \notin {"Deep", "Work"} PROVE Sound(Err(m, e))
  BY <1>2, HelpersSound
<1>3. ASSUME NEW m, Sound(m), NEW r PROVE Sound(Err(m, EvalError(r)))
  <2>1. EvalError(r) \notin {"Deep", "Work"}
    BY DEF EvalError
  <2> QED
    BY <1>2, <1>3, <2>1
<1>4. CASE EncodeLine
  <2> DEFINE n == [asm EXCEPT !.lineErr = FALSE, !.aline = NextLine(asm)]
  <2>1. PICK text : asm' = n /\ stack' = <<Frame("automaton", text, SNIL, "Op", asm.depth)>>
    BY <1>4 DEF EncodeLine
  <2>2. Sound(n)
    <3>1. Same(asm, n)
      BY <1>1 DEF Same, Sound, Kept
    <3> QED
      BY <1>1, <3>1, SameSound
  <2>3. FrameOK(Frame("automaton", text, SNIL, "Op", asm.depth))
    BY <1>1 DEF Sound, FrameOK, Frame
  <2> QED
    BY <2>1, <2>2, <2>3, FramedOne DEF IInv
<1>5. CASE EncodedLine
  <2> DEFINE m == ShellErr(asm, ins)
  <2>1. stack' = stack /\ Sound(m)
    BY <1>1, <1>5, HelpersSound DEF EncodedLine
  <2>2. ASSUME NEW r PROVE Sound(Evaluated(m, r))
    BY <2>1, HelpersSame, SameSound
  <2>3. PICK i : \/ asm' = m
                 \/ \E r : Directed(Overflown(Evaluated(m, r), r), i, r)
                 \/ \E ra, rb : Encoded(Evaluated(m, IF Failed(ra) THEN ra ELSE rb), i, ra, rb)
    BY <1>5 DEF EncodedLine
  <2>4. ASSUME NEW r, Directed(Overflown(Evaluated(m, r), r), i, r) PROVE Sound(asm')
    <3> DEFINE o == Overflown(Evaluated(m, r), r)
    <3>1. Sound(o)
      BY <2>2, HelpersSound
    <3>2. Sound(Err(o, EvalError(r))) /\ Sound(Err(o, "Doe"))
      BY <1>2, <1>3, <3>1
    <3>3. asm' = o \/ asm' = Err(o, EvalError(r)) \/ asm' = Err(o, "Doe")
      BY <2>4 DEF Directed
    <3> QED
      BY <3>1, <3>2, <3>3
  <2>5. ASSUME NEW ra, NEW rb, NEW v, v = Evaluated(m, IF Failed(ra) THEN ra ELSE rb),
               Encoded(v, i, ra, rb)
        PROVE  Sound(asm')
    <3> DEFINE o == IF "overflow" \in {ra.err, rb.err} THEN Err(v, "Ofl") ELSE v
               x == IF Failed(ra) THEN ra ELSE rb
    <3>1. Sound(v)
      BY <2>2, <2>5
    <3>2. Sound(Err(v, EvalError(x))) /\ Sound(o)
      BY <1>2, <1>3, <3>1
    <3>3. Sound([o EXCEPT !.line = @ + 1])
      <4>1. Same(o, [o EXCEPT !.line = @ + 1])
        BY <3>2 DEF Same, Sound, Kept
      <4> QED
        BY <3>2, <4>1, SameSound
    <3>4. asm' = Err(v, EvalError(x)) \/ asm' = [o EXCEPT !.line = @ + 1]
      BY <2>5 DEF Encoded
    <3> QED
      BY <3>2, <3>3, <3>4
  <2>6. Sound(asm')
    BY <2>1, <2>3, <2>4, <2>5
  <2> QED
    BY <1>1, <2>1, <2>6 DEF IInv
<1>6. CASE EncodeDone
  <2>1. stack' = stack /\ (asm' = asm \/ asm' = ErrAt(asm, "Ofs", 0))
    BY <1>6 DEF EncodeDone
  <2>2. Sound(ErrAt(asm, "Ofs", 0))
    BY <1>1, ErrSound
  <2> QED
    BY <1>1, <2>1, <2>2 DEF IInv
<1> QED
  BY <1>4, <1>5, <1>6

\* Reading the source.
LEMMA ReadKeeps ==
  ASSUME IInv, Read
  PROVE  IInv'
<1>1. stack' = stack /\ Same(asm, asm')
  <2>1. CASE ReadDone
    BY <2>1 DEF ReadDone, IInv, Same, Sound, Kept
  <2>2. CASE ReadLine
    <3>1. stack' = stack /\ (asm' = asm \/ \E l : asm' = [asm EXCEPT !.lists[1] = l])
      BY <2>2 DEF ReadLine
    <3> QED
      BY <3>1 DEF IInv, Same, Sound, Kept
  <2> QED
    BY <2>1, <2>2 DEF Read
<1> QED
  BY <1>1, SameSound DEF IInv

\* A call that is not let in.
LEMMA TooDeepKeeps ==
  ASSUME IInv, TooDeep
  PROVE  IInv'
<1>1. stack # << >> /\ Return(Halt(asm, "Deep"), SERR)
  BY DEF TooDeep, Calling
<1>2. Sound(Halt(asm, "Deep"))
  BY HaltSound DEF IInv, Sound
<1> QED
  BY <1>1, <1>2, ReturnKeeps

-----------------------------------------------------------------------------
\* Assembly begins in the invariant.
LEMMA InitIInv == Init => IInv
<1> SUFFICES ASSUME Init PROVE IInv
  OBVIOUS
<1>1. /\ Kept \subseteq DOMAIN asm /\ asm.depth = 0 /\ asm.expanded = 0
      /\ asm.halted = FALSE /\ asm.vcont = TRUE /\ asm.diags = << >> /\ stack = << >>
  BY DEF Init, Kept
<1>2. IsSequence(<< >>) /\ LimitsOf(<< >>) = {}
  BY DEF IsSequence, LimitsOf
<1>3. Framed(<< >>)
  <2> DEFINE S == {}
  <2>1. << >> \in Seq(S) /\ \A f \in S : FrameOK(f)
    OBVIOUS
  <2> HIDE DEF S
  <2> QED
    BY <2>1 DEF Framed
<1>4. Sound(asm)
  <2>1. IsSequence(asm.diags) /\ LimitsOf(asm.diags) = {}
    BY <1>1, <1>2
  <2>2. /\ asm.depth \in 0 .. MaxDepth /\ asm.expanded \in 0 .. MaxExpansion + 1
        /\ ~(asm.expanded > MaxExpansion)
    BY <1>1, AssemblerAssumption
  <2> QED
    BY <1>1, <2>1, <2>2 DEF Sound
<1> QED
  BY <1>1, <1>3, <1>4 DEF IInv

\* Every step keeps it.
LEMMA NextKeeps ==
  ASSUME IInv, [Next]_vars
  PROVE  IInv'
<1>1. CASE Read
  BY <1>1, ReadKeeps
<1>2. CASE Pass1
  <2>1. ASSUME \/ LineOver \/ Comment \/ Skip \/ Misplaced \/ Rof \/ Curline \/ Operator \/ Opcode
               \/ Equ \/ Substitute \/ Value \/ DoubleLabel \/ Declare \/ Unknown \/ For
        PROVE  Trav2
    BY <2>1 DEF LineOver, Comment, Skip, Misplaced, Rof, Curline, Operator, Opcode, Equ,
                Substitute, Value, DoubleLabel, Declare, Unknown, For, Naming, Live
  <2> QED
    BY <1>2, <2>1, Trav2Keeps, Pass1Keeps DEF Pass1
<1>3. CASE Pass2
  BY <1>3, Pass2Keeps, EncodeKeeps DEF Pass2
<1>4. CASE TooDeep
  BY <1>4, TooDeepKeeps
<1>5. CASE UNCHANGED vars
  BY <1>5 DEF vars, IInv
<1> QED
  BY <1>1, <1>2, <1>3, <1>4, <1>5 DEF Next

\* The invariant has the limits in it.
LEMMA IInvLimits == IInv => LimitsKept
<1> SUFFICES ASSUME IInv PROVE LimitsKept
  OBVIOUS
<1>1. Limits = LimitsOf(asm.diags)
  BY DEF Limits, LimitsOf
<1>2. asm.halted => ~Accepted
  <2> SUFFICES ASSUME asm.halted PROVE Erred(asm)
    BY DEF Accepted
  <2>1. PICK d \in DOMAIN asm.diags : asm.diags[d].e \in {"Deep", "Work"}
    BY DEF IInv, Sound, LimitsOf
  <2> QED
    BY <2>1 DEF Erred, Warnings
<1> QED
  BY <1>1, <1>2, AssemblerAssumption DEF IInv, Sound, LimitsKept

\* The nesting of calls and the number of expansions stay within their
\* limits, a limit that is met is reported once, and no warrior is made then:
\* for every source and whatever the evaluator returns.
THEOREM LimitsAreKept == Spec => []LimitsKept
<1>1. Init => IInv
  BY InitIInv
<1>2. IInv /\ [Next]_vars => IInv'
  BY NextKeeps
<1>3. IInv => LimitsKept
  BY IInvLimits
<1> QED
  BY <1>1, <1>2, <1>3, PTL DEF Spec

-----------------------------------------------------------------------------
\* The bookkeeping of the calls.

Replaces == {"equ", "symbol"}
Repeats  == {"round", "body"}

RefOK(r) == {"names", "kind", "v", "visit"} \subseteq DOMAIN r /\ r.visit \in BOOLEAN

\* What is kept of symbols and calls: the counters are symbols, the later the
\* newer, and a counter that still has a name is live.
Book(m) ==
  /\ {"refs", "counters", "depth"} \subseteq DOMAIN m
  /\ IsSequence(m.refs) /\ \A r \in DOMAIN m.refs : RefOK(m.refs[r])
  /\ IsSequence(m.counters) /\ \A c \in DOMAIN m.counters : m.counters[c] \in DOMAIN m.refs
  /\ \A c, d \in DOMAIN m.counters : c < d => m.counters[c] < m.counters[d]
  /\ \A r \in DOMAIN m.refs :
       m.refs[r].kind = "stack" /\ m.refs[r].names # {} => r \in ToSet(m.counters)
  /\ m.depth \in Nat

Call(f) == {"pc", "ref", "base"} \subseteq DOMAIN f /\ f.base \in Nat
Shaped(s) == IsSequence(s) /\ \A f \in DOMAIN s : Call(s[f])

\* The symbols the calls of the given kinds are about.
RefsOf(s, pcs) == {r \in Nat : \E f \in DOMAIN s : s[f].pc \in pcs /\ s[f].ref = r}
About(s) == \A f \in DOMAIN s : s[f].pc \in Replaces \cup Repeats => s[f].ref \in Nat

\* No two calls replace one symbol; inner blocks have newer counters.
Distinct(s) ==
  \A f, g \in DOMAIN s : s[f].pc \in Replaces /\ s[g].pc \in Replaces /\ s[f].ref = s[g].ref => f = g
Descending(s) ==
  \A f, g \in DOMAIN s : s[f].pc \in Repeats /\ s[g].pc \in Repeats /\ f < g => s[f].ref > s[g].ref

\* Calls are made deeper and deeper, the first at no depth.
Nested(d, s) ==
  /\ s = << >> => d = 0
  /\ \A f \in DOMAIN s : s[f].base <= d
  /\ \A f, g \in DOMAIN s : f < g => s[g].base <= s[f].base
  /\ s # << >> => s[Len(s)].base = 0

Marks(refs) == {r \in DOMAIN refs : refs[r].visit /\ refs[r].kind # "stack"}

Linked(m, s) ==
  /\ About(s) /\ Distinct(s) /\ Descending(s)
  /\ Marks(m.refs) = RefsOf(s, Replaces)
  /\ ToSet(m.counters) = RefsOf(s, Repeats)

Calls(m, s) == Book(m) /\ Shaped(s) /\ Nested(m.depth, s) /\ Linked(m, s)

\* Pass 2 has no other calls than those of the automaton.
Automata(s) == \A f \in DOMAIN s : s[f].pc \in {"automaton", "symbol"}

CInv == Calls(asm, stack) /\ (phase # "expand" => Automata(stack))

-----------------------------------------------------------------------------
\* The stack, a call at a time.

\* What a stack says is what its top and the rest say.
LEMMA OnTop ==
  ASSUME NEW f, NEW t, IsSequence(t)
  PROVE  LET s == <<f>> \o t
         IN /\ IsSequence(s) /\ s # << >> /\ s[1] = f /\ Tail(s) = t
            /\ Len(s) = Len(t) + 1
            /\ DOMAIN s = 1 .. Len(t) + 1 /\ DOMAIN t = 1 .. Len(t) /\ Len(t) \in Nat
            /\ \A i \in DOMAIN t : s[i + 1] = t[i]
            /\ \A i \in DOMAIN s : i # 1 => i - 1 \in DOMAIN t /\ s[i] = t[i - 1]
<1>1. PICK S : t \in Seq(S)
  BY DEF IsSequence
<1>2. <<f>> \o t \in Seq(S \cup {f})
  BY <1>1
<1> QED BY <1>1, <1>2 DEF IsSequence

LEMMA ShapedOnTop ==
  ASSUME NEW f, NEW t, IsSequence(t)
  PROVE  Shaped(<<f>> \o t) <=> Call(f) /\ Shaped(t)
<1> DEFINE s == <<f>> \o t
<1>1. /\ IsSequence(s) /\ s[1] = f /\ 1 \in DOMAIN s
      /\ \A i \in DOMAIN t : i + 1 \in DOMAIN s /\ s[i + 1] = t[i]
      /\ \A i \in DOMAIN s : i # 1 => i - 1 \in DOMAIN t /\ s[i] = t[i - 1]
  BY OnTop
<1> HIDE DEF s
<1>2. ASSUME Shaped(s) PROVE Call(f) /\ Shaped(t)
  <2>1. \A i \in DOMAIN t : Call(t[i])
    BY <1>1, <1>2 DEF Shaped
  <2> QED BY <1>1, <1>2, <2>1 DEF Shaped
<1>3. ASSUME Call(f), Shaped(t) PROVE Shaped(s)
  <2>1. ASSUME NEW i \in DOMAIN s PROVE Call(s[i])
    BY <1>1, <1>3 DEF Shaped
  <2> QED BY <1>1, <2>1 DEF Shaped
<1> QED BY <1>2, <1>3 DEF s

LEMMA NestedOnTop ==
  ASSUME NEW f, NEW t, Shaped(t), Call(f), NEW d \in Nat
  PROVE  Nested(d, <<f>> \o t) <=> f.base <= d /\ Nested(f.base, t)
<1> DEFINE s == <<f>> \o t
<1>1. /\ s # << >> /\ s[1] = f /\ Len(s) = Len(t) + 1 /\ Len(t) \in Nat
      /\ DOMAIN s = 1 .. Len(t) + 1 /\ DOMAIN t = 1 .. Len(t)
      /\ \A i \in DOMAIN t : s[i + 1] = t[i]
      /\ \A i \in DOMAIN s : i # 1 => i - 1 \in DOMAIN t /\ s[i] = t[i - 1]
  BY OnTop DEF Shaped
<1>2. f.base \in Nat /\ \A i \in DOMAIN t : t[i].base \in Nat
  BY DEF Shaped, Call
<1>3. t = << >> <=> Len(t) = 0
  BY DEF Shaped, IsSequence
<1> HIDE DEF s
<1>4. ASSUME Nested(d, s) PROVE f.base <= d /\ Nested(f.base, t)
  <2>1. f.base <= d
    BY <1>1, <1>4 DEF Nested
  <2>2. \A i \in DOMAIN t : t[i].base <= f.base
    <3> TAKE i \in DOMAIN t
    <3>1. 1 \in DOMAIN s /\ i + 1 \in DOMAIN s /\ 1 < i + 1
      BY <1>1
    <3> QED BY <1>1, <1>4, <3>1 DEF Nested
  <2>3. \A i, j \in DOMAIN t : i < j => t[j].base <= t[i].base
    <3> TAKE i, j \in DOMAIN t
    <3>1. i + 1 \in DOMAIN s /\ j + 1 \in DOMAIN s /\ (i < j => i + 1 < j + 1)
      BY <1>1
    <3> QED BY <1>1, <1>4, <3>1 DEF Nested
  <2>4. t = << >> => f.base = 0
    BY <1>1, <1>3, <1>4 DEF Nested
  <2>5. t # << >> => t[Len(t)].base = 0
    <3>1. t # << >> => Len(t) \in DOMAIN t
      BY <1>1, <1>3
    <3> QED BY <1>1, <1>4, <3>1 DEF Nested
  <2> QED BY <2>1, <2>2, <2>3, <2>4, <2>5 DEF Nested
<1>5. ASSUME f.base <= d, Nested(f.base, t) PROVE Nested(d, s)
  <2>1. \A i \in DOMAIN s : s[i].base <= f.base
    BY <1>1, <1>2, <1>5 DEF Nested
  <2>2. \A i \in DOMAIN s : s[i].base \in Nat
    BY <1>1, <1>2
  <2>3. \A i, j \in DOMAIN s : i < j => s[j].base <= s[i].base
    <3> TAKE i, j \in DOMAIN s
    <3>1. CASE i = 1
      BY <1>1, <2>1, <3>1
    <3>2. CASE i # 1 /\ i < j
      <4>1. i - 1 \in DOMAIN t /\ j - 1 \in DOMAIN t /\ i - 1 < j - 1 /\ s[i] = t[i - 1] /\ s[j] = t[j - 1]
        BY <1>1, <3>2
      <4> QED BY <1>5, <4>1 DEF Nested
    <3> QED BY <3>1, <3>2
  <2>4. s[Len(s)].base = 0
    BY <1>1, <1>3, <1>5 DEF Nested
  <2> QED BY <1>1, <1>2, <1>5, <2>1, <2>2, <2>3, <2>4 DEF Nested
<1> QED BY <1>4, <1>5 DEF s

LEMMA LinkedOnTop ==
  ASSUME NEW f, NEW t, Shaped(t), Call(f)
  PROVE  /\ \A pcs : RefsOf(<<f>> \o t, pcs) =
                     RefsOf(t, pcs) \cup (IF f.pc \in pcs /\ f.ref \in Nat THEN {f.ref} ELSE {})
         /\ About(<<f>> \o t) <=> About(t) /\ (f.pc \in Replaces \cup Repeats => f.ref \in Nat)
         /\ About(<<f>> \o t) =>
              /\ Distinct(<<f>> \o t) <=>
                   Distinct(t) /\ (f.pc \in Replaces => f.ref \notin RefsOf(t, Replaces))
              /\ Descending(<<f>> \o t) <=>
                   Descending(t) /\ (f.pc \in Repeats => \A r \in RefsOf(t, Repeats) : f.ref > r)
<1> DEFINE s == <<f>> \o t
<1>1. /\ s[1] = f /\ Len(t) \in Nat
      /\ DOMAIN s = 1 .. Len(t) + 1 /\ DOMAIN t = 1 .. Len(t)
      /\ \A i \in DOMAIN t : s[i + 1] = t[i]
      /\ \A i \in DOMAIN s : i # 1 => i - 1 \in DOMAIN t /\ s[i] = t[i - 1]
  BY OnTop DEF Shaped
<1> HIDE DEF s
<1>2. \A i \in DOMAIN t : i + 1 \in DOMAIN s /\ i + 1 # 1 /\ s[i + 1] = t[i]
  BY <1>1
<1>3. 1 \in DOMAIN s /\ s[1] = f
  BY <1>1
<1>4. ASSUME NEW pcs
      PROVE  RefsOf(s, pcs) = RefsOf(t, pcs) \cup (IF f.pc \in pcs /\ f.ref \in Nat THEN {f.ref} ELSE {})
  BY <1>1, <1>2, <1>3 DEF RefsOf
<1>5. About(s) <=> About(t) /\ (f.pc \in Replaces \cup Repeats => f.ref \in Nat)
  BY <1>1, <1>2, <1>3 DEF About
<1>6. ASSUME About(s)
      PROVE  Distinct(s) <=> Distinct(t) /\ (f.pc \in Replaces => f.ref \notin RefsOf(t, Replaces))
  <2>1. ASSUME Distinct(s) PROVE Distinct(t) /\ (f.pc \in Replaces => f.ref \notin RefsOf(t, Replaces))
    <3>1. Distinct(t)
      <4> SUFFICES ASSUME NEW i \in DOMAIN t, NEW j \in DOMAIN t, t[i].pc \in Replaces, t[j].pc \in Replaces,
                          t[i].ref = t[j].ref
                   PROVE  i = j
        BY DEF Distinct
      <4>1. i + 1 = j + 1
        BY <1>2, <2>1 DEF Distinct
      <4> QED BY <1>1, <4>1
    <3>2. ASSUME f.pc \in Replaces, NEW i \in DOMAIN t, t[i].pc \in Replaces, t[i].ref = f.ref PROVE FALSE
      BY <1>2, <1>3, <2>1, <3>2 DEF Distinct
    <3> QED BY <3>1, <3>2 DEF RefsOf
  <2>2. ASSUME Distinct(t), f.pc \in Replaces => f.ref \notin RefsOf(t, Replaces) PROVE Distinct(s)
    <3> SUFFICES ASSUME NEW i \in DOMAIN s, NEW j \in DOMAIN s, s[i].pc \in Replaces, s[j].pc \in Replaces,
                        s[i].ref = s[j].ref
                 PROVE  i = j
      BY DEF Distinct
    <3>1. s[i].ref \in Nat
      BY <1>6 DEF About
    <3>2. CASE i = 1 /\ j # 1
      BY <1>1, <2>2, <3>1, <3>2 DEF RefsOf
    <3>3. CASE i # 1 /\ j = 1
      BY <1>1, <2>2, <3>1, <3>3 DEF RefsOf
    <3>4. CASE i # 1 /\ j # 1
      <4>1. i - 1 = j - 1
        BY <1>1, <2>2, <3>4 DEF Distinct
      <4> QED BY <1>1, <4>1
    <3> QED BY <3>2, <3>3, <3>4
  <2> QED BY <2>1, <2>2
<1>7. ASSUME About(s)
      PROVE  Descending(s) <=>
               Descending(t) /\ (f.pc \in Repeats => \A r \in RefsOf(t, Repeats) : f.ref > r)
  <2>1. ASSUME Descending(s)
        PROVE  Descending(t) /\ (f.pc \in Repeats => \A r \in RefsOf(t, Repeats) : f.ref > r)
    <3>1. Descending(t)
      <4> SUFFICES ASSUME NEW i \in DOMAIN t, NEW j \in DOMAIN t, t[i].pc \in Repeats, t[j].pc \in Repeats,
                          i < j
                   PROVE  t[i].ref > t[j].ref
        BY DEF Descending
      <4>1. i + 1 < j + 1
        BY <1>1
      <4> QED BY <1>2, <2>1, <4>1 DEF Descending
    <3>2. ASSUME f.pc \in Repeats, NEW i \in DOMAIN t, t[i].pc \in Repeats PROVE f.ref > t[i].ref
      <4>1. 1 < i + 1
        BY <1>1
      <4> QED BY <1>2, <1>3, <2>1, <3>2, <4>1 DEF Descending
    <3> QED BY <3>1, <3>2 DEF RefsOf
  <2>2. ASSUME Descending(t), f.pc \in Repeats => \A r \in RefsOf(t, Repeats) : f.ref > r PROVE Descending(s)
    <3> SUFFICES ASSUME NEW i \in DOMAIN s, NEW j \in DOMAIN s, s[i].pc \in Repeats, s[j].pc \in Repeats,
                        i < j
                 PROVE  s[i].ref > s[j].ref
      BY DEF Descending
    <3>1. s[j].ref \in Nat
      BY <1>7 DEF About
    <3>2. j # 1 /\ j - 1 \in DOMAIN t /\ s[j] = t[j - 1]
      BY <1>1
    <3>3. CASE i = 1
      BY <1>1, <2>2, <3>1, <3>2, <3>3 DEF RefsOf
    <3>4. CASE i # 1
      <4>1. i - 1 < j - 1 /\ i - 1 \in DOMAIN t /\ s[i] = t[i - 1]
        BY <1>1, <3>4
      <4> QED BY <2>2, <3>2, <4>1 DEF Descending
    <3> QED BY <3>3, <3>4
  <2> QED BY <2>1, <2>2
<1> QED BY <1>4, <1>5, <1>6, <1>7 DEF s

\* The same, of symbols, counters and calls together.
LinkedTo(m, f, t) ==
  /\ About(t) /\ Distinct(t) /\ Descending(t)
  /\ f.pc \in Replaces \cup Repeats => f.ref \in Nat
  /\ f.pc \in Replaces => f.ref \notin RefsOf(t, Replaces)
  /\ f.pc \in Repeats => \A r \in RefsOf(t, Repeats) : f.ref > r
  /\ Marks(m.refs) = RefsOf(t, Replaces) \cup (IF f.pc \in Replaces THEN {f.ref} ELSE {})
  /\ ToSet(m.counters) = RefsOf(t, Repeats) \cup (IF f.pc \in Repeats THEN {f.ref} ELSE {})

CallsTo(m, f, t) ==
  /\ Book(m) /\ Call(f) /\ Shaped(t)
  /\ f.base <= m.depth /\ Nested(f.base, t) /\ LinkedTo(m, f, t)

LEMMA CallsOnTop ==
  ASSUME NEW m, NEW f, NEW t, IsSequence(t)
  PROVE  Calls(m, <<f>> \o t) <=> CallsTo(m, f, t)
<1> DEFINE s == <<f>> \o t
<1>1. Shaped(s) <=> Call(f) /\ Shaped(t)
  BY ShapedOnTop
<1>2. ASSUME Book(m), Call(f), Shaped(t)
      PROVE  Nested(m.depth, s) <=> f.base <= m.depth /\ Nested(f.base, t)
  BY <1>2, NestedOnTop DEF Book
<1>3. ASSUME Call(f), Shaped(t)
      PROVE  Linked(m, s) <=> LinkedTo(m, f, t)
  <2>1. /\ \A pcs : RefsOf(s, pcs) =
                     RefsOf(t, pcs) \cup (IF f.pc \in pcs /\ f.ref \in Nat THEN {f.ref} ELSE {})
        /\ About(s) <=> About(t) /\ (f.pc \in Replaces \cup Repeats => f.ref \in Nat)
        /\ About(s) =>
              /\ Distinct(s) <=> Distinct(t) /\ (f.pc \in Replaces => f.ref \notin RefsOf(t, Replaces))
              /\ Descending(s) <=>
                   Descending(t) /\ (f.pc \in Repeats => \A r \in RefsOf(t, Repeats) : f.ref > r)
    BY <1>3, LinkedOnTop
  <2>2. RefsOf(s, Replaces) =
          RefsOf(t, Replaces) \cup (IF f.pc \in Replaces /\ f.ref \in Nat THEN {f.ref} ELSE {})
    BY <2>1
  <2>3. RefsOf(s, Repeats) =
          RefsOf(t, Repeats) \cup (IF f.pc \in Repeats /\ f.ref \in Nat THEN {f.ref} ELSE {})
    BY <2>1
  <2> HIDE DEF s
  <2>4. CASE About(s)
    BY <2>1, <2>2, <2>3, <2>4 DEF Linked, LinkedTo
  <2>5. CASE ~About(s)
    BY <2>1, <2>5 DEF Linked, LinkedTo
  <2> QED BY <2>4, <2>5
<1> HIDE DEF s
<1>4. Calls(m, s) <=> CallsTo(m, f, t)
  BY <1>1, <1>2, <1>3 DEF Calls, CallsTo
<1> QED BY <1>4 DEF s

\* A stack that is not empty is its top and the rest.
LEMMA TopAndRest ==
  ASSUME NEW s, Shaped(s), s # << >>
  PROVE  s = <<s[1]>> \o Tail(s) /\ IsSequence(Tail(s)) /\ Call(s[1]) /\ 1 \in DOMAIN s
<1>1. PICK S : s \in Seq(S)
  BY DEF Shaped, IsSequence
<1>2. Tail(s) \in Seq(S) /\ s[1] \in S /\ 1 \in DOMAIN s
  BY <1>1
<1>3. s = <<s[1]>> \o Tail(s)
  BY <1>1
<1> QED BY <1>2, <1>3 DEF Shaped, IsSequence

LEMMA CallsTop ==
  ASSUME NEW m, NEW s, Calls(m, s), s # << >>
  PROVE  CallsTo(m, s[1], Tail(s)) /\ IsSequence(Tail(s))
<1>1. s = <<s[1]>> \o Tail(s) /\ IsSequence(Tail(s))
  BY TopAndRest DEF Calls
<1>2. Calls(m, <<s[1]>> \o Tail(s)) <=> CallsTo(m, s[1], Tail(s))
  BY <1>1, CallsOnTop
<1> QED BY <1>1, <1>2

\* What differs in other fields is as linked to the calls.
SameCalls(m, n) ==
  /\ {"refs", "counters", "depth"} \subseteq DOMAIN n
  /\ n.refs = m.refs /\ n.counters = m.counters /\ n.depth = m.depth

LEMMA CallsSame ==
  ASSUME NEW m, NEW n, NEW s, Calls(m, s), SameCalls(m, n)
  PROVE  Calls(n, s)
<1>1. Book(n)
  BY DEF Calls, Book, SameCalls
<1>2. Linked(n, s)
  BY DEF Calls, Linked, SameCalls
<1> QED BY <1>1, <1>2 DEF Calls, SameCalls

\* Counting one more call.
LEMMA CallsDeeper ==
  ASSUME NEW m, NEW s, Calls(m, s), s # << >>
  PROVE  Calls([m EXCEPT !.depth = @ + 1], s)
<1> DEFINE n == [m EXCEPT !.depth = @ + 1]
<1>1. /\ {"refs", "counters", "depth"} \subseteq DOMAIN n
      /\ n.refs = m.refs /\ n.counters = m.counters /\ n.depth = m.depth + 1 /\ m.depth \in Nat
  BY DEF Calls, Book
<1> HIDE DEF n
<1>2. Book(n) /\ Linked(n, s)
  BY <1>1 DEF Calls, Book, Linked
<1>3. Nested(n.depth, s)
  <2>1. \A f \in DOMAIN s : s[f].base \in Nat
    BY DEF Calls, Shaped, Call
  <2> QED BY <1>1, <2>1 DEF Calls, Nested
<1> QED BY <1>2, <1>3 DEF Calls, n

\* Returning from a call that no symbol waits for.
LEMMA CallsReturn ==
  ASSUME NEW m, NEW s, Calls(m, s), s # << >>, s[1].pc \notin Replaces \cup Repeats
  PROVE  Calls([m EXCEPT !.depth = s[1].base], Tail(s))
<1> DEFINE n == [m EXCEPT !.depth = s[1].base]
<1>1. CallsTo(m, s[1], Tail(s))
  BY CallsTop
<1>2. /\ {"refs", "counters", "depth"} \subseteq DOMAIN n
      /\ n.refs = m.refs /\ n.counters = m.counters /\ n.depth = s[1].base /\ s[1].base \in Nat
  BY <1>1 DEF CallsTo, Book, Call
<1> HIDE DEF n
<1>3. Book(n)
  BY <1>1, <1>2 DEF CallsTo, Book
<1>4. Linked(n, Tail(s))
  BY <1>1, <1>2 DEF CallsTo, LinkedTo, Linked
<1> QED BY <1>1, <1>2, <1>3, <1>4 DEF Calls, CallsTo, n

\* A call that goes on as another of its kind, or as none that is waited for.
OfAKind(f, g) ==
  /\ Call(g) /\ g.base = f.base
  /\ \A pcs \in {Replaces, Repeats} : (f.pc \in pcs <=> g.pc \in pcs) /\ (f.pc \in pcs => g.ref = f.ref)

LEMMA CallsBecome ==
  ASSUME NEW m, NEW s, Calls(m, s), s # << >>, NEW g, OfAKind(s[1], g)
  PROVE  Calls(m, <<g>> \o Tail(s))
<1>1. CallsTo(m, s[1], Tail(s)) /\ IsSequence(Tail(s))
  BY CallsTop
<1>2. /\ g.pc \in Replaces <=> s[1].pc \in Replaces
      /\ g.pc \in Repeats <=> s[1].pc \in Repeats
      /\ g.pc \in Replaces \cup Repeats => g.ref = s[1].ref
      /\ Call(g) /\ g.base = s[1].base
  BY DEF OfAKind
<1>3. LinkedTo(m, g, Tail(s))
  BY <1>1, <1>2 DEF CallsTo, LinkedTo
<1>4. CallsTo(m, g, Tail(s))
  BY <1>1, <1>2, <1>3 DEF CallsTo
<1> QED BY <1>1, <1>4, CallsOnTop

\* A call made at the present depth.
LEMMA CallsPush ==
  ASSUME NEW m, NEW s, Calls(m, s), NEW f, Call(f), f.base = m.depth, f.pc \notin Replaces \cup Repeats
  PROVE  Calls(m, <<f>> \o s)
<1>1. CallsTo(m, f, s)
  <2>1. LinkedTo(m, f, s)
    BY DEF Calls, Linked, LinkedTo
  <2>2. f.base <= m.depth
    BY DEF Calls, Book
  <2> QED BY <2>1, <2>2 DEF Calls, CallsTo
<1>2. IsSequence(s)
  BY DEF Calls, Shaped
<1> QED BY <1>1, <1>2, CallsOnTop

\* A call begins to replace a symbol that none replaces.
LEMMA CallsMark ==
  ASSUME NEW m, NEW s, Calls(m, s), s # << >>, s[1].pc \notin Replaces \cup Repeats,
         NEW k \in DOMAIN m.refs, ~m.refs[k].visit, m.refs[k].kind # "stack",
         NEW g, Call(g), g.base = s[1].base, g.pc \in Replaces, g.ref = k
  PROVE  Calls([m EXCEPT !.refs[k].visit = TRUE], <<g>> \o Tail(s))
<1> DEFINE n == [m EXCEPT !.refs[k].visit = TRUE]
           t == Tail(s)
<1>1. CallsTo(m, s[1], t) /\ IsSequence(t)
  BY CallsTop
<1>2. PICK S : m.refs \in Seq(S)
  BY <1>1 DEF CallsTo, Book, IsSequence
<1>3. /\ {"refs", "counters", "depth"} \subseteq DOMAIN n
      /\ n.refs = [m.refs EXCEPT ![k].visit = TRUE]
      /\ n.counters = m.counters /\ n.depth = m.depth
  BY <1>1 DEF CallsTo, Book
<1>4. RefOK(m.refs[k]) /\ k \in Nat
  BY <1>1, <1>2 DEF CallsTo, Book
<1>5. /\ DOMAIN n.refs = DOMAIN m.refs
      /\ n.refs[k].visit /\ n.refs[k].kind = m.refs[k].kind /\ n.refs[k].names = m.refs[k].names
      /\ RefOK(n.refs[k])
      /\ \A r \in DOMAIN m.refs : r # k => n.refs[r] = m.refs[r]
  BY <1>3, <1>4 DEF RefOK
<1>6. IsSequence(n.refs)
  <2>1. n.refs \in Seq(S \cup {[m.refs[k] EXCEPT !.visit = TRUE]})
    BY <1>2, <1>3
  <2> QED BY <2>1 DEF IsSequence
<1> HIDE DEF n, t
<1>7. Book(n)
  BY <1>1, <1>3, <1>5, <1>6 DEF CallsTo, Book
<1>8. Marks(n.refs) = Marks(m.refs) \cup {k}
  BY <1>5 DEF Marks
<1>9. k \notin Marks(m.refs)
  BY DEF Marks
<1>10. g.pc \notin Repeats
  BY DEF Replaces, Repeats
<1>11. LinkedTo(n, g, t)
  BY <1>1, <1>3, <1>4, <1>8, <1>9, <1>10 DEF CallsTo, LinkedTo
<1>12. CallsTo(n, g, t)
  BY <1>1, <1>3, <1>7, <1>11 DEF CallsTo
<1> QED BY <1>1, <1>12, CallsOnTop DEF n, t

\* It has replaced it.
LEMMA CallsUnmark ==
  ASSUME NEW m, NEW s, Calls(m, s), s # << >>, s[1].pc \in Replaces,
         NEW g, Call(g), g.base = s[1].base, g.pc \notin Replaces \cup Repeats
  PROVE  Calls([m EXCEPT !.refs[s[1].ref].visit = FALSE], <<g>> \o Tail(s))
<1> DEFINE k == s[1].ref
           n == [m EXCEPT !.refs[k].visit = FALSE]
           t == Tail(s)
<1>1. CallsTo(m, s[1], t) /\ IsSequence(t)
  BY CallsTop
<1>2. PICK S : m.refs \in Seq(S)
  BY <1>1 DEF CallsTo, Book, IsSequence
<1>3. /\ {"refs", "counters", "depth"} \subseteq DOMAIN n
      /\ n.refs = [m.refs EXCEPT ![k].visit = FALSE]
      /\ n.counters = m.counters /\ n.depth = m.depth
  BY <1>1 DEF CallsTo, Book
<1>4. k \in DOMAIN m.refs /\ RefOK(m.refs[k])
  BY <1>1 DEF CallsTo, Book, LinkedTo, Marks
<1>5. /\ DOMAIN n.refs = DOMAIN m.refs
      /\ ~n.refs[k].visit /\ n.refs[k].kind = m.refs[k].kind /\ n.refs[k].names = m.refs[k].names
      /\ RefOK(n.refs[k])
      /\ \A r \in DOMAIN m.refs : r # k => n.refs[r] = m.refs[r]
  BY <1>3, <1>4 DEF RefOK
<1>6. IsSequence(n.refs)
  <2>1. n.refs \in Seq(S \cup {[m.refs[k] EXCEPT !.visit = FALSE]})
    BY <1>2, <1>3, <1>4
  <2> QED BY <2>1 DEF IsSequence
<1>7. s[1].pc \notin Repeats
  BY DEF Replaces, Repeats
<1> HIDE DEF n, t, k
<1>8. Book(n)
  BY <1>1, <1>3, <1>5, <1>6 DEF CallsTo, Book
<1>9. Marks(n.refs) = Marks(m.refs) \ {k}
  BY <1>5 DEF Marks
<1>10. Marks(m.refs) = RefsOf(t, Replaces) \cup {k} /\ k \notin RefsOf(t, Replaces)
  BY <1>1 DEF CallsTo, LinkedTo, k
<1>11. LinkedTo(n, g, t)
  BY <1>1, <1>3, <1>7, <1>9, <1>10 DEF CallsTo, LinkedTo
<1>12. CallsTo(n, g, t)
  BY <1>1, <1>3, <1>8, <1>11 DEF CallsTo
<1> QED BY <1>1, <1>12, CallsOnTop DEF n, t, k

\* A symbol that is no counter.
LEMMA CallsSymbol ==
  ASSUME NEW m, NEW s, Calls(m, s), NEW names, NEW kind, kind # "stack", NEW v
  PROVE  Calls(PushRef(m, names, kind, v, FALSE), s)
<1> DEFINE rec == [names |-> names, kind |-> kind, v |-> v, visit |-> FALSE]
           n == PushRef(m, names, kind, v, FALSE)
<1>1. /\ {"refs", "counters", "depth"} \subseteq DOMAIN n
      /\ n.refs = Append(m.refs, rec) /\ n.counters = m.counters /\ n.depth = m.depth
  BY DEF Calls, Book, PushRef
<1>2. PICK S : m.refs \in Seq(S)
  BY DEF Calls, Book, IsSequence
<1>3. /\ Append(m.refs, rec) \in Seq(S \cup {rec})
      /\ DOMAIN Append(m.refs, rec) = DOMAIN m.refs \cup {Len(m.refs) + 1}
      /\ \A i \in DOMAIN m.refs : Append(m.refs, rec)[i] = m.refs[i]
      /\ Append(m.refs, rec)[Len(m.refs) + 1] = rec
      /\ Len(m.refs) + 1 \notin DOMAIN m.refs
  BY <1>2
<1>4. RefOK(rec) /\ ~rec.visit /\ rec.kind # "stack"
  BY DEF RefOK
<1> HIDE DEF rec, n
<1>5. Book(n)
  BY <1>1, <1>3, <1>4 DEF Calls, Book, IsSequence
<1>6. Marks(n.refs) = Marks(m.refs)
  BY <1>1, <1>3, <1>4 DEF Marks
<1> QED BY <1>1, <1>5, <1>6 DEF Calls, Linked, n

\* A block begins: its counter is the newest symbol.
LEMMA CallsCount ==
  ASSUME NEW m, NEW s, Calls(m, s), s # << >>, s[1].pc \notin Replaces \cup Repeats,
         NEW names, NEW v, NEW g, Call(g), g.base = s[1].base, g.pc \in Repeats,
         g.ref = Len(m.refs) + 1
  PROVE  Calls(PushRef(m, names, "stack", v, TRUE), <<g>> \o Tail(s))
<1> DEFINE rec == [names |-> names, kind |-> "stack", v |-> v, visit |-> TRUE]
           n == PushRef(m, names, "stack", v, TRUE)
           k == Len(m.refs) + 1
           t == Tail(s)
<1>1. CallsTo(m, s[1], t) /\ IsSequence(t)
  BY CallsTop
<1>2. /\ {"refs", "counters", "depth"} \subseteq DOMAIN n
      /\ n.refs = Append(m.refs, rec) /\ n.counters = Append(m.counters, k) /\ n.depth = m.depth
  BY <1>1 DEF CallsTo, Book, PushRef
<1>3. PICK S, C : m.refs \in Seq(S) /\ m.counters \in Seq(C)
  BY <1>1 DEF CallsTo, Book, IsSequence
<1>4. /\ Append(m.refs, rec) \in Seq(S \cup {rec})
      /\ DOMAIN Append(m.refs, rec) = DOMAIN m.refs \cup {k}
      /\ \A i \in DOMAIN m.refs : Append(m.refs, rec)[i] = m.refs[i]
      /\ Append(m.refs, rec)[k] = rec
      /\ k \in Nat /\ \A i \in DOMAIN m.refs : i \in Nat /\ i < k
  BY <1>3
<1>5. /\ Append(m.counters, k) \in Seq(C \cup {k})
      /\ DOMAIN Append(m.counters, k) = DOMAIN m.counters \cup {Len(m.counters) + 1}
      /\ \A i \in DOMAIN m.counters : Append(m.counters, k)[i] = m.counters[i]
      /\ Append(m.counters, k)[Len(m.counters) + 1] = k
      /\ \A i \in DOMAIN m.counters : i \in Nat /\ i < Len(m.counters) + 1
      /\ Len(m.counters) + 1 \in Nat
  BY <1>3
<1>6. RefOK(rec) /\ rec.kind = "stack"
  BY DEF RefOK
<1>7. g.pc \notin Replaces
  BY DEF Replaces, Repeats
<1> HIDE DEF rec, n, k, t
<1>8. ToSet(n.counters) = ToSet(m.counters) \cup {k}
  BY <1>2, <1>5 DEF ToSet
<1>9. Book(n)
  <2>1. IsSequence(n.refs) /\ IsSequence(n.counters)
    BY <1>2, <1>4, <1>5 DEF IsSequence
  <2>2. \A r \in DOMAIN n.refs : RefOK(n.refs[r])
    BY <1>1, <1>2, <1>4, <1>6 DEF CallsTo, Book
  <2>3. \A c \in DOMAIN n.counters : n.counters[c] \in DOMAIN n.refs
    BY <1>1, <1>2, <1>4, <1>5 DEF CallsTo, Book
  <2>4. \A c, d \in DOMAIN n.counters : c < d => n.counters[c] < n.counters[d]
    <3> TAKE c, d \in DOMAIN n.counters
    <3>1. CASE d = Len(m.counters) + 1
      BY <1>1, <1>2, <1>4, <1>5, <3>1 DEF CallsTo, Book
    <3>2. CASE d # Len(m.counters) + 1 /\ c < d
      <4>1. d \in DOMAIN m.counters /\ c # Len(m.counters) + 1
        BY <1>2, <1>5, <3>2
      <4>2. c \in DOMAIN m.counters
        BY <1>2, <1>5, <4>1
      <4> QED BY <1>1, <1>2, <1>5, <3>2, <4>1, <4>2 DEF CallsTo, Book
    <3> QED BY <3>1, <3>2
  <2>5. \A r \in DOMAIN n.refs : n.refs[r].kind = "stack" /\ n.refs[r].names # {} => r \in ToSet(n.counters)
    BY <1>1, <1>2, <1>4, <1>8 DEF CallsTo, Book
  <2> QED BY <1>1, <1>2, <2>1, <2>2, <2>3, <2>4, <2>5 DEF CallsTo, Book
<1>10. Marks(n.refs) = Marks(m.refs)
  BY <1>2, <1>4, <1>6 DEF Marks
<1>11. \A r \in RefsOf(t, Repeats) : k > r
  <2>1. RefsOf(t, Repeats) \subseteq ToSet(m.counters)
    BY <1>1 DEF CallsTo, LinkedTo
  <2>2. ToSet(m.counters) \subseteq DOMAIN m.refs
    BY <1>1 DEF CallsTo, Book, ToSet
  <2> QED BY <1>4, <2>1, <2>2
<1>12. g.ref = k
  BY DEF k
<1>13. LinkedTo(n, g, t)
  BY <1>1, <1>4, <1>7, <1>8, <1>10, <1>11, <1>12 DEF CallsTo, LinkedTo
<1>14. CallsTo(n, g, t)
  BY <1>1, <1>2, <1>9, <1>13 DEF CallsTo
<1> QED BY <1>1, <1>14, CallsOnTop DEF n, t

\* The block is over, and its counter has no name any more.
LEMMA CallsUncount ==
  ASSUME NEW m, NEW s, Calls(m, s), s # << >>, s[1].pc \in Repeats
  PROVE  Calls([PopCounter(m) EXCEPT !.depth = s[1].base], Tail(s))
<1> DEFINE k == s[1].ref
           last == Last(m.counters)
           n == [PopCounter(m) EXCEPT !.depth = s[1].base]
           t == Tail(s)
<1>1. CallsTo(m, s[1], t) /\ IsSequence(t)
  BY CallsTop
<1>2. PICK S, C : m.refs \in Seq(S) /\ m.counters \in Seq(C)
  BY <1>1 DEF CallsTo, Book, IsSequence
<1>3. /\ ToSet(m.counters) = RefsOf(t, Repeats) \cup {k}
      /\ k \in Nat /\ \A r \in RefsOf(t, Repeats) : r \in Nat /\ k > r
      /\ s[1].pc \notin Replaces
  BY <1>1 DEF CallsTo, LinkedTo, RefsOf, Replaces, Repeats
<1>4. m.counters # << >>
  BY <1>2, <1>3 DEF ToSet
<1>5. /\ Len(m.counters) \in DOMAIN m.counters /\ last = m.counters[Len(m.counters)]
      /\ Front(m.counters) \in Seq(C)
      /\ DOMAIN Front(m.counters) = DOMAIN m.counters \ {Len(m.counters)}
      /\ \A c \in DOMAIN Front(m.counters) : Front(m.counters)[c] = m.counters[c]
      /\ \A c \in DOMAIN m.counters : c \in Nat /\ c <= Len(m.counters)
      /\ Len(m.counters) \in Nat
  BY <1>2, <1>4 DEF Last, Front
<1>6. /\ last \in DOMAIN m.refs /\ RefOK(m.refs[last]) /\ last \in ToSet(m.counters)
      /\ \A c \in DOMAIN m.counters : c # Len(m.counters) => m.counters[c] < last
  BY <1>1, <1>5 DEF CallsTo, Book, ToSet
<1>7. last = k
  <2>1. PICK c \in DOMAIN m.counters : m.counters[c] = k
    BY <1>3 DEF ToSet
  <2>2. last \in Nat
    BY <1>3, <1>6
  <2>3. k <= last
    BY <1>3, <1>5, <1>6, <2>1, <2>2
  <2> QED BY <1>3, <1>6, <2>2, <2>3
<1> HIDE DEF last, k, t
<1>8. /\ {"refs", "counters", "depth"} \subseteq DOMAIN n
      /\ n.refs = [m.refs EXCEPT ![last].names = {}]
      /\ n.counters = Front(m.counters) /\ n.depth = s[1].base /\ s[1].base \in Nat
  BY <1>1, <1>4 DEF CallsTo, Book, Call, PopCounter, last
<1>9. /\ DOMAIN n.refs = DOMAIN m.refs
      /\ n.refs[last].names = {} /\ n.refs[last].kind = m.refs[last].kind
      /\ n.refs[last].visit = m.refs[last].visit /\ RefOK(n.refs[last])
      /\ \A r \in DOMAIN m.refs : r # last => n.refs[r] = m.refs[r]
  BY <1>6, <1>8 DEF RefOK
<1>10. IsSequence(n.refs) /\ IsSequence(n.counters)
  <2>1. n.refs \in Seq(S \cup {[m.refs[last] EXCEPT !.names = {}]})
    BY <1>2, <1>6, <1>8
  <2> QED BY <1>5, <1>8, <2>1 DEF IsSequence
<1> HIDE DEF n
<1>11. ToSet(n.counters) = ToSet(m.counters) \ {last}
  <2>1. \A c \in DOMAIN m.counters : c # Len(m.counters) => m.counters[c] # last
    <3> TAKE c \in DOMAIN m.counters
    <3>1. m.counters[c] \in ToSet(m.counters)
      BY DEF ToSet
    <3>2. m.counters[c] \in Nat /\ last \in Nat
      BY <1>3, <1>7, <3>1
    <3> QED BY <1>6, <3>2
  <2>2. m.counters[Len(m.counters)] = last
    BY <1>5
  <2> QED BY <1>5, <1>8, <2>1, <2>2 DEF ToSet
<1>12. Book(n)
  <2>1. \A r \in DOMAIN n.refs : RefOK(n.refs[r])
    BY <1>1, <1>9 DEF CallsTo, Book
  <2>2. \A c \in DOMAIN n.counters : n.counters[c] \in DOMAIN n.refs
    BY <1>1, <1>5, <1>8, <1>9 DEF CallsTo, Book
  <2>3. \A c, d \in DOMAIN n.counters : c < d => n.counters[c] < n.counters[d]
    BY <1>1, <1>5, <1>8 DEF CallsTo, Book
  <2>4. \A r \in DOMAIN n.refs : n.refs[r].kind = "stack" /\ n.refs[r].names # {} => r \in ToSet(n.counters)
    BY <1>1, <1>9, <1>11 DEF CallsTo, Book
  <2> QED BY <1>8, <1>10, <2>1, <2>2, <2>3, <2>4 DEF Book
<1>13. Marks(n.refs) = Marks(m.refs)
  <2>1. \A r \in DOMAIN m.refs : n.refs[r].kind = m.refs[r].kind /\ n.refs[r].visit = m.refs[r].visit
    BY <1>9
  <2> QED BY <1>9, <2>1 DEF Marks
<1>14. ToSet(n.counters) = RefsOf(t, Repeats)
  BY <1>3, <1>7, <1>11
<1>15. Linked(n, t)
  BY <1>1, <1>3, <1>13, <1>14 DEF CallsTo, LinkedTo, Linked
<1> QED BY <1>1, <1>8, <1>12, <1>15 DEF Calls, CallsTo, n, t

\* The helpers change symbols by new ones that are no counters, if at all.
LEMMA HelpersCalls ==
  ASSUME NEW m, NEW s, Calls(m, s)
  PROVE  /\ \A e, loc : Calls(ErrAt(m, e, loc), s)
         /\ \A e : Calls(Err(m, e), s) /\ Calls(Halt(m, e), s)
         /\ Calls(ExpandOne(m), s) /\ Calls(Labelled(m), s) /\ Calls(Counted(m), s)
         /\ \A text : Calls(AddLine(m, text), s) /\ Calls(Defined(m, text), s)
         /\ \A r : Calls(Evaluated(m, r), s) /\ Calls(Overflown(m, r), s) /\ Calls(Checked(m, r), s)
         /\ \A buf : Calls(Joined(m, buf).m, s)
         /\ \A op : Calls(Numbered(m, op), s)
         /\ \A i : Calls(ShellErr(m, i), s)
<1>1. ASSUME NEW n, Calls(n, s), NEW e, NEW loc PROVE Calls(ErrAt(n, e, loc), s)
  <2>1. SameCalls(n, ErrAt(n, e, loc))
    BY <1>1 DEF Calls, Book, SameCalls, ErrAt
  <2> QED BY <1>1, <2>1, CallsSame
<1>2. ASSUME NEW n, Calls(n, s), NEW e PROVE Calls(Err(n, e), s)
  BY <1>1, <1>2 DEF Err
<1>3. ASSUME NEW n, Calls(n, s), NEW e PROVE Calls(Halt(n, e), s)
  <2> DEFINE h == [n EXCEPT !.halted = TRUE]
             x == IF n.halted THEN n ELSE Err(h, e)
  <2>1. Calls(h, s)
    <3>1. SameCalls(n, h)
      BY <1>3 DEF Calls, Book, SameCalls
    <3> QED BY <1>3, <3>1, CallsSame
  <2>2. Calls(x, s)
    BY <1>2, <1>3, <2>1
  <2>3. SameCalls(x, [x EXCEPT !.vcont = FALSE])
    BY <2>2 DEF Calls, Book, SameCalls
  <2>4. Calls([x EXCEPT !.vcont = FALSE], s)
    BY <2>2, <2>3, CallsSame
  <2> QED BY <2>4 DEF Halt
<1>4. Calls(ExpandOne(m), s)
  <2> DEFINE c == [m EXCEPT !.expanded = @ + 1]
  <2>1. SameCalls(m, c)
    BY DEF Calls, Book, SameCalls
  <2>2. Calls(c, s)
    BY <2>1, CallsSame
  <2>3. Calls(Halt(c, "Work"), s)
    BY <1>3, <2>2
  <2> QED BY <2>2, <2>3 DEF ExpandOne
<1>5. ASSUME NEW n, Calls(n, s) PROVE Calls(Labelled(n), s)
  <2> DEFINE e == [n EXCEPT !.symtbl = << >>]
  <2>1. SameCalls(n, e)
    BY <1>5 DEF Calls, Book, SameCalls
  <2>2. Calls(e, s)
    BY <1>5, <2>1, CallsSame
  <2> HIDE DEF e
  <2>3. Calls(PushRef(e, ToSet(n.symtbl), "label", n.line, FALSE), s)
    BY <2>2, CallsSymbol
  <2> QED BY <1>5, <2>3 DEF Labelled, e
<1>6. ASSUME NEW text PROVE Calls(AddLine(m, text), s)
  <2>1. SameCalls(m, AddLine(m, text))
    BY DEF Calls, Book, SameCalls, AddLine
  <2> QED BY <2>1, CallsSame
<1>7. ASSUME NEW text PROVE Calls(Defined(m, text), s)
  <2> DEFINE D(body, n) == [m EXCEPT !.lists = Append(@, body), !.aline[2] = @ + n, !.symtbl = << >>]
  <2>1. ASSUME NEW body, NEW n PROVE Calls(D(body, n), s)
    <3>1. SameCalls(m, D(body, n))
      BY DEF Calls, Book, SameCalls
    <3> QED BY <3>1, CallsSame
  <2>2. \E body, n : Defined(m, text) = PushRef(D(body, n), ToSet(m.symtbl), "text", Len(m.lists) + 1, FALSE)
    BY DEF Defined
  <2> HIDE DEF D
  <2>3. ASSUME NEW body, NEW n
        PROVE  Calls(PushRef(D(body, n), ToSet(m.symtbl), "text", Len(m.lists) + 1, FALSE), s)
    BY <2>1, CallsSymbol
  <2> QED BY <2>2, <2>3
<1>8. ASSUME NEW r PROVE Calls(Evaluated(m, r), s)
  <2>1. SameCalls(m, Evaluated(m, r))
    BY DEF Calls, Book, SameCalls, Evaluated
  <2> QED BY <2>1, CallsSame
<1>9. ASSUME NEW r PROVE Calls(Overflown(m, r), s)
  BY <1>2 DEF Overflown
<1>10. ASSUME NEW r PROVE Calls(Checked(m, r), s)
  <2> DEFINE o == [Overflown(m, r) EXCEPT !.noassert = FALSE]
  <2>1. SameCalls(Overflown(m, r), o)
    BY <1>9 DEF Calls, Book, SameCalls
  <2>2. Calls(o, s)
    BY <1>9, <2>1, CallsSame
  <2>3. Calls(Err(o, "Chk"), s) /\ Calls(Err(m, "Bas"), s)
    BY <1>2, <2>2
  <2> QED BY <2>2, <2>3 DEF Checked
<1>11. ASSUME NEW buf PROVE Calls(Joined(m, buf).m, s)
  <2>1. Calls(Err(m, "Cat"), s)
    BY <1>2
  <2> QED BY <2>1 DEF Joined
<1>12. ASSUME NEW op PROVE Calls(Numbered(m, op), s)
  <2> DEFINE a == [Labelled(m) EXCEPT !.line = @ + 1]
             b == [Labelled(m) EXCEPT !.vcont = @ /\ op # "END"]
  <2>1. SameCalls(Labelled(m), a) /\ SameCalls(Labelled(m), b)
    BY <1>5 DEF Calls, Book, SameCalls
  <2>2. Calls(a, s) /\ Calls(b, s)
    BY <1>5, <2>1, CallsSame
  <2> QED BY <2>2 DEF Numbered
<1>13. ASSUME NEW i PROVE Calls(ShellErr(m, i), s)
  <2>1. Calls(Err(m, "Syn"), s) /\ Calls(Err(m, "Nop"), s)
    BY <1>2
  <2> QED BY <2>1 DEF ShellErr
<1>14. Calls(Counted(m), s)
  <2> DEFINE empty   == [m EXCEPT !.symtbl = << >>]
             dropped == IF m.symtbl = << >> THEN m ELSE ErrAt(empty, "Dlb", 0)
             checked == IF m.noassert THEN ErrAt(dropped, "Nas", 0) ELSE dropped
             limited == IF m.line > MaxLength THEN ErrAt(checked, "Lin", 0) ELSE checked
             begun   == [limited EXCEPT !.line = 0, !.out = << >>, !.lists = Append(@, m.out),
                                        !.aline = <<Len(m.lists) + 1, 0>>]
  <2>1. SameCalls(m, empty)
    BY DEF Calls, Book, SameCalls
  <2>2. Calls(empty, s)
    BY <2>1, CallsSame
  <2>3. Calls(dropped, s)
    BY <1>1, <2>2
  <2>4. Calls(checked, s)
    BY <1>1, <2>3
  <2>5. Calls(limited, s)
    BY <1>1, <2>4
  <2>6. SameCalls(limited, begun)
    BY <2>5 DEF Calls, Book, SameCalls
  <2>7. Calls(begun, s)
    BY <2>5, <2>6, CallsSame
  <2>8. Calls(ErrAt(checked, "Exx", 0), s) /\ Calls(ErrAt(limited, "Zln", 0), s)
    BY <1>1, <2>4, <2>5
  <2> QED BY <2>7, <2>8 DEF Counted
<1> QED BY <1>1, <1>2, <1>3, <1>4, <1>5, <1>6, <1>7, <1>8, <1>9, <1>10, <1>11, <1>12, <1>13, <1>14

-----------------------------------------------------------------------------
\* What a call may do keeps the bookkeeping.

LEMMA AutomataOnTop ==
  ASSUME NEW s, Shaped(s), s # << >>
  PROVE  /\ Automata(s) => s[1].pc \in {"automaton", "symbol"} /\ Automata(Tail(s))
         /\ \A f : Automata(Tail(s)) /\ f.pc \in {"automaton", "symbol"} => Automata(<<f>> \o Tail(s))
<1>1. s = <<s[1]>> \o Tail(s) /\ IsSequence(Tail(s)) /\ 1 \in DOMAIN s
  BY TopAndRest
<1> DEFINE t == Tail(s)
<1>2. \A i \in DOMAIN t : i + 1 \in DOMAIN s /\ s[i + 1] = t[i]
  BY <1>1, OnTop
<1>3. ASSUME NEW f
      PROVE  \A i \in DOMAIN (<<f>> \o t) : (<<f>> \o t)[i] = f \/ \E j \in DOMAIN t : (<<f>> \o t)[i] = t[j]
  BY <1>1, OnTop
<1> HIDE DEF t
<1>4. Automata(s) => s[1].pc \in {"automaton", "symbol"} /\ Automata(t)
  BY <1>1, <1>2 DEF Automata
<1>5. ASSUME NEW f, Automata(t), f.pc \in {"automaton", "symbol"} PROVE Automata(<<f>> \o t)
  BY <1>3, <1>5 DEF Automata
<1> QED BY <1>4, <1>5 DEF t

\* A call that returns.
LEMMA ReturnCalls ==
  ASSUME CInv, stack # << >>, Top.pc \notin Replaces \cup Repeats,
         NEW m, Calls(m, stack), NEW r, Return(m, r), phase' = phase
  PROVE  CInv'
<1>1. Calls(asm', stack')
  BY CallsReturn DEF Return, Top
<1>2. Automata(stack) => Automata(stack')
  BY AutomataOnTop DEF CInv, Calls, Return
<1> QED BY <1>1, <1>2 DEF CInv

\* A call that goes on.
LEMMA BecomeCalls ==
  ASSUME CInv, stack # << >>, NEW m, Calls(m, stack), NEW f, OfAKind(Top, f), Become(m, f), phase' = phase,
         phase = "expand" \/ f.pc \in {"automaton", "symbol"}
  PROVE  CInv'
<1>1. Calls(asm', stack')
  BY CallsBecome DEF Become, Top
<1>2. Automata(stack) /\ f.pc \in {"automaton", "symbol"} => Automata(stack')
  BY AutomataOnTop DEF CInv, Calls, Become
<1> QED BY <1>1, <1>2 DEF CInv

\* A call of pass 1 that makes another.
LEMMA AwaitCalls ==
  ASSUME CInv, stack # << >>, phase = "expand", phase' = phase,
         NEW m, NEW f, Calls(m, <<f>> \o Tail(stack)), NEW buf, NEW w, Await(m, f, buf, w)
  PROVE  CInv'
<1> DEFINE g == Frame("trav2", buf, w, "Op", m.depth)
           s == <<f>> \o Tail(stack)
<1>1. Call(g) /\ g.base = m.depth /\ g.pc \notin Replaces \cup Repeats
  BY DEF Calls, Book, Call, Frame, Replaces, Repeats
<1>2. Calls(m, <<g>> \o s)
  BY <1>1, CallsPush
<1>3. <<g>> \o s = <<g, f>> \o Tail(stack)
  <2>1. PICK S : Tail(stack) \in Seq(S)
    BY TopAndRest DEF CInv, Calls, IsSequence
  <2> QED BY <2>1
<1> QED BY <1>2, <1>3 DEF CInv, Await

\* A set of the numbers up to n has a greatest: its least upper bound.
LEMMA Greatest ==
  ASSUME NEW n \in Nat, NEW C \in SUBSET (1 .. n), C # {}
  PROVE  \E k \in C : \A j \in C : j <= k
<1> DEFINE Less == {p \in Nat \X Nat : p[1] < p[2]}
           Above == {u \in Nat : \A j \in C : j <= u}
<1>1. IsWellFoundedOn(Less, Nat)
  BY NatLessThanWellFounded DEF OpToRel
<1>2. n \in Above /\ Above \subseteq Nat
  OBVIOUS
<1>3. PICK u \in Above : \A v \in Above : <<v, u>> \notin Less
  <2> HIDE DEF Less, Above
  <2> QED BY <1>1, <1>2, WFMin
<1>4. u \in Nat /\ \A j \in C : j \in Nat /\ j > 0 /\ j <= u
  OBVIOUS
<1>5. ASSUME u \notin C PROVE FALSE
  <2>1. u - 1 \in Nat
    <3>1. PICK c \in C : TRUE
      OBVIOUS
    <3> QED BY <1>4, <3>1
  <2>2. u - 1 \in Above
    <3>1. \A j \in C : j <= u - 1
      BY <1>4, <1>5
    <3> QED BY <2>1, <3>1
  <2>3. <<u - 1, u>> \in Less
    BY <1>4, <2>1
  <2> QED BY <1>3, <2>2, <2>3
<1> QED BY <1>4, <1>5

\* What is looked up has the name.
LEMMA Found ==
  ASSUME NEW m, NEW s, Calls(m, s), NEW name, Lookup(m, name) # 0
  PROVE  Lookup(m, name) \in DOMAIN m.refs /\ name \in m.refs[Lookup(m, name)].names
<1> DEFINE C == {k \in DOMAIN m.refs : name \in m.refs[k].names}
<1>1. PICK S : m.refs \in Seq(S)
  BY DEF Calls, Book, IsSequence
<1>2. Len(m.refs) \in Nat /\ C \in SUBSET (1 .. Len(m.refs))
  BY <1>1
<1>3. C # {} /\ Lookup(m, name) = CHOOSE k \in C : \A j \in C : j <= k
  BY DEF Lookup
<1>4. \E k \in C : \A j \in C : j <= k
  BY <1>2, <1>3, Greatest
<1> HIDE DEF C
<1>5. Lookup(m, name) \in C
  BY <1>3, <1>4
<1> QED BY <1>5 DEF C

\* Going on in the same call.
LEMMA AgainCalls ==
  ASSUME CInv, stack # << >>, Top.pc \notin Replaces \cup Repeats, phase = "expand", phase' = phase,
         NEW m, Calls(m, stack), NEW buf, NEW w, Again(m, buf, w)
  PROVE  CInv'
<1>1. Call(Top)
  BY TopAndRest DEF CInv, Calls, Top
<1>2. OfAKind(Top, [Top EXCEPT !.pc = "trav2", !.buf = buf, !.w = w])
  BY <1>1 DEF OfAKind, Call, Replaces, Repeats
<1> QED BY <1>2, BecomeCalls DEF Again

\* Copying a text and going on, or refusing it.
LEMMA CopyCalls ==
  ASSUME CInv, stack # << >>, Top.pc \notin Replaces \cup Repeats, phase = "expand", phase' = phase,
         NEW m, Calls(m, stack), NEW text, NEW buf, NEW w, Copy(m, text, buf, w)
  PROVE  CInv'
<1>1. Calls(Err(m, "Buf"), stack)
  BY HelpersCalls
<1> QED BY <1>1, ReturnCalls, AgainCalls DEF Copy

-----------------------------------------------------------------------------
\* The actions and the calls.

\* The calls of pass 1 that a token starts.
LEMMA Trav2Calls ==
  ASSUME CInv, Trav2,
         \/ LineOver \/ Comment \/ Skip \/ Misplaced \/ Rof \/ Curline \/ Operator \/ Opcode
         \/ Equ \/ Substitute \/ Value \/ DoubleLabel \/ Declare \/ Unknown \/ For
  PROVE  CInv'
<1>1. stack # << >> /\ Top.pc = "trav2" /\ phase = "expand" /\ phase' = phase
  BY DEF Trav2, Calling
<1>2. Top.pc \notin Replaces \cup Repeats
  BY <1>1 DEF Replaces, Repeats
<1>3. Call(Top) /\ Calls(asm, stack)
  BY <1>1, TopAndRest DEF CInv, Calls, Top
<1>4. Calls(Entered, stack)
  BY <1>1, <1>3, CallsDeeper DEF Entered
<1>5. ASSUME NEW m, Calls(m, stack), NEW r, Return(m, r) PROVE CInv'
  BY <1>1, <1>2, <1>5, ReturnCalls
<1>6. ASSUME NEW e, Refuse(e) PROVE CInv'
  BY <1>4, <1>5, <1>6, HelpersCalls DEF Refuse, Entered
<1>7. ASSUME NEW m, Calls(m, stack), NEW f, OfAKind(Top, f), NEW buf, NEW w, Await(m, f, buf, w)
      PROVE  CInv'
  <2>1. Calls(m, <<f>> \o Tail(stack))
    BY <1>1, <1>7, CallsBecome DEF Top
  <2> QED BY <1>1, <1>7, <2>1, AwaitCalls
<1>8. ASSUME NEW m, Calls(m, stack), NEW buf, NEW w, Again(m, buf, w) PROVE CInv'
  BY <1>1, <1>2, <1>8, AgainCalls
<1>9. ASSUME NEW m, Calls(m, stack), NEW text, NEW buf, NEW w, Copy(m, text, buf, w) PROVE CInv'
  BY <1>1, <1>2, <1>9, CopyCalls
<1>10. Calls(J.m, stack)
  BY <1>4, HelpersCalls DEF J
<1>11. CASE LineOver
  BY <1>4, <1>5, <1>11 DEF LineOver
<1>12. CASE Comment
  <2>1. OfAKind(Top, [Top EXCEPT !.pc = "assert"])
    BY <1>2, <1>3 DEF OfAKind, Call, Replaces, Repeats
  <2> QED BY <1>4, <1>5, <1>7, <1>12, <2>1 DEF Comment
<1>13. CASE Skip
  <2>1. /\ SameCalls(Entered, [Entered EXCEPT !.statefine = @ - 1])
        /\ SameCalls(Entered, [Entered EXCEPT !.statefine = @ + 1])
    BY <1>4 DEF Calls, Book, SameCalls
  <2>2. /\ Calls([Entered EXCEPT !.statefine = @ - 1], stack)
        /\ Calls([Entered EXCEPT !.statefine = @ + 1], stack)
    BY <1>4, <2>1, CallsSame
  <2> QED BY <1>4, <1>5, <1>8, <1>13, <2>2 DEF Skip
<1>14. CASE Misplaced
  BY <1>6, <1>14 DEF Misplaced
<1>15. CASE Rof
  BY <1>4, <1>5, <1>15 DEF Rof
<1>16. CASE Curline
  BY <1>4, <1>9, <1>16 DEF Curline
<1>17. CASE Operator
  BY <1>4, <1>9, <1>17 DEF Operator
<1>18. CASE Opcode
  <2>1. OfAKind(Top, [Top EXCEPT !.pc = "opcode"])
    BY <1>2, <1>3 DEF OfAKind, Call, Replaces, Repeats
  <2> QED BY <1>4, <1>6, <1>7, <1>18, <2>1 DEF Opcode
<1>19. CASE Equ
  <2>1. Calls(Err(Entered, "Ann"), stack) /\ Calls(Defined(Entered, Rest), stack)
    BY <1>4, HelpersCalls
  <2> QED BY <1>5, <1>19, <2>1 DEF Equ
<1>20. CASE Substitute
  <2> DEFINE n == [J.m EXCEPT !.refs[K].visit = TRUE]
             m == [J.m EXCEPT !.refs[K].visit = TRUE, !.aline = <<asm.refs[K].v, 1>>]
             f == [Top EXCEPT !.pc = "equ", !.buf = J.rest, !.ref = K, !.aline = asm.aline]
  <2>1. CASE asm.refs[K].visit
    <3>1. Calls(Err(J.m, "Rec"), stack)
      BY <1>10, HelpersCalls
    <3> QED BY <1>5, <1>20, <2>1, <3>1 DEF Substitute
  <2>2. CASE ~asm.refs[K].visit
    <3>1. J.m.refs = asm.refs
      <4>1. Entered.refs = asm.refs
        BY DEF Entered
      <4>2. ErrAt(Entered, "Cat", Loc(Entered)).refs = asm.refs
        BY <4>1 DEF ErrAt
      <4> QED BY <4>1, <4>2 DEF J, Joined, Err
    <3>2. K \in DOMAIN asm.refs /\ asm.refs[K].kind = "text"
      BY <1>3, <1>20, Found DEF Substitute, IsText, K
    <3>3. Call(f) /\ f.base = Top.base /\ f.pc \in Replaces /\ f.ref = K
      BY <1>3 DEF Call, Replaces
    <3> HIDE DEF f
    <3>4. Calls(n, <<f>> \o Tail(stack))
      <4>1. K \in DOMAIN J.m.refs /\ ~J.m.refs[K].visit /\ J.m.refs[K].kind # "stack"
        BY <2>2, <3>1, <3>2
      <4> QED BY <1>1, <1>2, <1>10, <3>3, <4>1, CallsMark DEF Top
    <3>5. SameCalls(n, m)
      BY <3>4 DEF Calls, Book, SameCalls
    <3>6. Calls(m, <<f>> \o Tail(stack))
      BY <3>4, <3>5, CallsSame
    <3>7. Await(m, f, asm.lists[asm.refs[K].v][1].text, Top.w)
      BY <1>20, <2>2 DEF Substitute, f
    <3> QED BY <1>1, <3>6, <3>7, AwaitCalls
  <2> QED BY <2>1, <2>2
<1>21. CASE Value
  BY <1>9, <1>10, <1>21 DEF Value
<1>22. CASE DoubleLabel
  <2>1. Calls(Err(J.m, "Idn"), stack)
    BY <1>10, HelpersCalls
  <2> QED BY <1>5, <1>22, <2>1 DEF DoubleLabel
<1>23. CASE Declare
  <2>1. SameCalls(J.m, [J.m EXCEPT !.symtbl = Append(@, J.name)])
    BY <1>10 DEF Calls, Book, SameCalls
  <2>2. Calls([J.m EXCEPT !.symtbl = Append(@, J.name)], stack)
    BY <1>10, <2>1, CallsSame
  <2>3. Calls(Err(J.m, "Grp"), stack)
    BY <1>10, HelpersCalls
  <2> QED BY <1>8, <1>23, <2>2, <2>3 DEF Declare
<1>24. CASE Unknown
  BY <1>9, <1>10, <1>24 DEF Unknown
<1>25. CASE For
  <2> DEFINE labels == asm.symtbl
             shorter == [Entered EXCEPT !.symtbl = Front(labels)]
             m == IF labels = << >> THEN Entered ELSE [Labelled(shorter) EXCEPT !.symtbl = << >>]
             f == [Top EXCEPT !.pc = "for",
                              !.names = IF labels = << >> THEN {} ELSE {Last(labels)}]
  <2>1. Calls(m, stack)
    <3>1. SameCalls(Entered, shorter)
      BY <1>4 DEF Calls, Book, SameCalls
    <3>2. Calls(shorter, stack)
      BY <1>4, <3>1, CallsSame
    <3>3. Calls(Labelled(shorter), stack)
      BY <3>2, HelpersCalls
    <3>4. SameCalls(Labelled(shorter), [Labelled(shorter) EXCEPT !.symtbl = << >>])
      BY <3>3 DEF Calls, Book, SameCalls
    <3>5. Calls([Labelled(shorter) EXCEPT !.symtbl = << >>], stack)
      BY <3>3, <3>4, CallsSame
    <3> QED BY <1>4, <3>5
  <2>2. OfAKind(Top, f)
    BY <1>2, <1>3 DEF OfAKind, Call, Replaces, Repeats
  <2>3. Await(m, f, Rest, SVAL)
    BY <1>25 DEF For
  <2> QED BY <1>7, <2>1, <2>2, <2>3
<1> QED
  BY <1>11, <1>12, <1>13, <1>14, <1>15, <1>16, <1>17, <1>18, <1>19, <1>20, <1>21, <1>22, <1>23,
     <1>24, <1>25

\* A counter counts.
LEMMA CallsRound ==
  ASSUME NEW m, NEW s, Calls(m, s), NEW k \in DOMAIN m.refs, NEW v
  PROVE  Calls([m EXCEPT !.refs[k].v = v], s)
<1> DEFINE n == [m EXCEPT !.refs[k].v = v]
<1>1. PICK S : m.refs \in Seq(S)
  BY DEF Calls, Book, IsSequence
<1>2. RefOK(m.refs[k])
  BY DEF Calls, Book
<1>3. /\ {"refs", "counters", "depth"} \subseteq DOMAIN n
      /\ n.refs = [m.refs EXCEPT ![k].v = v] /\ n.counters = m.counters /\ n.depth = m.depth
  BY DEF Calls, Book
<1>4. /\ DOMAIN n.refs = DOMAIN m.refs
      /\ \A r \in DOMAIN m.refs : /\ RefOK(n.refs[r]) <=> RefOK(m.refs[r])
                                  /\ n.refs[r].visit = m.refs[r].visit
                                  /\ n.refs[r].kind = m.refs[r].kind
                                  /\ n.refs[r].names = m.refs[r].names
  BY <1>2, <1>3 DEF RefOK
<1>5. IsSequence(n.refs)
  <2>1. n.refs \in Seq(S \cup {[m.refs[k] EXCEPT !.v = v]})
    BY <1>1, <1>3
  <2> QED BY <2>1 DEF IsSequence
<1> HIDE DEF n
<1>6. Book(n)
  BY <1>3, <1>4, <1>5 DEF Calls, Book
<1>7. Marks(n.refs) = Marks(m.refs)
  BY <1>4 DEF Marks
<1> QED BY <1>3, <1>6, <1>7 DEF Calls, Linked, n

\* Pass 1 has not ended while there is a call of it.
LEMMA StillExpanding ==
  ASSUME CInv, stack # << >>, Top.pc \notin {"automaton", "symbol"}
  PROVE  phase = "expand"
<1>1. 1 \in DOMAIN stack
  BY TopAndRest DEF CInv, Calls
<1> QED BY <1>1 DEF CInv, Automata, Top

\* A round that ends.
LEMMA EndRoundCalls ==
  ASSUME CInv, stack # << >>, Top.pc = "body", phase' = phase, NEW m, Calls(m, stack), EndRound(m)
  PROVE  CInv'
<1> DEFINE e == [Err(m, "Exx") EXCEPT !.vcont = FALSE]
           f == [Top EXCEPT !.pc = "round", !.n = @ + 1]
<1>1. Calls(Err(m, "Exx"), stack)
  BY HelpersCalls
<1>2. SameCalls(Err(m, "Exx"), e)
  BY <1>1 DEF Calls, Book, SameCalls
<1>3. Calls(e, stack)
  BY <1>1, <1>2, CallsSame
<1>4. OfAKind(Top, f)
  BY TopAndRest DEF CInv, Calls, Top, OfAKind, Call, Replaces, Repeats
<1>5. phase = "expand"
  BY StillExpanding
<1>6. \E n : Calls(n, stack) /\ Become(n, f)
  BY <1>3 DEF EndRound
<1> QED BY <1>4, <1>5, <1>6, BecomeCalls

\* The calls of pass 1 that go on, and the loop around them.
LEMMA ResumedCalls ==
  ASSUME CInv, Asserted \/ OpcodeDone \/ EquLine \/ ForCount \/ ForRound \/ ForLine \/ ForLineDone
  PROVE  CInv'
<1>1. stack # << >> /\ phase' = phase
  BY DEF Asserted, OpcodeDone, EquLine, ForCount, ForRound, ForLine, ForLineDone, Resuming, Calling
<1>2. Call(Top) /\ Calls(asm, stack) /\ stack = <<Top>> \o Tail(stack)
  BY <1>1, TopAndRest DEF CInv, Calls, Top
<1>3. phase = "expand"
  <2>1. Top.pc \in {"assert", "opcode", "equ", "for", "round", "body"}
    BY DEF Asserted, OpcodeDone, EquLine, ForCount, ForRound, ForLine, ForLineDone, Resuming, Calling
  <2> QED BY <1>1, <2>1, StillExpanding
<1>4. CASE Asserted
  <2>1. \E r : Return(Checked(Evaluated(asm, r), r), Top.w)
    BY <1>4 DEF Asserted
  <2>2. ASSUME NEW r PROVE Calls(Checked(Evaluated(asm, r), r), stack)
    BY <1>2, HelpersCalls
  <2>3. Top.pc \notin Replaces \cup Repeats
    BY <1>4 DEF Asserted, Resuming, Replaces, Repeats
  <2> QED BY <1>1, <2>1, <2>2, <2>3, ReturnCalls
<1>5. CASE OpcodeDone
  <2>1. Calls(Numbered(asm, Tok), stack)
    BY <1>2, HelpersCalls
  <2>2. Top.pc \notin Replaces \cup Repeats
    BY <1>5 DEF OpcodeDone, Resuming, Replaces, Repeats
  <2> QED BY <1>1, <1>2, <1>5, <2>1, <2>2, ReturnCalls DEF OpcodeDone
<1>6. CASE EquLine
  <2> DEFINE next == NextLine(asm)
             more == next # NoLine /\ asm.vcont
             m    == IF ~more THEN asm
                     ELSE ExpandOne(IF asm.statefine = 0 /\ ret = SCOM THEN AddLine(asm, dest) ELSE asm)
             on   == [m EXCEPT !.aline = next]
             free == [m EXCEPT !.refs[Top.ref].visit = FALSE]
             back == [m EXCEPT !.aline = Top.aline, !.refs[Top.ref].visit = FALSE]
             g    == [Top EXCEPT !.pc = "trav2", !.w = ret]
  <2>1. Top.pc = "equ"
    BY <1>6 DEF EquLine, Resuming
  <2>2. Calls(m, stack)
    <3>1. Calls(AddLine(asm, dest), stack)
      BY <1>2, HelpersCalls
    <3>2. Calls(ExpandOne(asm), stack) /\ Calls(ExpandOne(AddLine(asm, dest)), stack)
      BY <1>2, <3>1, HelpersCalls
    <3> QED BY <1>2, <3>2
  <2>3. CASE more /\ ~m.halted
    <3>1. SameCalls(m, on)
      BY <2>2 DEF Calls, Book, SameCalls
    <3>2. Calls(on, <<Top>> \o Tail(stack))
      BY <1>2, <2>2, <3>1, CallsSame
    <3>3. Await(on, Top, m.lists[next[1]][next[2]].text, SNIL)
      BY <1>6, <2>3 DEF EquLine
    <3> HIDE DEF on
    <3> QED BY <1>1, <1>3, <3>2, <3>3, AwaitCalls
  <2>4. CASE ~(more /\ ~m.halted)
    <3>1. Become(back, g)
      BY <1>6, <2>4 DEF EquLine
    <3>2. Call(g) /\ g.base = Top.base /\ g.pc \notin Replaces \cup Repeats
      BY <1>2 DEF Call, Replaces, Repeats
    <3> HIDE DEF g, m
    <3>3. Calls(free, <<g>> \o Tail(stack))
      BY <1>1, <2>1, <2>2, <3>2, CallsUnmark DEF Top, Replaces
    <3>4. SameCalls(free, back)
      BY <3>3 DEF Calls, Book, SameCalls
    <3>5. Calls(back, <<g>> \o Tail(stack))
      BY <3>3, <3>4, CallsSame
    <3> QED BY <1>1, <1>3, <3>1, <3>5 DEF CInv, Become
  <2> QED BY <2>3, <2>4
<1>7. CASE ForCount
  <2>1. Top.pc = "for" /\ Top.pc \notin Replaces \cup Repeats
    BY <1>7 DEF ForCount, Resuming, Replaces, Repeats
  <2>2. PICK r :
         LET m == Overflown(Evaluated(asm, r), r)
             p == PushRef(m, Top.names, "stack", 1, TRUE)
         IN \/ Return(Err(m, EvalError(r)), SFOR)
            \/ Return([m EXCEPT !.statefine = @ + 1], SFOR)
            \/ Become(p, [Top EXCEPT !.pc = "round", !.ref = Len(p.refs), !.aline = asm.aline,
                                     !.n = 1, !.limit = r.v % Wide])
    BY <1>7 DEF ForCount
  <2> DEFINE m == Overflown(Evaluated(asm, r), r)
             p == PushRef(m, Top.names, "stack", 1, TRUE)
             g == [Top EXCEPT !.pc = "round", !.ref = Len(p.refs), !.aline = asm.aline,
                              !.n = 1, !.limit = r.v % Wide]
  <2>3. Calls(m, stack)
    BY <1>2, HelpersCalls
  <2> HIDE DEF m
  <2>4. CASE Return(Err(m, EvalError(r)), SFOR)
    <3>1. Calls(Err(m, EvalError(r)), stack)
      BY <2>3, HelpersCalls
    <3> QED BY <1>1, <2>1, <2>4, <3>1, ReturnCalls
  <2>5. CASE Return([m EXCEPT !.statefine = @ + 1], SFOR)
    <3>1. SameCalls(m, [m EXCEPT !.statefine = @ + 1])
      BY <2>3 DEF Calls, Book, SameCalls
    <3>2. Calls([m EXCEPT !.statefine = @ + 1], stack)
      BY <2>3, <3>1, CallsSame
    <3> QED BY <1>1, <2>1, <2>5, <3>2, ReturnCalls
  <2>6. CASE Become(p, g)
    <3>1. Len(p.refs) = Len(m.refs) + 1
      <4>1. PICK S : m.refs \in Seq(S)
        BY <2>3 DEF Calls, Book, IsSequence
      <4>2. p.refs = Append(m.refs, [names |-> Top.names, kind |-> "stack", v |-> 1, visit |-> TRUE])
        BY <2>3 DEF PushRef, Calls, Book
      <4>3. \A x : Len(Append(m.refs, x)) = Len(m.refs) + 1
        <5> TAKE x
        <5>1. m.refs \in Seq(S \cup {x})
          BY <4>1
        <5> QED BY <5>1
      <4> HIDE DEF p
      <4> QED BY <4>2, <4>3
    <3>2. Call(g) /\ g.base = Top.base /\ g.pc \in Repeats /\ g.ref = Len(m.refs) + 1
      BY <1>2, <3>1 DEF Call, Repeats
    <3> HIDE DEF g
    <3>3. Calls(p, <<g>> \o Tail(stack))
      BY <1>1, <2>1, <2>3, <3>2, CallsCount DEF Top
    <3> QED BY <1>1, <1>3, <2>6, <3>3 DEF CInv, Become
  <2> QED BY <2>2, <2>4, <2>5, <2>6 DEF m
<1>8. CASE ForRound
  <2>1. Top.pc = "round" /\ Top.pc \in Repeats
    BY <1>8 DEF ForRound, Calling, Repeats
  <2>2. CASE Return(PopCounter(asm), SFOR)
    <3>1. Calls(asm', stack')
      BY <1>1, <1>2, <2>1, <2>2, CallsUncount DEF Return, Top
    <3> QED BY <1>1, <1>3, <3>1 DEF CInv
  <2>3. CASE Become([asm EXCEPT !.refs[Top.ref].v = Top.n, !.aline = Top.aline], [Top EXCEPT !.pc = "body"])
    <3> DEFINE n == [asm EXCEPT !.refs[Top.ref].v = Top.n]
               m == [asm EXCEPT !.refs[Top.ref].v = Top.n, !.aline = Top.aline]
    <3>1. Top.ref \in DOMAIN asm.refs
      <4>1. CallsTo(asm, Top, Tail(stack))
        BY <1>1, <1>2, CallsTop DEF Top
      <4>2. Top.ref \in ToSet(asm.counters)
        BY <2>1, <4>1 DEF CallsTo, LinkedTo
      <4> QED BY <4>1, <4>2 DEF CallsTo, Book, ToSet
    <3>2. Calls(n, stack)
      BY <1>2, <3>1, CallsRound
    <3>3. SameCalls(n, m)
      BY <3>2 DEF Calls, Book, SameCalls
    <3>4. Calls(m, stack)
      BY <3>2, <3>3, CallsSame
    <3>5. OfAKind(Top, [Top EXCEPT !.pc = "body"])
      BY <1>2, <2>1 DEF OfAKind, Call, Replaces, Repeats
    <3> HIDE DEF m
    <3>6. Become(m, [Top EXCEPT !.pc = "body"])
      BY <2>3 DEF m
    <3> QED BY <1>1, <1>3, <3>4, <3>5, <3>6, BecomeCalls
  <2> QED BY <1>8, <2>2, <2>3 DEF ForRound
<1>9. CASE ForLine
  <2> DEFINE next == NextLine(asm)
             m    == ExpandOne(asm)
             end  == [Err(asm, "Rof") EXCEPT !.vcont = FALSE]
             on   == [m EXCEPT !.aline = next]
  <2>1. Top.pc = "body"
    BY <1>9 DEF ForLine, Calling
  <2>2. Calls(Err(asm, "Rof"), stack) /\ Calls(m, stack)
    BY <1>2, HelpersCalls
  <2>3. SameCalls(Err(asm, "Rof"), end) /\ SameCalls(m, on)
    BY <2>2 DEF Calls, Book, SameCalls
  <2>4. Calls(end, stack) /\ Calls(on, <<Top>> \o Tail(stack))
    BY <1>2, <2>2, <2>3, CallsSame
  <2>5. \/ EndRound(asm) \/ EndRound(end) \/ EndRound(m)
        \/ Await(on, Top, asm.lists[next[1]][next[2]].text, SNIL)
    BY <1>9 DEF ForLine
  <2> HIDE DEF m, end, on
  <2>6. CASE EndRound(asm) \/ EndRound(end) \/ EndRound(m)
    BY <1>1, <1>2, <2>1, <2>2, <2>4, <2>6, EndRoundCalls
  <2>7. CASE Await(on, Top, asm.lists[next[1]][next[2]].text, SNIL)
    BY <1>1, <1>3, <2>4, <2>7, AwaitCalls
  <2> QED BY <2>5, <2>6, <2>7
<1>10. CASE ForLineDone
  <2>1. Top.pc = "body" /\ OfAKind(Top, Top)
    BY <1>2, <1>10 DEF ForLineDone, Resuming, OfAKind
  <2>2. Calls(AddLine(asm, dest), stack)
    BY <1>2, HelpersCalls
  <2>3. EndRound(asm) \/ Become(AddLine(asm, dest), Top) \/ Become(asm, Top)
    BY <1>10 DEF ForLineDone
  <2> QED BY <1>1, <1>2, <1>3, <2>1, <2>2, <2>3, EndRoundCalls, BecomeCalls
<1> QED BY <1>4, <1>5, <1>6, <1>7, <1>8, <1>9, <1>10

\* A line of pass 1 is begun, is over, or was the last.
LEMMA ExpandCalls ==
  ASSUME CInv, ExpandLine \/ ExpandedLine \/ ExpandDone
  PROVE  CInv'
<1>1. Calls(asm, stack) /\ stack = << >> /\ asm.depth \in Nat
  BY DEF CInv, Calls, Book, ExpandLine, ExpandedLine, ExpandDone
<1>2. CASE ExpandLine
  <2> DEFINE f == Frame("trav2", CurLine(asm).text, SNIL, "Op", asm.depth)
  <2>1. Call(f) /\ f.base = asm.depth /\ f.pc \notin Replaces \cup Repeats
    BY <1>1 DEF Call, Frame, Replaces, Repeats
  <2>2. stack' = <<f>> /\ asm' = asm /\ phase' = phase /\ phase = "expand"
    BY <1>2 DEF ExpandLine
  <2> HIDE DEF f
  <2>3. Calls(asm, <<f>> \o stack)
    BY <1>1, <2>1, CallsPush
  <2>4. <<f>> \o stack = <<f>>
    BY <1>1
  <2> QED BY <2>2, <2>3, <2>4 DEF CInv
<1>3. CASE ExpandedLine
  <2>1. Calls(AddLine(asm, dest), stack) /\ Calls(Err(asm, "For"), stack)
    BY <1>1, HelpersCalls
  <2>2. PICK m : Calls(m, stack) /\ asm' = [m EXCEPT !.aline = NextLine(m)]
    BY <1>1, <1>3, <2>1 DEF ExpandedLine
  <2>3. SameCalls(m, asm')
    BY <2>2 DEF Calls, Book, SameCalls
  <2>4. Calls(asm', stack)
    BY <2>2, <2>3, CallsSame
  <2> QED BY <1>3, <2>4 DEF CInv, ExpandedLine
<1>4. CASE ExpandDone
  <2>1. Calls(Counted(asm), stack)
    BY <1>1, HelpersCalls
  <2>2. Automata(<< >>)
    BY DEF Automata
  <2> QED BY <1>1, <1>4, <2>1, <2>2 DEF CInv, ExpandDone
<1> QED BY <1>2, <1>3, <1>4

\* The same of pass 2.
LEMMA AutomatonCalls ==
  ASSUME CInv, phase = "encode",
         \/ AutoOver \/ AutoOp \/ AutoModifier \/ AutoStart \/ AutoCollect \/ AutoSymbol \/ AutoUnknown
  PROVE  CInv'
<1>1. /\ stack # << >> /\ Top.pc = "automaton" /\ phase' = phase
  BY DEF AutoOver, AutoOp, AutoModifier, AutoStart, AutoCollect, AutoSymbol, AutoUnknown,
         Automaton, Calling
<1>2. Top.pc \notin Replaces \cup Repeats
  BY <1>1 DEF Replaces, Repeats
<1>3. Call(Top) /\ Calls(asm, stack) /\ Automata(stack)
  BY <1>1, TopAndRest DEF CInv, Calls, Top
<1>4. Calls(Entered, stack)
  BY <1>1, <1>3, CallsDeeper DEF Entered
<1>5. ASSUME NEW m, Calls(m, stack), NEW r, Return(m, r) PROVE CInv'
  BY <1>1, <1>2, <1>5, ReturnCalls
<1>6. ASSUME NEW m, Calls(m, stack), NEW f, Become(m, f), f.pc = Top.pc, Call(f), f.base = Top.base
      PROVE  CInv'
  <2>1. OfAKind(Top, f)
    BY <1>2, <1>6 DEF OfAKind
  <2> QED BY <1>1, <1>6, <2>1, BecomeCalls
<1>7. ASSUME NEW e, Stop(Err(Entered, e)) PROVE CInv'
  BY <1>4, <1>5, <1>7, HelpersCalls DEF Stop
<1>8. ASSUME NEW st, NEW i, NEW buf, GoTo(st, i, buf) PROVE CInv'
  <2> DEFINE f == [Top EXCEPT !.buf = buf, !.st = st]
  <2>1. f.pc = Top.pc /\ Call(f) /\ f.base = Top.base
    BY <1>3 DEF Call
  <2>2. Become(Entered, f)
    BY <1>8 DEF GoTo
  <2> HIDE DEF f
  <2> QED BY <1>4, <1>6, <2>1, <2>2
<1>9. ASSUME NEW t, Collected(Entered, t) PROVE CInv'
  <2> DEFINE f == [Top EXCEPT !.buf = Rest]
  <2>1. f.pc = Top.pc /\ Call(f) /\ f.base = Top.base
    BY <1>3 DEF Call
  <2>2. Become(Entered, f) \/ Become(Err(Entered, "Buf"), f)
    BY <1>9 DEF Collected
  <2>3. Calls(Err(Entered, "Buf"), stack)
    BY <1>4, HelpersCalls
  <2> HIDE DEF f
  <2> QED BY <1>4, <1>6, <2>1, <2>2, <2>3
<1>10. CASE AutoOver
  BY <1>4, <1>5, <1>10 DEF AutoOver, Stop
<1>11. CASE AutoOp
  <2>1. Calls(Err(Entered, "Exp"), stack)
    BY <1>4, HelpersCalls
  <2> QED BY <1>5, <1>8, <1>11, <2>1 DEF AutoOp
<1>12. CASE AutoModifier
  BY <1>7, <1>8, <1>12 DEF AutoModifier
<1>13. CASE AutoStart
  BY <1>7, <1>8, <1>13 DEF AutoStart
<1>14. CASE AutoCollect
  BY <1>7, <1>8, <1>9, <1>14 DEF AutoCollect
<1>15. CASE AutoSymbol
  <2> DEFINE ref == asm.refs[Symbol]
             n == [Entered EXCEPT !.refs[Symbol].visit = TRUE]
             g == [Top EXCEPT !.pc = "symbol", !.buf = Rest, !.ref = Symbol]
  <2>1. CASE ref.visit
    <3>1. Calls(Err(Entered, "Rec"), stack)
      BY <1>4, HelpersCalls
    <3> QED BY <1>5, <1>15, <2>1, <3>1 DEF AutoSymbol
  <2>2. CASE ~ref.visit
    <3>1. Symbol \in DOMAIN asm.refs /\ ref.names # {}
      BY <1>3, <1>15, Found DEF AutoSymbol, Symbol
    <3>2. ref.kind # "stack"
      \* No block is running, and only a running block has a counter with a name.
      <4>1. RefsOf(stack, Repeats) = {}
        BY <1>3 DEF Automata, RefsOf, Repeats
      <4>2. ToSet(asm.counters) = {}
        BY <1>3, <4>1 DEF Calls, Linked
      <4> QED BY <1>3, <3>1, <4>2 DEF Calls, Book
    <3>3. Call(g) /\ g.base = Top.base /\ g.pc \in Replaces /\ g.pc = "symbol" /\ g.ref = Symbol
      BY <1>3 DEF Call, Replaces
    <3>4. Entered.refs = asm.refs /\ Entered.depth = asm.depth + 1 /\ asm.depth \in Nat
      BY <1>3 DEF Calls, Book, Entered
    <3>5. PICK text : /\ asm' = n
                      /\ stack' = <<Frame("automaton", text, SNIL, Top.st, asm.depth + 1), g>> \o Tail(stack)
      BY <1>15, <2>2 DEF AutoSymbol
    <3> DEFINE f == Frame("automaton", text, SNIL, Top.st, asm.depth + 1)
               s == <<g>> \o Tail(stack)
    <3>6. Call(f) /\ f.base = asm.depth + 1 /\ f.pc = "automaton" /\ f.pc \notin Replaces \cup Repeats
      BY <3>4 DEF Call, Frame, Replaces, Repeats
    <3>7. Calls(n, s)
      BY <1>1, <1>2, <1>4, <2>2, <3>1, <3>2, <3>3, <3>4, CallsMark DEF Top
    <3>8. n.depth = asm.depth + 1
      BY <1>3, <3>4 DEF Calls, Book, Entered
    <3>9. IsSequence(Tail(stack))
      BY <1>1, <1>3, TopAndRest DEF Calls
    <3>10. Automata(s)
      BY <1>1, <1>3, <3>3, AutomataOnTop DEF Calls
    <3>11. s # << >> /\ Tail(s) = Tail(stack)
      BY <3>9, OnTop
    <3>12. <<f, g>> \o Tail(stack) = <<f>> \o s
      <4>1. PICK S : Tail(stack) \in Seq(S)
        BY <3>9 DEF IsSequence
      <4> QED BY <4>1
    <3> HIDE DEF f, g, n, s
    <3>13. Calls(n, <<f>> \o s)
      BY <3>6, <3>7, <3>8, CallsPush
    <3>14. Automata(<<f>> \o s)
      <4>1. IsSequence(s)
        BY <3>7 DEF Calls, Shaped
      <4>2. \A i \in DOMAIN (<<f>> \o s) : (<<f>> \o s)[i] = f \/ \E j \in DOMAIN s : (<<f>> \o s)[i] = s[j]
        BY <4>1, OnTop
      <4> QED BY <3>6, <3>10, <4>2 DEF Automata
    <3>15. asm' = n /\ stack' = <<f>> \o s
      BY <3>5, <3>12 DEF f, g
    <3> QED BY <3>13, <3>14, <3>15 DEF CInv
  <2> QED BY <2>1, <2>2
<1>16. CASE AutoUnknown
  BY <1>7, <1>8, <1>9, <1>16 DEF AutoUnknown
<1> QED BY <1>10, <1>11, <1>12, <1>13, <1>14, <1>15, <1>16

\* A symbol has been replaced, and its line goes on.
LEMMA SymbolCalls ==
  ASSUME CInv, SymbolDone
  PROVE  CInv'
<1> DEFINE n == [asm EXCEPT !.refs[Top.ref].visit = FALSE]
           g == [Top EXCEPT !.pc = "automaton", !.st = IF @ = "Expr" THEN "Expr" ELSE ins.last]
<1>1. stack # << >> /\ Top.pc = "symbol" /\ phase' = phase /\ Become(n, g)
  BY DEF SymbolDone, Resuming
<1>2. Call(Top) /\ Calls(asm, stack)
  BY <1>1, TopAndRest DEF CInv, Calls, Top
<1>3. Call(g) /\ g.base = Top.base /\ g.pc = "automaton" /\ g.pc \notin Replaces \cup Repeats
  BY <1>2 DEF Call, Replaces, Repeats
<1> HIDE DEF g
<1>4. Calls(n, <<g>> \o Tail(stack))
  BY <1>1, <1>2, <1>3, CallsUnmark DEF Top, Replaces
<1>5. Automata(stack) => Automata(<<g>> \o Tail(stack))
  BY <1>1, <1>2, <1>3, AutomataOnTop DEF Calls
<1> QED BY <1>1, <1>4, <1>5 DEF CInv, Become

\* The lines of pass 2.
LEMMA EncodeCalls ==
  ASSUME CInv, EncodeLine \/ EncodedLine \/ EncodeDone
  PROVE  CInv'
<1>1. Calls(asm, stack) /\ stack = << >> /\ asm.depth \in Nat
  BY DEF CInv, Calls, Book, EncodeLine, EncodedLine, EncodeDone
<1>2. CASE EncodeLine
  <2>1. PICK text : stack' = <<Frame("automaton", text, SNIL, "Op", asm.depth)>>
    BY <1>2 DEF EncodeLine
  <2> DEFINE f == Frame("automaton", text, SNIL, "Op", asm.depth)
  <2>2. Call(f) /\ f.base = asm.depth /\ f.pc = "automaton" /\ f.pc \notin Replaces \cup Repeats
    BY <1>1 DEF Call, Frame, Replaces, Repeats
  <2>3. SameCalls(asm, asm')
    BY <1>1, <1>2 DEF EncodeLine, Calls, Book, SameCalls
  <2>4. Calls(asm', stack) /\ asm'.depth = asm.depth
    BY <1>1, <2>3, CallsSame DEF SameCalls
  <2> HIDE DEF f
  <2>5. Calls(asm', <<f>> \o stack)
    BY <2>2, <2>4, CallsPush
  <2>6. <<f>> \o stack = <<f>> /\ stack' = <<f>>
    BY <1>1, <2>1 DEF f
  <2>7. Automata(<<f>>)
    BY <2>2 DEF Automata
  <2> QED BY <2>5, <2>6, <2>7 DEF CInv
<1>3. CASE EncodedLine
  <2>1. Calls(ShellErr(asm, ins), stack)
    BY <1>1, HelpersCalls
  <2> DEFINE m == ShellErr(asm, ins)
             i == IF ins.filled \/ asm.lineErr THEN Shelled(ins) ELSE ins
  <2>2. Calls(asm', stack)
    <3>1. CASE asm' = m
      BY <2>1, <3>1
    <3>2. CASE \E r : Directed(Overflown(Evaluated(m, r), r), i, r)
      <4>1. PICK r : Directed(Overflown(Evaluated(m, r), r), i, r)
        BY <3>2
      <4> DEFINE o == Overflown(Evaluated(m, r), r)
      <4>2. Calls(Evaluated(m, r), stack)
        BY <2>1, HelpersCalls
      <4>3. Calls(o, stack)
        BY <4>2, HelpersCalls
      <4> HIDE DEF m, i, o
      <4>4. Calls(Err(o, EvalError(r)), stack) /\ Calls(Err(o, "Doe"), stack)
        BY <4>3, HelpersCalls
      <4>5. Directed(o, i, r)
        BY <4>1 DEF o
      <4>6. asm' = Err(o, EvalError(r)) \/ asm' = Err(o, "Doe") \/ asm' = o
        BY <4>5 DEF Directed
      <4> QED BY <4>3, <4>4, <4>6
    <3>3. CASE \E ra, rb, r : Encoded(Evaluated(m, r), i, ra, rb)
      <4>1. PICK ra, rb, r : Encoded(Evaluated(m, r), i, ra, rb)
        BY <3>3
      <4> DEFINE o == Evaluated(m, r)
                 e == EvalError(IF Failed(ra) THEN ra ELSE rb)
                 v == IF "overflow" \in {ra.err, rb.err} THEN Err(o, "Ofl") ELSE o
      <4>2. Calls(o, stack)
        BY <2>1, HelpersCalls
      <4> HIDE DEF m, i, o
      <4>3. Calls(Err(o, e), stack) /\ Calls(v, stack)
        BY <4>2, HelpersCalls
      <4>4. SameCalls(v, [v EXCEPT !.line = @ + 1])
        BY <4>3 DEF Calls, Book, SameCalls
      <4>5. Calls([v EXCEPT !.line = @ + 1], stack)
        BY <4>3, <4>4, CallsSame
      <4>6. Encoded(o, i, ra, rb)
        BY <4>1 DEF o
      <4>7. asm' = Err(o, e) \/ asm' = [v EXCEPT !.line = @ + 1]
        BY <4>6 DEF Encoded
      <4> QED BY <4>3, <4>5, <4>7
    <3> QED BY <1>3, <3>1, <3>2, <3>3 DEF EncodedLine
  <2> QED BY <1>3, <2>2 DEF CInv, EncodedLine
<1>4. CASE EncodeDone
  <2>1. Calls(ErrAt(asm, "Ofs", 0), stack)
    BY <1>1, HelpersCalls
  <2>2. Calls(asm', stack)
    BY <1>1, <1>4, <2>1 DEF EncodeDone
  <2>3. stack' = stack /\ Automata(stack)
    BY <1>1, <1>4 DEF EncodeDone, Automata
  <2> QED BY <2>2, <2>3 DEF CInv
<1> QED BY <1>2, <1>3, <1>4

\* Reading the source makes no call.
LEMMA ReadCalls ==
  ASSUME CInv, Read
  PROVE  CInv'
<1>1. CASE ReadLine
  <2>1. SameCalls(asm, asm')
    BY <1>1 DEF CInv, Calls, Book, SameCalls, ReadLine
  <2>2. Calls(asm', stack)
    BY <2>1, CallsSame DEF CInv
  <2> QED BY <1>1, <2>2 DEF CInv, ReadLine
<1>2. CASE ReadDone
  <2>1. SameCalls(asm, asm')
    BY <1>2 DEF CInv, Calls, Book, SameCalls, ReadDone
  <2>2. Calls(asm', stack)
    BY <2>1, CallsSame DEF CInv
  <2> QED BY <1>2, <2>2 DEF CInv, ReadDone
<1> QED BY <1>1, <1>2 DEF Read

\* A call that is too deep returns at once.
LEMMA TooDeepCalls ==
  ASSUME CInv, TooDeep
  PROVE  CInv'
<1>1. stack # << >> /\ Top.pc \in {"trav2", "automaton"} /\ phase' = phase
  BY DEF TooDeep, Calling
<1>2. Calls(Halt(asm, "Deep"), stack)
  BY HelpersCalls DEF CInv
<1>3. Return(Halt(asm, "Deep"), SERR)
  BY DEF TooDeep
<1>4. Top.pc \notin Replaces \cup Repeats
  BY <1>1 DEF Replaces, Repeats
<1> QED BY <1>1, <1>2, <1>3, <1>4, ReturnCalls

\* No call, no counter, and no predefined symbol being replaced.
LEMMA InitCInv == Init => CInv
<1> SUFFICES ASSUME Init PROVE CInv
  OBVIOUS
<1> DEFINE rec(i) == [names |-> {Predefined[i].name}, kind |-> "text", v |-> i + 1, visit |-> FALSE]
<1>1. /\ {"refs", "counters", "depth"} \subseteq DOMAIN asm
      /\ asm.refs = [i \in DOMAIN Predefined |-> rec(i)]
      /\ asm.counters = << >> /\ asm.depth = 0 /\ stack = << >>
  BY DEF Init
<1>2. DOMAIN Predefined = 1 .. Len(Predefined) /\ Len(Predefined) \in Nat
  BY AssemblerAssumption DEF AssemblerAssumption
<1>3. /\ DOMAIN asm.refs = DOMAIN Predefined
      /\ \A i \in DOMAIN asm.refs : asm.refs[i] = rec(i)
  BY <1>1
<1>4. \A i : RefOK(rec(i)) /\ rec(i).kind = "text" /\ ~rec(i).visit
  BY DEF RefOK
<1>5. IsSequence(asm.refs)
  <2> DEFINE S == {rec(i) : i \in DOMAIN Predefined}
  <2>1. asm.refs \in [1 .. Len(Predefined) -> S]
    BY <1>1, <1>2
  <2> HIDE DEF S
  <2>2. asm.refs \in Seq(S)
    BY <1>2, <2>1
  <2> QED BY <2>2 DEF IsSequence
<1> HIDE DEF rec
<1>6. Book(asm)
  <2>1. << >> \in Seq({})
    OBVIOUS
  <2>2. IsSequence(asm.counters) /\ DOMAIN asm.counters = {}
    BY <1>1, <2>1 DEF IsSequence
  <2>3. \A r \in DOMAIN asm.refs : RefOK(asm.refs[r]) /\ asm.refs[r].kind # "stack"
    BY <1>3, <1>4
  <2> QED BY <1>1, <1>5, <2>2, <2>3 DEF Book
<1>7. Shaped(stack)
  <2>1. << >> \in Seq({})
    OBVIOUS
  <2> QED BY <1>1, <2>1 DEF Shaped, IsSequence
<1>8. Nested(asm.depth, stack)
  BY <1>1 DEF Nested
<1>9. Linked(asm, stack)
  <2>1. Marks(asm.refs) = {}
    BY <1>3, <1>4 DEF Marks
  <2>2. RefsOf(stack, Replaces) = {} /\ RefsOf(stack, Repeats) = {}
    BY <1>1 DEF RefsOf
  <2>3. ToSet(asm.counters) = {}
    BY <1>1 DEF ToSet
  <2>4. DOMAIN stack = {}
    BY <1>1
  <2>5. About(stack) /\ Distinct(stack) /\ Descending(stack)
    BY <2>4 DEF About, Distinct, Descending
  <2> QED BY <2>1, <2>2, <2>3, <2>5 DEF Linked
<1>10. Automata(stack)
  BY <1>1 DEF Automata
<1> QED BY <1>6, <1>7, <1>8, <1>9, <1>10 DEF CInv, Calls

\* Every step keeps the bookkeeping.
LEMMA NextCalls == CInv /\ [Next]_vars => CInv'
<1> SUFFICES ASSUME CInv, [Next]_vars PROVE CInv'
  OBVIOUS
<1>1. CASE Read
  BY <1>1, ReadCalls
<1>2. CASE ExpandLine \/ ExpandedLine \/ ExpandDone
  BY <1>2, ExpandCalls
<1>3. CASE \/ LineOver \/ Comment \/ Skip \/ Misplaced \/ Rof \/ Curline \/ Operator \/ Opcode
           \/ Equ \/ Substitute \/ Value \/ DoubleLabel \/ Declare \/ Unknown \/ For
  <2>1. Trav2
    BY <1>3 DEF LineOver, Comment, Skip, Misplaced, Rof, Curline, Operator, Opcode, Equ,
                Substitute, Value, DoubleLabel, Declare, Unknown, For, Naming, Live
  <2> QED BY <1>3, <2>1, Trav2Calls
<1>4. CASE Asserted \/ OpcodeDone \/ EquLine \/ ForCount \/ ForRound \/ ForLine \/ ForLineDone
  BY <1>4, ResumedCalls
<1>5. CASE EncodeLine \/ EncodedLine \/ EncodeDone
  BY <1>5, EncodeCalls
<1>6. CASE \/ AutoOver \/ AutoOp \/ AutoModifier \/ AutoStart \/ AutoCollect \/ AutoSymbol \/ AutoUnknown
  <2>1. phase = "encode"
    BY <1>6 DEF AutoOver, AutoOp, AutoModifier, AutoStart, AutoCollect, AutoSymbol, AutoUnknown, Automaton
  <2> QED BY <1>6, <2>1, AutomatonCalls
<1>7. CASE SymbolDone
  BY <1>7, SymbolCalls
<1>8. CASE TooDeep
  BY <1>8, TooDeepCalls
<1>9. CASE UNCHANGED vars
  BY <1>9 DEF vars, CInv
<1> QED BY <1>1, <1>2, <1>3, <1>4, <1>5, <1>6, <1>7, <1>8, <1>9 DEF Next, Pass1, Pass2

\* What it says is what CallsUnwind asks for.
LEMMA CInvUnwinds == CInv => CallsUnwind
<1> SUFFICES ASSUME CInv PROVE CallsUnwind
  OBVIOUS
<1> DEFINE replacing == Waiting({"equ", "symbol"})
           running   == Waiting({"round", "body"})
<1>1. Calls(asm, stack) /\ DOMAIN stack \subseteq Nat
  BY DEF CInv, Calls, Shaped, IsSequence
<1>2. /\ \A f : f \in replacing <=> f \in DOMAIN stack /\ stack[f].pc \in Replaces
      /\ \A f : f \in running <=> f \in DOMAIN stack /\ stack[f].pc \in Repeats
  BY DEF Waiting, Replaces, Repeats
<1>3. \A f \in replacing \cup running : stack[f].ref \in Nat
  BY <1>1, <1>2 DEF Calls, Linked, About
<1> HIDE DEF replacing, running
<1>4. /\ RefsOf(stack, Replaces) = {stack[f].ref : f \in replacing}
      /\ RefsOf(stack, Repeats) = {stack[f].ref : f \in running}
  BY <1>2, <1>3 DEF RefsOf
<1>5. \A f, g \in replacing : stack[f].ref = stack[g].ref => f = g
  BY <1>1, <1>2 DEF Calls, Linked, Distinct
<1>6. \A f, g \in running : f < g => stack[f].ref > stack[g].ref
  BY <1>1, <1>2 DEF Calls, Linked, Descending
<1>7. /\ {r \in DOMAIN asm.refs : asm.refs[r].visit /\ asm.refs[r].kind # "stack"}
           = {stack[f].ref : f \in replacing}
      /\ ToSet(asm.counters) = {stack[f].ref : f \in running}
  BY <1>1, <1>4 DEF Calls, Linked, Marks
<1>8. /\ \A c, d \in DOMAIN asm.counters : c < d => asm.counters[c] < asm.counters[d]
      /\ stack = << >> => asm.depth = 0
      /\ \A f \in DOMAIN stack : stack[f].base <= asm.depth
  BY <1>1 DEF Calls, Book, Nested
<1> QED BY <1>5, <1>6, <1>7, <1>8 DEF CallsUnwind, replacing, running

\* However calls end, by a limit as well: a symbol is marked as being replaced
\* if and only if one call is replacing it, the live counters are those of the
\* blocks that are running, and with no call active none is counted.
THEOREM CallsAreUnwound == Spec => []CallsUnwind
<1>1. Init => CInv
  BY InitCInv
<1>2. CInv /\ [Next]_vars => CInv'
  BY NextCalls
<1>3. CInv => CallsUnwind
  BY CInvUnwinds
<1> QED BY <1>1, <1>2, <1>3, PTL DEF Spec

-----------------------------------------------------------------------------
\* The types of the fields.

\* There is a line at p.
At(lists, p) == p[1] \in DOMAIN lists /\ p[2] \in DOMAIN lists[p[1]]

\* A text symbol has a text, which is no part of the source; what is in the list
\* of counters is one, and counters are in the range of a FOR count.
Texts(m)  == \A r \in DOMAIN m.refs :
               m.refs[r].kind = "text" => m.refs[r].v # 1 /\ At(m.lists, <<m.refs[r].v, 1>>)
Counts(m) == /\ \A c \in DOMAIN m.counters :
                  m.counters[c] \in DOMAIN m.refs /\ m.refs[m.counters[c]].kind = "stack"
             /\ \A r \in DOMAIN m.refs : m.refs[r].kind = "stack" => m.refs[r].v \in 0 .. Wide
Typed(m)  == m \in AsmType /\ m.lists # << >> /\ Texts(m) /\ Counts(m)

\* A line is being read.
Reads(m) == Typed(m) /\ At(m.lists, m.aline)

\* What is at hand in m still is in n, errors too.
On(m, n) == /\ \A p \in Place : At(m.lists, p) => At(n.lists, p)
            /\ Erred(m) => Erred(n)

Goes(m, n) == Reads(n) /\ On(m, n)

LEMMA GoesOn ==
  ASSUME NEW m, NEW n, NEW o, Goes(m, n), Goes(n, o)
  PROVE  Goes(m, o)
BY DEF Goes, On

LEMMA GoesNowhere ==
  ASSUME NEW m, Reads(m)
  PROVE  Goes(m, m)
BY DEF Goes, On

\* What the fields are.
LEMMA FieldsOf ==
  ASSUME NEW m \in AsmType
  PROVE  /\ m.lists \in Seq(Seq(Line)) /\ m.refs \in Seq(Ref) /\ m.counters \in Seq(Nat)
         /\ m.symtbl \in Seq(Seq(Part)) /\ m.statefine \in Nat /\ m.depth \in Nat
         /\ m.expanded \in Nat /\ m.halted \in BOOLEAN /\ m.line \in Nat /\ m.vcont \in BOOLEAN
         /\ m.aline \in Place /\ m.out \in Seq(Line) /\ m.diags \in Seq(Diag)
         /\ m.lineErr \in BOOLEAN /\ m.noassert \in BOOLEAN /\ m.save \in Kinds \cup {"none"}
         /\ m.regs \in [Registers -> Int]
BY DEF AsmType

\* Fields that say nothing of texts and counters may change.
LEMMA GoesBeside ==
  ASSUME NEW m, NEW n \in AsmType, Reads(m), n.lists = m.lists, n.refs = m.refs,
         n.counters = m.counters, n.aline = m.aline, Erred(m) => Erred(n)
  PROVE  Goes(m, n)
BY DEF Goes, On, Reads, Typed, Texts, Counts

\* Nothing changes that the rest depends on.
Alike(m, n) ==
  /\ n.lists = m.lists /\ n.refs = m.refs /\ n.counters = m.counters /\ n.aline = m.aline
  /\ n.diags = m.diags

LEMMA GoesAlike ==
  ASSUME NEW m, NEW n \in AsmType, Reads(m), Alike(m, n)
  PROVE  Goes(m, n)
BY GoesBeside DEF Alike, Erred

\* A line that is read has a place and a text.
LEMMA LineAt ==
  ASSUME NEW m \in AsmType, NEW p \in Place, At(m.lists, p)
  PROVE  /\ m.lists[p[1]] \in Seq(Line) /\ m.lists[p[1]][p[2]] \in Line
         /\ m.lists[p[1]][p[2]].text \in Seq(Token) /\ m.lists[p[1]][p[2]].loc \in Nat
         /\ p[1] \in 1 .. Len(m.lists) /\ p[2] \in 1 .. Len(m.lists[p[1]])
<1>1. m.lists \in Seq(Seq(Line))
  BY FieldsOf
<1>2. m.lists[p[1]] \in Seq(Line) /\ p[1] \in 1 .. Len(m.lists)
  BY <1>1 DEF At
<1>3. m.lists[p[1]][p[2]] \in Line /\ p[2] \in 1 .. Len(m.lists[p[1]])
  BY <1>2 DEF At
<1> QED BY <1>2, <1>3 DEF Line

LEMMA LocOf ==
  ASSUME NEW m \in AsmType, m.aline = NoLine \/ At(m.lists, m.aline)
  PROVE  Loc(m) \in Nat
<1>1. m.aline \in Place
  BY FieldsOf
<1> QED BY <1>1, LineAt DEF Loc, CurLine

\* Reporting.
LEMMA Reported ==
  ASSUME NEW m \in AsmType, NEW e \in Errors, NEW loc \in Nat
  PROVE  /\ ErrAt(m, e, loc) \in AsmType
         /\ Erred(m) => Erred(ErrAt(m, e, loc))
         /\ e \notin Warnings => Erred(ErrAt(m, e, loc))
         /\ ErrAt(m, e, loc).lists = m.lists /\ ErrAt(m, e, loc).refs = m.refs
         /\ ErrAt(m, e, loc).counters = m.counters /\ ErrAt(m, e, loc).aline = m.aline
<1> DEFINE x == [e |-> e, line |-> loc]
           d == Append(m.diags, x)
           n == ErrAt(m, e, loc)
<1>1. m.diags \in Seq(Diag) /\ x \in Diag
  BY FieldsOf DEF Diag
<1>2. d \in Seq(Diag) /\ Len(d) = Len(m.diags) + 1 /\ d[Len(d)] = x
      /\ \A k \in DOMAIN m.diags : k \in DOMAIN d /\ d[k] = m.diags[k]
  BY <1>1
<1>3. n = [m EXCEPT !.lineErr = TRUE, !.diags = d]
  BY DEF ErrAt
<1> HIDE DEF d
<1>4. n \in AsmType /\ n.diags = d /\ n.lists = m.lists /\ n.refs = m.refs
      /\ n.counters = m.counters /\ n.aline = m.aline
  BY <1>2, <1>3 DEF AsmType
<1> HIDE DEF n
<1>5. Len(d) \in DOMAIN d
  BY <1>1, <1>2
<1>6. /\ Erred(m) => Erred(n)
      /\ e \notin Warnings => Erred(n)
  BY <1>2, <1>4, <1>5 DEF Erred
<1> QED BY <1>4, <1>6 DEF n

LEMMA ErrGoes ==
  ASSUME NEW m, Reads(m), NEW e \in Errors
  PROVE  Goes(m, Err(m, e)) /\ (e \notin Warnings => Erred(Err(m, e)))
<1>1. m \in AsmType /\ Loc(m) \in Nat
  BY LocOf DEF Reads, Typed
<1> QED BY <1>1, Reported, GoesBeside DEF Err

\* The counting helpers, and what only changes numbers and flags.
LEMMA SmallGoes ==
  ASSUME NEW m, Reads(m)
  PROVE  /\ Goes(m, [m EXCEPT !.depth = @ + 1])
         /\ \A d \in Nat : Goes(m, [m EXCEPT !.depth = d])
         /\ Goes(m, [m EXCEPT !.statefine = @ + 1])
         /\ m.statefine > 0 => Goes(m, [m EXCEPT !.statefine = @ - 1])
         /\ Goes(m, [m EXCEPT !.vcont = FALSE])
         /\ \A s \in Seq(Seq(Part)) : Goes(m, [m EXCEPT !.symtbl = s])
         /\ Goes(m, [m EXCEPT !.noassert = FALSE])
         /\ Goes(m, [m EXCEPT !.line = @ + 1])
<1>1. m \in AsmType
  BY DEF Reads, Typed
<1>2. m.statefine \in Nat /\ m.depth \in Nat /\ m.line \in Nat
  BY <1>1, FieldsOf
<1>3. ASSUME NEW d \in Nat PROVE Goes(m, [m EXCEPT !.depth = d])
  <2>1. [m EXCEPT !.depth = d] \in AsmType /\ Alike(m, [m EXCEPT !.depth = d])
    BY <1>1 DEF AsmType, Alike
  <2> QED BY <2>1, GoesAlike
<1>4. ASSUME NEW d \in Nat PROVE Goes(m, [m EXCEPT !.statefine = d])
  <2>1. [m EXCEPT !.statefine = d] \in AsmType /\ Alike(m, [m EXCEPT !.statefine = d])
    BY <1>1 DEF AsmType, Alike
  <2> QED BY <2>1, GoesAlike
<1>5. ASSUME NEW d \in Nat PROVE Goes(m, [m EXCEPT !.line = d])
  <2>1. [m EXCEPT !.line = d] \in AsmType /\ Alike(m, [m EXCEPT !.line = d])
    BY <1>1 DEF AsmType, Alike
  <2> QED BY <2>1, GoesAlike
<1>6. ASSUME NEW d \in Seq(Seq(Part)) PROVE Goes(m, [m EXCEPT !.symtbl = d])
  <2>1. [m EXCEPT !.symtbl = d] \in AsmType /\ Alike(m, [m EXCEPT !.symtbl = d])
    BY <1>1 DEF AsmType, Alike
  <2> QED BY <2>1, GoesAlike
<1>7. Goes(m, [m EXCEPT !.vcont = FALSE])
  <2>1. [m EXCEPT !.vcont = FALSE] \in AsmType /\ Alike(m, [m EXCEPT !.vcont = FALSE])
    BY <1>1 DEF AsmType, Alike
  <2> QED BY <2>1, GoesAlike
<1>8. Goes(m, [m EXCEPT !.noassert = FALSE])
  <2>1. [m EXCEPT !.noassert = FALSE] \in AsmType /\ Alike(m, [m EXCEPT !.noassert = FALSE])
    BY <1>1 DEF AsmType, Alike
  <2> QED BY <2>1, GoesAlike
<1>9. /\ m.depth + 1 \in Nat /\ m.statefine + 1 \in Nat /\ m.line + 1 \in Nat
      /\ m.statefine > 0 => m.statefine - 1 \in Nat
  BY <1>2
<1> QED BY <1>3, <1>4, <1>5, <1>6, <1>7, <1>8, <1>9

\* Limits.
LEMMA HaltGoes ==
  ASSUME NEW m, Reads(m), NEW e \in Errors
  PROVE  Goes(m, Halt(m, e))
<1>1. m \in AsmType
  BY DEF Reads, Typed
<1> DEFINE h == [m EXCEPT !.halted = TRUE]
<1>2. Goes(m, h)
  <2>1. h \in AsmType /\ Alike(m, h)
    BY <1>1 DEF AsmType, Alike
  <2> QED BY <2>1, GoesAlike
<1> HIDE DEF h
<1>3. Goes(h, Err(h, e))
  BY <1>2, ErrGoes DEF Goes
<1>4. Goes(m, Err(h, e))
  BY <1>2, <1>3, GoesOn
<1>5. Goes(Err(h, e), [Err(h, e) EXCEPT !.vcont = FALSE]) /\ Goes(m, [m EXCEPT !.vcont = FALSE])
  BY <1>4, SmallGoes DEF Goes
<1>6. Goes(m, [Err(h, e) EXCEPT !.vcont = FALSE])
  BY <1>4, <1>5, GoesOn
<1> QED BY <1>5, <1>6 DEF Halt, h

LEMMA ExpandOneGoes ==
  ASSUME NEW m, Reads(m)
  PROVE  Goes(m, ExpandOne(m))
<1>1. m \in AsmType /\ m.expanded + 1 \in Nat
  BY FieldsOf DEF Reads, Typed
<1> DEFINE c == [m EXCEPT !.expanded = m.expanded + 1]
<1>2. Goes(m, c)
  <2>1. c \in AsmType /\ Alike(m, c)
    BY <1>1 DEF AsmType, Alike
  <2> QED BY <2>1, GoesAlike
<1> HIDE DEF c
<1>3. Goes(c, Halt(c, "Work"))
  <2>1. Reads(c)
    BY <1>2 DEF Goes
  <2>2. "Work" \in Errors
    BY DEF Errors
  <2> QED BY <2>1, <2>2, HaltGoes
<1>4. Goes(m, Halt(c, "Work"))
  BY <1>2, <1>3, GoesOn
<1>5. ExpandOne(m) = c \/ ExpandOne(m) = Halt(c, "Work")
  BY DEF ExpandOne, c
<1> QED BY <1>2, <1>4, <1>5

\* A line that is kept.
LEMMA AddLineGoes ==
  ASSUME NEW m, Reads(m), NEW text \in Seq(Token)
  PROVE  Goes(m, AddLine(m, text))
<1>1. m \in AsmType /\ Loc(m) \in Nat /\ m.out \in Seq(Line)
  BY LocOf, FieldsOf DEF Reads, Typed
<1> DEFINE o == Append(m.out, [text |-> text, loc |-> Loc(m)])
<1>2. o \in Seq(Line)
  BY <1>1 DEF Line
<1>3. AddLine(m, text) = [m EXCEPT !.out = o]
  BY DEF AddLine
<1> HIDE DEF o
<1>4. AddLine(m, text) \in AsmType /\ Alike(m, AddLine(m, text))
  BY <1>1, <1>2, <1>3 DEF AsmType, Alike
<1> QED BY <1>4, GoesAlike




\* A symbol that is added: a label, or the counter of a block.
LEMMA PushRefGoes ==
  ASSUME NEW m, Reads(m), NEW names \in SUBSET Seq(Part), NEW kind \in {"stack", "label"},
         NEW v \in Nat, kind = "stack" => v \in 0 .. Wide, NEW visit \in BOOLEAN
  PROVE  Goes(m, PushRef(m, names, kind, v, visit))
<1> DEFINE x == [names |-> names, kind |-> kind, v |-> v, visit |-> visit]
           rs == Append(m.refs, x)
           cs == IF kind = "stack" THEN Append(m.counters, Len(m.refs) + 1) ELSE m.counters
           n == PushRef(m, names, kind, v, visit)
<1>1. m \in AsmType /\ m.refs \in Seq(Ref) /\ m.counters \in Seq(Nat) /\ x \in Ref
  BY FieldsOf DEF Reads, Typed, Ref
<1>2. /\ rs \in Seq(Ref) /\ Len(rs) = Len(m.refs) + 1 /\ rs[Len(m.refs) + 1] = x
      /\ DOMAIN rs = DOMAIN m.refs \cup {Len(m.refs) + 1}
      /\ \A r \in DOMAIN m.refs : rs[r] = m.refs[r]
  BY <1>1
<1>3. /\ cs \in Seq(Nat)
      /\ \A c \in DOMAIN cs : \/ c \in DOMAIN m.counters /\ cs[c] = m.counters[c]
                              \/ kind = "stack" /\ cs[c] = Len(m.refs) + 1
  BY <1>1
<1>4. x.kind = kind /\ kind # "text" /\ (kind = "stack" => x.v \in 0 .. Wide)
  OBVIOUS
<1> HIDE DEF rs, cs, x
<1>5. n = [m EXCEPT !.refs = rs, !.counters = cs]
  BY DEF PushRef, rs, cs, x
<1> HIDE DEF n
<1>6. /\ n \in AsmType /\ n.refs = rs /\ n.counters = cs /\ n.lists = m.lists /\ n.aline = m.aline
      /\ n.diags = m.diags
  BY <1>1, <1>2, <1>3, <1>5 DEF AsmType
<1>7. Texts(n)
  BY <1>2, <1>4, <1>6 DEF Reads, Typed, Texts
<1>8. Counts(n)
  BY <1>2, <1>3, <1>4, <1>6 DEF Reads, Typed, Counts
<1>9. Goes(m, n)
  BY <1>6, <1>7, <1>8 DEF Goes, On, Reads, Typed, Erred
<1> QED BY <1>9 DEF n

\* x may come in y's place.
Replacing(x, y) == x.kind = y.kind /\ (x.v = y.v \/ (x.kind = "stack" /\ x.v \in 0 .. Wide))

\* A symbol that changes, but for its kind and for where its text is.
LEMMA RefGoes ==
  ASSUME NEW m, Reads(m), NEW k \in DOMAIN m.refs, NEW x \in Ref,
         Replacing(x, m.refs[k])
  PROVE  Goes(m, [m EXCEPT !.refs[k] = x])
<1> DEFINE rs == [m.refs EXCEPT ![k] = x]
           n == [m EXCEPT !.refs[k] = x]
<1>1. m \in AsmType /\ m.refs \in Seq(Ref)
  BY FieldsOf DEF Reads, Typed
<1>2. /\ rs \in Seq(Ref) /\ DOMAIN rs = DOMAIN m.refs
      /\ rs[k] = x /\ \A r \in DOMAIN m.refs \ {k} : rs[r] = m.refs[r]
  BY <1>1
<1> HIDE DEF rs
<1>3. n = [m EXCEPT !.refs = rs]
  BY DEF rs
<1> HIDE DEF n
<1>4. /\ n \in AsmType /\ n.refs = rs /\ n.counters = m.counters /\ n.lists = m.lists
      /\ n.aline = m.aline /\ n.diags = m.diags
  BY <1>1, <1>2, <1>3 DEF AsmType
<1>5. \A r \in DOMAIN m.refs : Replacing(rs[r], m.refs[r])
  <2> TAKE r \in DOMAIN m.refs
  <2>1. CASE r = k
    BY <1>2, <2>1
  <2>2. CASE r # k
    BY <1>2, <2>2 DEF Replacing
  <2> QED BY <2>1, <2>2
<1>6. Texts(n)
  BY <1>2, <1>4, <1>5 DEF Reads, Typed, Texts, Replacing
<1>7. Counts(n)
  BY <1>2, <1>4, <1>5 DEF Reads, Typed, Counts, Replacing
<1>8. Goes(m, n)
  BY <1>4, <1>6, <1>7 DEF Goes, On, Reads, Typed, Erred
<1> QED BY <1>8 DEF n

\* A symbol begins or ceases to be replaced, or counts.
LEMMA MarkGoes ==
  ASSUME NEW m, Reads(m), NEW k \in DOMAIN m.refs
  PROVE  /\ \A b \in BOOLEAN : Goes(m, [m EXCEPT !.refs[k].visit = b])
         /\ m.refs[k].kind = "stack" =>
              \A v \in 0 .. Wide : Goes(m, [m EXCEPT !.refs[k].v = v])
         /\ Goes(m, [m EXCEPT !.refs[k].names = {}])
<1>1. m.refs[k] \in Ref /\ m \in AsmType
  BY FieldsOf DEF Reads, Typed
<1>2. ASSUME NEW b \in BOOLEAN PROVE Goes(m, [m EXCEPT !.refs[k].visit = b])
  <2> DEFINE x == [m.refs[k] EXCEPT !.visit = b]
  <2>1. x \in Ref /\ Replacing(x, m.refs[k])
    BY <1>1 DEF Ref, Replacing
  <2>2. [m EXCEPT !.refs[k].visit = b] = [m EXCEPT !.refs[k] = x]
    OBVIOUS
  <2> HIDE DEF x
  <2> QED BY <2>1, <2>2, RefGoes
<1>3. ASSUME m.refs[k].kind = "stack", NEW v \in 0 .. Wide PROVE Goes(m, [m EXCEPT !.refs[k].v = v])
  <2> DEFINE x == [m.refs[k] EXCEPT !.v = v]
  <2>1. x \in Ref /\ Replacing(x, m.refs[k])
    BY <1>1, <1>3, TokensAssumption DEF Ref, Replacing
  <2>2. [m EXCEPT !.refs[k].v = v] = [m EXCEPT !.refs[k] = x]
    OBVIOUS
  <2> HIDE DEF x
  <2> QED BY <2>1, <2>2, RefGoes
<1>4. Goes(m, [m EXCEPT !.refs[k].names = {}])
  <2> DEFINE x == [m.refs[k] EXCEPT !.names = {}]
  <2>1. x \in Ref /\ Replacing(x, m.refs[k])
    BY <1>1 DEF Ref, Replacing
  <2>2. [m EXCEPT !.refs[k].names = {}] = [m EXCEPT !.refs[k] = x]
    OBVIOUS
  <2> HIDE DEF x
  <2> QED BY <2>1, <2>2, RefGoes
<1> QED BY <1>2, <1>3, <1>4

\* Reading goes on at another line.
LEMMA MoveGoes ==
  ASSUME NEW m, Reads(m), NEW p \in Place, At(m.lists, p)
  PROVE  Goes(m, [m EXCEPT !.aline = p])
<1>1. m \in AsmType
  BY DEF Reads, Typed
<1> DEFINE n == [m EXCEPT !.aline = p]
<1>2. /\ n \in AsmType /\ n.refs = m.refs /\ n.counters = m.counters /\ n.lists = m.lists
      /\ n.aline = p /\ n.diags = m.diags
  BY <1>1 DEF AsmType
<1> HIDE DEF n
<1>3. Goes(m, n)
  BY <1>2 DEF Goes, On, Reads, Typed, Texts, Counts, Erred
<1> QED BY <1>3 DEF n

\* What is looked up is there.
LEMMA LookupOf ==
  ASSUME NEW m \in AsmType, NEW name
  PROVE  /\ Lookup(m, name) \in {0} \cup DOMAIN m.refs
         /\ Lookup(m, name) # 0 => name \in m.refs[Lookup(m, name)].names
<1> DEFINE C == {k \in DOMAIN m.refs : name \in m.refs[k].names}
<1>1. m.refs \in Seq(Ref)
  BY FieldsOf
<1>2. Len(m.refs) \in Nat /\ C \in SUBSET (1 .. Len(m.refs))
  BY <1>1
<1>3. CASE C = {}
  BY <1>3 DEF Lookup
<1>4. CASE C # {}
  <2>1. Lookup(m, name) = CHOOSE k \in C : \A j \in C : j <= k
    BY <1>4 DEF Lookup
  <2>2. \E k \in C : \A j \in C : j <= k
    BY <1>2, <1>4, Greatest
  <2> HIDE DEF C
  <2>3. Lookup(m, name) \in C
    BY <2>1, <2>2
  <2> QED BY <2>3 DEF C
<1> QED BY <1>3, <1>4

LEMMA PopCounterGoes ==
  ASSUME NEW m, Reads(m)
  PROVE  Goes(m, PopCounter(m))
<1>1. CASE m.counters = << >>
  BY <1>1, GoesNowhere DEF PopCounter
<1>2. CASE m.counters # << >>
  <2> DEFINE k == Last(m.counters)
             o == [m EXCEPT !.refs[k].names = {}]
             cs == Front(m.counters)
             n == PopCounter(m)
  <2>1. m \in AsmType /\ m.counters \in Seq(Nat) /\ Counts(m)
    BY FieldsOf DEF Reads, Typed
  <2>2. Len(m.counters) \in DOMAIN m.counters /\ k = m.counters[Len(m.counters)]
    BY <1>2, <2>1 DEF Last
  <2>3. k \in DOMAIN m.refs
    BY <2>1, <2>2 DEF Counts
  <2>4. cs \in Seq(Nat) /\ \A c \in DOMAIN cs : c \in DOMAIN m.counters /\ cs[c] = m.counters[c]
    BY <1>2, <2>1 DEF Front
  <2> HIDE DEF k
  <2>5. Goes(m, o)
    BY <2>3, MarkGoes
  <2>6. o \in AsmType /\ o.counters = m.counters
    BY <2>5 DEF Goes, Reads, Typed
  <2> HIDE DEF cs, o
  <2>7. n = [o EXCEPT !.counters = cs]
    BY <1>2 DEF PopCounter, o, cs, k
  <2> HIDE DEF n
  <2>8. n \in AsmType /\ n.counters = cs /\ n.refs = o.refs /\ n.lists = o.lists /\ n.aline = o.aline
        /\ n.diags = o.diags
    BY <2>4, <2>6, <2>7 DEF AsmType
  <2>9. Counts(n)
    BY <2>4, <2>5, <2>6, <2>8 DEF Counts, Goes, Reads, Typed
  <2>10. Goes(o, n)
    BY <2>5, <2>8, <2>9 DEF Goes, On, Reads, Typed, Texts, Erred
  <2>11. Goes(m, n)
    BY <2>5, <2>10, GoesOn
  <2> QED BY <2>11 DEF n
<1> QED BY <1>1, <1>2

LEMMA LabelledGoes ==
  ASSUME NEW m, Reads(m)
  PROVE  Goes(m, Labelled(m))
<1>1. CASE m.symtbl = << >>
  BY <1>1, GoesNowhere DEF Labelled
<1>2. CASE m.symtbl # << >>
  <2> DEFINE o == [m EXCEPT !.symtbl = << >>]
             names == ToSet(m.symtbl)
  <2>1. m.symtbl \in Seq(Seq(Part)) /\ m.line \in Nat
    BY FieldsOf DEF Reads, Typed
  <2>2. names \in SUBSET Seq(Part)
    BY <2>1 DEF ToSet
  <2>3. << >> \in Seq(Seq(Part))
    OBVIOUS
  <2>4. Goes(m, o)
    BY <2>3, SmallGoes
  <2>5. Labelled(m) = PushRef(o, names, "label", m.line, FALSE)
    BY <1>2 DEF Labelled
  <2> HIDE DEF o, names
  <2>6. Reads(o)
    BY <2>4 DEF Goes
  <2>7. Goes(o, PushRef(o, names, "label", m.line, FALSE))
    BY <2>1, <2>2, <2>6, PushRefGoes
  <2> QED BY <2>4, <2>5, <2>7, GoesOn
<1> QED BY <1>1, <1>2

LEMMA NumberedGoes ==
  ASSUME NEW m, Reads(m), NEW op
  PROVE  Goes(m, Numbered(m, op))
<1> DEFINE o == Labelled(m)
<1>1. Goes(m, o)
  BY LabelledGoes
<1> HIDE DEF o
<1>2. Reads(o)
  BY <1>1 DEF Goes
<1>3. o.vcont \in BOOLEAN
  BY <1>2, FieldsOf DEF Reads, Typed
<1>4. Goes(o, [o EXCEPT !.line = @ + 1]) /\ Goes(o, [o EXCEPT !.vcont = FALSE]) /\ Goes(o, o)
  BY <1>2, SmallGoes, GoesNowhere
<1>5. Goes(o, [o EXCEPT !.vcont = TRUE])
  <2>1. [o EXCEPT !.vcont = TRUE] \in AsmType /\ Alike(o, [o EXCEPT !.vcont = TRUE])
    BY <1>2 DEF AsmType, Alike, Reads, Typed
  <2> QED BY <1>2, <2>1, GoesAlike
<1>6. \/ Numbered(m, op) = [o EXCEPT !.line = @ + 1]
      \/ Numbered(m, op) = [o EXCEPT !.vcont = FALSE]
      \/ Numbered(m, op) = [o EXCEPT !.vcont = TRUE]
  <2>1. Numbered(m, op) = IF op \in Opcodes THEN [o EXCEPT !.line = @ + 1]
                          ELSE [o EXCEPT !.vcont = o.vcont /\ op # "END"]
    BY DEF Numbered, o
  <2>2. (o.vcont /\ op # "END") = TRUE \/ (o.vcont /\ op # "END") = FALSE
    BY <1>3
  <2> QED BY <2>1, <2>2
<1>7. /\ Goes(m, [o EXCEPT !.line = @ + 1])
      /\ Goes(m, [o EXCEPT !.vcont = FALSE])
      /\ Goes(m, [o EXCEPT !.vcont = TRUE])
  BY <1>1, <1>4, <1>5, GoesOn
<1> QED BY <1>6, <1>7

-----------------------------------------------------------------------------
\* The evaluator, which is a constant: the types need that it returns what its
\* signature says, in the code i64, i64 registers and a byte of the source.
Evaluates == \A e \in Seq(Token), regs \in [Registers -> Int], save \in Kinds \cup {"none"} :
               Valued(eval_expr(e, regs, save))

LEMMA EvaluatedGoes ==
  ASSUME NEW m, Reads(m), NEW r, Valued(r)
  PROVE  Goes(m, Evaluated(m, r)) /\ Goes(m, Overflown(Evaluated(m, r), r))
<1> DEFINE o == Evaluated(m, r)
<1>1. m \in AsmType
  BY DEF Reads, Typed
<1>2. o \in AsmType /\ Alike(m, o)
  BY <1>1 DEF Evaluated, AsmType, Alike, Valued
<1>3. Goes(m, o)
  BY <1>2, GoesAlike
<1> HIDE DEF o
<1>4. Reads(o) /\ "Ofl" \in Errors
  BY <1>3 DEF Goes, Errors
<1>5. Goes(o, Err(o, "Ofl"))
  BY <1>4, ErrGoes
<1>6. Goes(m, Err(o, "Ofl"))
  BY <1>3, <1>5, GoesOn
<1>7. Overflown(o, r) = Err(o, "Ofl") \/ Overflown(o, r) = o
  BY DEF Overflown
<1> QED BY <1>3, <1>6, <1>7 DEF o

LEMMA CheckedGoes ==
  ASSUME NEW m, Reads(m), NEW r, Valued(r)
  PROVE  Goes(m, Checked(Evaluated(m, r), r))
<1> DEFINE o == Evaluated(m, r)
           p == Overflown(o, r)
           q == [p EXCEPT !.noassert = FALSE]
<1>1. Goes(m, o) /\ Goes(m, p)
  BY EvaluatedGoes
<1>2. "Bas" \in Errors /\ "Chk" \in Errors
  BY DEF Errors
<1>3. Checked(o, r) = Err(o, "Bas") \/ Checked(o, r) = Err(q, "Chk") \/ Checked(o, r) = q
  BY DEF Checked
<1> HIDE DEF o, p
<1>4. Reads(o) /\ Reads(p)
  BY <1>1 DEF Goes
<1>5. Goes(o, Err(o, "Bas")) /\ Goes(p, q)
  BY <1>2, <1>4, ErrGoes, SmallGoes
<1> HIDE DEF q
<1>6. Reads(q)
  BY <1>5 DEF Goes
<1>7. Goes(q, Err(q, "Chk"))
  BY <1>2, <1>6, ErrGoes
<1>8. Goes(m, Err(o, "Bas")) /\ Goes(m, q)
  BY <1>1, <1>5, GoesOn
<1>9. Goes(m, Err(q, "Chk"))
  BY <1>7, <1>8, GoesOn
<1> QED BY <1>3, <1>8, <1>9 DEF o

\* Cutting a text.
LEMMA FromText ==
  ASSUME NEW buf \in Seq(Token), NEW i \in Nat \ {0}
  PROVE  From(buf, i) \in Seq(Token)
BY DEF From

LEMMA RestOf ==
  ASSUME NEW buf \in Seq(Token), NEW kind, KindAt(buf, 1) = kind, kind # "end"
  PROVE  /\ buf # << >> /\ Tail(buf) \in Seq(Token) /\ buf[1] \in Token /\ buf[1].k = kind
         /\ Len(buf) \in Nat \ {0}
<1>1. 1 \in DOMAIN buf
  BY DEF KindAt
<1> QED BY <1>1 DEF KindAt

\* A set of the numbers up to n has a least.
LEMMA Least ==
  ASSUME NEW n \in Nat, NEW C \in SUBSET (0 .. n), C # {}
  PROVE  \E k \in C : \A j \in C : k <= j
<1> DEFINE D == {d \in 1 .. n + 1 : n + 1 - d \in C}
<1>1. D \in SUBSET (1 .. n + 1) /\ n + 1 \in Nat
  OBVIOUS
<1>2. \A c \in C : c \in 0 .. n /\ n + 1 - c \in D
  <2> TAKE c \in C
  <2>1. c \in 0 .. n /\ n + 1 - c \in 1 .. n + 1 /\ n + 1 - (n + 1 - c) = c
    OBVIOUS
  <2> QED BY <2>1
<1>3. D # {}
  BY <1>2
<1>4. \A d \in D : d \in 1 .. n + 1 /\ n + 1 - d \in C
  OBVIOUS
<1> HIDE DEF D
<1>5. PICK d \in D : \A j \in D : j <= d
  BY <1>1, <1>3, Greatest
<1>6. \A j \in C : n + 1 - d <= j
  BY <1>2, <1>4, <1>5
<1> QED BY <1>4, <1>6

\* A name and the digits attached to it.
LEMMA JoinedGoes ==
  ASSUME NEW m, Reads(m), NEW buf \in Seq(Token), KindAt(buf, 1) = "name"
  PROVE  /\ Goes(m, Joined(m, buf).m)
         /\ Joined(m, buf).name \in Seq(Part) /\ Joined(m, buf).rest \in Seq(Token)
<1> DEFINE attached(i) == KindAt(buf, 2 * i) = "&" /\ KindAt(buf, 2 * i + 1) = "name"
           counter(i)  == Lookup(m, buf[2 * i + 1].s)
           known(i)    == attached(i) /\ counter(i) # 0 /\ m.refs[counter(i)].kind = "stack"
           fits(i)     == (\A j \in 1 .. i : known(j)) /\ ~known(i + 1)
           n == CHOOSE i \in 0 .. Len(buf) : fits(i)
           used == IF ~attached(n + 1) THEN n ELSE IF attached(n + 2) THEN n + 2 ELSE n + 1
           digits == [i \in 1 .. n |-> TwoDigits(m.refs[counter(i)].v)]
           C == {i \in 0 .. Len(buf) : ~known(i + 1)}
<1>1. m \in AsmType /\ Counts(m) /\ Len(buf) \in Nat
  BY DEF Reads, Typed
<1>2. \A i \in Nat : known(i) => counter(i) \in DOMAIN m.refs /\ m.refs[counter(i)].v \in 0 .. Wide
  BY <1>1, LookupOf DEF Counts
<1>3. Len(buf) \in C
  <2>1. 2 * (Len(buf) + 1) \notin DOMAIN buf
    BY <1>1
  <2>2. KindAt(buf, 2 * (Len(buf) + 1)) = "end"
    BY <2>1 DEF KindAt
  <2> QED BY <1>1, <2>2
<1>4. n \in 0 .. Len(buf) /\ fits(n)
  <2> HIDE DEF known
  <2>1. C \in SUBSET (0 .. Len(buf)) /\ C # {}
    BY <1>3
  <2>2. \A c \in C : c \in 0 .. Len(buf) /\ ~known(c + 1)
    OBVIOUS
  <2>3. \A c \in 0 .. Len(buf) : c \notin C => known(c + 1)
    OBVIOUS
  <2> HIDE DEF C
  <2>4. PICK k \in C : \A j \in C : k <= j
    BY <1>1, <2>1, Least
  <2>5. \A j \in 1 .. k : known(j)
    <3> TAKE j \in 1 .. k
    <3>1. j - 1 \in 0 .. Len(buf) /\ j - 1 \notin C /\ j - 1 + 1 = j
      BY <1>1, <2>2, <2>4
    <3> QED BY <2>3, <3>1
  <2>6. \E i \in 0 .. Len(buf) : fits(i)
    BY <2>2, <2>4, <2>5
  <2> HIDE DEF fits
  <2> QED BY <2>6
<1> HIDE DEF n, known, attached, C
<1>5. n \in Nat /\ \A i \in 1 .. n : i \in Nat /\ known(i)
  BY <1>1, <1>4
<1>6. used \in Nat
  BY <1>5
<1>7. buf[1].s \in Seq(Part)
  BY RestOf DEF Token
<1> HIDE DEF counter, fits
<1>8. digits \in Seq(Part)
  <2>1. \A i \in 1 .. n : TwoDigits(m.refs[counter(i)].v) \in Part
    BY <1>2, <1>5 DEF Part
  <2>2. digits \in [1 .. n -> Part]
    BY <2>1
  <2> HIDE DEF digits
  <2> QED BY <1>5, <2>2
<1> HIDE DEF digits, used
<1>9. buf[1].s \o digits \in Seq(Part)
  BY <1>7, <1>8
<1>10. From(buf, 2 * used + 2) \in Seq(Token)
  <2>1. 2 * used + 2 \in Nat \ {0}
    BY <1>6
  <2> QED BY <2>1, FromText
<1>11. Goes(m, Err(m, "Cat")) /\ Goes(m, m)
  BY ErrGoes, GoesNowhere DEF Errors
<1>12. /\ Joined(m, buf).name = buf[1].s \o digits
       /\ Joined(m, buf).rest = From(buf, 2 * used + 2)
       /\ Joined(m, buf).m = m \/ Joined(m, buf).m = Err(m, "Cat")
  BY DEF Joined, digits, used, n, fits, known, counter, attached
<1> QED BY <1>9, <1>10, <1>11, <1>12

\* How many lines go on with an EQU, and what they are.
LEMMA EquLinesAre ==
  ASSUME NEW m, Reads(m)
  PROVE  /\ EquLines(m) \in 0 .. Len(m.lists[m.aline[1]]) - m.aline[2]
         /\ \A j \in 1 .. EquLines(m) :
              KindAt(m.lists[m.aline[1]][m.aline[2] + j].text, 1) = "EQU"
<1> DEFINE L == m.lists[m.aline[1]]
           i == m.aline[2]
           isEqu(j) == KindAt(L[i + j].text, 1) = "EQU"
           most == Len(L) - i
           last(n) == n < most => ~isEqu(n + 1)
           C == {n \in 0 .. most : last(n)}
           good(n) == /\ \A j \in 1 .. n : isEqu(j)
                      /\ last(n)
<1>1. most \in Nat
  <2>1. m \in AsmType /\ m.aline \in Place /\ At(m.lists, m.aline)
    BY FieldsOf DEF Reads, Typed
  <2>2. L \in Seq(Line) /\ i \in 1 .. Len(L)
    BY <2>1, LineAt
  <2> QED BY <2>2
<1>2. EquLines(m) = CHOOSE n \in 0 .. most : good(n)
  BY DEF EquLines
<1> HIDE DEF most, isEqu
<1>3. \E n \in 0 .. most : good(n)
  <2>1. C \in SUBSET (0 .. most) /\ most \in C
    BY <1>1
  <2>2. \A c \in C : c \in 0 .. most /\ last(c)
    OBVIOUS
  <2>3. \A c \in 0 .. most : c \notin C => c < most /\ isEqu(c + 1)
    OBVIOUS
  <2> HIDE DEF C
  <2>4. PICK k \in C : \A j \in C : k <= j
    BY <1>1, <2>1, Least
  <2>5. \A j \in 1 .. k : isEqu(j)
    <3> TAKE j \in 1 .. k
    <3>1. j - 1 \in 0 .. most /\ j - 1 \notin C /\ j - 1 + 1 = j
      BY <1>1, <2>2, <2>4
    <3> QED BY <2>3, <3>1
  <2> QED BY <2>2, <2>4, <2>5
<1> DEFINE n == EquLines(m)
<1> HIDE DEF good, n
<1>4. n \in 0 .. most /\ good(n)
  BY <1>2, <1>3 DEF n
<1>5. \A j \in 1 .. n : isEqu(j)
  BY <1>4 DEF good
<1> QED BY <1>4, <1>5 DEF n, most, isEqu

\* An EQU is a text, that of the line it is on and of the lines that go on
\* with it.
LEMMA DefinedGoes ==
  ASSUME NEW m, Reads(m), NEW text \in Seq(Token)
  PROVE  Goes(m, Defined(m, text))
<1> DEFINE L == m.lists[m.aline[1]]
           i == m.aline[2]
           n == EquLines(m)
           body == [j \in 1 .. n + 1 |->
                     [text |-> IF j = 1 THEN text ELSE Tail(L[i + j - 1].text), loc |-> L[i + j - 1].loc]]
           names == ToSet(m.symtbl)
           ls == Append(m.lists, body)
           p == <<m.aline[1], i + n>>
           x == [names |-> names, kind |-> "text", v |-> Len(m.lists) + 1, visit |-> FALSE]
           rs == Append(m.refs, x)
           d == Defined(m, text)
<1>1. /\ m \in AsmType /\ m.lists \in Seq(Seq(Line)) /\ m.refs \in Seq(Ref) /\ m.aline \in Place
      /\ m.symtbl \in Seq(Seq(Part)) /\ m.lists # << >> /\ Texts(m) /\ Counts(m) /\ At(m.lists, m.aline)
  BY FieldsOf DEF Reads, Typed
<1>2. /\ L \in Seq(Line) /\ i \in 1 .. Len(L) /\ m.aline[1] \in 1 .. Len(m.lists)
      /\ m.aline = <<m.aline[1], i>>
  BY <1>1, LineAt DEF Place
<1>3. n \in 0 .. Len(L) - i /\ \A j \in 1 .. n : KindAt(L[i + j].text, 1) = "EQU"
  BY EquLinesAre
<1> HIDE DEF L, i, n
<1>4. body \in Seq(Line) /\ 1 \in DOMAIN body
  <2>1. ASSUME NEW j \in 1 .. n + 1 PROVE body[j] \in Line
    <3>1. i + j - 1 \in 1 .. Len(L)
      BY <1>2, <1>3
    <3>2. L[i + j - 1] \in Line
      BY <1>2, <3>1
    <3>3. L[i + j - 1].text \in Seq(Token) /\ L[i + j - 1].loc \in Nat
      BY <3>2 DEF Line
    <3>4. CASE j = 1
      BY <3>3, <3>4 DEF Line
    <3>5. CASE j # 1
      <4>1. j - 1 \in 1 .. n /\ i + (j - 1) = i + j - 1
        BY <1>2, <1>3, <3>5
      <4>2. KindAt(L[i + j - 1].text, 1) = "EQU"
        BY <1>3, <4>1
      <4>3. Tail(L[i + j - 1].text) \in Seq(Token)
        BY <3>3, <4>2, RestOf
      <4> QED BY <3>3, <3>5, <4>3 DEF Line
    <3> QED BY <3>4, <3>5
  <2>2. body \in [1 .. n + 1 -> Line]
    BY <2>1
  <2>3. n + 1 \in Nat /\ 1 \in 1 .. n + 1
    BY <1>2, <1>3
  <2> HIDE DEF body
  <2> QED BY <2>2, <2>3
<1> HIDE DEF body
<1>5. /\ ls \in Seq(Seq(Line)) /\ ls # << >> /\ Len(m.lists) + 1 \in DOMAIN ls
      /\ ls[Len(m.lists) + 1] = body
      /\ \A k \in DOMAIN m.lists : k \in DOMAIN ls /\ ls[k] = m.lists[k]
  <2> DEFINE S == Seq(Line)
  <2>1. m.lists \in Seq(S) /\ body \in S
    BY <1>1, <1>4
  <2> HIDE DEF S
  <2>2. ls \in Seq(S) /\ Len(m.lists) + 1 \in DOMAIN ls /\ ls[Len(m.lists) + 1] = body
    BY <2>1
  <2>3. \A k \in DOMAIN m.lists : k \in DOMAIN ls /\ ls[k] = m.lists[k]
    BY <2>1
  <2>4. ls # << >>
    BY <2>2
  <2> QED BY <2>2, <2>3, <2>4 DEF S
<1>6. p \in Place /\ At(ls, p)
  <2>1. i + n \in 1 .. Len(L) /\ i + n \in Nat
    BY <1>2, <1>3
  <2>2. p[1] = m.aline[1] /\ p[2] = i + n
    OBVIOUS
  <2>3. p[1] \in DOMAIN ls /\ ls[p[1]] = L
    BY <1>1, <1>2, <1>5, <2>2 DEF L
  <2>4. DOMAIN L = 1 .. Len(L)
    BY <1>2
  <2> QED BY <1>1, <1>2, <2>1, <2>2, <2>3, <2>4 DEF At, Place
<1>7. names \in SUBSET Seq(Part)
  BY <1>1 DEF ToSet
<1>8. x \in Ref /\ x.kind = "text" /\ x.v = Len(m.lists) + 1 /\ x.v # 1
  <2>1. Len(m.lists) \in Nat /\ Len(m.lists) # 0
    BY <1>1
  <2> QED BY <1>7, <2>1 DEF Ref
<1>9. /\ rs \in Seq(Ref)
      /\ DOMAIN rs = DOMAIN m.refs \cup {Len(m.refs) + 1}
      /\ \A r \in DOMAIN m.refs : rs[r] = m.refs[r]
      /\ rs[Len(m.refs) + 1] = x
  BY <1>1, <1>8
<1>10. d = [m EXCEPT !.lists = ls, !.aline = p, !.symtbl = << >>, !.refs = rs]
  <2>1. m.aline = p \/ TRUE
    OBVIOUS
  <2>2. [m.aline EXCEPT ![2] = @ + n] = p
    BY <1>2 DEF i
  <2>3. << >> \in Seq(Seq(Part))
    OBVIOUS
  <2> QED BY <1>1, <2>2 DEF Defined, PushRef, AsmType, ls, rs, x, names, body, n, L, i
<1> HIDE DEF ls, p, x, rs, d
<1>11. << >> \in Seq(Seq(Part))
  OBVIOUS
<1>12. /\ d \in AsmType /\ d.lists = ls /\ d.aline = p /\ d.refs = rs /\ d.counters = m.counters
       /\ d.diags = m.diags
  BY <1>1, <1>5, <1>6, <1>9, <1>10, <1>11 DEF AsmType
<1>13. \A q \in Place : At(m.lists, q) => At(d.lists, q)
  BY <1>5, <1>12 DEF At
<1>14. Texts(d)
  <2>1. ASSUME NEW r \in DOMAIN rs, rs[r].kind = "text"
        PROVE  rs[r].v # 1 /\ At(ls, <<rs[r].v, 1>>)
    <3>1. CASE r \in DOMAIN m.refs
      <4>1. m.refs[r].v # 1 /\ At(m.lists, <<m.refs[r].v, 1>>)
        BY <1>1, <1>9, <2>1, <3>1 DEF Texts
      <4>2. <<m.refs[r].v, 1>> \in Place
        <5>1. m.refs[r] \in Ref
          BY <1>1, <3>1
        <5> QED BY <5>1 DEF Ref, Place
      <4>3. At(ls, <<m.refs[r].v, 1>>)
        BY <1>12, <1>13, <4>1, <4>2
      <4> QED BY <1>9, <3>1, <4>1, <4>3
    <3>2. CASE r = Len(m.refs) + 1
      BY <1>4, <1>5, <1>8, <1>9, <3>2 DEF At
    <3> QED BY <1>9, <3>1, <3>2
  <2> QED BY <1>12, <2>1 DEF Texts
<1>15. Counts(d)
  BY <1>1, <1>8, <1>9, <1>12 DEF Counts
<1>16. Goes(m, d)
  BY <1>5, <1>6, <1>12, <1>13, <1>14, <1>15 DEF Goes, On, Reads, Typed, Erred
<1> QED BY <1>16 DEF d

\* A call that goes on elsewhere when it resumes goes on at a line, a block in
\* as many rounds as a counter may count.
Placed(f, lists) ==
  /\ f.pc \in {"equ"} \cup Repeats => At(lists, f.aline)
  /\ f.pc \in Repeats => f.limit \in 0 .. Wide
Stacked(s, lists) == s \in Seq(FrameType) /\ \A f \in DOMAIN s : Placed(s[f], lists)

\* It has been said that there is no code, or that it is not started in it.
Misled(m) == \E d \in DOMAIN m.diags : m.diags[d].e \in {"Ofs", "Zln"}

TInv ==
  /\ phase \in {"read", "expand", "encode", "done"} /\ pos \in Nat \ {0} /\ framed \in BOOLEAN
  /\ source \in Seq(Seq(Token))
  /\ Typed(asm) /\ ins \in InsType /\ dest \in Seq(Token) /\ ret \in Returns \cup {Running}
  /\ made \in MadeType
  /\ Stacked(stack, asm.lists)
  /\ stack # << >> \/ ret # Running => phase \in {"expand", "encode"} /\ At(asm.lists, asm.aline)
  /\ phase = "expand" => asm.aline = NoLine \/ At(asm.lists, asm.aline)
  /\ phase = "encode" => /\ asm.aline[1] \in DOMAIN asm.lists
                         /\ asm.aline[2] \in 0 .. Len(asm.lists[asm.aline[1]])
  /\ ins.opcode = "none" => Erred(asm)
  /\ phase \in {"encode", "done"} => Erred(asm) \/ made.count <= MaxLength
  /\ phase = "done" => Erred(asm) \/ Misled(asm) \/ made.offset < made.count

-----------------------------------------------------------------------------
\* The stack.

LEMMA StackedOnTop ==
  ASSUME NEW lists, NEW t, Stacked(t, lists), NEW f \in FrameType, Placed(f, lists)
  PROVE  Stacked(<<f>> \o t, lists)
<1> DEFINE s == <<f>> \o t
<1>1. t \in Seq(FrameType)
  BY DEF Stacked
<1> HIDE DEF Stacked
<1>2. /\ s \in Seq(FrameType) /\ DOMAIN s = 1 .. Len(t) + 1 /\ DOMAIN t = 1 .. Len(t) /\ s[1] = f
      /\ \A i \in DOMAIN s : i # 1 => i - 1 \in DOMAIN t /\ s[i] = t[i - 1]
  <2> DEFINE S == FrameType
  <2>1. t \in Seq(S) /\ f \in S
    BY <1>1
  <2> HIDE DEF S
  <2>2. s \in Seq(S) /\ DOMAIN s = 1 .. Len(t) + 1 /\ DOMAIN t = 1 .. Len(t) /\ s[1] = f
    BY <2>1
  <2>3. \A i \in DOMAIN s : i # 1 => i - 1 \in DOMAIN t /\ s[i] = t[i - 1]
    BY <2>1
  <2> QED BY <2>2, <2>3 DEF S
<1> HIDE DEF s
<1>3. ASSUME NEW i \in DOMAIN s PROVE Placed(s[i], lists)
  <2>1. CASE i = 1
    BY <1>2, <2>1
  <2>2. CASE i # 1
    BY <1>2, <2>2 DEF Stacked
  <2> QED BY <2>1, <2>2
<1>4. Stacked(s, lists)
  BY <1>2, <1>3 DEF Stacked
<1> QED BY <1>4 DEF s

LEMMA StackedTop ==
  ASSUME NEW lists, NEW s, Stacked(s, lists), s # << >>
  PROVE  s[1] \in FrameType /\ Placed(s[1], lists) /\ Stacked(Tail(s), lists)
<1> DEFINE S == FrameType
           t == Tail(s)
<1>1. s \in Seq(S) /\ \A f \in DOMAIN s : Placed(s[f], lists)
  BY DEF Stacked
<1> HIDE DEF S
<1>2. 1 \in DOMAIN s /\ s[1] \in S
  BY <1>1
<1>3. t \in Seq(S) /\ \A i \in DOMAIN t : i + 1 \in DOMAIN s /\ t[i] = s[i + 1]
  BY <1>1
<1> HIDE DEF t
<1>4. \A i \in DOMAIN t : Placed(t[i], lists)
  BY <1>1, <1>3
<1>5. Stacked(t, lists)
  BY <1>3, <1>4 DEF Stacked, S
<1> QED BY <1>1, <1>2, <1>5 DEF S, t

LEMMA StackedOn ==
  ASSUME NEW m, NEW n, On(m, n), NEW s, Stacked(s, m.lists)
  PROVE  Stacked(s, n.lists)
<1>1. s \in Seq(FrameType)
  BY DEF Stacked
<1>2. ASSUME NEW f \in DOMAIN s PROVE Placed(s[f], n.lists)
  <2>1. s[f] \in FrameType /\ Placed(s[f], m.lists)
    BY <1>1 DEF Stacked
  <2>2. s[f].aline \in Place
    BY <2>1 DEF FrameType
  <2> QED BY <2>1, <2>2 DEF Placed, On
<1> QED BY <1>1, <1>2 DEF Stacked

-----------------------------------------------------------------------------
\* What the steps of a call keep.

\* What no call changes.
Aside == phase' = phase /\ source' = source /\ pos' = pos /\ framed' = framed
Makes == made' \in MadeType /\ made'.count = made.count

LEMMA CallKeeps ==
  ASSUME TInv, phase \in {"expand", "encode"}, Aside, Goes(asm, asm'), Stacked(stack', asm'.lists),
         ret' \in Returns \cup {Running}, dest' \in Seq(Token),
         ins' \in InsType, ins'.opcode = "none" => Erred(asm'), Makes
  PROVE  TInv'
<1>1. Typed(asm') /\ At(asm'.lists, asm'.aline) /\ asm' \in AsmType
  BY DEF Goes, Reads, Typed
<1>2. /\ asm'.aline[1] \in DOMAIN asm'.lists
      /\ asm'.aline[2] \in 0 .. Len(asm'.lists[asm'.aline[1]])
  <2>1. asm'.aline \in Place
    BY <1>1, FieldsOf
  <2> QED BY <1>1, <2>1, LineAt DEF At
<1>3. made' \in MadeType /\ made'.count = made.count /\ (Erred(asm) => Erred(asm')) /\ phase' = phase
  BY DEF Makes, Goes, On, Aside
<1>4. phase' = "encode" => Erred(asm') \/ made'.count <= MaxLength
  BY <1>3 DEF TInv
<1> QED BY <1>1, <1>2, <1>3, <1>4 DEF TInv, Aside

\* With an active call, a line is being read.
LEMMA CallReads ==
  ASSUME TInv, stack # << >>
  PROVE  /\ Reads(asm) /\ phase \in {"expand", "encode"} /\ asm \in AsmType
         /\ Top \in FrameType /\ Placed(Top, asm.lists) /\ Stacked(Tail(stack), asm.lists)
BY StackedTop DEF TInv, Reads, Typed, Top

\* The rest stays, but for the text that is written.
Rewrites == Aside /\ ins' = ins /\ made' = made /\ dest' \in Seq(Token)

LEMMA ReturnTyped ==
  ASSUME TInv, stack # << >>, NEW m, Goes(asm, m), NEW r \in Returns, Return(m, r), Aside,
         dest' \in Seq(Token), ins' \in InsType, ins'.opcode = "none" => Erred(m), Makes
  PROVE  TInv'
<1>1. /\ Reads(asm) /\ phase \in {"expand", "encode"} /\ Top \in FrameType /\ Stacked(Tail(stack), asm.lists)
  BY CallReads
<1>2. Top.base \in Nat
  BY <1>1 DEF FrameType
<1>3. Goes(m, [m EXCEPT !.depth = Top.base])
  BY <1>2, SmallGoes DEF Goes
<1>4. asm' = [m EXCEPT !.depth = Top.base] /\ stack' = Tail(stack) /\ ret' = r
  BY DEF Return
<1>5. Goes(asm, asm') /\ Goes(m, asm')
  BY <1>3, <1>4, GoesOn
<1>6. Stacked(stack', asm'.lists)
  BY <1>1, <1>4, <1>5, StackedOn DEF Goes
<1>7. Erred(m) => Erred(asm')
  BY <1>5 DEF Goes, On
<1> QED BY <1>1, <1>4, <1>5, <1>6, <1>7, CallKeeps

LEMMA BecomeTyped ==
  ASSUME TInv, stack # << >>, NEW m, Goes(asm, m), NEW f \in FrameType, Placed(f, m.lists), Become(m, f),
         Aside, dest' \in Seq(Token), ins' \in InsType, ins'.opcode = "none" => Erred(m), Makes
  PROVE  TInv'
<1>1. /\ Reads(asm) /\ phase \in {"expand", "encode"} /\ Stacked(Tail(stack), asm.lists)
  BY CallReads
<1>2. asm' = m /\ stack' = <<f>> \o Tail(stack) /\ ret' = Running
  BY DEF Become
<1>3. Stacked(Tail(stack), m.lists)
  BY <1>1, StackedOn DEF Goes
<1>4. Stacked(stack', asm'.lists)
  BY <1>2, <1>3, StackedOnTop
<1> QED BY <1>1, <1>2, <1>4, CallKeeps

\* A call and the one that waits for it.
LEMMA PushTyped ==
  ASSUME TInv, stack # << >>, NEW f \in FrameType, Placed(f, asm'.lists), NEW g \in FrameType, Placed(g, asm'.lists),
         Goes(asm, asm'), stack' = <<g, f>> \o Tail(stack), ret' = Running,
         Aside, dest' \in Seq(Token), ins' \in InsType, ins'.opcode = "none" => Erred(asm'), Makes
  PROVE  TInv'
<1> DEFINE t == Tail(stack)
<1>1. /\ Reads(asm) /\ phase \in {"expand", "encode"} /\ Stacked(t, asm.lists)
  BY CallReads
<1> HIDE DEF t
<1>2. Stacked(t, asm'.lists)
  BY <1>1, StackedOn DEF Goes
<1>3. Stacked(<<f>> \o t, asm'.lists)
  BY <1>2, StackedOnTop
<1> DEFINE s == <<f>> \o t
<1>4. <<g, f>> \o t = <<g>> \o s
  <2>1. t \in Seq(FrameType)
    BY <1>1 DEF Stacked
  <2> DEFINE S == FrameType
  <2>2. t \in Seq(S) /\ f \in S /\ g \in S
    BY <2>1
  <2> HIDE DEF S
  <2> QED BY <2>2
<1> HIDE DEF s
<1>5. Stacked(<<g>> \o s, asm'.lists)
  BY <1>3, StackedOnTop DEF s
<1>6. Stacked(stack', asm'.lists)
  BY <1>4, <1>5 DEF t
<1> QED BY <1>1, <1>6, CallKeeps

LEMMA AwaitTyped ==
  ASSUME TInv, stack # << >>, NEW m, Goes(asm, m), NEW f \in FrameType, Placed(f, m.lists),
         NEW buf \in Seq(Token), NEW w \in Returns, Await(m, f, buf, w), Rewrites
  PROVE  TInv'
<1> DEFINE g == Frame("trav2", buf, w, "Op", m.depth)
<1>1. m.depth \in Nat
  BY FieldsOf DEF Goes, Reads, Typed
<1>2. g \in FrameType /\ g.pc = "trav2"
  BY <1>1 DEF Frame, FrameType, NoLine, Place, States
<1> HIDE DEF g
<1>3. Placed(g, m.lists)
  BY <1>2 DEF Placed, Repeats
<1>4. asm' = m /\ ret' = Running /\ stack' = <<g, f>> \o Tail(stack)
  BY DEF Await, g
<1>5. ins \in InsType /\ made \in MadeType /\ (ins.opcode = "none" => Erred(asm'))
  BY <1>4 DEF TInv, Goes, On
<1>6. Makes
  BY <1>5 DEF Makes, Rewrites
<1> QED BY <1>2, <1>3, <1>4, <1>5, <1>6, PushTyped DEF Rewrites

\* The same, with the rest as it is.
LEMMA Rewritten ==
  ASSUME TInv, Rewrites, NEW m, Goes(asm, m)
  PROVE  /\ Aside /\ dest' \in Seq(Token) /\ ins' \in InsType /\ Makes
         /\ ins'.opcode = "none" => Erred(m)
BY DEF TInv, Rewrites, Makes, Goes, On

LEMMA ReturnRewrites ==
  ASSUME TInv, stack # << >>, NEW m, Goes(asm, m), NEW r \in Returns, Return(m, r), Rewrites
  PROVE  TInv'
BY Rewritten, ReturnTyped

LEMMA BecomeRewrites ==
  ASSUME TInv, stack # << >>, NEW m, Goes(asm, m), NEW f \in FrameType, Placed(f, m.lists), Become(m, f),
         Rewrites
  PROVE  TInv'
BY Rewritten, BecomeTyped

LEMMA AgainTyped ==
  ASSUME TInv, stack # << >>, NEW m, Goes(asm, m), NEW buf \in Seq(Token), NEW w \in Returns,
         Again(m, buf, w), Rewrites
  PROVE  TInv'
<1> DEFINE f == [Top EXCEPT !.pc = "trav2", !.buf = buf, !.w = w]
<1>1. Top \in FrameType
  BY CallReads
<1>2. f \in FrameType /\ f.pc = "trav2"
  BY <1>1 DEF FrameType
<1> HIDE DEF f
<1>3. Placed(f, m.lists)
  BY <1>2 DEF Placed, Repeats
<1>4. Become(m, f)
  BY DEF Again, f
<1> QED BY <1>2, <1>3, <1>4, BecomeRewrites

LEMMA CopyTyped ==
  ASSUME TInv, stack # << >>, NEW m, Goes(asm, m), NEW text \in Seq(Token), NEW buf \in Seq(Token),
         NEW w \in Returns, Copy(m, text, buf, w), Aside, ins' = ins, made' = made
  PROVE  TInv'
<1>1. dest \in Seq(Token) /\ SERR \in Returns
  BY DEF TInv, Returns, SERR, SROF
<1>2. CASE Fits(dest, text)
  <2>1. dest' = dest \o text /\ Again(m, buf, w)
    BY <1>2 DEF Copy
  <2>2. Rewrites
    BY <1>1, <2>1 DEF Rewrites
  <2> QED BY <2>1, <2>2, AgainTyped
<1>3. CASE ~Fits(dest, text)
  <2>1. dest' = dest /\ Return(Err(m, "Buf"), SERR)
    BY <1>3 DEF Copy
  <2>2. Rewrites
    BY <1>1, <2>1 DEF Rewrites
  <2>3. Goes(m, Err(m, "Buf"))
    BY ErrGoes DEF Goes, Errors
  <2>4. Goes(asm, Err(m, "Buf"))
    BY <2>3, GoesOn
  <2> QED BY <1>1, <2>1, <2>2, <2>4, ReturnRewrites
<1> QED BY <1>2, <1>3

\* The values a call may return.
LEMMA ReturnsAre ==
  /\ SNIL \in Returns /\ SLBL \in Returns /\ SVAL \in Returns /\ SCOM \in Returns
  /\ SPSE \in Returns /\ SFOR \in Returns /\ SROF \in Returns /\ SERR \in Returns
  /\ Running \notin Returns
BY DEF Returns, SNIL, SLBL, SVAL, SCOM, SPSE, SFOR, SROF, SERR, Running

\* The tokens a step writes.
LEMMA Written ==
  /\ \A v \in Int : Num(v) \in Token /\ <<Num(v)>> \in Seq(Token) /\ Shown(v) \in Seq(Token)
  /\ \A s \in Seq(Part) : <<Name(s)>> \in Seq(Token)
<1>1. "num" \in Kinds /\ "-" \in Kinds /\ "name" \in Kinds
  BY DEF Kinds, ExprKinds, Words
<1>2. << >> \in Seq(Part)
  OBVIOUS
<1>3. ASSUME NEW v \in Int PROVE Num(v) \in Token
  BY <1>1, <1>2 DEF Num, Token
<1>4. Sym("-") \in Token
  BY <1>1, <1>2 DEF Sym, Token
<1>5. ASSUME NEW s \in Seq(Part) PROVE Name(s) \in Token
  BY <1>1 DEF Name, Token
<1>6. ASSUME NEW v \in Int PROVE Shown(v) \in Seq(Token)
  <2>1. -v \in Int
    OBVIOUS
  <2>2. Num(v) \in Token /\ Num(-v) \in Token
    BY <1>3, <2>1
  <2> DEFINE p == Num(v)
             q == Num(-v)
             d == Sym("-")
  <2>3. p \in Token /\ q \in Token /\ d \in Token
    BY <1>4, <2>2
  <2>4. Shown(v) = IF v < 0 THEN <<d, q>> ELSE <<p>>
    BY DEF Shown
  <2> HIDE DEF p, q, d
  <2> QED BY <2>3, <2>4
<1>7. ASSUME NEW v \in Int PROVE <<Num(v)>> \in Seq(Token)
  BY <1>3
<1>8. ASSUME NEW s \in Seq(Part) PROVE <<Name(s)>> \in Seq(Token)
  BY <1>5
<1> QED BY <1>3, <1>6, <1>7, <1>8

\* The line goes on with what is left of it.
LEMMA LineOf ==
  ASSUME TInv, stack # << >>
  PROVE  /\ Top.buf \in Seq(Token) /\ Top.w \in Returns
         /\ Tok # "end" => Rest \in Seq(Token) /\ Top.buf[1] \in Token /\ <<Top.buf[1]>> \in Seq(Token)
         /\ \A i \in Nat \ {0} : From(Top.buf, i) \in Seq(Token)
<1>1. Top.buf \in Seq(Token) /\ Top.w \in Returns
  BY CallReads DEF FrameType
<1>2. Tok # "end" => Tail(Top.buf) \in Seq(Token) /\ Top.buf[1] \in Token
  BY <1>1, RestOf DEF Tok
<1>3. Tok # "end" => <<Top.buf[1]>> \in Seq(Token)
  BY <1>2
<1>4. \A i \in Nat \ {0} : From(Top.buf, i) \in Seq(Token)
  BY <1>1, FromText
<1> QED BY <1>1, <1>2, <1>3, <1>4 DEF Rest

\* A call of trav2 let in.
LEMMA Trav2Typed ==
  ASSUME TInv, Trav2,
         \/ LineOver \/ Comment \/ Skip \/ Misplaced \/ Rof \/ Curline \/ Operator \/ Opcode
         \/ Equ \/ DoubleLabel \/ Value \/ Unknown
  PROVE  TInv'
<1> USE ReturnsAre
<1>1. stack # << >> /\ Aside /\ ins' = ins /\ made' = made
  BY DEF Trav2, Calling, Aside
<1>2. Reads(asm) /\ asm \in AsmType /\ Top \in FrameType /\ Top.w \in Returns /\ dest \in Seq(Token)
  BY <1>1, CallReads, LineOf DEF TInv
<1>3. Goes(asm, Entered) /\ Reads(Entered)
  BY <1>2, SmallGoes DEF Entered, Goes
<1>4. ASSUME dest' = dest PROVE Rewrites
  BY <1>1, <1>2, <1>4 DEF Rewrites
<1>5. ASSUME NEW m, Goes(asm, m), NEW r \in Returns, Return(m, r), dest' = dest PROVE TInv'
  BY <1>1, <1>4, <1>5, ReturnRewrites
<1>6. ASSUME NEW e \in Errors, Refuse(e), dest' = dest PROVE TInv'
  <2>1. Goes(asm, Err(Entered, e))
    BY <1>3, ErrGoes, GoesOn
  <2> QED BY <1>5, <1>6, <2>1 DEF Refuse, Entered
<1>7. "App" \in Errors /\ "Misc" \in Errors /\ "Tok" \in Errors /\ "Buf" \in Errors /\ "Ann" \in Errors
      /\ "Idn" \in Errors
  BY DEF Errors
<1>8. CASE LineOver
  BY <1>2, <1>3, <1>5, <1>8 DEF LineOver
<1>9. CASE Comment
  <2> DEFINE f == [Top EXCEPT !.pc = "assert"]
  <2>1. f \in FrameType /\ f.pc = "assert"
    BY <1>2 DEF FrameType
  <2> HIDE DEF f
  <2>2. Placed(f, Entered.lists)
    BY <2>1 DEF Placed, Repeats
  <2>3. From(Top.buf, 3) \in Seq(Token)
    BY <1>1, LineOf
  <2>4. dest' = dest /\ (Await(Entered, f, From(Top.buf, 3), SVAL) \/ Return(Entered, Top.w))
    BY <1>9 DEF Comment, f
  <2> QED BY <1>1, <1>2, <1>3, <1>4, <1>5, <2>1, <2>2, <2>3, <2>4, AwaitTyped
<1>10. CASE Skip
  <2>1. Entered.statefine = asm.statefine /\ asm.statefine > 0
    BY <1>2, <1>10 DEF Skip, Entered, AsmType
  <2>2. /\ Goes(asm, [Entered EXCEPT !.statefine = @ - 1])
        /\ Goes(asm, [Entered EXCEPT !.statefine = @ + 1])
    BY <1>3, <2>1, SmallGoes, GoesOn
  <2>3. Rest \in Seq(Token) /\ dest' = dest
    BY <1>1, <1>10, LineOf DEF Skip
  <2>4. \/ Return([Entered EXCEPT !.statefine = @ - 1], SERR)
        \/ Return([Entered EXCEPT !.statefine = @ + 1], SERR)
        \/ Again(Entered, Rest, SNIL)
        \/ Return(Entered, SNIL)
    BY <1>10 DEF Skip
  <2>5. Again(Entered, Rest, SNIL) => TInv'
    BY <1>1, <1>3, <1>4, <2>3, AgainTyped
  <2> QED BY <1>3, <1>5, <2>2, <2>3, <2>4, <2>5
<1>11. CASE Misplaced
  BY <1>6, <1>7, <1>11 DEF Misplaced
<1>12. CASE Rof
  BY <1>3, <1>5, <1>12 DEF Rof
<1>13. CASE Curline
  <2>1. Rest \in Seq(Token) /\ Copy(Entered, <<Num(asm.line)>>, Rest, Top.w)
    BY <1>1, <1>13, LineOf DEF Curline
  <2>2. asm.line \in Int
    BY <1>2, FieldsOf
  <2>3. <<Num(asm.line)>> \in Seq(Token)
    BY <2>2, Written
  <2> QED BY <1>1, <1>2, <1>3, <2>1, <2>3, CopyTyped
<1>14. CASE Operator
  <2>1. Rest \in Seq(Token) /\ <<Top.buf[1]>> \in Seq(Token) /\ Copy(Entered, <<Top.buf[1]>>, Rest, Top.w)
    BY <1>1, <1>14, LineOf DEF Operator
  <2> QED BY <1>1, <1>2, <1>3, <2>1, CopyTyped
<1>15. CASE Opcode
  <2> DEFINE glued == IF KindAt(Top.buf, 2) = "." /\ Len(Top.buf) > 2 THEN 3 ELSE 1
             text  == SubSeq(Top.buf, 1, glued)
             f == [Top EXCEPT !.pc = "opcode"]
             w == IF Tok \in Opcodes THEN SVAL ELSE SPSE
  <2>1. f \in FrameType /\ f.pc = "opcode"
    BY <1>2 DEF FrameType
  <2> HIDE DEF f
  <2>2. Placed(f, Entered.lists)
    BY <2>1 DEF Placed, Repeats
  <2>3. Tok # "end"
    BY <1>15 DEF Opcode, Opcodes, PseudoOps
  <2>4. text \in Seq(Token) /\ glued + 1 \in Nat \ {0} /\ w \in Returns
    <3>1. Top.buf \in Seq(Token) /\ Top.buf # << >> /\ Len(Top.buf) \in Nat \ {0}
      BY <1>1, <2>3, LineOf, RestOf DEF Tok
    <3>2. glued \in 1 .. Len(Top.buf)
      BY <3>1
    <3> HIDE DEF glued
    <3>3. SubSeq(Top.buf, 1, glued) \in Seq(Token)
      BY <3>1, <3>2
    <3> QED BY <3>2, <3>3
  <2>5. From(Top.buf, glued + 1) \in Seq(Token)
    BY <1>1, <2>4, LineOf
  <2>6. \/ Fits(dest, text) /\ dest' = dest \o text /\ Await(Entered, f, From(Top.buf, glued + 1), w)
        \/ Refuse("Buf") /\ dest' = dest
    BY <1>15 DEF Opcode, f
  <2> HIDE DEF text, glued, w
  <2>7. ASSUME dest' = dest \o text PROVE Rewrites
    BY <1>1, <1>2, <2>4, <2>7 DEF Rewrites
  <2> QED BY <1>1, <1>3, <1>6, <1>7, <2>1, <2>2, <2>4, <2>5, <2>6, <2>7, AwaitTyped
<1>16. CASE Equ
  <2>1. Rest \in Seq(Token) /\ dest' = dest
    BY <1>1, <1>16, LineOf DEF Equ
  <2>2. Goes(asm, Err(Entered, "Ann")) /\ Goes(asm, Defined(Entered, Rest))
    BY <1>3, <1>7, <2>1, ErrGoes, DefinedGoes, GoesOn
  <2>3. Return(Err(Entered, "Ann"), SVAL) \/ Return(Defined(Entered, Rest), SVAL)
    BY <1>16 DEF Equ
  <2> QED BY <1>5, <2>1, <2>2, <2>3
<1>17. ASSUME Naming
       PROVE  /\ Goes(asm, J.m) /\ J.name \in Seq(Part) /\ J.rest \in Seq(Token)
              /\ K # 0 => K \in DOMAIN asm.refs
  <2>1. KindAt(Top.buf, 1) = "name" /\ Top.buf \in Seq(Token)
    BY <1>1, <1>17, LineOf DEF Naming, Tok
  <2>2. Goes(Entered, J.m) /\ J.name \in Seq(Part) /\ J.rest \in Seq(Token)
    BY <1>3, <2>1, JoinedGoes DEF J
  <2> QED BY <1>2, <1>3, <2>2, GoesOn, LookupOf DEF K
<1>18. CASE DoubleLabel
  <2>1. Goes(asm, J.m) /\ Return(Err(J.m, "Idn"), SERR) /\ dest' = dest
    BY <1>17, <1>18 DEF DoubleLabel
  <2>2. Goes(asm, Err(J.m, "Idn"))
    BY <1>7, <2>1, ErrGoes, GoesOn DEF Goes
  <2> QED BY <1>5, <2>1, <2>2
<1>19. CASE Value
  <2> DEFINE text == Distance(asm, asm.refs[K], Top.w)
  <2>1. /\ Goes(asm, J.m) /\ J.rest \in Seq(Token) /\ K \in DOMAIN asm.refs
        /\ Copy(J.m, text, J.rest, Top.w)
    BY <1>17, <1>19 DEF Value
  <2>2. asm.refs[K] \in Ref /\ asm.line \in Nat
    BY <1>2, <2>1, FieldsOf
  <2>3. text \in Seq(Token)
    <3> DEFINE v == IF asm.refs[K].kind = "label" /\ Top.w # SPSE THEN asm.refs[K].v - asm.line ELSE asm.refs[K].v
    <3>1. v \in Int
      BY <2>2 DEF Ref
    <3> HIDE DEF v
    <3>2. Shown(v) \in Seq(Token)
      BY <3>1, Written
    <3> QED BY <3>2 DEF Distance, v
  <2> HIDE DEF text
  <2> QED BY <1>1, <1>2, <2>1, <2>3, CopyTyped
<1>20. CASE Unknown
  <2>1. /\ Goes(asm, J.m) /\ J.rest \in Seq(Token) /\ <<Name(J.name)>> \in Seq(Token)
        /\ Copy(J.m, <<Name(J.name)>>, J.rest, Top.w)
    BY <1>17, <1>20, Written DEF Unknown
  <2> QED BY <1>1, <1>2, <2>1, CopyTyped
<1> QED
  BY <1>8, <1>9, <1>10, <1>11, <1>12, <1>13, <1>14, <1>15, <1>16, <1>18, <1>19, <1>20

\* A name that is replaced.
LEMMA SubstituteTyped ==
  ASSUME TInv, Substitute
  PROVE  TInv'
<1> USE ReturnsAre
<1>1. stack # << >> /\ Aside /\ ins' = ins /\ made' = made /\ dest' = dest /\ KindAt(Top.buf, 1) = "name"
  BY DEF Substitute, Naming, Live, Trav2, Calling, Aside, Tok
<1>2. Reads(asm) /\ asm \in AsmType /\ Top \in FrameType /\ Top.w \in Returns /\ Top.buf \in Seq(Token)
  BY <1>1, CallReads, LineOf
<1>3. Rewrites
  BY <1>1 DEF Rewrites, TInv
<1>4. Goes(asm, Entered) /\ Reads(Entered)
  BY <1>2, SmallGoes DEF Entered, Goes
<1>5. /\ Goes(Entered, J.m) /\ J.rest \in Seq(Token)
  BY <1>1, <1>2, <1>4, JoinedGoes DEF J
<1>6. Goes(asm, J.m) /\ Reads(J.m)
  BY <1>4, <1>5, GoesOn DEF Goes
<1>7. J.m.refs = asm.refs /\ J.m.lists = asm.lists
  <2>1. Entered.refs = asm.refs /\ Entered.lists = asm.lists
    BY DEF Entered
  <2>2. /\ ErrAt(Entered, "Cat", Loc(Entered)).refs = asm.refs
        /\ ErrAt(Entered, "Cat", Loc(Entered)).lists = asm.lists
    BY <2>1 DEF ErrAt
  <2> QED BY <2>1, <2>2 DEF J, Joined, Err
<1>8. K \in DOMAIN asm.refs /\ asm.refs[K].kind = "text"
  BY <1>2, LookupOf DEF Substitute, IsText, K
<1> DEFINE p == <<asm.refs[K].v, 1>>
           n == [J.m EXCEPT !.refs[K].visit = TRUE]
           m == [J.m EXCEPT !.refs[K].visit = TRUE, !.aline = p]
           f == [Top EXCEPT !.pc = "equ", !.buf = J.rest, !.ref = K, !.aline = asm.aline]
           text == asm.lists[asm.refs[K].v][1].text
<1>9. p \in Place /\ At(asm.lists, p) /\ text \in Seq(Token) /\ K \in Nat
  <2>1. asm.refs[K] \in Ref /\ K \in Nat
    BY <1>2, <1>8, FieldsOf
  <2>2. p \in Place
    BY <2>1 DEF Ref, Place
  <2>3. At(asm.lists, p)
    BY <1>2, <1>8 DEF Reads, Typed, Texts
  <2>4. p[1] = asm.refs[K].v /\ p[2] = 1
    OBVIOUS
  <2> HIDE DEF p
  <2>5. asm.lists[p[1]][p[2]].text \in Seq(Token)
    BY <1>2, <2>2, <2>3, LineAt
  <2> QED BY <2>1, <2>2, <2>3, <2>4, <2>5
<1> HIDE DEF p, text
<1>10. Goes(J.m, n)
  BY <1>6, <1>7, <1>8, MarkGoes
<1>11. n.lists = asm.lists /\ m = [n EXCEPT !.aline = p]
  BY <1>7
<1> HIDE DEF n
<1>12. Goes(n, [n EXCEPT !.aline = p])
  BY <1>9, <1>10, <1>11, MoveGoes DEF Goes
<1>13. Goes(asm, m)
  BY <1>6, <1>10, <1>11, <1>12, GoesOn
<1>14. f \in FrameType /\ Placed(f, m.lists)
  <2>1. m.lists = asm.lists
    <3>1. n \in AsmType
      BY <1>10 DEF Goes, Reads, Typed
    <3>2. [n EXCEPT !.aline = p].lists = n.lists
      BY <3>1 DEF AsmType
    <3> QED BY <1>11, <3>2
  <2>2. asm.aline \in Place /\ At(asm.lists, asm.aline)
    BY <1>2, FieldsOf DEF Reads
  <2>3. f \in FrameType /\ f.pc = "equ" /\ f.aline = asm.aline
    BY <1>2, <1>5, <1>9, <2>2 DEF FrameType
  <2> QED BY <2>1, <2>2, <2>3 DEF Placed, Repeats
<1>15. Return(Err(J.m, "Rec"), SERR) \/ Await(m, f, text, Top.w)
  BY DEF Substitute, p, text
<1>16. Goes(asm, Err(J.m, "Rec"))
  <2>1. "Rec" \in Errors
    BY DEF Errors
  <2> QED BY <1>6, <2>1, ErrGoes, GoesOn
<1> HIDE DEF m, f
<1> QED BY <1>1, <1>2, <1>3, <1>9, <1>13, <1>14, <1>15, <1>16, ReturnRewrites, AwaitTyped

\* A label.
LEMMA DeclareTyped ==
  ASSUME TInv, Declare
  PROVE  TInv'
<1> USE ReturnsAre
<1>1. stack # << >> /\ Aside /\ ins' = ins /\ made' = made /\ dest' = dest /\ KindAt(Top.buf, 1) = "name"
  BY DEF Declare, Naming, Live, Trav2, Calling, Aside, Tok
<1>2. Reads(asm) /\ asm \in AsmType /\ Top.buf \in Seq(Token)
  BY <1>1, CallReads, LineOf
<1>3. Rewrites
  BY <1>1 DEF Rewrites, TInv
<1>4. Goes(asm, Entered) /\ Reads(Entered)
  BY <1>2, SmallGoes DEF Entered, Goes
<1>5. /\ Goes(Entered, J.m) /\ J.rest \in Seq(Token) /\ J.name \in Seq(Part)
  BY <1>1, <1>2, <1>4, JoinedGoes DEF J
<1>6. Goes(asm, J.m) /\ Reads(J.m)
  BY <1>4, <1>5, GoesOn DEF Goes
<1> DEFINE s == Append(J.m.symtbl, J.name)
           n == [J.m EXCEPT !.symtbl = Append(@, J.name)]
           buf == IF KindAt(J.rest, 1) = ":" THEN Tail(J.rest) ELSE J.rest
<1>7. s \in Seq(Seq(Part))
  <2> DEFINE S == Seq(Part)
  <2>1. J.m.symtbl \in Seq(S) /\ J.name \in S
    BY <1>5, <1>6, FieldsOf DEF Reads, Typed
  <2> HIDE DEF S
  <2>2. s \in Seq(S)
    BY <2>1
  <2> QED BY <2>2 DEF S
<1>8. n = [J.m EXCEPT !.symtbl = s]
  OBVIOUS
<1> HIDE DEF s, n
<1>9. Goes(asm, n) /\ Goes(asm, Err(J.m, "Grp"))
  <2>1. Goes(J.m, n) /\ "Grp" \in Errors
    BY <1>6, <1>7, <1>8, SmallGoes DEF Errors
  <2> QED BY <1>6, <2>1, ErrGoes, GoesOn
<1>10. buf \in Seq(Token)
  BY <1>5, RestOf
<1>11. Again(n, buf, SLBL) \/ Again(Err(J.m, "Grp"), buf, SLBL)
  BY DEF Declare, n
<1> HIDE DEF buf
<1> QED BY <1>1, <1>3, <1>9, <1>10, <1>11, AgainTyped

\* A block.
LEMMA ForTyped ==
  ASSUME TInv, For
  PROVE  TInv'
<1> USE ReturnsAre
<1>1. stack # << >> /\ Aside /\ ins' = ins /\ made' = made /\ dest' = << >> /\ Tok = "FOR"
  BY DEF For, Live, Trav2, Calling, Aside
<1>2. Reads(asm) /\ asm \in AsmType /\ Top \in FrameType /\ Rest \in Seq(Token)
  BY <1>1, CallReads, LineOf
<1>3. Rewrites
  BY <1>1 DEF Rewrites
<1>4. Goes(asm, Entered) /\ Reads(Entered)
  BY <1>2, SmallGoes DEF Entered, Goes
<1> DEFINE labels == asm.symtbl
           shorter == [Entered EXCEPT !.symtbl = Front(labels)]
           n == Labelled(shorter)
           m == IF labels = << >> THEN Entered ELSE [Labelled(shorter) EXCEPT !.symtbl = << >>]
           names == IF labels = << >> THEN {} ELSE {Last(labels)}
           f == [Top EXCEPT !.pc = "for", !.names = names]
<1>5. labels # << >> => Front(labels) \in Seq(Seq(Part)) /\ Last(labels) \in Seq(Part)
  <2> DEFINE S == Seq(Part)
  <2>1. labels \in Seq(S)
    BY <1>2, FieldsOf
  <2> HIDE DEF S, labels
  <2>2. labels # << >> => Front(labels) \in Seq(S) /\ Last(labels) \in S
    BY <2>1 DEF Front, Last
  <2> QED BY <2>2 DEF S
<1>6. names \in SUBSET Seq(Part)
  BY <1>5
<1>7. Goes(asm, m)
  <2>1. CASE labels = << >>
    BY <1>4, <2>1
  <2>2. CASE labels # << >>
    <3>1. Goes(asm, shorter)
      BY <1>4, <1>5, <2>2, SmallGoes, GoesOn
    <3> HIDE DEF shorter, labels
    <3>2. Goes(asm, n) /\ Reads(n)
      BY <3>1, LabelledGoes, GoesOn DEF Goes
    <3>3. << >> \in Seq(Seq(Part))
      OBVIOUS
    <3> HIDE DEF n
    <3>4. Goes(asm, [n EXCEPT !.symtbl = << >>])
      BY <3>2, <3>3, SmallGoes, GoesOn
    <3> QED BY <2>2, <3>4 DEF n
  <2> QED BY <2>1, <2>2
<1>8. Await(m, f, Rest, SVAL)
  BY DEF For
<1> HIDE DEF m, names
<1>9. f \in FrameType /\ f.pc = "for"
  BY <1>2, <1>6 DEF FrameType
<1> HIDE DEF f
<1>10. Placed(f, m.lists)
  BY <1>9 DEF Placed, Repeats
<1> QED BY <1>1, <1>2, <1>3, <1>7, <1>8, <1>9, <1>10, AwaitTyped

\* The line after the one that is read.
LEMMA NextOf ==
  ASSUME NEW m, Reads(m)
  PROVE  /\ NextLine(m) = NoLine \/ (NextLine(m) \in Place /\ At(m.lists, NextLine(m)))
         /\ m.aline # NoLine
<1>1. m \in AsmType /\ m.aline \in Place /\ At(m.lists, m.aline)
  BY FieldsOf DEF Reads, Typed
<1>2. m.aline[1] \in 1 .. Len(m.lists) /\ m.aline[2] \in 1 .. Len(m.lists[m.aline[1]])
  BY <1>1, LineAt
<1>3. m.lists[m.aline[1]] \in Seq(Line) /\ Len(m.lists[m.aline[1]]) \in Nat
  BY <1>1, LineAt
<1> DEFINE p == <<m.aline[1], m.aline[2] + 1>>
<1>4. p \in Place
  BY <1>1 DEF Place
<1>5. m.aline[2] < Len(m.lists[m.aline[1]]) => At(m.lists, p)
  <2>1. m.aline[2] < Len(m.lists[m.aline[1]]) => m.aline[2] + 1 \in 1 .. Len(m.lists[m.aline[1]])
    BY <1>2, <1>3
  <2>2. DOMAIN m.lists[m.aline[1]] = 1 .. Len(m.lists[m.aline[1]])
    BY <1>3
  <2> QED BY <1>1, <2>1, <2>2 DEF At
<1>6. m.aline # NoLine
  BY <1>2 DEF NoLine
<1> QED BY <1>4, <1>5, <1>6 DEF NextLine

\* What a suspended call is about is there, a counter if a block waits.
LEMMA AboutOf ==
  ASSUME TInv, CInv, stack # << >>
  PROVE  /\ Top.pc \in Replaces => Top.ref \in DOMAIN asm.refs
         /\ Top.pc \in Repeats => Top.ref \in DOMAIN asm.refs /\ asm.refs[Top.ref].kind = "stack"
<1>1. 1 \in DOMAIN stack /\ Linked(asm, stack) /\ asm.counters \in Seq(Nat) /\ Counts(asm)
  BY TopAndRest, FieldsOf DEF CInv, Calls, TInv, Typed
<1>2. Top.pc \in Replaces \cup Repeats => Top.ref \in Nat
  BY <1>1 DEF Linked, About, Top
<1>3. ASSUME Top.pc \in Replaces PROVE Top.ref \in DOMAIN asm.refs
  <2>1. Top.ref \in RefsOf(stack, Replaces)
    BY <1>1, <1>2, <1>3 DEF RefsOf, Top
  <2> QED BY <1>1, <2>1 DEF Linked, Marks
<1>4. ASSUME Top.pc \in Repeats PROVE Top.ref \in DOMAIN asm.refs /\ asm.refs[Top.ref].kind = "stack"
  <2>1. Top.ref \in RefsOf(stack, Repeats)
    BY <1>1, <1>2, <1>4 DEF RefsOf, Top
  <2>2. PICK c \in DOMAIN asm.counters : asm.counters[c] = Top.ref
    BY <1>1, <2>1 DEF Linked, ToSet
  <2> QED BY <1>1, <2>2 DEF Counts
<1> QED BY <1>3, <1>4

\* A text that goes on, and one that is over.
LEMMA EquLineTyped ==
  ASSUME TInv, CInv, EquLine
  PROVE  TInv'
<1> USE ReturnsAre
<1>1. /\ stack # << >> /\ Aside /\ ins' = ins /\ made' = made /\ Top.pc = "equ" /\ ret # Running
  BY DEF EquLine, Resuming, Aside
<1>2. /\ Reads(asm) /\ asm \in AsmType /\ Top \in FrameType /\ Placed(Top, asm.lists)
      /\ dest \in Seq(Token) /\ ret \in Returns
  BY <1>1, CallReads DEF TInv
<1> DEFINE next == NextLine(asm)
           more == next # NoLine /\ asm.vcont
           kept == IF asm.statefine = 0 /\ ret = SCOM THEN AddLine(asm, dest) ELSE asm
           m    == IF ~more THEN asm ELSE ExpandOne(kept)
           k    == Top.ref
           free == [m EXCEPT !.refs[k].visit = FALSE]
           back == [m EXCEPT !.aline = Top.aline, !.refs[k].visit = FALSE]
           g    == [Top EXCEPT !.pc = "trav2", !.w = ret]
<1>3. next = NoLine \/ (next \in Place /\ At(asm.lists, next))
  BY <1>2, NextOf
<1>4. Goes(asm, kept)
  BY <1>2, AddLineGoes, GoesNowhere
<1>5. Goes(asm, m)
  <2> HIDE DEF kept
  <2>1. Goes(asm, ExpandOne(kept))
    BY <1>4, ExpandOneGoes, GoesOn DEF Goes
  <2> QED BY <1>2, <2>1, GoesNowhere
<1>6. m.refs = asm.refs
  <2>1. kept \in AsmType /\ kept.refs = asm.refs
    BY <1>2, <1>4 DEF Goes, Reads, Typed, AddLine, AsmType
  <2> HIDE DEF kept
  <2>2. ExpandOne(kept).refs = kept.refs
    BY <2>1 DEF ExpandOne, Halt, Err, ErrAt, AsmType
  <2> QED BY <2>1, <2>2
<1> HIDE DEF m, next
<1>7. Reads(m) /\ m \in AsmType
  BY <1>5 DEF Goes, Reads, Typed
<1>8. \/ /\ next # NoLine /\ dest' = << >>
         /\ Await([m EXCEPT !.aline = next], Top, m.lists[next[1]][next[2]].text, SNIL)
      \/ Become(back, g) /\ dest' = dest
  BY DEF EquLine, m, kept, more, next
<1>9. Rewrites
  <2>1. dest' = << >> \/ dest' = dest
    BY <1>8
  <2>2. << >> \in Seq(Token)
    OBVIOUS
  <2>3. dest' \in Seq(Token)
    BY <1>2, <2>1, <2>2
  <2> QED BY <1>1, <2>3 DEF Rewrites
<1>10. CASE /\ next # NoLine /\ dest' = << >>
            /\ Await([m EXCEPT !.aline = next], Top, m.lists[next[1]][next[2]].text, SNIL)
  <2> DEFINE n == [m EXCEPT !.aline = next]
  <2>1. next \in Place /\ At(m.lists, next)
    BY <1>3, <1>5, <1>10 DEF Goes, On
  <2>2. Goes(m, n)
    BY <1>7, <2>1, MoveGoes
  <2>3. Goes(asm, n)
    BY <1>5, <2>2, GoesOn
  <2>4. m.lists[next[1]][next[2]].text \in Seq(Token)
    BY <1>7, <2>1, LineAt
  <2>5. Placed(Top, n.lists)
    <3>1. n.lists = m.lists
      BY <1>7 DEF AsmType
    <3>2. Top.aline \in Place
      BY <1>2 DEF FrameType
    <3> QED BY <1>1, <1>2, <1>5, <3>1, <3>2 DEF Placed, Goes, On, Repeats
  <2> HIDE DEF n
  <2> QED BY <1>1, <1>2, <1>9, <1>10, <2>3, <2>4, <2>5, AwaitTyped DEF n
<1>11. CASE Become(back, g) /\ dest' = dest
  <2>1. k \in DOMAIN m.refs
    BY <1>1, <1>6, AboutOf DEF Replaces
  <2>2. Goes(m, free)
    BY <1>7, <2>1, MarkGoes
  <2>3. free \in AsmType /\ free.lists = m.lists
    BY <1>7, <2>2 DEF Goes, Reads, Typed, AsmType
  <2>4. Top.aline \in Place /\ At(free.lists, Top.aline)
    <3>1. Top.aline \in Place /\ At(asm.lists, Top.aline)
      BY <1>1, <1>2 DEF FrameType, Placed
    <3> QED BY <1>5, <2>3, <3>1 DEF Goes, On
  <2>5. back = [free EXCEPT !.aline = Top.aline]
    BY <1>7 DEF AsmType
  <2> HIDE DEF back, free
  <2>6. Goes(free, back)
    BY <2>2, <2>4, <2>5, MoveGoes DEF Goes
  <2>7. Goes(asm, back)
    BY <1>5, <2>2, <2>6, GoesOn
  <2>8. g \in FrameType /\ g.pc = "trav2"
    BY <1>2 DEF FrameType
  <2> HIDE DEF g
  <2>9. Placed(g, back.lists)
    BY <2>8 DEF Placed, Repeats
  <2> QED BY <1>1, <1>9, <1>11, <2>7, <2>8, <2>9, BecomeRewrites
<1> QED BY <1>8, <1>10, <1>11

\* The lines of a block.
LEMMA EndRoundTyped ==
  ASSUME TInv, stack # << >>, Top.pc = "body", NEW m, Goes(asm, m), EndRound(m), Rewrites
  PROVE  TInv'
<1> DEFINE e == [Err(m, "Exx") EXCEPT !.vcont = FALSE]
           f == [Top EXCEPT !.pc = "round", !.n = @ + 1]
<1>1. /\ asm \in AsmType /\ Top \in FrameType /\ Placed(Top, asm.lists)
  BY CallReads
<1>2. Goes(asm, e)
  <2>1. "Exx" \in Errors
    BY DEF Errors
  <2>2. Goes(m, Err(m, "Exx")) /\ Reads(Err(m, "Exx"))
    BY <2>1, ErrGoes DEF Goes
  <2>3. Goes(Err(m, "Exx"), e)
    BY <2>2, SmallGoes
  <2> QED BY <2>2, <2>3, GoesOn
<1>3. f \in FrameType /\ f.pc = "round" /\ f.limit = Top.limit /\ f.aline = Top.aline
  <2>1. Top.n + 1 \in Nat
    BY <1>1 DEF FrameType
  <2> DEFINE c == Top.n + 1
  <2>2. c \in Nat /\ f = [Top EXCEPT !.pc = "round", !.n = c]
    BY <2>1
  <2> HIDE DEF c, f
  <2>3. f \in FrameType
    BY <1>1, <2>2 DEF FrameType
  <2> QED BY <1>1, <2>2, <2>3 DEF FrameType
<1>4. Become(m, f) \/ Become(e, f)
  BY DEF EndRound
<1> HIDE DEF e, f
<1>5. Top.aline \in Place /\ At(asm.lists, Top.aline) /\ Top.limit \in 0 .. Wide
  BY <1>1 DEF FrameType, Placed, Repeats
<1>6. Placed(f, m.lists) /\ Placed(f, e.lists)
  BY <1>2, <1>3, <1>5 DEF Placed, Goes, On, Repeats
<1> QED BY <1>2, <1>3, <1>4, <1>6, BecomeRewrites

\* A block's number of rounds.
LEMMA ForCountTyped ==
  ASSUME TInv, Evaluates, ForCount
  PROVE  TInv'
<1> USE ReturnsAre
<1>1. /\ stack # << >> /\ Aside /\ ins' = ins /\ made' = made /\ dest' = dest
  BY DEF ForCount, Resuming, Aside
<1>2. /\ Reads(asm) /\ asm \in AsmType /\ Top \in FrameType /\ dest \in Seq(Token)
  BY <1>1, CallReads DEF TInv
<1>3. Rewrites
  BY <1>1, <1>2 DEF Rewrites
<1> DEFINE r == Eval1(dest)
           m == Overflown(Evaluated(asm, r), r)
           p == PushRef(m, Top.names, "stack", 1, TRUE)
           n == [m EXCEPT !.statefine = @ + 1]
           f == [Top EXCEPT !.pc = "round", !.ref = Len(p.refs), !.aline = asm.aline,
                            !.n = 1, !.limit = r.v % Wide]
<1>4. Valued(r)
  <2>1. asm.regs \in [Registers -> Int] /\ asm.save \in Kinds \cup {"none"}
    BY <1>2, FieldsOf
  <2> QED BY <1>2, <2>1 DEF Eval1, Evaluates
<1> HIDE DEF r
<1>5. \/ Failed(r) /\ Return(Err(m, EvalError(r)), SFOR)
      \/ Return(n, SFOR)
      \/ Become(p, f)
  BY DEF ForCount, r
<1>6. Goes(asm, m)
  BY <1>2, <1>4, EvaluatedGoes
<1> HIDE DEF m
<1>7. Reads(m) /\ m \in AsmType
  BY <1>6 DEF Goes, Reads, Typed
<1>8. Goes(asm, Err(m, EvalError(r))) /\ Goes(asm, n)
  <2>1. EvalError(r) \in Errors
    BY DEF EvalError, Errors
  <2>2. Goes(m, Err(m, EvalError(r))) /\ Goes(m, n)
    BY <1>7, <2>1, ErrGoes, SmallGoes
  <2> QED BY <1>6, <2>2, GoesOn
<1>9. Goes(m, p)
  <2>1. Top.names \in SUBSET Seq(Part)
    BY <1>2 DEF FrameType
  <2>2. "stack" \in {"stack", "label"} /\ 1 \in Nat /\ 1 \in 0 .. Wide /\ TRUE \in BOOLEAN
    BY TokensAssumption
  <2> QED BY <1>7, <2>1, <2>2, PushRefGoes
<1>10. Goes(asm, p)
  BY <1>6, <1>9, GoesOn
<1> HIDE DEF p, n
<1>11. f \in FrameType /\ f.aline = asm.aline /\ f.limit \in 0 .. Wide
  <2>1. Len(p.refs) \in Nat
    <3>1. p.refs \in Seq(Ref)
      BY <1>10, FieldsOf DEF Goes, Reads, Typed
    <3> QED BY <3>1
  <2>2. r.v % Wide \in 0 .. Wide /\ r.v % Wide \in Nat
    BY <1>4, TokensAssumption DEF Valued
  <2>3. asm.aline \in Place
    BY <1>2, FieldsOf
  <2> DEFINE l == r.v % Wide
             c == Len(p.refs)
  <2> HIDE DEF l, c
  <2>4. l \in Nat /\ l \in 0 .. Wide /\ c \in Nat
    BY <2>1, <2>2 DEF l, c
  <2>5. f = [Top EXCEPT !.pc = "round", !.ref = c, !.aline = asm.aline, !.n = 1, !.limit = l]
    BY DEF l, c
  <2> HIDE DEF f
  <2> QED BY <1>2, <2>3, <2>4, <2>5 DEF FrameType
<1>12. Placed(f, p.lists)
  <2>1. At(asm.lists, asm.aline) /\ asm.aline \in Place
    BY <1>2, FieldsOf DEF Reads
  <2> HIDE DEF f
  <2> QED BY <1>10, <1>11, <2>1 DEF Placed, Goes, On
<1> HIDE DEF f
<1> QED BY <1>1, <1>3, <1>5, <1>8, <1>10, <1>11, <1>12, ReturnRewrites, BecomeRewrites

LEMMA ForRoundTyped ==
  ASSUME TInv, CInv, ForRound
  PROVE  TInv'
<1> USE ReturnsAre
<1>1. /\ stack # << >> /\ Aside /\ ins' = ins /\ made' = made /\ dest' = dest /\ Top.pc = "round"
  BY DEF ForRound, Calling, Aside
<1>2. /\ Reads(asm) /\ asm \in AsmType /\ Top \in FrameType /\ Placed(Top, asm.lists) /\ dest \in Seq(Token)
  BY <1>1, CallReads DEF TInv
<1>3. Rewrites
  BY <1>1, <1>2 DEF Rewrites
<1> DEFINE k == Top.ref
           n == [asm EXCEPT !.refs[k].v = Top.n]
           m == [asm EXCEPT !.refs[k].v = Top.n, !.aline = Top.aline]
           f == [Top EXCEPT !.pc = "body"]
<1>4. \/ Top.n <= Top.limit /\ Become(m, f)
      \/ Return(PopCounter(asm), SFOR)
  BY DEF ForRound
<1>5. /\ Top.aline \in Place /\ At(asm.lists, Top.aline) /\ Top.limit \in 0 .. Wide /\ Top.n \in Nat
      /\ k \in DOMAIN asm.refs /\ asm.refs[k].kind = "stack"
  BY <1>1, <1>2, AboutOf DEF FrameType, Placed, Repeats
<1>6. ASSUME Top.n <= Top.limit, Become(m, f) PROVE TInv'
  <2>1. Top.n \in 0 .. Wide
    BY <1>5, <1>6, TokensAssumption
  <2>2. Goes(asm, n)
    BY <1>2, <1>5, <2>1, MarkGoes
  <2>3. n.lists = asm.lists /\ m = [n EXCEPT !.aline = Top.aline]
    BY <1>2 DEF AsmType
  <2> HIDE DEF n, m
  <2>4. n \in AsmType
    BY <2>2 DEF Goes, Reads, Typed
  <2>5. Goes(n, m) /\ m.lists = n.lists
    BY <1>5, <2>2, <2>3, <2>4, MoveGoes DEF Goes, AsmType
  <2>6. Goes(asm, m)
    BY <2>2, <2>5, GoesOn
  <2>7. f \in FrameType /\ f.pc = "body" /\ f.aline = Top.aline /\ f.limit = Top.limit
    BY <1>2 DEF FrameType
  <2> HIDE DEF f
  <2>8. Placed(f, m.lists)
    BY <1>5, <2>3, <2>5, <2>7 DEF Placed
  <2> QED BY <1>1, <1>3, <1>6, <2>6, <2>7, <2>8, BecomeRewrites
<1>7. ASSUME Return(PopCounter(asm), SFOR) PROVE TInv'
  BY <1>1, <1>2, <1>3, <1>7, PopCounterGoes, ReturnRewrites
<1> QED BY <1>4, <1>6, <1>7

LEMMA ForLineTyped ==
  ASSUME TInv, ForLine
  PROVE  TInv'
<1> USE ReturnsAre
<1>1. /\ stack # << >> /\ Aside /\ ins' = ins /\ made' = made /\ Top.pc = "body"
  BY DEF ForLine, Calling, Aside
<1>2. /\ Reads(asm) /\ asm \in AsmType /\ Top \in FrameType /\ Placed(Top, asm.lists) /\ dest \in Seq(Token)
  BY <1>1, CallReads DEF TInv
<1> DEFINE next == NextLine(asm)
           m    == ExpandOne(asm)
           e    == [Err(asm, "Rof") EXCEPT !.vcont = FALSE]
<1>3. \/ (EndRound(asm) \/ EndRound(e) \/ EndRound(m)) /\ dest' = dest
      \/ /\ next # NoLine /\ dest' = << >>
         /\ Await([m EXCEPT !.aline = next], Top, asm.lists[next[1]][next[2]].text, SNIL)
  BY DEF ForLine
<1>4. Rewrites
  <2>1. dest' = << >> \/ dest' = dest
    BY <1>3
  <2>2. << >> \in Seq(Token)
    OBVIOUS
  <2>3. dest' \in Seq(Token)
    BY <1>2, <2>1, <2>2
  <2> QED BY <1>1, <2>3 DEF Rewrites
<1>5. Goes(asm, asm) /\ Goes(asm, m)
  BY <1>2, GoesNowhere, ExpandOneGoes
<1>6. Goes(asm, e)
  <2>1. "Rof" \in Errors
    BY DEF Errors
  <2>2. Goes(asm, Err(asm, "Rof"))
    BY <1>2, <2>1, ErrGoes
  <2>3. Goes(Err(asm, "Rof"), e)
    BY <2>2, SmallGoes DEF Goes
  <2> QED BY <2>2, <2>3, GoesOn
<1>7. next = NoLine \/ (next \in Place /\ At(asm.lists, next))
  BY <1>2, NextOf
<1> HIDE DEF m, e, next
<1>8. CASE (EndRound(asm) \/ EndRound(e) \/ EndRound(m)) /\ dest' = dest
  BY <1>1, <1>4, <1>5, <1>6, <1>8, EndRoundTyped
<1>9. CASE /\ next # NoLine /\ dest' = << >>
           /\ Await([m EXCEPT !.aline = next], Top, asm.lists[next[1]][next[2]].text, SNIL)
  <2> DEFINE n == [m EXCEPT !.aline = next]
  <2>1. next \in Place /\ At(m.lists, next) /\ asm.lists[next[1]][next[2]].text \in Seq(Token)
    BY <1>2, <1>5, <1>7, <1>9, LineAt DEF Goes, On
  <2>2. Goes(asm, n) /\ m \in AsmType
    BY <1>5, <2>1, MoveGoes, GoesOn DEF Goes, Reads, Typed
  <2>3. n.lists = m.lists
    BY <2>2 DEF AsmType
  <2>4. Top.aline \in Place
    BY <1>2 DEF FrameType
  <2>5. Placed(Top, n.lists)
    BY <1>1, <1>2, <1>5, <2>3, <2>4 DEF Placed, Goes, On
  <2> HIDE DEF n
  <2> QED BY <1>1, <1>2, <1>4, <1>9, <2>1, <2>2, <2>5, AwaitTyped DEF n
<1> QED BY <1>3, <1>8, <1>9

LEMMA ForLineDoneTyped ==
  ASSUME TInv, ForLineDone
  PROVE  TInv'
<1>1. /\ stack # << >> /\ Aside /\ ins' = ins /\ made' = made /\ dest' = dest /\ Top.pc = "body"
  BY DEF ForLineDone, Resuming, Aside
<1>2. /\ Reads(asm) /\ asm \in AsmType /\ Top \in FrameType /\ Placed(Top, asm.lists) /\ dest \in Seq(Token)
  BY <1>1, CallReads DEF TInv
<1>3. Rewrites
  BY <1>1, <1>2 DEF Rewrites
<1>4. EndRound(asm) \/ Become(AddLine(asm, dest), Top) \/ Become(asm, Top)
  BY DEF ForLineDone
<1>5. Goes(asm, asm) /\ Goes(asm, AddLine(asm, dest))
  BY <1>2, GoesNowhere, AddLineGoes
<1>6. Placed(Top, AddLine(asm, dest).lists)
  BY <1>2 DEF AddLine, AsmType
<1> QED BY <1>1, <1>2, <1>3, <1>4, <1>5, <1>6, EndRoundTyped, BecomeRewrites

LEMMA ResumedTyped ==
  ASSUME TInv, CInv, Evaluates,
         Asserted \/ OpcodeDone \/ EquLine \/ ForCount \/ ForRound \/ ForLine \/ ForLineDone
  PROVE  TInv'
<1> USE ReturnsAre
<1>1. ASSUME stack # << >>
      PROVE  /\ Reads(asm) /\ asm \in AsmType /\ Top.w \in Returns /\ dest \in Seq(Token)
  BY <1>1, CallReads, LineOf DEF TInv
<1>2. CASE Asserted
  <2> DEFINE r == Eval1(dest)
  <2>1. stack # << >> /\ Aside /\ ins' = ins /\ made' = made /\ dest' = dest
    BY <1>2 DEF Asserted, Resuming, Aside
  <2>2. Valued(r)
    <3>1. asm.regs \in [Registers -> Int] /\ asm.save \in Kinds \cup {"none"}
      BY <1>1, <2>1, FieldsOf
    <3> QED BY <1>1, <2>1, <3>1 DEF Eval1, Evaluates
  <2>3. Return(Checked(Evaluated(asm, r), r), Top.w)
    BY <1>2 DEF Asserted
  <2> HIDE DEF r
  <2>4. Goes(asm, Checked(Evaluated(asm, r), r)) /\ Rewrites
    BY <1>1, <2>1, <2>2, CheckedGoes DEF Rewrites
  <2> QED BY <1>1, <2>1, <2>3, <2>4, ReturnRewrites
<1>3. CASE OpcodeDone
  <2>1. stack # << >> /\ Aside /\ ins' = ins /\ made' = made /\ dest' = dest
    BY <1>3 DEF OpcodeDone, Resuming, Aside
  <2>2. Return(asm, SERR) \/ Return(Numbered(asm, Tok), SCOM)
    BY <1>3 DEF OpcodeDone
  <2>3. Goes(asm, asm) /\ Goes(asm, Numbered(asm, Tok)) /\ Rewrites
    BY <1>1, <2>1, GoesNowhere, NumberedGoes DEF Rewrites
  <2> QED BY <2>1, <2>2, <2>3, ReturnRewrites
<1> QED
  BY <1>2, <1>3, EquLineTyped, ForCountTyped, ForRoundTyped, ForLineTyped, ForLineDoneTyped

-----------------------------------------------------------------------------
\* The loops around the calls, which read no line between two lines.

\* n has the texts of m, and its errors.
Stays(m, n) == Typed(n) /\ n.lists = m.lists /\ (Erred(m) => Erred(n))

LEMMA StaysOn ==
  ASSUME NEW m, NEW n, NEW o, Stays(m, n), Stays(n, o)
  PROVE  Stays(m, o)
BY DEF Stays

\* What may change without harm while no line is read.
LEMMA StaysBeside ==
  ASSUME NEW m, Typed(m)
  PROVE  /\ Stays(m, m)
         /\ \A p \in Place : /\ Stays(m, [m EXCEPT !.aline = p])
                             /\ [m EXCEPT !.aline = p].aline = p
         /\ \A s \in Seq(Seq(Part)) : Stays(m, [m EXCEPT !.symtbl = s])
         /\ \A e \in Errors, loc \in Nat :
              Stays(m, ErrAt(m, e, loc)) /\ ErrAt(m, e, loc).aline = m.aline
<1>1. m \in AsmType
  BY DEF Typed
<1>2. ASSUME NEW p \in Place
      PROVE  Stays(m, [m EXCEPT !.aline = p]) /\ [m EXCEPT !.aline = p].aline = p
  <2> DEFINE n == [m EXCEPT !.aline = p]
  <2>1. /\ n \in AsmType /\ n.lists = m.lists /\ n.refs = m.refs /\ n.counters = m.counters
        /\ n.diags = m.diags /\ n.aline = p
    BY <1>1 DEF AsmType
  <2> HIDE DEF n
  <2>2. Stays(m, n) /\ n.aline = p
    BY <2>1 DEF Stays, Typed, Texts, Counts, Erred
  <2> QED BY <2>2 DEF n
<1>3. ASSUME NEW s \in Seq(Seq(Part)) PROVE Stays(m, [m EXCEPT !.symtbl = s])
  <2> DEFINE n == [m EXCEPT !.symtbl = s]
  <2>1. /\ n \in AsmType /\ n.lists = m.lists /\ n.refs = m.refs /\ n.counters = m.counters
        /\ n.diags = m.diags
    BY <1>1 DEF AsmType
  <2> HIDE DEF n
  <2>2. Stays(m, n)
    BY <2>1 DEF Stays, Typed, Texts, Counts, Erred
  <2> QED BY <2>2 DEF n
<1>4. ASSUME NEW e \in Errors, NEW loc \in Nat
      PROVE  Stays(m, ErrAt(m, e, loc)) /\ ErrAt(m, e, loc).aline = m.aline
  <2> DEFINE n == ErrAt(m, e, loc)
  <2>1. /\ n \in AsmType /\ n.lists = m.lists /\ n.refs = m.refs /\ n.counters = m.counters
        /\ (Erred(m) => Erred(n)) /\ n.aline = m.aline
    BY <1>1, Reported
  <2> HIDE DEF n
  <2>2. Stays(m, n) /\ n.aline = m.aline
    BY <2>1 DEF Stays, Typed, Texts, Counts
  <2> QED BY <2>2 DEF n
<1>5. Stays(m, m)
  BY DEF Stays
<1> QED BY <1>2, <1>3, <1>4, <1>5

\* A stack of one call, which waits for none.
LEMMA OneCall ==
  ASSUME NEW lists, NEW f \in FrameType, f.pc \in {"trav2", "automaton"}
  PROVE  Stacked(<<f>>, lists)
<1>1. << >> \in Seq(FrameType) /\ <<f>> = <<f>> \o << >>
  <2> DEFINE S == FrameType
  <2>1. f \in S
    OBVIOUS
  <2> HIDE DEF S
  <2>2. << >> \in Seq(S) /\ <<f>> = <<f>> \o << >>
    BY <2>1
  <2> QED BY <2>2 DEF S
<1>2. Stacked(<< >>, lists)
  BY <1>1 DEF Stacked
<1>3. Placed(f, lists)
  BY DEF Placed, Repeats
<1>4. Stacked(<<f>> \o << >>, lists)
  BY <1>2, <1>3, StackedOnTop
<1> QED BY <1>1, <1>4

LEMMA NoCall ==
  ASSUME NEW lists
  PROVE  Stacked(<< >>, lists)
BY DEF Stacked

\* What is reported is there to be read.
LEMMA ReportedIs ==
  ASSUME NEW m \in AsmType, NEW e, NEW loc
  PROVE  \E d \in DOMAIN ErrAt(m, e, loc).diags : ErrAt(m, e, loc).diags[d].e = e
<1> DEFINE x == [e |-> e, line |-> loc]
           ds == Append(m.diags, x)
<1>1. m.diags \in Seq(Diag)
  BY FieldsOf
<1>2. Len(ds) \in DOMAIN ds /\ ds[Len(ds)] = x
  BY <1>1
<1>3. x.e = e
  OBVIOUS
<1> HIDE DEF ds, x
<1>4. ErrAt(m, e, loc).diags = ds
  <2>1. ErrAt(m, e, loc) = [m EXCEPT !.lineErr = TRUE, !.diags = ds]
    BY DEF ErrAt, ds, x
  <2> QED BY <2>1 DEF AsmType
<1> QED BY <1>2, <1>3, <1>4

LEMMA ReadTyped ==
  ASSUME TInv, Read
  PROVE  TInv'
<1>1. /\ phase = "read" /\ stack = << >> /\ ret = Running /\ asm \in AsmType /\ Typed(asm)
      /\ pos \in Nat \ {0} /\ source \in Seq(Seq(Token)) /\ Len(source) \in Nat
  <2>1. /\ phase = "read" /\ Typed(asm) /\ pos \in Nat \ {0} /\ source \in Seq(Seq(Token))
        /\ stack = << >> \/ phase # "read"
        /\ ret = Running \/ phase # "read"
    BY DEF TInv, Read, ReadLine, ReadDone
  <2> DEFINE S == Seq(Token)
  <2>2. source \in Seq(S)
    BY <2>1
  <2> HIDE DEF S
  <2>3. Len(source) \in Nat
    BY <2>2
  <2> QED BY <2>1, <2>3 DEF Typed
<1>2. /\ asm.lists \in Seq(Seq(Line)) /\ 1 \in DOMAIN asm.lists /\ asm.lists[1] \in Seq(Line)
  <2> DEFINE S == Seq(Line)
  <2>1. asm.lists \in Seq(S) /\ asm.lists # << >>
    BY <1>1, FieldsOf DEF Typed
  <2> HIDE DEF S
  <2>2. 1 \in DOMAIN asm.lists /\ asm.lists[1] \in S
    BY <2>1
  <2> QED BY <2>1, <2>2 DEF S
<1>3. CASE ReadLine
  <2>1. ASSUME NEW l \in Seq(Line), asm' = [asm EXCEPT !.lists[1] = l]
        PROVE  Typed(asm') /\ (Erred(asm) => Erred(asm'))
    <3> DEFINE ls == [asm.lists EXCEPT ![1] = l]
    <3>1. ls \in Seq(Seq(Line)) /\ ls # << >> /\ DOMAIN ls = DOMAIN asm.lists
          /\ \A k \in DOMAIN asm.lists : k # 1 => ls[k] = asm.lists[k]
      <4> DEFINE S == Seq(Line)
      <4>1. asm.lists \in Seq(S) /\ l \in S /\ 1 \in DOMAIN asm.lists
        BY <1>2
      <4> HIDE DEF S
      <4>2. ls \in Seq(S) /\ ls # << >> /\ DOMAIN ls = DOMAIN asm.lists
            /\ \A k \in DOMAIN asm.lists : k # 1 => ls[k] = asm.lists[k]
        BY <4>1
      <4> QED BY <4>2 DEF S
    <3> HIDE DEF ls
    <3>2. asm' = [asm EXCEPT !.lists = ls]
      BY <2>1 DEF ls
    <3>3. /\ asm' \in AsmType /\ asm'.lists = ls /\ asm'.refs = asm.refs /\ asm'.counters = asm.counters
          /\ asm'.diags = asm.diags
      BY <1>1, <3>1, <3>2 DEF AsmType
    <3>4. Texts(asm')
      <4> SUFFICES ASSUME NEW r \in DOMAIN asm.refs, asm.refs[r].kind = "text"
                   PROVE  asm.refs[r].v # 1 /\ At(ls, <<asm.refs[r].v, 1>>)
        BY <3>3 DEF Texts
      <4>1. asm.refs[r].v # 1 /\ At(asm.lists, <<asm.refs[r].v, 1>>)
        BY <1>1 DEF Typed, Texts
      <4> QED BY <3>1, <4>1 DEF At
    <3>5. Counts(asm')
      BY <1>1, <3>3 DEF Typed, Counts
    <3> QED BY <3>1, <3>3, <3>4, <3>5 DEF Typed, Erred
  <2>2. pos \in 1 .. Len(source)
    <3>1. pos <= Len(source)
      BY <1>3 DEF ReadLine
    <3> QED BY <1>1, <3>1
  <2> DEFINE line == source[pos]
             kept == Append(asm.lists[1], [text |-> Uncommented(line), loc |-> pos])
  <2>3. \/ asm' = asm
        \/ asm' = [asm EXCEPT !.lists[1] = << >>]
        \/ asm' = [asm EXCEPT !.lists[1] = kept] /\ KindAt(line, 1) # "end"
    <3>1. asm' = [asm EXCEPT !.lists[1] = Append(@, [text |-> Uncommented(line), loc |-> pos])]
          => asm' = [asm EXCEPT !.lists[1] = kept]
      OBVIOUS
    <3> QED BY <1>3, <3>1 DEF ReadLine
  <2>4. << >> \in Seq(Line)
    OBVIOUS
  <2>5. kept \in Seq(Line)
    <3>1. line \in Seq(Token)
      <4> DEFINE S == Seq(Token)
      <4>1. source \in Seq(S)
        BY <1>1
      <4> HIDE DEF S
      <4>2. source[pos] \in S
        BY <2>2, <4>1
      <4> QED BY <4>2 DEF S
    <3> HIDE DEF line
    <3>2. Uncommented(line) \in Seq(Token)
      <4> DEFINE C == {i \in 2 .. Len(line) : line[i].k = ";"}
                 c == CHOOSE i \in C : \A j \in C : i <= j
      <4>1. Len(line) \in Nat /\ C \in SUBSET (0 .. Len(line)) /\ \A i \in C : i \in 2 .. Len(line)
        <5>1. Len(line) \in Nat
          BY <3>1
        <5>2. \A i \in C : i \in 2 .. Len(line)
          OBVIOUS
        <5> HIDE DEF C
        <5> QED BY <5>1, <5>2
      <4>2. Uncommented(line) = IF C = {} THEN line ELSE SubSeq(line, 1, c - 1)
        BY DEF Uncommented
      <4> HIDE DEF C
      <4>3. CASE C # {}
        <5>1. c \in C
          BY <4>1, <4>3, Least
        <5> HIDE DEF c
        <5>2. c - 1 \in 1 .. Len(line)
          BY <4>1, <5>1
        <5>3. SubSeq(line, 1, c - 1) \in Seq(Token)
          BY <3>1, <5>2
        <5> QED BY <4>2, <4>3, <5>3
      <4> QED BY <3>1, <4>2, <4>3
    <3>3. [text |-> Uncommented(line), loc |-> pos] \in Line
      BY <1>1, <3>2 DEF Line
    <3> QED BY <1>2, <3>3
  <2> HIDE DEF kept
  <2>6. Typed(asm') /\ (Erred(asm) => Erred(asm'))
    BY <1>1, <2>1, <2>3, <2>4, <2>5
  <2>7. /\ phase' = phase /\ source' = source /\ ins' = ins /\ dest' = dest /\ stack' = stack /\ ret' = ret
        /\ made' = made /\ framed' \in BOOLEAN /\ pos' \in Nat \ {0}
    <3>1. pos' = Len(source) + 1 \/ pos' = pos + 1
      BY <1>3 DEF ReadLine
    <3>2. framed' = TRUE \/ framed' = framed
      BY <1>3 DEF ReadLine
    <3>3. pos' \in Nat \ {0}
      BY <1>1, <3>1
    <3> QED BY <1>3, <3>2, <3>3 DEF ReadLine, TInv
  <2> QED BY <1>1, <2>6, <2>7, NoCall DEF TInv
<1>4. CASE ReadDone
  <2> DEFINE p == IF asm.lists[1] = << >> THEN NoLine ELSE <<1, 1>>
  <2>1. p \in Place /\ (p = NoLine \/ At(asm.lists, p))
    <3>1. NoLine \in Place /\ <<1, 1>> \in Place
      BY DEF NoLine, Place
    <3>2. asm.lists[1] # << >> => 1 \in DOMAIN asm.lists[1]
      BY <1>2
    <3> QED BY <1>2, <3>1, <3>2 DEF At
  <2>2. asm' = [asm EXCEPT !.aline = p]
    BY <1>4 DEF ReadDone
  <2> HIDE DEF p
  <2>3. Stays(asm, asm') /\ asm'.aline = p
    BY <1>1, <2>1, <2>2, StaysBeside
  <2>4. /\ phase' = "expand" /\ source' = source /\ ins' = ins /\ dest' = dest /\ stack' = stack /\ ret' = ret
        /\ made' = made /\ framed' = framed /\ pos' = pos
    BY <1>4 DEF ReadDone
  <2> QED BY <1>1, <2>1, <2>3, <2>4, NoCall DEF TInv, Stays
<1> QED BY <1>3, <1>4 DEF Read

\* The first call on a line of the source.
LEMMA ExpandLineTyped ==
  ASSUME TInv, ExpandLine
  PROVE  TInv'
<1>1. phase = "expand" /\ At(asm.lists, asm.aline) /\ Typed(asm) /\ asm \in AsmType /\ ret = Running
  BY DEF TInv, ExpandLine, Typed
<1> DEFINE f == Frame("trav2", CurLine(asm).text, SNIL, "Op", asm.depth)
<1>2. CurLine(asm).text \in Seq(Token) /\ asm.depth \in Nat
  BY <1>1, LineAt, FieldsOf DEF CurLine
<1>3. f \in FrameType /\ f.pc = "trav2"
  <2>1. SNIL \in Returns
    BY ReturnsAre
  <2> DEFINE text == CurLine(asm).text
  <2>2. text \in Seq(Token)
    BY <1>2
  <2> HIDE DEF text
  <2>3. Frame("trav2", text, SNIL, "Op", asm.depth) \in FrameType
    BY <1>2, <2>1, <2>2 DEF Frame, FrameType, NoLine, Place, States
  <2> QED BY <2>3 DEF text, Frame
<1> HIDE DEF f
<1>4. /\ phase' = phase /\ source' = source /\ ins' = ins /\ dest' = << >> /\ stack' = <<f>> /\ ret' = ret
      /\ made' = made /\ framed' = framed /\ pos' = pos /\ asm' = asm
  BY DEF ExpandLine, f
<1>5. Stacked(stack', asm.lists)
  BY <1>3, <1>4, OneCall
<1>6. dest' \in Seq(Token)
  BY <1>4
<1> QED BY <1>1, <1>4, <1>5, <1>6 DEF TInv

LEMMA ExpandedLineTyped ==
  ASSUME TInv, ExpandedLine
  PROVE  TInv'
<1>1. /\ phase = "expand" /\ At(asm.lists, asm.aline) /\ Typed(asm) /\ asm \in AsmType /\ stack = << >>
      /\ dest \in Seq(Token)
  BY DEF TInv, ExpandedLine, Typed
<1>2. Reads(asm)
  BY <1>1 DEF Reads
<1> DEFINE m == CASE ret = SCOM -> AddLine(asm, dest)
                  [] ret = SROF -> Err(asm, "For")
                  [] OTHER      -> asm
           p == NextLine(m)
<1>3. Goes(asm, m)
  <2>1. "For" \in Errors
    BY DEF Errors
  <2> QED BY <1>1, <1>2, <2>1, AddLineGoes, ErrGoes, GoesNowhere
<1>4. asm' = [m EXCEPT !.aline = p]
  BY DEF ExpandedLine
<1> HIDE DEF m
<1>5. p \in Place /\ (p = NoLine \/ At(m.lists, p))
  <2>1. NoLine \in Place
    BY DEF NoLine, Place
  <2> QED BY <1>3, <2>1, NextOf DEF Goes
<1> HIDE DEF p
<1>6. Stays(m, asm') /\ asm'.aline = p
  BY <1>3, <1>4, <1>5, StaysBeside DEF Goes, Reads
<1>7. /\ phase' = phase /\ source' = source /\ ins' = ins /\ dest' = dest /\ stack' = stack /\ ret' = Running
      /\ made' = made /\ framed' = framed /\ pos' = pos
  BY DEF ExpandedLine
<1>8. Erred(asm) => Erred(asm')
  BY <1>3, <1>6 DEF Goes, On, Stays
<1> QED BY <1>1, <1>5, <1>6, <1>7, <1>8, NoCall DEF TInv, Stays

\* The rewritten lines become a list, read from before its first.
LEMMA CountedTyped ==
  ASSUME NEW m, Typed(m)
  PROVE  /\ Typed(Counted(m)) /\ (Erred(m) => Erred(Counted(m)))
         /\ Erred(Counted(m)) \/ m.line <= MaxLength
         /\ m.line \notin 1 .. MaxInstr => Erred(Counted(m)) \/ Misled(Counted(m))
         /\ m.line \in 1 .. MaxInstr =>
              /\ Counted(m).aline[1] \in DOMAIN Counted(m).lists /\ Counted(m).aline[2] = 0
              /\ Counted(m).lists[Counted(m).aline[1]] \in Seq(Line)
<1> DEFINE empty   == [m EXCEPT !.symtbl = << >>]
           dropped == IF m.symtbl = << >> THEN m ELSE ErrAt(empty, "Dlb", 0)
           checked == IF m.noassert THEN ErrAt(dropped, "Nas", 0) ELSE dropped
           limited == IF m.line > MaxLength THEN ErrAt(checked, "Lin", 0) ELSE checked
           ls      == Append(m.lists, m.out)
           p       == <<Len(m.lists) + 1, 0>>
           begun   == [limited EXCEPT !.line = 0, !.out = << >>, !.lists = Append(@, m.out),
                                      !.aline = <<Len(m.lists) + 1, 0>>]
<1>1. /\ m \in AsmType /\ m.lists \in Seq(Seq(Line)) /\ m.out \in Seq(Line) /\ m.line \in Nat
      /\ MaxInstr \in Nat
  BY FieldsOf, AssemblerAssumption DEF Typed
<1>2. "Dlb" \in Errors /\ "Nas" \in Errors /\ "Lin" \in Errors /\ "Exx" \in Errors /\ "Zln" \in Errors
      /\ 0 \in Nat
  BY DEF Errors
<1>3. Stays(m, dropped)
  <2>1. << >> \in Seq(Seq(Part))
    OBVIOUS
  <2>2. Stays(m, empty)
    BY <2>1, StaysBeside
  <2> HIDE DEF empty
  <2>3. Stays(empty, ErrAt(empty, "Dlb", 0))
    BY <1>2, <2>2, StaysBeside DEF Stays
  <2> QED BY <2>2, <2>3, StaysOn, StaysBeside
<1> HIDE DEF dropped
<1>4. Stays(m, checked)
  <2>1. Stays(dropped, ErrAt(dropped, "Nas", 0))
    BY <1>2, <1>3, StaysBeside DEF Stays
  <2> QED BY <1>3, <2>1, StaysOn
<1> HIDE DEF checked
<1>5. Stays(m, limited) /\ Stays(m, ErrAt(checked, "Exx", 0))
  <2>1. Stays(checked, ErrAt(checked, "Lin", 0)) /\ Stays(checked, ErrAt(checked, "Exx", 0))
    BY <1>2, <1>4, StaysBeside DEF Stays
  <2> QED BY <1>4, <2>1, StaysOn
<1> HIDE DEF limited
<1>6. Stays(m, ErrAt(limited, "Zln", 0))
  <2>1. Stays(limited, ErrAt(limited, "Zln", 0))
    BY <1>2, <1>5, StaysBeside DEF Stays
  <2> QED BY <1>5, <2>1, StaysOn
<1>7. /\ ls \in Seq(Seq(Line)) /\ ls # << >> /\ Len(m.lists) + 1 \in DOMAIN ls
      /\ ls[Len(m.lists) + 1] = m.out /\ Len(m.lists) \in Nat
      /\ \A k \in DOMAIN m.lists : k \in DOMAIN ls /\ ls[k] = m.lists[k]
  <2> DEFINE S == Seq(Line)
  <2>1. m.lists \in Seq(S) /\ m.out \in S
    BY <1>1
  <2> HIDE DEF S
  <2>2. ls \in Seq(S) /\ Len(m.lists) + 1 \in DOMAIN ls /\ ls[Len(m.lists) + 1] = m.out /\ Len(m.lists) \in Nat
    BY <2>1
  <2>3. \A k \in DOMAIN m.lists : k \in DOMAIN ls /\ ls[k] = m.lists[k]
    BY <2>1
  <2>4. ls # << >>
    BY <2>2
  <2> QED BY <2>2, <2>3, <2>4 DEF S
<1>8. p \in Place /\ p[1] = Len(m.lists) + 1 /\ p[2] = 0
  BY <1>7 DEF Place
<1>9. limited \in AsmType /\ limited.lists = m.lists /\ Typed(limited)
  BY <1>5 DEF Stays, Typed
<1>10. begun = [limited EXCEPT !.line = 0, !.out = << >>, !.lists = ls, !.aline = p]
  BY <1>9
<1> HIDE DEF ls, p, begun
<1>11. /\ begun \in AsmType /\ begun.lists = ls /\ begun.aline = p /\ begun.refs = limited.refs
       /\ begun.counters = limited.counters /\ begun.diags = limited.diags
  <2>1. << >> \in Seq(Line)
    OBVIOUS
  <2> QED BY <1>7, <1>8, <1>9, <1>10, <2>1 DEF AsmType
<1>12. Texts(begun)
  <2> SUFFICES ASSUME NEW r \in DOMAIN limited.refs, limited.refs[r].kind = "text"
               PROVE  limited.refs[r].v # 1 /\ At(ls, <<limited.refs[r].v, 1>>)
    BY <1>11 DEF Texts
  <2>1. limited.refs[r].v # 1 /\ At(m.lists, <<limited.refs[r].v, 1>>)
    BY <1>9 DEF Typed, Texts
  <2> QED BY <1>7, <2>1 DEF At
<1>13. Counts(begun)
  BY <1>9, <1>11 DEF Typed, Counts
<1>14. Typed(begun) /\ (Erred(m) => Erred(begun))
  BY <1>5, <1>7, <1>11, <1>12, <1>13 DEF Typed, Stays, Erred
<1>15. /\ m.line > MaxInstr => Counted(m) = ErrAt(checked, "Exx", 0)
       /\ m.line = 0 /\ ~(m.line > MaxInstr) => Counted(m) = ErrAt(limited, "Zln", 0)
       /\ m.line # 0 /\ ~(m.line > MaxInstr) => Counted(m) = begun
  <2>1. Counted(m) = CASE m.line > MaxInstr -> ErrAt(checked, "Exx", 0)
                       [] m.line = 0        -> ErrAt(limited, "Zln", 0)
                       [] OTHER -> begun
    BY DEF Counted, begun, limited, checked, dropped
  <2>2. m.line = 0 => ~(m.line > MaxInstr)
    BY <1>1
  <2> QED BY <2>1, <2>2
<1>16. Typed(Counted(m)) /\ (Erred(m) => Erred(Counted(m)))
  BY <1>5, <1>6, <1>14, <1>15 DEF Stays
<1>17. ASSUME m.line \in 1 .. MaxInstr
       PROVE  /\ Counted(m).aline[1] \in DOMAIN Counted(m).lists /\ Counted(m).aline[2] = 0
              /\ Counted(m).lists[Counted(m).aline[1]] \in Seq(Line)
  <2>1. Counted(m) = begun
    BY <1>1, <1>15, <1>17
  <2> QED BY <1>1, <1>7, <1>8, <1>11, <2>1
<1>18. /\ Erred(ErrAt(checked, "Exx", 0))
       /\ m.line > MaxLength => Erred(limited)
  <2>1. "Exx" \notin Warnings /\ "Lin" \notin Warnings /\ checked \in AsmType
    BY <1>4 DEF Warnings, Stays, Typed
  <2>2. Erred(ErrAt(checked, "Exx", 0)) /\ Erred(ErrAt(checked, "Lin", 0))
    BY <1>2, <2>1, Reported
  <2> QED BY <2>2 DEF limited
<1>19. /\ Misled(ErrAt(limited, "Zln", 0))
       /\ Erred(limited) => Erred(ErrAt(limited, "Zln", 0)) /\ Erred(begun)
  <2>1. Erred(limited) => Erred(begun)
    BY <1>11 DEF Erred
  <2>2. Erred(limited) => Erred(ErrAt(limited, "Zln", 0))
    BY <1>2, <1>9, Reported
  <2> DEFINE M == ErrAt(limited, "Zln", 0)
  <2>3. \E d \in DOMAIN M.diags : M.diags[d].e = "Zln"
    <3>1. limited \in AsmType
      BY <1>9
    <3> QED BY <3>1, ReportedIs
  <2>4. Misled(ErrAt(limited, "Zln", 0))
    BY <2>3 DEF Misled
  <2> QED BY <2>1, <2>2, <2>4
<1>20. Erred(Counted(m)) \/ m.line <= MaxLength
  BY <1>1, <1>15, <1>18, <1>19, MaxLengthAssumption
<1>21. m.line \notin 1 .. MaxInstr => Erred(Counted(m)) \/ Misled(Counted(m))
  BY <1>1, <1>15, <1>18, <1>19
<1> QED BY <1>16, <1>17, <1>20, <1>21

LEMMA ExpandDoneTyped ==
  ASSUME TInv, ExpandDone
  PROVE  TInv'
<1>1. /\ Typed(asm) /\ asm \in AsmType /\ asm.line \in Nat /\ stack = << >> /\ ret = Running
  BY FieldsOf DEF TInv, ExpandDone, Typed
<1>2. /\ source' = source /\ ins' = ins /\ dest' = dest /\ stack' = stack /\ ret' = ret
      /\ framed' = framed /\ pos' = pos /\ asm' = Counted(asm)
      /\ phase' = IF asm.line \in 1 .. MaxInstr THEN "encode" ELSE "done"
      /\ made' = [made EXCEPT !.count = asm.line]
  BY DEF ExpandDone
<1>3. /\ Typed(asm') /\ (Erred(asm) => Erred(asm'))
      /\ phase' = "encode" =>
           /\ asm'.aline[1] \in DOMAIN asm'.lists /\ asm'.aline[2] = 0
           /\ asm'.lists[asm'.aline[1]] \in Seq(Line)
  BY <1>1, <1>2, CountedTyped
<1>4. made' \in MadeType /\ made'.count = asm.line
  BY <1>1, <1>2 DEF TInv, MadeType
<1>5. phase' = "encode" => asm'.aline[2] \in 0 .. Len(asm'.lists[asm'.aline[1]])
  BY <1>3
<1>6. phase' \in {"encode", "done"}
  BY <1>2
<1>7. /\ Erred(asm') \/ made'.count <= MaxLength
      /\ phase' = "done" => Erred(asm') \/ Misled(asm')
  BY <1>1, <1>2, <1>4, CountedTyped
<1> QED BY <1>1, <1>2, <1>3, <1>4, <1>5, <1>6, <1>7, NoCall DEF TInv

-----------------------------------------------------------------------------
\* The automaton.

\* The modes a keyword stands for.
LEMMA ModesOf == \A t \in DOMAIN ModeOf : ModeOf[t] \in Modes
<1> TAKE t \in DOMAIN ModeOf
<1>1. t \in {"#", "$", "@", "<", ">", "*", "{", "}"}
  BY DEF ModeOf
<1> QED BY <1>1 DEF ModeOf, Modes

\* A call of the automaton let in.
LEMMA Inside ==
  ASSUME TInv, NEW states, Automaton(states)
  PROVE  /\ stack # << >> /\ Aside /\ dest' = dest /\ dest \in Seq(Token) /\ made' = made /\ Makes
         /\ Goes(asm, Entered) /\ Reads(Entered) /\ Reads(asm) /\ asm \in AsmType /\ Top \in FrameType
         /\ Top.pc = "automaton" /\ ins \in InsType /\ (ins.opcode = "none" => Erred(asm))
         /\ Here \in InsType /\ Here.opcode = ins.opcode
<1>1. stack # << >> /\ Aside /\ dest' = dest /\ made' = made /\ Top.pc = "automaton"
  BY DEF Automaton, Calling, Aside
<1>2. Reads(asm) /\ asm \in AsmType /\ Top \in FrameType
  BY <1>1, CallReads
<1>3. Goes(asm, Entered) /\ Reads(Entered)
  BY <1>2, SmallGoes DEF Entered, Goes
<1>4. dest \in Seq(Token) /\ ins \in InsType /\ (ins.opcode = "none" => Erred(asm)) /\ Makes
  BY <1>1 DEF TInv, Makes
<1>5. Here \in InsType /\ Here.opcode = ins.opcode
  <2>1. Top.st \in States
    BY <1>2 DEF FrameType
  <2> DEFINE b == ins.filled /\ Top.st \in Collects
  <2>2. b \in BOOLEAN /\ Here = [ins EXCEPT !.last = Top.st, !.filled = b]
    BY DEF Here
  <2> HIDE DEF b
  <2> QED BY <1>4, <2>1, <2>2 DEF InsType
<1> QED BY <1>1, <1>2, <1>3, <1>4, <1>5

LEMMA GoToTyped ==
  ASSUME TInv, NEW states, Automaton(states), NEW st \in States, NEW i \in InsType,
         i.opcode = "none" => Erred(asm), NEW buf \in Seq(Token), GoTo(st, i, buf)
  PROVE  TInv'
<1> DEFINE f == [Top EXCEPT !.buf = buf, !.st = st]
<1>1. /\ stack # << >> /\ Aside /\ dest' = dest /\ dest \in Seq(Token) /\ made' = made /\ Makes
      /\ Goes(asm, Entered) /\ Top \in FrameType /\ Top.pc = "automaton"
  BY Inside
<1>2. f \in FrameType /\ f.pc = "automaton"
  BY <1>1 DEF FrameType
<1>3. ins' = i /\ Become(Entered, f)
  BY DEF GoTo
<1> HIDE DEF f
<1>4. Placed(f, Entered.lists)
  BY <1>2 DEF Placed, Repeats
<1>5. ins'.opcode = "none" => Erred(Entered)
  BY <1>1, <1>3 DEF Goes, On
<1> QED BY <1>1, <1>2, <1>3, <1>4, <1>5, BecomeTyped

LEMMA StopTyped ==
  ASSUME TInv, NEW states, Automaton(states), NEW m, m = Entered \/ (\E e \in Errors : m = Err(Entered, e)),
         Return(m, SNIL), ins' \in InsType, ins'.opcode = "none" => Erred(m)
  PROVE  TInv'
<1>1. /\ stack # << >> /\ Aside /\ dest' = dest /\ dest \in Seq(Token) /\ made' = made /\ Makes
      /\ Goes(asm, Entered) /\ Reads(Entered)
  BY Inside
<1>2. Goes(asm, m)
  BY <1>1, ErrGoes, GoesOn
<1>3. SNIL \in Returns
  BY ReturnsAre
<1> QED BY <1>1, <1>2, <1>3, ReturnTyped

LEMMA StopHere ==
  ASSUME TInv, NEW states, Automaton(states), NEW m, m = Entered \/ (\E e \in Errors : m = Err(Entered, e)),
         Stop(m)
  PROVE  TInv'
<1>1. /\ Goes(asm, Entered) /\ Reads(Entered) /\ (ins.opcode = "none" => Erred(asm))
      /\ Here \in InsType /\ Here.opcode = ins.opcode
  BY Inside
<1>2. Erred(asm) => Erred(m)
  <2>1. Goes(asm, m)
    BY <1>1, ErrGoes, GoesOn
  <2> QED BY <2>1 DEF Goes, On
<1>3. ins' = Here /\ Return(m, SNIL)
  BY DEF Stop
<1> HIDE DEF Automaton, TInv
<1>4. ins' \in InsType /\ (ins'.opcode = "none" => Erred(m))
  BY <1>1, <1>2, <1>3
<1> QED BY <1>3, <1>4, StopTyped

LEMMA CollectedTyped ==
  ASSUME TInv, NEW states, Automaton(states), Tok # "end", Collected(Entered, Top.buf[1])
  PROVE  TInv'
<1> DEFINE t == Top.buf[1]
           fits == Fits(IF Top.st = "Expr" THEN ins.b ELSE ins.a, <<t>>)
           m == IF fits THEN Entered ELSE Err(Entered, "Buf")
           f == [Top EXCEPT !.buf = Rest]
           a == IF Top.st = "ExpFs" /\ fits THEN Append(ins.a, t) ELSE ins.a
           b == IF Top.st = "Expr"  /\ fits THEN Append(ins.b, t) ELSE ins.b
           i == [Here EXCEPT !.filled = TRUE, !.a = a, !.b = b]
<1>1. /\ stack # << >> /\ Aside /\ dest' = dest /\ dest \in Seq(Token) /\ made' = made /\ Makes
      /\ Goes(asm, Entered) /\ Reads(Entered) /\ Top \in FrameType /\ Top.pc = "automaton"
      /\ ins \in InsType /\ (ins.opcode = "none" => Erred(asm)) /\ Here \in InsType /\ Here.opcode = ins.opcode
  BY Inside
<1>2. t \in Token /\ Rest \in Seq(Token)
  BY <1>1, LineOf
<1>3. Goes(asm, m)
  <2>1. "Buf" \in Errors
    BY DEF Errors
  <2> QED BY <1>1, <2>1, ErrGoes, GoesOn
<1> HIDE DEF t
<1>4. a \in Seq(Token) /\ b \in Seq(Token)
  <2>1. ins.a \in Seq(Token) /\ ins.b \in Seq(Token)
    BY <1>1 DEF InsType
  <2>2. Append(ins.a, t) \in Seq(Token) /\ Append(ins.b, t) \in Seq(Token)
    BY <1>2, <2>1
  <2> QED BY <2>1, <2>2
<1>5. Here.a = ins.a /\ Here.b = ins.b
  BY <1>1 DEF Here, InsType
<1>6. Become(m, f)
  BY DEF Collected, t
<1>7. ins' = i
  <2>1. ins' = [Here EXCEPT !.filled = TRUE,
                  !.a = IF Top.st = "ExpFs" /\ fits THEN Append(@, t) ELSE @,
                  !.b = IF Top.st = "Expr"  /\ fits THEN Append(@, t) ELSE @]
    BY DEF Collected, t
  <2> HIDE DEF fits
  <2> QED BY <1>1, <1>5, <2>1 DEF InsType
<1> HIDE DEF a, b, m, fits
<1>8. i \in InsType /\ i.opcode = ins.opcode
  BY <1>1, <1>4 DEF InsType
<1>9. f \in FrameType /\ f.pc = "automaton"
  BY <1>1, <1>2 DEF FrameType
<1> HIDE DEF f, i
<1>10. Placed(f, m.lists)
  BY <1>9 DEF Placed, Repeats
<1>11. ins' \in InsType /\ (ins'.opcode = "none" => Erred(m))
  BY <1>1, <1>3, <1>7, <1>8 DEF Goes, On
<1> QED BY <1>1, <1>3, <1>6, <1>9, <1>10, <1>11, BecomeTyped

LEMMA AutomatonTyped ==
  ASSUME TInv, AutoOver \/ AutoOp \/ AutoModifier \/ AutoStart \/ AutoCollect \/ AutoUnknown
  PROVE  TInv'
<1>1. "Exp" \in Errors /\ "App" \in Errors /\ "Snf" \in Errors /\ "Buf" \in Errors /\ "Exp" \notin Warnings
  BY DEF Errors, Warnings
<1>2. /\ "ModAddrExp" \in States /\ "Expr" \in States /\ "Modf" \in States /\ "AddrExpA" \in States
      /\ "AddrExpB" \in States /\ \A st \in States : Collecting(st) \in States
  BY DEF States, Starts, Collects, Collecting
<1>3. ASSUME NEW states, Automaton(states)
      PROVE  /\ Tok # "end" => Rest \in Seq(Token)
             /\ Top.buf \in Seq(Token) /\ Top.st \in States
             /\ Goes(asm, Entered) /\ Reads(Entered) /\ ins \in InsType /\ (ins.opcode = "none" => Erred(asm))
             /\ Here \in InsType /\ Here.opcode = ins.opcode
  <2>1. stack # << >> /\ Top \in FrameType
    BY <1>3, Inside
  <2> QED BY <1>3, <2>1, LineOf, Inside DEF FrameType
<1>4. CASE AutoOver
  <2>1. PICK states : Automaton(states) /\ Stop(Entered)
    BY <1>4 DEF AutoOver
  <2> QED BY <2>1, StopHere
<1>5. CASE AutoOp
  <2>1. Automaton({"Op"})
    BY <1>5 DEF AutoOp
  <2>2. /\ Tok # "end" => Rest \in Seq(Token)
        /\ Goes(asm, Entered) /\ Reads(Entered)
        /\ Here \in InsType /\ (Here.opcode = "none" => Erred(asm))
    BY <1>3, <2>1
  <2>3. CASE Tok \in Opcodes \cup PseudoOps /\ \E st \in {"ModAddrExp", "Expr"} : GoTo(st, [Here EXCEPT !.opcode = Tok], Rest)
    <3>1. PICK st \in {"ModAddrExp", "Expr"} : GoTo(st, [Here EXCEPT !.opcode = Tok], Rest)
      BY <2>3
    <3>2. Tok # "end" /\ Tok # "none" /\ st \in States
      BY <1>2, <2>3 DEF Opcodes, PseudoOps
    <3> DEFINE i == [Here EXCEPT !.opcode = Tok]
    <3>3. i \in InsType /\ i.opcode = Tok
      BY <2>2, <2>3 DEF InsType
    <3> HIDE DEF i
    <3>4. GoTo(st, i, Rest) /\ Rest \in Seq(Token)
      BY <2>2, <3>1, <3>2 DEF i
    <3> QED BY <2>1, <3>2, <3>3, <3>4, GoToTyped
  <2>4. CASE /\ Return(Err(Entered, "Exp"), SNIL)
             /\ ins' = IF Tok \in Words THEN [Here EXCEPT !.opcode = "none"] ELSE Here
    <3>1. [Here EXCEPT !.opcode = "none"] \in InsType
      BY <2>2 DEF InsType
    <3>2. ins' \in InsType
      BY <2>2, <2>4, <3>1
    <3>3. Erred(Err(Entered, "Exp"))
      BY <1>1, <2>2, ErrGoes
    <3> QED BY <1>1, <2>1, <2>4, <3>2, <3>3, StopTyped
  <2> QED BY <1>5, <2>3, <2>4 DEF AutoOp
<1>6. CASE AutoModifier
  <2>1. CASE Automaton({"ModAddrExp"}) /\ Tok = "." /\ GoTo("Modf", Here, Rest)
    BY <1>2, <1>3, <2>1, GoToTyped
  <2>2. CASE Automaton({"Modf"}) /\ Tok # "end" /\ Stop(Err(Entered, "Exp"))
    BY <1>1, <2>2, StopHere
  <2>3. CASE /\ Automaton({"Modf"}) /\ Tok # "end"
             /\ \E mod \in Modifiers : GoTo("AddrExpA", [Here EXCEPT !.modifier = mod], Rest)
    <3>1. PICK mod \in Modifiers : GoTo("AddrExpA", [Here EXCEPT !.modifier = mod], Rest)
      BY <2>3
    <3> DEFINE i == [Here EXCEPT !.modifier = mod]
    <3>2. Here \in InsType /\ (Here.opcode = "none" => Erred(asm)) /\ Rest \in Seq(Token)
      BY <1>3, <2>3
    <3>3. i \in InsType /\ i.opcode = Here.opcode
      BY <3>2 DEF InsType
    <3> HIDE DEF i
    <3>4. GoTo("AddrExpA", i, Rest)
      BY <3>1 DEF i
    <3> QED BY <1>2, <2>3, <3>2, <3>3, <3>4, GoToTyped
  <2> QED BY <1>6, <2>1, <2>2, <2>3 DEF AutoModifier
<1>7. CASE AutoStart
  <2>1. Automaton(Starts)
    BY <1>7 DEF AutoStart
  <2>2. /\ Tok # "end" => Rest \in Seq(Token)
        /\ Top.buf \in Seq(Token) /\ Top.st \in States /\ Collecting(Top.st) \in States
        /\ Here \in InsType /\ (Here.opcode = "none" => Erred(asm))
    BY <1>2, <1>3, <2>1
  <2>3. CASE /\ Tok \in DOMAIN ModeOf
             /\ GoTo(Collecting(Top.st),
                     IF Top.st = "AddrExpB" THEN [Here EXCEPT !.bm = ModeOf[Tok]]
                     ELSE [Here EXCEPT !.am = ModeOf[Tok]], Rest)
    <3>1. ModeOf[Tok] \in Modes /\ Tok # "end"
      BY <2>3, ModesOf DEF ModeOf
    <3> DEFINE mode == ModeOf[Tok]
               i == IF Top.st = "AddrExpB" THEN [Here EXCEPT !.bm = mode] ELSE [Here EXCEPT !.am = mode]
    <3>2. mode \in Modes
      BY <3>1
    <3> HIDE DEF mode
    <3>3. i \in InsType /\ i.opcode = Here.opcode
      BY <2>2, <3>2 DEF InsType
    <3> HIDE DEF i
    <3>4. GoTo(Collecting(Top.st), i, Rest)
      BY <2>3 DEF i, mode
    <3> QED BY <2>1, <2>2, <3>1, <3>3, <3>4, GoToTyped
  <2>4. CASE GoTo(Collecting(Top.st), Here, Top.buf)
    BY <2>1, <2>2, <2>4, GoToTyped
  <2>5. CASE Stop(Err(Entered, IF Top.st = "ModAddrExp" THEN "App" ELSE "Exp"))
    BY <1>1, <2>1, <2>5, StopHere
  <2> QED BY <1>7, <2>3, <2>4, <2>5 DEF AutoStart
<1>8. CASE AutoCollect
  <2>1. Automaton(Collects)
    BY <1>8 DEF AutoCollect
  <2>2. CASE Tok \in ExprKinds \cup {"<", ">", "*"} /\ Collected(Entered, Top.buf[1])
    <3>1. Tok # "end"
      BY <2>2 DEF ExprKinds
    <3> QED BY <2>1, <2>2, <3>1, CollectedTyped
  <2>3. CASE Tok = "," /\ GoTo("AddrExpB", Here, Rest)
    BY <1>2, <1>3, <2>1, <2>3, GoToTyped
  <2>4. CASE Stop(Err(Entered, "App"))
    BY <1>1, <2>1, <2>4, StopHere
  <2> QED BY <1>8, <2>2, <2>3, <2>4 DEF AutoCollect
<1>9. CASE AutoUnknown
  <2>1. Automaton(Starts \cup Collects) /\ Tok \in Words
    BY <1>9 DEF AutoUnknown
  <2>2. Tok # "end"
    BY <2>1 DEF Words, Blocks, Opcodes, PseudoOps
  <2>3. \/ Stop(Err(Entered, "Snf")) \/ Stop(Err(Entered, "Buf"))
        \/ GoTo(Collecting(Top.st), Here, Top.buf)
        \/ Collected(Entered, Top.buf[1])
    BY <1>9 DEF AutoUnknown
  <2>4. CASE Stop(Err(Entered, "Snf")) \/ Stop(Err(Entered, "Buf"))
    BY <1>1, <2>1, <2>4, StopHere
  <2>5. CASE GoTo(Collecting(Top.st), Here, Top.buf)
    BY <1>2, <1>3, <2>1, <2>5, GoToTyped
  <2>6. CASE Collected(Entered, Top.buf[1])
    BY <2>1, <2>2, <2>6, CollectedTyped
  <2> QED BY <2>3, <2>4, <2>5, <2>6
<1> QED BY <1>4, <1>5, <1>6, <1>7, <1>8, <1>9

\* A symbol that is replaced in pass 2.
LEMMA AutoSymbolTyped ==
  ASSUME TInv, AutoSymbol
  PROVE  TInv'
<1>1. Automaton(Starts \cup Collects) /\ Symbol # 0 /\ ins' = Here
  BY DEF AutoSymbol
<1>2. /\ stack # << >> /\ Aside /\ dest' = dest /\ dest \in Seq(Token) /\ made' = made /\ Makes
      /\ Goes(asm, Entered) /\ Reads(Entered) /\ Reads(asm) /\ asm \in AsmType /\ Top \in FrameType
      /\ Top.pc = "automaton" /\ ins \in InsType /\ (ins.opcode = "none" => Erred(asm))
      /\ Here \in InsType /\ Here.opcode = ins.opcode
  BY <1>1, Inside
<1>3. Tok = "name" /\ Symbol \in DOMAIN asm.refs
  BY <1>1, <1>2, LookupOf DEF Symbol
<1>4. Rest \in Seq(Token) /\ asm.refs[Symbol] \in Ref /\ Symbol \in Nat /\ asm.line \in Nat /\ asm.depth \in Nat
  BY <1>2, <1>3, LineOf, FieldsOf
<1> DEFINE ref  == asm.refs[Symbol]
           abs  == Top.st = "Expr" /\ ins.opcode \notin Opcodes
           text == IF ref.kind = "text" THEN asm.lists[ref.v][1].text
                   ELSE Shown(IF abs THEN ref.v ELSE ref.v - asm.line)
           g    == Frame("automaton", text, SNIL, Top.st, asm.depth + 1)
           f    == [Top EXCEPT !.pc = "symbol", !.buf = Rest, !.ref = Symbol]
           n    == [Entered EXCEPT !.refs[Symbol].visit = TRUE]
<1>5. \/ Return(Err(Entered, "Rec"), SNIL)
      \/ asm' = n /\ ret' = Running /\ stack' = <<g, f>> \o Tail(stack)
  BY DEF AutoSymbol
<1>6. CASE Return(Err(Entered, "Rec"), SNIL)
  <2>1. "Rec" \in Errors
    BY DEF Errors
  <2> QED BY <1>1, <1>6, <2>1, StopHere DEF Stop
<1>7. CASE asm' = n /\ ret' = Running /\ stack' = <<g, f>> \o Tail(stack)
  <2>1. text \in Seq(Token)
    <3>1. CASE ref.kind = "text"
      <4> DEFINE p == <<ref.v, 1>>
      <4>1. p \in Place /\ At(asm.lists, p)
        BY <1>2, <1>3, <1>4, <3>1 DEF Reads, Typed, Texts, Ref, Place
      <4>2. p[1] = ref.v /\ p[2] = 1
        OBVIOUS
      <4> HIDE DEF p, ref
      <4>3. asm.lists[p[1]][p[2]].text \in Seq(Token)
        BY <1>2, <4>1, LineAt
      <4> QED BY <3>1, <4>2, <4>3
    <3>2. CASE ref.kind # "text"
      <4>1. ref.v \in Int /\ ref.v - asm.line \in Int
        BY <1>4 DEF Ref
      <4> DEFINE v == IF abs THEN ref.v ELSE ref.v - asm.line
      <4>2. v \in Int
        BY <4>1
      <4>3. Shown(v) \in Seq(Token)
        <5> HIDE DEF v
        <5> QED BY <4>2, Written
      <4> QED BY <3>2, <4>3
    <3> QED BY <3>1, <3>2
  <2> HIDE DEF text
  <2>2. g \in FrameType /\ g.pc = "automaton"
    <3>1. SNIL \in Returns /\ Top.st \in States /\ asm.depth + 1 \in Nat
      BY <1>2, <1>4, ReturnsAre DEF FrameType
    <3> QED BY <2>1, <3>1 DEF Frame, FrameType, NoLine, Place
  <2>3. f \in FrameType /\ f.pc = "symbol"
    BY <1>2, <1>4 DEF FrameType
  <2> HIDE DEF g, f
  <2>4. Entered.refs = asm.refs
    BY <1>2 DEF Entered, AsmType
  <2>5. Goes(Entered, n)
    BY <1>2, <1>3, <2>4, MarkGoes
  <2>6. Goes(asm, asm')
    BY <1>2, <1>7, <2>5, GoesOn
  <2>7. Placed(f, asm'.lists) /\ Placed(g, asm'.lists)
    BY <2>2, <2>3 DEF Placed, Repeats
  <2>8. ins' \in InsType /\ (ins'.opcode = "none" => Erred(asm'))
    BY <1>1, <1>2, <2>6 DEF Goes, On
  <2> QED BY <1>2, <1>7, <2>2, <2>3, <2>6, <2>7, <2>8, PushTyped
<1> QED BY <1>5, <1>6, <1>7

LEMMA SymbolTyped ==
  ASSUME TInv, CInv, SymbolDone
  PROVE  TInv'
<1>1. /\ stack # << >> /\ Aside /\ ins' = ins /\ made' = made /\ dest' = dest /\ Top.pc = "symbol"
  BY DEF SymbolDone, Resuming, Aside
<1>2. /\ Reads(asm) /\ asm \in AsmType /\ Top \in FrameType /\ ins \in InsType /\ dest \in Seq(Token)
  BY <1>1, CallReads DEF TInv
<1>3. Rewrites
  BY <1>1, <1>2 DEF Rewrites
<1> DEFINE k == Top.ref
           m == [asm EXCEPT !.refs[k].visit = FALSE]
           st == IF Top.st = "Expr" THEN "Expr" ELSE ins.last
           f == [Top EXCEPT !.pc = "automaton", !.st = st]
<1>4. Become(m, f)
  BY <1>2 DEF SymbolDone, FrameType
<1>5. k \in DOMAIN asm.refs
  BY <1>1, AboutOf DEF Replaces
<1>6. Goes(asm, m)
  BY <1>2, <1>5, MarkGoes
<1>7. st \in States
  BY <1>2 DEF InsType, States, Collects
<1> HIDE DEF st
<1>8. f \in FrameType /\ f.pc = "automaton"
  BY <1>2, <1>7 DEF FrameType
<1> HIDE DEF m, f
<1>9. Placed(f, m.lists)
  BY <1>8 DEF Placed, Repeats
<1> QED BY <1>1, <1>3, <1>4, <1>6, <1>8, <1>9, BecomeRewrites

LEMMA TooDeepTyped ==
  ASSUME TInv, TooDeep
  PROVE  TInv'
<1>1. /\ stack # << >> /\ Aside /\ ins' = ins /\ made' = made /\ dest' = dest
      /\ Return(Halt(asm, "Deep"), SERR)
  BY DEF TooDeep, Calling, Aside
<1>2. Reads(asm) /\ dest \in Seq(Token)
  BY <1>1, CallReads DEF TInv
<1>3. Goes(asm, Halt(asm, "Deep"))
  <2>1. "Deep" \in Errors
    BY DEF Errors
  <2> QED BY <1>2, <2>1, HaltGoes
<1>4. Rewrites /\ SERR \in Returns
  BY <1>1, <1>2, ReturnsAre DEF Rewrites
<1> QED BY <1>1, <1>3, <1>4, ReturnRewrites

\* encode.
LEMMA EncodeLineTyped ==
  ASSUME TInv, EncodeLine
  PROVE  TInv'
<1>1. /\ phase = "encode" /\ Typed(asm) /\ asm \in AsmType /\ ret = Running /\ ins \in InsType
      /\ asm.aline[1] \in DOMAIN asm.lists /\ asm.aline[2] \in 0 .. Len(asm.lists[asm.aline[1]])
      /\ NextLine(asm) # NoLine /\ (ins.opcode = "none" => Erred(asm))
      /\ Erred(asm) \/ made.count <= MaxLength
  BY DEF TInv, EncodeLine, Typed
<1> DEFINE p == <<asm.aline[1], asm.aline[2] + 1>>
           n == [asm EXCEPT !.lineErr = FALSE]
<1>2. NextLine(asm) = p /\ asm.aline[2] < Len(asm.lists[asm.aline[1]])
  BY <1>1 DEF NextLine
<1>3. p \in Place /\ At(asm.lists, p)
  <2>1. asm.aline \in Place
    BY <1>1, FieldsOf
  <2>2. asm.lists[asm.aline[1]] \in Seq(Line)
    <3> DEFINE S == Seq(Line)
    <3>1. asm.lists \in Seq(S)
      BY <1>1, FieldsOf
    <3> HIDE DEF S
    <3>2. asm.lists[asm.aline[1]] \in S
      BY <1>1, <3>1
    <3> QED BY <3>2 DEF S
  <2>3. asm.aline[2] + 1 \in DOMAIN asm.lists[asm.aline[1]]
    BY <1>1, <1>2, <2>1, <2>2
  <2> QED BY <1>1, <2>1, <2>3 DEF At, Place
<1> HIDE DEF p
<1>4. /\ phase' = phase /\ source' = source /\ dest' = dest /\ ret' = ret
      /\ made' = made /\ framed' = framed /\ pos' = pos /\ ins' = NewLine(ins)
      /\ stack' = <<Frame("automaton", CurLine(asm').text, SNIL, "Op", asm.depth)>>
      /\ asm' = [asm EXCEPT !.lineErr = FALSE, !.aline = p]
  BY <1>2 DEF EncodeLine
<1>5. Stays(asm, n)
  <2>1. /\ n \in AsmType /\ n.lists = asm.lists /\ n.refs = asm.refs /\ n.counters = asm.counters
        /\ n.diags = asm.diags
    BY <1>1 DEF AsmType
  <2> HIDE DEF n
  <2> QED BY <1>1, <2>1 DEF Stays, Typed, Texts, Counts, Erred
<1>6. asm' = [n EXCEPT !.aline = p]
  BY <1>1, <1>4 DEF AsmType
<1> HIDE DEF n
<1>7. Stays(n, asm') /\ asm'.aline = p
  BY <1>3, <1>5, <1>6, StaysBeside DEF Stays
<1>8. /\ Typed(asm') /\ asm' \in AsmType /\ asm'.lists = asm.lists /\ At(asm'.lists, asm'.aline)
      /\ (Erred(asm) => Erred(asm'))
  BY <1>3, <1>5, <1>7 DEF Stays, Typed
<1>9. CurLine(asm').text \in Seq(Token) /\ asm.depth \in Nat /\ p[1] \in DOMAIN asm'.lists
      /\ p[2] \in 0 .. Len(asm'.lists[p[1]])
  BY <1>1, <1>3, <1>7, <1>8, LineAt, FieldsOf DEF CurLine
<1> DEFINE text == CurLine(asm').text
           f == Frame("automaton", text, SNIL, "Op", asm.depth)
<1>10. f \in FrameType /\ f.pc = "automaton"
  <2>1. SNIL \in Returns /\ text \in Seq(Token)
    BY <1>9, ReturnsAre
  <2> HIDE DEF text
  <2> QED BY <1>9, <2>1 DEF Frame, FrameType, NoLine, Place, States
<1>11. stack' = <<f>>
  BY <1>4
<1> HIDE DEF f
<1>12. Stacked(stack', asm'.lists)
  BY <1>10, <1>11, OneCall
<1>13. ins' \in InsType /\ ins'.opcode = ins.opcode
  <2>1. << >> \in Seq(Token) /\ "Direct" \in Modes
    BY DEF Modes
  <2> QED BY <1>1, <1>4, <2>1 DEF NewLine, InsType
<1> HIDE DEF text
<1>14. /\ asm'.aline[1] \in DOMAIN asm'.lists
       /\ asm'.aline[2] \in 0 .. Len(asm'.lists[asm'.aline[1]])
  BY <1>7, <1>9
<1>15. ins'.opcode = "none" => Erred(asm')
  BY <1>1, <1>8, <1>13
<1> QED BY <1>1, <1>4, <1>8, <1>12, <1>13, <1>14, <1>15 DEF TInv

\* What is put in for operands that are left out.
LEMMA ShelledTypedOK ==
  ASSUME NEW i \in InsType
  PROVE  /\ Shelled(i) \in InsType /\ Shelled(i).opcode = i.opcode
         /\ OrZero(i.a) \in Seq(Token) /\ OrZero(i.b) \in Seq(Token)
<1> DEFINE z == <<Num(0)>>
<1>1. z \in Seq(Token)
  BY Written
<1>2. "Immediate" \in Modes /\ "Direct" \in Modes
  BY DEF Modes
<1> HIDE DEF z
<1>3. /\ [i EXCEPT !.bm = i.am, !.b = i.a, !.am = "Immediate", !.a = z] \in InsType
      /\ [i EXCEPT !.bm = "Direct", !.b = z] \in InsType
      /\ [i EXCEPT !.bm = i.am, !.b = i.a, !.am = "Immediate", !.a = z].opcode = i.opcode
      /\ [i EXCEPT !.bm = "Direct", !.b = z].opcode = i.opcode
      /\ i.a \in Seq(Token) /\ i.b \in Seq(Token)
  BY <1>1, <1>2 DEF InsType
<1>4. \/ Shelled(i) = [i EXCEPT !.bm = i.am, !.b = i.a, !.am = "Immediate", !.a = z]
      \/ Shelled(i) = [i EXCEPT !.bm = "Direct", !.b = z]
      \/ Shelled(i) = i
  BY DEF Shelled, z
<1>5. OrZero(i.a) \in {i.a, z} /\ OrZero(i.b) \in {i.b, z}
  BY DEF OrZero, z
<1> QED BY <1>1, <1>3, <1>4, <1>5

LEMMA ShellErrGoes ==
  ASSUME NEW m, Reads(m), NEW i
  PROVE  Goes(m, ShellErr(m, i))
<1>1. "Syn" \in Errors /\ "Nop" \in Errors
  BY DEF Errors
<1>2. ShellErr(m, i) = Err(m, "Syn") \/ ShellErr(m, i) = Err(m, "Nop") \/ ShellErr(m, i) = m
  BY DEF ShellErr
<1> QED BY <1>1, <1>2, ErrGoes, GoesNowhere

LEMMA default_modifierIs ==
  ASSUME NEW op, NEW am, NEW bm
  PROVE  default_modifier(op, am, bm) \in Modifiers
<1>1. "F" \in Modifiers /\ "B" \in Modifiers /\ "AB" \in Modifiers /\ "I" \in Modifiers
  BY DEF Modifiers
<1> QED BY <1>1 DEF default_modifier

LEMMA AddressOf ==
  ASSUME NEW v \in Int
  PROVE  v % CoreSize \in Addr
BY CoreSizeAssumption DEF Addr

\* A directive.
LEMMA DirectedTyped ==
  ASSUME TInv, NEW m, Reads(m), NEW i, NEW r, Valued(r), Directed(m, i, r)
  PROVE  Goes(m, asm') /\ Makes
<1>1. made \in MadeType
  BY DEF TInv
<1>2. r.v % CoreSize \in Addr /\ r.v \in Pins
  BY AddressOf DEF Valued
<1>3. /\ [made EXCEPT !.offset = r.v % CoreSize] \in MadeType
      /\ [made EXCEPT !.offset = r.v % CoreSize].count = made.count
      /\ [made EXCEPT !.pin = r.v] \in MadeType /\ [made EXCEPT !.pin = r.v].count = made.count
  <2> DEFINE c == r.v % CoreSize
             v == r.v
  <2>1. c \in Addr /\ v \in Pins
    BY <1>2
  <2> HIDE DEF c, v
  <2>2. /\ [made EXCEPT !.offset = c] \in MadeType /\ [made EXCEPT !.pin = v] \in MadeType
        /\ [made EXCEPT !.offset = c].count = made.count /\ [made EXCEPT !.pin = v].count = made.count
    BY <1>1, <2>1 DEF MadeType
  <2> QED BY <2>2 DEF c, v
<1>4. "Doe" \in Errors /\ EvalError(r) \in Errors
  BY DEF Errors, EvalError
<1>5. Goes(m, m) /\ Goes(m, Err(m, "Doe")) /\ Goes(m, Err(m, EvalError(r)))
  BY <1>4, ErrGoes, GoesNowhere
<1>6. CASE Failed(r)
  <2>1. asm' = Err(m, EvalError(r)) /\ made' = made
    BY <1>6 DEF Directed
  <2> QED BY <1>1, <1>5, <2>1 DEF Makes
<1>7. CASE ~Failed(r)
  <2>1. /\ i.opcode = "ORG" => asm' = m /\ made' = [made EXCEPT !.offset = r.v % CoreSize]
        /\ i.opcode = "PIN" => asm' = m /\ made' = [made EXCEPT !.pin = r.v]
        /\ i.opcode \notin {"ORG", "PIN"} =>
             /\ asm' = m \/ asm' = Err(m, "Doe")
             /\ made' = made \/ made' = [made EXCEPT !.offset = r.v % CoreSize]
    BY <1>7 DEF Directed
  <2> QED BY <1>1, <1>3, <1>5, <2>1 DEF Makes
<1> QED BY <1>6, <1>7

\* An instruction.
LEMMA EncodedTyped ==
  ASSUME TInv, NEW m, Reads(m), NEW i \in InsType, i.opcode \in Opcodes, NEW ra, Valued(ra),
         NEW rb, Valued(rb), Encoded(m, i, ra, rb)
  PROVE  Goes(m, asm') /\ Makes
<1>1. made \in MadeType
  BY DEF TInv
<1>2. CASE Failed(ra) \/ Failed(rb)
  <2> DEFINE e == EvalError(IF Failed(ra) THEN ra ELSE rb)
  <2>1. asm' = Err(m, e) /\ made' = made
    BY <1>2 DEF Encoded
  <2>2. e \in Errors
    BY DEF Errors, EvalError
  <2> QED BY <1>1, <2>1, <2>2, ErrGoes DEF Makes
<1>3. CASE ~(Failed(ra) \/ Failed(rb))
  <2> DEFINE n == IF "overflow" \in {ra.err, rb.err} THEN Err(m, "Ofl") ELSE m
             mod == IF i.modifier # "none" THEN i.modifier ELSE default_modifier(i.opcode, i.am, i.bm)
             x == [op |-> i.opcode, am |-> i.am, a |-> ra.v % CoreSize, bm |-> i.bm, b |-> rb.v % CoreSize,
                   mod |-> mod]
  <2>1. asm' = [n EXCEPT !.line = @ + 1] /\ made' = [made EXCEPT !.code = Append(@, x)]
    BY <1>3 DEF Encoded
  <2>2. Goes(m, n)
    <3>1. "Ofl" \in Errors
      BY DEF Errors
    <3> QED BY <3>1, ErrGoes, GoesNowhere
  <2> HIDE DEF n
  <2>3. Goes(n, [n EXCEPT !.line = @ + 1])
    BY <2>2, SmallGoes DEF Goes
  <2>4. Goes(m, asm')
    BY <2>1, <2>2, <2>3, GoesOn
  <2>5. x \in Instruction
    <3>1. ra.v % CoreSize \in Addr /\ rb.v % CoreSize \in Addr
      BY AddressOf DEF Valued
    <3>2. mod \in Modifiers /\ i.am \in Modes /\ i.bm \in Modes
      BY default_modifierIs DEF InsType
    <3> HIDE DEF mod
    <3> QED BY <3>1, <3>2 DEF Instruction
  <2> HIDE DEF x
  <2>6. Makes
    <3> DEFINE code == Append(made.code, x)
    <3>1. made.code \in Seq(Instruction)
      BY <1>1 DEF MadeType
    <3> DEFINE S == Instruction
    <3>2. made.code \in Seq(S) /\ x \in S
      BY <2>5, <3>1
    <3> HIDE DEF S
    <3>3. code \in Seq(S)
      BY <3>2
    <3>4. made' = [made EXCEPT !.code = code]
      BY <2>1
    <3> HIDE DEF code
    <3> QED BY <1>1, <3>3, <3>4 DEF MadeType, Makes, S
  <2> QED BY <2>4, <2>6
<1> QED BY <1>2, <1>3

LEMMA EncodedLineTyped ==
  ASSUME TInv, Evaluates, EncodedLine
  PROVE  TInv'
<1> DEFINE i == IF ins.filled \/ asm.lineErr THEN Shelled(ins) ELSE ins
           m == ShellErr(asm, ins)
           r == Eval1(OrZero(i.b))
           ra == Eval1(OrZero(i.a))
           rb == eval_expr(OrZero(i.b), ra.regs, ra.save)
           rx == IF Failed(ra) THEN ra ELSE rb
           n == Overflown(Evaluated(m, r), r)
           o == Evaluated(m, rx)
<1>1. /\ phase = "encode" /\ stack = << >> /\ ret # Running /\ Typed(asm) /\ asm \in AsmType
      /\ ins \in InsType /\ (ins.opcode = "none" => Erred(asm)) /\ At(asm.lists, asm.aline)
      /\ made \in MadeType /\ dest \in Seq(Token)
  BY DEF TInv, EncodedLine, Typed
<1>2. Reads(asm)
  BY <1>1 DEF Reads
<1>3. Aside /\ dest' = dest /\ stack' = stack /\ ret' = Running /\ ins' = i
  BY DEF EncodedLine, Aside
<1>4. i \in InsType /\ i.opcode = ins.opcode
  BY <1>1, ShelledTypedOK
<1>5. \/ asm' = m /\ made' = made
      \/ i.opcode \in PseudoOps /\ Directed(n, i, r)
      \/ ~Erred(m) /\ i.opcode \notin PseudoOps /\ Encoded(o, i, ra, rb)
  BY DEF EncodedLine
<1> HIDE DEF i
<1>6. OrZero(i.a) \in Seq(Token) /\ OrZero(i.b) \in Seq(Token)
  BY <1>4, ShelledTypedOK
<1>7. Valued(r) /\ Valued(ra)
  <2>1. asm.regs \in [Registers -> Int] /\ asm.save \in Kinds \cup {"none"}
    BY <1>1, FieldsOf
  <2> QED BY <1>6, <2>1 DEF Eval1, Evaluates
<1> HIDE DEF r, ra
<1>8. Valued(rb)
  BY <1>6, <1>7 DEF Evaluates, Valued
<1> HIDE DEF rb
<1>9. Valued(rx)
  BY <1>7, <1>8
<1> HIDE DEF rx
<1>10. Goes(asm, m)
  BY <1>2, ShellErrGoes
<1> HIDE DEF m
<1>11. Reads(m)
  BY <1>10 DEF Goes
<1>12. Goes(m, n) /\ Goes(m, o)
  BY <1>7, <1>9, <1>11, EvaluatedGoes
<1> HIDE DEF n, o
<1>13. Goes(asm, n) /\ Goes(asm, o) /\ Reads(n) /\ Reads(o)
  BY <1>10, <1>12, GoesOn DEF Goes
<1>14. Goes(asm, asm') /\ Makes
  <2>1. CASE asm' = m /\ made' = made
    BY <1>1, <1>10, <2>1 DEF Makes
  <2>2. CASE Directed(n, i, r)
    <3>1. Goes(n, asm') /\ Makes
      BY <1>7, <1>13, <2>2, DirectedTyped
    <3> QED BY <1>13, <3>1, GoesOn
  <2>3. CASE ~Erred(m) /\ i.opcode \notin PseudoOps /\ Encoded(o, i, ra, rb)
    <3>1. ~Erred(asm)
      BY <1>10, <2>3 DEF Goes, On
    <3>2. i.opcode \in Opcodes
      BY <1>1, <1>4, <2>3, <3>1 DEF InsType
    <3>3. Goes(o, asm') /\ Makes
      BY <1>4, <1>7, <1>8, <1>13, <2>3, <3>2, EncodedTyped
    <3> QED BY <1>13, <3>3, GoesOn
  <2> QED BY <1>5, <2>1, <2>2, <2>3
<1>15. Stacked(stack', asm'.lists)
  BY <1>1, <1>3, NoCall
<1>16. ins'.opcode = "none" => Erred(asm')
  BY <1>1, <1>3, <1>4, <1>14 DEF Goes, On
<1> QED BY <1>1, <1>3, <1>4, <1>14, <1>15, <1>16, CallKeeps

LEMMA EncodeDoneTyped ==
  ASSUME TInv, EncodeDone
  PROVE  TInv'
<1>1. Typed(asm) /\ stack = << >> /\ ret = Running /\ (Erred(asm) \/ made.count <= MaxLength)
      /\ made.offset \in Nat /\ made.count \in Nat
  BY DEF TInv, EncodeDone, MadeType, Addr
<1>2. /\ phase' = "done" /\ source' = source /\ ins' = ins /\ dest' = dest /\ stack' = stack /\ ret' = ret
      /\ made' = made /\ framed' = framed /\ pos' = pos /\ (asm' = asm \/ asm' = ErrAt(asm, "Ofs", 0))
  BY DEF EncodeDone
<1>3. "Ofs" \in Errors /\ 0 \in Nat
  BY DEF Errors
<1>4. Stays(asm, asm')
  BY <1>1, <1>2, <1>3, StaysBeside
<1>5. made.offset >= made.count => Misled(asm')
  <2>1. made.offset >= made.count => asm' = ErrAt(asm, "Ofs", 0)
    BY DEF EncodeDone
  <2> QED BY <1>1, <2>1, ReportedIs DEF Misled, Typed
<1>6. Misled(asm') \/ made'.offset < made'.count
  BY <1>1, <1>2, <1>5
<1> QED BY <1>1, <1>2, <1>4, <1>6, NoCall DEF TInv, Stays

-----------------------------------------------------------------------------
LEMMA InitTInv == Init => TInv
<1> SUFFICES ASSUME Init PROVE TInv
  OBVIOUS
<1> DEFINE N == DOMAIN Predefined
           text(i) == <<[text |-> <<Num(Predefined[i].value)>>, loc |-> 0]>>
           texts == [i \in N |-> text(i)]
           none == << >>
           ls == <<none>> \o texts
           ref(i) == [names |-> {Predefined[i].name}, kind |-> "text", v |-> i + 1, visit |-> FALSE]
           rs == [i \in N |-> ref(i)]
           rg == [r \in Registers |-> IF FirstWarrior /\ r \in {<<"w">>, <<"s">>} THEN Warriors ELSE 0]
<1>1. /\ phase = "read" /\ source \in Seq(Seq(Token)) /\ pos = 1 /\ framed = FALSE
      /\ dest = << >> /\ stack = << >> /\ ret = Running
      /\ made = [code |-> << >>, offset |-> 0, pin |-> NoPin, count |-> 0]
      /\ ins = [opcode |-> "MOV", filled |-> FALSE, last |-> "Op", modifier |-> "none",
                a |-> << >>, b |-> << >>, am |-> "Direct", bm |-> "Direct"]
      /\ asm = [lists |-> ls, refs |-> rs, counters |-> << >>, symtbl |-> << >>, statefine |-> 0,
                depth |-> 0, expanded |-> 0, halted |-> FALSE,
                line |-> 0, vcont |-> TRUE, aline |-> NoLine, out |-> << >>,
                diags |-> << >>, lineErr |-> FALSE, noassert |-> TRUE, save |-> "none", regs |-> rg]
  BY DEF Init
<1>2. N = 1 .. Len(Predefined) /\ Len(Predefined) \in Nat /\ Warriors \in Nat
      /\ \A i \in N : Predefined[i] \in [name: Seq(STRING), value: Int]
  <2> DEFINE P == [name: Seq(STRING), value: Int]
  <2>1. Predefined \in Seq(P) /\ Warriors \in Nat
    BY AssemblerAssumption DEF AssemblerAssumption
  <2> HIDE DEF P
  <2>2. N = 1 .. Len(Predefined) /\ Len(Predefined) \in Nat /\ \A i \in N : Predefined[i] \in P
    BY <2>1
  <2> QED BY <2>1, <2>2 DEF P
<1> HIDE DEF N
<1>3. \A i \in N : Predefined[i].name \in Seq(Part) /\ Predefined[i].value \in Int
  <2> TAKE i \in N
  <2>1. Predefined[i].name \in Seq(STRING) /\ Predefined[i].value \in Int
    BY <1>2
  <2>2. \A s \in Seq(STRING) : s \in Seq(Part)
    <3> DEFINE P == Part
               S == STRING
    <3>1. S \subseteq P
      BY DEF Part
    <3> HIDE DEF P, S
    <3>2. \A s \in Seq(S) : s \in Seq(P)
      BY <3>1
    <3> QED BY <3>2 DEF P, S
  <2> QED BY <2>1, <2>2
<1>4. \A i \in N : text(i) \in Seq(Line) /\ 1 \in DOMAIN text(i)
  <2> TAKE i \in N
  <2> DEFINE l == [text |-> <<Num(Predefined[i].value)>>, loc |-> 0]
  <2>1. l \in Line
    BY <1>3, Written DEF Line
  <2> HIDE DEF l
  <2>2. <<l>> \in Seq(Line) /\ 1 \in DOMAIN <<l>>
    BY <2>1
  <2> QED BY <2>2 DEF l
<1>5. \A i \in N : ref(i) \in Ref /\ ref(i).kind = "text" /\ ref(i).v = i + 1
  BY <1>2, <1>3 DEF Ref
<1> HIDE DEF text, ref
<1>6. none \in Seq(Line)
  OBVIOUS
<1> HIDE DEF none
<1>7. /\ ls \in Seq(Seq(Line)) /\ ls # << >>
      /\ \A i \in N : i + 1 # 1 /\ i + 1 \in DOMAIN ls /\ ls[i + 1] = text(i)
  <2> DEFINE S == Seq(Line)
             n == Len(Predefined)
  <2>1. none \in S /\ (\A i \in N : text(i) \in S) /\ n \in Nat /\ N = 1 .. n
    BY <1>2, <1>4, <1>6
  <2> HIDE DEF S, n
  <2>2. texts \in Seq(S) /\ Len(texts) = n /\ \A i \in N : texts[i] = text(i)
    <3>1. texts \in [1 .. n -> S]
      BY <2>1
    <3>2. \A i \in N : texts[i] = text(i)
      OBVIOUS
    <3> HIDE DEF texts
    <3> QED BY <2>1, <3>1, <3>2
  <2> HIDE DEF texts
  <2>3. ls \in Seq(S) /\ Len(ls) = n + 1 /\ \A i \in N : ls[i + 1] = texts[i]
    BY <2>1, <2>2
  <2>4. ls # << >> /\ DOMAIN ls = 1 .. n + 1
    BY <2>1, <2>3
  <2> HIDE DEF ls
  <2>5. \A i \in N : i + 1 # 1 /\ i + 1 \in DOMAIN ls
    BY <2>1, <2>4
  <2> QED BY <2>2, <2>3, <2>4, <2>5 DEF S
<1>8. rs \in Seq(Ref) /\ DOMAIN rs = N /\ \A i \in N : rs[i] = ref(i)
  <2>1. rs \in [1 .. Len(Predefined) -> Ref] /\ DOMAIN rs = N /\ \A i \in N : rs[i] = ref(i)
    BY <1>2, <1>5
  <2> HIDE DEF rs
  <2> QED BY <1>2, <2>1
<1>9. rg \in [Registers -> Int]
  BY <1>2
<1> HIDE DEF ls, rs, rg
<1>10. asm \in AsmType
  <2>1. << >> \in Seq(Nat) /\ << >> \in Seq(Seq(Part)) /\ << >> \in Seq(Line) /\ << >> \in Seq(Diag)
    OBVIOUS
  <2>2. NoLine \in Place
    BY DEF NoLine, Place
  <2> QED BY <1>1, <1>7, <1>8, <1>9, <2>1, <2>2 DEF AsmType
<1>11. Texts(asm)
  <2> SUFFICES ASSUME NEW i \in N PROVE rs[i].v # 1 /\ At(ls, <<rs[i].v, 1>>)
    BY <1>1, <1>8 DEF Texts
  <2>1. rs[i].v = i + 1
    BY <1>5, <1>8
  <2> QED BY <1>4, <1>7, <2>1 DEF At
<1>12. Counts(asm)
  <2>1. asm.counters = << >> /\ asm.refs = rs
    BY <1>1
  <2>2. \A i \in N : rs[i].kind = "text"
    BY <1>5, <1>8
  <2> QED BY <1>8, <2>1, <2>2 DEF Counts
<1>13. Typed(asm)
  BY <1>1, <1>7, <1>10, <1>11, <1>12 DEF Typed
<1>14. ins \in InsType /\ ins.opcode = "MOV"
  <2>1. << >> \in Seq(Token)
    OBVIOUS
  <2> QED BY <1>1, <2>1 DEF InsType, Opcodes, Modes, States
<1>15. made \in MadeType
  <2>1. << >> \in Seq(Instruction) /\ 0 \in Addr
    BY CoreSizeAssumption DEF Addr
  <2> QED BY <1>1, <2>1 DEF MadeType
<1>16. dest \in Seq(Token)
  BY <1>1
<1>17. Stacked(stack, asm.lists)
  BY <1>1, NoCall
<1>18. /\ phase = "read" /\ source \in Seq(Seq(Token)) /\ pos = 1 /\ framed = FALSE
       /\ stack = << >> /\ ret = Running
  BY <1>1
<1>19. pos \in Nat \ {0}
  BY <1>18
<1> QED BY <1>13, <1>14, <1>15, <1>16, <1>17, <1>18, <1>19 DEF TInv

LEMMA NextTyped == ASSUME Evaluates PROVE TInv /\ CInv /\ [Next]_vars => TInv'
<1> SUFFICES ASSUME TInv, CInv, [Next]_vars PROVE TInv'
  OBVIOUS
<1>1. CASE Read
  BY <1>1, ReadTyped
<1>2. CASE ExpandLine \/ ExpandedLine \/ ExpandDone
  BY <1>2, ExpandLineTyped, ExpandedLineTyped, ExpandDoneTyped
<1>3. CASE \/ LineOver \/ Comment \/ Skip \/ Misplaced \/ Rof \/ Curline \/ Operator \/ Opcode
           \/ Equ \/ Value \/ DoubleLabel \/ Unknown
  <2>1. Trav2
    BY <1>3 DEF LineOver, Comment, Skip, Misplaced, Rof, Curline, Operator, Opcode, Equ,
                Value, DoubleLabel, Unknown, Naming, Live
  <2> QED BY <1>3, <2>1, Trav2Typed
<1>4. CASE Substitute \/ Declare \/ For
  BY <1>4, SubstituteTyped, DeclareTyped, ForTyped
<1>5. CASE Asserted \/ OpcodeDone \/ EquLine \/ ForCount \/ ForRound \/ ForLine \/ ForLineDone
  BY <1>5, ResumedTyped
<1>6. CASE EncodeLine \/ EncodedLine \/ EncodeDone
  BY <1>6, EncodeLineTyped, EncodedLineTyped, EncodeDoneTyped
<1>7. CASE AutoOver \/ AutoOp \/ AutoModifier \/ AutoStart \/ AutoCollect \/ AutoUnknown
  BY <1>7, AutomatonTyped
<1>8. CASE AutoSymbol \/ SymbolDone \/ TooDeep
  BY <1>8, AutoSymbolTyped, SymbolTyped, TooDeepTyped
<1>9. CASE UNCHANGED vars
  BY <1>9 DEF vars, TInv
<1> QED BY <1>1, <1>2, <1>3, <1>4, <1>5, <1>6, <1>7, <1>8, <1>9 DEF Next, Pass1, Pass2

LEMMA TInvTypes == TInv => TypeOK
<1> SUFFICES ASSUME TInv PROVE TypeOK
  OBVIOUS
<1>1. asm \in AsmType /\ stack \in Seq(FrameType)
  BY DEF TInv, Typed, Stacked
<1> QED BY <1>1 DEF TInv, TypeOK, MadeType

LEMMA TInvFits == TInv => AcceptedFits
<1> SUFFICES ASSUME TInv, Accepted PROVE AcceptedFits
  BY DEF AcceptedFits
<1>1. phase = "done" /\ ~Erred(asm) /\ made \in MadeType
  BY DEF Accepted, TInv
<1>2. Result \in Warrior /\ Result.start = made.offset
  BY <1>1 DEF Result, Warrior, MadeType
<1>3. made.count <= MaxLength /\ (Misled(asm) \/ made.offset < made.count)
  BY <1>1 DEF TInv
<1> QED BY <1>2, <1>3 DEF AcceptedFits, Misled

\* If the evaluator returns what its signature says, every field has its type
\* in every state, so that nothing is indexed outside and no value is missing.
THEOREM AssemblerTypes ==
  ASSUME Evaluates
  PROVE  Spec => []TypeOK
<1>1. Init => TInv /\ CInv
  BY InitTInv, InitCInv
<1>2. TInv /\ CInv /\ [Next]_vars => (TInv /\ CInv)'
  BY NextTyped, NextCalls
<1>3. TInv /\ CInv => TypeOK
  BY TInvTypes
<1> QED BY <1>1, <1>2, <1>3, PTL DEF Spec

\* What is accepted is a warrior the engines take: counted no longer than
\* allowed, its fields in the core, and started within what was counted unless
\* a warning says not.
THEOREM AcceptedWarriorsFit ==
  ASSUME Evaluates
  PROVE  Spec => []AcceptedFits
<1>1. Init => TInv /\ CInv
  BY InitTInv, InitCInv
<1>2. TInv /\ CInv /\ [Next]_vars => (TInv /\ CInv)'
  BY NextTyped, NextCalls
<1>3. TInv /\ CInv => AcceptedFits
  BY TInvFits
<1> QED BY <1>1, <1>2, <1>3, PTL DEF Spec

=============================================================================
