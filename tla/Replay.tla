------------------------------- MODULE Replay -------------------------------
(***************************************************************************)
(* The two recorders of a match, composed with the reference engine that   *)
(* calls them: trace.rs, which paints frames of who wrote which cell, and  *)
(* the browser's in wasm/src/lib.rs, which tells each instruction as an    *)
(* event a page replays from the loaded core.  Both hear of a round when   *)
(* it is loaded and after each instruction, and only of the rounds asked   *)
(* for; here they hear of the same ones.                                   *)
(*                                                                         *)
(* A frame's writes and an event's cells are functions on the cells (the   *)
(* code lists them by address, each once), an encoded cell is the cell.    *)
(***************************************************************************)
EXTENDS Mars, SequencesExt

CONSTANTS
  Everies,   \* the frame lengths, in cycles, that may be asked for
  Records    \* the sets of rounds that may be asked for

ASSUME ReplayAssumption ==
  /\ Everies \subseteq Nat \ {0}
  /\ \A R \in Records : R \subseteq Nat
  /\ Noting

VARIABLES
  every,     \* cycles between frames
  record,    \* the rounds to record
  pending,   \* trace's Recorder.pending: the last writer of each cell written since the last frame
  frames,    \* trace's Recorder.frames
  loaded,    \* the page's core as the round began
  events,    \* one event per instruction
  head, len, \* the page's Recorder: each queue's head and length as of the last instruction
  writer     \* history: the warrior that wrote each cell of the round last

asked == <<every, record>>
recorders == <<pending, frames, loaded, events, head, len>>
allVars == <<vars, asked, recorders, writer>>

Recording == round \in record
Processes == [w \in W |-> Len(queues[w])]

\* Some cells written over others.
Over(new, old) == [c \in DOMAIN new \cup DOMAIN old |-> IF c \in DOMAIN new THEN new[c] ELSE old[c]]

-----------------------------------------------------------------------------
\* trace.rs

\* Gone wrong: the first writer is kept.
WrittenFirst(was, cells, w) ==
  [c \in DOMAIN was \cup cells |-> IF c \in DOMAIN was THEN was[c] ELSE w]

Written(was, cells, w) ==
  [c \in DOMAIN was \cup cells |-> IF c \in cells THEN w ELSE was[c]]

Frame(cycle, processes, writes) ==
  [cycle |-> cycle, processes |-> processes, writes |-> writes]

\* Every 2 * every instructions a frame, of which every cycle is two.
Painted ==
  LET now == Written(pending, written', mover)
  IN IF done' % (2 * every) = 0
     THEN /\ frames' = Append(frames, Frame(done' \div 2, Processes', now))
          /\ pending' = << >>
     ELSE pending' = now /\ UNCHANGED frames

\* Gone wrong: an end between two cycles is in the next one.
CycleAfter == done \div 2 + 1

\* Rounded up: a round can end between the two instructions of a cycle.
EndCycle == (done + 1) \div 2

\* Gone wrong: a last frame only if something was written since.
WritesPending == pending # << >>

FrameMissing ==
  \/ pending # << >>
  \/ frames = << >>
  \/ frames # << >> /\ Last(frames).cycle # EndCycle

\* After the round: what is pending, or the end itself, is a frame of its own.
LastFrame ==
  IF FrameMissing
  THEN /\ frames' = Append(frames, Frame(EndCycle, Processes, pending))
       /\ pending' = << >>
  ELSE UNCHANGED <<frames, pending>>

-----------------------------------------------------------------------------
\* wasm/src/lib.rs

HeadOf(q) == IF q = << >> THEN 0 ELSE Head(q)

\* Gone wrong: what the instruction took is not counted.
Grown(n, before) == IF n > before THEN n - before ELSE 0

\* The instruction took the head of the queue and added to its back.
Pushed(n, before) == n + 1 - before

\* Two numbers in one word, the count of pushes in two bits.
Header(w, pushed, cells) == w + 2 * pushed + 8 * cells

\* after_step, of the machine as the instruction left it.
Event(w, q, wrote, c) ==
  LET pushed == Pushed(Len(q), len[w])
  IN [header |-> Header(w, pushed, Cardinality(wrote)),
      head   |-> head[w],
      pushed |-> SubSeq(q, Len(q) - pushed + 1, Len(q)),
      cells  |-> [i \in wrote |-> c[i]]]

Told ==
  /\ events' = Append(events, Event(mover, queues'[mover], written', core'))
  /\ head' = [head EXCEPT ![mover] = HeadOf(queues'[mover])]
  /\ len' = [len EXCEPT ![mover] = Len(queues'[mover])]
  /\ UNCHANGED loaded

\* replay: what a page makes of one event; sound while the head it is told
\* is the head it has.
Replayed(page, e) ==
  LET w      == e.header % 2
      pushed == (e.header \div 2) % 4
      cells  == e.header \div 8
  IN [sound  |-> /\ page.sound
                 /\ page.queues[w] # << >> /\ Head(page.queues[w]) = e.head
                 /\ Len(e.pushed) = pushed /\ Cardinality(DOMAIN e.cells) = cells,
      queues |-> [page.queues EXCEPT ![w] = SubSeq(@, 2, Len(@)) \o e.pushed],
      core   |-> Over(e.cells, page.core)]

\* The page before the first event: the loaded core, a process for each
\* warrior where load put it.
Blank ==
  [sound  |-> TRUE,
   queues |-> [w \in W |-> << Add(IF w = 0 THEN 0 ELSE pos, job.team[w].start) >>],
   core   |-> loaded]

Page == FoldLeft(Replayed, Blank, events)

-----------------------------------------------------------------------------
\* A round begins: both recorders start afresh if it is to be recorded.
ObservedStart ==
  /\ StartRound
  /\ IF round' \in record
     THEN /\ loaded' = core'
          /\ head' = [w \in W |-> HeadOf(queues'[w])]
          /\ len' = [w \in W |-> Len(queues'[w])]
          /\ pending' = << >> /\ frames' = << >> /\ events' = << >>
     ELSE UNCHANGED recorders
  /\ writer' = << >>
  /\ UNCHANGED asked

\* Watched::step: the instruction, fatal or not, then the observers.
ObservedStep ==
  /\ Step
  /\ IF Recording THEN Painted /\ Told ELSE UNCHANGED recorders
  /\ writer' = [c \in DOMAIN writer \cup written' |-> IF c \in written' THEN mover ELSE writer[c]]
  /\ UNCHANGED asked

ObservedEnd ==
  /\ FinishRound
  /\ IF Recording THEN LastFrame ELSE UNCHANGED <<pending, frames>>
  /\ UNCHANGED <<asked, loaded, events, head, len, writer>>

Unobserved ==
  /\ (\E j \in Jobs : BeginMatch(j)) \/ TimeUp \/ FinishMatch
  /\ UNCHANGED <<asked, recorders, writer>>

ReplayInit ==
  /\ Init
  /\ every \in Everies /\ record \in Records
  /\ pending = << >> /\ frames = << >>
  /\ loaded = core /\ events = << >>
  /\ head = [w \in W |-> 0] /\ len = [w \in W |-> 0]
  /\ writer = << >>

ReplayNext == ObservedStart \/ ObservedStep \/ ObservedEnd \/ Unobserved

ReplaySpec == ReplayInit /\ [][ReplayNext]_allVars

-----------------------------------------------------------------------------
\* Properties.

\* What the recorders hold is about cells, warriors and processes there are,
\* and an event's counts fit the bits they have.
ReplayTypeOK ==
  /\ DOMAIN pending \subseteq Addr
  /\ \A i \in 1 .. Len(frames) :
       /\ frames[i].cycle \in 1 .. MaxCycles
       /\ frames[i].processes \in [W -> 0 .. MaxProcesses]
       /\ DOMAIN frames[i].writes \subseteq Addr
  /\ head \in [W -> Addr] /\ len \in [W -> 0 .. MaxProcesses]
  /\ \A i \in 1 .. Len(events) :
       Len(events[i].pushed) <= 2 /\ Cardinality(DOMAIN events[i].cells) <= 3

Ended == phase = "ready" /\ round > 0 /\ Recording

\* trace.rs's frames_end_with_the_round: a recorded round has its frames in
\* the order of their cycles, all but the last on a multiple of `every`, and
\* exactly one, the last, on the cycle it ended, showing the processes left;
\* also when it ends within a cycle, on a frame's boundary, or before any.
FramesEndWithRound ==
  Ended =>
    /\ frames # << >>
    /\ \A i \in 1 .. Len(frames) - 1 : /\ frames[i].cycle < frames[i + 1].cycle
                                       /\ frames[i].cycle = i * every
    /\ Last(frames).cycle = EndCycle
    /\ Last(frames).processes = Processes

Paint(seen, f) == Over(f.writes, seen)

\* A viewer that paints the frames one over the other shows each cell in the
\* colour of the warrior that wrote it last in the round, and no other cell.
FramesPaintWriters ==
  Ended => FoldLeft(Paint, << >>, frames) = writer

\* wasm's events_replay_to_the_core_the_round_ended_with, at every moment of
\* the round: a page that knows the loaded core and the start addresses, and
\* applies the events, has the machine's core and its queues in order, and
\* one event for each instruction.
ReplayIsRound ==
  phase = "running" /\ Recording =>
    /\ Page.sound /\ Page.core = core /\ Page.queues = queues
    /\ Len(events) = done
=============================================================================
