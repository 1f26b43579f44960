-------------------------------- MODULE Hill --------------------------------
(***************************************************************************)
(* A king-of-the-hill directory, hill.rs: hill.toml, state.json,           *)
(* results.json, the members' sources and the history, and the runs of     *)
(* `cw hill` that act on them.  Every file is replaced whole, so a file is *)
(* a variable; a run takes one step per file it reads or writes and can    *)
(* crash between any two.  hill.toml is also edited by hand, at any time.  *)
(*                                                                         *)
(* A warrior is its id, a number (ids are compared to decide who moves     *)
(* first); names, authors, times and the text of reports are left out, and *)
(* what a match comes to is the constant Play.                             *)
(***************************************************************************)
EXTENDS Integers, SequencesExt

CONSTANTS
  Runs,             \* the processes that run `cw hill`
  None,             \* no run, no hill, no draw
  Ids,              \* the warriors there are
  Garbage,          \* a file no rules accept
  Rules,            \* the rules hill.toml may hold
  Assembles(_, _),  \* whether params accept a warrior's source
  Play(_, _, _, _), \* the score of params, two warriors in order and a seed
  HashSeed(_, _),   \* the seed of two ids
  DrawnSeed(_, _, _), \* the seed of a draw and two ids
  Draws,            \* the numbers /dev/urandom may give
  MaxFiles,         \* bound: files given to one challenge
  MaxChallenges, MaxEdits, MaxCrashes, MaxInits  \* bounds on each over a behaviour

Member == [id: Ids, arrived: Nat, age: Nat]
State  == [next: Nat, members: Seq(Member)]
Score  == [w1: Nat, w2: Nat, ties: Nat]

ASSUME HillAssumption ==
  /\ None \notin Runs /\ None \notin Draws /\ None \notin Rules /\ None \notin State
  /\ Ids \subseteq Nat /\ Garbage \notin Ids
  /\ \A R \in Rules : /\ R.size \in Nat
                      /\ R.newer \in BOOLEAN
                      /\ R.random \in BOOLEAN
                      /\ DOMAIN R = {"size", "newer", "random", "params", "points"}
                      /\ R.points \in [win: Int, tie: Int, loss: Int]
                      /\ \A x, y \in Ids :
                           \A seed \in {HashSeed(x, y)} \cup {DrawnSeed(d, x, y) : d \in Draws} :
                             Play(R.params, x, y, seed) \in Score

FileLists == SeqOf(Ids \cup {Garbage}, MaxFiles)

VARIABLES
  rules,     \* hill.toml, None until init has written it
  state,     \* state.json
  results,   \* results.json
  sources,   \* the ids with a file in warriors/
  history,   \* lines of history.jsonl
  lock,      \* the run that holds .lock
  pc,        \* where each run is
  my,        \* what each run holds in memory
  spent,     \* challenges, edits, crashes and inits so far
  last,      \* history variable: the last challenge that was saved
  torn       \* history variable: results.json saved, state.json not yet

files == <<rules, state, results, sources, history>>
vars == <<files, lock, pc, my, spent, last, torn>>

-----------------------------------------------------------------------------
\* Matches and seeds.

\* The warrior whose id sorts first moves first; the key of their match.
Pairing(x, y) == IF x < y THEN <<x, y>> ELSE <<y, x>>
PairsOf(S) == { Pairing(x, y) : x \in S, y \in S } \ { <<x, x>> : x \in S }

\* What decides a match: the parameters (rounds among them), the placement.
Fingerprint(R) == <<R.params, R.random>>

SeedFor(R, draw, key) == IF R.random THEN DrawnSeed(draw, key[1], key[2])
                                     ELSE HashSeed(key[1], key[2])

\* A results.json with nothing in it, which is also what open makes of one
\* that was played under other rules.
NoResults(R) == [fingerprint |-> Fingerprint(R), matches |-> << >>, seeds |-> << >>]
NoState == [next |-> 0, members |-> << >>]

\* A map of matches or of seeds after new ones were inserted.
Inserted(new, map) ==
  [k \in DOMAIN new \cup DOMAIN map |-> IF k \in DOMAIN new THEN new[k] ELSE map[k]]

IdsOf(members) == { members[i].id : i \in 1 .. Len(members) }

\* Points of x from its match with y.
PointsFrom(x, y, matches, p) ==
  LET s == matches[Pairing(x, y)]
      won  == IF x < y THEN s.w1 ELSE s.w2
      lost == IF x < y THEN s.w2 ELSE s.w1
  IN p.win * won + p.tie * s.ties + p.loss * lost

ScoreOf(x, S, matches, p) ==
  FoldSet(LAMBDA y, n : n + PointsFrom(x, y, matches, p), 0, S \ {x})

\* By score, then by arrival.
Before(m, n, score, R) ==
  \/ score[m.id] > score[n.id]
  \/ /\ score[m.id] = score[n.id]
     /\ IF R.newer THEN m.arrived > n.arrived ELSE m.arrived < n.arrived

\* m goes behind those it does not come before.
Insert(ranked, m, score, R) ==
  InsertAt(ranked, 1 + Cardinality({ i \in DOMAIN ranked : ~Before(m, ranked[i], score, R) }), m)

\* The order the rules give the members.
Ranked(members, matches, R) ==
  LET S == IdsOf(members)
      score == [x \in S |-> ScoreOf(x, S, matches, R.points)]
  IN FoldLeft(LAMBDA ranked, m : Insert(ranked, m, score, R), << >>, members)

Trimmed(members, R) ==
  IF R.size = 0 \/ Len(members) <= R.size THEN members ELSE SubSeq(members, 1, R.size)

-----------------------------------------------------------------------------
\* A challenge in memory: from the hill as opened to the hill to be saved.

\* The files that are warriors new to the hill, in order, once each.
Entrants(given, members, R) ==
  FoldLeft(LAMBDA new, f :
             IF f \in Ids /\ Assembles(R.params, f)
                /\ f \notin IdsOf(members) /\ f \notin ToSet(new)
             THEN Append(new, f) ELSE new,
           << >>, given)

\* The members whose source can be read and that the rules still accept.
Kept(members, R) ==
  FoldLeft(LAMBDA kept, m : IF m.id \in sources /\ Assembles(R.params, m.id)
                            THEN Append(kept, m) ELSE kept,
           << >>, members)

\* Gone wrong: the challenger ages with the rest.
AgedAll(members, x) == [i \in 1 .. Len(members) |-> [members[i] EXCEPT !.age = @ + 1]]

\* Whoever but x is left has survived one more challenge.
Aged(members, x) ==
  [i \in 1 .. Len(members) |-> IF members[i].id = x THEN members[i]
                               ELSE [members[i] EXCEPT !.age = @ + 1]]

\* One challenger joins: it is ranked with everyone and the last falls off.
Join(h, x, matches, R) ==
  LET new == [id |-> x, arrived |-> h.next, age |-> 0]
  IN [next    |-> h.next + 1,
      members |-> Aged(Trimmed(Ranked(Append(h.members, new), matches, R), R), x)]

Joined(h, entrants, matches, R) ==
  FoldLeft(LAMBDA acc, x : Join(acc, x, matches, R), h, entrants)

\* Gone wrong: nothing is dropped.
RetainAll(matches, S) == matches
RetainEverySeed(seeds, matches) == seeds

\* What the two retains leave of the matches and of their seeds.
Retain(matches, S) == [k \in DOMAIN matches \cap PairsOf(S) |-> matches[k]]
RetainSeeds(seeds, matches) == [k \in DOMAIN seeds \cap DOMAIN matches |-> seeds[k]]

\* The members that do not assemble leave; missing matches are played; the
\* challengers join one by one; the result is ranked again and trimmed; and
\* only matches between members are kept.
Challenged(R, h, cache, given, draw) ==
  LET entrants == Entrants(given, h.members, R)
      kept     == Kept(h.members, R)
      all      == IdsOf(kept) \cup ToSet(entrants)
      missing  == PairsOf(all) \ DOMAIN cache.matches
      seeds    == IF R.random
                  THEN Inserted([k \in missing |-> SeedFor(R, draw, k)], cache.seeds)
                  ELSE cache.seeds
      matches  == Inserted([k \in missing |-> Play(R.params, k[1], k[2], SeedFor(R, draw, k))],
                           cache.matches)
      joined   == Joined([h EXCEPT !.members = kept], entrants, matches, R)
      ranked   == Ranked(joined.members, matches, R)
      final    == Trimmed(ranked, R)
      between  == Retain(matches, IdsOf(final))
  IN [state   |-> [next |-> joined.next, members |-> final],
      results |-> [fingerprint |-> cache.fingerprint,
                   matches |-> between,
                   seeds   |-> RetainSeeds(seeds, between)],
      stored  |-> ToSet(entrants),
      shrunk  |-> final # ranked,
      silent  |-> given = << >> /\ IdsOf(final) = IdsOf(h.members)]

-----------------------------------------------------------------------------
\* cw hill init: takes no lock.

Pause == UNCHANGED <<lock, last, torn>>
Spend(field) == spent' = [spent EXCEPT ![field] = @ + 1]
Goto(r, label) == pc' = [pc EXCEPT ![r] = label]
Forget(r) == my' = [my EXCEPT ![r] = None]

\* The test for hill.toml; a hill already there is refused.
InitCheck(r, R) ==
  /\ pc[r] = "idle" /\ spent.inits < MaxInits
  /\ rules = None
  /\ my' = [my EXCEPT ![r] = [rules |-> R]]
  /\ Goto(r, "init state") /\ Spend("inits")
  /\ UNCHANGED files /\ Pause

InitState(r) ==
  /\ pc[r] = "init state"
  /\ state' = NoState
  /\ Goto(r, "init results")
  /\ UNCHANGED <<rules, results, sources, history, my, spent>> /\ Pause

InitResults(r) ==
  /\ pc[r] = "init results"
  /\ results' = NoResults(my[r].rules)
  /\ Goto(r, "init rules")
  /\ UNCHANGED <<rules, state, sources, history, my, spent>> /\ Pause

\* Last: its presence is what makes the directory a hill.
InitRules(r) ==
  /\ pc[r] = "init rules"
  /\ rules' = my[r].rules
  /\ Goto(r, "idle") /\ Forget(r)
  /\ UNCHANGED <<state, results, sources, history, spent>> /\ Pause

-----------------------------------------------------------------------------
\* cw hill challenge, show and verify.

\* open reads hill.toml first, and only then waits for the lock.
Open(r, given, seed) ==
  /\ pc[r] = "idle" /\ spent.challenges < MaxChallenges
  /\ rules # None
  /\ my' = [my EXCEPT ![r] = [rules |-> rules, given |-> given, seed |-> seed]]
  /\ Goto(r, "waiting") /\ Spend("challenges")
  /\ UNCHANGED files /\ Pause

\* Gone wrong: the lock is not waited for.
TryLock(r) == lock' = r

\* lock.lock() blocks until no other process has it.
TakeLock(r) == lock = None /\ lock' = r

\* Gone wrong: the placement is not compared.
SameParameters(R) == results.fingerprint[1] = Fingerprint(R)[1]

\* Results played under other rules are forgotten.
Fresh(R) == results.fingerprint = Fingerprint(R)

\* The lock, then state.json and results.json.
Load(r) ==
  /\ pc[r] = "waiting" /\ TakeLock(r)
  /\ LET R == my[r].rules
     IN my' = [my EXCEPT ![r] =
          [rules |-> R, given |-> @.given, seed |-> @.seed,
           state |-> state,
           cache |-> IF Fresh(R) THEN results ELSE NoResults(R)]]
  /\ Goto(r, "loaded")
  /\ UNCHANGED <<files, spent, last, torn>>

\* show and verify, and a challenge refused for its seed, change nothing.
Report(r) ==
  /\ pc[r] = "loaded"
  /\ lock' = None
  /\ Goto(r, "idle") /\ Forget(r)
  /\ UNCHANGED <<files, spent, last, torn>>

\* Gone wrong: the sources are only kept in memory.
NoSources(entrants) == sources' = sources

\* The challengers' sources.
WriteSources(entrants) == sources' = sources \cup entrants

\* challenge_seeded up to its save; the sources of the challengers are
\* written on the way.  A seed may be given on a hill with random placement.
Challenge(r) ==
  /\ pc[r] = "loaded"
  /\ LET m == my[r]
     IN /\ m.rules.random \/ m.seed = None
        /\ \E draw \in IF m.rules.random /\ m.seed = None THEN Draws ELSE {m.seed} :
             LET out == Challenged(m.rules, m.state, m.cache, m.given, draw)
             IN /\ WriteSources(out.stored)
                /\ my' = [my EXCEPT ![r] = [rules |-> m.rules, out |-> out]]
  /\ Goto(r, "save results")
  /\ UNCHANGED <<rules, state, results, history, lock, spent, last, torn>>

SaveResults(r) ==
  /\ pc[r] = "save results"
  /\ results' = my[r].out.results
  /\ torn' = TRUE
  /\ Goto(r, "save state")
  /\ UNCHANGED <<rules, state, sources, history, lock, my, spent, last>>

SaveState(r) ==
  /\ pc[r] = "save state"
  /\ state' = my[r].out.state
  /\ torn' = FALSE
  /\ last' = [rules |-> my[r].rules, shrunk |-> my[r].out.shrunk]
  /\ Goto(r, "log")
  /\ UNCHANGED <<rules, results, sources, history, lock, my, spent>>

\* The history line, unless there is nothing to say; the lock is dropped.
Log(r) ==
  /\ pc[r] = "log"
  /\ history' = IF my[r].out.silent THEN history ELSE history + 1
  /\ lock' = None
  /\ Goto(r, "idle") /\ Forget(r)
  /\ UNCHANGED <<rules, state, results, sources, spent, last, torn>>

-----------------------------------------------------------------------------
\* The world: a run dies (the kernel drops its lock), the rules are edited.

Dropped(r) == lock' = IF lock = r THEN None ELSE lock

\* A challenge may have written the sources of some of its challengers.
Crash(r) ==
  /\ pc[r] # "idle" /\ spent.crashes < MaxCrashes
  /\ \E some \in SUBSET (IF pc[r] = "loaded"
                         THEN ToSet(Entrants(my[r].given, my[r].state.members, my[r].rules))
                         ELSE {}) : sources' = sources \cup some
  /\ Dropped(r) /\ Goto(r, "idle") /\ Forget(r) /\ Spend("crashes")
  /\ UNCHANGED <<rules, state, results, history, last, torn>>

Edit(R) ==
  /\ rules \notin {None, R} /\ spent.edits < MaxEdits
  /\ rules' = R
  /\ Spend("edits")
  /\ UNCHANGED <<state, results, sources, history, lock, pc, my, last, torn>>

Init ==
  /\ rules = None /\ state = None /\ results = None /\ sources = {} /\ history = 0
  /\ lock = None
  /\ pc = [r \in Runs |-> "idle"] /\ my = [r \in Runs |-> None]
  /\ spent = [challenges |-> 0, edits |-> 0, crashes |-> 0, inits |-> 0]
  /\ last = None /\ torn = FALSE

Step(r) == \/ InitState(r) \/ InitResults(r) \/ InitRules(r)
           \/ Load(r) \/ Report(r) \/ Challenge(r)
           \/ SaveResults(r) \/ SaveState(r) \/ Log(r)

Next == \/ \E r \in Runs : \/ \E R \in Rules : InitCheck(r, R)
                           \/ \E given \in FileLists, seed \in Draws \cup {None} :
                                Open(r, given, seed)
                           \/ Step(r)
                           \/ Crash(r)
        \/ \E R \in Rules : Edit(R)

Spec == Init /\ [][Next]_vars /\ \A r \in Runs : WF_vars(Step(r))

-----------------------------------------------------------------------------
\* cw hill verify's checks of a hill's files, as the kinds of problem found.

Verify(R, st, res, src) ==
  LET S      == IdsOf(st.members)
      stale  == res.fingerprint # Fingerprint(R)
      pairs  == PairsOf(S)
      stored == DOMAIN res.matches
      seeded == IF R.random THEN DOMAIN res.seeds ELSE pairs
      Seed(k) == IF R.random THEN res.seeds[k] ELSE HashSeed(k[1], k[2])
      found == [state   |-> \E i, k \in 1 .. Len(st.members) :
                              i # k /\ st.members[i].id = st.members[k].id,
                source  |-> \E x \in S : x \notin src \/ ~Assembles(R.params, x),
                size    |-> R.size > 0 /\ Len(st.members) > R.size,
                rules   |-> stale,
                results |-> ~stale /\ (pairs # stored \/ pairs \ seeded # {}),
                result  |-> ~stale /\ \E k \in pairs \cap stored \cap seeded :
                              /\ \A x \in {k[1], k[2]} : x \in src /\ Assembles(R.params, x)
                              /\ res.matches[k] # Play(R.params, k[1], k[2], Seed(k)),
                ranking |-> /\ ~stale /\ pairs \subseteq stored
                            /\ Ranked(st.members, res.matches, R) # st.members]
  IN { k \in DOMAIN found : found[k] }

-----------------------------------------------------------------------------
\* Properties.

IsResults(res) ==
  /\ DOMAIN res.matches \subseteq PairsOf(Ids)
  /\ \A k \in DOMAIN res.matches : res.matches[k] \in Score
  /\ DOMAIN res.seeds \subseteq DOMAIN res.matches

\* What each file and each run's memory holds.
TypeOK ==
  /\ rules \in Rules \cup {None}
  /\ state \in State \cup {None}
  /\ results # None => IsResults(results)
  /\ sources \subseteq Ids
  /\ history \in Nat
  /\ lock \in Runs \cup {None}
  /\ \A r \in Runs : /\ pc[r] = "idle" => my[r] = None
                     /\ pc[r] = "waiting" => my[r].rules \in Rules
                     /\ pc[r] = "loaded" => my[r].state \in State /\ IsResults(my[r].cache)
  /\ torn \in BOOLEAN

\* A member's age is the number of challengers that came after it, whatever
\* came of them; arrival numbers are never given twice.
AgesRight(h) ==
  \A i, k \in 1 .. Len(h.members) :
    LET m == h.members[i]
    IN /\ m.age = h.next - 1 - m.arrived
       /\ i # k => m.arrived # h.members[k].arrived

\* That is so of the table on disk: no crash, edit or second run makes a
\* member miss a challenger or count one twice.
AgesCountArrivals == state # None => AgesRight(state)

\* Every warrior the saved table lists can be read again: its source was on
\* disk before state.json named it, whenever a run was killed.
MembersHaveSources == state # None => IdsOf(state.members) \subseteq sources

\* The results are those of their fingerprint's parameters, from the seeds
\* beside them or, with hash placement, which keeps none, from the ids.
Reproducible(res) ==
  LET random == res.fingerprint[2]
  IN /\ DOMAIN res.seeds = IF random THEN DOMAIN res.matches ELSE {}
     /\ \A k \in DOMAIN res.matches :
          res.matches[k] = Play(res.fingerprint[1], k[1], k[2],
                                IF random THEN res.seeds[k] ELSE HashSeed(k[1], k[2]))

\* results.json never holds a result of other rules, another seed or another
\* placement than its fingerprint and its seeds say.
ResultsReproducible == results # None => Reproducible(results)

\* No challenge is lost: a run never saves a table computed from one that
\* another run has replaced since, so the arrivals counted on disk only grow.
NoLostChallenge ==
  [][state # None => state' # None /\ state'.next >= state.next]_vars

\* A saved challenge leaves a hill in which verify finds nothing, under the
\* rules it was made with, also when it is the first after a run that was
\* killed between its two files.  The one exception is the order of a table
\* the last trim shortened (see RankedAsSaved).
VerifiesOnceSaved ==
  ~torn /\ last # None /\ rules = last.rules =>
    Verify(rules, state, results, sources) \subseteq (IF last.shrunk THEN {"ranking"} ELSE {})

\* README, verify checks "that the table is in the order the rules give":
\* so it finds nothing wrong with a hill right after a challenge.
RankedAsSaved ==
  ~torn /\ last # None /\ rules = last.rules =>
    "ranking" \notin Verify(rules, state, results, sources)

\* hill.rs:377, init "refuses a directory that is one".
InitRefusesHill ==
  [][\A r \in Runs : InitState(r) \/ InitResults(r) \/ InitRules(r) => rules = None]_vars

\* hill.rs:103, edited rules are applied "by the next `cw hill challenge`":
\* a hill saved under the rules of hill.toml is not put back under others.
RulesStayApplied ==
  [][last # None /\ last.rules = rules /\ rules' = rules => last'.rules = rules]_vars
=============================================================================
