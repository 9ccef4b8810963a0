------------------------- MODULE PathSelectionProofs -------------------------
(***************************************************************************)
(* The invariants of PathSelection, for any senders, binders, paths and    *)
(* limits.  Inv joins what each part needs of the others:                  *)
(*   BoardOK:  the scoreboard is finite, within bounds, knows its current; *)
(*   LineOK:   who has a set command in line is waiting for it;            *)
(*   FutureOK: the future in the table, and those waited for, are of tasks *)
(*             that lead; and if nothing was forgotten, nobody else leads. *)
(***************************************************************************)
EXTENDS PathSelection, FiniteSetTheorems, SequenceTheorems, TLAPS

BoardOK(b) ==
    /\ b \in Boards /\ IsFiniteSet(b.known)
    /\ b.current # None => b.current \in b.known
    /\ Cardinality(b.known) <= Kept

LineOK ==
    /\ \A i \in DOMAIN line : pc[line[i]] \in {"set", "persist"}
    /\ \A i, j \in DOMAIN line : line[i] = line[j] => i = j

FutureOK ==
    /\ pending # None => pending \in Leaders
    /\ FollowersHaveLeader
    /\ tangled \/ Leaders \subseteq {pending}

RoundOK == \A t \in Tasks : pc[t] \in {"wait", "look"} => round[t] < Rounds

Inv == TypeOK /\ BoardOK(board) /\ LineOK /\ FutureOK /\ RoundOK /\ BeliefTrue

-----------------------------------------------------------------------------
(* The scoreboard. *)

\* The bound of the counters is a number.
LEMMA MostNat == Most \in Nat /\ Exhaust \in Nat
BY PathAssumption DEF Most

\* Hearing of a path keeps the scoreboard in order, and what it believes.
LEMMA AddedOK ==
    ASSUME NEW b, BoardOK(b), NEW p \in Paths, NEW c \in Added(b, p)
    PROVE  BoardOK(c) /\ p \in c.known /\ c.belief = b.belief /\ (b.current # None => c.current = b.current)
<1>1. CASE p \in b.known
  BY <1>1 DEF BoardOK, Boards, Added
<1>2. CASE p \notin b.known
  <2>1. PICK out \in IF Full(b) THEN {{q} : q \in Droppable(b)} ELSE {{}} :
          c = [b EXCEPT !.known = (@ \ out) \union {p}, !.heard = @ \ out,
                        !.misses = [q \in Paths |-> IF q \in out THEN 0 ELSE @[q]]]
    BY <1>2 DEF Added
  <2>2. c.known = (b.known \ out) \union {p} /\ c.current = b.current /\ c.belief = b.belief
    BY <2>1 DEF BoardOK, Boards
  <2>3. c \in Boards
    <3>1. out \subseteq b.known
      BY DEF Droppable
    <3>2. c.heard = b.heard \ out /\ c.misses = [q \in Paths |-> IF q \in out THEN 0 ELSE b.misses[q]]
      BY <2>1 DEF BoardOK, Boards
    <3>3. c.misses \in [Paths -> 0..Most]
      BY <3>2, PathAssumption, MostNat DEF BoardOK, Boards
    <3>4. c = [known |-> c.known, misses |-> c.misses, heard |-> c.heard, current |-> c.current, belief |-> c.belief]
      BY <2>1 DEF BoardOK, Boards
    <3> QED BY <2>2, <3>2, <3>3, <3>4 DEF BoardOK, Boards
  <2>4. Cardinality(b.known) \in Nat /\ Kept \in Nat
    BY FS_CardinalityType, PathAssumption DEF BoardOK
  <2>5. IsFiniteSet(c.known) /\ Cardinality(c.known) <= Kept /\ b.current \notin out
    <3>1. CASE Full(b)
      <4>1. PICK q \in Droppable(b) : out = {q}
        BY <3>1
      <4>2. q \in b.known /\ q # b.current
        BY <4>1 DEF Droppable
      <4>3. IsFiniteSet(b.known \ {q}) /\ Cardinality(b.known \ {q}) = Cardinality(b.known) - 1
        BY <4>2, FS_RemoveElement DEF BoardOK
      <4>4. IsFiniteSet(c.known) /\ Cardinality(c.known) = Cardinality(b.known \ {q}) + 1
        <5>1. c.known = (b.known \ {q}) \union {p} /\ p \notin b.known \ {q}
          BY <1>2, <2>2, <4>1
        <5> QED BY <4>3, <5>1, FS_AddElement
      <4> QED BY <2>4, <4>1, <4>2, <4>3, <4>4 DEF BoardOK
    <3>2. CASE ~Full(b)
      <4>1. out = {} /\ c.known = b.known \union {p}
        BY <2>2, <3>2
      <4>2. IsFiniteSet(c.known) /\ Cardinality(c.known) = Cardinality(b.known) + 1
        <5>1. IsFiniteSet(b.known)
          BY DEF BoardOK
        <5> QED BY <1>2, <4>1, <5>1, FS_AddElement
      <4> QED BY <2>4, <3>2, <4>1, <4>2 DEF Full
    <3> QED BY <3>1, <3>2
  <2> QED BY <2>2, <2>3, <2>5 DEF BoardOK
<1> QED BY <1>1, <1>2

\* So does discovering one.
LEMMA DiscoveredOK ==
    ASSUME NEW b, BoardOK(b), NEW p \in Paths, NEW d \in Discovered(b, p)
    PROVE  BoardOK(d) /\ d.belief = b.belief
<1>1. PICK c \in Added(b, p) :
        d = [c EXCEPT !.misses[p] = 0, !.heard = @ \ {p},
                      !.current = IF @ = None \/ (@ # p /\ c.misses[@] >= Switch) THEN p ELSE @]
  BY DEF Discovered
<1>2. BoardOK(c) /\ p \in c.known /\ c.belief = b.belief
  BY AddedOK
<1>3. d.known = c.known /\ d.heard = c.heard \ {p} /\ d.belief = c.belief
  BY <1>1, <1>2 DEF BoardOK, Boards
<1>4. d.current \in {c.current, p} /\ d.current # None
  BY <1>1, <1>2, PathAssumption DEF BoardOK, Boards
<1>5. d.misses = [c.misses EXCEPT ![p] = 0]
  BY <1>1, <1>2 DEF BoardOK, Boards
<1>6. d.misses \in [Paths -> 0..Most]
  BY <1>2, <1>5, PathAssumption, MostNat DEF BoardOK, Boards
<1>7. d = [known |-> d.known, misses |-> d.misses, heard |-> d.heard, current |-> d.current, belief |-> d.belief]
  BY <1>1, <1>2 DEF BoardOK, Boards
<1> QED BY <1>2, <1>3, <1>4, <1>6, <1>7 DEF BoardOK, Boards

\* A miss changes counters only.
LEMMA MissedOK ==
    ASSUME NEW b, BoardOK(b), NEW p \in Paths
    PROVE  BoardOK(Missed(b, p)) /\ Missed(b, p).belief = b.belief
<1> DEFINE d == Missed(b, p)
<1>1. CASE p \notin b.known
  BY <1>1 DEF Missed
<1>2. CASE p \in b.known
  <2>1. d = [b EXCEPT !.misses[p] = IF @ < Most THEN @ + 1 ELSE @, !.heard = @ \ {p}]
    BY <1>2 DEF Missed
  <2> HIDE DEF d
  <2>2. d.known = b.known /\ d.heard = b.heard \ {p} /\ d.current = b.current /\ d.belief = b.belief
    BY <2>1 DEF BoardOK, Boards
  <2>3. d.misses = [b.misses EXCEPT ![p] = IF b.misses[p] < Most THEN b.misses[p] + 1 ELSE b.misses[p]]
    BY <2>1 DEF BoardOK, Boards
  <2>4. d.misses \in [Paths -> 0..Most]
    BY <2>3, PathAssumption, MostNat DEF BoardOK, Boards
  <2>5. d = [known |-> d.known, misses |-> d.misses, heard |-> d.heard, current |-> d.current, belief |-> d.belief]
    BY <2>1 DEF BoardOK, Boards
  <2>6. BoardOK(d) /\ d.belief = b.belief
    BY <2>2, <2>4, <2>5 DEF BoardOK, Boards
  <2> QED BY <2>6 DEF d
<1> QED BY <1>1, <1>2

\* The result of a send keeps the scoreboard in order.
LEMMA ResultOK ==
    ASSUME NEW b, BoardOK(b), NEW p \in Paths \union {None}, NEW ok \in BOOLEAN, NEW d \in Result(b, p, ok)
    PROVE  BoardOK(d) /\ d.belief = b.belief
<1>1. CASE p = None
  BY <1>1 DEF Result
<1>2. CASE p # None
  <2> DEFINE Noted(c) == [c EXCEPT !.misses[p] = IF ok THEN 0 ELSE @, !.heard = @ \ {p}]
             Switched(c) == IF c.current = None THEN {p} ELSE IF ok THEN {c.current, p} ELSE {c.current}
  <2>0. Result(b, p, ok) = UNION {{[Noted(c) EXCEPT !.current = cur] : cur \in Switched(c)} :
                                    c \in IF p \in b.known THEN {b} ELSE Added(b, p)}
    BY <1>2 DEF Result
  <2>a. PICK c \in (IF p \in b.known THEN {b} ELSE Added(b, p)) :
          d \in {[Noted(c) EXCEPT !.current = cur] : cur \in Switched(c)}
    BY <2>0
  <2>1. PICK cur \in Switched(c) : d = [Noted(c) EXCEPT !.current = cur]
    BY <2>a
  <2>2. BoardOK(c) /\ p \in c.known /\ c.belief = b.belief
    BY <1>2, AddedOK
  <2>3. cur \in c.known
    BY <2>1, <2>2 DEF BoardOK
  <2>4. d.known = c.known /\ d.heard = c.heard \ {p} /\ d.current = cur /\ d.belief = c.belief
    BY <2>1, <2>2 DEF BoardOK, Boards
  <2>5. d.misses = [c.misses EXCEPT ![p] = IF ok THEN 0 ELSE c.misses[p]]
    BY <2>1, <2>2 DEF BoardOK, Boards
  <2>6. d.misses \in [Paths -> 0..Most]
    BY <2>2, <2>5, PathAssumption, MostNat DEF BoardOK, Boards
  <2>7. d = [known |-> d.known, misses |-> d.misses, heard |-> d.heard, current |-> d.current, belief |-> d.belief]
    BY <2>1, <2>2 DEF BoardOK, Boards
  <2> QED BY <2>2, <2>3, <2>4, <2>6, <2>7 DEF BoardOK, Boards
<1> QED BY <1>1, <1>2
-----------------------------------------------------------------------------
(* The tasks. *)

\* The part of the type invariant that speaks of the tasks.
TaskOK ==
    /\ pc \in [Tasks -> States] /\ n \in [Tasks -> 0..Quick] /\ round \in [Tasks -> 0..Rounds]
    /\ path \in [Tasks -> Paths \union {None}] /\ leader \in [Tasks -> Tasks \union {None}]
    /\ pending \in Tasks \union {None} /\ tangled \in BOOLEAN

\* No task of the line moves, and no other joins those that should be in it.
LineStays == \A u \in Tasks : pc[u] \in {"set", "persist"} => pc'[u] = pc[u]

\* The line is as it was if none of its tasks moves.
LEMMA LineStaysOK ==
    ASSUME TypeOK, LineOK, LineStays, UNCHANGED line
    PROVE  LineOK'
<1>1. \A i \in DOMAIN line : line[i] \in Tasks
  BY DEF TypeOK
<1> QED BY <1>1 DEF LineOK, LineStays

\* What a task does when its discovery ends.
LEMMA AfterFacts ==
    ASSUME NEW u \in Tasks, NEW r, NEW k \in 0..Rounds
    PROVE  /\ After(u, r, k) \in {"send", "idle", "wait"}
           /\ After(u, r, k) = "wait" => k < Rounds
BY DEF After

\* The end of a discovery leaves no one behind, and the table in order.
LEMMA CompleteOK ==
    ASSUME TaskOK, FutureOK, RoundOK, NEW t \in Leaders, NEW r, Complete(t, r), UNCHANGED round
    PROVE  /\ TaskOK' /\ FutureOK' /\ RoundOK'
           /\ \A u \in Tasks \ {t} : pc[u] \in {"set", "persist"} => pc'[u] = pc[u]
           /\ tangled' \/ Leaders' = {}
           /\ ~Asks
<1> DEFINE E == EndsFor(t, r)
<1>1. t \in Tasks /\ pc[t] \in Leading /\ E \subseteq Tasks /\ t \in E
  BY DEF Leaders, EndsFor
<1>2. \A u \in Tasks : u \in E => pc'[u] \in {"send", "idle", "wait"} /\ leader'[u] = None
  BY <1>1, AfterFacts DEF Complete, TaskOK
<1>3. \A u \in Tasks : u \notin E => pc'[u] = pc[u] /\ leader'[u] = leader[u]
  BY DEF Complete, TaskOK
<1>4. \A u \in E : u = t \/ pc[u] = "follow"
  BY DEF EndsFor
<1>5. Leaders' = Leaders \ {t}
  BY <1>1, <1>2, <1>3, <1>4 DEF Leaders, Leading
<1>6. TaskOK'
  <2>1. pc' \in [Tasks -> States]
    BY <1>2, <1>3 DEF Complete, TaskOK, States
  <2>2. leader' \in [Tasks -> Tasks \union {None}]
    BY <1>2, <1>3 DEF Complete, TaskOK
  <2>3. tangled' \in BOOLEAN
    BY DEF Complete, TaskOK
  <2>4. n' \in [Tasks -> 0..Quick]
    <3>1. 0 \in 0..Quick
      BY PathAssumption
    <3> QED BY <3>1 DEF Complete, TaskOK
  <2> QED BY <2>1, <2>2, <2>3, <2>4 DEF Complete, TaskOK
<1>a. tangled' \/ Leaders' = {}
  <2>1. CASE Leaders = {t}
    BY <1>5, <2>1
  <2>2. CASE Leaders # {t}
    BY <2>2 DEF Complete, FutureOK
  <2> QED BY <2>1, <2>2
<1>b. ~Asks
  BY <1>1, <1>2, <1>3 DEF Asks, Complete, TaskOK
<1>7. FutureOK'
  <2>1. FollowersHaveLeader'
    <3> SUFFICES ASSUME NEW u \in Tasks, pc'[u] = "follow" PROVE leader'[u] \in Leaders'
      BY DEF FollowersHaveLeader
    <3>1. u \notin E /\ pc[u] = "follow" /\ leader'[u] = leader[u]
      BY <1>2, <1>3
    <3>2. leader[u] # t
      BY <3>1 DEF EndsFor
    <3> QED BY <1>5, <3>1, <3>2 DEF FutureOK, FollowersHaveLeader
  <2> QED BY <1>a, <2>1 DEF Complete, FutureOK
<1>8. RoundOK'
  BY <1>1, <1>2, <1>3, AfterFacts DEF Complete, RoundOK, TaskOK
<1>9. \A u \in Tasks \ {t} : pc[u] \in {"set", "persist"} => pc'[u] = pc[u]
  BY <1>3, <1>4
<1> QED BY <1>6, <1>7, <1>8, <1>9, <1>a, <1>b

\* A task that asks for a path follows the discovery in flight, or leads the only one.
LEMMA DiscoverOK ==
    ASSUME TaskOK, FutureOK, RoundOK, NEW t \in Tasks, pc[t] \in {"idle", "wait", "look"},
           NEW b, NEW k \in 0..Rounds, NEW c, Discover(t, b, k, c),
           round' \in [Tasks -> 0..Rounds], t \in Senders \/ round'[t] = k,
           \A u \in Tasks \ {t} : round'[u] = round[u]
    PROVE  TaskOK' /\ FutureOK' /\ RoundOK' /\ LineStays
<1>1. \A u \in Tasks \ {t} : pc'[u] = pc[u]
  BY DEF Discover, Lead, TaskOK
<1>2. LineStays
  BY <1>1 DEF LineStays
<1>3. path' \in [Tasks -> Paths \union {None}] /\ tangled' = tangled
  BY DEF Discover, TaskOK
<1>4. CASE Joinable /\ pc' = [pc EXCEPT ![t] = "follow"] /\ leader' = [leader EXCEPT ![t] = pending]
           /\ UNCHANGED <<n, pending>>
  <2>1. Leaders' = Leaders
    BY <1>4 DEF Leaders, Leading, TaskOK
  <2>2. TaskOK'
    BY <1>3, <1>4 DEF TaskOK, States
  <2>3. FutureOK'
    BY <1>3, <1>4, <2>1 DEF FutureOK, FollowersHaveLeader, Joinable, TaskOK
  <2>4. RoundOK'
    BY <1>4 DEF RoundOK, TaskOK
  <2> QED BY <1>2, <2>2, <2>3, <2>4
<1>5. CASE ~Joinable /\ pending' = t /\ UNCHANGED leader
           /\ IF c THEN Lead(t, "query", 1) ELSE Lead(t, "refresh", 0)
  <2>1. Leaders' = Leaders \union {t}
    BY <1>5 DEF Leaders, Leading, Lead, TaskOK
  <2>2. TaskOK'
    BY <1>3, <1>5, PathAssumption DEF TaskOK, States, Lead
  <2>3. FutureOK'
    BY <1>3, <1>5, <2>1, PathAssumption DEF FutureOK, FollowersHaveLeader, Joinable, Lead, TaskOK, Leaders
  <2>4. RoundOK'
    BY <1>5 DEF RoundOK, TaskOK, Lead
  <2> QED BY <1>2, <2>2, <2>3, <2>4
<1>6. CASE pc' = [pc EXCEPT ![t] = After(t, None, k)] /\ UNCHANGED <<n, leader, pending>>
  <2>1. After(t, None, k) \in {"send", "idle", "wait"} /\ (After(t, None, k) = "wait" => k < Rounds)
    BY AfterFacts
  <2>2. Leaders' = Leaders
    BY <1>6, <2>1 DEF Leaders, Leading, TaskOK
  <2>3. TaskOK'
    BY <1>3, <1>6, <2>1 DEF TaskOK, States
  <2>4. FutureOK'
    BY <1>3, <1>6, <2>1, <2>2 DEF FutureOK, FollowersHaveLeader, TaskOK
  <2>5. After(t, None, k) = "wait" => t \notin Senders
    BY DEF After
  <2>6. RoundOK'
    BY <1>6, <2>1, <2>5 DEF RoundOK, TaskOK
  <2> QED BY <1>2, <2>3, <2>4, <2>6
<1> QED BY <1>4, <1>5, <1>6 DEF Discover

\* A task that neither leads nor follows goes to a place that is neither.
LEMMA MoveOK ==
    ASSUME TaskOK, FutureOK, RoundOK, NEW t \in Tasks, pc[t] \notin Leading,
           NEW place \in States \ (Leading \union {"follow"}),
           place \in {"wait", "look"} => round[t] < Rounds,
           pc' = [pc EXCEPT ![t] = place], UNCHANGED <<n, round, leader, pending, tangled>>,
           path' \in [Tasks -> Paths \union {None}]
    PROVE  TaskOK' /\ FutureOK' /\ RoundOK'
<1>1. Leaders' = Leaders
  BY DEF Leaders, Leading, TaskOK
<1>2. TaskOK'
  BY DEF TaskOK
<1>3. FutureOK'
  BY <1>1 DEF FutureOK, FollowersHaveLeader, TaskOK
<1>4. RoundOK'
  BY DEF RoundOK, TaskOK
<1> QED BY <1>2, <1>3, <1>4

\* A leader goes on leading.
LEMMA LeadOK ==
    ASSUME TaskOK, FutureOK, RoundOK, NEW t \in Tasks, pc[t] \in Leading,
           NEW place \in Leading, NEW k \in 0..Quick, Lead(t, place, k),
           UNCHANGED <<round, leader, pending, tangled>>, path' \in [Tasks -> Paths \union {None}]
    PROVE  TaskOK' /\ FutureOK' /\ RoundOK'
<1>1. Leaders' = Leaders
  BY DEF Leaders, Leading, Lead, TaskOK
<1>2. TaskOK'
  BY DEF TaskOK, Lead, Leading, States
<1>3. FutureOK'
  BY <1>1 DEF FutureOK, FollowersHaveLeader, Lead, Leading, TaskOK
<1>4. RoundOK'
  BY DEF RoundOK, Lead, Leading, TaskOK
<1> QED BY <1>2, <1>3, <1>4

\* A task that comes to wait for its set command joins the line.
LEMMA LineGrows ==
    ASSUME TypeOK, LineOK, NEW t \in Tasks, pc[t] \notin {"set", "persist"}, pc'[t] \in {"set", "persist"},
           \A u \in Tasks \ {t} : pc'[u] = pc[u], line' = Append(line, t)
    PROVE  LineOK' /\ line' \in Seq(Tasks)
<1>1. line \in Seq(Tasks) /\ Len(line) \in Nat /\ DOMAIN line = 1..Len(line)
  BY DEF TypeOK
<1>2. line' \in Seq(Tasks) /\ DOMAIN line' = 1..(Len(line) + 1)
  BY <1>1
<1>3. \A i \in 1..Len(line) : line'[i] = line[i] /\ line[i] \in Tasks /\ line[i] # t
  BY <1>1 DEF LineOK
<1>4. line'[Len(line) + 1] = t
  BY <1>1
<1>5. \A i \in DOMAIN line' : i \in 1..Len(line) \/ i = Len(line) + 1
  BY <1>1, <1>2
<1>6. \A i \in DOMAIN line' : pc'[line'[i]] \in {"set", "persist"}
  BY <1>1, <1>3, <1>4, <1>5 DEF LineOK
<1>7. \A i, j \in DOMAIN line' : line'[i] = line'[j] => i = j
  BY <1>1, <1>3, <1>4, <1>5 DEF LineOK
<1> QED BY <1>2, <1>6, <1>7 DEF LineOK

\* The first of the line leaves it.
LEMMA LineShrinks ==
    ASSUME TypeOK, LineOK, line # <<>>, NEW t, t = Head(line), line' = Tail(line),
           \A u \in Tasks \ {t} : pc[u] \in {"set", "persist"} => pc'[u] = pc[u]
    PROVE  LineOK' /\ line' \in Seq(Tasks) /\ t \in Tasks /\ pc[t] \in {"set", "persist"}
<1>1. line \in Seq(Tasks) /\ Len(line) \in Nat \ {0} /\ DOMAIN line = 1..Len(line)
  BY DEF TypeOK
<1>2. line' \in Seq(Tasks) /\ DOMAIN line' = 1..(Len(line) - 1)
  BY <1>1
<1>3. \A i \in 1..(Len(line) - 1) : line'[i] = line[i + 1] /\ i + 1 \in DOMAIN line
  BY <1>1
<1>4. 1 \in DOMAIN line /\ t = line[1]
  BY <1>1
<1>5. \A i \in DOMAIN line' : line'[i] \in Tasks \ {t} /\ pc[line'[i]] \in {"set", "persist"}
  BY <1>1, <1>2, <1>3, <1>4 DEF LineOK
<1>6. \A i, j \in DOMAIN line' : line'[i] = line'[j] => i = j
  BY <1>2, <1>3 DEF LineOK
<1> QED BY <1>1, <1>2, <1>4, <1>5, <1>6 DEF LineOK

-----------------------------------------------------------------------------
(* The steps. *)

\* The part of the type invariant that speaks of nothing but the tables and the world.
RestOK ==
    /\ {bound, contact, online, backoff} \subseteq BOOLEAN
    /\ resolved \in Paths \union {None} /\ fails \in 0..Overflow
    /\ line \in Seq(Tasks) /\ device \in Paths \union {None}

\* Inv, its parts put together again.
LEMMA InvParts ==
    /\ Inv => TaskOK /\ RestOK /\ BoardOK(board) /\ LineOK /\ FutureOK /\ RoundOK /\ BeliefTrue
    /\ TaskOK' /\ RestOK' /\ BoardOK(board)' /\ LineOK' /\ FutureOK' /\ RoundOK' /\ BeliefTrue' => Inv'
BY DEF Inv, TypeOK, TaskOK, RestOK, BoardOK

\* A read of the contacts.
LEMMA RefreshedOK == ASSUME Inv, NEW t \in Tasks, Refreshed(t) PROVE Inv'
<1>1. TaskOK /\ RestOK /\ FutureOK /\ RoundOK /\ t \in Leaders /\ pc[t] \in Leading
  BY InvParts DEF Refreshed, Leaders, Leading
<1>2. TaskOK' /\ FutureOK' /\ RoundOK' /\ LineStays
  <2>1. CASE Lead(t, "query", 1) /\ UNCHANGED <<leader, path, pending, tangled>>
    <3>1. "query" \in Leading /\ 1 \in 0..Quick
      BY PathAssumption DEF Leading
    <3>2. TaskOK' /\ FutureOK' /\ RoundOK'
      BY <1>1, <2>1, <3>1, LeadOK DEF Refreshed, TaskOK
    <3> QED BY <1>1, <2>1, <3>2 DEF LineStays, Lead, Refreshed, TaskOK
  <2>2. CASE Complete(t, None)
    BY <1>1, <2>2, CompleteOK DEF LineStays, Refreshed
  <2> QED BY <2>1, <2>2 DEF Refreshed
<1>3. LineOK'
  BY <1>2, LineStaysOK DEF Inv, Refreshed
<1>4. RestOK' /\ BoardOK(board)' /\ BeliefTrue'
  BY <1>1 DEF Inv, Refreshed, RestOK, BeliefTrue
<1> QED BY <1>2, <1>3, <1>4, InvParts

\* An answer: the leader joins the line with the path it got.
LEMMA AnsweredOK == ASSUME Inv, NEW t \in Tasks, NEW p \in Paths, Answered(t, p) PROVE Inv'
<1>1. TaskOK /\ RestOK /\ FutureOK /\ RoundOK /\ pc[t] \in Leading
  BY InvParts DEF Answered, Leading
<1>2. TaskOK' /\ FutureOK' /\ RoundOK'
  <2>1. "persist" \in Leading /\ 0 \in 0..Quick
    BY PathAssumption DEF Leading
  <2>2. path' \in [Tasks -> Paths \union {None}] /\ UNCHANGED <<round, leader, pending, tangled>>
    BY <1>1 DEF Answered, TaskOK
  <2>3. Lead(t, "persist", 0)
    BY DEF Answered
  <2> QED BY <1>1, <2>1, <2>2, <2>3, LeadOK
<1>3. LineOK' /\ line' \in Seq(Tasks)
  BY <1>1, LineGrows DEF Inv, Answered, Lead, TaskOK
<1>4. BoardOK(board)' /\ BeliefTrue'
  <2>1. board' \in Discovered(board, p) /\ BoardOK(board)
    BY DEF Answered, Inv
  <2>2. BoardOK(board') /\ board'.belief = board.belief
    BY <2>1, DiscoveredOK
  <2> QED BY <2>2 DEF Answered, BeliefTrue, Inv, BoardOK
<1>5. RestOK'
  <2>1. 0 \in 0..Overflow
    BY PathAssumption
  <2> QED BY <1>1, <1>3, <2>1 DEF Answered, RestOK, world
<1> QED BY <1>2, <1>3, <1>4, <1>5, InvParts

\* No answer: another attempt, or the end of the discovery.
LEMMA UnansweredOK == ASSUME Inv, NEW t \in Tasks, Unanswered(t) PROVE Inv'
<1>1. TaskOK /\ RestOK /\ FutureOK /\ RoundOK /\ t \in Leaders /\ pc[t] \in Leading
  BY InvParts DEF Unanswered, Leaders, Leading
<1>2. TaskOK' /\ FutureOK' /\ RoundOK' /\ LineStays
  <2>1. CASE AttemptsLeft(t) /\ Lead(t, "query", n[t] + 1) /\ UNCHANGED <<leader, path, pending, tangled>>
    <3>1. "query" \in Leading /\ n[t] + 1 \in 0..Quick
      BY <1>1, <2>1, PathAssumption DEF Leading, AttemptsLeft, TaskOK
    <3>2. path' \in [Tasks -> Paths \union {None}] /\ UNCHANGED round
      BY <1>1, <2>1 DEF Unanswered, TaskOK
    <3>3. TaskOK' /\ FutureOK' /\ RoundOK'
      BY <1>1, <2>1, <3>1, <3>2, LeadOK
    <3> QED BY <1>1, <2>1, <3>3 DEF LineStays, Lead, Unanswered, TaskOK
  <2>2. ASSUME NEW r, Complete(t, r) PROVE TaskOK' /\ FutureOK' /\ RoundOK' /\ LineStays
    <3>1. UNCHANGED round
      BY DEF Unanswered
    <3>2. TaskOK' /\ FutureOK' /\ RoundOK' /\ \A u \in Tasks \ {t} : pc[u] \in {"set", "persist"} => pc'[u] = pc[u]
      BY <1>1, <2>2, <3>1, CompleteOK
    <3> QED BY <3>2 DEF LineStays, Unanswered
  <2> QED BY <2>1, <2>2 DEF Unanswered
<1>3. LineOK'
  BY <1>2, LineStaysOK DEF Inv, Unanswered
<1>4. RestOK'
  <2>1. fails' \in 0..Overflow
    BY <1>1, PathAssumption DEF Unanswered, RestOK
  <2>2. backoff' \in BOOLEAN
    BY <1>1 DEF Unanswered, RestOK
  <2>3. UNCHANGED <<bound, contact, online, resolved, line, device>>
    BY DEF Unanswered, world
  <2> QED BY <1>1, <2>1, <2>2, <2>3 DEF RestOK
<1>5. BoardOK(board)' /\ BeliefTrue'
  BY DEF Inv, Unanswered, BeliefTrue, BoardOK
<1> QED BY <1>2, <1>3, <1>4, <1>5, InvParts

\* The first set command of the line is done.
LEMMA SetDoneOK == ASSUME Inv, NEW t \in Tasks, NEW ok \in BOOLEAN, SetDone(t, ok) PROVE Inv'
<1>1. TaskOK /\ RestOK /\ BoardOK(board) /\ FutureOK /\ RoundOK /\ BeliefTrue
  BY InvParts
<1>2. pc[t] \in {"set", "persist"}
  <2>1. line \in Seq(Tasks) /\ line # <<>> /\ t = Head(line)
    BY <1>1 DEF SetDone, RestOK
  <2>2. 1 \in DOMAIN line /\ t = line[1]
    BY <2>1
  <2> QED BY <2>2 DEF Inv, LineOK
<1>3. /\ TaskOK' /\ FutureOK' /\ RoundOK'
      /\ \A u \in Tasks \ {t} : pc[u] \in {"set", "persist"} => pc'[u] = pc[u]
  <2>1. CASE pc[t] = "set"
    <3>1. pc[t] \notin Leading /\ "send" \in States \ (Leading \union {"follow"})
      BY <2>1 DEF Leading, States
    <3>2. pc' = [pc EXCEPT ![t] = "send"] /\ UNCHANGED <<n, round, leader, pending, tangled>>
      BY <2>1 DEF SetDone
    <3>3. path' \in [Tasks -> Paths \union {None}]
      BY <1>1, <2>1 DEF SetDone, TaskOK
    <3>4. TaskOK' /\ FutureOK' /\ RoundOK'
      BY <1>1, <3>1, <3>2, <3>3, MoveOK
    <3> QED BY <1>1, <3>2, <3>4 DEF TaskOK
  <2>2. CASE pc[t] = "persist"
    <3>1. Complete(t, path[t]) /\ UNCHANGED round /\ t \in Leaders
      BY <2>2 DEF SetDone, Leaders, Leading
    <3> QED BY <1>1, <3>1, CompleteOK
  <2> QED BY <1>2, <2>1, <2>2
<1>4. LineOK' /\ line' \in Seq(Tasks)
  BY <1>3, LineShrinks DEF Inv, SetDone
<1>5. path[t] \in Paths \union {None}
  BY <1>1 DEF TaskOK
<1>6. RestOK'
  BY <1>1, <1>4, <1>5 DEF SetDone, RestOK, world
<1>7. BoardOK(board)' /\ BeliefTrue'
  <2>1. board' = [board EXCEPT !.belief = BeliefAfter(path[t], ok)] /\ device' = IF ok THEN path[t] ELSE device
    BY DEF SetDone
  <2>2. BeliefAfter(path[t], ok) \in Paths \union {None}
    BY <1>1, <1>5 DEF BeliefAfter, BoardOK, Boards
  <2>3. BoardOK(board')
    BY <1>1, <2>1, <2>2 DEF BoardOK, Boards
  <2>4. board'.belief = BeliefAfter(path[t], ok)
    BY <1>1, <2>1 DEF BoardOK, Boards
  <2>5. BeliefTrue'
    BY <1>1, <2>1, <2>4 DEF BeliefTrue, BeliefAfter
  <2> QED BY <2>3, <2>5 DEF BoardOK, Boards
<1> QED BY <1>3, <1>4, <1>6, <1>7, InvParts

\* The steps of an attempt: a task that neither leads nor waits in line moves, and
\* the scoreboard, if at all, as for a result.
LEMMA AttemptOK ==
    ASSUME Inv, NEW t \in Tasks, pc[t] \notin Leading, pc[t] \notin {"set", "persist"},
           NEW place \in {"air", "send", "idle", "look"}, place = "look" => round[t] < Rounds,
           pc' = [pc EXCEPT ![t] = place], path' \in [Tasks -> Paths \union {None}],
           UNCHANGED <<n, round, leader, world, resolved, fails, backoff, pending, line, device, tangled>>,
           BoardOK(board'), board'.belief = board.belief
    PROVE  Inv'
<1>1. TaskOK /\ RestOK /\ LineOK /\ FutureOK /\ RoundOK /\ BeliefTrue
  BY InvParts
<1>2. TaskOK' /\ FutureOK' /\ RoundOK'
  <2>1. place \in States \ (Leading \union {"follow"})
    BY DEF States, Leading
  <2> QED BY <1>1, <2>1, MoveOK
<1>3. LineOK'
  <2>1. LineStays
    BY <1>1 DEF LineStays, TaskOK
  <2> QED BY <2>1, LineStaysOK DEF Inv
<1>4. RestOK' /\ BeliefTrue' /\ BoardOK(board)'
  <2>1. RestOK' /\ BeliefTrue'
    BY <1>1 DEF RestOK, BeliefTrue, world
  <2> QED BY <2>1 DEF BoardOK, Boards
<1> QED BY <1>2, <1>3, <1>4, InvParts

\* A frame goes on the air.
LEMMA TransmitOK == ASSUME Inv, NEW t \in Tasks, Transmit(t) PROVE Inv'
<1>1. path' \in [Tasks -> Paths \union {None}]
  BY DEF Transmit, Inv, TypeOK
<1>2. BoardOK(board') /\ board'.belief = board.belief
  BY DEF Transmit, Inv, tables
<1> QED BY <1>1, <1>2, AttemptOK DEF Transmit, tables, Leading

\* An attempt ends, the scoreboard kept in order.
LEMMA EndAttemptOK ==
    ASSUME Inv, NEW t \in Tasks, NEW place \in {"send", "idle"}, EndAttempt(t, place),
           BoardOK(board'), board'.belief = board.belief
    PROVE  Inv'
<1>1. path' \in [Tasks -> Paths \union {None}]
  BY DEF EndAttempt, Inv, TypeOK
<1> QED BY <1>1, AttemptOK DEF EndAttempt, Leading

\* An attempt succeeds.
LEMMA HeardOK == ASSUME Inv, NEW t \in Tasks, Heard(t) PROVE Inv'
<1>1. BoardOK(board') /\ board'.belief = board.belief
  <2>1. board' \in Result(board, resolved, TRUE) /\ BoardOK(board) /\ resolved \in Paths \union {None}
    BY DEF Heard, Inv, TypeOK
  <2> QED BY <2>1, ResultOK
<1> QED BY <1>1, EndAttemptOK DEF Heard

\* An attempt is a miss.
LEMMA SilentOK == ASSUME Inv, NEW t \in Tasks, Silent(t) PROVE Inv'
<1> DEFINE b == IF resolved = None THEN board ELSE Missed(board, resolved)
<1>1. BoardOK(board) /\ resolved \in Paths \union {None}
  BY DEF Inv, TypeOK
<1>2. BoardOK(b) /\ b.belief = board.belief
  BY <1>1, MissedOK
<1> HIDE DEF b
<1>3. CASE EndAttempt(t, "send") /\ board' = b
  BY <1>2, <1>3, EndAttemptOK
<1>4. CASE EndAttempt(t, "idle") /\ board' \in Result(b, resolved, FALSE)
  <2>1. BoardOK(board') /\ board'.belief = board.belief
    BY <1>1, <1>2, <1>4, ResultOK
  <2> QED BY <1>4, <2>1, EndAttemptOK
<1> QED BY <1>3, <1>4 DEF Silent, b

\* An attempt is no evidence.
LEMMA VoidOK == ASSUME Inv, NEW t \in Tasks, Void(t) PROVE Inv'
<1>1. BoardOK(board') /\ board'.belief = board.belief
  BY DEF Inv, Void
<1>2. PICK place \in {"send", "idle"} : EndAttempt(t, place)
  BY DEF Void
<1> QED BY <1>1, <1>2, EndAttemptOK

\* A send is given up.
LEMMA GiveUpOK == ASSUME Inv, NEW t \in Tasks, GiveUp(t) PROVE Inv'
<1>1. path' \in [Tasks -> Paths \union {None}]
  BY DEF GiveUp, Inv, TypeOK
<1>2. BoardOK(board') /\ board'.belief = board.belief
  BY DEF GiveUp, Inv, tables
<1> QED BY <1>1, <1>2, AttemptOK DEF GiveUp, tables, Leading

\* What _select_path works on, and what it may choose.
LEMMA RefilledOK ==
    ASSUME Inv, NEW b \in Refilled, NEW c \in Choices(b)
    PROVE  BoardOK(b) /\ b.belief = board.belief /\ (c = None \/ c \in b.known) /\ c \in Paths \union {None}
<1>1. BoardOK(board) /\ resolved \in Paths \union {None}
  BY DEF Inv, TypeOK
<1>2. CASE b = board
  BY <1>1, <1>2 DEF Choices, BoardOK, Boards
<1>3. CASE resolved \in Paths /\ b \in {[d EXCEPT !.current = IF @ = None THEN resolved ELSE @] : d \in Added(board, resolved)}
  <2>1. PICK d \in Added(board, resolved) : b = [d EXCEPT !.current = IF @ = None THEN resolved ELSE @]
    BY <1>3
  <2>2. BoardOK(d) /\ resolved \in d.known /\ d.belief = board.belief
    BY <1>1, <1>3, AddedOK
  <2>3. b.known = d.known /\ b.belief = d.belief /\ b.misses = d.misses /\ b.heard = d.heard
        /\ b.current \in {d.current, resolved}
    BY <2>1, <2>2 DEF BoardOK, Boards
  <2>4. BoardOK(b)
    BY <1>1, <1>3, <2>1, <2>2, <2>3 DEF BoardOK, Boards
  <2> QED BY <2>2, <2>3, <2>4 DEF Choices, BoardOK, Boards
<1> QED BY <1>1, <1>2, <1>3 DEF Refilled

\* A send chooses its path, or asks for one.
LEMMA SelectOK == ASSUME Inv, NEW t \in Senders, Select(t) PROVE Inv'
<1>1. TaskOK /\ RestOK /\ LineOK /\ FutureOK /\ RoundOK /\ BeliefTrue /\ t \in Tasks /\ pc[t] = "idle"
  BY InvParts DEF Select, Tasks
<1>a. PICK b \in Refilled : \E c \in Choices(b) :
         /\ resolved' = c
         /\ board' = IF b.current = None THEN [b EXCEPT !.current = c] ELSE b
         /\ IF c = None THEN Discover(t, backoff, 0, contact) /\ UNCHANGED line
            ELSE /\ UNCHANGED <<n, leader, pending, tangled>>
                 /\ IF b.belief # c /\ contact
                    THEN /\ pc' = [pc EXCEPT ![t] = "set"]
                         /\ path' = [path EXCEPT ![t] = c]
                         /\ line' = Append(line, t)
                    ELSE /\ pc' = [pc EXCEPT ![t] = IF contact THEN "send" ELSE "idle"]
                         /\ UNCHANGED <<path, line>>
  BY DEF Select
<1>2. PICK c \in Choices(b) :
         /\ resolved' = c
         /\ board' = IF b.current = None THEN [b EXCEPT !.current = c] ELSE b
         /\ IF c = None THEN Discover(t, backoff, 0, contact) /\ UNCHANGED line
            ELSE /\ UNCHANGED <<n, leader, pending, tangled>>
                 /\ IF b.belief # c /\ contact
                    THEN /\ pc' = [pc EXCEPT ![t] = "set"]
                         /\ path' = [path EXCEPT ![t] = c]
                         /\ line' = Append(line, t)
                    ELSE /\ pc' = [pc EXCEPT ![t] = IF contact THEN "send" ELSE "idle"]
                         /\ UNCHANGED <<path, line>>
  BY <1>a
<1>3. BoardOK(b) /\ b.belief = board.belief /\ (c = None \/ c \in b.known) /\ c \in Paths \union {None}
  BY RefilledOK
<1>4. BoardOK(board') /\ board'.belief = board.belief
  BY <1>2, <1>3 DEF BoardOK, Boards
<1>5. BoardOK(board)' /\ BeliefTrue'
  BY <1>1, <1>4 DEF BoardOK, Boards, BeliefTrue, Select
<1>6. UNCHANGED <<round, world, fails, backoff, device>>
  BY DEF Select
<1>7. TaskOK' /\ FutureOK' /\ RoundOK' /\ LineOK' /\ line' \in Seq(Tasks)
  <2>1. CASE c = None
    <3>1. Discover(t, backoff, 0, contact) /\ UNCHANGED line
      BY <1>2, <2>1
    <3>2. 0 \in 0..Rounds /\ round' \in [Tasks -> 0..Rounds] /\ \A u \in Tasks \ {t} : round'[u] = round[u]
      BY <1>1, <1>6, PathAssumption DEF TaskOK
    <3>3. TaskOK' /\ FutureOK' /\ RoundOK' /\ LineStays
      BY <1>1, <3>1, <3>2, DiscoverOK
    <3> QED BY <1>1, <3>1, <3>3, LineStaysOK DEF Inv, RestOK
  <2>2. CASE c # None /\ b.belief # c /\ contact
    <3>1. pc' = [pc EXCEPT ![t] = "set"] /\ path' = [path EXCEPT ![t] = c] /\ line' = Append(line, t)
          /\ UNCHANGED <<n, leader, pending, tangled>>
      BY <1>2, <2>2
    <3>2. "set" \in States \ (Leading \union {"follow"}) /\ pc[t] \notin Leading
      BY <1>1 DEF States, Leading
    <3>3. path' \in [Tasks -> Paths \union {None}]
      BY <1>1, <1>3, <3>1 DEF TaskOK
    <3>4. TaskOK' /\ FutureOK' /\ RoundOK'
      BY <1>1, <1>6, <3>1, <3>2, <3>3, MoveOK
    <3>5. LineOK' /\ line' \in Seq(Tasks)
      BY <1>1, <3>1, LineGrows DEF Inv, TaskOK
    <3> QED BY <3>4, <3>5
  <2>3. CASE c # None /\ ~(b.belief # c /\ contact)
    <3> DEFINE place == IF contact THEN "send" ELSE "idle"
    <3>1. pc' = [pc EXCEPT ![t] = place] /\ UNCHANGED <<path, line, n, leader, pending, tangled>>
      BY <1>2, <2>3
    <3>2. place \in States \ (Leading \union {"follow"}) /\ pc[t] \notin Leading /\ place \notin {"wait", "look"}
      BY <1>1 DEF States, Leading
    <3> HIDE DEF place
    <3>3. path' \in [Tasks -> Paths \union {None}]
      BY <1>1, <3>1 DEF TaskOK
    <3>4. TaskOK' /\ FutureOK' /\ RoundOK'
      BY <1>1, <1>6, <3>1, <3>2, <3>3, MoveOK
    <3>5. LineStays
      BY <1>1, <3>1 DEF LineStays, TaskOK
    <3> QED BY <1>1, <3>1, <3>4, <3>5, LineStaysOK DEF Inv, RestOK
  <2> QED BY <2>1, <2>2, <2>3
<1>8. RestOK'
  BY <1>1, <1>2, <1>3, <1>6, <1>7 DEF RestOK, world
<1> QED BY <1>5, <1>7, <1>8, InvParts

\* A peer is bound, and its path asked for.
LEMMA BindOK == ASSUME Inv, NEW t \in Binders, Bind(t) PROVE Inv'
<1>1. TaskOK /\ RestOK /\ FutureOK /\ RoundOK /\ t \in Tasks /\ pc[t] = "idle"
  BY InvParts DEF Bind, Tasks
<1>2. TaskOK' /\ FutureOK' /\ RoundOK' /\ LineStays
  <2>1. 0 \in 0..Rounds
    BY PathAssumption
  <2>2. round' \in [Tasks -> 0..Rounds] /\ round'[t] = 0 /\ \A u \in Tasks \ {t} : round'[u] = round[u]
    BY <1>1, <2>1 DEF Bind, TaskOK
  <2>3. Discover(t, backoff, 0, contact)
    BY DEF Bind
  <2> QED BY <1>1, <2>1, <2>2, <2>3, DiscoverOK
<1>3. LineOK'
  BY <1>2, LineStaysOK DEF Inv, Bind
<1>4. RestOK' /\ BoardOK(board)' /\ BeliefTrue'
  BY <1>1 DEF Inv, Bind, RestOK, BeliefTrue, BoardOK
<1> QED BY <1>2, <1>3, <1>4, InvParts

\* A round asks anew.
LEMMA AskAgainOK ==
    ASSUME Inv, NEW t \in Tasks, pc[t] \in {"wait", "look"}, contact' \in BOOLEAN, AskAgain(t)
    PROVE  Inv'
<1>1. TaskOK /\ RestOK /\ FutureOK /\ RoundOK
  BY InvParts
<1>2. TaskOK' /\ FutureOK' /\ RoundOK' /\ LineStays
  <2>1. round[t] + 1 \in 0..Rounds
    BY <1>1, PathAssumption DEF TaskOK, RoundOK
  <2>2. /\ round' \in [Tasks -> 0..Rounds] /\ round'[t] = round[t] + 1
        /\ \A u \in Tasks \ {t} : round'[u] = round[u]
    BY <1>1, <2>1 DEF AskAgain, TaskOK
  <2>3. Discover(t, FALSE, round[t] + 1, contact')
    BY DEF AskAgain
  <2> QED BY <1>1, <2>1, <2>2, <2>3, DiscoverOK
<1>3. LineOK'
  BY <1>2, LineStaysOK DEF Inv, AskAgain
<1>4. RestOK' /\ BoardOK(board)' /\ BeliefTrue'
  <2>1. 0 \in 0..Overflow
    BY PathAssumption
  <2> QED BY <1>1, <2>1 DEF Inv, AskAgain, RestOK, BeliefTrue, BoardOK
<1> QED BY <1>2, <1>3, <1>4, InvParts

\* A post-bind round begins.
LEMMA RoundStepOK == ASSUME Inv, NEW t \in Tasks, Round(t) PROVE Inv'
<1>1. CASE UNCHANGED contact /\ AskAgain(t)
  BY <1>1, AskAgainOK DEF Round, Inv, TypeOK
<1>2. CASE /\ pc' = [pc EXCEPT ![t] = IF online /\ bound /\ resolved = None THEN "look" ELSE "idle"]
           /\ UNCHANGED <<n, round, path, leader, world, tables, line, device, tangled>>
  <2> DEFINE place == IF online /\ bound /\ resolved = None THEN "look" ELSE "idle"
  <2>1. pc' = [pc EXCEPT ![t] = place] /\ place \in {"air", "send", "idle", "look"}
    BY <1>2
  <2> HIDE DEF place
  <2>2. round[t] < Rounds /\ path' \in [Tasks -> Paths \union {None}] /\ BoardOK(board') /\ board'.belief = board.belief
    BY <1>2 DEF Round, Inv, RoundOK, TypeOK, tables
  <2> QED BY <1>2, <2>1, <2>2, AttemptOK DEF Round, Leading, tables
<1> QED BY <1>1, <1>2 DEF Round

\* The contact refresh of a round is over.
LEMMA LookedOK == ASSUME Inv, NEW t \in Tasks, Looked(t) PROVE Inv'
<1>1. contact' \in BOOLEAN
  BY DEF Looked, Inv, TypeOK
<1>2. CASE AskAgain(t)
  BY <1>1, <1>2, AskAgainOK DEF Looked
<1>3. CASE /\ pc' = [pc EXCEPT ![t] = "idle"]
           /\ UNCHANGED <<n, round, path, leader, bound, online, tables, line, device, tangled>>
  <2>1. TaskOK /\ RestOK /\ FutureOK /\ RoundOK /\ pc[t] = "look"
    BY InvParts DEF Looked
  <2>2. TaskOK' /\ FutureOK' /\ RoundOK'
    <3>1. "idle" \in States \ (Leading \union {"follow"}) /\ pc[t] \notin Leading
      BY <2>1 DEF States, Leading
    <3>2. path' \in [Tasks -> Paths \union {None}] /\ UNCHANGED <<n, round, leader, pending, tangled>>
      BY <1>3, <2>1 DEF TaskOK, tables
    <3> QED BY <1>3, <2>1, <3>1, <3>2, MoveOK
  <2>3. LineOK'
    <3>1. LineStays
      BY <1>3, <2>1 DEF LineStays, TaskOK
    <3> QED BY <1>3, <3>1, LineStaysOK DEF Inv
  <2>4. RestOK' /\ BoardOK(board)' /\ BeliefTrue'
    BY <1>1, <1>3, <2>1 DEF Inv, RestOK, BeliefTrue, BoardOK, tables
  <2> QED BY <2>2, <2>3, <2>4, InvParts
<1> QED BY <1>2, <1>3 DEF Looked

\* The steps of no task: the tasks stay where they are.
LEMMA WorldOK ==
    ASSUME Inv, UNCHANGED task, UNCHANGED line, RestOK', BoardOK(board'),
           board'.belief # None => board'.belief = device', tangled' \in BOOLEAN,
           pending' \in {pending, None}, tangled' \/ (pending' = pending /\ ~tangled) \/ Leaders = {}
    PROVE  Inv'
<1>1. TaskOK /\ RestOK /\ FutureOK /\ RoundOK /\ LineOK
  BY InvParts
<1>2. Leaders' = Leaders
  BY DEF Leaders, task
<1>3. TaskOK' /\ RoundOK'
  BY <1>1 DEF TaskOK, RoundOK, task
<1>4. FutureOK'
  BY <1>1, <1>2 DEF FutureOK, FollowersHaveLeader, task
<1>5. LineOK'
  BY <1>1 DEF LineOK, task
<1>6. BoardOK(board)' /\ BeliefTrue'
  BY DEF BoardOK, Boards, BeliefTrue
<1> QED BY <1>3, <1>4, <1>5, <1>6, InvParts

\* A path is learnt.
LEMMA LearnOK == ASSUME Inv, NEW p \in Paths, Learn(p) PROVE Inv'
<1>1. TaskOK /\ RestOK /\ BoardOK(board) /\ BeliefTrue
  BY InvParts
<1>2. BoardOK(board') /\ board'.belief = board.belief
  BY <1>1, AddedOK DEF Learn
<1>3. RestOK'
  BY <1>1 DEF Learn, RestOK, world
<1> QED BY <1>1, <1>2, <1>3, WorldOK DEF Learn, BeliefTrue, TaskOK

\* The peer is forgotten.
LEMMA ForgetOK == ASSUME Inv, Forget PROVE Inv'
<1>1. RestOK
  BY InvParts
<1>2. RestOK'
  <2>1. 0 \in 0..Overflow
    BY PathAssumption
  <2> QED BY <1>1, <2>1 DEF Forget, RestOK
<1>3. BoardOK(EmptyBoard) /\ EmptyBoard.belief = None
  <2>1. Cardinality({}) = 0 /\ IsFiniteSet({})
    BY FS_EmptySet
  <2>2. [p \in Paths |-> 0] \in [Paths -> 0..Most]
    BY PathAssumption, MostNat
  <2> QED BY <2>1, <2>2, PathAssumption DEF EmptyBoard, BoardOK, Boards
<1> QED BY <1>2, <1>3, WorldOK DEF Forget

\* The radio goes or comes.
LEMMA RadioOK == ASSUME Inv, Radio PROVE Inv'
<1>1. TaskOK /\ RestOK /\ BoardOK(board) /\ BeliefTrue
  BY InvParts
<1>2. RestOK'
  BY <1>1 DEF Radio, RestOK, tables
<1> QED BY <1>1, <1>2, WorldOK DEF Radio, BeliefTrue, TaskOK, tables

\* The back-off is over.
LEMMA BackoffEndsOK == ASSUME Inv, BackoffEnds PROVE Inv'
<1>1. TaskOK /\ RestOK /\ BoardOK(board) /\ BeliefTrue
  BY InvParts
<1>2. RestOK'
  BY <1>1 DEF BackoffEnds, RestOK, world
<1> QED BY <1>1, <1>2, WorldOK DEF BackoffEnds, BeliefTrue, TaskOK

\* Inv at the start.
LEMMA InitOK == Init => Inv
<1> SUFFICES ASSUME Init PROVE Inv
  OBVIOUS
<1>1. 0 \in 0..Quick /\ 0 \in 0..Rounds /\ 0 \in 0..Overflow /\ 0 \in 0..Most
  BY PathAssumption, MostNat
<1>2. BoardOK(board) /\ BeliefTrue
  <2>1. Cardinality({}) = 0 /\ IsFiniteSet({})
    BY FS_EmptySet
  <2>2. [p \in Paths |-> 0] \in [Paths -> 0..Most]
    BY <1>1
  <2> QED BY <2>1, <2>2, PathAssumption DEF Init, EmptyBoard, BoardOK, Boards, BeliefTrue
<1>3. TypeOK
  <2>1. TaskOK
    BY <1>1 DEF Init, TaskOK, States
  <2>2. line \in Seq(Tasks)
    BY DEF Init
  <2>3. RestOK
    BY <1>1, <2>2 DEF Init, RestOK
  <2> QED BY <1>2, <2>1, <2>3 DEF TypeOK, TaskOK, RestOK, BoardOK
<1>4. Leaders = {} /\ LineOK /\ FutureOK /\ RoundOK
  BY PathAssumption DEF Init, Leaders, Leading, LineOK, FutureOK, FollowersHaveLeader, RoundOK
<1> QED BY <1>2, <1>3, <1>4 DEF Inv

-----------------------------------------------------------------------------
(* The theorems. *)

\* Inv holds of every state the sends, the binders, the sweep and the radio lead to.
THEOREM Invariance == Spec => []Inv
<1>1. ASSUME Inv, [Next]_vars PROVE Inv'
  <2>1. ASSUME NEW t \in Tasks, Step(t) PROVE Inv'
    <3>1. CASE Refreshed(t) BY <1>1, <3>1, RefreshedOK
    <3>2. ASSUME NEW p \in Paths, Answered(t, p) PROVE Inv' BY <1>1, <3>2, AnsweredOK
    <3>3. CASE Unanswered(t) BY <1>1, <3>3, UnansweredOK
    <3>4. ASSUME NEW ok \in BOOLEAN, SetDone(t, ok) PROVE Inv' BY <1>1, <3>4, SetDoneOK
    <3>5. CASE Transmit(t) BY <1>1, <3>5, TransmitOK
    <3>6. CASE Heard(t) BY <1>1, <3>6, HeardOK
    <3>7. CASE Silent(t) BY <1>1, <3>7, SilentOK
    <3>8. CASE Void(t) BY <1>1, <3>8, VoidOK
    <3>9. CASE GiveUp(t) BY <1>1, <3>9, GiveUpOK
    <3>10. CASE Round(t) BY <1>1, <3>10, RoundStepOK
    <3>11. CASE Looked(t) BY <1>1, <3>11, LookedOK
    <3> QED BY <2>1, <3>1, <3>2, <3>3, <3>4, <3>5, <3>6, <3>7, <3>8, <3>9, <3>10, <3>11 DEF Step
  <2>2. ASSUME NEW t \in Senders, Select(t) PROVE Inv' BY <1>1, <2>2, SelectOK
  <2>3. ASSUME NEW t \in Binders, Bind(t) PROVE Inv' BY <1>1, <2>3, BindOK
  <2>4. ASSUME NEW p \in Paths, Learn(p) PROVE Inv' BY <1>1, <2>4, LearnOK
  <2>5. CASE BackoffEnds BY <1>1, <2>5, BackoffEndsOK
  <2>6. CASE Forget BY <1>1, <2>6, ForgetOK
  <2>7. CASE Radio BY <1>1, <2>7, RadioOK
  <2>8. CASE UNCHANGED vars
    <3>1. UNCHANGED task /\ UNCHANGED line /\ UNCHANGED <<board, device, pending, tangled>>
          /\ UNCHANGED <<world, resolved, fails, backoff>>
      BY <2>8 DEF vars, tables
    <3>2. RestOK' /\ BoardOK(board') /\ TaskOK /\ BeliefTrue
      BY <1>1, <3>1, InvParts DEF RestOK, world
    <3> QED BY <1>1, <3>1, <3>2, WorldOK DEF BeliefTrue, TaskOK
  <2> QED BY <1>1, <2>1, <2>2, <2>3, <2>4, <2>5, <2>6, <2>7, <2>8 DEF Next
<1> QED BY <1>1, InitOK, PTL DEF Spec

\* Every variable keeps to its type: no board grows past its bounds, no count past its limit.
THEOREM TypeCorrect == Spec => []TypeOK
<1>1. Inv => TypeOK
  BY DEF Inv
<1> QED BY <1>1, Invariance, PTL

\* However many sends and binders want the peer's path, one discovery is in flight.
THEOREM OneDiscoveryHolds == Spec => []OneDiscovery
<1>1. Inv => OneDiscovery
  <2> SUFFICES ASSUME Inv, ~tangled PROVE Cardinality(Leaders) <= 1
    BY DEF OneDiscovery
  <2>1. Leaders = {} \/ Leaders = {pending}
    BY DEF Inv, FutureOK
  <2>2. Cardinality({}) = 0 /\ Cardinality({pending}) = 1
    BY FS_EmptySet, FS_Singleton
  <2> QED BY <2>1, <2>2
<1> QED BY <1>1, Invariance, PTL

\* Nobody waits for a discovery that is over, even if the peer was forgotten meanwhile.
THEOREM FollowersHaveLeaderHolds == Spec => []FollowersHaveLeader
<1>1. Inv => FollowersHaveLeader
  BY DEF Inv, FutureOK
<1> QED BY <1>1, Invariance, PTL

\* What the scoreboard believes of the radio's contact is true of it.
THEOREM BeliefTrueHolds == Spec => []BeliefTrue
<1>1. Inv => BeliefTrue
  BY DEF Inv
<1> QED BY <1>1, Invariance, PTL

\* The scoreboard keeps its bound, and its current path.
THEOREM BoardSoundHolds == Spec => []BoardSound
<1>1. Inv => BoardSound
  BY DEF Inv, BoardOK, BoardSound
<1> QED BY <1>1, Invariance, PTL

-----------------------------------------------------------------------------
(* The back-off. *)

\* While one discovery leads, and nothing was forgotten, there is no back-off.
QuietOK == tangled \/ Leaders = {} \/ ~backoff

\* What a step must do for BackoffRespected.
BackoffKept == QuietOK' /\ (Asks => tangled \/ ~backoff')

\* A step that moves no leader, starts none and sets no back-off.
LEMMA QuietMove ==
    ASSUME TaskOK, QuietOK, NEW t \in Tasks, NEW place \in States \ Leading, pc[t] \notin Leading,
           pc' = [pc EXCEPT ![t] = place], UNCHANGED <<n, tangled>>, backoff' => backoff
    PROVE  BackoffKept
<1>1. Leaders' = Leaders
  BY DEF Leaders, Leading, TaskOK
<1>2. ~Asks
  BY DEF Asks, TaskOK, Leading
<1> QED BY <1>1, <1>2 DEF QuietOK, BackoffKept

\* A leader goes on: there is no back-off to respect.
LEMMA QuietLead ==
    ASSUME TaskOK, QuietOK, NEW t \in Tasks, pc[t] \in Leading, NEW place, NEW k, Lead(t, place, k),
           UNCHANGED tangled, backoff' => backoff
    PROVE  BackoffKept
<1>1. tangled \/ ~backoff
  BY DEF QuietOK, Leaders
<1> QED BY <1>1 DEF QuietOK, BackoffKept

\* A task asks for a path: if it leads, there is no back-off.
LEMMA QuietDiscover ==
    ASSUME TaskOK, QuietOK, NEW t \in Tasks, pc[t] \in {"idle", "wait", "look"},
           NEW k \in 0..Rounds, NEW c, NEW b \in BOOLEAN, b = backoff', Discover(t, b, k, c), backoff' => backoff
    PROVE  BackoffKept
<1>1. CASE ~Joinable /\ MayAsk(b)
  BY <1>1 DEF MayAsk, BackoffKept, QuietOK
<1>2. CASE pc' = [pc EXCEPT ![t] = "follow"] /\ UNCHANGED <<n, tangled>>
  BY <1>2, QuietMove DEF States, Leading
<1>3. CASE pc' = [pc EXCEPT ![t] = After(t, None, k)] /\ UNCHANGED <<n, tangled>>
  <2>1. After(t, None, k) \in States \ Leading /\ pc[t] \notin Leading
    BY AfterFacts DEF States, Leading
  <2> QED BY <1>3, <2>1, QuietMove
<1> QED BY <1>1, <1>2, <1>3 DEF Discover

\* A step of a task.
LEMMA QuietTask == ASSUME Inv, QuietOK, NEW t \in Tasks, Step(t) PROVE BackoffKept
<1>0. TaskOK /\ RestOK /\ FutureOK /\ RoundOK
  BY InvParts
<1>1. ASSUME NEW r, Complete(t, r), t \in Leaders, UNCHANGED round PROVE BackoffKept
  <2>1. ~Asks /\ (tangled' \/ Leaders' = {})
    BY <1>0, <1>1, CompleteOK
  <2> QED BY <2>1 DEF BackoffKept, QuietOK
<1>2. CASE Refreshed(t)
  <2>1. t \in Leaders /\ pc[t] \in Leading /\ UNCHANGED <<round, backoff>>
    BY <1>2 DEF Refreshed, Leaders, Leading
  <2> QED BY <1>0, <1>1, <1>2, <2>1, QuietLead DEF Refreshed
<1>3. ASSUME NEW p \in Paths, Answered(t, p) PROVE BackoffKept
  BY <1>0, <1>3, QuietLead DEF Answered, Leading
<1>4. CASE Unanswered(t)
  <2>1. t \in Leaders /\ pc[t] \in Leading /\ UNCHANGED round
    BY <1>4 DEF Unanswered, Leaders, Leading
  <2>2. CASE Lead(t, "query", n[t] + 1) /\ UNCHANGED <<leader, path, pending, tangled>> /\ UNCHANGED <<fails, backoff>>
    BY <1>0, <2>1, <2>2, QuietLead
  <2> QED BY <1>1, <1>4, <2>1, <2>2 DEF Unanswered
<1>5. ASSUME NEW ok \in BOOLEAN, SetDone(t, ok) PROVE BackoffKept
  <2>1. CASE pc[t] = "set"
    <3>1. "send" \in States \ Leading /\ pc[t] \notin Leading
      BY <2>1 DEF States, Leading
    <3> QED BY <1>0, <1>5, <2>1, <3>1, QuietMove DEF SetDone
  <2>2. CASE pc[t] # "set"
    <3>1. line \in Seq(Tasks) /\ line # <<>> /\ t = Head(line)
      BY <1>0, <1>5 DEF SetDone, RestOK
    <3>2. 1 \in DOMAIN line /\ t = line[1]
      BY <3>1
    <3>3. t \in Leaders
      BY <2>2, <3>2 DEF Inv, LineOK, Leaders, Leading
    <3> QED BY <1>1, <1>5, <2>2, <3>3 DEF SetDone
  <2> QED BY <2>1, <2>2
<1>6. CASE Transmit(t)
  BY <1>0, <1>6, QuietMove DEF Transmit, tables, States, Leading
<1>7. ASSUME NEW place \in {"send", "idle"}, EndAttempt(t, place) PROVE BackoffKept
  BY <1>0, <1>7, QuietMove DEF EndAttempt, States, Leading
<1>8. CASE GiveUp(t)
  BY <1>0, <1>8, QuietMove DEF GiveUp, tables, States, Leading
<1>9. ASSUME pc[t] \in {"wait", "look"}, AskAgain(t) PROVE BackoffKept
  <2>1. round[t] + 1 \in 0..Rounds
    BY <1>0, <1>9, PathAssumption DEF TaskOK, RoundOK
  <2> QED BY <1>0, <1>9, <2>1, QuietDiscover DEF AskAgain
<1>10. CASE Round(t)
  <2> DEFINE place == IF online /\ bound /\ resolved = None THEN "look" ELSE "idle"
  <2>1. CASE pc' = [pc EXCEPT ![t] = place] /\ UNCHANGED <<n, round, path, leader, world, tables, line, device, tangled>>
    <3>1. place \in States \ Leading /\ pc[t] \notin Leading
      BY <1>10 DEF Round, States, Leading
    <3> HIDE DEF place
    <3> QED BY <1>0, <2>1, <3>1, QuietMove DEF tables
  <2> QED BY <1>9, <1>10, <2>1 DEF Round
<1>11. CASE Looked(t)
  <2>1. CASE pc' = [pc EXCEPT ![t] = "idle"] /\ UNCHANGED <<n, round, path, leader, bound, online, tables, line, device, tangled>>
    BY <1>0, <1>11, <2>1, QuietMove DEF Looked, tables, States, Leading
  <2> QED BY <1>9, <1>11, <2>1 DEF Looked
<1> QED BY <1>2, <1>3, <1>4, <1>5, <1>6, <1>7, <1>8, <1>10, <1>11 DEF Step, Heard, Silent, Void

\* Any step.
LEMMA QuietNext == ASSUME Inv, QuietOK, [Next]_vars PROVE BackoffKept
<1>0. TaskOK
  BY InvParts
<1>1. ASSUME NEW t \in Tasks, Step(t) PROVE BackoffKept
  BY <1>1, QuietTask
<1>2. ASSUME NEW t \in Senders, Select(t) PROVE BackoffKept
  <2>1. t \in Tasks /\ pc[t] = "idle" /\ UNCHANGED backoff /\ backoff \in BOOLEAN
    BY <1>2 DEF Tasks, Select, Inv, TypeOK
  <2>2. CASE Discover(t, backoff, 0, contact)
    <3>1. 0 \in 0..Rounds
      BY PathAssumption
    <3> QED BY <1>0, <2>1, <2>2, <3>1, QuietDiscover
  <2>3. ASSUME NEW place \in {"set", "send", "idle"}, pc' = [pc EXCEPT ![t] = place], UNCHANGED <<n, tangled>>
        PROVE  BackoffKept
    BY <1>0, <2>1, <2>3, QuietMove DEF States, Leading
  <2> QED BY <1>2, <2>2, <2>3 DEF Select
<1>3. ASSUME NEW t \in Binders, Bind(t) PROVE BackoffKept
  <2>1. 0 \in 0..Rounds /\ t \in Tasks /\ backoff \in BOOLEAN
    BY PathAssumption DEF Tasks, Inv, TypeOK
  <2> QED BY <1>0, <1>3, <2>1, QuietDiscover DEF Bind
<1>4. ASSUME UNCHANGED task, backoff' => backoff, UNCHANGED tangled \/ ~backoff' PROVE BackoffKept
  <2>1. Leaders' = Leaders /\ ~Asks
    BY <1>4 DEF Leaders, Asks, task
  <2> QED BY <1>4, <2>1 DEF BackoffKept, QuietOK
<1>5. CASE BackoffEnds
  BY <1>4, <1>5 DEF BackoffEnds
<1>6. CASE Forget
  BY <1>4, <1>6 DEF Forget
<1>7. CASE Radio
  BY <1>4, <1>7 DEF Radio, tables
<1>8. ASSUME NEW p \in Paths, Learn(p) PROVE BackoffKept
  BY <1>4, <1>8 DEF Learn
<1>9. CASE UNCHANGED vars
  BY <1>4, <1>9 DEF vars, tables
<1> QED BY <1>1, <1>2, <1>3, <1>5, <1>6, <1>7, <1>8, <1>9 DEF Next

\* No send and no binder asks the peer for its path within the back-off, unless the
\* peer was forgotten in the midst of a discovery.
THEOREM BackoffRespectedHolds == Spec => BackoffRespected
<1>1. Init => QuietOK
  BY DEF Init, QuietOK
<1>2. Inv /\ QuietOK /\ [Next]_vars => QuietOK'
  BY QuietNext DEF BackoffKept
<1>3. Inv /\ QuietOK /\ [Next]_vars => [Asks => tangled \/ ~backoff']_vars
  BY QuietNext DEF BackoffKept
<1> QED BY <1>1, <1>2, <1>3, Invariance, PTL DEF Spec, BackoffRespected

-----------------------------------------------------------------------------
(* The choices PathSelection allows, and those _choose_path makes. *)

Scores == INSTANCE PathScores

\* The tuning is the one of the model.
TunedAlike(w) == w.switch = Switch /\ w.exhaust = Exhaust

\* Candidates' records; readings are empty or one.
Records ==
    LET Readings == Seq([is : Int \union (Int \X Int), at : Int])
    IN  [hops : Nat, samples : Seq([at : Int, ok : BOOLEAN]), rate : Readings, signal : Readings,
         misses : Nat, failedAt : Int, seenAt : Int, coolUntil : Int]

AreViews(views) == DOMAIN views \subseteq Paths /\ views \in [DOMAIN views -> Records]

\* The scoreboard of PathSelection that records make.
BoardOf(views, current, belief) ==
    [known |-> DOMAIN views,
     misses |-> [p \in Paths |-> IF p \notin DOMAIN views THEN 0
                                 ELSE IF views[p].misses < Most THEN views[p].misses ELSE Most],
     heard |-> {p \in DOMAIN views : views[p].misses > 0 /\ Scores!FreshEvidence(views[p])},
     current |-> current, belief |-> belief]

\* A path is dead on the scoreboard as on its record, and below the threshold alike.
LEMMA BoardAgrees ==
    ASSUME NEW views, AreViews(views), NEW current, NEW belief, NEW w, TunedAlike(w),
           NEW p \in DOMAIN views
    PROVE  LET b == BoardOf(views, current, belief)
           IN  /\ Dead(b, p) <=> Scores!DeadView(views[p], w)
               /\ b.misses[p] < Switch <=> views[p].misses < w.switch
<1> DEFINE b == BoardOf(views, current, belief)
<1>1. /\ p \in Paths /\ views[p].misses \in Nat
      /\ Switch \in Nat \ {0} /\ Exhaust \in Nat \ {0} /\ Most \in Nat
      /\ Switch <= Most /\ Exhaust <= Most /\ w.switch = Switch /\ w.exhaust = Exhaust
  BY PathAssumption DEF AreViews, Records, TunedAlike, Most
<1>2. /\ b.misses[p] = IF views[p].misses < Most THEN views[p].misses ELSE Most
      /\ p \in b.heard <=> views[p].misses > 0 /\ Scores!FreshEvidence(views[p])
  BY <1>1 DEF BoardOf
<1>3. b.misses[p] < Switch <=> views[p].misses < w.switch
  BY <1>1, <1>2
<1>4. b.misses[p] >= Exhaust <=> views[p].misses >= w.exhaust
  BY <1>1, <1>2
<1>5. views[p].misses >= w.exhaust => views[p].misses > 0
  BY <1>1
<1> QED BY <1>2, <1>3, <1>4, <1>5 DEF Dead, Scores!DeadView

\* What _choose_path returns, whatever the records, the clock and the tuning of rates
\* and cool-downs, is a choice of PathSelection: its properties are those of the rule.
THEOREM ChoiceAllowed ==
    ASSUME NEW views, AreViews(views), NEW current \in Paths \union {None},
           current # None => current \in DOMAIN views,
           NEW belief, NEW now, NEW w, TunedAlike(w),
           NEW c \in Scores!Choose(views, current, None, now, w)
    PROVE  c[1] \in Choices(BoardOf(views, current, belief))
<1> DEFINE b == BoardOf(views, current, belief)
           able == {p \in DOMAIN views : Scores!Eligible(views, current, p, now, w)}
<1>1. b.known = DOMAIN views /\ b.current = current
  BY DEF BoardOf
<1>2. \A p \in DOMAIN views :
        /\ Dead(b, p) <=> Scores!DeadView(views[p], w)
        /\ b.misses[p] < Switch <=> views[p].misses < w.switch
  BY BoardAgrees
<1>3. \A p \in able : p \in b.known /\ ~Dead(b, p)
  BY <1>1, <1>2 DEF Scores!Eligible
<1>4. None \notin DOMAIN views
  BY PathAssumption DEF AreViews
<1>5. CASE current # None /\ b.misses[current] < Switch
  <2>1. current \in DOMAIN views /\ views[current].misses < w.switch /\ views # <<>>
    BY <1>2, <1>5
  <2>2. c = <<current, "current">>
    BY <2>1 DEF Scores!Choose
  <2> QED BY <1>1, <1>5, <2>2 DEF Choices
<1>6. CASE ~(current # None /\ b.misses[current] < Switch)
  <2> DEFINE unused == \E p \in b.known : ~Dead(b, p) /\ b.misses[p] < Switch
  <2>1. Choices(b) = {p \in b.known : ~Dead(b, p)} \union IF unused THEN {} ELSE {None}
    BY <1>1, <1>6 DEF Choices
  <2>2. ~(current \in DOMAIN views /\ views[current].misses < w.switch)
    BY <1>2, <1>4, <1>6
  <2>3. \/ views = <<>> /\ c = <<None, "none">>
        \/ current \in DOMAIN views /\ Scores!StillBest(views, current, now, w) /\ c = <<current, "current_best">>
        \/ able = {} /\ c = <<None, "exhausted">>
        \/ c[1] \in able
    BY <2>2 DEF Scores!Choose, Scores!FirstOf
  <2>4. CASE views = <<>> /\ c = <<None, "none">>
    <3>1. ~unused
      BY <1>1, <2>4
    <3> QED BY <2>1, <2>4, <3>1
  <2>5. CASE current \in DOMAIN views /\ Scores!StillBest(views, current, now, w) /\ c = <<current, "current_best">>
    <3>1. ~Dead(b, current)
      BY <1>2, <2>5 DEF Scores!StillBest
    <3> QED BY <1>1, <2>1, <2>5, <3>1
  <2>6. CASE able = {} /\ c = <<None, "exhausted">>
    <3>1. \A p \in DOMAIN views : ~Dead(b, p) /\ b.misses[p] < Switch => p \in able
      BY <1>2 DEF Scores!Eligible
    <3>2. ~unused
      BY <1>1, <2>6, <3>1
    <3> QED BY <2>1, <2>6, <3>2
  <2>7. CASE c[1] \in able
    BY <1>3, <2>1, <2>7
  <2> QED BY <2>3, <2>4, <2>5, <2>6, <2>7
<1> QED BY <1>5, <1>6

\* A miss that a record notes is the miss of PathSelection.
THEOREM MissAlike ==
    ASSUME NEW views, AreViews(views), NEW p \in DOMAIN views, NEW current, NEW belief,
           NEW now \in Int, views[p].seenAt <= now
    PROVE  BoardOf([views EXCEPT ![p] = Scores!AttemptNoted(@, FALSE, now)], current, belief)
             = Missed(BoardOf(views, current, belief), p)
<1> DEFINE after == [views EXCEPT ![p] = Scores!AttemptNoted(@, FALSE, now)]
           b == BoardOf(views, current, belief)
           c == BoardOf(after, current, belief)
<1>1. /\ p \in Paths /\ DOMAIN after = DOMAIN views
      /\ views[p].misses \in Nat /\ views[p].seenAt \in Int /\ Most \in Nat \ {0}
  BY PathAssumption DEF AreViews, Records, Most
<1>2. /\ after[p].misses = views[p].misses + 1 /\ after[p].failedAt = now /\ after[p].seenAt = views[p].seenAt
      /\ \A q \in DOMAIN views \ {p} : after[q] = views[q]
  BY DEF AreViews, Records, Scores!AttemptNoted
<1>3. ~Scores!FreshEvidence(after[p])
  <2> HIDE DEF after
  <2> QED BY <1>1, <1>2 DEF Scores!FreshEvidence
<1>4. c.heard = b.heard \ {p}
  BY <1>1, <1>2, <1>3 DEF BoardOf
<1>5. c.misses = [b.misses EXCEPT ![p] = IF @ < Most THEN @ + 1 ELSE @]
  <2>1. c.misses[p] = IF b.misses[p] < Most THEN b.misses[p] + 1 ELSE b.misses[p]
    <3>1. /\ c.misses[p] = IF after[p].misses < Most THEN after[p].misses ELSE Most
          /\ b.misses[p] = IF views[p].misses < Most THEN views[p].misses ELSE Most
      BY <1>1 DEF BoardOf
    <3> HIDE DEF after, b, c
    <3> QED BY <1>1, <1>2, <3>1
  <2>2. \A q \in Paths \ {p} : c.misses[q] = b.misses[q]
    BY <1>1, <1>2 DEF BoardOf
  <2>3. DOMAIN c.misses = Paths /\ DOMAIN b.misses = Paths
        /\ c.misses = [q \in Paths |-> c.misses[q]]
    BY DEF BoardOf
  <2> QED BY <1>1, <2>1, <2>2, <2>3
<1>6. /\ b = [known |-> DOMAIN views, misses |-> b.misses, heard |-> b.heard, current |-> current, belief |-> belief]
      /\ c = [known |-> DOMAIN views, misses |-> c.misses, heard |-> c.heard, current |-> current, belief |-> belief]
  BY <1>1 DEF BoardOf
<1> HIDE DEF b, c
<1>7. Missed(b, p) = c
  <2> DEFINE d == Missed(b, p)
             R == [known : SUBSET Paths, misses : [Paths -> Nat], heard : SUBSET Paths,
                   current : {current}, belief : {belief}]
  <2>1. b \in R /\ p \in b.known
    BY <1>1 DEF b, BoardOf, AreViews, Records
  <2>2. d = [b EXCEPT !.misses[p] = IF @ < Most THEN @ + 1 ELSE @, !.heard = @ \ {p}]
    BY <2>1 DEF Missed
  <2> HIDE DEF d
  <2>3. d.known = b.known /\ d.heard = c.heard /\ d.current = current /\ d.belief = belief
    BY <1>4, <2>1, <2>2
  <2>4. d.misses = c.misses
    BY <1>5, <2>1, <2>2
  <2>5. d = [known |-> d.known, misses |-> d.misses, heard |-> d.heard, current |-> d.current, belief |-> d.belief]
    BY <2>1, <2>2
  <2>6. b.known = DOMAIN views
    BY <1>6
  <2> QED BY <1>6, <2>3, <2>4, <2>5, <2>6 DEF d
<1> QED BY <1>7 DEF b, c
=============================================================================
