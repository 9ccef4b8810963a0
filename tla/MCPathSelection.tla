-------------------------- MODULE MCPathSelection --------------------------
(***************************************************************************)
(* PathSelection on a small instance, and checks of PathScores over        *)
(* bounded records, evaluated once.  The one with Limit in its name shows  *)
(* where a rule that is stated of the choice ends.                         *)
(***************************************************************************)
EXTENDS PathSelection, Integers, TLC
Symmetry == Permutations(Paths) \union Permutations(Senders)

-----------------------------------------------------------------------------
(* The choice among records. *)

S == INSTANCE PathScores

Shipped == S!TuningShipped
Now == 30
Always(ok, size, at) == [k \in 1..size |-> [at |-> at, ok |-> ok]]

Histories ==
    {<<>>, Always(TRUE, 8, Now - 1), Always(TRUE, 2, Now - 4) \o Always(FALSE, 2, Now - 1),
     Always(FALSE, 1, Now), Always(TRUE, 3, Now - 20)}

\* Records as they come about: who missed has failed, who was heard since is seen later.
Records(hops, misses, seen, signals) ==
    {[S!NewView(hops, Now - 5) EXCEPT !.samples = h, !.misses = m, !.signal = x,
                                      !.failedAt = IF m = 0 THEN S!Absent ELSE Now - 2, !.seenAt = at] :
        h \in Histories, m \in misses, at \in seen, x \in signals}

Weak == <<[is |-> 0, at |-> Now - 1]>>

\* A rate never leaves 0 to 1, rises with a delivery and falls with a loss.
ASSUME RatesMove ==
    \A h \in Histories :
        LET rate(s) == S!DeliveryRate(s, Now, Shipped)
            more(ok) == rate(Append(h, [at |-> Now, ok |-> ok]))
        IN  /\ rate(h)[1] \in 0..rate(h)[2]
            /\ S!AtLeast(more(TRUE), rate(h)) /\ S!AtLeast(rate(h), more(FALSE))

\* The order is one: of two candidates at most one is ahead, and being ahead carries over.
ASSUME OrderIsOne ==
    \A a \in Records(0, {0}, {Now - 5, Now}, {<<>>, Weak}), b \in Records(1, {0}, {Now - 5}, {<<>>, Weak}) :
        LET Ahead(x, y) == S!Ahead(x, y, Now, Shipped)
            c == S!NewView(2, Now)
        IN  /\ ~(Ahead(a, b) /\ Ahead(b, a))
            /\ Ahead(a, b) /\ Ahead(b, c) => Ahead(a, c)
            /\ Ahead(a, c) /\ Ahead(c, b) => Ahead(a, b)

\* What the peer reports of a path changes no score that was measured; a length it
\* reports makes what claims to be shorter weak while nothing else is known of it.
ASSUME ReportsAreForTheUntried ==
    \A v \in Records(1, {0}, {Now}, {<<>>, Weak}) :
        LET told == S!PeerReported([p \in {1} |-> v], 1, <<0, 250>>, Now)[1]
            w == S!WithReport(Shipped, <<[hops |-> 2, at |-> Now - 4]>>, Now)
            late == S!WithReport(Shipped, <<[hops |-> 2, at |-> Now - 11]>>, Now)
        IN  /\ S!Measured(v, Now, Shipped) => S!Score(told, Now, w) = S!Score(v, Now, Shipped)
            /\ ~S!Measured(v, Now, Shipped) => S!RateUsed(v, Now, w) = Shipped.weak
            /\ late = Shipped

\* The way back along a route is the way there reversed, in whole hashes.
ASSUME ReversedTwice ==
    \A len \in {2, 4}, k \in 0..3, more \in {0, 1} :
        LET hashes == [i \in 1..(len * k + more) |-> i]
        IN  S!ReverseFloodPath(S!ReverseFloodPath(hashes, len), len) = SubSeq(hashes, 1, len * k)

\* "Always gets its trial" (_choose_path) is said of a path nothing is known against.
\* It gets it if it comes first in the order: a shortcut heard weakly does not while
\* the current path, its last two sends lost, has a record that outscores it.
ASSUME TrialLimit ==
    LET long == [S!NewView(3, Now - 5) EXCEPT !.samples = Always(TRUE, 6, Now - 1) \o Always(FALSE, 2, Now),
                                              !.misses = 4, !.failedAt = Now]
        shortcut == [S!NewView(1, Now) EXCEPT !.signal = Weak]
        choice(v) == S!Choose([p \in {"long", "shortcut"} |-> IF p = "long" THEN v ELSE shortcut],
                              "long", "none", Now, Shipped)
    IN  /\ S!Untried(shortcut, Now, Shipped)
        /\ choice(long) = {<<"long", "current_best">>}
        /\ choice([long EXCEPT !.misses = 8]) = {<<"shortcut", "trial">>}

\* Nor does the order know of death: what makes room for a new candidate can be the
\* only one that could still be used.
ASSUME EvictionLimit ==
    LET dead == [S!NewView(1, Now - 5) EXCEPT !.samples = Always(TRUE, 8, Now - 1), !.misses = 8, !.failedAt = Now]
        views == [p \in {"a", "b", "c"} |-> IF p = "c" THEN [S!NewView(3, Now) EXCEPT !.signal = Weak] ELSE dead]
    IN  /\ S!Dropped(views, "a", Now, Shipped) = {"c"}
        /\ S!Choose(views, "a", "none", Now, Shipped) = {<<"c", "trial">>}

-----------------------------------------------------------------------------
(* Sends, one after another, with two paths known: "good" delivers each and  *)
(* "bad" none.  An exhausted board has the good one discovered.              *)

Rediscovered(st) ==
    [st EXCEPT !.views["good"].misses = 0, !.views["good"].seenAt = st.now,
               !.current = IF st.views[@].misses >= Shipped.switch THEN "good" ELSE @]

Sent(st, p) ==
    LET ok == p = "good"
        missed(v) == S!AttemptNoted(S!AttemptNoted(v, FALSE, st.now), FALSE, st.now)
        noted == [st.views EXCEPT ![p] =
                    S!SendNoted(IF ok THEN S!AttemptNoted(@, TRUE, st.now) ELSE missed(@), ok, st.now)]
        after == IF ok THEN S!Switched(noted, st.current, p, st.now, Shipped)
                 ELSE [views |-> noted, current |-> st.current]
    IN  [views |-> after.views, current |-> after.current, now |-> st.now + st.pace,
         pace |-> st.pace, last |-> p]

OneSend(st) ==
    LET choice == CHOOSE c \in S!Choose(st.views, st.current, "none", st.now, Shipped) : TRUE
    IN  IF choice[1] = "none" THEN Sent(Rediscovered(st), "good") ELSE Sent(st, choice[1])

RECURSIVE Sends(_, _)
Sends(st, sends) == IF sends = 0 THEN st ELSE Sends(OneSend(st), sends - 1)

RECURSIVE StaysGood(_, _)
StaysGood(st, sends) == sends = 0 \/ (OneSend(st).last = "good" /\ StaysGood(OneSend(st), sends - 1))

Starts ==
    {[views |-> [p \in {"good", "bad"} |-> IF p = "good" THEN g ELSE b],
      current |-> c, now |-> Now, pace |-> pace, last |-> "none"] :
        g \in Records(2, {0, 4, 8}, {Now - 5, Now}, {<<>>}), b \in Records(0, {0, 3, 4}, {Now - 5}, {<<>>, Weak}),
        c \in {"good", "bad"}, pace \in {0, 2}}

\* Whatever the records say, a dead path is used for at most four sends while another
\* delivers, and never again unless it is heard of; and it may take four.
ASSUME GoodPathWins ==
    /\ \A st \in Starts : StaysGood(Sends(st, 4), 4)
    /\ \E st \in Starts : Sends(st, 4).last = "bad"
=============================================================================
