----------------------- MODULE PrioritySemaphoreProofs -----------------------
(***************************************************************************)
(* PrioritySemaphore for every finite set of sends, every assignment of    *)
(* tiers and every capacity: the slots are accounted for, and the          *)
(* semaphore implements SlotPool.  Then the fragmented sends that hold the *)
(* slots, as TextFragments has them, for any sends of any bytes: one that  *)
(* reports success has delivered its packet whole and leaves no failure    *)
(* counted.                                                                *)
(***************************************************************************)
EXTENDS PrioritySemaphore, TextFragments, SequenceTheorems, FiniteSetTheorems,
        NaturalsInduction, WellFoundedInduction, TLAPS

-----------------------------------------------------------------------------
(* The inductive invariant. *)

\* The deques and the futures' states agree: a pending task is in line at its
\* tier, whoever is in line is pending or cancelled there, and once only.
QueueOK(q, p, tr) ==
    /\ \A t \in Tasks : p[t] = "waiting" => \E i \in 1..Len(q[tr[t]]) : q[tr[t]][i] = t
    /\ \A k \in Tiers : \A i \in 1..Len(q[k]) :
            p[q[k][i]] \in {"waiting", "dropped"} /\ tr[q[k][i]] = k
    /\ \A k \in Tiers : \A i, j \in 1..Len(q[k]) : q[k][i] = q[k][j] => i = j

OwnersIn(p) == {t \in Tasks : p[t] \in {"granted", "doomed", "holding"}}

Inv ==
    /\ TypeOK
    /\ QueueOK(waiters, pc, Tier)
    /\ SlotsAccounted

-----------------------------------------------------------------------------
(* The queues, as in PriorityLockProofs. *)

\* Removing the one occurrence of t leaves every other entry, in line once.
LEMMA WithoutFacts ==
    ASSUME NEW s \in Seq(Tasks), NEW t \in Tasks,
           \A i, j \in 1..Len(s) : s[i] = s[j] => i = j
    PROVE  /\ Without(s, t) \in Seq(Tasks)
           /\ \A i \in 1..Len(Without(s, t)) :
                Without(s, t)[i] # t /\ \E j \in 1..Len(s) : s[j] = Without(s, t)[i]
           /\ \A j \in 1..Len(s) : s[j] # t =>
                \E i \in 1..Len(Without(s, t)) : Without(s, t)[i] = s[j]
           /\ \A i, j \in 1..Len(Without(s, t)) :
                Without(s, t)[i] = Without(s, t)[j] => i = j
<1>1. CASE ~\E i \in DOMAIN s : s[i] = t
  <2>1. Without(s, t) = s
    BY <1>1 DEF Without
  <2> QED
    BY <1>1, <2>1
<1>2. CASE \E i \in DOMAIN s : s[i] = t
  <2> DEFINE i == CHOOSE j \in DOMAIN s : s[j] = t
             r == SubSeq(s, 1, i - 1) \o SubSeq(s, i + 1, Len(s))
  <2>1. i \in 1..Len(s) /\ s[i] = t
    BY <1>2
  <2>2. Without(s, t) = r
    BY <1>2 DEF Without
  <2> HIDE DEF i
  <2>a. /\ SubSeq(s, 1, i - 1) \in Seq(Tasks) /\ Len(SubSeq(s, 1, i - 1)) = i - 1
        /\ \A j \in 1..i - 1 : SubSeq(s, 1, i - 1)[j] = s[j]
    <3>1. \A j \in 1..i - 1 : s[j] \in Tasks
      BY <2>1, ElementOfSeq
    <3> QED
      BY <2>1, <3>1, SubSeqProperties
  <2>b. /\ SubSeq(s, i + 1, Len(s)) \in Seq(Tasks) /\ Len(SubSeq(s, i + 1, Len(s))) = Len(s) - i
        /\ \A j \in 1..Len(s) - i : SubSeq(s, i + 1, Len(s))[j] = s[i + j]
    <3>1. \A j \in i + 1..Len(s) : s[j] \in Tasks
      BY <2>1, ElementOfSeq
    <3> QED
      BY <2>1, <3>1, SubSeqProperties
  <2> HIDE DEF r
  <2>c. ASSUME NEW a \in Seq(Tasks), NEW b \in Seq(Tasks)
        PROVE  /\ a \o b \in Seq(Tasks) /\ Len(a \o b) = Len(a) + Len(b)
               /\ \A j \in 1..Len(a) + Len(b) :
                    (a \o b)[j] = IF j <= Len(a) THEN a[j] ELSE b[j - Len(a)]
    BY ConcatProperties
  <2>d. /\ r \in Seq(Tasks) /\ Len(r) = (i - 1) + (Len(s) - i)
        /\ \A j \in 1..(i - 1) + (Len(s) - i) : r[j] =
              IF j <= i - 1 THEN SubSeq(s, 1, i - 1)[j] ELSE SubSeq(s, i + 1, Len(s))[j - (i - 1)]
    BY <2>a, <2>b, <2>c DEF r
  <2>3. r \in Seq(Tasks) /\ Len(r) = Len(s) - 1
    BY <2>1, <2>d
  <2>4. \A j \in 1..Len(r) : r[j] = IF j < i THEN s[j] ELSE s[j + 1]
    BY <2>1, <2>a, <2>b, <2>d
  <2>5. \A j \in 1..Len(r) : r[j] # t /\ \E h \in 1..Len(s) : s[h] = r[j]
    <3> SUFFICES ASSUME NEW j \in 1..Len(r)
                 PROVE  r[j] # t /\ \E h \in 1..Len(s) : s[h] = r[j]
      OBVIOUS
    <3>1. CASE j < i
      BY <2>1, <2>3, <2>4, <3>1
    <3>2. CASE ~(j < i)
      BY <2>1, <2>3, <2>4, <3>2
    <3> QED
      BY <3>1, <3>2
  <2>6. \A j \in 1..Len(s) : s[j] # t => \E h \in 1..Len(r) : r[h] = s[j]
    <3> SUFFICES ASSUME NEW j \in 1..Len(s), s[j] # t
                 PROVE  \E h \in 1..Len(r) : r[h] = s[j]
      OBVIOUS
    <3>1. CASE j < i
      <4>1. j \in 1..Len(r) /\ r[j] = s[j]
        BY <2>1, <2>3, <2>4, <3>1
      <4> QED
        BY <4>1
    <3>2. CASE ~(j < i)
      <4>1. j - 1 \in 1..Len(r) /\ r[j - 1] = s[j]
        BY <2>1, <2>3, <2>4, <3>2
      <4> QED
        BY <4>1
    <3> QED
      BY <3>1, <3>2
  <2>7. \A j, h \in 1..Len(r) : r[j] = r[h] => j = h
    <3> SUFFICES ASSUME NEW j \in 1..Len(r), NEW h \in 1..Len(r), r[j] = r[h]
                 PROVE  j = h
      OBVIOUS
    <3> QED
      BY <2>1, <2>3, <2>4
  <2> QED
    BY <2>2, <2>3, <2>5, <2>6, <2>7
<1> QED
  BY <1>1, <1>2

\* What _wake_next establishes: the slot goes to one most urgent waiter, or
\* nobody waits and the line is empty.
WokeUp(s, q, p, tr) ==
    /\ s.woken \in BOOLEAN
    /\ s.waiters \in [Tiers -> Seq(Tasks)]
    /\ s.pc \in [Tasks -> States]
    /\ QueueOK(s.waiters, s.pc, tr)
    /\ \/ /\ s.woken = FALSE /\ s.pc = p /\ s.waiters = [k \in Tiers |-> <<>>]
          /\ \A t \in Tasks : p[t] # "waiting"
       \/ /\ s.woken = TRUE
          /\ \E u \in Tasks :
               /\ p[u] = "waiting" /\ s.pc = [p EXCEPT ![u] = "granted"]
               /\ \A v \in Tasks : p[v] = "waiting" => tr[u] <= tr[v]

\* What a successful _wake_next leaves: one task granted, none more urgent in line,
\* the queues still in order.
LEMMA GrantFacts ==
    ASSUME NEW q \in [Tiers -> Seq(Tasks)], NEW p \in [Tasks -> States],
           NEW tr \in [Tasks -> Tiers],
           QueueOK(q, p, tr),
           NEW k \in Tiers, NEW i \in 1..Len(q[k]), IsNext(q, p, k, i),
           NEW u, u = q[k][i],
           NEW s, s = Grant(q, p, k, i)
    PROVE  WokeUp(s, q, p, tr)
<1>0. Tiers \subseteq Nat
  BY TierAssumption
<1>1. u \in Tasks /\ p[u] = "waiting" /\ tr[u] = k
  <2>1. p[u] = "waiting" /\ tr[u] = k
    BY DEF IsNext, Pending, QueueOK
  <2> QED
    BY <2>1, ElementOfSeq
<1>2. s.woken = TRUE /\ s.pc = [p EXCEPT ![u] = "granted"]
  BY DEF Grant
<1>3. /\ \A h \in Tiers : h < k => s.waiters[h] = <<>>
      /\ s.waiters[k] = SubSeq(q[k], i + 1, Len(q[k]))
      /\ \A h \in Tiers : k < h => s.waiters[h] = q[h]
      /\ s.waiters = [h \in Tiers |-> s.waiters[h]]
  <2>1. s.waiters = [h \in Tiers |-> IF h < k THEN <<>>
                                  ELSE IF h = k THEN SubSeq(q[k], i + 1, Len(q[k])) ELSE q[h]]
    BY DEF Grant
  <2>2. \A h \in Tiers : h < k => s.waiters[h] = <<>>
    BY <1>0, <2>1
  <2>3. s.waiters[k] = SubSeq(q[k], i + 1, Len(q[k]))
    BY <1>0, <2>1
  <2>4. \A h \in Tiers : k < h => s.waiters[h] = q[h]
    BY <1>0, <2>1
  <2> QED
    BY <2>1, <2>2, <2>3, <2>4
<1>4. /\ s.waiters[k] \in Seq(Tasks)
      /\ Len(s.waiters[k]) = Len(q[k]) - i
      /\ \A j \in 1..Len(q[k]) - i : s.waiters[k][j] = q[k][i + j]
  <2>0. q[k] \in Seq(Tasks)
    OBVIOUS
  <2>1. \A j \in i + 1..Len(q[k]) : q[k][j] \in Tasks
    BY <2>0, ElementOfSeq
  <2>2. /\ SubSeq(q[k], i + 1, Len(q[k])) \in Seq(Tasks)
        /\ Len(SubSeq(q[k], i + 1, Len(q[k]))) = Len(q[k]) - i
        /\ \A j \in 1..Len(q[k]) - i : SubSeq(q[k], i + 1, Len(q[k]))[j] = q[k][i + j]
    BY <2>0, <2>1, SubSeqProperties
  <2> QED
    BY <1>3, <2>2
<1>5. s.waiters \in [Tiers -> Seq(Tasks)]
  <2>1. ASSUME NEW h \in Tiers
        PROVE  s.waiters[h] \in Seq(Tasks)
    <3>1. CASE h < k
      BY <1>3, <3>1, EmptySeq
    <3>2. CASE h = k
      BY <1>4, <3>2
    <3>3. CASE k < h
      BY <1>3, <3>3
    <3> QED
      BY <1>0, <3>1, <3>2, <3>3
  <2> QED
    BY <1>3, <2>1
<1>6. ASSUME NEW v \in Tasks, p[v] = "waiting"
      PROVE  /\ k <= tr[v]
             /\ tr[v] = k => \E j \in 1..Len(q[k]) : q[k][j] = v /\ i <= j
  <2>1. PICK j \in 1..Len(q[tr[v]]) : q[tr[v]][j] = v
    BY <1>6 DEF QueueOK
  <2>2. j \in Pending(q, p, tr[v])
    BY <1>6, <2>1 DEF Pending
  <2>3. ~(tr[v] < k)
    BY <2>2 DEF IsNext
  <2>4. tr[v] = k => i <= j
    BY <2>2 DEF IsNext
  <2>5. k \in Nat /\ tr[v] \in Nat
    BY <1>0
  <2>6. k <= tr[v]
    BY <2>3, <2>5
  <2> QED
    BY <2>1, <2>4, <2>6
<1>7. ASSUME NEW v \in Tasks, s.pc[v] = "waiting"
      PROVE  \E j \in 1..Len(s.waiters[tr[v]]) : s.waiters[tr[v]][j] = v
  <2>1. v # u /\ p[v] = "waiting"
    BY <1>1, <1>2, <1>7
  <2>2. CASE tr[v] = k
    <3>1. PICK j \in 1..Len(q[k]) : q[k][j] = v /\ i <= j
      BY <1>6, <2>1, <2>2
    <3>2. j # i
      BY <2>1, <3>1
    <3>3. j - i \in 1..Len(q[k]) - i /\ i + (j - i) = j
      BY <3>1, <3>2
    <3>4. s.waiters[k][j - i] = v
      BY <1>4, <3>1, <3>3
    <3> QED
      BY <1>4, <2>2, <3>3, <3>4
  <2>3. CASE tr[v] # k
    <3>0. k <= tr[v]
      BY <1>6, <2>1
    <3>a. k \in Nat /\ tr[v] \in Nat
      BY <1>0
    <3>1. k < tr[v]
      BY <2>3, <3>0, <3>a
    <3>2. s.waiters[tr[v]] = q[tr[v]]
      BY <1>3, <3>1
    <3> QED
      BY <2>1, <3>2 DEF QueueOK
  <2> QED
    BY <2>2, <2>3
<1>8. ASSUME NEW h \in Tiers, NEW j \in 1..Len(s.waiters[h])
      PROVE  \E l \in 1..Len(q[h]) :
                /\ s.waiters[h][j] = q[h][l] /\ q[h][l] # u
                /\ l = IF h = k THEN i + j ELSE j
  <2>1. ~(h < k)
    BY <1>3, <1>8
  <2>2. CASE h = k
    <3>1. i + j \in 1..Len(q[k]) /\ s.waiters[k][j] = q[k][i + j] /\ i + j # i
      <4>1. j \in 1..Len(q[k]) - i /\ Len(q[k]) \in Nat
        BY <1>4, <1>8, <2>2, LenProperties
      <4>2. i + j \in 1..Len(q[k]) /\ i + j # i
        BY <4>1
      <4> QED
        BY <1>4, <4>1, <4>2
    <3>2. q[k][i + j] # u
      BY <3>1 DEF QueueOK
    <3> QED
      BY <2>2, <3>1, <3>2
  <2>3. CASE k < h
    <3>1. s.waiters[h] = q[h] /\ h # k
      BY <1>0, <1>3, <2>3
    <3>2. tr[q[h][j]] = h
      BY <1>8, <3>1 DEF QueueOK
    <3> QED
      BY <1>1, <1>8, <3>1, <3>2
  <2> QED
    BY <1>0, <2>1, <2>2, <2>3
<1>9. ASSUME NEW h \in Tiers, NEW j \in 1..Len(s.waiters[h])
      PROVE  s.pc[s.waiters[h][j]] \in {"waiting", "dropped"} /\ tr[s.waiters[h][j]] = h
  <2>1. PICK l \in 1..Len(q[h]) : s.waiters[h][j] = q[h][l] /\ q[h][l] # u
    BY <1>8, <1>9
  <2>2. q[h][l] \in Tasks
    BY ElementOfSeq
  <2>3. p[q[h][l]] \in {"waiting", "dropped"} /\ tr[q[h][l]] = h
    BY DEF QueueOK
  <2> QED
    BY <1>1, <1>2, <2>1, <2>2, <2>3
<1>10. ASSUME NEW h \in Tiers, NEW j \in 1..Len(s.waiters[h]), NEW l \in 1..Len(s.waiters[h]),
              s.waiters[h][j] = s.waiters[h][l]
       PROVE  j = l
  <2>1. PICK a \in 1..Len(q[h]) : s.waiters[h][j] = q[h][a] /\ a = IF h = k THEN i + j ELSE j
    BY <1>8, <1>10
  <2>2. PICK b \in 1..Len(q[h]) : s.waiters[h][l] = q[h][b] /\ b = IF h = k THEN i + l ELSE l
    BY <1>8, <1>10
  <2>3. q[h][a] = q[h][b]
    BY <1>10, <2>1, <2>2
  <2>3a. a = b
    BY <2>3 DEF QueueOK
  <2>4. Len(s.waiters[h]) \in Nat
    BY <1>5
  <2> QED
    BY <2>1, <2>2, <2>3a, <2>4
<1>11. s.pc \in [Tasks -> States]
  BY <1>1, <1>2 DEF States
<1>12. QueueOK(s.waiters, s.pc, tr)
  BY <1>7, <1>9, <1>10 DEF QueueOK
<1>13. \A v \in Tasks : p[v] = "waiting" => tr[u] <= tr[v]
  BY <1>1, <1>6
<1> QED
  BY <1>1, <1>2, <1>5, <1>11, <1>12, <1>13 DEF WokeUp

\* _wake_next whether or not somebody was in line.
LEMMA WakeFacts ==
    ASSUME NEW q \in [Tiers -> Seq(Tasks)], NEW p \in [Tasks -> States],
           NEW tr \in [Tasks -> Tiers],
           QueueOK(q, p, tr),
           NEW s \in WakeNext(q, p)
    PROVE  WokeUp(s, q, p, tr)
<1>1. CASE \A k \in Tiers : Pending(q, p, k) = {}
  <2>1. s = [woken |-> FALSE, waiters |-> [k \in Tiers |-> <<>>], pc |-> p]
    BY <1>1 DEF WakeNext
  <2>2. \A t \in Tasks : p[t] # "waiting"
    <3> SUFFICES ASSUME NEW t \in Tasks, p[t] = "waiting"
                 PROVE  FALSE
      OBVIOUS
    <3>1. PICK i \in 1..Len(q[tr[t]]) : q[tr[t]][i] = t
      BY DEF QueueOK
    <3>2. i \in Pending(q, p, tr[t])
      BY <3>1 DEF Pending
    <3> QED
      BY <1>1, <3>2
  <2>3. QueueOK(s.waiters, s.pc, tr)
    BY <2>1, <2>2 DEF QueueOK
  <2>4. s.waiters \in [Tiers -> Seq(Tasks)]
    BY <2>1, EmptySeq
  <2> QED
    BY <2>1, <2>2, <2>3, <2>4 DEF WokeUp
<1>2. CASE ~ \A k \in Tiers : Pending(q, p, k) = {}
  <2>1. PICK k \in Tiers : \E j \in DOMAIN q[k] : IsNext(q, p, k, j) /\ s = Grant(q, p, k, j)
    BY <1>2 DEF WakeNext
  <2>2. PICK i \in DOMAIN q[k] : IsNext(q, p, k, i) /\ s = Grant(q, p, k, i)
    BY <2>1
  <2>3. i \in 1..Len(q[k])
    OBVIOUS
  <2> QED
    BY <2>2, <2>3, GrantFacts
<1> QED
  BY <1>1, <1>2

\* Joining the end of a deque keeps the queues in order.
LEMMA JoinQueue ==
    ASSUME NEW q \in [Tiers -> Seq(Tasks)], NEW p \in [Tasks -> States],
           NEW tr \in [Tasks -> Tiers], QueueOK(q, p, tr),
           NEW t \in Tasks, p[t] \notin {"waiting", "dropped"}, NEW k \in Tiers
    PROVE  /\ [q EXCEPT ![k] = Append(@, t)] \in [Tiers -> Seq(Tasks)]
           /\ QueueOK([q EXCEPT ![k] = Append(@, t)], [p EXCEPT ![t] = "waiting"],
                      [tr EXCEPT ![t] = k])
<1> DEFINE q1 == [q EXCEPT ![k] = Append(@, t)]
           p1 == [p EXCEPT ![t] = "waiting"]
           r1 == [tr EXCEPT ![t] = k]
<1>0. q[k] \in Seq(Tasks) /\ Len(q[k]) \in Nat
  BY LenProperties
<1>1. /\ q1[k] \in Seq(Tasks) /\ Len(q1[k]) = Len(q[k]) + 1
      /\ \A i \in 1..Len(q[k]) : q1[k][i] = q[k][i]
      /\ q1[k][Len(q[k]) + 1] = t
  BY <1>0
<1>2. q1 \in [Tiers -> Seq(Tasks)] /\ \A h \in Tiers : h # k => q1[h] = q[h]
  BY <1>1
<1>3. \A h \in Tiers : \A i \in 1..Len(q[h]) : q[h][i] \in Tasks /\ q[h][i] # t
  BY ElementOfSeq DEF QueueOK
<1>4. ASSUME NEW h \in Tiers, NEW i \in 1..Len(q1[h])
      PROVE  \/ i \in 1..Len(q[h]) /\ q1[h][i] = q[h][i]
             \/ h = k /\ i = Len(q[k]) + 1 /\ q1[h][i] = t
  BY <1>0, <1>1, <1>2
<1> HIDE DEF q1
<1>5. ASSUME NEW u \in Tasks, p1[u] = "waiting"
      PROVE  \E i \in 1..Len(q1[r1[u]]) : q1[r1[u]][i] = u
  <2>1. CASE u = t
    BY <1>0, <1>1, <2>1
  <2>2. CASE u # t
    <3>1. PICK i \in 1..Len(q[tr[u]]) : q[tr[u]][i] = u
      BY <1>5, <2>2 DEF QueueOK
    <3>2. CASE tr[u] = k
      <4>1. i \in 1..Len(q1[k]) /\ q1[k][i] = u
        BY <1>0, <1>1, <3>1, <3>2
      <4> QED
        BY <2>2, <3>2, <4>1
    <3>3. CASE tr[u] # k
      BY <1>2, <2>2, <3>1, <3>3
    <3> QED
      BY <3>2, <3>3
  <2> QED
    BY <2>1, <2>2
<1>6. ASSUME NEW h \in Tiers, NEW i \in 1..Len(q1[h])
      PROVE  p1[q1[h][i]] \in {"waiting", "dropped"} /\ r1[q1[h][i]] = h
  <2>1. CASE i \in 1..Len(q[h]) /\ q1[h][i] = q[h][i]
    <3>1. p[q[h][i]] \in {"waiting", "dropped"} /\ tr[q[h][i]] = h
      BY <2>1 DEF QueueOK
    <3>2. q[h][i] \in Tasks /\ q[h][i] # t
      BY <1>3, <2>1
    <3> QED
      BY <2>1, <3>1, <3>2
  <2>2. CASE h = k /\ q1[h][i] = t
    BY <2>2
  <2> QED
    BY <1>4, <2>1, <2>2
<1>7. ASSUME NEW h \in Tiers, NEW i \in 1..Len(q1[h]), NEW j \in 1..Len(q1[h]),
             q1[h][i] = q1[h][j]
      PROVE  i = j
  <2>1. CASE i \in 1..Len(q[h]) /\ q1[h][i] = q[h][i]
    <3>1. j \in 1..Len(q[h]) /\ q1[h][j] = q[h][j]
      BY <1>3, <1>4, <1>7, <2>1
    <3>2. q[h][i] = q[h][j]
      BY <1>7, <2>1, <3>1
    <3> QED
      BY <2>1, <3>1, <3>2 DEF QueueOK
  <2>2. CASE h = k /\ i = Len(q[k]) + 1 /\ q1[h][i] = t
    <3>1. ~(j \in 1..Len(q[h]) /\ q1[h][j] = q[h][j])
      BY <1>3, <1>7, <2>2
    <3> QED
      BY <1>4, <2>2, <3>1
  <2> QED
    BY <1>4, <2>1, <2>2
<1>8. QueueOK(q1, p1, r1)
  BY <1>5, <1>6, <1>7 DEF QueueOK
<1> QED
  BY <1>2, <1>8 DEF q1

\* A pending future that is cancelled stays in line, its state aside.
LEMMA DropInLine ==
    ASSUME NEW q \in [Tiers -> Seq(Tasks)], NEW p \in [Tasks -> States],
           NEW tr \in [Tasks -> Tiers], QueueOK(q, p, tr),
           NEW t \in Tasks, NEW v \in States,
           \/ p[t] = "waiting" /\ v = "dropped"
           \/ p[t] \notin {"waiting", "dropped"} /\ v # "waiting"
    PROVE  QueueOK(q, [p EXCEPT ![t] = v], tr)
<1> DEFINE p1 == [p EXCEPT ![t] = v]
<1>1. ASSUME NEW u \in Tasks, p1[u] = "waiting"
      PROVE  \E i \in 1..Len(q[tr[u]]) : q[tr[u]][i] = u
  <2>1. p[u] = "waiting"
    BY <1>1
  <2> QED
    BY <2>1 DEF QueueOK
<1>2. ASSUME NEW h \in Tiers, NEW i \in 1..Len(q[h])
      PROVE  p1[q[h][i]] \in {"waiting", "dropped"} /\ tr[q[h][i]] = h
  <2>1. p[q[h][i]] \in {"waiting", "dropped"} /\ tr[q[h][i]] = h
    BY DEF QueueOK
  <2>2. q[h][i] \in Tasks
    BY ElementOfSeq
  <2> QED
    BY <2>1, <2>2
<1> QED
  BY <1>1, <1>2 DEF QueueOK

\* A task that learns it was cancelled takes its future out of line.
LEMMA LeaveQueue ==
    ASSUME NEW q \in [Tiers -> Seq(Tasks)], NEW p \in [Tasks -> States],
           NEW tr \in [Tasks -> Tiers], QueueOK(q, p, tr),
           NEW t \in Tasks, p[t] = "dropped"
    PROVE  /\ [q EXCEPT ![tr[t]] = Without(@, t)] \in [Tiers -> Seq(Tasks)]
           /\ QueueOK([q EXCEPT ![tr[t]] = Without(@, t)], [p EXCEPT ![t] = "idle"], tr)
<1> DEFINE k == tr[t]
           w == Without(q[k], t)
           q1 == [q EXCEPT ![k] = w]
           p1 == [p EXCEPT ![t] = "idle"]
<1>0. q[k] \in Seq(Tasks) /\ \A i, j \in 1..Len(q[k]) : q[k][i] = q[k][j] => i = j
  BY DEF QueueOK
<1>1. /\ w \in Seq(Tasks)
      /\ \A i \in 1..Len(w) : w[i] # t /\ \E j \in 1..Len(q[k]) : q[k][j] = w[i]
      /\ \A j \in 1..Len(q[k]) : q[k][j] # t => \E i \in 1..Len(w) : w[i] = q[k][j]
      /\ \A i, j \in 1..Len(w) : w[i] = w[j] => i = j
  <2> HIDE DEF k
  <2> QED
    BY <1>0, WithoutFacts
<1> HIDE DEF w
<1>2. q1 \in [Tiers -> Seq(Tasks)] /\ q1[k] = w /\ \A h \in Tiers : h # k => q1[h] = q[h]
  BY <1>1
<1> HIDE DEF q1
<1>3. ASSUME NEW u \in Tasks, p1[u] = "waiting"
      PROVE  \E i \in 1..Len(q1[tr[u]]) : q1[tr[u]][i] = u
  <2>1. p[u] = "waiting" /\ u # t
    BY <1>3
  <2>2. PICK i \in 1..Len(q[tr[u]]) : q[tr[u]][i] = u
    BY <2>1 DEF QueueOK
  <2>3. CASE tr[u] = k
    <3>1. i \in 1..Len(q[k]) /\ q[k][i] = u
      BY <2>2, <2>3
    <3>2. \E j \in 1..Len(w) : w[j] = u
      BY <1>1, <2>1, <3>1
    <3> QED
      BY <1>2, <2>3, <3>2
  <2>4. CASE tr[u] # k
    BY <1>2, <2>2, <2>4
  <2> QED
    BY <2>3, <2>4
<1>4. ASSUME NEW h \in Tiers, NEW i \in 1..Len(q1[h])
      PROVE  p1[q1[h][i]] \in {"waiting", "dropped"} /\ tr[q1[h][i]] = h
  <2>1. \E j \in 1..Len(q[h]) : q[h][j] = q1[h][i] /\ q1[h][i] # t
    <3>1. CASE h = k
      BY <1>1, <1>2, <1>4, <3>1
    <3>2. CASE h # k
      <4>1. q1[h] = q[h]
        BY <1>2, <3>2
      <4>2. tr[q[h][i]] = h
        BY <1>4, <4>1 DEF QueueOK
      <4> QED
        BY <1>4, <3>2, <4>1, <4>2
    <3> QED
      BY <3>1, <3>2
  <2>2. PICK j \in 1..Len(q[h]) : q[h][j] = q1[h][i]
    BY <2>1
  <2>3. p[q[h][j]] \in {"waiting", "dropped"} /\ tr[q[h][j]] = h
    BY DEF QueueOK
  <2>4. q[h][j] \in Tasks
    BY ElementOfSeq
  <2> QED
    BY <2>1, <2>2, <2>3, <2>4
<1>5. ASSUME NEW h \in Tiers, NEW i \in 1..Len(q1[h]), NEW j \in 1..Len(q1[h]),
             q1[h][i] = q1[h][j]
      PROVE  i = j
  <2>1. CASE h = k
    BY <1>1, <1>2, <1>5, <2>1
  <2>2. CASE h # k
    BY <1>2, <1>5, <2>2 DEF QueueOK
  <2> QED
    BY <2>1, <2>2
<1>6. QueueOK(q1, p1, tr)
  BY <1>3, <1>4, <1>5 DEF QueueOK
<1> QED
  BY <1>2, <1>6 DEF q1, w

-----------------------------------------------------------------------------
(* Each action keeps the invariant. *)

LEMMA TierType == Tier \in [Tasks -> Tiers] /\ Tiers \subseteq Nat
BY TierAssumption

\* The owners are finitely many, whatever the states.
LEMMA OwnersFinite ==
    ASSUME NEW p
    PROVE  IsFiniteSet(OwnersIn(p)) /\ Cardinality(OwnersIn(p)) \in Nat
BY TasksAssumption, FS_Subset, FS_CardinalityType DEF OwnersIn

\* What is left when owner t of a slot gives it up: one owner less, or u in its place.
LEMMA GiveUpFacts ==
    ASSUME Inv, NEW t \in Tasks, t \in Owners, GiveUp(t)
    PROVE  /\ Inv'
           /\ \/ Owners' = Owners \ {t} /\ \A v \in Tasks : pc[v] # "waiting" /\ pc'[v] # "waiting"
              \/ \E u \in Tasks :
                    /\ u # t /\ pc[u] = "waiting" /\ Owners' = (Owners \ {t}) \union {u}
                    /\ \A v \in Tasks : pc'[v] = "waiting" <=> (pc[v] = "waiting" /\ v # u)
                    /\ \A v \in Tasks : pc[v] = "waiting" => Tier[u] <= Tier[v]
<1> DEFINE away == [pc EXCEPT ![t] = "idle"]
<1>0. /\ waiters \in [Tiers -> Seq(Tasks)] /\ pc \in [Tasks -> States]
      /\ holders \in 0..Capacity /\ Capacity \in Nat \ {0}
      /\ QueueOK(waiters, pc, Tier) /\ holders = Cardinality(Owners)
      /\ Owners = OwnersIn(pc) /\ Owners' = OwnersIn(pc')
  BY CapacityAssumption DEF Inv, TypeOK, SlotsAccounted, Owners, OwnersIn
<1>1. pc[t] \in {"granted", "doomed", "holding"}
  BY DEF Owners
<1>2. away \in [Tasks -> States] /\ QueueOK(waiters, away, Tier)
  BY <1>0, <1>1, TierType, DropInLine DEF States
<1>3. PICK s \in WakeNext(waiters, away) :
        /\ waiters' = s.waiters /\ pc' = s.pc
        /\ holders' = IF s.woken THEN holders ELSE holders - 1
  BY DEF GiveUp
<1>4. WokeUp(s, waiters, away, Tier)
  BY <1>0, <1>2, <1>3, TierType, WakeFacts
<1>5. IsFiniteSet(Owners) /\ Cardinality(Owners) \in Nat
  BY <1>0, OwnersFinite
<1>6. Cardinality(Owners \ {t}) = Cardinality(Owners) - 1 /\ IsFiniteSet(Owners \ {t})
  BY <1>5, FS_RemoveElement
<1>7. waiters' \in [Tiers -> Seq(Tasks)] /\ pc' \in [Tasks -> States] /\ QueueOK(waiters', pc', Tier)
  BY <1>3, <1>4 DEF WokeUp
<1>8. CASE /\ s.woken = FALSE /\ s.pc = away /\ s.waiters = [k \in Tiers |-> <<>>]
           /\ \A v \in Tasks : away[v] # "waiting"
  <2>1. Owners' = Owners \ {t}
    <3>1. OwnersIn(pc') = OwnersIn(pc) \ {t}
      BY <1>0, <1>1, <1>3, <1>8 DEF OwnersIn
    <3> QED
      BY <1>0, <3>1
  <2>2. holders' = Cardinality(Owners') /\ holders' \in 0..Capacity
    <3>1. Cardinality(Owners') = holders - 1 /\ holders' = holders - 1
      BY <1>0, <1>3, <1>6, <1>8, <2>1
    <3>2. Cardinality(Owners') \in Nat
      BY <1>6, <2>1, FS_CardinalityType
    <3> QED
      BY <1>0, <3>1, <3>2
  <2>3. \A v \in Tasks : pc[v] # "waiting" /\ pc'[v] # "waiting"
    BY <1>0, <1>1, <1>3, <1>8
  <2>4. \A k \in Tiers : waiters'[k] = <<>>
    BY <1>3, <1>8
  <2>5. Inv'
    BY <1>0, <1>7, <2>2, <2>3, <2>4 DEF Inv, TypeOK, SlotsAccounted
  <2> QED
    BY <1>0, <2>1, <2>3, <2>5
<1>9. CASE /\ s.woken = TRUE
           /\ \E u \in Tasks :
                /\ away[u] = "waiting" /\ s.pc = [away EXCEPT ![u] = "granted"]
                /\ \A v \in Tasks : away[v] = "waiting" => Tier[u] <= Tier[v]
  <2>1. PICK u \in Tasks :
                /\ away[u] = "waiting" /\ s.pc = [away EXCEPT ![u] = "granted"]
                /\ \A v \in Tasks : away[v] = "waiting" => Tier[u] <= Tier[v]
    BY <1>9
  <2>2. u # t /\ pc[u] = "waiting" /\ u \notin Owners
    BY <1>0, <2>1 DEF Owners
  <2>3. Owners' = (Owners \ {t}) \union {u}
    <3>1. OwnersIn(pc') = (OwnersIn(pc) \ {t}) \union {u}
      BY <1>0, <1>1, <1>3, <2>1, <2>2 DEF OwnersIn
    <3> QED
      BY <1>0, <3>1
  <2>4. Cardinality((Owners \ {t}) \union {u}) = Cardinality(Owners \ {t}) + 1
    BY <1>6, <2>2, FS_AddElement
  <2>5. holders' = Cardinality(Owners')
    <3>1. Cardinality(Owners') = Cardinality(Owners) - 1 + 1
      BY <1>6, <2>3, <2>4
    <3> QED
      BY <1>0, <1>3, <1>5, <1>9, <3>1
  <2>6. \A v \in Tasks : pc'[v] = "waiting" <=> (pc[v] = "waiting" /\ v # u)
    BY <1>0, <1>1, <1>3, <2>1, <2>2
  <2>7. holders = Capacity
    BY <1>0, <2>2 DEF Inv, SlotsAccounted
  <2>8. \A v \in Tasks : pc[v] = "waiting" => Tier[u] <= Tier[v]
    BY <1>0, <1>1, <2>1
  <2>9. holders' = Capacity
    BY <1>3, <1>9, <2>7
  <2>10. Inv'
    BY <1>0, <1>7, <2>5, <2>9 DEF Inv, TypeOK, SlotsAccounted
  <2> QED
    BY <1>0, <2>2, <2>3, <2>6, <2>8, <2>10
<1> QED
  BY <1>4, <1>8, <1>9 DEF WokeUp

\* A new semaphore is in order.
LEMMA InitInv == Init => Inv
<1> SUFFICES ASSUME Init
             PROVE  Inv
  OBVIOUS
<1>1. TypeOK
  BY CapacityAssumption, EmptySeq DEF Init, TypeOK, States
<1>2. QueueOK(waiters, pc, Tier)
  BY TierType DEF Init, QueueOK
<1>3. Owners = {}
  BY DEF Init, Owners
<1>4. SlotsAccounted
  BY <1>3, FS_EmptySet DEF Init, SlotsAccounted
<1> QED
  BY <1>1, <1>2, <1>4 DEF Inv

\* A free slot is taken by nobody who is in line.
LEMMA AcquireFreeInv ==
    ASSUME Inv, NEW t \in Tasks, AcquireFree(t)
    PROVE  Inv' /\ Owners' = Owners \union {t}
<1>0. /\ waiters \in [Tiers -> Seq(Tasks)] /\ pc \in [Tasks -> States]
      /\ holders \in 0..Capacity /\ Capacity \in Nat \ {0}
      /\ QueueOK(waiters, pc, Tier) /\ holders = Cardinality(Owners) /\ Owners = OwnersIn(pc)
  BY CapacityAssumption DEF Inv, TypeOK, SlotsAccounted, Owners, OwnersIn
<1>1. /\ pc[t] = "idle" /\ holders < Capacity /\ holders' = holders + 1
      /\ pc' = [pc EXCEPT ![t] = "holding"] /\ waiters' = waiters
      /\ \A k \in Tiers : waiters[k] = <<>>
  BY DEF AcquireFree, Free
<1>2. Owners' = Owners \union {t} /\ t \notin Owners
  BY <1>0, <1>1 DEF Owners
<1>3. Cardinality(Owners') = Cardinality(Owners) + 1
  BY <1>0, <1>2, OwnersFinite, FS_AddElement
<1>4. QueueOK(waiters, pc', Tier)
  BY <1>0, <1>1, TierType, DropInLine DEF States
<1>5. \A v \in Tasks : pc'[v] # "waiting"
  BY <1>0, <1>1 DEF Inv, SlotsAccounted
<1>6. TypeOK'
  BY <1>0, <1>1 DEF TypeOK, States
<1>7. SlotsAccounted'
  BY <1>0, <1>1, <1>3, <1>5 DEF SlotsAccounted
<1> QED
  BY <1>1, <1>2, <1>4, <1>6, <1>7 DEF Inv

\* Whoever has to wait does so because every slot is taken.
LEMMA AcquireWaitInv ==
    ASSUME Inv, NEW t \in Tasks, AcquireWait(t)
    PROVE  Inv' /\ Owners' = Owners /\ Cardinality(Owners) = Capacity
<1>0. /\ waiters \in [Tiers -> Seq(Tasks)] /\ pc \in [Tasks -> States]
      /\ holders \in 0..Capacity /\ Capacity \in Nat \ {0}
      /\ QueueOK(waiters, pc, Tier) /\ holders = Cardinality(Owners)
  BY CapacityAssumption DEF Inv, TypeOK, SlotsAccounted
<1>1. /\ pc[t] = "idle" /\ ~Free /\ holders' = holders
      /\ pc' = [pc EXCEPT ![t] = "waiting"]
      /\ waiters' = [waiters EXCEPT ![Tier[t]] = Append(@, t)]
  BY DEF AcquireWait
<1>2. holders = Capacity
  BY <1>0, <1>1 DEF Free, Inv, SlotsAccounted
<1>3. Owners' = Owners
  BY <1>0, <1>1 DEF Owners
<1>4. Tier[t] \in Tiers /\ [Tier EXCEPT ![t] = Tier[t]] = Tier
  BY TierType
<1>5. waiters' \in [Tiers -> Seq(Tasks)] /\ QueueOK(waiters', pc', [Tier EXCEPT ![t] = Tier[t]])
  BY <1>0, <1>1, <1>4, TierType, JoinQueue
<1>6. TypeOK'
  BY <1>0, <1>1, <1>5 DEF TypeOK, States
<1>7. SlotsAccounted'
  <2>1. Cardinality(Owners') = Cardinality(Owners)
    BY <1>3
  <2>2. holders' = Cardinality(Owners')
    BY <1>0, <1>1, <2>1
  <2>3. ~(holders' < Capacity)
    BY <1>1, <1>2, CapacityAssumption
  <2> QED
    BY <2>2, <2>3 DEF SlotsAccounted
<1> QED
  BY <1>0, <1>2, <1>3, <1>4, <1>5, <1>6, <1>7 DEF Inv

\* A step that changes only where a task is, and keeps it owner, waiter or neither.
LEMMA StandInv ==
    ASSUME Inv, NEW t \in Tasks, NEW v \in States,
           pc' = [pc EXCEPT ![t] = v], UNCHANGED <<holders, waiters>>,
           \/ pc[t] \in {"granted"} /\ v \in {"holding", "doomed"}
           \/ pc[t] = "waiting" /\ v = "dropped"
    PROVE  Inv' /\ Owners' = Owners
<1>0. /\ waiters \in [Tiers -> Seq(Tasks)] /\ pc \in [Tasks -> States]
      /\ holders \in 0..Capacity
      /\ QueueOK(waiters, pc, Tier) /\ holders = Cardinality(Owners)
      /\ holders < Capacity => /\ \A k \in Tiers : waiters[k] = <<>>
                               /\ \A u \in Tasks : pc[u] # "waiting"
  BY DEF Inv, TypeOK, SlotsAccounted
<1>1. Owners' = Owners
  BY <1>0 DEF Owners
<1>2. QueueOK(waiters, pc', Tier)
  BY <1>0, TierType, DropInLine
<1>3. \A u \in Tasks : pc'[u] = "waiting" => pc[u] = "waiting"
  BY <1>0
<1>4. TypeOK'
  BY <1>0 DEF TypeOK
<1>5. SlotsAccounted'
  BY <1>0, <1>1, <1>3 DEF SlotsAccounted
<1> QED
  BY <1>1, <1>2, <1>4, <1>5 DEF Inv

\* A task that was cancelled in line leaves it.
LEMMA LeaveLineInv ==
    ASSUME Inv, NEW t \in Tasks, LeaveLine(t)
    PROVE  Inv' /\ Owners' = Owners
<1>0. /\ waiters \in [Tiers -> Seq(Tasks)] /\ pc \in [Tasks -> States]
      /\ holders \in 0..Capacity
      /\ QueueOK(waiters, pc, Tier) /\ holders = Cardinality(Owners)
      /\ holders < Capacity => /\ \A k \in Tiers : waiters[k] = <<>>
                               /\ \A u \in Tasks : pc[u] # "waiting"
  BY DEF Inv, TypeOK, SlotsAccounted
<1>1. /\ pc[t] = "dropped" /\ pc' = [pc EXCEPT ![t] = "idle"] /\ holders' = holders
      /\ waiters' = [waiters EXCEPT ![Tier[t]] = Without(@, t)]
  BY DEF LeaveLine
<1>2. Owners' = Owners
  BY <1>0, <1>1 DEF Owners
<1>3. waiters' \in [Tiers -> Seq(Tasks)] /\ QueueOK(waiters', pc', Tier)
  BY <1>0, <1>1, TierType, LeaveQueue
<1>4. holders < Capacity => \A k \in Tiers : waiters'[k] = <<>>
  <2> SUFFICES ASSUME holders < Capacity, NEW k \in Tiers
               PROVE  waiters'[k] = <<>>
    OBVIOUS
  <2>1. waiters[k] = <<>>
    BY <1>0
  <2>2. Without(<<>>, t) = <<>>
    BY DEF Without
  <2> QED
    BY <1>0, <1>1, <2>1, <2>2
<1>5. \A u \in Tasks : pc'[u] = "waiting" => pc[u] = "waiting"
  BY <1>0, <1>1
<1>6. TypeOK'
  BY <1>0, <1>1, <1>3 DEF TypeOK, States
<1>7. SlotsAccounted'
  BY <1>0, <1>1, <1>2, <1>4, <1>5 DEF SlotsAccounted
<1> QED
  BY <1>2, <1>3, <1>6, <1>7 DEF Inv

-----------------------------------------------------------------------------
(* The mapping to SlotPool. *)

Want == [t \in Tasks |-> IF pc[t] = "waiting" THEN Tier[t] ELSE NoTier]

\* The pool counts as the semaphore does.
LEMMA PoolCounts == \A S : Pool!Cardinality(S) = Cardinality(S)
BY DEF Pool!Cardinality, Cardinality

\* Every step is a step of the pool or leaves it as it is.
LEMMA StepSimulates ==
    ASSUME Inv, NEW t \in Tasks, Step(t)
    PROVE  Inv' /\ (Pool!Next \/ UNCHANGED <<Owners, Want>>)
<1> DEFINE waiting == {v \in Tasks : pc[v] = "waiting"}
<1>1. pc \in [Tasks -> States] /\ holders = Cardinality(Owners)
  BY DEF Inv, TypeOK, SlotsAccounted
<1>2. Pool!Waiting = waiting
  BY TierType, TierAssumption DEF Pool!Waiting
<1>3. CASE AcquireFree(t)
  <2>1. Inv' /\ Owners' = Owners \union {t}
    BY <1>3, AcquireFreeInv
  <2>2. t \notin Owners \union waiting /\ Cardinality(Owners) < Capacity
    BY <1>1, <1>3 DEF AcquireFree, Free, Owners
  <2>3. Want' = Want
    BY <1>1, <1>3 DEF AcquireFree, Want
  <2>4. Pool!Take(t)
    BY <1>2, <2>1, <2>2, <2>3, PoolCounts DEF Pool!Take, Want
  <2> QED
    BY <2>1, <2>4 DEF Pool!Next
<1>4. CASE AcquireWait(t)
  <2>1. Inv' /\ Owners' = Owners /\ Cardinality(Owners) = Capacity
    BY <1>4, AcquireWaitInv
  <2>2. t \notin Owners \union waiting
    BY <1>1, <1>4 DEF AcquireWait, Owners
  <2>3. Want' = [Want EXCEPT ![t] = Tier[t]]
    BY <1>1, <1>4 DEF AcquireWait, Want
  <2>4. Pool!Join(t, Tier[t])
    BY <1>2, <2>1, <2>2, <2>3, PoolCounts DEF Pool!Join, Want
  <2> QED
    BY <2>1, <2>4, TierType DEF Pool!Next
<1>5. CASE Resume(t)
  <2>1. Inv' /\ Owners' = Owners
    BY <1>5, StandInv DEF Resume, States
  <2>2. Want' = Want
    BY <1>1, <1>5 DEF Resume, Want
  <2> QED
    BY <2>1, <2>2
<1>6. CASE Release(t) \/ PassOn(t)
  <2>1. t \in Owners /\ GiveUp(t)
    BY <1>6 DEF Release, PassOn, Owners
  <2>2. Inv'
    BY <2>1, GiveUpFacts
  <2>3. CASE Owners' = Owners \ {t} /\ \A v \in Tasks : pc[v] # "waiting" /\ pc'[v] # "waiting"
    <3>1. waiting = {} /\ Want' = Want
      BY <2>3 DEF Want
    <3>2. Pool!Drop(t)
      BY <1>2, <2>1, <2>3, <3>1 DEF Pool!Drop, Want
    <3> QED
      BY <2>2, <3>2 DEF Pool!Next
  <2>4. ASSUME NEW u \in Tasks,
               u # t, pc[u] = "waiting", Owners' = (Owners \ {t}) \union {u},
               \A v \in Tasks : pc'[v] = "waiting" <=> (pc[v] = "waiting" /\ v # u),
               \A v \in Tasks : pc[v] = "waiting" => Tier[u] <= Tier[v]
        PROVE  Pool!Next
    <3>1. Want' = [Want EXCEPT ![u] = NoTier]
      BY <2>4 DEF Want
    <3>2. Pool!MostUrgent(u)
      BY <1>2, <2>4 DEF Pool!MostUrgent
    <3>3. Pool!Pass(t, u)
      BY <2>1, <2>4, <3>1, <3>2 DEF Pool!Pass, Want
    <3> QED
      BY <3>3 DEF Pool!Next
  <2> QED
    BY <2>1, <2>2, <2>3, <2>4, GiveUpFacts
<1>7. CASE Cancel(t)
  <2>1. CASE pc[t] = "waiting" /\ pc' = [pc EXCEPT ![t] = "dropped"]
    <3>1. Inv' /\ Owners' = Owners
      BY <1>7, <2>1, StandInv DEF Cancel, States
    <3>2. Want' = [Want EXCEPT ![t] = NoTier]
      BY <1>1, <2>1 DEF Want
    <3>3. t \in waiting
      BY <2>1
    <3>4. Pool!Leave(t)
      BY <1>2, <3>1, <3>2, <3>3 DEF Pool!Leave, Want
    <3> QED
      BY <3>1, <3>4 DEF Pool!Next
  <2>2. CASE pc[t] = "granted" /\ pc' = [pc EXCEPT ![t] = "doomed"]
    <3>1. Inv' /\ Owners' = Owners
      BY <1>7, <2>2, StandInv DEF Cancel, States
    <3>2. Want' = Want
      BY <1>1, <2>2 DEF Want
    <3> QED
      BY <3>1, <3>2
  <2> QED
    BY <1>7, <2>1, <2>2 DEF Cancel
<1>8. CASE LeaveLine(t)
  <2>1. Inv' /\ Owners' = Owners
    BY <1>8, LeaveLineInv
  <2>2. Want' = Want
    BY <1>1, <1>8 DEF LeaveLine, Want
  <2> QED
    BY <2>1, <2>2
<1> QED
  BY <1>3, <1>4, <1>5, <1>6, <1>7, <1>8 DEF Step

LEMMA NextInv == Inv /\ [Next]_vars => Inv'
<1> SUFFICES ASSUME Inv, [Next]_vars
             PROVE  Inv'
  OBVIOUS
<1>1. CASE Next
  BY <1>1, StepSimulates DEF Next
<1>2. CASE UNCHANGED vars
  BY <1>2 DEF vars, Inv, TypeOK, QueueOK, SlotsAccounted, Owners
<1> QED
  BY <1>1, <1>2

\* The inductive invariant holds in every reachable state.
THEOREM Invariance == Spec => []Inv
<1>1. Init => Inv
  BY InitInv
<1>2. Inv /\ [Next]_vars => Inv'
  BY NextInv
<1> QED
  BY <1>1, <1>2, PTL DEF Spec

\* However sends are cancelled, the count is the number of sends with a slot,
\* and nobody is in line while one is free (_locks.py 307-346).
THEOREM SlotsAccountedHolds == Spec => []SlotsAccounted
<1>1. Inv => SlotsAccounted
  BY DEF Inv
<1> QED
  BY <1>1, Invariance, PTL

\* The semaphore is a pool of Capacity slots, granted by urgency (_locks.py
\* 263-346).
THEOREM ImplementsPoolHolds == Spec => ImplementsPool
<1>1. Init => Pool!Init
  BY DEF Init, Pool!Init, Owners
<1>2. Inv /\ [Next]_vars => [Pool!Next]_(Pool!vars)
  <2> SUFFICES ASSUME Inv, [Next]_vars
               PROVE  Pool!Next \/ UNCHANGED Pool!vars
    OBVIOUS
  <2>1. CASE Next
    BY <2>1, StepSimulates DEF Next, Pool!vars, Want
  <2>2. CASE UNCHANGED vars
    BY <2>2 DEF vars, Pool!vars, Owners
  <2> QED
    BY <2>1, <2>2
<1> QED
  BY <1>1, <1>2, Invariance, PTL DEF Spec, ImplementsPool, Pool!Spec

-----------------------------------------------------------------------------
(* The fragmented text sends: the invariant. *)

\* A packet is cut into one fragment at least, either way.
LEMMA CutsOK == Total \in Nat \ {0} /\ RawTotal \in Nat \ {0}
  BY FragmentsAssumption

\* Fragments of the two cuts are never of one key.
Distinct == RawTotal # Total

\* A belief of epoch e that the far side holds S of packet p under key k: not of the
\* future, and if the bucket was not lost since, right or overtaken.
Claim(y, k, p, e, S) ==
    /\ S \subseteq Frags /\ e \in Nat /\ e <= y.epoch[k]
    /\ Distinct /\ e = y.epoch[k] => S \subseteq DOMAIN y.bucket[k] \/ p \in y.delivered

\* Its buckets are of their identifiers' packets, what it remembers was delivered,
\* when own says which packet an identifier below n was given to.
Pure(own, y, n) ==
    /\ \A i \in Ids :
        /\ \A j \in DOMAIN y.bucket[<<i, Total>>] : y.bucket[<<i, Total>>][j] = <<own[i], j, "text">>
        /\ i >= n => DOMAIN y.bucket[<<i, Total>>] = {}
    /\ \A k \in y.done : k[2] = Total /\ k[1] \in Ids /\ k[1] < n /\ own[k[1]] \in y.delivered
    /\ ~y.garbled

\* The far side, when own says which packet an identifier below n was given to.
FarOK(own, y, n) ==
    /\ DOMAIN y = DOMAIN FarInit
    /\ DOMAIN y.bucket = Keys /\ y.epoch \in [Keys -> Nat]
    /\ \A i \in Ids :
        /\ DOMAIN y.bucket[<<i, Total>>] \subseteq Frags
        /\ DOMAIN y.bucket[<<i, Total>>] # Frags
    /\ Distinct => Pure(own, y, n)

\* From y to z nothing is lost without its epoch's end.
FarGrows(own, y, z) ==
    /\ y.delivered \subseteq z.delivered
    /\ \A i \in Ids :
        /\ y.epoch[<<i, Total>>] <= z.epoch[<<i, Total>>]
        /\ Distinct /\ y.epoch[<<i, Total>>] = z.epoch[<<i, Total>>] =>
            \/ DOMAIN y.bucket[<<i, Total>>] \subseteq DOMAIN z.bucket[<<i, Total>>]
            \/ own[i] \in z.delivered

\* What is remembered of p names an identifier that was given to p, and if it is
\* of this cut, what the far side holds of it (remember_for_resume).
MemoryOK(own, y, n, p, m) ==
    m # None =>
    /\ m.id \in Ids /\ m.id < n /\ own[m.id] = p
    /\ m.total = Total => Claim(y, <<m.id, Total>>, p, m.basis, m.acked)

\* A send under way, and what it believes.
ActiveOK(own, y, n, t, x) ==
    /\ DOMAIN x = DOMAIN New /\ x.result = "open" /\ ~x.sure /\ x.rush \in BOOLEAN
    /\ x.id \in Ids /\ x.id < n /\ own[x.id] = PacketOf[t]
    /\ Claim(y, <<x.id, Total>>, PacketOf[t], x.basis, x.acked)
    /\ x.word # None =>
        /\ ~x.word.complete
        /\ x.word.held # None => Claim(y, <<x.id, Total>>, PacketOf[t], x.word.epoch, x.word.held)

\* The stages of a send.
Stages == {"new", "pass0", "ask0", "answer0", "pass1", "ask1", "answer1", "done"}

\* A send, by its stage: what it believes is so; what a pass has still to send is not
\* acknowledged; no failure is counted of one that asks between the passes, has
\* everything acknowledged or has succeeded.
TaskOK(own, y, n, b, t, x) ==
    /\ x.stage \in Stages
    /\ x.stage = "new" => DOMAIN x = DOMAIN New /\ x.result = "open" /\ ~x.sure
                          /\ x.rush \in BOOLEAN /\ x.word = None
    /\ x.stage \notin {"new", "done"} => ActiveOK(own, y, n, t, x)
    /\ x.stage \in {"pass0", "pass1"} => /\ x.todo \subseteq Frags \ x.acked
                                         /\ x.acked = Frags => t \notin b
    /\ x.stage \in {"ask0", "answer0"} => ~x.rush
    /\ t \in b => /\ x.result # "true" /\ x.stage \notin {"new", "ask0", "answer0"}
                  /\ x.stage = "pass0" => x.rush
    /\ x.stage = "done" => (Distinct /\ x.result = "true" /\ x.sure => PacketOf[t] \in y.delivered)

\* A late "complete" is of a packet that was delivered.
ToldOK(own, y, n, s) ==
    Distinct => \A k \in s : k[2] = Total /\ k[1] \in Ids /\ k[1] < n /\ own[k[1]] \in y.delivered

\* The sends that have yet to begin; each needs one identifier at most.
Unbegun == {t \in Sends : send[t].stage = "new"}

\* The inductive invariant, when own says which packet each identifier was given to.
TextTrue(own) ==
    /\ FarOK(own, far, nextId)
    /\ DOMAIN send = Sends /\ \A t \in Sends : TaskOK(own, far, nextId, blame, t, send[t])
    /\ DOMAIN memory = Packets
    /\ \A p \in Packets : MemoryOK(own, far, nextId, p, memory[p])
    /\ ToldOK(own, far, nextId, told)
    /\ nextId \in Nat /\ nextId + Cardinality(Unbegun) <= Cardinality(Sends) + 1

\* A key of this cut, and its parts.
LEMMA KeyIn == \A i \in Ids : <<i, Total>> \in Keys /\ <<i, Total>>[1] = i /\ <<i, Total>>[2] = Total
  BY DEF Keys

\* A belief stays as good while the far side loses nothing without a new epoch.
LEMMA ClaimKept ==
  ASSUME NEW own, NEW y, NEW z, FarGrows(own, y, z), NEW i \in Ids, NEW e, NEW S,
         y.epoch \in [Keys -> Nat], z.epoch \in [Keys -> Nat],
         Claim(y, <<i, Total>>, own[i], e, S)
  PROVE  Claim(z, <<i, Total>>, own[i], e, S)
  <1>1. y.epoch[<<i, Total>>] \in Nat /\ z.epoch[<<i, Total>>] \in Nat
    BY KeyIn
  <1>2. e \in Nat /\ e <= y.epoch[<<i, Total>>] /\ y.epoch[<<i, Total>>] <= z.epoch[<<i, Total>>]
    BY DEF Claim, FarGrows
  <1>3. e = z.epoch[<<i, Total>>] => e = y.epoch[<<i, Total>>] /\ y.epoch[<<i, Total>>] = z.epoch[<<i, Total>>]
    BY <1>1, <1>2
  <1> QED BY <1>1, <1>2, <1>3 DEF Claim, FarGrows

\* So do the beliefs of a send under way.
LEMMA ActiveKept ==
  ASSUME NEW own, NEW y, NEW z, NEW n, FarGrows(own, y, z), FarOK(own, y, n), FarOK(own, z, n),
         NEW t, NEW x, ActiveOK(own, y, n, t, x)
  PROVE  ActiveOK(own, z, n, t, x)
  <1>1. y.epoch \in [Keys -> Nat] /\ z.epoch \in [Keys -> Nat]
    BY DEF FarOK
  <1>2. x.id \in Ids /\ own[x.id] = PacketOf[t]
    BY DEF ActiveOK
  <1>3. \A e, S : Claim(y, <<x.id, Total>>, PacketOf[t], e, S) => Claim(z, <<x.id, Total>>, PacketOf[t], e, S)
    BY <1>1, <1>2, ClaimKept
  <1> QED BY <1>3 DEF ActiveOK

\* So does what is remembered.
LEMMA MemoryKept ==
  ASSUME NEW own, NEW y, NEW z, NEW n, FarGrows(own, y, z), FarOK(own, y, n), FarOK(own, z, n),
         NEW p, NEW m, MemoryOK(own, y, n, p, m)
  PROVE  MemoryOK(own, z, n, p, m)
  <1>1. y.epoch \in [Keys -> Nat] /\ z.epoch \in [Keys -> Nat]
    BY DEF FarOK
  <1>2. \A i \in Ids : \A e, S : Claim(y, <<i, Total>>, own[i], e, S) => Claim(z, <<i, Total>>, own[i], e, S)
    BY <1>1, ClaimKept
  <1> QED BY <1>2 DEF MemoryOK

\* So does a send, at any stage.
LEMMA TaskKept ==
  ASSUME NEW own, NEW y, NEW z, NEW n, FarGrows(own, y, z), FarOK(own, y, n), FarOK(own, z, n),
         NEW t, NEW x, NEW b, NEW c, TaskOK(own, y, n, b, t, x), t \in c => t \in b
  PROVE  TaskOK(own, z, n, c, t, x)
  <1>1. x.stage \notin {"new", "done"} => ActiveOK(own, z, n, t, x)
    BY ActiveKept DEF TaskOK
  <1>2. y.delivered \subseteq z.delivered
    BY DEF FarGrows
  <1> QED BY <1>1, <1>2 DEF TaskOK

\* What the far side was thought to hold in full it has delivered.
LEMMA WholeDelivered ==
  ASSUME NEW own, NEW y, NEW n, FarOK(own, y, n), NEW i \in Ids, NEW p, NEW e, NEW S,
         Claim(y, <<i, Total>>, p, e, S), S = Frags, Distinct, e = y.epoch[<<i, Total>>]
  PROVE  p \in y.delivered
  BY DEF FarOK, Claim

\* A far side that does not change has lost nothing.
LEMMA FarSame ==
  ASSUME NEW own, NEW y, NEW n, FarOK(own, y, n)
  PROVE  FarGrows(own, y, y)
  <1>1. \A i \in Ids : y.epoch[<<i, Total>>] \in Nat
    BY KeyIn DEF FarOK
  <1> QED BY <1>1 DEF FarGrows

\* A bucket is lost: its epoch ends with it (_evict_expired, a conflict).
LEMMA LoseOK ==
  ASSUME NEW own, NEW y, NEW n, FarOK(own, y, n), NEW k \in Keys
  PROVE  FarOK(own, Lose(y, k), n) /\ FarGrows(own, y, Lose(y, k))
  <1> DEFINE z == Lose(y, k)
  <1>1. /\ DOMAIN z = DOMAIN y /\ z.bucket = [y.bucket EXCEPT ![k] = <<>>]
        /\ z.epoch = [y.epoch EXCEPT ![k] = y.epoch[k] + 1] /\ z.done = y.done
        /\ z.delivered = y.delivered /\ z.garbled = y.garbled
    BY DEF Lose, FarOK, FarInit
  <1> HIDE DEF z
  <1>2. DOMAIN z.bucket = Keys /\ z.epoch \in [Keys -> Nat]
    BY <1>1 DEF FarOK
  <1>3. \A i \in Ids : z.bucket[<<i, Total>>] = y.bucket[<<i, Total>>] \/ z.bucket[<<i, Total>>] = <<>>
    BY <1>1, KeyIn DEF FarOK
  <1>4. DOMAIN <<>> = {} /\ Frags # {}
    <2>1. 1 \in Frags
      BY CutsOK DEF Frags
    <2> QED BY <2>1
  <1>5. FarOK(own, z, n)
    <2>1. ASSUME NEW i \in Ids
          PROVE  /\ DOMAIN z.bucket[<<i, Total>>] \subseteq Frags
                 /\ DOMAIN z.bucket[<<i, Total>>] # Frags
                 /\ Distinct =>
                      /\ \A j \in DOMAIN z.bucket[<<i, Total>>] :
                            z.bucket[<<i, Total>>][j] = <<own[i], j, "text">>
                      /\ i >= n => DOMAIN z.bucket[<<i, Total>>] = {}
      <3>1. CASE z.bucket[<<i, Total>>] = y.bucket[<<i, Total>>]
        BY <3>1 DEF FarOK, Pure
      <3>2. CASE z.bucket[<<i, Total>>] = <<>>
        BY <1>4, <3>2
      <3> QED BY <1>3, <3>1, <3>2
    <2> QED BY <1>1, <1>2, <2>1 DEF FarOK, Pure
  <1>6. FarGrows(own, y, z)
    <2>1. \A i \in Ids : /\ y.epoch[<<i, Total>>] \in Nat
                              /\ \/ <<i, Total>> = k /\ z.epoch[<<i, Total>>] = y.epoch[<<i, Total>>] + 1
                                 \/ <<i, Total>> # k /\ z.epoch[<<i, Total>>] = y.epoch[<<i, Total>>]
                                    /\ z.bucket[<<i, Total>>] = y.bucket[<<i, Total>>]
      BY <1>1, KeyIn DEF FarOK
    <2> QED BY <1>1, <2>1 DEF FarGrows
  <1> QED BY <1>5, <1>6 DEF z

\* The memory of a delivered packet runs out.
LEMMA ForgetOK ==
  ASSUME NEW own, NEW y, NEW n, FarOK(own, y, n), NEW z, NEW k, z = [y EXCEPT !.done = @ \ {k}]
  PROVE  FarOK(own, z, n) /\ FarGrows(own, y, z)
  <1>1. /\ DOMAIN z = DOMAIN y /\ z.bucket = y.bucket /\ z.epoch = y.epoch /\ z.done \subseteq y.done
        /\ z.delivered = y.delivered /\ z.garbled = y.garbled
    BY DEF FarOK, FarInit
  <1>2. FarOK(own, z, n)
    BY <1>1 DEF FarOK, Pure
  <1>3. FarGrows(own, y, z)
    BY <1>1, FarSame DEF FarGrows
  <1> QED BY <1>2, <1>3

\* A fragment of an identifier's own packet comes in.
LEMMA ReceiveOK ==
  ASSUME NEW own, NEW y, NEW n \in Nat, FarOK(own, y, n), NEW i \in Ids, i < n,
         own[i] \in Packets, NEW j \in Frags
  PROVE  LET z == Receive(y, <<i, Total>>, <<own[i], j, "text">>) IN
         /\ FarOK(own, z, n) /\ FarGrows(own, y, z)
         /\ Distinct => z.epoch = y.epoch /\ (j \in DOMAIN z.bucket[<<i, Total>>] \/ own[i] \in z.delivered)
  <1> DEFINE k == <<i, Total>>
             c == <<own[i], j, "text">>
             b == y.bucket[k]
             full == [h \in DOMAIN b \union {c[2]} |-> IF h = c[2] THEN c ELSE b[h]]
             whole == {p \in Packets : \E cut \in {"text", "raw"} :
                         \A h \in DOMAIN full : full[h] = <<p, h, cut>>}
             z == Receive(y, k, c)
             u == [y EXCEPT !.bucket[k] = full]
             v == [y EXCEPT !.bucket[k] = <<>>, !.done = @ \union {k},
                            !.delivered = @ \union whole, !.garbled = @ \/ whole = {}]
  <1>1. /\ k \in Keys /\ k[1] = i /\ k[2] = Total /\ c[2] = j /\ DOMAIN b \subseteq Frags
        /\ Frags = 1..Total
        /\ Distinct => \A h \in DOMAIN b : b[h] = <<own[i], h, "text">>
    BY KeyIn DEF FarOK, Pure, Frags
  <1>2. /\ DOMAIN full = DOMAIN b \union {j}
        /\ Distinct => \A h \in DOMAIN full : full[h] = <<own[i], h, "text">>
    BY <1>1
  <1>3. Distinct => own[i] \in whole
    BY <1>2
  <1>4. \/ z = y /\ (k \in y.done \/ j \in DOMAIN b)
        \/ z = Lose(y, k) /\ ~Distinct
        \/ z = u /\ DOMAIN full # 1..Total
        \/ z = v
    <2>1. Distinct /\ j \in DOMAIN b => b[c[2]] = c
      BY <1>1
    <2>2. z = IF k \in y.done THEN y
              ELSE IF c[2] \in DOMAIN b THEN IF b[c[2]] = c THEN y ELSE Lose(y, k)
              ELSE IF DOMAIN full # 1..k[2] THEN u ELSE v
      BY DEF Receive
    <2>3. k[2] = Total /\ c[2] = j
      BY <1>1
    <2> HIDE DEF z, u, v, full, b
    <2> QED BY <2>1, <2>2, <2>3
  <1> HIDE DEF full, whole, z, c
  <1>5. CASE z = y /\ (k \in y.done \/ j \in DOMAIN b)
    <2>1. Distinct => j \in DOMAIN y.bucket[k] \/ own[i] \in y.delivered
      BY <1>1, <1>4, <1>5 DEF FarOK, Pure
    <2>2. FarGrows(own, y, y)
      BY FarSame
    <2> QED BY <1>5, <2>1, <2>2 DEF z, c
  <1>6. CASE z = u /\ DOMAIN full # 1..Total
    <2>1. /\ DOMAIN u = DOMAIN y /\ u.bucket = [y.bucket EXCEPT ![k] = full] /\ u.epoch = y.epoch
          /\ u.done = y.done /\ u.delivered = y.delivered /\ u.garbled = y.garbled
      BY DEF FarOK, FarInit
    <2> HIDE DEF u
    <2>2. /\ DOMAIN u.bucket = Keys
          /\ \A h \in Ids : h # i => u.bucket[<<h, Total>>] = y.bucket[<<h, Total>>]
          /\ u.bucket[<<i, Total>>] = full
      BY <1>1, <2>1, KeyIn DEF FarOK
    <2>3. FarOK(own, u, n)
      <3>1. DOMAIN full \subseteq Frags /\ DOMAIN full # Frags
        BY <1>1, <1>2, <1>6
      <3>2. ~(i >= n)
        <4>1. i \in Nat
          BY DEF Ids
        <4> QED BY <4>1
      <3>3. Distinct => Pure(own, u, n)
        <4> SUFFICES ASSUME Distinct PROVE Pure(own, u, n)
          OBVIOUS
        <4>1. Pure(own, y, n)
          BY DEF FarOK
        <4>2. ASSUME NEW h \in Ids
              PROVE  /\ \A l \in DOMAIN u.bucket[<<h, Total>>] : u.bucket[<<h, Total>>][l] = <<own[h], l, "text">>
                     /\ h >= n => DOMAIN u.bucket[<<h, Total>>] = {}
          <5>1. CASE h = i
            BY <1>2, <2>2, <3>2, <5>1
          <5>2. CASE h # i
            BY <2>2, <4>1, <5>2 DEF Pure
          <5> QED BY <5>1, <5>2
        <4> QED BY <2>1, <4>1, <4>2 DEF Pure
      <3> QED BY <2>1, <2>2, <3>1, <3>3 DEF FarOK
    <2>4. FarGrows(own, y, u)
      <3>1. \A h \in Ids : u.epoch[<<h, Total>>] \in Nat
        BY <2>1, KeyIn DEF FarOK
      <3> QED BY <1>2, <2>1, <2>2, <3>1 DEF FarGrows
    <2> QED BY <1>2, <1>6, <2>1, <2>2, <2>3, <2>4 DEF z, c
  <1>7. CASE z = v
    <2>1. /\ DOMAIN v = DOMAIN y /\ v.bucket = [y.bucket EXCEPT ![k] = <<>>] /\ v.epoch = y.epoch
          /\ v.done = y.done \union {k} /\ v.delivered = y.delivered \union whole
          /\ v.garbled = (y.garbled \/ whole = {})
      BY DEF FarOK, FarInit
    <2> HIDE DEF v
    <2>2. /\ DOMAIN v.bucket = Keys
          /\ \A h \in Ids : h # i => v.bucket[<<h, Total>>] = y.bucket[<<h, Total>>]
          /\ v.bucket[<<i, Total>>] = <<>> /\ (Distinct => own[i] \in v.delivered /\ ~v.garbled)
      BY <1>1, <1>3, <2>1, KeyIn DEF FarOK, Pure
    <2>3. DOMAIN <<>> = {} /\ Frags # {}
      OBVIOUS
    <2>4. Distinct => \A h \in v.done : h[2] = Total /\ h[1] \in Ids /\ h[1] < n /\ own[h[1]] \in v.delivered
      BY <1>1, <2>1, <2>2 DEF FarOK, Pure
    <2>5. FarOK(own, v, n)
      <3>1. Distinct => Pure(own, v, n)
        BY <2>2, <2>3, <2>4 DEF FarOK, Pure
      <3> QED BY <2>1, <2>2, <2>3, <3>1 DEF FarOK
    <2>6. FarGrows(own, y, v)
      <3>1. \A h \in Ids : v.epoch[<<h, Total>>] \in Nat
        BY <2>1, KeyIn DEF FarOK
      <3> QED BY <2>1, <2>2, <3>1 DEF FarGrows
    <2> QED BY <1>7, <2>1, <2>2, <2>5, <2>6 DEF z, c
  <1>8. CASE z = Lose(y, k) /\ ~Distinct
    BY <1>1, <1>8, LoseOK DEF z, c
  <1> QED BY <1>4, <1>5, <1>6, <1>7, <1>8

-----------------------------------------------------------------------------
(* What the parts of a step leave true. *)

\* What is remembered of every packet.
MemoryTrue(own, y, n, m) ==
    DOMAIN m = Packets /\ \A p \in Packets : MemoryOK(own, y, n, p, m[p])

\* The step leaves send t begun and true, and the memory true.
Settled(own, y, n, b, t) ==
    \E z : /\ send' = [send EXCEPT ![t] = z] /\ z.stage # "new" /\ TaskOK(own, y, n, b, t, z)
           /\ MemoryTrue(own, y, n, memory')

\* What a send knows of its own fragments may be remembered (remember_for_resume).
LEMMA RememberOK ==
  ASSUME NEW own, NEW y, NEW n, NEW t \in Sends, NEW x, ActiveOK(own, y, n, t, x),
         MemoryTrue(own, y, n, memory), Remember(t, x)
  PROVE  MemoryTrue(own, y, n, memory')
  <1> DEFINE m == [id |-> x.id, total |-> Total, acked |-> x.acked, basis |-> x.basis]
  <1>1. MemoryOK(own, y, n, PacketOf[t], m)
    BY DEF ActiveOK, MemoryOK
  <1>2. memory' = [memory EXCEPT ![PacketOf[t]] = m] \/ memory' = memory
    BY DEF Remember
  <1> HIDE DEF m
  <1> QED BY <1>1, <1>2 DEF MemoryTrue

\* A send returns; with True, if its packet was delivered and none of its failures
\* count.
LEMMA ReturnOK ==
  ASSUME NEW own, NEW y, NEW n, NEW b, NEW t \in Sends, NEW x, NEW v, Return(t, x, v),
         MemoryTrue(own, y, n, memory'),
         v = "true" =>
           /\ t \notin b
           /\ Distinct /\ (x.sure \/ x.basis = far.epoch[Key(x, Total)]) => PacketOf[t] \in y.delivered
  PROVE  Settled(own, y, n, b, t)
  <1> DEFINE z == [New EXCEPT !.stage = "done", !.result = v,
                          !.expired = x.expired, !.sent = x.sent,
                          !.sure = x.sure \/ x.basis = far.epoch[Key(x, Total)]]
  <1>1. send' = [send EXCEPT ![t] = z]
    BY DEF Return, Become
  <1>2. z.stage = "done" /\ z.result = v /\ z.sure = (x.sure \/ x.basis = far.epoch[Key(x, Total)])
    BY DEF New
  <1> HIDE DEF z
  <1>3. TaskOK(own, y, n, b, t, z)
    BY <1>2 DEF TaskOK, Stages
  <1> QED BY <1>1, <1>2, <1>3 DEF Settled

\* A send succeeds on a packet that was delivered.
LEMMA SucceedOK ==
  ASSUME NEW own, NEW y, NEW n, NEW b, NEW t \in Sends, NEW x, Succeed(t, x),
         MemoryTrue(own, y, n, memory), t \notin b,
         Distinct /\ (x.sure \/ x.basis = far.epoch[Key(x, Total)]) => PacketOf[t] \in y.delivered
  PROVE  Settled(own, y, n, b, t)
  <1>1. MemoryTrue(own, y, n, memory')
    BY DEF Succeed, MemoryTrue, MemoryOK
  <1> QED BY <1>1, ReturnOK DEF Succeed

\* x is a send under way in a world where nothing was lost since far.
Going(own, y, n, t, x) ==
    /\ FarOK(own, y, n) /\ MemoryTrue(own, y, n, memory) /\ ActiveOK(own, y, n, t, x)
    /\ Distinct => y.epoch[<<x.id, Total>>] = far.epoch[<<x.id, Total>>]
    /\ x.rush = send[t].rush

\* A send succeeds when all of its fragments are acknowledged.
LEMMA WholeSucceeds ==
  ASSUME NEW own, NEW y, NEW n, NEW b, NEW t \in Sends, NEW x, Going(own, y, n, t, x),
         x.acked = Frags, t \notin b, Succeed(t, x)
  PROVE  Settled(own, y, n, b, t)
  <1>1. Key(x, Total) = <<x.id, Total>>
    BY DEF Key
  <1>2. ~x.sure /\ (Distinct /\ x.basis = y.epoch[<<x.id, Total>>] => PacketOf[t] \in y.delivered)
    BY WholeDelivered DEF Going, ActiveOK
  <1> QED BY <1>1, <1>2, SucceedOK DEF Going

\* A send goes on to another stage, what it believes being so.
LEMMA BecomeOK ==
  ASSUME NEW own, NEW y, NEW n, NEW b, NEW t \in Sends, NEW x, Going(own, y, n, t, x), NEW z,
         /\ DOMAIN z = DOMAIN x /\ z.result = x.result /\ z.sure = x.sure /\ z.rush = x.rush
         /\ z.id = x.id /\ z.acked = x.acked /\ z.basis = x.basis /\ z.word = x.word,
         z.stage \in Stages \ {"new", "done"},
         z.stage \in {"pass0", "pass1"} => /\ z.todo \subseteq Frags \ x.acked
                                           /\ x.acked = Frags => t \notin b,
         z.stage \in {"ask0", "answer0"} => ~x.rush /\ t \notin b,
         z.stage = "pass0" => x.rush \/ t \notin b,
         Become(t, z), UNCHANGED memory
  PROVE  Settled(own, y, n, b, t)
  <1>1. ActiveOK(own, y, n, t, z)
    BY DEF ActiveOK, Going
  <1>2. z.result = "open" /\ z.acked = x.acked /\ z.rush = x.rush
    BY <1>1 DEF ActiveOK
  <1>3. TaskOK(own, y, n, b, t, z)
    BY <1>1, <1>2 DEF TaskOK
  <1>4. MemoryTrue(own, y, n, memory')
    BY DEF Going
  <1> QED BY <1>3, <1>4 DEF Settled, Become

\* After the first pass or its QUERY: success, or the second pass.
LEMMA GoOnOK ==
  ASSUME NEW own, NEW y, NEW n, NEW b, NEW t \in Sends, NEW x, Going(own, y, n, t, x),
         x.acked = Frags => t \notin b, GoOn(t, x)
  PROVE  Settled(own, y, n, b, t)
  <1>1. CASE x.acked = Frags
    BY <1>1, WholeSucceeds DEF GoOn
  <1>2. CASE x.acked # Frags
    <2> DEFINE z == [x EXCEPT !.stage = "pass1", !.todo = Frags \ x.acked, !.try = 0,
                        !.budget = IF Reconciles(t) /\ x.acked # {} THEN Finish ELSE Attempts]
    <2>1. Become(t, z) /\ UNCHANGED memory
      BY <1>2 DEF GoOn, Redrive
    <2>2. /\ DOMAIN z = DOMAIN x /\ z.result = x.result /\ z.sure = x.sure /\ z.rush = x.rush
          /\ z.id = x.id /\ z.acked = x.acked /\ z.basis = x.basis /\ z.word = x.word
          /\ z.stage = "pass1" /\ z.todo = Frags \ x.acked
      BY DEF Going, ActiveOK, New
    <2>3. x.acked \subseteq Frags
      BY DEF Going, ActiveOK, Claim
    <2>4. z.todo # {}
      BY <1>2, <2>2, <2>3
    <2> HIDE DEF z
    <2> QED BY <2>1, <2>2, <2>4, BecomeOK DEF Stages
  <1> QED BY <1>1, <1>2

\* The end of a pass: success, a QUERY, or the second pass.
LEMMA PassEndsOK ==
  ASSUME NEW own, NEW y, NEW n, NEW b, NEW t \in Sends, NEW x, Going(own, y, n, t, x),
         x.stage \in {"pass0", "pass1"}, x.acked = Frags => t \notin b,
         x.stage = "pass0" => x.rush \/ t \notin b, PassEnds(t, x)
  PROVE  Settled(own, y, n, b, t)
  <1>1. CASE x.stage = "pass1" /\ x.acked = Frags
    BY <1>1, WholeSucceeds DEF PassEnds
  <1>2. CASE x.stage = "pass1" /\ x.acked # Frags
    <2> DEFINE z == [x EXCEPT !.stage = "ask1"]
    <2>1. Become(t, z) /\ UNCHANGED memory
      BY <1>2 DEF PassEnds
    <2>2. /\ DOMAIN z = DOMAIN x /\ z.result = x.result /\ z.sure = x.sure /\ z.rush = x.rush
          /\ z.id = x.id /\ z.acked = x.acked /\ z.basis = x.basis /\ z.word = x.word
          /\ z.stage = "ask1"
      BY DEF Going, ActiveOK, New
    <2> HIDE DEF z
    <2> QED BY <2>1, <2>2, BecomeOK DEF Stages
  <1>3. CASE x.stage = "pass0" /\ Reconciles(t) /\ (x.acked # Frags \/ x.resumed)
    <2> DEFINE z == [x EXCEPT !.stage = "ask0"]
    <2>1. Become(t, z) /\ UNCHANGED memory
      BY <1>3 DEF PassEnds
    <2>2. /\ DOMAIN z = DOMAIN x /\ z.result = x.result /\ z.sure = x.sure /\ z.rush = x.rush
          /\ z.id = x.id /\ z.acked = x.acked /\ z.basis = x.basis /\ z.word = x.word
          /\ z.stage = "ask0"
      BY DEF Going, ActiveOK, New
    <2>3. ~x.rush /\ t \notin b
      BY <1>3 DEF Going, Reconciles
    <2> HIDE DEF z
    <2> QED BY <2>1, <2>2, <2>3, BecomeOK DEF Stages
  <1>4. CASE x.stage # "pass1" /\ ~(Reconciles(t) /\ (x.acked # Frags \/ x.resumed))
    BY <1>4, GoOnOK DEF PassEnds
  <1> QED BY <1>1, <1>2, <1>3, <1>4

\* A set of numbers up to some number, not empty, has a least one.
LEMMA FirstIn ==
  ASSUME NEW x, x.todo # {}, x.todo \subseteq Frags
  PROVE  First(x) \in x.todo
  <1> DEFINE S == x.todo
  <1>1. S \subseteq Nat /\ S # {}
    BY CutsOK DEF Frags
  <1> HIDE DEF S
  <1>2. PICK i \in S : \A j \in S : <<j, i>> \notin OpToRel(<, Nat)
    BY WFMin, NatLessThanWellFounded, <1>1, Zenon
  <1>3. \A j \in S : ~(j \in Nat /\ i \in Nat /\ j < i)
    BY <1>2, Zenon DEF OpToRel
  <1>4. \A j \in S : i <= j
    BY <1>1, <1>3
  <1> QED BY <1>4 DEF First, S

\* One fragment fewer to send.
LEMMA NextFragmentOK ==
  ASSUME NEW own, NEW y, NEW n, NEW b, NEW t \in Sends, NEW x, Going(own, y, n, t, x),
         x.stage \in {"pass0", "pass1"}, x.todo \ {First(x)} \subseteq Frags \ x.acked,
         x.acked = Frags => t \notin b,
         x.stage = "pass0" => x.rush \/ t \notin b, NextFragment(t, x)
  PROVE  Settled(own, y, n, b, t)
  <1> DEFINE z == [x EXCEPT !.todo = @ \ {First(x)}, !.try = 0]
  <1>1. /\ DOMAIN z = DOMAIN x /\ z.result = x.result /\ z.sure = x.sure /\ z.rush = x.rush
        /\ z.id = x.id /\ z.acked = x.acked /\ z.basis = x.basis /\ z.word = x.word
        /\ z.stage = x.stage /\ z.todo = x.todo \ {First(x)}
    BY DEF Going, ActiveOK, New
  <1>2. Become(t, z) /\ UNCHANGED memory
    BY DEF NextFragment
  <1> HIDE DEF z
  <1> QED BY <1>1, <1>2, BecomeOK DEF Stages

-----------------------------------------------------------------------------
(* A step of a send. *)

\* A step of one send, and the far side's with it, keeps the invariant.
LEMMA StepTrue ==
  ASSUME NEW own, TextTrue(own), NEW t \in Sends,
         Settled(own, far', nextId, blame', t), FarOK(own, far', nextId), FarGrows(own, far, far'),
         UNCHANGED nextId, \A u \in Sends \ {t} : u \in blame' => u \in blame,
         ToldOK(own, far', nextId, told')
  PROVE  TextTrue(own)'
  <1>1. PICK z : /\ send' = [send EXCEPT ![t] = z] /\ z.stage # "new"
                 /\ TaskOK(own, far', nextId, blame', t, z) /\ MemoryTrue(own, far', nextId, memory')
    BY DEF Settled
  <1>2. DOMAIN send' = Sends /\ send'[t] = z /\ \A u \in Sends \ {t} : send'[u] = send[u]
    BY <1>1 DEF TextTrue
  <1>3. ASSUME NEW u \in Sends PROVE TaskOK(own, far', nextId, blame', u, send'[u])
    <2>1. CASE u = t
      BY <1>1, <1>2, <2>1
    <2>2. CASE u # t
      <3>1. TaskOK(own, far, nextId, blame, u, send[u]) /\ (u \in blame' => u \in blame)
        BY <2>2 DEF TextTrue
      <3>2. TaskOK(own, far', nextId, blame', u, send[u])
        BY <3>1, TaskKept DEF TextTrue
      <3> QED BY <1>2, <2>2, <3>2
    <2> QED BY <2>1, <2>2
  <1>4. nextId + Cardinality(Unbegun') <= Cardinality(Sends) + 1
    <2>1. Unbegun \subseteq Sends /\ Unbegun' \subseteq Unbegun
      BY <1>1, <1>2 DEF Unbegun
    <2>2. IsFiniteSet(Unbegun) /\ IsFiniteSet(Sends)
      BY <2>1, FragmentsAssumption, FS_Subset
    <2>3. IsFiniteSet(Unbegun') /\ Cardinality(Unbegun') <= Cardinality(Unbegun)
      BY <2>1, <2>2, FS_Subset
    <2>4. Cardinality(Unbegun) \in Nat /\ Cardinality(Unbegun') \in Nat /\ Cardinality(Sends) \in Nat
      BY <2>2, <2>3, FS_CardinalityType
    <2>5. nextId \in Nat /\ nextId + Cardinality(Unbegun) <= Cardinality(Sends) + 1
      BY DEF TextTrue
    <2> QED BY <2>3, <2>4, <2>5
  <1>5. ToldOK(own, far', nextId', told') /\ MemoryTrue(own, far', nextId', memory')
    BY <1>1
  <1>6. nextId' \in Nat /\ nextId' + Cardinality(Unbegun') <= Cardinality(Sends) + 1
    BY <1>4 DEF TextTrue
  <1>7. FarOK(own, far', nextId') /\ \A u \in Sends : TaskOK(own, far', nextId', blame', u, send'[u])
    BY <1>3
  <1> QED BY <1>2, <1>5, <1>6, <1>7 DEF TextTrue, MemoryTrue

\* The far side changes, and nothing else.
LEMMA FarStepTrue ==
  ASSUME NEW own, TextTrue(own), FarOK(own, far', nextId), FarGrows(own, far, far'),
         UNCHANGED <<send, memory, nextId, blame, told>>
  PROVE  TextTrue(own)'
  <1>1. ASSUME NEW u \in Sends PROVE TaskOK(own, far', nextId', blame', u, send'[u])
    <2>1. TaskOK(own, far, nextId, blame, u, send[u])
      BY DEF TextTrue
    <2>2. TaskOK(own, far', nextId, blame, u, send[u])
      BY <2>1, TaskKept DEF TextTrue
    <2> QED BY <2>2
  <1>2. ASSUME NEW p \in Packets PROVE MemoryOK(own, far', nextId', p, memory'[p])
    <2>1. MemoryOK(own, far, nextId, p, memory[p])
      BY DEF TextTrue
    <2>2. MemoryOK(own, far', nextId, p, memory[p])
      BY <2>1, MemoryKept DEF TextTrue
    <2> QED BY <2>2
  <1>3. ToldOK(own, far', nextId', told')
    BY DEF TextTrue, ToldOK, FarGrows
  <1>4. /\ DOMAIN send' = Sends /\ DOMAIN memory' = Packets
        /\ nextId' \in Nat /\ nextId' + Cardinality(Unbegun') <= Cardinality(Sends) + 1
    BY DEF TextTrue, Unbegun
  <1>5. FarOK(own, far', nextId')
    OBVIOUS
  <1> QED BY <1>1, <1>2, <1>3, <1>4, <1>5 DEF TextTrue

\* What the invariant says of a send under way.
LEMMA UnderWay ==
  ASSUME NEW own, TextTrue(own), NEW t \in Sends, send[t].stage \in Stages \ {"new", "done"}
  PROVE  /\ Going(own, far, nextId, t, send[t]) /\ FarGrows(own, far, far)
         /\ ToldOK(own, far, nextId, told) /\ MemoryTrue(own, far, nextId, memory)
         /\ FarOK(own, far, nextId) /\ ActiveOK(own, far, nextId, t, send[t])
         /\ TaskOK(own, far, nextId, blame, t, send[t])
  BY FarSame DEF TextTrue, TaskOK, Going, ToldOK, MemoryTrue

\* A step that leaves the far side as it is.
LEMMA NearStepTrue ==
  ASSUME NEW own, TextTrue(own), NEW t \in Sends,
         send[t].stage \in Stages \ {"new", "done"}, Settled(own, far, nextId, blame', t),
         UNCHANGED <<far, nextId, told>>, \A u \in Sends \ {t} : u \in blame' => u \in blame
  PROVE  TextTrue(own)'
  <1>1. /\ Settled(own, far', nextId, blame', t) /\ FarOK(own, far', nextId) /\ FarGrows(own, far, far')
        /\ ToldOK(own, far', nextId, told')
    BY UnderWay
  <1> QED BY <1>1, StepTrue

\* An exchange: lost, or received, with its ACK or without.
LEMMA SendOneTrue ==
  ASSUME NEW own, TextTrue(own), NEW t \in Sends, SendOne(t)
  PROVE  TextTrue(own)'
  <1> DEFINE x == [send[t] EXCEPT !.sent = @ \/ send[t].expired]
             i == First(x)
             z == [x EXCEPT !.acked = @ \union {i}]
             k == <<x.id, Total>>
             w == Receive(far, k, <<PacketOf[t], i, "text">>)
  <1>1. /\ DOMAIN x = DOMAIN send[t] /\ x.stage = send[t].stage /\ x.result = send[t].result
        /\ x.sure = send[t].sure /\ x.rush = send[t].rush /\ x.id = send[t].id
        /\ x.acked = send[t].acked /\ x.basis = send[t].basis /\ x.word = send[t].word
        /\ x.todo = send[t].todo /\ x.stage \in {"pass0", "pass1"}
    BY DEF SendOne, TextTrue, TaskOK, ActiveOK, New
  <1>2. /\ Going(own, far, nextId, t, send[t]) /\ FarGrows(own, far, far) /\ FarOK(own, far, nextId)
        /\ ToldOK(own, far, nextId, told) /\ ActiveOK(own, far, nextId, t, send[t])
        /\ TaskOK(own, far, nextId, blame, t, send[t])
    BY <1>1, UnderWay DEF Stages
  <1>3. /\ far' \in {w, far} /\ UNCHANGED <<nextId, told>>
        /\ \/ /\ far' = w /\ NextFragment(t, z)
              /\ IF Recorded(t, x) THEN blame' = {} ELSE blame' = blame
           \/ /\ Become(t, [x EXCEPT !.try = @ + 1]) /\ UNCHANGED <<memory, blame>>
           \/ /\ NextFragment(t, x)
              /\ blame' \in {blame} \union {blame \union {u} : u \in {v \in {t} : Recorded(t, x)}}
    BY DEF SendOne, Key, Cleared
  <1>4. z.acked = x.acked \union {i} /\ DOMAIN z = DOMAIN x /\ z.stage = x.stage /\ z.result = x.result
        /\ z.sure = x.sure /\ z.rush = x.rush /\ z.id = x.id /\ z.basis = x.basis /\ z.word = x.word
        /\ z.todo = x.todo
    BY <1>1, <1>2 DEF ActiveOK, New
  <1>5. x.todo # {} /\ x.todo \subseteq Frags \ x.acked
    BY <1>1, <1>2 DEF TaskOK, SendOne
  <1>6. i \in x.todo /\ i \in Frags /\ i \notin x.acked
    BY <1>5, FirstIn
  <1>7. First(z) = i
    BY <1>4 DEF First
  <1>8. Recorded(t, x) <=> x.stage = "pass1" \/ x.rush
    BY <1>1 DEF Recorded, Reconciles
  <1> HIDE DEF x, z, i
  <1>9. /\ FarOK(own, w, nextId) /\ FarGrows(own, far, w)
        /\ Distinct => w.epoch = far.epoch /\ (i \in DOMAIN w.bucket[k] \/ PacketOf[t] \in w.delivered)
    <2>1. x.id \in Ids /\ x.id < nextId /\ own[x.id] = PacketOf[t] /\ own[x.id] \in Packets
          /\ nextId \in Nat
      BY <1>1, <1>2 DEF ActiveOK, Packets, TextTrue
    <2> DEFINE r == Receive(far, <<x.id, Total>>, <<own[x.id], i, "text">>)
    <2>2. /\ FarOK(own, r, nextId) /\ FarGrows(own, far, r)
          /\ Distinct => r.epoch = far.epoch /\ (i \in DOMAIN r.bucket[<<x.id, Total>>] \/ own[x.id] \in r.delivered)
      BY <1>2, <1>6, <2>1, ReceiveOK
    <2>3. r = w
      BY <2>1
    <2> HIDE DEF r, w
    <2> QED BY <2>1, <2>2, <2>3
  <1> HIDE DEF w
  <1>10. FarOK(own, far', nextId) /\ FarGrows(own, far, far') /\ (Distinct => far'.epoch = far.epoch)
    BY <1>2, <1>3, <1>9
  <1>11. ActiveOK(own, far', nextId, t, x)
    <2>1. ActiveOK(own, far, nextId, t, x)
      BY <1>1, <1>2 DEF ActiveOK
    <2> QED BY <1>2, <1>10, <2>1, ActiveKept
  <1>12. MemoryTrue(own, far', nextId, memory)
    BY <1>2, <1>10, MemoryKept DEF TextTrue, MemoryTrue
  <1>13. Going(own, far', nextId, t, x)
    BY <1>1, <1>10, <1>11, <1>12 DEF Going
  <1>14. t \in blame /\ x.stage = "pass0" => x.rush
    BY <1>1, <1>2 DEF TaskOK
  <1>15. ToldOK(own, far', nextId, told')
    BY <1>2, <1>3, <1>10 DEF ToldOK, FarGrows
  <1>16. ASSUME Settled(own, far', nextId, blame', t), \A u \in Sends \ {t} : u \in blame' => u \in blame
         PROVE  TextTrue(own)'
    BY <1>3, <1>10, <1>15, <1>16, StepTrue
  <1>17. CASE /\ far' = w /\ NextFragment(t, z)
              /\ IF Recorded(t, x) THEN blame' = {} ELSE blame' = blame
    <2>1. Claim(far', k, PacketOf[t], x.basis, z.acked)
      <3>1. Claim(far', k, PacketOf[t], x.basis, x.acked)
        BY <1>11 DEF ActiveOK
      <3> QED BY <1>4, <1>6, <1>9, <1>17, <3>1 DEF Claim
    <2>2. Going(own, far', nextId, t, z)
      BY <1>4, <1>13, <2>1 DEF Going, ActiveOK
    <2>3. t \notin blame'
      BY <1>1, <1>8, <1>14, <1>17
    <2>4. z.todo \ {First(z)} \subseteq Frags \ z.acked
      BY <1>4, <1>5, <1>7
    <2>5. Settled(own, far', nextId, blame', t)
      BY <1>1, <1>4, <1>17, <2>2, <2>3, <2>4, NextFragmentOK
    <2>6. \A u \in Sends \ {t} : u \in blame' => u \in blame
      BY <1>17
    <2> QED BY <1>16, <2>5, <2>6
  <1>18. CASE Become(t, [x EXCEPT !.try = @ + 1]) /\ UNCHANGED <<memory, blame>>
    <2> DEFINE a == [x EXCEPT !.try = @ + 1]
    <2>1. /\ DOMAIN a = DOMAIN x /\ a.result = x.result /\ a.sure = x.sure /\ a.rush = x.rush
          /\ a.id = x.id /\ a.acked = x.acked /\ a.basis = x.basis /\ a.word = x.word
          /\ a.stage = x.stage /\ a.todo = x.todo
      BY <1>13 DEF Going, ActiveOK, New
    <2> HIDE DEF a
    <2>2. Settled(own, far', nextId, blame', t)
      BY <1>1, <1>5, <1>13, <1>14, <1>18, <2>1, BecomeOK DEF Stages, a
    <2> QED BY <1>16, <1>18, <2>2
  <1>19. CASE /\ NextFragment(t, x)
              /\ blame' \in {blame} \union {blame \union {u} : u \in {v \in {t} : Recorded(t, x)}}
    <2>1. x.acked # Frags
      BY <1>6
    <2>2. x.stage = "pass0" => x.rush \/ t \notin blame'
      BY <1>8, <1>14, <1>19
    <2>3. Settled(own, far', nextId, blame', t)
      BY <1>1, <1>5, <1>13, <1>19, <2>1, <2>2, NextFragmentOK
    <2>4. \A u \in Sends \ {t} : u \in blame' => u \in blame
      BY <1>19
    <2> QED BY <1>16, <2>3, <2>4
  <1> QED BY <1>3, <1>17, <1>18, <1>19

\* A fragment left out because the packet is too old.
LEMMA ExpireTrue ==
  ASSUME NEW own, TextTrue(own), NEW t \in Sends, Expire(t)
  PROVE  TextTrue(own)'
  <1> DEFINE x == [send[t] EXCEPT !.expired = TRUE]
  <1>1. /\ send[t].stage = "pass0" /\ UNCHANGED <<nextId, far, told>>
        /\ NextFragment(t, x) /\ UNCHANGED blame /\ 1 \in send[t].todo
    BY DEF Expire
  <1>2. /\ Going(own, far, nextId, t, send[t]) /\ ActiveOK(own, far, nextId, t, send[t])
        /\ TaskOK(own, far, nextId, blame, t, send[t])
    BY <1>1, UnderWay DEF Stages
  <1>3. /\ DOMAIN x = DOMAIN send[t] /\ x.stage = "pass0" /\ x.result = send[t].result
        /\ x.sure = send[t].sure /\ x.rush = send[t].rush /\ x.id = send[t].id
        /\ x.acked = send[t].acked /\ x.basis = send[t].basis /\ x.word = send[t].word
        /\ x.todo = send[t].todo
    BY <1>1, <1>2 DEF ActiveOK, New
  <1> HIDE DEF x
  <1>4. Going(own, far, nextId, t, x)
    BY <1>2, <1>3 DEF Going, ActiveOK
  <1>5. x.todo # {} /\ x.todo \subseteq Frags \ x.acked /\ x.acked # Frags
    BY <1>1, <1>2, <1>3 DEF TaskOK
  <1>6. x.rush \/ t \notin blame'
    BY <1>1, <1>2, <1>3 DEF TaskOK
  <1>7. Settled(own, far, nextId, blame', t)
    BY <1>1, <1>3, <1>4, <1>5, <1>6, NextFragmentOK
  <1> QED BY <1>1, <1>7, NearStepTrue DEF Stages

\* A pass is over.
LEMMA EndPassTrue ==
  ASSUME NEW own, TextTrue(own), NEW t \in Sends, EndPass(t)
  PROVE  TextTrue(own)'
  <1>1. /\ send[t].stage \in {"pass0", "pass1"} /\ UNCHANGED <<nextId, far, told>>
        /\ PassEnds(t, send[t]) /\ blame' \in {{}, blame}
    BY DEF EndPass, PassOver, Cleared
  <1>2. Going(own, far, nextId, t, send[t]) /\ TaskOK(own, far, nextId, blame, t, send[t])
    BY <1>1, UnderWay DEF Stages
  <1>3. /\ send[t].acked = Frags => t \notin blame'
        /\ send[t].stage = "pass0" => send[t].rush \/ t \notin blame'
    BY <1>1, <1>2 DEF TaskOK
  <1>4. Settled(own, far, nextId, blame', t)
    BY <1>1, <1>2, <1>3, PassEndsOK
  <1> QED BY <1>1, <1>4, NearStepTrue DEF Stages

\* Offline, detached or cancelled.
LEMMA AbortTrue ==
  ASSUME NEW own, TextTrue(own), NEW t \in Sends, Abort(t) \/ CancelSend(t)
  PROVE  TextTrue(own)'
  <1>1. /\ send[t].stage \in Stages \ {"new", "done"} /\ UNCHANGED <<nextId, blame, far, told>>
        /\ memory' = memory \/ Remember(t, send[t])
        /\ \E v \in {"false", "cancelled"} : Return(t, send[t], v)
    BY DEF Abort, CancelSend, Stages
  <1>2. MemoryTrue(own, far, nextId, memory) /\ ActiveOK(own, far, nextId, t, send[t])
    BY <1>1, UnderWay
  <1>3. MemoryTrue(own, far, nextId, memory')
    BY <1>1, <1>2, RememberOK
  <1>4. Settled(own, far, nextId, blame', t)
    BY <1>1, <1>3, ReturnOK
  <1> QED BY <1>1, <1>4, NearStepTrue

\* A QUERY that is lost, or answered with what is held.
LEMMA AskTrue ==
  ASSUME NEW own, TextTrue(own), NEW t \in Sends, Ask(t)
  PROVE  TextTrue(own)'
  <1> DEFINE x == [send[t] EXCEPT !.stage = IF @ = "ask0" THEN "answer0" ELSE "answer1"]
             k == <<send[t].id, Total>>
  <1>1. send[t].stage \in {"ask0", "ask1"} /\ UNCHANGED <<memory, nextId, blame, far>>
    BY DEF Ask
  <1>2. /\ Going(own, far, nextId, t, send[t]) /\ ActiveOK(own, far, nextId, t, send[t])
        /\ TaskOK(own, far, nextId, blame, t, send[t]) /\ ToldOK(own, far, nextId, told)
        /\ FarOK(own, far, nextId) /\ FarGrows(own, far, far) /\ MemoryTrue(own, far, nextId, memory)
    BY <1>1, UnderWay DEF Stages
  <1>3. /\ DOMAIN x = DOMAIN New /\ x.result = "open" /\ ~x.sure /\ x.rush = send[t].rush
        /\ x.id = send[t].id /\ x.acked = send[t].acked /\ x.basis = send[t].basis
        /\ x.word = send[t].word /\ x.stage = IF send[t].stage = "ask0" THEN "answer0" ELSE "answer1"
    BY <1>2 DEF ActiveOK, New
  <1>4. Key(x, Total) = k
    BY <1>3 DEF Key
  <1>5. \/ Become(t, x) /\ told' \in {told, told \union {k}} /\ (told' # told => k \in far.done)
        \/ \E bitmap \in BOOLEAN : Become(t, [x EXCEPT !.word = Answer(far, k, bitmap)]) /\ told' = told
    BY <1>4 DEF Ask
  <1>6. ToldOK(own, far, nextId, told')
    <2>1. told' = told \/ (told' = told \union {k} /\ k \in far.done)
      BY <1>5
    <2>2. Distinct /\ k \in far.done =>
            k[2] = Total /\ k[1] \in Ids /\ k[1] < nextId /\ own[k[1]] \in far.delivered
      BY <1>2 DEF FarOK, Pure
    <2> HIDE DEF k
    <2> QED BY <1>2, <2>1, <2>2 DEF ToldOK
  <1> HIDE DEF x
  <1>7. ASSUME NEW z, DOMAIN z = DOMAIN x, z.result = x.result, z.sure = x.sure, z.rush = x.rush,
               z.id = x.id, z.acked = x.acked, z.basis = x.basis, z.stage = x.stage,
               z.word # None =>
                 \/ z.word = x.word
                 \/ /\ ~z.word.complete
                    /\ z.word.held # None => Claim(far, k, PacketOf[t], z.word.epoch, z.word.held),
               Become(t, z)
        PROVE  TextTrue(own)'
    <2>1. ActiveOK(own, far, nextId, t, z)
      BY <1>2, <1>3, <1>7 DEF ActiveOK
    <2>2. z.stage \in {"answer0", "answer1"} /\ (z.stage = "answer0" => ~z.rush /\ t \notin blame)
      BY <1>1, <1>2, <1>3, <1>7 DEF TaskOK
    <2>3. z.result = "open"
      BY <1>3, <1>7
    <2>4. TaskOK(own, far, nextId, blame, t, z)
      BY <2>1, <2>2, <2>3 DEF TaskOK, Stages
    <2>5. Settled(own, far, nextId, blame, t)
      BY <1>1, <1>2, <1>7, <2>2, <2>4 DEF Settled, Become
    <2>6. Settled(own, far', nextId, blame', t) /\ FarOK(own, far', nextId) /\ FarGrows(own, far, far')
      BY <1>1, <1>2, <2>5
    <2> QED BY <1>1, <1>2, <1>6, <2>6, StepTrue
  <1>8. CASE Become(t, x)
    BY <1>7, <1>8
  <1>9. ASSUME NEW bitmap \in BOOLEAN, Become(t, [x EXCEPT !.word = Answer(far, k, bitmap)])
        PROVE  TextTrue(own)'
    <2> DEFINE w == Answer(far, k, bitmap)
               z == [x EXCEPT !.word = w]
    <2>1. ~w.complete /\ w.epoch = far.epoch[k] /\ w.held = IF bitmap THEN DOMAIN far.bucket[k] ELSE None
      BY DEF Answer
    <2>2. Claim(far, k, PacketOf[t], far.epoch[k], DOMAIN far.bucket[k])
      <3>1. send[t].id \in Ids /\ far.epoch \in [Keys -> Nat]
        BY <1>2 DEF ActiveOK, FarOK
      <3>2. far.epoch[k] \in Nat /\ DOMAIN far.bucket[k] \subseteq Frags
        BY <1>2, <3>1, KeyIn DEF FarOK
      <3> QED BY <3>2 DEF Claim
    <2>3. w.held # None => Claim(far, k, PacketOf[t], w.epoch, w.held)
      BY <2>1, <2>2
    <2> HIDE DEF w
    <2>4. /\ DOMAIN z = DOMAIN x /\ z.result = x.result /\ z.sure = x.sure /\ z.rush = x.rush
          /\ z.id = x.id /\ z.acked = x.acked /\ z.basis = x.basis /\ z.stage = x.stage /\ z.word = w
      BY <1>3 DEF New
    <2>5. Become(t, z)
      BY <1>9 DEF w
    <2> HIDE DEF z
    <2> QED BY <1>7, <2>1, <2>3, <2>4, <2>5
  <1> QED BY <1>5, <1>8, <1>9

\* An answer to a QUERY: its own, which claims no more than was held, or complete, of
\* a packet delivered.
LEMMA AnswerTrue ==
  ASSUME NEW own, TextTrue(own), NEW t \in Sends, send[t].stage \in Stages \ {"new", "done"},
         NEW w \in Answers(send[t])
  PROVE  \/ w.complete /\ (Distinct => PacketOf[t] \in far.delivered)
         \/ ~w.complete /\ (w.held # None => Claim(far, <<send[t].id, Total>>, PacketOf[t], w.epoch, w.held))
  <1>1. ActiveOK(own, far, nextId, t, send[t]) /\ ToldOK(own, far, nextId, told)
    BY UnderWay
  <1>2. CASE w = send[t].word /\ w # None
    BY <1>1, <1>2 DEF ActiveOK
  <1>3. CASE \E k \in told \intersect {<<send[t].id, Total>>} : w = [complete |-> TRUE, held |-> Frags, epoch |-> 0]
    BY <1>1, <1>3 DEF ActiveOK, ToldOK
  <1> QED BY <1>2, <1>3 DEF Answers, Key

\* "Complete" is taken as success.
LEMMA CompleteOK ==
  ASSUME NEW own, TextTrue(own), NEW t \in Sends, send[t].stage \in Stages \ {"new", "done"},
         Distinct => PacketOf[t] \in far.delivered, Succeed(t, [send[t] EXCEPT !.sure = TRUE]), t \notin blame'
  PROVE  Settled(own, far, nextId, blame', t)
  <1>1. MemoryTrue(own, far, nextId, memory)
    BY UnderWay
  <1> QED BY <1>1, SucceedOK

\* The QUERY between the passes is answered.
LEMMA TakeAnswerTrue ==
  ASSUME NEW own, TextTrue(own), NEW t \in Sends, TakeAnswer(t)
  PROVE  TextTrue(own)'
  <1> DEFINE x == send[t]
  <1>1. x.stage = "answer0" /\ UNCHANGED <<nextId, far, told>> /\ blame' \in {{}, blame}
    BY DEF TakeAnswer, Cleared
  <1>2. x.stage \in Stages \ {"new", "done"}
    BY <1>1 DEF Stages
  <1>3. /\ Going(own, far, nextId, t, x) /\ ActiveOK(own, far, nextId, t, x)
        /\ TaskOK(own, far, nextId, blame, t, x)
    BY <1>2, UnderWay
  <1>4. t \notin blame'
    BY <1>1, <1>3 DEF TaskOK
  <1>5. ASSUME Settled(own, far, nextId, blame', t) PROVE TextTrue(own)'
    BY <1>1, <1>2, <1>5, NearStepTrue
  <1>6. PICK w \in Answers(x) :
            \/ w.complete /\ Succeed(t, [x EXCEPT !.sure = TRUE])
            \/ ~w.complete /\ w.held = None /\ GoOn(t, [x EXCEPT !.word = None])
            \/ /\ ~w.complete /\ w.held # None
               /\ GoOn(t, [x EXCEPT !.word = None, !.acked = w.held, !.basis = w.epoch])
    BY DEF TakeAnswer, HeldNow
  <1>7. \/ w.complete /\ (Distinct => PacketOf[t] \in far.delivered)
        \/ ~w.complete /\ (w.held # None => Claim(far, <<x.id, Total>>, PacketOf[t], w.epoch, w.held))
    BY <1>2, AnswerTrue
  <1>8. CASE w.complete /\ Succeed(t, [x EXCEPT !.sure = TRUE])
    BY <1>2, <1>4, <1>5, <1>7, <1>8, CompleteOK
  <1>9. ASSUME NEW z, DOMAIN z = DOMAIN x, z.result = x.result, z.sure = x.sure, z.rush = x.rush,
               z.id = x.id, z.word = None, Claim(far, <<x.id, Total>>, PacketOf[t], z.basis, z.acked),
               GoOn(t, z)
        PROVE  TextTrue(own)'
    <2>1. Going(own, far, nextId, t, z)
      BY <1>3, <1>9 DEF Going, ActiveOK
    <2> QED BY <1>4, <1>5, <1>9, <2>1, GoOnOK
  <1>10. CASE ~w.complete /\ w.held = None /\ GoOn(t, [x EXCEPT !.word = None])
    <2> DEFINE z == [x EXCEPT !.word = None]
    <2>1. /\ DOMAIN z = DOMAIN x /\ z.result = x.result /\ z.sure = x.sure /\ z.rush = x.rush
          /\ z.id = x.id /\ z.acked = x.acked /\ z.basis = x.basis /\ z.word = None
      BY <1>3 DEF ActiveOK, New
    <2>2. Claim(far, <<x.id, Total>>, PacketOf[t], x.basis, x.acked)
      BY <1>3 DEF ActiveOK
    <2>3. GoOn(t, z)
      BY <1>10
    <2> HIDE DEF z
    <2> QED BY <1>9, <2>1, <2>2, <2>3
  <1>11. CASE /\ ~w.complete /\ w.held # None
              /\ GoOn(t, [x EXCEPT !.word = None, !.acked = w.held, !.basis = w.epoch])
    <2> DEFINE z == [x EXCEPT !.word = None, !.acked = w.held, !.basis = w.epoch]
    <2>1. /\ DOMAIN z = DOMAIN x /\ z.result = x.result /\ z.sure = x.sure /\ z.rush = x.rush
          /\ z.id = x.id /\ z.acked = w.held /\ z.basis = w.epoch /\ z.word = None
      BY <1>3 DEF ActiveOK, New
    <2>2. GoOn(t, z)
      BY <1>11
    <2> HIDE DEF z
    <2> QED BY <1>7, <1>9, <1>11, <2>1, <2>2
  <1> QED BY <1>6, <1>8, <1>10, <1>11

\* The last QUERY is answered.
LEMMA TakeLastTrue ==
  ASSUME NEW own, TextTrue(own), NEW t \in Sends, TakeLast(t)
  PROVE  TextTrue(own)'
  <1>1. send[t].stage \in Stages \ {"new", "done"} /\ UNCHANGED <<nextId, far, told>> /\ blame' \in {{}, blame}
    BY DEF TakeLast, Cleared, Stages
  <1>2. PICK w \in Answers(send[t]) :
            \/ w.complete /\ blame' = {} /\ Succeed(t, [send[t] EXCEPT !.sure = TRUE])
            \/ ~w.complete /\ Remember(t, send[t]) /\ Return(t, send[t], "false")
    BY DEF TakeLast, Cleared
  <1>3. w.complete /\ Distinct => PacketOf[t] \in far.delivered
    BY <1>1, AnswerTrue
  <1>4. CASE w.complete /\ blame' = {} /\ Succeed(t, [send[t] EXCEPT !.sure = TRUE])
    <2>1. Settled(own, far, nextId, blame', t)
      BY <1>1, <1>3, <1>4, CompleteOK
    <2> QED BY <1>1, <2>1, NearStepTrue
  <1>5. CASE Remember(t, send[t]) /\ Return(t, send[t], "false")
    <2>1. MemoryTrue(own, far, nextId, memory) /\ ActiveOK(own, far, nextId, t, send[t])
      BY <1>1, UnderWay
    <2>2. MemoryTrue(own, far, nextId, memory')
      BY <1>5, <2>1, RememberOK
    <2>3. Settled(own, far, nextId, blame', t)
      BY <1>5, <2>2, ReturnOK
    <2> QED BY <1>1, <2>3, NearStepTrue
  <1> QED BY <1>2, <1>4, <1>5

\* A QUERY is given up.
LEMMA NoAnswerTrue ==
  ASSUME NEW own, TextTrue(own), NEW t \in Sends, NoAnswer(t)
  PROVE  TextTrue(own)'
  <1>1. send[t].stage \in Stages \ {"new", "done"} /\ UNCHANGED <<nextId, blame, far, told>>
    BY DEF NoAnswer, Stages
  <1>2. /\ Going(own, far, nextId, t, send[t]) /\ ActiveOK(own, far, nextId, t, send[t])
        /\ TaskOK(own, far, nextId, blame, t, send[t]) /\ MemoryTrue(own, far, nextId, memory)
    BY <1>1, UnderWay
  <1>3. CASE send[t].stage = "answer0" /\ GoOn(t, [send[t] EXCEPT !.word = None])
    <2> DEFINE z == [send[t] EXCEPT !.word = None]
    <2>1. /\ DOMAIN z = DOMAIN send[t] /\ z.result = send[t].result /\ z.sure = send[t].sure
          /\ z.rush = send[t].rush /\ z.id = send[t].id /\ z.acked = send[t].acked
          /\ z.basis = send[t].basis /\ z.word = None
      BY <1>2 DEF ActiveOK, New
    <2>2. GoOn(t, z) /\ t \notin blame'
      BY <1>1, <1>2, <1>3 DEF TaskOK
    <2> HIDE DEF z
    <2>3. Going(own, far, nextId, t, z)
      BY <1>2, <2>1 DEF Going, ActiveOK
    <2>4. Settled(own, far, nextId, blame', t)
      BY <2>2, <2>3, GoOnOK
    <2> QED BY <1>1, <2>4, NearStepTrue
  <1>4. CASE Remember(t, send[t]) /\ Return(t, send[t], "false")
    <2>1. MemoryTrue(own, far, nextId, memory')
      BY <1>2, <1>4, RememberOK
    <2>2. Settled(own, far, nextId, blame', t)
      BY <1>4, <2>1, ReturnOK
    <2> QED BY <1>1, <2>2, NearStepTrue
  <1> QED BY <1>3, <1>4 DEF NoAnswer

-----------------------------------------------------------------------------
(* The beginning of a send. *)

\* An identifier given out later changes nothing.
LEMMA OwnGrows ==
  ASSUME NEW own, NEW own2, NEW n \in Nat, NEW n2 \in Nat, n <= n2,
         \A i \in Ids : i < n => own2[i] = own[i]
  PROVE  /\ \A y : FarOK(own, y, n) => FarOK(own2, y, n2)
         /\ \A y, p, m : MemoryOK(own, y, n, p, m) => MemoryOK(own2, y, n2, p, m)
         /\ \A y, b, t, x : TaskOK(own, y, n, b, t, x) => TaskOK(own2, y, n2, b, t, x)
         /\ \A y, s : ToldOK(own, y, n, s) => ToldOK(own2, y, n2, s)
  <1>1. \A i \in Ids : i \in Nat /\ (i < n => i < n2 /\ own2[i] = own[i]) /\ (i >= n2 => i >= n)
                            /\ (i < n \/ i >= n)
    BY DEF Ids
  <1>2. ASSUME NEW y, FarOK(own, y, n) PROVE FarOK(own2, y, n2)
    <2>1. Distinct => Pure(own2, y, n2)
      <3> SUFFICES ASSUME Distinct PROVE Pure(own2, y, n2)
        OBVIOUS
      <3>1. Pure(own, y, n)
        BY <1>2 DEF FarOK
      <3>2. ASSUME NEW i \in Ids, NEW j \in DOMAIN y.bucket[<<i, Total>>]
            PROVE  y.bucket[<<i, Total>>][j] = <<own2[i], j, "text">>
        <4>1. y.bucket[<<i, Total>>][j] = <<own[i], j, "text">> /\ ~(i >= n)
          BY <3>1 DEF Pure
        <4> QED BY <1>1, <4>1
      <3> QED BY <1>1, <3>1, <3>2 DEF Pure
    <2> QED BY <1>2, <2>1 DEF FarOK
  <1>3. ASSUME NEW y, NEW p, NEW m, MemoryOK(own, y, n, p, m) PROVE MemoryOK(own2, y, n2, p, m)
    BY <1>1, <1>3 DEF MemoryOK
  <1>4. ASSUME NEW y, NEW b, NEW t, NEW x, TaskOK(own, y, n, b, t, x) PROVE TaskOK(own2, y, n2, b, t, x)
    <2>1. ActiveOK(own, y, n, t, x) => ActiveOK(own2, y, n2, t, x)
      BY <1>1 DEF ActiveOK
    <2> QED BY <1>4, <2>1 DEF TaskOK
  <1>5. ASSUME NEW y, NEW s, ToldOK(own, y, n, s) PROVE ToldOK(own2, y, n2, s)
    BY <1>1, <1>5 DEF ToldOK
  <1> QED BY <1>2, <1>3, <1>4, <1>5

\* Which packet each identifier was given to, if any.
Owns == [Ids -> Packets \union {None}]

\* A send begins, under the identifier it remembers or a new one.
LEMMA BeginTrue ==
  ASSUME NEW own \in Owns, TextTrue(own), NEW t \in Sends, Begin(t)
  PROVE  \E own2 \in Owns : TextTrue(own2)'
  <1> DEFINE m == IF Reconciles(t) THEN memory[PacketOf[t]] ELSE None
  <1>1. /\ send[t].stage = "new" /\ UNCHANGED <<blame, far, told>>
        /\ memory' = IF m = None THEN memory ELSE [memory EXCEPT ![PacketOf[t]] = None]
    BY DEF Begin
  <1>2. /\ DOMAIN send[t] = DOMAIN New /\ send[t].result = "open" /\ ~send[t].sure
        /\ send[t].rush \in BOOLEAN /\ send[t].word = None /\ t \notin blame
    BY <1>1 DEF TextTrue, TaskOK
  <1>3. PICK use \in BOOLEAN :
          LET id == IF use THEN m.id ELSE nextId
              resumed == use /\ m.total = Total
              acked == IF resumed THEN m.acked ELSE {}
          IN /\ use => m # None
             /\ nextId' = IF use THEN nextId ELSE nextId + 1
             /\ Become(t, [send[t] EXCEPT
                  !.stage = IF acked = Frags THEN "ask0" ELSE "pass0",
                  !.id = id, !.resumed = resumed, !.acked = acked,
                  !.todo = Frags \ acked,
                  !.budget = IF Reconciles(t) THEN Pass0 ELSE Attempts,
                  !.basis = IF resumed THEN m.basis ELSE far.epoch[<<id, Total>>]])
    BY DEF Begin
  <1> DEFINE id == IF use THEN m.id ELSE nextId
             resumed == use /\ m.total = Total
             acked == IF resumed THEN m.acked ELSE {}
             basis == IF resumed THEN m.basis ELSE far.epoch[<<id, Total>>]
             z == [send[t] EXCEPT
                  !.stage = IF acked = Frags THEN "ask0" ELSE "pass0",
                  !.id = id, !.resumed = resumed, !.acked = acked,
                  !.todo = Frags \ acked,
                  !.budget = IF Reconciles(t) THEN Pass0 ELSE Attempts,
                  !.basis = basis]
             own2 == IF use THEN own ELSE [i \in Ids |-> IF i = nextId THEN PacketOf[t] ELSE own[i]]
  <1>4. /\ z.stage = (IF acked = Frags THEN "ask0" ELSE "pass0") /\ z.id = id
        /\ z.acked = acked /\ z.todo = Frags \ acked /\ z.basis = basis
        /\ DOMAIN z = DOMAIN New /\ z.result = "open" /\ ~z.sure /\ z.rush = send[t].rush /\ z.word = None
    BY <1>2 DEF New
  <1>5. send' = [send EXCEPT ![t] = z] /\ nextId' = (IF use THEN nextId ELSE nextId + 1) /\ (use => m # None)
    BY <1>3 DEF Become
  <1> HIDE DEF z
  <1>6. PacketOf[t] \in Packets
    BY DEF Packets
  <1>7. use => /\ ~send[t].rush /\ m.id \in Ids /\ m.id < nextId /\ own[m.id] = PacketOf[t]
               /\ m.total = Total => Claim(far, <<m.id, Total>>, PacketOf[t], m.basis, m.acked)
    <2> SUFFICES ASSUME use
                 PROVE  /\ ~send[t].rush /\ m.id \in Ids /\ m.id < nextId /\ own[m.id] = PacketOf[t]
                        /\ m.total = Total => Claim(far, <<m.id, Total>>, PacketOf[t], m.basis, m.acked)
      OBVIOUS
    <2>1. ~send[t].rush /\ m = memory[PacketOf[t]] /\ m # None
      BY <1>5 DEF Reconciles
    <2> HIDE DEF m
    <2>2. MemoryOK(own, far, nextId, PacketOf[t], m)
      BY <1>6, <2>1 DEF TextTrue
    <2> QED BY <2>1, <2>2 DEF MemoryOK
  <1> HIDE DEF m
  <1>8. IsFiniteSet(Unbegun) /\ t \in Unbegun /\ Cardinality(Unbegun) \in Nat
        /\ Cardinality(Sends) \in Nat /\ nextId \in Nat
        /\ nextId + Cardinality(Unbegun) <= Cardinality(Sends) + 1
    <2>1. Unbegun \in SUBSET Sends /\ t \in Unbegun
      BY <1>1 DEF Unbegun
    <2>2. IsFiniteSet(Unbegun)
      BY <2>1, FragmentsAssumption, FS_Subset
    <2> QED BY <2>1, <2>2, FragmentsAssumption, FS_CardinalityType DEF TextTrue
  <1>9. Unbegun' = Unbegun \ {t}
    <2>1. DOMAIN send = Sends /\ z.stage # "new"
      BY <1>4 DEF TextTrue
    <2> QED BY <1>5, <2>1 DEF Unbegun
  <1>10. Cardinality(Unbegun') = Cardinality(Unbegun) - 1
    BY <1>8, <1>9, FS_RemoveElement
  <1>11. Cardinality(Unbegun) # 0
    BY <1>8, FS_EmptySet
  <1>12. nextId \in Ids /\ nextId' \in Nat /\ nextId <= nextId'
         /\ nextId' + Cardinality(Unbegun') <= Cardinality(Sends) + 1
    <2>1. nextId <= Cardinality(Sends)
      BY <1>8, <1>11
    <2>2. nextId \in Ids
      <3>1. nextId \in Nat /\ Cardinality(Sends) \in Nat
        BY <1>8
      <3> QED BY <2>1, <3>1 DEF Ids
    <2> QED BY <1>5, <1>8, <1>10, <2>2
  <1>13. own2 \in Owns /\ (\A i \in Ids : i < nextId => own2[i] = own[i])
         /\ (~use => own2[nextId] = PacketOf[t])
    <2>1. CASE use
      BY <2>1
    <2>2. CASE ~use
      <3>1. \A i \in Ids : i < nextId => i # nextId
        BY <1>8 DEF Ids
      <3> QED BY <1>6, <1>12, <2>2, <3>1 DEF Owns
    <2> QED BY <2>1, <2>2
  <1> HIDE DEF own2
  <1>14. id \in Ids /\ id < nextId' /\ own2[id] = PacketOf[t]
    <2>1. CASE use
      BY <1>5, <1>7, <1>13, <2>1
    <2>2. CASE ~use
      BY <1>5, <1>8, <1>12, <1>13, <2>2
    <2> QED BY <2>1, <2>2
  <1>15. Claim(far, <<id, Total>>, PacketOf[t], basis, acked)
    <2>1. CASE resumed
      BY <1>7, <2>1
    <2>2. CASE ~resumed
      <3>1. far.epoch[<<id, Total>>] \in Nat
        BY <1>14, KeyIn DEF TextTrue, FarOK
      <3> HIDE DEF id
      <3> QED BY <2>2, <3>1 DEF Claim
    <2> QED BY <2>1, <2>2
  <1>16. acked = Frags => ~send[t].rush
    <2>1. 1 \in Frags
      BY CutsOK DEF Frags
    <2>2. acked = Frags => use
      BY <2>1
    <2> QED BY <1>7, <2>2
  <1>17. acked \subseteq Frags
    BY <1>15 DEF Claim
  <1> HIDE DEF id, acked, basis
  <1>18. TaskOK(own2, far, nextId', blame, t, z)
    <2>1. ActiveOK(own2, far, nextId', t, z)
      BY <1>2, <1>4, <1>14, <1>15 DEF ActiveOK
    <2>2. z.stage \in {"ask0", "pass0"} /\ (z.stage = "ask0" => ~z.rush)
          /\ (z.stage = "pass0" => z.todo # {} /\ z.todo \subseteq Frags \ z.acked)
      BY <1>4, <1>16, <1>17
    <2> QED BY <1>2, <1>4, <2>1, <2>2 DEF TaskOK, Stages
  <1>19. /\ \A y : FarOK(own, y, nextId) => FarOK(own2, y, nextId')
         /\ \A y, p, w : MemoryOK(own, y, nextId, p, w) => MemoryOK(own2, y, nextId', p, w)
         /\ \A y, b, u, x : TaskOK(own, y, nextId, b, u, x) => TaskOK(own2, y, nextId', b, u, x)
         /\ \A y, s : ToldOK(own, y, nextId, s) => ToldOK(own2, y, nextId', s)
    <2> HIDE DEF own2
    <2>1. nextId \in Nat /\ nextId' \in Nat /\ nextId <= nextId'
      BY <1>8, <1>12
    <2> DEFINE n == nextId
               n2 == nextId'
    <2>2. n \in Nat /\ n2 \in Nat /\ n <= n2 /\ \A i \in Ids : i < n => own2[i] = own[i]
      BY <1>13, <2>1
    <2> HIDE DEF n, n2
    <2>3. /\ \A y : FarOK(own, y, n) => FarOK(own2, y, n2)
          /\ \A y, p, w : MemoryOK(own, y, n, p, w) => MemoryOK(own2, y, n2, p, w)
          /\ \A y, b, u, x : TaskOK(own, y, n, b, u, x) => TaskOK(own2, y, n2, b, u, x)
          /\ \A y, s : ToldOK(own, y, n, s) => ToldOK(own2, y, n2, s)
      BY <2>2, OwnGrows
    <2> QED BY <2>3 DEF n, n2
  <1>20. PICK o \in Owns : o = own2
    BY <1>13
  <1>21. FarOK(o, far', nextId') /\ ToldOK(o, far', nextId', told')
    BY <1>1, <1>19, <1>20 DEF TextTrue
  <1>22. ASSUME NEW u \in Sends PROVE TaskOK(o, far', nextId', blame', u, send'[u])
    <2>1. CASE u = t
      <3>1. send'[u] = z
        BY <1>5, <2>1 DEF TextTrue
      <3> QED BY <1>1, <1>18, <1>20, <2>1, <3>1
    <2>2. CASE u # t
      <3>1. send'[u] = send[u] /\ TaskOK(own, far, nextId, blame, u, send[u])
        BY <1>5, <2>2 DEF TextTrue
      <3> QED BY <1>1, <1>19, <1>20, <3>1
    <2> QED BY <2>1, <2>2
  <1>23. DOMAIN memory' = Packets /\ \A p \in Packets : MemoryOK(o, far', nextId', p, memory'[p])
    <2>1. DOMAIN memory = Packets /\ \A p \in Packets : MemoryOK(o, far, nextId', p, memory[p])
      BY <1>19, <1>20 DEF TextTrue
    <2>2. memory' = memory \/ memory' = [memory EXCEPT ![PacketOf[t]] = None]
      BY <1>1
    <2>3. MemoryOK(o, far, nextId', PacketOf[t], None)
      BY DEF MemoryOK
    <2> QED BY <1>1, <2>1, <2>2, <2>3
  <1>24. DOMAIN send' = Sends
    BY <1>5 DEF TextTrue
  <1>25. TextTrue(o)'
    BY <1>12, <1>21, <1>22, <1>23, <1>24 DEF TextTrue
  <1> QED BY <1>25

-----------------------------------------------------------------------------
(* The far side's losses, the start, and the theorems. *)

\* The far side loses a bucket, or forgets a packet it delivered.
LEMMA LoseTrue ==
  ASSUME NEW own, TextTrue(own), NEW k \in Keys, Evict(k) \/ Forget(k)
  PROVE  TextTrue(own)'
  <1>1. FarOK(own, far, nextId) /\ UNCHANGED <<send, memory, nextId, blame, told>>
    BY DEF TextTrue, Evict, Forget
  <1>2. FarOK(own, far', nextId) /\ FarGrows(own, far, far')
    <2>1. CASE Evict(k)
      BY <1>1, <2>1, LoseOK DEF Evict
    <2>2. CASE Forget(k)
      BY <1>1, <2>2, ForgetOK DEF Forget
    <2> QED BY <2>1, <2>2
  <1> QED BY <1>1, <1>2, FarStepTrue

\* A finite number of sends carries a finite number of packets.
LEMMA PacketsFinite == IsFiniteSet(Packets)
  <1> DEFINE f == [t \in Sends |-> PacketOf[t]]
  <1>1. f \in Surjection(Sends, Packets)
    BY DEF Surjection, Packets
  <1> QED BY <1>1, FragmentsAssumption, FS_Surjection

\* At the start identifier 0 is of the packet that a raw window left behind, if any.
LEMMA InitTrue ==
  ASSUME TextInit
  PROVE  \E own \in Owns : TextTrue(own)
  <1>1. PICK rush \in SUBSET Packets, left \in SUBSET Packets :
        /\ Cardinality(left) <= 1 /\ (left # {} => RawTotal > 1)
        /\ memory = [m \in Packets |->
            IF m \in left THEN [id |-> 0, total |-> RawTotal, acked |-> {1}, basis |-> 0] ELSE None]
        /\ far = [FarInit EXCEPT !.bucket[<<0, RawTotal>>] =
            IF left = {} THEN <<>> ELSE [i \in {1} |-> <<CHOOSE m \in left : TRUE, 1, "raw">>]]
        /\ send = [t \in Sends |-> [New EXCEPT !.rush = PacketOf[t] \in rush]]
        /\ nextId = 1 /\ blame = {} /\ told = {}
    BY DEF TextInit
  <1> DEFINE first == CHOOSE m \in left : TRUE
             b == IF left = {} THEN <<>> ELSE [i \in {1} |-> <<first, 1, "raw">>]
             own == [i \in Ids |-> IF left # {} THEN first ELSE None]
  <1>2. \A m \in left : m = first /\ left # {}
    <2>1. IsFiniteSet(left)
      BY PacketsFinite, FS_Subset
    <2>2. Cardinality(left) \in Nat
      BY <2>1, FS_CardinalityType
    <2>3. Cardinality(left) = 0 \/ Cardinality(left) = 1
      BY <1>1, <2>2
    <2>4. left = {} \/ \E m : left = {m}
      BY <2>1, <2>3, FS_EmptySet, FS_Singleton
    <2> QED BY <2>4
  <1>3. own \in Owns
    <2>1. left # {} => first \in Packets
      OBVIOUS
    <2> QED BY <2>1 DEF Owns
  <1>4. /\ DOMAIN far = DOMAIN FarInit /\ far.epoch = [k \in Keys |-> 0] /\ far.done = {}
        /\ far.bucket = [[k \in Keys |-> <<>>] EXCEPT ![<<0, RawTotal>>] = b] /\ ~far.garbled
    BY <1>1 DEF FarInit
  <1>5. DOMAIN <<>> = {} /\ DOMAIN b \subseteq {1} /\ (left = {} => DOMAIN b = {})
    OBVIOUS
  <1> HIDE DEF b
  <1>6. ASSUME NEW i \in Ids
        PROVE  /\ far.bucket[<<i, Total>>] = <<>> \/ (RawTotal = Total /\ far.bucket[<<i, Total>>] = b)
               /\ <<i, Total>> \in Keys /\ far.epoch[<<i, Total>>] = 0
    BY <1>4, KeyIn
  <1>7. FarOK(own, far, nextId)
    <2>1. DOMAIN far.bucket = Keys /\ far.epoch \in [Keys -> Nat]
      BY <1>4
    <2>2. 1 \in Frags
      BY CutsOK DEF Frags
    <2>3. RawTotal = Total /\ left # {} => 2 \in Frags
      BY <1>1, CutsOK DEF Frags
    <2>4. ASSUME NEW i \in Ids
          PROVE  /\ DOMAIN far.bucket[<<i, Total>>] \subseteq Frags
                 /\ DOMAIN far.bucket[<<i, Total>>] # Frags
      <3>1. CASE far.bucket[<<i, Total>>] = <<>>
        BY <1>5, <2>2, <3>1
      <3>2. CASE RawTotal = Total /\ far.bucket[<<i, Total>>] = b
        <4>1. DOMAIN b \subseteq Frags
          BY <1>5, <2>2
        <4>2. DOMAIN b # Frags
          BY <1>5, <2>2, <2>3, <3>2
        <4> QED BY <3>2, <4>1, <4>2
      <3> QED BY <1>6, <3>1, <3>2
    <2>5. Distinct => Pure(own, far, nextId)
      BY <1>4, <1>5, <1>6 DEF Distinct, Pure
    <2> QED BY <1>4, <2>1, <2>4, <2>5 DEF FarOK
  <1>8. DOMAIN send = Sends /\ \A t \in Sends : TaskOK(own, far, nextId, blame, t, send[t])
    <2>1. ASSUME NEW t \in Sends
          PROVE  /\ DOMAIN send[t] = DOMAIN New /\ send[t].stage = "new" /\ send[t].result = "open"
                 /\ ~send[t].sure /\ send[t].rush \in BOOLEAN /\ send[t].word = None
      <3>1. send[t] = [New EXCEPT !.rush = PacketOf[t] \in rush]
        BY <1>1
      <3> QED BY <3>1 DEF New
    <2> QED BY <1>1, <2>1 DEF TaskOK, Stages
  <1>9. 0 \in Ids
    <2>1. Cardinality(Sends) \in Nat
      BY FragmentsAssumption, FS_CardinalityType
    <2> QED BY <2>1 DEF Ids
  <1>10. ASSUME NEW p \in Packets PROVE MemoryOK(own, far, nextId, p, memory[p])
    <2>1. CASE p \notin left
      BY <1>1, <2>1 DEF MemoryOK
    <2>2. CASE p \in left
      <3> DEFINE m == [id |-> 0, total |-> RawTotal, acked |-> {1}, basis |-> 0]
      <3>1. memory[p] = m
        BY <1>1, <2>2
      <3>2. m.id = 0 /\ m.total = RawTotal /\ m.acked = {1} /\ m.basis = 0
        OBVIOUS
      <3> HIDE DEF m
      <3>3. own[0] = p
        BY <1>2, <1>9, <2>2
      <3>4. 1 \in Frags /\ far.epoch[<<0, Total>>] = 0
        BY <1>6, <1>9, CutsOK DEF Frags
      <3>5. m.total = Total => Claim(far, <<m.id, Total>>, p, m.basis, m.acked)
        BY <3>2, <3>4 DEF Claim, Distinct
      <3> QED BY <1>1, <1>9, <3>1, <3>2, <3>3, <3>5 DEF MemoryOK
    <2> QED BY <2>1, <2>2
  <1>11. nextId \in Nat /\ nextId + Cardinality(Unbegun) <= Cardinality(Sends) + 1
    <2>1. Unbegun \in SUBSET Sends
      BY DEF Unbegun
    <2>2. IsFiniteSet(Unbegun) /\ Cardinality(Unbegun) <= Cardinality(Sends)
      BY <2>1, FragmentsAssumption, FS_Subset
    <2>3. Cardinality(Unbegun) \in Nat /\ Cardinality(Sends) \in Nat
      BY <2>2, FragmentsAssumption, FS_CardinalityType
    <2> QED BY <1>1, <2>2, <2>3
  <1>12. ToldOK(own, far, nextId, told) /\ DOMAIN memory = Packets
    BY <1>1 DEF ToldOK
  <1>13. TextTrue(own)
    BY <1>7, <1>8, <1>10, <1>11, <1>12 DEF TextTrue
  <1> QED BY <1>3, <1>13

\* The inductive invariant: some history of the identifiers makes it all true.
AllText == \E own \in Owns : TextTrue(own)

\* Every step keeps it.
LEMMA NextTrue ==
  ASSUME AllText, [TextNext]_textVars
  PROVE  AllText'
  <1>1. PICK own \in Owns : TextTrue(own)
    BY DEF AllText
  <1>2. ASSUME TextTrue(own)' PROVE AllText'
    BY <1>2 DEF AllText, Owns, Ids, Packets
  <1>3. CASE UNCHANGED textVars
    BY <1>1, <1>2, <1>3 DEF textVars, TextTrue, Unbegun
  <1>4. ASSUME NEW t \in Sends, SendStep(t) PROVE AllText'
    <2>1. CASE Begin(t)
      <3>1. \E own2 \in Owns : TextTrue(own2)'
        BY <1>1, <2>1, BeginTrue
      <3> QED BY <3>1 DEF AllText
    <2>2. CASE SendOne(t)
      BY <1>1, <1>2, <2>2, SendOneTrue
    <2>3. CASE Expire(t)
      BY <1>1, <1>2, <2>3, ExpireTrue
    <2>4. CASE Ask(t)
      BY <1>1, <1>2, <2>4, AskTrue
    <2>5. CASE TakeAnswer(t)
      BY <1>1, <1>2, <2>5, TakeAnswerTrue
    <2>6. CASE TakeLast(t)
      BY <1>1, <1>2, <2>6, TakeLastTrue
    <2>7. CASE NoAnswer(t)
      BY <1>1, <1>2, <2>7, NoAnswerTrue
    <2>8. CASE Abort(t) \/ CancelSend(t)
      BY <1>1, <1>2, <2>8, AbortTrue
    <2>9. CASE EndPass(t)
      BY <1>1, <1>2, <2>9, EndPassTrue
    <2> QED BY <1>4, <2>1, <2>2, <2>3, <2>4, <2>5, <2>6, <2>7, <2>8, <2>9 DEF SendStep
  <1>5. ASSUME NEW k \in Keys, Evict(k) \/ Forget(k) PROVE AllText'
    BY <1>1, <1>2, <1>5, LoseTrue
  <1> QED BY <1>3, <1>4, <1>5 DEF TextNext

\* What it says of the answers a send gives.
LEMMA TextFacts ==
  ASSUME AllText
  PROVE  /\ NoFalseBlame
         /\ Distinct => TrueIsWhole /\ NothingGarbled
  <1>1. PICK own \in Owns : TextTrue(own)
    BY DEF AllText
  <1>2. ASSUME NEW t \in Sends, send[t].result = "true"
        PROVE t \notin blame /\ (Distinct /\ send[t].sure => PacketOf[t] \in far.delivered)
    <2>1. TaskOK(own, far, nextId, blame, t, send[t])
      BY <1>1 DEF TextTrue
    <2>2. send[t].stage = "done"
      BY <1>2, <2>1 DEF TaskOK, ActiveOK
    <2> QED BY <1>2, <2>1, <2>2 DEF TaskOK
  <1>3. Distinct => ~far.garbled
    BY <1>1 DEF TextTrue, FarOK, Pure
  <1> QED BY <1>2, <1>3 DEF NoFalseBlame, TrueIsWhole, NothingGarbled

\* It holds in every reachable state.
LEMMA AllTextHolds == TextSpec => []AllText
  <1>1. TextInit => AllText
    BY InitTrue DEF AllText
  <1>2. AllText /\ [TextNext]_textVars => AllText'
    BY NextTrue
  <1> QED BY <1>1, <1>2, PTL DEF TextSpec

\* A send that reports success leaves no failure of its own counted against the
\* path, for any sends of any bytes, whatever is lost, late, expired, cancelled or
\* forgotten (_direct.py, the two passes and their QUERYs).
THEOREM NoFalseBlameHolds == TextSpec => []NoFalseBlame
  <1>1. AllText => NoFalseBlame
    BY TextFacts
  <1> QED BY <1>1, AllTextHolds, PTL

\* A send that reports success has had its packet delivered whole, unless the far
\* side lost a bucket of it since the sender last learned what is in it; and what
\* the far side puts together is one packet, cut one way.  For any sends of any
\* bytes, whatever is remembered between them, if fragments of the two cuts never
\* count the same (the run text_cuts shows what happens if they do).
THEOREM TrueIsWholeHolds ==
  ASSUME Distinct
  PROVE  TextSpec => [](TrueIsWhole /\ NothingGarbled)
  <1>1. AllText => TrueIsWhole /\ NothingGarbled
    BY TextFacts
  <1> QED BY <1>1, AllTextHolds, PTL
=============================================================================
