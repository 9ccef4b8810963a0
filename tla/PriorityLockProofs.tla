-------------------------- MODULE PriorityLockProofs --------------------------
(***************************************************************************)
(* PriorityLock's safety, for every set of tasks and every assignment of   *)
(* tiers, as long as no window is cancelled while it waits: type           *)
(* correctness, mutual exclusion, no lost wake-up, that the registries and *)
(* events a holder watches tell who asks, that a yield serves whoever it   *)
(* was for, and that the lock implements PriorityMutex.                    *)
(***************************************************************************)
EXTENDS PriorityLock, SequenceTheorems, TLAPS

-----------------------------------------------------------------------------
(* The inductive invariant. *)

\* The deques and the futures' states agree: a pending task is in line at its
\* tier, whoever is in line is pending or cancelled there, and once only.
QueueOK(q, p, tr) ==
    /\ \A t \in Tasks : p[t] = "waiting" => \E i \in 1..Len(q[tr[t]]) : q[tr[t]][i] = t
    /\ \A k \in Tiers : \A i \in 1..Len(q[k]) :
            p[q[k][i]] \in {"waiting", "dropped"} /\ tr[q[k][i]] = k
    /\ \A k \in Tiers : \A i, j \in 1..Len(q[k]) : q[k][i] = q[k][j] => i = j

OwnerState == {"granted", "doomed", "holding"}

\* At most one owner; the lock is taken exactly when there is one; nobody waits
\* for a lock that is not taken.
OwnerOK(l, p) ==
    /\ \A t, u \in Tasks : p[t] \in OwnerState /\ p[u] \in OwnerState => t = u
    /\ l <=> \E t \in Tasks : p[t] \in OwnerState
    /\ (\E t \in Tasks : p[t] = "waiting") => l

\* Only cancellable tasks learn of a cancellation.
CancelOK == \A t \in Tasks : pc[t] \in {"dropped", "doomed"} => t \in Cancellable

Inv ==
    /\ TypeOK
    /\ OwnerOK(locked, pc)
    /\ QueueOK(waiters, pc, tier)
    /\ CancelOK

-----------------------------------------------------------------------------
(* The queues. *)

\* Removing the one occurrence of t leaves every other entry, in line once.
LEMMA WithoutFacts ==
    ASSUME NEW s \in Seq(Tasks), NEW t \in Tasks,
           \A i, j \in 1..Len(s) : s[i] = s[j] => i = j
    PROVE  /\ Without(s, t) \in Seq(Tasks)
           /\ \A i \in 1..Len(Without(s, t)) :
                Without(s, t)[i] # t /\ \E j \in 1..Len(s) : s[j] = Without(s, t)[i]
           /\ \A j \in 1..Len(s) : s[j] # t =>
                \E i \in 1..Len(Without(s, t)) : Without(s, t)[i] = s[j]
           /\ \A i, j \in 1..Len(Without(s, t)) :
                Without(s, t)[i] = Without(s, t)[j] => i = j
<1>1. CASE ~\E i \in DOMAIN s : s[i] = t
  <2>1. Without(s, t) = s
    BY <1>1 DEF Without
  <2> QED
    BY <1>1, <2>1
<1>2. CASE \E i \in DOMAIN s : s[i] = t
  <2> DEFINE i == CHOOSE j \in DOMAIN s : s[j] = t
             r == SubSeq(s, 1, i - 1) \o SubSeq(s, i + 1, Len(s))
  <2>1. i \in 1..Len(s) /\ s[i] = t
    BY <1>2
  <2>2. Without(s, t) = r
    BY <1>2 DEF Without
  <2> HIDE DEF i
  <2>a. /\ SubSeq(s, 1, i - 1) \in Seq(Tasks) /\ Len(SubSeq(s, 1, i - 1)) = i - 1
        /\ \A j \in 1..i - 1 : SubSeq(s, 1, i - 1)[j] = s[j]
    <3>1. \A j \in 1..i - 1 : s[j] \in Tasks
      BY <2>1, ElementOfSeq
    <3> QED
      BY <2>1, <3>1, SubSeqProperties
  <2>b. /\ SubSeq(s, i + 1, Len(s)) \in Seq(Tasks) /\ Len(SubSeq(s, i + 1, Len(s))) = Len(s) - i
        /\ \A j \in 1..Len(s) - i : SubSeq(s, i + 1, Len(s))[j] = s[i + j]
    <3>1. \A j \in i + 1..Len(s) : s[j] \in Tasks
      BY <2>1, ElementOfSeq
    <3> QED
      BY <2>1, <3>1, SubSeqProperties
  <2> HIDE DEF r
  <2>c. ASSUME NEW a \in Seq(Tasks), NEW b \in Seq(Tasks)
        PROVE  /\ a \o b \in Seq(Tasks) /\ Len(a \o b) = Len(a) + Len(b)
               /\ \A j \in 1..Len(a) + Len(b) :
                    (a \o b)[j] = IF j <= Len(a) THEN a[j] ELSE b[j - Len(a)]
    BY ConcatProperties
  <2>d. /\ r \in Seq(Tasks) /\ Len(r) = (i - 1) + (Len(s) - i)
        /\ \A j \in 1..(i - 1) + (Len(s) - i) : r[j] =
              IF j <= i - 1 THEN SubSeq(s, 1, i - 1)[j] ELSE SubSeq(s, i + 1, Len(s))[j - (i - 1)]
    BY <2>a, <2>b, <2>c DEF r
  <2>3. r \in Seq(Tasks) /\ Len(r) = Len(s) - 1
    BY <2>1, <2>d
  <2>4. \A j \in 1..Len(r) : r[j] = IF j < i THEN s[j] ELSE s[j + 1]
    BY <2>1, <2>a, <2>b, <2>d
  <2>5. \A j \in 1..Len(r) : r[j] # t /\ \E h \in 1..Len(s) : s[h] = r[j]
    <3> SUFFICES ASSUME NEW j \in 1..Len(r)
                 PROVE  r[j] # t /\ \E h \in 1..Len(s) : s[h] = r[j]
      OBVIOUS
    <3>1. CASE j < i
      BY <2>1, <2>3, <2>4, <3>1
    <3>2. CASE ~(j < i)
      BY <2>1, <2>3, <2>4, <3>2
    <3> QED
      BY <3>1, <3>2
  <2>6. \A j \in 1..Len(s) : s[j] # t => \E h \in 1..Len(r) : r[h] = s[j]
    <3> SUFFICES ASSUME NEW j \in 1..Len(s), s[j] # t
                 PROVE  \E h \in 1..Len(r) : r[h] = s[j]
      OBVIOUS
    <3>1. CASE j < i
      <4>1. j \in 1..Len(r) /\ r[j] = s[j]
        BY <2>1, <2>3, <2>4, <3>1
      <4> QED
        BY <4>1
    <3>2. CASE ~(j < i)
      <4>1. j - 1 \in 1..Len(r) /\ r[j - 1] = s[j]
        BY <2>1, <2>3, <2>4, <3>2
      <4> QED
        BY <4>1
    <3> QED
      BY <3>1, <3>2
  <2>7. \A j, h \in 1..Len(r) : r[j] = r[h] => j = h
    <3> SUFFICES ASSUME NEW j \in 1..Len(r), NEW h \in 1..Len(r), r[j] = r[h]
                 PROVE  j = h
      OBVIOUS
    <3> QED
      BY <2>1, <2>3, <2>4
  <2> QED
    BY <2>2, <2>3, <2>5, <2>6, <2>7
<1> QED
  BY <1>1, <1>2

\* What _wake_next establishes when nobody owns the lock: it frees the lock when
\* nobody waits, else grants it to exactly one most urgent waiter.
WokeUp(s, q, p, tr) ==
    /\ s.locked \in BOOLEAN
    /\ s.waiters \in [Tiers -> Seq(Tasks)]
    /\ s.pc \in [Tasks -> States]
    /\ QueueOK(s.waiters, s.pc, tr)
    /\ \/ /\ s.locked = FALSE /\ s.pc = p
          /\ \A t \in Tasks : p[t] # "waiting"
       \/ /\ s.locked = TRUE
          /\ \E u \in Tasks :
               /\ p[u] = "waiting" /\ s.pc = [p EXCEPT ![u] = "granted"]
               /\ \A v \in Tasks : p[v] = "waiting" => tr[u] <= tr[v]

\* What a successful _wake_next leaves: one task granted, none more urgent in line,
\* the queues still in order.
LEMMA GrantFacts ==
    ASSUME NEW q \in [Tiers -> Seq(Tasks)], NEW p \in [Tasks -> States],
           NEW tr \in [Tasks -> Tiers],
           QueueOK(q, p, tr),
           NEW k \in Tiers, NEW i \in 1..Len(q[k]), IsNext(q, p, k, i),
           NEW u, u = q[k][i],
           NEW s, s = Grant(q, p, k, i)
    PROVE  WokeUp(s, q, p, tr)
<1>0. Tiers \subseteq Nat
  BY DEF Tiers
<1>1. u \in Tasks /\ p[u] = "waiting" /\ tr[u] = k
  <2>1. p[u] = "waiting" /\ tr[u] = k
    BY DEF IsNext, Pending, QueueOK
  <2> QED
    BY <2>1, ElementOfSeq
<1>2. s.locked = TRUE /\ s.pc = [p EXCEPT ![u] = "granted"]
  BY DEF Grant
<1>3. /\ \A h \in Tiers : h < k => s.waiters[h] = <<>>
      /\ s.waiters[k] = SubSeq(q[k], i + 1, Len(q[k]))
      /\ \A h \in Tiers : k < h => s.waiters[h] = q[h]
      /\ s.waiters = [h \in Tiers |-> s.waiters[h]]
  <2>1. s.waiters = [h \in Tiers |-> IF h < k THEN <<>>
                                  ELSE IF h = k THEN SubSeq(q[k], i + 1, Len(q[k])) ELSE q[h]]
    BY DEF Grant
  <2>2. \A h \in Tiers : h < k => s.waiters[h] = <<>>
    BY <1>0, <2>1
  <2>3. s.waiters[k] = SubSeq(q[k], i + 1, Len(q[k]))
    BY <1>0, <2>1
  <2>4. \A h \in Tiers : k < h => s.waiters[h] = q[h]
    BY <1>0, <2>1
  <2> QED
    BY <2>1, <2>2, <2>3, <2>4
<1>4. /\ s.waiters[k] \in Seq(Tasks)
      /\ Len(s.waiters[k]) = Len(q[k]) - i
      /\ \A j \in 1..Len(q[k]) - i : s.waiters[k][j] = q[k][i + j]
  <2>0. q[k] \in Seq(Tasks)
    OBVIOUS
  <2>1. \A j \in i + 1..Len(q[k]) : q[k][j] \in Tasks
    BY <2>0, ElementOfSeq
  <2> HIDE DEF Tiers
  <2>2. /\ SubSeq(q[k], i + 1, Len(q[k])) \in Seq(Tasks)
        /\ Len(SubSeq(q[k], i + 1, Len(q[k]))) = Len(q[k]) - i
        /\ \A j \in 1..Len(q[k]) - i : SubSeq(q[k], i + 1, Len(q[k]))[j] = q[k][i + j]
    BY <2>0, <2>1, SubSeqProperties
  <2> QED
    BY <1>3, <2>2
<1>5. s.waiters \in [Tiers -> Seq(Tasks)]
  <2>1. ASSUME NEW h \in Tiers
        PROVE  s.waiters[h] \in Seq(Tasks)
    <3>1. CASE h < k
      BY <1>3, <3>1, EmptySeq
    <3>2. CASE h = k
      BY <1>4, <3>2
    <3>3. CASE k < h
      BY <1>3, <3>3
    <3> QED
      BY <1>0, <3>1, <3>2, <3>3
  <2> QED
    BY <1>3, <2>1
<1>6. ASSUME NEW v \in Tasks, p[v] = "waiting"
      PROVE  /\ k <= tr[v]
             /\ tr[v] = k => \E j \in 1..Len(q[k]) : q[k][j] = v /\ i <= j
  <2>1. PICK j \in 1..Len(q[tr[v]]) : q[tr[v]][j] = v
    BY <1>6 DEF QueueOK
  <2>2. j \in Pending(q, p, tr[v])
    BY <1>6, <2>1 DEF Pending
  <2>3. ~(tr[v] < k)
    BY <2>2 DEF IsNext
  <2>4. tr[v] = k => i <= j
    BY <2>2 DEF IsNext
  <2>5. k \in Nat /\ tr[v] \in Nat
    BY <1>0
  <2>6. k <= tr[v]
    BY <2>3, <2>5
  <2> QED
    BY <2>1, <2>4, <2>6
<1>7. ASSUME NEW v \in Tasks, s.pc[v] = "waiting"
      PROVE  \E j \in 1..Len(s.waiters[tr[v]]) : s.waiters[tr[v]][j] = v
  <2>1. v # u /\ p[v] = "waiting"
    BY <1>1, <1>2, <1>7
  <2>2. CASE tr[v] = k
    <3>1. PICK j \in 1..Len(q[k]) : q[k][j] = v /\ i <= j
      BY <1>6, <2>1, <2>2
    <3>2. j # i
      BY <2>1, <3>1
    <3>3. j - i \in 1..Len(q[k]) - i /\ i + (j - i) = j
      BY <3>1, <3>2
    <3>4. s.waiters[k][j - i] = v
      BY <1>4, <3>1, <3>3
    <3> QED
      BY <1>4, <2>2, <3>3, <3>4
  <2>3. CASE tr[v] # k
    <3>0. k <= tr[v]
      BY <1>6, <2>1
    <3>a. k \in Nat /\ tr[v] \in Nat
      BY <1>0
    <3>1. k < tr[v]
      BY <2>3, <3>0, <3>a
    <3>2. s.waiters[tr[v]] = q[tr[v]]
      BY <1>3, <3>1
    <3> QED
      BY <2>1, <3>2 DEF QueueOK
  <2> QED
    BY <2>2, <2>3
<1>8. ASSUME NEW h \in Tiers, NEW j \in 1..Len(s.waiters[h])
      PROVE  \E l \in 1..Len(q[h]) :
                /\ s.waiters[h][j] = q[h][l] /\ q[h][l] # u
                /\ l = IF h = k THEN i + j ELSE j
  <2>1. ~(h < k)
    BY <1>3, <1>8
  <2>2. CASE h = k
    <3>1. i + j \in 1..Len(q[k]) /\ s.waiters[k][j] = q[k][i + j] /\ i + j # i
      <4>1. j \in 1..Len(q[k]) - i /\ Len(q[k]) \in Nat
        BY <1>4, <1>8, <2>2, LenProperties
      <4>2. i + j \in 1..Len(q[k]) /\ i + j # i
        BY <4>1
      <4> QED
        BY <1>4, <4>1, <4>2
    <3>2. q[k][i + j] # u
      BY <3>1 DEF QueueOK
    <3> QED
      BY <2>2, <3>1, <3>2
  <2>3. CASE k < h
    <3>1. s.waiters[h] = q[h] /\ h # k
      BY <1>0, <1>3, <2>3
    <3>2. tr[q[h][j]] = h
      BY <1>8, <3>1 DEF QueueOK
    <3> QED
      BY <1>1, <1>8, <3>1, <3>2
  <2> QED
    BY <1>0, <2>1, <2>2, <2>3
<1>9. ASSUME NEW h \in Tiers, NEW j \in 1..Len(s.waiters[h])
      PROVE  s.pc[s.waiters[h][j]] \in {"waiting", "dropped"} /\ tr[s.waiters[h][j]] = h
  <2>1. PICK l \in 1..Len(q[h]) : s.waiters[h][j] = q[h][l] /\ q[h][l] # u
    BY <1>8, <1>9
  <2>2. q[h][l] \in Tasks
    BY ElementOfSeq
  <2>3. p[q[h][l]] \in {"waiting", "dropped"} /\ tr[q[h][l]] = h
    BY DEF QueueOK
  <2> QED
    BY <1>1, <1>2, <2>1, <2>2, <2>3
<1>10. ASSUME NEW h \in Tiers, NEW j \in 1..Len(s.waiters[h]), NEW l \in 1..Len(s.waiters[h]),
              s.waiters[h][j] = s.waiters[h][l]
       PROVE  j = l
  <2>1. PICK a \in 1..Len(q[h]) : s.waiters[h][j] = q[h][a] /\ a = IF h = k THEN i + j ELSE j
    BY <1>8, <1>10
  <2>2. PICK b \in 1..Len(q[h]) : s.waiters[h][l] = q[h][b] /\ b = IF h = k THEN i + l ELSE l
    BY <1>8, <1>10
  <2>3. q[h][a] = q[h][b]
    BY <1>10, <2>1, <2>2
  <2>3a. a = b
    BY <2>3 DEF QueueOK
  <2>4. Len(s.waiters[h]) \in Nat
    BY <1>5
  <2> QED
    BY <2>1, <2>2, <2>3a, <2>4
<1>11. s.pc \in [Tasks -> States]
  BY <1>1, <1>2 DEF States
<1>12. QueueOK(s.waiters, s.pc, tr)
  BY <1>7, <1>9, <1>10 DEF QueueOK
<1>13. \A v \in Tasks : p[v] = "waiting" => tr[u] <= tr[v]
  BY <1>1, <1>6
<1> QED
  BY <1>1, <1>2, <1>5, <1>11, <1>12, <1>13 DEF WokeUp

\* _wake_next whether or not somebody was in line.
LEMMA WakeFacts ==
    ASSUME NEW q \in [Tiers -> Seq(Tasks)], NEW p \in [Tasks -> States],
           NEW tr \in [Tasks -> Tiers],
           QueueOK(q, p, tr),
           NEW s \in WakeNext(q, p)
    PROVE  WokeUp(s, q, p, tr)
<1>1. CASE \A k \in Tiers : Pending(q, p, k) = {}
  <2>1. s = [locked |-> FALSE, waiters |-> [k \in Tiers |-> <<>>], pc |-> p]
    BY <1>1 DEF WakeNext
  <2>2. \A t \in Tasks : p[t] # "waiting"
    <3> SUFFICES ASSUME NEW t \in Tasks, p[t] = "waiting"
                 PROVE  FALSE
      OBVIOUS
    <3>1. PICK i \in 1..Len(q[tr[t]]) : q[tr[t]][i] = t
      BY DEF QueueOK
    <3>2. i \in Pending(q, p, tr[t])
      BY <3>1 DEF Pending
    <3> QED
      BY <1>1, <3>2
  <2>3. QueueOK(s.waiters, s.pc, tr)
    BY <2>1, <2>2 DEF QueueOK
  <2> QED
    BY <2>1, <2>2, <2>3 DEF WokeUp
<1>2. CASE ~ \A k \in Tiers : Pending(q, p, k) = {}
  <2>1. PICK k \in Tiers : \E j \in DOMAIN q[k] : IsNext(q, p, k, j) /\ s = Grant(q, p, k, j)
    BY <1>2 DEF WakeNext
  <2>2. PICK i \in DOMAIN q[k] : IsNext(q, p, k, i) /\ s = Grant(q, p, k, i)
    BY <2>1
  <2>3. i \in 1..Len(q[k])
    OBVIOUS
  <2> QED
    BY <2>2, <2>3, GrantFacts
<1> QED
  BY <1>1, <1>2

\* Handing the lock over from its one owner keeps the invariant.
LEMMA HandOver ==
    ASSUME NEW q \in [Tiers -> Seq(Tasks)], NEW p \in [Tasks -> States],
           NEW tr \in [Tasks -> Tiers], NEW l \in BOOLEAN,
           OwnerOK(l, p), QueueOK(q, p, tr),
           NEW t \in Tasks, p[t] \in OwnerState,
           NEW s \in WakeNext(q, [p EXCEPT ![t] = "idle"])
    PROVE  /\ WokeUp(s, q, [p EXCEPT ![t] = "idle"], tr)
           /\ OwnerOK(s.locked, s.pc)
<1> DEFINE away == [p EXCEPT ![t] = "idle"]
<1>1. away \in [Tasks -> States]
  BY DEF States
<1>2. QueueOK(q, away, tr)
  <2>1. ASSUME NEW u \in Tasks, away[u] = "waiting"
        PROVE  \E i \in 1..Len(q[tr[u]]) : q[tr[u]][i] = u
    BY <2>1 DEF QueueOK
  <2>2. ASSUME NEW k \in Tiers, NEW i \in 1..Len(q[k])
        PROVE  away[q[k][i]] \in {"waiting", "dropped"} /\ tr[q[k][i]] = k
    <3>1. p[q[k][i]] \in {"waiting", "dropped"} /\ tr[q[k][i]] = k
      BY DEF QueueOK
    <3>2. q[k][i] # t /\ q[k][i] \in Tasks
      BY <3>1, ElementOfSeq DEF OwnerState
    <3> QED
      BY <3>1, <3>2
  <2> QED
    BY <2>1, <2>2 DEF QueueOK
<1>3. WokeUp(s, q, away, tr)
  BY <1>1, <1>2, WakeFacts
<1>4. \A u \in Tasks : away[u] \notin OwnerState
  BY DEF OwnerOK, OwnerState
<1>5. OwnerOK(s.locked, s.pc)
  <2>1. CASE s.locked = FALSE /\ s.pc = away /\ \A u \in Tasks : away[u] # "waiting"
    BY <1>4, <2>1 DEF OwnerOK
  <2>2. CASE s.locked = TRUE /\ \E u \in Tasks : s.pc = [away EXCEPT ![u] = "granted"]
    <3>1. PICK u \in Tasks : s.pc = [away EXCEPT ![u] = "granted"]
      BY <2>2
    <3>2. \A v \in Tasks : s.pc[v] \in OwnerState <=> v = u
      BY <1>1, <1>4, <3>1 DEF OwnerState
    <3> QED
      BY <2>2, <3>2 DEF OwnerOK
  <2> QED
    BY <1>3, <2>1, <2>2 DEF WokeUp
<1> QED
  BY <1>3, <1>5

\* Joining the end of a deque keeps the queues in order.
LEMMA JoinQueue ==
    ASSUME NEW q \in [Tiers -> Seq(Tasks)], NEW p \in [Tasks -> States],
           NEW tr \in [Tasks -> Tiers], QueueOK(q, p, tr),
           NEW t \in Tasks, p[t] \notin {"waiting", "dropped"}, NEW k \in Tiers
    PROVE  /\ [q EXCEPT ![k] = Append(@, t)] \in [Tiers -> Seq(Tasks)]
           /\ QueueOK([q EXCEPT ![k] = Append(@, t)], [p EXCEPT ![t] = "waiting"],
                      [tr EXCEPT ![t] = k])
<1> DEFINE q1 == [q EXCEPT ![k] = Append(@, t)]
           p1 == [p EXCEPT ![t] = "waiting"]
           r1 == [tr EXCEPT ![t] = k]
<1>0. q[k] \in Seq(Tasks) /\ Len(q[k]) \in Nat
  BY LenProperties
<1>1. /\ q1[k] \in Seq(Tasks) /\ Len(q1[k]) = Len(q[k]) + 1
      /\ \A i \in 1..Len(q[k]) : q1[k][i] = q[k][i]
      /\ q1[k][Len(q[k]) + 1] = t
  BY <1>0
<1>2. q1 \in [Tiers -> Seq(Tasks)] /\ \A h \in Tiers : h # k => q1[h] = q[h]
  BY <1>1
<1>3. \A h \in Tiers : \A i \in 1..Len(q[h]) : q[h][i] \in Tasks /\ q[h][i] # t
  BY ElementOfSeq DEF QueueOK
<1>4. ASSUME NEW h \in Tiers, NEW i \in 1..Len(q1[h])
      PROVE  \/ i \in 1..Len(q[h]) /\ q1[h][i] = q[h][i]
             \/ h = k /\ i = Len(q[k]) + 1 /\ q1[h][i] = t
  BY <1>0, <1>1, <1>2
<1> HIDE DEF q1
<1>5. ASSUME NEW u \in Tasks, p1[u] = "waiting"
      PROVE  \E i \in 1..Len(q1[r1[u]]) : q1[r1[u]][i] = u
  <2>1. CASE u = t
    BY <1>0, <1>1, <2>1
  <2>2. CASE u # t
    <3>1. PICK i \in 1..Len(q[tr[u]]) : q[tr[u]][i] = u
      BY <1>5, <2>2 DEF QueueOK
    <3>2. CASE tr[u] = k
      <4>1. i \in 1..Len(q1[k]) /\ q1[k][i] = u
        BY <1>0, <1>1, <3>1, <3>2
      <4> QED
        BY <2>2, <3>2, <4>1
    <3>3. CASE tr[u] # k
      BY <1>2, <2>2, <3>1, <3>3
    <3> QED
      BY <3>2, <3>3
  <2> QED
    BY <2>1, <2>2
<1>6. ASSUME NEW h \in Tiers, NEW i \in 1..Len(q1[h])
      PROVE  p1[q1[h][i]] \in {"waiting", "dropped"} /\ r1[q1[h][i]] = h
  <2>1. CASE i \in 1..Len(q[h]) /\ q1[h][i] = q[h][i]
    <3>1. p[q[h][i]] \in {"waiting", "dropped"} /\ tr[q[h][i]] = h
      BY <2>1 DEF QueueOK
    <3>2. q[h][i] \in Tasks /\ q[h][i] # t
      BY <1>3, <2>1
    <3> QED
      BY <2>1, <3>1, <3>2
  <2>2. CASE h = k /\ q1[h][i] = t
    BY <2>2
  <2> QED
    BY <1>4, <2>1, <2>2
<1>7. ASSUME NEW h \in Tiers, NEW i \in 1..Len(q1[h]), NEW j \in 1..Len(q1[h]),
             q1[h][i] = q1[h][j]
      PROVE  i = j
  <2>1. CASE i \in 1..Len(q[h]) /\ q1[h][i] = q[h][i]
    <3>1. j \in 1..Len(q[h]) /\ q1[h][j] = q[h][j]
      BY <1>3, <1>4, <1>7, <2>1
    <3>2. q[h][i] = q[h][j]
      BY <1>7, <2>1, <3>1
    <3> QED
      BY <2>1, <3>1, <3>2 DEF QueueOK
  <2>2. CASE h = k /\ i = Len(q[k]) + 1 /\ q1[h][i] = t
    <3>1. ~(j \in 1..Len(q[h]) /\ q1[h][j] = q[h][j])
      BY <1>3, <1>7, <2>2
    <3> QED
      BY <1>4, <2>2, <3>1
  <2> QED
    BY <1>4, <2>1, <2>2
<1>8. QueueOK(q1, p1, r1)
  BY <1>5, <1>6, <1>7 DEF QueueOK
<1> QED
  BY <1>2, <1>8 DEF q1

\* A pending future that is cancelled stays in line, its state aside.
LEMMA DropInLine ==
    ASSUME NEW q \in [Tiers -> Seq(Tasks)], NEW p \in [Tasks -> States],
           NEW tr \in [Tasks -> Tiers], QueueOK(q, p, tr),
           NEW t \in Tasks, NEW v \in States,
           \/ p[t] = "waiting" /\ v = "dropped"
           \/ p[t] \notin {"waiting", "dropped"} /\ v # "waiting"
    PROVE  QueueOK(q, [p EXCEPT ![t] = v], tr)
<1> DEFINE p1 == [p EXCEPT ![t] = v]
<1>1. ASSUME NEW u \in Tasks, p1[u] = "waiting"
      PROVE  \E i \in 1..Len(q[tr[u]]) : q[tr[u]][i] = u
  <2>1. p[u] = "waiting"
    BY <1>1
  <2> QED
    BY <2>1 DEF QueueOK
<1>2. ASSUME NEW h \in Tiers, NEW i \in 1..Len(q[h])
      PROVE  p1[q[h][i]] \in {"waiting", "dropped"} /\ tr[q[h][i]] = h
  <2>1. p[q[h][i]] \in {"waiting", "dropped"} /\ tr[q[h][i]] = h
    BY DEF QueueOK
  <2>2. q[h][i] \in Tasks
    BY ElementOfSeq
  <2> QED
    BY <2>1, <2>2
<1> QED
  BY <1>1, <1>2 DEF QueueOK

\* A task that learns it was cancelled takes its future out of line.
LEMMA LeaveQueue ==
    ASSUME NEW q \in [Tiers -> Seq(Tasks)], NEW p \in [Tasks -> States],
           NEW tr \in [Tasks -> Tiers], QueueOK(q, p, tr),
           NEW t \in Tasks, p[t] = "dropped"
    PROVE  /\ [q EXCEPT ![tr[t]] = Without(@, t)] \in [Tiers -> Seq(Tasks)]
           /\ QueueOK([q EXCEPT ![tr[t]] = Without(@, t)], [p EXCEPT ![t] = "idle"], tr)
<1> DEFINE k == tr[t]
           w == Without(q[k], t)
           q1 == [q EXCEPT ![k] = w]
           p1 == [p EXCEPT ![t] = "idle"]
<1>0. q[k] \in Seq(Tasks) /\ \A i, j \in 1..Len(q[k]) : q[k][i] = q[k][j] => i = j
  BY DEF QueueOK
<1>1. /\ w \in Seq(Tasks)
      /\ \A i \in 1..Len(w) : w[i] # t /\ \E j \in 1..Len(q[k]) : q[k][j] = w[i]
      /\ \A j \in 1..Len(q[k]) : q[k][j] # t => \E i \in 1..Len(w) : w[i] = q[k][j]
      /\ \A i, j \in 1..Len(w) : w[i] = w[j] => i = j
  <2> HIDE DEF k
  <2> QED
    BY <1>0, WithoutFacts
<1> HIDE DEF w
<1>2. q1 \in [Tiers -> Seq(Tasks)] /\ q1[k] = w /\ \A h \in Tiers : h # k => q1[h] = q[h]
  BY <1>1
<1> HIDE DEF q1
<1>3. ASSUME NEW u \in Tasks, p1[u] = "waiting"
      PROVE  \E i \in 1..Len(q1[tr[u]]) : q1[tr[u]][i] = u
  <2>1. p[u] = "waiting" /\ u # t
    BY <1>3
  <2>2. PICK i \in 1..Len(q[tr[u]]) : q[tr[u]][i] = u
    BY <2>1 DEF QueueOK
  <2>3. CASE tr[u] = k
    <3>1. i \in 1..Len(q[k]) /\ q[k][i] = u
      BY <2>2, <2>3
    <3>2. \E j \in 1..Len(w) : w[j] = u
      BY <1>1, <2>1, <3>1
    <3> QED
      BY <1>2, <2>3, <3>2
  <2>4. CASE tr[u] # k
    BY <1>2, <2>2, <2>4
  <2> QED
    BY <2>3, <2>4
<1>4. ASSUME NEW h \in Tiers, NEW i \in 1..Len(q1[h])
      PROVE  p1[q1[h][i]] \in {"waiting", "dropped"} /\ tr[q1[h][i]] = h
  <2>1. \E j \in 1..Len(q[h]) : q[h][j] = q1[h][i] /\ q1[h][i] # t
    <3>1. CASE h = k
      BY <1>1, <1>2, <1>4, <3>1
    <3>2. CASE h # k
      <4>1. q1[h] = q[h]
        BY <1>2, <3>2
      <4>2. tr[q[h][i]] = h
        BY <1>4, <4>1 DEF QueueOK
      <4> QED
        BY <1>4, <3>2, <4>1, <4>2
    <3> QED
      BY <3>1, <3>2
  <2>2. PICK j \in 1..Len(q[h]) : q[h][j] = q1[h][i]
    BY <2>1
  <2>3. p[q[h][j]] \in {"waiting", "dropped"} /\ tr[q[h][j]] = h
    BY DEF QueueOK
  <2>4. q[h][j] \in Tasks
    BY ElementOfSeq
  <2> QED
    BY <2>1, <2>2, <2>3, <2>4
<1>5. ASSUME NEW h \in Tiers, NEW i \in 1..Len(q1[h]), NEW j \in 1..Len(q1[h]),
             q1[h][i] = q1[h][j]
      PROVE  i = j
  <2>1. CASE h = k
    BY <1>1, <1>2, <1>5, <2>1
  <2>2. CASE h # k
    BY <1>2, <1>5, <2>2 DEF QueueOK
  <2> QED
    BY <2>1, <2>2
<1>6. QueueOK(q1, p1, tr)
  BY <1>3, <1>4, <1>5 DEF QueueOK
<1> QED
  BY <1>2, <1>6 DEF q1, w

-----------------------------------------------------------------------------
(* Each action keeps the invariant. *)

\* A new lock is in order.
LEMMA InitInv == Init => Inv
<1> SUFFICES ASSUME Init
             PROVE  Inv
  OBVIOUS
<1>1. TypeOK
  <2>1. waiters \in [Tiers -> Seq(Tasks)]
    BY EmptySeq DEF Init
  <2> QED
    BY <2>1, TierAssumption DEF Init, TypeOK, States, EventStates
<1>2. OwnerOK(locked, pc)
  BY DEF Init, OwnerOK, OwnerState
<1>3. QueueOK(waiters, pc, tier)
  BY DEF Init, QueueOK
<1>4. CancelOK
  BY DEF Init, CancelOK
<1> QED
  BY <1>1, <1>2, <1>3, <1>4 DEF Inv

\* The registries and the history stay in their types.
LEMMA RegisterType ==
    ASSUME TypeOK, NEW t \in Tasks, Register(t) \/ Deregister(t)
    PROVE  /\ preempters' \in SUBSET Preempting
           /\ reporters' \in SUBSET Reporting
           /\ event' \in [Events -> EventStates]
<1>1. CASE Register(t)
  BY <1>1 DEF Register, TypeOK, EventStates
<1>2. CASE Deregister(t)
  BY <1>2 DEF Deregister, TypeOK, EventStates
<1> QED
  BY <1>1, <1>2

\* The history variable keeps its type.
LEMMA OwedType ==
    ASSUME TypeOK, KeepOwed
    PROVE  owed' \in [Tasks -> SUBSET Tasks]
BY DEF TypeOK, KeepOwed

\* Acquiring a free lock keeps the invariant.
LEMMA AcquireFreeInv ==
    ASSUME Inv, NEW t \in Tasks, AcquireFree(t)
    PROVE  Inv'
<1>1. TypeOK'
  BY OwedType DEF Inv, AcquireFree, TypeOK, States
<1>2. OwnerOK(locked, pc)'
  BY DEF Inv, AcquireFree, TypeOK, OwnerOK, OwnerState
<1>3. QueueOK(waiters, [pc EXCEPT ![t] = "holding"], tier)
  BY DropInLine DEF Inv, AcquireFree, TypeOK, States
<1>4. QueueOK(waiters, pc, tier)'
  BY <1>3 DEF AcquireFree
<1>5. CancelOK'
  BY DEF Inv, AcquireFree, TypeOK, CancelOK
<1> QED
  BY <1>1, <1>2, <1>4, <1>5 DEF Inv

\* Joining the line for a taken lock keeps the invariant.
LEMMA AcquireWaitInv ==
    ASSUME Inv, NEW t \in Tasks, AcquireWait(t)
    PROVE  Inv'
<1>0. Tier[t] \in Tiers
  BY TierAssumption
<1>1. /\ [waiters EXCEPT ![Tier[t]] = Append(@, t)] \in [Tiers -> Seq(Tasks)]
      /\ QueueOK([waiters EXCEPT ![Tier[t]] = Append(@, t)], [pc EXCEPT ![t] = "waiting"],
                 [tier EXCEPT ![t] = Tier[t]])
  BY <1>0, JoinQueue DEF Inv, AcquireWait, TypeOK
<1>2. TypeOK'
  BY <1>0, <1>1, RegisterType, OwedType DEF Inv, AcquireWait, TypeOK, States
<1>3. OwnerOK(locked, pc)'
  BY DEF Inv, AcquireWait, TypeOK, OwnerOK, OwnerState
<1>4. QueueOK(waiters, pc, tier)'
  BY <1>1 DEF AcquireWait
<1>5. CancelOK'
  BY DEF Inv, AcquireWait, TypeOK, CancelOK
<1> QED
  BY <1>2, <1>3, <1>4, <1>5 DEF Inv

\* A granted task that runs owns the lock.
LEMMA ResumeInv ==
    ASSUME Inv, NEW t \in Tasks, Resume(t)
    PROVE  Inv'
<1>1. TypeOK'
  BY RegisterType, OwedType DEF Inv, Resume, TypeOK, States
<1>2. OwnerOK(locked, pc)'
  BY DEF Inv, Resume, TypeOK, OwnerOK, OwnerState
<1>3. QueueOK(waiters, [pc EXCEPT ![t] = "holding"], tier)
  BY DropInLine DEF Inv, Resume, TypeOK, States
<1>4. QueueOK(waiters, pc, tier)'
  BY <1>3 DEF Resume
<1>5. CancelOK'
  BY DEF Inv, Resume, TypeOK, CancelOK
<1> QED
  BY <1>1, <1>2, <1>4, <1>5 DEF Inv

\* What a step that hands the lock over from t leaves behind.
LEMMA HandOverInv ==
    ASSUME Inv, NEW t \in Tasks, pc[t] \in OwnerState,
           NEW s \in WakeNext(waiters, [pc EXCEPT ![t] = "idle"])
    PROVE  /\ s.locked \in BOOLEAN
           /\ s.waiters \in [Tiers -> Seq(Tasks)]
           /\ s.pc \in [Tasks -> States]
           /\ OwnerOK(s.locked, s.pc)
           /\ QueueOK(s.waiters, s.pc, tier)
           /\ s.pc[t] = "idle"
           /\ \A v \in Tasks : s.pc[v] \in {"dropped", "doomed"} => v \in Cancellable
           /\ s.locked = FALSE => s.pc = [pc EXCEPT ![t] = "idle"]
<1> DEFINE away == [pc EXCEPT ![t] = "idle"]
<1>1. /\ WokeUp(s, waiters, away, tier)
      /\ OwnerOK(s.locked, s.pc)
  BY HandOver DEF Inv, TypeOK
<1>2. \/ s.pc = away
      \/ s.locked = TRUE /\ \E u \in Tasks : away[u] = "waiting" /\ s.pc = [away EXCEPT ![u] = "granted"]
  BY <1>1 DEF WokeUp
<1>3. s.pc[t] = "idle"
  BY <1>2 DEF Inv, TypeOK
<1>4. \A v \in Tasks : s.pc[v] \in {"dropped", "doomed"} => v \in Cancellable
  BY <1>2 DEF Inv, TypeOK, CancelOK
<1> QED
  BY <1>1, <1>2, <1>3, <1>4 DEF WokeUp

\* A release hands the lock to one waiter, or frees it.
LEMMA ReleaseInv ==
    ASSUME Inv, NEW t \in Tasks, Release(t)
    PROVE  Inv'
<1>1. pc[t] \in OwnerState
  BY DEF Release, OwnerState
<1>2. PICK s \in WakeNext(waiters, [pc EXCEPT ![t] = "idle"]) :
          locked' = s.locked /\ waiters' = s.waiters /\ pc' = s.pc
  BY DEF Release
<1>3. /\ s.locked \in BOOLEAN
      /\ s.waiters \in [Tiers -> Seq(Tasks)]
      /\ s.pc \in [Tasks -> States]
      /\ OwnerOK(s.locked, s.pc)
      /\ QueueOK(s.waiters, s.pc, tier)
      /\ \A v \in Tasks : s.pc[v] \in {"dropped", "doomed"} => v \in Cancellable
  BY <1>1, HandOverInv
<1>4. TypeOK'
  BY <1>2, <1>3, OwedType DEF Inv, Release, TypeOK
<1>5. OwnerOK(locked, pc)' /\ QueueOK(waiters, pc, tier)' /\ CancelOK'
  BY <1>2, <1>3 DEF Release, CancelOK
<1> QED
  BY <1>4, <1>5 DEF Inv

\* A window that yields hands the lock over and joins the line.
LEMMA YieldInv ==
    ASSUME Inv, NEW w \in Tasks, Yield(w)
    PROVE  Inv'
<1>1. pc[w] \in OwnerState /\ w \in Windows
  BY DEF Yield, OwnerState
<1>2. PICK k \in Tiers : \E s \in WakeNext(waiters, [pc EXCEPT ![w] = "idle"]) :
        /\ locked' = TRUE
        /\ IF s.locked
           THEN /\ waiters' = [s.waiters EXCEPT ![k] = Append(@, w)]
                /\ tier' = [tier EXCEPT ![w] = k]
                /\ pc' = [s.pc EXCEPT ![w] = "waiting"]
                /\ resuming' = resuming \union {w}
                /\ owed' = [v \in Tasks |->
                    IF v = w
                    THEN {t \in preempters : /\ pc'[t] = "waiting"
                                             /\ \A u \in preempters : Tier[t] <= Tier[u]}
                    ELSE {t \in owed[v] : pc'[t] = "waiting"}]
           ELSE /\ waiters' = s.waiters
                /\ pc' = [s.pc EXCEPT ![w] = "holding"]
                /\ KeepOwed
                /\ UNCHANGED <<tier, resuming>>
  BY DEF Yield
<1>3. PICK s \in WakeNext(waiters, [pc EXCEPT ![w] = "idle"]) :
        /\ locked' = TRUE
        /\ IF s.locked
           THEN /\ waiters' = [s.waiters EXCEPT ![k] = Append(@, w)]
                /\ tier' = [tier EXCEPT ![w] = k]
                /\ pc' = [s.pc EXCEPT ![w] = "waiting"]
                /\ resuming' = resuming \union {w}
                /\ owed' = [v \in Tasks |->
                    IF v = w
                    THEN {t \in preempters : /\ pc'[t] = "waiting"
                                             /\ \A u \in preempters : Tier[t] <= Tier[u]}
                    ELSE {t \in owed[v] : pc'[t] = "waiting"}]
           ELSE /\ waiters' = s.waiters
                /\ pc' = [s.pc EXCEPT ![w] = "holding"]
                /\ KeepOwed
                /\ UNCHANGED <<tier, resuming>>
  BY <1>2
<1>4. /\ s.locked \in BOOLEAN
      /\ s.waiters \in [Tiers -> Seq(Tasks)]
      /\ s.pc \in [Tasks -> States]
      /\ OwnerOK(s.locked, s.pc)
      /\ QueueOK(s.waiters, s.pc, tier)
      /\ s.pc[w] = "idle"
      /\ \A v \in Tasks : s.pc[v] \in {"dropped", "doomed"} => v \in Cancellable
  BY <1>1, HandOverInv
<1>5. UNCHANGED <<preempters, reporters, event>>
  BY DEF Yield
<1>6. CASE s.locked
  <2>1. /\ [s.waiters EXCEPT ![k] = Append(@, w)] \in [Tiers -> Seq(Tasks)]
        /\ QueueOK([s.waiters EXCEPT ![k] = Append(@, w)], [s.pc EXCEPT ![w] = "waiting"],
                   [tier EXCEPT ![w] = k])
    BY <1>4, JoinQueue DEF Inv, TypeOK
  <2>2. owed' \in [Tasks -> SUBSET Tasks]
    <3>1. preempters \subseteq Tasks
      BY KindAssumption DEF Inv, TypeOK
    <3>2. owed \in [Tasks -> SUBSET Tasks]
      BY DEF Inv, TypeOK
    <3>3. {t \in preempters : pc'[t] = "waiting" /\ \A u \in preempters : Tier[t] <= Tier[u]}
            \in SUBSET Tasks
      BY <3>1
    <3>4. \A v \in Tasks : {t \in owed[v] : pc'[t] = "waiting"} \in SUBSET Tasks
      BY <3>2
    <3>5. owed' = [v \in Tasks |->
                    IF v = w
                    THEN {t \in preempters : /\ pc'[t] = "waiting"
                                             /\ \A u \in preempters : Tier[t] <= Tier[u]}
                    ELSE {t \in owed[v] : pc'[t] = "waiting"}]
      BY <1>3, <1>6
    <3> QED
      BY <3>3, <3>4, <3>5
  <2>3. TypeOK'
    <3>1. /\ locked' = TRUE /\ resuming' = resuming \union {w}
          /\ waiters' = [s.waiters EXCEPT ![k] = Append(@, w)]
          /\ tier' = [tier EXCEPT ![w] = k] /\ pc' = [s.pc EXCEPT ![w] = "waiting"]
      BY <1>3, <1>6
    <3>2. waiters' \in [Tiers -> Seq(Tasks)]
      BY <2>1, <3>1
    <3>3. tier' \in [Tasks -> Tiers] /\ pc' \in [Tasks -> States]
      BY <1>4, <3>1 DEF Inv, TypeOK, States
    <3>4. resuming' \in SUBSET Windows
      BY <1>1, <3>1 DEF Inv, TypeOK
    <3> QED
      BY <1>5, <2>2, <3>1, <3>2, <3>3, <3>4 DEF Inv, TypeOK
  <2>4. OwnerOK(locked, pc)'
    BY <1>3, <1>4, <1>6 DEF OwnerOK, OwnerState
  <2>5. QueueOK(waiters, pc, tier)'
    BY <1>3, <1>6, <2>1
  <2>6. CancelOK'
    BY <1>3, <1>4, <1>6 DEF CancelOK
  <2> QED
    BY <2>3, <2>4, <2>5, <2>6 DEF Inv
<1>7. CASE ~s.locked
  <2>1. QueueOK(s.waiters, [s.pc EXCEPT ![w] = "holding"], tier)
    BY <1>4, DropInLine DEF Inv, TypeOK, States
  <2>2. TypeOK'
    BY <1>3, <1>4, <1>5, <1>7, OwedType DEF Inv, TypeOK, States
  <2>3. OwnerOK(locked, pc)'
    BY <1>3, <1>4, <1>7 DEF OwnerOK, OwnerState
  <2>4. QueueOK(waiters, pc, tier)'
    BY <1>3, <1>7, <2>1
  <2>5. CancelOK'
    BY <1>3, <1>4, <1>7 DEF CancelOK
  <2> QED
    BY <2>2, <2>3, <2>4, <2>5 DEF Inv
<1> QED
  BY <1>6, <1>7

\* A cancellation touches the future only: the waiter is in line until it runs.
LEMMA CancelInv ==
    ASSUME Inv, NEW t \in Tasks, Cancel(t)
    PROVE  Inv'
<1>1. PICK v \in {"dropped", "doomed"} :
        /\ pc' = [pc EXCEPT ![t] = v]
        /\ \/ pc[t] = "waiting" /\ v = "dropped"
           \/ pc[t] = "granted" /\ v = "doomed"
  BY DEF Cancel
<1>2. TypeOK'
  BY <1>1, OwedType DEF Inv, Cancel, TypeOK, States
<1>3. OwnerOK(locked, pc)'
  BY <1>1 DEF Inv, Cancel, TypeOK, OwnerOK, OwnerState
<1>4. QueueOK(waiters, [pc EXCEPT ![t] = v], tier)
  BY <1>1, DropInLine DEF Inv, TypeOK, States
<1>5. QueueOK(waiters, pc, tier)'
  BY <1>1, <1>4 DEF Cancel
<1>6. CancelOK'
  BY <1>1 DEF Inv, Cancel, TypeOK, CancelOK
<1> QED
  BY <1>2, <1>3, <1>5, <1>6 DEF Inv

\* The assumption bites here: a cancelled task is not in the middle of a yield.
LEMMA ResumeCancelledInv ==
    ASSUME Inv, Cancellable \intersect Windows = {}, NEW t \in Tasks, ResumeCancelled(t)
    PROVE  Inv'
<1>1. t \notin resuming
  BY DEF Inv, TypeOK, CancelOK, ResumeCancelled
<1> DEFINE away == [pc EXCEPT ![t] = "idle"]
<1>2. CASE pc[t] = "doomed"
  <2>1. PICK s \in WakeNext(waiters, away) :
            locked' = s.locked /\ waiters' = s.waiters /\ pc' = s.pc
    BY <1>1, <1>2 DEF ResumeCancelled
  <2>2. /\ s.locked \in BOOLEAN
        /\ s.waiters \in [Tiers -> Seq(Tasks)]
        /\ s.pc \in [Tasks -> States]
        /\ OwnerOK(s.locked, s.pc)
        /\ QueueOK(s.waiters, s.pc, tier)
        /\ \A v \in Tasks : s.pc[v] \in {"dropped", "doomed"} => v \in Cancellable
    BY <1>2, HandOverInv DEF OwnerState
  <2>3. TypeOK'
    BY <2>1, <2>2, RegisterType, OwedType DEF Inv, ResumeCancelled, TypeOK
  <2>4. OwnerOK(locked, pc)' /\ QueueOK(waiters, pc, tier)' /\ CancelOK'
    BY <2>1, <2>2 DEF ResumeCancelled, CancelOK
  <2> QED
    BY <2>3, <2>4 DEF Inv
<1>3. CASE pc[t] = "dropped"
  <2>1. /\ locked' = locked /\ pc' = away
        /\ waiters' = [waiters EXCEPT ![tier[t]] = Without(@, t)]
    BY <1>1, <1>3 DEF ResumeCancelled
  <2>2. /\ [waiters EXCEPT ![tier[t]] = Without(@, t)] \in [Tiers -> Seq(Tasks)]
        /\ QueueOK([waiters EXCEPT ![tier[t]] = Without(@, t)], away, tier)
    BY <1>3, LeaveQueue DEF Inv, TypeOK
  <2>3. TypeOK'
    BY <2>1, <2>2, RegisterType, OwedType DEF Inv, ResumeCancelled, TypeOK, States
  <2>4. OwnerOK(locked, pc)'
    BY <1>3, <2>1 DEF Inv, TypeOK, OwnerOK, OwnerState
  <2>5. QueueOK(waiters, pc, tier)'
    BY <2>1, <2>2 DEF ResumeCancelled
  <2>6. CancelOK'
    BY <2>1 DEF Inv, TypeOK, CancelOK
  <2> QED
    BY <2>3, <2>4, <2>5, <2>6 DEF Inv
<1> QED
  BY <1>2, <1>3 DEF ResumeCancelled

\* Reading an event changes no part of the invariant.
LEMMA AskEventInv ==
    ASSUME Inv, NEW e \in Events, AskEvent(e)
    PROVE  Inv'
<1>1. TypeOK'
  BY DEF Inv, AskEvent, TypeOK, EventStates
<1> QED
  BY <1>1 DEF Inv, AskEvent, CancelOK

\* Every step keeps the invariant, if no window is cancelled.
LEMMA NextInv ==
    ASSUME Inv, Cancellable \intersect Windows = {}, [Next]_vars
    PROVE  Inv'
<1>1. ASSUME NEW t \in Tasks, Step(t)
      PROVE  Inv'
  BY <1>1, AcquireFreeInv, AcquireWaitInv, ResumeInv, ReleaseInv, YieldInv, CancelInv,
     ResumeCancelledInv DEF Step
<1>2. ASSUME NEW e \in Events, AskEvent(e)
      PROVE  Inv'
  BY <1>2, AskEventInv
<1>3. CASE UNCHANGED vars
  BY <1>3 DEF vars, Inv, TypeOK, CancelOK
<1> QED
  BY <1>1, <1>2, <1>3 DEF Next

-----------------------------------------------------------------------------
(* The requests: inductive with Inv. *)

\* Handing the lock over takes nobody but the old owner in or out of acquire.
LEMMA HandOverAcquire ==
    ASSUME Inv, NEW t \in Tasks, pc[t] \in OwnerState,
           NEW s \in WakeNext(waiters, [pc EXCEPT ![t] = "idle"])
    PROVE  /\ s.pc[t] = "idle" /\ s.pc \in [Tasks -> States]
           /\ \A u \in Tasks \ {t} : s.pc[u] \in InAcquire <=> pc[u] \in InAcquire
<1> DEFINE away == [pc EXCEPT ![t] = "idle"]
<1>1. WokeUp(s, waiters, away, tier)
  BY HandOver DEF Inv, TypeOK
<1>2. \/ s.pc = away
      \/ \E u \in Tasks : away[u] = "waiting" /\ s.pc = [away EXCEPT ![u] = "granted"]
  BY <1>1 DEF WokeUp
<1>3. \A u \in Tasks \ {t} : s.pc[u] \in InAcquire <=> pc[u] \in InAcquire
  BY <1>2 DEF Inv, TypeOK, InAcquire
<1> QED
  BY <1>3, HandOverInv

\* A step that leaves the registries and the events alone, and moves no task that
\* may be in a registry in or out of acquire, keeps the requests live.
LEMMA RequestsUntouched ==
    ASSUME RequestsAreLive, UNCHANGED <<preempters, reporters, event>>,
           \A t \in Preempting \union Reporting : pc'[t] \in InAcquire <=> pc[t] \in InAcquire
    PROVE  RequestsAreLive'
<1>1. Preempting' = Preempting /\ Reporting' = Reporting
  OBVIOUS
<1> QED
  BY DEF RequestsAreLive, Wanted

\* A task that joins the line registers, and sets the events its request is for.
LEMMA RegisterLive ==
    ASSUME TypeOK, RequestsAreLive, NEW t \in Tasks, Register(t),
           pc'[t] \in InAcquire,
           \A u \in Tasks \ {t} : pc'[u] \in InAcquire <=> pc[u] \in InAcquire
    PROVE  RequestsAreLive'
<1>0. Preempting \subseteq Tasks /\ Reporting \subseteq Tasks
  BY KindAssumption
<1>1. /\ preempters' = {u \in Preempting : pc'[u] \in InAcquire}
      /\ reporters' = {u \in Reporting : pc'[u] \in InAcquire}
  BY <1>0 DEF RequestsAreLive, Register
<1>2. ASSUME NEW e \in Events, event'[e] # "absent"
      PROVE  event'[e] = "set" <=> Wanted(e, preempters', reporters')
  <2> DEFINE asked == \/ e = "preempt" /\ t \in Preempting
                      \/ e = "handshake" /\ t \in Preempting /\ Tier[t] <= HANDSHAKE
                      \/ e = "report" /\ t \in Reporting
  <2>1. event[e] # "absent" /\ (event'[e] = "set" <=> asked \/ event[e] = "set")
    BY <1>2 DEF Register
  <2>2. event[e] = "set" <=> Wanted(e, preempters, reporters)
    BY <2>1 DEF RequestsAreLive
  <2>3. Wanted(e, preempters', reporters') <=> asked \/ Wanted(e, preempters, reporters)
    BY DEF Register, Wanted, Events
  <2> QED
    BY <2>1, <2>2, <2>3
<1> QED
  BY <1>1, <1>2 DEF RequestsAreLive

\* A task that leaves acquire takes its request back, and clears the events that
\* nobody asks for any more.
LEMMA DeregisterLive ==
    ASSUME TypeOK, RequestsAreLive, NEW t \in Tasks, Deregister(t),
           pc'[t] \notin InAcquire,
           \A u \in Tasks \ {t} : pc'[u] \in InAcquire <=> pc[u] \in InAcquire
    PROVE  RequestsAreLive'
<1>0. Preempting \subseteq Tasks /\ Reporting \subseteq Tasks
  BY KindAssumption
<1>1. /\ preempters' = {u \in Preempting : pc'[u] \in InAcquire}
      /\ reporters' = {u \in Reporting : pc'[u] \in InAcquire}
  BY <1>0 DEF RequestsAreLive, Deregister
<1>2. ASSUME NEW e \in Events, event'[e] # "absent"
      PROVE  event'[e] = "set" <=> Wanted(e, preempters', reporters')
  <2> DEFINE dropped == /\ IF e = "report" THEN t \in Reporting ELSE t \in Preempting
                        /\ ~Wanted(e, preempters', reporters')
  <2>1. event[e] # "absent" /\ event'[e] = IF dropped THEN "clear" ELSE event[e]
    BY <1>2 DEF Deregister
  <2>2. event[e] = "set" <=> Wanted(e, preempters, reporters)
    BY <2>1 DEF RequestsAreLive
  <2>3. Wanted(e, preempters', reporters') => Wanted(e, preempters, reporters)
    BY DEF Deregister, Wanted
  <2>4. CASE dropped
    BY <2>1, <2>4
  <2>5. CASE ~dropped
    <3>1. CASE Wanted(e, preempters', reporters')
      BY <2>1, <2>2, <2>3, <2>5, <3>1
    <3>2. CASE e = "report" /\ t \notin Reporting
      <4>1. reporters' = reporters
        BY <3>2 DEF TypeOK, Deregister
      <4>2. Wanted(e, preempters', reporters') <=> Wanted(e, preempters, reporters)
        BY <3>2, <4>1 DEF Wanted
      <4> QED
        BY <2>1, <2>2, <2>5, <4>2
    <3>3. CASE e # "report" /\ t \notin Preempting
      <4>1. preempters' = preempters
        BY <3>3 DEF TypeOK, Deregister
      <4>2. Wanted(e, preempters', reporters') <=> Wanted(e, preempters, reporters)
        BY <3>3, <4>1 DEF Wanted, Events
      <4> QED
        BY <2>1, <2>2, <2>5, <4>2
    <3> QED
      BY <2>5, <3>1, <3>2, <3>3
  <2> QED
    BY <2>4, <2>5
<1> QED
  BY <1>1, <1>2 DEF RequestsAreLive

\* Every step of a task keeps the requests live.
LEMMA StepRequests ==
    ASSUME Inv, RequestsAreLive, Cancellable \intersect Windows = {},
           NEW t \in Tasks, Step(t)
    PROVE  RequestsAreLive'
<1>0. /\ TypeOK /\ Preempting \subseteq Tasks /\ Reporting \subseteq Tasks
      /\ Windows \intersect (Preempting \union Reporting) = {}
  BY KindAssumption DEF Inv
<1>1. CASE AcquireFree(t)
  BY <1>0, <1>1, RequestsUntouched DEF AcquireFree, TypeOK, InAcquire
<1>2. CASE AcquireWait(t)
  BY <1>0, <1>2, RegisterLive DEF AcquireWait, TypeOK, InAcquire
<1>3. CASE Resume(t)
  BY <1>0, <1>3, DeregisterLive DEF Resume, TypeOK, InAcquire
<1>4. CASE Release(t)
  <2>1. pc[t] \in OwnerState /\ pc[t] \notin InAcquire
    BY <1>4 DEF Release, OwnerState, InAcquire
  <2>2. pc'[t] = "idle" /\ \A u \in Tasks \ {t} : pc'[u] \in InAcquire <=> pc[u] \in InAcquire
    BY <1>4, <2>1, HandOverAcquire DEF Release
  <2> QED
    BY <1>0, <1>4, <2>1, <2>2, RequestsUntouched DEF Release, InAcquire
<1>5. CASE Yield(t)
  <2>1. pc[t] \in OwnerState /\ t \in Windows /\ UNCHANGED <<preempters, reporters, event>>
    BY <1>5 DEF Yield, OwnerState
  <2>2. PICK s \in WakeNext(waiters, [pc EXCEPT ![t] = "idle"]) :
            pc' = [s.pc EXCEPT ![t] = IF s.locked THEN "waiting" ELSE "holding"]
    BY <1>5 DEF Yield
  <2>3. \A u \in Tasks \ {t} : pc'[u] \in InAcquire <=> pc[u] \in InAcquire
    BY <2>1, <2>2, HandOverAcquire
  <2> QED
    BY <1>0, <2>1, <2>3, RequestsUntouched
<1>6. CASE Cancel(t)
  BY <1>0, <1>6, RequestsUntouched DEF Cancel, TypeOK, InAcquire
<1>7. CASE ResumeCancelled(t)
  <2>1. t \notin resuming
    BY <1>7 DEF Inv, TypeOK, CancelOK, ResumeCancelled
  <2>2. CASE pc[t] = "doomed"
    <3>1. PICK s \in WakeNext(waiters, [pc EXCEPT ![t] = "idle"]) : pc' = s.pc
      BY <1>7, <2>1, <2>2 DEF ResumeCancelled
    <3>2. pc'[t] = "idle" /\ \A u \in Tasks \ {t} : pc'[u] \in InAcquire <=> pc[u] \in InAcquire
      BY <2>2, <3>1, HandOverAcquire DEF OwnerState
    <3> QED
      BY <1>0, <1>7, <3>2, DeregisterLive DEF ResumeCancelled, InAcquire
  <2>3. CASE pc[t] = "dropped"
    <3>1. pc' = [pc EXCEPT ![t] = "idle"]
      BY <1>7, <2>1, <2>3 DEF ResumeCancelled
    <3> QED
      BY <1>0, <1>7, <3>1, DeregisterLive DEF ResumeCancelled, TypeOK, InAcquire
  <2> QED
    BY <1>7, <2>2, <2>3 DEF ResumeCancelled
<1> QED
  BY <1>1, <1>2, <1>3, <1>4, <1>5, <1>6, <1>7 DEF Step

\* So does reading an event, which finds it as the registries have it.
LEMMA NextRequests ==
    ASSUME Inv, RequestsAreLive, Cancellable \intersect Windows = {}, [Next]_vars
    PROVE  RequestsAreLive'
<1>1. CASE \E t \in Tasks : Step(t)
  BY <1>1, StepRequests
<1>2. CASE \E e \in Events : AskEvent(e)
  BY <1>2 DEF AskEvent, Inv, TypeOK, RequestsAreLive, Wanted
<1>3. CASE UNCHANGED vars
  BY <1>3 DEF vars, RequestsAreLive, Wanted
<1> QED
  BY <1>1, <1>2, <1>3 DEF Next

-----------------------------------------------------------------------------
(* The debts of a yield: inductive with Inv. *)

\* Only a window in line owes its turn to somebody, to tasks in line ahead of it;
\* only a window's place in line is at a tier that is not its own.
OwedOK ==
    /\ \A t \in Tasks \ Windows : tier[t] = Tier[t]
    /\ \A w \in Tasks : owed[w] # {} => w \in Windows /\ pc[w] = "waiting"
    /\ \A w \in Tasks : \A t \in owed[w] : pc[t] = "waiting" /\ tier[t] < tier[w]

\* Nothing new is owed, and whoever owes stays in line where it was.
LEMMA OwedKept ==
    ASSUME TypeOK, OwedOK, KeepOwed,
           \A v \in Tasks : pc[v] = "waiting" => tier'[v] = tier[v],
           \A v \in Tasks \ Windows : tier'[v] = Tier[v],
           \A v \in Tasks : owed[v] # {} => pc'[v] = "waiting"
    PROVE  OwedOK'
<1>1. ASSUME NEW w \in Tasks
      PROVE  owed'[w] = {t \in owed[w] : pc'[t] = "waiting"} /\ owed[w] \subseteq Tasks
  BY DEF KeepOwed, TypeOK
<1>2. \A w \in Tasks : owed'[w] # {} => w \in Windows /\ pc'[w] = "waiting"
  BY <1>1 DEF OwedOK
<1>3. ASSUME NEW w \in Tasks, NEW t \in owed'[w]
      PROVE  pc'[t] = "waiting" /\ tier'[t] < tier'[w]
  <2>1. t \in owed[w] /\ t \in Tasks /\ pc'[t] = "waiting"
    BY <1>1, <1>3
  <2>2. pc[t] = "waiting" /\ pc[w] = "waiting" /\ tier[t] < tier[w]
    BY <2>1 DEF OwedOK
  <2> QED
    BY <2>1, <2>2
<1> QED
  BY <1>2, <1>3 DEF OwedOK

\* Whoever still owes its turn is not the one that gets the lock.
LEMMA HandOverOwed ==
    ASSUME Inv, OwedOK, NEW t \in Tasks, pc[t] \in OwnerState,
           NEW s \in WakeNext(waiters, [pc EXCEPT ![t] = "idle"]),
           NEW v \in Tasks, owed[v] # {}
    PROVE  v # t /\ s.pc[v] = "waiting"
<1> DEFINE away == [pc EXCEPT ![t] = "idle"]
<1>1. PICK x \in owed[v] : x \in Tasks /\ pc[x] = "waiting" /\ tier[x] < tier[v]
  BY DEF OwedOK, Inv, TypeOK
<1>2. pc[v] = "waiting" /\ v # t /\ x # t
  BY <1>1 DEF OwedOK, OwnerState
<1>3. away[v] = "waiting" /\ away[x] = "waiting"
  BY <1>1, <1>2 DEF Inv, TypeOK
<1>4. WokeUp(s, waiters, away, tier)
  BY HandOver DEF Inv, TypeOK
<1>5. PICK u \in Tasks : /\ s.pc = [away EXCEPT ![u] = "granted"]
                         /\ \A y \in Tasks : away[y] = "waiting" => tier[u] <= tier[y]
  BY <1>3, <1>4 DEF WokeUp
<1>6. tier[u] <= tier[x] /\ tier[u] \in Nat /\ tier[x] \in Nat /\ tier[v] \in Nat
  BY <1>1, <1>3, <1>5 DEF Inv, TypeOK, Tiers
<1>7. u # v
  BY <1>1, <1>6
<1> QED
  BY <1>2, <1>3, <1>5, <1>7 DEF Inv, TypeOK

\* A window that yields owes its turn to the most urgent pre-emptors in line, and
\* joins the line half a step behind them.
LEMMA YieldOwed ==
    ASSUME Inv, OwedOK, NEW w \in Tasks, Yield(w)
    PROVE  OwedOK'
<1>1. pc[w] = "holding" /\ pc[w] \in OwnerState /\ w \in Windows
  BY DEF Yield, OwnerState
<1>0. TypeOK /\ owed[w] = {}
  BY <1>1 DEF Inv, OwedOK
<1>2. PICK k \in Tiers, s \in WakeNext(waiters, [pc EXCEPT ![w] = "idle"]) :
        /\ YieldTier(k)
        /\ IF s.locked
           THEN /\ tier' = [tier EXCEPT ![w] = k]
                /\ pc' = [s.pc EXCEPT ![w] = "waiting"]
                /\ owed' = [v \in Tasks |->
                    IF v = w
                    THEN {t \in preempters : /\ pc'[t] = "waiting"
                                             /\ \A u \in preempters : Tier[t] <= Tier[u]}
                    ELSE {t \in owed[v] : pc'[t] = "waiting"}]
           ELSE /\ pc' = [s.pc EXCEPT ![w] = "holding"]
                /\ KeepOwed
                /\ UNCHANGED tier
  BY DEF Yield
<1>3. s.pc \in [Tasks -> States]
  BY <1>1, HandOverInv
<1>4. \A v \in Tasks : owed[v] # {} => v # w /\ s.pc[v] = "waiting"
  BY <1>1, HandOverOwed
<1>5. CASE ~s.locked
  <2>1. \A v \in Tasks : owed[v] # {} => pc'[v] = "waiting"
    BY <1>2, <1>3, <1>4, <1>5
  <2> QED
    BY <1>0, <1>2, <1>5, <2>1, OwedKept DEF OwedOK
<1>6. CASE s.locked
  <2>1. ASSUME NEW t \in owed'[w]
        PROVE  pc'[t] = "waiting" /\ tier'[t] < tier'[w]
    <3>1. t \in preempters /\ pc'[t] = "waiting" /\ \A u \in preempters : Tier[t] <= Tier[u]
      BY <1>2, <1>6, <2>1
    <3>2. t \in Tasks \ Windows /\ t # w /\ tier'[t] = Tier[t]
      BY <1>0, <1>1, <1>2, <1>6, <3>1, KindAssumption DEF TypeOK, OwedOK
    <3>3. k = ResumeTier
      BY <1>2, <3>1 DEF YieldTier
    <3> DEFINE IsMost(j) == /\ \E u \in preempters : Tier[u] = j
                            /\ \A u \in preempters : j <= Tier[u]
    <3>4. Tier[t] \in Tiers /\ IsMost(Tier[t])
      BY <3>1, <3>2, TierAssumption
    <3>5. IsMost(CHOOSE j \in Tiers : IsMost(j)) /\ (CHOOSE j \in Tiers : IsMost(j)) \in Tiers
      BY <3>4
    <3>6. k = 1 + (CHOOSE j \in Tiers : IsMost(j))
      BY <3>1, <3>3 DEF ResumeTier
    <3>7. k > Tier[t]
      BY <3>1, <3>4, <3>5, <3>6 DEF Tiers
    <3>8. tier'[w] = k
      BY <1>0, <1>2, <1>6 DEF TypeOK
    <3> QED
      BY <3>1, <3>2, <3>4, <3>7, <3>8 DEF Tiers
  <2>2. ASSUME NEW v \in Tasks, v # w
        PROVE  /\ owed'[v] # {} => v \in Windows /\ pc'[v] = "waiting"
               /\ \A t \in owed'[v] : pc'[t] = "waiting" /\ tier'[t] < tier'[v]
    <3>1. owed'[v] = {t \in owed[v] : pc'[t] = "waiting"}
      BY <1>2, <1>6, <2>2
    <3>2. owed'[v] # {} => v \in Windows /\ pc'[v] = "waiting"
      BY <1>2, <1>3, <1>4, <1>6, <2>2, <3>1 DEF OwedOK
    <3>3. ASSUME NEW t \in owed'[v]
          PROVE  pc'[t] = "waiting" /\ tier'[t] < tier'[v]
      <4>1. t \in owed[v] /\ pc'[t] = "waiting" /\ pc[t] = "waiting" /\ tier[t] < tier[v]
        BY <3>1, <3>3 DEF OwedOK
      <4>2. t \in Tasks /\ t # w
        BY <1>0, <1>1, <4>1 DEF TypeOK
      <4>3. tier'[t] = tier[t] /\ tier'[v] = tier[v]
        BY <1>0, <1>2, <1>6, <2>2, <4>2 DEF TypeOK
      <4> QED
        BY <4>1, <4>3
    <3> QED
      BY <3>2, <3>3
  <2>3. \A t \in Tasks \ Windows : tier'[t] = Tier[t]
    BY <1>0, <1>1, <1>2, <1>6 DEF TypeOK, OwedOK
  <2>4. pc'[w] = "waiting"
    BY <1>2, <1>3, <1>6
  <2> QED
    BY <1>1, <2>1, <2>2, <2>3, <2>4 DEF OwedOK
<1> QED
  BY <1>5, <1>6

\* Every step keeps the debts.
LEMMA NextOwed ==
    ASSUME Inv, OwedOK, Cancellable \intersect Windows = {}, [Next]_vars
    PROVE  OwedOK'
<1>0. TypeOK
  BY DEF Inv
<1>1. ASSUME NEW t \in Tasks, Step(t)
      PROVE  OwedOK'
  <2>1. CASE AcquireFree(t)
    BY <1>0, <2>1, OwedKept DEF AcquireFree, OwedOK, TypeOK
  <2>2. CASE AcquireWait(t)
    <3>1. \A v \in Tasks : owed[v] # {} => pc'[v] = "waiting"
      BY <1>0, <2>2 DEF AcquireWait, OwedOK, TypeOK
    <3>2. /\ \A v \in Tasks : pc[v] = "waiting" => tier'[v] = tier[v]
          /\ \A v \in Tasks \ Windows : tier'[v] = Tier[v]
      BY <1>0, <2>2 DEF AcquireWait, OwedOK, TypeOK
    <3> QED
      BY <1>0, <2>2, <3>1, <3>2, OwedKept DEF AcquireWait
  <2>3. CASE Resume(t)
    BY <1>0, <2>3, OwedKept DEF Resume, OwedOK, TypeOK
  <2>4. CASE Release(t)
    <3>1. pc[t] \in OwnerState
      BY <2>4 DEF Release, OwnerState
    <3>2. \A v \in Tasks : owed[v] # {} => pc'[v] = "waiting"
      BY <2>4, <3>1, HandOverOwed DEF Release
    <3> QED
      BY <1>0, <2>4, <3>2, OwedKept DEF Release, OwedOK
  <2>5. CASE Yield(t)
    BY <2>5, YieldOwed
  <2>6. CASE Cancel(t)
    <3>1. owed[t] = {}
      BY <2>6 DEF Cancel, OwedOK
    <3> QED
      BY <1>0, <2>6, <3>1, OwedKept DEF Cancel, OwedOK, TypeOK
  <2>7. CASE ResumeCancelled(t)
    <3>1. t \notin resuming
      BY <2>7 DEF Inv, TypeOK, CancelOK, ResumeCancelled
    <3>2. ASSUME NEW v \in Tasks, owed[v] # {}
          PROVE  pc'[v] = "waiting"
      <4>1. v # t /\ pc[v] = "waiting"
        BY <2>7, <3>2 DEF ResumeCancelled, OwedOK
      <4>2. CASE pc[t] = "doomed"
        <5>1. PICK s \in WakeNext(waiters, [pc EXCEPT ![t] = "idle"]) : pc' = s.pc
          BY <2>7, <3>1, <4>2 DEF ResumeCancelled
        <5> QED
          BY <3>2, <4>2, <5>1, HandOverOwed DEF OwnerState
      <4>3. CASE pc[t] # "doomed"
        <5>1. pc' = [pc EXCEPT ![t] = "idle"]
          BY <2>7, <3>1, <4>3 DEF ResumeCancelled
        <5> QED
          BY <1>0, <4>1, <5>1 DEF TypeOK
      <4> QED
        BY <4>2, <4>3
    <3> QED
      BY <1>0, <2>7, <3>2, OwedKept DEF ResumeCancelled, OwedOK
  <2> QED
    BY <1>1, <2>1, <2>2, <2>3, <2>4, <2>5, <2>6, <2>7 DEF Step
<1>2. CASE \E e \in Events : AskEvent(e)
  BY <1>2 DEF AskEvent, OwedOK
<1>3. CASE UNCHANGED vars
  BY <1>3 DEF vars, OwedOK
<1> QED
  BY <1>1, <1>2, <1>3 DEF Next

-----------------------------------------------------------------------------
(* The refinement: what the mapping of Mutex says of each step. *)

\* The owner and the requests, as Mutex sees them.
Own == IF Owners = {} THEN NoTask ELSE CHOOSE t \in Owners : TRUE
Want == [t \in Tasks |-> IF pc[t] = "waiting" THEN tier[t] ELSE NoTier]

\* Who is in an owner's state is the owner.
LEMMA OwnIs ==
    ASSUME Inv
    PROVE  /\ \A t \in Tasks : pc[t] \in OwnerState => Own = t
           /\ (\A t \in Tasks : pc[t] \notin OwnerState) => Own = NoTask
           /\ Own = NoTask <=> ~locked
<1>1. ASSUME NEW t \in Tasks, pc[t] \in OwnerState
      PROVE  Own = t
  <2>1. t \in Owners /\ \A u \in Owners : u = t
    BY <1>1 DEF Inv, OwnerOK, Owners, OwnerState
  <2> QED
    BY <2>1 DEF Own
<1>2. (\A t \in Tasks : pc[t] \notin OwnerState) => Own = NoTask
  BY DEF Own, Owners, OwnerState
<1> QED
  BY <1>1, <1>2, NobodyAssumption DEF Inv, OwnerOK

\* Who waits, and at what tier.
LEMMA WantIs ==
    ASSUME Inv
    PROVE  \A t \in Tasks :
             /\ pc[t] = "waiting" => Want[t] = tier[t] /\ Want[t] # NoTier /\ Want[t] \in Nat
             /\ pc[t] # "waiting" => Want[t] = NoTier
BY NobodyAssumption DEF Want, Inv, TypeOK, Tiers

\* Handing the lock over drops the radio or passes it to a most urgent waiter.
LEMMA HandOverSimulates ==
    ASSUME Inv, Inv', NEW t \in Tasks, pc[t] \in OwnerState,
           NEW s \in WakeNext(waiters, [pc EXCEPT ![t] = "idle"]),
           pc' = s.pc, tier' = tier
    PROVE  Mutex!Next
<1> DEFINE away == [pc EXCEPT ![t] = "idle"]
<1>0. TypeOK /\ pc[t] # "waiting" /\ Own = t /\ Own # NoTask /\ Own \in Tasks
  BY OwnIs, NobodyAssumption DEF Inv, OwnerState
<1>1. WokeUp(s, waiters, away, tier)
  BY HandOver DEF Inv, TypeOK
<1>2. CASE s.pc = away /\ \A u \in Tasks : away[u] # "waiting"
  <2>1. \A u \in Tasks : pc[u] # "waiting" /\ pc'[u] # "waiting"
    BY <1>0, <1>2 DEF TypeOK
  <2>2. Want' = Want /\ \A u \in Tasks : Want[u] = NoTier
    BY <2>1 DEF Want
  <2>3. \A u \in Tasks : pc'[u] \notin OwnerState
    BY <1>0, <1>2 DEF Inv, OwnerOK, OwnerState, TypeOK
  <2>4. Own' = NoTask
    BY <2>3 DEF Own, Owners, OwnerState
  <2>5. Mutex!Drop
    BY <1>0, <2>2, <2>4 DEF Mutex!Drop, Mutex!Waiting, Own, Want
  <2> QED
    BY <2>5 DEF Mutex!Next
<1>3. ASSUME NEW u \in Tasks, away[u] = "waiting", s.pc = [away EXCEPT ![u] = "granted"],
             \A v \in Tasks : away[v] = "waiting" => tier[u] <= tier[v]
      PROVE  Mutex!Next
  <2>1. u # t /\ pc[u] = "waiting" /\ pc'[u] = "granted"
        /\ \A v \in Tasks \ {u} : pc'[v] = "waiting" <=> pc[v] = "waiting"
    BY <1>0, <1>3 DEF TypeOK
  <2>2. \A v \in Tasks : pc[v] = "waiting" => tier[u] <= tier[v]
    BY <1>0, <1>3 DEF TypeOK
  <2>3. Want' = [Want EXCEPT ![u] = NoTier]
    BY <2>1 DEF Want
  <2>4. Own' = u
    <3>1. u \in Owners' /\ \A v \in Owners' : v = u
      BY <2>1 DEF Inv, OwnerOK, Owners, OwnerState
    <3> QED
      BY <3>1 DEF Own
  <2>5. \A v \in Tasks : Want[v] # NoTier => Want[u] <= Want[v]
    BY <2>1, <2>2, WantIs
  <2>6. Want[u] # NoTier
    BY <2>1, WantIs
  <2>7. Mutex!MostUrgent(u)
    BY <2>5, <2>6 DEF Mutex!MostUrgent, Mutex!Waiting, Want
  <2>8. Mutex!Pass(u)
    BY <1>0, <2>3, <2>4, <2>7 DEF Mutex!Pass, Own, Want
  <2> QED
    BY <2>8 DEF Mutex!Next
<1> QED
  BY <1>1, <1>2, <1>3 DEF WokeUp

\* A step that moves no owner and no waiter is none of Mutex's.
LEMMA NothingMoves ==
    ASSUME tier' = tier,
           \A t \in Tasks : (pc'[t] \in OwnerState <=> pc[t] \in OwnerState)
                         /\ (pc'[t] = "waiting" <=> pc[t] = "waiting")
    PROVE  UNCHANGED Mutex!vars
<1>1. Owners' = Owners
  BY DEF Owners, OwnerState
<1> QED
  BY <1>1 DEF Mutex!vars

\* A window that yields lends the radio, or keeps it when nobody waits.
LEMMA YieldSimulates ==
    ASSUME Inv, Inv', NEW w \in Tasks, Yield(w)
    PROVE  Mutex!Next \/ UNCHANGED Mutex!vars
<1> DEFINE away == [pc EXCEPT ![w] = "idle"]
<1>0. TypeOK /\ TypeOK' /\ pc[w] = "holding" /\ Own = w /\ pc[w] \in OwnerState
  BY OwnIs DEF Inv, OwnerState, Yield
<1>1. PICK k \in Tiers, s \in WakeNext(waiters, away) :
        IF s.locked
        THEN tier' = [tier EXCEPT ![w] = k] /\ pc' = [s.pc EXCEPT ![w] = "waiting"]
        ELSE pc' = [s.pc EXCEPT ![w] = "holding"] /\ tier' = tier
  BY DEF Yield
<1>2. WokeUp(s, waiters, away, tier)
  BY <1>0, HandOver DEF Inv, TypeOK
<1>3. CASE s.locked = FALSE /\ s.pc = away
  <2>1. pc' = pc /\ tier' = tier
    BY <1>0, <1>1, <1>3 DEF TypeOK
  <2> QED
    BY <2>1, NothingMoves
<1>4. ASSUME s.locked = TRUE, NEW u \in Tasks, away[u] = "waiting",
             s.pc = [away EXCEPT ![u] = "granted"],
             \A v \in Tasks : away[v] = "waiting" => tier[u] <= tier[v]
      PROVE  Mutex!Next
  <2>1. /\ u # w /\ pc[u] = "waiting" /\ pc'[u] = "granted" /\ pc'[w] = "waiting"
        /\ \A v \in Tasks \ {u, w} : pc'[v] = pc[v]
        /\ tier'[w] = k /\ \A v \in Tasks \ {w} : tier'[v] = tier[v]
    BY <1>0, <1>1, <1>4 DEF TypeOK
  <2>2. \A v \in Tasks : pc[v] = "waiting" => tier[u] <= tier[v]
    BY <1>0, <1>4 DEF TypeOK
  <2>3. Want' = [Want EXCEPT ![u] = NoTier, ![w] = k]
    BY <2>1 DEF Want
  <2>4. Own' = u
    <3>1. u \in Owners' /\ \A v \in Owners' : v = u
      BY <2>1 DEF Inv, OwnerOK, Owners, OwnerState
    <3> QED
      BY <3>1 DEF Own
  <2>5. Want[u] # NoTier /\ \A v \in Tasks : Want[v] # NoTier => Want[u] <= Want[v]
    BY <2>1, <2>2, WantIs
  <2>6. Mutex!MostUrgent(u)
    BY <2>5 DEF Mutex!MostUrgent, Mutex!Waiting, Want
  <2>7. Mutex!Lend(u, k)
    BY <1>0, <2>1, <2>3, <2>4, <2>6 DEF Mutex!Lend, Own, Want
  <2> QED
    BY <2>7 DEF Mutex!Next
<1> QED
  BY <1>2, <1>3, <1>4 DEF WokeUp

\* Every step of a task is one of Mutex's, or none.
LEMMA StepSimulates ==
    ASSUME Inv, Inv', Cancellable \intersect Windows = {}, NEW t \in Tasks, Step(t)
    PROVE  Mutex!Next \/ UNCHANGED Mutex!vars
<1>0. TypeOK
  BY DEF Inv
<1>1. CASE AcquireFree(t)
  <2>1. \A u \in Tasks : pc[u] # "waiting" /\ pc[u] \notin OwnerState
    BY <1>1 DEF Inv, OwnerOK, AcquireFree
  <2>2. Own = NoTask /\ \A u \in Tasks : Want[u] = NoTier
    BY <2>1, OwnIs, WantIs
  <2>3. pc'[t] = "holding" /\ \A u \in Tasks : pc'[u] # "waiting"
    BY <1>0, <1>1, <2>1 DEF AcquireFree, TypeOK
  <2>4. Want' = Want
    BY <2>1, <2>3 DEF Want
  <2>5. Own' = t
    <3>1. t \in Owners' /\ \A v \in Owners' : v = t
      BY <2>3 DEF Inv, OwnerOK, Owners, OwnerState
    <3> QED
      BY <3>1 DEF Own
  <2>6. Mutex!Take(t)
    BY <2>2, <2>4, <2>5 DEF Mutex!Take, Mutex!Waiting, Own, Want
  <2> QED
    BY <2>6 DEF Mutex!Next
<1>2. CASE AcquireWait(t)
  <2>1. PICK o \in Tasks : pc[o] \in OwnerState
    BY <1>2 DEF AcquireWait, Inv, OwnerOK
  <2>2. o # t /\ pc[t] = "idle" /\ Own = o /\ Own \notin {NoTask, t}
    BY <1>2, <2>1, OwnIs, NobodyAssumption DEF AcquireWait, OwnerState
  <2>3. /\ pc' = [pc EXCEPT ![t] = "waiting"] /\ tier' = [tier EXCEPT ![t] = Tier[t]]
        /\ Tier[t] \in Tiers
    BY <1>2, TierAssumption DEF AcquireWait
  <2>4. Want[t] = NoTier /\ Want' = [Want EXCEPT ![t] = Tier[t]]
    BY <1>0, <2>2, <2>3 DEF Want, TypeOK
  <2>5. Owners' = Owners
    BY <1>0, <2>2, <2>3 DEF Owners, TypeOK
  <2>6. Mutex!Join(t, Tier[t])
    BY <2>2, <2>4, <2>5 DEF Mutex!Join, Own, Want
  <2> QED
    BY <2>3, <2>6 DEF Mutex!Next
<1>3. CASE Resume(t)
  BY <1>0, <1>3, NothingMoves DEF Resume, TypeOK, OwnerState
<1>4. CASE Release(t)
  <2>1. pc[t] \in OwnerState /\ tier' = tier
    BY <1>4 DEF Release, OwnerState
  <2>2. PICK s \in WakeNext(waiters, [pc EXCEPT ![t] = "idle"]) : pc' = s.pc
    BY <1>4 DEF Release
  <2> QED
    BY <2>1, <2>2, HandOverSimulates
<1>5. CASE Yield(t)
  BY <1>5, YieldSimulates
<1>6. CASE Cancel(t)
  <2>1. CASE pc[t] = "waiting"
    <3>1. pc' = [pc EXCEPT ![t] = "dropped"] /\ tier' = tier
      BY <1>6, <2>1 DEF Cancel
    <3>2. Want[t] # NoTier /\ Want' = [Want EXCEPT ![t] = NoTier]
      BY <1>0, <2>1, <3>1, WantIs DEF Want, TypeOK
    <3>3. Owners' = Owners
      BY <1>0, <2>1, <3>1 DEF Owners, TypeOK
    <3>4. Mutex!Leave(t)
      BY <3>2, <3>3 DEF Mutex!Leave, Own, Want
    <3> QED
      BY <3>4 DEF Mutex!Next
  <2>2. CASE pc[t] = "granted"
    BY <1>0, <1>6, <2>2, NothingMoves DEF Cancel, TypeOK, OwnerState
  <2> QED
    BY <1>6, <2>1, <2>2 DEF Cancel
<1>7. CASE ResumeCancelled(t)
  <2>1. t \notin resuming /\ tier' = tier
    BY <1>7 DEF Inv, TypeOK, CancelOK, ResumeCancelled
  <2>2. CASE pc[t] = "doomed"
    <3>1. PICK s \in WakeNext(waiters, [pc EXCEPT ![t] = "idle"]) : pc' = s.pc
      BY <1>7, <2>1, <2>2 DEF ResumeCancelled
    <3> QED
      BY <2>1, <2>2, <3>1, HandOverSimulates DEF OwnerState
  <2>3. CASE pc[t] = "dropped"
    <3>1. pc' = [pc EXCEPT ![t] = "idle"]
      BY <1>7, <2>1, <2>3 DEF ResumeCancelled
    <3> QED
      BY <1>0, <2>1, <2>3, <3>1, NothingMoves DEF TypeOK, OwnerState
  <2> QED
    BY <1>7, <2>2, <2>3 DEF ResumeCancelled
<1> QED
  BY <1>1, <1>2, <1>3, <1>4, <1>5, <1>6, <1>7 DEF Step

-----------------------------------------------------------------------------
(* The theorems. *)

\* The inductive invariant implies what the theorems state.
LEMMA InvImplies == Inv => TypeOK /\ MutualExclusion /\ NoLostWakeup
<1> SUFFICES ASSUME Inv
             PROVE  TypeOK /\ MutualExclusion /\ NoLostWakeup
  OBVIOUS
<1>1. MutualExclusion
  BY DEF Inv, OwnerOK, OwnerState, MutualExclusion, Owners
<1>2. NoLostWakeup
  BY DEF Inv, TypeOK, OwnerOK, OwnerState, NoLostWakeup, Owners
<1> QED
  BY <1>1, <1>2 DEF Inv

\* The invariant holds throughout: the argument all three results rest on.
THEOREM Invariance ==
    ASSUME Cancellable \intersect Windows = {}
    PROVE  Spec => []Inv
<1>1. Init => Inv
  BY InitInv
<1>2. Inv /\ [Next]_vars => Inv'
  BY NextInv
<1> QED
  BY <1>1, <1>2, PTL DEF Spec

\* The lock's state keeps its shape (_PriorityAsyncLock, _locks.py 61-81).
THEOREM TypeCorrect ==
    ASSUME Cancellable \intersect Windows = {}
    PROVE  Spec => []TypeOK
<1>1. Inv => TypeOK
  BY InvImplies
<1> QED
  BY <1>1, Invariance, PTL

\* Two exchanges never own the radio at once, however many tasks contend and at
\* whatever tiers, provided no raw window is cancelled (_locks.py 14-260).
THEOREM MutualExclusionHolds ==
    ASSUME Cancellable \intersect Windows = {}
    PROVE  Spec => []MutualExclusion
<1>1. Inv => MutualExclusion
  BY InvImplies
<1> QED
  BY <1>1, Invariance, PTL

\* The lock is never left taken with no owner, nor a waiter with no owner ahead
\* of it (_locks.py 187-209).
THEOREM NoLostWakeupHolds ==
    ASSUME Cancellable \intersect Windows = {}
    PROVE  Spec => []NoLostWakeup
<1>1. Inv => NoLostWakeup
  BY InvImplies
<1> QED
  BY <1>1, Invariance, PTL

\* What a holder is told of pre-emptors, handshakes and reports is true at every
\* moment: nobody it should yield to goes unseen, and it never yields to a task
\* that has given up (_preempt_add to _report_remove, _locks.py 96-160).
THEOREM RequestsAreLiveHolds ==
    ASSUME Cancellable \intersect Windows = {}
    PROVE  Spec => []RequestsAreLive
<1>1. Init => Inv /\ RequestsAreLive
  <2>1. Init => RequestsAreLive
    BY KindAssumption DEF Init, RequestsAreLive, Events, InAcquire
  <2> QED
    BY <2>1, InitInv
<1>2. (Inv /\ RequestsAreLive) /\ [Next]_vars => (Inv /\ RequestsAreLive)'
  BY NextInv, NextRequests
<1> QED
  BY <1>1, <1>2, PTL DEF Spec

\* A window that yielded gets the radio back only after every most urgent
\* pre-emptor it yielded to was served or gave up, however many others wait and
\* however often it yields (preempt_resume_priority, _locks.py 125-137).
THEOREM YieldServesPreemptorHolds ==
    ASSUME Cancellable \intersect Windows = {}
    PROVE  Spec => []YieldServesPreemptor
<1>1. Init => Inv /\ OwedOK
  <2>1. Init => OwedOK
    BY DEF Init, OwedOK
  <2> QED
    BY <2>1, InitInv
<1>2. (Inv /\ OwedOK) /\ [Next]_vars => (Inv /\ OwedOK)'
  BY NextInv, NextOwed
<1>3. OwedOK => YieldServesPreemptor
  BY KindAssumption DEF OwedOK, YieldServesPreemptor
<1> QED
  BY <1>1, <1>2, <1>3, PTL DEF Spec

\* The lock implements PriorityMutex: whatever is cancelled, granted ahead of its
\* task or yielded, the radio is taken, joined, left, dropped, passed and lent
\* only as the abstract mutex allows, always to a most urgent request.
THEOREM ImplementsMutexHolds ==
    ASSUME Cancellable \intersect Windows = {}
    PROVE  Spec => ImplementsMutex
<1>1. Init => Mutex!Init
  BY DEF Init, Mutex!Init, Owners
<1>2. Inv /\ Inv' /\ [Next]_vars => [Mutex!Next]_(Mutex!vars)
  <2> SUFFICES ASSUME Inv, Inv', [Next]_vars
               PROVE  Mutex!Next \/ UNCHANGED Mutex!vars
    OBVIOUS
  <2>1. CASE \E t \in Tasks : Step(t)
    BY <2>1, StepSimulates
  <2>2. CASE \E e \in Events : AskEvent(e)
    BY <2>2, NothingMoves DEF AskEvent
  <2>3. CASE UNCHANGED vars
    BY <2>3, NothingMoves DEF vars
  <2> QED
    BY <2>1, <2>2, <2>3 DEF Next
<1> QED
  BY <1>1, <1>2, Invariance, PTL DEF Spec, ImplementsMutex, Mutex!Spec
=============================================================================
