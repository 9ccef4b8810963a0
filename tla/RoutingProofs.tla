---------------------------- MODULE RoutingProofs ----------------------------
(***************************************************************************)
(* Proofs about Routing, for any packets, peers, limits and bounds: no     *)
(* packet is lost in silence, and one sent DIRECT alone is never flooded   *)
(* beside it.                                                              *)
(***************************************************************************)
EXTENDS Routing, TLAPS

\* The copy of p that is in flight, or was last.
Now(p) == <<p, offers[p]>>

Of(x) == {t \in tasks : t.copy = x}

\* Nothing is known of copies not yet taken in.
CopiesOK ==
    /\ \A t \in tasks : t.copy[2] <= offers[t.copy[1]]
    /\ \A a \in onAir : a.copy[2] <= offers[a.copy[1]]
    /\ \A x \in alone : x[2] <= offers[x[1]]

\* A copy that is not dispatched yet has one task and has not been sent.
NewOK ==
    \A t \in tasks : t.kind \in {"queued", "later"} =>
        Of(t.copy) = {t} /\ ~Direct(t.copy) /\ ~Channel(t.copy) /\ t.copy \notin alone

\* Of a copy sent DIRECT alone: what it puts on the air DIRECT it reports; a
\* primary send and a flood are its only task, and come before anything is
\* sent; once it is flooded nothing but later passes is left.
AloneOK ==
    \A x \in alone :
        /\ Direct(x) => x \in reached
        /\ Channel(x) => ~Direct(x) /\ \A t \in Of(x) : t.kind = "again"
        /\ \A t \in Of(x) :
            /\ t.kind \in {"primary", "flood"} => Of(x) = {t} /\ ~Direct(x)
            /\ t.kind = "watch" => \A r \in Of(x) : r = t \/ r.kind = "copy"
            /\ t.kind = "again" => ~Direct(x) /\ \A r \in Of(x) : r.kind = "again"

\* A copy in flight was sent, or was not for a reason, or has a task that will
\* see to one or the other.
Settled(x) == Direct(x) \/ Channel(x) \/ Excused(x)
Carriers == {"queued", "later", "primary", "watch", "flood"}

CarriedOK ==
    \A p \in inflight : Settled(Now(p)) \/ \E t \in Of(Now(p)) : t.kind \in Carriers

\* A copy reported as sent was sent, or not for a reason.
ReachedOK == \A x \in reached : Settled(x)

\* A destination is in back-off only for bootstrap sends it did not answer.
BackoffOK ==
    \A d \in Dests :
        /\ attempts[d] <= unproved[d]
        /\ d \in backoff => unproved[d] >= Threshold

CoreOK == CopiesOK /\ NewOK /\ AloneOK /\ CarriedOK /\ ReachedOK

Inv == TypeOK /\ CoreOK /\ BackoffOK

-----------------------------------------------------------------------------
(* What the steps do to tasks and to what is on the air. *)

core == <<tasks, inflight, offers, onAir, reached, alone, excused>>

\* A step that touches none of it.
LEMMA CoreSame ==
    ASSUME CoreOK, UNCHANGED core
    PROVE  CoreOK'
  <1>1. CopiesOK' /\ ReachedOK'
    BY DEF core, CoreOK, CopiesOK, ReachedOK, Settled, Direct, Channel, Excused
  <1>2. NewOK'
    BY DEF core, CoreOK, NewOK, Of, Direct, Channel
  <1>3. AloneOK'
    <2>1. \A x : Of(x)' = Of(x) /\ (Direct(x)' <=> Direct(x)) /\ (Channel(x)' <=> Channel(x))
      BY DEF core, Of, Direct, Channel
    <2> QED
      BY <2>1 DEF core, CoreOK, AloneOK
  <1>4. CarriedOK'
    BY DEF core, CoreOK, CarriedOK, Now, Of, Settled, Direct, Channel, Excused
  <1> QED
    BY <1>1, <1>2, <1>3, <1>4 DEF CoreOK

\* A task ends that nobody relies on, or whose copy is accounted for.
LEMMA Ended ==
    ASSUME TypeOK, CoreOK, NEW t \in tasks, Ends(t),
           UNCHANGED <<offers, inflight, onAir, reached, alone>>, excused \subseteq excused',
           t.kind \in {"copy", "again"} \/ Excused(t.copy)' \/ t.copy \in reached
    PROVE  CoreOK'
  <1>1. CopiesOK'
    BY DEF Ends, CoreOK, CopiesOK
  <1>2. NewOK'
    BY DEF Ends, CoreOK, NewOK, Of, Direct, Channel
  <1>3. AloneOK'
    <2>1. \A x : Of(x)' = Of(x) \ {t} /\ (Direct(x)' <=> Direct(x)) /\ (Channel(x)' <=> Channel(x))
      BY DEF Ends, Of, Direct, Channel
    <2> QED
      BY <2>1 DEF CoreOK, AloneOK
  <1>4. ReachedOK'
    BY DEF CoreOK, ReachedOK, Settled, Direct, Channel, Excused
  <1>5. ASSUME NEW p \in inflight, ~Settled(Now(p))'
        PROVE  \E r \in Of(Now(p))' : r.kind \in Carriers
    <2>1. ~Settled(Now(p)) /\ Now(p) = Now(p)'
      BY <1>5 DEF Settled, Direct, Channel, Excused, Now
    <2>2. PICK r \in Of(Now(p)) : r.kind \in Carriers
      BY <2>1 DEF CoreOK, CarriedOK
    <2>3. r # t
      BY <1>5, <2>1, <2>2, <1>4 DEF Of, Carriers, Settled, CoreOK, ReachedOK
    <2> QED
      BY <2>1, <2>2, <2>3 DEF Of, Ends
  <1>6. CarriedOK'
    BY <1>5 DEF CarriedOK
  <1> QED
    BY <1>1, <1>2, <1>3, <1>4, <1>6 DEF CoreOK

\* A task goes on as another.
LEMMA Replaced ==
    ASSUME TypeOK, CoreOK, NEW t \in tasks, NEW u, u.copy = t.copy,
           tasks' = (tasks \ {t}) \union {u},
           UNCHANGED <<offers, inflight, onAir, reached, alone, excused>>,
           \/ t.kind \in {"copy", "primary"} /\ u.kind = t.kind
           \/ t.kind = "queued" /\ u.kind = "later"
           \/ t.kind = "primary" /\ u.kind = "flood"
           \/ /\ t.kind = "watch" /\ u.kind = "flood"
              /\ t.copy \notin reached /\ \A r \in Of(t.copy) : r.kind # "copy"
    PROVE  CoreOK'
  <1>1. CopiesOK'
    BY DEF CoreOK, CopiesOK
  <1>2. NewOK'
    BY DEF CoreOK, NewOK, Of, Direct, Channel
  <1>3. AloneOK'
    <2> SUFFICES ASSUME NEW x \in alone
                 PROVE  /\ Direct(x) => x \in reached
                        /\ Channel(x) => ~Direct(x) /\ \A r \in Of(x)' : r.kind = "again"
                        /\ \A r \in Of(x)' :
                            /\ r.kind \in {"primary", "flood"} => Of(x)' = {r} /\ ~Direct(x)
                            /\ r.kind = "watch" => \A q \in Of(x)' : q = r \/ q.kind = "copy"
                            /\ r.kind = "again" => ~Direct(x) /\ \A q \in Of(x)' : q.kind = "again"
      BY DEF AloneOK, Direct, Channel
    <2>1. /\ Direct(x) => x \in reached
          /\ Channel(x) => ~Direct(x) /\ \A r \in Of(x) : r.kind = "again"
          /\ \A r \in Of(x) :
              /\ r.kind \in {"primary", "flood"} => Of(x) = {r} /\ ~Direct(x)
              /\ r.kind = "watch" => \A q \in Of(x) : q = r \/ q.kind = "copy"
              /\ r.kind = "again" => ~Direct(x) /\ \A q \in Of(x) : q.kind = "again"
      BY DEF CoreOK, AloneOK
    <2>2. CASE x # t.copy
      <3>1. Of(x)' = Of(x)
        BY <2>2 DEF Of
      <3> QED
        BY <2>1, <3>1
    <2>3. CASE x = t.copy
      <3>1. Of(x)' = (Of(x) \ {t}) \union {u} /\ t \in Of(x)
        BY <2>3 DEF Of
      <3>2. t.kind # "queued"
        BY <2>3 DEF CoreOK, NewOK
      <3>3. CASE t.kind = "primary"
        BY <2>1, <3>1, <3>3
      <3>4. CASE t.kind = "copy"
        BY <2>1, <3>1, <3>4
      <3>5. CASE t.kind = "watch"
        <4>1. Of(x) = {t}
          BY <2>1, <2>3, <3>1, <3>5
        <4> QED
          BY <2>1, <2>3, <3>1, <3>5, <4>1
      <3> QED
        BY <3>2, <3>3, <3>4, <3>5
    <2> QED
      BY <2>2, <2>3
  <1>4. ReachedOK'
    BY DEF CoreOK, ReachedOK, Settled, Direct, Channel, Excused
  <1>5. CarriedOK'
    BY DEF CoreOK, CarriedOK, Carriers, Now, Of, Settled, Direct, Channel, Excused
  <1> QED
    BY <1>1, <1>2, <1>3, <1>4, <1>5 DEF CoreOK

\* A packet is dispatched.
LEMMA Spawned ==
    ASSUME TypeOK, CoreOK, NEW t \in tasks, t.kind \in {"queued", "later"}, NEW s, Spawn(t, s),
           UNCHANGED <<offers, inflight, excused>>,
           \A r \in s : r.copy = t.copy,
           \/ \E u : s = {u} /\ u.kind = "primary"
           \/ \E u \in s : u.kind = "watch" /\ \A r \in s : r = u \/ r.kind = "copy"
           \/ \E u \in s : u.kind = "flood" /\ \A r \in s : r = u \/ r.kind = "copy"
    PROVE  CoreOK'
  <1>1. /\ Of(t.copy) = {t} /\ ~Direct(t.copy) /\ ~Channel(t.copy) /\ t.copy \notin alone
        /\ Of(t.copy)' = s
    BY DEF CoreOK, NewOK, Of, Spawn
  <1>2. \A x : x # t.copy => Of(x)' = Of(x)
    BY DEF Of, Spawn
  <1>3. \A x : (Direct(x)' <=> Direct(x)) /\ (Channel(x)' <=> Channel(x))
    BY DEF Direct, Channel, Spawn
  <1>4. CopiesOK'
    BY DEF CoreOK, CopiesOK, Spawn
  <1>5. NewOK'
    BY <1>2, <1>3 DEF CoreOK, NewOK, Spawn
  <1>6. AloneOK'
    <2>1. CASE \E u \in s : u.kind = "flood"
      BY <1>1, <1>2, <1>3, <2>1 DEF CoreOK, AloneOK, Spawn
    <2>2. CASE \E u : s = {u} /\ u.kind = "primary"
      BY <1>1, <1>2, <1>3, <2>2 DEF CoreOK, AloneOK, Spawn
    <2>3. CASE \E u \in s : u.kind = "watch" /\ \A r \in s : r = u \/ r.kind = "copy"
      BY <1>1, <1>2, <1>3, <2>3 DEF CoreOK, AloneOK, Spawn
    <2> QED
      BY <2>1, <2>2, <2>3
  <1>7. ReachedOK'
    BY <1>3 DEF CoreOK, ReachedOK, Settled, Excused, Spawn
  <1>8. CarriedOK'
    <2> SUFFICES ASSUME NEW p \in inflight
                 PROVE  Settled(Now(p))' \/ \E r \in Of(Now(p))' : r.kind \in Carriers
      BY DEF CarriedOK
    <2>1. Now(p)' = Now(p) /\ (Settled(Now(p))' <=> Settled(Now(p)))
      BY <1>3 DEF Now, Settled, Excused
    <2>2. CASE Now(p) = t.copy
      BY <1>1, <2>1, <2>2 DEF Carriers
    <2>3. CASE Now(p) # t.copy
      BY <1>2, <2>1, <2>3 DEF CoreOK, CarriedOK
    <2> QED
      BY <2>2, <2>3
  <1> QED
    BY <1>4, <1>5, <1>6, <1>7, <1>8 DEF CoreOK

\* A DIRECT task is over: its frame is on the air, or was given up.
LEMMA SentOK ==
    ASSUME TypeOK, CoreOK, NEW t \in tasks, SendDirect(t) \/ NotSent(t)
    PROVE  CoreOK'
  <1> DEFINE x == t.copy
  <1>1. /\ t.kind \in {"copy", "primary"} /\ t \in Of(x)
        /\ reached' = reached \union {x} /\ tasks' = tasks \ {t}
        /\ UNCHANGED <<offers, inflight, alone>>
    BY DEF SendDirect, NotSent, Ends, Kept, world, Of
  <1>2. \A y : Of(y)' = Of(y) \ {t}
    BY <1>1 DEF Of
  <1>3. /\ \A y : Channel(y)' <=> Channel(y)
        /\ \A y : y # x => (Direct(y)' <=> Direct(y))
        /\ Direct(x) => Direct(x)'
        /\ \A y : Excused(y) => Excused(y)'
        /\ Direct(x)' \/ Excused(x)'
    BY DEF SendDirect, NotSent, Excuse, Direct, Channel, Excused, Reasons
  <1>4. CopiesOK'
    <2>1. x[2] <= offers[x[1]]
      BY DEF CoreOK, CopiesOK
    <2>2. \A a \in onAir' : a \in onAir \/ a.copy = x
      <3>1. CASE SendDirect(t)
        BY <3>1 DEF SendDirect
      <3>2. CASE NotSent(t)
        BY <3>2 DEF NotSent
      <3> QED
        BY <3>1, <3>2
    <2> QED
      BY <1>1, <2>1, <2>2 DEF CoreOK, CopiesOK
  <1>5. NewOK'
    BY <1>1, <1>2, <1>3 DEF CoreOK, NewOK, Of
  <1>6. AloneOK'
    <2> SUFFICES ASSUME NEW y \in alone
                 PROVE  /\ Direct(y)' => y \in reached'
                        /\ Channel(y) => ~Direct(y)' /\ \A r \in Of(y)' : r.kind = "again"
                        /\ \A r \in Of(y)' :
                            /\ r.kind \in {"primary", "flood"} => Of(y)' = {r} /\ ~Direct(y)'
                            /\ r.kind = "watch" => \A q \in Of(y)' : q = r \/ q.kind = "copy"
                            /\ r.kind = "again" => ~Direct(y)' /\ \A q \in Of(y)' : q.kind = "again"
      BY <1>1, <1>3 DEF AloneOK
    <2>1. CASE y # x
      BY <1>1, <1>2, <1>3, <2>1 DEF CoreOK, AloneOK, Of
    <2>2. CASE y = x
      <3>1. /\ ~Channel(x)
            /\ \A r \in Of(x) : r.kind # "again" /\ (r.kind \in {"primary", "flood"} => r = t)
            /\ \A r \in Of(x) : r.kind = "watch" => \A q \in Of(x) : q = r \/ q.kind = "copy"
        BY <1>1, <2>2 DEF CoreOK, AloneOK
      <3> QED
        BY <1>1, <1>2, <2>2, <3>1
    <2> QED
      BY <2>1, <2>2
  <1>7. ReachedOK'
    BY <1>1, <1>3 DEF CoreOK, ReachedOK, Settled
  <1>8. CarriedOK'
    <2> SUFFICES ASSUME NEW p \in inflight
                 PROVE  Settled(Now(p))' \/ \E r \in Of(Now(p))' : r.kind \in Carriers
      BY <1>1 DEF CarriedOK
    <2>1. Now(p)' = Now(p)
      BY <1>1 DEF Now
    <2>2. CASE Now(p) = x
      BY <1>3, <2>1, <2>2 DEF Settled
    <2>3. CASE Now(p) # x
      BY <1>2, <1>3, <2>1, <2>3 DEF CoreOK, CarriedOK, Settled, Of
    <2> QED
      BY <2>2, <2>3
  <1> QED
    BY <1>4, <1>5, <1>6, <1>7, <1>8 DEF CoreOK

\* A pass of a flood: the first, with its later ones behind it, or a later one.
LEMMA PassOK ==
    ASSUME TypeOK, CoreOK, NEW t \in tasks, NEW s, Pass(t), tasks' = (tasks \ {t}) \union s,
           t.kind \in {"flood", "again"}, \A r \in s : r.copy = t.copy /\ r.kind = "again",
           UNCHANGED <<offers, inflight, reached, alone>>
    PROVE  CoreOK'
  <1> DEFINE x == t.copy
  <1>1. /\ Of(x)' = (Of(x) \ {t}) \union s /\ t \in Of(x)
        /\ \A y : y # x => Of(y)' = Of(y)
    BY DEF Of
  <1>2. /\ \A y : Direct(y)' <=> Direct(y)
        /\ \A y : y # x => (Channel(y)' <=> Channel(y))
        /\ Channel(x) => Channel(x)'
        /\ \A y : Excused(y) => Excused(y)'
        /\ Channel(x)' \/ Excused(x)'
    <2>1. CASE online
      BY <2>1 DEF Pass, Direct, Channel, Excused
    <2>2. CASE ~online
      BY <2>2 DEF Pass, Excuse, Direct, Channel, Excused, Reasons
    <2> QED
      BY <2>1, <2>2
  <1>3. CopiesOK'
    <2>1. x[2] <= offers[x[1]]
      BY DEF CoreOK, CopiesOK
    <2>2. \A a \in onAir' : a \in onAir \/ a.copy = x
      BY DEF Pass
    <2> QED
      BY <2>1, <2>2 DEF CoreOK, CopiesOK
  <1>4. NewOK'
    <2> SUFFICES ASSUME NEW r \in tasks', r.kind \in {"queued", "later"}
                 PROVE  Of(r.copy)' = {r} /\ ~Direct(r.copy)' /\ ~Channel(r.copy)' /\ r.copy \notin alone'
      BY DEF NewOK
    <2>1. r \in tasks /\ r.copy # x
      BY DEF CoreOK, NewOK, Of
    <2> QED
      BY <1>1, <1>2, <2>1 DEF CoreOK, NewOK
  <1>5. AloneOK'
    <2>1. ASSUME x \in alone
          PROVE  ~Direct(x) /\ \A r \in Of(x)' : r.kind = "again"
      BY <1>1, <2>1 DEF CoreOK, AloneOK
    <2> QED
      BY <1>1, <1>2, <2>1 DEF CoreOK, AloneOK
  <1>6. ReachedOK'
    BY <1>2 DEF CoreOK, ReachedOK, Settled
  <1>7. CarriedOK'
    <2> SUFFICES ASSUME NEW p \in inflight
                 PROVE  Settled(Now(p))' \/ \E r \in Of(Now(p))' : r.kind \in Carriers
      BY DEF CarriedOK
    <2>1. Now(p)' = Now(p)
      BY DEF Now
    <2>2. CASE Now(p) = x
      BY <1>2, <2>1, <2>2 DEF Settled
    <2>3. CASE Now(p) # x
      BY <1>1, <1>2, <2>1, <2>3 DEF CoreOK, CarriedOK, Settled
    <2> QED
      BY <2>2, <2>3
  <1> QED
    BY <1>3, <1>4, <1>5, <1>6, <1>7 DEF CoreOK

\* A packet is taken in.
LEMMA OfferOK ==
    ASSUME TypeOK, CoreOK, NEW p \in Packets, Offer(p)
    PROVE  CoreOK'
  <1> DEFINE x == <<p, offers[p] + 1>>
             u == Task(x, "queued", None)
  <1>1. /\ tasks' = tasks \union {u} /\ u.copy = x /\ u.kind = "queued"
        /\ UNCHANGED <<onAir, alone, excused, reached>>
    BY DEF Offer, history, Task
  <1>2. /\ inflight' = inflight \union {p} /\ offers' = [offers EXCEPT ![p] = @ + 1]
        /\ offers \in [Packets -> Nat]
    BY DEF Offer, TypeOK
  <1>3. \A y : (Direct(y)' <=> Direct(y)) /\ (Channel(y)' <=> Channel(y)) /\ (Excused(y)' <=> Excused(y))
    BY <1>1 DEF Direct, Channel, Excused
  <1>4. Of(x) = {} /\ ~Direct(x) /\ ~Channel(x) /\ x \notin alone
    BY <1>2 DEF CoreOK, CopiesOK, Of, Direct, Channel
  <1>5. \A y : Of(y)' = IF y = x THEN {u} ELSE Of(y)
    BY <1>1, <1>4 DEF Of
  <1>6. CopiesOK'
    <2>1. \A y \in Copies : y[2] <= offers[y[1]] => y[2] <= offers'[y[1]]
      BY <1>2 DEF Copies
    <2>2. x[2] <= offers'[x[1]]
      BY <1>2
    <2> QED
      BY <1>1, <2>1, <2>2 DEF CoreOK, CopiesOK, TypeOK
  <1>7. NewOK'
    BY <1>1, <1>3, <1>4, <1>5 DEF CoreOK, NewOK, Of
  <1>8. AloneOK'
    BY <1>1, <1>3, <1>4, <1>5 DEF CoreOK, AloneOK
  <1>9. ReachedOK'
    BY <1>1, <1>3 DEF CoreOK, ReachedOK, Settled
  <1>10. CarriedOK'
    <2> SUFFICES ASSUME NEW q \in inflight'
                 PROVE  Settled(Now(q))' \/ \E r \in Of(Now(q))' : r.kind \in Carriers
      BY DEF CarriedOK
    <2>1. CASE q = p
      BY <1>1, <1>2, <1>5, <2>1 DEF Now, Carriers
    <2>2. CASE q # p
      <3>1. Now(q)' = Now(q) /\ Now(q) # x /\ q \in inflight
        BY <1>2, <2>2 DEF Now, TypeOK
      <3> QED
        BY <1>3, <1>5, <3>1 DEF CoreOK, CarriedOK, Settled
    <2> QED
      BY <2>1, <2>2
  <1> QED
    BY <1>6, <1>7, <1>8, <1>9, <1>10 DEF CoreOK

\* A packet's bytes are released, and what was known of the copy forgotten.
LEMMA ReleasedOK ==
    ASSUME TypeOK, CoreOK, NEW p \in Packets, Released(p)
    PROVE  CoreOK'
  <1>0. PICK x : x = Now(p)
    OBVIOUS
  <1>1. /\ UNCHANGED <<tasks, offers>> /\ inflight' = inflight \ {p}
        /\ reached' = reached \ {x} /\ alone' = alone \ {x}
        /\ onAir' = {a \in onAir : a.copy # x} /\ excused' = {e \in excused : e.copy # x}
    BY <1>0 DEF Released, Forget, world, Now
  <1>2. /\ \A y : y # x => (Direct(y)' <=> Direct(y)) /\ (Channel(y)' <=> Channel(y))
                           /\ (Excused(y)' <=> Excused(y))
        /\ ~Direct(x)' /\ ~Channel(x)'
    <2>1. /\ \A a : a \in onAir' <=> a \in onAir /\ a.copy # x
          /\ \A y, over : [copy |-> y, over |-> over].copy = y
      BY <1>1
    <2>2. ASSUME NEW y, y # x
          PROVE  Excused(y)' <=> Excused(y)
      BY <1>1, <2>2 DEF Excused
    <2>3. ASSUME NEW y
          PROVE  /\ Direct(y)' <=> Direct(y) /\ y # x
                 /\ Channel(y)' <=> Channel(y) /\ y # x
      BY <2>1 DEF Direct, Channel
    <2> QED
      BY <2>2, <2>3
  <1>3. \A y : Of(y)' = Of(y)
    BY <1>1 DEF Of
  <1>4. CopiesOK'
    BY <1>1 DEF CoreOK, CopiesOK
  <1>5. NewOK'
    <2> SUFFICES ASSUME NEW t \in tasks, t.kind \in {"queued", "later"}
                 PROVE  Of(t.copy)' = {t} /\ ~Direct(t.copy)' /\ ~Channel(t.copy)' /\ t.copy \notin alone'
      BY <1>1 DEF NewOK
    <2>1. Of(t.copy) = {t} /\ ~Direct(t.copy) /\ ~Channel(t.copy) /\ t.copy \notin alone
      BY DEF CoreOK, NewOK
    <2>2. CASE t.copy = x
      BY <1>1, <1>2, <1>3, <2>1, <2>2
    <2>3. CASE t.copy # x
      BY <1>1, <1>2, <1>3, <2>1, <2>3
    <2> QED
      BY <2>2, <2>3
  <1>6. AloneOK'
    BY <1>1, <1>2, <1>3 DEF CoreOK, AloneOK
  <1>7. ReachedOK'
    BY <1>1, <1>2 DEF CoreOK, ReachedOK, Settled
  <1>8. CarriedOK'
    <2> SUFFICES ASSUME NEW q \in inflight, q # p
                 PROVE  Settled(Now(q))' \/ \E r \in Of(Now(q))' : r.kind \in Carriers
      BY <1>1 DEF CarriedOK
    <2>1. Now(q)' = Now(q) /\ Now(q) # x
      BY <1>0, <1>1 DEF Now
    <2> QED
      BY <1>2, <1>3, <2>1 DEF CoreOK, CarriedOK, Settled
  <1> QED
    BY <1>4, <1>5, <1>6, <1>7, <1>8 DEF CoreOK

-----------------------------------------------------------------------------
(* The actions. *)

LEMMA DecideOK ==
    ASSUME TypeOK, CoreOK, BackoffOK, NEW t \in tasks, Decide(t)
    PROVE  CoreOK'
  <1>1. ASSUME NEW why \in Reasons, Drop(t, why), UNCHANGED <<world, inflight>>
        PROVE  CoreOK'
    <2>1. Excused(t.copy)' /\ excused \subseteq excused'
      BY <1>1 DEF Drop, Excuse, Excused
    <2> QED
      BY <1>1, <2>1, Ended DEF Drop, Ends, world
  <1>2. ASSUME LinkClosed(t) \/ ExpiredInQueue(t) \/ DelayInVain(t) \/ Repeated(t) \/ AnsweredLocally(t)
        PROVE  CoreOK'
    <2>1. \E why \in Reasons : Drop(t, why) /\ UNCHANGED <<world, inflight>>
      BY <1>2 DEF LinkClosed, ExpiredInQueue, DelayInVain, Repeated, AnsweredLocally, Reasons
    <2> QED
      BY <1>1, <2>1
  <1>3. CASE Delay(t)
    <2>1. Task(t.copy, "later", None).copy = t.copy /\ Task(t.copy, "later", None).kind = "later"
      BY DEF Task
    <2> QED
      BY <1>3, <2>1, Replaced DEF Delay, world, history
  <1>4. ASSUME NEW s, Spawn(t, s), UNCHANGED <<world, inflight, excused>>, Ready(t),
               \/ s = ToAll(t.copy)
               \/ \E peers, discover : s = WithFlood(t.copy, peers, discover)
               \/ \E peer : s = {Task(t.copy, "primary", peer)}
        PROVE  CoreOK'
    <2>1. t.kind \in {"queued", "later"}
      BY <1>4 DEF Ready
    <2>2. \A kind, to : Task(t.copy, kind, to).copy = t.copy /\ Task(t.copy, kind, to).kind = kind
      BY DEF Task
    <2>3. CASE s = ToAll(t.copy)
      <3>1. Task(t.copy, "watch", None) \in s
        BY <2>3 DEF ToAll
      <3>2. \A r \in s : r = Task(t.copy, "watch", None) \/ \E to : r = Task(t.copy, "copy", to)
        BY <2>3 DEF ToAll
      <3> QED
        BY <1>4, <2>1, <2>2, <3>1, <3>2, Spawned DEF world
    <2>4. ASSUME NEW peers, NEW discover, s = WithFlood(t.copy, peers, discover)
          PROVE  CoreOK'
      <3>1. Task(t.copy, "flood", None) \in s
        BY <2>4 DEF WithFlood
      <3>2. ASSUME NEW r \in s, r # Task(t.copy, "flood", None)
            PROVE  r.copy = t.copy /\ r.kind = "copy"
        BY <2>4, <3>2 DEF WithFlood, Task
      <3> QED
        BY <1>4, <2>1, <2>2, <3>1, <3>2, Spawned DEF world
    <2>5. ASSUME NEW peer, s = {Task(t.copy, "primary", peer)}
          PROVE  CoreOK'
      BY <1>4, <2>1, <2>2, <2>5, Spawned DEF world
    <2> QED
      BY <1>4, <2>3, <2>4, <2>5
  <1>5. CASE DispatchFirst(t)
    <2>1. Ready(t) /\ UNCHANGED <<world, inflight, excused>>
      BY <1>5 DEF DispatchFirst
    <2>2. \/ Spawn(t, ToAll(t.copy))
          \/ \E peers : Spawn(t, WithFlood(t.copy, peers, FALSE))
      BY <1>5 DEF DispatchFirst
    <2> QED
      BY <1>4, <2>1, <2>2
  <1>6. CASE DispatchKnown(t)
    BY <1>4, <1>6 DEF DispatchKnown
  <1>7. CASE DispatchUnknown(t)
    <2>1. Ready(t) /\ UNCHANGED <<world, inflight, excused>>
      BY <1>7 DEF DispatchUnknown
    <2>2. \/ Spawn(t, ToAll(t.copy))
          \/ \E peers : Spawn(t, WithFlood(t.copy, peers, TRUE))
      BY <1>7 DEF DispatchUnknown
    <2> QED
      BY <1>4, <2>1, <2>2
  <1>8. CASE Refuse(t)
    <2>1. t.copy[1] \in Packets
      BY DEF TypeOK, Copies
    <2>2. unproved[Dest[t.copy[1]]] >= Threshold
      BY <1>8, <2>1 DEF Refuse, BackoffOK, Dests
    <2>3. Excused(t.copy)' /\ excused \subseteq excused'
      BY <1>8, <2>2 DEF Refuse, Excuse, Excused, Reasons
    <2> QED
      BY <1>8, <2>3, Ended DEF Refuse, Ends, world
  <1> QED
    BY <1>2, <1>3, <1>5, <1>6, <1>7, <1>8 DEF Decide

LEMMA CarryOK ==
    ASSUME TypeOK, CoreOK, NEW t \in tasks, Carry(t)
    PROVE  CoreOK'
  <1>1. \A kind : Task(t.copy, kind, None).copy = t.copy /\ Task(t.copy, kind, None).kind = kind
    BY DEF Task
  <1>2. CASE FindPath(t)
    <2>1. [t EXCEPT !.sending = TRUE].copy = t.copy /\ [t EXCEPT !.sending = TRUE].kind = t.kind
      BY DEF TypeOK
    <2> QED
      BY <1>2, <2>1, Replaced DEF FindPath, Kept, world, history
  <1>3. ASSUME NoPath(t) \/ NoContact(t)
        PROVE  CoreOK'
    <2>1. GiveUpDirect(t) /\ t.kind \in {"copy", "primary"}
      BY <1>3 DEF NoPath, NoContact
    <2>2. UNCHANGED <<offers, inflight, onAir, reached, alone, excused>>
      BY <2>1 DEF GiveUpDirect, Kept, world, history
    <2>3. CASE t.kind = "copy"
      BY <2>1, <2>2, <2>3, Ended DEF GiveUpDirect
    <2>4. CASE t.kind = "primary"
      BY <1>1, <2>1, <2>2, <2>4, Replaced DEF GiveUpDirect, Becomes
    <2> QED
      BY <2>1, <2>3, <2>4
  <1>4. CASE CopyTooLate(t)
    <2>1. /\ Ends(t) /\ UNCHANGED <<offers, inflight, onAir, reached, alone>>
          /\ excused \subseteq excused' /\ t.kind = "copy"
      BY <1>4 DEF CopyTooLate, Kept, world, Excuse
    <2> QED
      BY <2>1, Ended
  <1>5. CASE SendDirect(t) \/ NotSent(t)
    BY <1>5, SentOK
  <1>6. CASE Watch(t)
    <2>1. UNCHANGED <<offers, inflight, onAir, reached, alone>>
      BY <1>6 DEF Watch, Kept, world
    <2>2. CASE t.copy \in reached /\ Ends(t) /\ UNCHANGED excused
      BY <2>1, <2>2, Ended
    <2>3. ASSUME NEW why \in {"offline", "expired"}, Ends(t), Excuse(t.copy, why)
          PROVE  CoreOK'
      <3>1. Excused(t.copy)' /\ excused \subseteq excused'
        BY <2>3 DEF Excuse, Excused, Reasons
      <3> QED
        BY <2>1, <2>3, <3>1, Ended
    <2>4. CASE t.copy \notin reached /\ Becomes(t, "flood") /\ UNCHANGED excused
      <3>1. t.kind = "watch" /\ \A r \in Of(t.copy) : r.kind # "copy"
        BY <1>6 DEF Watch, Of
      <3> QED
        BY <1>1, <2>1, <2>4, <3>1, Replaced DEF Becomes
    <2> QED
      BY <1>6, <2>2, <2>3, <2>4 DEF Watch
  <1>7. CASE Flood(t)
    <2> DEFINE s == {Task(t.copy, "again", i) : i \in 1..Extra[t.copy[1]]}
    <2>1. \A r \in s : r.copy = t.copy /\ r.kind = "again"
      BY DEF Task
    <2> QED
      BY <1>7, <2>1, PassOK DEF Flood, Kept, world
  <1>8. CASE Again(t)
    <2>1. /\ Ends(t) /\ t.kind = "again" /\ UNCHANGED <<offers, inflight, reached, alone>>
          /\ Pass(t) \/ UNCHANGED <<onAir, excused>>
      BY <1>8 DEF Again, Kept, world
    <2>2. CASE Pass(t)
      <3> DEFINE s == {}
      <3>1. tasks' = (tasks \ {t}) \union s
        BY <2>1 DEF Ends
      <3>2. \A r \in s : r.copy = t.copy /\ r.kind = "again"
        OBVIOUS
      <3> HIDE DEF s
      <3> QED
        BY <2>1, <2>2, <3>1, <3>2, PassOK
    <2>3. CASE UNCHANGED <<onAir, excused>>
      BY <2>1, <2>3, Ended
    <2> QED
      BY <2>1, <2>2, <2>3
  <1> QED
    BY <1>2, <1>3, <1>4, <1>5, <1>6, <1>7, <1>8 DEF Carry

LEMMA CoreStep ==
    ASSUME TypeOK, CoreOK, BackoffOK, [Next]_vars
    PROVE  CoreOK'
  <1>1. CASE \E p \in Packets : Offer(p) \/ Released(p)
    BY <1>1, OfferOK, ReleasedOK
  <1>2. CASE \E t \in tasks : Decide(t) \/ Carry(t)
    BY <1>2, DecideOK, CarryOK
  <1>3. CASE \E p \in Packets : Age(p)
    BY <1>3, CoreSame DEF Age, core, history
  <1>4. CASE \E peer \in Peers, d \in Dests : LearnDirect(peer, d)
    BY <1>4, CoreSame DEF LearnDirect, core
  <1>5. CASE \E x \in remembered : ChannelProof(x) \/ ProofOverdue(x)
    BY <1>5, CoreSame DEF ChannelProof, ProofOverdue, core, world, history
  <1>6. CASE \E k \in recent : WindowOver(k)
    BY <1>6, CoreSame DEF WindowOver, core, world, history
  <1>7. CASE \E d \in Dests : ClosedOver(d) \/ BackoffOver(d)
    BY <1>7, CoreSame DEF ClosedOver, BackoffOver, core, world, history
  <1>8. CASE Change
    BY <1>8, CoreSame DEF Change, core, history
  <1>9. CASE UNCHANGED vars
    BY <1>9, CoreSame DEF vars, core
  <1> QED
    BY <1>1, <1>2, <1>3, <1>4, <1>5, <1>6, <1>7, <1>8, <1>9 DEF Next

\* A destination's back-off follows its unanswered bootstrap sends.
LEMMA CountedOK ==
    ASSUME TypeOK, BackoffOK, NEW p \in Packets, Count(p), Wait(p)
    PROVE  BackoffOK'
  <1>1. CASE ProofLike(p)
    BY <1>1 DEF Count, Wait, BackoffOK
  <1>2. CASE ~ProofLike(p)
    <2>1. /\ attempts' = [attempts EXCEPT ![Dest[p]] = @ + 1]
          /\ backoff' = IF attempts[Dest[p]] + 1 >= Threshold THEN backoff \union {Dest[p]} ELSE backoff
          /\ unproved' = [unproved EXCEPT ![Dest[p]] = @ + 1]
          /\ Dest[p] \in Dests
      BY <1>2 DEF Count, Wait, Record, Dests
    <2>2. attempts \in [Dests -> Nat] /\ unproved \in [Dests -> Nat] /\ Threshold \in Nat
      BY BoundAssumption DEF TypeOK
    <2> QED
      BY <2>1, <2>2 DEF BackoffOK
  <1> QED
    BY <1>1, <1>2

LEMMA BackoffStep ==
    ASSUME TypeOK, BackoffOK, [Next]_vars
    PROVE  BackoffOK'
  <1>1. ASSUME UNCHANGED <<attempts, backoff, unproved>>
        PROVE  BackoffOK'
    BY <1>1 DEF BackoffOK
  <1>2. ASSUME NEW d \in Dests, Clear(d), unproved' = [unproved EXCEPT ![d] = 0]
        PROVE  BackoffOK'
    BY <1>2 DEF Clear, BackoffOK, TypeOK
  <1>3. CASE \E p \in Packets : Offer(p) \/ Released(p) \/ Age(p)
    BY <1>1, <1>3 DEF Offer, Released, Age, history
  <1>4. ASSUME NEW t \in tasks, Decide(t)
        PROVE  BackoffOK'
    <2>1. t.copy[1] \in Packets
      BY DEF TypeOK, Copies
    <2>2. CASE \/ LinkClosed(t) \/ ExpiredInQueue(t) \/ Delay(t) \/ DelayInVain(t)
               \/ Repeated(t) \/ AnsweredLocally(t)
      BY <1>1, <2>2 DEF LinkClosed, ExpiredInQueue, Delay, DelayInVain, Repeated, AnsweredLocally,
                        Drop, history
    <2>3. CASE DispatchFirst(t) \/ DispatchKnown(t) \/ Refuse(t)
      BY <1>1, <2>3 DEF DispatchFirst, DispatchKnown, Refuse
    <2>4. CASE DispatchUnknown(t)
      <3>1. \/ Count(t.copy[1]) /\ Wait(t.copy[1])
            \/ UNCHANGED <<attempts, backoff, unproved>>
        BY <2>4 DEF DispatchUnknown
      <3> QED
        BY <1>1, <2>1, <3>1, CountedOK
    <2> QED
      BY <1>4, <2>2, <2>3, <2>4 DEF Decide
  <1>5. ASSUME NEW t \in tasks, Carry(t)
        PROVE  BackoffOK'
    BY <1>1, <1>5 DEF Carry, FindPath, NoPath, NoContact, GiveUpDirect, CopyTooLate, SendDirect,
                      NotSent, Watch, Flood, Again, Kept, history
  <1>6. CASE \E peer \in Peers, d \in Dests : LearnDirect(peer, d)
    BY <1>2, <1>6 DEF LearnDirect, Answered
  <1>7. CASE \E x \in remembered : ChannelProof(x)
    <2>1. PICK x \in remembered : ChannelProof(x)
      BY <1>7
    <2>2. Dest[x[1]] \in Dests
      BY DEF TypeOK, Copies, Dests
    <2> QED
      BY <1>2, <2>1, <2>2 DEF ChannelProof, Answered
  <1>8. CASE (\E x \in remembered : ProofOverdue(x)) \/ (\E k \in recent : WindowOver(k))
              \/ (\E d \in Dests : ClosedOver(d)) \/ Change
    BY <1>1, <1>8 DEF ProofOverdue, WindowOver, ClosedOver, Change, history
  <1>9. CASE \E d \in Dests : BackoffOver(d)
    BY <1>9 DEF BackoffOver, BackoffOK, TypeOK, history
  <1>10. CASE UNCHANGED vars
    BY <1>1, <1>10 DEF vars
  <1> QED
    BY <1>3, <1>4, <1>5, <1>6, <1>7, <1>8, <1>9, <1>10 DEF Next

LEMMA TypeStep ==
    ASSUME TypeOK, [Next]_vars
    PROVE  TypeOK'
  <1> USE BoundAssumption, ClassAssumption, LinkAssumption DEF Dests
  <1>1. \A x \in Copies, kind \in Kinds, to \in Peers \union {None} \union Nat :
            Task(x, kind, to) \in [copy : Copies, kind : Kinds, to : Peers \union {None} \union Nat,
                                   sending : BOOLEAN, discover : BOOLEAN]
    BY DEF Task
  <1>2. \A t \in tasks : /\ t.copy \in Copies /\ t.copy[1] \in Packets
                         /\ Dest[t.copy[1]] \in Dests
    BY DEF TypeOK, Copies
  <1>13. ASSUME NEW t \in tasks, NEW why \in Reasons \union {"wronged"}, Excuse(t.copy, why)
         PROVE  excused' \subseteq [copy : Copies, why : Reasons \union {"wronged"}]
    BY <1>2, <1>13 DEF Excuse, TypeOK
  <1>14. ASSUME NEW t \in tasks, NEW over \in {"direct", "channel"},
                onAir' = onAir \union {[copy |-> t.copy, over |-> over]}
         PROVE  onAir' \subseteq [copy : Copies, over : {"direct", "channel"}]
    BY <1>2, <1>14 DEF TypeOK
  <1>15. ASSUME NEW t \in tasks, Pass(t)
         PROVE  /\ onAir' \subseteq [copy : Copies, over : {"direct", "channel"}]
                /\ excused' \subseteq [copy : Copies, why : Reasons \union {"wronged"}]
    <2>1. CASE online
      BY <1>14, <1>15, <2>1 DEF Pass, TypeOK
    <2>2. CASE ~online
      BY <1>13, <1>15, <2>2 DEF Pass, TypeOK, Reasons
    <2> QED
      BY <2>1, <2>2
  <1>3. CASE \E p \in Packets : Offer(p)
    <2>1. PICK p \in Packets : Offer(p)
      BY <1>3
    <2>2. <<p, offers[p] + 1>> \in Copies /\ "queued" \in Kinds
      BY DEF TypeOK, Copies, Kinds
    <2> QED
      BY <1>1, <2>1, <2>2 DEF Offer, TypeOK, history
  <1>4. CASE \E p \in Packets : Released(p) \/ Age(p)
    BY <1>4 DEF Released, Forget, Age, TypeOK, world, history
  <1>5. ASSUME NEW t \in tasks, Decide(t)
        PROVE  TypeOK'
    <2>1. ASSUME NEW why \in Reasons, Drop(t, why), UNCHANGED <<world, inflight>>,
                 recent' \subseteq recent \union {Limit(t.copy[1])},
                 Class[t.copy[1]] \in Classes
          PROVE  TypeOK'
      BY <1>2, <2>1 DEF Drop, Excuse, Limit, TypeOK, world
    <2>2. Class[t.copy[1]] \in Classes
      BY <1>2
    <2>3. CASE LinkClosed(t) \/ ExpiredInQueue(t) \/ DelayInVain(t) \/ Repeated(t) \/ AnsweredLocally(t)
      <3>1. \E why \in Reasons : Drop(t, why) /\ UNCHANGED <<world, inflight>>
                                 /\ recent' \subseteq recent \union {Limit(t.copy[1])}
        BY <2>3 DEF LinkClosed, ExpiredInQueue, DelayInVain, Repeated, AnsweredLocally, Reasons
      <3> QED
        BY <2>1, <2>2, <3>1
    <2>4. CASE Delay(t)
      BY <1>1, <1>2, <2>4 DEF Delay, TypeOK, Kinds, world, history
    <2>5. CASE Refuse(t)
      <3>1. \E why \in {"refused", "wronged"} : Excuse(t.copy, why)
        BY <2>5 DEF Refuse
      <3>2. excused' \subseteq [copy : Copies, why : Reasons \union {"wronged"}]
        BY <1>13, <3>1 DEF Reasons
      <3>3. remembered' \subseteq Copies
        BY <1>2, <2>5 DEF Refuse, Remember, TypeOK
      <3> QED
        BY <2>5, <3>2, <3>3 DEF Refuse, TypeOK, world
    <2>6. ASSUME NEW s, Spawn(t, s),
                 \/ s = ToAll(t.copy)
                 \/ \E peers \in SUBSET bound, discover \in BOOLEAN : s = WithFlood(t.copy, peers, discover)
                 \/ s = {Task(t.copy, "primary", known[Dest[t.copy[1]]])}
          PROVE  /\ tasks' \subseteq [copy : Copies, kind : Kinds, to : Peers \union {None} \union Nat,
                                      sending : BOOLEAN, discover : BOOLEAN]
                 /\ alone' \subseteq Copies /\ UNCHANGED <<reached, onAir>>
      BY <1>1, <1>2, <2>6 DEF Spawn, ToAll, WithFlood, TypeOK, Kinds
    <2>7. CASE DispatchFirst(t)
      <3>1. \E s : /\ Spawn(t, s)
                   /\ \/ s = ToAll(t.copy)
                      \/ \E peers \in SUBSET bound, discover \in BOOLEAN : s = WithFlood(t.copy, peers, discover)
        BY <2>7 DEF DispatchFirst
      <3> QED
        BY <1>2, <2>2, <2>6, <2>7, <3>1 DEF DispatchFirst, Limit, TypeOK, world
    <2>8. CASE DispatchKnown(t)
      BY <1>2, <2>6, <2>8 DEF DispatchKnown, Remember, TypeOK, world
    <2>9. CASE DispatchUnknown(t)
      <3>1. \E s : /\ Spawn(t, s)
                   /\ \/ s = ToAll(t.copy)
                      \/ \E peers \in SUBSET bound, discover \in BOOLEAN : s = WithFlood(t.copy, peers, discover)
        BY <2>9 DEF DispatchUnknown
      <3>2. /\ attempts' \in [Dests -> Nat] /\ backoff' \subseteq Dests /\ unproved' \in [Dests -> Nat]
            /\ remembered' \subseteq Copies
        <4>1. \/ Count(t.copy[1]) /\ Wait(t.copy[1])
              \/ UNCHANGED <<attempts, backoff, unproved>>
          BY <2>9 DEF DispatchUnknown
        <4>2. remembered' \subseteq Copies
          BY <1>2, <2>9 DEF DispatchUnknown, Remember, TypeOK
        <4> QED
          BY <1>2, <4>1, <4>2 DEF Count, Wait, Record, TypeOK
      <3> QED
        BY <1>2, <2>6, <2>9, <3>1, <3>2 DEF DispatchUnknown, TypeOK, world
    <2> QED
      BY <1>5, <2>3, <2>4, <2>5, <2>7, <2>8, <2>9 DEF Decide
  <1>6. ASSUME NEW t \in tasks, Carry(t)
        PROVE  TypeOK'
    <2>1. CASE FindPath(t)
      BY <2>1 DEF FindPath, Kept, TypeOK, world, history
    <2>2. CASE NoPath(t) \/ NoContact(t)
      BY <1>1, <1>2, <2>2 DEF NoPath, NoContact, GiveUpDirect, Ends, Becomes, Kept, TypeOK, Kinds, world, history
    <2>3. CASE CopyTooLate(t)
      <3>1. \E why \in {"offline", "expired"} : Excuse(t.copy, why)
        BY <2>3 DEF CopyTooLate
      <3>2. excused' \subseteq [copy : Copies, why : Reasons \union {"wronged"}]
        BY <1>13, <3>1 DEF Reasons
      <3> QED
        BY <2>3, <3>2 DEF CopyTooLate, Ends, Kept, TypeOK, world
    <2>4. CASE SendDirect(t) \/ NotSent(t)
      <3>1. onAir' \subseteq [copy : Copies, over : {"direct", "channel"}]
        BY <1>14, <2>4 DEF SendDirect, NotSent, TypeOK
      <3>2. excused' \subseteq [copy : Copies, why : Reasons \union {"wronged"}]
        BY <1>13, <2>4 DEF SendDirect, NotSent, TypeOK, Reasons
      <3>3. reached' \subseteq Copies
        <4>1. reached' = reached \union {t.copy}
          BY <2>4 DEF SendDirect, NotSent
        <4> QED
          BY <1>2, <4>1 DEF TypeOK
      <3> QED
        BY <2>4, <3>1, <3>2, <3>3 DEF SendDirect, NotSent, Ends, Kept, TypeOK, world
    <2>5. CASE Watch(t)
      <3>1. UNCHANGED excused \/ \E why \in {"offline", "expired"} : Excuse(t.copy, why)
        BY <2>5 DEF Watch
      <3>2. excused' \subseteq [copy : Copies, why : Reasons \union {"wronged"}]
        BY <1>13, <3>1 DEF Reasons, TypeOK
      <3>3. tasks' \subseteq [copy : Copies, kind : Kinds, to : Peers \union {None} \union Nat,
                              sending : BOOLEAN, discover : BOOLEAN]
        BY <1>1, <1>2, <2>5 DEF Watch, Ends, Becomes, TypeOK, Kinds
      <3> QED
        BY <2>5, <3>2, <3>3 DEF Watch, Kept, TypeOK, world
    <2>6. CASE Flood(t)
      <3>1. \A i \in 1..Extra[t.copy[1]] : i \in Nat
        BY <1>2
      <3>2. onAir' \subseteq [copy : Copies, over : {"direct", "channel"}]
            /\ excused' \subseteq [copy : Copies, why : Reasons \union {"wronged"}]
        BY <1>15, <2>6 DEF Flood
      <3>3. tasks' \subseteq [copy : Copies, kind : Kinds, to : Peers \union {None} \union Nat,
                              sending : BOOLEAN, discover : BOOLEAN]
        BY <1>1, <1>2, <2>6, <3>1 DEF Flood, TypeOK, Kinds
      <3> QED
        BY <2>6, <3>2, <3>3 DEF Flood, Kept, TypeOK, world
    <2>7. CASE Again(t)
      <3>1. /\ onAir' \subseteq [copy : Copies, over : {"direct", "channel"}]
            /\ excused' \subseteq [copy : Copies, why : Reasons \union {"wronged"}]
        BY <1>15, <2>7 DEF Again, TypeOK
      <3> QED
        BY <2>7, <3>1 DEF Again, Ends, Kept, TypeOK, world
    <2> QED
      BY <1>6, <2>1, <2>2, <2>3, <2>4, <2>5, <2>6, <2>7 DEF Carry
  <1>7. CASE \E peer \in Peers, d \in Dests : LearnDirect(peer, d)
    <2>1. PICK peer \in Peers, d \in Dests : LearnDirect(peer, d)
      BY <1>7
    <2>2. /\ known' \in [Dests -> Peers \union {None}]
          /\ attempts' \in [Dests -> Nat] /\ backoff' \subseteq Dests
      BY <2>1 DEF LearnDirect, Clear, TypeOK
    <2>3. remembered' \subseteq Copies /\ unproved' \in [Dests -> Nat]
      <3>1. \/ \E x \in remembered : Dest[x[1]] = d /\ Answered(x)
            \/ UNCHANGED remembered /\ unproved' = [unproved EXCEPT ![d] = 0]
        BY <2>1 DEF LearnDirect
      <3>2. /\ remembered' \subseteq remembered
            /\ unproved' = [unproved EXCEPT ![d] = 0]
        BY <3>1 DEF Answered
      <3> QED
        BY <3>2 DEF TypeOK
    <2> QED
      BY <2>1, <2>2, <2>3 DEF LearnDirect, TypeOK
  <1>8. CASE \E x \in remembered : ChannelProof(x) \/ ProofOverdue(x)
    BY <1>8 DEF ChannelProof, ProofOverdue, Answered, Clear, TypeOK, world, history
  <1>9. CASE \E k \in recent : WindowOver(k)
    BY <1>9 DEF WindowOver, TypeOK, world, history
  <1>10. CASE \E d \in Dests : ClosedOver(d) \/ BackoffOver(d)
    BY <1>10 DEF ClosedOver, BackoffOver, TypeOK, world, history
  <1>11. CASE Change
    <2>1. changes' \in 0..MaxChanges
      BY <1>11 DEF Change, TypeOK
    <2>2. /\ bound' \subseteq Peers /\ online' \in BOOLEAN /\ closed' \subseteq Dests
          /\ known' \in [Dests -> Peers \union {None}]
      BY <1>11 DEF Change, TypeOK
    <2> QED
      BY <1>11, <2>1, <2>2 DEF Change, TypeOK, history
  <1>12. CASE UNCHANGED vars
    BY <1>12 DEF vars, TypeOK
  <1> QED
    BY <1>3, <1>4, <1>5, <1>6, <1>7, <1>8, <1>9, <1>10, <1>11, <1>12 DEF Next

-----------------------------------------------------------------------------
(* The theorems. *)

LEMMA InitOK ==
    Init => Inv
  BY BoundAssumption DEF Init, Inv, TypeOK, CoreOK, BackoffOK, CopiesOK, NewOK, AloneOK, CarriedOK,
     ReachedOK, Dests

\* The invariant the properties rest on.
THEOREM Invariance ==
    Spec => []Inv
  <1>1. Inv /\ [Next]_vars => Inv'
    BY TypeStep, CoreStep, BackoffStep DEF Inv
  <1> QED
    BY InitOK, <1>1, PTL DEF Spec

\* Every variable has its type.
THEOREM TypeCorrect ==
    Spec => []TypeOK
  BY Invariance, PTL DEF Inv

\* No packet of which every task has ended was lost without a reason, for any
\* mesh, limits and packets.
THEOREM NoSilentLossHolds ==
    Spec => []NoSilentLoss
  <1>1. Inv => NoSilentLoss
    BY DEF Inv, CoreOK, CarriedOK, NoSilentLoss, Settled, Of, Now, Carriers, Tracked
  <1> QED
    BY Invariance, <1>1, PTL

\* No packet that some peer was sent DIRECT alone is flooded, whichever of its
\* copies fail and whenever.
THEOREM LastResortHolds ==
    Spec => []LastResort
  <1>1. Inv => LastResort
    BY DEF Inv, CoreOK, AloneOK, LastResort
  <1> QED
    BY Invariance, <1>1, PTL
=============================================================================
