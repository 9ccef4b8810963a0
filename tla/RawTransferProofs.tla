-------------------------- MODULE RawTransferProofs --------------------------
(***************************************************************************)
(* Proofs about RawTransfer, for any packets, sizes, limits and faults:    *)
(* the sender leaves out only fragments the receiver held under the        *)
(* packet's present identifier, a completed packet is signalled, nothing   *)
(* garbled is delivered, nothing is confirmed that was not delivered, and  *)
(* the transfer implements the promise of RawDelivery, within its types.   *)
(* Last come theorems about the bytes of its frames (WireFormat) and its   *)
(* times (Timing).                                                         *)
(*                                                                         *)
(* What carries the first from step to step is that every word on its way  *)
(* from the receiver, the sender's mail included, speaks only of fragments *)
(* that were held (WordOK), at the time it was made and so ever after: the *)
(* history rx.ever only grows.                                             *)
(***************************************************************************)
EXTENDS RawTransfer, FiniteSetTheorems, NaturalsInduction, WellFoundedInduction, TLAPS,
        Integers, Sequences

-----------------------------------------------------------------------------
(* The inductive invariant; ev is the history of fragments ever held. *)

\* A word is true of the past: what it calls held was held.
WordOK(ev, w) ==
    \A e \in w.entries :
        /\ e.key \in Keys /\ e.held \subseteq ev[e.key]
        /\ e.complete => 1..e.key[2] \subseteq ev[e.key]

\* Words in the sender's hands.
MailOK(ev, x) ==
    /\ x.mail = None \/ WordOK(ev, x.mail)
    /\ x.early = None \/ WordOK(ev, x.early)
    /\ x.provisional = None \/ WordOK(ev, x.provisional)

\* What the sender believes, of the packets of its window and of those it would
\* resume, and that what it sends or asks about is numbered.
TxOK(ev, x) ==
    /\ DOMAIN x = DOMAIN TxInit
    /\ x.parts \subseteq Packets /\ x.nextId \in Ids
    /\ x.id \in [Packets -> Ids \union {None}]
    /\ \A p \in Open(x) : x.id[p] \in Ids /\ x.acked[p] \subseteq ev[Key(x, p)]
    /\ \A p \in Packets : x.resumable[p] # None =>
        /\ x.resumable[p].id \in Ids
        /\ x.resumable[p].acked \subseteq ev[<<x.resumable[p].id, Frags[p]>>]
    /\ \A u \in x.unsent : u[1] \in Packets /\ x.id[u[1]] \in Ids
    /\ \A q \in x.queries : q.keys \subseteq Keys
    /\ MailOK(ev, x)

\* All of k's fragments were held.
Whole(y, k) == k \in Keys /\ 1..k[2] \subseteq y.ever[k]

\* The receiver's buckets, its memory and its pending reports speak of fragments
\* that were held.
RxOK(y) ==
    /\ DOMAIN y = DOMAIN RxInit /\ DOMAIN y.ever = Keys /\ DOMAIN y.bucket = Keys
    /\ y.done \subseteq y.recent /\ y.recent \subseteq Keys
    /\ \A k \in Keys : y.bucket[k] # None => Held(y.bucket[k]) \subseteq y.ever[k]
    /\ \A k \in y.done : Whole(y, k)
    /\ y.tail # None => Whole(y, y.tail.key)
    /\ y.grace # None => Whole(y, y.grace.key)
    /\ \A w \in y.words : WordOK(y.ever, w)

Inv == TxOK(rx.ever, tx) /\ RxOK(rx) /\ \A f \in air : f.key \in Keys

\* The history grows from ev to now.
Grows(ev, now) == \A k \in Keys : ev[k] \subseteq now[k]

-----------------------------------------------------------------------------
(* The sender's functions. *)

\* A numbered packet has a key.
LEMMA KeyType ==
  ASSUME NEW p \in Packets, NEW i \in Ids PROVE <<i, Frags[p]>> \in Keys
  BY DEF Keys

\* Words stay true, and so does what was believed on their account.
LEMMA TxGrows ==
  ASSUME NEW ev, NEW now, Grows(ev, now), NEW x, TxOK(ev, x)
  PROVE  TxOK(now, x)
  <1>1. \A w : WordOK(ev, w) => WordOK(now, w)
    BY DEF WordOK, Grows
  <1>2. MailOK(now, x)
    BY <1>1 DEF MailOK, TxOK
  <1>3. \A p \in Open(x) : x.acked[p] \subseteq now[Key(x, p)]
    BY KeyType DEF Grows, TxOK, Open, Key
  <1>4. \A p \in Packets : x.resumable[p] # None =>
            x.resumable[p].acked \subseteq now[<<x.resumable[p].id, Frags[p]>>]
    BY KeyType DEF Grows, TxOK
  <1>5. QED BY <1>2, <1>3, <1>4 DEF TxOK

\* y has x's window, beliefs and memory.
SameBelief(x, y) ==
    /\ DOMAIN y = DOMAIN x
    /\ y.parts = x.parts /\ y.nextId = x.nextId /\ y.id = x.id
    /\ y.acked = x.acked /\ y.result = x.result /\ y.resumable = x.resumable

\* What TxOK says of a state goes over to one of the same belief.
LEMMA SameBeliefOK ==
  ASSUME NEW ev, NEW x, NEW y, TxOK(ev, x), SameBelief(x, y), MailOK(ev, y),
         \A u \in y.unsent : u[1] \in Packets /\ x.id[u[1]] \in Ids,
         \A q \in y.queries : q.keys \subseteq Keys
  PROVE  TxOK(ev, y) /\ Open(y) = Open(x)
  <1>1. Open(y) = Open(x) /\ \A p \in Packets : Key(y, p) = Key(x, p)
    BY DEF Open, Key, SameBelief
  <1>2. QED BY <1>1 DEF TxOK, SameBelief, Open

LEMMA AwaitOK ==
  ASSUME NEW ev, NEW x, TxOK(ev, x), NEW ps, NEW n
  PROVE  /\ TxOK(ev, Await(x, ps, n)) /\ SameBelief(x, Await(x, ps, n))
         /\ Open(Await(x, ps, n)) = Open(x)
  <1> DEFINE y == Await(x, ps, n)
  <1>1. /\ SameBelief(x, y) /\ y.unsent = x.unsent /\ y.queries = x.queries
        /\ y.mail = None /\ y.early = x.early /\ y.provisional = x.provisional
    BY DEF Await, SameBelief, TxOK, TxInit
  <1>2. MailOK(ev, y)
    BY <1>1 DEF MailOK, TxOK
  <1>3. QED BY <1>1, <1>2, SameBeliefOK DEF TxOK

LEMMA UnwaitOK ==
  ASSUME NEW ev, NEW x, TxOK(ev, x), NEW ps
  PROVE  /\ TxOK(ev, Unwait(x, ps)) /\ SameBelief(x, Unwait(x, ps))
         /\ Open(Unwait(x, ps)) = Open(x)
  <1> DEFINE y == Unwait(x, ps)
  <1>1. /\ SameBelief(x, y) /\ y.unsent = x.unsent /\ y.queries = x.queries
        /\ y.mail = x.mail /\ y.early = x.early /\ y.provisional = x.provisional
    BY DEF Unwait, SameBelief, TxOK, TxInit
  <1>2. MailOK(ev, y)
    BY <1>1 DEF MailOK, TxOK
  <1>3. QED BY <1>1, <1>2, SameBeliefOK DEF TxOK

LEMMA RestOK ==
  ASSUME NEW ev, NEW x, TxOK(ev, x)
  PROVE  TxOK(ev, Rest(x)) /\ Open(Rest(x)) = Open(x)
  <1> DEFINE y == Rest(x)
  <1>1. /\ SameBelief(x, y) /\ y.unsent = {} /\ y.queries = x.queries
        /\ y.mail = None /\ y.early = None /\ y.provisional = None
    BY DEF Rest, SameBelief, TxOK, TxInit
  <1>2. MailOK(ev, y)
    BY <1>1 DEF MailOK
  <1>3. QED BY <1>1, <1>2, SameBeliefOK DEF TxOK

LEMMA QueryOK ==
  ASSUME NEW ev, NEW x, TxOK(ev, x)
  PROVE  TxOK(ev, Query(x))
  <1> DEFINE n == (x.nonce % 239) + 1
             y == Await(x, Open(x), <<"query", n>>)
             z == Query(x)
  <1>1. TxOK(ev, y) /\ SameBelief(x, y)
    BY AwaitOK
  <1>7. y.unsent = x.unsent /\ y.queries = x.queries
    BY DEF Await, TxOK, TxInit
  <1>2. /\ SameBelief(y, z) /\ z.unsent = y.unsent
        /\ z.mail = y.mail /\ z.early = None /\ z.provisional = None
        /\ z.queries = x.queries \union
              {[nonce |-> <<"query", n>>, keys |-> {Key(x, p) : p \in Open(x)}]}
    BY <1>1, <1>7 DEF Query, SameBelief, TxOK, TxInit
  <1>3. {Key(x, p) : p \in Open(x)} \subseteq Keys
    BY KeyType DEF TxOK, Open, Key
  <1>4. MailOK(ev, z)
    BY <1>1, <1>2 DEF MailOK, TxOK
  <1>5. \A q \in z.queries : q.keys \subseteq Keys
    BY <1>2, <1>3 DEF TxOK
  <1>6. QED BY <1>1, <1>2, <1>4, <1>5, SameBeliefOK DEF TxOK

\* What is remembered of packets of the window is what was believed of them, and
\* a verdict takes packets out of it.
LEMMA RememberOK ==
  ASSUME NEW ev, NEW x, TxOK(ev, x), NEW ps \in SUBSET Open(x), NEW v, v # "open"
  PROVE  /\ TxOK(ev, Resolve(Remember(x, ps), ps, v))
         /\ Open(Resolve(Remember(x, ps), ps, v)) = Open(x) \ ps
  <1> DEFINE y == Resolve(Remember(x, ps), ps, v)
  <1>1. /\ DOMAIN y = DOMAIN x /\ y.parts = x.parts /\ y.nextId = x.nextId /\ y.id = x.id
        /\ y.acked = x.acked /\ y.unsent = x.unsent /\ y.queries = x.queries
        /\ y.mail = x.mail /\ y.early = x.early /\ y.provisional = x.provisional
    BY DEF Resolve, Remember, TxOK, TxInit
  <1>2. /\ y.result = [p \in Packets |-> IF p \in ps THEN v ELSE x.result[p]]
        /\ y.resumable = [p \in Packets |->
              IF p \in ps /\ x.acked[p] # {} THEN [id |-> x.id[p], acked |-> x.acked[p]]
              ELSE x.resumable[p]]
    BY DEF Resolve, Remember, TxOK, TxInit
  <1>3. Open(y) = Open(x) \ ps
    BY <1>1, <1>2 DEF Open, TxOK
  <1>4. ASSUME NEW p \in Packets, y.resumable[p] # None
        PROVE  /\ y.resumable[p].id \in Ids
               /\ y.resumable[p].acked \subseteq ev[<<y.resumable[p].id, Frags[p]>>]
    <2>1. CASE p \in ps /\ x.acked[p] # {}
      <3>1. y.resumable[p] = [id |-> x.id[p], acked |-> x.acked[p]]
        BY <1>2, <2>1
      <3>2. y.resumable[p].id = x.id[p] /\ y.resumable[p].acked = x.acked[p]
        BY <3>1
      <3>3. x.id[p] \in Ids /\ x.acked[p] \subseteq ev[<<x.id[p], Frags[p]>>]
        BY <2>1 DEF TxOK, Key
      <3>4. QED BY <3>2, <3>3
    <2>2. CASE ~(p \in ps /\ x.acked[p] # {})
      <3>1. y.resumable[p] = x.resumable[p]
        BY <1>2, <2>2
      <3>2. QED BY <1>4, <3>1 DEF TxOK
    <2>3. QED BY <2>1, <2>2
  <1>5. \A p \in Open(y) : y.id[p] \in Ids /\ y.acked[p] \subseteq ev[Key(y, p)]
    BY <1>1, <1>3 DEF TxOK, Key
  <1>6. MailOK(ev, y)
    BY <1>1 DEF MailOK, TxOK
  <1>7. QED BY <1>1, <1>3, <1>4, <1>5, <1>6 DEF TxOK

LEMMA EndWindowOK ==
  ASSUME NEW ev, NEW x, TxOK(ev, x), NEW v, v # "open"
  PROVE  TxOK(ev, EndWindow(x, v))
  BY RememberOK, RestOK DEF EndWindow

\* A true word, applied, replaces belief by what was held under the same key.
LEMMA ApplyOK ==
  ASSUME NEW ev, NEW x, TxOK(ev, x), NEW w, WordOK(ev, w)
  PROVE  TxOK(ev, Apply(x, w))
  <1> DEFINE chosen(p) == CHOOSE e \in EntriesFor(x, p, w) : TRUE
             held(p) == Believed(x, p, chosen(p))
             whole == {p \in Named(x, w) : held(p) = 1..Frags[p]}
             y == Apply(x, w)
  <1>1. /\ DOMAIN y = DOMAIN x /\ y.parts = x.parts /\ y.nextId = x.nextId /\ y.id = x.id
        /\ y.unsent = x.unsent /\ y.queries = x.queries
        /\ y.mail = x.mail /\ y.early = x.early /\ y.provisional = x.provisional
    BY DEF Apply, TxOK, TxInit
  <1>2. /\ y.acked = [p \in Packets |-> IF p \in Named(x, w) THEN held(p) ELSE x.acked[p]]
        /\ y.result = [p \in Packets |-> IF p \in whole THEN "true" ELSE x.result[p]]
        /\ y.resumable = [p \in Packets |-> IF p \in whole THEN None ELSE x.resumable[p]]
    BY DEF Apply, TxOK, TxInit
  <1>3. ASSUME NEW p \in Named(x, w) PROVE held(p) \subseteq ev[Key(x, p)]
    <2>1. chosen(p) \in EntriesFor(x, p, w)
      BY <1>3 DEF Named
    <2>2. chosen(p) \in w.entries /\ chosen(p).key = Key(x, p)
      BY <2>1 DEF EntriesFor
    <2> DEFINE e == chosen(p)
    <2>3. /\ e.held \subseteq ev[e.key]
          /\ e.complete => 1..e.key[2] \subseteq ev[e.key]
      BY <2>2 DEF WordOK
    <2>4. e.key[2] = Frags[p]
      BY <2>2 DEF Key
    <2> HIDE DEF e
    <2>5. Believed(x, p, e) \subseteq ev[Key(x, p)]
      BY <2>2, <2>3, <2>4 DEF Believed, e
    <2>6. QED BY <2>5 DEF e
  <1>4. Open(y) \subseteq Open(x)
    BY <1>1, <1>2 DEF Open, TxOK
  <1>5. \A p \in Open(y) : y.id[p] \in Ids /\ y.acked[p] \subseteq ev[Key(y, p)]
    BY <1>1, <1>2, <1>3, <1>4 DEF TxOK, Key, Open
  <1>6. \A p \in Packets : y.resumable[p] # None =>
            /\ y.resumable[p].id \in Ids
            /\ y.resumable[p].acked \subseteq ev[<<y.resumable[p].id, Frags[p]>>]
    BY <1>2 DEF TxOK
  <1>7. MailOK(ev, y)
    BY <1>1 DEF MailOK, TxOK
  <1>8. QED BY <1>1, <1>5, <1>6, <1>7 DEF TxOK

\* The frames of a burst are of packets of the window.
LEMMA BurstOpen ==
  ASSUME NEW x, NEW u \in Burst(x)
  PROVE  u[1] \in Open(x)
  <1>1. CASE \E p \in Open(x) : u \in {p} \X Missing(x, p)
    BY <1>1
  <1>2. CASE \E p \in Open(x) : u = <<p, Frags[p] + 1>>
    BY <1>2
  <1>3. u \in UNION {{p} \X Missing(x, p) : p \in Open(x)} => u[1] \in Open(x)
    BY <1>1
  <1>4. u \in {<<p, Frags[p] + 1>> : p \in {q \in Open(x) : Parity /\ Cardinality(Missing(x, q)) >= 2}}
          => u[1] \in Open(x)
    BY <1>2
  <1>5. QED BY <1>3, <1>4 DEF Burst

\* A change that touches neither belief, burst, queries nor mail.
LEMMA OtherFieldsOK ==
  ASSUME NEW ev, NEW x, NEW y, TxOK(ev, x), SameBelief(x, y),
         y.unsent \subseteq x.unsent, y.queries = x.queries,
         y.mail \in {None, x.mail}, y.early \in {None, x.early, x.mail},
         y.provisional \in {None, x.provisional, x.mail}
  PROVE  TxOK(ev, y)
  <1>1. MailOK(ev, y)
    BY DEF MailOK, TxOK
  <1>2. QED BY <1>1, SameBeliefOK DEF TxOK

\* A round begins with the beliefs there are, less the packets that expired.
LEMMA BeginOK ==
  ASSUME NEW ev, NEW x, TxOK(ev, x), NEW r, NEW late \in SUBSET Open(x)
  PROVE  TxOK(ev, Begin(x, r, late))
  <1> DEFINE y0 == Resolve(Remember(x, late), late, "false")
             y == [y0 EXCEPT !.rnd = r, !.attempt = 0, !.inRound = Open(x) \ late]
             z == [y EXCEPT !.burst = BurstAllowed(y), !.last = LastOf(y)]
             a == Await(z, Open(z), <<"report", r % 4>>)
             b == [a EXCEPT !.phase = "burst", !.unsent = Burst(z),
                            !.early = None, !.provisional = None, !.airborne = FALSE]
  <1>1. TxOK(ev, y0)
    BY RememberOK
  <1>2. /\ SameBelief(y0, y) /\ y.unsent = y0.unsent /\ y.queries = y0.queries
        /\ y.mail = y0.mail /\ y.early = y0.early /\ y.provisional = y0.provisional
    BY <1>1 DEF SameBelief, TxOK, TxInit
  <1> HIDE DEF y0
  <1>3. TxOK(ev, y)
    BY <1>1, <1>2, OtherFieldsOK
  <1>4. /\ SameBelief(y, z) /\ z.unsent = y.unsent /\ z.queries = y.queries
        /\ z.mail = y.mail /\ z.early = y.early /\ z.provisional = y.provisional
    BY <1>3 DEF SameBelief, TxOK, TxInit
  <1> HIDE DEF y
  <1>5. TxOK(ev, z)
    BY <1>3, <1>4, OtherFieldsOK
  <1> HIDE DEF z
  <1>6. TxOK(ev, a) /\ SameBelief(z, a) /\ Open(a) = Open(z)
    BY <1>5, AwaitOK
  <1> HIDE DEF a
  <1>7. TxOK(ev, b)
    <2>1. /\ SameBelief(a, b) /\ b.unsent = Burst(z) /\ b.queries = a.queries
          /\ b.mail = a.mail /\ b.early = None /\ b.provisional = None
      BY <1>6 DEF SameBelief, TxOK, TxInit
    <2> HIDE DEF b
    <2>2. MailOK(ev, b)
      BY <1>6, <2>1 DEF MailOK, TxOK
    <2>3. \A u \in b.unsent : u[1] \in Packets /\ a.id[u[1]] \in Ids
      BY <1>6, <2>1, BurstOpen DEF TxOK, Open
    <2>4. \A q \in b.queries : q.keys \subseteq Keys
      BY <1>6, <2>1 DEF TxOK
    <2>5. QED BY <1>6, <2>1, <2>2, <2>3, <2>4, SameBeliefOK
  <1>8. TxOK(ev, Query(z)) /\ TxOK(ev, Rest(y))
    BY <1>3, <1>5, QueryOK, RestOK
  <1>9. TxOK(ev, EndWindow(x, IF x.unanswered = Rounds THEN "false" ELSE "text"))
    BY EndWindowOK
  <1>10. Begin(x, r, late) \in {EndWindow(x, IF x.unanswered = Rounds THEN "false" ELSE "text"),
                                Rest(y), b, Query(z)}
    BY DEF Begin, y0, y, z, a
  <1>11. QED BY <1>7, <1>8, <1>9, <1>10

LEMMA BeginNextOK ==
  ASSUME NEW ev, NEW x, TxOK(ev, x), BeginNext(x)
  PROVE  TxOK(ev, tx')
  BY BeginOK DEF BeginNext

LEMMA AnsweredOK ==
  ASSUME NEW ev, NEW x, TxOK(ev, x), NEW w, WordOK(ev, w), Answered(x, w)
  PROVE  TxOK(ev, tx')
  <1> DEFINE y == Apply(Unwait(x, x.inRound), w)
             strikes == IF x.burst /\ HeldTotal(y) <= HeldTotal(x) THEN x.empty + 1 ELSE 0
             z == [y EXCEPT !.inARow = 0, !.empty = strikes]
  <1>1. TxOK(ev, y)
    BY UnwaitOK, ApplyOK
  <1> HIDE DEF y
  <1>2. /\ SameBelief(y, z) /\ z.unsent = y.unsent /\ z.queries = y.queries
        /\ z.mail = y.mail /\ z.early = y.early /\ z.provisional = y.provisional
    BY <1>1 DEF SameBelief, TxOK, TxInit
  <1>3. TxOK(ev, z)
    BY <1>1, <1>2, OtherFieldsOK
  <1>4. \/ tx' = Rest(y) \/ tx' = EndWindow(z, "text") \/ BeginNext(z)
    BY DEF Answered, y, z
  <1> HIDE DEF z
  <1>5. QED BY <1>1, <1>3, <1>4, RestOK, EndWindowOK, BeginNextOK

-----------------------------------------------------------------------------
(* The sender's steps. *)

\* A packet's new identifier is an identifier.
LEMMA NumberedType ==
  ASSUME tx.nextId \in Ids, NEW fresh \in SUBSET Packets, NEW p \in Packets
  PROVE  Numbered(fresh, p) \in Ids /\ (tx.nextId + Cardinality(fresh)) % IdMod \in Ids
  <1>1. IsFiniteSet(Packets) /\ IdMod \in Nat \ {0}
    BY SizeAssumption, FS_Interval DEF Packets
  <1>2. Cardinality(fresh) \in Nat /\ Cardinality({q \in fresh : q < p}) \in Nat
    BY <1>1, FS_Subset, FS_CardinalityType
  <1>3. \A i \in Ids, n \in Nat : (i + n) % IdMod \in Ids
    BY <1>1 DEF Ids
  <1>4. QED BY <1>2, <1>3 DEF Numbered

LEMMA OpenWindowOK ==
  ASSUME Inv, NEW S \in SUBSET Packets, NEW fresh \in SUBSET S, NEW c, OpenWindow(S, fresh, c)
  PROVE  TxOK(rx.ever, tx')
  <1> DEFINE ev == rx.ever
             x == [tx EXCEPT
                !.win = @ + 1, !.parts = S, !.cut = c,
                !.nextId = (@ + Cardinality(fresh)) % IdMod,
                !.id = [p \in Packets |-> IF p \in fresh THEN Numbered(fresh, p)
                                          ELSE IF p \in S THEN tx.resumable[p].id ELSE tx.id[p]],
                !.acked = [p \in Packets |-> IF p \in fresh THEN {}
                                             ELSE IF p \in S THEN tx.resumable[p].acked ELSE tx.acked[p]],
                !.result = [p \in Packets |-> IF p \in S THEN "open" ELSE tx.result[p]],
                !.resumable = [p \in Packets |-> IF p \in S THEN None ELSE tx.resumable[p]]]
  <1>0. TxOK(ev, tx)
    BY DEF Inv
  <1>1. /\ DOMAIN x = DOMAIN TxInit /\ x.parts = S
        /\ x.nextId = (tx.nextId + Cardinality(fresh)) % IdMod
        /\ x.id = [p \in Packets |-> IF p \in fresh THEN Numbered(fresh, p)
                                     ELSE IF p \in S THEN tx.resumable[p].id ELSE tx.id[p]]
        /\ x.acked = [p \in Packets |-> IF p \in fresh THEN {}
                                        ELSE IF p \in S THEN tx.resumable[p].acked ELSE tx.acked[p]]
        /\ x.resumable = [p \in Packets |-> IF p \in S THEN None ELSE tx.resumable[p]]
        /\ x.unsent = tx.unsent /\ x.queries = tx.queries
        /\ x.mail = tx.mail /\ x.early = tx.early /\ x.provisional = tx.provisional
    BY <1>0 DEF TxOK, TxInit
  <1>9. tx' = Begin(x, 0, {})
    BY DEF OpenWindow
  <1> HIDE DEF x
  <1>2. \A p \in S \ fresh : tx.resumable[p] # None
    BY DEF OpenWindow
  <1>3. x.nextId \in Ids /\ \A p \in fresh : Numbered(fresh, p) \in Ids
    <2>1. tx.nextId \in Ids /\ 1 \in Packets
      BY <1>0, SizeAssumption DEF TxOK, Packets
    <2>2. QED BY <1>1, <2>1, NumberedType
  <1>4. ASSUME NEW p \in S PROVE x.id[p] \in Ids /\ x.acked[p] \subseteq ev[Key(x, p)]
    <2>1. CASE p \in fresh
      BY <1>1, <1>3, <2>1
    <2>2. CASE p \notin fresh
      <3>1. x.id[p] = tx.resumable[p].id /\ x.acked[p] = tx.resumable[p].acked
        BY <1>1, <2>2
      <3>2. QED BY <1>0, <1>2, <2>2, <3>1 DEF TxOK, Key
    <2>3. QED BY <2>1, <2>2
  <1>5. x.id \in [Packets -> Ids \union {None}]
    <2>1. ASSUME NEW p \in Packets PROVE x.id[p] \in Ids \union {None}
      <3>1. CASE p \in S
        BY <1>4, <3>1
      <3>2. CASE p \notin S
        <4>1. x.id[p] = tx.id[p]
          BY <1>1, <3>2
        <4>2. QED BY <1>0, <4>1 DEF TxOK
      <3>3. QED BY <3>1, <3>2
    <2>2. QED BY <1>1, <2>1
  <1>6. \A p \in Packets : x.resumable[p] # None =>
            /\ x.resumable[p].id \in Ids
            /\ x.resumable[p].acked \subseteq ev[<<x.resumable[p].id, Frags[p]>>]
    BY <1>0, <1>1 DEF TxOK
  <1>7. ASSUME NEW u \in x.unsent PROVE u[1] \in Packets /\ x.id[u[1]] \in Ids
    <2>1. u[1] \in Packets /\ tx.id[u[1]] \in Ids
      BY <1>0, <1>1, <1>7 DEF TxOK
    <2>2. u[1] \notin S => x.id[u[1]] = tx.id[u[1]]
      BY <1>1, <2>1
    <2>3. QED BY <1>4, <2>1, <2>2
  <1>8. TxOK(ev, x)
    <2>1. MailOK(ev, x)
      BY <1>0, <1>1 DEF MailOK, TxOK
    <2>2. Open(x) \subseteq S
      BY <1>1 DEF Open
    <2>3. QED BY <1>0, <1>1, <1>3, <1>4, <1>5, <1>6, <1>7, <2>1, <2>2 DEF TxOK
  <1>10. QED BY <1>8, <1>9, BeginOK

\* A frame that goes out bears a key, and the burst is shorter by it.
LEMMA SendFrameOK ==
  ASSUME Inv, SendFrame
  PROVE  TxOK(rx.ever, tx') /\ \A f \in air' : f.key \in Keys
  <1>0. TxOK(rx.ever, tx)
    BY DEF Inv
  <1>1. PICK f \in tx.unsent :
          /\ air' = air \union {FrameOf(tx, f)}
          /\ tx' = [tx EXCEPT !.unsent = @ \ {f},
                              !.phase = IF tx.unsent = {f} THEN "report" ELSE "burst",
                              !.airborne = tx.unsent = {f},
                              !.atEntry = tx.unsent = {f} /\ tx.mail # None]
    BY DEF SendFrame
  <1>2. FrameOf(tx, f).key \in Keys
    BY <1>0, KeyType DEF FrameOf, Key, TxOK
  <1>3. /\ SameBelief(tx, tx') /\ tx'.unsent \subseteq tx.unsent /\ tx'.queries = tx.queries
        /\ tx'.mail = tx.mail /\ tx'.early = tx.early /\ tx'.provisional = tx.provisional
    BY <1>0, <1>1 DEF SameBelief, TxOK, TxInit
  <1>4. TxOK(rx.ever, tx')
    BY <1>0, <1>3, OtherFieldsOK
  <1>5. QED BY <1>1, <1>2, <1>4 DEF Inv

LEMMA TakeEarlyOK ==
  ASSUME Inv, TakeEarly
  PROVE  TxOK(rx.ever, tx')
  <1> DEFINE e == [tx EXCEPT !.early = tx.mail, !.atEntry = FALSE]
             x == Apply(e, tx.mail)
  <1>0. TxOK(rx.ever, tx) /\ WordOK(rx.ever, tx.mail)
    BY DEF Inv, TxOK, MailOK, TakeEarly
  <1>1. TxOK(rx.ever, e)
    <2>1. /\ SameBelief(tx, e) /\ e.unsent = tx.unsent /\ e.queries = tx.queries
          /\ e.mail = tx.mail /\ e.early = tx.mail /\ e.provisional = tx.provisional
      BY <1>0 DEF SameBelief, TxOK, TxInit
    <2>2. QED BY <1>0, <2>1, OtherFieldsOK
  <1>2. TxOK(rx.ever, x)
    BY <1>0, <1>1, ApplyOK
  <1>3. Answered(x, tx.mail) \/ tx' = Await(x, x.inRound, <<"report", x.rnd % 4>>)
    BY DEF TakeEarly
  <1> HIDE DEF x
  <1>4. QED BY <1>0, <1>2, <1>3, AnsweredOK, AwaitOK

LEMMA TakeReportOK ==
  ASSUME Inv, TakeReport
  PROVE  TxOK(rx.ever, tx')
  <1> DEFINE a == Await(tx, tx.inRound, <<"report", tx.rnd % 4>>)
             x == [a EXCEPT !.provisional = tx.mail]
  <1>0. TxOK(rx.ever, tx) /\ WordOK(rx.ever, tx.mail)
    BY DEF Inv, TxOK, MailOK, TakeReport
  <1>1. TxOK(rx.ever, a)
    BY <1>0, AwaitOK
  <1> HIDE DEF a
  <1>2. TxOK(rx.ever, x)
    <2>1. /\ SameBelief(a, x) /\ x.unsent = a.unsent /\ x.queries = a.queries
          /\ x.mail = a.mail /\ x.early = a.early /\ x.provisional = tx.mail
      BY <1>1 DEF SameBelief, TxOK, TxInit
    <2>2. MailOK(rx.ever, x)
      BY <1>0, <1>1, <2>1 DEF MailOK, TxOK
    <2>3. /\ \A u \in x.unsent : u[1] \in Packets /\ a.id[u[1]] \in Ids
          /\ \A q \in x.queries : q.keys \subseteq Keys
      BY <1>1, <2>1 DEF TxOK
    <2>4. QED BY <1>1, <2>1, <2>2, <2>3, SameBeliefOK
  <1>3. tx' = x \/ Answered(tx, tx.mail)
    BY DEF TakeReport, a
  <1> HIDE DEF x
  <1>4. QED BY <1>0, <1>2, <1>3, AnsweredOK

LEMMA ReportTimeoutOK ==
  ASSUME Inv, ReportTimeout
  PROVE  TxOK(rx.ever, tx')
  <1>0. TxOK(rx.ever, tx)
    BY DEF Inv
  <1>1. CASE tx.provisional # None /\ Answered(tx, tx.provisional)
    BY <1>0, <1>1, AnsweredOK DEF TxOK, MailOK
  <1>2. CASE tx.early # None /\ Answered(tx, tx.early)
    BY <1>0, <1>2, AnsweredOK DEF TxOK, MailOK
  <1>3. CASE tx' = Query(Unwait(tx, tx.inRound))
    BY <1>0, <1>3, UnwaitOK, QueryOK
  <1>4. QED BY <1>1, <1>2, <1>3 DEF ReportTimeout

LEMMA ReportProvedOK ==
  ASSUME Inv, ReportProved
  PROVE  TxOK(rx.ever, tx')
  <1> DEFINE u == Unwait(tx, tx.inRound)
             x == [u EXCEPT
                    !.acked = [p \in Packets |-> IF p \in tx.inRound THEN 1..Frags[p] ELSE @[p]],
                    !.resumable = [p \in Packets |-> IF p \in tx.inRound THEN None ELSE @[p]]]
             y == Resolve(x, Open(tx), "true")
  <1>1. TxOK(rx.ever, u) /\ Open(u) = Open(tx)
    BY UnwaitOK DEF Inv
  <1> HIDE DEF u
  <1>2. /\ DOMAIN y = DOMAIN u /\ y.parts = u.parts /\ y.nextId = u.nextId /\ y.id = u.id
        /\ y.unsent = u.unsent /\ y.queries = u.queries
        /\ y.mail = u.mail /\ y.early = u.early /\ y.provisional = u.provisional
        /\ y.result = [p \in Packets |-> IF p \in Open(tx) THEN "true" ELSE u.result[p]]
        /\ y.resumable = [p \in Packets |-> IF p \in tx.inRound THEN None ELSE u.resumable[p]]
    BY <1>1 DEF Resolve, TxOK, TxInit
  <1>3. tx' = Rest(y)
    BY DEF ReportProved, u
  <1> HIDE DEF y
  <1>4. Open(y) = {}
    BY <1>1, <1>2 DEF Open, TxOK
  <1>5. \A p \in Packets : y.resumable[p] # None =>
            /\ y.resumable[p].id \in Ids
            /\ y.resumable[p].acked \subseteq rx.ever[<<y.resumable[p].id, Frags[p]>>]
    BY <1>1, <1>2 DEF TxOK
  <1>6. MailOK(rx.ever, y)
    BY <1>1, <1>2 DEF MailOK, TxOK
  <1>7. TxOK(rx.ever, y)
    BY <1>1, <1>2, <1>4, <1>5, <1>6 DEF TxOK
  <1>8. QED BY <1>3, <1>7, RestOK

LEMMA TakeAnswerOK ==
  ASSUME Inv, TakeAnswer
  PROVE  TxOK(rx.ever, tx')
  <1>1. TxOK(rx.ever, tx) /\ WordOK(rx.ever, tx.mail)
    BY DEF Inv, TxOK, MailOK, TakeAnswer
  <1>2. QED BY <1>1, UnwaitOK, AnsweredOK DEF TakeAnswer

LEMMA QueryTimeoutOK ==
  ASSUME Inv, QueryTimeout
  PROVE  TxOK(rx.ever, tx')
  <1> DEFINE x == Unwait(tx, Open(tx))
             y == [x EXCEPT !.unanswered = @ + 1, !.inARow = @ + 1]
  <1>1. TxOK(rx.ever, x)
    BY UnwaitOK DEF Inv
  <1> HIDE DEF x
  <1>2. TxOK(rx.ever, y)
    <2>1. /\ SameBelief(x, y) /\ y.unsent = x.unsent /\ y.queries = x.queries
          /\ y.mail = x.mail /\ y.early = x.early /\ y.provisional = x.provisional
      BY <1>1 DEF SameBelief, TxOK, TxInit
    <2>2. QED BY <1>1, <2>1, OtherFieldsOK
  <1>3. tx' = Query(x) \/ BeginNext(y) \/ tx' = EndWindow(x, "false")
    BY DEF QueryTimeout, x
  <1> HIDE DEF y
  <1>4. QED BY <1>1, <1>2, <1>3, QueryOK, BeginNextOK, EndWindowOK

\* The sender's steps, a word that reaches it and a restart included.
SenderSide ==
    \/ SenderStep \/ BurstEnds \/ AbortBurst \/ Restart
    \/ \E S \in (SUBSET Packets) \ {{}} : \E fresh \in SUBSET S, c \in Cuts : OpenWindow(S, fresh, c)
    \/ \E w \in rx.words : Hear(w)
    \/ \E p \in Packets : HearProof(p)

\* They keep its beliefs true and its frames numbered.
LEMMA SenderInv ==
  ASSUME Inv, SenderSide
  PROVE  Inv'
  <1>0. TxOK(rx.ever, tx) /\ RxOK(rx) /\ \A f \in air : f.key \in Keys
    BY DEF Inv
  <1>1. CASE SendFrame
    <2>1. UNCHANGED rx
      BY <1>1 DEF SendFrame
    <2>2. QED BY <1>0, <1>1, <2>1, SendFrameOK DEF Inv
  <1>2. ASSUME TxOK(rx.ever, tx'), UNCHANGED <<rx, air>>
        PROVE  Inv'
    BY <1>0, <1>2 DEF Inv
  <1>3. CASE SenderStep /\ ~SendFrame
    <2>1. UNCHANGED <<rx, air>>
      BY <1>3 DEF SenderStep, TakeEarly, TakeReport, ReportTimeout, ReportProved, TakeAnswer,
                  QueryTimeout
    <2>2. TxOK(rx.ever, tx')
      BY <1>3, TakeEarlyOK, TakeReportOK, ReportTimeoutOK, ReportProvedOK, TakeAnswerOK,
         QueryTimeoutOK DEF SenderStep
    <2>3. QED BY <1>2, <2>1, <2>2
  <1>4. CASE BurstEnds
    <2>1. /\ SameBelief(tx, tx') /\ tx'.unsent = tx.unsent /\ tx'.queries = tx.queries
          /\ tx'.mail = tx.mail /\ tx'.early = tx.early /\ tx'.provisional = tx.provisional
      BY <1>0, <1>4 DEF BurstEnds, SameBelief, TxOK, TxInit
    <2>2. TxOK(rx.ever, tx')
      BY <1>0, <2>1, OtherFieldsOK
    <2>3. QED BY <1>2, <1>4, <2>2 DEF BurstEnds
  <1>5. CASE AbortBurst
    BY <1>0, <1>2, <1>5, EndWindowOK DEF AbortBurst
  <1>6. CASE Restart
    <2>1. /\ DOMAIN tx' = DOMAIN TxInit /\ tx'.parts = {} /\ tx'.nextId = 0
          /\ tx'.id = [p \in Packets |-> None] /\ tx'.resumable = [p \in Packets |-> None]
          /\ tx'.unsent = {} /\ tx'.queries = tx.queries
          /\ tx'.mail = None /\ tx'.early = None /\ tx'.provisional = None
      BY <1>6 DEF Restart, TxInit
    <2>2. 0 \in Ids /\ Open(tx') = {}
      BY <2>1, SizeAssumption DEF Ids, Open
    <2>3. TxOK(rx.ever, tx')
      BY <1>0, <2>1, <2>2 DEF TxOK, MailOK
    <2>4. QED BY <1>2, <1>6, <2>3 DEF Restart
  <1>7. CASE \E S \in (SUBSET Packets) \ {{}} : \E fresh \in SUBSET S, c \in Cuts : OpenWindow(S, fresh, c)
    <2>1. TxOK(rx.ever, tx')
      BY <1>7, OpenWindowOK
    <2>2. QED BY <1>2, <1>7, <2>1 DEF OpenWindow
  <1>8. ASSUME NEW w \in rx.words, Hear(w) PROVE Inv'
    <2>1. /\ SameBelief(tx, tx') /\ tx'.unsent = tx.unsent /\ tx'.queries = tx.queries
          /\ tx'.mail = w /\ tx'.early = tx.early /\ tx'.provisional = tx.provisional
      BY <1>0, <1>8 DEF Hear, SameBelief, TxOK, TxInit
    <2>2. MailOK(rx.ever, tx')
      BY <1>0, <2>1 DEF MailOK, TxOK, RxOK
    <2>3. /\ \A u \in tx'.unsent : u[1] \in Packets /\ tx.id[u[1]] \in Ids
          /\ \A q \in tx'.queries : q.keys \subseteq Keys
      BY <1>0, <2>1 DEF TxOK
    <2>4. TxOK(rx.ever, tx')
      BY <1>0, <2>1, <2>2, <2>3, SameBeliefOK
    <2>5. QED BY <1>2, <1>8, <2>4 DEF Hear
  <1>9. ASSUME NEW p \in Packets, HearProof(p) PROVE Inv'
    <2>1. /\ SameBelief(tx, tx') /\ tx'.unsent = tx.unsent /\ tx'.queries = tx.queries
          /\ tx'.mail = tx.mail /\ tx'.early = tx.early /\ tx'.provisional = tx.provisional
      BY <1>0, <1>9 DEF HearProof, SameBelief, TxOK, TxInit
    <2>2. TxOK(rx.ever, tx')
      BY <1>0, <2>1, OtherFieldsOK
    <2>3. QED BY <1>2, <1>9, <2>2 DEF HearProof
  <1>10. QED BY <1>1, <1>3, <1>4, <1>5, <1>6, <1>7, <1>8, <1>9 DEF SenderSide

-----------------------------------------------------------------------------
(* The receiver. *)

\* The bucket of a key holds fragments that were held.
LEMMA BucketHeld ==
  ASSUME NEW y, RxOK(y), NEW k \in Keys
  PROVE  Held(Bucket(y, k)) \subseteq y.ever[k]
  <1>1. Held(EmptyBucket) = {}
    BY DEF Held, EmptyBucket
  <1>2. QED BY <1>1 DEF Bucket, RxOK

\* An entry of an answer, or of the rest of a report, is true.
LEMMA EntryOK ==
  ASSUME NEW y, RxOK(y), NEW k \in Keys
  PROVE  /\ Entry(y, k).key = k /\ Entry(y, k).held \subseteq y.ever[k]
         /\ Entry(y, k).complete => 1..k[2] \subseteq y.ever[k]
         /\ k \in y.done => Entry(y, k).complete
  BY BucketHeld DEF Entry, RxOK, Whole

\* A report is true.
LEMMA ReportOK ==
  ASSUME NEW y, RxOK(y), NEW k \in Keys, NEW r, NEW complete \in BOOLEAN,
         complete => Whole(y, k)
  PROVE  RxOK(Report(y, k, r, complete)) /\ Report(y, k, r, complete).ever = y.ever
  <1> DEFINE first == [key |-> k, complete |-> complete,
                       held |-> IF complete THEN 1..k[2] ELSE Held(Bucket(y, k))]
             word == [nonce |-> <<"report", r % 4>>,
                      entries |-> {first} \union {Entry(y, j) : j \in y.recent \ {k}}]
             z == Report(y, k, r, complete)
  <1>1. /\ DOMAIN z = DOMAIN y /\ z.ever = y.ever /\ z.bucket = y.bucket /\ z.done = y.done
        /\ z.recent = y.recent /\ z.tail = None /\ z.grace = None
        /\ z.words = y.words \union {word}
    BY DEF Report, RxOK, RxInit
  <1>2. first.held \subseteq y.ever[k] /\ (first.complete => 1..k[2] \subseteq y.ever[k])
    BY BucketHeld DEF Whole
  <1>3. WordOK(y.ever, word)
    <2>1. ASSUME NEW j \in y.recent
          PROVE  /\ Entry(y, j).key \in Keys /\ Entry(y, j).held \subseteq y.ever[Entry(y, j).key]
                 /\ Entry(y, j).complete => 1..Entry(y, j).key[2] \subseteq y.ever[Entry(y, j).key]
      BY EntryOK DEF RxOK
    <2>2. first.key = k
      OBVIOUS
    <2>3. word.entries = {first} \union {Entry(y, j) : j \in y.recent \ {k}}
      OBVIOUS
    <2> HIDE DEF first, word
    <2>4. QED BY <1>2, <2>1, <2>2, <2>3 DEF WordOK
  <1>4. RxOK(z)
    BY <1>1, <1>3 DEF RxOK, Whole
  <1>5. QED BY <1>1, <1>4

\* More was held and a key is remembered: what was true stays true.
LEMMA RxGrows ==
  ASSUME NEW y, NEW z, RxOK(y), DOMAIN z = DOMAIN y, DOMAIN z.ever = Keys,
         Grows(y.ever, z.ever), y.recent \subseteq z.recent, z.recent \subseteq Keys,
         z.bucket = y.bucket, z.done = y.done, z.tail = y.tail, z.grace = y.grace,
         z.words = y.words
  PROVE  RxOK(z)
  <1>1. \A w : WordOK(y.ever, w) => WordOK(z.ever, w)
    BY DEF WordOK, Grows
  <1>2. \A k : Whole(y, k) => Whole(z, k)
    BY DEF Whole, Grows
  <1>3. \A k \in Keys : y.bucket[k] # None => Held(y.bucket[k]) \subseteq z.ever[k]
    BY DEF RxOK, Grows
  <1> QED BY <1>1, <1>2, <1>3 DEF RxOK

\* A full bucket goes to RNS and is reported, now or soon.
LEMMA DeliverOK ==
  ASSUME NEW y, RxOK(y), NEW k, Whole(y, k), k \in y.recent, NEW r, NEW b,
         NEW t \in Deliver(y, k, r, b)
  PROVE  RxOK(t) /\ t.ever = y.ever
  <1> DEFINE whole == {p \in Packets : \E c \in Cuts : Content(p, c) = b.got}
             z == [y EXCEPT !.bucket[k] = None, !.done = @ \union {k}, !.gaps[k] = None,
                            !.delivered = @ \union whole, !.garbled = @ \/ whole = {}]
  <1>1. k \in Keys
    BY DEF Whole
  <1>2. /\ DOMAIN z = DOMAIN y /\ z.ever = y.ever /\ z.recent = y.recent
        /\ z.bucket = [y.bucket EXCEPT ![k] = None] /\ z.done = y.done \union {k}
        /\ z.tail = y.tail /\ z.grace = y.grace /\ z.words = y.words
    BY DEF RxOK, RxInit
  <1>3. \/ \E p : t = [z EXCEPT !.grace = [key |-> k, round |-> r, packet |-> p]]
        \/ t = Report(z, k, r, TRUE)
        \/ t = [z EXCEPT !.tail = [key |-> k, round |-> r]]
    BY DEF Deliver
  <1> HIDE DEF z, whole
  <1>4. RxOK(z)
    <2>1. \A j \in Keys : z.bucket[j] # None => Held(z.bucket[j]) \subseteq z.ever[j]
      BY <1>1, <1>2 DEF RxOK
    <2>2. QED BY <1>1, <1>2, <2>1 DEF RxOK, Whole
  <1>5. ASSUME NEW p, t = [z EXCEPT !.grace = [key |-> k, round |-> r, packet |-> p]]
        PROVE  RxOK(t) /\ t.ever = y.ever
    <2>1. /\ DOMAIN t = DOMAIN z /\ t.ever = z.ever /\ t.recent = z.recent /\ t.bucket = z.bucket
          /\ t.done = z.done /\ t.tail = z.tail /\ t.words = z.words /\ t.grace.key = k
      BY <1>4, <1>5 DEF RxOK, RxInit
    <2>2. QED BY <1>2, <1>4, <1>5, <2>1 DEF RxOK, Whole
  <1>6. CASE t = Report(z, k, r, TRUE)
    <2>1. Whole(z, k)
      BY <1>2 DEF Whole
    <2>2. RxOK(t) /\ t.ever = z.ever
      BY <1>1, <1>4, <1>6, <2>1, ReportOK
    <2>3. QED BY <1>2, <2>2
  <1>7. CASE t = [z EXCEPT !.tail = [key |-> k, round |-> r]]
    <2>1. /\ DOMAIN t = DOMAIN z /\ t.ever = z.ever /\ t.recent = z.recent /\ t.bucket = z.bucket
          /\ t.done = z.done /\ t.grace = z.grace /\ t.words = z.words
          /\ t.tail = [key |-> k, round |-> r] /\ t.tail.key = k
      BY <1>4, <1>7 DEF RxOK, RxInit
    <2>2. RxOK(t)
      BY <1>2, <1>4, <2>1 DEF RxOK, Whole
    <2>3. QED BY <1>2, <2>1, <2>2
  <1>8. QED BY <1>3, <1>5, <1>6, <1>7

\* A frame of a numbered packet adds to what was held, whatever the parity makes
\* of it.
LEMMA ReceiveOK ==
  ASSUME NEW y, RxOK(y), NEW f, f.key \in Keys, NEW t \in Receive(y, f)
  PROVE  RxOK(t) /\ Grows(y.ever, t.ever)
  <1> DEFINE k == f.key
             b == Bucket(y, k)
             i == CHOOSE i \in f.over : TRUE
             flag == [b EXCEPT !.tail = @ \/ f.flagged]
             took == IF f.parity
                     THEN [flag EXCEPT !.parity = {m \in @ : m.over # f.over} \union
                                                  {[over |-> f.over, data |-> f.data]}]
                     ELSE IF i \in Held(b) THEN flag ELSE Store(flag, i, f.data)
             full == Solve(took, k[2])
             z == [y EXCEPT !.recent = @ \union {k}, !.ever[k] = @ \union Held(full)]
  <1>1. \/ t = z
        \/ k \in y.done /\ t = Report(z, k, f.round, TRUE)
        \/ \E g : t = [z EXCEPT !.bucket[k] = None, !.gaps[k] = g]
        \/ Held(full) = 1..k[2] /\ t \in Deliver(z, k, f.round, full)
        \/ \E g : t = [z EXCEPT !.bucket[k] = full, !.gaps[k] = g]
    BY DEF Receive
  <1> HIDE DEF full
  <1>2. /\ DOMAIN z = DOMAIN y /\ z.recent = y.recent \union {k}
        /\ z.ever = [y.ever EXCEPT ![k] = @ \union Held(full)]
        /\ z.bucket = y.bucket /\ z.done = y.done /\ z.tail = y.tail /\ z.grace = y.grace
        /\ z.words = y.words
    BY DEF RxOK, RxInit
  <1> HIDE DEF z
  <1>3. /\ DOMAIN z.ever = Keys /\ Grows(y.ever, z.ever) /\ Held(full) \subseteq z.ever[k]
        /\ y.recent \subseteq z.recent /\ z.recent \subseteq Keys /\ k \in z.recent
    BY <1>2 DEF RxOK, Grows
  <1>4. RxOK(z)
    BY <1>2, <1>3, RxGrows
  <1>5. CASE k \in y.done /\ t = Report(z, k, f.round, TRUE)
    <2>1. Whole(z, k)
      BY <1>2, <1>4, <1>5 DEF RxOK
    <2>2. RxOK(t) /\ t.ever = z.ever
      BY <1>4, <1>5, <2>1, ReportOK
    <2>3. QED BY <1>3, <2>2
  <1>6. ASSUME NEW d, NEW g, t = [z EXCEPT !.bucket[k] = d, !.gaps[k] = g],
               d # None => Held(d) \subseteq z.ever[k]
        PROVE  RxOK(t) /\ t.ever = z.ever
    <2>1. /\ DOMAIN t = DOMAIN z /\ t.ever = z.ever /\ t.recent = z.recent
          /\ t.bucket = [z.bucket EXCEPT ![k] = d] /\ t.done = z.done
          /\ t.tail = z.tail /\ t.grace = z.grace /\ t.words = z.words
      BY <1>4, <1>6 DEF RxOK, RxInit
    <2>2. \A j \in Keys : t.bucket[j] # None => Held(t.bucket[j]) \subseteq t.ever[j]
      BY <1>4, <1>6, <2>1 DEF RxOK
    <2>3. RxOK(t)
      BY <1>4, <2>1, <2>2 DEF RxOK, Whole
    <2>4. QED BY <2>1, <2>3
  <1>7. CASE \E g : t = [z EXCEPT !.bucket[k] = None, !.gaps[k] = g]
    BY <1>3, <1>4, <1>6, <1>7
  <1>8. CASE \E g : t = [z EXCEPT !.bucket[k] = full, !.gaps[k] = g]
    BY <1>3, <1>4, <1>6, <1>8
  <1>9. CASE Held(full) = 1..k[2] /\ t \in Deliver(z, k, f.round, full)
    <2>1. Whole(z, k)
      BY <1>3, <1>9 DEF Whole
    <2>2. QED BY <1>3, <1>4, <1>9, <2>1, DeliverOK
  <1>10. CASE t = z
    BY <1>3, <1>4, <1>10
  <1>11. QED BY <1>1, <1>5, <1>7, <1>8, <1>9, <1>10

\* The receiver's steps.
ReceiverStep ==
    \/ \E f \in air : ReceiveFrame(f)
    \/ \E k \in Keys : FireGaps(k) \/ Evict(k) \/ Forget(k)
    \/ \E p \in Packets : Prove(p)
    \/ FireTail \/ EndGrace
    \/ \E q \in tx.queries : AnswerQuery(q)
    \/ \E w \in rx.words : RetryReport(w)

\* An answer, or a report sent again, says what is held now of keys the receiver
\* knows.
LEMMA TellsWhat ==
  ASSUME Inv
  PROVE  /\ \A q \in tx.queries : AnswerQuery(q) => q.keys \subseteq Keys /\ Tell(q.nonce, q.keys)
         /\ \A w \in rx.words : RetryReport(w) => rx.recent \subseteq Keys /\ Tell(w.nonce, rx.recent)
  BY DEF Inv, TxOK, RxOK, AnswerQuery, RetryReport

\* A change of the receiver that adds no word, no memory and no bucket.
LEMMA RxShrinks ==
  ASSUME NEW y, NEW z, RxOK(y), DOMAIN z = DOMAIN y, z.ever = y.ever,
         DOMAIN z.bucket = Keys, \A k \in Keys : z.bucket[k] \in {y.bucket[k], None},
         z.done \subseteq y.done, z.recent = y.recent, z.words = y.words,
         z.tail = y.tail, z.grace \in {y.grace, None}
  PROVE  RxOK(z)
  <1>1. \A k \in Keys : z.bucket[k] # None => Held(z.bucket[k]) \subseteq z.ever[k]
    BY DEF RxOK
  <1> QED BY <1>1 DEF RxOK, Whole

LEMMA ReceiverOK ==
  ASSUME Inv, ReceiverStep
  PROVE  RxOK(rx') /\ Grows(rx.ever, rx'.ever) /\ UNCHANGED <<tx, air>>
  <1>0. TxOK(rx.ever, tx) /\ RxOK(rx) /\ Grows(rx.ever, rx.ever)
    BY DEF Inv, Grows
  <1>1. UNCHANGED <<tx, air>>
    BY DEF ReceiverStep, ReceiveFrame, FireGaps, Evict, Forget, Prove, FireTail, EndGrace,
           AnswerQuery, RetryReport, Tell, Hold
  <1>2. ASSUME NEW f \in air, ReceiveFrame(f)
        PROVE  RxOK(rx') /\ Grows(rx.ever, rx'.ever)
    BY <1>0, <1>2, ReceiveOK DEF ReceiveFrame, Inv
  <1>3. ASSUME NEW k \in Keys, FireGaps(k)
        PROVE  RxOK(rx') /\ Grows(rx.ever, rx'.ever)
    <2> DEFINE y == [rx EXCEPT !.gaps[k] = None]
    <2>1. RxOK(y) /\ y.ever = rx.ever
      <3>1. /\ DOMAIN y = DOMAIN rx /\ y.ever = rx.ever /\ y.bucket = rx.bucket
            /\ y.done = rx.done /\ y.recent = rx.recent /\ y.words = rx.words
            /\ y.tail = rx.tail /\ y.grace = rx.grace
        BY <1>0 DEF RxOK, RxInit
      <3>2. DOMAIN y.bucket = Keys
        BY <1>0, <3>1 DEF RxOK
      <3> HIDE DEF y
      <3>3. QED BY <1>0, <3>1, <3>2, RxShrinks
    <2>2. rx' = y \/ (k \notin rx.done /\ rx' = Report(y, k, rx.gaps[k], FALSE))
      BY <1>3 DEF FireGaps
    <2> HIDE DEF y
    <2>4. CASE rx' = y
      BY <1>0, <2>1, <2>4
    <2>5. CASE k \notin rx.done /\ rx' = Report(y, k, rx.gaps[k], FALSE)
      <3>1. RxOK(rx') /\ rx'.ever = rx.ever
        BY <2>1, <2>5, ReportOK
      <3>2. QED BY <1>0, <3>1
    <2>6. QED BY <2>2, <2>4, <2>5
  <1>4. CASE FireTail
    <2>1. Whole(rx, rx.tail.key) /\ rx.tail.key \in Keys
      BY <1>0, <1>4 DEF FireTail, RxOK, Whole
    <2>2. RxOK(rx') /\ rx'.ever = rx.ever
      BY <1>0, <1>4, <2>1, ReportOK DEF FireTail
    <2>3. QED BY <1>0, <1>1, <2>2
  <1>5. ASSUME NEW p \in Packets, Prove(p)
        PROVE  RxOK(rx') /\ Grows(rx.ever, rx'.ever)
    <2>1. /\ DOMAIN rx' = DOMAIN rx /\ rx'.ever = rx.ever /\ rx'.bucket = rx.bucket
          /\ rx'.done = rx.done /\ rx'.recent = rx.recent /\ rx'.words = rx.words
          /\ rx'.tail = rx.tail /\ rx'.grace = rx.grace /\ DOMAIN rx'.bucket = Keys
      BY <1>0, <1>5 DEF Prove, RxOK, RxInit
    <2>2. QED BY <1>0, <2>1, RxShrinks
  <1>6. CASE EndGrace
    <2>1. CASE rx' = [rx EXCEPT !.grace = None]
      <3>1. /\ DOMAIN rx' = DOMAIN rx /\ rx'.ever = rx.ever /\ rx'.bucket = rx.bucket
            /\ rx'.done = rx.done /\ rx'.recent = rx.recent /\ rx'.words = rx.words
            /\ rx'.tail = rx.tail /\ rx'.grace = None /\ DOMAIN rx'.bucket = Keys
        BY <1>0, <2>1 DEF RxOK, RxInit
      <3>2. QED BY <1>0, <1>1, <3>1, RxShrinks
    <2>2. CASE rx' = Report(rx, rx.grace.key, rx.grace.round, TRUE)
      <3>1. Whole(rx, rx.grace.key) /\ rx.grace.key \in Keys
        BY <1>0, <1>6 DEF EndGrace, RxOK, Whole
      <3>2. RxOK(rx') /\ rx'.ever = rx.ever
        BY <1>0, <2>2, <3>1, ReportOK
      <3>3. QED BY <1>0, <1>1, <3>2
    <2>3. QED BY <1>6, <2>1, <2>2 DEF EndGrace
  <1>7. ASSUME NEW nonce, NEW ks \in SUBSET Keys, Tell(nonce, ks)
        PROVE  RxOK(rx') /\ Grows(rx.ever, rx'.ever)
    <2> DEFINE word == [nonce |-> nonce, entries |-> {Entry(rx, k) : k \in ks}]
    <2>1. /\ DOMAIN rx' = DOMAIN rx /\ rx'.ever = rx.ever /\ rx'.bucket = rx.bucket
          /\ rx'.done = rx.done /\ rx'.recent = rx.recent /\ rx'.words = rx.words \union {word}
          /\ rx'.tail = rx.tail /\ rx'.grace = rx.grace
      BY <1>0, <1>7 DEF Tell, RxOK, RxInit
    <2>2. WordOK(rx.ever, word)
      <3>1. ASSUME NEW k \in ks
            PROVE  /\ Entry(rx, k).key \in Keys /\ Entry(rx, k).held \subseteq rx.ever[Entry(rx, k).key]
                   /\ Entry(rx, k).complete => 1..Entry(rx, k).key[2] \subseteq rx.ever[Entry(rx, k).key]
        BY <1>0, EntryOK
      <3>2. word.entries = {Entry(rx, k) : k \in ks}
        OBVIOUS
      <3> HIDE DEF word
      <3>3. QED BY <3>1, <3>2 DEF WordOK
    <2> HIDE DEF word
    <2>3. RxOK(rx')
      BY <1>0, <2>1, <2>2 DEF RxOK, Whole
    <2>4. QED BY <1>0, <2>1, <2>3
  <1>8. ASSUME NEW k \in Keys, Evict(k) \/ Forget(k)
        PROVE  RxOK(rx') /\ Grows(rx.ever, rx'.ever)
    <2>1. /\ DOMAIN rx' = DOMAIN rx /\ rx'.ever = rx.ever
          /\ rx'.bucket \in {rx.bucket, [rx.bucket EXCEPT ![k] = None]}
          /\ rx'.done \subseteq rx.done /\ rx'.recent = rx.recent /\ rx'.words = rx.words
          /\ rx'.tail = rx.tail /\ rx'.grace = rx.grace
      BY <1>0, <1>8 DEF Evict, Forget, RxOK, RxInit
    <2>2. DOMAIN rx'.bucket = Keys /\ \A j \in Keys : rx'.bucket[j] \in {rx.bucket[j], None}
      BY <1>0, <2>1 DEF RxOK
    <2>3. QED BY <1>0, <2>1, <2>2, RxShrinks
  <1>9. QED BY <1>1, <1>2, <1>3, <1>4, <1>5, <1>6, <1>7, <1>8, TellsWhat DEF ReceiverStep

-----------------------------------------------------------------------------
(* The theorems. *)

\* Initially nothing is believed, held or said.
LEMMA InitInv == Init => Inv
  <1> SUFFICES ASSUME Init PROVE Inv
    OBVIOUS
  <1>1. /\ tx.parts = {} /\ tx.nextId = 0 /\ tx.id = [p \in Packets |-> None]
        /\ tx.resumable = [p \in Packets |-> None] /\ tx.unsent = {} /\ tx.queries = {}
        /\ tx.mail = None /\ tx.early = None /\ tx.provisional = None
        /\ DOMAIN tx = DOMAIN TxInit
    BY DEF Init, TxInit
  <1>2. 0 \in Ids /\ Open(tx) = {}
    BY <1>1, SizeAssumption DEF Ids, Open
  <1>3. TxOK(rx.ever, tx)
    BY <1>1, <1>2 DEF TxOK, MailOK
  <1>4. /\ DOMAIN rx = DOMAIN RxInit /\ rx.ever = [k \in Keys |-> {}]
        /\ rx.bucket = [k \in Keys |-> None] /\ rx.done = {} /\ rx.recent = {}
        /\ rx.tail = None /\ rx.grace = None /\ rx.words = {}
    BY DEF Init, RxInit
  <1>5. RxOK(rx)
    BY <1>4 DEF RxOK
  <1>6. QED BY <1>3, <1>5 DEF Inv, Init

\* Every step is the sender's or the receiver's.
LEMMA NextInv ==
  ASSUME Inv, [Next]_vars
  PROVE  Inv'
  <1>1. CASE ReceiverStep
    <2>1. RxOK(rx') /\ Grows(rx.ever, rx'.ever) /\ UNCHANGED <<tx, air>>
      BY <1>1, ReceiverOK
    <2>2. TxOK(rx'.ever, tx)
      BY <2>1, TxGrows DEF Inv
    <2>3. QED BY <2>1, <2>2 DEF Inv
  <1>2. CASE SenderSide
    <2>1. UNCHANGED rx
      BY <1>2 DEF SenderSide, SenderStep, SendFrame, TakeEarly, TakeReport, ReportTimeout,
                  ReportProved, TakeAnswer, QueryTimeout, BurstEnds, AbortBurst, Restart, OpenWindow,
                  Hear, HearProof
    <2>2. QED BY <1>2, <2>1, SenderInv
  <1>3. CASE UNCHANGED vars
    BY <1>3 DEF vars, Inv
  <1>4. QED
    BY <1>1, <1>2, <1>3 DEF Next, SenderSide, ReceiverStep

\* The inductive invariant holds in every reachable state: every belief, word and
\* memory speaks only of fragments that were held.
THEOREM Invariance == Spec => []Inv
  <1>1. Init => Inv
    BY InitInv
  <1>2. Inv /\ [Next]_vars => Inv'
    BY NextInv
  <1>3. QED BY <1>1, <1>2, PTL DEF Spec

\* The sender leaves out of a burst only fragments the receiver held under the
\* packet's present identifier, for any packets, cuts, parity, identifiers that
\* wrap, and through evictions, expiries, aborted windows, resumed sends and
\* restarts (_apply_window_entries, _remember_resumable).
THEOREM AckedWasHeldHolds == Spec => []AckedWasHeld
  <1>1. Inv => AckedWasHeld
    BY DEF Inv, TxOK, AckedWasHeld
  <1>2. QED BY <1>1, Invariance, PTL

-----------------------------------------------------------------------------
(* Nothing garbled, and nothing confirmed in vain.

   own says which packet each identifier was given to. Under Regular an
   identifier is given once, so own only grows; a frame carries its
   identifier's packet, a bucket fills with it, the solver rebuilds it, and so
   what is delivered, reported and confirmed is it. Solve recurs once per
   parity a bucket holds: the first lemmas are the induction it needs. *)

\* A set that holds 0 and every successor of its elements holds every natural number.
LEMMA NatClosed ==
  ASSUME NEW T, 0 \in T, \A n \in Nat : n \in T => n + 1 \in T
  PROVE  Nat \subseteq T
  <1> DEFINE U == Nat \ T
  <1>1. SUFFICES ASSUME U # {} PROVE FALSE
    OBVIOUS
  <1>2. U \subseteq Nat /\ \A x \in U : x \notin T
    OBVIOUS
  <1>3. \A x \in Nat : x \notin T => x \in U
    OBVIOUS
  <1> HIDE DEF U
  <1>4. PICK x \in U : \A y \in U : <<y, x>> \notin OpToRel(<, Nat)
    BY WFMin, NatLessThanWellFounded, <1>1, <1>2, Zenon
  <1>5. \A y \in U : ~(y \in Nat /\ x \in Nat /\ y < x)
    BY <1>4, Zenon DEF OpToRel
  <1>6. x \in Nat /\ x # 0
    BY <1>2
  <1>7. x - 1 \in Nat /\ (x - 1) + 1 = x /\ x - 1 < x
    BY <1>6
  <1>8. x - 1 \in T
    BY <1>3, <1>5, <1>6, <1>7
  <1> QED BY <1>2, <1>7, <1>8

\* The recursion of Solve has a solution, however many parities a bucket holds.
LEMMA SolveSteps ==
  ASSUME NEW b, NEW total, NEW K \in Nat
  PROVE  \E g : g = [n \in 0..K |-> IF n = 0 THEN b ELSE SolveNext(g[n - 1], total)]
  <1> DEFINE T == {k \in Nat : \E g : g = [n \in 0..k |-> IF n = 0 THEN b ELSE SolveNext(g[n - 1], total)]}
  <1>1. 0 \in T
    <2> DEFINE g == [n \in 0..0 |-> b]
    <2>1. g = [n \in 0..0 |-> IF n = 0 THEN b ELSE SolveNext(g[n - 1], total)]
      OBVIOUS
    <2> QED BY <2>1
  <1>2. ASSUME NEW k \in Nat, k \in T PROVE k + 1 \in T
    <2>1. PICK g : g = [n \in 0..k |-> IF n = 0 THEN b ELSE SolveNext(g[n - 1], total)]
      BY <1>2
    <2> DEFINE h == [n \in 0..k + 1 |-> IF n = 0 THEN b ELSE SolveNext(g[n - 1], total)]
    <2>2. \A n \in 0..k : h[n] = g[n]
      BY <2>1
    <2>3. \A n \in 0..k + 1 : n # 0 => n - 1 \in 0..k
      OBVIOUS
    <2>4. \A n \in 0..k + 1 : n # 0 => h[n - 1] = g[n - 1]
      BY <2>2, <2>3
    <2>5. h = [n \in 0..k + 1 |-> IF n = 0 THEN b ELSE SolveNext(h[n - 1], total)]
      BY <2>4
    <2>6. k + 1 \in Nat
      OBVIOUS
    <2> HIDE DEF h
    <2> QED BY <2>5, <2>6
  <1> HIDE DEF T
  <1>3. Nat \subseteq T
    BY <1>1, <1>2, NatClosed
  <1> QED BY <1>3 DEF T

\* Solve is the last of its steps, one per parity held.
LEMMA SolveIs ==
  ASSUME NEW b, NEW total, Cardinality(b.parity) \in Nat
  PROVE  \E g : /\ g = [n \in 0..Cardinality(b.parity) |-> IF n = 0 THEN b ELSE SolveNext(g[n - 1], total)]
               /\ Solve(b, total) = g[Cardinality(b.parity)]
  <1> DEFINE K == Cardinality(b.parity)
             after == CHOOSE g : g = [n \in 0..K |-> IF n = 0 THEN b ELSE SolveNext(g[n - 1], total)]
  <1>1. after = [n \in 0..K |-> IF n = 0 THEN b ELSE SolveNext(after[n - 1], total)]
    BY SolveSteps
  <1>2. Solve(b, total) = after[K]
    BY DEF Solve
  <1> QED BY <1>1, <1>2

\* A bucket of packet p: some of its fragments, and parity over some of them.
Good(p, b) ==
    /\ DOMAIN b = DOMAIN EmptyBucket
    /\ Held(b) \subseteq 1..Frags[p]
    /\ b.got = [i \in Held(b) |-> {p} \X {i} \X Cuts]
    /\ IsFiniteSet(b.parity)
    /\ \A m \in b.parity : m.over \subseteq 1..Frags[p] /\ m.data = {p} \X m.over \X Cuts

\* A bucket nothing has come into is of any packet.
LEMMA EmptyGood ==
  ASSUME NEW p
  PROVE  Good(p, EmptyBucket)
  <1>1. Held(EmptyBucket) = {} /\ EmptyBucket.parity = {} /\ EmptyBucket.got = <<>>
    BY DEF Held, EmptyBucket
  <1>2. <<>> = [i \in {} |-> {p} \X {i} \X Cuts]
    OBVIOUS
  <1> QED BY <1>1, <1>2, FS_EmptySet DEF Good

\* A bucket of p that stores fragment i of p is of p.
LEMMA StoreGood ==
  ASSUME NEW p, NEW b, Good(p, b), NEW i \in 1..Frags[p], NEW d, d = {p} \X {i} \X Cuts
  PROVE  Good(p, Store(b, i, d)) /\ Store(b, i, d).parity = b.parity
  <1> DEFINE s == Store(b, i, d)
             T == Held(b) \union {i}
  <1>1. /\ DOMAIN s = DOMAIN EmptyBucket /\ s.parity = b.parity
        /\ s.got = [j \in T |-> IF j = i THEN d ELSE b.got[j]]
    BY DEF Store, Good, EmptyBucket
  <1>2. Held(s) = T
    BY <1>1 DEF Held
  <1> HIDE DEF s
  <1>3. \A j \in T : (IF j = i THEN d ELSE b.got[j]) = {p} \X {j} \X Cuts
    BY DEF Good
  <1>4. s.got = [j \in T |-> {p} \X {j} \X Cuts]
    BY <1>1, <1>3
  <1> QED BY <1>1, <1>2, <1>4 DEF Good, s

\* The parity of a bucket of p that lacks one fragment j rebuilds j of p: what it
\* sums is of p alone, so the held fragments cancel.
LEMMA RebuiltRight ==
  ASSUME NEW p \in Packets, NEW b, Good(p, b), NEW m \in b.parity, NEW j, m.over \ Held(b) = {j}
  PROVE  Rebuilt(b, m) = {p} \X {j} \X Cuts /\ j \in 1..Frags[p]
  <1>1. j \in 1..Frags[p] /\ j \in m.over /\ j \notin Held(b)
    BY DEF Good
  <1>2. \A i \in Held(b) : b.got[i] = {p} \X {i} \X Cuts
    BY DEF Good
  <1>3. m.data = {p} \X m.over \X Cuts
    BY DEF Good
  <1>4. {p} \X {j} \X Cuts \subseteq Chunks
    <2>1. {p} \X (1..Frags[p]) \X Cuts \subseteq Chunks
      BY DEF Chunks
    <2>2. {p} \X {j} \X Cuts \subseteq {p} \X (1..Frags[p]) \X Cuts
      BY <1>1
    <2> QED BY <2>1, <2>2
  <1> DEFINE Seen(c) == {i \in m.over \intersect Held(b) : c \in b.got[i]}
  <1>5. ASSUME NEW c \in Chunks
        PROVE  (Cardinality(Seen(c)) % 2 # (IF c \in m.data THEN 1 ELSE 0)) <=> c \in {p} \X {j} \X Cuts
    <2>1. PICK q \in Packets : c \in {q} \X (1..Frags[q]) \X Cuts
      BY DEF Chunks
    <2>2. PICK i0 \in 1..Frags[q], k \in Cuts : c = <<q, i0, k>>
      BY <2>1
    <2>3. CASE q = p /\ i0 \in m.over \intersect Held(b)
      <3>1. Seen(c) = {i0}
        BY <1>2, <2>2, <2>3
      <3>2. Cardinality(Seen(c)) = 1
        BY <3>1, FS_Singleton
      <3>3. c \in m.data
        BY <1>3, <2>2, <2>3
      <3>4. c \notin {p} \X {j} \X Cuts
        BY <1>1, <2>2, <2>3
      <3> QED BY <3>2, <3>3, <3>4
    <2>4. CASE ~(q = p /\ i0 \in m.over \intersect Held(b))
      <3>1. Seen(c) = {}
        BY <1>2, <2>2, <2>4
      <3>2. Cardinality(Seen(c)) = 0
        BY <3>1, FS_EmptySet
      <3>3. c \in m.data <=> q = p /\ i0 \in m.over
        BY <1>3, <2>2
      <3>4. c \in {p} \X {j} \X Cuts <=> q = p /\ i0 = j
        BY <2>2
      <3>5. c \in m.data <=> c \in {p} \X {j} \X Cuts
        BY <1>1, <2>4, <3>3, <3>4
      <3> QED BY <3>2, <3>5
    <2> QED BY <2>3, <2>4
  <1>6. Rebuilt(b, m) = {c \in Chunks : Cardinality(Seen(c)) % 2 # (IF c \in m.data THEN 1 ELSE 0)}
    BY DEF Rebuilt
  <1> HIDE DEF Seen
  <1> QED BY <1>1, <1>4, <1>5, <1>6

\* One step of the solver leaves a bucket of p one of p.
LEMMA SolveOneGood ==
  ASSUME NEW p \in Packets, NEW b, Good(p, b), NEW m \in Solvable(b)
  PROVE  Good(p, SolveOne(b, m))
  <1> DEFINE a == [b EXCEPT !.parity = @ \ {m}]
             i == CHOOSE i \in m.over \ Held(b) : TRUE
  <1>1. m \in b.parity /\ Cardinality(m.over \ Held(b)) = 1
    BY DEF Solvable
  <1>2. IsFiniteSet(m.over \ Held(b))
    <2>1. m.over \ Held(b) \subseteq 1..Frags[p]
      BY <1>1 DEF Good
    <2>2. Frags[p] \in Int
      BY SizeAssumption
    <2>3. IsFiniteSet(1..Frags[p])
      BY <2>2, FS_Interval
    <2> QED BY <2>1, <2>3, FS_Subset
  <1>3. PICK j : m.over \ Held(b) = {j}
    BY <1>1, <1>2, FS_Singleton
  <1>4. i = j
    BY <1>3
  <1>5. Rebuilt(b, m) = {p} \X {j} \X Cuts /\ j \in 1..Frags[p]
    BY <1>1, <1>3, RebuiltRight
  <1>6. DOMAIN a = DOMAIN b /\ a.got = b.got /\ a.parity = b.parity \ {m}
    BY DEF Good, EmptyBucket
  <1>7. IsFiniteSet(a.parity)
    <2>1. IsFiniteSet(b.parity)
      BY DEF Good
    <2>2. IsFiniteSet(b.parity \ {m})
      BY <2>1, FS_RemoveElement
    <2> QED BY <1>6, <2>2
  <1> HIDE DEF a
  <1>8. Good(p, a)
    BY <1>6, <1>7 DEF Good, Held
  <1>9. SolveOne(b, m) = Store(a, i, Rebuilt(b, m))
    BY DEF SolveOne, a
  <1> HIDE DEF i
  <1> QED BY <1>4, <1>5, <1>8, <1>9, StoreGood

\* Solving a bucket of p, to the end, leaves it one of p.
LEMMA SolveGood ==
  ASSUME NEW p \in Packets, NEW b, Good(p, b), NEW total
  PROVE  Good(p, Solve(b, total))
  <1> DEFINE K == Cardinality(b.parity)
  <1>1. K \in Nat
    BY FS_CardinalityType DEF Good
  <1>2. PICK g : /\ g = [n \in 0..K |-> IF n = 0 THEN b ELSE SolveNext(g[n - 1], total)]
                 /\ Solve(b, total) = g[K]
    BY <1>1, SolveIs
  <1> HIDE DEF K
  <1> DEFINE T == {n \in Nat : n <= K => Good(p, g[n])}
  <1>3. 0 \in T
    BY <1>1, <1>2
  <1>4. ASSUME NEW n \in Nat, n \in T PROVE n + 1 \in T
    <2>1. SUFFICES ASSUME n + 1 <= K PROVE Good(p, g[n + 1])
      OBVIOUS
    <2>2. Good(p, g[n])
      BY <1>1, <1>4, <2>1
    <2>3. g[n + 1] = SolveNext(g[n], total)
      BY <1>1, <1>2, <2>1
    <2>4. Good(p, SolveNext(g[n], total))
      BY <2>2, SolveOneGood DEF SolveNext
    <2> QED BY <2>3, <2>4
  <1> HIDE DEF T
  <1>5. Nat \subseteq T
    BY <1>3, <1>4, NatClosed
  <1>6. K \in T
    BY <1>1, <1>5
  <1> QED BY <1>1, <1>2, <1>6 DEF T

-----------------------------------------------------------------------------
(* The receiver. *)

\* The keys whose packet has arrived, when own says which packet an identifier
\* below n was given to.
Arrived(own, n, delivered) == {k \in Keys : k[1] < n /\ own[k[1]] \in delivered}

\* What a word calls complete has arrived.
TrueWord(arrived, w) ==
    \A e \in w.entries : (e.complete \/ e.held = 1..e.key[2]) => e.key \in arrived

\* A frame carries fragments of its identifier's packet, or their sum.
TrueFrame(own, n, f) ==
    /\ f.key \in Keys /\ f.key[1] < n /\ f.key[2] = Frags[own[f.key[1]]]
    /\ f.over \subseteq 1..f.key[2] /\ f.data = {own[f.key[1]]} \X f.over \X Cuts
    /\ ~f.parity => \E i \in 1..f.key[2] : f.over = {i}

\* The bucket of k is of its identifier's packet, and not full.
TrueBucket(own, n, k, b) ==
    /\ k[1] < n /\ k[2] = Frags[own[k[1]]]
    /\ Good(own[k[1]], b) /\ Held(b) # 1..k[2]

\* What the receiver keeps, remembers, says and proves is true.
RxTrue(own, n, y) ==
    /\ DOMAIN y = DOMAIN RxInit /\ DOMAIN y.bucket = Keys /\ y.recent \subseteq Keys
    /\ \A k \in Keys : y.bucket[k] # None => TrueBucket(own, n, k, y.bucket[k])
    /\ y.done \subseteq Arrived(own, n, y.delivered)
    /\ y.tail # None => y.tail.key \in Arrived(own, n, y.delivered)
    /\ y.grace # None => y.grace.key \in Arrived(own, n, y.delivered)
    /\ \A w \in y.words : TrueWord(Arrived(own, n, y.delivered), w)
    /\ ~y.garbled /\ y.proofs \subseteq y.delivered

\* The parts of a key.
LEMMA KeyParts ==
  ASSUME NEW k \in Keys
  PROVE  k[1] \in Ids /\ k[2] \in 1..255 /\ 1..k[2] # {}
  <1>1. PICK i \in Ids, p \in Packets : k = <<i, Frags[p]>>
    BY DEF Keys
  <1>2. Frags[p] \in 1..255
    BY SizeAssumption
  <1>3. 1 \in 1..Frags[p]
    BY <1>2
  <1> QED BY <1>1, <1>2, <1>3

\* With more delivered, more has arrived, and a true word stays true.
LEMMA MoreArrived ==
  ASSUME NEW own, NEW n, NEW D, NEW E, D \subseteq E
  PROVE  /\ Arrived(own, n, D) \subseteq Arrived(own, n, E)
         /\ \A w : TrueWord(Arrived(own, n, D), w) => TrueWord(Arrived(own, n, E), w)
  BY DEF Arrived, TrueWord

\* What happens to a receiver that gets no new bucket, memory or word.
LEMMA RxKeeps ==
  ASSUME NEW own, NEW n, NEW y, RxTrue(own, n, y), NEW z, DOMAIN z = DOMAIN y,
         DOMAIN z.bucket = Keys, \A k \in Keys : z.bucket[k] \in {y.bucket[k], None},
         z.recent \subseteq Keys, y.delivered \subseteq z.delivered,
         z.done \subseteq y.done, z.words = y.words, z.tail \in {y.tail, None},
         z.grace \in {y.grace, None}, z.garbled = y.garbled, z.proofs \subseteq z.delivered
  PROVE  RxTrue(own, n, z)
  BY MoreArrived DEF RxTrue

\* A bucket the receiver keeps lacks a fragment.
LEMMA BucketPart ==
  ASSUME NEW own, NEW n, NEW y, RxTrue(own, n, y), NEW k \in Keys
  PROVE  Held(Bucket(y, k)) # 1..k[2]
  <1>1. Held(EmptyBucket) = {}
    BY DEF Held, EmptyBucket
  <1> QED BY <1>1, KeyParts DEF Bucket, RxTrue, TrueBucket

\* An entry of the receiver calls complete only what arrived.
LEMMA EntryTrue ==
  ASSUME NEW own, NEW n, NEW y, RxTrue(own, n, y), NEW k \in Keys
  PROVE  /\ Entry(y, k).key = k
         /\ (Entry(y, k).complete \/ Entry(y, k).held = 1..k[2]) => k \in Arrived(own, n, y.delivered)
  <1>1. k \notin y.done => Held(Bucket(y, k)) # 1..k[2]
    BY BucketPart
  <1>2. y.done \subseteq Arrived(own, n, y.delivered)
    BY DEF RxTrue
  <1> QED BY <1>1, <1>2 DEF Entry

\* A report delivers nothing.
LEMMA ReportDelivers ==
  ASSUME NEW y, DOMAIN y = DOMAIN RxInit, NEW k, NEW r, NEW complete
  PROVE  Report(y, k, r, complete).delivered = y.delivered
  BY DEF Report, RxInit

\* A report leaves the receiver true.
LEMMA ReportTrue ==
  ASSUME NEW own, NEW n, NEW y, RxTrue(own, n, y), NEW k \in Keys, NEW r, NEW complete \in BOOLEAN,
         complete => k \in Arrived(own, n, y.delivered)
  PROVE  RxTrue(own, n, Report(y, k, r, complete))
  <1> DEFINE first == [key |-> k, complete |-> complete,
                       held |-> IF complete THEN 1..k[2] ELSE Held(Bucket(y, k))]
             word == [nonce |-> <<"report", r % 4>>,
                      entries |-> {first} \union {Entry(y, j) : j \in y.recent \ {k}}]
             z == Report(y, k, r, complete)
             A == Arrived(own, n, y.delivered)
  <1>1. /\ DOMAIN z = DOMAIN y /\ z.bucket = y.bucket /\ z.done = y.done /\ z.delivered = y.delivered
        /\ z.recent = y.recent /\ z.tail = None /\ z.grace = None /\ z.garbled = y.garbled
        /\ z.proofs = y.proofs /\ z.words = y.words \union {word}
    BY DEF Report, RxTrue, RxInit
  <1>2. first.key = k /\ ((first.complete \/ first.held = 1..k[2]) => k \in A)
    BY BucketPart
  <1>3. TrueWord(A, word)
    <2>1. ASSUME NEW j \in y.recent
          PROVE  (Entry(y, j).complete \/ Entry(y, j).held = 1..Entry(y, j).key[2]) => Entry(y, j).key \in A
      <3>1. j \in Keys
        BY DEF RxTrue
      <3>2. Entry(y, j).key = j /\ ((Entry(y, j).complete \/ Entry(y, j).held = 1..j[2]) => j \in A)
        BY <3>1, EntryTrue
      <3> HIDE DEF A
      <3> QED BY <3>2
    <2>2. word.entries = {first} \union {Entry(y, j) : j \in y.recent \ {k}}
      OBVIOUS
    <2> HIDE DEF first, word, A
    <2> QED BY <1>2, <2>1, <2>2 DEF TrueWord
  <1> HIDE DEF word, z
  <1> QED BY <1>1, <1>3 DEF RxTrue, z

\* A packet has a first fragment.
LEMMA HasFirst ==
  ASSUME NEW p \in Packets
  PROVE  1 \in 1..Frags[p]
  <1>1. Frags[p] \in 1..255
    BY SizeAssumption
  <1> QED BY <1>1

\* The full bucket of p, cut in the one way there is, is p and no other packet.
LEMMA ContentWhole ==
  ASSUME NEW p \in Packets, NEW b, Good(p, b), Held(b) = 1..Frags[p], NEW c, Cuts = {c}
  PROVE  Content(p, c) = b.got /\ \A q \in Packets : Content(q, c) = b.got => q = p
  <1>1. b.got = [i \in 1..Frags[p] |-> {p} \X {i} \X Cuts]
    BY DEF Good
  <1>2. \A i \in 1..Frags[p] : {p} \X {i} \X Cuts = {<<p, i, c>>}
    OBVIOUS
  <1>3. Content(p, c) = b.got
    BY <1>1, <1>2 DEF Content
  <1>4. ASSUME NEW q \in Packets, Content(q, c) = b.got PROVE q = p
    <2>1. 1 \in 1..Frags[p] /\ 1 \in 1..Frags[q]
      BY HasFirst
    <2>2. Content(p, c)[1] = {<<p, 1, c>>} /\ Content(q, c)[1] = {<<q, 1, c>>}
      BY <2>1 DEF Content
    <2>3. {<<p, 1, c>>} = {<<q, 1, c>>}
      BY <1>3, <1>4, <2>2
    <2>4. <<p, 1, c>> = <<q, 1, c>>
      BY <2>3
    <2> QED BY <2>4
  <1> QED BY <1>3, <1>4

\* At most one packet more was delivered, one an identifier below n was given to.
Gained(own, n, D, E) == E = D \/ \E i \in Ids : i < n /\ E = D \union {own[i]}

\* Delivering a full bucket of its identifier's packet leaves the receiver true.
LEMMA DeliverTrue ==
  ASSUME NEW own \in [Ids -> Packets], NEW n, NEW y, RxTrue(own, n, y), NEW k \in Keys, k[1] < n,
         k[2] = Frags[own[k[1]]], NEW b, Good(own[k[1]], b), Held(b) = 1..k[2],
         NEW c, Cuts = {c}, NEW r, NEW t \in Deliver(y, k, r, b)
  PROVE  RxTrue(own, n, t) /\ Gained(own, n, y.delivered, t.delivered)
  <1> DEFINE p == own[k[1]]
             whole == {q \in Packets : \E d \in Cuts : Content(q, d) = b.got}
             z == [y EXCEPT !.bucket[k] = None, !.done = @ \union {k}, !.gaps[k] = None,
                            !.delivered = @ \union whole, !.garbled = @ \/ whole = {}]
  <1>1. p \in Packets
    BY KeyParts
  <1>2. whole = {p}
    <2>1. Content(p, c) = b.got /\ \A q \in Packets : Content(q, c) = b.got => q = p
      BY <1>1, ContentWhole
    <2> HIDE DEF p
    <2> QED BY <1>1, <2>1
  <1>3. /\ DOMAIN z = DOMAIN y /\ z.recent = y.recent /\ z.bucket = [y.bucket EXCEPT ![k] = None]
        /\ z.done = y.done \union {k} /\ z.delivered = y.delivered \union whole
        /\ z.tail = y.tail /\ z.grace = y.grace /\ z.words = y.words /\ z.proofs = y.proofs
        /\ z.garbled = (y.garbled \/ whole = {})
    BY DEF RxTrue, RxInit
  <1>4. \/ \E q : t = [z EXCEPT !.grace = [key |-> k, round |-> r, packet |-> q]]
        \/ t = Report(z, k, r, TRUE)
        \/ t = [z EXCEPT !.tail = [key |-> k, round |-> r]]
    BY DEF Deliver
  <1> HIDE DEF z, whole
  <1>5. k \in Arrived(own, n, z.delivered) /\ Gained(own, n, y.delivered, z.delivered)
        /\ y.delivered \subseteq z.delivered
    BY <1>2, <1>3, KeyParts DEF Arrived, Gained
  <1>6. RxTrue(own, n, z)
    <2>1. ~z.garbled /\ z.proofs \subseteq z.delivered
      BY <1>2, <1>3 DEF RxTrue
    <2>2. DOMAIN z.bucket = Keys /\ \A j \in Keys : z.bucket[j] \in {y.bucket[j], None}
      BY <1>3 DEF RxTrue
    <2>3. z.done \subseteq Arrived(own, n, z.delivered)
      BY <1>3, <1>5, MoreArrived DEF RxTrue
    <2> QED BY <1>3, <2>1, <2>2, <2>3, MoreArrived DEF RxTrue
  <1>7. ASSUME NEW q, t = [z EXCEPT !.grace = [key |-> k, round |-> r, packet |-> q]]
        PROVE  RxTrue(own, n, t) /\ t.delivered = z.delivered
    <2>1. /\ DOMAIN t = DOMAIN z /\ t.recent = z.recent /\ t.bucket = z.bucket /\ t.done = z.done
          /\ t.delivered = z.delivered /\ t.tail = z.tail /\ t.words = z.words
          /\ t.proofs = z.proofs /\ t.garbled = z.garbled /\ t.grace.key = k
      BY <1>6, <1>7 DEF RxTrue, RxInit
    <2> QED BY <1>5, <1>6, <2>1 DEF RxTrue
  <1>8. CASE t = [z EXCEPT !.tail = [key |-> k, round |-> r]]
    <2>1. /\ DOMAIN t = DOMAIN z /\ t.recent = z.recent /\ t.bucket = z.bucket /\ t.done = z.done
          /\ t.delivered = z.delivered /\ t.grace = z.grace /\ t.words = z.words
          /\ t.proofs = z.proofs /\ t.garbled = z.garbled /\ t.tail.key = k
      BY <1>6, <1>8 DEF RxTrue, RxInit
    <2>2. RxTrue(own, n, t)
      BY <1>5, <1>6, <2>1 DEF RxTrue
    <2> QED BY <1>5, <2>1, <2>2
  <1>9. CASE t = Report(z, k, r, TRUE)
    <2> HIDE DEF p
    <2>0. k \in Keys
      OBVIOUS
    <2>4. RxTrue(own, n, Report(z, k, r, TRUE))
      BY <2>0, <1>5, <1>6, ReportTrue
    <2>5. Report(z, k, r, TRUE).delivered = z.delivered
      BY <1>6, ReportDelivers DEF RxTrue
    <2>1. RxTrue(own, n, Report(z, k, r, TRUE)) /\ Report(z, k, r, TRUE).delivered = z.delivered
      BY <2>4, <2>5
    <2>2. RxTrue(own, n, t) /\ t.delivered = z.delivered
      BY <1>9, <2>1
    <2> QED BY <1>5, <2>2
  <1> QED BY <1>4, <1>5, <1>7, <1>8, <1>9

\* A bucket of p that takes in a frame of p is of p.
LEMMA TookGood ==
  ASSUME NEW p \in Packets, NEW b, Good(p, b), NEW f, f.over \subseteq 1..Frags[p],
         f.data = {p} \X f.over \X Cuts, ~f.parity => \E j : f.over = {j},
         NEW tail, NEW i, i = CHOOSE j \in f.over : TRUE
  PROVE  LET flag == [b EXCEPT !.tail = tail] IN
         Good(p, IF f.parity
                 THEN [flag EXCEPT !.parity = {m \in @ : m.over # f.over} \union
                                              {[over |-> f.over, data |-> f.data]}]
                 ELSE IF i \in Held(b) THEN flag ELSE Store(flag, i, f.data))
  <1> DEFINE flag == [b EXCEPT !.tail = tail]
             sum == [over |-> f.over, data |-> f.data]
             kept == {m \in b.parity : m.over # f.over}
             more == [flag EXCEPT !.parity = {m \in @ : m.over # f.over} \union {sum}]
  <1>1. /\ DOMAIN flag = DOMAIN EmptyBucket /\ flag.got = b.got /\ flag.parity = b.parity
        /\ Held(flag) = Held(b)
    BY DEF Good, Held, EmptyBucket
  <1>2. Good(p, flag)
    BY <1>1 DEF Good
  <1>3. Good(p, more)
    <2>1. DOMAIN more = DOMAIN EmptyBucket /\ more.got = b.got /\ more.parity = kept \union {sum}
      BY <1>1 DEF EmptyBucket
    <2>2. IsFiniteSet(kept)
      <3>1. IsFiniteSet(b.parity) /\ kept \in SUBSET b.parity
        BY DEF Good
      <3> QED BY <3>1, FS_Subset
    <2>3. IsFiniteSet(kept \union {sum})
      BY <2>2, FS_AddElement
    <2>4. sum.over \subseteq 1..Frags[p] /\ sum.data = {p} \X sum.over \X Cuts
      OBVIOUS
    <2> HIDE DEF sum, more
    <2> QED BY <2>1, <2>3, <2>4 DEF Good, Held
  <1>4. CASE ~f.parity
    <2>1. PICK j : f.over = {j}
      BY <1>4
    <2>2. i = j
      BY <2>1
    <2>3. i \in 1..Frags[p] /\ f.data = {p} \X {i} \X Cuts
      BY <2>1, <2>2
    <2>4. Good(p, Store(flag, i, f.data))
      BY <1>2, <2>3, StoreGood
    <2> QED BY <1>2, <1>4, <2>4
  <1> QED BY <1>3, <1>4

\* A true frame, received, leaves the receiver true.
LEMMA ReceiveTrue ==
  ASSUME NEW own \in [Ids -> Packets], NEW n, NEW y, RxTrue(own, n, y),
         NEW f, TrueFrame(own, n, f), NEW c, Cuts = {c}, NEW t \in Receive(y, f)
  PROVE  RxTrue(own, n, t) /\ Gained(own, n, y.delivered, t.delivered)
  <1> DEFINE k == f.key
             p == own[k[1]]
             b == Bucket(y, k)
             i == CHOOSE j \in f.over : TRUE
             flag == [b EXCEPT !.tail = @ \/ f.flagged]
             took == IF f.parity
                     THEN [flag EXCEPT !.parity = {m \in @ : m.over # f.over} \union
                                                  {[over |-> f.over, data |-> f.data]}]
                     ELSE IF i \in Held(b) THEN flag ELSE Store(flag, i, f.data)
             full == Solve(took, k[2])
             z == [y EXCEPT !.recent = @ \union {k}, !.ever[k] = @ \union Held(full)]
  <1>1. k \in Keys /\ k[1] < n /\ k[2] = Frags[p]
    BY DEF TrueFrame
  <1>2. p \in Packets
    BY <1>1, KeyParts
  <1>3. Good(p, b)
    BY <1>1, EmptyGood DEF Bucket, RxTrue, TrueBucket
  <1>4. Good(p, full)
    <2>1. /\ f.over \subseteq 1..Frags[p] /\ f.data = {p} \X f.over \X Cuts
          /\ ~f.parity => \E j : f.over = {j}
      BY <1>1 DEF TrueFrame
    <2> HIDE DEF b, p
    <2>2. Good(p, took)
      BY <1>2, <1>3, <2>1, TookGood
    <2> HIDE DEF took
    <2> QED BY <1>2, <2>2, SolveGood
  <1>5. \/ t = z
        \/ k \in y.done /\ t = Report(z, k, f.round, TRUE)
        \/ \E g : t = [z EXCEPT !.bucket[k] = None, !.gaps[k] = g]
        \/ Held(full) = 1..k[2] /\ t \in Deliver(z, k, f.round, full)
        \/ Held(full) # 1..k[2] /\ \E g : t = [z EXCEPT !.bucket[k] = full, !.gaps[k] = g]
    BY DEF Receive
  <1> HIDE DEF full
  <1>6. /\ DOMAIN z = DOMAIN y /\ z.recent = y.recent \union {k} /\ z.bucket = y.bucket
        /\ z.done = y.done /\ z.tail = y.tail /\ z.grace = y.grace /\ z.words = y.words
        /\ z.delivered = y.delivered /\ z.garbled = y.garbled /\ z.proofs = y.proofs
    BY DEF RxTrue, RxInit
  <1> HIDE DEF z
  <1>7. RxTrue(own, n, z)
    BY <1>1, <1>6 DEF RxTrue
  <1>8. CASE k \in y.done /\ t = Report(z, k, f.round, TRUE)
    <2>1. k \in Arrived(own, n, z.delivered)
      BY <1>6, <1>8 DEF RxTrue
    <2> DEFINE u == Report(z, k, f.round, TRUE)
    <2> HIDE DEF k
    <2>2. RxTrue(own, n, u)
      BY <1>1, <1>7, <2>1, ReportTrue
    <2>3. u.delivered = z.delivered
      BY <1>7, ReportDelivers DEF RxTrue
    <2> HIDE DEF u
    <2> QED BY <1>6, <1>8, <2>2, <2>3 DEF u, Gained
  <1>9. ASSUME NEW d, NEW g, t = [z EXCEPT !.bucket[k] = d, !.gaps[k] = g],
               d # None => TrueBucket(own, n, k, d)
        PROVE  RxTrue(own, n, t) /\ t.delivered = z.delivered
    <2>1. /\ DOMAIN t = DOMAIN z /\ t.recent = z.recent /\ t.bucket = [z.bucket EXCEPT ![k] = d]
          /\ t.done = z.done /\ t.tail = z.tail /\ t.grace = z.grace /\ t.words = z.words
          /\ t.delivered = z.delivered /\ t.garbled = z.garbled /\ t.proofs = z.proofs
      BY <1>7, <1>9 DEF RxTrue, RxInit
    <2>2. \A j \in Keys : t.bucket[j] # None => TrueBucket(own, n, j, t.bucket[j])
      BY <1>7, <1>9, <2>1 DEF RxTrue
    <2> QED BY <1>7, <2>1, <2>2 DEF RxTrue
  <1>91. t.delivered = z.delivered => Gained(own, n, y.delivered, t.delivered)
    BY <1>6 DEF Gained
  <1>10. CASE \E g : t = [z EXCEPT !.bucket[k] = None, !.gaps[k] = g]
    BY <1>9, <1>91, <1>10
  <1>11. CASE Held(full) # 1..k[2] /\ \E g : t = [z EXCEPT !.bucket[k] = full, !.gaps[k] = g]
    <2>1. TrueBucket(own, n, k, full)
      BY <1>1, <1>4, <1>11 DEF TrueBucket
    <2> QED BY <1>9, <1>91, <1>11, <2>1
  <1>12. CASE Held(full) = 1..k[2] /\ t \in Deliver(z, k, f.round, full)
    BY <1>1, <1>4, <1>6, <1>7, <1>12, DeliverTrue
  <1> QED BY <1>5, <1>6, <1>7, <1>8, <1>91, <1>10, <1>11, <1>12

-----------------------------------------------------------------------------
(* The sender. *)

\* Identifier i, below n, was given to packet p.
Owned(own, n, i, p) == i \in Ids /\ i < n /\ own[i] = p

\* The words in the sender's hands.
Words(x) == {x.mail, x.early, x.provisional}

Verdicts == {"true", "false", "text"}
Results == {"unsent", "open"} \union Verdicts
Rated(r) == r \in [Packets -> Results]

\* The results of x are such, "true" only of what was delivered and "open" only in
\* the window.
Earned(delivered, x) ==
    /\ Rated(x.result)
    /\ \A p \in Packets : x.result[p] = "true" => p \in delivered
    /\ \A p \in Packets : x.result[p] = "open" => p \in x.parts

\* The sender's identifiers are of its packets, new ones are to be had in the
\* windows left, and what it was told and what it concluded is true.
TxTrue(own, delivered, x) ==
    /\ DOMAIN x = DOMAIN TxInit /\ x.parts \subseteq Packets
    /\ x.nextId \in Ids /\ x.win \in 0..MaxWindows /\ x.nextId <= x.win * N
    /\ x.parts # {} => x.cut \in Cuts
    /\ \A p \in x.parts : Owned(own, x.nextId, x.id[p], p)
    /\ \A p \in Packets : x.resumable[p] # None => Owned(own, x.nextId, x.resumable[p].id, p)
    /\ x.unsent # {} => x.cut \in Cuts
    /\ \A u \in x.unsent : /\ u[1] \in Packets /\ u[2] \in 1..Frags[u[1]] + 1
                           /\ Owned(own, x.nextId, x.id[u[1]], u[1])
    /\ \A w \in Words(x) : w # None => TrueWord(Arrived(own, x.nextId, delivered), w)
    /\ x.proved \subseteq delivered /\ Earned(delivered, x)
    /\ \A i \in Ids : i < x.nextId => x.id[own[i]] # None

\* The results s are r, but that open packets may have got their verdicts, "true"
\* only what was delivered.
Judged(D, r, s) ==
    /\ Rated(r) => Rated(s)
    /\ \A p \in Packets : \/ s[p] = r[p]
                           \/ (r[p] = "open" /\ s[p] \in Verdicts /\ (s[p] = "true" => p \in D))

\* y is x but for what its window may do: give verdicts, "true" only of what was
\* delivered, remember packets of the window, and put fragments of it in a burst.
Follows(delivered, x, y) ==
    /\ DOMAIN y = DOMAIN x
    /\ y.parts = x.parts /\ y.nextId = x.nextId /\ y.id = x.id
    /\ y.win = x.win /\ y.cut = x.cut /\ y.proved = x.proved
    /\ Judged(delivered, x.result, y.result)
    /\ \A p \in Packets : y.resumable[p] # None =>
          \/ y.resumable[p] = x.resumable[p]
          \/ p \in x.parts /\ y.resumable[p].id = x.id[p]
    /\ \A u \in y.unsent : u \in x.unsent \/ (u[1] \in x.parts /\ u[2] \in 1..Frags[u[1]] + 1)
    /\ Words(y) \subseteq Words(x) \union {None}

\* y is x but for progress within the window.
Quiet(x, y) ==
    /\ DOMAIN y = DOMAIN x
    /\ y.parts = x.parts /\ y.nextId = x.nextId /\ y.id = x.id
    /\ y.win = x.win /\ y.cut = x.cut /\ y.proved = x.proved
    /\ y.result = x.result /\ y.resumable = x.resumable
    /\ y.unsent \subseteq x.unsent /\ Words(y) \subseteq Words(x) \union {None}

\* Progress within the window is a step of it.
LEMMA QuietFollows ==
  ASSUME NEW D, NEW x, NEW y, Quiet(x, y)
  PROVE  Follows(D, x, y)
  BY DEF Quiet, Follows, Judged

\* Steps of the window compose.
LEMMA FollowsOn ==
  ASSUME NEW D, NEW x, NEW y, NEW z, Follows(D, x, y), Follows(D, y, z)
  PROVE  Follows(D, x, z)
  <1>1. Judged(D, x.result, y.result) /\ Judged(D, y.result, z.result)
    BY DEF Follows
  <1>2. Judged(D, x.result, z.result)
    BY <1>1 DEF Judged, Verdicts
  <1> QED BY <1>2 DEF Follows

\* A step of the window leaves the sender true.
LEMMA FollowsTrue ==
  ASSUME NEW own, NEW D, NEW x, NEW y, TxTrue(own, D, x), Follows(D, x, y)
  PROVE  TxTrue(own, D, y)
  <1>1. /\ DOMAIN y = DOMAIN TxInit /\ y.parts = x.parts /\ y.nextId = x.nextId /\ y.id = x.id
        /\ y.win = x.win /\ y.cut = x.cut /\ y.proved = x.proved
    BY DEF Follows, TxTrue
  <1>2. \A p \in Packets : y.resumable[p] # None => Owned(own, y.nextId, y.resumable[p].id, p)
    <2>1. SUFFICES ASSUME NEW p \in Packets, y.resumable[p] # None
                   PROVE  Owned(own, y.nextId, y.resumable[p].id, p)
      OBVIOUS
    <2>2. CASE y.resumable[p] = x.resumable[p]
      BY <1>1, <2>1, <2>2 DEF TxTrue
    <2>3. CASE p \in x.parts /\ y.resumable[p].id = x.id[p]
      BY <1>1, <2>3 DEF TxTrue
    <2> QED BY <2>1, <2>2, <2>3 DEF Follows
  <1>3. \A u \in y.unsent : /\ u[1] \in Packets /\ u[2] \in 1..Frags[u[1]] + 1
                            /\ Owned(own, y.nextId, y.id[u[1]], u[1]) /\ y.cut \in Cuts
    BY <1>1 DEF Follows, TxTrue
  <1>4. \A w \in Words(y) : w # None => TrueWord(Arrived(own, y.nextId, D), w)
    BY <1>1 DEF Follows, TxTrue
  <1>5. Earned(D, y)
    <2>1. Earned(D, x) /\ Judged(D, x.result, y.result)
      BY DEF TxTrue, Follows
    <2> QED BY <1>1, <2>1 DEF Earned, Judged, Verdicts
  <1> QED BY <1>1, <1>2, <1>3, <1>4, <1>5 DEF TxTrue

\* Awaiting a word, ceasing to, resting and asking are progress within the window.
LEMMA StepsQuiet ==
  ASSUME NEW x, DOMAIN x = DOMAIN TxInit, NEW ps, NEW n
  PROVE  Quiet(x, Await(x, ps, n)) /\ Quiet(x, Unwait(x, ps)) /\ Quiet(x, Rest(x)) /\ Quiet(x, Query(x))
  <1>1. Quiet(x, Await(x, ps, n))
    BY DEF Quiet, Words, Await, TxInit
  <1>2. Quiet(x, Unwait(x, ps))
    BY DEF Quiet, Words, Unwait, TxInit
  <1>3. Quiet(x, Rest(x))
    BY DEF Quiet, Words, Rest, TxInit
  <1>4. Quiet(x, Query(x))
    <2> DEFINE m == (x.nonce % 239) + 1
               y == Await(x, Open(x), <<"query", m>>)
               Q == x.queries \union {[nonce |-> <<"query", m>>, keys |-> {Key(x, p) : p \in Open(x)}]}
    <2>1. Quiet(x, y) /\ y.mail = None
      BY DEF Quiet, Words, Await, TxInit
    <2>2. Query(x) = [y EXCEPT !.phase = "query", !.nonce = m, !.attempt = x.attempt + 1,
                        !.queries = Q, !.early = None, !.provisional = None, !.airborne = FALSE]
      BY DEF Query
    <2> HIDE DEF y, Q, m
    <2>3. DOMAIN y = DOMAIN TxInit
      BY <2>1 DEF Quiet
    <2>4. Quiet(y, Query(x))
      BY <2>2, <2>3 DEF Quiet, Words, TxInit
    <2> QED BY <2>1, <2>4 DEF Quiet
  <1> QED BY <1>1, <1>2, <1>3, <1>4

\* Remembering packets of the window for a resume is a step of it.
LEMMA RememberFollows ==
  ASSUME NEW D, NEW x, DOMAIN x = DOMAIN TxInit, NEW ps, ps \subseteq x.parts
  PROVE  Follows(D, x, Remember(x, ps))
  <1> DEFINE y == Remember(x, ps)
  <1>1. /\ DOMAIN y = DOMAIN x /\ y.parts = x.parts /\ y.nextId = x.nextId /\ y.id = x.id
        /\ y.win = x.win /\ y.cut = x.cut /\ y.proved = x.proved /\ y.result = x.result
        /\ y.unsent = x.unsent /\ Words(y) = Words(x)
        /\ y.resumable = [p \in Packets |-> IF p \in ps /\ x.acked[p] # {}
                                            THEN [id |-> x.id[p], acked |-> x.acked[p]]
                                            ELSE x.resumable[p]]
    BY DEF Remember, TxInit, Words
  <1> HIDE DEF y
  <1>2. \A p \in Packets : y.resumable[p] = x.resumable[p] \/ (p \in x.parts /\ y.resumable[p].id = x.id[p])
    BY <1>1
  <1>3. Judged(D, x.result, y.result)
    BY <1>1 DEF Judged
  <1> QED BY <1>1, <1>2, <1>3 DEF Follows, y

\* So are verdicts on open packets, true only of what was delivered.
LEMMA ResolveFollows ==
  ASSUME NEW D, NEW x, DOMAIN x = DOMAIN TxInit, NEW ps, NEW v \in Verdicts,
         v = "true" => ps \subseteq D, \A p \in ps : x.result[p] = "open"
  PROVE  Follows(D, x, Resolve(x, ps, v))
  <1> DEFINE y == Resolve(x, ps, v)
  <1>1. /\ DOMAIN y = DOMAIN x /\ y.parts = x.parts /\ y.nextId = x.nextId /\ y.id = x.id
        /\ y.win = x.win /\ y.cut = x.cut /\ y.proved = x.proved /\ y.resumable = x.resumable
        /\ y.unsent = x.unsent /\ Words(y) = Words(x)
        /\ y.result = [p \in Packets |-> IF p \in ps THEN v ELSE x.result[p]]
    BY DEF Resolve, TxInit, Words
  <1> HIDE DEF y
  <1>2. Judged(D, x.result, y.result)
    <2>1. Rated(x.result) => Rated(y.result)
      BY <1>1 DEF Rated, Results
    <2>2. \A p \in Packets : y.result[p] = x.result[p] \/ (x.result[p] = "open" /\ y.result[p] = v /\ (v = "true" => p \in D))
      BY <1>1
    <2> QED BY <2>1, <2>2 DEF Judged
  <1> QED BY <1>1, <1>2 DEF Follows, y

\* So is the end of the window with the verdict false or text.
LEMMA EndWindowFollows ==
  ASSUME NEW D, NEW x, DOMAIN x = DOMAIN TxInit, NEW v \in {"false", "text"}
  PROVE  Follows(D, x, EndWindow(x, v))
  <1> DEFINE y == Remember(x, Open(x))
             z == Resolve(y, Open(x), v)
  <1>1. Follows(D, x, y)
    BY RememberFollows DEF Open
  <1>2. DOMAIN y = DOMAIN TxInit /\ y.result = x.result
    BY <1>1 DEF Follows, Remember, TxInit
  <1> HIDE DEF y
  <1>3. Follows(D, y, z)
    <2>1. \A p \in Open(x) : y.result[p] = "open"
      BY <1>2 DEF Open
    <2>2. v \in Verdicts /\ v # "true"
      BY DEF Verdicts
    <2> QED BY <1>2, <2>1, <2>2, ResolveFollows
  <1>4. DOMAIN z = DOMAIN TxInit
    BY <1>2, <1>3 DEF Follows
  <1>5. Follows(D, z, Rest(z))
    BY <1>4, StepsQuiet, QuietFollows
  <1>6. EndWindow(x, v) = Rest(z)
    BY DEF EndWindow, y
  <1> HIDE DEF z
  <1> QED BY <1>1, <1>3, <1>5, <1>6, FollowsOn

\* So is taking in a true word.
LEMMA ApplyFollows ==
  ASSUME NEW own, NEW D, NEW x, TxTrue(own, D, x),
         NEW w, TrueWord(Arrived(own, x.nextId, D), w)
  PROVE  Follows(D, x, Apply(x, w))
  <1> DEFINE chosen(p) == CHOOSE e \in EntriesFor(x, p, w) : TRUE
             held(p) == Believed(x, p, chosen(p))
             whole == {p \in Named(x, w) : held(p) = 1..Frags[p]}
             y == Apply(x, w)
  <1>1. /\ DOMAIN y = DOMAIN x /\ y.parts = x.parts /\ y.nextId = x.nextId /\ y.id = x.id
        /\ y.win = x.win /\ y.cut = x.cut /\ y.proved = x.proved
        /\ y.unsent = x.unsent /\ Words(y) = Words(x)
        /\ y.result = [p \in Packets |-> IF p \in whole THEN "true" ELSE x.result[p]]
        /\ y.resumable = [p \in Packets |-> IF p \in whole THEN None ELSE x.resumable[p]]
    BY DEF Apply, TxTrue, TxInit, Words
  <1>2. ASSUME NEW p \in whole PROVE p \in D /\ x.result[p] = "open"
    <2> DEFINE e == chosen(p)
    <2>1. p \in Open(x) /\ e \in EntriesFor(x, p, w)
      BY <1>2 DEF Named
    <2>2. e \in w.entries /\ e.key = Key(x, p)
      BY <2>1 DEF EntriesFor
    <2>3. e.complete \/ e.held = 1..Frags[p]
      BY <1>2 DEF Believed
    <2>4. e.key[1] = x.id[p] /\ e.key[2] = Frags[p]
      BY <2>2 DEF Key
    <2> HIDE DEF e
    <2>5. e.key \in Arrived(own, x.nextId, D)
      BY <2>2, <2>3, <2>4 DEF TrueWord
    <2>6. own[x.id[p]] \in D
      BY <2>4, <2>5 DEF Arrived
    <2>7. own[x.id[p]] = p
      BY <2>1 DEF TxTrue, Open, Owned
    <2> QED BY <2>1, <2>6, <2>7 DEF Open
  <1> HIDE DEF whole, y
  <1>3. Judged(D, x.result, y.result)
    <2>1. Rated(x.result) => Rated(y.result)
      BY <1>1 DEF Rated, Results, Verdicts
    <2>2. \A p \in Packets : y.result[p] = x.result[p] \/ (x.result[p] = "open" /\ y.result[p] = "true" /\ p \in D)
      BY <1>1, <1>2
    <2> QED BY <2>1, <2>2 DEF Judged, Verdicts
  <1>4. \A p \in Packets : y.resumable[p] # None => y.resumable[p] = x.resumable[p]
    BY <1>1
  <1> QED BY <1>1, <1>3, <1>4 DEF Follows, y

\* A burst is of fragments, and the parity, of the window's packets.
LEMMA BurstPart ==
  ASSUME NEW x, x.parts \subseteq Packets, NEW u \in Burst(x)
  PROVE  u[1] \in x.parts /\ u[2] \in 1..Frags[u[1]] + 1
  <1>0. ASSUME NEW p \in Open(x) PROVE p \in x.parts /\ Frags[p] \in 1..255
    BY SizeAssumption DEF Open
  <1>1. ASSUME NEW p \in Open(x), u \in {p} \X Missing(x, p)
        PROVE  u[1] \in x.parts /\ u[2] \in 1..Frags[u[1]] + 1
    BY <1>0, <1>1 DEF Missing
  <1>2. ASSUME NEW p \in Open(x), u = <<p, Frags[p] + 1>>
        PROVE  u[1] \in x.parts /\ u[2] \in 1..Frags[u[1]] + 1
    BY <1>0, <1>2
  <1>3. CASE u \in UNION {{p} \X Missing(x, p) : p \in Open(x)}
    BY <1>1, <1>3
  <1>4. CASE u \in {<<p, Frags[p] + 1>> : p \in {q \in Open(x) : Parity /\ Cardinality(Missing(x, q)) >= 2}}
    BY <1>2, <1>4
  <1> QED BY <1>3, <1>4 DEF Burst

\* Beginning a round is a step of the window, whichever way the round starts.
LEMMA BeginFollows ==
  ASSUME NEW D, NEW x, DOMAIN x = DOMAIN TxInit, x.parts \subseteq Packets, NEW r,
         NEW late \in SUBSET Open(x)
  PROVE  Follows(D, x, Begin(x, r, late))
  <1> DEFINE m == Remember(x, late)
             y0 == Resolve(m, late, "false")
             y == [y0 EXCEPT !.rnd = r, !.attempt = 0, !.inRound = Open(x) \ late]
             z == [y EXCEPT !.burst = BurstAllowed(y), !.last = LastOf(y)]
             a == Await(z, Open(z), <<"report", r % 4>>)
             b == [a EXCEPT !.phase = "burst", !.unsent = Burst(z),
                            !.early = None, !.provisional = None, !.airborne = FALSE]
             v == IF x.unanswered = Rounds THEN "false" ELSE "text"
  <1>1. Begin(x, r, late) \in {EndWindow(x, v), Rest(y), b, Query(z)}
    BY DEF Begin
  <1>2. Follows(D, x, m)
    BY RememberFollows DEF Open
  <1>3. DOMAIN m = DOMAIN TxInit /\ m.result = x.result
    BY <1>2 DEF Follows, Remember, TxInit
  <1> HIDE DEF m
  <1>4. Follows(D, m, y0)
    <2>1. \A p \in late : m.result[p] = "open"
      BY <1>3 DEF Open
    <2> QED BY <1>3, <2>1, ResolveFollows DEF Verdicts
  <1>5. DOMAIN y0 = DOMAIN TxInit
    BY <1>3, <1>4 DEF Follows
  <1> HIDE DEF y0
  <1>6. Quiet(y0, y)
    BY <1>5 DEF Quiet, Words, TxInit
  <1>7. DOMAIN y = DOMAIN TxInit /\ Follows(D, x, y)
    <2>1. DOMAIN y = DOMAIN TxInit
      BY <1>5, <1>6 DEF Quiet
    <2> HIDE DEF y
    <2>2. Follows(D, y0, y)
      BY <1>6, QuietFollows
    <2>3. Follows(D, x, y0)
      BY <1>2, <1>4, FollowsOn
    <2> QED BY <2>1, <2>2, <2>3, FollowsOn
  <1> HIDE DEF y
  <1>8. Quiet(y, z)
    BY <1>7 DEF Quiet, Words, TxInit
  <1>9. DOMAIN z = DOMAIN TxInit /\ Follows(D, x, z) /\ z.parts = x.parts
    BY <1>7, <1>8, QuietFollows, FollowsOn DEF Quiet, Follows
  <1> HIDE DEF z
  <1>10. Quiet(z, a) /\ a.mail = None
    <2>1. a.mail = None
      BY <1>9 DEF Await, TxInit
    <2>2. Quiet(z, a)
      BY <1>9, StepsQuiet
    <2> QED BY <2>1, <2>2
  <1>11. DOMAIN a = DOMAIN TxInit
    BY <1>9, <1>10 DEF Quiet
  <1> HIDE DEF a
  <1>12. Follows(D, z, b)
    <2>1. /\ DOMAIN b = DOMAIN z /\ b.parts = z.parts /\ b.nextId = z.nextId /\ b.id = z.id
          /\ b.win = z.win /\ b.cut = z.cut /\ b.proved = z.proved
          /\ b.result = z.result /\ b.resumable = z.resumable
          /\ b.unsent = Burst(z) /\ b.mail = None /\ b.early = None /\ b.provisional = None
      BY <1>9, <1>10, <1>11 DEF Quiet, TxInit
    <2> HIDE DEF b
    <2>2. \A u \in b.unsent : u[1] \in z.parts /\ u[2] \in 1..Frags[u[1]] + 1
      BY <1>9, <2>1, BurstPart
    <2> QED BY <2>1, <2>2 DEF Follows, Words, Judged
  <1>13. Follows(D, x, b)
    BY <1>9, <1>12, FollowsOn
  <1>14. Follows(D, x, Query(z))
    BY <1>9, StepsQuiet, QuietFollows, FollowsOn
  <1>15. Follows(D, x, Rest(y))
    BY <1>7, StepsQuiet, QuietFollows, FollowsOn
  <1>16. Follows(D, x, EndWindow(x, v))
    BY EndWindowFollows
  <1> QED BY <1>1, <1>13, <1>14, <1>15, <1>16

\* So is beginning the next one.
LEMMA BeginNextFollows ==
  ASSUME NEW D, NEW x, DOMAIN x = DOMAIN TxInit, x.parts \subseteq Packets, BeginNext(x)
  PROVE  Follows(D, x, tx')
  BY BeginFollows DEF BeginNext

\* So is what follows a true word.
LEMMA AnsweredFollows ==
  ASSUME NEW own, NEW D, NEW x, TxTrue(own, D, x),
         NEW w, TrueWord(Arrived(own, x.nextId, D), w), Answered(x, w)
  PROVE  Follows(D, x, tx')
  <1> DEFINE u == Unwait(x, x.inRound)
             y == Apply(u, w)
             strikes == IF x.burst /\ HeldTotal(y) <= HeldTotal(x) THEN x.empty + 1 ELSE 0
             z == [y EXCEPT !.inARow = 0, !.empty = strikes]
  <1>1. \/ tx' = Rest(y) \/ tx' = EndWindow(z, "text") \/ BeginNext(z)
    BY DEF Answered
  <1>2. Quiet(x, u)
    BY StepsQuiet DEF TxTrue
  <1> HIDE DEF u
  <1>3. TxTrue(own, D, u) /\ u.nextId = x.nextId /\ Follows(D, x, u)
    BY <1>2, QuietFollows, FollowsTrue DEF Quiet
  <1>4. Follows(D, u, y)
    BY <1>3, ApplyFollows
  <1> HIDE DEF y
  <1>5. TxTrue(own, D, y) /\ Follows(D, x, y)
    BY <1>3, <1>4, FollowsTrue, FollowsOn
  <1>6. Quiet(y, z)
    BY <1>5 DEF Quiet, Words, TxTrue, TxInit
  <1>7. TxTrue(own, D, z) /\ Follows(D, x, z)
    BY <1>5, <1>6, QuietFollows, FollowsTrue, FollowsOn
  <1> HIDE DEF z
  <1>8. Follows(D, y, Rest(y)) /\ Follows(D, z, EndWindow(z, "text"))
    BY <1>5, <1>7, StepsQuiet, QuietFollows, EndWindowFollows DEF TxTrue
  <1>9. BeginNext(z) => Follows(D, z, tx')
    BY <1>7, BeginNextFollows DEF TxTrue
  <1> QED BY <1>1, <1>5, <1>7, <1>8, <1>9, FollowsOn

\* Between windows no packet is open.
Awake(x) == x.phase = "idle" => Open(x) = {}

\* Resting with nothing open, a window's end and a round's beginning leave it so.
LEMMA RestAwake ==
  ASSUME NEW x, DOMAIN x = DOMAIN TxInit, Open(x) = {}
  PROVE  Awake(Rest(x))
  BY DEF Awake, Open, Rest, TxInit

LEMMA EndWindowAwake ==
  ASSUME NEW x, DOMAIN x = DOMAIN TxInit, x.parts \subseteq Packets, NEW v, v # "open"
  PROVE  Awake(EndWindow(x, v))
  <1> DEFINE y == Remember(x, Open(x))
             z == Resolve(y, Open(x), v)
  <1>1. DOMAIN y = DOMAIN TxInit /\ y.parts = x.parts /\ y.result = x.result
    BY DEF Remember, TxInit
  <1> HIDE DEF y
  <1>2. /\ DOMAIN z = DOMAIN TxInit /\ z.parts = x.parts
        /\ z.result = [p \in Packets |-> IF p \in Open(x) THEN v ELSE x.result[p]]
    BY <1>1 DEF Resolve, TxInit
  <1> HIDE DEF z
  <1>3. Open(z) = {}
    BY <1>2 DEF Open
  <1> QED BY <1>2, <1>3, RestAwake DEF EndWindow, y, z

LEMMA QueryAwake ==
  ASSUME NEW x, DOMAIN x = DOMAIN TxInit
  PROVE  Awake(Query(x))
  BY DEF Awake, Query, Await, TxInit

LEMMA BeginAwake ==
  ASSUME NEW x, DOMAIN x = DOMAIN TxInit, x.parts \subseteq Packets, NEW r, NEW late \in SUBSET Open(x)
  PROVE  Awake(Begin(x, r, late))
  <1> DEFINE m == Remember(x, late)
             y0 == Resolve(m, late, "false")
             y == [y0 EXCEPT !.rnd = r, !.attempt = 0, !.inRound = Open(x) \ late]
             z == [y EXCEPT !.burst = BurstAllowed(y), !.last = LastOf(y)]
             a == Await(z, Open(z), <<"report", r % 4>>)
             b == [a EXCEPT !.phase = "burst", !.unsent = Burst(z),
                            !.early = None, !.provisional = None, !.airborne = FALSE]
             v == IF x.unanswered = Rounds THEN "false" ELSE "text"
  <1>1. \/ Begin(x, r, late) = EndWindow(x, v)
        \/ Open(y) = {} /\ Begin(x, r, late) = Rest(y)
        \/ Begin(x, r, late) = b \/ Begin(x, r, late) = Query(z)
    BY DEF Begin
  <1>2. DOMAIN y0 = DOMAIN TxInit
    BY DEF Remember, Resolve, TxInit
  <1> HIDE DEF y0
  <1>3. DOMAIN y = DOMAIN TxInit
    BY <1>2
  <1> HIDE DEF y
  <1>4. DOMAIN z = DOMAIN TxInit
    BY <1>3
  <1> HIDE DEF z
  <1>5. DOMAIN a = DOMAIN TxInit
    BY <1>4 DEF Await
  <1> HIDE DEF a
  <1>6. Awake(b)
    BY <1>5 DEF Awake, TxInit
  <1>7. Awake(EndWindow(x, v))
    BY EndWindowAwake
  <1> QED BY <1>1, <1>3, <1>4, <1>6, <1>7, RestAwake, QueryAwake

LEMMA BeginNextAwake ==
  ASSUME NEW x, DOMAIN x = DOMAIN TxInit, x.parts \subseteq Packets, BeginNext(x)
  PROVE  Awake(tx')
  BY BeginAwake DEF BeginNext

LEMMA AnsweredAwake ==
  ASSUME NEW x, DOMAIN x = DOMAIN TxInit, x.parts \subseteq Packets, NEW w, Answered(x, w)
  PROVE  Awake(tx')
  <1> DEFINE y == Apply(Unwait(x, x.inRound), w)
             strikes == IF x.burst /\ HeldTotal(y) <= HeldTotal(x) THEN x.empty + 1 ELSE 0
             z == [y EXCEPT !.inARow = 0, !.empty = strikes]
  <1>1. \/ Open(y) = {} /\ tx' = Rest(y)
        \/ tx' = EndWindow(z, "text") \/ BeginNext(z)
    BY DEF Answered
  <1>2. DOMAIN y = DOMAIN TxInit /\ y.parts = x.parts
    BY DEF Apply, Unwait, TxInit
  <1> HIDE DEF y
  <1>3. DOMAIN z = DOMAIN TxInit /\ z.parts = x.parts
    BY <1>2 DEF TxInit
  <1> HIDE DEF z
  <1> QED BY <1>1, <1>2, <1>3, RestAwake, EndWindowAwake, BeginNextAwake

\* So the sender keeps to it, from its first state on.
LEMMA AwakeKept ==
  /\ Init => Awake(tx)
  /\ Inv /\ Awake(tx) /\ [Next]_vars => Awake(tx')
  <1>1. ASSUME Init PROVE Awake(tx)
    BY <1>1 DEF Init, TxInit, Awake, Open
  <1>2. ASSUME Inv, Awake(tx), [Next]_vars PROVE Awake(tx')
    <2>0. DOMAIN tx = DOMAIN TxInit /\ tx.parts \subseteq Packets
      BY <1>2 DEF Inv, TxOK
    <2>1. ASSUME NEW S \in SUBSET Packets, NEW fresh \in SUBSET S, NEW c \in Cuts, OpenWindow(S, fresh, c)
          PROVE  Awake(tx')
      <3>1. PICK x : DOMAIN x = DOMAIN TxInit /\ x.parts = S /\ tx' = Begin(x, 0, {})
        BY <2>0, <2>1 DEF OpenWindow, TxInit
      <3> QED BY <3>1, BeginAwake
    <2>2. CASE SendFrame
      BY <2>0, <2>2 DEF SendFrame, Awake, TxInit
    <2>3. CASE TakeEarly
      <3> DEFINE e == [tx EXCEPT !.early = tx.mail, !.atEntry = FALSE]
                 x == Apply(e, tx.mail)
      <3>1. Answered(x, tx.mail) \/ tx' = Await(x, x.inRound, <<"report", x.rnd % 4>>)
        BY <2>3 DEF TakeEarly
      <3>2. tx.phase = "report" /\ DOMAIN x = DOMAIN TxInit /\ x.parts = tx.parts /\ x.phase = tx.phase
        BY <2>0, <2>3 DEF TakeEarly, Apply, TxInit
      <3> HIDE DEF x
      <3> QED BY <2>0, <3>1, <3>2, AnsweredAwake DEF Awake, Await, TxInit
    <2>4. CASE TakeReport
      BY <2>0, <2>4, AnsweredAwake DEF TakeReport, Awake, Await, TxInit
    <2>5. CASE ReportTimeout
      <3>1. DOMAIN Unwait(tx, tx.inRound) = DOMAIN TxInit
        BY <2>0 DEF Unwait
      <3> QED BY <2>0, <2>5, <3>1, AnsweredAwake, QueryAwake DEF ReportTimeout
    <2>6. CASE ReportProved
      <3> DEFINE u == Unwait(tx, tx.inRound)
                 x == [u EXCEPT
                        !.acked = [p \in Packets |-> IF p \in tx.inRound THEN 1..Frags[p] ELSE @[p]],
                        !.resumable = [p \in Packets |-> IF p \in tx.inRound THEN None ELSE @[p]]]
                 y == Resolve(x, Open(tx), "true")
      <3>1. tx' = Rest(y)
        BY <2>6 DEF ReportProved
      <3>2. /\ DOMAIN y = DOMAIN TxInit /\ y.parts = tx.parts
            /\ y.result = [p \in Packets |-> IF p \in Open(tx) THEN "true" ELSE tx.result[p]]
        BY <2>0 DEF Resolve, Unwait, TxInit
      <3> HIDE DEF y
      <3>3. Open(y) = {}
        BY <2>0, <3>2 DEF Open
      <3> QED BY <3>1, <3>2, <3>3, RestAwake
    <2>7. CASE TakeAnswer
      <3>1. DOMAIN Unwait(tx, Open(tx)) = DOMAIN TxInit /\ Unwait(tx, Open(tx)).parts = tx.parts
        BY <2>0 DEF Unwait, TxInit
      <3> QED BY <2>0, <2>7, <3>1, AnsweredAwake DEF TakeAnswer
    <2>8. CASE QueryTimeout
      <3> DEFINE x == Unwait(tx, Open(tx))
                 y == [x EXCEPT !.unanswered = @ + 1, !.inARow = @ + 1]
      <3>1. tx' = Query(x) \/ BeginNext(y) \/ tx' = EndWindow(x, "false")
        BY <2>8 DEF QueryTimeout
      <3>2. DOMAIN x = DOMAIN TxInit /\ x.parts = tx.parts
        BY <2>0 DEF Unwait, TxInit
      <3> HIDE DEF x
      <3>3. DOMAIN y = DOMAIN TxInit /\ y.parts = tx.parts
        BY <3>2 DEF TxInit
      <3> HIDE DEF y
      <3> QED BY <2>0, <3>1, <3>2, <3>3, QueryAwake, BeginNextAwake, EndWindowAwake
    <2>9. CASE BurstEnds
      BY <2>0, <2>9 DEF BurstEnds, Awake, TxInit
    <2>10. CASE AbortBurst
      BY <2>0, <2>10, EndWindowAwake DEF AbortBurst
    <2>11. CASE Restart
      <3>1. tx'.parts = {}
        BY <2>11 DEF Restart, TxInit
      <3> QED BY <3>1 DEF Awake, Open
    <2>12. CASE \E w \in rx.words : Hear(w)
      BY <1>2, <2>0, <2>12 DEF Hear, Awake, Open, TxInit
    <2>13. CASE \E p \in Packets : HearProof(p)
      BY <1>2, <2>0, <2>13 DEF HearProof, Awake, Open, TxInit
    <2>14. CASE ReceiverStep \/ UNCHANGED vars
      <3>1. tx' = tx
        BY <2>14 DEF ReceiverStep, ReceiveFrame, FireGaps, Evict, Forget, Prove, FireTail, EndGrace,
                     AnswerQuery, RetryReport, Tell, Hold, vars
      <3> QED BY <1>2, <3>1
    <2> QED BY <1>2, <2>1, <2>2, <2>3, <2>4, <2>5, <2>6, <2>7, <2>8, <2>9, <2>10, <2>11, <2>12,
               <2>13, <2>14 DEF Next, SenderStep, ReceiverStep
  <1> QED BY <1>1, <1>2

-----------------------------------------------------------------------------
(* Both, and the air between them. *)

\* Sender, receiver and air are true, when own says which packet an identifier was
\* given to.
TrueAll(own) ==
    /\ own \in [Ids -> Packets]
    /\ TxTrue(own, rx.delivered, tx) /\ RxTrue(own, tx.nextId, rx)
    /\ \A f \in air : TrueFrame(own, tx.nextId, f)

\* What the two properties need of the code's setting: fragments are cut in one way,
\* a parity's bitmask has a bit for each of them, the sender does not restart, and
\* its identifiers do not come round again. RawRecut, RawMask, RawRestart and the
\* counter's own width show what happens otherwise.
Regular ==
    /\ \E c : Cuts = {c}
    /\ \A p \in Packets : Frags[p] <= MaskWidth
    /\ "restart" \notin Faults
    /\ MaxWindows * N < IdMod

\* What is true of the identifiers given so far stays true when more are given.
LEMMA OwnExtends ==
  ASSUME NEW own, NEW n, NEW own2, NEW n2, \A i \in Ids : i < n => i < n2 /\ own2[i] = own[i]
  PROVE  /\ \A D : Arrived(own, n, D) \subseteq Arrived(own2, n2, D)
         /\ \A y : RxTrue(own, n, y) => RxTrue(own2, n2, y)
         /\ \A f : TrueFrame(own, n, f) => TrueFrame(own2, n2, f)
         /\ \A i, p : Owned(own, n, i, p) => Owned(own2, n2, i, p)
  <1>1. ASSUME NEW k \in Keys, k[1] < n PROVE k[1] < n2 /\ own2[k[1]] = own[k[1]]
    BY <1>1, KeyParts
  <1>2. \A D : Arrived(own, n, D) \subseteq Arrived(own2, n2, D)
    BY <1>1 DEF Arrived
  <1>3. \A D, w : TrueWord(Arrived(own, n, D), w) => TrueWord(Arrived(own2, n2, D), w)
    BY <1>2 DEF TrueWord
  <1>4. ASSUME NEW k \in Keys, NEW b, TrueBucket(own, n, k, b)
        PROVE  TrueBucket(own2, n2, k, b)
    BY <1>1, <1>4 DEF TrueBucket
  <1>5. ASSUME NEW y, RxTrue(own, n, y) PROVE RxTrue(own2, n2, y)
    <2>1. \A k \in Keys : y.bucket[k] # None => TrueBucket(own2, n2, k, y.bucket[k])
      BY <1>4, <1>5 DEF RxTrue
    <2> QED BY <1>2, <1>3, <1>5, <2>1 DEF RxTrue
  <1>6. ASSUME NEW f, TrueFrame(own, n, f) PROVE TrueFrame(own2, n2, f)
    BY <1>1, <1>6 DEF TrueFrame
  <1>7. \A i, p : Owned(own, n, i, p) => Owned(own2, n2, i, p)
    BY DEF Owned
  <1> QED BY <1>2, <1>5, <1>6, <1>7

\* The packets of a window that need identifiers get new ones, each its own, while
\* the counter does not wrap.
LEMMA NumberedOnce ==
  ASSUME NEW fresh \in SUBSET Packets, tx.nextId \in Nat, tx.nextId + Cardinality(fresh) < IdMod
  PROVE  /\ Cardinality(fresh) \in Nat
         /\ (tx.nextId + Cardinality(fresh)) % IdMod = tx.nextId + Cardinality(fresh)
         /\ \A p \in fresh : Numbered(fresh, p) \in tx.nextId..(tx.nextId + Cardinality(fresh) - 1)
         /\ \A p, q \in fresh : Numbered(fresh, p) = Numbered(fresh, q) => p = q
  <1> DEFINE below(p) == {q \in fresh : q < p}
             card(p) == Cardinality(below(p))
             n == tx.nextId
             C == Cardinality(fresh)
  <1>0. IsFiniteSet(fresh) /\ IdMod \in Nat \ {0} /\ Packets \subseteq Nat /\ C \in Nat
    <2>1. IsFiniteSet(Packets) /\ IdMod \in Nat \ {0} /\ Packets \subseteq Nat
      BY SizeAssumption, FS_Interval DEF Packets
    <2>2. IsFiniteSet(fresh)
      BY <2>1, FS_Subset
    <2> QED BY <2>1, <2>2, FS_CardinalityType
  <1>1. ASSUME NEW p \in fresh PROVE IsFiniteSet(below(p)) /\ card(p) \in Nat /\ card(p) < C
    <2>1. below(p) \in SUBSET fresh /\ below(p) # fresh
      BY <1>0
    <2>2. IsFiniteSet(below(p)) /\ card(p) <= C /\ card(p) # C
      BY <1>0, <2>1, FS_Subset
    <2>3. card(p) \in Nat
      BY <2>2, FS_CardinalityType
    <2> HIDE DEF card
    <2> QED BY <1>0, <2>2, <2>3
  <1>2. ASSUME NEW p \in fresh, NEW q \in fresh, p < q PROVE card(p) < card(q)
    <2>1. below(p) \in SUBSET below(q) /\ below(p) # below(q)
      <3>1. fresh \subseteq Nat
        BY <1>0
      <3>2. p \in below(q) /\ p \notin below(p)
        BY <1>2, <3>1
      <3>3. \A i \in fresh : i < p => i < q
        BY <1>2, <3>1
      <3> QED BY <3>2, <3>3
    <2>2. card(p) <= card(q) /\ card(p) # card(q)
      BY <1>1, <2>1, FS_Subset
    <2>3. card(p) \in Nat /\ card(q) \in Nat
      BY <1>1
    <2> HIDE DEF card
    <2> QED BY <2>2, <2>3
  <1>3. \A m \in Nat : m < IdMod => m % IdMod = m
    BY <1>0
  <1>4. ASSUME NEW p \in fresh PROVE Numbered(fresh, p) = n + card(p)
    <2>1. Numbered(fresh, p) = (n + card(p)) % IdMod
      BY DEF Numbered
    <2>2. card(p) \in Nat /\ card(p) < C
      BY <1>1
    <2> HIDE DEF card
    <2>3. n + card(p) \in Nat /\ n + card(p) < IdMod
      BY <1>0, <2>2
    <2> QED BY <1>3, <2>1, <2>3
  <1>5. n + C \in Nat /\ (n + C) % IdMod = n + C
    BY <1>0, <1>3
  <1> HIDE DEF card
  <1>6. ASSUME NEW p \in fresh PROVE Numbered(fresh, p) \in n..(n + C - 1)
    <2>1. card(p) \in Nat /\ card(p) < C /\ n \in Nat
      BY <1>1
    <2> HIDE DEF n, C
    <2> QED BY <1>0, <1>4, <2>1
  <1>7. ASSUME NEW p \in fresh, NEW q \in fresh, Numbered(fresh, p) = Numbered(fresh, q) PROVE p = q
    <2>1. p \in Nat /\ q \in Nat /\ card(p) \in Nat /\ card(q) \in Nat /\ n \in Nat
      BY <1>0, <1>1
    <2>2. n + card(p) = n + card(q)
      BY <1>4, <1>7
    <2>3. card(p) = card(q)
      <3> HIDE DEF n
      <3> QED BY <2>1, <2>2
    <2>4. ~(p < q) /\ ~(q < p)
      BY <1>2, <2>1, <2>3
    <2> QED BY <2>1, <2>4
  <1> QED BY <1>0, <1>5, <1>6, <1>7

\* Opening a window leaves everything true, its fresh packets owning their identifiers.
LEMMA OpenWindowTrue ==
  ASSUME NEW own, TrueAll(own), Regular, Awake(tx), NEW S \in SUBSET Packets, NEW fresh \in SUBSET S,
         NEW c \in Cuts, OpenWindow(S, fresh, c)
  PROVE  \E own2 \in [Ids -> Packets] : TrueAll(own2)'
  <1> DEFINE D == rx.delivered
             C == Cardinality(fresh)
             some == CHOOSE p \in fresh : TRUE
             own2 == [i \in Ids |-> IF \E p \in fresh : Numbered(fresh, p) = i
                                    THEN CHOOSE p \in fresh : Numbered(fresh, p) = i
                                    ELSE IF i < tx.nextId \/ fresh = {} THEN own[i] ELSE some]
             x == [tx EXCEPT
                !.win = @ + 1, !.parts = S, !.cut = c,
                !.nextId = (@ + Cardinality(fresh)) % IdMod,
                !.id = [p \in Packets |-> IF p \in fresh THEN Numbered(fresh, p)
                                          ELSE IF p \in S THEN tx.resumable[p].id ELSE tx.id[p]],
                !.acked = [p \in Packets |-> IF p \in fresh THEN {}
                                             ELSE IF p \in S THEN tx.resumable[p].acked ELSE tx.acked[p]],
                !.result = [p \in Packets |-> IF p \in S THEN "open" ELSE tx.result[p]],
                !.resumable = [p \in Packets |-> IF p \in S THEN None ELSE tx.resumable[p]]]
  <1>0. TxTrue(own, D, tx) /\ own \in [Ids -> Packets] /\ tx.nextId \in Ids /\ tx.nextId \in Nat
    <2>1. Ids \subseteq Nat
      BY SizeAssumption DEF Ids
    <2> QED BY <2>1 DEF TrueAll, TxTrue
  <1>1. /\ DOMAIN x = DOMAIN TxInit /\ x.parts = S /\ x.cut = c /\ x.win = tx.win + 1
        /\ x.nextId = (tx.nextId + C) % IdMod
        /\ x.id = [p \in Packets |-> IF p \in fresh THEN Numbered(fresh, p)
                                     ELSE IF p \in S THEN tx.resumable[p].id ELSE tx.id[p]]
        /\ x.result = [p \in Packets |-> IF p \in S THEN "open" ELSE tx.result[p]]
        /\ x.resumable = [p \in Packets |-> IF p \in S THEN None ELSE tx.resumable[p]]
        /\ x.unsent = tx.unsent /\ x.proved = tx.proved /\ Words(x) = Words(tx)
    BY <1>0 DEF TxTrue, TxInit, Words
  <1>2. tx' = Begin(x, 0, {}) /\ UNCHANGED <<rx, air>> /\ tx.win < MaxWindows
    BY DEF OpenWindow
  <1>3. (\A p \in S \ fresh : tx.resumable[p] # None) /\ tx.phase = "idle"
    BY DEF OpenWindow
  <1> HIDE DEF x
  <1>4. C \in Nat /\ tx.nextId + C <= x.win * N /\ tx.nextId + C < IdMod
    <2>1. N \in Nat /\ MaxWindows \in Nat /\ IdMod \in Nat
      BY SizeAssumption
    <2>2. C \in Nat /\ C <= N
      <3>1. IsFiniteSet(Packets) /\ Cardinality(Packets) = N
        BY <2>1, FS_Interval DEF Packets
      <3>2. IsFiniteSet(fresh) /\ C <= N
        BY <3>1, FS_Subset
      <3> QED BY <3>2, FS_CardinalityType
    <2>3. tx.win \in Nat /\ tx.nextId <= tx.win * N
      BY <1>0 DEF TxTrue
    <2>4. tx.win * N \in Nat /\ (tx.win + 1) * N = tx.win * N + N
      BY <2>1, <2>3
    <2>5. (tx.win + 1) * N <= MaxWindows * N
      <3>1. \E d \in Nat : MaxWindows = tx.win + 1 + d
        <4>1. MaxWindows - (tx.win + 1) \in Nat
          BY <1>2, <2>1, <2>3
        <4> QED BY <2>1, <2>3, <4>1
      <3>2. PICK d \in Nat : MaxWindows = tx.win + 1 + d
        BY <3>1
      <3>3. MaxWindows * N = (tx.win + 1) * N + d * N /\ d * N \in Nat
        BY <2>1, <2>3, <3>2
      <3>4. (tx.win + 1) * N \in Nat
        BY <2>1, <2>3
      <3> QED BY <3>3, <3>4
    <2>6. MaxWindows * N < IdMod /\ MaxWindows * N \in Nat
      BY <2>1 DEF Regular
    <2> HIDE DEF C
    <2> QED BY <1>0, <1>1, <2>1, <2>2, <2>3, <2>4, <2>5, <2>6
  <1>5. /\ (tx.nextId + C) % IdMod = tx.nextId + C
        /\ \A p \in fresh : Numbered(fresh, p) \in tx.nextId..(tx.nextId + C - 1)
        /\ \A p, q \in fresh : Numbered(fresh, p) = Numbered(fresh, q) => p = q
    BY <1>0, <1>4, NumberedOnce
  <1>51. fresh = {} => C = 0
    BY FS_EmptySet
  <1> HIDE DEF C
  <1>6. \A i \in Ids : i < tx.nextId => i < x.nextId /\ own2[i] = own[i]
    <2>1. Ids \subseteq Nat
      BY SizeAssumption DEF Ids
    <2> QED BY <1>0, <1>1, <1>4, <1>5, <2>1
  <1>7. own2 \in [Ids -> Packets] /\ \A i \in Ids : i < tx.nextId \/ own2[i] \in fresh \/ fresh = {}
    <2>1. ASSUME NEW i \in Ids
          PROVE  own2[i] \in Packets /\ (i < tx.nextId \/ own2[i] \in fresh \/ fresh = {})
      BY <1>0
    <2> QED BY <2>1
  <1>8. ASSUME NEW p \in fresh PROVE Owned(own2, x.nextId, Numbered(fresh, p), p)
    <2>1. Numbered(fresh, p) \in Ids
      <3>1. Numbered(fresh, p) \in tx.nextId..(tx.nextId + C - 1) /\ IdMod \in Nat
        BY <1>5, SizeAssumption
      <3> QED BY <1>0, <1>4, <3>1 DEF Ids
    <2>2. own2[Numbered(fresh, p)] = p
      BY <1>5, <2>1
    <2>3. Numbered(fresh, p) < x.nextId
      BY <1>0, <1>1, <1>4, <1>5
    <2> HIDE DEF own2
    <2> QED BY <2>1, <2>2, <2>3 DEF Owned
  <1> HIDE DEF own2
  <1>9. /\ \A E : Arrived(own, tx.nextId, E) \subseteq Arrived(own2, x.nextId, E)
        /\ RxTrue(own, tx.nextId, rx) => RxTrue(own2, x.nextId, rx)
        /\ \A f : TrueFrame(own, tx.nextId, f) => TrueFrame(own2, x.nextId, f)
        /\ \A i, p : Owned(own, tx.nextId, i, p) => Owned(own2, x.nextId, i, p)
    BY <1>6, OwnExtends
  <1>10. TxTrue(own2, D, x)
    <2>1. x.nextId \in Ids /\ x.win \in 0..MaxWindows /\ x.nextId <= x.win * N
      <3>1. x.nextId = tx.nextId + C /\ IdMod \in Nat /\ MaxWindows \in Nat
        BY <1>1, <1>5, SizeAssumption
      <3>2. tx.win \in 0..MaxWindows
        BY <1>0 DEF TxTrue
      <3>3. x.win \in 0..MaxWindows
        BY <1>1, <1>2, <3>1, <3>2
      <3>4. x.nextId \in Ids
        BY <1>0, <1>4, <3>1 DEF Ids
      <3> QED BY <1>4, <3>1, <3>3, <3>4
    <2>2. ASSUME NEW p \in S PROVE Owned(own2, x.nextId, x.id[p], p)
      <3>1. CASE p \in fresh
        BY <1>1, <1>8, <3>1
      <3>2. CASE p \notin fresh
        BY <1>0, <1>1, <1>3, <1>9, <3>2 DEF TxTrue
      <3> QED BY <3>1, <3>2
    <2>3. \A p \in Packets : x.resumable[p] # None => Owned(own2, x.nextId, x.resumable[p].id, p)
      BY <1>0, <1>1, <1>9 DEF TxTrue
    <2>4. ASSUME NEW u \in x.unsent
          PROVE  /\ u[1] \in Packets /\ u[2] \in 1..Frags[u[1]] + 1
                 /\ Owned(own2, x.nextId, x.id[u[1]], u[1])
      <3>1. /\ u[1] \in Packets /\ u[2] \in 1..Frags[u[1]] + 1
            /\ Owned(own, tx.nextId, tx.id[u[1]], u[1])
        BY <1>0, <1>1, <2>4 DEF TxTrue
      <3>2. u[1] \notin S => x.id[u[1]] = tx.id[u[1]]
        BY <1>1, <3>1
      <3> QED BY <1>9, <2>2, <3>1, <3>2
    <2>5. \A w \in Words(x) : w # None => TrueWord(Arrived(own2, x.nextId, D), w)
      BY <1>0, <1>1, <1>9 DEF TxTrue, TrueWord
    <2>60. Earned(D, tx) /\ tx.proved \subseteq D
      BY <1>0 DEF TxTrue
    <2>61. "open" \in Results
      BY DEF Results
    <2>6. x.proved \subseteq D
      BY <1>1, <2>60
    <2>7. Earned(D, x)
      <3>1. Rated(x.result)
        BY <1>1, <2>60, <2>61 DEF Earned, Rated
      <3>2. \A p \in Packets : tx.result[p] # "open"
        BY <1>3, <2>60 DEF Earned, Open, Awake
      <3> QED BY <1>1, <2>60, <3>1, <3>2 DEF Earned
    <2>8. ASSUME NEW i \in Ids, i < x.nextId PROVE x.id[own2[i]] # None
      <3>1. ASSUME NEW p \in S PROVE x.id[p] # None
        BY <2>2, <3>1, NoneAssumption DEF Owned
      <3>2. CASE i < tx.nextId /\ own2[i] \notin S
        <4>1. own2[i] = own[i] /\ own[i] \in Packets
          BY <1>0, <1>6, <3>2
        <4>2. x.id[own[i]] = tx.id[own[i]] /\ tx.id[own[i]] # None
          BY <1>0, <1>1, <3>2, <4>1 DEF TxTrue
        <4> QED BY <4>1, <4>2
      <3>3. CASE ~(i < tx.nextId)
        <4>1. fresh # {}
          BY <1>0, <1>1, <1>5, <1>51, <2>8, <3>3
        <4> QED BY <1>7, <3>1, <3>3, <4>1
      <3> QED BY <3>1, <3>2, <3>3
    <2> QED BY <1>1, <2>1, <2>2, <2>3, <2>4, <2>5, <2>6, <2>7, <2>8 DEF TxTrue
  <1>11. Follows(D, x, tx')
    <2>1. DOMAIN x = DOMAIN TxInit /\ x.parts \subseteq Packets
      BY <1>1
    <2> QED BY <1>2, <2>1, BeginFollows
  <1>12. TxTrue(own2, D, tx') /\ tx'.nextId = x.nextId
    BY <1>10, <1>11, FollowsTrue DEF Follows
  <1>13. PICK o : o = own2
    OBVIOUS
  <1>14. /\ o \in [Ids -> Packets] /\ TxTrue(o, rx'.delivered, tx')
         /\ RxTrue(o, tx'.nextId, rx') /\ \A f \in air' : TrueFrame(o, tx'.nextId, f)
    BY <1>2, <1>7, <1>9, <1>12, <1>13 DEF TrueAll
  <1>15. TrueAll(o)'
    BY <1>14 DEF TrueAll
  <1> QED BY <1>14, <1>15

\* A step within the window, that receives nothing and sends at most true frames,
\* leaves everything true.
LEMMA WithinTrue ==
  ASSUME NEW own, TrueAll(own), Follows(rx.delivered, tx, tx'), UNCHANGED rx,
         \A f \in air' : TrueFrame(own, tx.nextId, f)
  PROVE  TrueAll(own)'
  <1>1. TxTrue(own, rx.delivered, tx') /\ tx'.nextId = tx.nextId
    BY FollowsTrue DEF TrueAll, Follows
  <1>2. TxTrue(own, rx'.delivered, tx') /\ RxTrue(own, tx'.nextId, rx')
    BY <1>1 DEF TrueAll
  <1>3. own \in [Ids -> Packets] /\ \A f \in air' : TrueFrame(own, tx'.nextId, f)
    BY <1>1 DEF TrueAll
  <1> QED BY <1>2, <1>3 DEF TrueAll

\* What a true sender sends is a true frame.
LEMMA FrameTrue ==
  ASSUME NEW own, NEW D, TxTrue(own, D, tx), Regular, NEW f \in tx.unsent
  PROVE  TrueFrame(own, tx.nextId, FrameOf(tx, f))
  <1> DEFINE p == f[1]
             g == FrameOf(tx, f)
  <1>1. /\ p \in Packets /\ f[2] \in 1..Frags[p] + 1 /\ tx.cut \in Cuts
        /\ tx.id[p] \in Ids /\ tx.id[p] < tx.nextId /\ own[tx.id[p]] = p
    BY DEF TxTrue, Owned
  <1>2. Frags[p] \in 1..255 /\ MaskWidth \in Nat /\ Frags[p] <= MaskWidth
    BY <1>1, SizeAssumption DEF Regular
  <1>3. /\ g.key = <<tx.id[p], Frags[p]>> /\ g.parity = IsParity(f) /\ g.over = Covered(tx, f)
        /\ g.data = {p} \X Summed(tx, f) \X {tx.cut}
    BY DEF FrameOf, Key
  <1> HIDE DEF g
  <1>4. g.key \in Keys /\ g.key[1] < tx.nextId /\ g.key[2] = Frags[own[g.key[1]]] /\ own[g.key[1]] = p
    BY <1>1, <1>3 DEF Keys
  <1>5. Cuts = {tx.cut}
    BY <1>1 DEF Regular
  <1>6. CASE IsParity(f)
    <2>1. Summed(tx, f) = Missing(tx, p) /\ Covered(tx, f) = Missing(tx, p) \intersect (1..MaskWidth)
      BY <1>6 DEF Summed, Covered
    <2>2. Missing(tx, p) \subseteq 1..Frags[p] /\ 1..Frags[p] \subseteq 1..MaskWidth
      BY <1>2 DEF Missing
    <2>3. Covered(tx, f) = Summed(tx, f) /\ Covered(tx, f) \subseteq 1..Frags[p]
      BY <2>1, <2>2
    <2>4. g.over \subseteq 1..g.key[2] /\ g.data = {own[g.key[1]]} \X g.over \X Cuts
      BY <1>3, <1>4, <1>5, <2>3
    <2>5. g.parity
      BY <1>3, <1>6
    <2>6. TrueFrame(own, tx.nextId, g)
      BY <1>4, <2>4, <2>5 DEF TrueFrame
    <2> QED BY <2>6 DEF g
  <1>7. CASE ~IsParity(f)
    <2>1. Summed(tx, f) = {f[2]} /\ Covered(tx, f) = {f[2]} /\ f[2] \in 1..Frags[p]
      BY <1>1, <1>2, <1>7 DEF Summed, Covered, IsParity
    <2>2. g.over = {f[2]} /\ f[2] \in 1..g.key[2]
      BY <1>1, <1>3, <1>4, <2>1
    <2>3. g.over \subseteq 1..g.key[2] /\ g.data = {own[g.key[1]]} \X g.over \X Cuts
      BY <1>3, <1>4, <1>5, <2>1, <2>2
    <2>4. TrueFrame(own, tx.nextId, g)
      BY <1>4, <2>2, <2>3 DEF TrueFrame
    <2> QED BY <2>4 DEF g
  <1> QED BY <1>6, <1>7

\* The sender's steps leave everything true.
LEMMA SenderTrue ==
  ASSUME NEW own, TrueAll(own), Regular, SenderStep \/ BurstEnds \/ AbortBurst
  PROVE  TrueAll(own)' /\ Follows(rx.delivered, tx, tx') /\ UNCHANGED rx
  <1> DEFINE D == rx.delivered
             A == Arrived(own, tx.nextId, D)
  <1>0. /\ TxTrue(own, D, tx) /\ DOMAIN tx = DOMAIN TxInit /\ tx.parts \subseteq Packets
        /\ \A f \in air : TrueFrame(own, tx.nextId, f)
        /\ \A w \in Words(tx) : w # None => TrueWord(A, w)
    BY DEF TrueAll, TxTrue
  <1> HIDE DEF D
  <1>1. ASSUME Follows(D, tx, tx'), UNCHANGED <<rx, air>>
        PROVE  TrueAll(own)' /\ Follows(rx.delivered, tx, tx') /\ UNCHANGED rx
    BY <1>0, <1>1, WithinTrue DEF D
  <1>2. CASE SendFrame
    <2>1. PICK f \in tx.unsent :
            /\ air' = air \union {FrameOf(tx, f)}
            /\ tx' = [tx EXCEPT !.unsent = @ \ {f},
                                !.phase = IF tx.unsent = {f} THEN "report" ELSE "burst",
                                !.airborne = tx.unsent = {f},
                                !.atEntry = tx.unsent = {f} /\ tx.mail # None]
      BY <1>2 DEF SendFrame
    <2>2. Quiet(tx, tx')
      BY <1>0, <2>1 DEF Quiet, Words, TxInit
    <2>3. Follows(D, tx, tx')
      BY <2>2, QuietFollows
    <2>4. \A g \in air' : TrueFrame(own, tx.nextId, g)
      BY <1>0, <2>1, FrameTrue
    <2> QED BY <1>2, <2>3, <2>4, WithinTrue DEF D, SendFrame
  <1>3. CASE TakeEarly
    <2> DEFINE e == [tx EXCEPT !.early = tx.mail, !.atEntry = FALSE]
               x == Apply(e, tx.mail)
    <2>1. TrueWord(A, tx.mail)
      BY <1>0, <1>3 DEF TakeEarly, Words
    <2>2. Quiet(tx, e)
      BY <1>0 DEF Quiet, Words, TxInit
    <2>3. Answered(x, tx.mail) \/ tx' = Await(x, x.inRound, <<"report", x.rnd % 4>>)
      BY <1>3 DEF TakeEarly
    <2> HIDE DEF e
    <2>4. TxTrue(own, D, e) /\ Follows(D, tx, e) /\ e.nextId = tx.nextId
      BY <1>0, <2>2, QuietFollows, FollowsTrue DEF Quiet
    <2>5. Follows(D, e, x)
      BY <2>1, <2>4, ApplyFollows
    <2> HIDE DEF x
    <2>6. TxTrue(own, D, x) /\ Follows(D, tx, x) /\ x.nextId = tx.nextId /\ DOMAIN x = DOMAIN TxInit
      <3>1. TxTrue(own, D, x) /\ Follows(D, tx, x)
        BY <2>4, <2>5, FollowsTrue, FollowsOn
      <3>2. x.nextId = tx.nextId
        BY <3>1 DEF Follows
      <3> QED BY <3>1, <3>2 DEF TxTrue
    <2>7. Follows(D, x, tx')
      BY <2>1, <2>3, <2>6, AnsweredFollows, StepsQuiet, QuietFollows
    <2> QED BY <1>1, <1>3, <2>6, <2>7, FollowsOn DEF TakeEarly
  <1>4. CASE TakeReport
    <2> DEFINE a == Await(tx, tx.inRound, <<"report", tx.rnd % 4>>)
               x == [a EXCEPT !.provisional = tx.mail]
    <2>1. TrueWord(A, tx.mail)
      BY <1>0, <1>4 DEF TakeReport, Words
    <2>2. tx' = x \/ Answered(tx, tx.mail)
      BY <1>4 DEF TakeReport
    <2>3. Quiet(tx, a)
      BY <1>0, StepsQuiet
    <2> HIDE DEF a
    <2>4. Quiet(tx, x)
      BY <1>0, <2>3 DEF Quiet, Words, TxInit
    <2> HIDE DEF x
    <2>5. Follows(D, tx, tx')
      BY <1>0, <2>1, <2>2, <2>4, QuietFollows, AnsweredFollows
    <2> QED BY <1>1, <1>4, <2>5 DEF TakeReport
  <1>5. CASE ReportTimeout
    <2>1. CASE tx.provisional # None /\ Answered(tx, tx.provisional)
      <3>1. TrueWord(A, tx.provisional)
        BY <1>0, <2>1 DEF Words
      <3>2. Follows(D, tx, tx')
        BY <1>0, <2>1, <3>1, AnsweredFollows
      <3> QED BY <1>1, <1>5, <3>2 DEF ReportTimeout
    <2>2. CASE tx.early # None /\ Answered(tx, tx.early)
      <3>1. TrueWord(A, tx.early)
        BY <1>0, <2>2 DEF Words
      <3>2. Follows(D, tx, tx')
        BY <1>0, <2>2, <3>1, AnsweredFollows
      <3> QED BY <1>1, <1>5, <3>2 DEF ReportTimeout
    <2>3. CASE tx' = Query(Unwait(tx, tx.inRound))
      <3> DEFINE x == Unwait(tx, tx.inRound)
      <3>1. Quiet(tx, x)
        BY <1>0, StepsQuiet
      <3> HIDE DEF x
      <3>2. DOMAIN x = DOMAIN TxInit
        BY <1>0, <3>1 DEF Quiet
      <3>3. Quiet(x, Query(x))
        BY <3>2, StepsQuiet
      <3>4. Follows(D, tx, Query(x))
        BY <3>1, <3>3, QuietFollows, FollowsOn
      <3> QED BY <1>1, <1>5, <2>3, <3>4 DEF ReportTimeout, x
    <2> QED BY <1>5, <2>1, <2>2, <2>3 DEF ReportTimeout
  <1>6. CASE ReportProved
    <2> DEFINE u == Unwait(tx, tx.inRound)
               x == [u EXCEPT
                      !.acked = [p \in Packets |-> IF p \in tx.inRound THEN 1..Frags[p] ELSE @[p]],
                      !.resumable = [p \in Packets |-> IF p \in tx.inRound THEN None ELSE @[p]]]
               y == Resolve(x, Open(tx), "true")
    <2>1. Open(tx) \subseteq D /\ tx' = Rest(y)
      BY <1>0, <1>6 DEF ReportProved, TxTrue
    <2>2. Quiet(tx, u)
      BY <1>0, StepsQuiet
    <2> HIDE DEF u
    <2>3. DOMAIN u = DOMAIN TxInit /\ u.result = tx.result
      BY <1>0, <2>2 DEF Quiet
    <2>4. Follows(D, u, x) /\ DOMAIN x = DOMAIN TxInit /\ x.result = tx.result
      <3>1. /\ DOMAIN x = DOMAIN u /\ x.parts = u.parts /\ x.nextId = u.nextId /\ x.id = u.id
            /\ x.win = u.win /\ x.cut = u.cut /\ x.proved = u.proved /\ x.result = u.result
            /\ x.unsent = u.unsent /\ Words(x) = Words(u)
            /\ x.resumable = [p \in Packets |-> IF p \in tx.inRound THEN None ELSE u.resumable[p]]
        BY <2>3 DEF TxInit, Words
      <3> HIDE DEF x
      <3>2. \A p \in Packets : x.resumable[p] # None => x.resumable[p] = u.resumable[p]
        BY <3>1
      <3> QED BY <2>3, <3>1, <3>2 DEF Follows, Judged
    <2> HIDE DEF x
    <2>5. Follows(D, x, y)
      <3>1. "true" \in Verdicts /\ \A p \in Open(tx) : x.result[p] = "open"
        BY <2>4 DEF Verdicts, Open
      <3> QED BY <2>1, <2>4, <3>1, ResolveFollows
    <2> HIDE DEF y
    <2>6. DOMAIN y = DOMAIN TxInit
      BY <2>4, <2>5 DEF Follows
    <2>7. Follows(D, y, Rest(y))
      BY <2>6, StepsQuiet, QuietFollows
    <2>8. Follows(D, tx, u)
      BY <2>2, QuietFollows
    <2>9. Follows(D, tx, Rest(y))
      BY <2>4, <2>5, <2>7, <2>8, FollowsOn
    <2> QED BY <1>1, <1>6, <2>1, <2>9 DEF ReportProved
  <1>7. CASE TakeAnswer
    <2> DEFINE x == Unwait(tx, Open(tx))
    <2>1. TrueWord(A, tx.mail) /\ Answered(x, tx.mail)
      BY <1>0, <1>7 DEF TakeAnswer, Words
    <2>2. Quiet(tx, x)
      BY <1>0, StepsQuiet
    <2> HIDE DEF x
    <2>3. TxTrue(own, D, x) /\ Follows(D, tx, x) /\ x.nextId = tx.nextId
      BY <1>0, <2>2, QuietFollows, FollowsTrue DEF Quiet
    <2>4. Follows(D, x, tx')
      BY <2>1, <2>3, AnsweredFollows
    <2> QED BY <1>1, <1>7, <2>3, <2>4, FollowsOn DEF TakeAnswer
  <1>8. CASE QueryTimeout
    <2> DEFINE x == Unwait(tx, Open(tx))
               y == [x EXCEPT !.unanswered = @ + 1, !.inARow = @ + 1]
    <2>1. tx' = Query(x) \/ BeginNext(y) \/ tx' = EndWindow(x, "false")
      BY <1>8 DEF QueryTimeout
    <2>2. Quiet(tx, x)
      BY <1>0, StepsQuiet
    <2> HIDE DEF x
    <2>3. DOMAIN x = DOMAIN TxInit /\ x.parts = tx.parts
      BY <1>0, <2>2 DEF Quiet
    <2>4. Quiet(x, y) /\ DOMAIN y = DOMAIN TxInit /\ y.parts = tx.parts
      BY <2>3 DEF Quiet, Words, TxInit
    <2> HIDE DEF y
    <2>5. Follows(D, tx, x)
      BY <2>2, QuietFollows
    <2>6. Follows(D, tx, y)
      BY <2>4, <2>5, QuietFollows, FollowsOn
    <2>7. CASE tx' = Query(x)
      <3>1. Follows(D, x, Query(x))
        BY <2>3, StepsQuiet, QuietFollows
      <3> QED BY <1>1, <1>8, <2>5, <2>7, <3>1, FollowsOn DEF QueryTimeout
    <2>8. CASE BeginNext(y)
      <3>1. Follows(D, y, tx')
        BY <1>0, <2>4, <2>8, BeginNextFollows
      <3> QED BY <1>1, <1>8, <2>6, <3>1, FollowsOn DEF QueryTimeout
    <2>9. CASE tx' = EndWindow(x, "false")
      <3>1. Follows(D, x, EndWindow(x, "false"))
        BY <2>3, EndWindowFollows
      <3> QED BY <1>1, <1>8, <2>5, <2>9, <3>1, FollowsOn DEF QueryTimeout
    <2> QED BY <2>1, <2>7, <2>8, <2>9
  <1>9. CASE BurstEnds
    <2>1. Quiet(tx, tx')
      BY <1>0, <1>9 DEF BurstEnds, Quiet, Words, TxInit
    <2> QED BY <1>1, <1>9, <2>1, QuietFollows DEF BurstEnds
  <1>10. CASE AbortBurst
    BY <1>0, <1>1, <1>10, EndWindowFollows DEF AbortBurst
  <1> QED BY <1>2, <1>3, <1>4, <1>5, <1>6, <1>7, <1>8, <1>9, <1>10 DEF SenderStep

\* So does hearing a word or a proof.
LEMMA HearTrue ==
  ASSUME NEW own, TrueAll(own), (\E w \in rx.words : Hear(w)) \/ (\E p \in Packets : HearProof(p))
  PROVE  TrueAll(own)'
  <1>0. /\ TxTrue(own, rx.delivered, tx) /\ DOMAIN tx = DOMAIN TxInit
        /\ \A w \in rx.words : TrueWord(Arrived(own, tx.nextId, rx.delivered), w)
        /\ rx.proofs \subseteq rx.delivered
    BY DEF TrueAll, TxTrue, RxTrue
  <1>1. ASSUME TxTrue(own, rx.delivered, tx'), tx'.nextId = tx.nextId, UNCHANGED <<rx, air>>
        PROVE  TrueAll(own)'
    <2>1. TxTrue(own, rx'.delivered, tx') /\ RxTrue(own, tx'.nextId, rx')
      BY <1>1 DEF TrueAll
    <2> QED BY <1>1, <2>1 DEF TrueAll
  <1>2. ASSUME NEW w \in rx.words, Hear(w) PROVE TrueAll(own)'
    <2>1. /\ DOMAIN tx' = DOMAIN tx /\ tx'.parts = tx.parts /\ tx'.nextId = tx.nextId /\ tx'.id = tx.id
          /\ tx'.win = tx.win /\ tx'.cut = tx.cut /\ tx'.proved = tx.proved
          /\ tx'.result = tx.result /\ tx'.resumable = tx.resumable
          /\ tx'.unsent = tx.unsent /\ Words(tx') \subseteq Words(tx) \union {w}
      BY <1>0, <1>2 DEF Hear, TxInit, Words
    <2>2. TxTrue(own, rx.delivered, tx')
      BY <1>0, <2>1 DEF TxTrue, Earned
    <2> QED BY <1>1, <1>2, <2>1, <2>2 DEF Hear
  <1>3. ASSUME NEW p \in Packets, HearProof(p) PROVE TrueAll(own)'
    <2>1. /\ DOMAIN tx' = DOMAIN tx /\ tx'.parts = tx.parts /\ tx'.nextId = tx.nextId /\ tx'.id = tx.id
          /\ tx'.win = tx.win /\ tx'.cut = tx.cut /\ tx'.proved = tx.proved \union {p}
          /\ tx'.result = tx.result /\ tx'.resumable = tx.resumable
          /\ tx'.unsent = tx.unsent /\ Words(tx') = Words(tx)
      BY <1>0, <1>3 DEF HearProof, TxInit, Words
    <2>2. p \in rx.delivered
      BY <1>0, <1>3 DEF HearProof
    <2>3. TxTrue(own, rx.delivered, tx')
      BY <1>0, <2>1, <2>2 DEF TxTrue, Earned
    <2> QED BY <1>1, <1>3, <2>1, <2>3 DEF HearProof
  <1> QED BY <1>2, <1>3

\* So does a step of the receiver.
LEMMA ReceiverTrue ==
  ASSUME NEW own, TrueAll(own), Inv, Regular, ReceiverStep
  PROVE  TrueAll(own)' /\ UNCHANGED tx /\ Gained(own, tx.nextId, rx.delivered, rx'.delivered)
  <1> DEFINE n == tx.nextId
             A == Arrived(own, n, rx.delivered)
  <1>0. /\ own \in [Ids -> Packets] /\ RxTrue(own, n, rx) /\ TxTrue(own, rx.delivered, tx)
        /\ \A f \in air : TrueFrame(own, n, f)
        /\ DOMAIN rx = DOMAIN RxInit
    BY DEF TrueAll, RxTrue
  <1>1. UNCHANGED <<tx, air>>
    BY DEF ReceiverStep, ReceiveFrame, FireGaps, Evict, Forget, Prove, FireTail, EndGrace,
           AnswerQuery, RetryReport, Tell, Hold
  <1> DEFINE Goal == TrueAll(own)' /\ UNCHANGED tx /\ Gained(own, n, rx.delivered, rx'.delivered)
  <1>2. ASSUME RxTrue(own, n, rx'), Gained(own, n, rx.delivered, rx'.delivered) PROVE Goal
    <2>0. rx.delivered \subseteq rx'.delivered
      BY <1>2 DEF Gained
    <2>1. \A w : TrueWord(A, w) => TrueWord(Arrived(own, n, rx'.delivered), w)
      BY <2>0, MoreArrived
    <2>2. TxTrue(own, rx'.delivered, tx)
      <3>1. Earned(rx'.delivered, tx)
        BY <1>0, <2>0 DEF TxTrue, Earned
      <3> QED BY <1>0, <2>0, <2>1, <3>1 DEF TxTrue
    <2>3. TxTrue(own, rx'.delivered, tx') /\ RxTrue(own, tx'.nextId, rx')
      BY <1>1, <1>2, <2>2
    <2> QED BY <1>0, <1>1, <1>2, <2>3 DEF TrueAll
  <1>21. rx'.delivered = rx.delivered => Gained(own, n, rx.delivered, rx'.delivered)
    BY DEF Gained
  <1> HIDE DEF Goal
  <1>3. ASSUME NEW f \in air, ReceiveFrame(f) PROVE Goal
    <2>1. PICK c : Cuts = {c}
      BY DEF Regular
    <2>2. rx' \in Receive(rx, f) /\ TrueFrame(own, n, f)
      BY <1>0, <1>3 DEF ReceiveFrame
    <2> QED BY <1>0, <1>2, <2>1, <2>2, ReceiveTrue
  <1>4. ASSUME NEW k \in Keys, FireGaps(k) PROVE Goal
    <2> DEFINE y == [rx EXCEPT !.gaps[k] = None]
    <2>1. rx' = y \/ rx' = Report(y, k, rx.gaps[k], FALSE)
      BY <1>4 DEF FireGaps
    <2>2. /\ DOMAIN y = DOMAIN rx /\ y.bucket = rx.bucket /\ y.done = rx.done
          /\ y.recent = rx.recent /\ y.words = rx.words /\ y.tail = rx.tail /\ y.grace = rx.grace
          /\ y.delivered = rx.delivered /\ y.garbled = rx.garbled /\ y.proofs = rx.proofs
      BY <1>0 DEF RxInit
    <2> HIDE DEF y
    <2>3. RxTrue(own, n, y)
      BY <1>0, <2>2 DEF RxTrue
    <2>4. RxTrue(own, n, Report(y, k, rx.gaps[k], FALSE))
      BY <2>3, ReportTrue
    <2>5. Report(y, k, rx.gaps[k], FALSE).delivered = y.delivered
      <3>1. DOMAIN y = DOMAIN RxInit
        BY <1>0, <2>2
      <3> QED BY <3>1, ReportDelivers
    <2> QED BY <1>2, <1>21, <2>1, <2>2, <2>3, <2>4, <2>5
  <1>5. CASE FireTail
    <2>1. rx.tail.key \in A /\ rx.tail.key \in Keys /\ rx' = Report(rx, rx.tail.key, rx.tail.round, TRUE)
      BY <1>0, <1>5 DEF FireTail, RxTrue, Arrived
    <2>2. RxTrue(own, n, rx')
      BY <1>0, <2>1, ReportTrue
    <2>3. rx'.delivered = rx.delivered
      BY <1>0, <2>1, ReportDelivers
    <2> QED BY <1>2, <1>21, <2>2, <2>3 DEF Goal
  <1>6. ASSUME NEW p \in Packets, Prove(p) PROVE Goal
    <2>1. /\ DOMAIN rx' = DOMAIN rx /\ rx'.bucket = rx.bucket /\ rx'.done = rx.done
          /\ rx'.recent = rx.recent /\ rx'.words = rx.words /\ rx'.tail = rx.tail /\ rx'.grace = rx.grace
          /\ rx'.delivered = rx.delivered /\ rx'.garbled = rx.garbled
          /\ rx'.proofs = rx.proofs \union {p} /\ p \in rx.delivered
      BY <1>0, <1>6 DEF Prove, RxInit
    <2>2. RxTrue(own, n, rx')
      BY <1>0, <2>1 DEF RxTrue
    <2> QED BY <1>2, <1>21, <2>1, <2>2
  <1>7. CASE EndGrace
    <2>1. CASE rx' = [rx EXCEPT !.grace = None]
      <3>1. /\ DOMAIN rx' = DOMAIN rx /\ rx'.bucket = rx.bucket /\ rx'.done = rx.done
            /\ rx'.recent = rx.recent /\ rx'.words = rx.words /\ rx'.tail = rx.tail /\ rx'.grace = None
            /\ rx'.delivered = rx.delivered /\ rx'.garbled = rx.garbled /\ rx'.proofs = rx.proofs
        BY <1>0, <2>1 DEF RxInit
      <3>2. RxTrue(own, n, rx')
        BY <1>0, <3>1 DEF RxTrue
      <3> QED BY <1>2, <1>21, <3>1, <3>2 DEF Goal
    <2>2. CASE rx' = Report(rx, rx.grace.key, rx.grace.round, TRUE)
      <3>1. rx.grace.key \in A /\ rx.grace.key \in Keys
        BY <1>0, <1>7 DEF EndGrace, RxTrue, Arrived
      <3>2. RxTrue(own, n, rx')
        BY <1>0, <2>2, <3>1, ReportTrue
      <3>3. rx'.delivered = rx.delivered
        BY <1>0, <2>2, ReportDelivers
      <3> QED BY <1>2, <1>21, <3>2, <3>3 DEF Goal
    <2> QED BY <1>7, <2>1, <2>2 DEF EndGrace
  <1>8. ASSUME NEW nonce, NEW ks \in SUBSET Keys, Tell(nonce, ks) PROVE Goal
    <2> DEFINE word == [nonce |-> nonce, entries |-> {Entry(rx, k) : k \in ks}]
    <2>1. /\ DOMAIN rx' = DOMAIN rx /\ rx'.bucket = rx.bucket /\ rx'.done = rx.done
          /\ rx'.recent = rx.recent /\ rx'.words = rx.words \union {word}
          /\ rx'.tail = rx.tail /\ rx'.grace = rx.grace
          /\ rx'.delivered = rx.delivered /\ rx'.garbled = rx.garbled /\ rx'.proofs = rx.proofs
      BY <1>0, <1>8 DEF Tell, RxInit
    <2>2. TrueWord(A, word)
      <3>1. ASSUME NEW k \in ks
            PROVE  /\ Entry(rx, k).key = k
                   /\ (Entry(rx, k).complete \/ Entry(rx, k).held = 1..k[2]) => k \in A
        BY <1>0, EntryTrue
      <3>2. word.entries = {Entry(rx, k) : k \in ks}
        OBVIOUS
      <3> HIDE DEF word, A
      <3> QED BY <3>1, <3>2 DEF TrueWord
    <2> HIDE DEF word
    <2>3. RxTrue(own, n, rx')
      BY <1>0, <2>1, <2>2 DEF RxTrue
    <2> QED BY <1>2, <1>21, <2>1, <2>3
  <1>9. ASSUME NEW k \in Keys, Evict(k) \/ Forget(k) PROVE Goal
    <2>1. /\ DOMAIN rx' = DOMAIN rx /\ rx'.bucket \in {rx.bucket, [rx.bucket EXCEPT ![k] = None]}
          /\ rx'.done \subseteq rx.done /\ rx'.recent = rx.recent /\ rx'.words = rx.words
          /\ rx'.tail = rx.tail /\ rx'.grace = rx.grace
          /\ rx'.delivered = rx.delivered /\ rx'.garbled = rx.garbled /\ rx'.proofs = rx.proofs
      BY <1>0, <1>9 DEF Evict, Forget, RxInit
    <2>2. DOMAIN rx'.bucket = Keys /\ \A j \in Keys : rx'.bucket[j] \in {rx.bucket[j], None}
      BY <1>0, <2>1 DEF RxTrue
    <2>3. RxTrue(own, n, rx')
      <3>1. rx'.recent \subseteq Keys /\ rx'.proofs \subseteq rx'.delivered
        BY <1>0, <2>1 DEF RxTrue
      <3> QED BY <1>0, <2>1, <2>2, <3>1, RxKeeps
    <2> QED BY <1>2, <1>21, <2>1, <2>3
  <1> QED BY <1>3, <1>4, <1>5, <1>6, <1>7, <1>8, <1>9, TellsWhat DEF ReceiverStep, Goal

\* The inductive invariant.
AllTrue == \E own \in [Ids -> Packets] : TrueAll(own)

\* Everything is true at first.
LEMMA InitTrue == Init => AllTrue
  <1> SUFFICES ASSUME Init PROVE AllTrue
    OBVIOUS
  <1>1. PICK own : own = [i \in Ids |-> 1]
    OBVIOUS
  <1>2. own \in [Ids -> Packets]
    BY <1>1, SizeAssumption DEF Packets
  <1>3. TxTrue(own, rx.delivered, tx)
    <2>1. /\ tx.parts = {} /\ tx.nextId = 0 /\ tx.win = 0 /\ tx.resumable = [p \in Packets |-> None]
          /\ tx.unsent = {} /\ tx.mail = None /\ tx.early = None /\ tx.provisional = None
          /\ tx.proved = {} /\ tx.result = [p \in Packets |-> "unsent"] /\ DOMAIN tx = DOMAIN TxInit
      BY DEF Init, TxInit
    <2>3. \A i \in Ids : ~(i < 0)
      BY SizeAssumption DEF Ids
    <2>2. 0 \in Ids /\ 0 \in 0..MaxWindows /\ 0 <= 0 * N
      BY SizeAssumption DEF Ids
    <2>4. Earned(rx.delivered, tx)
      BY <2>1 DEF Earned, Rated, Results
    <2> QED BY <2>1, <2>2, <2>3, <2>4 DEF TxTrue, Words
  <1>4. RxTrue(own, tx.nextId, rx)
    <2>1. /\ DOMAIN rx = DOMAIN RxInit /\ rx.bucket = [k \in Keys |-> None] /\ rx.done = {}
          /\ rx.recent = {} /\ rx.tail = None /\ rx.grace = None /\ rx.words = {}
          /\ rx.garbled = FALSE /\ rx.proofs = {}
      BY DEF Init, RxInit
    <2> QED BY <2>1 DEF RxTrue
  <1>5. TrueAll(own)
    BY <1>2, <1>3, <1>4 DEF TrueAll, Init
  <1> QED BY <1>2, <1>5 DEF AllTrue

\* And after every step.
LEMMA NextTrue ==
  ASSUME Inv, Regular, AllTrue, Awake(tx), [Next]_vars
  PROVE  AllTrue'
  <1>1. PICK own : TrueAll(own)
    BY DEF AllTrue
  <1>2. CASE \E S \in (SUBSET Packets) \ {{}} : \E fresh \in SUBSET S, c \in Cuts : OpenWindow(S, fresh, c)
    BY <1>1, <1>2, OpenWindowTrue DEF AllTrue
  <1>3. CASE SenderStep \/ BurstEnds \/ AbortBurst
    BY <1>1, <1>3, SenderTrue DEF AllTrue
  <1>4. CASE (\E w \in rx.words : Hear(w)) \/ (\E p \in Packets : HearProof(p))
    BY <1>1, <1>4, HearTrue DEF AllTrue
  <1>5. CASE ReceiverStep
    BY <1>1, <1>5, ReceiverTrue DEF AllTrue
  <1>6. ~Restart
    BY DEF Restart, Fault, Regular
  <1>7. CASE UNCHANGED vars
    BY <1>1, <1>7 DEF AllTrue, TrueAll, vars
  <1> QED BY <1>2, <1>3, <1>4, <1>5, <1>6, <1>7 DEF Next, ReceiverStep

\* Fragments, frames, words and verdicts are of the packets their identifiers were
\* given to, throughout.
THEOREM AllTrueHolds ==
  ASSUME Regular
  PROVE  Spec => []AllTrue
  <1>1. Init => Inv /\ AllTrue /\ Awake(tx)
    BY InitInv, InitTrue, AwakeKept
  <1>2. (Inv /\ AllTrue /\ Awake(tx)) /\ [Next]_vars => (Inv /\ AllTrue /\ Awake(tx))'
    BY NextInv, NextTrue, AwakeKept
  <1> QED BY <1>1, <1>2, PTL DEF Spec

\* NothingGarbled: what the receiver puts together is always a packet that was sent,
\* cut as it was sent, whatever was lost, repeated, evicted, expired or forgotten.
THEOREM NothingGarbledHolds ==
  ASSUME Regular
  PROVE  Spec => []NothingGarbled
  <1>1. AllTrue => NothingGarbled
    BY DEF AllTrue, TrueAll, RxTrue, NothingGarbled
  <1> QED BY <1>1, AllTrueHolds, PTL

\* ConfirmedDelivered: a packet the sender resolves to True has been delivered.
THEOREM ConfirmedDeliveredHolds ==
  ASSUME Regular
  PROVE  Spec => []ConfirmedDelivered
  <1>1. AllTrue => Earned(rx.delivered, tx)
    BY DEF AllTrue, TrueAll, TxTrue
  <1>2. AllTrue => ConfirmedDelivered
    BY <1>1 DEF Earned, ConfirmedDelivered
  <1> QED BY <1>2, AllTrueHolds, PTL

-----------------------------------------------------------------------------
(* The refinement: what the mapping of RawDelivery says of each step. *)

\* The packets submitted, as RawDelivery sees them.
Sent == {p \in Packets : tx.id[p] # None}

\* Verdicts on open packets are a Settle, or no step at all.
LEMMA SettleSimulates ==
  ASSUME Judged(rx.delivered, tx.result, tx'.result), Rated(tx.result), tx'.id = tx.id, UNCHANGED rx
  PROVE  Delivery!Next \/ UNCHANGED Delivery!vars
  <1> DEFINE S == {p \in Packets : tx'.result[p] # tx.result[p]}
  <1>1. Sent' = Sent /\ rx'.delivered = rx.delivered
    BY DEF Sent
  <1>2. Rated(tx'.result)
    BY DEF Judged
  <1>3. CASE S = {}
    <2>1. tx'.result = tx.result
      BY <1>2, <1>3 DEF Rated
    <2> QED BY <1>1, <2>1 DEF Delivery!vars, Sent
  <1>4. CASE S # {}
    <2>1. tx'.result \in [Packets -> {"unsent", "open"} \union Delivery!Verdicts]
      BY <1>2 DEF Rated, Results, Verdicts, Delivery!Verdicts
    <2>2. ASSUME NEW p \in S
          PROVE  /\ tx.result[p] = "open" /\ tx'.result[p] \in Delivery!Verdicts
                 /\ tx'.result[p] = "true" => p \in rx.delivered
      BY DEF Judged, Verdicts, Delivery!Verdicts
    <2>3. \A p \in Packets \ S : tx'.result[p] = tx.result[p]
      OBVIOUS
    <2>4. S \subseteq Packets
      OBVIOUS
    <2> HIDE DEF S
    <2>6. S \in (SUBSET Packets) \ {{}}
      BY <1>4, <2>4
    <2>5. Delivery!Settle(S)
      BY <1>1, <2>1, <2>2, <2>3 DEF Delivery!Settle, Sent
    <2> QED BY <2>5, <2>6 DEF Delivery!Next
  <1> QED BY <1>3, <1>4

\* A round that begins with open packets, and is not past the last, judges none.
LEMMA BeginKeeps ==
  ASSUME NEW x, DOMAIN x = DOMAIN TxInit, NEW r, r # Rounds, Open(x) # {},
         x.result \in [Packets -> Results]
  PROVE  Begin(x, r, {}).result = x.result /\ Begin(x, r, {}).id = x.id
  <1> DEFINE y0 == Resolve(Remember(x, {}), {}, "false")
             y == [y0 EXCEPT !.rnd = r, !.attempt = 0, !.inRound = Open(x) \ {}]
             z == [y EXCEPT !.burst = BurstAllowed(y), !.last = LastOf(y)]
             a == Await(z, Open(z), <<"report", r % 4>>)
             b == [a EXCEPT !.phase = "burst", !.unsent = Burst(z),
                            !.early = None, !.provisional = None, !.airborne = FALSE]
  <1>0. Open(y) = {} \/ Begin(x, r, {}) = b \/ Begin(x, r, {}) = Query(z)
    BY DEF Begin, Exhausted
  <1>1. /\ DOMAIN y0 = DOMAIN TxInit /\ y0.id = x.id /\ y0.parts = x.parts
        /\ y0.result = [p \in Packets |-> x.result[p]]
    BY DEF Resolve, Remember, TxInit
  <1>2. y0.result = x.result
    BY <1>1
  <1> HIDE DEF y0
  <1>3. DOMAIN y = DOMAIN TxInit /\ y.id = x.id /\ y.result = x.result /\ Open(y) = Open(x)
    BY <1>1, <1>2 DEF TxInit, Open
  <1>4. Begin(x, r, {}) = b \/ Begin(x, r, {}) = Query(z)
    BY <1>0, <1>3
  <1> HIDE DEF y
  <1>5. DOMAIN z = DOMAIN TxInit /\ z.id = x.id /\ z.result = x.result
    BY <1>3 DEF TxInit
  <1> HIDE DEF z
  <1>6. Quiet(z, a) /\ Quiet(z, Query(z))
    BY <1>5, StepsQuiet
  <1>7. DOMAIN a = DOMAIN TxInit /\ a.id = x.id /\ a.result = x.result
    BY <1>5, <1>6 DEF Quiet
  <1> HIDE DEF a
  <1>8. b.id = x.id /\ b.result = x.result
    BY <1>7 DEF TxInit
  <1> QED BY <1>4, <1>5, <1>6, <1>8 DEF Quiet

\* Opening a window submits its packets.
LEMMA OpenSimulates ==
  ASSUME NEW own, TrueAll(own), Awake(tx), NEW S \in (SUBSET Packets) \ {{}}, NEW fresh \in SUBSET S,
         NEW c \in Cuts, OpenWindow(S, fresh, c)
  PROVE  Delivery!Next
  <1> DEFINE x == [tx EXCEPT
                !.win = @ + 1, !.parts = S, !.cut = c,
                !.nextId = (@ + Cardinality(fresh)) % IdMod,
                !.id = [p \in Packets |-> IF p \in fresh THEN Numbered(fresh, p)
                                          ELSE IF p \in S THEN tx.resumable[p].id ELSE tx.id[p]],
                !.acked = [p \in Packets |-> IF p \in fresh THEN {}
                                             ELSE IF p \in S THEN tx.resumable[p].acked ELSE tx.acked[p]],
                !.result = [p \in Packets |-> IF p \in S THEN "open" ELSE tx.result[p]],
                !.resumable = [p \in Packets |-> IF p \in S THEN None ELSE tx.resumable[p]]]
  <1>1. DOMAIN tx = DOMAIN TxInit /\ tx.nextId \in Ids /\ Earned(rx.delivered, tx)
    BY DEF TrueAll, TxTrue
  <1>2. /\ DOMAIN x = DOMAIN TxInit /\ x.parts = S
        /\ x.id = [p \in Packets |-> IF p \in fresh THEN Numbered(fresh, p)
                                     ELSE IF p \in S THEN tx.resumable[p].id ELSE tx.id[p]]
        /\ x.result = [p \in Packets |-> IF p \in S THEN "open" ELSE tx.result[p]]
    BY <1>1 DEF TxInit
  <1>3. tx' = Begin(x, 0, {}) /\ UNCHANGED rx /\ tx.phase = "idle"
        /\ \A p \in S \ fresh : tx.resumable[p] # None
    BY DEF OpenWindow
  <1> HIDE DEF x
  <1>4. \A p \in Packets : tx.result[p] # "open"
    BY <1>1, <1>3 DEF Earned, Open, Awake
  <1>5. ASSUME NEW p \in S PROVE x.id[p] # None
    <2>1. CASE p \in fresh
      <3>1. Numbered(fresh, p) \in Ids
        BY <1>1, <2>1, NumberedType
      <3> QED BY <1>2, <2>1, <3>1, NoneAssumption
    <2>2. CASE p \notin fresh
      <3>1. tx.resumable[p].id \in Ids
        BY <1>3, <2>2 DEF TrueAll, TxTrue, Owned
      <3> QED BY <1>2, <2>2, <3>1, NoneAssumption
    <2> QED BY <2>1, <2>2
  <1>6. tx'.result = x.result /\ tx'.id = x.id
    <2>1. 0 # Rounds
      BY SizeAssumption
    <2>0. PICK p \in S : p \in Packets
      OBVIOUS
    <2>4. x.result[p] = "open" /\ p \in x.parts
      BY <1>2, <2>0
    <2>2. Open(x) # {}
      BY <2>4 DEF Open
    <2>3. x.result \in [Packets -> Results]
      BY <1>1, <1>2 DEF Earned, Rated, Results
    <2> QED BY <1>2, <1>3, <2>1, <2>2, <2>3, BeginKeeps
  <1>7. {p \in Packets : tx'.id[p] # None} = {p \in Packets : tx.id[p] # None} \union S
    BY <1>2, <1>5, <1>6
  <1>8. Delivery!Submit(S)
    BY <1>2, <1>3, <1>4, <1>6, <1>7 DEF Delivery!Submit
  <1> QED BY <1>8 DEF Delivery!Next

\* What the receiver gains, it is delivered.
LEMMA DeliverSimulates ==
  ASSUME NEW own, TrueAll(own), UNCHANGED tx, Gained(own, tx.nextId, rx.delivered, rx'.delivered)
  PROVE  Delivery!Next \/ UNCHANGED Delivery!vars
  <1>1. CASE rx'.delivered = rx.delivered
    BY <1>1 DEF Delivery!vars
  <1>2. CASE \E i \in Ids : i < tx.nextId /\ rx'.delivered = rx.delivered \union {own[i]}
    <2>1. PICK i \in Ids : i < tx.nextId /\ rx'.delivered = rx.delivered \union {own[i]}
      BY <1>2
    <2>2. own[i] \in Packets /\ tx.id[own[i]] # None
      BY <2>1 DEF TrueAll, TxTrue
    <2>3. Delivery!Deliver(own[i])
      BY <2>1, <2>2 DEF Delivery!Deliver
    <2> QED BY <2>2, <2>3 DEF Delivery!Next
  <1> QED BY <1>1, <1>2 DEF Gained

\* Every step is one of RawDelivery's, or none.
LEMMA NextSimulates ==
  ASSUME Inv, Regular, AllTrue, Awake(tx), [Next]_vars
  PROVE  Delivery!Next \/ UNCHANGED Delivery!vars
  <1>1. PICK own \in [Ids -> Packets] : TrueAll(own)
    BY DEF AllTrue
  <1>2. Rated(tx.result) /\ DOMAIN tx = DOMAIN TxInit
    BY <1>1 DEF TrueAll, TxTrue, Earned
  <1>3. CASE \E S \in (SUBSET Packets) \ {{}} : \E fresh \in SUBSET S, c \in Cuts : OpenWindow(S, fresh, c)
    BY <1>1, <1>3, OpenSimulates
  <1>4. CASE SenderStep \/ BurstEnds \/ AbortBurst
    <2>1. Follows(rx.delivered, tx, tx') /\ UNCHANGED rx
      BY <1>1, <1>4, SenderTrue
    <2>2. Judged(rx.delivered, tx.result, tx'.result) /\ tx'.id = tx.id
      BY <2>1 DEF Follows
    <2> QED BY <1>2, <2>1, <2>2, SettleSimulates
  <1>5. CASE (\E w \in rx.words : Hear(w)) \/ (\E p \in Packets : HearProof(p))
    <2>1. tx'.id = tx.id /\ tx'.result = tx.result /\ rx' = rx
      BY <1>2, <1>5 DEF Hear, HearProof, TxInit
    <2> QED BY <2>1 DEF Delivery!vars
  <1>6. CASE ReceiverStep
    BY <1>1, <1>6, ReceiverTrue, DeliverSimulates
  <1>7. ~Restart
    BY DEF Restart, Fault, Regular
  <1>8. CASE UNCHANGED vars
    BY <1>8 DEF vars, Delivery!vars
  <1> QED BY <1>3, <1>4, <1>5, <1>6, <1>7, <1>8 DEF Next, ReceiverStep

\* ImplementsDelivery: the transfer keeps the promise of RawDelivery. Rounds, bursts,
\* reports, faults and resumes are steps it does not see; a window submits, the
\* receiver delivers only what was submitted, and each submission gets one verdict,
\* "true" only for what was delivered.
THEOREM ImplementsDeliveryHolds ==
  ASSUME Regular
  PROVE  Spec => ImplementsDelivery
  <1>1. Init => Inv /\ AllTrue /\ Awake(tx)
    BY InitInv, InitTrue, AwakeKept
  <1>2. (Inv /\ AllTrue /\ Awake(tx)) /\ [Next]_vars => (Inv /\ AllTrue /\ Awake(tx))'
    BY NextInv, NextTrue, AwakeKept
  <1>3. Init => Delivery!Init
    <2> SUFFICES ASSUME Init PROVE Delivery!Init
      OBVIOUS
    <2>1. /\ tx.id = [p \in Packets |-> None] /\ tx.result = [p \in Packets |-> "unsent"]
          /\ rx.delivered = {}
      BY DEF Init, TxInit, RxInit
    <2> QED BY <2>1 DEF Delivery!Init
  <1>4. (Inv /\ AllTrue /\ Awake(tx)) /\ [Next]_vars => [Delivery!Next]_(Delivery!vars)
    BY NextSimulates
  <1> QED BY <1>1, <1>2, <1>3, <1>4, PTL DEF Spec, ImplementsDelivery, Delivery!Spec

-----------------------------------------------------------------------------
(* The types.

   Those of the sender are kept function by function (Formed), with the rounds
   of a window beside them (Timed); those of the receiver rest on the solver's
   keeping a bucket's pieces in it (SolvePieces). *)

\* What the sender believes, remembers and sends is of its packets' sizes.
Sized(x) ==
    /\ \A p \in Packets : x.acked[p] \subseteq 1..Frags[p]
    /\ Rated(x.result)
    /\ \A p \in Packets : x.resumable[p] # None =>
        x.resumable[p].acked \subseteq 1..Frags[p] /\ x.resumable[p].acked # {}
    /\ x.unsent \subseteq UNION {{p} \X (1..Frags[p] + 1) : p \in Packets}

\* What it hears and asks is well formed.
Spoken(x) ==
    /\ \A i \in Ids : x.waiter[i] # None => x.waiter[i].nonce \in Nonces /\ x.waiter[i].window \in 1..x.win
    /\ \A w \in {x.mail, x.early, x.provisional} \ {None} : IsWord(w)
    /\ x.nonce \in 0..239 /\ x.proved \subseteq Provable
    /\ \A q \in x.queries : q.nonce \in Nonces

\* Its flags and tallies are in range.
Tallied(x) ==
    /\ x.phase \in {"idle", "burst", "report", "query"}
    /\ x.win \in 0..MaxWindows /\ x.cut \in Cuts \union {None}
    /\ {x.burst, x.airborne, x.atEntry} \subseteq BOOLEAN
    /\ x.unanswered \in Nat /\ x.inARow \in 0..x.unanswered

Formed(x) == DOMAIN x = DOMAIN TxInit /\ x.parts \subseteq Packets /\ Sized(x) /\ Spoken(x) /\ Tallied(x)

\* A window is open, of packets cut at some size.
Opened(x) == x.win > 0 /\ x.cut \in Cuts

\* The rounds of a window, and that a sender at rest has none.
Timed(x) ==
    /\ x.rnd \in 0..Rounds - 1 /\ x.unanswered <= x.rnd /\ x.inRound \subseteq x.parts
    /\ x.attempt \in 0..QueryAttempts /\ x.empty \in 0..FallbackStrikes - 1
    /\ x.phase # "query" => x.attempt = 0
    /\ x.phase = "idle" => x.rnd = 0
    /\ x.phase # "idle" => Opened(x)

Typed(x) == Formed(x) /\ Timed(x)

LEMMA Limits ==
  /\ Rounds \in Nat \ {0} /\ QueryAttempts \in Nat \ {0} /\ FallbackStrikes \in Nat \ {0}
  /\ Frags \in [Packets -> 1..255] /\ MaxWindows \in Nat /\ MaxFaults \in Nat
  BY SizeAssumption

\* Awaiting a word leaves a well-formed sender one.
LEMMA AwaitFormed ==
  ASSUME NEW x, Formed(x), x.win > 0, NEW ps, NEW n \in Nonces
  PROVE  /\ Formed(Await(x, ps, n)) /\ Await(x, ps, n).mail = None
         /\ \A f \in DOMAIN TxInit \ {"mail", "waiter"} : Await(x, ps, n)[f] = x[f]
  <1> DEFINE y == Await(x, ps, n)
  <1>1. /\ DOMAIN y = DOMAIN TxInit /\ y.mail = None
        /\ \A f \in DOMAIN TxInit \ {"mail", "waiter"} : y[f] = x[f]
        /\ y.waiter = [i \in Ids |->
                IF \E p \in ps : x.id[p] = i
                THEN [total |-> Frags[CHOOSE p \in ps : x.id[p] = i], nonce |-> n, window |-> x.win]
                ELSE x.waiter[i]]
    BY DEF Await, Formed, TxInit
  <1> HIDE DEF y
  <1>2. Sized(y) /\ Tallied(y) /\ y.parts = x.parts
    BY <1>1 DEF Sized, Tallied, Formed, TxInit
  <1>3. Spoken(y)
    BY <1>1 DEF Spoken, Formed, TxInit, Tallied
  <1> QED BY <1>1, <1>2, <1>3 DEF Formed, y

LEMMA UnwaitFormed ==
  ASSUME NEW x, Formed(x), NEW ps
  PROVE  /\ Formed(Unwait(x, ps))
         /\ \A f \in DOMAIN TxInit \ {"waiter"} : Unwait(x, ps)[f] = x[f]
  <1> DEFINE y == Unwait(x, ps)
  <1>1. /\ DOMAIN y = DOMAIN TxInit
        /\ \A f \in DOMAIN TxInit \ {"waiter"} : y[f] = x[f]
        /\ y.waiter = [i \in Ids |-> IF \E p \in ps : x.id[p] = i THEN None ELSE x.waiter[i]]
    BY DEF Unwait, Formed, TxInit
  <1> HIDE DEF y
  <1>2. Sized(y) /\ Tallied(y) /\ y.parts = x.parts
    BY <1>1 DEF Sized, Tallied, Formed, TxInit
  <1>3. Spoken(y)
    BY <1>1 DEF Spoken, Formed, TxInit, Tallied
  <1> QED BY <1>1, <1>2, <1>3 DEF Formed, y

LEMMA RestTyped ==
  ASSUME NEW x, Formed(x)
  PROVE  Typed(Rest(x))
  <1> DEFINE y == Rest(x)
  <1>1. /\ DOMAIN y = DOMAIN TxInit
        /\ y.phase = "idle" /\ y.unsent = {} /\ y.inRound = {} /\ y.unanswered = 0
        /\ y.inARow = 0 /\ y.empty = 0 /\ y.attempt = 0 /\ y.rnd = 0 /\ y.burst = FALSE
        /\ y.mail = None /\ y.early = None /\ y.provisional = None
        /\ y.airborne = FALSE /\ y.atEntry = FALSE
        /\ y.parts = x.parts /\ y.win = x.win /\ y.cut = x.cut /\ y.acked = x.acked
        /\ y.result = x.result /\ y.resumable = x.resumable /\ y.waiter = x.waiter
        /\ y.nonce = x.nonce /\ y.proved = x.proved /\ y.queries = x.queries
    BY DEF Rest, Formed, TxInit
  <1> HIDE DEF y
  <1>2. Sized(y) /\ Spoken(y)
    BY <1>1 DEF Sized, Spoken, Formed
  <1>3. Tallied(y)
    <2>1. x.win \in 0..MaxWindows /\ x.cut \in Cuts \union {None}
      BY DEF Formed, Tallied
    <2>2. 0 \in Nat /\ 0 \in 0..0 /\ {FALSE} \subseteq BOOLEAN
      OBVIOUS
    <2> QED BY <1>1, <2>1, <2>2 DEF Tallied
  <1>4. Timed(y)
    BY <1>1, Limits DEF Timed
  <1> QED BY <1>1, <1>2, <1>3, <1>4 DEF Formed, Typed, y

\* So does asking, if an attempt is left.
LEMMA QueryTyped ==
  ASSUME NEW x, Formed(x), Opened(x), x.rnd \in 0..Rounds - 1, x.unanswered <= x.rnd,
         x.inRound \subseteq x.parts, x.empty \in 0..FallbackStrikes - 1, x.attempt \in Nat, x.attempt < QueryAttempts
  PROVE  Typed(Query(x))
  <1> DEFINE n == (x.nonce % 239) + 1
             y == Await(x, Open(x), <<"query", n>>)
             z == Query(x)
             Q == x.queries \union {[nonce |-> <<"query", n>>, keys |-> {Key(x, p) : p \in Open(x)}]}
  <1>1. n \in 1..239
    BY DEF Formed, Spoken
  <1>2. <<"query", n>> \in Nonces
    BY <1>1 DEF Nonces
  <1>3. /\ Formed(y) /\ y.mail = None
        /\ \A f \in DOMAIN TxInit \ {"mail", "waiter"} : y[f] = x[f]
    BY <1>2, AwaitFormed DEF Opened
  <1>4. \A q \in Q : q.nonce \in Nonces
    BY <1>2 DEF Formed, Spoken
  <1>5. z = [y EXCEPT !.phase = "query", !.nonce = n, !.attempt = x.attempt + 1, !.queries = Q,
                      !.early = None, !.provisional = None, !.airborne = FALSE]
    BY DEF Query
  <1> HIDE DEF y, n, Q, z
  <1>6. /\ DOMAIN z = DOMAIN TxInit /\ z.phase = "query" /\ z.nonce = n
        /\ z.attempt = x.attempt + 1 /\ z.queries = Q
        /\ z.early = None /\ z.provisional = None /\ z.airborne = FALSE
        /\ \A f \in DOMAIN TxInit \ {"phase", "nonce", "attempt", "queries", "early", "provisional", "airborne"} :
              z[f] = y[f]
    BY <1>3, <1>5 DEF Formed, TxInit
  <1>7. Sized(z) /\ z.parts = x.parts
    BY <1>3, <1>6 DEF Sized, Formed, TxInit
  <1>8. Tallied(z)
    BY <1>3, <1>6 DEF Tallied, Formed, TxInit
  <1>9. Spoken(z)
    BY <1>1, <1>3, <1>4, <1>6 DEF Spoken, Formed, TxInit
  <1>10. Timed(z)
    <2>1. z.rnd = x.rnd /\ z.unanswered = x.unanswered /\ z.inRound = x.inRound /\ z.empty = x.empty /\ z.win = x.win /\ z.cut = x.cut
      BY <1>3, <1>6 DEF TxInit
    <2> QED BY <1>6, <1>7, <2>1, Limits DEF Timed, Opened
  <1> QED BY <1>6, <1>7, <1>8, <1>9, <1>10, <1>3 DEF Typed, Formed, z

\* Verdicts and what is remembered of packets of the window are of their sizes.
LEMMA ResolveFormed ==
  ASSUME NEW x, Formed(x), NEW ps \in SUBSET Packets, NEW v \in Verdicts
  PROVE  /\ Formed(Resolve(Remember(x, ps), ps, v))
         /\ \A f \in DOMAIN TxInit \ {"result", "resumable"} : Resolve(Remember(x, ps), ps, v)[f] = x[f]
  <1> DEFINE y == Resolve(Remember(x, ps), ps, v)
             s == [p \in Packets |-> IF p \in ps THEN v ELSE x.result[p]]
             m == [p \in Packets |->
                     IF p \in ps /\ x.acked[p] # {} THEN [id |-> x.id[p], acked |-> x.acked[p]]
                     ELSE x.resumable[p]]
  <1>1. /\ DOMAIN y = DOMAIN TxInit /\ y.result = s /\ y.resumable = m
        /\ \A f \in DOMAIN TxInit \ {"result", "resumable"} : y[f] = x[f]
    BY DEF Resolve, Remember, Formed, TxInit
  <1>2. Rated(s)
    BY DEF Formed, Sized, Rated, Results
  <1>3. ASSUME NEW p \in Packets, m[p] # None
        PROVE  m[p].acked \subseteq 1..Frags[p] /\ m[p].acked # {}
    <2>1. CASE p \in ps /\ x.acked[p] # {}
      <3>1. m[p] = [id |-> x.id[p], acked |-> x.acked[p]]
        BY <2>1
      <3>2. m[p].acked = x.acked[p]
        BY <3>1
      <3> QED BY <2>1, <3>2 DEF Formed, Sized
    <2>2. CASE ~(p \in ps /\ x.acked[p] # {})
      <3>1. m[p] = x.resumable[p]
        BY <2>2
      <3> QED BY <1>3, <3>1 DEF Formed, Sized
    <2> QED BY <2>1, <2>2
  <1> HIDE DEF y, s, m
  <1>4. Sized(y) /\ y.parts = x.parts
    BY <1>1, <1>2, <1>3 DEF Sized, Formed, TxInit
  <1>5. Tallied(y)
    BY <1>1 DEF Tallied, Formed, TxInit
  <1>6. Spoken(y)
    BY <1>1 DEF Spoken, Formed, TxInit
  <1> QED BY <1>1, <1>4, <1>5, <1>6 DEF Formed, y

\* The leader returns with a well-formed sender at rest.
LEMMA EndWindowTyped ==
  ASSUME NEW x, Formed(x), NEW v \in Verdicts
  PROVE  Typed(EndWindow(x, v))
  <1>1. Open(x) \subseteq Packets
    BY DEF Open, Formed
  <1> QED BY <1>1, ResolveFormed, RestTyped DEF EndWindow

\* A well-formed word, applied, leaves beliefs of the packets' sizes.
LEMMA ApplyFormed ==
  ASSUME NEW x, Formed(x), NEW w, IsWord(w)
  PROVE  /\ Formed(Apply(x, w))
         /\ \A f \in DOMAIN TxInit \ {"acked", "result", "resumable"} : Apply(x, w)[f] = x[f]
  <1> DEFINE chosen(p) == CHOOSE e \in EntriesFor(x, p, w) : TRUE
             held(p) == Believed(x, p, chosen(p))
             whole == {p \in Named(x, w) : held(p) = 1..Frags[p]}
             a == [p \in Packets |-> IF p \in Named(x, w) THEN held(p) ELSE x.acked[p]]
             s == [p \in Packets |-> IF p \in whole THEN "true" ELSE x.result[p]]
             m == [p \in Packets |-> IF p \in whole THEN None ELSE x.resumable[p]]
             y == Apply(x, w)
  <1>1. /\ DOMAIN y = DOMAIN TxInit /\ y.acked = a /\ y.result = s /\ y.resumable = m
        /\ \A f \in DOMAIN TxInit \ {"acked", "result", "resumable"} : y[f] = x[f]
    BY DEF Apply, Formed, TxInit
  <1>2. ASSUME NEW p \in Packets, p \in Named(x, w) PROVE held(p) \subseteq 1..Frags[p]
    <2> DEFINE e == chosen(p)
    <2>1. e \in w.entries /\ e.key = Key(x, p)
      BY <1>2 DEF Named, EntriesFor
    <2>2. e.held \subseteq 1..e.key[2]
      BY <2>1 DEF IsWord
    <2>3. e.key[2] = Frags[p]
      BY <2>1 DEF Key
    <2> HIDE DEF e
    <2>4. Believed(x, p, e) \subseteq 1..Frags[p]
      BY <2>2, <2>3 DEF Believed
    <2> QED BY <2>4 DEF e
  <1>3. \A p \in Packets : a[p] \subseteq 1..Frags[p]
    BY <1>2 DEF Formed, Sized
  <1>4. Rated(s)
    BY DEF Formed, Sized, Rated, Results, Verdicts
  <1>5. \A p \in Packets : m[p] # None => m[p] = x.resumable[p]
    OBVIOUS
  <1> HIDE DEF y, s, m, a
  <1>6. Sized(y) /\ y.parts = x.parts
    BY <1>1, <1>3, <1>4, <1>5 DEF Sized, Formed, TxInit
  <1>7. Tallied(y)
    BY <1>1 DEF Tallied, Formed, TxInit
  <1>8. Spoken(y)
    BY <1>1 DEF Spoken, Formed, TxInit
  <1> QED BY <1>1, <1>6, <1>7, <1>8 DEF Formed, y

\* A burst's frames are fragments and parities of the window's packets.
LEMMA BurstSized ==
  ASSUME NEW x, x.parts \subseteq Packets
  PROVE  Burst(x) \subseteq UNION {{p} \X (1..Frags[p] + 1) : p \in Packets}
  <1>1. \A p \in Packets : Frags[p] \in Nat /\ Frags[p] + 1 \in 1..Frags[p] + 1
    BY Limits
  <1>2. \A p \in Packets : 1..Frags[p] \subseteq 1..Frags[p] + 1
    BY <1>1
  <1>3. Open(x) \subseteq Packets
    BY DEF Open
  <1>4. ASSUME NEW p \in Packets
        PROVE  /\ {p} \X Missing(x, p) \subseteq {p} \X (1..Frags[p] + 1)
               /\ <<p, Frags[p] + 1>> \in {p} \X (1..Frags[p] + 1)
    BY <1>1, <1>2 DEF Missing
  <1>5. ASSUME NEW u \in Burst(x)
        PROVE  \E p \in Packets : u \in {p} \X (1..Frags[p] + 1)
    <2>1. \/ \E p \in Open(x) : u \in {p} \X Missing(x, p)
          \/ \E p \in Open(x) : u = <<p, Frags[p] + 1>>
      BY <1>5 DEF Burst
    <2> QED BY <1>3, <1>4, <2>1
  <1> QED BY <1>5

\* A round, or the window's end after the last.
LEMMA BeginTyped ==
  ASSUME NEW x, Formed(x), Opened(x), NEW r \in 0..Rounds, x.unanswered <= r,
         x.empty \in 0..FallbackStrikes - 1, NEW late \in SUBSET Open(x)
  PROVE  Typed(Begin(x, r, late))
  <1> DEFINE y0 == Resolve(Remember(x, late), late, "false")
             y == [y0 EXCEPT !.rnd = r, !.attempt = 0, !.inRound = Open(x) \ late]
             z == [y EXCEPT !.burst = BurstAllowed(y), !.last = LastOf(y)]
             a == Await(z, Open(z), <<"report", r % 4>>)
             b == [a EXCEPT !.phase = "burst", !.unsent = Burst(z),
                            !.early = None, !.provisional = None, !.airborne = FALSE]
  <1>0. Open(x) \subseteq x.parts /\ x.parts \subseteq Packets /\ late \subseteq Packets
    BY DEF Open, Formed
  <1>1. /\ Formed(y0)
        /\ \A f \in DOMAIN TxInit \ {"result", "resumable"} : y0[f] = x[f]
    BY <1>0, ResolveFormed DEF Verdicts
  <1> HIDE DEF y0
  <1>2. /\ DOMAIN y = DOMAIN TxInit /\ y.rnd = r /\ y.attempt = 0 /\ y.inRound = Open(x) \ late
        /\ \A f \in DOMAIN TxInit \ {"rnd", "attempt", "inRound"} : y[f] = y0[f]
    BY <1>1 DEF Formed, TxInit
  <1> HIDE DEF y
  <1>3. Formed(y)
    <2>1. Sized(y) /\ y.parts \subseteq Packets
      BY <1>1, <1>2 DEF Formed, Sized, TxInit
    <2>2. Spoken(y)
      BY <1>1, <1>2 DEF Formed, Spoken, TxInit
    <2>3. Tallied(y)
      BY <1>1, <1>2 DEF Formed, Tallied, TxInit
    <2> QED BY <1>2, <2>1, <2>2, <2>3 DEF Formed
  <1>4. BurstAllowed(y) \in BOOLEAN
    BY DEF BurstAllowed
  <1>5. /\ DOMAIN z = DOMAIN TxInit /\ z.burst = BurstAllowed(y)
        /\ \A f \in DOMAIN TxInit \ {"burst", "last"} : z[f] = y[f]
    BY <1>3 DEF Formed, TxInit
  <1> HIDE DEF z
  <1>6. Formed(z)
    <2>1. Sized(z) /\ z.parts \subseteq Packets
      BY <1>3, <1>5 DEF Formed, Sized, TxInit
    <2>2. Spoken(z)
      BY <1>3, <1>5 DEF Formed, Spoken, TxInit
    <2>3. Tallied(z)
      BY <1>3, <1>4, <1>5 DEF Formed, Tallied, TxInit
    <2> QED BY <1>5, <2>1, <2>2, <2>3 DEF Formed
  <1>7. /\ z.rnd = r /\ z.attempt = 0 /\ z.inRound \subseteq z.parts /\ z.unanswered = x.unanswered
        /\ z.empty = x.empty /\ Opened(z)
    BY <1>0, <1>1, <1>2, <1>5 DEF Opened, TxInit
  <1>8. <<"report", r % 4>> \in Nonces
    BY Limits DEF Nonces
  <1>9. /\ Formed(a) /\ a.mail = None
        /\ \A f \in DOMAIN TxInit \ {"mail", "waiter"} : a[f] = z[f]
    BY <1>6, <1>7, <1>8, AwaitFormed DEF Opened
  <1> HIDE DEF a
  <1>10. ASSUME r # Rounds PROVE Typed(b)
    <2>1. /\ DOMAIN b = DOMAIN TxInit /\ b.phase = "burst" /\ b.unsent = Burst(z)
          /\ b.early = None /\ b.provisional = None /\ b.airborne = FALSE
          /\ \A f \in DOMAIN TxInit \ {"phase", "unsent", "early", "provisional", "airborne"} :
                b[f] = a[f]
      BY <1>9 DEF Formed, TxInit
    <2> HIDE DEF b
    <2>2. b.unsent \subseteq UNION {{p} \X (1..Frags[p] + 1) : p \in Packets}
      BY <1>6, <2>1, BurstSized DEF Formed
    <2>3. Sized(b) /\ b.parts \subseteq Packets
      BY <1>9, <2>1, <2>2 DEF Formed, Sized, TxInit
    <2>4. Spoken(b)
      BY <1>9, <2>1 DEF Formed, Spoken, TxInit
    <2>5. Tallied(b)
      BY <1>9, <2>1 DEF Formed, Tallied, TxInit
    <2>6. /\ b.rnd = r /\ b.attempt = 0 /\ b.inRound \subseteq b.parts /\ b.unanswered <= r
          /\ b.empty \in 0..FallbackStrikes - 1 /\ Opened(b)
      BY <1>7, <1>9, <2>1 DEF Opened, TxInit
    <2>7. Timed(b)
      BY <1>10, <2>1, <2>6, Limits DEF Timed
    <2> QED BY <2>1, <2>3, <2>4, <2>5, <2>7 DEF Typed, Formed
  <1>11. ASSUME r # Rounds PROVE Typed(Query(z))
    BY <1>6, <1>7, <1>11, QueryTyped, Limits
  <1>12. Typed(Rest(y))
    BY <1>3, RestTyped
  <1>13. Typed(EndWindow(x, IF x.unanswered = Rounds THEN "false" ELSE "text"))
    BY EndWindowTyped DEF Verdicts
  <1>14. \/ Begin(x, r, late) = EndWindow(x, IF x.unanswered = Rounds THEN "false" ELSE "text")
         \/ r # Rounds /\ Begin(x, r, late) \in {Rest(y), b, Query(z)}
    BY DEF Begin, Exhausted, y0, y, z, a
  <1> QED BY <1>10, <1>11, <1>12, <1>13, <1>14

LEMMA BeginNextTyped ==
  ASSUME NEW x, Formed(x), Opened(x), x.rnd \in 0..Rounds - 1, x.unanswered <= x.rnd + 1,
         x.empty \in 0..FallbackStrikes - 1, BeginNext(x)
  PROVE  Typed(tx')
  <1>1. x.rnd + 1 \in 0..Rounds
    BY Limits
  <1> QED BY <1>1, BeginTyped DEF BeginNext

\* The reconcile of a round ends, with a word.
LEMMA AnsweredTyped ==
  ASSUME NEW x, Formed(x), Opened(x), x.rnd \in 0..Rounds - 1, x.unanswered <= x.rnd,
         x.empty \in 0..FallbackStrikes - 1, NEW w, IsWord(w), Answered(x, w)
  PROVE  Typed(tx')
  <1> DEFINE u == Unwait(x, x.inRound)
             y == Apply(u, w)
             strikes == IF x.burst /\ HeldTotal(y) <= HeldTotal(x) THEN x.empty + 1 ELSE 0
             z == [y EXCEPT !.inARow = 0, !.empty = strikes]
  <1>1. Formed(u) /\ \A f \in DOMAIN TxInit \ {"waiter"} : u[f] = x[f]
    BY UnwaitFormed
  <1> HIDE DEF u
  <1>2. Formed(y) /\ \A f \in DOMAIN TxInit \ {"acked", "result", "resumable"} : y[f] = u[f]
    BY <1>1, ApplyFormed
  <1>3. \/ tx' = Rest(y)
        \/ tx' = EndWindow(z, "text")
        \/ ~(strikes >= FallbackStrikes) /\ BeginNext(z)
    BY DEF Answered, y, u
  <1> HIDE DEF y
  <1>4. strikes \in Nat
    BY Limits
  <1> HIDE DEF strikes
  <1>5. /\ DOMAIN z = DOMAIN TxInit /\ z.inARow = 0 /\ z.empty = strikes
        /\ \A f \in DOMAIN TxInit \ {"inARow", "empty"} : z[f] = y[f]
    BY <1>2 DEF Formed, TxInit
  <1> HIDE DEF z
  <1>6. Formed(z)
    <2>1. Sized(z) /\ z.parts \subseteq Packets
      BY <1>2, <1>5 DEF Formed, Sized, TxInit
    <2>2. Spoken(z)
      BY <1>2, <1>5 DEF Formed, Spoken, TxInit
    <2>3. Tallied(z)
      BY <1>2, <1>5 DEF Formed, Tallied, TxInit
    <2> QED BY <1>5, <2>1, <2>2, <2>3 DEF Formed
  <1>7. z.rnd = x.rnd /\ z.unanswered = x.unanswered /\ Opened(z)
    BY <1>1, <1>2, <1>5 DEF Opened, TxInit
  <1>8. CASE ~(strikes >= FallbackStrikes) /\ BeginNext(z)
    <2>1. z.empty \in 0..FallbackStrikes - 1
      BY <1>4, <1>5, <1>8, Limits
    <2>2. z.unanswered <= z.rnd + 1
      BY <1>7 DEF Formed, Tallied
    <2> QED BY <1>6, <1>7, <1>8, <2>1, <2>2, BeginNextTyped
  <1> QED BY <1>2, <1>3, <1>6, <1>8, RestTyped, EndWindowTyped DEF Verdicts

-----------------------------------------------------------------------------
(* The sender's steps. *)

LEMMA OpenWindowTyped ==
  ASSUME Typed(tx), NEW S \in SUBSET Packets, NEW fresh \in SUBSET S, NEW c \in Cuts,
         OpenWindow(S, fresh, c)
  PROVE  Typed(tx')
  <1> DEFINE a == [p \in Packets |-> IF p \in fresh THEN {}
                                     ELSE IF p \in S THEN tx.resumable[p].acked ELSE tx.acked[p]]
             s == [p \in Packets |-> IF p \in S THEN "open" ELSE tx.result[p]]
             m == [p \in Packets |-> IF p \in S THEN None ELSE tx.resumable[p]]
             x == [tx EXCEPT
                !.win = @ + 1, !.parts = S, !.cut = c,
                !.nextId = (@ + Cardinality(fresh)) % IdMod,
                !.id = [p \in Packets |-> IF p \in fresh THEN Numbered(fresh, p)
                                          ELSE IF p \in S THEN tx.resumable[p].id ELSE tx.id[p]],
                !.acked = a, !.result = s, !.resumable = m]
  <1>0. Formed(tx) /\ Timed(tx)
    BY DEF Typed
  <1>1. /\ DOMAIN x = DOMAIN TxInit /\ x.win = tx.win + 1 /\ x.parts = S /\ x.cut = c
        /\ x.acked = a /\ x.result = s /\ x.resumable = m
        /\ \A f \in DOMAIN TxInit \ {"win", "parts", "cut", "nextId", "id", "acked", "result", "resumable"} :
              x[f] = tx[f]
    BY <1>0 DEF Formed, TxInit
  <1>2. tx' = Begin(x, 0, {})
    BY DEF OpenWindow
  <1> HIDE DEF x
  <1>3. /\ tx.phase = "idle" /\ tx.win < MaxWindows
        /\ \A p \in S \ fresh : tx.resumable[p] # None
    BY DEF OpenWindow
  <1>4. \A p \in Packets : a[p] \subseteq 1..Frags[p]
    BY <1>0, <1>3 DEF Formed, Sized
  <1>5. Rated(s)
    BY <1>0 DEF Formed, Sized, Rated, Results
  <1>6. \A p \in Packets : m[p] # None => m[p] = tx.resumable[p]
    OBVIOUS
  <1> HIDE DEF a, s, m
  <1>7. Sized(x)
    BY <1>0, <1>1, <1>4, <1>5, <1>6 DEF Formed, Sized, TxInit
  <1>8. x.win \in 1..MaxWindows /\ 1..tx.win \subseteq 1..x.win
    BY <1>0, <1>1, <1>3, Limits DEF Formed, Tallied
  <1>9. Spoken(x)
    BY <1>0, <1>1, <1>8 DEF Formed, Spoken, TxInit
  <1>10. Tallied(x)
    BY <1>0, <1>1, <1>8 DEF Formed, Tallied, TxInit
  <1>11. Formed(x) /\ Opened(x)
    BY <1>1, <1>7, <1>8, <1>9, <1>10 DEF Formed, Opened
  <1>12. x.unanswered <= 0 /\ x.empty \in 0..FallbackStrikes - 1
    BY <1>0, <1>1, <1>3 DEF Timed, TxInit
  <1>13. 0 \in 0..Rounds /\ {} \in SUBSET Open(x)
    BY Limits
  <1> QED BY <1>2, <1>11, <1>12, <1>13, BeginTyped

\* A change of a sender's flags, of its last words or of what was proved.
LEMMA FlagsTyped ==
  ASSUME NEW x, NEW y, Typed(x), DOMAIN y = DOMAIN TxInit, y.phase \in {"burst", "report", "query"},
         x.phase # "idle", y.phase # "query" => x.phase # "query",
         y.unsent \subseteq x.unsent, {y.airborne, y.atEntry} \subseteq BOOLEAN,
         \A w \in {y.mail, y.early, y.provisional} \ {None, x.mail, x.early, x.provisional} : IsWord(w),
         \A f \in DOMAIN TxInit \ {"phase", "unsent", "airborne", "atEntry", "mail", "early", "provisional"} :
            y[f] = x[f]
  PROVE  Typed(y)
  <1>0. Formed(x) /\ Timed(x)
    BY DEF Typed
  <1>1. Sized(y) /\ y.parts = x.parts
    BY <1>0 DEF Formed, Sized, TxInit
  <1>2. Spoken(y)
    BY <1>0 DEF Formed, Spoken, TxInit
  <1>3. Tallied(y)
    BY <1>0 DEF Formed, Tallied, TxInit
  <1>4. Timed(y)
    <2>1. /\ y.rnd = x.rnd /\ y.unanswered = x.unanswered /\ y.inRound = x.inRound
          /\ y.attempt = x.attempt /\ y.empty = x.empty /\ y.win = x.win /\ y.cut = x.cut
      BY DEF TxInit
    <2>2. y.phase # "query" => x.attempt = 0
      BY <1>0 DEF Timed
    <2>3. Opened(y)
      BY <1>0, <2>1 DEF Timed, Opened
    <2>4. y.phase # "idle"
      OBVIOUS
    <2> QED BY <1>0, <1>1, <2>1, <2>2, <2>3, <2>4 DEF Timed
  <1> QED BY <1>0, <1>1, <1>2, <1>3, <1>4 DEF Typed, Formed

\* A frame of a burst is one of a key, and sums what it says.
LEMMA FrameTyped ==
  ASSUME Inv, Typed(tx), tx.phase = "burst", NEW u \in tx.unsent
  PROVE  IsFrame(FrameOf(tx, u))
  <1> DEFINE f == FrameOf(tx, u)
  <1>0. Formed(tx) /\ Timed(tx) /\ TxOK(rx.ever, tx)
    BY DEF Typed, Inv
  <1>1. PICK p \in Packets : \E i \in 1..Frags[p] + 1 : u = <<p, i>>
    <2>1. \E p \in Packets : u \in {p} \X (1..Frags[p] + 1)
      BY <1>0 DEF Formed, Sized
    <2> QED BY <2>1
  <1> DEFINE i == u[2]
  <1>2. i \in 1..Frags[p] + 1 /\ u = <<p, i>>
    BY <1>1
  <1> HIDE DEF i
  <1>3. tx.id[p] \in Ids /\ tx.cut \in Cuts
    BY <1>0, <1>2 DEF TxOK, Timed, Opened
  <1>4. Key(tx, p) \in Keys /\ Key(tx, p)[2] = Frags[p]
    BY <1>3, KeyType DEF Key
  <1>5. IsParity(u) \in BOOLEAN /\ (~IsParity(u) => i \in 1..Frags[p])
    BY <1>2, Limits DEF IsParity
  <1>6. Summed(tx, u) \subseteq 1..Frags[p]
    BY <1>2, <1>5 DEF Summed, Missing
  <1>7. Covered(tx, u) \subseteq 1..Frags[p] /\ (~IsParity(u) => Covered(tx, u) = {i})
    BY <1>2, <1>5, <1>6 DEF Covered
  <1>8. {p} \X Summed(tx, u) \X {tx.cut} \subseteq Chunks
    <2>1. {p} \X (1..Frags[p]) \X Cuts \subseteq Chunks
      BY DEF Chunks
    <2> HIDE DEF Chunks
    <2> QED BY <1>3, <1>6, <2>1
  <1>9. (Cardinality(tx.unsent) <= 2) \in BOOLEAN
    OBVIOUS
  <1>10. ~IsParity(u) => Cardinality(Covered(tx, u)) = 1
    BY <1>7, FS_Singleton
  <1>11. /\ DOMAIN f = {"key", "parity", "over", "data", "round", "flagged"}
         /\ f.key = Key(tx, p) /\ f.parity = IsParity(u) /\ f.over = Covered(tx, u)
         /\ f.data = {p} \X Summed(tx, u) \X {tx.cut} /\ f.round = tx.rnd
         /\ f.flagged = (Cardinality(tx.unsent) <= 2)
    BY <1>2 DEF FrameOf
  <1>12. tx.rnd \in 0..Rounds - 1
    BY <1>0 DEF Timed
  <1> HIDE DEF f
  <1> QED BY <1>4, <1>5, <1>7, <1>8, <1>9, <1>10, <1>11, <1>12 DEF IsFrame, f

LEMMA SendFrameTyped ==
  ASSUME Inv, Typed(tx), SendFrame
  PROVE  Typed(tx') /\ \A f \in air' : f \in air \/ IsFrame(f)
  <1>1. PICK u \in tx.unsent :
          /\ air' = air \union {FrameOf(tx, u)}
          /\ tx' = [tx EXCEPT !.unsent = @ \ {u},
                              !.phase = IF tx.unsent = {u} THEN "report" ELSE "burst",
                              !.airborne = tx.unsent = {u},
                              !.atEntry = tx.unsent = {u} /\ tx.mail # None]
    BY DEF SendFrame
  <1>2. tx.phase = "burst" /\ DOMAIN tx = DOMAIN TxInit
    BY DEF SendFrame, Typed, Formed
  <1>3. /\ DOMAIN tx' = DOMAIN TxInit /\ tx'.phase \in {"report", "burst"}
        /\ tx'.unsent = tx.unsent \ {u} /\ tx'.airborne = (tx.unsent = {u})
        /\ tx'.atEntry = (tx.unsent = {u} /\ tx.mail # None)
        /\ \A f \in DOMAIN TxInit \ {"phase", "unsent", "airborne", "atEntry"} : tx'[f] = tx[f]
    BY <1>1, <1>2 DEF TxInit
  <1>4. tx'.mail = tx.mail /\ tx'.early = tx.early /\ tx'.provisional = tx.provisional
    BY <1>3 DEF TxInit
  <1>5. {tx'.airborne, tx'.atEntry} \subseteq BOOLEAN
    BY <1>3
  <1>6. Typed(tx')
    BY <1>2, <1>3, <1>4, <1>5, FlagsTyped
  <1> QED BY <1>1, <1>2, <1>6, FrameTyped

\* Words in the sender's hands are words.
LEMMA MailIs ==
  ASSUME Typed(tx)
  PROVE  \A w \in {tx.mail, tx.early, tx.provisional} \ {None} : IsWord(w)
  BY DEF Typed, Formed, Spoken

\* What a sender that is not at rest is known to have.
LEMMA Working ==
  ASSUME Typed(tx), tx.phase # "idle"
  PROVE  /\ Formed(tx) /\ Opened(tx) /\ tx.win > 0 /\ tx.rnd \in 0..Rounds - 1
         /\ tx.unanswered <= tx.rnd /\ tx.empty \in 0..FallbackStrikes - 1
         /\ <<"report", tx.rnd % 4>> \in Nonces
  <1>1. Formed(tx) /\ Opened(tx) /\ tx.rnd \in 0..Rounds - 1 /\ tx.unanswered <= tx.rnd
        /\ tx.empty \in 0..FallbackStrikes - 1
    BY DEF Typed, Timed
  <1>2. <<"report", tx.rnd % 4>> \in Nonces
    BY <1>1, Limits DEF Nonces
  <1> QED BY <1>1, <1>2 DEF Opened

LEMMA TimedKept ==
  ASSUME NEW x, NEW y, Timed(x),
         \A f \in {"phase", "rnd", "unanswered", "inRound", "parts", "attempt", "empty", "win", "cut"} :
            y[f] = x[f]
  PROVE  Timed(y)
  BY DEF Timed, Opened

LEMMA TakeEarlyTyped ==
  ASSUME Typed(tx), TakeEarly
  PROVE  Typed(tx')
  <1> DEFINE e == [tx EXCEPT !.early = tx.mail, !.atEntry = FALSE]
             x == Apply(e, tx.mail)
             a == Await(x, x.inRound, <<"report", x.rnd % 4>>)
  <1>1. tx.phase = "report" /\ tx.mail # None
    BY DEF TakeEarly
  <1>2. IsWord(tx.mail) /\ Formed(tx) /\ Tallied(tx)
    BY <1>1, MailIs DEF Typed, Formed
  <1>3. /\ DOMAIN e = DOMAIN TxInit /\ e.early = tx.mail /\ e.atEntry = FALSE
        /\ \A f \in DOMAIN TxInit \ {"early", "atEntry"} : e[f] = tx[f]
    BY <1>2 DEF Formed, TxInit
  <1>4. Answered(x, tx.mail) \/ tx' = a
    BY DEF TakeEarly
  <1> HIDE DEF e
  <1>5. Typed(e) /\ e.phase = "report"
    <2>1. e.phase = "report" /\ e.unsent = tx.unsent /\ e.airborne = tx.airborne
          /\ e.mail = tx.mail /\ e.provisional = tx.provisional
      BY <1>1, <1>3 DEF TxInit
    <2>2. {e.airborne, e.atEntry} \subseteq BOOLEAN
      BY <1>2, <1>3, <2>1 DEF Tallied
    <2> QED BY <1>1, <1>3, <2>1, <2>2, FlagsTyped
  <1>6. Formed(x) /\ \A f \in DOMAIN TxInit \ {"acked", "result", "resumable"} : x[f] = e[f]
    BY <1>2, <1>5, ApplyFormed DEF Typed
  <1> HIDE DEF x
  <1>7. Timed(x) /\ x.phase = "report"
    <2>1. Timed(e)
      BY <1>5 DEF Typed
    <2>2. \A f \in {"phase", "rnd", "unanswered", "inRound", "parts", "attempt", "empty", "win", "cut"} :
            x[f] = e[f]
      BY <1>6 DEF TxInit
    <2> QED BY <1>5, <2>1, <2>2, TimedKept
  <1>8. /\ Opened(x) /\ x.rnd \in 0..Rounds - 1 /\ x.unanswered <= x.rnd
        /\ x.empty \in 0..FallbackStrikes - 1
    BY <1>7 DEF Timed
  <1>9. ASSUME tx' = a PROVE Typed(tx')
    <2>1. <<"report", x.rnd % 4>> \in Nonces
      BY <1>8, Limits DEF Nonces
    <2>2. Formed(a) /\ \A f \in DOMAIN TxInit \ {"mail", "waiter"} : a[f] = x[f]
      BY <1>6, <1>8, <2>1, AwaitFormed DEF Opened
    <2> HIDE DEF a
    <2>3. \A f \in {"phase", "rnd", "unanswered", "inRound", "parts", "attempt", "empty", "win", "cut"} :
            a[f] = x[f]
      BY <2>2 DEF TxInit
    <2> QED BY <1>7, <1>9, <2>2, <2>3, TimedKept DEF Typed
  <1> QED BY <1>2, <1>4, <1>6, <1>8, <1>9, AnsweredTyped

LEMMA TakeReportTyped ==
  ASSUME Typed(tx), TakeReport
  PROVE  Typed(tx')
  <1> DEFINE a == Await(tx, tx.inRound, <<"report", tx.rnd % 4>>)
             x == [a EXCEPT !.provisional = tx.mail]
  <1>1. tx.phase = "report" /\ tx.mail # None
    BY DEF TakeReport
  <1>2. IsWord(tx.mail) /\ Timed(tx)
    BY <1>1, MailIs DEF Typed
  <1>3. /\ Formed(tx) /\ Opened(tx) /\ tx.win > 0 /\ tx.rnd \in 0..Rounds - 1
        /\ tx.unanswered <= tx.rnd /\ tx.empty \in 0..FallbackStrikes - 1
        /\ <<"report", tx.rnd % 4>> \in Nonces
    BY <1>1, Working
  <1>4. Formed(a) /\ \A f \in DOMAIN TxInit \ {"mail", "waiter"} : a[f] = tx[f]
    BY <1>3, AwaitFormed
  <1>5. tx' = x \/ Answered(tx, tx.mail)
    BY DEF TakeReport
  <1> HIDE DEF a
  <1>6. /\ DOMAIN x = DOMAIN TxInit /\ x.provisional = tx.mail
        /\ \A f \in DOMAIN TxInit \ {"provisional"} : x[f] = a[f]
    BY <1>4 DEF Formed, TxInit
  <1> HIDE DEF x
  <1>7. Formed(x)
    <2>1. Sized(x) /\ x.parts \subseteq Packets
      BY <1>4, <1>6 DEF Formed, Sized, TxInit
    <2>2. Spoken(x)
      BY <1>2, <1>4, <1>6 DEF Formed, Spoken, TxInit
    <2>3. Tallied(x)
      BY <1>4, <1>6 DEF Formed, Tallied, TxInit
    <2> QED BY <1>6, <2>1, <2>2, <2>3 DEF Formed
  <1>8. \A f \in {"phase", "rnd", "unanswered", "inRound", "parts", "attempt", "empty", "win", "cut"} :
            x[f] = tx[f]
    BY <1>4, <1>6 DEF TxInit
  <1>9. Typed(x)
    BY <1>2, <1>7, <1>8, TimedKept DEF Typed
  <1> QED BY <1>2, <1>3, <1>5, <1>9, AnsweredTyped

LEMMA ReportTimeoutTyped ==
  ASSUME Typed(tx), ReportTimeout
  PROVE  Typed(tx')
  <1> DEFINE u == Unwait(tx, tx.inRound)
  <1>1. tx.phase = "report"
    BY DEF ReportTimeout
  <1>2. /\ Formed(tx) /\ Opened(tx) /\ tx.rnd \in 0..Rounds - 1
        /\ tx.unanswered <= tx.rnd /\ tx.empty \in 0..FallbackStrikes - 1
    BY <1>1, Working
  <1>3. \/ \E w \in {tx.early, tx.provisional} \ {None} : Answered(tx, w)
        \/ tx' = Query(u)
    BY DEF ReportTimeout
  <1>4. CASE \E w \in {tx.early, tx.provisional} \ {None} : Answered(tx, w)
    BY <1>2, <1>4, MailIs, AnsweredTyped
  <1>5. CASE tx' = Query(u)
    <2>1. Formed(u) /\ \A f \in DOMAIN TxInit \ {"waiter"} : u[f] = tx[f]
      BY <1>2, UnwaitFormed
    <2> HIDE DEF u
    <2>2. /\ u.rnd = tx.rnd /\ u.unanswered = tx.unanswered /\ u.inRound = tx.inRound
          /\ u.parts = tx.parts /\ u.attempt = tx.attempt /\ u.empty = tx.empty
          /\ u.win = tx.win /\ u.cut = tx.cut
      BY <2>1 DEF TxInit
    <2>3. tx.attempt = 0 /\ tx.inRound \subseteq tx.parts
      BY <1>1 DEF Typed, Timed
    <2>4. u.attempt \in Nat /\ u.attempt < QueryAttempts
      BY <2>2, <2>3, Limits
    <2>5. Typed(Query(u))
      BY <1>2, <2>1, <2>2, <2>3, <2>4, QueryTyped DEF Opened
    <2> QED BY <1>5, <2>5 DEF u
  <1> QED BY <1>3, <1>4, <1>5

LEMMA ReportProvedTyped ==
  ASSUME Typed(tx), ReportProved
  PROVE  Typed(tx')
  <1> DEFINE u == Unwait(tx, tx.inRound)
             a == [p \in Packets |-> IF p \in tx.inRound THEN 1..Frags[p] ELSE u.acked[p]]
             m == [p \in Packets |-> IF p \in tx.inRound THEN None ELSE u.resumable[p]]
             s == [p \in Packets |-> IF p \in Open(tx) THEN "true" ELSE u.result[p]]
             x == [u EXCEPT !.acked = a, !.resumable = m]
             y == Resolve(x, Open(tx), "true")
  <1>1. Formed(tx)
    BY DEF Typed
  <1>2. tx' = Rest(y)
    BY DEF ReportProved
  <1>3. Formed(u)
    BY <1>1, UnwaitFormed
  <1> HIDE DEF u
  <1>4. \A p \in Packets : a[p] \subseteq 1..Frags[p]
    BY <1>3 DEF Formed, Sized
  <1>5. Rated(s)
    BY <1>3 DEF Formed, Sized, Rated, Results, Verdicts
  <1>6. \A p \in Packets : m[p] # None => m[p] = u.resumable[p]
    OBVIOUS
  <1>7. /\ DOMAIN y = DOMAIN TxInit /\ y.acked = a /\ y.resumable = m /\ y.result = s
        /\ \A f \in DOMAIN TxInit \ {"acked", "resumable", "result"} : y[f] = u[f]
    BY <1>3 DEF Resolve, Formed, TxInit
  <1> HIDE DEF y, a, m, s
  <1>8. Formed(y)
    <2>1. Sized(y) /\ y.parts \subseteq Packets
      BY <1>3, <1>4, <1>5, <1>6, <1>7 DEF Formed, Sized, TxInit
    <2>2. Spoken(y)
      BY <1>3, <1>7 DEF Formed, Spoken, TxInit
    <2>3. Tallied(y)
      BY <1>3, <1>7 DEF Formed, Tallied, TxInit
    <2> QED BY <1>7, <2>1, <2>2, <2>3 DEF Formed
  <1> QED BY <1>2, <1>8, RestTyped

LEMMA TakeAnswerTyped ==
  ASSUME Typed(tx), TakeAnswer
  PROVE  Typed(tx')
  <1> DEFINE u == Unwait(tx, Open(tx))
  <1>1. tx.phase = "query" /\ tx.mail # None /\ Answered(u, tx.mail)
    BY DEF TakeAnswer
  <1>2. /\ Formed(tx) /\ Opened(tx) /\ tx.rnd \in 0..Rounds - 1
        /\ tx.unanswered <= tx.rnd /\ tx.empty \in 0..FallbackStrikes - 1
    BY <1>1, Working
  <1>3. Formed(u) /\ \A f \in DOMAIN TxInit \ {"waiter"} : u[f] = tx[f]
    BY <1>2, UnwaitFormed
  <1> HIDE DEF u
  <1>4. /\ u.rnd = tx.rnd /\ u.unanswered = tx.unanswered /\ u.empty = tx.empty
        /\ u.win = tx.win /\ u.cut = tx.cut
    BY <1>3 DEF TxInit
  <1>5. IsWord(tx.mail)
    BY <1>1, MailIs
  <1> QED BY <1>1, <1>2, <1>3, <1>4, <1>5, AnsweredTyped DEF Opened

LEMMA QueryTimeoutTyped ==
  ASSUME Typed(tx), QueryTimeout
  PROVE  Typed(tx')
  <1> DEFINE u == Unwait(tx, Open(tx))
             y == [u EXCEPT !.unanswered = @ + 1, !.inARow = @ + 1]
  <1>1. tx.phase = "query"
    BY DEF QueryTimeout
  <1>2. /\ Formed(tx) /\ Opened(tx) /\ tx.rnd \in 0..Rounds - 1
        /\ tx.unanswered <= tx.rnd /\ tx.empty \in 0..FallbackStrikes - 1
    BY <1>1, Working
  <1>3. Formed(u) /\ \A f \in DOMAIN TxInit \ {"waiter"} : u[f] = tx[f]
    BY <1>2, UnwaitFormed
  <1>4. \/ tx.attempt < QueryAttempts /\ tx' = Query(u)
        \/ BeginNext(y)
        \/ tx' = EndWindow(u, "false")
    BY DEF QueryTimeout
  <1> HIDE DEF u
  <1>5. /\ u.rnd = tx.rnd /\ u.unanswered = tx.unanswered /\ u.inRound = tx.inRound
        /\ u.parts = tx.parts /\ u.attempt = tx.attempt /\ u.empty = tx.empty
        /\ u.win = tx.win /\ u.cut = tx.cut
    BY <1>3 DEF TxInit
  <1>6. tx.attempt \in Nat /\ tx.inRound \subseteq tx.parts
    BY Limits DEF Typed, Timed
  <1>7. CASE tx.attempt < QueryAttempts /\ tx' = Query(u)
    BY <1>2, <1>3, <1>5, <1>6, <1>7, QueryTyped DEF Opened
  <1>8. CASE BeginNext(y)
    <2>1. /\ DOMAIN y = DOMAIN TxInit /\ y.unanswered = u.unanswered + 1 /\ y.inARow = u.inARow + 1
          /\ \A f \in DOMAIN TxInit \ {"unanswered", "inARow"} : y[f] = u[f]
      BY <1>3 DEF Formed, TxInit
    <2> HIDE DEF y
    <2>2. Formed(y)
      <3>1. Sized(y) /\ y.parts \subseteq Packets
        BY <1>3, <2>1 DEF Formed, Sized, TxInit
      <3>2. Spoken(y)
        BY <1>3, <2>1 DEF Formed, Spoken, TxInit
      <3>3. Tallied(y)
        BY <1>3, <2>1 DEF Formed, Tallied, TxInit
      <3> QED BY <2>1, <3>1, <3>2, <3>3 DEF Formed
    <2>3. y.rnd = u.rnd /\ y.empty = u.empty /\ y.win = u.win /\ y.cut = u.cut
      BY <2>1 DEF TxInit
    <2>4. y.unanswered <= y.rnd + 1
      BY <1>2, <1>5, <2>1, <2>3 DEF Formed, Tallied
    <2> QED BY <1>2, <1>5, <1>8, <2>2, <2>3, <2>4, BeginNextTyped DEF Opened
  <1>9. CASE tx' = EndWindow(u, "false")
    BY <1>3, <1>9, EndWindowTyped DEF Verdicts
  <1> QED BY <1>4, <1>7, <1>8, <1>9

\* A word that is heard, a proof, the burst's end and a restart.
LEMMA HearTyped ==
  ASSUME Typed(tx), NEW w, IsWord(w), Hear(w)
  PROVE  Typed(tx')
  <1>1. tx' = [tx EXCEPT !.mail = w] /\ tx.phase # "idle" /\ Formed(tx) /\ Tallied(tx)
    BY DEF Hear, Typed, Formed
  <1>2. /\ DOMAIN tx' = DOMAIN TxInit /\ tx'.mail = w
        /\ \A f \in DOMAIN TxInit \ {"mail"} : tx'[f] = tx[f]
    BY <1>1 DEF Formed, TxInit
  <1>3. /\ tx'.phase = tx.phase /\ tx'.unsent = tx.unsent /\ tx'.early = tx.early
        /\ tx'.provisional = tx.provisional /\ tx'.airborne = tx.airborne /\ tx'.atEntry = tx.atEntry
    BY <1>2 DEF TxInit
  <1>4. {tx'.airborne, tx'.atEntry} \subseteq BOOLEAN /\ tx'.phase \in {"burst", "report", "query"}
    BY <1>1, <1>3 DEF Tallied
  <1>5. \A v \in {tx'.mail, tx'.early, tx'.provisional} \ {None, tx.mail, tx.early, tx.provisional} : IsWord(v)
    BY <1>2, <1>3
  <1>6. \A f \in DOMAIN TxInit \ {"phase", "unsent", "airborne", "atEntry", "mail", "early", "provisional"} :
            tx'[f] = tx[f]
    BY <1>2
  <1> QED BY <1>1, <1>2, <1>3, <1>4, <1>5, <1>6, FlagsTyped

LEMMA BurstEndsTyped ==
  ASSUME Typed(tx), BurstEnds
  PROVE  Typed(tx')
  <1>1. tx' = [tx EXCEPT !.airborne = FALSE] /\ tx.phase = "report" /\ Formed(tx) /\ Tallied(tx)
    BY DEF BurstEnds, Typed, Formed
  <1>2. /\ DOMAIN tx' = DOMAIN TxInit /\ tx'.airborne = FALSE
        /\ \A f \in DOMAIN TxInit \ {"airborne"} : tx'[f] = tx[f]
    BY <1>1 DEF Formed, TxInit
  <1>3. /\ tx'.phase = tx.phase /\ tx'.unsent = tx.unsent /\ tx'.early = tx.early /\ tx'.mail = tx.mail
        /\ tx'.provisional = tx.provisional /\ tx'.atEntry = tx.atEntry
    BY <1>2 DEF TxInit
  <1>4. {tx'.airborne, tx'.atEntry} \subseteq BOOLEAN
    BY <1>1, <1>2, <1>3 DEF Tallied
  <1> QED BY <1>1, <1>2, <1>3, <1>4, FlagsTyped

LEMMA HearProofTyped ==
  ASSUME Typed(tx), NEW p \in Provable, HearProof(p)
  PROVE  Typed(tx')
  <1>1. tx' = [tx EXCEPT !.proved = @ \union {p}] /\ Formed(tx) /\ Timed(tx)
    BY DEF HearProof, Typed
  <1>2. /\ DOMAIN tx' = DOMAIN TxInit /\ tx'.proved = tx.proved \union {p}
        /\ \A f \in DOMAIN TxInit \ {"proved"} : tx'[f] = tx[f]
    BY <1>1 DEF Formed, TxInit
  <1>3. Sized(tx') /\ tx'.parts \subseteq Packets
    BY <1>1, <1>2 DEF Formed, Sized, TxInit
  <1>4. Spoken(tx')
    BY <1>1, <1>2 DEF Formed, Spoken, TxInit
  <1>5. Tallied(tx')
    BY <1>1, <1>2 DEF Formed, Tallied, TxInit
  <1>6. \A f \in {"phase", "rnd", "unanswered", "inRound", "parts", "attempt", "empty", "win", "cut"} :
            tx'[f] = tx[f]
    BY <1>2 DEF TxInit
  <1>7. Timed(tx')
    BY <1>1, <1>6 DEF Timed, Opened
  <1> QED BY <1>2, <1>3, <1>4, <1>5, <1>7 DEF Typed, Formed

\* A sender that was started just now.
LEMMA FreshTyped ==
  ASSUME NEW x, NEW n \in 0..MaxWindows, NEW Q, \A q \in Q : q.nonce \in Nonces,
         DOMAIN x = DOMAIN TxInit, x.win = n, x.queries = Q,
         \A f \in DOMAIN TxInit \ {"win", "queries"} : x[f] = TxInit[f]
  PROVE  Typed(x)
  <1>1. /\ DOMAIN x = DOMAIN TxInit
        /\ x.phase = "idle" /\ x.win = n /\ x.parts = {} /\ x.rnd = 0 /\ x.cut = None
        /\ x.acked = [p \in Packets |-> {}] /\ x.result = [p \in Packets |-> "unsent"]
        /\ x.unsent = {} /\ x.inRound = {} /\ x.burst = FALSE
        /\ x.unanswered = 0 /\ x.inARow = 0 /\ x.empty = 0 /\ x.attempt = 0
        /\ x.waiter = [i \in Ids |-> None] /\ x.mail = None /\ x.early = None /\ x.provisional = None
        /\ x.airborne = FALSE /\ x.atEntry = FALSE /\ x.resumable = [p \in Packets |-> None]
        /\ x.nonce = 0 /\ x.proved = {} /\ x.queries = Q
    BY DEF TxInit
  <1>2. Rated(x.result)
    BY <1>1 DEF Rated, Results
  <1>3. Sized(x) /\ Spoken(x)
    BY <1>1, <1>2 DEF Sized, Spoken
  <1>4. 0 \in Nat /\ 0 \in 0..0 /\ {FALSE} \subseteq BOOLEAN
    OBVIOUS
  <1>5. Tallied(x)
    BY <1>1, <1>4 DEF Tallied
  <1>6. Timed(x)
    BY <1>1, Limits DEF Timed
  <1> QED BY <1>1, <1>3, <1>5, <1>6 DEF Typed, Formed

\* Every step of the sender leaves it well formed, and sends frames that are.
LEMMA SenderTyped ==
  ASSUME Inv, Typed(tx), \A w \in rx.words : IsWord(w), rx.proofs \subseteq Provable, SenderSide
  PROVE  Typed(tx') /\ \A f \in air' : f \in air \/ IsFrame(f)
  <1>1. CASE SendFrame
    BY <1>1, SendFrameTyped
  <1>2. ASSUME TakeEarly \/ TakeReport \/ ReportTimeout \/ ReportProved \/ TakeAnswer \/ QueryTimeout
        PROVE  Typed(tx') /\ UNCHANGED air
    <2>1. UNCHANGED air
      BY <1>2 DEF TakeEarly, TakeReport, ReportTimeout, ReportProved, TakeAnswer, QueryTimeout
    <2> QED BY <1>2, <2>1, TakeEarlyTyped, TakeReportTyped, ReportTimeoutTyped, ReportProvedTyped,
               TakeAnswerTyped, QueryTimeoutTyped
  <1>3. CASE BurstEnds
    BY <1>3, BurstEndsTyped DEF BurstEnds
  <1>4. CASE AbortBurst
    <2>1. Formed(tx)
      BY DEF Typed
    <2> QED BY <1>4, <2>1, EndWindowTyped DEF AbortBurst, Verdicts
  <1>5. CASE Restart
    <2>1. /\ tx.win \in 0..MaxWindows /\ \A q \in tx.queries : q.nonce \in Nonces
          /\ tx' = [TxInit EXCEPT !.win = tx.win, !.queries = tx.queries] /\ UNCHANGED air
      BY <1>5 DEF Restart, Typed, Formed, Tallied, Spoken
    <2>2. /\ DOMAIN tx' = DOMAIN TxInit /\ tx'.win = tx.win /\ tx'.queries = tx.queries
          /\ \A f \in DOMAIN TxInit \ {"win", "queries"} : tx'[f] = TxInit[f]
      BY <2>1 DEF TxInit
    <2> QED BY <2>1, <2>2, FreshTyped
  <1>6. ASSUME NEW S \in SUBSET Packets, NEW fresh \in SUBSET S, NEW c \in Cuts, OpenWindow(S, fresh, c)
        PROVE  Typed(tx') /\ UNCHANGED air
    BY <1>6, OpenWindowTyped DEF OpenWindow
  <1>7. ASSUME NEW w \in rx.words, Hear(w) PROVE Typed(tx') /\ UNCHANGED air
    BY <1>7, HearTyped DEF Hear
  <1>8. ASSUME NEW p \in Packets, HearProof(p) PROVE Typed(tx') /\ UNCHANGED air
    BY <1>8, HearProofTyped DEF HearProof
  <1> QED BY <1>1, <1>2, <1>3, <1>4, <1>5, <1>6, <1>7, <1>8 DEF SenderSide, SenderStep

-----------------------------------------------------------------------------
(* The receiver. *)

\* A bucket of n fragments: pieces out of D, and parity over some of them.
Pieces(n, D, b) ==
    /\ DOMAIN b = DOMAIN EmptyBucket
    /\ Held(b) \subseteq 1..n
    /\ \A i \in Held(b) : b.got[i] \subseteq D
    /\ IsFiniteSet(b.parity)
    /\ \A m \in b.parity : m.over \subseteq 1..n /\ m.data \subseteq D

\* The buckets, each short of full, and what is known of each key.
Stocked(y) ==
    /\ DOMAIN y.gaps = Keys
    /\ \A k \in Keys :
        /\ y.bucket[k] # None => Pieces(k[2], Chunks, y.bucket[k]) /\ Held(y.bucket[k]) # 1..k[2]
        /\ y.gaps[k] \in 0..Rounds - 1 \union {None}
        /\ y.ever[k] \subseteq 1..k[2]
        /\ k \in y.done => y.bucket[k] = None

\* What the receiver says, will say, and gave to RNS.
Worded(y) ==
    /\ y.delivered \subseteq Packets /\ y.garbled \in BOOLEAN
    /\ y.proofs \subseteq y.delivered \intersect Provable
    /\ y.tail # None => y.tail.round \in 0..Rounds - 1
    /\ y.grace # None => y.grace.round \in 0..Rounds - 1
    /\ \A w \in y.words : IsWord(w)

RxTyped(y) == RxOK(y) /\ Stocked(y) /\ Worded(y)

LEMMA EmptyPieces ==
  ASSUME NEW n, NEW D
  PROVE  Pieces(n, D, EmptyBucket)
  <1>1. DOMAIN EmptyBucket.got = {} /\ EmptyBucket.parity = {}
    BY DEF EmptyBucket
  <1> QED BY <1>1, FS_EmptySet DEF Pieces, Held

LEMMA StorePieces ==
  ASSUME NEW n, NEW D, NEW b, Pieces(n, D, b), NEW i \in 1..n, NEW d \in SUBSET D
  PROVE  Pieces(n, D, Store(b, i, d))
  <1> DEFINE s == Store(b, i, d)
             T == Held(b) \union {i}
  <1>1. /\ DOMAIN s = DOMAIN EmptyBucket /\ s.parity = b.parity
        /\ s.got = [j \in T |-> IF j = i THEN d ELSE b.got[j]]
    BY DEF Store, Pieces, EmptyBucket
  <1>2. Held(s) = T
    BY <1>1 DEF Held
  <1> HIDE DEF s
  <1>3. \A j \in T : s.got[j] \subseteq D
    BY <1>1 DEF Pieces
  <1> QED BY <1>1, <1>2, <1>3 DEF Pieces, s

\* What a parity rebuilds is made of what it and the held fragments are made of:
\* bytes in neither cancel out.
LEMMA RebuiltPieces ==
  ASSUME NEW n, NEW D, NEW b, Pieces(n, D, b), NEW m \in b.parity
  PROVE  Rebuilt(b, m) \subseteq D
  <1>1. SUFFICES ASSUME NEW c \in Rebuilt(b, m), c \notin D PROVE FALSE
    OBVIOUS
  <1> DEFINE seen == {i \in m.over \intersect Held(b) : c \in b.got[i]}
  <1>2. seen = {} /\ c \notin m.data
    BY <1>1 DEF Pieces
  <1>3. Cardinality(seen) = 0
    BY <1>2, FS_EmptySet
  <1>4. Cardinality(seen) % 2 # (IF c \in m.data THEN 1 ELSE 0)
    BY DEF Rebuilt
  <1> HIDE DEF seen
  <1> QED BY <1>2, <1>3, <1>4

LEMMA SolveOnePieces ==
  ASSUME NEW n \in Nat, NEW D, NEW b, Pieces(n, D, b), NEW m \in Solvable(b)
  PROVE  Pieces(n, D, SolveOne(b, m))
  <1> DEFINE a == [b EXCEPT !.parity = @ \ {m}]
             i == CHOOSE i \in m.over \ Held(b) : TRUE
  <1>1. m \in b.parity /\ Cardinality(m.over \ Held(b)) = 1
    BY DEF Solvable
  <1>2. m.over \ Held(b) # {}
    BY <1>1, FS_EmptySet
  <1>3. i \in 1..n
    BY <1>1, <1>2 DEF Pieces
  <1>4. DOMAIN a = DOMAIN b /\ a.got = b.got /\ a.parity = b.parity \ {m}
    BY DEF Pieces, EmptyBucket
  <1>5. IsFiniteSet(a.parity)
    <2>1. IsFiniteSet(b.parity \ {m})
      BY FS_RemoveElement DEF Pieces
    <2> QED BY <1>4, <2>1
  <1> HIDE DEF a
  <1>6. Pieces(n, D, a)
    BY <1>4, <1>5 DEF Pieces, Held
  <1>7. Rebuilt(b, m) \in SUBSET D
    BY <1>1, RebuiltPieces
  <1>8. SolveOne(b, m) = Store(a, i, Rebuilt(b, m))
    BY DEF SolveOne, a
  <1> HIDE DEF i
  <1> QED BY <1>3, <1>6, <1>7, <1>8, StorePieces

\* Solving, to the end, keeps a bucket's pieces in it.
LEMMA SolvePieces ==
  ASSUME NEW n \in Nat, NEW D, NEW b, Pieces(n, D, b), NEW total
  PROVE  Pieces(n, D, Solve(b, total))
  <1> DEFINE K == Cardinality(b.parity)
  <1>1. K \in Nat
    BY FS_CardinalityType DEF Pieces
  <1>2. PICK g : /\ g = [j \in 0..K |-> IF j = 0 THEN b ELSE SolveNext(g[j - 1], total)]
                 /\ Solve(b, total) = g[K]
    BY <1>1, SolveIs
  <1> HIDE DEF K
  <1> DEFINE T == {j \in Nat : j <= K => Pieces(n, D, g[j])}
  <1>3. 0 \in T
    BY <1>1, <1>2
  <1>4. ASSUME NEW j \in Nat, j \in T PROVE j + 1 \in T
    <2>1. SUFFICES ASSUME j + 1 <= K PROVE Pieces(n, D, g[j + 1])
      OBVIOUS
    <2>2. Pieces(n, D, g[j])
      BY <1>1, <1>4, <2>1
    <2>3. g[j + 1] = SolveNext(g[j], total)
      BY <1>1, <1>2, <2>1
    <2>4. Pieces(n, D, SolveNext(g[j], total))
      BY <2>2, SolveOnePieces DEF SolveNext
    <2> QED BY <2>3, <2>4
  <1> HIDE DEF T
  <1>5. Nat \subseteq T
    BY <1>3, <1>4, NatClosed
  <1>6. K \in T
    BY <1>1, <1>5
  <1> QED BY <1>1, <1>2, <1>6 DEF T

\* What the receiver says of a key is of its size.
LEMMA EntryTyped ==
  ASSUME NEW y, RxTyped(y), NEW k \in Keys
  PROVE  /\ Held(Bucket(y, k)) \subseteq 1..k[2]
         /\ DOMAIN Entry(y, k) = {"key", "complete", "held"} /\ Entry(y, k).key = k
         /\ Entry(y, k).complete \in BOOLEAN /\ Entry(y, k).held \subseteq 1..k[2]
  <1>1. Pieces(k[2], Chunks, Bucket(y, k))
    BY EmptyPieces DEF RxTyped, Stocked, Bucket
  <1>2. Held(Bucket(y, k)) \subseteq 1..k[2]
    BY <1>1 DEF Pieces
  <1> QED BY <1>2 DEF Entry

\* An entry as a word has it.
Says(e) ==
    /\ DOMAIN e = {"key", "complete", "held"}
    /\ e.key \in Keys /\ e.complete \in BOOLEAN /\ e.held \subseteq 1..e.key[2]

LEMMA WordIs ==
  ASSUME NEW n \in Nonces, NEW es, \A e \in es : Says(e)
  PROVE  IsWord([nonce |-> n, entries |-> es])
  <1> DEFINE w == [nonce |-> n, entries |-> es]
  <1>1. DOMAIN w = {"nonce", "entries"} /\ w.nonce = n /\ w.entries = es
    OBVIOUS
  <1> HIDE DEF w
  <1>2. IsWord(w)
    BY <1>1 DEF IsWord, Says
  <1> QED BY <1>2 DEF w

LEMMA ReportNonce ==
  ASSUME NEW r \in 0..Rounds - 1
  PROVE  <<"report", r % 4>> \in Nonces
  BY Limits DEF Nonces

LEMMA ReportTyped ==
  ASSUME NEW y, RxTyped(y), NEW k \in Keys, NEW r \in 0..Rounds - 1, NEW complete \in BOOLEAN,
         complete => Whole(y, k)
  PROVE  RxTyped(Report(y, k, r, complete))
  <1> DEFINE first == [key |-> k, complete |-> complete,
                       held |-> IF complete THEN 1..k[2] ELSE Held(Bucket(y, k))]
             es == {first} \union {Entry(y, j) : j \in y.recent \ {k}}
             word == [nonce |-> <<"report", r % 4>>, entries |-> es]
             z == Report(y, k, r, complete)
  <1>0. RxOK(y) /\ Stocked(y) /\ Worded(y)
    BY DEF RxTyped
  <1>1. /\ DOMAIN z = DOMAIN RxInit /\ z.words = y.words \union {word}
        /\ z.tail = None /\ z.grace = None
        /\ \A f \in DOMAIN RxInit \ {"tail", "grace", "words"} : z[f] = y[f]
    BY <1>0 DEF Report, RxOK, RxInit
  <1>2. Says(first)
    <2>1. /\ DOMAIN first = {"key", "complete", "held"} /\ first.key = k /\ first.complete = complete
          /\ first.held = IF complete THEN 1..k[2] ELSE Held(Bucket(y, k))
      OBVIOUS
    <2> HIDE DEF first
    <2> QED BY <2>1, EntryTyped DEF Says
  <1>3. \A j \in y.recent : Says(Entry(y, j))
    BY <1>0, EntryTyped DEF Says, RxOK
  <1>4. \A e \in es : Says(e)
    BY <1>2, <1>3
  <1> HIDE DEF es
  <1>5. IsWord(word)
    BY <1>4, WordIs, ReportNonce
  <1> HIDE DEF word
  <1>6. RxOK(z)
    BY <1>0, ReportOK
  <1> HIDE DEF z
  <1>7. Stocked(z)
    BY <1>0, <1>1 DEF Stocked, RxInit
  <1>8. Worded(z)
    BY <1>0, <1>1, <1>5 DEF Worded, RxInit
  <1> QED BY <1>6, <1>7, <1>8 DEF RxTyped, z

\* A full bucket goes to RNS: the packet's bucket is gone as its memory begins.
LEMMA DeliverTyped ==
  ASSUME NEW y, RxTyped(y), NEW k, Whole(y, k), k \in y.recent, NEW r \in 0..Rounds - 1, NEW b,
         NEW t \in Deliver(y, k, r, b)
  PROVE  RxTyped(t)
  <1> DEFINE whole == {p \in Packets : \E c \in Cuts : Content(p, c) = b.got}
             z == [y EXCEPT !.bucket[k] = None, !.done = @ \union {k}, !.gaps[k] = None,
                            !.delivered = @ \union whole, !.garbled = @ \/ whole = {}]
  <1>0. RxOK(y) /\ Stocked(y) /\ Worded(y) /\ k \in Keys
    BY DEF RxTyped, Whole
  <1>1. /\ DOMAIN z = DOMAIN RxInit
        /\ z.bucket = [y.bucket EXCEPT ![k] = None] /\ z.done = y.done \union {k}
        /\ z.gaps = [y.gaps EXCEPT ![k] = None]
        /\ z.delivered = y.delivered \union whole /\ z.garbled = (y.garbled \/ whole = {})
        /\ \A f \in DOMAIN RxInit \ {"bucket", "done", "gaps", "delivered", "garbled"} : z[f] = y[f]
    BY <1>0 DEF RxOK, RxInit
  <1>2. whole \subseteq Packets
    OBVIOUS
  <1>3. \/ \E p : t = [z EXCEPT !.grace = [key |-> k, round |-> r, packet |-> p]]
        \/ t = Report(z, k, r, TRUE)
        \/ t = [z EXCEPT !.tail = [key |-> k, round |-> r]]
    BY DEF Deliver
  <1>4. RxOK(t)
    BY <1>0, DeliverOK
  <1> HIDE DEF z, whole
  <1>5. RxOK(z)
    <2>1. /\ z.ever = y.ever /\ z.recent = y.recent /\ z.tail = y.tail /\ z.grace = y.grace
          /\ z.words = y.words
      BY <1>1 DEF RxInit
    <2>2. \A j \in Keys : z.bucket[j] # None => Held(z.bucket[j]) \subseteq z.ever[j]
      BY <1>0, <1>1, <2>1 DEF RxOK
    <2>3. \A j : Whole(y, j) <=> Whole(z, j)
      BY <2>1 DEF Whole
    <2>4. DOMAIN z.bucket = Keys /\ z.done \subseteq z.recent
      BY <1>0, <1>1, <2>1 DEF RxOK
    <2> QED BY <1>0, <1>1, <2>1, <2>2, <2>3, <2>4 DEF RxOK
  <1>6. Stocked(z)
    <2>1. z.ever = y.ever
      BY <1>1 DEF RxInit
    <2>2. DOMAIN z.gaps = Keys /\ \A j \in Keys : z.gaps[j] \in {y.gaps[j], None}
      BY <1>0, <1>1 DEF Stocked
    <2>3. \A j \in Keys : z.bucket[j] \in {y.bucket[j], None} /\ (j = k => z.bucket[j] = None)
      BY <1>0, <1>1 DEF RxOK
    <2> QED BY <1>0, <1>1, <2>1, <2>2, <2>3 DEF Stocked
  <1>7. Worded(z)
    <2>1. z.tail = y.tail /\ z.grace = y.grace /\ z.words = y.words /\ z.proofs = y.proofs
      BY <1>1 DEF RxInit
    <2>2. z.garbled \in BOOLEAN
      BY <1>0, <1>1 DEF Worded
    <2> QED BY <1>0, <1>1, <1>2, <2>1, <2>2 DEF Worded
  <1>8. CASE t = Report(z, k, r, TRUE)
    <2>1. Whole(z, k)
      BY <1>1 DEF Whole, RxInit
    <2> QED BY <1>0, <1>5, <1>6, <1>7, <1>8, <2>1, ReportTyped DEF RxTyped
  <1>9. ASSUME NEW p, t = [z EXCEPT !.grace = [key |-> k, round |-> r, packet |-> p]]
        PROVE  RxTyped(t)
    <2>1. /\ t.grace.round = r
          /\ \A f \in DOMAIN RxInit \ {"grace"} : t[f] = z[f]
      BY <1>1, <1>9 DEF RxInit
    <2>2. Stocked(t)
      BY <1>6, <2>1 DEF Stocked, RxInit
    <2>3. Worded(t)
      BY <1>7, <2>1 DEF Worded, RxInit
    <2> QED BY <1>4, <2>2, <2>3 DEF RxTyped
  <1>10. CASE t = [z EXCEPT !.tail = [key |-> k, round |-> r]]
    <2>1. /\ t.tail.round = r
          /\ \A f \in DOMAIN RxInit \ {"tail"} : t[f] = z[f]
      BY <1>1, <1>10 DEF RxInit
    <2>2. Stocked(t)
      BY <1>6, <2>1 DEF Stocked, RxInit
    <2>3. Worded(t)
      BY <1>7, <2>1 DEF Worded, RxInit
    <2> QED BY <1>4, <2>2, <2>3 DEF RxTyped
  <1> QED BY <1>3, <1>8, <1>9, <1>10

\* A bucket that takes a frame keeps its pieces in it.
LEMMA TookPieces ==
  ASSUME NEW n, NEW D, NEW b, Pieces(n, D, b), NEW f, f.over \subseteq 1..n, f.data \subseteq D,
         NEW tail, NEW i \in 1..n
  PROVE  LET flag == [b EXCEPT !.tail = tail] IN
         Pieces(n, D, IF f.parity
                   THEN [flag EXCEPT !.parity = {m \in @ : m.over # f.over} \union
                                                {[over |-> f.over, data |-> f.data]}]
                   ELSE IF i \in Held(b) THEN flag ELSE Store(flag, i, f.data))
  <1> DEFINE flag == [b EXCEPT !.tail = tail]
             sum == [over |-> f.over, data |-> f.data]
             kept == {m \in b.parity : m.over # f.over}
             more == [flag EXCEPT !.parity = {m \in @ : m.over # f.over} \union {sum}]
  <1>1. /\ DOMAIN flag = DOMAIN EmptyBucket /\ flag.got = b.got /\ flag.parity = b.parity
        /\ Held(flag) = Held(b)
    BY DEF Pieces, Held, EmptyBucket
  <1>2. Pieces(n, D, flag)
    BY <1>1 DEF Pieces
  <1>3. Pieces(n, D, more)
    <2>1. DOMAIN more = DOMAIN EmptyBucket /\ more.got = b.got /\ more.parity = kept \union {sum}
      BY <1>1 DEF EmptyBucket
    <2>2. IsFiniteSet(kept)
      <3>1. IsFiniteSet(b.parity) /\ kept \in SUBSET b.parity
        BY DEF Pieces
      <3> QED BY <3>1, FS_Subset
    <2>3. IsFiniteSet(kept \union {sum})
      BY <2>2, FS_AddElement
    <2>4. sum.over \subseteq 1..n /\ sum.data \subseteq D
      OBVIOUS
    <2> HIDE DEF sum, more
    <2> QED BY <2>1, <2>3, <2>4 DEF Pieces, Held
  <1>4. Pieces(n, D, Store(flag, i, f.data))
    BY <1>2, StorePieces
  <1> QED BY <1>2, <1>3, <1>4

\* A frame, received, leaves the receiver in its types.
LEMMA ReceiveTyped ==
  ASSUME NEW y, RxTyped(y), NEW f, IsFrame(f), f.over # {}, NEW t \in Receive(y, f)
  PROVE  RxTyped(t)
  <1> DEFINE k == f.key
             b == Bucket(y, k)
             i == CHOOSE i \in f.over : TRUE
             flag == [b EXCEPT !.tail = @ \/ f.flagged]
             took == IF f.parity
                     THEN [flag EXCEPT !.parity = {m \in @ : m.over # f.over} \union
                                                  {[over |-> f.over, data |-> f.data]}]
                     ELSE IF i \in Held(b) THEN flag ELSE Store(flag, i, f.data)
             full == Solve(took, k[2])
             z == [y EXCEPT !.recent = @ \union {k}, !.ever[k] = @ \union Held(full)]
             ask == f.flagged \/ (full # took /\ full.tail)
  <1>0. /\ RxOK(y) /\ Stocked(y) /\ Worded(y) /\ k \in Keys /\ f.round \in 0..Rounds - 1
        /\ f.over \subseteq 1..k[2] /\ f.data \subseteq Chunks
    BY DEF RxTyped, IsFrame
  <1>1. k[2] \in Nat
    BY <1>0, Limits DEF Keys
  <1>2. Pieces(k[2], Chunks, full)
    <2>1. Pieces(k[2], Chunks, b)
      BY <1>0, EmptyPieces DEF Bucket, Stocked
    <2>2. i \in 1..k[2]
      BY <1>0
    <2> HIDE DEF k, b, i
    <2>3. Pieces(k[2], Chunks, took)
      BY <1>0, <2>1, <2>2, TookPieces
    <2> HIDE DEF took
    <2> QED BY <1>1, <2>3, SolvePieces
  <1>3. RxOK(t)
    BY <1>0, ReceiveOK
  <1>4. \/ t = z
        \/ k \in y.done /\ t = Report(z, k, f.round, TRUE)
        \/ \E g : /\ t = [z EXCEPT !.bucket[k] = None, !.gaps[k] = g]
                  /\ g \in {f.round, z.gaps[k]}
        \/ Held(full) = 1..k[2] /\ t \in Deliver(z, k, f.round, full)
        \/ \E g : /\ t = [z EXCEPT !.bucket[k] = full, !.gaps[k] = g]
                  /\ g \in {f.round, z.gaps[k]} /\ Held(full) # 1..k[2] /\ k \notin y.done
    BY DEF Receive
  <1> HIDE DEF full
  <1>5. /\ DOMAIN z = DOMAIN RxInit /\ z.recent = y.recent \union {k}
        /\ z.ever = [y.ever EXCEPT ![k] = @ \union Held(full)]
        /\ \A g \in DOMAIN RxInit \ {"recent", "ever"} : z[g] = y[g]
    BY <1>0 DEF RxOK, RxInit
  <1> HIDE DEF z
  <1>6. RxOK(z)
    <2>1. /\ z.bucket = y.bucket /\ z.done = y.done /\ z.tail = y.tail /\ z.grace = y.grace
          /\ z.words = y.words
      BY <1>5 DEF RxInit
    <2>2. DOMAIN z.ever = Keys /\ Grows(y.ever, z.ever)
      BY <1>0, <1>5 DEF RxOK, Grows
    <2>3. y.recent \subseteq z.recent /\ z.recent \subseteq Keys /\ DOMAIN z = DOMAIN y
      BY <1>0, <1>5 DEF RxOK
    <2> QED BY <1>0, <2>1, <2>2, <2>3, RxGrows
  <1>7. Stocked(z)
    <2>1. z.bucket = y.bucket /\ z.done = y.done /\ z.gaps = y.gaps
      BY <1>5 DEF RxInit
    <2>2. \A j \in Keys : z.ever[j] \subseteq 1..j[2]
      BY <1>0, <1>2, <1>5 DEF Stocked, Pieces, RxOK
    <2> QED BY <1>0, <2>1, <2>2 DEF Stocked
  <1>8. Worded(z)
    BY <1>0, <1>5 DEF Worded, RxInit
  <1>9. Held(full) \subseteq z.ever[k] /\ k \in z.recent /\ z.done = y.done /\ k \in Keys
    BY <1>0, <1>5 DEF RxOK, RxInit
  <1> HIDE DEF k
  <1>10. CASE k \in y.done /\ t = Report(z, k, f.round, TRUE)
    <2>1. Whole(z, k)
      BY <1>6, <1>9, <1>10 DEF RxOK
    <2> QED BY <1>0, <1>6, <1>7, <1>8, <1>9, <1>10, <2>1, ReportTyped DEF RxTyped
  <1>11. CASE Held(full) = 1..k[2] /\ t \in Deliver(z, k, f.round, full)
    <2>1. Whole(z, k)
      BY <1>9, <1>11 DEF Whole
    <2> QED BY <1>0, <1>6, <1>7, <1>8, <1>9, <1>11, <2>1, DeliverTyped DEF RxTyped
  <1>12. ASSUME NEW d, NEW g, t = [z EXCEPT !.bucket[k] = d, !.gaps[k] = g],
                g \in {f.round, z.gaps[k]},
                d # None => Pieces(k[2], Chunks, d) /\ Held(d) # 1..k[2] /\ k \notin z.done
         PROVE  RxTyped(t)
    <2>1. /\ t.bucket = [z.bucket EXCEPT ![k] = d] /\ t.gaps = [z.gaps EXCEPT ![k] = g]
          /\ \A h \in DOMAIN RxInit \ {"bucket", "gaps"} : t[h] = z[h]
      BY <1>5, <1>12 DEF RxInit
    <2>2. t.ever = z.ever /\ t.done = z.done
      BY <2>1 DEF RxInit
    <2>3. \A j \in Keys : t.bucket[j] # None =>
            Pieces(j[2], Chunks, t.bucket[j]) /\ Held(t.bucket[j]) # 1..j[2] /\ j \notin t.done
      BY <1>6, <1>7, <1>12, <2>1, <2>2 DEF Stocked, RxOK
    <2>4. DOMAIN t.gaps = Keys /\ \A j \in Keys : t.gaps[j] \in 0..Rounds - 1 \union {None}
      BY <1>0, <1>7, <1>9, <1>12, <2>1 DEF Stocked
    <2>5. Stocked(t)
      BY <1>7, <2>2, <2>3, <2>4 DEF Stocked
    <2>6. Worded(t)
      BY <1>8, <2>1 DEF Worded, RxInit
    <2> QED BY <1>3, <2>5, <2>6 DEF RxTyped
  <1>13. CASE \E g : /\ t = [z EXCEPT !.bucket[k] = None, !.gaps[k] = g]
                     /\ g \in {f.round, z.gaps[k]}
    BY <1>12, <1>13
  <1>14. CASE \E g : /\ t = [z EXCEPT !.bucket[k] = full, !.gaps[k] = g]
                     /\ g \in {f.round, z.gaps[k]} /\ Held(full) # 1..k[2] /\ k \notin y.done
    BY <1>2, <1>9, <1>12, <1>14
  <1> QED BY <1>4, <1>6, <1>7, <1>8, <1>10, <1>11, <1>13, <1>14 DEF RxTyped

\* A change of the receiver that at most forgets.
LEMMA TrimTyped ==
  ASSUME NEW y, NEW z, RxTyped(y), RxOK(z), DOMAIN z.gaps = Keys,
         \A k \in Keys : z.bucket[k] \in {y.bucket[k], None} /\ z.gaps[k] \in {y.gaps[k], None},
         z.ever = y.ever, z.done \subseteq y.done, z.delivered = y.delivered, z.garbled = y.garbled,
         z.proofs \subseteq z.delivered \intersect Provable, z.tail = y.tail, z.grace \in {y.grace, None},
         \A w \in z.words : w \in y.words \/ IsWord(w)
  PROVE  RxTyped(z)
  <1>1. Stocked(z)
    BY DEF RxTyped, Stocked
  <1>2. Worded(z)
    BY DEF RxTyped, Worded
  <1> QED BY <1>1, <1>2 DEF RxTyped

LEMMA ReceiverTyped ==
  ASSUME Inv, RxTyped(rx), \A q \in tx.queries : q.nonce \in Nonces, \A f \in air : IsFrame(f),
         ReceiverStep
  PROVE  RxTyped(rx')
  <1>0. RxOK(rx) /\ Stocked(rx) /\ Worded(rx) /\ DOMAIN rx = DOMAIN RxInit
    BY DEF RxTyped, RxOK
  <1>1. RxOK(rx')
    BY ReceiverOK
  <1>2. ASSUME NEW f \in air, ReceiveFrame(f) PROVE RxTyped(rx')
    BY <1>2, ReceiveTyped DEF ReceiveFrame
  <1>3. ASSUME NEW k \in Keys, FireGaps(k) PROVE RxTyped(rx')
    <2> DEFINE y == [rx EXCEPT !.gaps[k] = None]
    <2>1. /\ DOMAIN y = DOMAIN RxInit /\ y.gaps = [rx.gaps EXCEPT ![k] = None]
          /\ \A g \in DOMAIN RxInit \ {"gaps"} : y[g] = rx[g]
      BY <1>0 DEF RxInit
    <2>2. rx' = y \/ rx' = Report(y, k, rx.gaps[k], FALSE)
      BY <1>3 DEF FireGaps
    <2>3. rx.gaps[k] \in 0..Rounds - 1
      BY <1>0, <1>3 DEF FireGaps, Stocked
    <2> HIDE DEF y
    <2>4. /\ y.ever = rx.ever /\ y.bucket = rx.bucket /\ y.done = rx.done /\ y.recent = rx.recent
          /\ y.words = rx.words /\ y.tail = rx.tail /\ y.grace = rx.grace
          /\ y.delivered = rx.delivered /\ y.garbled = rx.garbled /\ y.proofs = rx.proofs
      BY <2>1 DEF RxInit
    <2>5. RxOK(y)
      BY <1>0, <2>1, <2>4, RxShrinks DEF RxOK
    <2>6. DOMAIN y.gaps = Keys /\ \A j \in Keys : y.gaps[j] \in {rx.gaps[j], None}
      BY <1>0, <2>1 DEF Stocked
    <2>7. RxTyped(y)
      BY <1>0, <2>4, <2>5, <2>6, TrimTyped DEF Worded
    <2> QED BY <2>2, <2>3, <2>7, ReportTyped
  <1>4. CASE FireTail
    <2>1. /\ Whole(rx, rx.tail.key) /\ rx.tail.key \in Keys /\ rx.tail.round \in 0..Rounds - 1
          /\ rx' = Report(rx, rx.tail.key, rx.tail.round, TRUE)
      BY <1>0, <1>4 DEF FireTail, RxOK, Whole, Worded
    <2> QED BY <2>1, ReportTyped
  <1>5. ASSUME NEW p \in Packets, Prove(p) PROVE RxTyped(rx')
    <2>1. /\ \A g \in DOMAIN RxInit \ {"proofs"} : rx'[g] = rx[g]
          /\ rx'.proofs = rx.proofs \union {p} /\ p \in rx.delivered \intersect Provable
      BY <1>0, <1>5 DEF Prove, RxInit
    <2>2. Stocked(rx')
      BY <1>0, <2>1 DEF Stocked, RxInit
    <2>3. Worded(rx')
      BY <1>0, <2>1 DEF Worded, RxInit
    <2> QED BY <1>1, <2>2, <2>3 DEF RxTyped
  <1>6. CASE EndGrace
    <2>1. CASE rx' = [rx EXCEPT !.grace = None]
      <3>1. \A g \in DOMAIN RxInit \ {"grace"} : rx'[g] = rx[g]
        BY <1>0, <2>1 DEF RxInit
      <3>2. rx'.grace = None
        BY <1>0, <2>1 DEF RxInit
      <3>3. Stocked(rx')
        BY <1>0, <3>1 DEF Stocked, RxInit
      <3>4. Worded(rx')
        BY <1>0, <3>1, <3>2 DEF Worded, RxInit
      <3> QED BY <1>1, <3>3, <3>4 DEF RxTyped
    <2>2. CASE rx' = Report(rx, rx.grace.key, rx.grace.round, TRUE)
      <3>1. /\ Whole(rx, rx.grace.key) /\ rx.grace.key \in Keys /\ rx.grace.round \in 0..Rounds - 1
        BY <1>0, <1>6 DEF EndGrace, RxOK, Whole, Worded
      <3> QED BY <2>2, <3>1, ReportTyped
    <2> QED BY <1>6, <2>1, <2>2 DEF EndGrace
  <1>7. ASSUME NEW nonce \in Nonces, NEW ks \in SUBSET Keys, Tell(nonce, ks) PROVE RxTyped(rx')
    <2> DEFINE es == {Entry(rx, k) : k \in ks}
               word == [nonce |-> nonce, entries |-> es]
    <2>1. /\ \A g \in DOMAIN RxInit \ {"words"} : rx'[g] = rx[g]
          /\ rx'.words = rx.words \union {word}
      BY <1>0, <1>7 DEF Tell, RxInit
    <2>2. \A e \in es : Says(e)
      BY EntryTyped DEF Says
    <2> HIDE DEF es
    <2>3. IsWord(word)
      BY <2>2, WordIs
    <2> HIDE DEF word
    <2>4. Stocked(rx')
      BY <1>0, <2>1 DEF Stocked, RxInit
    <2>5. Worded(rx')
      BY <1>0, <2>1, <2>3 DEF Worded, RxInit
    <2> QED BY <1>1, <2>4, <2>5 DEF RxTyped
  <1>8. ASSUME NEW k \in Keys, Evict(k) \/ Forget(k) PROVE RxTyped(rx')
    <2>1. /\ rx'.bucket \in {rx.bucket, [rx.bucket EXCEPT ![k] = None]} /\ rx'.done \subseteq rx.done
          /\ rx'.gaps = rx.gaps /\ rx'.ever = rx.ever /\ rx'.words = rx.words /\ rx'.tail = rx.tail
          /\ rx'.grace = rx.grace /\ rx'.delivered = rx.delivered /\ rx'.garbled = rx.garbled
          /\ rx'.proofs = rx.proofs
      BY <1>0, <1>8 DEF Evict, Forget, RxInit
    <2>2. \A j \in Keys : rx'.bucket[j] \in {rx.bucket[j], None} /\ rx'.gaps[j] \in {rx.gaps[j], None}
      BY <1>0, <2>1 DEF RxOK
    <2>3. DOMAIN rx'.gaps = Keys /\ rx'.proofs \subseteq rx'.delivered \intersect Provable
      BY <1>0, <2>1 DEF Stocked, Worded
    <2> QED BY <1>1, <2>1, <2>2, <2>3, TrimTyped
  <1>9. \A w \in rx.words : w.nonce \in Nonces
    BY <1>0 DEF Worded, IsWord
  <1> QED BY <1>2, <1>3, <1>4, <1>5, <1>6, <1>7, <1>8, <1>9, TellsWhat DEF ReceiverStep

-----------------------------------------------------------------------------
(* The faults, and the theorem. *)

\* A step that counts at most one fault, within the bound.
Counts == faults' = faults \/ (faults < MaxFaults /\ faults' = faults + 1)

LEMMA BeginNextCounts ==
  ASSUME NEW x, BeginNext(x)
  PROVE  Counts
  BY DEF BeginNext, Fault, Counts

LEMMA AnsweredCounts ==
  ASSUME NEW x, NEW w, Answered(x, w)
  PROVE  Counts
  <1>1. UNCHANGED faults \/ \E z : BeginNext(z)
    BY DEF Answered
  <1> QED BY <1>1, BeginNextCounts DEF Counts

LEMMA NextCounts ==
  ASSUME [Next]_vars
  PROVE  Counts
  <1>1. ASSUME SenderSide PROVE Counts
    <2>1. ASSUME TakeEarly \/ TakeReport \/ ReportTimeout \/ TakeAnswer PROVE Counts
      <3>1. UNCHANGED faults \/ \E x, w : Answered(x, w)
        BY <2>1 DEF TakeEarly, TakeReport, ReportTimeout, TakeAnswer
      <3> QED BY <3>1, AnsweredCounts DEF Counts
    <2>2. ASSUME QueryTimeout PROVE Counts
      <3>1. UNCHANGED faults \/ Fault("abort") \/ \E x : BeginNext(x)
        BY <2>2 DEF QueryTimeout
      <3> QED BY <3>1, BeginNextCounts DEF Counts, Fault
    <2>3. ASSUME AbortBurst \/ Restart PROVE Counts
      BY <2>3 DEF AbortBurst, Restart, Fault, Counts
    <2>4. ASSUME SendFrame \/ ReportProved \/ BurstEnds PROVE Counts
      BY <2>4 DEF SendFrame, ReportProved, BurstEnds, Counts
    <2>5. ASSUME NEW S, NEW fresh, NEW c, OpenWindow(S, fresh, c) PROVE Counts
      BY <2>5 DEF OpenWindow, Counts
    <2>6. ASSUME NEW w, Hear(w) \/ HearProof(w) PROVE Counts
      BY <2>6 DEF Hear, HearProof, Counts
    <2> QED BY <1>1, <2>1, <2>2, <2>3, <2>4, <2>5, <2>6 DEF SenderSide, SenderStep
  <1>2. ASSUME ReceiverStep PROVE Counts
    BY <1>2 DEF ReceiverStep, ReceiveFrame, FireGaps, Evict, Forget, Prove, FireTail, EndGrace,
               AnswerQuery, RetryReport, Tell, Fault, Counts
  <1>3. UNCHANGED vars => Counts
    BY DEF vars, Counts
  <1> QED BY <1>1, <1>2, <1>3 DEF Next, SenderSide, ReceiverStep

\* The types, with what carries them from step to step.
AllTyped ==
    /\ Inv /\ Typed(tx) /\ RxTyped(rx)
    /\ \A f \in air : IsFrame(f)
    /\ faults \in 0..MaxFaults

LEMMA InitTyped == Init => AllTyped
  <1> SUFFICES ASSUME Init PROVE AllTyped
    OBVIOUS
  <1>1. Inv
    BY InitInv
  <1>2. Typed(tx)
    <2>1. tx = TxInit /\ tx.win = 0 /\ tx.queries = {}
      BY DEF Init, TxInit
    <2>2. 0 \in 0..MaxWindows
      BY Limits
    <2> QED BY <2>1, <2>2, FreshTyped
  <1>3. RxTyped(rx)
    <2>1. /\ rx.ever = [k \in Keys |-> {}] /\ rx.bucket = [k \in Keys |-> None]
          /\ rx.gaps = [k \in Keys |-> None] /\ rx.done = {} /\ rx.tail = None /\ rx.grace = None
          /\ rx.words = {} /\ rx.delivered = {} /\ rx.proofs = {} /\ rx.garbled = FALSE
      BY DEF Init, RxInit
    <2>2. Stocked(rx)
      BY <2>1 DEF Stocked
    <2>3. Worded(rx)
      BY <2>1 DEF Worded
    <2> QED BY <1>1, <2>2, <2>3 DEF RxTyped, Inv
  <1>4. air = {} /\ faults \in 0..MaxFaults
    BY Limits DEF Init
  <1> QED BY <1>1, <1>2, <1>3, <1>4 DEF AllTyped

LEMMA NextTyped ==
  ASSUME AllTyped, [Next]_vars
  PROVE  AllTyped'
  <1>0. Inv /\ Typed(tx) /\ RxTyped(rx) /\ Worded(rx) /\ \A f \in air : IsFrame(f)
    BY DEF AllTyped, RxTyped
  <1>1. Inv'
    BY <1>0, NextInv
  <1>2. faults' \in 0..MaxFaults
    BY NextCounts, Limits DEF AllTyped, Counts
  <1>3. Typed(tx') /\ RxTyped(rx') /\ \A f \in air' : IsFrame(f)
    <2>1. CASE SenderSide
      <3>1. UNCHANGED rx
        BY <2>1 DEF SenderSide, SenderStep, SendFrame, TakeEarly, TakeReport, ReportTimeout, ReportProved,
                    TakeAnswer, QueryTimeout, BurstEnds, AbortBurst, Restart, OpenWindow, Hear,
                    HearProof
      <3>2. rx.proofs \subseteq Provable /\ \A w \in rx.words : IsWord(w)
        BY <1>0 DEF Worded
      <3>3. Typed(tx') /\ \A f \in air' : f \in air \/ IsFrame(f)
        BY <1>0, <2>1, <3>2, SenderTyped
      <3> QED BY <1>0, <3>1, <3>3
    <2>2. CASE ReceiverStep
      <3>1. UNCHANGED <<tx, air>>
        BY <1>0, <2>2, ReceiverOK
      <3>2. \A q \in tx.queries : q.nonce \in Nonces
        BY <1>0 DEF Typed, Formed, Spoken
      <3> QED BY <1>0, <2>2, <3>1, <3>2, ReceiverTyped
    <2>3. CASE UNCHANGED vars
      BY <1>0, <2>3 DEF vars
    <2> QED BY <2>1, <2>2, <2>3 DEF Next, SenderSide, ReceiverStep
  <1> QED BY <1>1, <1>2, <1>3 DEF AllTyped

LEMMA TypedOK == AllTyped => TypeOK
  <1> SUFFICES ASSUME AllTyped PROVE TypeOK
    OBVIOUS
  <1>0. /\ TxOK(rx.ever, tx) /\ RxOK(rx) /\ Formed(tx) /\ Timed(tx) /\ Stocked(rx) /\ Worded(rx)
        /\ Sized(tx) /\ Spoken(tx) /\ Tallied(tx)
    BY DEF AllTyped, Inv, Typed, RxTyped, Formed
  <1>1. tx.unanswered \in 0..Rounds
    BY <1>0, Limits DEF Timed, Tallied
  <1>2. tx.result \in [Packets -> {"unsent", "open", "true", "false", "text"}]
    BY <1>0 DEF Sized, Rated, Results, Verdicts
  <1>3. TxTypeOK
    <2>1. tx.parts \subseteq Packets /\ DOMAIN tx = DOMAIN TxInit
      BY <1>0 DEF Formed
    <2>2. /\ tx.nextId \in Ids /\ tx.id \in [Packets -> Ids \union {None}]
          /\ \A p \in Packets : tx.resumable[p] # None => tx.resumable[p].id \in Ids
          /\ \A q \in tx.queries : q.keys \subseteq Keys
      BY <1>0 DEF TxOK
    <2>3. /\ \A p \in Packets : tx.acked[p] \subseteq 1..Frags[p]
          /\ \A p \in Packets : tx.resumable[p] # None =>
                tx.resumable[p].acked \subseteq 1..Frags[p] /\ tx.resumable[p].acked # {}
          /\ tx.unsent \subseteq UNION {{p} \X (1..Frags[p] + 1) : p \in Packets}
      BY <1>0 DEF Sized
    <2>4. /\ \A i \in Ids : tx.waiter[i] # None => tx.waiter[i].nonce \in Nonces /\ tx.waiter[i].window \in 1..tx.win
          /\ \A w \in {tx.mail, tx.early, tx.provisional} \ {None} : IsWord(w)
          /\ tx.nonce \in 0..239 /\ tx.proved \subseteq Provable
          /\ \A q \in tx.queries : q.nonce \in Nonces
      BY <1>0 DEF Spoken
    <2>5. /\ tx.phase \in {"idle", "burst", "report", "query"}
          /\ tx.win \in 0..MaxWindows /\ tx.cut \in Cuts \union {None}
          /\ {tx.burst, tx.airborne, tx.atEntry} \subseteq BOOLEAN
          /\ tx.inARow \in 0..tx.unanswered
      BY <1>0 DEF Tallied
    <2>6. /\ tx.rnd \in 0..Rounds - 1 /\ tx.inRound \subseteq tx.parts
          /\ tx.attempt \in 0..QueryAttempts /\ tx.empty \in 0..FallbackStrikes - 1
      BY <1>0 DEF Timed
    <2> QED BY <1>1, <1>2, <2>1, <2>2, <2>3, <2>4, <2>5, <2>6 DEF TxTypeOK
  <1>4. RxTypeOK
    <2>1. /\ DOMAIN rx = DOMAIN RxInit /\ rx.done \subseteq rx.recent /\ rx.recent \subseteq Keys
      BY <1>0 DEF RxOK
    <2>2. /\ rx.delivered \subseteq Packets /\ rx.garbled \in BOOLEAN
          /\ rx.proofs \subseteq rx.delivered \intersect Provable
          /\ \A w \in rx.words : IsWord(w)
      BY <1>0 DEF Worded
    <2>3. \A k \in Keys :
            /\ rx.bucket[k] # None =>
                /\ Held(rx.bucket[k]) \subseteq 1..k[2] /\ Held(rx.bucket[k]) # 1..k[2]
                /\ \A m \in rx.bucket[k].parity : m.over \subseteq 1..k[2] /\ m.data \subseteq Chunks
                /\ \A i \in Held(rx.bucket[k]) : rx.bucket[k].got[i] \subseteq Chunks
            /\ rx.gaps[k] \in 0..Rounds - 1 \union {None}
            /\ rx.ever[k] \subseteq 1..k[2]
            /\ k \in rx.done => rx.bucket[k] = None
      BY <1>0 DEF Stocked, Pieces
    <2> QED BY <2>1, <2>2, <2>3 DEF RxTypeOK
  <1> QED BY <1>3, <1>4 DEF TypeOK, AllTyped

\* Every variable stays in its range, for any packets, sizes and faults: a bucket
\* is never full, holds no fragment beyond its packet's size, and never stands
\* beside the memory of its packet, whatever parity the solver is given
\* (_add_channel_fragment, _reconstruct_from_parity); no window counts more rounds,
\* strikes or QUERYs than it may.
THEOREM TypeCorrect == Spec => []TypeOK
  <1>1. Init => AllTyped
    BY InitTyped
  <1>2. AllTyped /\ [Next]_vars => AllTyped'
    BY NextTyped
  <1>3. AllTyped => TypeOK
    BY TypedOK
  <1> QED BY <1>1, <1>2, <1>3, PTL DEF Spec

-----------------------------------------------------------------------------
(* Every completed packet is signalled.

   A packet that completes is told of, or a report of it is held, or its report
   waits for a PROOF; what a held report or a grace is replaced by tells of every
   completed packet, or waits in its place. A grace ends without a word when the
   packet it waits for is proved. That packet may have come after another that is
   provable too, and whose own grace it took the place of: with one provable packet
   nothing goes unsignalled, with more only what another's PROOF overtook. *)

\* The bytes that were sent under key k.
From(sent, k) == UNION {f.data : f \in {g \in sent : g.key = k}}

\* A bucket is filled by what was sent under its key.
Sourced(sent, y) ==
    \A k \in Keys : y.bucket[k] # None => Pieces(k[2], From(sent, k), y.bucket[k])

\* The sender was told that k is complete.
Told(y, k) == \E w \in y.words : \E e \in w.entries : e.key = k /\ e.complete

\* Fragments of a provable packet were sent under key k.
ProvableIn(sent, k) == \E p \in Provable : \E f \in sent : f.key = k /\ \E c \in f.data : c[1] = p

\* Every completed packet is told of, about to be, or left to a PROOF.
Owed(sent, y) ==
    \A k \in y.done :
        \/ y.tail # None \/ Told(y, k)
        \/ ProvableIn(sent, k) /\ (y.grace # None \/ y.proofs # {})

Signals(sent, y) == Sourced(sent, y) /\ Owed(sent, y)

\* What more is sent takes nothing away.
LEMMA MoreSent ==
  ASSUME NEW sent, NEW more, sent \subseteq more, NEW y, Signals(sent, y)
  PROVE  Signals(more, y)
  <1>1. \A k : From(sent, k) \subseteq From(more, k) /\ (ProvableIn(sent, k) => ProvableIn(more, k))
    BY DEF From, ProvableIn
  <1>2. Sourced(more, y)
    BY <1>1 DEF Signals, Sourced, Pieces
  <1>3. Owed(more, y)
    BY <1>1 DEF Signals, Owed
  <1> QED BY <1>2, <1>3 DEF Signals

\* A report tells of every completed packet: of the one it is about what it is
\* asked to say, of the others what it finds.
LEMMA ReportSignals ==
  ASSUME NEW sent, NEW y, RxOK(y), Sourced(sent, y), NEW k \in Keys, NEW r, NEW complete,
         k \in y.done => complete
  PROVE  Signals(sent, Report(y, k, r, complete))
  <1> DEFINE first == [key |-> k, complete |-> complete,
                       held |-> IF complete THEN 1..k[2] ELSE Held(Bucket(y, k))]
             word == [nonce |-> <<"report", r % 4>>,
                      entries |-> {first} \union {Entry(y, j) : j \in y.recent \ {k}}]
             z == Report(y, k, r, complete)
  <1>1. z.done = y.done /\ z.bucket = y.bucket /\ word \in z.words
    BY DEF Report, RxOK, RxInit
  <1>2. ASSUME NEW j \in y.done PROVE \E e \in word.entries : e.key = j /\ e.complete
    <2>1. CASE j = k
      <3>1. first \in word.entries /\ first.key = j /\ first.complete
        BY <2>1
      <3> QED BY <3>1
    <2>2. CASE j # k
      <3>1. Entry(y, j) \in word.entries /\ j \in Keys
        BY <2>2 DEF RxOK
      <3> QED BY <3>1, EntryOK
    <2> QED BY <2>1, <2>2
  <1> HIDE DEF z, word
  <1>3. Owed(sent, z)
    BY <1>1, <1>2 DEF Owed, Told
  <1>4. Sourced(sent, z)
    BY <1>1 DEF Sourced
  <1> QED BY <1>3, <1>4 DEF Signals, z

\* A change of the receiver that at most forgets a bucket or a packet.
LEMMA TrimSignals ==
  ASSUME NEW sent, NEW y, NEW z, Signals(sent, y), z.done \subseteq y.done,
         \A k \in Keys : z.bucket[k] \in {y.bucket[k], None}, y.words \subseteq z.words,
         y.proofs \subseteq z.proofs, z.tail = y.tail, z.grace = y.grace
  PROVE  Signals(sent, z)
  <1>1. Sourced(sent, z)
    BY DEF Signals, Sourced
  <1>2. Owed(sent, z)
    BY DEF Signals, Owed, Told
  <1> QED BY <1>1, <1>2 DEF Signals

\* A bucket that is all of a packet was filled by frames of that packet.
LEMMA WholeSent ==
  ASSUME NEW sent, NEW k \in Keys, NEW b, Pieces(k[2], From(sent, k), b),
         NEW p \in Provable, NEW c \in Cuts, Content(p, c) = b.got
  PROVE  ProvableIn(sent, k)
  <1>1. p \in Packets /\ 1 \in 1..Frags[p]
    <2>1. p \in Packets /\ Frags[p] \in 1..255
      BY SizeAssumption
    <2> QED BY <2>1
  <1>2. 1 \in Held(b) /\ b.got[1] = {<<p, 1, c>>}
    BY <1>1 DEF Content, Held
  <1>3. <<p, 1, c>> \in From(sent, k)
    BY <1>2 DEF Pieces
  <1>4. PICK f \in sent : f.key = k /\ <<p, 1, c>> \in f.data
    BY <1>3 DEF From
  <1>5. <<p, 1, c>>[1] = p
    OBVIOUS
  <1> QED BY <1>4, <1>5 DEF ProvableIn

\* A full bucket goes to RNS: a report goes, is held, or waits for the packet's PROOF.
LEMMA DeliverSignals ==
  ASSUME NEW sent, NEW y, RxOK(y), Signals(sent, y), NEW k, Whole(y, k), k \in y.recent,
         NEW r \in 0..Rounds - 1, NEW b, Pieces(k[2], From(sent, k), b), NEW t \in Deliver(y, k, r, b)
  PROVE  Signals(sent, t)
  <1> DEFINE whole == {p \in Packets : \E c \in Cuts : Content(p, c) = b.got}
             z == [y EXCEPT !.bucket[k] = None, !.done = @ \union {k}, !.gaps[k] = None,
                            !.delivered = @ \union whole, !.garbled = @ \/ whole = {}]
  <1>0. k \in Keys
    BY DEF Whole
  <1>1. /\ DOMAIN z = DOMAIN RxInit
        /\ z.bucket = [y.bucket EXCEPT ![k] = None] /\ z.done = y.done \union {k}
        /\ z.ever = y.ever /\ z.recent = y.recent /\ z.tail = y.tail /\ z.grace = y.grace
        /\ z.words = y.words /\ z.proofs = y.proofs
    BY DEF RxOK, RxInit
  <1>2. \/ /\ whole \intersect Provable # {}
           /\ t = [z EXCEPT !.grace = [key |-> k, round |-> r, packet |-> CHOOSE p \in whole : TRUE]]
        \/ t = Report(z, k, r, TRUE)
        \/ t = [z EXCEPT !.tail = [key |-> k, round |-> r]]
    BY DEF Deliver
  <1>3. whole \intersect Provable # {} => ProvableIn(sent, k) /\ (CHOOSE p \in whole : TRUE) \in Packets
    BY <1>0, WholeSent
  <1> HIDE DEF z, whole
  <1>4. DOMAIN y.bucket = Keys
    BY DEF RxOK
  <1>5. Sourced(sent, z)
    BY <1>0, <1>1, <1>4 DEF Signals, Sourced
  <1>6. RxOK(z)
    <2>1. \A j \in Keys : z.bucket[j] # None => Held(z.bucket[j]) \subseteq z.ever[j]
      BY <1>0, <1>1 DEF RxOK
    <2> QED BY <1>0, <1>1, <2>1 DEF RxOK, Whole
  <1>7. CASE t = Report(z, k, r, TRUE)
    BY <1>0, <1>5, <1>6, <1>7, ReportSignals
  <1>8. CASE t = [z EXCEPT !.tail = [key |-> k, round |-> r]]
    <2>1. t.tail = [key |-> k, round |-> r] /\ t.bucket = z.bucket
      BY <1>1, <1>8 DEF RxInit
    <2>2. t.tail # None
      BY <1>0, <2>1, NoneAssumption
    <2> QED BY <1>5, <2>1, <2>2 DEF Signals, Sourced, Owed
  <1>9. ASSUME NEW p \in Packets, ProvableIn(sent, k),
               t = [z EXCEPT !.grace = [key |-> k, round |-> r, packet |-> p]]
        PROVE  Signals(sent, t)
    <2>1. /\ t.grace = [key |-> k, round |-> r, packet |-> p] /\ t.bucket = z.bucket
          /\ t.done = z.done /\ t.tail = z.tail /\ t.words = z.words
      BY <1>1, <1>9 DEF RxInit
    <2>2. t.grace # None
      BY <1>0, <2>1, NoneAssumption
    <2>3. Owed(sent, t)
      BY <1>1, <1>9, <2>1, <2>2 DEF Signals, Owed, Told
    <2> QED BY <1>5, <2>1, <2>3 DEF Signals, Sourced
  <1> QED BY <1>2, <1>3, <1>7, <1>8, <1>9

\* A frame, received, leaves every completed packet signalled.
LEMMA ReceiveSignals ==
  ASSUME NEW sent, NEW y, RxTyped(y), Signals(sent, y), NEW f \in sent, IsFrame(f), f.over # {},
         NEW t \in Receive(y, f)
  PROVE  Signals(sent, t)
  <1> DEFINE k == f.key
             b == Bucket(y, k)
             i == CHOOSE i \in f.over : TRUE
             flag == [b EXCEPT !.tail = @ \/ f.flagged]
             took == IF f.parity
                     THEN [flag EXCEPT !.parity = {m \in @ : m.over # f.over} \union
                                                  {[over |-> f.over, data |-> f.data]}]
                     ELSE IF i \in Held(b) THEN flag ELSE Store(flag, i, f.data)
             full == Solve(took, k[2])
             z == [y EXCEPT !.recent = @ \union {k}, !.ever[k] = @ \union Held(full)]
             D == From(sent, k)
  <1>0. /\ RxOK(y) /\ k \in Keys /\ f.round \in 0..Rounds - 1
        /\ f.over \subseteq 1..k[2] /\ f.data \subseteq D
    BY DEF RxTyped, IsFrame, From
  <1>1. k[2] \in Nat
    BY <1>0, Limits DEF Keys
  <1>2. Pieces(k[2], D, full)
    <2>1. Pieces(k[2], D, b)
      BY <1>0, EmptyPieces DEF Bucket, Signals, Sourced
    <2>2. i \in 1..k[2]
      BY <1>0
    <2> HIDE DEF k, b, i, D
    <2>3. Pieces(k[2], D, took)
      BY <1>0, <2>1, <2>2, TookPieces
    <2> HIDE DEF took
    <2> QED BY <1>1, <2>3, SolvePieces
  <1>3. \/ t = z
        \/ k \in y.done /\ t = Report(z, k, f.round, TRUE)
        \/ \E g : t = [z EXCEPT !.bucket[k] = None, !.gaps[k] = g]
        \/ Held(full) = 1..k[2] /\ t \in Deliver(z, k, f.round, full)
        \/ \E g : t = [z EXCEPT !.bucket[k] = full, !.gaps[k] = g]
    BY DEF Receive
  <1> HIDE DEF full
  <1>4. /\ DOMAIN z = DOMAIN RxInit /\ z.recent = y.recent \union {k}
        /\ z.ever = [y.ever EXCEPT ![k] = @ \union Held(full)]
        /\ z.bucket = y.bucket /\ z.done = y.done /\ z.tail = y.tail /\ z.grace = y.grace
        /\ z.words = y.words /\ z.proofs = y.proofs
    BY <1>0 DEF RxOK, RxInit
  <1> HIDE DEF z
  <1>5. /\ DOMAIN z.ever = Keys /\ Grows(y.ever, z.ever) /\ Held(full) \subseteq z.ever[k]
        /\ DOMAIN z.bucket = Keys
    BY <1>0, <1>4 DEF RxOK, Grows
  <1>6. RxOK(z)
    <2>1. y.recent \subseteq z.recent /\ z.recent \subseteq Keys /\ DOMAIN z = DOMAIN y
      BY <1>0, <1>4 DEF RxOK
    <2> QED BY <1>0, <1>4, <1>5, <2>1, RxGrows
  <1>7. Signals(sent, z)
    BY <1>4 DEF Signals, Sourced, Owed, Told
  <1> HIDE DEF k, D
  <1>8. CASE k \in y.done /\ t = Report(z, k, f.round, TRUE)
    BY <1>0, <1>6, <1>7, <1>8, ReportSignals DEF Signals
  <1>9. CASE Held(full) = 1..k[2] /\ t \in Deliver(z, k, f.round, full)
    <2>1. Whole(z, k) /\ k \in z.recent
      BY <1>0, <1>4, <1>5, <1>9 DEF Whole
    <2> QED BY <1>0, <1>2, <1>6, <1>7, <1>9, <2>1, DeliverSignals DEF D
  <1>10. ASSUME NEW d, NEW g, t = [z EXCEPT !.bucket[k] = d, !.gaps[k] = g],
                d # None => Pieces(k[2], D, d)
         PROVE  Signals(sent, t)
    <2>1. /\ t.bucket = [z.bucket EXCEPT ![k] = d] /\ t.done = z.done /\ t.tail = z.tail
          /\ t.grace = z.grace /\ t.words = z.words /\ t.proofs = z.proofs
      BY <1>4, <1>10 DEF RxInit
    <2>2. Sourced(sent, t)
      BY <1>5, <1>7, <1>10, <2>1 DEF Signals, Sourced, D
    <2>3. Owed(sent, t)
      BY <1>7, <2>1 DEF Signals, Owed, Told
    <2> QED BY <2>2, <2>3 DEF Signals
  <1>11. CASE \E g : t = [z EXCEPT !.bucket[k] = None, !.gaps[k] = g]
    BY <1>10, <1>11
  <1>12. CASE \E g : t = [z EXCEPT !.bucket[k] = full, !.gaps[k] = g]
    BY <1>2, <1>10, <1>12
  <1> QED BY <1>3, <1>7, <1>8, <1>9, <1>11, <1>12

LEMMA ReceiverSignals ==
  ASSUME Inv, RxTyped(rx), \A f \in air : IsFrame(f), Signals(air, rx), ReceiverStep
  PROVE  Signals(air, rx')
  <1>0. RxOK(rx) /\ DOMAIN rx = DOMAIN RxInit /\ DOMAIN rx.bucket = Keys /\ Sourced(air, rx)
    BY DEF RxTyped, RxOK, Signals
  <1>1. ASSUME NEW f \in air, ReceiveFrame(f) PROVE Signals(air, rx')
    BY <1>1, ReceiveSignals DEF ReceiveFrame
  <1>2. ASSUME NEW k \in Keys, FireGaps(k) PROVE Signals(air, rx')
    <2> DEFINE y == [rx EXCEPT !.gaps[k] = None]
    <2>1. /\ DOMAIN y = DOMAIN rx /\ y.ever = rx.ever /\ y.bucket = rx.bucket
          /\ y.done = rx.done /\ y.recent = rx.recent /\ y.words = rx.words
          /\ y.tail = rx.tail /\ y.grace = rx.grace /\ y.proofs = rx.proofs
      BY <1>0 DEF RxInit
    <2>2. rx' = y \/ (k \notin rx.done /\ rx' = Report(y, k, rx.gaps[k], FALSE))
      BY <1>2 DEF FireGaps
    <2> HIDE DEF y
    <2>3. RxOK(y)
      BY <1>0, <2>1, RxShrinks
    <2>4. Signals(air, y)
      BY <2>1, TrimSignals
    <2> QED BY <2>1, <2>2, <2>3, <2>4, ReportSignals DEF Signals
  <1>3. CASE FireTail
    <2>1. rx.tail.key \in Keys /\ rx' = Report(rx, rx.tail.key, rx.tail.round, TRUE)
      BY <1>0, <1>3 DEF FireTail, RxOK, Whole
    <2> QED BY <1>0, <2>1, ReportSignals
  <1>4. ASSUME NEW p \in Packets, Prove(p) PROVE Signals(air, rx')
    <2>1. /\ rx'.bucket = rx.bucket /\ rx'.done = rx.done /\ rx'.words = rx.words
          /\ rx'.tail = rx.tail /\ rx'.grace = rx.grace /\ rx.proofs \subseteq rx'.proofs
      BY <1>0, <1>4 DEF Prove, RxInit
    <2> QED BY <2>1, TrimSignals
  <1>5. CASE EndGrace
    <2>1. CASE rx.grace.packet \in rx.proofs /\ rx' = [rx EXCEPT !.grace = None]
      <3>1. /\ rx'.bucket = rx.bucket /\ rx'.done = rx.done /\ rx'.words = rx.words
            /\ rx'.tail = rx.tail /\ rx'.proofs = rx.proofs
        BY <1>0, <2>1 DEF RxInit
      <3> QED BY <2>1, <3>1 DEF Signals, Sourced, Owed, Told
    <2>2. CASE rx' = Report(rx, rx.grace.key, rx.grace.round, TRUE)
      <3>1. rx.grace.key \in Keys
        BY <1>0, <1>5 DEF EndGrace, RxOK, Whole
      <3> QED BY <1>0, <2>2, <3>1, ReportSignals
    <2> QED BY <1>5, <2>1, <2>2 DEF EndGrace
  <1>6. ASSUME NEW nonce, NEW ks, Tell(nonce, ks) PROVE Signals(air, rx')
    <2>1. /\ rx'.bucket = rx.bucket /\ rx'.done = rx.done /\ rx.words \subseteq rx'.words
          /\ rx'.tail = rx.tail /\ rx'.grace = rx.grace /\ rx'.proofs = rx.proofs
      BY <1>0, <1>6 DEF Tell, RxInit
    <2> QED BY <2>1, TrimSignals
  <1>7. ASSUME NEW k \in Keys, Evict(k) \/ Forget(k) PROVE Signals(air, rx')
    <2>1. /\ rx'.bucket \in {rx.bucket, [rx.bucket EXCEPT ![k] = None]}
          /\ rx'.done \subseteq rx.done /\ rx'.words = rx.words
          /\ rx'.tail = rx.tail /\ rx'.grace = rx.grace /\ rx'.proofs = rx.proofs
      BY <1>0, <1>7 DEF Evict, Forget, RxInit
    <2>2. \A j \in Keys : rx'.bucket[j] \in {rx.bucket[j], None}
      BY <1>0, <2>1
    <2> QED BY <2>1, <2>2, TrimSignals
  <1> QED BY <1>1, <1>2, <1>3, <1>4, <1>5, <1>6, <1>7, TellsWhat DEF ReceiverStep

LEMMA NextSignals ==
  ASSUME AllTyped, Signals(air, rx), [Next]_vars
  PROVE  Signals(air, rx)'
  <1>1. CASE SenderSide
    <2>1. air \subseteq air' /\ UNCHANGED rx
      BY <1>1 DEF SenderSide, SenderStep, SendFrame, TakeEarly, TakeReport, ReportTimeout, ReportProved,
                  TakeAnswer, QueryTimeout, BurstEnds, AbortBurst, Restart, OpenWindow, Hear, HearProof
    <2> QED BY <2>1, MoreSent
  <1>2. CASE ReceiverStep
    <2>1. UNCHANGED <<tx, air>>
      BY <1>2, ReceiverOK DEF AllTyped
    <2>2. Signals(air, rx')
      BY <1>2, ReceiverSignals DEF AllTyped
    <2> QED BY <2>1, <2>2
  <1>3. CASE UNCHANGED vars
    BY <1>3 DEF vars
  <1> QED BY <1>1, <1>2, <1>3 DEF Next, SenderSide, ReceiverStep

\* The packet of k is provable, and another provable packet is proved.
Overtaken(k) == \E p, q \in Provable : p # q /\ Carries(k, p) /\ q \in rx.proofs

\* A completed packet goes unsignalled only if it is provable and the PROOF of
\* another provable packet came in its place: for any packets, sizes, parity and
\* faults, proof grace and held reports included (_hold_report_for_proof,
\* _proof_may_replace_report, _schedule_sender_report, _send_completion_report).
THEOREM SilentOnlyIfOvertaken == Spec => [](\A k \in rx.done : Signalled(k) \/ Overtaken(k))
  <1>1. Init => AllTyped /\ Signals(air, rx)
    <2>1. Init => rx.bucket = [k \in Keys |-> None] /\ rx.done = {}
      BY DEF Init, RxInit
    <2> QED BY <2>1, InitTyped DEF Signals, Sourced, Owed
  <1>2. (AllTyped /\ Signals(air, rx)) /\ [Next]_vars => (AllTyped /\ Signals(air, rx))'
    BY NextTyped, NextSignals
  <1>3. AllTyped /\ Signals(air, rx) => \A k \in rx.done : Signalled(k) \/ Overtaken(k)
    <2>1. SUFFICES ASSUME AllTyped, Signals(air, rx), NEW k \in rx.done, ~Signalled(k)
                   PROVE  Overtaken(k)
      OBVIOUS
    <2>2. ProvableIn(air, k) /\ rx.proofs # {}
      BY <2>1 DEF Signals, Owed, Told, Signalled
    <2>3. rx.proofs \subseteq Provable
      BY <2>1 DEF AllTyped, RxTyped, Worded
    <2>4. PICK p \in Provable : Carries(k, p)
      BY <2>2 DEF ProvableIn, Carries
    <2>5. PICK q \in Provable : q \in rx.proofs
      BY <2>2, <2>3
    <2>6. p # q
      BY <2>1, <2>4, <2>5 DEF Signalled
    <2> QED BY <2>4, <2>5, <2>6 DEF Overtaken
  <1> QED BY <1>1, <1>2, <1>3, PTL DEF Spec

\* With at most one provable packet, a completed packet is always signalled: its
\* report is sent, held, or replaced by the PROOF it waits for, whatever is lost,
\* forgotten, evicted or delivered twice. With two it is not (_reconcile.py:1819):
\* the second grace takes the place of the first.
THEOREM CompletionSignalledHolds ==
  ASSUME \A p, q \in Provable : p = q
  PROVE  Spec => []CompletionSignalled
  <1>1. (\A k \in rx.done : Signalled(k) \/ Overtaken(k)) => CompletionSignalled
    BY DEF Overtaken, CompletionSignalled
  <1> QED BY <1>1, SilentOnlyIfOvertaken, PTL

-----------------------------------------------------------------------------
(* The bytes of the frames: that masks, bitmaps and text come through.     *)

Wire == INSTANCE WireFormat

\* The binary digits of a sum of weights.
LEMMA Binary ==
    ASSUME NEW c0 \in 0..1, NEW c1 \in 0..1, NEW c2 \in 0..1, NEW c3 \in 0..1,
           NEW c4 \in 0..1, NEW c5 \in 0..1, NEW c6 \in 0..1, NEW c7 \in 0..1,
           NEW b \in Nat,
           b = c0 + 2 * c1 + 4 * c2 + 8 * c3 + 16 * c4 + 32 * c5 + 64 * c6 + 128 * c7
    PROVE  /\ (b \div 1) % 2 = c0 /\ (b \div 2) % 2 = c1 /\ (b \div 4) % 2 = c2 /\ (b \div 8) % 2 = c3
           /\ (b \div 16) % 2 = c4 /\ (b \div 32) % 2 = c5 /\ (b \div 64) % 2 = c6 /\ (b \div 128) % 2 = c7
<1>1. (b \div 1) % 2 = c0
  OBVIOUS
<1>2. (b \div 2) % 2 = c1
  OBVIOUS
<1>3. (b \div 4) % 2 = c2
  OBVIOUS
<1>4. (b \div 8) % 2 = c3
  OBVIOUS
<1>5. (b \div 16) % 2 = c4
  OBVIOUS
<1>6. (b \div 32) % 2 = c5
  OBVIOUS
<1>7. (b \div 64) % 2 = c6
  OBVIOUS
<1>8. (b \div 128) % 2 = c7
  OBVIOUS
<1> QED BY <1>1, <1>2, <1>3, <1>4, <1>5, <1>6, <1>7, <1>8

\* A byte made of bits has those bits.
LEMMA ByteBits ==
    ASSUME NEW S
    PROVE  Wire!ByteOf(S) \in 0..255 /\ Wire!BitsOf(Wire!ByteOf(S)) = S \intersect (0..7)
<1>1. \A k : \E c \in 0..1 : c = 1 <=> k \in S
  OBVIOUS
<1>2. PICK c0 \in 0..1, c1 \in 0..1, c2 \in 0..1, c3 \in 0..1,
           c4 \in 0..1, c5 \in 0..1, c6 \in 0..1, c7 \in 0..1 :
        /\ (c0 = 1 <=> 0 \in S) /\ (c1 = 1 <=> 1 \in S) /\ (c2 = 1 <=> 2 \in S) /\ (c3 = 1 <=> 3 \in S)
        /\ (c4 = 1 <=> 4 \in S) /\ (c5 = 1 <=> 5 \in S) /\ (c6 = 1 <=> 6 \in S) /\ (c7 = 1 <=> 7 \in S)
  BY <1>1
<1>3. PICK b \in Nat :
        /\ b = Wire!ByteOf(S) /\ b <= 255
        /\ b = c0 + 2 * c1 + 4 * c2 + 8 * c3 + 16 * c4 + 32 * c5 + 64 * c6 + 128 * c7
  BY <1>2 DEF Wire!ByteOf
<1>4. /\ (b \div 1) % 2 = c0 /\ (b \div 2) % 2 = c1 /\ (b \div 4) % 2 = c2 /\ (b \div 8) % 2 = c3
      /\ (b \div 16) % 2 = c4 /\ (b \div 32) % 2 = c5 /\ (b \div 64) % 2 = c6 /\ (b \div 128) % 2 = c7
  BY <1>3, Binary
<1>5. \A k \in 0..7 : (b \div Wire!BitWeight[k + 1]) % 2 = 1 <=> k \in S
  BY <1>2, <1>4 DEF Wire!BitWeight
<1> QED
  BY <1>3, <1>5 DEF Wire!BitsOf

\* The have-bitmap of a word reads as the fragments it was made of, however many
\* (_completion_entries_bytes, _decode_completion_frame_v4).
THEOREM BitmapReads ==
    ASSUME NEW total \in 1..255, NEW held
    PROVE  Wire!BitmapHeld(total, Wire!Bitmap(total, held)) = held \intersect (0..total - 1)
<1>1. ASSUME NEW i \in 0..total - 1
      PROVE  i % 8 \in Wire!BitsOf(Wire!Bitmap(total, held)[i \div 8 + 1]) <=> i \in held
  <2> DEFINE j == i \div 8 + 1
             S == {k \in 0..7 : 8 * (j - 1) + k \in held \intersect (0..total - 1)}
  <2>1. j \in 1..Wire!BitmapSize(total) /\ i % 8 \in 0..7 /\ 8 * (j - 1) + (i % 8) = i
    BY DEF Wire!BitmapSize
  <2>2. Wire!Bitmap(total, held)[j] = Wire!ByteOf(S)
    BY <2>1 DEF Wire!Bitmap
  <2>3. Wire!BitsOf(Wire!ByteOf(S)) = S
    BY ByteBits
  <2>4. i % 8 \in S <=> i \in held
    BY <2>1
  <2> QED BY <2>2, <2>3, <2>4
<1> QED BY <1>1 DEF Wire!BitmapHeld

\* A mask names the first eight of the fragments it was made of, and no other.
THEOREM MaskReads ==
    ASSUME NEW total \in 1..255, NEW idxs \in SUBSET (0..total - 1)
    PROVE  Wire!MaskNames(Wire!ParityMask(idxs), total) = idxs \intersect (0..7)
BY ByteBits DEF Wire!MaskNames, Wire!ParityMask

\* What RawTransfer says a parity frame covers is what the byte it is sent with
\* names, with fragments counted from 0 (_encode_raw_parity; _reconcile.py 936-972).
THEOREM CoveredIsTheMask ==
    ASSUME NEW x, NEW f, f[1] \in Packets, IsParity(f), MaskWidth = 8
    PROVE  Covered(x, f) =
            {i + 1 : i \in Wire!MaskNames(Wire!ParityMask({j - 1 : j \in Summed(x, f)}), Frags[f[1]])}
<1> DEFINE total == Frags[f[1]]
           idxs == {j - 1 : j \in Summed(x, f)}
<1>1. total \in 1..255
  BY SizeAssumption
<1>2. Summed(x, f) \subseteq 1..total
  BY DEF Summed, Missing
<1>3. idxs \in SUBSET (0..total - 1)
  BY <1>1, <1>2
<1>4. Wire!MaskNames(Wire!ParityMask(idxs), total) = idxs \intersect (0..7)
  BY <1>1, <1>3, MaskReads
<1>5. Covered(x, f) = Summed(x, f) \intersect (1..8)
  BY DEF Covered
<1>6. Summed(x, f) \intersect (1..8) = {i + 1 : i \in idxs \intersect (0..7)}
  <2>1. ASSUME NEW y \in Summed(x, f), y \in 1..8
        PROVE  y \in {i + 1 : i \in idxs \intersect (0..7)}
    <3>1. y - 1 \in idxs \intersect (0..7) /\ (y - 1) + 1 = y
      BY <2>1
    <3> QED BY <3>1
  <2>2. ASSUME NEW i \in idxs, i \in 0..7
        PROVE  i + 1 \in Summed(x, f) /\ i + 1 \in 1..8
    <3>1. PICK j \in Summed(x, f) : i = j - 1
      BY <2>2
    <3> QED BY <1>1, <1>2, <2>2, <3>1
  <2> QED BY <2>1, <2>2
<1> QED BY <1>4, <1>5, <1>6

\* The five digits of a number of four bytes are its own.
LEMMA DigitsRead ==
    ASSUME NEW v \in Nat, v < 65536 * 65536
    PROVE  /\ \A i \in 1..5 : Wire!Z85Digits(v)[i] \in 0..84
           /\ Wire!Z85Value(Wire!Z85Digits(v)) = v
<1>1. PICK v1 \in Nat, r1 \in 0..84 :
        v \div 85 = v1 /\ v % 85 = r1 /\ v = 85 * v1 + r1 /\ v1 * 85 <= v
  OBVIOUS
<1>2. PICK v2 \in Nat, r2 \in 0..84 : v1 \div 85 = v2 /\ v1 % 85 = r2 /\ v1 = 85 * v2 + r2
  OBVIOUS
<1>3. PICK v3 \in Nat, r3 \in 0..84 : v2 \div 85 = v3 /\ v2 % 85 = r3 /\ v2 = 85 * v3 + r3
  OBVIOUS
<1>4. PICK v4 \in Nat, r4 \in 0..84 : v3 \div 85 = v4 /\ v3 % 85 = r4 /\ v3 = 85 * v4 + r4
  OBVIOUS
<1>5. v4 \in 0..84 /\ v4 % 85 = v4
  BY <1>1, <1>2, <1>3, <1>4
<1>6. Wire!Z85Digits(v) = <<v4, r4, r3, r2, r1>>
  BY <1>1, <1>2, <1>3, <1>4, <1>5 DEF Wire!Z85Digits
<1>7. Wire!Z85Value(<<v4, r4, r3, r2, r1>>) = v
  BY <1>1, <1>2, <1>3, <1>4 DEF Wire!Z85Value
<1> QED BY <1>5, <1>6, <1>7

\* Quotient and remainder.
LEMMA Euclid ==
    ASSUME NEW q \in Nat, NEW r \in Nat, r < 256
    PROVE  (256 * q + r) \div 256 = q /\ (256 * q + r) % 256 = r
OBVIOUS

\* The four bytes of a group are those its number was made of.
LEMMA BytesRead ==
    ASSUME NEW b \in [1..4 -> 0..255]
    PROVE  /\ Wire!GroupValue(b) \in Nat /\ Wire!GroupValue(b) < 65536 * 65536
           /\ Wire!GroupBytes(Wire!GroupValue(b)) = <<b[1], b[2], b[3], b[4]>>
<1>1. \A i \in 1..4 : b[i] \in Nat /\ b[i] < 256
  OBVIOUS
<1>2. PICK b1 \in Nat, b2 \in Nat, b3 \in Nat, b4 \in Nat :
        /\ b1 = b[1] /\ b2 = b[2] /\ b3 = b[3] /\ b4 = b[4]
        /\ b1 < 256 /\ b2 < 256 /\ b3 < 256 /\ b4 < 256
  BY <1>1
<1>3. PICK h2 \in Nat : h2 = 256 * b1 + b2 /\ h2 < 65536
  BY <1>2
<1>4. PICK h3 \in Nat : h3 = 256 * h2 + b3 /\ h3 < 256 * 65536
  BY <1>2, <1>3
<1>5. PICK v \in Nat : v = 256 * h3 + b4 /\ v < 65536 * 65536
  BY <1>2, <1>4
<1>6. v = Wire!GroupValue(b)
  BY <1>2, <1>3, <1>4, <1>5 DEF Wire!GroupValue
<1>7. v \div 256 = h3 /\ v % 256 = b4
  BY <1>2, <1>5, Euclid
<1>8. h3 \div 256 = h2 /\ h3 % 256 = b3
  BY <1>2, <1>4, Euclid
<1>9. h2 \div 256 = b1 /\ h2 % 256 = b2
  <2>1. (256 * b1 + b2) \div 256 = b1 /\ (256 * b1 + b2) % 256 = b2
    BY <1>2, Euclid
  <2> QED BY <1>2, <1>3, <2>1
<1>10. /\ Wire!GroupBytes(v)[1] = b1 /\ Wire!GroupBytes(v)[2] = b2
       /\ Wire!GroupBytes(v)[3] = b3 /\ Wire!GroupBytes(v)[4] = b4
  BY <1>7, <1>8, <1>9 DEF Wire!GroupBytes
<1>11. Wire!GroupBytes(v) = <<b1, b2, b3, b4>>
  BY <1>10 DEF Wire!GroupBytes
<1> QED BY <1>2, <1>5, <1>6, <1>11

\* Four bytes come back from their five characters, and none of the five is
\* beyond the alphabet, nor the five beyond four bytes (_z85_encode, _z85_decode).
THEOREM Z85GroupReads ==
    ASSUME NEW b \in [1..4 -> 0..255], NEW d, d = Wire!Z85Digits(Wire!GroupValue(b))
    PROVE  /\ \A i \in 1..5 : d[i] \in 0..84
           /\ Wire!Z85Value(d) \div 65536 <= 65535
           /\ Wire!GroupBytes(Wire!Z85Value(d)) = <<b[1], b[2], b[3], b[4]>>
<1>1. /\ Wire!GroupValue(b) \in Nat /\ Wire!GroupValue(b) < 65536 * 65536
      /\ Wire!GroupBytes(Wire!GroupValue(b)) = <<b[1], b[2], b[3], b[4]>>
  BY BytesRead
<1>2. (\A i \in 1..5 : d[i] \in 0..84) /\ Wire!Z85Value(d) = Wire!GroupValue(b)
  BY <1>1, DigitsRead
<1>3. Wire!GroupValue(b) \div 65536 <= 65535
  BY <1>1
<1> QED BY <1>1, <1>2, <1>3

\* A payload within its budget makes a text within the firmware's limit, whatever
\* header and limit (_payload_budget).
THEOREM BudgetFits ==
    ASSUME NEW limit \in Nat, NEW header \in Nat, NEW n \in Nat \ {0},
           n <= Wire!PayloadBudget(limit, header)
    PROVE  Wire!TextChars(header + n) <= limit
<1>1. header + n + 4 <= ((limit - 2) \div 5) * 4
  BY DEF Wire!PayloadBudget, Wire!Larger, Wire!PayloadMargin
<1>2. Wire!Z85Pad(header + n) \in 0..3 /\ (header + n + Wire!Z85Pad(header + n)) \div 4 <= (limit - 2) \div 5
  BY <1>1 DEF Wire!Z85Pad
<1>3. 5 * ((limit - 2) \div 5) <= limit - 2
  OBVIOUS
<1> QED BY <1>2, <1>3 DEF Wire!TextChars
-----------------------------------------------------------------------------
(* Spacings, holds and waits. *)

Time == INSTANCE Timing

\* The proof that stands in for a report is keyed within the report wait of its
\* sender, for any fragment of up to 1.25 s on up to six hops, whatever was
\* measured of the peer (_proof_tail_hold_s, _completion_report_wait_s).
THEOREM ProofTailFitsReportWait ==
    ASSUME NEW hops \in 1..6, NEW airtime \in 1..1250, NEW hold, hold.on \in BOOLEAN, hold.max \in Nat,
           NEW latency, Time!Measured(latency), NEW query, Time!Measured(query), NEW firmware \in Int
    PROVE  Time!ReportHold(Time!RawShipped, hops, airtime, FALSE)
            < Time!ReportWait(Time!ReportShipped, hops, latency,
                  Time!QueryTimeout(Time!CheckShipped, hold, hops, query, firmware))
<1> DEFINE budget == Time!QueryTimeout(Time!CheckShipped, hold, hops, query, firmware)
           wait == Time!ReportWait(Time!ReportShipped, hops, latency, budget)
           tail == Time!ReportHold(Time!RawShipped, hops, airtime, FALSE)
<1> SUFFICES tail < wait
  BY ZenonT(60)
<1>1. PICK far \in Nat : far = hops * airtime /\ far <= 1250 * hops
  OBVIOUS
<1>2. PICK half \in Nat : half = airtime \div 2 /\ 2 * half <= airtime
  OBVIOUS
<1>3. tail \in Int /\ tail <= 2500 * hops + 1875
  <2>1. (1 + 2 * hops) * airtime = airtime + 2 * far
    BY <1>1
  <2>2. Time!Gap(Time!RawShipped, hops, airtime) = airtime + 2 * far
    BY <1>1, <2>1 DEF Time!Gap, Time!RawShipped, Time!Positive, Time!Most
  <2>3. tail = airtime + 2 * far + half
    BY <1>2, <2>2 DEF Time!ReportHold
  <2> HIDE DEF tail
  <2> QED BY <1>1, <1>2, <2>3
<1>4. budget \in Int /\ budget >= 2500 * hops + 3000
  <2> DEFINE cap == Time!Most(5000, Time!QueryCap(Time!CheckShipped, hops))
             floor == Time!Least(5000 + 2500 * hops, cap)
             m == IF query # <<>> THEN 2 * (query[1].srtt + 4 * query[1].rttvar)
                     ELSE IF firmware # Time!Absent THEN 2 * firmware ELSE floor
             e == m + (IF hold.on THEN hold.max ELSE 0)
  <2>1. cap \in Int /\ cap >= 15000 /\ (hops >= 2 => cap = 18000)
    BY DEF Time!Most, Time!QueryCap, Time!CheckShipped
  <2>2. floor \in Int /\ floor <= cap /\ floor >= 2500 * hops + 3000
    BY <2>1 DEF Time!Least
  <2>3. m \in Int
    BY <2>2 DEF Time!Measured
  <2>4. e \in Int
    BY <2>3
  <2>5. budget = Time!Least(Time!Most(e, floor), cap)
    BY DEF Time!QueryTimeout, Time!CheckShipped, Time!Positive, Time!Most
  <2> HIDE DEF cap, floor, e
  <2> QED BY <2>1, <2>2, <2>4, <2>5 DEF Time!Least, Time!Most
<1>5. wait \in Int /\ wait >= 2500 * hops + 3000
  <2> DEFINE sized == 4000 + 2500 * hops
             grown == IF latency = <<>> THEN sized ELSE Time!Most(sized, latency[1].srtt + 2 * latency[1].rttvar)
  <2>1. grown \in Int /\ grown >= sized
    BY DEF Time!Measured, Time!Most
  <2>2. wait = Time!Positive(Time!Least(budget, grown))
    BY DEF Time!ReportWait, Time!ReportShipped, Time!Positive, Time!Most
  <2> HIDE DEF budget, grown
  <2> QED BY <1>4, <2>1, <2>2 DEF Time!Positive, Time!Most, Time!Least
<1> HIDE DEF wait, tail
<1> QED BY <1>3, <1>5

\* The hold of a burst still arriving outlasts the next fragment, however many
\* hops away, if that is at most two and a half times as long as the one that
\* made the report due (_report_hold_s).
THEOREM HoldOutlastsNext ==
    ASSUME NEW raw, raw.hopGapFactor = 2, raw.gapOwnAirtime, raw.zeroHopGap \in Nat,
           NEW hops \in Nat, NEW airtime \in Nat, NEW next \in Nat, airtime <= next, 2 * next <= 5 * airtime
    PROVE  Time!ArrivalGap(raw, hops, airtime, next) <= Time!ReportHold(raw, hops, airtime, TRUE)
<1>1. CASE hops = 0
  <2>1. PICK half \in Nat : half = airtime \div 2 /\ airtime <= 2 * half + 1
    OBVIOUS
  <2> QED BY <1>1, <2>1 DEF Time!ArrivalGap, Time!ReportHold, Time!Gap, Time!Positive, Time!Most
<1>2. CASE hops > 0
  <2> DEFINE far == hops * airtime
             more == hops * (next - airtime)
  <2>1. far \in Nat /\ more \in Nat
    OBVIOUS
  <2>2. 2 * more <= 3 * far
    <3>1. 2 * (next - airtime) <= 3 * airtime
      OBVIOUS
    <3>2. \A a, b \in Int : a <= b => hops * a <= hops * b
      OBVIOUS
    <3>3. hops * (2 * (next - airtime)) <= hops * (3 * airtime)
      BY <3>1, <3>2
    <3> QED BY <3>3
  <2>3. Time!Gap(raw, hops, airtime) = airtime + 2 * far
    <3>1. (1 + 2 * hops) * airtime = airtime + 2 * far
      OBVIOUS
    <3> QED BY <1>2, <2>1, <3>1 DEF Time!Gap, Time!Positive, Time!Most
  <2>4. (1 + hops) * (next - airtime) = (next - airtime) + more
    OBVIOUS
  <2>5. Time!ArrivalGap(raw, hops, airtime, next) = airtime + 2 * far + (next - airtime) + more
    BY <1>2, <2>1, <2>3, <2>4 DEF Time!ArrivalGap
  <2>6. Time!ReportHold(raw, hops, airtime, TRUE) = 2 * (airtime + 2 * far) + airtime \div 2
    BY <1>2, <2>3 DEF Time!ReportHold
  <2>7. PICK half \in Nat : half = airtime \div 2 /\ airtime <= 2 * half + 1
    OBVIOUS
  <2> HIDE DEF far, more
  <2>8. airtime + 2 * far + (next - airtime) + more <= 2 * (airtime + 2 * far) + half
    BY <2>1, <2>2, <2>7
  <2> QED BY <2>5, <2>6, <2>7, <2>8
<1>3. hops = 0 \/ hops > 0
  OBVIOUS
<1> QED BY <1>1, <1>2, <1>3

\* When a zero-hop burst hands over its next frame, the radio has no more of it
\* left to send than the frames allowed ahead (_raw_burst_next_send_wait_s).
THEOREM QueueStaysShort ==
    ASSUME NEW raw, raw.burstQueueAhead \in Nat \ {0}, raw.zeroHopGap \in Nat,
           NEW airtime \in Nat, NEW before \in Int, NEW start \in Int,
           NEW busy, busy = Time!RadioKeyed(before, start, airtime),
           NEW now, now = start + Time!NextSendWait(raw, 0, Time!Gap(raw, 0, airtime), airtime, start, busy)
    PROVE  busy - now <= raw.burstQueueAhead * airtime
<1> DEFINE ahead == raw.burstQueueAhead * airtime
<1>1. ahead \in Nat /\ Time!Positive(airtime) = airtime
  BY DEF Time!Positive, Time!Most
<1>2. busy \in Int
  BY DEF Time!RadioKeyed, Time!Positive, Time!Most
<1>3. Time!NextSendWait(raw, 0, Time!Gap(raw, 0, airtime), airtime, start, busy)
        = Time!Most(Time!Positive(Time!Gap(raw, 0, airtime)), busy - ahead - start)
  BY <1>1 DEF Time!NextSendWait
<1>4. Time!Positive(Time!Gap(raw, 0, airtime)) \in Nat
  BY DEF Time!Gap, Time!Positive, Time!Most
<1> HIDE DEF ahead
<1>5. busy - now <= ahead
  BY <1>1, <1>2, <1>3, <1>4 DEF Time!Most
<1> QED BY <1>5 DEF ahead
=============================================================================
