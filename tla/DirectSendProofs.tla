--------------------------- MODULE DirectSendProofs ---------------------------
(***************************************************************************)
(* Proofs about DirectSend, for any sends, peers, keys and budgets.        *)
(*                                                                         *)
(* The invariant joins three parts.  LockOK:  who is on the radio owns it, *)
(* and only who waits in line wants it.  SignalOK: what the tables of      *)
(* answered sends say was said by somebody.  LoopOK: what an attempt       *)
(* remembers of its event is still so.                                     *)
(***************************************************************************)
EXTENDS DirectSend, Integers, Sequences, TLAPS

LockOK ==
    /\ \A s \in Sends : pc[s] \in OnRadio => owner = s
    /\ \A s \in Sends : want[s] # None => pc[s] = "lock" /\ owner # s

\* Events belong to keys.
EventOK ==
    /\ \A k \in Keys : table[k] # None => Key[table[k]] = k
    /\ \A s \in Sends : ev[s] # None =>
          /\ Key[s] \in Keys /\ Key[ev[s]] = Key[s]
          /\ Key[s] \notin swept => table[Key[s]] = ev[s]

\* What is known of a key: an event is set only of a key that was told, and, until
\* the key is swept, of every key that was told.
ToldOK ==
    /\ \A s \in raised : Key[s] \in told
    /\ \A k \in Keys : how[k] # None => k \in told
    /\ \A k \in told \ swept : how[k] # None /\ (table[k] # None => table[k] \in raised)

\* Answers are somebody's.
AnswerOK ==
    \A k \in Keys :
        /\ how[k] # None <=> answeredBy[k] # None
        /\ how[k] = "answered" => \E p \in Peers \union {Anon} : <<k, p>> \in replied
        /\ answeredBy[k] \in Peers => <<k, answeredBy[k]>> \in replied

SignalOK == EventOK /\ ToldOK /\ AnswerOK

LoopOKOf(s) ==
    /\ outcome[s] = "answered" => Key[s] # None /\ ev[s] \in raised
    /\ pc[s] \in OnRadio \union {"lock"} /\ Key[s] # None => ev[s] # None
    /\ late[s] > 0 => Key[s] \in told
    /\ Key[s] \notin swept => late[s] <= 1 /\ (late[s] = 1 => pc[s] \in {"ack", "listen"})
    /\ s \in noted => pc[s] = "done"

LoopOK == \A s \in Sends : LoopOKOf(s)

Inv == TypeOK /\ LockOK /\ SignalOK /\ LoopOK

-----------------------------------------------------------------------------
\* The radio lock.

\* A send that leaves the loop takes nothing of the lock with it.
LEMMA EndLock ==
    ASSUME NEW s \in Sends, LoopTypes, LockOK, At(s, "done"), Leave(s)
    PROVE  owner' \in Sends \union {None} /\ want' \in [Sends -> 0..3 \union {None}] /\ LockOK'
  <1>. USE NobodyAssumption DEF LoopTypes, LockOK, OnRadio, States, At
  <1>1. CASE owner = s /\ Lock!Drop
    BY <1>1 DEF Lock!Drop, Lock!Waiting
  <1>2. CASE owner = s /\ \E u \in Sends : Lock!Pass(u)
    BY <1>2 DEF Lock!Pass, Lock!MostUrgent, Lock!Waiting
  <1>3. CASE owner # s /\ want[s] # None /\ Lock!Leave(s)
    BY <1>3 DEF Lock!Leave
  <1>4. CASE owner # s /\ want[s] = None /\ UNCHANGED lock
    BY <1>4 DEF lock
  <1>. QED  BY <1>1, <1>2, <1>3, <1>4 DEF Leave

\* A send that asks for the radio has it or waits for it.
LEMMA EnterLock ==
    ASSUME NEW s \in Sends, LoopTypes, LockOK, Enter(s)
    PROVE  /\ owner' \in Sends \union {None} /\ want' \in [Sends -> 0..3 \union {None}] /\ LockOK'
           /\ pc' = [pc EXCEPT ![s] = "gate"] \/ pc' = [pc EXCEPT ![s] = "lock"]
  <1>. USE NobodyAssumption, SendAssumption DEF LoopTypes, LockOK, OnRadio, States, At
  <1>0. Tier[s] \in 0..3 /\ Tier[s] # None
    OBVIOUS
  <1>1. CASE owner = s /\ Lock!Waiting = {} /\ UNCHANGED lock /\ At(s, "gate")
    BY <1>1 DEF lock
  <1>2. CASE owner = s /\ (\E u \in Sends : Lock!Lend(u, Tier[s])) /\ At(s, "lock")
    BY <1>0, <1>2 DEF Lock!Lend, Lock!MostUrgent, Lock!Waiting
  <1>3. CASE owner # s /\ Lock!Take(s) /\ At(s, "gate")
    BY <1>3 DEF Lock!Take, Lock!Waiting
  <1>4. CASE owner # s /\ Lock!Join(s, Tier[s]) /\ At(s, "lock")
    BY <1>0, <1>4 DEF Lock!Join
  <1>. QED  BY <1>1, <1>2, <1>3, <1>4 DEF Enter

-----------------------------------------------------------------------------
\* The loop.

LEMMA EndOK ==
    ASSUME NEW s \in Sends, NEW v \in Verdicts, LoopTypes, LockOK, End(s, v)
    PROVE  LoopTypes' /\ LockOK'
  <1>1. owner' \in Sends \union {None} /\ want' \in [Sends -> 0..3 \union {None}] /\ LockOK'
    BY EndLock DEF End
  <1>2. pc' \in [Sends -> States] /\ outcome' \in [Sends -> Outcomes]
    BY DEF LoopTypes, End, At, States, Outcomes
  <1>3. verdict' \in [Sends -> Verdicts] /\ attempt' \in [Sends -> Nat] /\ late' \in [Sends -> Nat]
    BY DEF LoopTypes, End
  <1>4. \A t \in Sends : attempt'[t] < Attempts[t]
    <2>1. \A t \in Sends : Attempts[t] \in Nat /\ 0 < Attempts[t]
      BY SendAssumption
    <2>. QED  BY <2>1 DEF LoopTypes, End
  <1>. QED  BY <1>1, <1>2, <1>3, <1>4 DEF LoopTypes

LEMMA GoOnOK ==
    ASSUME NEW s \in Sends, NEW a \in Nat, a < Attempts[s], LoopTypes, LockOK, GoOn(s, a)
    PROVE  LoopTypes' /\ LockOK'
  <1>1. /\ owner' \in Sends \union {None} /\ want' \in [Sends -> 0..3 \union {None}] /\ LockOK'
        /\ pc' = [pc EXCEPT ![s] = "gate"] \/ pc' = [pc EXCEPT ![s] = "lock"]
    BY EnterLock DEF GoOn
  <1>2. pc' \in [Sends -> States] /\ outcome' \in [Sends -> Outcomes]
    BY <1>1 DEF LoopTypes, GoOn, States, Outcomes
  <1>3. verdict' \in [Sends -> Verdicts] /\ attempt' \in [Sends -> Nat] /\ late' \in [Sends -> Nat]
    BY DEF LoopTypes, GoOn
  <1>4. \A t \in Sends : attempt'[t] < Attempts[t]
    BY DEF LoopTypes, GoOn
  <1>. QED  BY <1>1, <1>2, <1>3, <1>4 DEF LoopTypes

\* The head of the loop ends it, or goes on with attempt a.
LEMMA TryCases ==
    ASSUME NEW s \in Sends, NEW a \in Nat, NEW set \in BOOLEAN, Try(s, a, set)
    PROVE  \/ \E v \in Verdicts : End(s, v)
           \/ ~set /\ GoOn(s, a)
  BY DEF Try, EndTrue, Verdicts

LEMMA TryOK ==
    ASSUME NEW s \in Sends, NEW a \in Nat, a < Attempts[s], NEW set \in BOOLEAN, LoopTypes, LockOK,
           Try(s, a, set)
    PROVE  LoopTypes' /\ LockOK'
  BY TryCases, EndOK, GoOnOK

\* A step of the loop that moves s alone and leaves the lock alone.
LEMMA StepOK ==
    ASSUME NEW s \in Sends, NEW p \in States, NEW o \in Outcomes, NEW n \in Nat, LoopTypes, LockOK,
           p \in OnRadio => owner = s, want[s] = None,
           pc' = [pc EXCEPT ![s] = p], outcome' = [outcome EXCEPT ![s] = o],
           late' = [late EXCEPT ![s] = n], UNCHANGED <<attempt, verdict, lock>>
    PROVE  LoopTypes' /\ LockOK'
  <1>1. LoopTypes'
    BY DEF LoopTypes, lock
  <1>2. LockOK'
    BY DEF LoopTypes, LockOK, lock
  <1>. QED  BY <1>1, <1>2

-----------------------------------------------------------------------------
\* What the loops remember.

\* Telling and sweeping take nothing from what the loops remember, nor does a step
\* of s from what the others do.
LEMMA LoopGrows ==
    ASSUME NEW s \in Sends, LoopOK, told \subseteq told', raised \subseteq raised',
           swept \subseteq swept', noted' \subseteq noted \union {s},
           \A t \in Sends \ {s} : /\ pc'[t] = pc[t] /\ outcome'[t] = outcome[t]
                                  /\ late'[t] = late[t] /\ ev'[t] = ev[t],
           LoopOKOf(s)'
    PROVE  LoopOK'
  <1>. SUFFICES ASSUME NEW t \in Sends, t # s PROVE LoopOKOf(t)'
    BY DEF LoopOK
  <1>. QED  BY DEF LoopOK, LoopOKOf

LEMMA EndKeeps ==
    ASSUME NEW s \in Sends, NEW v \in Verdicts, LoopTypes, LoopOK, End(s, v),
           told' = told, raised \subseteq raised', swept' = swept,
           noted' \subseteq noted \union {s}, \A t \in Sends \ {s} : ev'[t] = ev[t]
    PROVE  LoopOK'
  <1>1. LoopOKOf(s)'
    BY DEF LoopTypes, LoopOKOf, End, At, OnRadio
  <1>2. \A t \in Sends \ {s} : pc'[t] = pc[t] /\ outcome'[t] = outcome[t] /\ late'[t] = late[t]
    BY DEF LoopTypes, End, At
  <1>. QED  BY <1>1, <1>2, LoopGrows

LEMMA GoOnKeeps ==
    ASSUME NEW s \in Sends, NEW a \in Nat, LoopTypes, LockOK, LoopOK, GoOn(s, a),
           pc[s] # "done", Key[s] \notin swept => late[s] = 0, Key[s] # None => ev'[s] # None,
           told' = told, raised \subseteq raised', swept' = swept, noted' = noted,
           \A t \in Sends \ {s} : ev'[t] = ev[t]
    PROVE  LoopOK'
  <1>1. pc' = [pc EXCEPT ![s] = "gate"] \/ pc' = [pc EXCEPT ![s] = "lock"]
    BY EnterLock DEF GoOn
  <1>2. LoopOKOf(s)'
    BY <1>1 DEF LoopTypes, LoopOK, LoopOKOf, GoOn, OnRadio
  <1>3. \A t \in Sends \ {s} : pc'[t] = pc[t] /\ outcome'[t] = outcome[t] /\ late'[t] = late[t]
    BY <1>1 DEF LoopTypes, GoOn
  <1>. QED  BY <1>2, <1>3, LoopGrows

\* A send that watches an event that is not set has had no late frame: the event
\* of a key that was told is set, until it is swept.
LEMMA UnsetMeansTimely ==
    ASSUME NEW s \in Sends, TypeOK, SignalOK, LoopOK, pc[s] \in OnRadio, ~Answered(s),
           Key[s] \notin swept
    PROVE  late[s] = 0
  <1>1. SUFFICES ASSUME late[s] > 0 PROVE FALSE
    BY DEF TypeOK, LoopTypes
  <1>2. Key[s] \in told /\ Key[s] \in Keys /\ Key[s] # None
    BY <1>1, NobodyAssumption DEF LoopOK, LoopOKOf, TypeOK, SignalTypes
  <1>3. ev[s] # None /\ table[Key[s]] = ev[s]
    BY <1>2 DEF LoopOK, LoopOKOf, SignalOK, EventOK
  <1>4. ev[s] \in raised
    BY <1>2, <1>3 DEF SignalOK, ToldOK
  <1>. QED  BY <1>2, <1>4 DEF Answered

LEMMA TryKeeps ==
    ASSUME NEW s \in Sends, NEW a \in Nat, NEW set \in BOOLEAN, LoopTypes, LockOK, LoopOK,
           Try(s, a, set), pc[s] # "done", ~set /\ Key[s] \notin swept => late[s] = 0,
           Key[s] # None => ev'[s] # None,
           told' = told, raised \subseteq raised', swept' = swept, noted' = noted,
           \A t \in Sends \ {s} : ev'[t] = ev[t]
    PROVE  LoopOK'
  BY TryCases, EndKeeps, GoOnKeeps
-----------------------------------------------------------------------------
\* The signals.

\* _signal_send_answered tells the truth if its caller does.
LEMMA SignalKeeps ==
    ASSUME NEW S \in SUBSET Keys, NEW by \in Peers \union {Anon},
           NEW word \in {"answered", "superseded"}, SignalTypes, SignalOK,
           Signal(S, by, word), UNCHANGED <<table, ev, swept>>,
           replied \subseteq replied', replied' \subseteq Keys \X (Peers \union {Anon}),
           word = "answered" => \A k \in S : <<k, by>> \in replied',
           word = "superseded" => by = Anon
    PROVE  SignalTypes' /\ SignalOK'
  <1>. DEFINE fresh == {table[k] : k \in S} \ (raised \union {None})
  <1>0. /\ word # None /\ by # None /\ None \notin Sends
        /\ fresh \subseteq Sends
        /\ raised' = raised \union fresh
        /\ cut' = IF word = "superseded" THEN cut \union fresh ELSE cut
        /\ told' = told \union S
    BY NobodyAssumption DEF Signal, SignalTypes
  <1>1. SignalTypes'
    BY <1>0 DEF SignalTypes, Signal
  <1>2. EventOK'
    BY DEF SignalOK, EventOK
  <1>3. ToldOK'
    <2>1. \A s \in fresh : Key[s] \in S
      BY DEF SignalOK, EventOK, SignalTypes
    <2>2. \A s \in raised' : Key[s] \in told'
      BY <1>0, <2>1 DEF SignalOK, ToldOK
    <2>3. \A k \in Keys : how'[k] # None => k \in told'
      BY <1>0 DEF SignalOK, ToldOK, Signal
    <2>4. ASSUME NEW k \in told' \ swept' PROVE how'[k] # None /\ (table'[k] # None => table'[k] \in raised')
      <3>1. k \in Keys
        BY <1>0 DEF SignalTypes
      <3>2. CASE k \in S
        BY <1>0, <3>1, <3>2 DEF Signal
      <3>3. CASE k \notin S
        BY <1>0, <3>1, <3>3 DEF Signal, SignalOK, ToldOK
      <3>. QED  BY <3>2, <3>3
    <2>. QED  BY <2>2, <2>3, <2>4 DEF ToldOK
  <1>4. AnswerOK'
    <2>. SUFFICES ASSUME NEW k \in Keys
                  PROVE  /\ how'[k] # None <=> answeredBy'[k] # None
                         /\ how'[k] = "answered" => \E p \in Peers \union {Anon} : <<k, p>> \in replied'
                         /\ answeredBy'[k] \in Peers => <<k, answeredBy'[k]>> \in replied'
      BY DEF AnswerOK
    <2>1. CASE k \in S
      BY <1>0, <2>1, NobodyAssumption DEF Signal
    <2>2. CASE k \notin S
      BY <2>2 DEF Signal, SignalOK, AnswerOK
    <2>. QED  BY <2>1, <2>2
  <1>. QED  BY <1>1, <1>2, <1>3, <1>4 DEF SignalOK

\* _answered_send_event: an event made late is set if its key was told.
LEMMA StartKeeps ==
    ASSUME NEW s \in Sends, NEW k \in Keys, Key[s] = k, SignalTypes, SignalOK, NEW e,
           NEW new \in BOOLEAN, new = (table[k] = None), e = (IF new THEN s ELSE table[k]),
           table' = [table EXCEPT ![k] = e], ev' = [ev EXCEPT ![s] = e],
           raised' = With(raised, s, new /\ answeredBy[k] # None),
           cut' = With(cut, s, new /\ how[k] = "superseded"),
           UNCHANGED <<answeredBy, how, told, replied, swept>>
    PROVE  SignalTypes' /\ SignalOK' /\ e \in Sends /\ Key[e] = k
  <1>0. e \in Sends /\ Key[e] = k /\ None \notin Sends
    BY NobodyAssumption DEF SignalTypes, SignalOK, EventOK
  <1>1. SignalTypes'
    <2>1. how[k] = "superseded" => answeredBy[k] # None
      BY NobodyAssumption DEF SignalOK, AnswerOK
    <2>. QED  BY <1>0, <2>1 DEF SignalTypes, With
  <1>2. EventOK'
    <2>1. \A j \in Keys : table'[j] # None => Key[table'[j]] = j
      BY <1>0 DEF SignalTypes, SignalOK, EventOK
    <2>2. ASSUME NEW t \in Sends, ev'[t] # None
          PROVE  /\ Key[t] \in Keys /\ Key[ev'[t]] = Key[t]
                 /\ Key[t] \notin swept => table'[Key[t]] = ev'[t]
      <3>1. CASE t = s
        BY <1>0, <3>1 DEF SignalTypes
      <3>2. CASE t # s
        BY <1>0, <2>2, <3>2 DEF SignalTypes, SignalOK, EventOK
      <3>. QED  BY <3>1, <3>2
    <2>. QED  BY <2>1, <2>2 DEF EventOK
  <1>3. ToldOK'
    <2>1. answeredBy[k] # None <=> k \in told /\ how[k] # None
      BY DEF SignalOK, AnswerOK, ToldOK
    <2>2. \A t \in raised' : Key[t] \in told'
      BY <2>1 DEF SignalOK, ToldOK, With
    <2>3. ASSUME NEW j \in told \ swept, table'[j] # None PROVE table'[j] \in raised'
      <3>1. CASE j = k
        BY <1>0, <2>1, <2>3, <3>1 DEF SignalTypes, SignalOK, ToldOK, With
      <3>2. CASE j # k
        BY <2>3, <3>2 DEF SignalTypes, SignalOK, ToldOK, With
      <3>. QED  BY <3>1, <3>2
    <2>. QED  BY <2>2, <2>3 DEF SignalOK, ToldOK
  <1>4. AnswerOK'
    BY DEF SignalOK, AnswerOK
  <1>. QED  BY <1>0, <1>1, <1>2, <1>3, <1>4 DEF SignalOK
-----------------------------------------------------------------------------
\* The steps of a send.

\* What a task outside the lock's queue knows: it is not wanted there.
LEMMA Served ==
    ASSUME NEW s \in Sends, LockOK, pc[s] \in OnRadio \union {"idle", "delay"} \/ owner = s
    PROVE  want[s] = None
  BY DEF LockOK, OnRadio

\* A step that ends an attempt, or a wait in it, as outcome o.
LEMMA CloseKeeps ==
    ASSUME NEW s \in Sends, NEW o \in Outcomes, Inv, pc[s] \in {"gate", "ack"}, Close(s, o),
           UNCHANGED <<lock, signals, swept, noted>>, Air(s) \/ late' = late,
           o = "answered" => Answered(s), pc[s] = "ack" => late' = late
    PROVE  LoopTypes' /\ LockOK' /\ LoopOK'
  <1>0. owner = s /\ want[s] = None /\ late[s] \in Nat
    BY Served DEF Inv, LockOK, OnRadio, TypeOK, LoopTypes
  <1>1. PICK n \in Nat : /\ late' = [late EXCEPT ![s] = n]
                         /\ \/ n = late[s]
                            \/ n = late[s] + 1 /\ Key[s] \in told /\ pc[s] = "gate"
    <2>1. \/ late' = [late EXCEPT ![s] = late[s]]
          \/ /\ late' = [late EXCEPT ![s] = late[s] + 1]
             /\ Key[s] \in told /\ pc[s] = "gate"
      <3>0. late = [late EXCEPT ![s] = late[s]]
        <4>1. late \in [Sends -> Nat]
          BY DEF Inv, TypeOK, LoopTypes
        <4>. QED  BY <4>1
      <3>1. CASE late' = late
        BY <3>0, <3>1
      <3>2. CASE Air(s) /\ pc[s] = "gate" /\ Key[s] \in told
        BY <3>2 DEF Air
      <3>3. CASE Air(s) /\ pc[s] = "gate" /\ Key[s] \notin told
        <4>1. late' = [late EXCEPT ![s] = late[s]]
          BY <3>3 DEF Air
        <4>. QED  BY <4>1
      <3>. QED  BY <3>1, <3>2, <3>3
    <2>2. late[s] + 1 \in Nat
      BY <1>0
    <2>. QED  BY <1>0, <2>1, <2>2
  <1>2. LoopTypes' /\ LockOK'
    BY <1>0, <1>1, StepOK DEF Close, At, Inv, TypeOK, States
  <1>3. LoopOKOf(s)'
    BY <1>1 DEF Inv, TypeOK, LoopTypes, LoopOK, LoopOKOf, Close, At, Answered, signals, OnRadio
  <1>4. \A t \in Sends \ {s} : /\ pc'[t] = pc[t] /\ outcome'[t] = outcome[t]
                               /\ late'[t] = late[t] /\ ev'[t] = ev[t]
    BY <1>1 DEF Inv, TypeOK, LoopTypes, Close, At, signals
  <1>. QED  BY <1>2, <1>3, <1>4, LoopGrows DEF Inv, signals

\* A step that moves s on, and nothing else.
LEMMA MoveKeeps ==
    ASSUME NEW s \in Sends, NEW p \in States, Inv, At(s, p), pc[s] # "done",
           p \in OnRadio => owner = s, want[s] = None,
           p \in OnRadio \union {"lock"} /\ Key[s] # None => ev[s] # None,
           Key[s] \notin swept => late[s] = 0,
           UNCHANGED <<attempt, outcome, verdict, lock, signals, late, swept, noted>>
    PROVE  LoopTypes' /\ LockOK' /\ LoopOK'
  <1>0. /\ outcome[s] \in Outcomes /\ outcome' = [outcome EXCEPT ![s] = outcome[s]]
        /\ late[s] \in Nat /\ late' = [late EXCEPT ![s] = late[s]]
    BY DEF Inv, TypeOK, LoopTypes
  <1>1. LoopTypes' /\ LockOK'
    BY <1>0, StepOK DEF At, Inv, TypeOK
  <1>2. LoopOKOf(s)'
    BY DEF Inv, TypeOK, LoopTypes, LoopOK, LoopOKOf, At, signals
  <1>3. \A t \in Sends \ {s} : /\ pc'[t] = pc[t] /\ outcome'[t] = outcome[t]
                               /\ late'[t] = late[t] /\ ev'[t] = ev[t]
    BY DEF Inv, TypeOK, LoopTypes, At, signals
  <1>. QED  BY <1>1, <1>2, <1>3, LoopGrows DEF Inv, signals

\* What is left to show of a step that leaves the signals and the world alone.
Untold == UNCHANGED <<signals, world, swept>>

LEMMA UntoldKeeps ==
    ASSUME Inv, Untold, LoopTypes', LockOK', LoopOK',
           aired' \subseteq Sends, noted' \subseteq Sends
    PROVE  Inv'
  BY DEF Inv, Untold, signals, world, TypeOK, SignalTypes, SignalOK, EventOK, ToldOK, AnswerOK

LEMMA StepDelay ==
    ASSUME NEW s \in Sends, Inv, Delay(s) PROVE Inv'
  <1>1. Key[s] \notin swept => late[s] = 0
    BY DEF Inv, TypeOK, LoopTypes, LoopOK, LoopOKOf, Delay
  <1>2. LoopTypes' /\ LockOK' /\ LoopOK'
    BY <1>1, Served, MoveKeeps DEF Delay, Inv, States, OnRadio
  <1>. QED  BY <1>2, UntoldKeeps DEF Delay, Untold, Inv, TypeOK

LEMMA StepEnd ==
    ASSUME NEW s \in Sends, NEW v \in Verdicts, Inv, End(s, v), Untold, aired' = aired,
           noted' \subseteq noted \union {s}
    PROVE  Inv'
  <1>1. LoopTypes' /\ LockOK'
    BY EndOK DEF Inv, TypeOK
  <1>2. LoopOK'
    BY EndKeeps DEF Inv, TypeOK, Untold, signals
  <1>. QED  BY <1>1, <1>2, UntoldKeeps DEF Inv, TypeOK

LEMMA StepStart ==
    ASSUME NEW s \in Sends, Inv, Start(s) PROVE Inv'
  <1>0. /\ 0 \in Nat /\ 0 < Attempts[s] /\ pc[s] \in {"idle", "delay"}
        /\ Key[s] \notin swept => late[s] = 0
        /\ UNCHANGED <<answeredBy, how, told, replied, world, aired, swept, noted>>
    BY SendAssumption DEF Start, Inv, TypeOK, LoopTypes, LoopOK, LoopOKOf
  <1>1. CASE Key[s] = None /\ UNCHANGED <<table, ev, raised, cut>> /\ Try(s, 0, FALSE)
    <2>1. LoopTypes' /\ LockOK'
      BY <1>0, <1>1, TryOK DEF Inv, TypeOK
    <2>2. LoopOK'
      BY <1>0, <1>1, TryKeeps DEF Inv, TypeOK
    <2>. QED  BY <1>0, <1>1, <2>1, <2>2, UntoldKeeps DEF Untold, signals, Inv, TypeOK
  <1>2. CASE UNCHANGED <<table, ev, raised, cut>> /\ End(s, "false")
    BY <1>0, <1>2, StepEnd DEF Untold, signals, Verdicts
  <1>3. CASE Key[s] # None /\ ~(s \in LinkProofs /\ Superseded(s))
    <2>. DEFINE k == Key[s]
                new == table[k] = None
                e == IF new THEN s ELSE table[k]
    <2>0. /\ k \in Keys /\ new \in BOOLEAN
          /\ table' = [table EXCEPT ![k] = e] /\ ev' = [ev EXCEPT ![s] = e]
          /\ raised' = With(raised, s, new /\ answeredBy[k] # None)
          /\ cut' = With(cut, s, new /\ how[k] = "superseded")
          /\ Try(s, 0, e \in raised')
      BY <1>3, SendAssumption DEF Start
    <2>1. SignalTypes' /\ SignalOK' /\ e \in Sends
      <3>. HIDE DEF k, new, e
      <3>. QED  BY <1>0, <2>0, StartKeeps DEF Inv, TypeOK, k, new, e
    <2>2. LoopTypes' /\ LockOK'
      <3>. DEFINE set == e \in raised'
      <3>1. set \in BOOLEAN /\ Try(s, 0, set)
        BY <2>0
      <3>. HIDE DEF set
      <3>. QED  BY <1>0, <3>1, TryOK DEF Inv, TypeOK
    <2>3. /\ raised \subseteq raised' /\ ev'[s] # None
          /\ \A t \in Sends \ {s} : ev'[t] = ev[t]
      BY <2>0, <2>1, NobodyAssumption DEF With, Inv, TypeOK, SignalTypes
    <2>4. LoopOK'
      <3>. DEFINE set == e \in raised'
      <3>1. set \in BOOLEAN /\ Try(s, 0, set)
        BY <2>0
      <3>. HIDE DEF set
      <3>. QED  BY <1>0, <2>3, <3>1, TryKeeps DEF Inv, TypeOK
    <2>. QED  BY <1>0, <2>1, <2>2, <2>4 DEF Inv, TypeOK, world
  <1>. QED  BY <1>1, <1>2, <1>3 DEF Start
LEMMA StepGetRadio ==
    ASSUME NEW s \in Sends, Inv, GetRadio(s) PROVE Inv'
  <1>1. CASE End(s, "false") /\ noted' = noted \union {s}
    BY <1>1, StepEnd DEF GetRadio, Untold, Verdicts
  <1>2. CASE At(s, "gate") /\ UNCHANGED <<attempt, outcome, verdict, lock, late, noted>>
    <2>1. /\ Key[s] \notin swept => late[s] = 0
          /\ Key[s] # None => ev[s] # None
      BY DEF Inv, TypeOK, LoopTypes, LoopOK, LoopOKOf, GetRadio, OnRadio
    <2>2. LoopTypes' /\ LockOK' /\ LoopOK'
      BY <1>2, <2>1, Served, MoveKeeps DEF GetRadio, Inv, States
    <2>. QED  BY <1>2, <2>2, UntoldKeeps DEF GetRadio, Untold, Inv, TypeOK
  <1>. QED  BY <1>1, <1>2 DEF GetRadio

LEMMA StepTransmit ==
    ASSUME NEW s \in Sends, Inv, Transmit(s) PROVE Inv'
  <1>1. aired' \subseteq Sends
    BY DEF Transmit, Air, Inv, TypeOK
  <1>2. CASE \E o \in Outcomes : Close(s, o) /\ (o = "answered" => Answered(s))
    <2>1. LoopTypes' /\ LockOK' /\ LoopOK'
      BY <1>2, CloseKeeps DEF Transmit
    <2>. QED  BY <1>1, <2>1, UntoldKeeps DEF Transmit, Untold, Inv, TypeOK
  <1>3. CASE At(s, "ack") /\ UNCHANGED <<attempt, outcome, verdict>>
    <2>0. /\ owner = s /\ want[s] = None /\ late[s] \in Nat
          /\ outcome[s] \in Outcomes /\ outcome' = [outcome EXCEPT ![s] = outcome[s]]
      BY <1>3, Served DEF Transmit, Inv, LockOK, OnRadio, TypeOK, LoopTypes
    <2>1. PICK n \in Nat : /\ late' = [late EXCEPT ![s] = n]
                           /\ n > 0 => Key[s] \in told
                           /\ Key[s] \notin swept => n <= 1
      <3>1. /\ late[s] > 0 => Key[s] \in told
            /\ Key[s] \notin swept => late[s] = 0
        BY <2>0 DEF Transmit, Inv, LoopOK, LoopOKOf
      <3>2. CASE Key[s] \in told
        <4>1. late' = [late EXCEPT ![s] = late[s] + 1]
          BY <3>2 DEF Transmit, Air
        <4>2. /\ late[s] + 1 \in Nat /\ (late[s] + 1 > 0 => Key[s] \in told)
              /\ Key[s] \notin swept => late[s] + 1 <= 1
          BY <2>0, <3>1, <3>2
        <4>. QED  BY <4>1, <4>2
      <3>3. CASE Key[s] \notin told
        <4>1. late' = [late EXCEPT ![s] = late[s]]
          BY <3>3 DEF Transmit, Air
        <4>2. /\ late[s] \in Nat /\ (late[s] > 0 => Key[s] \in told)
              /\ Key[s] \notin swept => late[s] <= 1
          BY <2>0, <3>1
        <4>. QED  BY <4>1, <4>2
      <3>. QED  BY <3>2, <3>3
    <2>2. LoopTypes' /\ LockOK'
      BY <1>3, <2>0, <2>1, StepOK DEF Transmit, At, Inv, TypeOK, States
    <2>3. LoopOKOf(s)'
      BY <1>3, <2>1
      DEF Transmit, Inv, TypeOK, LoopTypes, LoopOK, LoopOKOf, At, signals, OnRadio
    <2>4. \A t \in Sends \ {s} : /\ pc'[t] = pc[t] /\ outcome'[t] = outcome[t]
                                 /\ late'[t] = late[t] /\ ev'[t] = ev[t]
      BY <1>3, <2>1 DEF Transmit, Inv, TypeOK, LoopTypes, At, signals
    <2>5. LoopOK'
      BY <2>3, <2>4, LoopGrows DEF Transmit, Inv, signals
    <2>. QED  BY <1>1, <2>2, <2>5, UntoldKeeps DEF Transmit, Untold, Inv, TypeOK
  <1>. QED  BY <1>2, <1>3 DEF Transmit, CutOutcome, Outcomes

\* The other ends of an attempt.
LEMMA StepAttemptEnds ==
    ASSUME NEW s \in Sends, Inv, TransmitFails(s) \/ HearAck(s) \/ CutWait(s) \/ AckTimeout(s)
    PROVE  Inv'
  <1>1. PICK o \in Outcomes : Close(s, o) /\ (o = "answered" => Answered(s))
    BY DEF TransmitFails, HearAck, CutWait, AckTimeout, CutOutcome, Outcomes
  <1>2. /\ pc[s] \in {"gate", "ack"}
        /\ Air(s) \/ late' = late
        /\ pc[s] = "ack" => late' = late
    BY DEF TransmitFails, HearAck, CutWait, AckTimeout
  <1>3. UNCHANGED <<lock, signals, world, swept, noted>> /\ aired' \subseteq Sends
    BY DEF TransmitFails, HearAck, CutWait, AckTimeout, Air, Inv, TypeOK
  <1>4. LoopTypes' /\ LockOK' /\ LoopOK'
    BY <1>1, <1>2, <1>3, CloseKeeps
  <1>. QED  BY <1>3, <1>4, UntoldKeeps DEF Untold, Inv, TypeOK

LEMMA StepEndListen ==
    ASSUME NEW s \in Sends, Inv, EndListen(s) PROVE Inv'
  <1>0. UNCHANGED <<signals, world, aired, swept, noted>> /\ pc[s] = "listen"
    BY DEF EndListen
  <1>1. CASE \E v \in Verdicts : End(s, v)
    BY <1>0, <1>1, StepEnd DEF Untold
  <1>2. CASE AttemptsLeft(s) /\ Try(s, attempt[s] + 1, Answered(s))
    <2>. DEFINE set == Answered(s)
                a == attempt[s] + 1
    <2>1. set \in BOOLEAN /\ a \in Nat /\ a < Attempts[s] /\ Try(s, a, set)
      BY <1>2 DEF Answered, AttemptsLeft, Inv, TypeOK, LoopTypes
    <2>2. /\ ~set /\ Key[s] \notin swept => late[s] = 0
          /\ Key[s] # None => ev[s] # None
      BY <1>0, UnsetMeansTimely DEF Inv, LoopOK, LoopOKOf, OnRadio
    <2>. HIDE DEF set, a
    <2>3. LoopTypes' /\ LockOK'
      BY <2>1, TryOK DEF Inv, TypeOK
    <2>4. LoopOK'
      BY <1>0, <2>1, <2>2, TryKeeps DEF Inv, TypeOK, signals
    <2>. QED  BY <1>0, <2>3, <2>4, UntoldKeeps DEF Untold, Inv, TypeOK
  <1>. QED  BY <1>1, <1>2 DEF EndListen, EndTrue, Verdicts

-----------------------------------------------------------------------------
\* The steps of the world.

\* What the world does leaves loops and lock alone.
LEMMA WorldKeeps ==
    ASSUME Inv, UNCHANGED <<loop, lock, ev, late, aired, noted>>,
           told \subseteq told', raised \subseteq raised', swept \subseteq swept'
    PROVE  LoopTypes' /\ LockOK' /\ LoopOK'
  <1>1. LoopTypes' /\ LockOK'
    BY DEF Inv, TypeOK, LoopTypes, LockOK, loop, lock
  <1>2. LoopOK'
    BY DEF Inv, LoopOK, LoopOKOf, loop
  <1>. QED  BY <1>1, <1>2

LEMMA StepReply ==
    ASSUME NEW k \in Keys, NEW p \in Peers \union {Anon}, Inv, Reply(k, p) PROVE Inv'
  <1>1. SignalTypes' /\ SignalOK'
    <2>. DEFINE S == {k}
    <2>1. /\ S \in SUBSET Keys /\ Signal(S, p, "answered")
          /\ \A j \in S : <<j, p>> \in replied'
          /\ replied \subseteq replied' /\ replied' \subseteq Keys \X (Peers \union {Anon})
          /\ UNCHANGED <<table, ev, swept>>
      BY DEF Reply, Inv, TypeOK, SignalTypes
    <2>. HIDE DEF S
    <2>. QED  BY <2>1, SignalKeeps DEF Inv, TypeOK
  <1>2. LoopTypes' /\ LockOK' /\ LoopOK'
    BY WorldKeeps DEF Reply, Signal
  <1>. QED  BY <1>1, <1>2 DEF Reply, Inv, TypeOK, world

LEMMA StepAsk ==
    ASSUME NEW k \in Keys, Inv, Ask(k) PROVE Inv'
  <1>. DEFINE S == {Key[s] : s \in {t \in PendingProofs(Asker[k]) : Key[t] # k /\ ~Superseded(t)}}
  <1>1. S \subseteq Keys /\ Signal(S, Anon, "superseded")
    BY LinkAssumption DEF Ask, PendingProofs
  <1>. HIDE DEF S
  <1>2. SignalTypes' /\ SignalOK'
    BY <1>1, SignalKeeps DEF Ask, Inv, TypeOK, SignalTypes
  <1>3. LoopTypes' /\ LockOK' /\ LoopOK'
    BY <1>1, WorldKeeps DEF Ask, Signal
  <1>. QED  BY <1>2, <1>3 DEF Ask, Inv, TypeOK

LEMMA StepSweep ==
    ASSUME NEW k \in Keys, Inv, Sweep(k) PROVE Inv'
  <1>0. /\ swept' = swept \union {k} /\ UNCHANGED <<loop, lock, ev, raised, cut, told, replied, world, late, aired, noted>>
        /\ k \in Keys
    BY DEF Sweep
  <1>1. SignalTypes'
    BY <1>0 DEF Sweep, Inv, TypeOK, SignalTypes
  <1>2. SignalOK'
    <2>1. EventOK'
      BY <1>0 DEF Sweep, Inv, TypeOK, SignalTypes, SignalOK, EventOK
    <2>2. ToldOK'
      BY <1>0 DEF Sweep, Inv, TypeOK, SignalTypes, SignalOK, ToldOK
    <2>3. AnswerOK'
      BY <1>0, NobodyAssumption DEF Sweep, Inv, TypeOK, SignalTypes, SignalOK, AnswerOK
    <2>. QED  BY <2>1, <2>2, <2>3 DEF SignalOK
  <1>3. LoopTypes' /\ LockOK' /\ LoopOK'
    BY <1>0, WorldKeeps
  <1>. QED  BY <1>0, <1>1, <1>2, <1>3 DEF Inv, TypeOK, world

\* Deadlines, the radio's loss and detach.
LEMMA StepWorld ==
    ASSUME Inv, ChangeRadio \/ Detach \/ \E s \in Sends : Lapse(s) PROVE Inv'
  <1>1. UNCHANGED <<loop, lock, signals, asked, late, aired, swept, noted>>
    BY DEF ChangeRadio, Detach, Lapse
  <1>2. SignalTypes' /\ SignalOK'
    BY <1>1 DEF Inv, TypeOK, SignalTypes, SignalOK, EventOK, ToldOK, AnswerOK, signals
  <1>3. LoopTypes' /\ LockOK' /\ LoopOK'
    BY <1>1, WorldKeeps DEF signals
  <1>4. lapsed' \subseteq Expiring /\ online' \in BOOLEAN /\ detached' \in BOOLEAN
    BY DEF ChangeRadio, Detach, Lapse, Inv, TypeOK
  <1>. QED  BY <1>1, <1>2, <1>3, <1>4 DEF Inv, TypeOK
-----------------------------------------------------------------------------
\* The theorems.

LEMMA InitInv == Init => Inv
  <1>. SUFFICES ASSUME Init PROVE Inv
    OBVIOUS
  <1>1. \A s \in Sends : Attempts[s] \in Nat /\ 0 < Attempts[s]
    BY SendAssumption
  <1>2. LoopTypes
    BY <1>1 DEF Init, LoopTypes, Lock!Init, States, Outcomes, Verdicts
  <1>3. SignalTypes
    BY DEF Init, SignalTypes
  <1>4. TypeOK
    BY <1>2, <1>3 DEF Init, TypeOK
  <1>5. LockOK
    BY DEF Init, LockOK, OnRadio, Lock!Init
  <1>6. SignalOK
    BY NobodyAssumption DEF Init, SignalOK, EventOK, ToldOK, AnswerOK
  <1>7. LoopOK
    <2>. SUFFICES ASSUME NEW s \in Sends PROVE LoopOKOf(s)
      BY DEF LoopOK
    <2>1. outcome[s] = "none" /\ pc[s] = "idle" /\ late[s] = 0 /\ noted = {}
      BY DEF Init
    <2>. QED  BY <2>1 DEF LoopOKOf, OnRadio
  <1>. QED  BY <1>4, <1>5, <1>6, <1>7 DEF Inv

LEMMA StepInv == Inv /\ [Next]_vars => Inv'
  <1>. SUFFICES ASSUME Inv, [Next]_vars PROVE Inv'
    OBVIOUS
  <1>1. ASSUME NEW s \in Sends, Run(s) PROVE Inv'
    BY <1>1, StepStart, StepGetRadio, StepTransmit, StepAttemptEnds, StepEndListen DEF Run
  <1>2. ASSUME NEW s \in Sends, Cancel(s) PROVE Inv'
    BY <1>2, StepEnd DEF Cancel, Untold, Verdicts
  <1>3. CASE UNCHANGED vars
    <2>1. LoopTypes' /\ LockOK' /\ LoopOK'
      BY <1>3, WorldKeeps DEF vars, signals
    <2>. QED  BY <1>3, <2>1, UntoldKeeps DEF vars, Untold, Inv, TypeOK
  <1>. QED  BY <1>1, <1>2, <1>3, StepDelay, StepReply, StepAsk, StepSweep, StepWorld DEF Next

\* The invariant holds of every behaviour.
THEOREM Invariance == Spec => []Inv
  BY InitInv, StepInv, PTL DEF Spec

\* Every variable stays in its range; no send has more attempts than its budget.
THEOREM TypeCorrect == Spec => []TypeOK
  <1>1. Inv => TypeOK
    BY DEF Inv
  <1>. QED  BY <1>1, Invariance, PTL

\* Two exchanges never overlap, the listens after them included.
THEOREM OneExchangeHolds == Spec => []OneExchange
  <1>1. Inv => OneExchange
    BY DEF Inv, LockOK, OneExchange
  <1>. QED  BY <1>1, Invariance, PTL

\* At most one frame of a send goes out after it was answered or superseded.
THEOREM OneLateFrameHolds == Spec => []OneLateFrame
  <1>1. Inv => OneLateFrame
    BY DEF Inv, LoopOK, LoopOKOf, OneLateFrame
  <1>. QED  BY <1>1, Invariance, PTL

\* A packet found expired by the attempt that got the radio is never sent.
THEOREM ExpiredNeverSentHolds == Spec => []ExpiredNeverSent
  <1>1. Inv => ExpiredNeverSent
    BY DEF Inv, TypeOK, LoopOK, LoopOKOf, ExpiredNeverSent
  <1>. QED  BY <1>1, Invariance, PTL

-----------------------------------------------------------------------------
\* What a send returns.

Heard == {"true", "credited"}

\* The loop returns what its end says, and for one send at a time.
LEMMA EndReturns ==
    ASSUME NEW s \in Sends, NEW v \in Verdicts, TypeOK, End(s, v),
           NEW t \in Sends, NEW w \in Heard, Returns(t, w)
    PROVE  t = s /\ v = w
  BY DEF TypeOK, LoopTypes, End, Returns, Heard

LEMMA TryReturns ==
    ASSUME NEW s \in Sends, NEW a \in Nat, NEW set \in BOOLEAN, TypeOK, Try(s, a, set),
           NEW t \in Sends, NEW w \in Heard, Returns(t, w)
    PROVE  t = s /\ set /\ ~Superseded(s) /\ (w = "credited" => RepliedByPeer(s))
  <1>1. CASE End(s, "false")
    BY <1>1, EndReturns DEF Heard, Verdicts
  <1>2. CASE set /\ ~Superseded(s) /\ EndTrue(s, RepliedByPeer(s))
    BY <1>2, EndReturns DEF EndTrue, Heard, Verdicts
  <1>3. CASE GoOn(s, a)
    BY <1>3 DEF GoOn, Returns, Heard
  <1>. QED  BY <1>1, <1>2, <1>3 DEF Try

\* An event that is set and not for being superseded was set for a reply.
LEMMA SetMeansReplied ==
    ASSUME NEW e \in Sends, NEW k \in Keys, Key[e] = k, k \notin swept, SignalTypes, SignalOK,
           e \in raised, how[k] # "superseded"
    PROVE  \E p \in Peers \union {Anon} : <<k, p>> \in replied
  <1>1. k \in told
    BY DEF SignalOK, ToldOK
  <1>2. how[k] = "answered"
    BY <1>1 DEF SignalOK, ToldOK, SignalTypes
  <1>. QED  BY <1>2 DEF SignalOK, AnswerOK

LEMMA AnsweredMeansReplied ==
    ASSUME NEW s \in Sends, Inv, Answered(s), ~Superseded(s), Key[s] \notin swept
    PROVE  \E p \in Peers \union {Anon} : <<Key[s], p>> \in replied
  <1>1. Key[s] \in Keys /\ ev[s] \in Sends /\ Key[ev[s]] = Key[s] /\ ev[s] \in raised
    BY NobodyAssumption DEF Answered, Inv, TypeOK, SignalTypes, SignalOK, EventOK
  <1>. QED  BY <1>1, SetMeansReplied DEF Superseded, Answered, Inv, TypeOK

LEMMA PeerMeansReplied ==
    ASSUME NEW s \in Sends, Inv, RepliedByPeer(s)
    PROVE  <<Key[s], Peer[s]>> \in replied
  <1>1. Key[s] \in Keys /\ Peer[s] \in Peers
    BY SendAssumption DEF RepliedByPeer
  <1>. QED  BY <1>1 DEF RepliedByPeer, Inv, SignalOK, AnswerOK

\* What a send heard when it returns that it was heard.
HeardOf(s, w) ==
    \/ outcome[s] = "acked"
    \/ /\ Key[s] \notin swept => \E p \in Peers \union {Anon} : <<Key[s], p>> \in replied
       /\ w = "credited" => <<Key[s], Peer[s]>> \in replied

LEMMA StartHeard ==
    ASSUME NEW s \in Sends, Inv, Start(s), NEW t \in Sends, NEW w \in Heard, Returns(t, w)
    PROVE  HeardOf(t, w)
  <1>0. TypeOK /\ 0 \in Nat
    BY DEF Inv
  <1>1. CASE Try(s, 0, FALSE)
    BY <1>0, <1>1, TryReturns
  <1>2. CASE End(s, "false")
    BY <1>0, <1>2, EndReturns DEF Heard, Verdicts
  <1>3. CASE Key[s] # None /\ ~(s \in LinkProofs /\ Superseded(s))
    <2>. DEFINE k == Key[s]
                new == table[k] = None
                e == IF new THEN s ELSE table[k]
                set == e \in raised'
    <2>0. /\ k \in Keys /\ new \in BOOLEAN /\ set \in BOOLEAN
          /\ table' = [table EXCEPT ![k] = e] /\ ev' = [ev EXCEPT ![s] = e]
          /\ raised' = With(raised, s, new /\ answeredBy[k] # None)
          /\ cut' = With(cut, s, new /\ how[k] = "superseded")
          /\ Try(s, 0, set)
          /\ UNCHANGED <<answeredBy, how, told, replied, world, aired, swept, noted>>
      BY <1>3, SendAssumption DEF Start
    <2>1. SignalTypes' /\ SignalOK' /\ e \in Sends /\ Key[e] = k
      <3>. HIDE DEF k, new, e
      <3>. QED  BY <2>0, StartKeeps DEF Inv, TypeOK, k, new, e
    <2>2. t = s /\ set /\ ~Superseded(s) /\ (w = "credited" => RepliedByPeer(s))
      <3>. HIDE DEF set
      <3>. QED  BY <1>0, <2>0, TryReturns
    <2>3. how[k] # "superseded"
      BY <1>3, <2>2 DEF Superseded
    <2>4. k \notin swept => \E p \in Peers \union {Anon} : <<k, p>> \in replied
      <3>1. k \notin swept /\ e \in raised' => k \in told
        BY <2>0, <2>1 DEF SignalOK, ToldOK
      <3>2. k \notin swept /\ e \in raised' => how[k] = "answered"
        BY <2>0, <2>3, <3>1 DEF Inv, TypeOK, SignalTypes, SignalOK, ToldOK
      <3>. QED  BY <2>0, <2>2, <3>2 DEF Inv, SignalOK, AnswerOK
    <2>. QED  BY <2>2, <2>4, PeerMeansReplied DEF HeardOf
  <1>. QED  BY <1>1, <1>2, <1>3 DEF Start

LEMMA EndListenHeard ==
    ASSUME NEW s \in Sends, Inv, EndListen(s), NEW t \in Sends, NEW w \in Heard, Returns(t, w)
    PROVE  HeardOf(t, w)
  <1>0. TypeOK
    BY DEF Inv
  <1>1. CASE \E v \in Verdicts \ Heard : End(s, v)
    BY <1>0, <1>1, EndReturns
  <1>2. CASE outcome[s] = "answered" /\ ~Superseded(s) /\ EndTrue(s, Answered(s) => RepliedByPeer(s))
    <2>1. Answered(s)
      BY <1>2 DEF Inv, LoopOK, LoopOKOf, Answered
    <2>2. t = s /\ (w = "credited" => RepliedByPeer(s))
      BY <1>0, <1>2, <2>1, EndReturns DEF EndTrue, Heard, Verdicts
    <2>. QED  BY <1>2, <2>1, <2>2, PeerMeansReplied, AnsweredMeansReplied DEF HeardOf
  <1>3. CASE outcome[s] = "acked" /\ \E v \in Verdicts : End(s, v)
    BY <1>0, <1>3, EndReturns DEF HeardOf
  <1>4. CASE Try(s, attempt[s] + 1, Answered(s))
    <2>. DEFINE set == Answered(s)
                a == attempt[s] + 1
    <2>1. set \in BOOLEAN /\ a \in Nat /\ Try(s, a, set)
      BY <1>4 DEF Answered, Inv, TypeOK, LoopTypes
    <2>2. t = s /\ set /\ ~Superseded(s) /\ (w = "credited" => RepliedByPeer(s))
      <3>. HIDE DEF set, a
      <3>. QED  BY <1>0, <2>1, TryReturns
    <2>. QED  BY <2>2, PeerMeansReplied, AnsweredMeansReplied DEF HeardOf
  <1>. QED  BY <1>1, <1>2, <1>3, <1>4 DEF EndListen, EndTrue, Good, Verdicts, Heard

LEMMA StepHeard ==
    ASSUME Inv, [Next]_vars, NEW t \in Sends, NEW w \in Heard, Returns(t, w)
    PROVE  HeardOf(t, w)
  <1>0. TypeOK /\ "false" \in Verdicts /\ "false" \notin Heard
    BY DEF Inv, Verdicts, Heard
  <1>1. ASSUME UNCHANGED verdict PROVE FALSE
    BY <1>1 DEF Returns, Heard
  <1>2. ASSUME NEW s \in Sends, Run(s) PROVE HeardOf(t, w)
    <2>1. CASE GetRadio(s)
      BY <1>0, <1>1, <2>1, EndReturns DEF GetRadio
    <2>2. CASE Transmit(s) \/ TransmitFails(s) \/ HearAck(s) \/ CutWait(s) \/ AckTimeout(s)
      BY <1>1, <2>2 DEF Transmit, TransmitFails, HearAck, CutWait, AckTimeout, Close
    <2>. QED  BY <1>2, <2>1, <2>2, StartHeard, EndListenHeard DEF Run
  <1>3. ASSUME NEW s \in Sends, Cancel(s) PROVE FALSE
    BY <1>0, <1>3, EndReturns DEF Cancel
  <1>4. ASSUME NEW s \in Sends, Delay(s) \/ Lapse(s) PROVE FALSE
    BY <1>1, <1>4 DEF Delay, Lapse, loop
  <1>5. ASSUME NEW k \in Keys, Ask(k) \/ Sweep(k) \/ \E p \in Peers \union {Anon} : Reply(k, p)
        PROVE FALSE
    BY <1>1, <1>5 DEF Ask, Sweep, Reply, loop
  <1>6. CASE ChangeRadio \/ Detach \/ UNCHANGED vars
    BY <1>1, <1>6 DEF ChangeRadio, Detach, vars, loop
  <1>. QED  BY <1>2, <1>3, <1>4, <1>5, <1>6 DEF Next

\* A path is credited with a send only if its own peer ACKed the send or delivered
\* the reply to it.
THEOREM EvidenceSoundHolds == Spec => EvidenceSound
  <1>1. Inv /\ [Next]_vars =>
            [\A s \in Sends : Returns(s, "credited") =>
                outcome[s] = "acked" \/ <<Key[s], Peer[s]>> \in replied]_vars
    BY StepHeard DEF HeardOf, Heard
  <1>. QED  BY <1>1, Invariance, PTL DEF Spec, EvidenceSound

\* A send that returns True was ACKed, or what it asked for was answered.
THEOREM TrueMeansHeardHolds == Spec => TrueMeansHeard
  <1>1. Inv /\ [Next]_vars =>
            [\A s \in Sends : (Returns(s, "true") \/ Returns(s, "credited")) /\ Key[s] \notin swept =>
                outcome[s] = "acked" \/ \E p \in Peers \union {Anon} : <<Key[s], p>> \in replied]_vars
    BY StepHeard DEF HeardOf, Heard
  <1>. QED  BY <1>1, Invariance, PTL DEF Spec, TrueMeansHeard
-----------------------------------------------------------------------------
(* How long attempts take. *)

Time == INSTANCE Timing

\* An estimate among its samples, from low to high, and its spread within their
\* distance or half of the largest.
Within(st, low, high) ==
    st # <<>> => /\ Time!Measured(st) /\ st[1].srtt \in low..high
                 /\ 2 * st[1].rttvar <= Time!Most(2 * (high - low), high)

\* A sample keeps it so, whatever its value among them, so no order of samples
\* makes a timeout run away (_rtt_sample).
THEOREM EstimateStaysWithin ==
    ASSUME NEW low \in Nat, NEW high \in Nat, NEW rtt \in low..high, NEW st, Within(st, low, high)
    PROVE  Within(Time!Sampled(st, rtt), low, high)
<1>1. CASE rtt <= 0
  BY <1>1 DEF Time!Sampled
<1>2. CASE rtt > 0 /\ st = <<>>
  <2>1. Time!Sampled(st, rtt) = <<[srtt |-> rtt, rttvar |-> rtt \div 2, samples |-> 1]>>
    BY <1>2 DEF Time!Sampled
  <2>2. rtt \div 2 \in Nat /\ 2 * (rtt \div 2) <= high
    OBVIOUS
  <2> QED BY <2>1, <2>2 DEF Within, Time!Measured, Time!Most
<1>3. CASE rtt > 0 /\ st # <<>>
  <2> DEFINE err == rtt - st[1].srtt
             spread == IF err >= 0 THEN err ELSE -err
             bound == Time!Most(2 * (high - low), high)
             new == Time!Sampled(st, rtt)
  <2>1. /\ st[1].srtt \in Nat /\ st[1].rttvar \in Nat /\ st[1].samples \in Nat /\ st[1].srtt \in low..high
        /\ spread \in Nat /\ spread <= high - low /\ bound \in Nat /\ bound >= 2 * (high - low)
        /\ 2 * st[1].rttvar <= bound
    BY <1>3 DEF Within, Time!Measured, Time!Most
  <2>2. new = <<[srtt |-> (7 * st[1].srtt + rtt) \div 8,
                 rttvar |-> (3 * st[1].rttvar + spread) \div 4,
                 samples |-> st[1].samples + 1]>>
    BY <1>3 DEF Time!Sampled
  <2> HIDE DEF spread, bound, new
  <2>3. (7 * st[1].srtt + rtt) \div 8 \in low..high
    <3>1. \A s \in Nat : s \in low..high => (7 * s + rtt) \div 8 \in low..high
      OBVIOUS
    <3> QED BY <2>1, <3>1
  <2>4. (3 * st[1].rttvar + spread) \div 4 \in Nat /\ 2 * ((3 * st[1].rttvar + spread) \div 4) <= bound
    BY <2>1
  <2>5. Len(new) = 1 /\ new[1].srtt = (7 * st[1].srtt + rtt) \div 8
    BY <2>2
  <2>6. new[1].rttvar = (3 * st[1].rttvar + spread) \div 4
    BY <2>2
  <2>7. new[1] \in [srtt : Nat, rttvar : Nat, samples : Nat]
    BY <2>1, <2>2, <2>3, <2>4
  <2>8. new[1].srtt \in low..high /\ 2 * new[1].rttvar <= bound
    BY <2>3, <2>4, <2>5, <2>6
  <2> QED BY <2>5, <2>7, <2>8 DEF Within, Time!Measured, bound, new
<1> QED BY <1>1, <1>2, <1>3

\* What the options of one attempt must be.
AttemptOptions(ack, listen, rx) ==
    /\ ack.routedMax \in Nat /\ ack.adaptive \in BOOLEAN
    /\ {ack.min, ack.base, ack.perHop, ack.minSamples, ack.multiplier, ack.floor} \subseteq Nat
    /\ {listen.min, listen.max, listen.successMin, listen.successMax} \subseteq Nat
    /\ rx.on \in BOOLEAN /\ {rx.max, rx.jitterMin, rx.jitterMax} \subseteq Nat

\* An attempt never waits longer for its ACK than the ceiling of the options
\* (_await_direct_ack).
LEMMA AckWaitBounded ==
    ASSUME NEW ack, NEW listen, NEW rx, AttemptOptions(ack, listen, rx),
           NEW hops \in Int, NEW suggested \in Nat, NEW st, Time!Measured(st), NEW backoff \in Nat,
           NEW limit \in Nat
    PROVE  /\ Time!AckTimeout(ack, hops, suggested, st, backoff, limit) \in Int
           /\ Time!AckTimeout(ack, hops, suggested, st, backoff, limit) <= ack.routedMax
<1> DEFINE firmware == Time!FirmwareTimeout(ack, hops, suggested)
           sized == Time!AdaptiveTimeout(ack, st, backoff, firmware)
<1>1. /\ ack.min \in Nat /\ ack.base \in Nat /\ ack.perHop \in Nat /\ ack.minSamples \in Nat
      /\ ack.multiplier \in Nat /\ ack.floor \in Nat /\ ack.routedMax \in Nat
  BY DEF AttemptOptions
<1>2. Time!AckCap(ack, hops) \in Int
  <2>1. Time!Positive(hops) \in Nat
    BY DEF Time!Positive, Time!Most
  <2>2. ack.perHop * Time!Positive(hops) \in Nat
    BY <1>1, <2>1
  <2> QED BY <1>1, <2>2 DEF Time!AckCap, Time!Least
<1>3. firmware \in Int /\ firmware <= ack.routedMax
  BY <1>1, <1>2 DEF Time!FirmwareTimeout, Time!Least, Time!Most
<1>4. sized \in Int /\ sized <= firmware
  <2>1. CASE st = <<>>
    BY <1>3, <2>1 DEF Time!AdaptiveTimeout
  <2>2. CASE st # <<>>
    <3>1. PICK r \in Nat : r = st[1].srtt + 4 * st[1].rttvar
      BY <2>2 DEF Time!Measured
    <3>2. PICK m \in Nat : m = ack.multiplier * r * backoff
      BY <1>1
    <3>3. Time!Most(ack.floor, m) \in Int
      BY <1>1 DEF Time!Most
    <3>4. sized = firmware \/ sized = Time!Least(firmware, Time!Most(ack.floor, m))
      BY <3>1, <3>2 DEF Time!AdaptiveTimeout
    <3> HIDE DEF sized, firmware
    <3> QED BY <1>3, <3>3, <3>4 DEF Time!Least
  <2> QED BY <2>1, <2>2
<1> HIDE DEF sized, firmware
<1>5. Time!AckTimeout(ack, hops, suggested, st, backoff, limit)
        = IF limit > 0 THEN Time!Least(limit, sized) ELSE sized
  BY DEF Time!AckTimeout, sized, firmware
<1> QED BY <1>1, <1>3, <1>4, <1>5 DEF Time!Least

\* Where the start-up check is silent, attempts that miss are over within the
\* receiver's patience, whatever was suggested, measured, overheard or drawn
\* (_validate_direct_timing_budget).
THEOREM AttemptsFitPatience ==
    ASSUME NEW ack, NEW listen, NEW rx, AttemptOptions(ack, listen, rx),
           NEW attempts \in Nat, NEW patience \in Nat,
           ~Time!Warns(ack, listen, rx, attempts, patience),
           NEW n \in 0..attempts,
           NEW hops \in Int, NEW suggested \in Nat, NEW st, Time!Measured(st), NEW backoff \in Nat, NEW limit \in Nat,
           NEW hold \in 0..Time!PreTransmitMax(rx),
           NEW diagnosis, NEW busyFor \in Int,
           NEW heard \in Time!PostAttemptListen(listen, rx, FALSE, diagnosis, busyFor)
    PROVE  n * (hold + Time!AckTimeout(ack, hops, suggested, st, backoff, limit) + heard) <= patience
<1> DEFINE wait == Time!AckTimeout(ack, hops, suggested, st, backoff, limit)
           cost == hold + wait + heard
           budget == Time!AttemptBudget(ack, listen, rx)
<1>1. wait \in Int /\ wait <= ack.routedMax
  BY AckWaitBounded
<1>2. /\ ack.routedMax \in Nat /\ rx.max \in Nat /\ rx.on \in BOOLEAN /\ listen.max \in Nat /\ listen.min \in Nat
      /\ rx.jitterMin \in Nat /\ rx.jitterMax \in Nat
  BY DEF AttemptOptions
<1>3. heard \in Int /\ heard <= IF rx.on THEN rx.max ELSE listen.max
  <2>1. CASE rx.on
    <3>1. PICK j \in rx.jitterMin..rx.jitterMax : heard = Time!PostMissHold(rx, diagnosis, busyFor, j)
      BY <2>1 DEF Time!PostAttemptListen
    <3> QED BY <1>2, <2>1, <3>1 DEF Time!PostMissHold, Time!Least, Time!Positive, Time!Most
  <2>2. CASE ~rx.on
    BY <1>2, <2>2 DEF Time!PostAttemptListen
  <2> QED BY <2>1, <2>2
<1>4. hold \in Nat /\ hold <= Time!PreTransmitMax(rx) /\ Time!PreTransmitMax(rx) \in Nat
  BY <1>2 DEF Time!PreTransmitMax
<1>5. budget = ack.routedMax + Time!PreTransmitMax(rx) + (IF rx.on THEN rx.max ELSE listen.max)
  BY DEF Time!AttemptBudget
<1> HIDE DEF wait
<1>6. cost \in Int /\ budget \in Nat /\ cost <= budget
  BY <1>1, <1>2, <1>3, <1>4, <1>5
<1>7. attempts * budget <= patience
  <2>1. CASE budget > 0
    <3>1. ~(patience < attempts * budget)
      BY <2>1 DEF Time!Warns
    <3>2. attempts * budget \in Nat
      BY <1>6
    <3> QED BY <3>1, <3>2
  <2>2. CASE budget = 0
    BY <2>2
  <2> QED BY <1>6, <2>1, <2>2
<1> HIDE DEF cost, budget
<1>8. n * cost <= n * budget /\ n * budget <= attempts * budget
  <2>1. \A a, b \in Int : a <= b => n * a <= n * b
    OBVIOUS
  <2>2. \A b \in Nat : n * b <= attempts * b
    OBVIOUS
  <2> QED BY <1>6, <2>1, <2>2
<1>9. n * cost \in Int /\ n * budget \in Int /\ attempts * budget \in Int
  BY <1>6
<1>10. n * cost <= patience
  BY <1>7, <1>8, <1>9
<1> QED BY <1>10 DEF cost, wait

-----------------------------------------------------------------------------
(* The options, whatever numbers are given. *)

Option == INSTANCE Configuration

Readable(cfg) == \A key \in DOMAIN cfg.numbers : cfg.numbers[key] \in Int

\* A number that is not given is its default.
LEMMA NumberIsInt ==
    ASSUME NEW cfg, Readable(cfg), NEW key, NEW default \in Int
    PROVE  Option!Number(cfg, key, default) \in Int
BY DEF Readable, Option!Number

\* The models' assumptions about rounds, tries, strikes and limits hold for every
\* configuration, and the rounds of a window are told apart by the two bits the raw
\* header has for them: a burst of a later round is never taken for an earlier one.
THEOREM OptionsMeetAssumptions ==
    ASSUME NEW cfg, Readable(cfg), NEW hops \in Int
    PROVE  /\ Option!WindowRounds(cfg, hops) \in 1..4
           /\ \A r, s \in 0..Option!WindowRounds(cfg, hops) - 1 : r % 4 = s % 4 => r = s
           /\ {Option!QueryTries(cfg), Option!EmptyBurstsAllowed(cfg), Option!Pass0Attempts(cfg),
               Option!Suppressions(cfg), Option!WindowParts(cfg),
               Option!Selection(cfg).switch, Option!Connection(cfg).handshakes} \subseteq Nat \ {0}
<1>1. Option!WindowRounds(cfg, hops) \in 1..4
  <2>1. /\ Option!Raw(cfg).rounds \in 1..4
        /\ Option!Raw(cfg).maxRelayedRounds \in Nat
    BY NumberIsInt DEF Option!Raw, Option!Most, Option!Least
  <2> QED BY <2>1 DEF Option!WindowRounds, Option!Most, Option!Least
<1>2. \A r, s \in 0..Option!WindowRounds(cfg, hops) - 1 : r % 4 = s % 4 => r = s
  <2>1. \A r \in 0..Option!WindowRounds(cfg, hops) - 1 : r \in 0..3
    BY <1>1
  <2>2. \A r \in 0..3 : r % 4 = r
    OBVIOUS
  <2> QED BY <2>1, <2>2
<1>3. Option!QueryTries(cfg) \in Nat \ {0}
  BY NumberIsInt DEF Option!QueryTries, Option!Raw, Option!Most
<1>4. Option!EmptyBurstsAllowed(cfg) \in Nat \ {0}
  BY NumberIsInt DEF Option!EmptyBurstsAllowed, Option!Fallback, Option!Most
<1>5. Option!Pass0Attempts(cfg) \in Nat \ {0}
  BY NumberIsInt DEF Option!Pass0Attempts, Option!TextSend, Option!Most
<1>6. Option!Suppressions(cfg) \in Nat \ {0}
  BY NumberIsInt DEF Option!Suppressions, Option!Ages, Option!Most
<1>7. Option!WindowParts(cfg) \in Nat \ {0}
  BY NumberIsInt DEF Option!WindowParts, Option!Windows, Option!Most
<1>8. Option!Selection(cfg).switch \in Nat \ {0}
  BY NumberIsInt DEF Option!Selection, Option!Most
<1>9. Option!Connection(cfg).handshakes \in Nat \ {0}
  BY NumberIsInt DEF Option!Connection, Option!Most
<1> QED BY <1>1, <1>2, <1>3, <1>4, <1>5, <1>6, <1>7, <1>8, <1>9

\* The supervisor's delays start at a second or more, never shrink and never pass
\* their maximum, whatever the two options are and in whichever order.
THEOREM RetryDelaysGrow ==
    ASSUME NEW cfg, Readable(cfg),
           NEW delay \in Option!Connection(cfg).retryMin..Option!Connection(cfg).retryMax
    PROVE  /\ Option!Connection(cfg).retryMin \in 1000..Option!Connection(cfg).retryMax
           /\ Option!NextRetry(cfg, delay) \in delay..Option!Connection(cfg).retryMax
<1>1. /\ Option!Connection(cfg).retryMin \in Int /\ Option!Connection(cfg).retryMax \in Int
      /\ Option!Connection(cfg).retryMin >= 1000
      /\ Option!Connection(cfg).retryMax >= Option!Connection(cfg).retryMin
  BY NumberIsInt DEF Option!Connection, Option!Most
<1> QED BY <1>1 DEF Option!NextRetry, Option!Least

\* No setting makes a periodic loop spin: each sleeps for a second or more.
THEOREM NoLoopSpins ==
    ASSUME NEW cfg, Readable(cfg), NEW sleep \in Option!Sleeps(cfg)
    PROVE  sleep >= 1000
BY NumberIsInt DEF Option!Sleeps, Option!LoopInterval, Option!MinLoop, Option!Observing, Option!Contacts, Option!PeerSearch

\* When the start-up check is silent and an attempt takes time at all, the attempts
\* of any send, given to it or by default, fit the receiver's patience.
THEOREM SilentMeansFits ==
    ASSUME NEW cfg, Readable(cfg), ~Option!Warned(cfg), Option!LongestAttempt(cfg) > 0,
           NEW attempts \in Nat,
           \/ attempts <= Option!SendAttempts(cfg, TRUE)
           \/ attempts <= Option!SendAttempts(cfg, FALSE)
           \/ attempts <= Option!TextSend(cfg).finish
    PROVE  attempts * Option!LongestAttempt(cfg) <= Option!Fragmentation(cfg).idle
<1> DEFINE most == Option!MostAttempts(cfg)
           longest == Option!LongestAttempt(cfg)
           idle == Option!Fragmentation(cfg).idle
<1>1. /\ Option!AttemptLimits(cfg).plain \in Int /\ Option!AttemptLimits(cfg).handshake \in Int
      /\ Option!TextSend(cfg).finish \in Int
  BY NumberIsInt DEF Option!AttemptLimits, Option!TextSend
<1>2. most \in Int /\ attempts <= most
  BY <1>1 DEF Option!MostAttempts, Option!Most, Option!SendAttempts
<1>3. longest \in Int /\ longest >= 0
  <2>1. Option!Ack(cfg).routedMax \in Int
    BY NumberIsInt DEF Option!Ack
  <2>2. Option!Listening(cfg).holdMax \in Int
    BY NumberIsInt DEF Option!Listening
  <2>3. Option!Listen(cfg).max \in Int
    BY NumberIsInt DEF Option!Listen
  <2> QED BY <2>1, <2>2, <2>3 DEF Option!LongestAttempt
<1>4. idle \in Int
  BY NumberIsInt DEF Option!Fragmentation
<1>5. ~(idle < most * longest)
  BY DEF Option!Warned
<1> HIDE DEF most, longest, idle
<1>6. attempts * longest <= most * longest
  <2>1. \A a, b, c \in Int : a <= b /\ c >= 0 => a * c <= b * c
    OBVIOUS
  <2> QED BY <1>2, <1>3, <2>1
<1>7. most * longest <= idle
  <2>1. \A a, b \in Int : ~(a < b) => b <= a
    OBVIOUS
  <2>2. \A a, b \in Int : a * b \in Int
    OBVIOUS
  <2> QED BY <1>2, <1>3, <1>4, <1>5, <2>1, <2>2
<1>8. attempts * longest <= idle
  <2>1. \A a, b, c \in Int : a <= b /\ b <= c => a <= c
    OBVIOUS
  <2>2. \A a, b \in Int : a * b \in Int
    OBVIOUS
  <2> QED BY <1>2, <1>3, <1>4, <1>6, <1>7, <2>1, <2>2
<1> QED BY <1>8 DEF longest, idle
=============================================================================
