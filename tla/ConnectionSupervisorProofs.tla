---------------------- MODULE ConnectionSupervisorProofs ----------------------
(***************************************************************************)
(* The safety of ConnectionSupervisor, for any connections and any limits  *)
(* of attempts: losses are noticed and real, there is one port and one set *)
(* of loops, and detach leaves nothing behind.                             *)
(***************************************************************************)
EXTENDS ConnectionSupervisor, TLAPS

-----------------------------------------------------------------------------
(* The inductive invariant. *)

Watching == SettingUp \union {"waiting"}

\* The supervisor has a connection in hand where it works on one, and _mc is it.
HandsOK ==
    /\ link = None <=> sup \in {"start", "pausing", "ended"}
    /\ sup \in Watching => mc = link /\ event # "none"
    /\ sup \notin Watching \union {"ended"} => mc = None

\* The ports: who may have an open one, and what is still said of them.
PortsOK ==
    /\ sup = "opening" => port[link] = "opening"
    /\ sup \in Watching \union Closing => port[link] \in {"up", "down"}
    /\ \A c \in Links : port[c] = "opening" => c = link /\ sup = "opening"
    /\ \A c \in Links : port[c] # "closed" => c = link \/ c \in cut \/ (sup = "ended" /\ c = mc)
    /\ \A c \in cut : port[c] \in {"up", "down"} /\ c # link /\ (c = mc => tear = "done")
    /\ \A c \in words : port[c] \in {"down", "closed"}

\* What was said of connections before has been heard when the next is opened.
WordsOK ==
    /\ sup = "start" => words = {} /\ cut = {}
    /\ sup \in Watching \union {"opening"} => \A c \in words : port[c] # "closed"

\* The event is set for the connection in hand, or astray.
EventOK == sup \in Watching /\ event = "set" => port[link] = "down" \/ stray

CountsOK ==
    /\ sup = "pausing" /\ opt.limit # 0 => attempt < opt.limit
    /\ starts <= 1
    /\ sup = "polling" => starts = 0

\* How far detach is.
DetachOK ==
    /\ detached <=> tear # "none"
    /\ tear \notin {"none", "flagged", "asked"} => sup = "ended" /\ gate
    /\ tear = "hangingup" => mc # None
    /\ tear = "draining" => tasks \subseteq {"worker"}
    /\ tear \in {"hangingup", "done"} => tasks = {}
    /\ tear = "done" => \A c \in Links : port[c] \in {"opening", "up"} => c \in cut

Inv ==
    /\ TypeOK /\ HandsOK /\ PortsOK /\ WordsOK /\ EventOK /\ CountsOK /\ DetachOK /\ LossNoticed

-----------------------------------------------------------------------------
(* Each action keeps the invariant. *)

LEMMA OptFacts ==
    ASSUME Inv
    PROVE  /\ opt \in [serial : BOOLEAN, auto : BOOLEAN, limit : Limits]
           /\ opt.limit \in Nat /\ attempt \in Nat /\ attempt <= opt.limit
<1>1. opt \in [serial : BOOLEAN, auto : BOOLEAN, limit : Limits]
  BY DEF Inv, TypeOK
<1>2. opt.limit \in Nat
  BY <1>1, LimitAssumption
<1>3. attempt \in 0..opt.limit
  BY DEF Inv, TypeOK
<1> QED
  BY <1>1, <1>2, <1>3

\* The first attempt.
LEMMA StartInv ==
    ASSUME Inv, Start
    PROVE  Inv'
<1>1. TypeOK'
  <2>1. port' \in [Links -> {"closed", "opening", "up", "down"}]
    BY DEF Inv, TypeOK, Start, Head, Spare, options, told, Watching, SettingUp, Closing, Places
  <2>2. /\ attempt' \in 0..opt'.limit
        /\ opt' \in [serial : BOOLEAN, auto : BOOLEAN, limit : Limits]
    <3>1. opt' = opt
      BY DEF Start, options, Head
    <3>2. attempt' \in Nat /\ attempt' <= opt.limit
      BY OptFacts DEF Inv, CountsOK, Start, Head
    <3> QED
      BY OptFacts, <3>1, <3>2
  <2>3. /\ words' \subseteq Links /\ cut' \subseteq Links /\ link' \in Links \union {None}
        /\ mc' \in Links \union {None}
    BY NoneAssumption DEF Inv, TypeOK, HandsOK, Start, Head, Spare, options, told, Watching, SettingUp, Closing,
         Places
  <2>4. sup' \in Places /\ tear' \in Teardown /\ tasks' \subseteq Loops /\ starts' \in Nat
    BY DEF Inv, TypeOK, Teardown, Loops, Start, Head, Spare, options, told, Watching, SettingUp,
         Closing, Places
  <2>5. /\ event' \in {"none", "clear", "set"} /\ stray' \in BOOLEAN
        /\ online' \in BOOLEAN /\ detached' \in BOOLEAN /\ gate' \in BOOLEAN
    BY DEF Inv, TypeOK, Start, Head, Spare, options, told, Watching, SettingUp, Closing, Places
  <2> QED
    BY <2>1, <2>2, <2>3, <2>4, <2>5 DEF TypeOK
<1>2. HandsOK'
  BY NoneAssumption DEF Inv, TypeOK, HandsOK, Start, Head, Spare, options, told, Watching, SettingUp, Closing,
         Places
<1>3. PortsOK'
  BY NoneAssumption DEF Inv, TypeOK, HandsOK, PortsOK, DetachOK, Start, Head, Spare, options, told, Watching,
         SettingUp, Closing, Places
<1>4. WordsOK'
  BY NoneAssumption DEF Inv, TypeOK, HandsOK, PortsOK, WordsOK, Start, Head, Spare, options, told, Watching,
         SettingUp, Closing, Places
<1>5. EventOK'
  BY NoneAssumption DEF Inv, TypeOK, HandsOK, PortsOK, WordsOK, EventOK, Start, Head, Spare, options, told,
         Watching, SettingUp, Closing, Places
<1>6. CountsOK'
  BY NoneAssumption, LimitAssumption DEF Inv, TypeOK, CountsOK, Start, Head, Spare, options, told, Watching, SettingUp, Closing,
         Places
<1>7. DetachOK'
  BY NoneAssumption DEF Inv, TypeOK, HandsOK, PortsOK, DetachOK, Start, Head, Spare, options, told, Watching,
         SettingUp, Closing, Places
<1>8. LossNoticed'
  BY NoneAssumption DEF Inv, TypeOK, HandsOK, PortsOK, LossNoticed, Start, Head, Spare, options, told, Watching,
         SettingUp, Closing, Places
<1> QED
  BY <1>1, <1>2, <1>3, <1>4, <1>5, <1>6, <1>7, <1>8 DEF Inv

\* A further attempt.
LEMMA RetryInv ==
    ASSUME Inv, Retry
    PROVE  Inv'
<1>1. TypeOK'
  <2>1. port' \in [Links -> {"closed", "opening", "up", "down"}]
    BY DEF Inv, TypeOK, Retry, Head, Spare, options, told, Watching, SettingUp, Closing, Places
  <2>2. /\ attempt' \in 0..opt'.limit
        /\ opt' \in [serial : BOOLEAN, auto : BOOLEAN, limit : Limits]
    <3>1. opt' = opt
      BY DEF Retry, options, Head
    <3>2. attempt' \in Nat /\ attempt' <= opt.limit
      BY OptFacts DEF Inv, CountsOK, Retry, Head
    <3> QED
      BY OptFacts, <3>1, <3>2
  <2>3. /\ words' \subseteq Links /\ cut' \subseteq Links /\ link' \in Links \union {None}
        /\ mc' \in Links \union {None}
    BY NoneAssumption DEF Inv, TypeOK, HandsOK, Retry, Head, Spare, options, told, Watching, SettingUp, Closing,
         Places
  <2>4. sup' \in Places /\ tear' \in Teardown /\ tasks' \subseteq Loops /\ starts' \in Nat
    BY DEF Inv, TypeOK, Teardown, Loops, Retry, Head, Spare, options, told, Watching, SettingUp,
         Closing, Places
  <2>5. /\ event' \in {"none", "clear", "set"} /\ stray' \in BOOLEAN
        /\ online' \in BOOLEAN /\ detached' \in BOOLEAN /\ gate' \in BOOLEAN
    BY DEF Inv, TypeOK, Retry, Head, Spare, options, told, Watching, SettingUp, Closing, Places
  <2> QED
    BY <2>1, <2>2, <2>3, <2>4, <2>5 DEF TypeOK
<1>2. HandsOK'
  BY NoneAssumption DEF Inv, TypeOK, HandsOK, Retry, Head, Spare, options, told, Watching, SettingUp, Closing,
         Places
<1>3. PortsOK'
  BY NoneAssumption DEF Inv, TypeOK, HandsOK, PortsOK, DetachOK, Retry, Head, Spare, options, told, Watching,
         SettingUp, Closing, Places
<1>4. WordsOK'
  BY NoneAssumption DEF Inv, TypeOK, HandsOK, PortsOK, WordsOK, Retry, Head, Spare, options, told, Watching,
         SettingUp, Closing, Places
<1>5. EventOK'
  BY NoneAssumption DEF Inv, TypeOK, HandsOK, PortsOK, WordsOK, EventOK, Retry, Head, Spare, options, told,
         Watching, SettingUp, Closing, Places
<1>6. CountsOK'
  BY NoneAssumption, LimitAssumption DEF Inv, TypeOK, CountsOK, Retry, Head, Spare, options, told, Watching, SettingUp, Closing,
         Places
<1>7. DetachOK'
  BY NoneAssumption DEF Inv, TypeOK, HandsOK, PortsOK, DetachOK, Retry, Head, Spare, options, told, Watching,
         SettingUp, Closing, Places
<1>8. LossNoticed'
  BY NoneAssumption DEF Inv, TypeOK, HandsOK, PortsOK, LossNoticed, Retry, Head, Spare, options, told, Watching,
         SettingUp, Closing, Places
<1> QED
  BY <1>1, <1>2, <1>3, <1>4, <1>5, <1>6, <1>7, <1>8 DEF Inv

\* No port.
LEMMA OpenFailsInv ==
    ASSUME Inv, OpenFails
    PROVE  Inv'
<1>1. TypeOK'
  <2>1. port' \in [Links -> {"closed", "opening", "up", "down"}]
    BY DEF Inv, TypeOK, OpenFails, Foot, GivesUp, options, told, Watching, SettingUp, Closing,
         Places
  <2>2. /\ attempt' \in 0..opt'.limit
        /\ opt' \in [serial : BOOLEAN, auto : BOOLEAN, limit : Limits]
    <3>1. opt' = opt
      BY DEF OpenFails, options
    <3>2. attempt' \in Nat /\ attempt' <= opt.limit
      BY OptFacts DEF OpenFails, Foot, GivesUp
    <3> QED
      BY OptFacts, <3>1, <3>2
  <2>3. /\ words' \subseteq Links /\ cut' \subseteq Links /\ link' \in Links \union {None}
        /\ mc' \in Links \union {None}
    BY NoneAssumption DEF Inv, TypeOK, HandsOK, OpenFails, Foot, GivesUp, options, told, Watching,
         SettingUp, Closing, Places
  <2>4. sup' \in Places /\ tear' \in Teardown /\ tasks' \subseteq Loops /\ starts' \in Nat
    BY DEF Inv, TypeOK, Teardown, Loops, OpenFails, Foot, GivesUp, options, told, Watching,
         SettingUp, Closing, Places
  <2>5. /\ event' \in {"none", "clear", "set"} /\ stray' \in BOOLEAN
        /\ online' \in BOOLEAN /\ detached' \in BOOLEAN /\ gate' \in BOOLEAN
    BY DEF Inv, TypeOK, OpenFails, Foot, GivesUp, options, told, Watching, SettingUp, Closing,
         Places
  <2> QED
    BY <2>1, <2>2, <2>3, <2>4, <2>5 DEF TypeOK
<1>2. HandsOK'
  BY NoneAssumption DEF Inv, TypeOK, HandsOK, OpenFails, Foot, GivesUp, options, told, Watching, SettingUp,
         Closing, Places
<1>3. PortsOK'
  BY NoneAssumption DEF Inv, TypeOK, HandsOK, PortsOK, DetachOK, OpenFails, Foot, GivesUp, options, told,
         Watching, SettingUp, Closing, Places
<1>4. WordsOK'
  BY NoneAssumption DEF Inv, TypeOK, HandsOK, PortsOK, WordsOK, OpenFails, Foot, GivesUp, options, told,
         Watching, SettingUp, Closing, Places
<1>5. EventOK'
  BY NoneAssumption DEF Inv, TypeOK, HandsOK, PortsOK, WordsOK, EventOK, OpenFails, Foot, GivesUp, options,
         told, Watching, SettingUp, Closing, Places
<1>6. CountsOK'
  <2>1. opt' = opt /\ starts' = starts /\ sup' # "polling"
    BY DEF OpenFails, Foot, options
  <2>2. sup' = "pausing" /\ opt.limit # 0 => attempt' < opt.limit
    BY OptFacts DEF OpenFails, Foot, GivesUp
  <2> QED
    BY <2>1, <2>2 DEF Inv, CountsOK
<1>7. DetachOK'
  BY NoneAssumption DEF Inv, TypeOK, HandsOK, PortsOK, DetachOK, OpenFails, Foot, GivesUp, options, told,
         Watching, SettingUp, Closing, Places
<1>8. LossNoticed'
  BY NoneAssumption DEF Inv, TypeOK, HandsOK, PortsOK, LossNoticed, OpenFails, Foot, GivesUp, options, told,
         Watching, SettingUp, Closing, Places
<1> QED
  BY <1>1, <1>2, <1>3, <1>4, <1>5, <1>6, <1>7, <1>8 DEF Inv

\* A port: its event is clear, and nothing is said of it yet.
LEMMA OpenedInv ==
    ASSUME Inv, Opened
    PROVE  Inv'
<1>1. TypeOK'
  <2>1. port' \in [Links -> {"closed", "opening", "up", "down"}]
    BY DEF Inv, TypeOK, Opened, FreshEvent, options, Watching, SettingUp, Closing, Places
  <2>2. /\ attempt' \in 0..opt'.limit
        /\ opt' \in [serial : BOOLEAN, auto : BOOLEAN, limit : Limits]
    <3>1. opt' = opt
      BY DEF Opened, options
    <3>2. attempt' \in Nat /\ attempt' <= opt.limit
      BY OptFacts DEF Opened
    <3> QED
      BY OptFacts, <3>1, <3>2
  <2>3. /\ words' \subseteq Links /\ cut' \subseteq Links /\ link' \in Links \union {None}
        /\ mc' \in Links \union {None}
    BY NoneAssumption DEF Inv, TypeOK, HandsOK, Opened, FreshEvent, options, Watching, SettingUp,
         Closing, Places
  <2>4. sup' \in Places /\ tear' \in Teardown /\ tasks' \subseteq Loops /\ starts' \in Nat
    BY DEF Inv, TypeOK, Teardown, Loops, Opened, FreshEvent, options, Watching, SettingUp, Closing,
         Places
  <2>5. /\ event' \in {"none", "clear", "set"} /\ stray' \in BOOLEAN
        /\ online' \in BOOLEAN /\ detached' \in BOOLEAN /\ gate' \in BOOLEAN
    BY DEF Inv, TypeOK, Opened, FreshEvent, options, Watching, SettingUp, Closing, Places
  <2> QED
    BY <2>1, <2>2, <2>3, <2>4, <2>5 DEF TypeOK
<1>2. HandsOK'
  BY NoneAssumption DEF Inv, TypeOK, HandsOK, Opened, FreshEvent, options, Watching, SettingUp, Closing, Places
<1>3. PortsOK'
  BY NoneAssumption DEF Inv, TypeOK, HandsOK, PortsOK, DetachOK, Opened, FreshEvent, options, Watching,
         SettingUp, Closing, Places
<1>4. WordsOK'
  BY NoneAssumption DEF Inv, TypeOK, HandsOK, PortsOK, WordsOK, Opened, FreshEvent, options, Watching,
         SettingUp, Closing, Places
<1>5. EventOK'
  BY NoneAssumption DEF Inv, TypeOK, HandsOK, PortsOK, WordsOK, EventOK, Opened, FreshEvent, options, Watching,
         SettingUp, Closing, Places
<1>6. CountsOK'
  BY NoneAssumption, LimitAssumption DEF Inv, TypeOK, CountsOK, Opened, FreshEvent, options, Watching, SettingUp, Closing, Places
<1>7. DetachOK'
  BY NoneAssumption DEF Inv, TypeOK, HandsOK, PortsOK, DetachOK, Opened, FreshEvent, options, Watching,
         SettingUp, Closing, Places
<1>8. LossNoticed'
  BY NoneAssumption DEF Inv, TypeOK, HandsOK, PortsOK, LossNoticed, Opened, FreshEvent, options, Watching,
         SettingUp, Closing, Places
<1> QED
  BY <1>1, <1>2, <1>3, <1>4, <1>5, <1>6, <1>7, <1>8 DEF Inv

\* The set-up fails.
LEMMA SetupFailsInv ==
    ASSUME Inv, SetupFails
    PROVE  Inv'
<1>1. TypeOK'
  <2>1. port' \in [Links -> {"closed", "opening", "up", "down"}]
    BY DEF Inv, TypeOK, SetupFails, BeginClose, options, told, Watching, SettingUp, Closing,
         Places
  <2>2. /\ attempt' \in 0..opt'.limit
        /\ opt' \in [serial : BOOLEAN, auto : BOOLEAN, limit : Limits]
    <3>1. opt' = opt
      BY DEF SetupFails, options
    <3>2. attempt' \in Nat /\ attempt' <= opt.limit
      BY OptFacts DEF SetupFails
    <3> QED
      BY OptFacts, <3>1, <3>2
  <2>3. /\ words' \subseteq Links /\ cut' \subseteq Links /\ link' \in Links \union {None}
        /\ mc' \in Links \union {None}
    BY NoneAssumption DEF Inv, TypeOK, HandsOK, SetupFails, BeginClose, options, told, Watching,
         SettingUp, Closing, Places
  <2>4. sup' \in Places /\ tear' \in Teardown /\ tasks' \subseteq Loops /\ starts' \in Nat
    BY DEF Inv, TypeOK, Teardown, Loops, SetupFails, BeginClose, options, told, Watching,
         SettingUp, Closing, Places
  <2>5. /\ event' \in {"none", "clear", "set"} /\ stray' \in BOOLEAN
        /\ online' \in BOOLEAN /\ detached' \in BOOLEAN /\ gate' \in BOOLEAN
    BY DEF Inv, TypeOK, SetupFails, BeginClose, options, told, Watching, SettingUp, Closing,
         Places
  <2> QED
    BY <2>1, <2>2, <2>3, <2>4, <2>5 DEF TypeOK
<1>2. HandsOK'
  BY NoneAssumption DEF Inv, TypeOK, HandsOK, SetupFails, BeginClose, options, told, Watching, SettingUp,
         Closing, Places
<1>3. PortsOK'
  BY NoneAssumption DEF Inv, TypeOK, HandsOK, PortsOK, DetachOK, SetupFails, BeginClose, options, told,
         Watching, SettingUp, Closing, Places
<1>4. WordsOK'
  BY NoneAssumption DEF Inv, TypeOK, HandsOK, PortsOK, WordsOK, SetupFails, BeginClose, options, told,
         Watching, SettingUp, Closing, Places
<1>5. EventOK'
  BY NoneAssumption DEF Inv, TypeOK, HandsOK, PortsOK, WordsOK, EventOK, SetupFails, BeginClose, options,
         told, Watching, SettingUp, Closing, Places
<1>6. CountsOK'
  BY NoneAssumption, LimitAssumption DEF Inv, TypeOK, CountsOK, SetupFails, BeginClose, options, told, Watching, SettingUp,
         Closing, Places
<1>7. DetachOK'
  BY NoneAssumption DEF Inv, TypeOK, HandsOK, PortsOK, DetachOK, SetupFails, BeginClose, options, told,
         Watching, SettingUp, Closing, Places
<1>8. LossNoticed'
  BY NoneAssumption DEF Inv, TypeOK, HandsOK, PortsOK, LossNoticed, SetupFails, BeginClose, options, told,
         Watching, SettingUp, Closing, Places
<1> QED
  BY <1>1, <1>2, <1>3, <1>4, <1>5, <1>6, <1>7, <1>8 DEF Inv

\* The radio answers.
LEMMA HandshakeAnsweredInv ==
    ASSUME Inv, HandshakeAnswered
    PROVE  Inv'
<1>1. TypeOK'
  <2>1. port' \in [Links -> {"closed", "opening", "up", "down"}]
    BY DEF Inv, TypeOK, HandshakeAnswered, options, told, Watching, SettingUp, Closing, Places
  <2>2. /\ attempt' \in 0..opt'.limit
        /\ opt' \in [serial : BOOLEAN, auto : BOOLEAN, limit : Limits]
    <3>1. opt' = opt
      BY DEF HandshakeAnswered, options
    <3>2. attempt' \in Nat /\ attempt' <= opt.limit
      BY OptFacts DEF HandshakeAnswered
    <3> QED
      BY OptFacts, <3>1, <3>2
  <2>3. /\ words' \subseteq Links /\ cut' \subseteq Links /\ link' \in Links \union {None}
        /\ mc' \in Links \union {None}
    BY NoneAssumption DEF Inv, TypeOK, HandsOK, HandshakeAnswered, options, told, Watching,
         SettingUp, Closing, Places
  <2>4. sup' \in Places /\ tear' \in Teardown /\ tasks' \subseteq Loops /\ starts' \in Nat
    BY DEF Inv, TypeOK, Teardown, Loops, HandshakeAnswered, options, told, Watching, SettingUp,
         Closing, Places
  <2>5. /\ event' \in {"none", "clear", "set"} /\ stray' \in BOOLEAN
        /\ online' \in BOOLEAN /\ detached' \in BOOLEAN /\ gate' \in BOOLEAN
    BY DEF Inv, TypeOK, HandshakeAnswered, options, told, Watching, SettingUp, Closing, Places
  <2> QED
    BY <2>1, <2>2, <2>3, <2>4, <2>5 DEF TypeOK
<1>2. HandsOK'
  BY NoneAssumption DEF Inv, TypeOK, HandsOK, HandshakeAnswered, options, told, Watching, SettingUp, Closing,
         Places
<1>3. PortsOK'
  BY NoneAssumption DEF Inv, TypeOK, HandsOK, PortsOK, DetachOK, HandshakeAnswered, options, told, Watching,
         SettingUp, Closing, Places
<1>4. WordsOK'
  BY NoneAssumption DEF Inv, TypeOK, HandsOK, PortsOK, WordsOK, HandshakeAnswered, options, told, Watching,
         SettingUp, Closing, Places
<1>5. EventOK'
  BY NoneAssumption DEF Inv, TypeOK, HandsOK, PortsOK, WordsOK, EventOK, HandshakeAnswered, options, told,
         Watching, SettingUp, Closing, Places
<1>6. CountsOK'
  BY NoneAssumption, LimitAssumption DEF Inv, TypeOK, CountsOK, HandshakeAnswered, options, told, Watching, SettingUp, Closing,
         Places
<1>7. DetachOK'
  BY NoneAssumption DEF Inv, TypeOK, HandsOK, PortsOK, DetachOK, HandshakeAnswered, options, told, Watching,
         SettingUp, Closing, Places
<1>8. LossNoticed'
  BY NoneAssumption DEF Inv, TypeOK, HandsOK, PortsOK, LossNoticed, HandshakeAnswered, options, told, Watching,
         SettingUp, Closing, Places
<1> QED
  BY <1>1, <1>2, <1>3, <1>4, <1>5, <1>6, <1>7, <1>8 DEF Inv

\* On line.
LEMMA SettingsDoneInv ==
    ASSUME Inv, SettingsDone
    PROVE  Inv'
<1>1. TypeOK'
  <2>1. port' \in [Links -> {"closed", "opening", "up", "down"}]
    BY DEF Inv, TypeOK, SettingsDone, options, told, Watching, SettingUp, Closing, Places
  <2>2. /\ attempt' \in 0..opt'.limit
        /\ opt' \in [serial : BOOLEAN, auto : BOOLEAN, limit : Limits]
    <3>1. opt' = opt
      BY DEF SettingsDone, options
    <3>2. attempt' \in Nat /\ attempt' <= opt.limit
      BY OptFacts DEF SettingsDone
    <3> QED
      BY OptFacts, <3>1, <3>2
  <2>3. /\ words' \subseteq Links /\ cut' \subseteq Links /\ link' \in Links \union {None}
        /\ mc' \in Links \union {None}
    BY NoneAssumption DEF Inv, TypeOK, HandsOK, SettingsDone, options, told, Watching, SettingUp,
         Closing, Places
  <2>4. sup' \in Places /\ tear' \in Teardown /\ tasks' \subseteq Loops /\ starts' \in Nat
    BY DEF Inv, TypeOK, Teardown, Loops, SettingsDone, options, told, Watching, SettingUp, Closing,
         Places
  <2>5. /\ event' \in {"none", "clear", "set"} /\ stray' \in BOOLEAN
        /\ online' \in BOOLEAN /\ detached' \in BOOLEAN /\ gate' \in BOOLEAN
    BY DEF Inv, TypeOK, SettingsDone, options, told, Watching, SettingUp, Closing, Places
  <2> QED
    BY <2>1, <2>2, <2>3, <2>4, <2>5 DEF TypeOK
<1>2. HandsOK'
  BY NoneAssumption DEF Inv, TypeOK, HandsOK, SettingsDone, options, told, Watching, SettingUp, Closing, Places
<1>3. PortsOK'
  BY NoneAssumption DEF Inv, TypeOK, HandsOK, PortsOK, DetachOK, SettingsDone, options, told, Watching,
         SettingUp, Closing, Places
<1>4. WordsOK'
  BY NoneAssumption DEF Inv, TypeOK, HandsOK, PortsOK, WordsOK, SettingsDone, options, told, Watching,
         SettingUp, Closing, Places
<1>5. EventOK'
  BY NoneAssumption DEF Inv, TypeOK, HandsOK, PortsOK, WordsOK, EventOK, SettingsDone, options, told, Watching,
         SettingUp, Closing, Places
<1>6. CountsOK'
  BY NoneAssumption, LimitAssumption DEF Inv, TypeOK, CountsOK, SettingsDone, options, told, Watching, SettingUp, Closing, Places
<1>7. DetachOK'
  BY NoneAssumption DEF Inv, TypeOK, HandsOK, PortsOK, DetachOK, SettingsDone, options, told, Watching,
         SettingUp, Closing, Places
<1>8. LossNoticed'
  BY NoneAssumption DEF Inv, TypeOK, HandsOK, PortsOK, LossNoticed, SettingsDone, options, told, Watching,
         SettingUp, Closing, Places
<1> QED
  BY <1>1, <1>2, <1>3, <1>4, <1>5, <1>6, <1>7, <1>8 DEF Inv

\* The loops are started once.
LEMMA ContactsDoneInv ==
    ASSUME Inv, ContactsDone
    PROVE  Inv'
<1>1. TypeOK'
  <2>1. port' \in [Links -> {"closed", "opening", "up", "down"}]
    BY DEF Inv, TypeOK, ContactsDone, FirstConnection, options, told, Watching, SettingUp, Closing,
         Places
  <2>2. /\ attempt' \in 0..opt'.limit
        /\ opt' \in [serial : BOOLEAN, auto : BOOLEAN, limit : Limits]
    <3>1. opt' = opt
      BY DEF ContactsDone, options
    <3>2. attempt' \in Nat /\ attempt' <= opt.limit
      BY OptFacts DEF Inv, CountsOK, ContactsDone
    <3> QED
      BY OptFacts, <3>1, <3>2
  <2>3. /\ words' \subseteq Links /\ cut' \subseteq Links /\ link' \in Links \union {None}
        /\ mc' \in Links \union {None}
    BY NoneAssumption DEF Inv, TypeOK, HandsOK, ContactsDone, FirstConnection, options, told, Watching, SettingUp,
         Closing, Places
  <2>4. sup' \in Places /\ tear' \in Teardown /\ tasks' \subseteq Loops /\ starts' \in Nat
    BY DEF Inv, TypeOK, Teardown, Loops, ContactsDone, FirstConnection, options, told, Watching,
         SettingUp, Closing, Places
  <2>5. /\ event' \in {"none", "clear", "set"} /\ stray' \in BOOLEAN
        /\ online' \in BOOLEAN /\ detached' \in BOOLEAN /\ gate' \in BOOLEAN
    BY DEF Inv, TypeOK, ContactsDone, FirstConnection, options, told, Watching, SettingUp, Closing,
         Places
  <2> QED
    BY <2>1, <2>2, <2>3, <2>4, <2>5 DEF TypeOK
<1>2. HandsOK'
  BY NoneAssumption DEF Inv, TypeOK, HandsOK, ContactsDone, FirstConnection, options, told, Watching, SettingUp,
         Closing, Places
<1>3. PortsOK'
  BY NoneAssumption DEF Inv, TypeOK, HandsOK, PortsOK, DetachOK, ContactsDone, FirstConnection, options, told,
         Watching, SettingUp, Closing, Places
<1>4. WordsOK'
  BY NoneAssumption DEF Inv, TypeOK, HandsOK, PortsOK, WordsOK, ContactsDone, FirstConnection, options, told,
         Watching, SettingUp, Closing, Places
<1>5. EventOK'
  BY NoneAssumption DEF Inv, TypeOK, HandsOK, PortsOK, WordsOK, EventOK, ContactsDone, FirstConnection, options,
         told, Watching, SettingUp, Closing, Places
<1>6. CountsOK'
  BY NoneAssumption, LimitAssumption DEF Inv, TypeOK, CountsOK, ContactsDone, FirstConnection, options, told, Watching,
         SettingUp, Closing, Places
<1>7. DetachOK'
  BY NoneAssumption DEF Inv, TypeOK, HandsOK, PortsOK, DetachOK, ContactsDone, FirstConnection, options, told,
         Watching, SettingUp, Closing, Places
<1>8. LossNoticed'
  BY NoneAssumption DEF Inv, TypeOK, HandsOK, PortsOK, LossNoticed, ContactsDone, FirstConnection, options,
         told, Watching, SettingUp, Closing, Places
<1> QED
  BY <1>1, <1>2, <1>3, <1>4, <1>5, <1>6, <1>7, <1>8 DEF Inv

\* The set-up is over.
LEMMA SetupDoneInv ==
    ASSUME Inv, SetupDone
    PROVE  Inv'
<1>1. TypeOK'
  <2>1. port' \in [Links -> {"closed", "opening", "up", "down"}]
    BY DEF Inv, TypeOK, SetupDone, AlreadyLost, BeginClose, Loops, options, told, Watching,
         SettingUp, Closing, Places
  <2>2. /\ attempt' \in 0..opt'.limit
        /\ opt' \in [serial : BOOLEAN, auto : BOOLEAN, limit : Limits]
    <3>1. opt' = opt
      BY DEF SetupDone, options
    <3>2. attempt' \in Nat /\ attempt' <= opt.limit
      BY OptFacts DEF Inv, CountsOK, SetupDone
    <3> QED
      BY OptFacts, <3>1, <3>2
  <2>3. /\ words' \subseteq Links /\ cut' \subseteq Links /\ link' \in Links \union {None}
        /\ mc' \in Links \union {None}
    BY NoneAssumption DEF Inv, TypeOK, HandsOK, SetupDone, AlreadyLost, BeginClose, Loops, options, told,
         Watching, SettingUp, Closing, Places
  <2>4. sup' \in Places /\ tear' \in Teardown /\ tasks' \subseteq Loops /\ starts' \in Nat
    <3>1. starts' \in Nat
      BY DEF SetupDone, Inv, TypeOK
    <3>2. sup' \in Places /\ tear' \in Teardown /\ tasks' \subseteq Loops
      BY DEF Inv, TypeOK, SetupDone, BeginClose, Places, SettingUp, Closing
    <3> QED
      BY <3>1, <3>2
  <2>5. /\ event' \in {"none", "clear", "set"} /\ stray' \in BOOLEAN
        /\ online' \in BOOLEAN /\ detached' \in BOOLEAN /\ gate' \in BOOLEAN
    BY DEF Inv, TypeOK, SetupDone, AlreadyLost, BeginClose, Loops, options, told, Watching,
         SettingUp, Closing, Places
  <2> QED
    BY <2>1, <2>2, <2>3, <2>4, <2>5 DEF TypeOK
<1>2. HandsOK'
  BY NoneAssumption DEF Inv, TypeOK, HandsOK, SetupDone, AlreadyLost, BeginClose, Loops, options, told,
         Watching, SettingUp, Closing, Places
<1>3. PortsOK'
  BY NoneAssumption DEF Inv, TypeOK, HandsOK, PortsOK, DetachOK, SetupDone, AlreadyLost, BeginClose, Loops,
         options, told, Watching, SettingUp, Closing, Places
<1>4. WordsOK'
  BY NoneAssumption DEF Inv, TypeOK, HandsOK, PortsOK, WordsOK, SetupDone, AlreadyLost, BeginClose, Loops,
         options, told, Watching, SettingUp, Closing, Places
<1>5. EventOK'
  BY NoneAssumption DEF Inv, TypeOK, HandsOK, PortsOK, WordsOK, EventOK, SetupDone, AlreadyLost, BeginClose,
         Loops, options, told, Watching, SettingUp, Closing, Places
<1>6. CountsOK'
  BY NoneAssumption, LimitAssumption DEF Inv, TypeOK, CountsOK, SetupDone, AlreadyLost, BeginClose, Loops, options, told,
         Watching, SettingUp, Closing, Places
<1>7. DetachOK'
  BY NoneAssumption DEF Inv, TypeOK, HandsOK, PortsOK, DetachOK, SetupDone, AlreadyLost, BeginClose, Loops,
         options, told, Watching, SettingUp, Closing, Places
<1>8. LossNoticed'
  BY NoneAssumption DEF Inv, TypeOK, HandsOK, PortsOK, LossNoticed, SetupDone, AlreadyLost, BeginClose, Loops,
         options, told, Watching, SettingUp, Closing, Places
<1> QED
  BY <1>1, <1>2, <1>3, <1>4, <1>5, <1>6, <1>7, <1>8 DEF Inv

\* A loss is noticed.
LEMMA LostInv ==
    ASSUME Inv, Lost
    PROVE  Inv'
<1>1. TypeOK'
  <2>1. port' \in [Links -> {"closed", "opening", "up", "down"}]
    BY DEF Inv, TypeOK, Lost, BeginClose, options, told, Watching, SettingUp, Closing, Places
  <2>2. /\ attempt' \in 0..opt'.limit
        /\ opt' \in [serial : BOOLEAN, auto : BOOLEAN, limit : Limits]
    <3>1. opt' = opt
      BY DEF Lost, options
    <3>2. attempt' \in Nat /\ attempt' <= opt.limit
      BY OptFacts DEF Lost
    <3> QED
      BY OptFacts, <3>1, <3>2
  <2>3. /\ words' \subseteq Links /\ cut' \subseteq Links /\ link' \in Links \union {None}
        /\ mc' \in Links \union {None}
    BY NoneAssumption DEF Inv, TypeOK, HandsOK, Lost, BeginClose, options, told, Watching,
         SettingUp, Closing, Places
  <2>4. sup' \in Places /\ tear' \in Teardown /\ tasks' \subseteq Loops /\ starts' \in Nat
    BY DEF Inv, TypeOK, Teardown, Loops, Lost, BeginClose, options, told, Watching, SettingUp,
         Closing, Places
  <2>5. /\ event' \in {"none", "clear", "set"} /\ stray' \in BOOLEAN
        /\ online' \in BOOLEAN /\ detached' \in BOOLEAN /\ gate' \in BOOLEAN
    BY DEF Inv, TypeOK, Lost, BeginClose, options, told, Watching, SettingUp, Closing, Places
  <2> QED
    BY <2>1, <2>2, <2>3, <2>4, <2>5 DEF TypeOK
<1>2. HandsOK'
  BY NoneAssumption DEF Inv, TypeOK, HandsOK, Lost, BeginClose, options, told, Watching, SettingUp, Closing,
         Places
<1>3. PortsOK'
  BY NoneAssumption DEF Inv, TypeOK, HandsOK, PortsOK, DetachOK, Lost, BeginClose, options, told, Watching,
         SettingUp, Closing, Places
<1>4. WordsOK'
  BY NoneAssumption DEF Inv, TypeOK, HandsOK, PortsOK, WordsOK, Lost, BeginClose, options, told, Watching,
         SettingUp, Closing, Places
<1>5. EventOK'
  BY NoneAssumption DEF Inv, TypeOK, HandsOK, PortsOK, WordsOK, EventOK, Lost, BeginClose, options, told,
         Watching, SettingUp, Closing, Places
<1>6. CountsOK'
  BY NoneAssumption, LimitAssumption DEF Inv, TypeOK, CountsOK, Lost, BeginClose, options, told, Watching, SettingUp, Closing,
         Places
<1>7. DetachOK'
  BY NoneAssumption DEF Inv, TypeOK, HandsOK, PortsOK, DetachOK, Lost, BeginClose, options, told, Watching,
         SettingUp, Closing, Places
<1>8. LossNoticed'
  BY NoneAssumption DEF Inv, TypeOK, HandsOK, PortsOK, LossNoticed, Lost, BeginClose, options, told, Watching,
         SettingUp, Closing, Places
<1> QED
  BY <1>1, <1>2, <1>3, <1>4, <1>5, <1>6, <1>7, <1>8 DEF Inv

\* A connection is closed, or left open and noted.
LEMMA CloseDoneInv ==
    ASSUME Inv, CloseDone
    PROVE  Inv'
<1>1. TypeOK'
  <2>1. port' \in [Links -> {"closed", "opening", "up", "down"}]
    BY DEF Inv, TypeOK, CloseDone, Closes, Foot, GivesUp, options, told, Watching, SettingUp,
         Closing, Places
  <2>2. /\ attempt' \in 0..opt'.limit
        /\ opt' \in [serial : BOOLEAN, auto : BOOLEAN, limit : Limits]
    <3>1. opt' = opt
      BY DEF CloseDone, options
    <3>2. attempt' \in Nat /\ attempt' <= opt.limit
      BY OptFacts DEF Inv, CountsOK, CloseDone, Foot, GivesUp
    <3> QED
      BY OptFacts, <3>1, <3>2
  <2>3. /\ words' \subseteq Links /\ cut' \subseteq Links /\ link' \in Links \union {None}
        /\ mc' \in Links \union {None}
    BY NoneAssumption DEF Inv, TypeOK, HandsOK, CloseDone, Closes, Foot, GivesUp, options, told, Watching,
         SettingUp, Closing, Places
  <2>4. sup' \in Places /\ tear' \in Teardown /\ tasks' \subseteq Loops /\ starts' \in Nat
    BY DEF Inv, TypeOK, Teardown, Loops, CloseDone, Closes, Foot, GivesUp, options, told, Watching,
         SettingUp, Closing, Places
  <2>5. /\ event' \in {"none", "clear", "set"} /\ stray' \in BOOLEAN
        /\ online' \in BOOLEAN /\ detached' \in BOOLEAN /\ gate' \in BOOLEAN
    BY DEF Inv, TypeOK, CloseDone, Closes, Foot, GivesUp, options, told, Watching, SettingUp,
         Closing, Places
  <2> QED
    BY <2>1, <2>2, <2>3, <2>4, <2>5 DEF TypeOK
<1>2. HandsOK'
  BY NoneAssumption DEF Inv, TypeOK, HandsOK, CloseDone, Closes, Foot, GivesUp, options, told, Watching,
         SettingUp, Closing, Places
<1>3. PortsOK'
  BY NoneAssumption DEF Inv, TypeOK, HandsOK, PortsOK, DetachOK, CloseDone, Closes, Foot, GivesUp, options,
         told, Watching, SettingUp, Closing, Places
<1>4. WordsOK'
  BY NoneAssumption DEF Inv, TypeOK, HandsOK, PortsOK, WordsOK, CloseDone, Closes, Foot, GivesUp, options, told,
         Watching, SettingUp, Closing, Places
<1>5. EventOK'
  BY NoneAssumption DEF Inv, TypeOK, HandsOK, PortsOK, WordsOK, EventOK, CloseDone, Closes, Foot, GivesUp,
         options, told, Watching, SettingUp, Closing, Places
<1>6. CountsOK'
  <2>1. opt' = opt /\ starts' = starts /\ sup' # "polling"
    BY DEF CloseDone, Foot, options
  <2>2. sup' = "pausing" /\ opt.limit # 0 => attempt' < opt.limit
    BY OptFacts DEF CloseDone, Foot, GivesUp
  <2> QED
    BY <2>1, <2>2 DEF Inv, CountsOK
<1>7. DetachOK'
  BY NoneAssumption DEF Inv, TypeOK, HandsOK, PortsOK, DetachOK, CloseDone, Closes, Foot, GivesUp, options,
         told, Watching, SettingUp, Closing, Places
<1>8. LossNoticed'
  BY NoneAssumption DEF Inv, TypeOK, HandsOK, PortsOK, LossNoticed, CloseDone, Closes, Foot, GivesUp, options,
         told, Watching, SettingUp, Closing, Places
<1> QED
  BY <1>1, <1>2, <1>3, <1>4, <1>5, <1>6, <1>7, <1>8 DEF Inv

\* detach begins.
LEMMA DetachInv ==
    ASSUME Inv, Detach
    PROVE  Inv'
<1>1. TypeOK'
  <2>1. port' \in [Links -> {"closed", "opening", "up", "down"}]
    BY DEF Inv, TypeOK, Detach, told, Watching, SettingUp, Closing, Places
  <2>2. /\ attempt' \in 0..opt'.limit
        /\ opt' \in [serial : BOOLEAN, auto : BOOLEAN, limit : Limits]
    <3>1. opt' = opt
      BY DEF Detach
    <3>2. attempt' \in Nat /\ attempt' <= opt.limit
      BY OptFacts DEF Detach
    <3> QED
      BY OptFacts, <3>1, <3>2
  <2>3. /\ words' \subseteq Links /\ cut' \subseteq Links /\ link' \in Links \union {None}
        /\ mc' \in Links \union {None}
    BY NoneAssumption DEF Inv, TypeOK, HandsOK, Detach, told, Watching, SettingUp, Closing, Places
  <2>4. sup' \in Places /\ tear' \in Teardown /\ tasks' \subseteq Loops /\ starts' \in Nat
    BY DEF Inv, TypeOK, Teardown, Loops, Detach, told, Watching, SettingUp, Closing, Places
  <2>5. /\ event' \in {"none", "clear", "set"} /\ stray' \in BOOLEAN
        /\ online' \in BOOLEAN /\ detached' \in BOOLEAN /\ gate' \in BOOLEAN
    BY DEF Inv, TypeOK, Detach, told, Watching, SettingUp, Closing, Places
  <2> QED
    BY <2>1, <2>2, <2>3, <2>4, <2>5 DEF TypeOK
<1>2. HandsOK'
  BY NoneAssumption DEF Inv, TypeOK, HandsOK, Detach, Teardown, told, Watching, SettingUp, Closing, Places
<1>3. PortsOK'
  BY NoneAssumption DEF Inv, TypeOK, HandsOK, PortsOK, DetachOK, Detach, Teardown, told, Watching, SettingUp,
         Closing, Places
<1>4. WordsOK'
  BY NoneAssumption DEF Inv, TypeOK, HandsOK, PortsOK, WordsOK, Detach, Teardown, told, Watching, SettingUp,
         Closing, Places
<1>5. EventOK'
  BY NoneAssumption DEF Inv, TypeOK, HandsOK, PortsOK, WordsOK, EventOK, Detach, Teardown, told, Watching,
         SettingUp, Closing, Places
<1>6. CountsOK'
  BY NoneAssumption, LimitAssumption DEF Inv, TypeOK, CountsOK, Detach, Teardown, told, Watching, SettingUp, Closing, Places
<1>7. DetachOK'
  BY NoneAssumption DEF Inv, TypeOK, HandsOK, PortsOK, DetachOK, Detach, Teardown, told, Watching, SettingUp,
         Closing, Places
<1>8. LossNoticed'
  BY NoneAssumption DEF Inv, TypeOK, HandsOK, PortsOK, LossNoticed, Detach, Teardown, told, Watching, SettingUp,
         Closing, Places
<1> QED
  BY <1>1, <1>2, <1>3, <1>4, <1>5, <1>6, <1>7, <1>8 DEF Inv

\* detach goes on.
LEMMA DetachOfflineInv ==
    ASSUME Inv, DetachOffline
    PROVE  Inv'
<1>1. TypeOK'
  <2>1. port' \in [Links -> {"closed", "opening", "up", "down"}]
    BY DEF Inv, TypeOK, DetachOffline, options, told, Watching, SettingUp, Closing, Places
  <2>2. /\ attempt' \in 0..opt'.limit
        /\ opt' \in [serial : BOOLEAN, auto : BOOLEAN, limit : Limits]
    <3>1. opt' = opt
      BY DEF DetachOffline, options
    <3>2. attempt' \in Nat /\ attempt' <= opt.limit
      BY OptFacts DEF DetachOffline
    <3> QED
      BY OptFacts, <3>1, <3>2
  <2>3. /\ words' \subseteq Links /\ cut' \subseteq Links /\ link' \in Links \union {None}
        /\ mc' \in Links \union {None}
    BY NoneAssumption DEF Inv, TypeOK, HandsOK, DetachOffline, options, told, Watching, SettingUp,
         Closing, Places
  <2>4. sup' \in Places /\ tear' \in Teardown /\ tasks' \subseteq Loops /\ starts' \in Nat
    BY DEF Inv, TypeOK, Teardown, Loops, DetachOffline, options, told, Watching, SettingUp, Closing,
         Places
  <2>5. /\ event' \in {"none", "clear", "set"} /\ stray' \in BOOLEAN
        /\ online' \in BOOLEAN /\ detached' \in BOOLEAN /\ gate' \in BOOLEAN
    BY DEF Inv, TypeOK, DetachOffline, options, told, Watching, SettingUp, Closing, Places
  <2> QED
    BY <2>1, <2>2, <2>3, <2>4, <2>5 DEF TypeOK
<1>2. HandsOK'
  BY NoneAssumption DEF Inv, TypeOK, HandsOK, DetachOffline, Teardown, options, told, Watching, SettingUp,
         Closing, Places
<1>3. PortsOK'
  BY NoneAssumption DEF Inv, TypeOK, HandsOK, PortsOK, DetachOK, DetachOffline, Teardown, options, told,
         Watching, SettingUp, Closing, Places
<1>4. WordsOK'
  BY NoneAssumption DEF Inv, TypeOK, HandsOK, PortsOK, WordsOK, DetachOffline, Teardown, options, told,
         Watching, SettingUp, Closing, Places
<1>5. EventOK'
  BY NoneAssumption DEF Inv, TypeOK, HandsOK, PortsOK, WordsOK, EventOK, DetachOffline, Teardown, options, told,
         Watching, SettingUp, Closing, Places
<1>6. CountsOK'
  BY NoneAssumption, LimitAssumption DEF Inv, TypeOK, CountsOK, DetachOffline, Teardown, options, told, Watching, SettingUp,
         Closing, Places
<1>7. DetachOK'
  BY NoneAssumption DEF Inv, TypeOK, HandsOK, PortsOK, DetachOK, DetachOffline, Teardown, options, told,
         Watching, SettingUp, Closing, Places
<1>8. LossNoticed'
  BY NoneAssumption DEF Inv, TypeOK, HandsOK, PortsOK, LossNoticed, DetachOffline, Teardown, options, told,
         Watching, SettingUp, Closing, Places
<1> QED
  BY <1>1, <1>2, <1>3, <1>4, <1>5, <1>6, <1>7, <1>8 DEF Inv

\* The supervisor is cancelled.
LEMMA TeardownBeginsInv ==
    ASSUME Inv, TeardownBegins
    PROVE  Inv'
<1>1. TypeOK'
  <2>1. port' \in [Links -> {"closed", "opening", "up", "down"}]
    BY DEF Inv, TypeOK, TeardownBegins, CancelSupervisor, Teardown, options, told, Watching,
         SettingUp, Closing, Places
  <2>2. /\ attempt' \in 0..opt'.limit
        /\ opt' \in [serial : BOOLEAN, auto : BOOLEAN, limit : Limits]
    <3>1. opt' = opt
      BY DEF TeardownBegins, options
    <3>2. attempt' \in Nat /\ attempt' <= opt.limit
      BY OptFacts DEF Inv, CountsOK, TeardownBegins
    <3> QED
      BY OptFacts, <3>1, <3>2
  <2>3. /\ words' \subseteq Links /\ cut' \subseteq Links /\ link' \in Links \union {None}
        /\ mc' \in Links \union {None}
    BY NoneAssumption DEF Inv, TypeOK, HandsOK, TeardownBegins, CancelSupervisor, Teardown, options, told,
         Watching, SettingUp, Closing, Places
  <2>4. sup' \in Places /\ tear' \in Teardown /\ tasks' \subseteq Loops /\ starts' \in Nat
    BY DEF Inv, TypeOK, Teardown, Loops, TeardownBegins, CancelSupervisor, options, told, Watching,
         SettingUp, Closing, Places
  <2>5. /\ event' \in {"none", "clear", "set"} /\ stray' \in BOOLEAN
        /\ online' \in BOOLEAN /\ detached' \in BOOLEAN /\ gate' \in BOOLEAN
    BY DEF Inv, TypeOK, TeardownBegins, CancelSupervisor, Teardown, options, told, Watching,
         SettingUp, Closing, Places
  <2> QED
    BY <2>1, <2>2, <2>3, <2>4, <2>5 DEF TypeOK
<1>2. HandsOK'
  BY NoneAssumption DEF Inv, TypeOK, HandsOK, TeardownBegins, CancelSupervisor, Teardown, options, told,
         Watching, SettingUp, Closing, Places
<1>3. PortsOK'
  BY NoneAssumption DEF Inv, TypeOK, HandsOK, PortsOK, DetachOK, TeardownBegins, CancelSupervisor, Teardown,
         options, told, Watching, SettingUp, Closing, Places
<1>4. WordsOK'
  BY NoneAssumption DEF Inv, TypeOK, HandsOK, PortsOK, WordsOK, TeardownBegins, CancelSupervisor, Teardown,
         options, told, Watching, SettingUp, Closing, Places
<1>5. EventOK'
  BY NoneAssumption DEF Inv, TypeOK, HandsOK, PortsOK, WordsOK, EventOK, TeardownBegins, CancelSupervisor,
         Teardown, options, told, Watching, SettingUp, Closing, Places
<1>6. CountsOK'
  BY NoneAssumption, LimitAssumption DEF Inv, TypeOK, CountsOK, TeardownBegins, CancelSupervisor, Teardown, options, told,
         Watching, SettingUp, Closing, Places
<1>7. DetachOK'
  BY NoneAssumption DEF Inv, TypeOK, HandsOK, PortsOK, DetachOK, TeardownBegins, CancelSupervisor, Teardown,
         options, told, Watching, SettingUp, Closing, Places
<1>8. LossNoticed'
  BY NoneAssumption DEF Inv, TypeOK, HandsOK, PortsOK, LossNoticed, TeardownBegins, CancelSupervisor, Teardown,
         options, told, Watching, SettingUp, Closing, Places
<1> QED
  BY <1>1, <1>2, <1>3, <1>4, <1>5, <1>6, <1>7, <1>8 DEF Inv

\* The loops end.
LEMMA TeardownPolledInv ==
    ASSUME Inv, TeardownPolled
    PROVE  Inv'
<1>1. TypeOK'
  <2>1. port' \in [Links -> {"closed", "opening", "up", "down"}]
    BY DEF Inv, TypeOK, TeardownPolled, options, told, Watching, SettingUp, Closing, Places
  <2>2. /\ attempt' \in 0..opt'.limit
        /\ opt' \in [serial : BOOLEAN, auto : BOOLEAN, limit : Limits]
    <3>1. opt' = opt
      BY DEF TeardownPolled, options
    <3>2. attempt' \in Nat /\ attempt' <= opt.limit
      BY OptFacts DEF TeardownPolled
    <3> QED
      BY OptFacts, <3>1, <3>2
  <2>3. /\ words' \subseteq Links /\ cut' \subseteq Links /\ link' \in Links \union {None}
        /\ mc' \in Links \union {None}
    BY NoneAssumption DEF Inv, TypeOK, HandsOK, TeardownPolled, options, told, Watching, SettingUp,
         Closing, Places
  <2>4. sup' \in Places /\ tear' \in Teardown /\ tasks' \subseteq Loops /\ starts' \in Nat
    BY DEF Inv, TypeOK, Teardown, Loops, TeardownPolled, options, told, Watching, SettingUp,
         Closing, Places
  <2>5. /\ event' \in {"none", "clear", "set"} /\ stray' \in BOOLEAN
        /\ online' \in BOOLEAN /\ detached' \in BOOLEAN /\ gate' \in BOOLEAN
    BY DEF Inv, TypeOK, TeardownPolled, options, told, Watching, SettingUp, Closing, Places
  <2> QED
    BY <2>1, <2>2, <2>3, <2>4, <2>5 DEF TypeOK
<1>2. HandsOK'
  BY NoneAssumption DEF Inv, TypeOK, HandsOK, TeardownPolled, Teardown, Loops, options, told, Watching,
         SettingUp, Closing, Places
<1>3. PortsOK'
  BY NoneAssumption DEF Inv, TypeOK, HandsOK, PortsOK, DetachOK, TeardownPolled, Teardown, Loops, options, told,
         Watching, SettingUp, Closing, Places
<1>4. WordsOK'
  BY NoneAssumption DEF Inv, TypeOK, HandsOK, PortsOK, WordsOK, TeardownPolled, Teardown, Loops, options, told,
         Watching, SettingUp, Closing, Places
<1>5. EventOK'
  BY NoneAssumption DEF Inv, TypeOK, HandsOK, PortsOK, WordsOK, EventOK, TeardownPolled, Teardown, Loops,
         options, told, Watching, SettingUp, Closing, Places
<1>6. CountsOK'
  BY NoneAssumption, LimitAssumption DEF Inv, TypeOK, CountsOK, TeardownPolled, Teardown, Loops, options, told, Watching,
         SettingUp, Closing, Places
<1>7. DetachOK'
  BY NoneAssumption DEF Inv, TypeOK, HandsOK, PortsOK, DetachOK, TeardownPolled, Teardown, Loops, options, told,
         Watching, SettingUp, Closing, Places
<1>8. LossNoticed'
  BY NoneAssumption DEF Inv, TypeOK, HandsOK, PortsOK, LossNoticed, TeardownPolled, Teardown, Loops, options,
         told, Watching, SettingUp, Closing, Places
<1> QED
  BY <1>1, <1>2, <1>3, <1>4, <1>5, <1>6, <1>7, <1>8 DEF Inv

\* The worker ends.
LEMMA WorkerEndsInv ==
    ASSUME Inv, WorkerEnds
    PROVE  Inv'
<1>1. TypeOK'
  <2>1. port' \in [Links -> {"closed", "opening", "up", "down"}]
    BY DEF Inv, TypeOK, WorkerEnds, options, told, Watching, SettingUp, Closing, Places
  <2>2. /\ attempt' \in 0..opt'.limit
        /\ opt' \in [serial : BOOLEAN, auto : BOOLEAN, limit : Limits]
    <3>1. opt' = opt
      BY DEF WorkerEnds, options
    <3>2. attempt' \in Nat /\ attempt' <= opt.limit
      BY OptFacts DEF WorkerEnds
    <3> QED
      BY OptFacts, <3>1, <3>2
  <2>3. /\ words' \subseteq Links /\ cut' \subseteq Links /\ link' \in Links \union {None}
        /\ mc' \in Links \union {None}
    BY NoneAssumption DEF Inv, TypeOK, HandsOK, WorkerEnds, options, told, Watching, SettingUp,
         Closing, Places
  <2>4. sup' \in Places /\ tear' \in Teardown /\ tasks' \subseteq Loops /\ starts' \in Nat
    BY DEF Inv, TypeOK, Teardown, Loops, WorkerEnds, options, told, Watching, SettingUp, Closing,
         Places
  <2>5. /\ event' \in {"none", "clear", "set"} /\ stray' \in BOOLEAN
        /\ online' \in BOOLEAN /\ detached' \in BOOLEAN /\ gate' \in BOOLEAN
    BY DEF Inv, TypeOK, WorkerEnds, options, told, Watching, SettingUp, Closing, Places
  <2> QED
    BY <2>1, <2>2, <2>3, <2>4, <2>5 DEF TypeOK
<1>2. HandsOK'
  BY NoneAssumption DEF Inv, TypeOK, HandsOK, WorkerEnds, Loops, options, told, Watching, SettingUp, Closing,
         Places
<1>3. PortsOK'
  BY NoneAssumption DEF Inv, TypeOK, HandsOK, PortsOK, DetachOK, WorkerEnds, Loops, options, told, Watching,
         SettingUp, Closing, Places
<1>4. WordsOK'
  BY NoneAssumption DEF Inv, TypeOK, HandsOK, PortsOK, WordsOK, WorkerEnds, Loops, options, told, Watching,
         SettingUp, Closing, Places
<1>5. EventOK'
  BY NoneAssumption DEF Inv, TypeOK, HandsOK, PortsOK, WordsOK, EventOK, WorkerEnds, Loops, options, told,
         Watching, SettingUp, Closing, Places
<1>6. CountsOK'
  BY NoneAssumption, LimitAssumption DEF Inv, TypeOK, CountsOK, WorkerEnds, Loops, options, told, Watching, SettingUp, Closing,
         Places
<1>7. DetachOK'
  BY NoneAssumption DEF Inv, TypeOK, HandsOK, PortsOK, DetachOK, WorkerEnds, Loops, options, told, Watching,
         SettingUp, Closing, Places
<1>8. LossNoticed'
  BY NoneAssumption DEF Inv, TypeOK, HandsOK, PortsOK, LossNoticed, WorkerEnds, Loops, options, told, Watching,
         SettingUp, Closing, Places
<1> QED
  BY <1>1, <1>2, <1>3, <1>4, <1>5, <1>6, <1>7, <1>8 DEF Inv

\* The worker is over.
LEMMA TeardownDrainedInv ==
    ASSUME Inv, TeardownDrained
    PROVE  Inv'
<1>1. TypeOK'
  <2>1. port' \in [Links -> {"closed", "opening", "up", "down"}]
    BY DEF Inv, TypeOK, TeardownDrained, options, told, Watching, SettingUp, Closing, Places
  <2>2. /\ attempt' \in 0..opt'.limit
        /\ opt' \in [serial : BOOLEAN, auto : BOOLEAN, limit : Limits]
    <3>1. opt' = opt
      BY DEF TeardownDrained, options
    <3>2. attempt' \in Nat /\ attempt' <= opt.limit
      BY OptFacts DEF TeardownDrained
    <3> QED
      BY OptFacts, <3>1, <3>2
  <2>3. /\ words' \subseteq Links /\ cut' \subseteq Links /\ link' \in Links \union {None}
        /\ mc' \in Links \union {None}
    BY NoneAssumption DEF Inv, TypeOK, HandsOK, TeardownDrained, options, told, Watching, SettingUp,
         Closing, Places
  <2>4. sup' \in Places /\ tear' \in Teardown /\ tasks' \subseteq Loops /\ starts' \in Nat
    BY DEF Inv, TypeOK, Teardown, Loops, TeardownDrained, options, told, Watching, SettingUp,
         Closing, Places
  <2>5. /\ event' \in {"none", "clear", "set"} /\ stray' \in BOOLEAN
        /\ online' \in BOOLEAN /\ detached' \in BOOLEAN /\ gate' \in BOOLEAN
    BY DEF Inv, TypeOK, TeardownDrained, options, told, Watching, SettingUp, Closing, Places
  <2> QED
    BY <2>1, <2>2, <2>3, <2>4, <2>5 DEF TypeOK
<1>2. HandsOK'
  BY NoneAssumption DEF Inv, TypeOK, HandsOK, TeardownDrained, Teardown, options, told, Watching, SettingUp,
         Closing, Places
<1>3. PortsOK'
  BY NoneAssumption DEF Inv, TypeOK, HandsOK, PortsOK, DetachOK, TeardownDrained, Teardown, options, told,
         Watching, SettingUp, Closing, Places
<1>4. WordsOK'
  BY NoneAssumption DEF Inv, TypeOK, HandsOK, PortsOK, WordsOK, TeardownDrained, Teardown, options, told,
         Watching, SettingUp, Closing, Places
<1>5. EventOK'
  BY NoneAssumption DEF Inv, TypeOK, HandsOK, PortsOK, WordsOK, EventOK, TeardownDrained, Teardown, options,
         told, Watching, SettingUp, Closing, Places
<1>6. CountsOK'
  BY NoneAssumption, LimitAssumption DEF Inv, TypeOK, CountsOK, TeardownDrained, Teardown, options, told, Watching, SettingUp,
         Closing, Places
<1>7. DetachOK'
  BY NoneAssumption DEF Inv, TypeOK, HandsOK, PortsOK, DetachOK, TeardownDrained, Teardown, options, told,
         Watching, SettingUp, Closing, Places
<1>8. LossNoticed'
  BY NoneAssumption DEF Inv, TypeOK, HandsOK, PortsOK, LossNoticed, TeardownDrained, Teardown, options, told,
         Watching, SettingUp, Closing, Places
<1> QED
  BY <1>1, <1>2, <1>3, <1>4, <1>5, <1>6, <1>7, <1>8 DEF Inv

\* The last connection is hung up.
LEMMA HungUpInv ==
    ASSUME Inv, HungUp
    PROVE  Inv'
<1>1. TypeOK'
  <2>1. port' \in [Links -> {"closed", "opening", "up", "down"}]
    BY DEF Inv, TypeOK, HungUp, Closes, Teardown, options, told, Watching, SettingUp, Closing,
         Places
  <2>2. /\ attempt' \in 0..opt'.limit
        /\ opt' \in [serial : BOOLEAN, auto : BOOLEAN, limit : Limits]
    <3>1. opt' = opt
      BY DEF HungUp, options
    <3>2. attempt' \in Nat /\ attempt' <= opt.limit
      BY OptFacts DEF Inv, CountsOK, HungUp
    <3> QED
      BY OptFacts, <3>1, <3>2
  <2>3. /\ words' \subseteq Links /\ cut' \subseteq Links /\ link' \in Links \union {None}
        /\ mc' \in Links \union {None}
    <3>1. mc \in Links
      BY DEF Inv, TypeOK, DetachOK, HungUp
    <3> QED
      BY <3>1 DEF Inv, TypeOK, HungUp, Closes
  <2>4. sup' \in Places /\ tear' \in Teardown /\ tasks' \subseteq Loops /\ starts' \in Nat
    BY DEF Inv, TypeOK, Teardown, Loops, HungUp, Closes, options, told, Watching, SettingUp,
         Closing, Places
  <2>5. /\ event' \in {"none", "clear", "set"} /\ stray' \in BOOLEAN
        /\ online' \in BOOLEAN /\ detached' \in BOOLEAN /\ gate' \in BOOLEAN
    BY DEF Inv, TypeOK, HungUp, Closes, Teardown, options, told, Watching, SettingUp, Closing,
         Places
  <2> QED
    BY <2>1, <2>2, <2>3, <2>4, <2>5 DEF TypeOK
<1>2. HandsOK'
  BY NoneAssumption DEF Inv, TypeOK, HandsOK, HungUp, Closes, Teardown, options, told, Watching, SettingUp,
         Closing, Places
<1>3. PortsOK'
  BY NoneAssumption DEF Inv, TypeOK, HandsOK, PortsOK, DetachOK, HungUp, Closes, Teardown, options, told,
         Watching, SettingUp, Closing, Places
<1>4. WordsOK'
  <2>1. sup' = "ended"
    BY DEF HungUp, Inv, DetachOK
  <2> QED
    BY <2>1 DEF WordsOK, Watching, SettingUp
<1>5. EventOK'
  <2>1. sup' = "ended"
    BY DEF HungUp, Inv, DetachOK
  <2> QED
    BY <2>1 DEF EventOK, Watching, SettingUp
<1>6. CountsOK'
  BY NoneAssumption, LimitAssumption DEF Inv, TypeOK, CountsOK, HungUp, Closes, Teardown, options, told, Watching, SettingUp,
         Closing, Places
<1>7. DetachOK'
  BY NoneAssumption DEF Inv, TypeOK, HandsOK, PortsOK, DetachOK, HungUp, Closes, Teardown, options, told,
         Watching, SettingUp, Closing, Places
<1>8. LossNoticed'
  BY NoneAssumption DEF Inv, TypeOK, HandsOK, PortsOK, LossNoticed, HungUp, Closes, Teardown, options, told,
         Watching, SettingUp, Closing, Places
<1> QED
  BY <1>1, <1>2, <1>3, <1>4, <1>5, <1>6, <1>7, <1>8 DEF Inv

\* A connection drops.
LEMMA DropInv ==
    ASSUME Inv, NEW c \in Links, Drop(c)
    PROVE  Inv'
<1>1. TypeOK'
  <2>1. port' \in [Links -> {"closed", "opening", "up", "down"}]
    BY DEF Inv, TypeOK, Drop, options, told, Watching, SettingUp, Closing, Places
  <2>2. /\ attempt' \in 0..opt'.limit
        /\ opt' \in [serial : BOOLEAN, auto : BOOLEAN, limit : Limits]
    <3>1. opt' = opt
      BY DEF Drop, options
    <3>2. attempt' \in Nat /\ attempt' <= opt.limit
      BY OptFacts DEF Drop
    <3> QED
      BY OptFacts, <3>1, <3>2
  <2>3. /\ words' \subseteq Links /\ cut' \subseteq Links /\ link' \in Links \union {None}
        /\ mc' \in Links \union {None}
    BY NoneAssumption DEF Inv, TypeOK, HandsOK, Drop, options, told, Watching, SettingUp, Closing,
         Places
  <2>4. sup' \in Places /\ tear' \in Teardown /\ tasks' \subseteq Loops /\ starts' \in Nat
    BY DEF Inv, TypeOK, Teardown, Loops, Drop, options, told, Watching, SettingUp, Closing, Places
  <2>5. /\ event' \in {"none", "clear", "set"} /\ stray' \in BOOLEAN
        /\ online' \in BOOLEAN /\ detached' \in BOOLEAN /\ gate' \in BOOLEAN
    BY DEF Inv, TypeOK, Drop, options, told, Watching, SettingUp, Closing, Places
  <2> QED
    BY <2>1, <2>2, <2>3, <2>4, <2>5 DEF TypeOK
<1>2. HandsOK'
  BY NoneAssumption DEF Inv, TypeOK, HandsOK, Drop, options, told, Watching, SettingUp, Closing, Places
<1>3. PortsOK'
  BY NoneAssumption DEF Inv, TypeOK, HandsOK, PortsOK, DetachOK, Drop, options, told, Watching, SettingUp,
         Closing, Places
<1>4. WordsOK'
  <2>1. sup' = sup /\ port[c] = "up" /\ words' = words \union {c} /\ words \subseteq Links
        /\ port' = [port EXCEPT ![c] = "down"] /\ DOMAIN port = Links
    BY DEF Drop, Inv, TypeOK
  <2>2. sup # "start"
    BY <2>1, NoneAssumption DEF Inv, HandsOK, PortsOK, WordsOK
  <2>3. \A d \in words' : d \in words \/ d = c
    BY <2>1
  <2> QED
    BY <2>1, <2>2, <2>3 DEF Inv, WordsOK
<1>5. EventOK'
  BY NoneAssumption DEF Inv, TypeOK, HandsOK, PortsOK, WordsOK, EventOK, Drop, options, told, Watching,
         SettingUp, Closing, Places
<1>6. CountsOK'
  BY NoneAssumption, LimitAssumption DEF Inv, TypeOK, CountsOK, Drop, options, told, Watching, SettingUp, Closing, Places
<1>7. DetachOK'
  BY NoneAssumption DEF Inv, TypeOK, HandsOK, PortsOK, DetachOK, Drop, options, told, Watching, SettingUp,
         Closing, Places
<1>8. LossNoticed'
  BY NoneAssumption DEF Inv, TypeOK, HandsOK, PortsOK, LossNoticed, Drop, options, told, Watching, SettingUp,
         Closing, Places
<1> QED
  BY <1>1, <1>2, <1>3, <1>4, <1>5, <1>6, <1>7, <1>8 DEF Inv

\* The callback hears of a connection.
LEMMA OnDisconnectedInv ==
    ASSUME Inv, NEW c \in Links, OnDisconnected(c)
    PROVE  Inv'
<1>1. TypeOK'
  <2>1. port' \in [Links -> {"closed", "opening", "up", "down"}]
    BY DEF Inv, TypeOK, OnDisconnected, Wakes, options, told, Watching, SettingUp, Closing, Places
  <2>2. /\ attempt' \in 0..opt'.limit
        /\ opt' \in [serial : BOOLEAN, auto : BOOLEAN, limit : Limits]
    <3>1. opt' = opt
      BY DEF OnDisconnected, options
    <3>2. attempt' \in Nat /\ attempt' <= opt.limit
      BY OptFacts DEF Inv, CountsOK, OnDisconnected
    <3> QED
      BY OptFacts, <3>1, <3>2
  <2>3. /\ words' \subseteq Links /\ cut' \subseteq Links /\ link' \in Links \union {None}
        /\ mc' \in Links \union {None}
    BY NoneAssumption DEF Inv, TypeOK, HandsOK, OnDisconnected, Wakes, options, told, Watching, SettingUp,
         Closing, Places
  <2>4. sup' \in Places /\ tear' \in Teardown /\ tasks' \subseteq Loops /\ starts' \in Nat
    BY DEF Inv, TypeOK, Teardown, Loops, OnDisconnected, Wakes, options, told, Watching, SettingUp,
         Closing, Places
  <2>5. /\ event' \in {"none", "clear", "set"} /\ stray' \in BOOLEAN
        /\ online' \in BOOLEAN /\ detached' \in BOOLEAN /\ gate' \in BOOLEAN
    BY DEF Inv, TypeOK, OnDisconnected, Wakes, options, told, Watching, SettingUp, Closing, Places
  <2> QED
    BY <2>1, <2>2, <2>3, <2>4, <2>5 DEF TypeOK
<1>2. HandsOK'
  BY NoneAssumption DEF Inv, TypeOK, HandsOK, OnDisconnected, Wakes, options, told, Watching, SettingUp,
         Closing, Places
<1>3. PortsOK'
  BY NoneAssumption DEF Inv, TypeOK, HandsOK, PortsOK, DetachOK, OnDisconnected, Wakes, options, told, Watching,
         SettingUp, Closing, Places
<1>4. WordsOK'
  BY NoneAssumption DEF Inv, TypeOK, HandsOK, PortsOK, WordsOK, OnDisconnected, Wakes, options, told, Watching,
         SettingUp, Closing, Places
<1>5. EventOK'
  BY NoneAssumption DEF Inv, TypeOK, HandsOK, PortsOK, WordsOK, EventOK, OnDisconnected, Wakes, options, told,
         Watching, SettingUp, Closing, Places
<1>6. CountsOK'
  BY NoneAssumption, LimitAssumption DEF Inv, TypeOK, CountsOK, OnDisconnected, Wakes, options, told, Watching, SettingUp,
         Closing, Places
<1>7. DetachOK'
  BY NoneAssumption DEF Inv, TypeOK, HandsOK, PortsOK, DetachOK, OnDisconnected, Wakes, options, told, Watching,
         SettingUp, Closing, Places
<1>8. LossNoticed'
  BY NoneAssumption DEF Inv, TypeOK, HandsOK, PortsOK, LossNoticed, OnDisconnected, Wakes, options, told,
         Watching, SettingUp, Closing, Places
<1> QED
  BY <1>1, <1>2, <1>3, <1>4, <1>5, <1>6, <1>7, <1>8 DEF Inv

LEMMA InitInv == Init => Inv
<1> SUFFICES ASSUME Init
             PROVE  Inv
  OBVIOUS
<1>1. opt.limit \in Nat
  BY LimitAssumption DEF Init
<1>2. TypeOK
  <2>1. attempt \in 0..opt.limit
    BY <1>1 DEF Init
  <2> QED
    BY <2>1 DEF Init, TypeOK, Places, SettingUp, Closing, Teardown, Loops
<1>3. HandsOK /\ PortsOK /\ WordsOK /\ EventOK /\ LossNoticed
  BY NoneAssumption
     DEF Init, HandsOK, PortsOK, WordsOK, EventOK, LossNoticed, Watching, SettingUp, Closing
<1>4. CountsOK /\ DetachOK
  BY DEF Init, CountsOK, DetachOK
<1> QED
  BY <1>2, <1>3, <1>4 DEF Inv

LEMMA NextInv == Inv /\ [Next]_vars => Inv'
<1> SUFFICES ASSUME Inv, [Next]_vars
             PROVE  Inv'
  OBVIOUS
<1>1. CASE Supervise
  BY <1>1, StartInv, OpenFailsInv, OpenedInv, SetupFailsInv, HandshakeAnsweredInv, SettingsDoneInv,
     ContactsDoneInv, SetupDoneInv, LostInv, CloseDoneInv, RetryInv DEF Supervise
<1>2. CASE \E c \in Links : Drop(c) \/ OnDisconnected(c)
  BY <1>2, DropInv, OnDisconnectedInv
<1>3. CASE Detach \/ TearDown \/ WorkerEnds
  BY <1>3, DetachInv, DetachOfflineInv, TeardownBeginsInv, TeardownPolledInv, TeardownDrainedInv,
     HungUpInv, WorkerEndsInv DEF TearDown
<1>4. CASE Gone \/ UNCHANGED vars
  <2>1. UNCHANGED vars
    BY <1>4 DEF Gone
  <2> QED
    BY <2>1 DEF vars, Inv, TypeOK, HandsOK, PortsOK, WordsOK, EventOK, CountsOK, DetachOK, LossNoticed
<1> QED
  BY <1>1, <1>2, <1>3, <1>4 DEF Next

\* A step that begins to close for a loss.
LEMMA RealStep ==
    Inv /\ [Next]_vars => [sup' = "losing" /\ sup # "losing" => port[link] # "up" \/ stray]_vars
<1> SUFFICES ASSUME Inv, Next, sup' = "losing", sup # "losing"
             PROVE  port[link] # "up" \/ stray
  OBVIOUS
<1>1. sup \in Watching /\ event = "set"
  <2>1. CASE Supervise
    BY <2>1 DEF Supervise, Start, OpenFails, Opened, SetupFails, HandshakeAnswered, SettingsDone,
       ContactsDone, SetupDone, Lost, CloseDone, Retry, Head, Foot, BeginClose, AlreadyLost, Watching, SettingUp
  <2>2. CASE \E c \in Links : Drop(c) \/ OnDisconnected(c)
    BY <2>2 DEF Drop, OnDisconnected
  <2>3. CASE Detach \/ TearDown \/ WorkerEnds \/ Gone
    BY <2>3 DEF Detach, TearDown, WorkerEnds, Gone, DetachOffline, TeardownBegins, CancelSupervisor,
       TeardownPolled, TeardownDrained, HungUp, vars
  <2> QED
    BY <2>1, <2>2, <2>3 DEF Next
<1> QED
  BY <1>1 DEF Inv, EventOK

LEMMA InvImplies == Inv => OneOfEach /\ DetachClean
BY DEF Inv, PortsOK, CountsOK, DetachOK, OneOfEach, DetachClean

-----------------------------------------------------------------------------
(* The theorems. *)

\* The inductive invariant holds in every reachable state.
THEOREM Invariance == Spec => []Inv
<1>1. Init => Inv
  BY InitInv
<1>2. Inv /\ [Next]_vars => Inv'
  BY NextInv
<1> QED
  BY <1>1, <1>2, PTL DEF Spec

\* The supervisor's state keeps its shape, and no more attempts are made in a row
\* than max_reconnect_attempts (interface.py 1695-1703).
THEOREM TypeCorrect == Spec => []TypeOK
<1>1. Inv => TypeOK
  BY DEF Inv
<1> QED
  BY <1>1, Invariance, PTL

\* A connection that drops while it is set up, or later, is noticed (1575, 1713-1724).
THEOREM LossNoticedHolds == Spec => []LossNoticed
<1>1. Inv => LossNoticed
  BY DEF Inv
<1> QED
  BY <1>1, Invariance, PTL

\* One port is open and the loops run once, however often the connection is lost
\* and however set-ups fail (1590-1602, 1616-1703).
THEOREM OneOfEachHolds == Spec => []OneOfEach
<1>1. Inv => OneOfEach
  BY InvImplies
<1> QED
  BY <1>1, Invariance, PTL

\* Nothing is left when detach is done (1900-1993).
THEOREM DetachCleanHolds == Spec => []DetachClean
<1>1. Inv => DetachClean
  BY InvImplies
<1> QED
  BY <1>1, Invariance, PTL

\* A connection is given up as lost only when it dropped, or a connection that
\* could not be closed before was heard of (1713-1724).
THEOREM LossIsRealHolds == Spec => LossIsReal
<1>1. Inv /\ [Next]_vars => [sup' = "losing" /\ sup # "losing" => port[link] # "up" \/ stray]_vars
  BY RealStep
<1> QED
  BY <1>1, Invariance, PTL DEF Spec, LossIsReal
=============================================================================
