----------------------------- MODULE RawDelivery -----------------------------
(***************************************************************************)
(* What the raw window transfer promises RNS, without rounds, frames or    *)
(* reports: packets are submitted, the far side's RNS may receive them     *)
(* whole, and every packet gets one verdict per submission.  "true" (sent) *)
(* is said only of a packet the far side has received; "false" and "text"  *)
(* may be said at any time, also of a packet that arrived.                 *)
(***************************************************************************)
CONSTANT Packets

VARIABLES
    submitted,      \* packets ever submitted
    verdict,        \* verdict[p]: "unsent", "open", "true", "false", "text"
    delivered       \* packets the far side's RNS has received whole

vars == <<submitted, verdict, delivered>>

Verdicts == {"true", "false", "text"}

Init ==
    /\ submitted = {} /\ delivered = {}
    /\ verdict = [p \in Packets |-> "unsent"]

\* A window opens for the packets of S.
Submit(S) ==
    /\ \A p \in Packets : verdict[p] # "open"
    /\ submitted' = submitted \union S
    /\ verdict' = [p \in Packets |-> IF p \in S THEN "open" ELSE verdict[p]]
    /\ UNCHANGED delivered

\* The receiver hands packet p, whole, to its RNS.
Deliver(p) ==
    /\ p \in submitted
    /\ delivered' = delivered \union {p}
    /\ UNCHANGED <<submitted, verdict>>

\* The packets of S get their verdicts; no other verdict changes.
Settle(S) ==
    /\ verdict' \in [Packets -> {"unsent", "open"} \union Verdicts]
    /\ \A p \in S : verdict[p] = "open" /\ verdict'[p] \in Verdicts
    /\ \A p \in S : verdict'[p] = "true" => p \in delivered
    /\ \A p \in Packets \ S : verdict'[p] = verdict[p]
    /\ UNCHANGED <<submitted, delivered>>

Next ==
    \/ \E S \in (SUBSET Packets) \ {{}} : Submit(S) \/ Settle(S)
    \/ \E p \in Packets : Deliver(p)

Spec == Init /\ [][Next]_vars
=============================================================================
