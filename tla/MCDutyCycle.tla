---------------------------- MODULE MCDutyCycle ----------------------------
(* The holder of the radio lock sends what a DIRECT send, a raw burst and a  *)
(* handshake send; a channel pass sends relayed frames beside it, one longer *)
(* than its whole budget.                                                    *)
EXTENDS DutyCycle

CONSTANTS holder, channel

Of(airtime, isRelayed, isExempt, isRaw) ==
    [airtime |-> airtime, relayed |-> isRelayed, exempt |-> isExempt, raw |-> isRaw]

MCFrames == [s \in Senders |->
    IF s = holder
    THEN {Of(1, TRUE, FALSE, FALSE), Of(2, FALSE, FALSE, TRUE), Of(1, TRUE, TRUE, FALSE)}
    ELSE {Of(1, TRUE, FALSE, FALSE), Of(3, TRUE, FALSE, FALSE)}]
=============================================================================
