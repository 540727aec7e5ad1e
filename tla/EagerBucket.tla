---------------------------- MODULE EagerBucket ----------------------------
(***************************************************************************)
(* What a token bucket promises, without the trick that makes it cheap: a  *)
(* level for each kind that every tick raises by the rate, to the burst at *)
(* most, and that each admitted message lowers by one message's worth.     *)
(* server/src/rate_limit.rs refills only when it is asked; RateLimit is    *)
(* shown to implement this module.                                         *)
(***************************************************************************)
EXTENDS Integers

CONSTANTS Kind, Unit, Rate, Burst

VARIABLE level

Full(k) == Burst[k] * Unit

Raised(k) == IF level[k] + Rate[k] < Full(k) THEN level[k] + Rate[k] ELSE Full(k)

Init == level = [k \in Kind |-> Full(k)]

Drip == level' = [k \in Kind |-> Raised(k)]

Pay(k) == /\ level[k] >= Unit
          /\ level' = [level EXCEPT ![k] = @ - Unit]

Next == Drip \/ \E k \in Kind : Pay(k)

Spec == Init /\ [][Next]_level
=============================================================================
