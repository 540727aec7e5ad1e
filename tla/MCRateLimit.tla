---------------------------- MODULE MCRateLimit ----------------------------
\* Two kinds of message that share the overage count.
EXTENDS RateLimit

MCKind  == {"join_room", "audio"}
MCRate  == [k \in MCKind |-> IF k = "audio" THEN 3 ELSE 1]
MCBurst == [k \in MCKind |-> IF k = "audio" THEN 2 ELSE 1]
=============================================================================
