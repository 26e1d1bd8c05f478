---------------------------- MODULE MCQueryFlow ----------------------------
(* Instances of QueryFlow for TLC: two names, and what the network may say *)
(* of them; the clock and the cache are small enough to run out.           *)
EXTENDS QueryFlow, TLC

CONSTANTS k1, k2, glued

Answer(ttl) == [rcode |-> 0, answers |-> {"A"}, ttl |-> ttl]
Refusal(rcode) == [rcode |-> rcode, answers |-> {}, ttl |-> 0]

\* An answer that lasts no time, one whose TTL is no int, no such name, no data.
AllResponses == {Answer(0), Answer(IntMax + 1), Refusal(3), Refusal(0)}

\* "NEGATIVE" in front of a name makes a name nobody asks for, or the other one.
Glued == [k \in Asked |-> glued]
GluedIntoK2 == [k \in Asked |-> IF k = k1 THEN k2 ELSE glued]
=============================================================================
