----------------------------- MODULE LossyCache -----------------------------
(***************************************************************************)
(* What the cache daemon's store promises to whoever reads it, with no     *)
(* capacity, no eviction policy and no sweeping thread: a map that may     *)
(* lose entries while another one is being stored, and that forgets an     *)
(* entry once its expiration time has passed.                              *)
(*                                                                         *)
(*  - a lookup answers with the last entry stored under that very key in   *)
(*    that very cache, and only while the entry has not expired;           *)
(*  - an entry that has not expired is never missed: it is found, or it    *)
(*    was displaced by a later store, or it was purged;                    *)
(*  - nothing comes back: after a purge, a loss or an expiry only a new    *)
(*    store makes a key answer again;                                      *)
(*  - the positive and the negative cache do not disturb each other.       *)
(***************************************************************************)
EXTENDS Integers, FiniteSets

CONSTANTS Keys, Entries

Kinds == {"Positive", "Negative"}

VARIABLES
    map,      \* map[kind]: the entries remembered, a function on some keys
    clock,    \* seconds, never goes back
    reply     \* what the last operation answered

vars == <<map, clock, reply>>

Init ==
    /\ map = [kind \in Kinds |-> << >>]
    /\ clock = 0
    /\ reply = [op |-> "none"]

Live(kind, key) ==
    /\ key \in DOMAIN map[kind]
    /\ clock <= map[kind][key].expiration_time

\* The entry is stored; any of the others of that cache may be displaced.
Store(kind, key, entry) ==
    /\ \E kept \in SUBSET (DOMAIN map[kind] \ {key}) :
          map' = [map EXCEPT ![kind] =
                    [x \in kept \cup {key} |->
                        IF x = key THEN entry ELSE map[kind][x]]]
    /\ reply' = [op |-> "put", kind |-> kind, key |-> key]
    /\ UNCHANGED clock

LookupHit(kind, key) ==
    /\ Live(kind, key)
    /\ reply' = [op |-> "hit", kind |-> kind, key |-> key,
                 entry |-> map[kind][key]]
    /\ UNCHANGED <<map, clock>>

\* Only a key without a live entry is missed; a dead one may be dropped.
LookupMiss(kind, key) ==
    /\ ~Live(kind, key)
    /\ reply' = [op |-> "miss", kind |-> kind, key |-> key]
    /\ \/ map' = map
       \/ map' = [map EXCEPT ![kind] =
                    [x \in DOMAIN map[kind] \ {key} |-> map[kind][x]]]
    /\ UNCHANGED clock

Purge(kinds) ==
    /\ map' = [kind \in Kinds |->
                  IF kind \in kinds THEN << >> ELSE map[kind]]
    /\ reply' = [op |-> "purge"]
    /\ UNCHANGED clock

\* Dead entries vanish on their own, unseen.
Expire ==
    /\ \E kept \in [Kinds -> SUBSET UNION {DOMAIN map[kind] : kind \in Kinds}] :
          /\ \A kind \in Kinds :
                /\ kept[kind] \subseteq DOMAIN map[kind]
                /\ \A key \in DOMAIN map[kind] : Live(kind, key) => key \in kept[kind]
          /\ map' = [kind \in Kinds |->
                        [x \in kept[kind] |-> map[kind][x]]]
    /\ UNCHANGED <<clock, reply>>

\* A listing shows what is remembered, the dead entries included.
Listing(kinds) ==
    /\ reply' = [op |-> "list", found |-> [kind \in kinds |-> map[kind]]]
    /\ UNCHANGED <<map, clock>>

\* The status counts what is remembered; the capacities are not promised.
Status ==
    /\ reply'.op = "status"
    /\ reply'.size = [kind \in Kinds |-> Cardinality(DOMAIN map[kind])]
    /\ UNCHANGED <<map, clock>>

\* Tuning the store is visible to nobody.
Tune ==
    /\ reply' = [op |-> "set"]
    /\ UNCHANGED <<map, clock>>

Elapse ==
    /\ clock' > clock
    /\ UNCHANGED <<map, reply>>

Next ==
    \/ \E kind \in Kinds, key \in Keys :
          \/ \E entry \in Entries : Store(kind, key, entry)
          \/ LookupHit(kind, key)
          \/ LookupMiss(kind, key)
    \/ \E kinds \in SUBSET Kinds : Purge(kinds) \/ Listing(kinds)
    \/ Expire
    \/ Status
    \/ Tune
    \/ Elapse

Spec == Init /\ [][Next]_vars
=============================================================================
