----------------------------- MODULE CacheStore -----------------------------
(***************************************************************************)
(* CacheStore (src/server/cache_store.{hpp,cpp}): the two in-memory caches *)
(* of the daemon.  Every public operation takes _mutex for its whole body, *)
(* so each is one action here, whichever thread runs it; the thread that   *)
(* sweeps expired entries is only its critical section (Cleanup), its      *)
(* life cycle is in CacheServer.                                           *)
(*                                                                         *)
(* The operations come in two parts, so that CacheServer can run them from *)
(* any handler: an action on the store's own variables and an operator     *)
(* <op>Answer with what the C++ function returns, evaluated before it.     *)
(***************************************************************************)
EXTENDS Integers, FiniteSets

CONSTANTS
    Keys,         \* values of CacheKey: name, type and class together
    Data,         \* payload of an entry: rdata, or the negative reason
    Expirations,  \* expiration times entries carry
    Capacities,   \* sizes that setMaxSize is called with
    DefaultMax,   \* initial capacity of either cache, 50 in the code
    MaxTime       \* bound on the clock (model only)

ASSUME StoreAssumption ==
    /\ Expirations \subseteq Int
    /\ Capacities \subseteq Nat
    /\ DefaultMax \in Nat
    /\ MaxTime \in Nat

Kinds == {"Positive", "Negative"}
CacheTarget == {"Positive", "Negative", "All", "Invalid"}

Entries == [data : Data, expiration_time : Expirations]

VARIABLES
    cache,    \* cache[kind]: _positive_cache / _negative_cache, key -> entry
    maxSize,  \* maxSize[kind]: _max_positive_size / _max_negative_size
    now,      \* time(nullptr), taken to be monotonic
    reply     \* the value returned by the last operation

storeVars == <<cache, maxSize>>
vars == <<cache, maxSize, now, reply>>

Size(kind) == Cardinality(DOMAIN cache[kind])

\* unordered_map::operator[] and unordered_map::erase
Assign(c, key, entry) ==
    [x \in DOMAIN c \cup {key} |-> IF x = key THEN entry ELSE c[x]]
Erase(c, keys) == [x \in DOMAIN c \ keys |-> c[x]]

\* Both caches hold an entry up to and including its last second.
ExpiredEarly(entry) ==      \* mutant of Expired: the last second is lost
    now >= entry.expiration_time

Expired(entry) == now > entry.expiration_time

InTarget(target) == IF target = "All" THEN Kinds ELSE Kinds \cap {target}
-----------------------------------------------------------------------------
Init ==
    /\ cache = [kind \in Kinds |-> << >>]
    /\ maxSize = [kind \in Kinds |-> DefaultMax]
    /\ now = 0
    /\ reply = [op |-> "none"]

(***************************************************************************)
(* put: a new key that finds the cache at its limit first erases begin(),  *)
(* some entry or other of the hash table; exactly one, whatever the excess.*)
(***************************************************************************)
EvictedLate(kind, key) ==   \* mutant of Evicted: one entry over the limit
    IF /\ Size(kind) > maxSize[kind]
       /\ key \notin DOMAIN cache[kind]
       /\ DOMAIN cache[kind] # {}
    THEN {{victim} : victim \in DOMAIN cache[kind]}
    ELSE {{}}

Evicted(kind, key) ==
    IF /\ Size(kind) >= maxSize[kind]
       /\ key \notin DOMAIN cache[kind]
       /\ DOMAIN cache[kind] # {}
    THEN {{victim} : victim \in DOMAIN cache[kind]}
    ELSE {{}}

Put(kind, key, entry) ==
    /\ \E out \in Evicted(kind, key) :
          cache' = [cache EXCEPT ![kind] =
                      Assign(Erase(cache[kind], out), key, entry)]
    /\ UNCHANGED maxSize

PutAnswer(kind, key) == [op |-> "put", kind |-> kind, key |-> key]

\* getPositive / getNegative: an expired entry is erased by whoever asks.
Hit(kind, key) ==
    /\ key \in DOMAIN cache[kind]
    /\ ~Expired(cache[kind][key])

Get(kind, key) ==
    /\ cache' = [cache EXCEPT ![kind] =
                   IF Hit(kind, key) THEN @ ELSE Erase(@, {key})]
    /\ UNCHANGED maxSize

GetAnswer(kind, key) ==
    IF Hit(kind, key)
    THEN [op |-> "hit", kind |-> kind, key |-> key, entry |-> cache[kind][key]]
    ELSE [op |-> "miss", kind |-> kind, key |-> key]

\* purge: an Invalid target clears nothing, and nobody is told.
Purge(target) ==
    /\ cache' = [kind \in Kinds |->
                    IF kind \in InTarget(target) THEN << >> ELSE cache[kind]]
    /\ UNCHANGED maxSize

PurgeAnswer == [op |-> "purge"]

SetMaxSizeLess(n, is_positive) ==   \* mutant of SetMaxSize: off by one
    /\ maxSize' = [maxSize EXCEPT
                     ![IF is_positive THEN "Positive" ELSE "Negative"] = n - 1]
    /\ UNCHANGED cache

\* setMaxSize only records the limit: what is stored already stays.
SetMaxSize(n, is_positive) ==
    /\ maxSize' = [maxSize EXCEPT
                     ![IF is_positive THEN "Positive" ELSE "Negative"] = n]
    /\ UNCHANGED cache

SetAnswer == [op |-> "set"]

\* list and getStatus read only.
ListAnswer(target) ==
    [op |-> "list", found |-> [kind \in InTarget(target) |-> cache[kind]]]
StatusAnswer ==
    [op |-> "status",
     size |-> [kind \in Kinds |-> Size(kind)],
     limit |-> maxSize]

CleanupEarly ==             \* mutant of Cleanup: sweeps the last second too
    /\ cache' = [kind \in Kinds |->
                    Erase(cache[kind],
                          {key \in DOMAIN cache[kind] :
                              now >= cache[kind][key].expiration_time})]
    /\ UNCHANGED maxSize

\* cleanup: one pass over both caches, under the lock, with one clock value.
Cleanup ==
    /\ cache' = [kind \in Kinds |->
                    Erase(cache[kind],
                          {key \in DOMAIN cache[kind] : Expired(cache[kind][key])})]
    /\ UNCHANGED maxSize
-----------------------------------------------------------------------------
Tick == now < MaxTime /\ now' = now + 1

DoPut ==
    \E kind \in Kinds, key \in Keys, entry \in Entries :
        Put(kind, key, entry) /\ reply' = PutAnswer(kind, key)
DoGet ==
    \E kind \in Kinds, key \in Keys :
        Get(kind, key) /\ reply' = GetAnswer(kind, key)
DoPurge ==
    \E target \in CacheTarget : Purge(target) /\ reply' = PurgeAnswer
DoSetMaxSize ==
    \E n \in Capacities, is_positive \in BOOLEAN :
        SetMaxSize(n, is_positive) /\ reply' = SetAnswer
DoList ==
    \E target \in CacheTarget :
        reply' = ListAnswer(target) /\ UNCHANGED storeVars
DoGetStatus == reply' = StatusAnswer /\ UNCHANGED storeVars
DoCleanup == Cleanup /\ UNCHANGED reply

Next ==
    \/ /\ \/ DoPut \/ DoGet \/ DoPurge \/ DoSetMaxSize
          \/ DoList \/ DoGetStatus \/ DoCleanup
       /\ UNCHANGED now
    \/ Tick /\ UNCHANGED <<storeVars, reply>>

Spec == Init /\ [][Next]_vars
-----------------------------------------------------------------------------
MapsFrom(K, V) == UNION {[S -> V] : S \in SUBSET K}

\* Type invariant of the store: finite maps from keys to entries, sizes and
\* clock natural numbers.
TypeOK ==
    /\ cache \in [Kinds -> MapsFrom(Keys, Entries)]
    /\ \A kind \in Kinds : IsFiniteSet(DOMAIN cache[kind])
    /\ maxSize \in [Kinds -> Nat]
    /\ now \in Nat

(***************************************************************************)
(* put is the only operation that makes a cache larger, and whatever the   *)
(* history of setMaxSize it never makes it larger than its limit; a limit  *)
(* of 0 still lets one entry in (cache_store.cpp:16-19, 25-28).            *)
(***************************************************************************)
GrowthStep ==
    \A kind \in Kinds :
        Size(kind)' > Size(kind) =>
            Size(kind)' <= (IF maxSize[kind] = 0 THEN 1 ELSE maxSize[kind])
GrowthWithinLimit == [][GrowthStep]_vars

(***************************************************************************)
(* An entry that has not expired leaves its cache only through a purge of  *)
(* that cache, or as the one victim of a put into it that found it full:   *)
(* no lookup, sweep or resize ever loses live data.                        *)
(***************************************************************************)
LostLive(kind) == {key \in DOMAIN cache[kind] : /\ ~Expired(cache[kind][key])
                                                 /\ key \notin DOMAIN cache'[kind]}
LossStep ==
    \A kind \in Kinds :
        LostLive(kind) # {} =>
          \/ reply'.op = "purge" /\ DOMAIN cache'[kind] = {}
          \/ /\ reply'.op = "put" /\ reply'.kind = kind
             /\ reply'.key \notin DOMAIN cache[kind]
             /\ Size(kind) >= maxSize[kind]
             /\ \E victim \in LostLive(kind) : LostLive(kind) = {victim}
LiveLossesJustified == [][LossStep]_vars

\* The store implements what LossyCache promises, eviction, limits and the
\* sweep hidden: the map is the pair of caches, the clock the system's.
Promise == INSTANCE LossyCache WITH map <- cache, clock <- now
ImplementsLossyCache == Promise!Spec

(***************************************************************************)
(* "Define o numero maximo de entradas para uma das caches"                *)
(* (cache_store.hpp:66): the number of entries respects the limit.         *)
(***************************************************************************)
CapacityRespected == \A kind \in Kinds : Size(kind) <= maxSize[kind]
=============================================================================
