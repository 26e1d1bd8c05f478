-------------------------- MODULE CacheStoreProofs --------------------------
(***************************************************************************)
(* The store's type invariant, its two action properties and its           *)
(* refinement of LossyCache, for any sets of keys, data, expiration times  *)
(* and capacities.                                                         *)
(***************************************************************************)
EXTENDS CacheStore, FiniteSetTheorems, TLAPS

\* A map is in MapsFrom exactly when its keys and its values are of the types.
LEMMA MapsFromDef ==
    ASSUME NEW K, NEW V, NEW S \in SUBSET K, NEW f \in [S -> V]
    PROVE  f \in MapsFrom(K, V)
BY DEF MapsFrom

LEMMA MapsFromUse ==
    ASSUME NEW K, NEW V, NEW f \in MapsFrom(K, V)
    PROVE  /\ DOMAIN f \subseteq K
           /\ f \in [DOMAIN f -> V]
BY DEF MapsFrom

\* Storing and erasing keep a finite map of the right type, and their domains
\* are what the names say.
LEMMA AssignType ==
    ASSUME NEW f \in MapsFrom(Keys, Entries), IsFiniteSet(DOMAIN f),
           NEW key \in Keys, NEW entry \in Entries
    PROVE  /\ Assign(f, key, entry) \in MapsFrom(Keys, Entries)
           /\ DOMAIN Assign(f, key, entry) = DOMAIN f \cup {key}
           /\ IsFiniteSet(DOMAIN Assign(f, key, entry))
<1>1. DOMAIN f \subseteq Keys /\ f \in [DOMAIN f -> Entries]
  BY MapsFromUse, Zenon
<1>2. Assign(f, key, entry) \in [DOMAIN f \cup {key} -> Entries]
  BY <1>1 DEF Assign
<1>3. DOMAIN f \cup {key} \in SUBSET Keys
  BY <1>1
<1>4. IsFiniteSet(DOMAIN f \cup {key})
  BY FS_AddElement
<1> QED
  BY <1>2, <1>3, <1>4, MapsFromDef DEF Assign

LEMMA EraseType ==
    ASSUME NEW f \in MapsFrom(Keys, Entries), IsFiniteSet(DOMAIN f), NEW keys
    PROVE  /\ Erase(f, keys) \in MapsFrom(Keys, Entries)
           /\ DOMAIN Erase(f, keys) = DOMAIN f \ keys
           /\ IsFiniteSet(DOMAIN Erase(f, keys))
<1>1. DOMAIN f \subseteq Keys /\ f \in [DOMAIN f -> Entries]
  BY MapsFromUse, Zenon
<1>2. Erase(f, keys) \in [DOMAIN f \ keys -> Entries]
  BY <1>1 DEF Erase
<1>3. DOMAIN f \ keys \in SUBSET Keys
  BY <1>1
<1>4. IsFiniteSet(DOMAIN f \ keys)
  BY FS_Subset
<1> QED
  BY <1>2, <1>3, <1>4, MapsFromDef DEF Erase

LEMMA EmptyType ==
    /\ << >> \in MapsFrom(Keys, Entries)
    /\ DOMAIN << >> = {}
    /\ IsFiniteSet(DOMAIN << >>)
<1>1. << >> \in [{} -> Entries] /\ DOMAIN << >> = {}
  OBVIOUS
<1>2. << >> \in MapsFrom(Keys, Entries)
  BY <1>1, MapsFromDef
<1> QED
  BY <1>1, <1>2, FS_EmptySet
-----------------------------------------------------------------------------
\* What put's choice of a victim can be: nobody, or one entry that is there.
LEMMA VictimInCache ==
    ASSUME TypeOK, NEW kind \in Kinds, NEW key \in Keys,
           NEW out \in Evicted(kind, key)
    PROVE  /\ out \subseteq DOMAIN cache[kind]
           /\ out = {} \/ \E victim \in DOMAIN cache[kind] : out = {victim}
BY DEF Evicted

\* The type invariant is inductive (cache_store.cpp, every operation).
LEMMA TypeStep == TypeOK /\ [Next]_vars => TypeOK'
<1> SUFFICES ASSUME TypeOK, [Next]_vars PROVE TypeOK'
  OBVIOUS
<1> USE StoreAssumption
<1>1. ASSUME NEW kind \in Kinds, NEW key \in Keys, NEW entry \in Entries,
             Put(kind, key, entry), now' = now
      PROVE  TypeOK'
  <2>1. PICK out \in Evicted(kind, key) :
          cache' = [cache EXCEPT ![kind] =
                      Assign(Erase(cache[kind], out), key, entry)]
    BY <1>1 DEF Put
  <2>2. cache[kind] \in MapsFrom(Keys, Entries) /\ IsFiniteSet(DOMAIN cache[kind])
    BY DEF TypeOK
  <2>3. /\ Erase(cache[kind], out) \in MapsFrom(Keys, Entries)
        /\ IsFiniteSet(DOMAIN Erase(cache[kind], out))
    BY <2>2, EraseType, Zenon
  <2>4. /\ Assign(Erase(cache[kind], out), key, entry) \in MapsFrom(Keys, Entries)
        /\ IsFiniteSet(DOMAIN Assign(Erase(cache[kind], out), key, entry))
    BY <2>3, AssignType, Zenon
  <2> QED
    BY <1>1, <2>1, <2>4 DEF TypeOK, Put
<1>2. ASSUME NEW kind \in Kinds, NEW key \in Keys, Get(kind, key), now' = now
      PROVE  TypeOK'
  <2>1. /\ Erase(cache[kind], {key}) \in MapsFrom(Keys, Entries)
        /\ IsFiniteSet(DOMAIN Erase(cache[kind], {key}))
    BY EraseType DEF TypeOK
  <2> QED
    BY <1>2, <2>1 DEF TypeOK, Get
<1>3. ASSUME NEW target \in CacheTarget, Purge(target), now' = now
      PROVE  TypeOK'
  BY <1>3, EmptyType DEF TypeOK, Purge
<1>4. CASE DoCleanup /\ now' = now
  <2> DEFINE dead(kind) == {key \in DOMAIN cache[kind] : Expired(cache[kind][key])}
  <2>1. cache' = [kind \in Kinds |-> Erase(cache[kind], dead(kind))]
    BY <1>4 DEF DoCleanup, Cleanup
  <2>2. \A kind \in Kinds :
          /\ Erase(cache[kind], dead(kind)) \in MapsFrom(Keys, Entries)
          /\ IsFiniteSet(DOMAIN Erase(cache[kind], dead(kind)))
    BY EraseType DEF TypeOK
  <2> HIDE DEF dead
  <2> QED
    BY <1>4, <2>1, <2>2 DEF TypeOK, DoCleanup, Cleanup
<1>5. CASE DoSetMaxSize /\ now' = now
  BY <1>5 DEF TypeOK, DoSetMaxSize, SetMaxSize, Kinds
<1>6. CASE (DoList \/ DoGetStatus) /\ now' = now
  BY <1>6 DEF TypeOK, DoList, DoGetStatus, storeVars
<1>7. CASE Tick /\ UNCHANGED <<storeVars, reply>>
  BY <1>7 DEF TypeOK, Tick, storeVars
<1>8. CASE UNCHANGED vars
  BY <1>8 DEF TypeOK, vars
<1> QED
  BY <1>1, <1>2, <1>3, <1>4, <1>5, <1>6, <1>7, <1>8
  DEF Next, DoPut, DoGet, DoPurge

(***************************************************************************)
(* The caches always are finite maps from keys to entries, and the limits  *)
(* natural numbers, whatever operations run in whatever order.             *)
(***************************************************************************)
THEOREM TypeCorrect == Spec => []TypeOK
<1>1. Init => TypeOK
  BY EmptyType, StoreAssumption DEF Init, TypeOK
<1> QED
  BY <1>1, TypeStep, PTL DEF Spec
-----------------------------------------------------------------------------
\* put adds at most its own key, and none when the cache is at its limit.
LEMMA PutSize ==
    ASSUME TypeOK, NEW kind \in Kinds, NEW key \in Keys, NEW entry \in Entries,
           Put(kind, key, entry)
    PROVE  /\ \A other \in Kinds \ {kind} : cache'[other] = cache[other]
           /\ Size(kind) \in Nat /\ Size(kind)' \in Nat
           /\ Size(kind)' > Size(kind) =>
                Size(kind)' <= (IF maxSize[kind] = 0 THEN 1 ELSE maxSize[kind])
<1> DEFINE c == cache[kind]
<1>1. PICK out \in Evicted(kind, key) :
        cache' = [cache EXCEPT ![kind] = Assign(Erase(c, out), key, entry)]
  BY DEF Put
<1>2. c \in MapsFrom(Keys, Entries) /\ IsFiniteSet(DOMAIN c) /\ maxSize[kind] \in Nat
  BY DEF TypeOK
<1> HIDE DEF c
<1>3. /\ Erase(c, out) \in MapsFrom(Keys, Entries)
      /\ DOMAIN Erase(c, out) = DOMAIN c \ out
      /\ IsFiniteSet(DOMAIN Erase(c, out))
  BY <1>2, EraseType, Zenon
<1>4. DOMAIN Assign(Erase(c, out), key, entry) = (DOMAIN c \ out) \cup {key}
  BY <1>3, AssignType, Zenon
<1>5. cache'[kind] = Assign(Erase(c, out), key, entry)
  BY <1>1 DEF TypeOK
<1>6. \A other \in Kinds \ {kind} : cache'[other] = cache[other]
  BY <1>1 DEF TypeOK
<1>7. IsFiniteSet(DOMAIN c \ out)
  BY <1>3, Zenon
<1>8. /\ Cardinality(DOMAIN c) \in Nat
      /\ Cardinality(DOMAIN c \ out) \in Nat
      /\ Cardinality((DOMAIN c \ out) \cup {key}) \in Nat
      /\ Cardinality((DOMAIN c \ out) \cup {key}) <= Cardinality(DOMAIN c \ out) + 1
  <2>1. Cardinality((DOMAIN c \ out) \cup {key}) =
          IF key \in DOMAIN c \ out THEN Cardinality(DOMAIN c \ out)
                                    ELSE Cardinality(DOMAIN c \ out) + 1
    BY <1>7, FS_AddElement
  <2>2. Cardinality(DOMAIN c) \in Nat /\ Cardinality(DOMAIN c \ out) \in Nat
    BY <1>2, <1>7, FS_CardinalityType
  <2> QED
    BY <2>1, <2>2
<1>9. Size(kind) = Cardinality(DOMAIN c)
      /\ Size(kind)' = Cardinality((DOMAIN c \ out) \cup {key})
  BY <1>4, <1>5 DEF Size, c
<1>10. CASE key \in DOMAIN c
  <2>1. out = {}
    BY <1>1, <1>10 DEF Evicted, c
  <2>2. (DOMAIN c \ out) \cup {key} = DOMAIN c
    BY <1>10, <2>1
  <2> QED
    BY <1>6, <1>8, <1>9, <2>2
<1>11. CASE key \notin DOMAIN c /\ ~(Size(kind) >= maxSize[kind])
  <2>1. out = {}
    BY <1>1, <1>11 DEF Evicted, c
  <2>2. DOMAIN c \ out = DOMAIN c
    BY <2>1
  <2> QED
    BY <1>2, <1>6, <1>8, <1>9, <1>11, <2>2
<1>12. CASE key \notin DOMAIN c /\ Size(kind) >= maxSize[kind] /\ DOMAIN c = {}
  <2>1. DOMAIN c \ out = {}
    BY <1>12
  <2>2. Cardinality(DOMAIN c \ out) = 0 /\ Cardinality(DOMAIN c) = 0
    BY <1>12, <2>1, FS_EmptySet
  <2> QED
    BY <1>2, <1>6, <1>8, <1>9, <1>12, <2>2
<1>13. CASE key \notin DOMAIN c /\ Size(kind) >= maxSize[kind] /\ DOMAIN c # {}
  <2>1. PICK victim \in DOMAIN c : out = {victim}
    BY <1>1, <1>13 DEF Evicted, c
  <2>2. Cardinality(DOMAIN c \ {victim}) = Cardinality(DOMAIN c) - 1
    BY <1>2, <2>1, FS_RemoveElement
  <2> QED
    BY <1>6, <1>8, <1>9, <2>1, <2>2
<1> QED
  BY <1>10, <1>11, <1>12, <1>13

\* Erasing never makes a cache larger.
LEMMA EraseSize ==
    ASSUME NEW f \in MapsFrom(Keys, Entries), IsFiniteSet(DOMAIN f), NEW keys
    PROVE  /\ Cardinality(DOMAIN Erase(f, keys)) <= Cardinality(DOMAIN f)
           /\ Cardinality(DOMAIN f) \in Nat
           /\ Cardinality(DOMAIN Erase(f, keys)) \in Nat
<1>1. DOMAIN Erase(f, keys) \subseteq DOMAIN f
  BY EraseType
<1> QED
  BY <1>1, FS_Subset, FS_CardinalityType

\* A cache that a step leaves alone does not grow.
LEMMA Unchanged ==
    ASSUME TypeOK, NEW kind \in Kinds, cache'[kind] = cache[kind]
    PROVE  ~(Size(kind)' > Size(kind))
BY FS_CardinalityType DEF TypeOK, Size

(***************************************************************************)
(* Only put makes a cache larger, and never larger than its limit (or than *)
(* one entry when the limit is 0): cache_store.cpp:13-29.                  *)
(***************************************************************************)
THEOREM GrowthTheorem == Spec => GrowthWithinLimit
<1> SUFFICES ASSUME TypeOK, [Next]_vars PROVE [GrowthStep]_vars
  BY TypeCorrect, PTL DEF Spec, GrowthWithinLimit
<1> DEFINE Smaller(kind) == ~(Size(kind)' > Size(kind))
<1>1. ASSUME NEW kind \in Kinds, NEW key \in Keys, NEW entry \in Entries,
             Put(kind, key, entry)
      PROVE  GrowthStep
  <2>1. \A other \in Kinds \ {kind} : Smaller(other)
    BY <1>1, PutSize, Unchanged
  <2>2. Size(kind)' > Size(kind) =>
          Size(kind)' <= (IF maxSize[kind] = 0 THEN 1 ELSE maxSize[kind])
    BY <1>1, PutSize
  <2> QED
    BY <2>1, <2>2 DEF GrowthStep
<1>2. ASSUME NEW kind \in Kinds, NEW key \in Keys, Get(kind, key)
      PROVE  GrowthStep
  <2>1. /\ Cardinality(DOMAIN Erase(cache[kind], {key})) <= Cardinality(DOMAIN cache[kind])
        /\ Cardinality(DOMAIN Erase(cache[kind], {key})) \in Nat
        /\ Cardinality(DOMAIN cache[kind]) \in Nat
    BY EraseSize DEF TypeOK
  <2>2. \A other \in Kinds : \/ cache'[other] = cache[other]
                             \/ /\ other = kind
                                /\ cache'[other] = Erase(cache[kind], {key})
    BY <1>2 DEF Get, TypeOK
  <2> QED
    BY <2>1, <2>2, Unchanged DEF GrowthStep, Size
<1>3. ASSUME NEW target \in CacheTarget, Purge(target)
      PROVE  GrowthStep
  <2>1. \A kind \in Kinds : cache'[kind] = cache[kind] \/ cache'[kind] = << >>
    BY <1>3 DEF Purge
  <2>2. \A kind \in Kinds : Cardinality(DOMAIN cache[kind]) \in Nat
    BY FS_CardinalityType DEF TypeOK
  <2>3. Cardinality(DOMAIN << >>) = 0
    BY EmptyType, FS_EmptySet
  <2> QED
    BY <2>1, <2>2, <2>3 DEF GrowthStep, Size
<1>4. ASSUME DoCleanup PROVE GrowthStep
  <2>1. ASSUME NEW kind \in Kinds
        PROVE  Smaller(kind)
    <3> DEFINE dead == {key \in DOMAIN cache[kind] : Expired(cache[kind][key])}
    <3>1. cache'[kind] = Erase(cache[kind], dead)
      BY <1>4 DEF DoCleanup, Cleanup
    <3> HIDE DEF dead
    <3>2. /\ Cardinality(DOMAIN Erase(cache[kind], dead)) <= Cardinality(DOMAIN cache[kind])
          /\ Cardinality(DOMAIN Erase(cache[kind], dead)) \in Nat
          /\ Cardinality(DOMAIN cache[kind]) \in Nat
      BY EraseSize DEF TypeOK
    <3> QED
      BY <3>1, <3>2 DEF Size
  <2> QED
    BY <2>1 DEF GrowthStep
<1>5. ASSUME cache' = cache PROVE GrowthStep
  <2>1. \A kind \in Kinds : Cardinality(DOMAIN cache[kind]) \in Nat
    BY FS_CardinalityType DEF TypeOK
  <2> QED
    BY <1>5, <2>1 DEF GrowthStep, Size
<1> QED
  BY <1>1, <1>2, <1>3, <1>4, <1>5
  DEF Next, DoPut, DoGet, DoPurge, DoSetMaxSize, SetMaxSize, DoList,
      DoGetStatus, Tick, storeVars, vars
-----------------------------------------------------------------------------
(***************************************************************************)
(* No lookup, sweep or resize loses an entry that has not expired          *)
(* (cache_store.cpp:31-61, 86-93, 128-142); put loses one at most, and     *)
(* only from a full cache.                                                 *)
(***************************************************************************)
THEOREM LossTheorem == Spec => LiveLossesJustified
<1> SUFFICES ASSUME TypeOK, [Next]_vars PROVE [LossStep]_vars
  BY TypeCorrect, PTL DEF Spec, LiveLossesJustified
<1>1. ASSUME NEW kind \in Kinds, NEW key \in Keys, NEW entry \in Entries,
             Put(kind, key, entry), reply' = PutAnswer(kind, key)
      PROVE  LossStep
  <2> DEFINE c == cache[kind]
  <2>1. PICK out \in Evicted(kind, key) :
          cache' = [cache EXCEPT ![kind] = Assign(Erase(c, out), key, entry)]
    BY <1>1 DEF Put
  <2>2. DOMAIN cache'[kind] = (DOMAIN c \ out) \cup {key}
    BY <2>1 DEF Assign, Erase, TypeOK
  <2>3. \A other \in Kinds \ {kind} : LostLive(other) = {}
    BY <2>1 DEF LostLive, TypeOK
  <2>4. LostLive(kind) \subseteq out
    BY <2>2 DEF LostLive
  <2>5. CASE LostLive(kind) = {}
    BY <2>3, <2>5 DEF LossStep
  <2>6. CASE LostLive(kind) # {}
    <3>1. PICK victim \in DOMAIN c : out = {victim}
      BY <2>4, <2>6, VictimInCache
    <3>2. LostLive(kind) = {victim}
      BY <2>4, <2>6, <3>1
    <3>3. key \notin DOMAIN c /\ Size(kind) >= maxSize[kind]
      BY <2>1, <3>1 DEF Evicted
    <3>4. /\ reply'.op = "put" /\ reply'.kind = kind /\ reply'.key = key
      BY <1>1 DEF PutAnswer
    <3> QED
      BY <2>3, <3>2, <3>3, <3>4 DEF LossStep
  <2> QED
    BY <2>5, <2>6
<1>2. ASSUME NEW kind \in Kinds, NEW key \in Keys, Get(kind, key)
      PROVE  LossStep
  <2>1. \A other \in Kinds : LostLive(other) = {}
    BY <1>2 DEF Get, Hit, Erase, LostLive, TypeOK
  <2> QED
    BY <2>1 DEF LossStep
<1>3. ASSUME NEW target \in CacheTarget, Purge(target), reply' = PurgeAnswer
      PROVE  LossStep
  <2>1. ASSUME NEW kind \in Kinds, LostLive(kind) # {}
        PROVE  DOMAIN cache'[kind] = {}
    <3>1. cache'[kind] = << >>
      BY <1>3, <2>1 DEF Purge, LostLive
    <3> QED
      BY <3>1, EmptyType
  <2>2. reply'.op = "purge"
    BY <1>3 DEF PurgeAnswer
  <2> QED
    BY <2>1, <2>2 DEF LossStep
<1>4. ASSUME DoCleanup PROVE LossStep
  <2>1. ASSUME NEW kind \in Kinds
        PROVE  LostLive(kind) = {}
    BY <1>4 DEF DoCleanup, Cleanup, Erase, LostLive
  <2> QED
    BY <2>1 DEF LossStep
<1>5. ASSUME cache' = cache PROVE LossStep
  BY <1>5 DEF LossStep, LostLive
<1> QED
  BY <1>1, <1>2, <1>3, <1>4, <1>5
  DEF Next, DoPut, DoGet, DoPurge, DoSetMaxSize, SetMaxSize, DoList,
      DoGetStatus, Tick, storeVars, vars
-----------------------------------------------------------------------------
(***************************************************************************)
(* Every step of the store is one of the promise's: what the caches answer *)
(* is what a map answers that may lose entries while storing others.       *)
(***************************************************************************)
LEMMA PutIsStore ==
    ASSUME TypeOK, NEW kind \in Kinds, NEW key \in Keys, NEW entry \in Entries,
           Put(kind, key, entry), reply' = PutAnswer(kind, key), now' = now
    PROVE  Promise!Store(kind, key, entry)
<1> DEFINE c == cache[kind]
<1>1. PICK out \in Evicted(kind, key) :
        cache' = [cache EXCEPT ![kind] = Assign(Erase(c, out), key, entry)]
  BY DEF Put
<1> DEFINE kept == (DOMAIN c \ out) \ {key}
<1>2. Assign(Erase(c, out), key, entry) =
        [x \in kept \cup {key} |-> IF x = key THEN entry ELSE cache[kind][x]]
  <2>1. (DOMAIN c \ out) \cup {key} = kept \cup {key}
    OBVIOUS
  <2> QED
    BY <2>1 DEF Assign, Erase
<1>3. kept \in SUBSET (DOMAIN cache[kind] \ {key})
  OBVIOUS
<1> QED
  BY <1>1, <1>2, <1>3 DEF Promise!Store, PutAnswer

\* What the store answers a hit is what the promise calls live.
LEMMA HitIsLive ==
    ASSUME TypeOK, NEW kind \in Kinds, NEW key
    PROVE  Hit(kind, key) <=> Promise!Live(kind, key)
<1>1. ASSUME key \in DOMAIN cache[kind]
      PROVE  cache[kind][key].expiration_time \in Int
  <2>1. cache[kind] \in [DOMAIN cache[kind] -> Entries]
    BY MapsFromUse DEF TypeOK
  <2>2. cache[kind][key] \in Entries
    BY <1>1, <2>1
  <2> QED
    BY <2>2, StoreAssumption DEF Entries
<1>2. now \in Nat
  BY DEF TypeOK
<1> QED
  BY <1>1, <1>2 DEF Hit, Expired, Promise!Live

LEMMA GetIsLookup ==
    ASSUME TypeOK, NEW kind \in Kinds, NEW key \in Keys,
           Get(kind, key), reply' = GetAnswer(kind, key), now' = now
    PROVE  Promise!LookupHit(kind, key) \/ Promise!LookupMiss(kind, key)
<1>1. CASE Hit(kind, key)
  <2>1. cache' = cache
    BY <1>1 DEF Get, TypeOK
  <2>2. Promise!Live(kind, key)
    BY <1>1, HitIsLive
  <2> QED
    BY <1>1, <2>1, <2>2 DEF GetAnswer, Promise!LookupHit
<1>2. CASE ~Hit(kind, key)
  <2>1. ~Promise!Live(kind, key)
    BY <1>2, HitIsLive
  <2>2. cache' = [cache EXCEPT ![kind] =
                    [x \in DOMAIN cache[kind] \ {key} |-> cache[kind][x]]]
    BY <1>2 DEF Get, Erase
  <2> QED
    BY <1>2, <2>1, <2>2 DEF GetAnswer, Promise!LookupMiss
<1> QED
  BY <1>1, <1>2

LEMMA PurgeIsPurge ==
    ASSUME NEW target \in CacheTarget, Purge(target), reply' = PurgeAnswer, now' = now
    PROVE  \E kinds \in SUBSET Kinds : Promise!Purge(kinds)
<1>1. InTarget(target) \in SUBSET Kinds
  BY DEF InTarget
<1>2. Promise!Purge(InTarget(target))
  BY DEF Purge, PurgeAnswer, Promise!Purge, Promise!Kinds, Kinds
<1> QED
  BY <1>1, <1>2

LEMMA CleanupIsExpire ==
    ASSUME TypeOK, Cleanup, reply' = reply, now' = now
    PROVE  Promise!Expire
<1> DEFINE dead(kind) == {key \in DOMAIN cache[kind] : Expired(cache[kind][key])}
           kept == [kind \in Kinds |-> DOMAIN cache[kind] \ dead(kind)]
<1>1. cache' = [kind \in Kinds |-> [x \in kept[kind] |-> cache[kind][x]]]
  BY DEF Cleanup, Erase
<1>2. kept \in [Kinds -> SUBSET UNION {DOMAIN cache[kind] : kind \in Kinds}]
  OBVIOUS
<1>3. ASSUME NEW kind \in Kinds, NEW key \in DOMAIN cache[kind],
             Promise!Live(kind, key)
      PROVE  key \in kept[kind]
  BY <1>3, HitIsLive DEF Hit
<1>4. \A kind \in Kinds : kept[kind] \subseteq DOMAIN cache[kind]
  OBVIOUS
<1> HIDE DEF kept
<1> QED
  BY <1>1, <1>2, <1>3, <1>4 DEF Promise!Expire, Promise!Kinds, Kinds

LEMMA StepIsPromised ==
    ASSUME TypeOK, [Next]_vars
    PROVE  [Promise!Next]_(Promise!vars)
<1>1. CASE DoPut /\ now' = now
  <2>1. PICK kind \in Kinds, key \in Keys, entry \in Entries :
          Put(kind, key, entry) /\ reply' = PutAnswer(kind, key)
    BY <1>1 DEF DoPut
  <2>2. Promise!Store(kind, key, entry)
    BY <1>1, <2>1, PutIsStore
  <2> QED
    BY <2>2 DEF Promise!Next, Promise!Kinds, Kinds
<1>2. CASE DoGet /\ now' = now
  <2>1. PICK kind \in Kinds, key \in Keys :
          Get(kind, key) /\ reply' = GetAnswer(kind, key)
    BY <1>2 DEF DoGet
  <2>2. Promise!LookupHit(kind, key) \/ Promise!LookupMiss(kind, key)
    BY <1>2, <2>1, GetIsLookup
  <2> QED
    BY <2>2 DEF Promise!Next, Promise!Kinds, Kinds
<1>3. CASE DoPurge /\ now' = now
  <2>1. \E kinds \in SUBSET Kinds : Promise!Purge(kinds)
    BY <1>3, PurgeIsPurge DEF DoPurge
  <2> QED
    BY <2>1 DEF Promise!Next, Promise!Kinds, Kinds
<1>4. CASE DoCleanup /\ now' = now
  <2>1. Promise!Expire
    BY <1>4, CleanupIsExpire DEF DoCleanup
  <2> QED
    BY <2>1 DEF Promise!Next
<1>5. CASE DoSetMaxSize /\ now' = now
  <2>1. Promise!Tune
    BY <1>5 DEF DoSetMaxSize, SetMaxSize, SetAnswer, Promise!Tune
  <2> QED
    BY <2>1 DEF Promise!Next
<1>6. CASE DoList /\ now' = now
  <2>1. PICK target \in CacheTarget : reply' = ListAnswer(target)
    BY <1>6 DEF DoList
  <2>2. InTarget(target) \in SUBSET Kinds
    BY DEF InTarget
  <2>3. Promise!Listing(InTarget(target))
    BY <1>6, <2>1 DEF DoList, ListAnswer, storeVars, Promise!Listing
  <2> QED
    BY <2>2, <2>3 DEF Promise!Next, Promise!Kinds, Kinds
<1>7. CASE DoGetStatus /\ now' = now
  <2>1. Promise!Status
    BY <1>7 DEF DoGetStatus, StatusAnswer, Size, storeVars, Promise!Status,
                Promise!Kinds, Kinds, Promise!Cardinality, Cardinality
  <2> QED
    BY <2>1 DEF Promise!Next
<1>8. CASE Tick /\ UNCHANGED <<storeVars, reply>>
  <2>1. Promise!Elapse
    BY <1>8 DEF Tick, TypeOK, storeVars, Promise!Elapse
  <2> QED
    BY <2>1 DEF Promise!Next
<1>9. CASE UNCHANGED vars
  BY <1>9 DEF vars, Promise!vars
<1> QED
  BY <1>1, <1>2, <1>3, <1>4, <1>5, <1>6, <1>7, <1>8, <1>9 DEF Next

(***************************************************************************)
(* The store with its limits, its eviction and its sweep implements the    *)
(* map of LossyCache.                                                      *)
(***************************************************************************)
THEOREM RefinementTheorem == Spec => ImplementsLossyCache
<1>1. Init => Promise!Init
  BY DEF Init, Promise!Init, Promise!Kinds, Kinds
<1> QED
  BY <1>1, TypeCorrect, StepIsPromised, PTL
  DEF Spec, ImplementsLossyCache, Promise!Spec
=============================================================================
