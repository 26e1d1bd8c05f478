--------------------------- MODULE QueryFlowProofs ---------------------------
(***************************************************************************)
(* The cache reflects the network, for any number of queries, any names,   *)
(* any responses, and a daemon that is restarted whenever it likes.        *)
(***************************************************************************)
EXTENDS QueryFlow, TLAPS

(***************************************************************************)
(* The inductive invariant.  CacheReflectsNetwork alone is not inductive:  *)
(* what a put stores was resolved by the same query some steps earlier,    *)
(* and nothing may have changed its name or its response since.            *)
(***************************************************************************)
Places == {"probe", "get", "getneg", "resolve", "probe2", "put", "print"} \cup Ended
Links == {"none", "open", "reset"}

Typed ==
    /\ now \in Nat
    /\ DOMAIN cache = Store!Kinds
    /\ pc \in [Queries -> Places] /\ link \in [Queries -> Links]
    /\ key \in [Queries -> Asked]
    /\ response \in [Queries -> Responses \cup {Malformed, None}]

\* Expiration times are times: a later clock is no nearer to them.
Timed ==
    \A kind \in Store!Kinds : \A k \in DOMAIN cache[kind] :
        cache[kind][k].expiration_time \in Int

\* A response a query holds is one the network gave to its name.
Heard ==
    \A q \in Queries : response[q] \in Responses => <<key[q], response[q]>> \in resolved

\* An update is sent only by a query that holds one (dns_command_handler.cpp).
UpdatesWithResponse == \A q \in Queries : pc[q] = "put" => response[q] \in Responses

\* A connection is open for the exchange of a line, and no longer.
Calling == {"get", "getneg", "put"}
Linked == \A q \in Queries : link[q] # "none" => pc[q] \in Calling

Control == Heard /\ UpdatesWithResponse /\ Linked
IInv == Typed /\ Timed /\ Control /\ CacheReflectsNetwork
-----------------------------------------------------------------------------
\* Every entry is the one that was there.
OldOnly ==
    /\ DOMAIN cache' = Store!Kinds
    /\ \A kind \in Store!Kinds : \A k \in DOMAIN cache'[kind] :
          k \in DOMAIN cache[kind] /\ cache'[kind][k] = cache[kind][k]

\* Every entry is the one that was there, but for one.
OldBut(new, name, entry) ==
    /\ DOMAIN cache' = Store!Kinds
    /\ \A kind \in Store!Kinds : \A k \in DOMAIN cache'[kind] :
          \/ k \in DOMAIN cache[kind] /\ cache'[kind][k] = cache[kind][k]
          \/ kind = new /\ k = name /\ cache'[kind][k] = entry

\* put stores its entry, under its key, in its cache, and nothing else.
LEMMA PutOldBut ==
    ASSUME DOMAIN cache = Store!Kinds, NEW kind \in Store!Kinds, NEW name, NEW entry,
           Store!Put(kind, name, entry)
    PROVE  OldBut(kind, name, entry)
<1>1. PICK out \in Store!Evicted(kind, name) :
        cache' = [cache EXCEPT ![kind] =
                    Store!Assign(Store!Erase(cache[kind], out), name, entry)]
  BY DEF Store!Put
<1> DEFINE rest == Store!Erase(cache[kind], out)
           full == Store!Assign(rest, name, entry)
<1>2. /\ DOMAIN rest \subseteq DOMAIN cache[kind]
      /\ \A k \in DOMAIN rest : rest[k] = cache[kind][k]
  BY DEF Store!Erase
<1> HIDE DEF rest
<1>3. /\ DOMAIN full = DOMAIN rest \cup {name}
      /\ \A k \in DOMAIN full : full[k] = IF k = name THEN entry ELSE rest[k]
  BY DEF Store!Assign
<1> HIDE DEF full
<1>4. cache' = [cache EXCEPT ![kind] = full]
  BY <1>1 DEF full, rest
<1> QED
  BY <1>2, <1>3, <1>4 DEF OldBut

\* A lookup, a sweep, and an end of the daemon leave what is there, or less.
LEMMA GetOldOnly ==
    ASSUME DOMAIN cache = Store!Kinds, NEW kind \in Store!Kinds, NEW name,
           Store!Get(kind, name)
    PROVE  OldOnly
<1> DEFINE less == Store!Erase(cache[kind], {name})
<1>1. DOMAIN less \subseteq DOMAIN cache[kind] /\ \A k \in DOMAIN less : less[k] = cache[kind][k]
  BY DEF Store!Erase
<1> HIDE DEF less
<1>2. cache' = [cache EXCEPT ![kind] = cache[kind]] \/ cache' = [cache EXCEPT ![kind] = less]
  BY DEF Store!Get, less
<1> QED
  BY <1>1, <1>2 DEF OldOnly

LEMMA CleanupOldOnly == ASSUME Store!Cleanup PROVE OldOnly
BY DEF Store!Cleanup, Store!Erase, OldOnly

LEMMA DeactivateOldOnly == ASSUME Deactivate PROVE OldOnly
BY DEF Deactivate, OldOnly
-----------------------------------------------------------------------------
\* What an entry is backed by, still backs it later.
LEMMA BackedLater ==
    ASSUME NEW time \in Nat, NEW later \in {time, time + 1}, NEW kind, NEW r \in Responses,
           NEW entry, entry.expiration_time \in Int, Backed(kind, entry, r, time)
    PROVE  Backed(kind, entry, r, later)
<1>1. r.ttl \in Nat
  BY FlowAssumption
<1> QED
  BY <1>1 DEF Backed

\* The two invariants of the entries, when all but one are old.
NewIsBacked(kind, k, entry) ==
    /\ entry.expiration_time \in Int
    /\ \E r \in Responses : <<k, r>> \in resolved /\ Backed(kind, entry, r, now)

LEMMA EntriesStep ==
    ASSUME IInv, now' \in {now, now + 1}, resolved \subseteq resolved',
           \/ OldOnly
           \/ \E new, name, entry :
                 now' = now /\ OldBut(new, name, entry) /\ NewIsBacked(new, name, entry)
    PROVE  Timed' /\ CacheReflectsNetwork'
<1>1. ASSUME NEW kind \in Store!Kinds, NEW k \in DOMAIN cache'[kind],
             k \in DOMAIN cache[kind], cache'[kind][k] = cache[kind][k]
      PROVE  /\ cache'[kind][k].expiration_time \in Int
             /\ \E r \in Responses : /\ <<k, r>> \in resolved'
                                     /\ Backed(kind, cache'[kind][k], r, now')
  <2>1. cache[kind][k].expiration_time \in Int /\ now \in Nat
    BY <1>1 DEF IInv, Timed, Typed
  <2>2. PICK r \in Responses : <<k, r>> \in resolved /\ Backed(kind, cache[kind][k], r, now)
    BY <1>1 DEF IInv, CacheReflectsNetwork
  <2>3. Backed(kind, cache[kind][k], r, now')
    BY <2>1, <2>2, BackedLater
  <2> QED
    BY <1>1, <2>1, <2>2, <2>3
<1>2. CASE OldOnly
  BY <1>1, <1>2 DEF OldOnly, Timed, CacheReflectsNetwork
<1>3. CASE \E new, name, entry :
             now' = now /\ OldBut(new, name, entry) /\ NewIsBacked(new, name, entry)
  <2>1. PICK new, name, entry :
             now' = now /\ OldBut(new, name, entry) /\ NewIsBacked(new, name, entry)
    BY <1>3
  <2>2. ASSUME NEW kind \in Store!Kinds, NEW k \in DOMAIN cache'[kind]
        PROVE  /\ cache'[kind][k].expiration_time \in Int
               /\ \E r \in Responses : /\ <<k, r>> \in resolved'
                                       /\ Backed(kind, cache'[kind][k], r, now')
    <3>1. CASE k \in DOMAIN cache[kind] /\ cache'[kind][k] = cache[kind][k]
      BY <1>1, <3>1
    <3>2. CASE kind = new /\ k = name /\ cache'[kind][k] = entry
      BY <2>1, <3>2 DEF NewIsBacked
    <3> QED
      BY <2>1, <3>1, <3>2 DEF OldBut
  <2> QED
    BY <2>2 DEF Timed, CacheReflectsNetwork
<1> QED
  BY <1>2, <1>3
-----------------------------------------------------------------------------
(***************************************************************************)
(* What the line of a put makes the store do: the entry is the answer that *)
(* was resolved, or the reason there is none, and lasts as long.           *)
(***************************************************************************)
LEMMA LineIsBacked ==
    ASSUME IInv, NEW q \in Queries, pc[q] = "put", NEW cmd, cmd = Parse(Line(q)),
           cmd # Throw
    PROVE  \E kind \in Store!Kinds :
             /\ cmd.type = (IF kind = "Positive" THEN "PUT_POSITIVE" ELSE "PUT_NEGATIVE")
             /\ NewIsBacked(kind, cmd.key, cmd.entry)
<1> DEFINE r == response[q]
<1>1. /\ r \in Responses /\ <<key[q], r>> \in resolved /\ now \in Nat
  BY DEF IInv, Control, UpdatesWithResponse, Heard, Typed
<1>2. r.ttl \in Nat
  BY <1>1, FlowAssumption
<1>3. Line(q) = PutLine(q)
  BY DEF Line
<1> HIDE DEF r
<1>4. CASE IsPositive(r)
  <2> DEFINE d == CHOOSE d \in r.answers : TRUE
  <2>1. d \in r.answers
    BY <1>4 DEF IsPositive
  <2>2. Line(q) = [verb |-> "PUT", key |-> key[q], ttl |-> r.ttl, data |-> d]
    BY <1>3, <1>4 DEF PutLine, r
  <2> HIDE DEF d
  <2>3. cmd = [type |-> "PUT_POSITIVE", key |-> key[q],
               entry |-> [data |-> d, expiration_time |-> now + r.ttl]]
    BY <2>2 DEF Parse, ParsePut, Lasting
  <2>4. Backed("Positive", cmd.entry, r, now)
    BY <1>1, <1>2, <1>4, <2>1, <2>3 DEF Backed
  <2> QED
    BY <1>1, <1>2, <2>3, <2>4 DEF NewIsBacked, Store!Kinds
<1>5. CASE ~IsPositive(r)
  <2> DEFINE d == IF r.rcode = 3 THEN "NXDOMAIN" ELSE "NODATA"
  <2>1. Line(q) = [verb |-> "PUT_NEGATIVE", key |-> key[q], ttl |-> 300, data |-> d]
    BY <1>3, <1>5 DEF PutLine, r
  <2>2. d = (IF d = "NXDOMAIN" THEN "NXDOMAIN" ELSE "NODATA") /\ (d = "NXDOMAIN" <=> r.rcode = 3)
    OBVIOUS
  <2> HIDE DEF d
  <2>3. cmd = [type |-> "PUT_NEGATIVE", key |-> key[q],
               entry |-> [data |-> d, expiration_time |-> now + 300]]
    BY <2>1, <2>2 DEF Parse, ParsePutNegative, Lasting
  <2>4. Backed("Negative", cmd.entry, r, now)
    BY <1>1, <1>5, <2>2, <2>3 DEF Backed
  <2> QED
    BY <1>1, <2>3, <2>4 DEF NewIsBacked, Store!Kinds
<1> QED
  BY <1>4, <1>5

LEMMA LineIsPutOrGet ==
    ASSUME NEW q \in Queries, pc[q] \in {"get", "getneg"}, NEW cmd, cmd = Parse(Line(q)),
           cmd # Throw
    PROVE  cmd.type = "GET_POSITIVE"
BY DEF Line, GetLine, GetNegativeLine, Parse, ParseGet

\* An exchange leaves the entries there were, and adds one that is backed at most.
LEMMA ExchangeEntries ==
    ASSUME IInv, NEW q \in Queries, pc[q] \in Calling,
           NEW cmd, cmd = Parse(Line(q)), cmd # Throw, ProcessCommand(cmd), now' = now
    PROVE  \/ OldOnly
           \/ \E new, name, entry :
                 now' = now /\ OldBut(new, name, entry) /\ NewIsBacked(new, name, entry)
<1>1. DOMAIN cache = Store!Kinds
  BY DEF IInv, Typed
<1>2. CASE pc[q] = "put"
  <2>1. PICK kind \in Store!Kinds :
             /\ cmd.type = (IF kind = "Positive" THEN "PUT_POSITIVE" ELSE "PUT_NEGATIVE")
             /\ NewIsBacked(kind, cmd.key, cmd.entry)
    BY <1>2, LineIsBacked
  <2>2. HandlePut(cmd, kind)
    BY <2>1 DEF ProcessCommand, Store!Kinds
  <2>3. OldBut(kind, cmd.key, cmd.entry)
    BY <1>1, <2>2, PutOldBut DEF HandlePut
  <2> QED
    BY <2>1, <2>3
<1>3. CASE pc[q] \in {"get", "getneg"}
  <2>1. HandleGet(cmd, "Positive")
    BY <1>3, LineIsPutOrGet DEF ProcessCommand
  <2> QED
    BY <1>1, <2>1, GetOldOnly DEF HandleGet, Store!Kinds
<1> QED
  BY <1>2, <1>3 DEF Calling
-----------------------------------------------------------------------------
LEMMA InitInv == Init => IInv
<1> SUFFICES ASSUME Init PROVE IInv
  OBVIOUS
<1>1. Typed
  BY DEF Init, Store!Init, Typed, Places, Links
<1>2. Timed /\ CacheReflectsNetwork
  BY DEF Init, Store!Init, Timed, CacheReflectsNetwork
<1>3. Control
  BY FlowAssumption DEF Init, Control, Heard, UpdatesWithResponse, Linked
<1> QED
  BY <1>1, <1>2, <1>3 DEF IInv

\* A query goes on, with nothing to update, the others where they are.
GoesOn(q) ==
    /\ UNCHANGED <<key, response, resolved>>
    /\ pc' \in [Queries -> Places] /\ link' \in [Queries -> Links]
    /\ \A p \in Queries \ {q} : pc'[p] = pc[p] /\ link'[p] = link[p]
    /\ pc'[q] = "put" => response[q] \in Responses
    /\ link'[q] # "none" => pc'[q] \in Calling

LEMMA ContinueGoes ==
    ASSUME Typed, NEW q \in Queries, pc[q] \in Calling, NEW r, Continue(q, r)
    PROVE  /\ pc' \in [Queries -> Places]
           /\ \A p \in Queries \ {q} : pc'[p] = pc[p]
           /\ pc'[q] # "put"
<1>1. PICK next \in {"done", "getneg", "resolve", "print"} : GoTo(q, next)
  BY DEF Continue, Calling, IsHit
<1> QED
  BY <1>1 DEF Typed, GoTo, Places, Ended

\* What each step of a query does, but to the store.
LEMMA ProbeGoes == ASSUME IInv, NEW q \in Queries, Probe(q) PROVE GoesOn(q)
<1>1. PICK next \in Places :
        GoTo(q, next) /\ (next = "put" => response[q] \in Responses)
  BY DEF Probe, IInv, Typed, Places, Ended
<1>2. link[q] = "none" /\ UNCHANGED <<link, key, response, resolved>>
  BY DEF Probe, IInv, Control, Linked, Calling
<1> QED
  BY <1>1, <1>2 DEF GoTo, GoesOn, IInv, Typed, Places, Links, Ended

LEMMA ConnectGoes == ASSUME IInv, NEW q \in Queries, Connect(q) PROVE GoesOn(q)
<1>1. pc[q] \in Calling /\ link[q] = "none" /\ UNCHANGED <<key, response, resolved>>
  BY DEF Connect, Calling
<1>2. CASE up
  BY <1>1, <1>2 DEF Connect, GoesOn, IInv, Typed, Control, UpdatesWithResponse, Links
<1>3. CASE ~up
  BY <1>1, <1>3, ContinueGoes DEF Connect, GoesOn, IInv, Typed
<1> QED
  BY <1>2, <1>3

LEMMA ExchangeGoes ==
    ASSUME IInv, NEW q \in Queries, Exchange(q) \/ HungUp(q) PROVE GoesOn(q)
<1>1. pc[q] \in Calling
  BY DEF Exchange, HungUp, IInv, Control, Linked
<1>2. link' = [link EXCEPT ![q] = "none"] /\ UNCHANGED <<key, response, resolved>>
  BY DEF Exchange, HungUp
<1>3. (\E r : Continue(q, r)) \/ GoTo(q, "killed")
  BY DEF Exchange, HungUp
<1>4. CASE \E r : Continue(q, r)
  BY <1>1, <1>2, <1>4, ContinueGoes DEF GoesOn, IInv, Typed, Links
<1>5. CASE GoTo(q, "killed")
  BY <1>2, <1>5 DEF GoTo, GoesOn, IInv, Typed, Places, Links, Ended
<1> QED
  BY <1>3, <1>4, <1>5

LEMMA ProcessResponseGoes ==
    ASSUME IInv, NEW q \in Queries, ProcessResponse(q) PROVE GoesOn(q)
<1>1. PICK next \in {"aborted", "done"} : GoTo(q, next)
  BY DEF ProcessResponse
<1>2. link[q] = "none" /\ UNCHANGED <<link, key, response, resolved>>
  BY DEF ProcessResponse, IInv, Control, Linked, Calling
<1> QED
  BY <1>1, <1>2 DEF GoTo, GoesOn, IInv, Typed, Places, Links, Ended

LEMMA GoesOnControl ==
    ASSUME IInv, NEW q \in Queries, GoesOn(q)
    PROVE  Control'
<1>1. Heard'
  BY DEF IInv, Control, Heard, GoesOn
<1>2. UpdatesWithResponse'
  BY DEF IInv, Control, UpdatesWithResponse, GoesOn
<1>3. Linked'
  BY DEF IInv, Control, Linked, GoesOn
<1> QED
  BY <1>1, <1>2, <1>3 DEF Control

LEMMA ResolveControl ==
    ASSUME IInv, NEW q \in Queries, Resolve(q)
    PROVE  /\ Control'
           /\ resolved \subseteq resolved'
           /\ pc' \in [Queries -> Places] /\ link' = link /\ key' = key
           /\ response' \in [Queries -> Responses \cup {Malformed, None}]
<1>1. /\ pc[q] = "resolve" /\ link[q] = "none" /\ link' = link /\ key' = key
      /\ pc \in [Queries -> Places] /\ response \in [Queries -> Responses \cup {Malformed, None}]
  BY DEF Resolve, IInv, Typed, Control, Linked, Calling
<1>2. PICK next \in {"probe2", "unresolved"} : pc' = [pc EXCEPT ![q] = next]
  BY DEF Resolve, GoTo
<1>3. \/ response' = response /\ resolved' = resolved
      \/ \E r \in Responses \cup {Malformed, None} :
            /\ response' = [response EXCEPT ![q] = r]
            /\ resolved' = IF r \notin Responses THEN resolved
                                                ELSE resolved \cup {<<key[q], r>>}
  BY DEF Resolve
<1>4. resolved \subseteq resolved'
  BY <1>3
<1>5. pc' \in [Queries -> Places] /\ pc'[q] # "put" /\ \A p \in Queries \ {q} : pc'[p] = pc[p]
  BY <1>1, <1>2 DEF Places, Ended
<1>6. /\ response' \in [Queries -> Responses \cup {Malformed, None}]
      /\ \A p \in Queries \ {q} : response'[p] = response[p]
      /\ response'[q] \in Responses => <<key[q], response'[q]>> \in resolved'
  <2>1. CASE response' = response /\ resolved' = resolved
    BY <1>1, <2>1 DEF IInv, Control, Heard
  <2>2. ASSUME NEW r \in Responses \cup {Malformed, None},
               response' = [response EXCEPT ![q] = r],
               resolved' = IF r \notin Responses THEN resolved
                                                 ELSE resolved \cup {<<key[q], r>>}
        PROVE  /\ response' \in [Queries -> Responses \cup {Malformed, None}]
               /\ \A p \in Queries \ {q} : response'[p] = response[p]
               /\ response'[q] \in Responses => <<key[q], response'[q]>> \in resolved'
    BY <1>1, <2>2
  <2> QED
    BY <1>3, <2>1, <2>2
<1>7. Heard'
  BY <1>1, <1>4, <1>6 DEF IInv, Control, Heard
<1>8. UpdatesWithResponse'
  BY <1>5, <1>6 DEF IInv, Control, UpdatesWithResponse
<1>9. Linked'
  BY <1>1, <1>5 DEF IInv, Control, Linked
<1> QED
  BY <1>1, <1>4, <1>5, <1>6, <1>7, <1>8, <1>9 DEF Control

\* The invariant is inductive: each action, and the two parts each can disturb.
LEMMA Step == ASSUME IInv, [Next]_vars PROVE IInv'
<1>1. now \in Nat /\ DOMAIN cache = Store!Kinds
  BY DEF IInv, Typed
\* Nothing new is stored.
<1>2. ASSUME cache' = cache PROVE OldOnly
  BY <1>1, <1>2 DEF OldOnly
\* The entries, then, are as before, or one is new and backed.
<1>3. ASSUME now' = now, resolved \subseteq resolved', Control',
             pc' \in [Queries -> Places], link' \in [Queries -> Links], key' = key,
             response' \in [Queries -> Responses \cup {Malformed, None}],
             \/ OldOnly
             \/ \E new, name, entry :
                   now' = now /\ OldBut(new, name, entry) /\ NewIsBacked(new, name, entry)
      PROVE  IInv'
  <2>1. Timed' /\ CacheReflectsNetwork'
    BY <1>3, EntriesStep
  <2>2. DOMAIN cache' = Store!Kinds
    BY <1>3 DEF OldOnly, OldBut
  <2>3. Typed'
    BY <1>1, <1>3, <2>2 DEF Typed, IInv
  <2> QED
    BY <1>3, <2>1, <2>3 DEF IInv
<1>4. ASSUME NEW q \in Queries, Execute(q) PROVE IInv'
  <2>1. now' = now
    BY <1>4 DEF Execute
  <2>2. ASSUME GoesOn(q), OldOnly \/ \E new, name, entry :
                   now' = now /\ OldBut(new, name, entry) /\ NewIsBacked(new, name, entry)
        PROVE  IInv'
    <3>1. Control'
      BY <2>2, GoesOnControl
    <3>2. /\ pc' \in [Queries -> Places] /\ link' \in [Queries -> Links] /\ key' = key
          /\ response' \in [Queries -> Responses \cup {Malformed, None}]
          /\ resolved \subseteq resolved'
      BY <2>2 DEF GoesOn, IInv, Typed, Links
    <3> QED
      BY <1>3, <2>1, <2>2, <3>1, <3>2
  <2>3. CASE Probe(q) \/ Connect(q) \/ ProcessResponse(q)
    <3>1. cache' = cache
      BY <2>3 DEF Probe, Connect, ProcessResponse, storeVars
    <3> QED
      BY <1>2, <2>2, <2>3, <3>1, ProbeGoes, ConnectGoes, ProcessResponseGoes
  <2>4. CASE HungUp(q)
    <3>1. cache' = cache
      BY <2>4 DEF HungUp, storeVars
    <3> QED
      BY <1>2, <2>2, <2>4, <3>1, ExchangeGoes
  <2>5. CASE Exchange(q)
    <3>1. pc[q] \in Calling
      BY <2>5 DEF Exchange, IInv, Control, Linked
    <3>2. cache' = cache \/ (Parse(Line(q)) # Throw /\ ProcessCommand(Parse(Line(q))))
      BY <2>5 DEF Exchange, storeVars
    <3>3. OldOnly \/ \E new, name, entry :
                   now' = now /\ OldBut(new, name, entry) /\ NewIsBacked(new, name, entry)
      BY <1>2, <2>1, <3>1, <3>2, ExchangeEntries
    <3> QED
      BY <2>2, <2>5, <3>3, ExchangeGoes
  <2>6. CASE Resolve(q)
    <3>1. cache' = cache
      BY <2>6 DEF Resolve, storeVars
    <3>2. link' \in [Queries -> Links]
      BY <2>6, ResolveControl DEF IInv, Typed
    <3> QED
      BY <1>2, <1>3, <2>1, <2>6, <3>1, <3>2, ResolveControl
  <2> QED
    BY <1>4, <2>3, <2>4, <2>5, <2>6 DEF Execute
<1>5. CASE Deactivate
  <2>1. /\ UNCHANGED <<now, pc, key, response, resolved>>
        /\ link' = [q \in Queries |-> IF link[q] = "open" THEN "reset" ELSE link[q]]
    BY <1>5 DEF Deactivate
  <2>2. link' \in [Queries -> Links]
        /\ \A q \in Queries : link'[q] # "none" => link[q] # "none"
    BY <2>1 DEF IInv, Typed, Links
  <2>3. Control'
    BY <2>1, <2>2 DEF IInv, Control, Heard, UpdatesWithResponse, Linked
  <2> QED
    BY <1>3, <1>5, <2>1, <2>2, <2>3, DeactivateOldOnly DEF IInv, Typed
<1>6. CASE Activate \/ Sweep \/ Tick \/ UNCHANGED vars
  <2>1. UNCHANGED <<pc, link, key, response, resolved>> /\ now' \in {now, now + 1}
    BY <1>6 DEF Activate, Sweep, Tick, vars
  <2>2. OldOnly
    BY <1>2, <1>6, CleanupOldOnly DEF Activate, Sweep, Tick, vars, storeVars
  <2>3. Timed' /\ CacheReflectsNetwork'
    BY <2>1, <2>2, EntriesStep
  <2>4. Control'
    BY <2>1 DEF IInv, Control, Heard, UpdatesWithResponse, Linked
  <2>5. Typed'
    BY <1>1, <2>1, <2>2 DEF IInv, Typed, OldOnly
  <2> QED
    BY <2>3, <2>4, <2>5 DEF IInv
<1> QED
  BY <1>4, <1>5, <1>6 DEF Next

LEMMA Invariance == FairSpec => []IInv
BY InitInv, Step, PTL DEF FairSpec
-----------------------------------------------------------------------------
(***************************************************************************)
(* Whatever queries race and however often the daemon is restarted, an     *)
(* entry of the positive cache is an answer the network gave to that very  *)
(* name and is gone within its TTL; one of the negative cache comes from a *)
(* response without an answer, under the reason of its code                *)
(* (DNSCommandHandler::execute, handlePut, handlePutNegative).             *)
(***************************************************************************)
THEOREM CacheReflectsNetworkTheorem == FairSpec => []CacheReflectsNetwork
<1>1. IInv => CacheReflectsNetwork
  BY DEF IInv
<1> QED
  BY <1>1, Invariance, PTL
=============================================================================
