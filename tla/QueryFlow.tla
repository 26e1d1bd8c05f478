------------------------------ MODULE QueryFlow ------------------------------
(***************************************************************************)
(* DNSCommandHandler::execute (src/dns/dns_command_handler.cpp): what one  *)
(* run of "resolver --name ..." does with the daemon's cache and with the  *)
(* network, several of them at once, while the daemon is activated and     *)
(* deactivated under them.                                                 *)
(*                                                                         *)
(* A command to the daemon is two steps here, connect and the exchange on  *)
(* that connection; what handlers, sweeper and shutdown do meanwhile is    *)
(* CacheServer.  What resolve returns is any response or none: DnsClient.  *)
(***************************************************************************)
EXTENDS CacheController

CONSTANTS
    Queries,    \* processes, one query each
    Asked,      \* keys asked for
    Prefixed,   \* Prefixed[k]: the key "NEGATIVE" glued to k's name makes
    Responses,  \* what resolve may return
    Malformed,  \* a response that does not parse: iterative mode tests none
    MayStop,    \* the daemon may be deactivated, and activated again
    None

ASSUME FlowAssumption ==
    /\ Asked \subseteq Keys
    /\ Prefixed \in [Asked -> Keys]
    /\ MayStop \in BOOLEAN
    /\ Responses \subseteq [rcode : 0..15, answers : {{}} \cup {{d} : d \in Data}, ttl : Nat]
    /\ {None, Malformed} \cap Responses = {}

VARIABLES
    up,        \* the daemon listens
    pc,        \* pc[q]: where execute is
    link,      \* link[q]: its connection, "none", "open" or "reset"
    key,       \* key[q]: cache_key
    response,  \* response[q]: response_bytes, parsed
    printed,   \* printed[q]: what the user has seen
    resolved   \* history: the answers the network ever gave, and to what

storeVars == <<cache, maxSize, reply>>
vars == <<storeVars, now, up, pc, link, key, response, printed, resolved>>

Ended == {"done", "killed", "aborted", "unresolved"}

Init ==
    /\ Store!Init
    /\ up = TRUE
    /\ pc = [q \in Queries |-> "probe"]
    /\ link = [q \in Queries |-> "none"]
    /\ key \in [Queries -> Asked]
    /\ response = [q \in Queries |-> None]
    /\ printed = [q \in Queries |-> None]
    /\ resolved = {}
-----------------------------------------------------------------------------
(* The lines execute sends. *)

GetLine(q) == [verb |-> "GET", key |-> key[q]]

\* "GET NEGATIVE" << qname: no blank after it, no underscore before.
GetNegativeLine(q) == [verb |-> "GET", key |-> Prefixed[key[q]]]

IsPositive(r) == r.rcode = 0 /\ r.answers # {}

PutAnyway(q) ==             \* mutant of PutLine: positive whatever came
    [verb |-> "PUT", key |-> key[q], ttl |-> response[q].ttl,
     data |-> IF IsPositive(response[q]) THEN CHOOSE d \in response[q].answers : TRUE
                                         ELSE "NODATA"]

\* The first answer with its TTL, or a reason with 300 seconds: any error
\* but NXDOMAIN, and a referral too, is stored as NODATA.
PutLine(q) ==
    LET r == response[q]
    IN  IF IsPositive(r)
        THEN [verb |-> "PUT", key |-> key[q], ttl |-> r.ttl,
              data |-> CHOOSE d \in r.answers : TRUE]
        ELSE [verb |-> "PUT_NEGATIVE", key |-> key[q], ttl |-> 300,
              data |-> IF r.rcode = 3 THEN "NXDOMAIN" ELSE "NODATA"]

Line(q) ==
    CASE pc[q] = "get"    -> GetLine(q)
      [] pc[q] = "getneg" -> GetNegativeLine(q)
      [] pc[q] = "put"    -> PutLine(q)

IsHit(r) == r.op = "hit"
-----------------------------------------------------------------------------
GoTo(q, next) == pc' = [pc EXCEPT ![q] = next]
Show(q, what) == printed' = [printed EXCEPT ![q] = what]

\* What execute does with what sendCommand returned.
Continue(q, r) ==
    CASE pc[q] \in {"get", "getneg"} /\ IsHit(r) -> GoTo(q, "done") /\ Show(q, r)
      [] pc[q] = "get" /\ ~IsHit(r)    -> GoTo(q, "getneg") /\ UNCHANGED printed
      [] pc[q] = "getneg" /\ ~IsHit(r) -> GoTo(q, "resolve") /\ UNCHANGED printed
      [] pc[q] = "put"                 -> GoTo(q, "print") /\ UNCHANGED printed

Empty == [op |-> "empty"]

\* isCacheActive, before the lookup and before the update: a daemon whose
\* backlog is full counts as none.  The exception of parseResponse, here or
\* in processResponse, is caught by nobody.
Probe(q) ==
    /\ \E active \in {FALSE, up} :
          \/ pc[q] = "probe" /\ GoTo(q, IF active THEN "get" ELSE "resolve")
          \/ /\ pc[q] = "probe2"
             /\ GoTo(q, CASE ~active \/ response[q] = None -> "print"
                          [] active /\ response[q] = Malformed -> "aborted"
                          [] OTHER -> "put")
    /\ UNCHANGED <<storeVars, link, key, response, printed, resolved>>

\* sendCommand: connect, or the empty string when nobody listens ...
Connect(q) ==
    /\ pc[q] \in {"get", "getneg", "put"} /\ link[q] = "none"
    /\ IF up THEN link' = [link EXCEPT ![q] = "open"] /\ UNCHANGED <<pc, printed>>
             ELSE Continue(q, Empty) /\ UNCHANGED link
    /\ UNCHANGED <<storeVars, key, response, resolved>>

\* ... send and recv.  A line parse rejects is answered with its error.
Exchange(q) ==
    /\ link[q] = "open"
    /\ link' = [link EXCEPT ![q] = "none"]
    /\ LET cmd == Parse(Line(q))
       IN  IF cmd = Throw THEN Continue(q, Empty) /\ UNCHANGED storeVars
                          ELSE ProcessCommand(cmd) /\ Continue(q, reply')
    /\ UNCHANGED <<key, response, resolved>>

HungUpUnnoticed(q) == FALSE  \* mutant of HungUp: recv goes on waiting

\* The daemon closed its end: recv returns nothing, or send raises SIGPIPE,
\* which the resolver does not ignore either.
HungUp(q) ==
    /\ link[q] = "reset"
    /\ link' = [link EXCEPT ![q] = "none"]
    /\ \/ Continue(q, Empty)
       \/ GoTo(q, "killed") /\ UNCHANGED printed
    /\ UNCHANGED <<storeVars, key, response, resolved>>

\* resolve returns a response or none; or it does not return (DnsClient).
Resolve(q) ==
    /\ pc[q] = "resolve"
    /\ \/ /\ \E r \in Responses \cup {Malformed, None} :
                /\ response' = [response EXCEPT ![q] = r]
                /\ resolved' = IF r \notin Responses THEN resolved
                                                    ELSE resolved \cup {<<key[q], r>>}
          /\ GoTo(q, "probe2")
       \/ GoTo(q, "unresolved") /\ UNCHANGED <<response, resolved>>
    /\ UNCHANGED <<storeVars, link, key, printed>>

\* processResponse prints the response, or that there was none.
ProcessResponse(q) ==
    /\ pc[q] = "print"
    /\ IF response[q] = Malformed
       THEN GoTo(q, "aborted") /\ UNCHANGED printed
       ELSE /\ GoTo(q, "done")
            /\ Show(q, IF response[q] = None THEN Empty
                        ELSE [op |-> "answer", entry |-> response[q]])
    /\ UNCHANGED <<storeVars, link, key, response, resolved>>

Execute(q) ==
    /\ \/ Probe(q) \/ Connect(q) \/ Exchange(q) \/ HungUp(q) \/ Resolve(q)
       \/ ProcessResponse(q)
    /\ UNCHANGED <<now, up>>

\* The cache is the daemon's memory: it goes with it.
Deactivate ==
    /\ MayStop /\ up
    /\ up' = FALSE
    /\ cache' = [kind \in Store!Kinds |-> << >>]
    /\ link' = [q \in Queries |-> IF link[q] = "open" THEN "reset" ELSE link[q]]
    /\ maxSize' = [kind \in Store!Kinds |-> DefaultMax]
    /\ UNCHANGED <<reply, now, pc, key, response, printed, resolved>>

Activate ==
    /\ ~up
    /\ up' = TRUE
    /\ UNCHANGED <<storeVars, now, pc, link, key, response, printed, resolved>>

Sweep ==
    /\ up
    /\ Store!Cleanup
    /\ UNCHANGED <<reply, now, up, pc, link, key, response, printed, resolved>>

Tick ==
    /\ now < MaxTime
    /\ now' = now + 1
    /\ UNCHANGED <<storeVars, up, pc, link, key, response, printed, resolved>>

Next ==
    \/ \E q \in Queries : Execute(q)
    \/ Deactivate \/ Activate \/ Sweep \/ Tick

\* A process that has been started runs to its end; nobody has to touch the
\* daemon.
FairSpec == Init /\ [][Next]_vars /\ \A q \in Queries : WF_vars(Execute(q))
-----------------------------------------------------------------------------
(***************************************************************************)
(* Whatever queries race and however often the daemon restarts, what the   *)
(* caches hold is what the network said of that very name: an entry of the *)
(* positive cache is an answer resolve returned for it, and will be gone   *)
(* within its TTL; one of the negative cache comes from a response that    *)
(* had no answer, under the reason its code stands for.                    *)
(***************************************************************************)
Backed(kind, entry, r, time) ==
    IF kind = "Positive"
    THEN /\ IsPositive(r) /\ entry.data \in r.answers
         /\ entry.expiration_time <= time + r.ttl
    ELSE /\ ~IsPositive(r) /\ (entry.data = "NXDOMAIN" <=> r.rcode = 3)
         /\ entry.expiration_time <= time + 300
CacheReflectsNetwork ==
    \A kind \in Store!Kinds : \A k \in DOMAIN cache[kind] :
        \E r \in Responses : /\ <<k, r>> \in resolved
                             /\ Backed(kind, cache[kind][k], r, now)

(***************************************************************************)
(* A query ends, also when the daemon goes away in the middle of it: it    *)
(* never waits for an answer of the cache that nobody will send.  That     *)
(* resolve may hold it for ever is DnsClient's matter.                     *)
(***************************************************************************)
EveryQueryEnds == \A q \in Queries : <>(pc[q] \in Ended)

(***************************************************************************)
(* A repeated query of a name that does not exist "agora sera um 'cache    *)
(* hit'" (README.md:113): the second lookup misses only if the negative    *)
(* cache has no live entry for the name.                                   *)
(***************************************************************************)
NegativeLookup(q) == pc[q] = "getneg" /\ pc'[q] = "resolve" /\ link[q] = "open"
NegativeIsHit ==
    [][\A q \in Queries : NegativeLookup(q) => ~Store!Hit("Negative", key[q])]_vars

(***************************************************************************)
(* "Resposta encontrada na cache" (dns_command_handler.cpp:35): what is    *)
(* printed as found is an entry of the name that was asked for.            *)
(***************************************************************************)
HitIsForTheName ==
    \A q \in Queries :
        printed[q] # None /\ printed[q].op = "hit" => printed[q].key = key[q]

(***************************************************************************)
(* sendCommand returns "uma string vazia em caso de falha"                 *)
(* (cache_client.hpp:19): a cache that goes away costs a query nothing but *)
(* the cache; the answer it has resolved is printed.                       *)
(***************************************************************************)
SurvivesTheCache == \A q \in Queries : pc[q] # "killed"

(***************************************************************************)
(* resolve "retorna vazio em caso de falha" (dns_client.hpp:26): a query   *)
(* whose answer is no DNS message says so, and is not aborted by an        *)
(* exception nobody catches.                                               *)
(***************************************************************************)
SurvivesTheAnswer == \A q \in Queries : pc[q] # "aborted"
=============================================================================
