---------------------------- MODULE MCCacheServer ----------------------------
(* Instances of CacheServer for TLC: what the clients may send in each run. *)
EXTENDS CacheServer, TLC

CONSTANTS k1

ClientSymmetry == Permutations(Clients)

Shutdown == [verb |-> "SHUTDOWN"]
StatusLine == [verb |-> "STATUS"]
Start == [verb |-> "START_CLEANUP_THREAD"]
Bogus == [verb |-> "BOGUS"]
PutLine(key, ttl) == [verb |-> "PUT", key |-> key, data |-> "A", ttl |-> ttl]
PutNegativeLine(key, ttl) ==
    [verb |-> "PUT_NEGATIVE", key |-> key, data |-> "NXDOMAIN", ttl |-> ttl]
GetLine(key) == [verb |-> "GET", key |-> key]
GetNegativeLine(key) == [verb |-> "GET_NEGATIVE", key |-> key]

List(target) == [verb |-> "LIST", target |-> target]

\* What threads make of the commands that handle threads, of one that parse
\* refuses, and of responses with and without text ...
ThreadLines == {Shutdown, Start, StatusLine, Bogus, List("ALL"), List("POSTIVE")}

\* ... and of all the others: TTLs at and beyond the limit of an int, sizes at
\* the limits of a size_t, a target that is misspelt.
StoreLines ==
    {PutLine(k1, 0), PutLine(k1, IntMax), PutLine(k1, IntMax + 1), PutNegativeLine(k1, 0),
     GetLine(k1), GetNegativeLine(k1), StatusLine}
    \cup {[verb |-> "PURGE", target |-> target] : target \in {"POSITIVE", "POSTIVE"}}
    \cup {List("ALL"), List("POSTIVE")}
    \cup {[verb |-> "SET", target |-> "POSITIVE", size |-> n] : n \in {-1, Garbage}}
=============================================================================
