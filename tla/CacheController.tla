--------------------------- MODULE CacheController ---------------------------
(***************************************************************************)
(* CommandParser::parse (src/server/cache_command_parser.cpp) and          *)
(* CacheController::processCommand (src/server/cache_controller.cpp): what *)
(* the daemon makes of the line a client sends, and what it runs on the    *)
(* store.  No state of its own: CacheServer runs these from its handlers,  *)
(* parse first and the store's operation some time later.                  *)
(*                                                                         *)
(* A line is a record of the tokens its verb reads; a token the stream     *)
(* extraction rejects, or one that is not there, is Garbage.               *)
(***************************************************************************)
EXTENDS Integers, FiniteSets

CONSTANTS
    Keys, Data, Expirations, Capacities, DefaultMax, MaxTime, \* of CacheStore
    IntMax,       \* largest value of the parser's int ttl, 2^31 - 1
    SizeModulus,  \* number of values of size_t, 2^64
    Garbage       \* a missing or malformed token

VARIABLES cache, maxSize, now, reply

Store == INSTANCE CacheStore

ASSUME ControllerAssumption ==
    /\ Expirations \subseteq Int /\ Capacities \subseteq Nat
    /\ DefaultMax \in Nat /\ MaxTime \in Nat
    /\ IntMax \in Nat
    /\ SizeModulus \in Nat \ {0}
    /\ Garbage \notin Keys \cup Data
-----------------------------------------------------------------------------
\* The exception parse throws: the handler turns it into an error message.
Throw == [type |-> "throw"]

\* What "ss >> ttl" accepts for an int.
IsInt(token) == token # Garbage /\ token \in (-IntMax - 1)..IntMax

\* "ss >> size" reads a size_t: a minus sign is accepted and wraps around.
IsSize(token) == token # Garbage /\ token \in (1 - SizeModulus)..(SizeModulus - 1)
ToSize(n) == n % SizeModulus

\* CacheStore::stringToTarget
StringToTarget(word) ==
    CASE word = "POSITIVE" -> "Positive"
      [] word = "NEGATIVE" -> "Negative"
      [] word = "ALL"      -> "All"
      [] OTHER             -> "Invalid"

\* The expiration time is fixed here, before the store's lock is taken.
Lasting(data, ttl) == [data |-> data, expiration_time |-> now + ttl]

\* A line with all that PUT extracts: a key and an int.
Stores(line) == line.key # Garbage /\ IsInt(line.ttl)

ParsePut(line) ==
    IF Stores(line)
    THEN [type |-> "PUT_POSITIVE", key |-> line.key,
          entry |-> Lasting(line.data, line.ttl)]
    ELSE Throw

\* Any reason but NXDOMAIN is taken for NODATA.
ParsePutNegative(line) ==
    IF Stores(line)
    THEN [type |-> "PUT_NEGATIVE", key |-> line.key,
          entry |-> Lasting(IF line.data = "NXDOMAIN" THEN "NXDOMAIN" ELSE "NODATA",
                            line.ttl)]
    ELSE Throw

ParseGet(line, type) ==
    IF line.key # Garbage THEN [type |-> type, key |-> line.key] ELSE Throw

\* PURGE and LIST never throw: a target they do not know is Invalid.
ParseTargeted(line, type) ==
    [type |-> type, target |-> StringToTarget(line.target)]

\* Any target but POSITIVE is taken for the negative cache.
ParseSet(line) ==
    IF IsSize(line.size)
    THEN [type |-> "SET_MAX_SIZE", size |-> ToSize(line.size),
          is_positive |-> line.target = "POSITIVE"]
    ELSE Throw

Parse(line) ==
    CASE line.verb = "PUT"          -> ParsePut(line)
      [] line.verb = "PUT_NEGATIVE" -> ParsePutNegative(line)
      [] line.verb = "GET"          -> ParseGet(line, "GET_POSITIVE")
      [] line.verb = "GET_NEGATIVE" -> ParseGet(line, "GET_NEGATIVE")
      [] line.verb \in {"PURGE", "LIST"} -> ParseTargeted(line, line.verb)
      [] line.verb = "SET"          -> ParseSet(line)
      [] line.verb \in {"STATUS", "SHUTDOWN", "START_CLEANUP_THREAD"} ->
            [type |-> line.verb]
      [] OTHER                      -> Throw
\* The commands there are, and the lines whose entries, times and limits are
\* values the constants provide for: what a model of the store can hold.
Commands ==
         [type : {"PUT_POSITIVE", "PUT_NEGATIVE"}, key : Keys, entry : Store!Entries]
    \cup [type : {"GET_POSITIVE", "GET_NEGATIVE"}, key : Keys]
    \cup [type : {"PURGE", "LIST"}, target : Store!CacheTarget]
    \cup [type : {"SET_MAX_SIZE"}, size : Capacities, is_positive : BOOLEAN]
    \cup [type : {"STATUS", "SHUTDOWN", "START_CLEANUP_THREAD"}]

Covered(line) ==
    /\ line.verb \in {"PUT", "PUT_NEGATIVE"} /\ Stores(line) =>
          /\ line.key \in Keys
          /\ IF line.verb = "PUT" THEN line.data \in Data
                                 ELSE {"NXDOMAIN", "NODATA"} \subseteq Data
          /\ \A time \in 0..MaxTime : time + line.ttl \in Expirations
    /\ line.verb \in {"GET", "GET_NEGATIVE"} => line.key \in Keys \cup {Garbage}
    /\ line.verb = "SET" /\ IsSize(line.size) => ToSize(line.size) \in Capacities
-----------------------------------------------------------------------------
(***************************************************************************)
(* processCommand, for the commands that are one operation of the store;   *)
(* SHUTDOWN and START_CLEANUP_THREAD handle threads and are steps of       *)
(* CacheServer.  parse fills in every field a handler reads.               *)
(***************************************************************************)
HandlePut(cmd, kind) ==
    /\ Store!Put(kind, cmd.key, cmd.entry)
    /\ reply' = Store!PutAnswer(kind, cmd.key)

HandleGetStale(cmd, kind) ==    \* mutant of HandleGet: no test of the time
    /\ UNCHANGED <<cache, maxSize>>
    /\ reply' = IF cmd.key \in DOMAIN cache[kind]
                THEN [op |-> "hit", kind |-> kind, key |-> cmd.key,
                      entry |-> cache[kind][cmd.key]]
                ELSE Store!GetAnswer(kind, cmd.key)

HandleGet(cmd, kind) ==
    /\ Store!Get(kind, cmd.key)
    /\ reply' = Store!GetAnswer(kind, cmd.key)

HandlePurge(cmd) == Store!Purge(cmd.target) /\ reply' = Store!PurgeAnswer

HandleSetMaxSize(cmd) ==
    /\ Store!SetMaxSize(cmd.size, cmd.is_positive)
    /\ reply' = Store!SetAnswer

HandleList(cmd) ==
    /\ reply' = Store!ListAnswer(cmd.target)
    /\ UNCHANGED <<cache, maxSize>>

HandleStatusSwapped ==          \* mutant of HandleStatus: the caches swapped
    /\ reply' = [Store!StatusAnswer EXCEPT
                    !.size = [Positive |-> @.Negative, Negative |-> @.Positive]]
    /\ UNCHANGED <<cache, maxSize>>

HandleStatus == reply' = Store!StatusAnswer /\ UNCHANGED <<cache, maxSize>>

ProcessCommand(cmd) ==
    \/ cmd.type = "PUT_POSITIVE" /\ HandlePut(cmd, "Positive")
    \/ cmd.type = "PUT_NEGATIVE" /\ HandlePut(cmd, "Negative")
    \/ cmd.type = "GET_POSITIVE" /\ HandleGet(cmd, "Positive")
    \/ cmd.type = "GET_NEGATIVE" /\ HandleGet(cmd, "Negative")
    \/ cmd.type = "PURGE"        /\ HandlePurge(cmd)
    \/ cmd.type = "SET_MAX_SIZE" /\ HandleSetMaxSize(cmd)
    \/ cmd.type = "LIST"         /\ HandleList(cmd)
    \/ cmd.type = "STATUS"       /\ HandleStatus
=============================================================================
