# Verification of the DNS resolver and its cache daemon

TLA+ models of the resolver in this repository, checked with TLC, and theorems about them
checked with TLAPS. The program is one binary, `resolver`, with two roles: a command that
resolves one name (`--name ...`) and a daemon that keeps answers in memory (`--activate`),
reached over the Unix socket `/tmp/resolver.sock`.

## The system

| Component | State | Operations | Talks to |
|---|---|---|---|
| `CacheStore` | two hash tables (positive, negative), two limits, `_mutex`, the sweeping thread | `put`, `getPositive/Negative`, `purge`, `list`, `setMaxSize`, `getStatus`, `cleanup`, start/stop of the thread | called by the controller from any handler thread |
| `CommandParser`, `CacheController` | none | text line -> `Command` -> store operation -> text | called by `CacheServer::handleClient` |
| `CacheServer` | listening socket, `_is_running`, one detached thread per connection | `run`, `stop`, `acceptConnections`, `handleClient`, `cleanup` | clients over the socket; other daemons through the socket file |
| `CacheClient` | none | `sendCommand`, `isCacheActive` | the daemon |
| `CacheCommandHandler` | owns store, controller and server while the daemon runs | one line per management command | `CacheClient`, `CacheServer` |
| `DNSCommandHandler` | the query, its response | `execute`, `configureClient`, `processResponse` | cache and `DNSClient` |
| `DNSClient` | servers left, current name, depth | `resolve` over UDP, TCP, TLS | name servers |
| `DNSMessage` | header, question, records of one message | `configureQuery`, `buildQuery`, `parseResponse` | used by `DNSClient`, `DOTClient`, `DNSCommandHandler` |
| `DOTClient` | a socket and a TLS session | `connect`, `sendQuery`, `receiveResponse`, `closeConnection` | a name server; used by `DNSClient::queryDot` |
| `Arguments`, `main` | the options read; `argv`, which getopt reorders | the constructor's `parse`; the choice of a handler | both command handlers |
| utilities | - | an error message and exit, the table of query types | - |

What is hard here, and what makes each part correct:

* **Store**: a capacity that can change at any time, entries that die by time, by eviction,
  by purge and by sweep. Correct when live data is lost only to a purge or to a put into a
  full cache, when nothing comes back, and when a lookup never answers with dead data.
* **Server**: main thread, handlers, sweeper and clients interleave; shutdown has to wake a
  thread blocked in `accept`, join another, and not lie to anybody. Two flags are shared
  without a lock.
* **Activation**: several processes agree through one file name, with system calls in
  between, and processes that die and leave the file behind.
* **Resolution**: losses, dead servers, referrals and aliases that may go in circles, state
  (name, servers, depth, response) replaced half way.
* **Messages**: lengths, counts and compression pointers come from the network, and the
  message is built again from what was parsed.
* **Streams**: sizes and messages arrive and leave in pieces, the server may go at any point,
  and the sockets block.
* **Command line**: `getopt_long` moves the words that the handlers then address by position.
* **Query**: the daemon may go between any two commands of a query; lines are put together
  on one side and parsed on the other.

`PROJECT.json` lists these hazards one by one, at their lines, with the properties that
watch them. Where the code does go wrong, a passing run can only admit that it does: such a
hazard has no property but a note, with the configuration that shows the trace.

## Modules

| Module | Models | State in the code |
|---|---|---|
| `LossyCache` | abstract: what the store promises, without limits, eviction or thread | - |
| `CacheStore` | `cache_store.cpp`, each operation under `_mutex` one action | `cache` = both tables, `maxSize`, `now` = `time()`, `reply` = returned value |
| `CacheController` | `cache_command_parser.cpp`, `cache_controller.cpp`; operators only, on an instance `Store` of `CacheStore` | - |
| `CacheServer` | `cache_server.cpp`, the sweeper's life cycle, `cache_client.cpp`; extends `CacheController` | `mainPc`, `hpc[c]`, `sweeperPc`, `cpc[c]` = where each thread or process is; `isRunning`, `cleaning`, `joinable` = the flags and the `std::thread`; `backlog` = the kernel's queue |
| `DaemonActivation` | socket file and several `--activate` processes | `file` = whose socket the path leads to, `pc[d]` |
| `DnsClient` | `dns_client.cpp`, `configureClient` | the locals of `resolve`; `net` = what the (external) servers say |
| `DnsMessage` | `dns_message.cpp` over the bytes of one packet: `parseResponse` one turn of `readName`'s loop at a time, `buildQuery`, and the rebuilding in `queryDot` | `pos`, `call` = the locals of `parseResponse` and `readName`; `header`, `question`, `records` |
| `StreamQuery` | `queryTcp`, and `queryDot` with `dot_client.cpp`, one call of `send`, `recv`, `mbedtls_ssl_*` at a time | `socket`, `request`, `buffer`, `size`; `server`, `stream`, `arrived` = the (external) other end |
| `CommandLine` | `arguments.cpp`, `main.cpp`, `cache_command_handler.cpp`, `validateArgs`; joined to `CacheController!Parse` | `argv`, `optind` and getopt's own two indices, `args` = the members of `Arguments`, `sent` |
| `QueryFlow` | `dns_command_handler.cpp` with cache and network; extends `CacheController` | `pc[q]`, `link[q]`, `response[q]`; `resolved` is a history |
| `CacheStoreProofs`, `CacheServerProofs`, `DaemonActivationProofs`, `DnsClientProofs`, `DnsMessageProofs`, `StreamQueryProofs`, `QueryFlowProofs`, `CommandLineProofs` | theorems about the module they are named after | - |
| `MC*` | constants for TLC | - |

`CacheStore` splits an operation in an action on its own variables (`Put`) and the value it
returns (`PutAnswer`), so that `CacheServer` and `QueryFlow` run the very same definitions
from a handler, parse first (`Parse`, which fixes the expiration time) and store later
(`ProcessCommand`).

A definition whose comment says *mutant of X* is a wrong version of X, right above it. It is
used nowhere in the specifications: it shows that a property can fail.

### Abstractions

* A key is name, type and class together; an entry is its data and its expiration time. The
  `is_dnssec_validated` flag is stored and never read, so it is left out.
* Eviction erases `begin()` of a hash table: any entry.
* A line is a record of tokens; `Garbage` is a missing or malformed one. Widths are kept:
  `IntMax` for `int ttl`, `SizeModulus` for the `size_t` that `SET` reads.
* The clock does not go back. It is bounded (`MaxTime`), the bound only stops `Tick`.
* An object used after its destruction (`CacheServer!UseDestroyed`) may crash or go on with
  whatever the memory holds. The unsynchronised flags are read and written in one step each.
* An answer of the daemon is delivered whole; text and the 2048 byte buffers are left out,
  but not whether there is a text: LIST of a target the parser does not know has none
  (`CacheServer!IsEmptyText`), `write` sends nothing, and the client gets the empty string.
* `DnsMessage` works on the bytes themselves. Of what a decoder prints it keeps the names and
  the ranges of the record's data they and the numbers were read from.
* `StreamQuery` lets every call take or return any number of bytes that is possible. The state
  of a server that goes away is what the next system call sees of it: the end of the stream, an
  error once, `SIGPIPE` from then on. Of TLS it keeps that nothing is read or written before
  the certificate passes, and that closing writes.
* `CommandLine` has words, not characters: `Number` and `Pieces` say which words spell a number
  and which have blanks in them. `getopt_long` is glibc's, permutation included, for long
  options with the argument in the next word.
* `DnsClient` keeps, of a message, the code, the answers (an alias or data), whether there is
  an authority section and the addresses in the additional one. What compressed targets
  decode to is one wrong name, `Garbled`. DNSSEC flags are set by the code and used nowhere.
  What arrives of a message has a form: whole, truncated (with the TC bit, as the server cut
  it) or cut (it does not parse). The recursive modes ask again over TCP for a truncated one,
  the one that queryDot has built again included, and drop the server of a cut one; iterative
  mode returns what came.
* `MAX_DEPTH` (30) is a constant, 3 or 4 in the runs, so that it is reached.

## Runs

Passing runs:

| Run | Question | Bounds |
|---|---|---|
| `store` | limits, losses, promise | 3 keys (symmetric), limits 0..2, times 0..2: a full cache, a lowered limit, the last second and an expired entry all occur |
| `server_threads` | wake-up, join, what clients are told, the end of the daemon | 2 clients, which may leave, with SHUTDOWN, START_CLEANUP_THREAD, STATUS, LIST of everything and of a misspelt target, and an unknown line; a backlog of 1, so that connecting and waking the main thread both wait; the store stays empty |
| `server_store` | handlers only take the store's steps | 2 clients on one key, every verb, TTLs at and beyond the `int` limit, `-1` as a size, a misspelt target |
| `activation_serial` | one reachable daemon, also after crashes | 4 processes |
| `dns` | what is asked and returned, giving up, termination | all modes, 5 addresses, 2 names and a garbled one, depth 3; a calm network (well kept zones, dead servers, nothing lost) and a stormy one (referral cycles, aliases, losses, truncation, datagrams that do not parse) |
| `query_flow` | the cache reflects the network | 2 queries of 2 names, a cache of one entry, a daemon that comes and goes |
| `message` | where parsing gets to, and with what | every question of up to 4 bytes out of 7 (zero, lengths that fit or not, pointers to the header, themselves, forward, beyond the end); records of every decoded type with right, short and cut data under 6 owners; pairs of records in all sections; every prefix of 105 packets; questions up to labels of 256 bytes and names of 20 labels; the code's own 20 steps |
| `command_line` | from words to the command the daemon parses | all lines of up to 4 words out of 13, and the documented put and get lines with each word changed (for one with blanks, too), dropped or something put in between: every permutation getopt makes of them, missing arguments included |
| `stream` | framing and the end of a query over TCP or TLS | a query of 3 bytes against 7 streams (a message, two, a short one, an empty one, half a size, one too large, none), cut into pieces in every way, from servers that are absent, refuse, or go away at any point |

Two clients are enough for what `server_threads` asks: each of its hazards is a race of two
handlers, or of one with the main thread or the sweeper, and a backlog of one is already
full with a single connection.

Runs that end in a counterexample check one sentence of the repository each, and show where
the code does something else; `PROJECT.json` quotes the sentence:

| Run | What the trace shows |
|---|---|
| `dns_cname_circle` | an alias circle is followed for ever |
| `dns_dot_records` | an answer over TLS is handled without its records |
| `query_negative` | a cached negative answer is never found |

More of them are kept as configurations to run by hand, `tlc -config X.cfg M`. Each checks
one property that its module states with the sentence it comes from
(`MCCommandLineOther.cfg` lists four and checks the one that is not commented out):

| Configuration (module) | Property | What the trace shows |
|---|---|---|
| `MCCacheStoreCapacity.cfg` (`MCCacheStore`) | `CapacityRespected` | a lowered limit is not respected |
| `MCCacheServerEmpty.cfg` (`MCCacheServer`) | `EmptyMeansFailed` | a command that was executed is answered with the empty string |
| `MCCacheServerDestroyed.cfg` (`MCCacheServer`) | `NoUseAfterDestroyed` | a detached handler outlives the store |
| `MCCacheServerTerminate.cfg` (`MCCacheServer`) | `NeverTerminated` | `START_CLEANUP_THREAD` racing a shutdown: `std::terminate` |
| `MCCacheServerSigpipe.cfg` (`MCCacheServer`) | `UpUntilDeactivated` | a client that leaves takes the daemon down |
| `MCDaemonActivationRestart.cfg` (`MCDaemonActivation`) | `ActiveIsReachable` | a daemon whose file the previous one has removed |
| `MCDaemonActivationConcurrent.cfg` (`MCDaemonActivation`) | `OnlyOneDaemon` | two daemons |
| `MCDnsClientCompressed.cfg` (`MCDnsClient`) | `FollowsCnames` | a compressed alias leads to another name |
| `MCDnsClientGlueless.cfg` (`MCDnsClient`) | `ReferralsFollowed` | a referral without glue is returned as the result |
| `MCDnsClientSilence.cfg` (`MCDnsClient`) | `SilenceTimesOut` | a server that stays silent over TLS blocks the resolver |
| `MCDnsClientNs.cfg` (`MCDnsClient`) | `NsIsAsked` | `--ns` is not asked in recursive mode |
| `MCDnsMessageCompressed.cfg` (`MCDnsMessage`) | `RdataNamesAreRight` | a compressed name in the data of a record is another one than the packet spells |
| `MCDnsMessageLoop.cfg` (`MCDnsMessage`) | `LoopMeansLoop` | a name of 20 labels without a pointer is rejected as a loop |
| `MCDnsMessageCut.cfg` (`MCDnsMessage`) | `CutNamesAreTold` | a name that ends with the packet is accepted |
| `MCStreamQueryReset.cfg` (`MCStreamQuery`) | `SurvivesReset` | a server that resets the connection kills the resolver |
| `MCCommandLineOther.cfg` (`MCCommandLine`) | `InactiveIsTold` | a command without a daemon succeeds |
| `MCCommandLineOther.cfg` (`MCCommandLine`) | `InvalidArgumentStops` | the words before a wrong one are obeyed |
| `MCCommandLineOther.cfg` (`MCCommandLine`) | `NameIsRequired` | a query without `--name` asks for `example.com.` |
| `MCCommandLineOther.cfg` (`MCCommandLine`) | `SizeIsItsOwn` | a second limit on the line is set to the first one's size |
| `MCQueryFlowName.cfg` (`MCQueryFlow`) | `HitIsForTheName` | the entry of another name is printed |
| `MCQueryFlowKilled.cfg` (`MCQueryFlow`) | `SurvivesTheCache` | the daemon going down kills a query |
| `MCQueryFlowAborted.cfg` (`MCQueryFlow`) | `SurvivesTheAnswer` | an iterative answer that does not parse aborts the query |

`CHECK_DEADLOCK FALSE` is used where the system may stop: daemons that have exited,
processes that are done. The store alone never stops, and its run checks for deadlock.

### Fairness

`CacheServer` is weakly fair to the main thread, the sweeper and each handler, which the
operating system schedules, and to a client that is about to send or to receive, a program
without choices there; nothing makes a client connect, leave, or be interrupted.
`DaemonActivation` is fair to a process that is in the middle of starting or stopping;
nobody is made to start or stop one, and crashes are never required. `DnsClient` and
`QueryFlow` are fair to a process that runs. Waits for a datagram or for a connection have
timeouts; a wait on a TCP or TLS stream has none, so blocking there is an outcome of its own
(`"blocked"`, and `"unresolved"` in `QueryFlow`), after which nothing is required to happen.
`StreamQuery` is fair to the client's
calls, which return when they can; nothing ever makes the server speak, so its liveness
property says who may hold a query: a silent server and nobody else. `DnsMessage` is fair to
the parse, which runs without waiting for anything. `CommandLine` has no liveness property.
A wait for the daemon ends with the daemon. Time is never required to pass.

## Proofs

All for any values of the constants, from the named assumptions of the modules
(`StoreAssumption`, `ControllerAssumption`, `ServerAssumption`, `ActivationAssumption`,
`FlowAssumption`, `ClientAssumption`, `MessageAssumption`, `StreamAssumption`,
`LineAssumption`, `TextAssumption`), which say what sort of value each constant is and, where
the code relies on it, how it is related to another: the lines the model daemon is sent are
ones whose values the constants cover, the root hints are not empty, no option spells a number.
`TextAssumption` says of the words that the program itself writes that they are strings: true
of anything in quotation marks, but no installed prover knows it. Nearly
every theorem says of the very property a run checks that it holds always; `SerialOnlyOne`,
`SerialReachable`, `ConfirmedIsStoredTheorem` and `FollowsCnamesTheorem` have a hypothesis,
given below.

* `CacheStoreProofs`: `TypeCorrect` is inductive as it stands; the conjunct it needs beyond
  the shape of the maps is that their domains are finite, without which `Cardinality` says
  nothing. From it, `GrowthTheorem` (lemmas on the cardinality of `Assign` and `Erase`),
  `LossTheorem` (one case per operation) and `RefinementTheorem`: initial states map to
  initial states, every step to a step of `LossyCache` or a stutter, in particular `Cleanup`
  to `Expire` and `Put` with its victim to `Store` with the victim displaced.
* `CacheServerProofs`, for any number of clients and any backlog: `ServerTypeCorrect`,
  `NoLostWakeupTheorem`, `EndsWhenAskedTheorem`, `OffIsTrueTheorem`, `EmptyTheorem`. What a
  handler does follows from the line it has read, two or more of its steps ago; the invariant
  keeps that memory: `OneLine` (a client's line is not replaced), `RunsItsLine` (each stage of
  a handler says what its line was), `OffIsAsked` (a flag that is cleared, a sweeper that was
  joined, a process that has ended: somebody sent SHUTDOWN), `LeavesWhenOff` (the main thread
  leaves its loop, and a client is told, only behind `_is_running = false`), `NobodySweeps`
  (as long as nobody sends START_CLEANUP_THREAD, `stop` comes after the join), `Responds`
  (a connection is closed behind an answer, behind a response without text, or because an end
  leaves), and, for `EmptyTheorem`, `TextlessIsAsked` (who has a response without text has sent
  LIST of an unknown target; `ReplyText`: no other line has one). `NoLostWakeup` itself is
  inductive only among them. `ServerImplementsStore` maps every step, of any thread, to one
  step of `CacheStore` or a stutter; `ServerKeepsPromise` and `ServerLosesNothing` compose it
  with the theorems of `CacheStoreProofs`, instantiated with the server's store: with all its
  threads the daemon still implements `LossyCache`. `ConfirmedIsStoredTheorem` has the
  hypothesis `RoomForAll`, that there are no more keys than the smallest limit: a put into a
  full cache may evict any entry, confirmed or not. Its own invariant, `CInv`, stands on top of
  the other: `AcceptedOnce` (a client is in the backlog once, before its handler starts),
  `AnswersOnce` (a handler's answer is not replaced, and is what reaches its client),
  `PurgesItsLine` (who purges was sent PURGE), `Fits` (no limit ever gets below the number of
  keys), `PutsItsCommand` and `PutsAreKept` (the confirmed entry is in the store from the
  operation on, some steps before the client is told, and only a put under the same key, which
  answers the same, replaces it).
* `DaemonActivationProofs`: `SerialOnlyOne` and `SerialReachable`, for any number of
  processes and crashes anywhere, under the hypothesis `Serial` that activations overlap
  neither one another nor a daemon going down. Neither property is inductive. `IInv` adds
  what a starting process found out and still relies on: `StaleIsDead` (nobody listens behind
  the file it is about to remove), `FreeAtBind`, `OneStarts`, `NoOverlap`, and `OwnFile`, the
  file belongs to whoever is past `bind`. `MCDaemonActivationRestart.cfg` and
  `MCDaemonActivationConcurrent.cfg` show that each half of `Serial` is needed. The type
  invariant of `DaemonActivation` is the first conjunct of `IInv`.
* `StreamQueryProofs`, for any query and any bytes of a server, cut into pieces in any way:
  `StreamTypeCorrect`, `RequestFramedTheorem`, `ResultFramedTheorem`. The invariant says where
  in the stream the reader stands: `Bytes` (what has arrived and what is still to come are the
  stream), `BufferIsRead` and `SizeIsRead` (what the buffers hold are the bytes behind those
  that were consumed before), `Asked` (what was sent and what is left to send are the frame of
  the query), `Secured` (over TLS, nothing before the handshake), `Framed` (a result is
  complete when it is returned).
* `QueryFlowProofs`: `CacheReflectsNetworkTheorem`, for any number of queries and a daemon that
  is restarted at will. A put stores what the same query has resolved some commands before:
  `Heard` ties the response a query holds to the name it has now, `UpdatesWithResponse` says
  that none is sent without one, `Linked` that a connection is of the command under way, and
  `Timed` that a later clock is no nearer to an expiration.
* `DnsClientProofs`, for any networks, names and depth: `ClientTypeCorrect`,
  `ResultIsCurrentTheorem`, `GivesUpTheorem`, `FollowsCnamesTheorem`. What is handled must be
  what the server in use says of the current name (`PacketIsCurrent`), although servers, name
  and response are replaced one at a time, and whole, unless it was iterative mode that
  returned it; `OneIsLeft` says for `GivesUpTheorem` why a calm
  network always has a server left to ask, `OneShot`, `DotIsAsked` and `Returned` which of these
  loops is running. `FollowsCnamesTheorem` has the hypothesis that no target is compressed,
  which is where the code goes wrong (`MCDnsClientCompressed.cfg`).
* `DnsMessageProofs`, for every packet of any length, and every question: `MessageTypeCorrect`,
  `RecordsInOrderTheorem`, `DecodersStayInsideTheorem`, `NamesAreRightTheorem`. `NameIsAhead`
  says that the way back of a name with pointers is behind the place it came from and inside
  the packet; `OwnerIsRead` and `RdataIsRead` that the record under way begins behind the last
  one kept; with them records are in order, and the pieces of a TXT or OPT stay inside by
  induction on the bytes that are left. The second invariant, `NInv`, compares `readName` with
  the format in the bytes it was given, the packet or a record's data: the names the format
  finds at the start, and those it finds where `readName` stands now, differ by what was read so
  far (`OnTheWay`). A turn of the loop goes the way the
  format goes (`WayThroughPointer`, `WayThroughLabel`), and at the end of a name nothing is
  left (`WayEnds`). That the names and the pieces are defined at all, being recursive, is
  `NamesExist` and a step of `PiecesType`. In a record's data the format is the packet's only
  as long as there is no pointer, so `NamesAreRight` speaks of names that are written out there
  (`WrittenOutIsThere`); of the others it is false (`MCDnsMessageCompressed.cfg`).
  `QuestionSurvivesTheorem`, for every header and every question `Plain` allows, is about a
  packet that `BuildQuery` wrote. Two facts about the bytes come first: `WireIs`, what
  `buildQuery`'s loop writes of a name (the label sizes, at the place of each dot but one
  further, and the zero), and `PacketIs`, where the header, the name, the type and the class
  are. The invariant `BInv` then says for each place of the parse what it has read: at a
  label, `LabelsRead`, the name is what was spelt up to there and the steps are the dots
  passed, a cardinality, which is why `readName`'s bound is not reached (`TooManyStepsBuilt`)
  and no byte is taken for a pointer (`FollowPointerBuilt`); behind the question the packet
  ends, so that a record announced by the header is not there: the lemma `RebuiltLosesRecords`
  says so of what `queryDot` builds again. That is the fault that `dns_dot_records` shows, in
  the bytes.
* `CommandLineProofs`, for command lines of any length: `OptionsAreReadTheorem`. getopt moves
  the words it has passed, one call late, and the code reads the options from what it moves:
  `UnreadAsTyped` says that the words from `optind` on are still as typed (`ExchangedIs`),
  `BehindArgument` that `optind` never stands at the argument of an option, so that what looks
  like an option there is one (`NextIsTyped`), and `Says` that the members of `Arguments` are
  what the options before `optind` say, the last of each kind. `OptionsDef` shows that the
  reading from left to right, a recursive definition, exists and is as written. `TypeOKTheorem`
  follows: a member is what `Says` says, and an option that is not wrong has an argument of the
  right kind (`MeansTyped`).
  `AcceptedAsTypedTheorem` and `UsageIsDoneTheorem` join the command line to the daemon's parser.
  `WordsStay` says what getopt leaves of the words for the handler, which addresses them by
  position: behind a command with its argument, argv is as typed, or an option of a query has
  been moved to `argv[3]`, where the line has a number (`PushedLookup`, `PushedPut`: the daemon
  rejects it). `LineIsSent` says that what was sent is the command's words. What blanks do to
  them is in `Split`, a recursive definition of the community modules: `FlattenIs` shows that it
  exists, `SplitConcat` that it goes through a concatenation, `SplitWhole` that words without
  blanks stay. So the line and the words typed, each cut at its blanks, agree word for word
  behind the first (`PutAlike`, `LookupNear`, `SetLine`), and the key and the numbers the parser
  reads of the one (`KeyRead`, `NumRead`) are those the other spells. For `UsageIsDoneTheorem`
  the parser also has to take it: `KeyTaken`, `NumTaken`, `PutTaken`, `GetTaken`, `SetTaken`.

No theorem of the library for induction can be used with the provers installed: its predicate
is a parameter. Where data needs induction, a set of numbers stands for the predicate: it has a
least element (`LeastNat`), hence `Induction` over a set. The temporal steps are PTL's.

Only model-checked:

* All liveness properties: `ShutdownCompletes`, `EveryoneAnswered`, `EveryParseEnds` and the
  like rest on fairness, which the provers do not handle, nor `ENABLED`.
* The sentences of the repository that the code contradicts: a counterexample needs no proof.
* The activations that overlap: what holds of them is what the two configurations above refute.

## How the modules fit together

* `CacheServer` and `QueryFlow` extend `CacheController`, which runs the actions of
  `CacheStore`; `CacheServer` implements `CacheStore` (`ImplementsStore`), which implements
  `LossyCache`.
* `CommandLine` ends where `CacheController!Parse` begins: `UsageIsDone` and `AcceptedAsTyped`
  are about what that very operator makes of the line. A query ends where `QueryFlow` begins.
* `DnsClient` takes the outcomes of its transports from `StreamQuery` (a message, none, blocked,
  killed: `ResultIsFramed`, `OnlySilenceBlocks`, `SurvivesReset`) and what comes back over TLS
  from `DnsMessage` (the lemma `RebuiltLosesRecords`); `QueryFlow` takes what `resolve` returns from
  `DnsClient`. These are agreements of separate modules, checked one by one and not composed:
  the product of a byte stream and a resolution says nothing that the parts do not.

## Not modelled

* The texts: printed messages, listings, `printUsage`, `printSummary`, `printResponse`, the
  wording of decoded records. What a record's text contains is put between quotes by a query
  and read up to the next quote by the daemon; the models have such a text as one token.
* Lines and answers longer than the 2048 byte buffers of `handleClient` and `sendCommand`, or
  that arrive in parts, and the 200 ms timeout of `isCacheActive`.
* Short and abbreviated options, `--option=value` and `--`, which no document of the
  repository uses; words that only begin with a number.
* `qtypeToUint16`, a constant table, whose default of A the program announces, and
  `convertCase`, which nothing calls.
* mbedtls, the kernel, the name servers: external, modelled by what they may do.
* The tests, the certificates and the build files are not part of the running system.

## Plan

Done, in this order: the store and its promise; controller and server over it; the socket
file; resolution; the query over cache and network; messages, the command line and streams;
the proofs above, until every invariant and every action property that a run checks was proved
for all values of the constants (four of them under the hypotheses above). Proving
`AcceptedAsTyped` corrected it: an earlier form also
promised that a line with blanks in its arguments *and* options of queries among them is obeyed
as typed. `--put "n 1 1" 5 0 m m --trace` is not: getopt moves the option to `argv[3]`, and
since the one argument before it is already the whole key, the daemon takes `--trace` for the
data. The run had no line like it; it has now, and the property says for which lines it holds.

Left: lines and answers as byte streams between client and daemon, cut at the buffers, which
two hazards of `PROJECT.json` wait for; and the liveness properties, should a prover for them
become available.
