----------------------------- MODULE CacheServer -----------------------------
(***************************************************************************)
(* The cache daemon once it listens (src/server/cache_server.cpp) and the  *)
(* processes that talk to it (CacheClient, src/server/cache_client.cpp):   *)
(* the main thread in acceptConnections, a detached handler per accepted   *)
(* connection, the thread that sweeps the store (cache_store.cpp:106-142), *)
(* the clients, and the Unix socket between them.                          *)
(*                                                                         *)
(* A client makes one connection.  Every step of a thread is one action;   *)
(* the store's operations, under _mutex, are CacheController's.            *)
(***************************************************************************)
EXTENDS CacheController, Sequences

CONSTANTS
    Clients,    \* processes that connect, once each
    Lines,      \* what a client may send
    Backlog,    \* pending connections the kernel queues: listen(fd, 5)
    MayLeave,   \* a client may go away before its answer (Ctrl-C, a crash)
    None

VARIABLES
    proc,       \* the daemon: "up", or how it ended
    mainPc,     \* where the main thread is
    isRunning,  \* CacheServer::_is_running
    cleaning,   \* CacheStore::_is_running
    joinable,   \* _cleanup_thread holds a thread
    joiner,     \* the handler inside _cleanup_thread.join()
    sweeperPc,  \* the cleanup thread
    backlog,    \* connections accept() has not taken: clients, and "wake"
    hpc,        \* hpc[c]: where the handler of c's connection is
    command,    \* command[c]: what parse returned
    resp,       \* resp[c]: response_message
    cpc,        \* cpc[c]: the client
    line,       \* line[c]: what the client sent
    answer      \* answer[c]: what reached it

storeVars == <<cache, maxSize, reply>>
serverVars == <<proc, isRunning, backlog>>
sweepVars == <<cleaning, joinable, joiner, sweeperPc>>
clientVars == <<cpc, line, answer>>
vars == <<storeVars, now, serverVars, mainPc, sweepVars, hpc, command, resp,
          clientVars>>

Wake == "wake"
ThreadCommands == {"SHUTDOWN", "START_CLEANUP_THREAD"}
Off == [op |-> "off"]
Started == [op |-> "started"]
Error == [op |-> "error"]

\* What a handler may answer.
Answers ==
         [op : {"off", "started", "error", "purge", "set"}]
    \cup [op : {"put", "miss"}, kind : Store!Kinds, key : Keys]
    \cup [op : {"hit"}, kind : Store!Kinds, key : Keys, entry : Store!Entries]
    \cup [op : {"list"}, found : UNION {[kinds -> Store!MapsFrom(Keys, Store!Entries)] :
                                           kinds \in SUBSET Store!Kinds}]
    \cup [op : {"status"}, size : [Store!Kinds -> Nat], limit : [Store!Kinds -> Nat]]

ASSUME ServerAssumption ==
    /\ Backlog \in Nat \ {0}
    /\ MayLeave \in BOOLEAN
    /\ Wake \notin Clients
    /\ None \notin Clients \cup Lines \cup Answers
    /\ \A l \in Lines : Covered(l)

Listening == proc = "up" /\ mainPc \in {"loop", "accept", "close"}
Queued(c) == \E i \in DOMAIN backlog : backlog[i] = c

\* Server, controller and store are objects of CacheCommandHandler::execute:
\* they are destroyed when it returns, before the process is gone.
Destroyed == mainPc = "exit"

\* run() up to its accept loop: the socket listens, the sweeper has started.
Init ==
    /\ Store!Init
    /\ proc = "up" /\ mainPc = "loop" /\ isRunning = TRUE
    /\ cleaning = TRUE /\ joinable = TRUE /\ joiner = None /\ sweeperPc = "check"
    /\ backlog = << >>
    /\ hpc = [c \in Clients |-> "none"]
    /\ command = [c \in Clients |-> None]
    /\ resp = [c \in Clients |-> None]
    /\ cpc = [c \in Clients |-> "idle"]
    /\ line = [c \in Clients |-> None]
    /\ answer = [c \in Clients |-> None]
-----------------------------------------------------------------------------
(* The main thread. *)

MainTo(from, to) == proc = "up" /\ mainPc = from /\ mainPc' = to

\* while (_is_running)
MainLoop ==
    /\ MainTo("loop", IF isRunning THEN "accept" ELSE "close")
    /\ UNCHANGED <<proc, isRunning, backlog, hpc, sweepVars>>

\* accept() returns a connection; its handler is a new detached thread.  The
\* handler of stop()'s own connection reads nothing and closes: not modelled.
Accept ==
    /\ MainTo("accept", "loop")
    /\ backlog # << >>
    /\ backlog' = Tail(backlog)
    /\ hpc' = IF Head(backlog) = Wake THEN hpc
              ELSE [hpc EXCEPT ![Head(backlog)] = "read"]
    /\ UNCHANGED <<proc, isRunning, sweepVars>>

\* cleanup: closing the socket resets the connections nobody accepted.
CloseListener ==
    /\ MainTo("close", "unlink")
    /\ hpc' = [c \in Clients |-> IF Queued(c) THEN "closed" ELSE hpc[c]]
    /\ backlog' = << >>
    /\ UNCHANGED <<proc, isRunning, sweepVars>>

Unlink ==
    /\ MainTo("unlink", "teardown")
    /\ UNCHANGED <<proc, isRunning, backlog, hpc, sweepVars>>

\* execute returns: a std::thread destroyed while joinable is std::terminate.
Teardown ==
    /\ MainTo("teardown", "exit")
    /\ proc' = IF joinable THEN "aborted" ELSE "up"
    /\ UNCHANGED <<isRunning, backlog, hpc, sweepVars>>

\* main returns: whatever the detached handlers were doing, they are gone.
Exit ==
    /\ proc = "up" /\ mainPc = "exit"
    /\ proc' = "exited"
    /\ UNCHANGED <<mainPc, isRunning, backlog, hpc, sweepVars>>

Main ==
    /\ MainLoop \/ Accept \/ CloseListener \/ Unlink \/ Teardown \/ Exit
    /\ UNCHANGED <<storeVars, now, command, resp, clientVars>>
-----------------------------------------------------------------------------
(* The cleanup thread: while (_is_running) { sleep; cleanup(); } *)

SweeperNeverChecks ==   \* mutant of SweeperCheck: while (true)
    proc = "up" /\ sweeperPc = "check" /\ sweeperPc' = "sleep"
    /\ UNCHANGED <<cache, maxSize>>

SweeperCheck ==
    /\ proc = "up" /\ sweeperPc = "check"
    /\ sweeperPc' = IF cleaning THEN "sleep" ELSE "finished"
    /\ UNCHANGED <<cache, maxSize>>

SweepOnce ==            \* mutant of Sweep: no loop
    proc = "up" /\ sweeperPc = "sleep" /\ sweeperPc' = "finished" /\ Store!Cleanup

SweepAll ==             \* mutant of Sweep: no test of the expiration time
    proc = "up" /\ sweeperPc = "sleep" /\ sweeperPc' = "check" /\ Store!Purge("All")

Sweep ==
    /\ proc = "up" /\ sweeperPc = "sleep"
    /\ sweeperPc' = "check"
    /\ Store!Cleanup

Sweeper ==
    /\ SweeperCheck \/ Sweep
    /\ UNCHANGED <<now, reply, serverVars, mainPc, cleaning, joinable, joiner, hpc,
                   command, resp, clientVars>>
-----------------------------------------------------------------------------
(* The handler of client c's connection: handleClient. *)

At(c, pc) == proc = "up" /\ ~Destroyed /\ hpc[c] = pc
GoTo(c, pc) == hpc' = [hpc EXCEPT ![c] = pc]
Respond(c, r) == resp' = [resp EXCEPT ![c] = r]

ReadSilently(c) ==      \* mutant of Read: an exception closes the connection
    /\ proc = "up" /\ hpc[c] = "read" /\ line[c] # None
    /\ GoTo(c, IF Parse(line[c]) = Throw THEN "close" ELSE "process")
    /\ command' = [command EXCEPT ![c] = Parse(line[c])]
    /\ UNCHANGED <<storeVars, serverVars, sweepVars, resp, answer>>

\* read() returns the line, or 0 bytes when the client left without sending.
\* parse may throw: the message of the exception is the response.
Read(c) ==
    /\ proc = "up" /\ hpc[c] = "read"
    /\ \/ /\ line[c] # None
          /\ LET cmd == Parse(line[c])
             IN  IF cmd = Throw
                 THEN GoTo(c, "write") /\ Respond(c, Error) /\ UNCHANGED command
                 ELSE /\ GoTo(c, "process")
                      /\ command' = [command EXCEPT ![c] = cmd]
                      /\ UNCHANGED resp
       \/ /\ line[c] = None /\ cpc[c] = "gone"
          /\ GoTo(c, "close")
          /\ UNCHANGED <<command, resp>>
    /\ UNCHANGED <<storeVars, serverVars, sweepVars, answer>>

\* A command that is one operation of the store.
Process(c) ==
    /\ At(c, "process")
    /\ command[c].type \notin ThreadCommands
    /\ ProcessCommand(command[c])
    /\ Respond(c, reply')
    /\ GoTo(c, "write")
    /\ UNCHANGED <<serverVars, sweepVars, command, answer>>

\* SHUTDOWN, stopCleanupThread: _is_running = false, without the mutex.
StopSweeper(c) ==
    /\ At(c, "process")
    /\ command[c].type = "SHUTDOWN"
    /\ cleaning' = FALSE
    /\ GoTo(c, "joinTest")
    /\ UNCHANGED <<storeVars, serverVars, joinable, joiner, sweeperPc, command, resp,
                   answer>>

JoinTest(c) ==
    /\ At(c, "joinTest")
    /\ GoTo(c, IF joinable THEN "join" ELSE "stop")
    /\ UNCHANGED <<storeVars, serverVars, sweepVars, command, resp, answer>>

JoinIgnoringErrors(c) == \* mutant of Join: its exception is swallowed
    /\ At(c, "join")
    /\ IF joinable /\ joiner = None
       THEN joiner' = c /\ GoTo(c, "joining") /\ UNCHANGED resp
       ELSE GoTo(c, "write") /\ Respond(c, Off) /\ UNCHANGED joiner
    /\ UNCHANGED <<storeVars, serverVars, cleaning, joinable, sweeperPc, command,
                   answer>>

\* join() throws when another handler is in it, or has been meanwhile.
Join(c) ==
    /\ At(c, "join")
    /\ IF joinable /\ joiner = None
       THEN joiner' = c /\ GoTo(c, "joining") /\ UNCHANGED resp
       ELSE GoTo(c, "write") /\ Respond(c, Error) /\ UNCHANGED joiner
    /\ UNCHANGED <<storeVars, serverVars, cleaning, joinable, sweeperPc, command,
                   answer>>

Joined(c) ==
    /\ At(c, "joining")
    /\ sweeperPc = "finished"
    /\ joinable' = FALSE /\ joiner' = None
    /\ GoTo(c, "stop")
    /\ UNCHANGED <<storeVars, serverVars, cleaning, sweeperPc, command, resp, answer>>

StopWithoutWake(c) ==   \* mutant of Stop: no connection to itself
    /\ At(c, "stop") /\ isRunning' = FALSE /\ GoTo(c, "write") /\ Respond(c, Off)
    /\ UNCHANGED <<storeVars, proc, backlog, sweepVars, command, answer>>

\* stop(): _is_running = false ...
Stop(c) ==
    /\ At(c, "stop")
    /\ isRunning' = FALSE
    /\ GoTo(c, "wake")
    /\ UNCHANGED <<storeVars, proc, backlog, sweepVars, command, resp, answer>>

WakeWithoutWaiting(c) == \* mutant of WakeMain: the backlog has no limit
    /\ At(c, "wake") /\ GoTo(c, "write") /\ Respond(c, Off)
    /\ backlog' = IF Listening THEN Append(backlog, Wake) ELSE backlog
    /\ UNCHANGED <<storeVars, proc, isRunning, sweepVars, command, answer>>

\* ... and a connection of its own, for the main thread blocked in accept();
\* connect() waits for room in the backlog, and fails once nobody listens.
WakeMain(c) ==
    /\ At(c, "wake")
    /\ IF Listening
       THEN Len(backlog) < Backlog /\ backlog' = Append(backlog, Wake)
       ELSE UNCHANGED backlog
    /\ GoTo(c, "write")
    /\ Respond(c, Off)
    /\ UNCHANGED <<storeVars, proc, isRunning, sweepVars, command, answer>>

StartAlways(c) ==       \* mutant of StartTest: _is_running is not tested
    /\ At(c, "process") /\ command[c].type = "START_CLEANUP_THREAD"
    /\ GoTo(c, "startSet")
    /\ UNCHANGED <<storeVars, serverVars, sweepVars, command, resp, answer>>

\* START_CLEANUP_THREAD, startCleanupThread: test and set, without the mutex;
\* the client is told it started in either case.
StartTest(c) ==
    /\ At(c, "process")
    /\ command[c].type = "START_CLEANUP_THREAD"
    /\ IF cleaning THEN GoTo(c, "write") /\ Respond(c, Started)
                   ELSE GoTo(c, "startSet") /\ UNCHANGED resp
    /\ UNCHANGED <<storeVars, serverVars, sweepVars, command, answer>>

StartSet(c) ==
    /\ At(c, "startSet")
    /\ cleaning' = TRUE
    /\ GoTo(c, "startAssign")
    /\ UNCHANGED <<storeVars, serverVars, joinable, joiner, sweeperPc, command, resp,
                   answer>>

\* Assigning to a std::thread that is still joinable is std::terminate.
StartAssign(c) ==
    /\ At(c, "startAssign")
    /\ IF joinable
       THEN proc' = "aborted" /\ UNCHANGED <<joinable, sweeperPc, hpc, resp>>
       ELSE /\ joinable' = TRUE /\ sweeperPc' = "check"
            /\ GoTo(c, "write") /\ Respond(c, Started)
            /\ UNCHANGED proc
    /\ UNCHANGED <<storeVars, isRunning, backlog, cleaning, joiner, command, answer>>

\* handleList writes a heading per cache it lists: nothing at all for a target
\* it does not know.
IsEmptyText(r) == r.op = "list" /\ DOMAIN r.found = {}

\* write() to a connection whose client is gone raises SIGPIPE, which nothing
\* ignores: the daemon dies.  Of an empty response nothing reaches the client.
Write(c) ==
    /\ proc = "up" /\ hpc[c] = "write"
    /\ GoTo(c, "close")
    /\ IF cpc[c] = "gone"
       THEN proc' = "sigpipe" /\ UNCHANGED answer
       ELSE /\ answer' = IF IsEmptyText(resp[c]) THEN answer
                         ELSE [answer EXCEPT ![c] = resp[c]]
            /\ UNCHANGED proc
    /\ UNCHANGED <<storeVars, isRunning, backlog, sweepVars, command, resp>>

Close(c) ==
    /\ proc = "up" /\ hpc[c] = "close"
    /\ GoTo(c, "closed")
    /\ UNCHANGED <<storeVars, serverVars, sweepVars, command, resp, answer>>

\* A handler that reaches an object already destroyed: undefined behaviour.
\* The memory may still hold what it held, or the process crashes.
UseDestroyed(c) ==
    /\ proc = "up" /\ Destroyed
    /\ hpc[c] \in {"process", "joinTest", "join", "stop", "wake", "startSet",
                   "startAssign"}
    /\ \/ proc' = "crashed" /\ UNCHANGED <<hpc, resp>>
       \/ GoTo(c, "write") /\ Respond(c, Error) /\ UNCHANGED proc
    /\ UNCHANGED <<storeVars, isRunning, backlog, sweepVars, command, answer>>

Handler(c) ==
    /\ \/ Read(c) \/ Process(c)
       \/ StopSweeper(c) \/ JoinTest(c) \/ Join(c) \/ Joined(c) \/ Stop(c) \/ WakeMain(c)
       \/ StartTest(c) \/ StartSet(c) \/ StartAssign(c)
       \/ Write(c) \/ Close(c) \/ UseDestroyed(c)
    /\ UNCHANGED <<now, mainPc, cpc, line>>
-----------------------------------------------------------------------------
(* The clients: CacheClient::sendCommand. *)

ClientTo(c, from, to) == cpc[c] = from /\ cpc' = [cpc EXCEPT ![c] = to]

\* connect() waits for room in the backlog; with nobody listening the answer
\* is the empty string.
Connect(c) ==
    \/ /\ Listening /\ Len(backlog) < Backlog
       /\ ClientTo(c, "idle", "connected")
       /\ backlog' = Append(backlog, c)
       /\ UNCHANGED <<line, answer>>
    \/ /\ ~Listening
       /\ ClientTo(c, "idle", "refused")
       /\ UNCHANGED <<backlog, line, answer>>

\* The daemon's end of c's connection is closed, or was reset.
HungUp(c) == proc # "up" \/ hpc[c] = "closed"

\* send() to a connection already reset kills the client too.
Send(c) ==
    /\ IF HungUp(c)
       THEN ClientTo(c, "connected", "sigpipe") /\ UNCHANGED line
       ELSE /\ ClientTo(c, "connected", "sent")
            /\ \E l \in Lines : line' = [line EXCEPT ![c] = l]
    /\ UNCHANGED <<backlog, answer>>

\* recv() returns what was written; 0 bytes, the empty string, on a hang up.
Receive(c) ==
    /\ \/ answer[c] # None /\ ClientTo(c, "sent", "answered")
       \/ answer[c] = None /\ HungUp(c) /\ ClientTo(c, "sent", "empty")
    /\ UNCHANGED <<backlog, line, answer>>

\* isCacheActive connects and closes; any client may be interrupted.
Probe(c) == ClientTo(c, "connected", "gone") /\ UNCHANGED <<backlog, line, answer>>
Leave(c) ==
    /\ MayLeave
    /\ answer[c] = None
    /\ ClientTo(c, "sent", "gone")
    /\ UNCHANGED <<backlog, line, answer>>

Client(c) ==
    /\ Connect(c) \/ Send(c) \/ Receive(c) \/ Probe(c) \/ Leave(c)
    /\ UNCHANGED <<storeVars, now, proc, isRunning, mainPc, sweepVars, hpc, command,
                   resp>>

Tick ==
    /\ now < MaxTime
    /\ now' = now + 1
    /\ UNCHANGED <<storeVars, serverVars, mainPc, sweepVars, hpc, command, resp,
                   clientVars>>

Next == Main \/ Sweeper \/ Tick \/ \E c \in Clients : Handler(c) \/ Client(c)

\* Threads are scheduled, a client that is running sends and reads: only
\* whether and when it connects, and whether it leaves, is its own choice.
Fairness ==
    /\ WF_vars(Main) /\ WF_vars(Sweeper)
    /\ \A c \in Clients :
          WF_vars(Handler(c)) /\ WF_vars(Send(c) /\ Client(c)) /\ WF_vars(Receive(c) /\ Client(c))

Spec == Init /\ [][Next]_vars
FairSpec == Spec /\ Fairness
-----------------------------------------------------------------------------
\* Type invariant: program counters, flags and messages of the daemon and its
\* clients.
TypeOK ==
    /\ Store!TypeOK
    /\ proc \in {"up", "exited", "aborted", "crashed", "sigpipe"}
    /\ mainPc \in {"loop", "accept", "close", "unlink", "teardown", "exit"}
    /\ {isRunning, cleaning, joinable} \subseteq BOOLEAN
    /\ joiner \in Clients \cup {None}
    /\ sweeperPc \in {"check", "sleep", "finished"}
    /\ backlog \in Seq(Clients \cup {Wake}) /\ Len(backlog) <= Backlog
    /\ hpc \in [Clients -> {"none", "read", "process", "joinTest", "join", "joining",
                            "stop", "wake", "startSet", "startAssign", "write",
                            "close", "closed"}]
    /\ cpc \in [Clients -> {"idle", "connected", "sent", "answered", "empty", "refused",
                            "gone", "sigpipe"}]
    /\ line \in [Clients -> Lines \cup {None}]
    /\ command \in [Clients -> Commands \cup {None}]
    /\ {resp, answer} \subseteq [Clients -> Answers \cup {None}]

(***************************************************************************)
(* The main thread is never left in accept() after the server was told to  *)
(* stop: a connection is pending, or the handler that cleared _is_running  *)
(* is about to make one (cache_server.cpp:26-39, 100-109).                 *)
(***************************************************************************)
NoLostWakeup ==
    proc = "up" /\ mainPc = "accept" /\ ~isRunning =>
        backlog # << >> \/ \E c \in Clients : hpc[c] = "wake"

Sent(verb) == \E c \in Clients : line[c] # None /\ line[c].verb = verb

(***************************************************************************)
(* The daemon is never terminated by the std::thread of the sweeper, be it *)
(* destroyed or assigned to while joinable: the store is "thread-safe"     *)
(* (cache_store.hpp:17), thread included.                                  *)
(***************************************************************************)
NeverTerminated == proc # "aborted"

(***************************************************************************)
(* Whatever runs at once, the daemon ends because of a SHUTDOWN, or by the *)
(* SIGPIPE of a client that left: START_CLEANUP_THREAD has no thread to    *)
(* assign to before a SHUTDOWN, and nothing that a line says is an         *)
(* uncaught exception (cache_server.cpp:129-132).  And any number of       *)
(* SHUTDOWNs leave no joinable std::thread to be destroyed: only           *)
(* START_CLEANUP_THREAD can, a command no client of the program sends      *)
(* (cache_store.cpp:106-126).                                              *)
(***************************************************************************)
EndsOnlyWhenAsked ==
    /\ proc \notin {"up", "sigpipe"} => Sent("SHUTDOWN")
    /\ proc = "aborted" => Sent("START_CLEANUP_THREAD")

(***************************************************************************)
(* A client told the daemon is deactivated is told the truth: the server   *)
(* has left, or will leave, its accept loop, and nobody sweeps any more,   *)
(* unless somebody asks for the sweeper again.                             *)
(***************************************************************************)
OffIsTrue ==
    \A c \in Clients :
        answer[c] = Off =>
            /\ ~isRunning
            /\ Sent("START_CLEANUP_THREAD") \/ (~cleaning /\ sweeperPc = "finished")

\* A LIST whose target is none of the three there are.
ListsNothing(l) == l.verb = "LIST" /\ StringToTarget(l.target) = "Invalid"

(***************************************************************************)
(* The empty answer, which a client takes for a failure, is what a daemon  *)
(* that goes on running gives to one line only: LIST of a target it does   *)
(* not know, whose response has no text (cache_client.cpp:24-35,           *)
(* cache_controller.cpp:104-133).  Any other line, whatever it says and    *)
(* whatever else runs, is answered with text.                              *)
(***************************************************************************)
EmptyOnlyWhenStopping ==
    \A c \in Clients : cpc[c] \in {"empty", "refused", "sigpipe"} =>
        \/ proc # "up"
        \/ ~isRunning
        \/ cpc[c] = "empty" /\ ListsNothing(line[c])

(***************************************************************************)
(* Once a SHUTDOWN has begun the daemon ends, whatever else the clients    *)
(* send or leave unsent, and however many of them ask for it at once.      *)
(***************************************************************************)
ShutdownCompletes == ~cleaning ~> proc # "up"

(***************************************************************************)
(* sendCommand returns: every client that has sent its line gets an answer *)
(* or sees the connection end.                                             *)
(***************************************************************************)
EveryoneAnswered ==
    \A c \in Clients : cpc[c] = "sent" ~> cpc[c] \in {"answered", "empty", "gone"}

\* Nothing a handler does to the store is anything but an operation of it.
ImplementsStore == Store!Spec

(***************************************************************************)
(* An entry whose storing was confirmed to a client is in the store until  *)
(* it expires, unless another handler stored under the same key: handlers  *)
(* fix the expiration time in parse, out of the lock, so the later one may *)
(* store the earlier time.  (For lines without PURGE and room for all.)    *)
(***************************************************************************)
ConfirmedIsStored ==
    ~Sent("PURGE") =>
      \A c \in Clients :
        /\ answer[c] # None /\ answer[c].op = "put"
        /\ now <= command[c].entry.expiration_time
        => \/ /\ command[c].key \in DOMAIN cache[answer[c].kind]
              /\ cache[answer[c].kind][command[c].key] = command[c].entry
           \/ \E d \in Clients \ {c} :
                 resp[d] # None /\ resp[d] = resp[c]

(***************************************************************************)
(* An expired entry leaves the store even if nobody asks for its key, as   *)
(* long as the daemon runs (cache_store.cpp:106-142).                      *)
(***************************************************************************)
ExpiredIsSwept ==
    \A kind \in Store!Kinds, key \in Keys :
        /\ key \in DOMAIN cache[kind] /\ Store!Expired(cache[kind][key])
        ~> \/ key \notin DOMAIN cache[kind]
           \/ ~Store!Expired(cache[kind][key])
           \/ ~cleaning \/ proc # "up"

(***************************************************************************)
(* "... e retorna a resposta ... ou uma string vazia em caso de falha"     *)
(* (cache_client.hpp:17-19): an empty answer means the command failed.     *)
(***************************************************************************)
EmptyMeansFailed ==
    \A c \in Clients :
        cpc[c] = "empty" => resp[c] \in {None, Error} \/ ListsNothing(line[c])

(***************************************************************************)
(* The daemon runs in the background until it is deactivated (README.md    *)
(* 81-88): it does not go down without a SHUTDOWN.                         *)
(***************************************************************************)
UpUntilDeactivated ==
    proc # "up" => Sent("SHUTDOWN")

(***************************************************************************)
(* The store is "thread-safe" (cache_store.hpp:17): no thread is about to  *)
(* use it when it has been destroyed.                                      *)
(***************************************************************************)
NoUseAfterDestroyed ==
    proc = "up" /\ Destroyed => \A c \in Clients : hpc[c] # "process"
=============================================================================
