-------------------------- MODULE CacheServerProofs --------------------------
(***************************************************************************)
(* The daemon of CacheServer, for any number of clients, any lines and any *)
(* backlog: its type invariant, its safety invariants, and that what its   *)
(* threads do to the store are operations of the store, so that what       *)
(* CacheStoreProofs says of the store holds in the daemon.                 *)
(***************************************************************************)
EXTENDS CacheServer, FiniteSetTheorems, TLAPS

StoreProofs == INSTANCE CacheStoreProofs

\* A line that parse does not reject is a command, one about threads, a purge or a
\* listing only if its verb says so (cache_command_parser.cpp).
LEMMA ParseType ==
    ASSUME now \in Nat, now <= MaxTime, NEW l \in Lines, Parse(l) # Throw
    PROVE  /\ Parse(l) \in Commands
           /\ Parse(l).type \in ThreadCommands \cup {"PURGE", "LIST"} =>
                 Parse(l).type = l.verb
<1> USE ControllerAssumption
<1>0. Covered(l)
  BY ServerAssumption
<1>1. CASE l.verb \in {"PUT", "PUT_NEGATIVE"}
  <2> DEFINE data == IF l.verb = "PUT" THEN l.data
                     ELSE IF l.data = "NXDOMAIN" THEN "NXDOMAIN" ELSE "NODATA"
  <2>1. Stores(l)
    BY <1>1 DEF Parse, ParsePut, ParsePutNegative
  <2>2. l.key \in Keys /\ data \in Data
    BY <1>0, <1>1, <2>1 DEF Covered
  <2>3. now + l.ttl \in Expirations
    BY <1>0, <1>1, <2>1 DEF Covered
  <2> HIDE DEF data
  <2>4. Lasting(data, l.ttl) \in Store!Entries
    BY <2>2, <2>3 DEF Lasting, Store!Entries
  <2>5. Parse(l) = [type |-> IF l.verb = "PUT" THEN "PUT_POSITIVE" ELSE "PUT_NEGATIVE",
                    key |-> l.key, entry |-> Lasting(data, l.ttl)]
    BY <1>1, <2>1 DEF Parse, ParsePut, ParsePutNegative, data
  <2> QED
    BY <2>2, <2>4, <2>5 DEF Commands, ThreadCommands
<1>2. CASE l.verb \in {"GET", "GET_NEGATIVE"}
  <2>1. l.key \in Keys
    BY <1>0, <1>2 DEF Parse, ParseGet, Covered
  <2>2. Parse(l) = [type |-> IF l.verb = "GET" THEN "GET_POSITIVE" ELSE "GET_NEGATIVE",
                    key |-> l.key]
    BY <1>2 DEF Parse, ParseGet
  <2> QED
    BY <2>1, <2>2 DEF Commands, ThreadCommands
<1>3. CASE l.verb \in {"PURGE", "LIST"}
  <2>1. Parse(l) = [type |-> l.verb, target |-> StringToTarget(l.target)]
    BY <1>3 DEF Parse, ParseTargeted
  <2>2. StringToTarget(l.target) \in Store!CacheTarget
    BY DEF StringToTarget, Store!CacheTarget
  <2> QED
    BY <1>3, <2>1, <2>2 DEF Commands, ThreadCommands
<1>4. CASE l.verb = "SET"
  <2>1. IsSize(l.size)
    BY <1>4 DEF Parse, ParseSet
  <2>2. Parse(l) = [type |-> "SET_MAX_SIZE", size |-> ToSize(l.size),
                    is_positive |-> l.target = "POSITIVE"]
    BY <1>4, <2>1 DEF Parse, ParseSet
  <2>3. ToSize(l.size) \in Capacities
    BY <1>0, <1>4, <2>1 DEF Covered
  <2> QED
    BY <2>2, <2>3 DEF Commands, ThreadCommands
<1>5. CASE l.verb \in {"STATUS", "SHUTDOWN", "START_CLEANUP_THREAD"}
  BY <1>5 DEF Parse, Commands
<1> QED
  BY <1>1, <1>2, <1>3, <1>4, <1>5 DEF Parse
-----------------------------------------------------------------------------
\* A command that is not about threads is one operation of the store
\* (cache_controller.cpp:8-29).
LEMMA CommandIsOperation ==
    ASSUME NEW cmd \in Commands, ProcessCommand(cmd), now' = now
    PROVE  Store!Next
<1>1. ASSUME NEW kind \in Store!Kinds, cmd.key \in Keys, cmd.entry \in Store!Entries,
             HandlePut(cmd, kind)
      PROVE  Store!Next
  <2>1. Store!DoPut
    BY <1>1 DEF HandlePut, Store!DoPut
  <2> QED
    BY <2>1 DEF Store!Next
<1>2. ASSUME NEW kind \in Store!Kinds, cmd.key \in Keys, HandleGet(cmd, kind)
      PROVE  Store!Next
  <2>1. Store!DoGet
    BY <1>2 DEF HandleGet, Store!DoGet
  <2> QED
    BY <2>1 DEF Store!Next
<1>3. ASSUME cmd.target \in Store!CacheTarget, HandlePurge(cmd)
      PROVE  Store!Next
  <2>1. Store!DoPurge
    BY <1>3 DEF HandlePurge, Store!DoPurge
  <2> QED
    BY <2>1 DEF Store!Next
<1>4. ASSUME cmd.size \in Capacities, cmd.is_positive \in BOOLEAN, HandleSetMaxSize(cmd)
      PROVE  Store!Next
  <2>1. Store!DoSetMaxSize
    BY <1>4 DEF HandleSetMaxSize, Store!DoSetMaxSize
  <2> QED
    BY <2>1 DEF Store!Next
<1>5. ASSUME cmd.target \in Store!CacheTarget, HandleList(cmd)
      PROVE  Store!Next
  <2>1. Store!DoList
    BY <1>5 DEF HandleList, Store!DoList, Store!storeVars
  <2> QED
    BY <2>1 DEF Store!Next
<1>6. ASSUME HandleStatus PROVE Store!Next
  <2>1. Store!DoGetStatus
    BY <1>6 DEF HandleStatus, Store!DoGetStatus, Store!storeVars
  <2> QED
    BY <2>1 DEF Store!Next
<1> QED
  BY <1>1, <1>2, <1>3, <1>4, <1>5, <1>6 DEF ProcessCommand, Commands, Store!Kinds

\* What it answers is an answer, and never that the daemon is off.
LEMMA ReplyType ==
    ASSUME Store!TypeOK, NEW cmd \in Commands, ProcessCommand(cmd)
    PROVE  reply' \in Answers \ {Off}
<1>1. ASSUME NEW kind \in Store!Kinds, cmd.key \in Keys, HandlePut(cmd, kind)
      PROVE  reply' \in Answers \ {Off}
  BY <1>1 DEF HandlePut, Store!PutAnswer, Answers, Off
<1>2. ASSUME NEW kind \in Store!Kinds, cmd.key \in Keys, HandleGet(cmd, kind)
      PROVE  reply' \in Answers \ {Off}
  <2>1. ASSUME Store!Hit(kind, cmd.key)
        PROVE  cache[kind][cmd.key] \in Store!Entries
    BY <2>1 DEF Store!Hit, Store!TypeOK, Store!MapsFrom
  <2> QED
    BY <1>2, <2>1 DEF HandleGet, Store!GetAnswer, Answers, Off
<1>3. ASSUME HandlePurge(cmd) \/ HandleSetMaxSize(cmd)
      PROVE  reply' \in Answers \ {Off}
  BY <1>3 DEF HandlePurge, HandleSetMaxSize, Store!PurgeAnswer, Store!SetAnswer, Answers,
              Off
<1>4. ASSUME HandleList(cmd)
      PROVE  reply' \in Answers \ {Off}
  <2> DEFINE kinds == Store!InTarget(cmd.target)
             found == [kind \in kinds |-> cache[kind]]
             Maps == Store!MapsFrom(Keys, Store!Entries)
  <2>1. kinds \in SUBSET Store!Kinds
    BY DEF Store!InTarget
  <2>2. found \in [kinds -> Maps]
    BY <2>1 DEF Store!TypeOK
  <2> HIDE DEF kinds
  <2>3. found \in UNION {[S -> Maps] : S \in SUBSET Store!Kinds}
    BY <2>1, <2>2
  <2>4. reply' = [op |-> "list", found |-> found]
    BY <1>4 DEF HandleList, Store!ListAnswer, kinds
  <2> HIDE DEF found
  <2> QED
    BY <2>3, <2>4 DEF Answers, Off
<1>5. ASSUME HandleStatus
      PROVE  reply' \in Answers \ {Off}
  <2>1. \A kind \in Store!Kinds : Store!Size(kind) \in Nat
    <3>1. ASSUME NEW S, Store!IsFiniteSet(S) PROVE Store!Cardinality(S) \in Nat
      <4>1. IsFiniteSet(S)
        BY <3>1 DEF Store!IsFiniteSet, IsFiniteSet
      <4>2. Cardinality(S) \in Nat
        BY <4>1, FS_CardinalityType
      <4> QED
        BY <4>2 DEF Store!Cardinality, Cardinality
    <3> QED
      BY <3>1 DEF Store!TypeOK, Store!Size
  <2> QED
    BY <1>5, <2>1 DEF HandleStatus, Store!StatusAnswer, Store!TypeOK, Answers, Off
<1> QED
  BY <1>1, <1>2, <1>3, <1>4, <1>5 DEF ProcessCommand, Commands, Store!Kinds

\* Only a listing of no cache has no text (cache_controller.cpp:104-133).
LEMMA ReplyText ==
    ASSUME NEW cmd \in Commands, ProcessCommand(cmd), IsEmptyText(reply')
    PROVE  cmd.type = "LIST" /\ cmd.target = "Invalid"
<1>1. ASSUME NEW kind, HandlePut(cmd, kind) \/ HandleGet(cmd, kind) PROVE FALSE
  BY <1>1 DEF HandlePut, HandleGet, Store!PutAnswer, Store!GetAnswer, IsEmptyText
<1>2. ASSUME HandlePurge(cmd) \/ HandleSetMaxSize(cmd) \/ HandleStatus PROVE FALSE
  BY <1>2 DEF HandlePurge, HandleSetMaxSize, HandleStatus, Store!PurgeAnswer,
              Store!SetAnswer, Store!StatusAnswer, IsEmptyText
<1>3. cmd.type = "LIST" /\ HandleList(cmd)
  BY <1>1, <1>2 DEF ProcessCommand
<1>4. Store!InTarget(cmd.target) = {}
  BY <1>3 DEF HandleList, Store!ListAnswer, IsEmptyText
<1>5. cmd.target \in Store!CacheTarget
  BY <1>3 DEF Commands
<1> QED
  BY <1>3, <1>4, <1>5 DEF Store!InTarget, Store!CacheTarget, Store!Kinds
-----------------------------------------------------------------------------
(***************************************************************************)
(* The inductive invariant.  Which stage a handler is in tells what its    *)
(* line was, and a line is not replaced: hence what was asked for when a   *)
(* flag changes.                                                           *)
(***************************************************************************)
Before == {"none", "read"}
After == {"close", "closed"}
Deactivating == {"joinTest", "join", "joining", "stop", "wake"}
Starting == {"startSet", "startAssign"}

Asked(c, verb) == line[c] # None /\ line[c].verb = verb

\* A client sends one line, and what comes of it, comes of a line.
OneLine ==
    \A c \in Clients :
        /\ cpc[c] \in {"idle", "connected"} => line[c] = None
        /\ hpc[c] \notin Before \cup After => line[c] # None
        /\ answer[c] # None => line[c] # None
\* A handler is in a SHUTDOWN, or in a START_CLEANUP_THREAD, because its line is.
RunsItsLine ==
    \A c \in Clients :
        /\ hpc[c] = "process" =>
              /\ command[c] \in Commands
              /\ command[c].type \in ThreadCommands => Asked(c, command[c].type)
        /\ hpc[c] \in Deactivating => Asked(c, "SHUTDOWN")
        /\ hpc[c] \in Starting => Asked(c, "START_CLEANUP_THREAD")
\* Nothing is switched off, and nothing ends, without a SHUTDOWN: startCleanupThread
\* gets past its test only after one.
OffIsAsked ==
    /\ ~cleaning \/ ~joinable \/ ~isRunning => Sent("SHUTDOWN")
    /\ \A c \in Clients : hpc[c] \in Starting => Sent("SHUTDOWN")
    /\ proc \notin {"up", "sigpipe"} => Sent("SHUTDOWN")
    /\ proc = "aborted" => Sent("START_CLEANUP_THREAD")
\* _is_running is cleared before anybody acts on it or is told.
LeavesWhenOff ==
    /\ mainPc \in {"close", "unlink", "teardown", "exit"} => ~isRunning
    /\ \A c \in Clients : hpc[c] = "wake" \/ Off \in {resp[c], answer[c]} => ~isRunning
\* Unless somebody asks for the sweeper again, stop() comes after it was joined.
NobodySweeps ==
    ~Sent("START_CLEANUP_THREAD") =>
        /\ ~isRunning => ~joinable
        /\ ~joinable => sweeperPc = "finished" /\ ~cleaning
        /\ \A c \in Clients : hpc[c] \in Deactivating => ~cleaning
        /\ \A c \in Clients : hpc[c] \in {"stop", "wake"} => ~joinable
\* A connection is closed after an answer, or because one of the two ends leaves, or
\* with a response that has no text.
Textless(c) == resp[c] # None /\ IsEmptyText(resp[c])
Responds ==
    \A c \in Clients :
        /\ hpc[c] = "write" => resp[c] # None
        /\ hpc[c] \in After =>
              answer[c] # None \/ cpc[c] = "gone" \/ ~isRunning \/ Textless(c)
\* A response without text is that of a LIST whose target is unknown.
TextlessIsAsked ==
    \A c \in Clients :
        /\ /\ hpc[c] = "process"
           /\ command[c].type = "LIST" /\ command[c].target = "Invalid"
           => line[c] # None /\ ListsNothing(line[c])
        /\ Textless(c) => line[c] # None /\ ListsNothing(line[c])

Control ==
    /\ OneLine /\ RunsItsLine /\ OffIsAsked /\ LeavesWhenOff /\ NobodySweeps /\ Responds
    /\ TextlessIsAsked /\ NoLostWakeup /\ EmptyOnlyWhenStopping
Typed == TypeOK /\ now <= MaxTime
IInv == Typed /\ Control

\* The answers that are not the store's, which have text, and that None is no answer.
LEMMA FixedAnswers ==
    /\ {Off, Started, Error} \subseteq Answers
    /\ Off # Started /\ Off # Error /\ None \notin Answers
    /\ \A r \in {Off, Started, Error} : ~IsEmptyText(r)
BY ServerAssumption DEF Answers, Off, Started, Error, IsEmptyText

\* What the steps of each part leave alone.
MainFrame == UNCHANGED <<storeVars, now, command, resp, clientVars>>
HandlerFrame == UNCHANGED <<now, mainPc, cpc, line>>
ClientFrame ==
    UNCHANGED <<storeVars, now, proc, isRunning, mainPc, sweepVars, hpc, command, resp>>

\* run() establishes the invariant (cache_server.cpp:8-16).
LEMMA InitInv == Init => IInv
<1> SUFFICES ASSUME Init PROVE IInv
  OBVIOUS
<1> USE DEF Init, clientVars
<1>1. Store!TypeOK /\ now <= MaxTime
  <2>1. Store!TypeOK
    BY StoreProofs!EmptyType, ControllerAssumption
    DEF Store!Init, Store!TypeOK, Store!MapsFrom, Store!IsFiniteSet, StoreProofs!MapsFrom,
        StoreProofs!Entries, Store!Entries, Store!Kinds, StoreProofs!IsFiniteSet
  <2> QED
    BY <2>1, ControllerAssumption DEF Store!Init
<1>2. TypeOK
  BY <1>1, ServerAssumption DEF TypeOK
<1>3. Control
  BY ServerAssumption, FixedAnswers
  DEF Control, OneLine, RunsItsLine, OffIsAsked, LeavesWhenOff, NobodySweeps, Responds,
      NoLostWakeup, EmptyOnlyWhenStopping, TextlessIsAsked, Textless, Deactivating,
      Starting, Before, After
<1> QED
  BY <1>1, <1>2, <1>3 DEF IInv, Typed

\* A line once sent is not replaced.
LEMMA LineStays ==
    ASSUME TypeOK, OneLine, [Next]_vars, NEW c \in Clients, line[c] # None
    PROVE  line'[c] = line[c]
<1>1. ASSUME NEW d \in Clients, Send(d) PROVE line'[c] = line[c]
  BY <1>1 DEF Send, ClientTo, OneLine, TypeOK
<1> QED
  BY <1>1 DEF Next, Main, Sweeper, Handler, Client, Connect, Receive, Probe, Leave, Tick, clientVars,
     vars

\* So whoever asked has asked, whatever happens next.
LEMMA AskedStays ==
    ASSUME TypeOK, OneLine, [Next]_vars, NEW verb
    PROVE  /\ \A c \in Clients : Asked(c, verb) => Asked(c, verb)' /\ Sent(verb)
           /\ Sent(verb) => Sent(verb)'
BY LineStays DEF Asked, Sent

-----------------------------------------------------------------------------
\* Every step of the daemon and its clients is one of the store's, or none.
LEMMA StoreStep ==
    ASSUME RunsItsLine, [Next]_vars
    PROVE  [Store!Next]_(Store!vars)
<1>1. ASSUME NEW c \in Clients, Process(c), HandlerFrame
      PROVE  Store!Next
  <2>1. command[c] \in Commands
    BY <1>1 DEF Process, At, RunsItsLine
  <2> QED
    BY <1>1, <2>1, CommandIsOperation DEF Process, HandlerFrame
<1>2. ASSUME Sweep, UNCHANGED <<now, reply>>
      PROVE  Store!Next
  BY <1>2 DEF Sweep, Store!Next, Store!DoCleanup
<1>3. ASSUME Tick
      PROVE  Store!Next
  BY <1>3 DEF Tick, storeVars, Store!Next, Store!Tick, Store!storeVars
<1>4. ASSUME UNCHANGED <<storeVars, now>>
      PROVE  UNCHANGED Store!vars
  BY <1>4 DEF storeVars, Store!vars
<1> QED
  BY <1>1, <1>2, <1>3, <1>4
  DEF Next, vars, Main, Sweeper, SweeperCheck, Handler, HandlerFrame, Client, Read,
      StopSweeper, JoinTest, Join, Joined, Stop, WakeMain, StartTest, StartSet, StartAssign,
      Write, Close, UseDestroyed, storeVars

\* The store that the daemon runs is the store CacheStoreProofs is about.
LEMMA StoreIsStore ==
    /\ Store!Init <=> StoreProofs!Init
    /\ [Store!Next]_(Store!vars) <=> [StoreProofs!Next]_(StoreProofs!vars)
    /\ Store!TypeOK <=> StoreProofs!TypeOK
    /\ (Store!TypeOK <=> StoreProofs!TypeOK)'
<1>1. Store!Init <=> StoreProofs!Init
  BY DEF Store!Init, StoreProofs!Init, Store!Kinds, StoreProofs!Kinds
<1>2. Store!Next <=> StoreProofs!Next
  BY DEF Store!Next, StoreProofs!Next, Store!Kinds, StoreProofs!Kinds,
         Store!Entries, StoreProofs!Entries, Store!CacheTarget, StoreProofs!CacheTarget,
         Store!DoPut, StoreProofs!DoPut, Store!DoGet, StoreProofs!DoGet,
         Store!DoPurge, StoreProofs!DoPurge,
         Store!DoSetMaxSize, StoreProofs!DoSetMaxSize, Store!DoList, StoreProofs!DoList,
         Store!DoGetStatus, StoreProofs!DoGetStatus,
         Store!DoCleanup, StoreProofs!DoCleanup, Store!Tick, StoreProofs!Tick,
         Store!storeVars, StoreProofs!storeVars, Store!Put, StoreProofs!Put,
         Store!PutAnswer, StoreProofs!PutAnswer, Store!Evicted, StoreProofs!Evicted,
         Store!Assign, StoreProofs!Assign, Store!Erase, StoreProofs!Erase,
         Store!Size, StoreProofs!Size, Store!Get, StoreProofs!Get,
         Store!GetAnswer, StoreProofs!GetAnswer, Store!Hit, StoreProofs!Hit,
         Store!Expired, StoreProofs!Expired, Store!Purge, StoreProofs!Purge,
         Store!PurgeAnswer, StoreProofs!PurgeAnswer,
         Store!InTarget, StoreProofs!InTarget, Store!SetMaxSize, StoreProofs!SetMaxSize,
         Store!SetAnswer, StoreProofs!SetAnswer,
         Store!ListAnswer, StoreProofs!ListAnswer,
         Store!StatusAnswer, StoreProofs!StatusAnswer,
         Store!Cleanup, StoreProofs!Cleanup, Store!Cardinality, StoreProofs!Cardinality
<1>3. UNCHANGED Store!vars <=> UNCHANGED StoreProofs!vars
  BY DEF Store!vars, StoreProofs!vars
<1>4. /\ Store!TypeOK <=> StoreProofs!TypeOK
      /\ (Store!TypeOK <=> StoreProofs!TypeOK)'
  BY DEF Store!TypeOK, StoreProofs!TypeOK, Store!Kinds, StoreProofs!Kinds, Store!MapsFrom,
         StoreProofs!MapsFrom, Store!Entries, StoreProofs!Entries, Store!IsFiniteSet,
         StoreProofs!IsFiniteSet
<1> QED
  BY <1>1, <1>2, <1>3, <1>4

-----------------------------------------------------------------------------
\* No step of any thread or client leaves the types.
LEMMA TypeStep == ASSUME IInv, [Next]_vars PROVE Typed'
<1> USE FixedAnswers, ServerAssumption DEF IInv, Typed
<1>0. Store!TypeOK'
  <2>1. [Store!Next]_(Store!vars)
    BY StoreStep DEF Control
  <2> QED
    BY <2>1, StoreIsStore, StoreProofs!TypeStep, ControllerAssumption
    DEF TypeOK, StoreProofs!StoreAssumption
<1> USE DEF TypeOK, At, GoTo, Respond, storeVars, serverVars, sweepVars, clientVars,
            Listening, MainTo, ClientTo, MainFrame, HandlerFrame, ClientFrame
<1>1. ASSUME MainLoop, MainFrame PROVE Typed'
  BY <1>1, <1>0 DEF MainLoop
<1>2. ASSUME Accept, MainFrame PROVE Typed'
  BY <1>2, <1>0 DEF Accept
<1>3. ASSUME CloseListener, MainFrame PROVE Typed'
  BY <1>3, <1>0 DEF CloseListener
<1>4. ASSUME Unlink, MainFrame PROVE Typed'
  BY <1>4, <1>0 DEF Unlink
<1>5. ASSUME Teardown, MainFrame PROVE Typed'
  BY <1>5, <1>0 DEF Teardown
<1>6. ASSUME Exit, MainFrame PROVE Typed'
  BY <1>6, <1>0 DEF Exit
<1>7. ASSUME NEW c \in Clients, Read(c), HandlerFrame PROVE Typed'
  <2>1. ASSUME line[c] # None, Parse(line[c]) # Throw
        PROVE  Parse(line[c]) \in Commands
    BY <2>1, ParseType DEF Store!TypeOK
  <2> QED
    BY <1>7, <1>0, <2>1 DEF Read
<1>8. ASSUME NEW c \in Clients, Process(c), HandlerFrame PROVE Typed'
  <2>1. reply' \in Answers \ {Off}
    BY <1>8, ReplyType DEF Process, Control, RunsItsLine, At
  <2> QED
    BY <1>8, <1>0, <2>1 DEF Process
<1>9. ASSUME NEW c \in Clients, StopSweeper(c), HandlerFrame PROVE Typed'
  BY <1>9, <1>0 DEF StopSweeper
<1>10. ASSUME NEW c \in Clients, JoinTest(c), HandlerFrame PROVE Typed'
  BY <1>10, <1>0 DEF JoinTest
<1>11. ASSUME NEW c \in Clients, Join(c), HandlerFrame PROVE Typed'
  BY <1>11, <1>0 DEF Join
<1>12. ASSUME NEW c \in Clients, Joined(c), HandlerFrame PROVE Typed'
  BY <1>12, <1>0 DEF Joined
<1>13. ASSUME NEW c \in Clients, Stop(c), HandlerFrame PROVE Typed'
  BY <1>13, <1>0 DEF Stop
<1>14. ASSUME NEW c \in Clients, WakeMain(c), HandlerFrame PROVE Typed'
  BY <1>14, <1>0 DEF WakeMain
<1>15. ASSUME NEW c \in Clients, StartTest(c), HandlerFrame PROVE Typed'
  BY <1>15, <1>0 DEF StartTest
<1>16. ASSUME NEW c \in Clients, StartSet(c), HandlerFrame PROVE Typed'
  BY <1>16, <1>0 DEF StartSet
<1>17. ASSUME NEW c \in Clients, StartAssign(c), HandlerFrame PROVE Typed'
  <2>1. CASE joinable
    BY <1>17, <1>0, <2>1 DEF StartAssign
  <2>2. CASE ~joinable
    BY <1>17, <1>0, <2>2 DEF StartAssign
  <2> QED
    BY <2>1, <2>2
<1>18. ASSUME NEW c \in Clients, Write(c), HandlerFrame PROVE Typed'
  BY <1>18, <1>0 DEF Write
<1>19. ASSUME NEW c \in Clients, Close(c), HandlerFrame PROVE Typed'
  BY <1>19, <1>0 DEF Close
<1>20. ASSUME NEW c \in Clients, UseDestroyed(c), HandlerFrame PROVE Typed'
  BY <1>20, <1>0 DEF UseDestroyed
<1>21. ASSUME NEW c \in Clients, Connect(c), ClientFrame PROVE Typed'
  <2>1. cpc' \in [Clients -> {"idle", "connected", "sent", "answered", "empty", "refused",
                             "gone", "sigpipe"}]
    BY <1>21 DEF Connect
  <2>2. backlog' \in Seq(Clients \cup {Wake}) /\ Len(backlog') <= Backlog
    BY <1>21 DEF Connect
  <2> QED
    BY <1>21, <1>0, <2>1, <2>2 DEF Connect
<1>22. ASSUME NEW c \in Clients, Send(c), ClientFrame PROVE Typed'
  <2>1. cpc' \in [Clients -> {"idle", "connected", "sent", "answered", "empty", "refused",
                             "gone", "sigpipe"}]
    BY <1>22 DEF Send
  <2>2. line' \in [Clients -> Lines \cup {None}]
    BY <1>22 DEF Send
  <2> QED
    BY <1>22, <1>0, <2>1, <2>2 DEF Send
<1>23. ASSUME NEW c \in Clients, Receive(c), ClientFrame PROVE Typed'
  BY <1>23, <1>0 DEF Receive
<1>24. ASSUME NEW c \in Clients, Probe(c), ClientFrame PROVE Typed'
  BY <1>24, <1>0 DEF Probe
<1>25. ASSUME NEW c \in Clients, Leave(c), ClientFrame PROVE Typed'
  BY <1>25, <1>0 DEF Leave
<1>26. CASE Sweeper
  BY <1>26, <1>0 DEF Sweeper, SweeperCheck, Sweep
<1>27. CASE Tick \/ UNCHANGED vars
  <2>1. (now <= MaxTime)'
    BY <1>27, ControllerAssumption DEF Tick, vars, Store!TypeOK
  <2> QED
    BY <1>27, <1>0, <2>1 DEF Tick, vars
<1> QED
  BY <1>1, <1>2, <1>3, <1>4, <1>5, <1>6, <1>7, <1>8, <1>9, <1>10, <1>11, <1>12, <1>13, <1>14,
     <1>15, <1>16, <1>17,  <1>18, <1>19, <1>20, <1>21, <1>22, <1>23, <1>24, <1>25, <1>26, <1>27
  DEF Next, Main, Handler, Client, MainFrame, HandlerFrame, ClientFrame

\* No step of any thread or client breaks the rest of the invariant.
LEMMA ControlStep == ASSUME IInv, [Next]_vars PROVE Control'
<1> USE FixedAnswers DEF IInv, Typed
<1> DEFINE started == Sent("START_CLEANUP_THREAD")
           asked == Sent("SHUTDOWN")
<1>0. /\ \A c \in Clients : Asked(c, "SHUTDOWN") => Asked(c, "SHUTDOWN")' /\ asked
      /\ \A c \in Clients :
            Asked(c, "START_CLEANUP_THREAD") => Asked(c, "START_CLEANUP_THREAD")' /\ started
      /\ asked => asked'
      /\ started => started'
  BY AskedStays DEF Control
<1> USE DEF Control, OneLine, RunsItsLine, OffIsAsked, LeavesWhenOff, NobodySweeps, Responds,
            NoLostWakeup, EmptyOnlyWhenStopping, TextlessIsAsked, Textless,
            Deactivating, Starting, Before, After, TypeOK, At, GoTo, Respond, storeVars, serverVars, sweepVars, clientVars,
            Listening, Destroyed, MainTo, HungUp, ClientTo, Queued, ThreadCommands,
            MainFrame, HandlerFrame, ClientFrame
<1>1. ASSUME MainLoop, MainFrame PROVE Control'
  BY <1>1, <1>0 DEF MainLoop
<1>2. ASSUME Accept, MainFrame PROVE Control'
  BY <1>2, <1>0 DEF Accept
<1>3. ASSUME CloseListener, MainFrame PROVE Control'
  BY <1>3, <1>0 DEF CloseListener
<1>4. ASSUME Unlink, MainFrame PROVE Control'
  BY <1>4, <1>0 DEF Unlink
<1>5. ASSUME Teardown, MainFrame PROVE Control'
  BY <1>5, <1>0 DEF Teardown
<1>6. ASSUME Exit, MainFrame PROVE Control'
  BY <1>6, <1>0 DEF Exit
<1>7. ASSUME NEW c \in Clients, Read(c), HandlerFrame PROVE Control'
  <2>1. CASE line[c] = None
    BY <1>7, <2>1, <1>0 DEF Read
  <2>2. CASE line[c] # None /\ Parse(line[c]) = Throw
    BY <1>7, <2>2, <1>0 DEF Read
  <2>3. CASE line[c] # None /\ Parse(line[c]) # Throw
    <3>1. /\ Parse(line[c]) \in Commands
          /\ Parse(line[c]).type \in ThreadCommands => Asked(c, Parse(line[c]).type)
      BY <2>3, ParseType DEF Asked, Store!TypeOK
    <3>2. Parse(line[c]).type = "LIST" /\ Parse(line[c]).target = "Invalid" =>
             ListsNothing(line[c])
      <4>1. SUFFICES ASSUME Parse(line[c]).type = "LIST",
                            Parse(line[c]).target = "Invalid"
                     PROVE  ListsNothing(line[c])
        OBVIOUS
      <4>2. line[c].verb = "LIST"
        BY <2>3, <4>1, ParseType DEF Store!TypeOK
      <4> QED
        BY <4>1, <4>2 DEF Parse, ParseTargeted, ListsNothing
    <3>3. line'[c] = line[c]
      BY <1>7
    <3> QED
      BY <1>7, <2>3, <3>1, <3>2, <3>3, <1>0 DEF Read, Asked
  <2> QED
    BY <2>1, <2>2, <2>3
<1>8. ASSUME NEW c \in Clients, Process(c), HandlerFrame PROVE Control'
  <2>1. reply' \in Answers \ {Off}
    BY <1>8, ReplyType DEF Process
  <2>2. IsEmptyText(reply') => line[c] # None /\ ListsNothing(line[c])
    BY <1>8, ReplyText DEF Process
  <2> QED
    BY <1>8, <2>1, <2>2, <1>0 DEF Process
<1>9. ASSUME NEW c \in Clients, StopSweeper(c), HandlerFrame PROVE Control'
  BY <1>9, <1>0 DEF StopSweeper
<1>10. ASSUME NEW c \in Clients, JoinTest(c), HandlerFrame PROVE Control'
  BY <1>10, <1>0 DEF JoinTest
<1>11. ASSUME NEW c \in Clients, Join(c), HandlerFrame PROVE Control'
  BY <1>11, <1>0 DEF Join
<1>12. ASSUME NEW c \in Clients, Joined(c), HandlerFrame PROVE Control'
  BY <1>12, <1>0 DEF Joined
<1>13. ASSUME NEW c \in Clients, Stop(c), HandlerFrame PROVE Control'
  BY <1>13, <1>0 DEF Stop
<1>14. ASSUME NEW c \in Clients, WakeMain(c), HandlerFrame PROVE Control'
  BY <1>14, <1>0 DEF WakeMain
<1>15. ASSUME NEW c \in Clients, StartTest(c), HandlerFrame PROVE Control'
  BY <1>15, <1>0 DEF StartTest
<1>16. ASSUME NEW c \in Clients, StartSet(c), HandlerFrame PROVE Control'
  BY <1>16, <1>0 DEF StartSet
<1>17. ASSUME NEW c \in Clients, StartAssign(c), HandlerFrame PROVE Control'
  BY <1>17, <1>0 DEF StartAssign
<1>18. ASSUME NEW c \in Clients, Write(c), HandlerFrame PROVE Control'
  BY <1>18, <1>0 DEF Write
<1>19. ASSUME NEW c \in Clients, Close(c), HandlerFrame PROVE Control'
  BY <1>19, <1>0 DEF Close
<1>20. ASSUME NEW c \in Clients, UseDestroyed(c), HandlerFrame PROVE Control'
  BY <1>20, <1>0 DEF UseDestroyed
<1>21. ASSUME NEW c \in Clients, Connect(c), ClientFrame PROVE Control'
  BY <1>21, <1>0 DEF Connect
<1>22. ASSUME NEW c \in Clients, Send(c), ClientFrame PROVE Control'
  BY <1>22, <1>0 DEF Send
<1>23. ASSUME NEW c \in Clients, Receive(c), ClientFrame PROVE Control'
  BY <1>23, <1>0 DEF Receive
<1>24. ASSUME NEW c \in Clients, Probe(c), ClientFrame PROVE Control'
  BY <1>24, <1>0 DEF Probe
<1>25. ASSUME NEW c \in Clients, Leave(c), ClientFrame PROVE Control'
  BY <1>25, <1>0 DEF Leave
<1>26. CASE Sweeper
  BY <1>26, <1>0 DEF Sweeper, SweeperCheck, Sweep
<1>27. CASE Tick \/ UNCHANGED vars
  BY <1>27, <1>0 DEF Tick, vars
<1> QED
  BY <1>1, <1>2, <1>3, <1>4, <1>5, <1>6, <1>7, <1>8, <1>9, <1>10, <1>11, <1>12, <1>13, <1>14,
     <1>15, <1>16, <1>17,  <1>18, <1>19, <1>20, <1>21, <1>22, <1>23, <1>24, <1>25, <1>26, <1>27
  DEF Next, Main, Handler, Client, MainFrame, HandlerFrame, ClientFrame

\* The invariant holds as long as the daemon and its clients run.
LEMMA Invariance == Spec => []IInv
<1>1. IInv /\ [Next]_vars => IInv'
  BY TypeStep, ControlStep DEF IInv
<1> QED
  BY InitInv, <1>1, PTL DEF Spec
-----------------------------------------------------------------------------
(***************************************************************************)
(* Whatever is sent and in whatever order the threads run, the store has   *)
(* entries of its types, a handler a command of parse and an answer, and   *)
(* the backlog is never longer than listen() allows (cache_server.cpp).    *)
(***************************************************************************)
THEOREM ServerTypeCorrect == Spec => []TypeOK
<1>1. IInv => TypeOK
  BY DEF IInv, Typed
<1> QED
  BY <1>1, Invariance, PTL

(***************************************************************************)
(* stop() never leaves the main thread in an accept() nobody will answer   *)
(* (cache_server.cpp:26-39, 100-109), however many handlers are in it.     *)
(***************************************************************************)
THEOREM NoLostWakeupTheorem == Spec => []NoLostWakeup
<1>1. IInv => NoLostWakeup
  BY DEF IInv, Control
<1> QED
  BY <1>1, Invariance, PTL

(***************************************************************************)
(* The daemon ends because of a SHUTDOWN or of the SIGPIPE of a client     *)
(* that left, and is terminated by the sweeper's std::thread only if       *)
(* somebody sent START_CLEANUP_THREAD (cache_store.cpp:106-126).           *)
(***************************************************************************)
THEOREM EndsWhenAskedTheorem == Spec => []EndsOnlyWhenAsked
<1>1. IInv => EndsOnlyWhenAsked
  BY DEF IInv, Control, OffIsAsked, EndsOnlyWhenAsked
<1> QED
  BY <1>1, Invariance, PTL

(***************************************************************************)
(* Who is told that the daemon is off is told the truth: the flag that     *)
(* ends the loop is cleared, and the sweeper has been joined unless it was *)
(* asked for again (cache_store.cpp:117-126, cache_server.cpp:26-28).      *)
(***************************************************************************)
THEOREM OffIsTrueTheorem == Spec => []OffIsTrue
<1>1. IInv => OffIsTrue
  BY DEF IInv, Control, LeavesWhenOff, NobodySweeps, OffIsTrue
<1> QED
  BY <1>1, Invariance, PTL

(***************************************************************************)
(* A client is left without an answer by a daemon that is down or going    *)
(* down, or because it asked a running one to LIST a target that it does   *)
(* not know, which writes nothing (cache_client.cpp:24-35,                 *)
(* cache_server.cpp:111-137, cache_controller.cpp:104-133).                *)
(***************************************************************************)
THEOREM EmptyTheorem == Spec => []EmptyOnlyWhenStopping
<1>1. IInv => EmptyOnlyWhenStopping
  BY DEF IInv, Control
<1> QED
  BY <1>1, Invariance, PTL

(***************************************************************************)
(* Handlers, sweeper and clients together implement the store: all they do *)
(* to it are its operations, one at a time (cache_controller.cpp:8-29).    *)
(***************************************************************************)
THEOREM ServerImplementsStore == Spec => ImplementsStore
<1>1. Init => Store!Init
  BY DEF Init
<1>2. IInv /\ [Next]_vars => [Store!Next]_(Store!vars)
  BY StoreStep DEF IInv, Control
<1> QED
  BY <1>1, <1>2, Invariance, PTL DEF Spec, ImplementsStore, Store!Spec

(***************************************************************************)
(* Hence what CacheStoreProofs proves of the store, the daemon keeps with  *)
(* any number of handlers at once: live entries leave through a purge or   *)
(* as the victim of a put into a full cache, caches grow up to their limit *)
(* only ...                                                                *)
(***************************************************************************)
THEOREM ServerLosesNothing == Spec => Store!LiveLossesJustified /\ Store!GrowthWithinLimit
<1>1. Store!Spec => StoreProofs!Spec
  BY StoreIsStore, PTL DEF Store!Spec, StoreProofs!Spec
<1>2. StoreProofs!Spec =>
        StoreProofs!LiveLossesJustified /\ StoreProofs!GrowthWithinLimit
  BY StoreProofs!LossTheorem, StoreProofs!GrowthTheorem, ControllerAssumption
  DEF StoreProofs!StoreAssumption
<1>3. StoreProofs!LossStep => Store!LossStep
  BY DEF StoreProofs!LossStep, Store!LossStep, StoreProofs!LostLive, Store!LostLive,
         StoreProofs!Expired, Store!Expired, StoreProofs!Size, Store!Size,
         StoreProofs!Kinds, Store!Kinds, StoreProofs!Cardinality, Store!Cardinality
<1>4. StoreProofs!GrowthStep => Store!GrowthStep
  BY DEF StoreProofs!GrowthStep, Store!GrowthStep, StoreProofs!Size, Store!Size,
         StoreProofs!Kinds, Store!Kinds, StoreProofs!Cardinality, Store!Cardinality
<1>5. UNCHANGED StoreProofs!vars => UNCHANGED Store!vars
  BY DEF StoreProofs!vars, Store!vars
<1>6. /\ StoreProofs!LiveLossesJustified => Store!LiveLossesJustified
      /\ StoreProofs!GrowthWithinLimit => Store!GrowthWithinLimit
  BY <1>3, <1>4, <1>5, PTL
  DEF StoreProofs!LiveLossesJustified, Store!LiveLossesJustified,
      StoreProofs!GrowthWithinLimit, Store!GrowthWithinLimit
<1> QED
  BY <1>1, <1>2, <1>6, ServerImplementsStore DEF ImplementsStore

(***************************************************************************)
(* ... and clients see a map that may forget: the promise of LossyCache.   *)
(***************************************************************************)
THEOREM ServerKeepsPromise == Spec => Store!ImplementsLossyCache
<1>1. Store!Spec => StoreProofs!Spec
  BY StoreIsStore, PTL DEF Store!Spec, StoreProofs!Spec
<1>2. StoreProofs!Spec => StoreProofs!ImplementsLossyCache
  BY StoreProofs!RefinementTheorem, ControllerAssumption DEF StoreProofs!StoreAssumption
<1>3. StoreProofs!ImplementsLossyCache => Store!ImplementsLossyCache
  <2>1. StoreProofs!Promise!Init => Store!Promise!Init
    BY DEF StoreProofs!Promise!Init, Store!Promise!Init, Store!Promise!Kinds,
           StoreProofs!Promise!Kinds
  <2>2. StoreProofs!Promise!Next => Store!Promise!Next
    BY DEF Store!Promise!Kinds, StoreProofs!Promise!Kinds, Store!Promise!Live,
           StoreProofs!Promise!Live, Store!Promise!Store, StoreProofs!Promise!Store,
           Store!Promise!LookupHit, StoreProofs!Promise!LookupHit,
           Store!Promise!LookupMiss, StoreProofs!Promise!LookupMiss, Store!Promise!Purge,
           StoreProofs!Promise!Purge, Store!Promise!Expire, StoreProofs!Promise!Expire,
           Store!Promise!Listing, StoreProofs!Promise!Listing, Store!Promise!Status,
           StoreProofs!Promise!Status, Store!Promise!Tune, StoreProofs!Promise!Tune,
           Store!Promise!Elapse, StoreProofs!Promise!Elapse, Store!Promise!Next,
           StoreProofs!Promise!Next, Store!Promise!Cardinality,
           StoreProofs!Promise!Cardinality, Store!Entries, StoreProofs!Entries
  <2>3. UNCHANGED StoreProofs!Promise!vars => UNCHANGED Store!Promise!vars
    BY DEF StoreProofs!Promise!vars, Store!Promise!vars
  <2> QED
    BY <2>1, <2>2, <2>3, PTL
    DEF StoreProofs!ImplementsLossyCache, Store!ImplementsLossyCache, Store!Promise!Spec,
        StoreProofs!Promise!Spec
<1> QED
  BY <1>1, <1>2, <1>3, ServerImplementsStore DEF ImplementsStore
-----------------------------------------------------------------------------
(***************************************************************************)
(* Confirmed entries.  A put has room if there are no more keys than any   *)
(* limit allows.  The invariant: a client is in the backlog once, and      *)
(* before its handler starts; a handler has its response from the write    *)
(* on, and keeps it, as it keeps its command; what it answered to a put is *)
(* stored, or another one answered the same.                               *)
(***************************************************************************)
RoomForAll ==
    /\ IsFiniteSet(Keys)
    /\ \A limit \in Capacities \cup {DefaultMax} : Cardinality(Keys) <= limit

AcceptedOnce ==
    /\ \A i, j \in DOMAIN backlog : backlog[i] = backlog[j] /\ i # j => backlog[i] = Wake
    /\ \A c \in Clients : Queued(c) => hpc[c] = "none" /\ cpc[c] # "idle"
    /\ \A c \in Clients : cpc[c] = "idle" => hpc[c] = "none"

AnswersOnce ==
    \A c \in Clients :
        /\ resp[c] # None => hpc[c] \in {"write", "close", "closed"}
        /\ answer[c] # None => answer[c] = resp[c] /\ hpc[c] \in {"close", "closed"}

PurgesItsLine ==
    \A c \in Clients :
        hpc[c] = "process" /\ command[c].type = "PURGE" => Asked(c, "PURGE")

Fits == \A kind \in Store!Kinds : Cardinality(Keys) <= maxSize[kind]

PutDone(c) == resp[c] # None /\ resp[c].op = "put"

Kept(c) ==
    \/ /\ resp[c].key \in DOMAIN cache[resp[c].kind]
       /\ cache[resp[c].kind][resp[c].key] = command[c].entry
    \/ \E d \in Clients \ {c} : resp[d] # None /\ resp[d] = resp[c]

PutsItsCommand ==
    \A c \in Clients : PutDone(c) =>
        /\ command[c].key = resp[c].key /\ resp[c].kind \in Store!Kinds
        /\ command[c].entry \in Store!Entries
PutsAreKept ==
    ~Sent("PURGE") =>
        \A c \in Clients :
            PutDone(c) /\ now <= command[c].entry.expiration_time => Kept(c)

CInv ==
    /\ AcceptedOnce /\ AnswersOnce /\ PurgesItsLine
    /\ Fits /\ PutsItsCommand /\ PutsAreKept

LEMMA TailBacklog ==
    ASSUME TypeOK, backlog # << >>
    PROVE  /\ Tail(backlog) \in Seq(Clients \cup {Wake})
           /\ DOMAIN Tail(backlog) = 1..Len(backlog) - 1 /\ Len(backlog) \in Nat
           /\ 1 \in DOMAIN backlog /\ Head(backlog) = backlog[1]
           /\ \A i \in 1..Len(backlog) - 1 :
                 i + 1 \in DOMAIN backlog /\ Tail(backlog)[i] = backlog[i + 1]
BY DEF TypeOK

LEMMA AppendBacklog ==
    ASSUME TypeOK, NEW who
    PROVE  LET longer == Append(backlog, who)
           IN  /\ DOMAIN backlog = 1..Len(backlog) /\ Len(backlog) \in Nat
               /\ DOMAIN longer = 1..Len(backlog) + 1
               /\ \A i \in 1..Len(backlog) : longer[i] = backlog[i]
               /\ longer[Len(backlog) + 1] = who
BY DEF TypeOK

\* A client that is taken from the backlog, or comes into it, does so once.
LEMMA AcceptedOnceStep == ASSUME TypeOK, AcceptedOnce, [Next]_vars PROVE AcceptedOnce'
<1>1. ASSUME Accept, MainFrame PROVE AcceptedOnce'
  <2>1. /\ backlog # << >> /\ backlog' = Tail(backlog) /\ UNCHANGED cpc
        /\ hpc' = IF Head(backlog) = Wake THEN hpc
                  ELSE [hpc EXCEPT ![Head(backlog)] = "read"]
    BY <1>1 DEF Accept, MainFrame, clientVars
  <2>2. \A i, j \in DOMAIN backlog' :
            backlog'[i] = backlog'[j] /\ i # j => backlog'[i] = Wake
    BY <2>1, TailBacklog DEF AcceptedOnce
  <2>3. ASSUME NEW c \in Clients, Queued(c)' PROVE Queued(c) /\ c # Head(backlog)
    <3>1. PICK i \in 1..Len(backlog) - 1 : backlog[i + 1] = c
      BY <2>1, <2>3, TailBacklog DEF Queued
    <3>2. i + 1 \in DOMAIN backlog /\ 1 \in DOMAIN backlog /\ i + 1 # 1
      BY <2>1, TailBacklog
    <3>3. c # Wake
      BY ServerAssumption
    <3> QED
      BY <2>1, <3>1, <3>2, <3>3, TailBacklog DEF AcceptedOnce, Queued
  <2>4. \A c \in Clients : Queued(c)' => hpc'[c] = "none" /\ cpc'[c] # "idle"
    BY <2>1, <2>3 DEF AcceptedOnce, TypeOK
  <2>5. \A c \in Clients : cpc'[c] = "idle" => hpc'[c] = "none"
    <3>1. \A c \in Clients : cpc[c] = "idle" => c # Head(backlog)
      BY <2>1, TailBacklog DEF AcceptedOnce, Queued
    <3> QED
      BY <2>1, <3>1 DEF AcceptedOnce, TypeOK
  <2> QED
    BY <2>2, <2>4, <2>5 DEF AcceptedOnce
<1>2. ASSUME CloseListener, MainFrame PROVE AcceptedOnce'
  BY <1>2 DEF CloseListener, MainFrame, clientVars, AcceptedOnce, Queued, TypeOK
<1>3. ASSUME NEW who \in Clients \cup {Wake}, backlog' = Append(backlog, who),
             who # Wake => ~Queued(who)
      PROVE  /\ \A i, j \in DOMAIN backlog' :
                    backlog'[i] = backlog'[j] /\ i # j => backlog'[i] = Wake
             /\ \A c \in Clients : Queued(c)' => Queued(c) \/ c = who
  <2>1. /\ DOMAIN backlog = 1..Len(backlog) /\ Len(backlog) \in Nat
        /\ DOMAIN backlog' = 1..Len(backlog) + 1
        /\ \A i \in 1..Len(backlog) : backlog'[i] = backlog[i]
        /\ backlog'[Len(backlog) + 1] = who
    BY <1>3, AppendBacklog
  <2>2. \A i \in DOMAIN backlog' : i \in DOMAIN backlog \/ i = Len(backlog) + 1
    BY <2>1
  <2> QED
    BY <1>3, <2>1, <2>2 DEF AcceptedOnce, Queued
<1>4. ASSUME NEW c \in Clients, WakeMain(c), HandlerFrame PROVE AcceptedOnce'
  <2>1. /\ hpc' = [hpc EXCEPT ![c] = "write"] /\ hpc[c] = "wake" /\ UNCHANGED cpc
        /\ backlog' = Append(backlog, Wake) \/ backlog' = backlog
    BY <1>4 DEF WakeMain, GoTo, At, HandlerFrame
  <2>2. /\ \A i, j \in DOMAIN backlog' :
              backlog'[i] = backlog'[j] /\ i # j => backlog'[i] = Wake
        /\ \A d \in Clients : Queued(d)' => Queued(d)
    <3>1. CASE backlog' = Append(backlog, Wake)
      BY <3>1, <1>3, ServerAssumption
    <3>2. CASE backlog' = backlog
      BY <3>2 DEF AcceptedOnce, Queued
    <3> QED
      BY <2>1, <3>1, <3>2
  <2> QED
    BY <2>1, <2>2 DEF AcceptedOnce, TypeOK
<1>5. ASSUME NEW c \in Clients, Connect(c), ClientFrame PROVE AcceptedOnce'
  <2>1. CASE backlog' = Append(backlog, c) /\ cpc[c] = "idle"
             /\ cpc' = [cpc EXCEPT ![c] = "connected"]
    <3>1. ~Queued(c) /\ hpc[c] = "none"
      BY <2>1 DEF AcceptedOnce
    <3>2. /\ \A i, j \in DOMAIN backlog' :
                backlog'[i] = backlog'[j] /\ i # j => backlog'[i] = Wake
          /\ \A d \in Clients : Queued(d)' => Queued(d) \/ d = c
      BY <2>1, <3>1, <1>3
    <3> QED
      BY <1>5, <2>1, <3>1, <3>2 DEF AcceptedOnce, ClientFrame, TypeOK
  <2>2. CASE backlog' = backlog /\ cpc' = [cpc EXCEPT ![c] = "refused"]
    BY <1>5, <2>2 DEF AcceptedOnce, ClientFrame, Queued, TypeOK
  <2> QED
    BY <1>5, <2>1, <2>2 DEF Connect, ClientTo
<1>6. ASSUME UNCHANGED backlog,
             \A c \in Clients : /\ hpc'[c] = hpc[c] \/ hpc[c] # "none"
                                /\ cpc'[c] = cpc[c] \/ cpc'[c] # "idle"
      PROVE  AcceptedOnce'
  BY <1>6 DEF AcceptedOnce, Queued
<1> USE DEF TypeOK, At, GoTo, Respond, serverVars, clientVars, ClientTo,
            MainFrame, HandlerFrame, ClientFrame
<1>7. ASSUME MainLoop \/ Unlink \/ Teardown \/ Exit, MainFrame PROVE AcceptedOnce'
  BY <1>6, <1>7 DEF MainLoop, Unlink, Teardown, Exit
<1>8. ASSUME NEW c \in Clients, HandlerFrame,
             \/ Read(c) \/ Process(c) \/ StopSweeper(c) \/ JoinTest(c) \/ Join(c)
             \/ Joined(c) \/ Stop(c)
      PROVE  AcceptedOnce'
  <2>1. UNCHANGED <<backlog, cpc>> /\ hpc[c] # "none"
    BY <1>8 DEF Read, Process, StopSweeper, JoinTest, Join, Joined, Stop
  <2>2. \A d \in Clients : d # c => hpc'[d] = hpc[d]
    BY <1>8 DEF Read, Process, StopSweeper, JoinTest, Join, Joined, Stop
  <2> QED
    BY <1>6, <2>1, <2>2
<1>9. ASSUME NEW c \in Clients, HandlerFrame,
             \/ StartTest(c) \/ StartSet(c) \/ StartAssign(c) \/ Write(c) \/ Close(c)
             \/ UseDestroyed(c)
      PROVE  AcceptedOnce'
  <2>1. UNCHANGED <<backlog, cpc>> /\ hpc[c] # "none"
    BY <1>9 DEF StartTest, StartSet, StartAssign, Write, Close, UseDestroyed
  <2>2. \A d \in Clients : d # c => hpc'[d] = hpc[d]
    BY <1>9 DEF StartTest, StartSet, StartAssign, Write, Close, UseDestroyed
  <2> QED
    BY <1>6, <2>1, <2>2
<1>10. ASSUME NEW c \in Clients, ClientFrame,
              Send(c) \/ Receive(c) \/ Probe(c) \/ Leave(c)
       PROVE  AcceptedOnce'
  <2>1. UNCHANGED <<backlog, hpc>> /\ \A d \in Clients : cpc'[d] = cpc[d] \/ cpc'[d] # "idle"
    BY <1>10 DEF Send, Receive, Probe, Leave
  <2> QED
    BY <1>6, <2>1
<1>11. CASE Sweeper \/ Tick \/ UNCHANGED vars
  <2>1. UNCHANGED <<backlog, hpc, cpc>>
    BY <1>11 DEF Sweeper, Tick, vars
  <2> QED
    BY <1>6, <2>1
<1> QED
  BY <1>1, <1>2, <1>4, <1>5, <1>7, <1>8, <1>9, <1>10, <1>11
  DEF Next, Main, Handler, Client

\* A handler answers once, and what reached the client is what it answered.
LEMMA AnswersOnceStep ==
    ASSUME TypeOK, AcceptedOnce, AnswersOnce, Responds, [Next]_vars
    PROVE  AnswersOnce'
<1>1. ASSUME Accept, MainFrame PROVE AnswersOnce'
  <2>1. backlog # << >> /\ UNCHANGED <<resp, answer>>
        /\ hpc' = IF Head(backlog) = Wake THEN hpc
                  ELSE [hpc EXCEPT ![Head(backlog)] = "read"]
    BY <1>1 DEF Accept, MainFrame, clientVars
  <2>2. \A c \in Clients : c = Head(backlog) => hpc[c] = "none"
    BY <2>1, TailBacklog DEF AcceptedOnce, Queued
  <2>3. \A c \in Clients : hpc'[c] = hpc[c] \/ hpc[c] = "none"
    BY <2>1, <2>2 DEF TypeOK
  <2> QED
    BY <2>1, <2>3 DEF AnswersOnce
<1>2. ASSUME CloseListener, MainFrame PROVE AnswersOnce'
  <2>1. \A c \in Clients : hpc'[c] = hpc[c] \/ hpc[c] = "none"
    BY <1>2 DEF CloseListener, AcceptedOnce
  <2> QED
    BY <1>2, <2>1 DEF AnswersOnce, CloseListener, MainFrame, clientVars
<1>3. ASSUME UNCHANGED <<resp, answer, hpc>> PROVE AnswersOnce'
  BY <1>3 DEF AnswersOnce
<1> USE DEF At, GoTo, Respond, MainFrame, HandlerFrame, ClientFrame, clientVars, sweepVars,
            serverVars
<1>4. ASSUME MainLoop \/ Unlink \/ Teardown \/ Exit, MainFrame PROVE AnswersOnce'
  BY <1>3, <1>4 DEF MainLoop, Unlink, Teardown, Exit
<1>5. ASSUME NEW c \in Clients, HandlerFrame, hpc[c] \notin {"write", "close", "closed"},
             answer' = answer, hpc' = hpc \/ \E pc : hpc' = [hpc EXCEPT ![c] = pc],
             \/ UNCHANGED resp
             \/ \E r : resp' = [resp EXCEPT ![c] = r] /\ hpc' = [hpc EXCEPT ![c] = "write"]
      PROVE  AnswersOnce'
  <2>1. resp[c] = None /\ answer[c] = None
    BY <1>5 DEF AnswersOnce, TypeOK
  <2>2. \A d \in Clients : d # c => resp'[d] = resp[d] /\ hpc'[d] = hpc[d]
    BY <1>5 DEF TypeOK
  <2>3. resp'[c] # None => hpc'[c] = "write"
    BY <1>5, <2>1 DEF TypeOK
  <2> QED
    BY <1>5, <2>1, <2>2, <2>3 DEF AnswersOnce
<1>6. ASSUME NEW c \in Clients, HandlerFrame,
             \/ Read(c) \/ Process(c) \/ StopSweeper(c) \/ JoinTest(c) \/ Join(c)
             \/ Joined(c) \/ Stop(c)
      PROVE  AnswersOnce'
  BY <1>5, <1>6 DEF Read, Process, StopSweeper, JoinTest, Join, Joined, Stop
<1>7. ASSUME NEW c \in Clients, HandlerFrame,
             \/ WakeMain(c) \/ StartTest(c) \/ StartSet(c) \/ StartAssign(c)
             \/ UseDestroyed(c)
      PROVE  AnswersOnce'
  BY <1>5, <1>7 DEF WakeMain, StartTest, StartSet, StartAssign, UseDestroyed
<1>8. ASSUME NEW c \in Clients, Write(c), HandlerFrame PROVE AnswersOnce'
  BY <1>8 DEF Write, AnswersOnce, TypeOK
<1>9. ASSUME NEW c \in Clients, Close(c), HandlerFrame PROVE AnswersOnce'
  BY <1>9 DEF Close, AnswersOnce, TypeOK
<1>10. ASSUME NEW c \in Clients, ClientFrame,
              Connect(c) \/ Send(c) \/ Receive(c) \/ Probe(c) \/ Leave(c)
       PROVE  AnswersOnce'
  BY <1>3, <1>10 DEF Connect, Send, Receive, Probe, Leave
<1>11. CASE Sweeper \/ Tick \/ UNCHANGED vars
  BY <1>3, <1>11 DEF Sweeper, Tick, vars
<1> QED
  BY <1>1, <1>2, <1>4, <1>6, <1>7, <1>8, <1>9, <1>10, <1>11
  DEF Next, Main, Handler, Client

\* Apart from the operations of the store, nothing but the sweep changes it, and what
\* a handler was asked and has answered to a put is not replaced.
LEMMA OtherSteps ==
    ASSUME IInv, AnswersOnce, [Next]_vars,
           ~ \E c \in Clients : Process(c) /\ HandlerFrame
    PROVE  /\ UNCHANGED cache \/ Store!Cleanup
           /\ UNCHANGED maxSize /\ now' \in Nat /\ now' >= now
           /\ \A c \in Clients :
                 /\ resp[c] # None => resp'[c] = resp[c] /\ command'[c] = command[c]
                 /\ resp[c] = None => resp'[c] \in {None, Off, Started, Error}
<1> DEFINE Shown ==
           /\ UNCHANGED cache \/ Store!Cleanup
           /\ UNCHANGED maxSize /\ now' \in Nat /\ now' >= now
           /\ \A c \in Clients :
                 /\ resp[c] # None => resp'[c] = resp[c] /\ command'[c] = command[c]
                 /\ resp[c] = None => resp'[c] \in {None, Off, Started, Error}
<1>0. now \in Nat /\ TypeOK
  BY DEF IInv, Typed, TypeOK, Store!TypeOK
<1>1. ASSUME UNCHANGED <<cache, maxSize, resp, command>>, now' = now \/ now' = now + 1
      PROVE  Shown
  BY <1>0, <1>1
<1> USE DEF At, GoTo, Respond, MainFrame, HandlerFrame, ClientFrame, clientVars, storeVars
<1>2. ASSUME Main \/ Tick \/ UNCHANGED vars PROVE Shown
  BY <1>1, <1>2 DEF Main, Tick, vars
<1>3. ASSUME Sweeper PROVE Shown
  BY <1>0, <1>3 DEF Sweeper, SweeperCheck, Sweep, Store!Cleanup
<1>4. ASSUME NEW c \in Clients, HandlerFrame, UNCHANGED <<cache, maxSize>>,
             hpc[c] \notin {"write", "close", "closed"},
             command' = command \/ \E m : command' = [command EXCEPT ![c] = m],
             \/ UNCHANGED resp
             \/ \E r \in {Off, Started, Error} : resp' = [resp EXCEPT ![c] = r]
      PROVE  Shown
  <2>1. resp[c] = None
    BY <1>4 DEF AnswersOnce
  <2>2. \A d \in Clients : d # c => resp'[d] = resp[d] /\ command'[d] = command[d]
    BY <1>0, <1>4 DEF TypeOK
  <2>3. resp'[c] \in {None, Off, Started, Error}
    BY <1>0, <1>4, <2>1 DEF TypeOK
  <2> QED
    BY <1>0, <1>4, <2>1, <2>2, <2>3
<1>5. ASSUME NEW c \in Clients, HandlerFrame,
             Read(c) \/ StopSweeper(c) \/ JoinTest(c) \/ Join(c) \/ Joined(c) \/ Stop(c)
      PROVE  Shown
  BY <1>4, <1>5 DEF Read, StopSweeper, JoinTest, Join, Joined, Stop
<1>6. ASSUME NEW c \in Clients, HandlerFrame,
             \/ WakeMain(c) \/ StartTest(c) \/ StartSet(c) \/ StartAssign(c)
             \/ UseDestroyed(c)
      PROVE  Shown
  BY <1>4, <1>6 DEF WakeMain, StartTest, StartSet, StartAssign, UseDestroyed
<1>7. ASSUME NEW c \in Clients, HandlerFrame, Write(c) \/ Close(c) PROVE Shown
  BY <1>1, <1>7 DEF Write, Close
<1>8. ASSUME NEW c \in Clients, Client(c) PROVE Shown
  BY <1>1, <1>8 DEF Client
<1> QED
  BY <1>2, <1>3, <1>5, <1>6, <1>7, <1>8 DEF Next, Handler

\* A handler purges because its line says so.
LEMMA PurgesItsLineStep == ASSUME IInv, PurgesItsLine, [Next]_vars PROVE PurgesItsLine'
<1> USE DEF IInv, Typed, Control
<1>0. \A c \in Clients : Asked(c, "PURGE") => Asked(c, "PURGE")'
  BY AskedStays
<1>1. ASSUME NEW c \in Clients, hpc'[c] = "process", command'[c].type = "PURGE",
             ~(hpc[c] = "process" /\ command'[c] = command[c])
      PROVE  Asked(c, "PURGE")'
  <2> USE DEF TypeOK, GoTo, At, MainFrame, HandlerFrame, ClientFrame
  <2>1. ASSUME NEW d \in Clients, Read(d), HandlerFrame PROVE Asked(c, "PURGE")'
    <3>1. c = d /\ line[c] # None /\ Parse(line[c]) # Throw /\ command'[c] = Parse(line[c])
      BY <1>1, <2>1 DEF Read
    <3>2. line[c] \in Lines /\ line[c].verb = "PURGE"
      BY <1>1, <3>1, ParseType DEF Store!TypeOK
    <3> QED
      BY <3>1, <3>2, <2>1 DEF Asked
  <2>2. Main => UNCHANGED command /\ \A d \in Clients : hpc'[d] = "process" => hpc[d] = "process"
    BY DEF Main, MainLoop, Accept, CloseListener, Unlink, Teardown, Exit
  <2>3. ASSUME NEW d \in Clients, HandlerFrame,
               \/ Process(d) \/ StopSweeper(d) \/ JoinTest(d) \/ Join(d) \/ Joined(d)
               \/ Stop(d) \/ WakeMain(d)
        PROVE  UNCHANGED command /\ (hpc'[c] = "process" => hpc[c] = "process")
    BY <2>3 DEF Process, StopSweeper, JoinTest, Join, Joined, Stop, WakeMain
  <2>4. ASSUME NEW d \in Clients, HandlerFrame,
               \/ StartTest(d) \/ StartSet(d) \/ StartAssign(d) \/ Write(d) \/ Close(d)
               \/ UseDestroyed(d)
        PROVE  UNCHANGED command /\ (hpc'[c] = "process" => hpc[c] = "process")
    BY <2>4 DEF StartTest, StartSet, StartAssign, Write, Close, UseDestroyed
  <2>5. Sweeper \/ Tick \/ UNCHANGED vars \/ (\E d \in Clients : Client(d))
           => UNCHANGED <<command, hpc>>
    BY DEF Sweeper, Tick, vars, Client
  <2> QED
    BY <1>1, <2>1, <2>2, <2>3, <2>4, <2>5 DEF Next, Handler
<1> QED
  BY <1>0, <1>1 DEF PurgesItsLine

\* A new key finds room, so a put erases nothing.
LEMMA NoEviction ==
    ASSUME RoomForAll, Fits, Store!TypeOK, NEW kind \in Store!Kinds, NEW key \in Keys
    PROVE  Store!Evicted(kind, key) = {{}}
<1> DEFINE stored == DOMAIN cache[kind]
<1>1. CASE key \in stored
  BY <1>1 DEF Store!Evicted
<1>2. CASE key \notin stored
  <2>1. stored \subseteq Keys \ {key}
    <3>1. cache[kind] \in Store!MapsFrom(Keys, Store!Entries)
      BY DEF Store!TypeOK
    <3> QED
      BY <1>2, <3>1 DEF Store!MapsFrom
  <2>2. /\ IsFiniteSet(Keys \ {key}) /\ Cardinality(Keys) \in Nat
        /\ Cardinality(Keys \ {key}) = Cardinality(Keys) - 1
    BY FS_RemoveElement, FS_CardinalityType DEF RoomForAll
  <2>3. Cardinality(stored) \in Nat /\ Cardinality(stored) <= Cardinality(Keys) - 1
    BY <2>1, <2>2, FS_Subset, FS_CardinalityType
  <2>4. Store!Size(kind) = Cardinality(stored)
    BY DEF Store!Size, Store!Cardinality, Cardinality
  <2>5. maxSize[kind] \in Nat /\ Cardinality(Keys) <= maxSize[kind]
    BY DEF Store!TypeOK, Fits
  <2>6. ~(Store!Size(kind) >= maxSize[kind])
    BY <2>2, <2>3, <2>4, <2>5
  <2> QED
    BY <2>6 DEF Store!Evicted
<1> QED
  BY <1>1, <1>2

\* What an operation does, when all have room and nobody purges: a put stores its
\* entry and leaves the others; whatever else is done erases expired ones only.
LEMMA ProcessEffect ==
    ASSUME IInv, AnswersOnce, PurgesItsLine, RoomForAll, Fits,
           NEW c \in Clients, Process(c), HandlerFrame
    PROVE  /\ resp[c] = None /\ resp' = [resp EXCEPT ![c] = reply']
           /\ UNCHANGED <<command, now, line>>
           /\ \/ \E kind \in Store!Kinds :
                   /\ command[c].key \in Keys /\ command[c].entry \in Store!Entries
                   /\ reply' = [op |-> "put", kind |-> kind, key |-> command[c].key]
                   /\ cache' = [cache EXCEPT ![kind] =
                         Store!Assign(Store!Erase(cache[kind], {}), command[c].key,
                                      command[c].entry)]
              \/ /\ reply'.op # "put"
                 /\ \/ Sent("PURGE")
                    \/ UNCHANGED cache
                    \/ \E kind \in Store!Kinds, key \in Keys : Store!Get(kind, key)
<1>0. TypeOK /\ Store!TypeOK
  BY DEF IInv, Typed, TypeOK
<1>1. /\ hpc[c] = "process" /\ command[c] \in Commands
      /\ command[c].type = "PURGE" => Asked(c, "PURGE")
  BY DEF IInv, Control, RunsItsLine, Process, At, PurgesItsLine
<1>2. resp[c] = None /\ resp' = [resp EXCEPT ![c] = reply']
      /\ UNCHANGED <<command, now, line>> /\ ProcessCommand(command[c])
  BY <1>1 DEF AnswersOnce, Process, Respond, HandlerFrame
<1> DEFINE
      Stores1(kind) ==
           /\ command[c].key \in Keys /\ command[c].entry \in Store!Entries
           /\ reply' = [op |-> "put", kind |-> kind, key |-> command[c].key]
           /\ cache' = [cache EXCEPT ![kind] =
                 Store!Assign(Store!Erase(cache[kind], {}), command[c].key,
                              command[c].entry)]
      Spares == /\ reply'.op # "put"
                /\ \/ Sent("PURGE")
                   \/ UNCHANGED cache
                   \/ \E kind \in Store!Kinds, key \in Keys : Store!Get(kind, key)
<1>3. ASSUME NEW kind \in Store!Kinds, command[c].key \in Keys,
             command[c].entry \in Store!Entries, HandlePut(command[c], kind)
      PROVE  Stores1(kind)
  <2>1. Store!Evicted(kind, command[c].key) = {{}}
    BY <1>0, <1>3, NoEviction
  <2> QED
    BY <1>3, <2>1 DEF HandlePut, Store!Put, Store!PutAnswer
<1>4. ASSUME NEW kind \in Store!Kinds, command[c].key \in Keys, HandleGet(command[c], kind)
      PROVE  Spares
  BY <1>4 DEF HandleGet, Store!GetAnswer
<1>5. ASSUME Asked(c, "PURGE"), HandlePurge(command[c]) PROVE Spares
  BY <1>5 DEF HandlePurge, Store!PurgeAnswer, Asked, Sent
<1>6. ASSUME HandleSetMaxSize(command[c]) \/ HandleList(command[c]) \/ HandleStatus
      PROVE  Spares
  BY <1>6 DEF HandleSetMaxSize, HandleList, HandleStatus, Store!SetMaxSize, Store!SetAnswer,
              Store!ListAnswer, Store!StatusAnswer
<1> HIDE DEF Stores1, Spares
<1>7. Spares \/ \E kind \in Store!Kinds : Stores1(kind)
  <2>1. {"Positive", "Negative"} = Store!Kinds
    BY DEF Store!Kinds
  <2>2. CASE command[c].type = "PUT_POSITIVE"
    <3>1. command[c].key \in Keys /\ command[c].entry \in Store!Entries
      BY <1>1, <2>2 DEF Commands
    <3> QED
      BY <1>2, <1>3, <2>1, <2>2, <3>1 DEF ProcessCommand
  <2>3. CASE command[c].type = "PUT_NEGATIVE"
    <3>1. command[c].key \in Keys /\ command[c].entry \in Store!Entries
      BY <1>1, <2>3 DEF Commands
    <3> QED
      BY <1>2, <1>3, <2>1, <2>3, <3>1 DEF ProcessCommand
  <2>4. CASE command[c].type \in {"GET_POSITIVE", "GET_NEGATIVE"}
    <3>1. command[c].key \in Keys
      BY <1>1, <2>4 DEF Commands
    <3> QED
      BY <1>2, <1>4, <2>1, <2>4, <3>1 DEF ProcessCommand
  <2> QED
    BY <1>1, <1>2, <1>5, <1>6, <2>2, <2>3, <2>4 DEF ProcessCommand
<1> QED
  BY <1>2, <1>7 DEF Stores1, Spares

\* No limit is set that there are more keys than.
LEMMA FitsStep ==
    ASSUME IInv, AnswersOnce, RoomForAll, Fits, [Next]_vars
    PROVE  Fits'
<1>1. maxSize \in [Store!Kinds -> Nat]
  BY DEF IInv, Typed, TypeOK, Store!TypeOK
<1>2. ASSUME NEW c \in Clients, Process(c), HandlerFrame PROVE Fits'
  <2>1. command[c] \in Commands /\ ProcessCommand(command[c])
    BY <1>2 DEF IInv, Control, RunsItsLine, Process, At
  <2>2. CASE UNCHANGED maxSize
    BY <2>2 DEF Fits
  <2>3. CASE command[c].type = "SET_MAX_SIZE" /\ HandleSetMaxSize(command[c])
    <3>1. command[c].size \in Capacities
      BY <2>1, <2>3 DEF Commands
    <3>2. Cardinality(Keys) <= command[c].size
      BY <3>1 DEF RoomForAll
    <3> QED
      BY <1>1, <2>3, <3>2 DEF Fits, HandleSetMaxSize, Store!SetMaxSize
  <2> QED
    BY <2>1, <2>2, <2>3
    DEF ProcessCommand, HandlePut, HandleGet, HandlePurge, HandleList, HandleStatus,
        Store!Put, Store!Get, Store!Purge
<1>3. CASE ~ \E c \in Clients : Process(c) /\ HandlerFrame
  BY <1>3, OtherSteps DEF Fits
<1> QED
  BY <1>2, <1>3

\* What is answered to a put is told by its kind and its key.
LEMMA PutAnswerIs ==
    ASSUME NEW r \in Answers, r.op = "put"
    PROVE  r = [op |-> "put", kind |-> r.kind, key |-> r.key] /\ r.kind \in Store!Kinds
BY DEF Answers

\* The answer to a put tells the kind and the key of the command.
LEMMA PutsItsCommandStep ==
    ASSUME IInv, AnswersOnce, PurgesItsLine, RoomForAll, Fits, PutsItsCommand, [Next]_vars
    PROVE  PutsItsCommand'
<1>1. ASSUME NEW e \in Clients, Process(e), HandlerFrame PROVE PutsItsCommand'
  <2>1. /\ resp' = [resp EXCEPT ![e] = reply'] /\ UNCHANGED command
        /\ \/ reply'.op # "put"
           \/ /\ command[e].entry \in Store!Entries
              /\ reply'.kind \in Store!Kinds /\ reply'.key = command[e].key
    BY <1>1, ProcessEffect
  <2>2. resp \in [Clients -> Answers \cup {None}]
    BY DEF IInv, Typed, TypeOK
  <2> QED
    BY <2>1, <2>2 DEF PutsItsCommand, PutDone
<1>2. CASE ~ \E e \in Clients : Process(e) /\ HandlerFrame
  <2>1. \A c \in Clients :
           PutDone(c)' => PutDone(c) /\ resp'[c] = resp[c] /\ command'[c] = command[c]
    BY <1>2, OtherSteps DEF PutDone, Off, Started, Error
  <2> QED
    BY <2>1 DEF PutsItsCommand
<1> QED
  BY <1>1, <1>2

\* Lookups and the sweep erase expired entries only.
LEMMA OnlyExpiredGo ==
    ASSUME cache \in [Store!Kinds -> Store!MapsFrom(Keys, Store!Entries)],
           Store!Cleanup \/ \E k \in Store!Kinds, x \in Keys : Store!Get(k, x),
           NEW kind \in Store!Kinds, NEW key \in DOMAIN cache[kind],
           ~Store!Expired(cache[kind][key])
    PROVE  key \in DOMAIN cache'[kind] /\ cache'[kind][key] = cache[kind][key]
<1>1. ASSUME NEW c, NEW gone, key \in DOMAIN c \ gone
      PROVE  /\ key \in DOMAIN Store!Erase(c, gone)
             /\ Store!Erase(c, gone)[key] = c[key]
  BY <1>1 DEF Store!Erase
<1>2. CASE Store!Cleanup
  <2> DEFINE gone == {x \in DOMAIN cache[kind] : Store!Expired(cache[kind][x])}
  <2>1. cache'[kind] = Store!Erase(cache[kind], gone)
    BY <1>2 DEF Store!Cleanup
  <2>2. key \in DOMAIN cache[kind] \ gone
    OBVIOUS
  <2> QED
    BY <1>1, <2>1, <2>2
<1>3. ASSUME NEW k \in Store!Kinds, NEW x \in Keys, Store!Get(k, x)
      PROVE  key \in DOMAIN cache'[kind] /\ cache'[kind][key] = cache[kind][key]
  <2>1. CASE cache'[kind] = cache[kind]
    BY <2>1
  <2>2. CASE k = kind /\ ~Store!Hit(kind, x) /\ cache'[kind] = Store!Erase(cache[kind], {x})
    <3>1. key \in DOMAIN cache[kind] \ {x}
      BY <2>2 DEF Store!Hit
    <3> QED
      BY <1>1, <2>2, <3>1
  <2> QED
    BY <1>3, <2>1, <2>2 DEF Store!Get
<1> QED
  BY <1>2, <1>3

\* What was put stays: only expired entries go, and only a put replaces.
LEMMA PutsAreKeptStep ==
    ASSUME IInv, CInv, RoomForAll, [Next]_vars
    PROVE  PutsAreKept'
<1> USE DEF CInv
<1>0. /\ TypeOK /\ cache \in [Store!Kinds -> Store!MapsFrom(Keys, Store!Entries)]
      /\ now \in Nat /\ resp \in [Clients -> Answers \cup {None}] /\ None \notin Answers
  BY FixedAnswers DEF IInv, Typed, TypeOK, Store!TypeOK
<1>1. Sent("PURGE") => Sent("PURGE")'
  BY <1>0, AskedStays DEF IInv, Control
<1>2. SUFFICES ASSUME ~Sent("PURGE"), NEW c \in Clients, PutDone(c)',
                      now' <= command'[c].entry.expiration_time
               PROVE  Kept(c)'
  BY <1>1 DEF PutsAreKept
<1> DEFINE kind == resp[c].kind
           key == resp[c].key
           entry == command[c].entry
           Stored == key \in DOMAIN cache[kind] /\ cache[kind][key] = entry
           Again == \E d \in Clients \ {c} : resp[d] # None /\ resp[d] = resp[c]
<1>3. ASSUME PutDone(c), command'[c] = command[c], now' >= now, now' \in Nat
      PROVE  /\ Stored \/ Again
             /\ kind \in Store!Kinds /\ now <= entry.expiration_time
             /\ entry.expiration_time \in Int
  <2>1. kind \in Store!Kinds /\ entry \in Store!Entries
    BY <1>3 DEF PutsItsCommand
  <2>2. entry.expiration_time \in Int
    BY <2>1, ControllerAssumption DEF Store!Entries
  <2>3. now <= entry.expiration_time
    BY <1>0, <1>2, <1>3, <2>2
  <2> QED
    BY <1>2, <1>3, <2>1, <2>2, <2>3 DEF PutsAreKept, Kept
<1>4. CASE ~ \E e \in Clients : Process(e) /\ HandlerFrame
  <2>1. /\ UNCHANGED cache \/ Store!Cleanup
        /\ now' \in Nat /\ now' >= now /\ PutDone(c)
        /\ \A d \in Clients : resp[d] # None => resp'[d] = resp[d]
        /\ command'[c] = command[c] /\ resp'[c] = resp[c]
    BY <1>2, <1>4, OtherSteps DEF PutDone, Off, Started, Error
  <2>2. CASE Again
    BY <2>1, <2>2 DEF Kept
  <2>3. CASE Stored
    <3>1. kind \in Store!Kinds /\ now <= entry.expiration_time
          /\ entry.expiration_time \in Int
      BY <1>3, <2>1
    <3>2. ~Store!Expired(cache[kind][key])
      BY <1>0, <2>3, <3>1 DEF Store!Expired
    <3>3. key \in DOMAIN cache'[kind] /\ cache'[kind][key] = entry
      BY <1>0, <2>1, <2>3, <3>1, <3>2, OnlyExpiredGo
    <3> QED
      BY <2>1, <3>3 DEF Kept
  <2> QED
    BY <1>3, <2>1, <2>2, <2>3
<1>5. ASSUME NEW e \in Clients, Process(e), HandlerFrame PROVE Kept(c)'
  <2>1. /\ resp[e] = None /\ resp' = [resp EXCEPT ![e] = reply'] /\ UNCHANGED <<command, now>>
        /\ \/ \E k \in Store!Kinds :
                 /\ reply' = [op |-> "put", kind |-> k, key |-> command[e].key]
                 /\ cache' = [cache EXCEPT ![k] =
                         Store!Assign(Store!Erase(cache[k], {}), command[e].key,
                                      command[e].entry)]
           \/ /\ reply'.op # "put"
              /\ \/ UNCHANGED cache
                 \/ \E k \in Store!Kinds, x \in Keys : Store!Get(k, x)
    BY <1>2, <1>5, ProcessEffect
  <2>2. resp'[e] = reply' /\ \A d \in Clients : d # e => resp'[d] = resp[d]
    BY <1>0, <2>1
  <2>3. CASE c = e
    <3>1. PICK k \in Store!Kinds :
                 /\ reply' = [op |-> "put", kind |-> k, key |-> command[e].key]
                 /\ cache' = [cache EXCEPT ![k] =
                         Store!Assign(Store!Erase(cache[k], {}), command[e].key,
                                      command[e].entry)]
      BY <1>2, <2>1, <2>2, <2>3 DEF PutDone
    <3>2. /\ command[e].key \in DOMAIN cache'[k]
          /\ cache'[k][command[e].key] = command[e].entry
      BY <1>0, <3>1 DEF Store!Assign
    <3> QED
      BY <2>1, <2>2, <2>3, <3>1, <3>2 DEF Kept
  <2>4. CASE c # e
    <3>1. PutDone(c) /\ resp'[c] = resp[c] /\ command'[c] = command[c]
          /\ now' = now
      BY <1>2, <2>1, <2>2, <2>4 DEF PutDone
    <3>2. /\ Stored \/ Again
          /\ kind \in Store!Kinds /\ now <= entry.expiration_time
          /\ entry.expiration_time \in Int
      BY <1>0, <1>3, <3>1
    <3>3. CASE Again
      BY <2>1, <2>2, <3>1, <3>3 DEF Kept
    <3>4. ASSUME Stored, key \in DOMAIN cache'[kind] /\ cache'[kind][key] = entry
          PROVE  Kept(c)'
      BY <3>1, <3>4 DEF Kept
    <3>5. CASE Stored /\ reply'.op # "put"
      <4>1. ~Store!Expired(cache[kind][key])
        BY <1>0, <3>2, <3>5 DEF Store!Expired
      <4>2. key \in DOMAIN cache'[kind] /\ cache'[kind][key] = entry
        BY <1>0, <2>1, <3>2, <3>5, <4>1, OnlyExpiredGo
      <4> QED
        BY <3>4, <3>5, <4>2
    <3>6. CASE Stored /\ reply'.op = "put"
      <4>1. PICK k \in Store!Kinds :
                 /\ reply' = [op |-> "put", kind |-> k, key |-> command[e].key]
                 /\ cache' = [cache EXCEPT ![k] =
                         Store!Assign(Store!Erase(cache[k], {}), command[e].key,
                                      command[e].entry)]
        BY <2>1, <3>6
      <4>2. CASE k = kind /\ command[e].key = key
        <5>1. resp[c] = [op |-> "put", kind |-> kind, key |-> key]
          BY <1>0, <3>1, PutAnswerIs DEF PutDone
        <5>2. resp'[e] = resp'[c] /\ resp'[e] # None
          BY <2>2, <3>1, <4>1, <4>2, <5>1 DEF PutDone
        <5> QED
          BY <2>4, <5>2 DEF Kept
      <4>3. CASE ~(k = kind /\ command[e].key = key)
        <5>1. key \in DOMAIN cache'[kind] /\ cache'[kind][key] = entry
          BY <1>0, <3>2, <3>6, <4>1, <4>3 DEF Store!Assign, Store!Erase
        <5> QED
          BY <3>4, <3>6, <5>1
      <4> QED
        BY <4>2, <4>3
    <3> QED
      BY <3>2, <3>3, <3>5, <3>6
  <2> QED
    BY <2>3, <2>4
<1> QED
  BY <1>4, <1>5

LEMMA ConfirmedStep == ASSUME IInv, CInv, RoomForAll, [Next]_vars PROVE CInv'
<1>1. TypeOK /\ Responds
  BY DEF IInv, Typed, Control
<1> QED
  BY <1>1, AcceptedOnceStep, AnswersOnceStep, PurgesItsLineStep, FitsStep, PutsItsCommandStep,
     PutsAreKeptStep
  DEF CInv

LEMMA InitConfirmed == ASSUME RoomForAll, Init PROVE CInv
<1>1. Fits
  BY DEF Init, Store!Init, Fits, RoomForAll
<1>2. AcceptedOnce /\ AnswersOnce /\ PurgesItsLine
  BY DEF Init, AcceptedOnce, AnswersOnce, PurgesItsLine, Queued
<1>3. PutsItsCommand /\ PutsAreKept
  BY DEF Init, PutsItsCommand, PutsAreKept, PutDone
<1> QED
  BY <1>1, <1>2, <1>3 DEF CInv

(***************************************************************************)
(* When every key has room, an entry whose storing a client was told of is *)
(* in the store until it expires, unless there was a PURGE or another      *)
(* handler stored under its key (cache_server.cpp:111-137,                 *)
(* cache_store.cpp:12-31): with any number of handlers, no step of one     *)
(* loses what another has confirmed.                                       *)
(***************************************************************************)
THEOREM ConfirmedIsStoredTheorem ==
    ASSUME RoomForAll
    PROVE  Spec => []ConfirmedIsStored
<1>1. Init => CInv
  BY InitConfirmed
<1>2. IInv /\ CInv /\ [Next]_vars => CInv'
  BY ConfirmedStep
<1>3. IInv /\ CInv => ConfirmedIsStored
  <2> SUFFICES ASSUME IInv, CInv, ~Sent("PURGE"), NEW c \in Clients,
                      answer[c] # None, answer[c].op = "put",
                      now <= command[c].entry.expiration_time
               PROVE  \/ /\ command[c].key \in DOMAIN cache[answer[c].kind]
                         /\ cache[answer[c].kind][command[c].key] = command[c].entry
                      \/ \E d \in Clients \ {c} : resp[d] # None /\ resp[d] = resp[c]
    BY DEF ConfirmedIsStored
  <2>1. answer[c] = resp[c] /\ PutDone(c)
    BY DEF CInv, AnswersOnce, PutDone
  <2>2. Kept(c) /\ command[c].key = resp[c].key
    BY <2>1 DEF CInv, PutsAreKept, PutsItsCommand
  <2> QED
    BY <2>1, <2>2 DEF Kept
<1> QED
  BY <1>1, <1>2, <1>3, Invariance, PTL DEF Spec
=============================================================================
