-------------------------- MODULE DaemonActivation --------------------------
(***************************************************************************)
(* The life of /tmp/resolver.sock among several "resolver --activate"      *)
(* processes (src/server/cache_server.cpp: checkExistingInstance,          *)
(* setupSocket, stop, cleanup).  The file is all they share: a daemon is   *)
(* found, refused, stopped and replaced through it, and through it only.   *)
(* What a daemon does between two of these steps is CacheServer.           *)
(***************************************************************************)
CONSTANTS
    Daemons,          \* processes run with --activate, once each
    ConcurrentStart,  \* one may start while another is starting
    StartDuringStop,  \* ... while another is going down, or the reverse
    MayCrash,         \* a process may be killed, its file left behind
    None

ASSUME ActivationAssumption ==
    /\ None \notin Daemons
    /\ {ConcurrentStart, StartDuringStop, MayCrash} \subseteq BOOLEAN

VARIABLES
    pc,    \* pc[d]: where the process is
    file   \* the process the socket file belongs to, dead or alive, or None

vars == <<pc, file>>

Starting == {"exists", "probe", "unlinkStale", "bind", "listen"}
Stopping == {"wake", "close", "unlinkOwn"}
Ended    == {"refused", "failed", "exited", "dead"}

\* Connections to d's socket are accepted, or at least queued.
Listens(d) == pc[d] \in {"serving", "wake", "blocked", "close"}

Init ==
    /\ pc = [d \in Daemons |-> "idle"]
    /\ file = None
-----------------------------------------------------------------------------
To(d, from, to) == pc[d] = from /\ pc' = [pc EXCEPT ![d] = to]

Start(d) ==
    /\ ConcurrentStart \/ \A e \in Daemons : pc[e] \notin Starting
    /\ StartDuringStop \/ \A e \in Daemons : pc[e] \notin Stopping
    /\ To(d, "idle", "exists")
    /\ UNCHANGED file

(***************************************************************************)
(* checkExistingInstance: a file nobody answers behind is taken for the    *)
(* leftover of a crash.  Test, probe and removal are three system calls.   *)
(***************************************************************************)
Exists(d) ==
    /\ To(d, "exists", IF file = None THEN "bind" ELSE "probe")
    /\ UNCHANGED file

ProbeNever(d) ==    \* mutant of Probe: any file is taken for a leftover
    To(d, "probe", "unlinkStale") /\ UNCHANGED file

Probe(d) ==
    /\ To(d, "probe", IF file # None /\ Listens(file) THEN "refused" ELSE "unlinkStale")
    /\ UNCHANGED file

KeepStale(d) ==     \* mutant of UnlinkStale: the leftover is not removed
    To(d, "unlinkStale", "bind") /\ UNCHANGED file

UnlinkStale(d) ==
    /\ To(d, "unlinkStale", "bind")
    /\ file' = None

\* setupSocket, in the daemonized child: bind fails on an existing file, and
\* between bind and listen a connection to the file is refused.
Bind(d) ==
    /\ To(d, "bind", IF file = None THEN "listen" ELSE "failed")
    /\ file' = IF file = None THEN d ELSE file

Listen(d) == To(d, "listen", "serving") /\ UNCHANGED file

\* A SHUTDOWN reaches the daemon behind the file.
Deactivate(d) ==
    /\ StartDuringStop \/ \A e \in Daemons : pc[e] \notin Starting
    /\ file = d
    /\ To(d, "serving", "wake")
    /\ UNCHANGED file

WakeNever(d) ==     \* mutant of WakeSelf: back to accept()
    To(d, "wake", "accept") /\ UNCHANGED file

\* stop: the connection that wakes accept() goes to whoever owns the file now.
WakeSelf(d) ==
    /\ To(d, "wake", IF file = d THEN "close" ELSE "blocked")
    /\ UNCHANGED file

\* cleanup: the socket is closed first, then the file removed by its name.
CloseListener(d) == To(d, "close", "unlinkOwn") /\ UNCHANGED file

UnlinkOwn(d) ==
    /\ To(d, "unlinkOwn", "exited")
    /\ file' = None

Crash(d) ==
    /\ MayCrash
    /\ pc[d] \notin Ended \cup {"idle"}
    /\ pc' = [pc EXCEPT ![d] = "dead"]
    /\ UNCHANGED file

Run(d) ==
    \/ Exists(d) \/ Probe(d) \/ UnlinkStale(d) \/ Bind(d) \/ Listen(d)
    \/ WakeSelf(d) \/ CloseListener(d) \/ UnlinkOwn(d)

Next == \E d \in Daemons : Start(d) \/ Run(d) \/ Deactivate(d) \/ Crash(d)

\* A process that runs keeps running; nobody has to start or stop one.
FairSpec == Init /\ [][Next]_vars /\ \A d \in Daemons : WF_vars(Run(d))
-----------------------------------------------------------------------------
\* Type invariant: program counters, and the owner of the file.
TypeOK ==
    /\ pc \in [Daemons -> Starting \cup Stopping \cup Ended
                          \cup {"idle", "serving", "blocked"}]
    /\ file \in Daemons \cup {None}

(***************************************************************************)
(* Two daemons never serve at once: a second --activate is told "o Cache   *)
(* Daemon ja esta ativo" (cache_server.cpp:58).                            *)
(***************************************************************************)
OnlyOneDaemon ==
    \A d, e \in Daemons : pc[d] = "serving" /\ pc[e] = "serving" => d = e

(***************************************************************************)
(* A daemon that serves can be reached: the socket file is its own, so     *)
(* clients find it and --deactivate stops it.                              *)
(***************************************************************************)
ActiveIsReachable == \A d \in Daemons : pc[d] = "serving" => file = d

\* A daemon told to stop goes away, and never stays blocked in accept().
StopEnds == \A d \in Daemons : pc[d] \in Stopping ~> pc[d] \in Ended

(***************************************************************************)
(* --activate brings a daemon up, also on the file a crash left behind,    *)
(* unless one is already active or the process itself is killed.           *)
(***************************************************************************)
ActivationSucceeds ==
    \A d \in Daemons :
        pc[d] = "exists" ~> pc[d] \in {"serving", "refused", "dead"} \cup Stopping
=============================================================================
