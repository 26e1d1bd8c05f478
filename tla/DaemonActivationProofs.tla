----------------------- MODULE DaemonActivationProofs -----------------------
(***************************************************************************)
(* When activations do not overlap one another nor a daemon going down,    *)
(* checkExistingInstance is enough, for any number of daemons and wherever *)
(* they crash: one daemon at most serves, and the socket file is its own.  *)
(***************************************************************************)
EXTENDS DaemonActivation, TLAPS

Serial == ~ConcurrentStart /\ ~StartDuringStop

\* Processes to which the file belongs: from bind to the final unlink.
Owner(d) == pc[d] \in {"listen", "serving"} \cup Stopping

(***************************************************************************)
(* The inductive invariant: what a starting process has found out stays    *)
(* true until it acts on it.                                               *)
(***************************************************************************)
OwnFile     == \A d \in Daemons : Owner(d) => file = d
OneStarts   == \A d, e \in Daemons :
                   pc[d] \in Starting /\ pc[e] \in Starting => d = e
NoOverlap   == \A d, e \in Daemons : ~(pc[d] \in Starting /\ pc[e] \in Stopping)
StaleIsDead == \A d \in Daemons : pc[d] = "unlinkStale" => file = None \/ ~Listens(file)
FreeAtBind  == \A d \in Daemons : pc[d] = "bind" => file = None
IInv == TypeOK /\ OwnFile /\ OneStarts /\ NoOverlap /\ StaleIsDead /\ FreeAtBind

LEMMA InitInv == Init => IInv
BY DEF Init, IInv, TypeOK, OwnFile, OneStarts, NoOverlap, StaleIsDead, FreeAtBind,
       Owner, Starting, Stopping

LEMMA StepInv == ASSUME Serial, IInv, [Next]_vars PROVE IInv'
<1> USE ActivationAssumption
    DEF Serial, IInv, TypeOK, OwnFile, OneStarts, NoOverlap, StaleIsDead, FreeAtBind,
        Owner, Listens, Starting, Stopping, Ended, To
<1>1. ASSUME NEW d \in Daemons, Start(d) PROVE IInv'
  BY <1>1 DEF Start
<1>2. ASSUME NEW d \in Daemons, Exists(d) PROVE IInv'
  BY <1>2 DEF Exists
<1>3. ASSUME NEW d \in Daemons, Probe(d) PROVE IInv'
  BY <1>3 DEF Probe
<1>4. ASSUME NEW d \in Daemons, UnlinkStale(d) PROVE IInv'
  BY <1>4 DEF UnlinkStale
<1>5. ASSUME NEW d \in Daemons, Bind(d) PROVE IInv'
  BY <1>5 DEF Bind
<1>6. ASSUME NEW d \in Daemons, Listen(d) PROVE IInv'
  BY <1>6 DEF Listen
<1>7. ASSUME NEW d \in Daemons, Deactivate(d) PROVE IInv'
  BY <1>7 DEF Deactivate
<1>8. ASSUME NEW d \in Daemons, WakeSelf(d) PROVE IInv'
  BY <1>8 DEF WakeSelf
<1>9. ASSUME NEW d \in Daemons, CloseListener(d) PROVE IInv'
  BY <1>9 DEF CloseListener
<1>10. ASSUME NEW d \in Daemons, UnlinkOwn(d) PROVE IInv'
  BY <1>10 DEF UnlinkOwn
<1>11. ASSUME NEW d \in Daemons, Crash(d) PROVE IInv'
  BY <1>11 DEF Crash
<1>12. CASE UNCHANGED vars
  BY <1>12 DEF vars
<1> QED
  BY <1>1, <1>2, <1>3, <1>4, <1>5, <1>6, <1>7, <1>8, <1>9, <1>10, <1>11, <1>12
  DEF Next, Run

LEMMA Invariance == ASSUME Serial PROVE FairSpec => []IInv
BY InitInv, StepInv, PTL DEF FairSpec

(***************************************************************************)
(* Two daemons never serve at once (cache_server.cpp:41-65).               *)
(***************************************************************************)
THEOREM SerialOnlyOne == ASSUME Serial PROVE FairSpec => []OnlyOneDaemon
<1>1. IInv => OnlyOneDaemon
  BY DEF IInv, OwnFile, Owner, OnlyOneDaemon
<1> QED
  BY <1>1, Invariance, PTL

(***************************************************************************)
(* A daemon that serves owns the socket file (cache_server.cpp:76-98).     *)
(***************************************************************************)
THEOREM SerialReachable == ASSUME Serial PROVE FairSpec => []ActiveIsReachable
<1>1. IInv => ActiveIsReachable
  BY DEF IInv, OwnFile, Owner, ActiveIsReachable
<1> QED
  BY <1>1, Invariance, PTL
=============================================================================
