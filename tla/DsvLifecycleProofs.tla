------------------------- MODULE DsvLifecycleProofs -------------------------
(***************************************************************************)
(* What holds of the life of any number of server processes on any number  *)
(* of hosts.  Ports are exclusive because a bind fails on a port another   *)
(* process of the host has.  The results that the init adds up are never   *)
(* positive, so their sum is 0 only if the search heard nobody and all     *)
(* ports are bound; so two that run on a host are one.                     *)
(***************************************************************************)
EXTENDS DsvLifecycle, TLAPS

USE HostAssumption DEF Labels, Ports

\* The initial state satisfies the invariant.
LEMMA InitInv == Init => LifecycleInv
BY DEF Init, LifecycleInv, LifecycleTypeOK, PortsExclusive, PlaceOK, ResultOK

\* What main does with the sum of two results, neither of them positive: the
\* server goes on only if both are 0.
LEMMA SumTells ==
  ASSUME LifecycleInv, NEW s \in Servers, NEW r \in {0, -1}, AfterInit(s, r),
         pc[s] \in {"bind", "hung"}
  PROVE  /\ rc' \in [Servers -> Int]
         /\ pc' \in [Servers -> Labels]
         /\ \A t \in Servers \ {s} : rc'[t] = rc[t] /\ pc'[t] = pc[t]
         /\ rc'[s] <= 0
         /\ s \in found => rc'[s] < 0
         /\ pc'[s] \in {"run", "destroy"}
         /\ pc'[s] = "run" => rc'[s] = 0 /\ rc[s] = 0 /\ r = 0
<1>1. rc' \in [Servers -> Int] /\ rc'[s] = rc[s] + r
  BY DEF AfterInit, LifecycleInv, LifecycleTypeOK
<1>2. rc[s] <= 0 /\ (s \in found => rc[s] < 0)
  BY DEF LifecycleInv, ResultOK
<1>3. rc[s] \in Int
  BY DEF LifecycleInv, LifecycleTypeOK
<1>4. /\ pc' \in [Servers -> Labels]
      /\ pc'[s] = (IF rc'[s] = 0 THEN "run" ELSE "destroy")
      /\ \A t \in Servers \ {s} : rc'[t] = rc[t] /\ pc'[t] = pc[t]
  BY DEF AfterInit, Goto, LifecycleInv, LifecycleTypeOK
<1>5. rc[s] + r <= 0 /\ (s \in found => rc[s] + r < 0)
  BY <1>2, <1>3
<1>6. rc[s] + r = 0 => rc[s] = 0 /\ r = 0
  BY <1>2, <1>3
<1> QED BY <1>1, <1>4, <1>5, <1>6

\* A bind keeps the ports exclusive: it takes one that is free on the host.
LEMMA BindInv ==
  ASSUME LifecycleInv, NEW s \in Servers, Bind(s)
  PROVE  LifecycleInv'
<1> DEFINE p == NextPort(s)
<1>1. /\ bound' = [bound EXCEPT ![s] = bound[s] \cup {p}]
      /\ p \in Ports
      /\ bound[s] \subseteq Ports
  BY DEF Bind, NextPort, LifecycleInv, LifecycleTypeOK
<1>2. bound' \in [Servers -> SUBSET Ports]
  BY <1>1 DEF LifecycleInv, LifecycleTypeOK
<1>3. \A t \in Servers \ {s} : bound'[t] = bound[t]
  BY <1>1 DEF LifecycleInv, LifecycleTypeOK
<1>4. UNCHANGED <<speaking, speaker, unsent, found>> /\ pc[s] = "bind"
  BY DEF Bind
<1>5. bound'[s] = bound[s] \cup {p}
  BY <1>1 DEF LifecycleInv, LifecycleTypeOK
<1>6. \A t \in Servers \ {s} : HostOf[t] = HostOf[s] => p \notin bound[t]
  BY DEF Bind, Taken
<1>7. PortsExclusive'
  <2> SUFFICES ASSUME NEW t \in Servers, NEW u \in Servers, t # u, HostOf[t] = HostOf[u]
               PROVE  bound'[t] \cap bound'[u] = {}
    BY DEF PortsExclusive
  <2>1. bound[t] \cap bound[u] = {}
    BY DEF LifecycleInv, PortsExclusive
  <2>2. CASE t = s  BY <2>1, <2>2, <1>3, <1>5, <1>6
  <2>3. CASE u = s  BY <2>1, <2>3, <1>3, <1>5, <1>6
  <2>4. CASE t # s /\ u # s  BY <2>1, <2>4, <1>3
  <2> QED BY <2>2, <2>3, <2>4
<1>8. CASE bound'[s] = Ports
  <2>1. AfterInit(s, 0)
    BY <1>8 DEF Bind
  <2>2. LifecycleTypeOK'
    BY <2>1, <1>2, <1>4, SumTells DEF LifecycleInv, LifecycleTypeOK
  <2>3. PlaceOK'
    BY <2>1, <1>3, <1>4, SumTells DEF LifecycleInv, PlaceOK
  <2>4. ResultOK'
    BY <2>1, <1>3, <1>4, <1>8, SumTells DEF LifecycleInv, ResultOK
  <2> QED BY <2>2, <2>3, <2>4, <1>7 DEF LifecycleInv
<1>9. CASE bound'[s] # Ports
  <2>1. UNCHANGED <<pc, rc>>
    BY <1>9 DEF Bind
  <2>2. LifecycleTypeOK'
    BY <2>1, <1>2, <1>4 DEF LifecycleInv, LifecycleTypeOK
  <2>3. PlaceOK'
    BY <2>1, <1>3, <1>4 DEF LifecycleInv, PlaceOK
  <2>4. ResultOK'
    BY <2>1, <1>3, <1>4 DEF LifecycleInv, ResultOK
  <2> QED BY <2>2, <2>3, <2>4, <1>7 DEF LifecycleInv
<1> QED BY <1>8, <1>9

\* The init of a server whose bind failed, or whose wait is over, fails.
LEMMA FailInv ==
  ASSUME LifecycleInv, NEW s \in Servers, AfterInit(s, Failure),
         pc[s] \in {"bind", "hung"},
         UNCHANGED <<speaking, speaker, bound, unsent, found>>
  PROVE  LifecycleInv'
<1>1. Failure \in {0, -1} /\ Failure # 0
  BY DEF Failure
<1>2. LifecycleTypeOK'
  BY <1>1, SumTells DEF LifecycleInv, LifecycleTypeOK
<1>3. PortsExclusive'
  BY DEF LifecycleInv, PortsExclusive
<1>4. PlaceOK'
  BY <1>1, SumTells DEF LifecycleInv, PlaceOK
<1>5. ResultOK'
  BY <1>1, SumTells DEF LifecycleInv, ResultOK
<1> QED BY <1>2, <1>3, <1>4, <1>5 DEF LifecycleInv

\* A socket that is closed frees its port.
LEMMA CloseInv ==
  ASSUME LifecycleInv, NEW s \in Servers, Close(s)
  PROVE  LifecycleInv'
<1>1. PICK p \in bound[s] : bound' = [bound EXCEPT ![s] = bound[s] \ {p}]
  BY DEF Close
<1>2. bound' \in [Servers -> SUBSET Ports]
  BY <1>1 DEF LifecycleInv, LifecycleTypeOK
<1>3. \A t \in Servers : bound'[t] \subseteq bound[t]
  BY <1>1 DEF LifecycleInv, LifecycleTypeOK
<1>4. PortsExclusive'
  BY <1>3 DEF LifecycleInv, PortsExclusive
<1>5. \A t \in Servers : t # s => bound'[t] = bound[t]
  BY <1>1 DEF LifecycleInv, LifecycleTypeOK
<1>6. PlaceOK'
  BY <1>5 DEF Close, LifecycleInv, PlaceOK
<1>7. ResultOK'
  BY <1>5 DEF Close, LifecycleInv, ResultOK
<1> QED BY <1>2, <1>4, <1>6, <1>7 DEF Close, LifecycleInv, LifecycleTypeOK

\* The end of a process frees everything it had.
LEMMA GoneInv ==
  ASSUME LifecycleInv, NEW s \in Servers, Gone(s)
  PROVE  LifecycleInv'
<1>1. LifecycleTypeOK'
  BY DEF Gone, Goto, LifecycleInv, LifecycleTypeOK
<1>2. PortsExclusive'
  BY DEF Gone, LifecycleInv, LifecycleTypeOK, PortsExclusive
<1>3. PlaceOK'
  BY DEF Gone, Goto, LifecycleInv, LifecycleTypeOK, PlaceOK
<1>4. ResultOK'
  BY DEF Gone, Goto, LifecycleInv, LifecycleTypeOK, ResultOK
<1> QED BY <1>1, <1>2, <1>3, <1>4 DEF LifecycleInv

\* The other steps of a server leave the ports alone.
LEMMA MoveInv ==
  ASSUME LifecycleInv, NEW s \in Servers,
         \/ Launch(s) \/ Hear(s) \/ Silence(s) \/ ResetState(s)
         \/ SignalRunning(s) \/ DestroySpeaker(s) \/ Stall(s) \/ Drain(s)
  PROVE  LifecycleInv'
<1> USE DEF Goto, LifecycleInv, LifecycleTypeOK, PortsExclusive, PlaceOK, ResultOK
<1>1. CASE Launch(s)  BY <1>1 DEF Launch
<1>2. CASE Hear(s)  BY <1>2 DEF Hear
<1>3. CASE Silence(s)  BY <1>3 DEF Silence
<1>4. CASE ResetState(s)  BY <1>4 DEF ResetState, SpeakingStill
<1>5. CASE SignalRunning(s)  BY <1>5 DEF SignalRunning
<1>6. CASE DestroySpeaker(s)  BY <1>6 DEF DestroySpeaker
<1>7. CASE Stall(s)  BY <1>7 DEF Stall
<1>8. CASE Drain(s)  BY <1>8 DEF Drain
<1> QED BY <1>1, <1>2, <1>3, <1>4, <1>5, <1>6, <1>7, <1>8

\* A bind that fails, and a signal to a process that waits after one.
LEMMA BindFailsInv ==
  ASSUME LifecycleInv, NEW s \in Servers, BindFails(s) \/ SignalHung(s)
  PROVE  LifecycleInv'
<1>1. CASE BindFails(s) /\ bound[s] # {}
  BY <1>1 DEF BindFails, Goto, LifecycleInv, LifecycleTypeOK, PortsExclusive, PlaceOK, ResultOK
<1>2. CASE BindFails(s) /\ bound[s] = {}
  BY <1>2, FailInv DEF BindFails
<1>3. CASE SignalHung(s)
  BY <1>3, FailInv DEF SignalHung
<1> QED BY <1>1, <1>2, <1>3

\* LifecycleInv is an invariant of any number of servers on any hosts
\* (dsv_server_init, dsv_server_destroy).
THEOREM LifecycleInvariance == Spec => []LifecycleInv
<1>1. LifecycleInv /\ [Next]_vars => LifecycleInv'
  <2> SUFFICES ASSUME LifecycleInv, [Next]_vars PROVE LifecycleInv'
    OBVIOUS
  <2>1. CASE UNCHANGED vars
    BY <2>1 DEF vars, LifecycleInv, LifecycleTypeOK, PortsExclusive, PlaceOK, ResultOK
  <2>2. ASSUME NEW s \in Servers,
               Launch(s) \/ Step(s) \/ Signal(s) \/ Kill(s) \/ Stall(s) \/ Drain(s)
        PROVE  LifecycleInv'
    <3>1. CASE Bind(s)  BY <3>1, BindInv
    <3>2. CASE Close(s)  BY <3>2, CloseInv
    <3>3. CASE Exit(s) \/ Kill(s)  BY <3>3, GoneInv DEF Exit, Kill
    <3>4. CASE \/ Launch(s) \/ Hear(s) \/ Silence(s) \/ ResetState(s)
               \/ SignalRunning(s) \/ DestroySpeaker(s) \/ Stall(s) \/ Drain(s)
      BY <3>4, MoveInv
    <3>5. CASE BindFails(s) \/ SignalHung(s)  BY <3>5, BindFailsInv
    <3> QED BY <2>2, <3>1, <3>2, <3>3, <3>4, <3>5 DEF Step, Signal
  <2> QED BY <2>1, <2>2 DEF Next
<1> QED BY InitInv, <1>1, PTL DEF Spec

\* One server at most serves on a host, for any number of processes that
\* start, fail, end and are killed in any order (dsv_server_init).
THEOREM HostHasOne == Spec => []OnePerHost
<1>1. LifecycleInv => OnePerHost
  BY DEF LifecycleInv, PortsExclusive, ResultOK, OnePerHost
<1> QED BY <1>1, LifecycleInvariance, PTL

\* A process that heard another server or lacks a port never serves: no two
\* results of its init cancel (dsv_server.cpp:635-637).
THEOREM FailuresKeepOut == Spec => []FailuresAddUp
<1>1. LifecycleInv => FailuresAddUp
  BY DEF LifecycleInv, LifecycleTypeOK, ResultOK, FailuresAddUp
<1> QED BY <1>1, LifecycleInvariance, PTL

\* A server that serves broadcasts (DSV_RunDiscoveryServer).
THEOREM RunningIsHeard == Spec => []RunningIsAnnounced
<1>1. LifecycleInv => RunningIsAnnounced
  BY DEF LifecycleInv, LifecycleTypeOK, PlaceOK, ResultOK, RunningIsAnnounced
<1> QED BY <1>1, LifecycleInvariance, PTL
=============================================================================
