---------------------------- MODULE DsvLifecycle ----------------------------
(***************************************************************************)
(* How server processes start and end (dsv_server/src/dsv_server.cpp) and  *)
(* find each other by the UDP beacon of libdsv/src/dsv_discovery.cpp.  A   *)
(* server listens for a beacon, starts to broadcast its own, binds three   *)
(* ports of its host one by one whatever the search found, and only then   *)
(* looks at the sum of the two results.                                    *)
(***************************************************************************)
EXTENDS Integers, FiniteSets

CONSTANTS Servers,    \* server processes
          Hosts,
          HostOf      \* the host of each server

ASSUME HostAssumption == HostOf \in [Servers -> Hosts]

Ports == {"frontend", "backend", "reply"}

VARIABLES pc,        \* where each server is
          rc,        \* per server: rc of dsv_server_init, once main's
          speaking,  \* servers whose speaker actor broadcasts
          speaker,   \* servers whose g_state.speaker points to their actor
          bound,     \* per server: the ports it is bound to
          unsent,    \* servers with messages for a peer that does not read
          found      \* history: servers whose search met a beacon

vars == <<pc, rc, speaking, speaker, bound, unsent, found>>

Init == /\ pc = [s \in Servers |-> "off"]
        /\ rc = [s \in Servers |-> 0]
        /\ speaking = {}
        /\ speaker = {}
        /\ bound = [s \in Servers |-> {}]
        /\ unsent = {}
        /\ found = {}

Goto(s, l) == pc' = [pc EXCEPT ![s] = l]

Launch(s) ==
  /\ pc[s] = "off"
  /\ Goto(s, "search")
  /\ UNCHANGED <<rc, speaking, speaker, bound, unsent, found>>

\* What the second half of dsv_server_init returns when it fails: a bug's
\* form, of the other sign, and the code's.
PositiveFailure == 1
Failure == -1

\* DSV_FindDiscoveryServer hears a beacon of some server.
Hear(s) ==
  /\ pc[s] = "search"
  /\ speaking # {}
  /\ rc' = [rc EXCEPT ![s] = -1]
  /\ found' = found \cup {s}
  /\ Goto(s, "reset")
  /\ UNCHANGED <<speaking, speaker, bound, unsent>>

\* Half a second passes without one: nobody speaks, or the datagrams are
\* lost.  DSV_RunDiscoveryServer starts the speaker, or ends the process by
\* an assertion (Kill).
Silence(s) ==
  /\ pc[s] = "search"
  /\ rc' = [rc EXCEPT ![s] = 0]
  /\ speaking' = speaking \cup {s}
  /\ speaker' = speaker \cup {s}
  /\ Goto(s, "reset")
  /\ UNCHANGED <<bound, unsent, found>>

\* Who broadcasts once s has lost the pointer to its actor: a bug's form, and
\* the actor.
SpeakingWithout(s) == speaking \ {s}
SpeakingStill(s) == speaking

\* dsv_server_init_zmq runs whatever the search found, and clears g_state.
ResetState(s) ==
  /\ pc[s] = "reset"
  /\ speaker' = speaker \ {s}
  /\ speaking' = SpeakingStill(s)
  /\ Goto(s, "bind")
  /\ UNCHANGED <<rc, bound, unsent, found>>

\* The port the next setup function binds.
NextPort(s) == IF "frontend" \notin bound[s] THEN "frontend"
               ELSE IF "backend" \notin bound[s] THEN "backend" ELSE "reply"

\* A bug's form: a bind takes a port that another server has.
TakenNever(s, p) == FALSE
Taken(s, p) == \E t \in Servers \ {s} : HostOf[t] = HostOf[s] /\ p \in bound[t]

\* dsv_server_init adds result r of the second half to that of the first,
\* and main looks at the sum.
AfterInit(s, r) ==
  /\ rc' = [rc EXCEPT ![s] = @ + r]
  /\ Goto(s, IF rc'[s] = 0 THEN "run" ELSE "destroy")

Bind(s) ==
  /\ pc[s] = "bind"
  /\ ~Taken(s, NextPort(s))
  /\ bound' = [bound EXCEPT ![s] = @ \cup {NextPort(s)}]
  /\ IF bound'[s] = Ports THEN AfterInit(s, 0) ELSE UNCHANGED <<pc, rc>>
  /\ UNCHANGED <<speaking, speaker, unsent, found>>

\* zmq_bind fails.  dsv_server_init_zmq destroys the context, which waits for
\* the sockets that are still open: until a signal, as nobody closes them.
BindFails(s) ==
  /\ pc[s] = "bind"
  /\ Taken(s, NextPort(s))
  /\ IF bound[s] = {} THEN AfterInit(s, Failure) ELSE Goto(s, "hung") /\ UNCHANGED rc
  /\ UNCHANGED <<speaking, speaker, bound, unsent, found>>

\* SIGINT or SIGTERM: a context that waits in the init gives up, and the loop
\* of a server that serves ends.
SignalHung(s) ==
  /\ pc[s] = "hung"
  /\ AfterInit(s, Failure)
  /\ UNCHANGED <<speaking, speaker, bound, unsent, found>>

SignalRunning(s) ==
  /\ pc[s] = "run"
  /\ Goto(s, "destroy")
  /\ UNCHANGED <<rc, speaking, speaker, bound, unsent, found>>

Signal(s) == SignalHung(s) \/ SignalRunning(s)

\* A subscriber does not read what the server sends; it reads it after all,
\* or its connection ends, and nothing is left to send.
Stall(s) ==
  /\ pc[s] = "run" /\ s \notin unsent
  /\ unsent' = unsent \cup {s}
  /\ UNCHANGED <<pc, rc, speaking, speaker, bound, found>>

Drain(s) ==
  /\ s \in unsent
  /\ unsent' = unsent \ {s}
  /\ UNCHANGED <<pc, rc, speaking, speaker, bound, found>>

\* dsv_server_destroy silences the speaker it knows.
DestroySpeaker(s) ==
  /\ pc[s] = "destroy"
  /\ speaking' = speaking \ (speaker \cap {s})
  /\ speaker' = speaker \ {s}
  /\ Goto(s, "close")
  /\ UNCHANGED <<rc, bound, unsent, found>>

\* zmq_close only asks for it: a thread of the library lets go of the ports,
\* in any order.  A bug's form forgets the reply socket.
ClosedNoReply == {"frontend", "backend"}
Closed == Ports

Close(s) ==
  /\ pc[s] = "close"
  /\ \E p \in bound[s] \cap Closed : bound' = [bound EXCEPT ![s] = @ \ {p}]
  /\ UNCHANGED <<pc, rc, speaking, speaker, unsent, found>>

\* The process ends, and with it what it still had.  (A context destroyed a
\* second time, after a failed init, changes nothing of this.)
Gone(s) == /\ Goto(s, "off")
           /\ rc' = [rc EXCEPT ![s] = 0]
           /\ speaking' = speaking \ {s}
           /\ speaker' = speaker \ {s}
           /\ bound' = [bound EXCEPT ![s] = {}]
           /\ unsent' = unsent \ {s}
           /\ found' = found \ {s}

\* zmq_ctx_destroy returns when no socket is left and, as no ZMQ_LINGER is
\* set, everything is sent.
Exit(s) == pc[s] = "close" /\ bound[s] = {} /\ s \notin unsent /\ Gone(s)

\* The process ends at once: SIGKILL, SIGINT before the pipe is there, an
\* assertion, or a second signal while zmq_ctx_destroy waits.
Kill(s) == pc[s] # "off" /\ Gone(s)

Step(s) == \/ Hear(s) \/ Silence(s) \/ ResetState(s) \/ Bind(s) \/ BindFails(s)
           \/ DestroySpeaker(s) \/ Close(s) \/ Exit(s)

Next == \E s \in Servers : \/ Launch(s) \/ Step(s) \/ Signal(s) \/ Kill(s)
                           \/ Stall(s) \/ Drain(s)

Spec == Init /\ [][Next]_vars

\* A process that can go on does; nobody has to launch, signal or kill one,
\* and no peer has to read.
FairSpec == Spec /\ \A s \in Servers : WF_vars(Step(s))

-----------------------------------------------------------------------------
(* Properties.                                                             *)

Labels == {"off", "search", "reset", "bind", "run", "hung", "destroy", "close"}

LifecycleTypeOK ==
  /\ pc \in [Servers -> Labels]
  /\ rc \in [Servers -> Int]
  /\ speaking \subseteq Servers
  /\ speaker \subseteq Servers
  /\ bound \in [Servers -> SUBSET Ports]
  /\ unsent \subseteq Servers
  /\ found \subseteq Servers

\* However starts, failed binds, exits and kills interleave, one server at
\* most serves on a host: clients of a host have one table (dsv_server_init).
OnePerHost ==
  \A s, t \in Servers :
    pc[s] = "run" /\ pc[t] = "run" /\ HostOf[s] = HostOf[t] => s = t

\* A process that heard another server, or that lacks one of its ports, does
\* not serve: the two results that dsv_server_init adds up do not cancel
\* ("If there is one, don't run the server", dsv_server.cpp:547).
FailuresAddUp ==
  \A s \in Servers : pc[s] = "run" => s \notin found /\ bound[s] = Ports

\* A server that serves can be found: nothing it did on the way stopped its
\* speaker, not even the loss of the pointer to it.
RunningIsAnnounced == \A s \in Servers : pc[s] = "run" => s \in speaking

\* Of two servers of a host, no port belongs to both.
PortsExclusive ==
  \A s, t \in Servers : s # t /\ HostOf[s] = HostOf[t] => bound[s] \cap bound[t] = {}

\* What each place implies, and what the results added up so far tell: with
\* the two above, the inductive invariant.
PlaceOK ==
  \A s \in Servers :
    /\ pc[s] \in {"off", "search", "reset"} => bound[s] = {}
    /\ pc[s] \in {"reset", "bind", "run"} /\ s \notin found => s \in speaking

ResultOK ==
  \A s \in Servers :
    /\ pc[s] \in {"off", "search"} => s \notin found
    /\ rc[s] <= 0
    /\ s \in found => rc[s] < 0
    /\ pc[s] = "run" => rc[s] = 0
    /\ pc[s] = "run" => bound[s] = Ports

LifecycleInv == LifecycleTypeOK /\ PortsExclusive /\ PlaceOK /\ ResultOK

\* A server on its way out ends: its context waits for no socket that was
\* forgotten (dsv_server_destroy).  Only a peer that never reads can hold it.
DestroyEnds ==
  \A s \in Servers :
    (pc[s] = "destroy") ~> (pc[s] = "off" \/ [](bound[s] = {} /\ s \in unsent))
=============================================================================
