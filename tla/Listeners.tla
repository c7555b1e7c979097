------------------------------ MODULE Listeners ------------------------------
(***************************************************************************)
(* The listeners of one forwarding rule on a node: how Runtime.Apply       *)
(* replaces them, how they admit, drain and close TCP connections and UDP  *)
(* sessions, and the limit trackers the rule and its tenant count          *)
(* connections and addresses with.                                         *)
(*                                                                         *)
(* A flow is a TCP connection from accept to the end of its handler, or a  *)
(* UDP session from the datagram that creates it to the end of its read    *)
(* loop; its identity is reused once it is gone.  A listener is one        *)
(* ruleListener or udpListener object; it is started once.                 *)
(***************************************************************************)
EXTENDS Naturals, FiniteSets

CONSTANTS
  Listeners,    \* listener objects the runtime starts for the rule
  Udp,          \* those that are UDP listeners
  Flows,        \* identities of flows; bound: flows alive at once
  Clients,      \* remote addresses with their ports
  IPs, IPof,    \* the IP address of each of them
  Limits,       \* [conns, ips] the rule may be limited to; 0 is no limit
  TenantLimit,  \* the limit of its tenant, which other rules keep in use
  SessionCap,   \* MaxUDPSessionsPerRule
  MaxApplies,   \* bound: configurations applied
  None

ASSUME ClientsAssumption == Udp \subseteq Listeners /\ IPof \in [Clients -> IPs]
Limit == [conns : Nat, ips : Nat]
ASSUME LimitsAssumption ==
  /\ Limits \subseteq Limit /\ Limits # {} /\ TenantLimit \in Limit
  /\ SessionCap \in Nat /\ MaxApplies \in Nat \ {0}

(***************************************************************************)
(*   applies   configurations applied so far                               *)
(*   config    what listeners in use hand to new flows: the generation and *)
(*             the rule's tracker (0: no listener, hence no tracker)       *)
(*   tracker   limit trackers: 0 is the tenant's, n the one made for the   *)
(*             rule by the n-th Apply                                      *)
(*   state     stateValue of each listener ("none" before it starts)       *)
(*   signalled listeners whose stopCh and socket are closed                *)
(*   drainer   progress of the goroutine drain starts                      *)
(*   stopper   progress of the call of stop                                *)
(*   timers    generations closeGenerationAfter is about to close          *)
(*   sessions  the map of a UDP listener                                   *)
(*   flow      the flows; holds are the trackers that count one, closed    *)
(*             says that its connection (or upstream) is closed            *)
(*   shutdown  Runtime.Stop: "no", "stopping", "flushed"                   *)
(*   toStop    listeners it has yet to stop, stopping the one it stops     *)
(*   missed    listeners that closed their flows while one of them was     *)
(*             still being set up; history, read by properties only        *)
(***************************************************************************)
VARIABLES applies, config, tracker, state, signalled, drainer, stopper,
          timers, sessions, flow, shutdown, toStop, stopping, missed

closing == <<signalled, drainer, stopper>>
runtime == <<applies, config, state, timers>>
stop == <<shutdown, toStop, stopping>>
vars == <<runtime, closing, tracker, sessions, flow, stop, missed>>

TrackerIDs == 0 .. MaxApplies
NewTracker(limit) == [limit |-> limit, active |-> 0, ips |-> [i \in IPs |-> 0]]

Flow == [listener : Listeners, client : Clients, gen : Nat, rule : TrackerIDs,
         place : {"starting", "open", "over"}, holds : SUBSET TrackerIDs,
         closed : BOOLEAN]
ASSUME FlowsAssumption ==
  IsFiniteSet(Flows) /\ None \notin Flows \cup Listeners \cup Flow
Alive == {f \in Flows : flow[f] # None}
FlowsOf(l) == {f \in Alive : flow[f].listener = l}
At(l, place) == {f \in FlowsOf(l) : flow[f].place = place}
InState(s) == {l \in Listeners : state[l] = s}
SessionsOf(l) == {c \in Clients : sessions[l][c] # None}

\* Every variable holds a value of its kind.
TypeOK ==
  /\ applies \in 0 .. MaxApplies
  /\ config \in [gen : Nat, rule : TrackerIDs]
  /\ tracker \in [TrackerIDs -> [limit : Limit, active : Nat, ips : [IPs -> Nat]]]
  /\ state \in [Listeners -> {"none", "warming", "active", "draining", "stopped"}]
  /\ signalled \subseteq Listeners
  /\ drainer \in [Listeners -> {"no", "waiting", "closed"}]
  /\ stopper \in [Listeners -> {"no", "signalled", "closed"}]
  /\ timers \in [Listeners -> SUBSET Nat]
  /\ sessions \in [Udp -> [Clients -> Flows \cup {None}]]
  /\ flow \in [Flows -> Flow \cup {None}]
  /\ shutdown \in {"no", "stopping", "flushed"}
  /\ toStop \subseteq Listeners /\ stopping \in Listeners \cup {None}
  /\ missed \subseteq Listeners

Init ==
  /\ applies = 0 /\ config = [gen |-> 0, rule |-> 0]
  /\ tracker = [t \in TrackerIDs |-> NewTracker(TenantLimit)]
  /\ state = [l \in Listeners |-> "none"]
  /\ signalled = {}
  /\ drainer = [l \in Listeners |-> "no"]
  /\ stopper = [l \in Listeners |-> "no"]
  /\ timers = [l \in Listeners |-> {}]
  /\ sessions = [l \in Udp |-> [c \in Clients |-> None]]
  /\ flow = [f \in Flows |-> None]
  /\ shutdown = "no" /\ toStop = {} /\ stopping = None
  /\ missed = {}

-----------------------------------------------------------------------------
(* Runtime.Apply.  It holds r.mu: no other Apply and no Stop comes between  *)
(* the start of new listeners and the switch, but flows do.                 *)

Stage(new) ==
  /\ shutdown = "no" /\ applies < MaxApplies /\ InState("warming") = {}
  /\ new # {} /\ new \subseteq InState("none")
  /\ state' = [l \in Listeners |-> IF l \in new THEN "warming" ELSE state[l]]
  /\ UNCHANGED <<applies, config, timers, closing, tracker, sessions, flow>>
  /\ UNCHANGED <<stop, missed>>

\* A port cannot be bound, or is asked for twice: what was staged is stopped.
\* A listener that is warming has no flows.
AbortApply ==
  /\ InState("warming") # {}
  /\ state' = [l \in Listeners |->
                 IF state[l] = "warming" THEN "stopped" ELSE state[l]]
  /\ signalled' = signalled \cup InState("warming")
  /\ UNCHANGED <<applies, config, timers, drainer, stopper, tracker>>
  /\ UNCHANGED <<sessions, flow, stop, missed>>

\* Mutant: the new tracker is numbered after the counter has moved.
TrackerForNext(limit) ==
  IF config.rule # 0 /\ tracker[config.rule].limit = limit
    THEN config.rule ELSE applies + 2
\* The tracker of the rule is kept while its limit is, and forgotten with the
\* last listener.
TrackerFor(limit) ==
  IF config.rule # 0 /\ tracker[config.rule].limit = limit
    THEN config.rule ELSE applies + 1

\* Mutant: the generation that is closed is the one that begins.
NewGeneration(old, new) == new
OldGeneration(old, new) == old

\* Mutant: a new limit does not end what the old one admitted.
FreshIfChanged(limit, changed) == changed \/ config.rule = 0
\* The configuration handed to new flows differs: other fields or another tracker.
Fresh(limit, changed) ==
  changed \/ config.rule = 0 \/ TrackerFor(limit) # config.rule

\* The switch.  A changed fingerprint begins a generation, and flows of the old
\* one are closed when the drain timeout has passed; listeners no longer wanted
\* drain (a TCP listener closes its socket at once, a UDP listener keeps it).
Apply(kept, limit, changed) ==
  LET inUse == kept \cup InState("warming")
      drained == InState("active") \ kept
      fresh == Fresh(limit, changed)
      gen == IF fresh THEN config.gen + 1 ELSE config.gen
  IN
  /\ shutdown = "no" /\ applies < MaxApplies
  /\ kept \subseteq InState("active")
  /\ applies' = applies + 1
  /\ config' = [gen |-> gen, rule |-> IF inUse = {} THEN 0 ELSE TrackerFor(limit)]
  /\ tracker' = IF inUse # {} /\ TrackerFor(limit) = applies + 1
                  THEN [tracker EXCEPT ![applies + 1] = NewTracker(limit)]
                  ELSE tracker
  /\ state' = [l \in Listeners |-> CASE l \in inUse -> "active"
                                     [] l \in drained -> "draining"
                                     [] OTHER -> state[l]]
  /\ timers' = [l \in Listeners |->
                  IF l \in kept /\ fresh
                    THEN timers[l] \cup {OldGeneration(config.gen, gen)}
                    ELSE timers[l]]
  /\ signalled' = signalled \cup (drained \ Udp)
  /\ drainer' = [l \in Listeners |-> IF l \in drained THEN "waiting" ELSE drainer[l]]
  /\ UNCHANGED <<stopper, sessions, flow, stop, missed>>

-----------------------------------------------------------------------------
(* Trackers *)

Admits(t, ip) ==
  /\ t.limit.conns = 0 \/ t.active < t.limit.conns
  /\ \/ t.limit.ips = 0 \/ t.ips[ip] > 0
     \/ Cardinality({i \in IPs : t.ips[i] > 0}) < t.limit.ips
Acquired(t, ip) ==
  [t EXCEPT !.active = t.active + 1, !.ips[ip] = t.ips[ip] + 1]
Released(t, ip) ==
  [t EXCEPT !.active = IF t.active > 0 THEN t.active - 1 ELSE 0,
            !.ips[ip] = IF t.ips[ip] > 0 THEN t.ips[ip] - 1 ELSE 0]

\* Acquire and release of one of the two trackers by a flow.
Count(f, t) ==
  /\ tracker' = [tracker EXCEPT ![t] = Acquired(@, IPof[flow[f].client])]
  /\ flow' = [flow EXCEPT ![f].holds = @ \cup {t}]
Uncount(f, t) ==
  /\ tracker' = [tracker EXCEPT ![t] = Released(@, IPof[flow[f].client])]
  /\ flow' = [flow EXCEPT ![f].holds = @ \ {t}]
GiveUp(f) ==
  /\ flow' = [flow EXCEPT ![f].place = "over", ![f].closed = TRUE]
  /\ UNCHANGED tracker

-----------------------------------------------------------------------------
(* Flows *)

\* A datagram of a new client is looked at while the map is locked, one
\* datagram at a time.
TakesDatagram(l, c) ==
  /\ sessions[l][c] = None
  /\ Cardinality(SessionsOf(l)) < SessionCap
  /\ At(l, "starting") = {}

\* Accept, or a datagram that asks for a new session.
Begin(f, l, c) ==
  /\ flow[f] = None
  /\ state[l] = "active" /\ l \notin signalled
  /\ l \in Udp => TakesDatagram(l, c)
  /\ flow' = [flow EXCEPT ![f] =
       [listener |-> l, client |-> c, gen |-> config.gen, rule |-> config.rule,
        place |-> "starting", holds |-> {}, closed |-> FALSE]]
  /\ UNCHANGED <<runtime, closing, tracker, sessions, stop, missed>>

\* The rule's tracker first.  A blocked datagram gets no session.
AcquireRule(f) ==
  /\ f \in Alive /\ flow[f].place = "starting" /\ flow[f].holds = {}
  /\ IF Admits(tracker[flow[f].rule], IPof[flow[f].client])
       THEN \/ Count(f, flow[f].rule)
            \/ flow[f].listener \in Udp /\ GiveUp(f)
       ELSE GiveUp(f)
  /\ UNCHANGED <<runtime, closing, sessions, stop, missed>>

\* Mutant: a refusal by the tenant's tracker forgets the rule's slot.
AcquireTenantLeaking(f) ==
  /\ f \in Alive /\ flow[f].place = "starting" /\ flow[f].holds = {flow[f].rule}
  /\ IF Admits(tracker[0], IPof[flow[f].client])
       THEN Count(f, 0)
       ELSE /\ flow' = [flow EXCEPT ![f].place = "over", ![f].closed = TRUE,
                                    ![f].holds = {}]
            /\ UNCHANGED tracker
  /\ UNCHANGED <<runtime, closing, sessions, stop, missed>>
\* Then the tenant's; what the rule's counted is rolled back on a refusal.
AcquireTenant(f) ==
  /\ f \in Alive /\ flow[f].place = "starting" /\ flow[f].holds = {flow[f].rule}
  /\ IF Admits(tracker[0], IPof[flow[f].client]) THEN Count(f, 0) ELSE GiveUp(f)
  /\ UNCHANGED <<runtime, closing, sessions, stop, missed>>

Admitted(f) ==
  f \in Alive /\ flow[f].place = "starting" /\ flow[f].holds = {flow[f].rule, 0}

\* trackConn; from here on the connection can be closed by others.
Track(f) ==
  /\ Admitted(f) /\ flow[f].listener \notin Udp
  /\ flow' = [flow EXCEPT ![f].place = "open"]
  /\ UNCHANGED <<runtime, closing, tracker, sessions, stop, missed>>

\* The upstream is dialled with the map unlocked, for up to 10 s; then the map
\* is looked at again and the session inserted.
Insert(f) ==
  LET l == flow[f].listener
      c == flow[f].client
  IN
  /\ Admitted(f) /\ l \in Udp
  /\ IF sessions[l][c] = None /\ Cardinality(SessionsOf(l)) < SessionCap
       THEN /\ sessions' = [sessions EXCEPT ![l][c] = f]
            /\ flow' = [flow EXCEPT ![f].place = "open"]
            /\ UNCHANGED tracker
       ELSE GiveUp(f) /\ UNCHANGED sessions
  /\ UNCHANGED <<runtime, closing, stop, missed>>
DialFails(f) ==
  /\ Admitted(f) /\ flow[f].listener \in Udp
  /\ GiveUp(f)
  /\ UNCHANGED <<runtime, closing, sessions, stop, missed>>

\* Flows of S on listener l are closed by others: a connection is closed and its
\* handler ends by itself; a session is taken out of the map first, so that
\* nobody else releases it.
CloseFlows(l, S) ==
  /\ flow' = [f \in Flows |->
       IF f \in S
         THEN IF l \in Udp THEN [flow[f] EXCEPT !.place = "over", !.closed = TRUE]
                           ELSE [flow[f] EXCEPT !.closed = TRUE]
         ELSE flow[f]]
  /\ sessions' = IF l \in Udp
       THEN [sessions EXCEPT ![l] = [c \in Clients |-> IF @[c] \in S THEN None ELSE @[c]]]
       ELSE sessions

\* Mutant: removeSession does not ask whether the session is the one in the map.
InMapByKey(f) == sessions[flow[f].listener][flow[f].client] # None
InMap(f) == sessions[flow[f].listener][flow[f].client] = f

\* A peer or the upstream ends the flow, it is idle, blocked or was closed.
EndConnection(f) ==
  /\ f \in Alive /\ flow[f].place = "open" /\ flow[f].listener \notin Udp
  /\ GiveUp(f)
  /\ UNCHANGED <<runtime, closing, sessions, stop, missed>>
EndSession(f) ==
  /\ f \in Alive /\ flow[f].place = "open" /\ flow[f].listener \in Udp
  /\ InMap(f)
  /\ CloseFlows(flow[f].listener, {f})
  /\ UNCHANGED <<runtime, closing, tracker, stop, missed>>

\* Whoever ended the flow releases the tenant's slot and then the rule's.
Release(f) ==
  /\ f \in Alive /\ flow[f].place = "over" /\ flow[f].holds # {}
  /\ Uncount(f, IF 0 \in flow[f].holds THEN 0 ELSE flow[f].rule)
  /\ UNCHANGED <<runtime, closing, sessions, stop, missed>>

\* The read loop of a session calls removeSession as it returns, whoever removed
\* the session before.
Gone(f) ==
  /\ f \in Alive /\ flow[f].place = "over" /\ flow[f].holds = {}
  /\ IF flow[f].listener \in Udp /\ InMap(f)
       THEN /\ sessions' = [sessions EXCEPT
                 ![flow[f].listener][flow[f].client] = None]
            /\ flow' = [flow EXCEPT ![f].holds = {flow[f].rule, 0}]
       ELSE /\ flow' = [flow EXCEPT ![f] = None]
            /\ UNCHANGED sessions
  /\ UNCHANGED <<runtime, closing, tracker, stop, missed>>

-----------------------------------------------------------------------------
(* Closing *)

\* The drain timeout of a generation, 30 s, is longer than a flow takes to be
\* set up (10 s to dial): none of that generation is still starting.
CloseGeneration(l, g) ==
  /\ g \in timers[l]
  /\ timers' = [timers EXCEPT ![l] = @ \ {g}]
  /\ \A f \in At(l, "starting") : flow[f].gen # g
  /\ CloseFlows(l, {f \in At(l, "open") : flow[f].gen = g})
  /\ UNCHANGED <<applies, config, state, closing, tracker, stop, missed>>
\* The goroutine returns when the listener stops.
CancelTimer(l, g) ==
  /\ g \in timers[l] /\ l \in signalled
  /\ timers' = [timers EXCEPT ![l] = @ \ {g}]
  /\ UNCHANGED <<applies, config, state, closing, tracker, sessions, flow>>
  /\ UNCHANGED <<stop, missed>>

CloseAll(l) ==
  /\ CloseFlows(l, At(l, "open"))
  /\ missed' = IF At(l, "starting") # {} THEN missed \cup {l} ELSE missed

Finished(l) ==
  /\ FlowsOf(l) = {}
  /\ state' = [state EXCEPT ![l] = "stopped"]
  /\ UNCHANGED <<applies, config, timers, tracker, sessions, flow, stop, missed>>

\* Mutant: at the deadline the drain goes on waiting.
DrainDeadlineWaits(l) ==
  /\ l \notin Udp /\ drainer[l] = "waiting"
  /\ drainer' = [drainer EXCEPT ![l] = "closed"]
  /\ UNCHANGED <<runtime, signalled, stopper, tracker, stop>>
  /\ UNCHANGED <<sessions, flow, missed>>
\* drain of a TCP listener waits for its flows, and closes them at the deadline.
DrainDeadline(l) ==
  /\ l \notin Udp /\ drainer[l] = "waiting"
  /\ CloseAll(l)
  /\ drainer' = [drainer EXCEPT ![l] = "closed"]
  /\ UNCHANGED <<runtime, signalled, stopper, tracker, stop>>
DrainDone(l) ==
  /\ l \notin Udp /\ drainer[l] # "no" /\ state[l] = "draining"
  /\ Finished(l)
  /\ UNCHANGED closing

StopSignals(l) ==
  /\ stopper' = [stopper EXCEPT ![l] = IF @ = "no" THEN "signalled" ELSE @]
  /\ signalled' = signalled \cup {l}

\* drain of a UDP listener stops it when no session is left, or at the deadline.
DrainUdp(l) ==
  /\ l \in Udp /\ drainer[l] = "waiting"
  /\ StopSignals(l)
  /\ drainer' = [drainer EXCEPT ![l] = "closed"]
  /\ UNCHANGED <<runtime, tracker, sessions, flow, stop, missed>>

\* Mutant: stop waits for the flows without closing them.
StopWaits(l) ==
  /\ stopper[l] = "signalled"
  /\ stopper' = [stopper EXCEPT ![l] = "closed"]
  /\ UNCHANGED <<runtime, signalled, drainer, tracker, stop>>
  /\ UNCHANGED <<sessions, flow, missed>>
StopCloses(l) ==
  /\ stopper[l] = "signalled"
  /\ CloseAll(l)
  /\ stopper' = [stopper EXCEPT ![l] = "closed"]
  /\ UNCHANGED <<runtime, signalled, drainer, tracker, stop>>
StopDone(l) ==
  /\ stopper[l] = "closed" /\ state[l] # "stopped"
  /\ Finished(l)
  /\ UNCHANGED closing

\* Runtime.Stop: every listener in use or draining, one after the other, and
\* then the last flush.
Shutdown ==
  /\ shutdown = "no" /\ InState("warming") = {}
  /\ shutdown' = "stopping"
  /\ toStop' = InState("active") \cup InState("draining")
  /\ UNCHANGED <<stopping, runtime, closing, tracker, sessions, flow, missed>>
StoppedSoFar == stopping \in {None} \cup InState("stopped")
StopNext(l) ==
  /\ shutdown = "stopping" /\ StoppedSoFar /\ l \in toStop
  /\ toStop' = toStop \ {l} /\ stopping' = l
  /\ StopSignals(l)
  /\ UNCHANGED <<shutdown, runtime, drainer, tracker, sessions, flow, missed>>
FinalFlush ==
  /\ shutdown = "stopping" /\ StoppedSoFar /\ toStop = {}
  /\ shutdown' = "flushed"
  /\ UNCHANGED <<toStop, stopping, runtime, closing, tracker, sessions, flow>>
  /\ UNCHANGED missed

-----------------------------------------------------------------------------
(* What the agent's goroutines do by themselves, and what others ask of them. *)
FlowStep(f) ==
  \/ AcquireRule(f) \/ AcquireTenant(f)
  \/ Track(f) \/ Insert(f) \/ DialFails(f)
  \/ Release(f) \/ Gone(f)
  \/ f \in Alive /\ flow[f].closed /\ EndConnection(f)
CloserStep(l) ==
  \/ \E g \in timers[l] : CloseGeneration(l, g) \/ CancelTimer(l, g)
  \/ DrainDeadline(l) \/ DrainDone(l) \/ DrainUdp(l)
  \/ StopCloses(l) \/ StopDone(l) \/ StopNext(l)

Next ==
  \/ \E new \in SUBSET Listeners : Stage(new)
  \/ AbortApply
  \/ \E kept \in SUBSET Listeners, limit \in Limits, changed \in BOOLEAN :
       Apply(kept, limit, changed)
  \/ \E f \in Flows, l \in Listeners, c \in Clients : Begin(f, l, c)
  \/ \E f \in Flows : FlowStep(f) \/ EndConnection(f) \/ EndSession(f)
  \/ \E l \in Listeners : CloserStep(l)
  \/ Shutdown \/ FinalFlush

Spec == Init /\ [][Next]_vars

\* Goroutines run and timers fire.  Administrators, clients and upstreams owe
\* nothing: no flow ends unless somebody closes it.
Fairness ==
  /\ \A f \in Flows : WF_vars(FlowStep(f))
  /\ \A l \in Listeners : WF_vars(CloserStep(l))
  /\ WF_vars(FinalFlush)
FairSpec == Spec /\ Fairness

-----------------------------------------------------------------------------
(* Properties *)

Holders(t) == {f \in Alive : t \in flow[f].holds}

\* A tracker counts exactly the flows that hold a slot of it, in all and per
\* address: whichever of the refusals, failures and closers ends a flow, its slot
\* is given back once.
SlotsBalanced ==
  \A t \in TrackerIDs :
    /\ tracker[t].active = Cardinality(Holders(t))
    /\ \A i \in IPs :
         tracker[t].ips[i] = Cardinality({f \in Holders(t) : IPof[flow[f].client] = i})

\* A timer, a drain or a stop that has not closed the listener's flows yet will
\* reach this one, unless it is closed or slipped past them.
OnNotice(l, f) ==
  \/ flow[f].closed
  \/ flow[f].gen \in timers[l]
  \/ drainer[l] = "waiting" \/ stopper[l] = "signalled" \/ l \in toStop
  \/ l \in missed

\* The rule's flows that hold a slot of whichever tracker the rule had when they
\* began, and that nothing is about to close.
LastingFlows ==
  {f \in Alive : /\ flow[f].place # "over" /\ flow[f].rule \in flow[f].holds
                 /\ ~OnNotice(flow[f].listener, f)}

Obeys(flows, limit) ==
  /\ limit.conns > 0 => Cardinality(flows) <= limit.conns
  /\ limit.ips > 0 => Cardinality({IPof[flow[f].client] : f \in flows}) <= limit.ips

\* Connections and addresses counted by one tracker stay within its limit, over TCP
\* and UDP together; and of the rule, whose tracker is another one after its limit
\* changed or after it was without a listener, the flows that are not about to be
\* closed are within the limit now in force.  On top of them the rule may have
\* flows of older trackers for as long as those drain.
LimitsHold ==
  /\ \A t \in TrackerIDs : Obeys(Holders(t), tracker[t].limit)
  /\ config.rule # 0 => Obeys(LastingFlows, tracker[config.rule].limit)

\* A UDP session that lives is the one its client's datagrams go to, and there are
\* no more of them than the cap.
SessionsReachable ==
  \A l \in Udp :
    /\ \A f \in At(l, "open") : sessions[l][flow[f].client] = f
    /\ Cardinality(At(l, "open")) <= SessionCap

\* A flow of an old configuration, or of a listener no longer in use, is on notice.
OldFlowsOnNotice ==
  \A l \in Listeners : \A f \in At(l, "open") \cup At(l, "starting") :
    (flow[f].gen = config.gen /\ state[l] = "active") \/ OnNotice(l, f)

\* A listener that drains stops, and a shutdown gets to the last flush, if every
\* flow was set up when its listener closed them.
DrainEnds ==
  \A l \in Listeners :
    state[l] = "draining" ~> state[l] = "stopped" \/ missed # {}
ShutdownEnds == shutdown = "stopping" ~> shutdown = "flushed" \/ missed # {}
=============================================================================
