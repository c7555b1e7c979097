-------------------------- MODULE Listeners_proofs --------------------------
(***************************************************************************)
(* Proofs about Listeners, for any listeners, clients, limits and number   *)
(* of configurations, and any finite number of flows alive at once.        *)
(***************************************************************************)
EXTENDS Listeners, FiniteSetTheorems, TLAPS

(***************************************************************************)
(* A flow is counted by the tracker its rule had when it began and by the  *)
(* tenant's, which are two; a tracker that is still to be made counts      *)
(* nobody.                                                                 *)
(***************************************************************************)
Numbered ==
  /\ config.rule <= applies
  /\ \A l \in Listeners : state[l] = "active" => config.rule # 0
  /\ \A f \in Alive : /\ flow[f].rule \in 1 .. applies
                      /\ flow[f].holds \subseteq {0, flow[f].rule}

(***************************************************************************)
(* What a tracker counts stays within its limit.                           *)
(***************************************************************************)
Busy(t) == {i \in IPs : tracker[t].ips[i] > 0}
Within ==
  \A t \in TrackerIDs :
    LET limit == tracker[t].limit IN
    /\ limit.conns > 0 => tracker[t].active <= limit.conns
    /\ limit.ips > 0 => Cardinality(Busy(t)) <= limit.ips

(***************************************************************************)
(* The map of a UDP listener holds its open sessions, each under its own   *)
(* client, and no others.                                                  *)
(***************************************************************************)
Mapped ==
  /\ \A l \in Udp, c \in Clients :
       sessions[l][c] # None =>
         LET f == sessions[l][c] IN
         /\ f \in At(l, "open")
         /\ flow[f].client = c
  /\ \A l \in Udp : \A f \in At(l, "open") : sessions[l][flow[f].client] = f
  /\ \A l \in Udp : Cardinality(SessionsOf(l)) <= SessionCap

(***************************************************************************)
(* A listener whose flows have been closed gets no new ones, and none is   *)
(* left open but those that slipped past; one that has been signalled has  *)
(* been swept or will be.                                                  *)
(***************************************************************************)
Live(l) == At(l, "open") \cup At(l, "starting")
Swept(l) == \A f \in Live(l) : flow[f].closed \/ l \in missed
Signalling ==
  /\ shutdown = "no" => toStop = {}
  /\ \A l \in Listeners :
       /\ stopper[l] # "no" => l \in signalled
       /\ l \notin Udp /\ drainer[l] # "no" => l \in signalled
       /\ state[l] \in {"none", "warming"} => FlowsOf(l) = {}
Sweeping ==
  \A l \in Listeners :
    /\ stopper[l] = "closed" => Swept(l)
    /\ l \notin Udp /\ drainer[l] = "closed" => Swept(l)
    /\ l \in signalled =>
         drainer[l] = "waiting" \/ stopper[l] = "signalled" \/ Swept(l)

IInv ==
  /\ TypeOK /\ Numbered /\ SlotsBalanced /\ Within
  /\ Mapped
  /\ Signalling /\ Sweeping /\ OldFlowsOnNotice

-----------------------------------------------------------------------------
(* How flows change *)

\* A flow that is alive is a flow.
LEMMA AliveTypes ==
  ASSUME TypeOK
  PROVE  /\ \A f \in Alive : f \in Flows /\ flow[f] \in Flow /\ flow[f] # None
         /\ \A l, p : At(l, p) \subseteq FlowsOf(l) /\ FlowsOf(l) \subseteq Alive
BY DEF TypeOK, Alive, At, FlowsOf

\* In every step but a Begin a flow goes on, towards its end, or is gone when
\* it was over and held no slot.
GoesOn(f) ==
  /\ flow[f] # None /\ flow'[f] # None
  /\ flow'[f].listener = flow[f].listener /\ flow'[f].client = flow[f].client
  /\ flow'[f].gen = flow[f].gen /\ flow'[f].rule = flow[f].rule
  /\ flow[f].closed => flow'[f].closed
  /\ flow[f].place = "over" => flow'[f].place = "over"
  /\ flow'[f].place = "starting" => flow[f].place = "starting"
  /\ flow'[f].holds \subseteq flow[f].holds \cup {0, flow[f].rule}
IsGone(f) ==
  /\ flow'[f] = None
  /\ flow[f] # None => flow[f].place = "over" /\ flow[f].holds = {}
Steady ==
  /\ flow' \in [Flows -> Flow \cup {None}]
  /\ \A f \in Flows : IsGone(f) \/ GoesOn(f)
KeepsSlots == \A f \in Alive : flow'[f] # None => flow'[f].holds = flow[f].holds

LEMMA SteadyFacts ==
  ASSUME TypeOK, Steady
  PROVE  /\ Alive' \subseteq Alive
         /\ \A f \in Alive' : GoesOn(f) /\ flow'[f] \in Flow
         /\ \A l \in Listeners : FlowsOf(l)' \subseteq FlowsOf(l) /\ Live(l)' \subseteq Live(l)
<1>1. Alive' \subseteq Alive /\ \A f \in Alive' : GoesOn(f) /\ flow'[f] \in Flow
  BY DEF Steady, IsGone, GoesOn, Alive
<1>2. ASSUME NEW l \in Listeners PROVE FlowsOf(l)' \subseteq FlowsOf(l)
  BY <1>1 DEF FlowsOf, GoesOn
<1>3. ASSUME NEW l \in Listeners, NEW f \in Live(l)' PROVE f \in Live(l)
  <2>1. f \in Alive' /\ f \in FlowsOf(l) /\ flow'[f].place \in {"open", "starting"}
    BY <1>2, <1>3 DEF Live, At, FlowsOf
  <2>2. flow[f] \in Flow /\ GoesOn(f)
    BY <2>1, <1>1, AliveTypes
  <2>3. flow[f].place \in {"open", "starting"}
    BY <2>1, <2>2 DEF GoesOn, Flow
  <2>4. QED BY <2>1, <2>3 DEF Live, At
<1>4. QED BY <1>1, <1>2, <1>3

\* Nothing happens to the flows.
LEMMA UnchangedSteady ==
  ASSUME TypeOK, Numbered, UNCHANGED flow
  PROVE  Steady /\ KeepsSlots
<1>1. ASSUME NEW f \in Flows PROVE IsGone(f) \/ GoesOn(f)
  BY DEF IsGone, GoesOn
<1>2. QED BY <1>1 DEF Steady, KeepsSlots, TypeOK

\* A flow ends: nobody else's changes.
LEMMA GiveUpSteady ==
  ASSUME TypeOK, NEW f \in Alive, GiveUp(f)
  PROVE  /\ Steady /\ KeepsSlots /\ tracker' = tracker
         /\ flow'[f] # None /\ flow'[f].place = "over"
         /\ \A g \in Flows \ {f} : flow'[g] = flow[g]
<1>1. f \in Flows /\ flow[f] \in Flow /\ flow[f] # None /\ flow \in [Flows -> Flow \cup {None}]
  BY AliveTypes DEF TypeOK
<1>2. /\ flow' \in [Flows -> Flow \cup {None}] /\ flow'[f] \in Flow
      /\ \A g \in Flows \ {f} : flow'[g] = flow[g]
      /\ flow'[f] = [flow[f] EXCEPT !.place = "over", !.closed = TRUE]
  BY <1>1 DEF GiveUp, Flow
<1>3. flow'[f] # None
  BY <1>2, FlowsAssumption
<1>4. /\ flow'[f].place = "over" /\ flow'[f].closed = TRUE
      /\ flow'[f].listener = flow[f].listener /\ flow'[f].client = flow[f].client
      /\ flow'[f].gen = flow[f].gen /\ flow'[f].rule = flow[f].rule
      /\ flow'[f].holds = flow[f].holds
  BY <1>1, <1>2 DEF Flow
<1>5. \A g \in Flows : IsGone(g) \/ GoesOn(g)
  BY <1>1, <1>2, <1>3, <1>4 DEF IsGone, GoesOn
<1>6. QED BY <1>1, <1>2, <1>3, <1>4, <1>5 DEF Steady, KeepsSlots, GiveUp, Alive

\* A flow that was starting is open.
LEMMA OpensSteady ==
  ASSUME TypeOK, NEW f \in Alive, flow[f].place = "starting",
         flow' = [flow EXCEPT ![f].place = "open"]
  PROVE  /\ Steady /\ KeepsSlots
         /\ flow'[f] # None /\ flow'[f].place = "open"
         /\ \A g \in Flows \ {f} : flow'[g] = flow[g]
<1>1. f \in Flows /\ flow[f] \in Flow /\ flow[f] # None /\ flow \in [Flows -> Flow \cup {None}]
  BY AliveTypes DEF TypeOK
<1>2. /\ flow' \in [Flows -> Flow \cup {None}] /\ flow'[f] \in Flow
      /\ \A g \in Flows \ {f} : flow'[g] = flow[g]
      /\ flow'[f] = [flow[f] EXCEPT !.place = "open"]
  BY <1>1 DEF Flow
<1>3. flow'[f] # None
  BY <1>2, FlowsAssumption
<1>4. /\ flow'[f].place = "open" /\ flow'[f].closed = flow[f].closed
      /\ flow'[f].listener = flow[f].listener /\ flow'[f].client = flow[f].client
      /\ flow'[f].gen = flow[f].gen /\ flow'[f].rule = flow[f].rule
      /\ flow'[f].holds = flow[f].holds
  BY <1>1, <1>2 DEF Flow
<1>5. \A g \in Flows : IsGone(g) \/ GoesOn(g)
  BY <1>1, <1>2, <1>3, <1>4 DEF IsGone, GoesOn
<1>6. QED BY <1>1, <1>2, <1>3, <1>4, <1>5 DEF Steady, KeepsSlots, Alive

-----------------------------------------------------------------------------
(* What steady steps keep *)

\* Slots are counted as they were.
LEMMA SteadySlots ==
  ASSUME TypeOK, Steady, KeepsSlots, tracker' = tracker, SlotsBalanced, Within
  PROVE  SlotsBalanced' /\ Within'
<1>1. ASSUME NEW t \in TrackerIDs
      PROVE  /\ Holders(t)' = Holders(t)
             /\ \A f \in Holders(t) : flow'[f].client = flow[f].client
  <2>1. ASSUME NEW f \in Holders(t)'
        PROVE  f \in Holders(t) /\ flow'[f].client = flow[f].client
    BY <2>1, SteadyFacts DEF Holders, KeepsSlots, Alive, GoesOn
  <2>2. ASSUME NEW f \in Holders(t)
        PROVE  f \in Holders(t)' /\ flow'[f].client = flow[f].client
    <3>1. f \in Alive /\ flow[f].holds # {}
      BY <2>2 DEF Holders
    <3>2. GoesOn(f)
      BY <3>1, AliveTypes DEF Steady, IsGone
    <3>3. QED BY <2>2, <3>1, <3>2, AliveTypes DEF Holders, KeepsSlots, Alive, GoesOn
  <2>3. QED BY <2>1, <2>2
<1>2. ASSUME NEW t \in TrackerIDs, NEW i \in IPs
      PROVE  {f \in Holders(t) : IPof[flow[f].client] = i}'
               = {f \in Holders(t) : IPof[flow[f].client] = i}
  BY <1>1
<1>3. SlotsBalanced'
  BY <1>1, <1>2 DEF SlotsBalanced
<1>4. Within'
  BY DEF Within, Busy
<1>5. QED BY <1>3, <1>4

\* Listeners that were swept stay swept.
LEMMA SteadySwept ==
  ASSUME TypeOK, Steady, missed \subseteq missed', NEW l \in Listeners, Swept(l)
  PROVE  Swept(l)'
<1>1. ASSUME NEW f \in Live(l)' PROVE flow'[f].closed \/ l \in missed'
  <2>1. f \in Live(l) /\ f \in Alive'
    BY <1>1, SteadyFacts DEF Live, At, FlowsOf
  <2>2. QED BY <2>1, SteadyFacts DEF Swept, GoesOn
<1>2. QED BY <1>1 DEF Swept

\* Flows keep the notice they are on as long as what gives it lasts.
LEMMA SteadyNotice ==
  ASSUME TypeOK, Steady, OldFlowsOnNotice, missed \subseteq missed',
         config' = config, UNCHANGED <<state, timers, drainer, stopper, toStop>>
  PROVE  OldFlowsOnNotice'
<1>1. ASSUME NEW l \in Listeners, NEW f \in Live(l)'
      PROVE  \/ flow'[f].closed
             \/ flow'[f].gen = config.gen /\ state[l] = "active"
             \/ flow'[f].gen \in timers[l]
             \/ drainer[l] = "waiting" \/ stopper[l] = "signalled" \/ l \in toStop
             \/ l \in missed'
  <2>1. f \in Live(l) /\ f \in Alive'
    BY <1>1, SteadyFacts DEF Live, At, FlowsOf
  <2>2. flow'[f].gen = flow[f].gen /\ (flow[f].closed => flow'[f].closed)
    BY <2>1, SteadyFacts DEF GoesOn
  <2>3. QED BY <2>1, <2>2 DEF OldFlowsOnNotice, OnNotice, Live
<1>2. QED BY <1>1 DEF OldFlowsOnNotice, OnNotice, Live

\* The map of the sessions is right as long as no session opens or ends.
LEMMA SameSessions ==
  ASSUME Mapped, sessions' = sessions,
         \A l \in Udp : At(l, "open")' = At(l, "open"),
         \A l \in Udp : \A f \in At(l, "open") : flow'[f].client = flow[f].client
  PROVE  Mapped'
BY DEF Mapped, SessionsOf

-----------------------------------------------------------------------------
(* Sessions *)

\* The map of a UDP listener is finite, and holds as many sessions as are open.
LEMMA SessionsCounted ==
  ASSUME TypeOK, Mapped, NEW l \in Udp
  PROVE  /\ IsFiniteSet(SessionsOf(l)) /\ IsFiniteSet(At(l, "open"))
         /\ Cardinality(At(l, "open")) <= Cardinality(SessionsOf(l))
<1> DEFINE held == [c \in SessionsOf(l) |-> sessions[l][c]]
           of == [f \in At(l, "open") |-> flow[f].client]
<1>1. \A c \in SessionsOf(l) : /\ sessions[l][c] \in Flows
                               /\ flow[sessions[l][c]].client = c
  BY FlowsAssumption DEF Mapped, SessionsOf, TypeOK
<1>2. held \in Injection(SessionsOf(l), Flows)
  <2>1. held \in [SessionsOf(l) -> Flows]
    BY <1>1
  <2>2. \A c, d \in SessionsOf(l) : held[c] = held[d] => c = d
    BY <1>1
  <2>3. QED BY <2>1, <2>2 DEF Injection, IsInjective
<1>3. IsFiniteSet(SessionsOf(l))
  BY <1>2, FS_Injection, FlowsAssumption
<1>4. of \in Injection(At(l, "open"), SessionsOf(l))
  <2>1. \A f \in At(l, "open") : /\ flow[f].client \in Clients /\ f # None
                                 /\ sessions[l][flow[f].client] = f
    BY AliveTypes, FlowsAssumption DEF Mapped, Flow
  <2>2. of \in [At(l, "open") -> SessionsOf(l)]
    BY <2>1 DEF SessionsOf
  <2>3. \A f, g \in At(l, "open") : of[f] = of[g] => f = g
    BY <2>1
  <2>4. QED BY <2>2, <2>3 DEF Injection, IsInjective
<1>5. QED BY <1>3, <1>4, FS_Injection

\* Flows closed by others: a session leaves the map as it ends.
LEMMA CloseFlowsSteady ==
  ASSUME TypeOK, Mapped, NEW l \in Listeners, NEW S, S \subseteq At(l, "open"),
         CloseFlows(l, S)
  PROVE  /\ Steady /\ KeepsSlots
         /\ sessions' \in [Udp -> [Clients -> Flows \cup {None}]]
         /\ Mapped'
         /\ \A f \in S : flow'[f].closed
         /\ \A f \in Flows \ S : flow'[f] = flow[f]
<1>1. S \subseteq Alive /\ S \subseteq Flows /\ None \notin S
  BY AliveTypes, FlowsAssumption DEF At, FlowsOf
<1>2. /\ \A f \in Flows : flow'[f] =
             IF f \in S
               THEN IF l \in Udp THEN [flow[f] EXCEPT !.place = "over", !.closed = TRUE]
                                 ELSE [flow[f] EXCEPT !.closed = TRUE]
               ELSE flow[f]
      /\ DOMAIN flow' = Flows /\ flow' = [f \in Flows |-> flow'[f]]
  BY DEF CloseFlows
<1>3. ASSUME NEW f \in S
      PROVE  /\ f \in Flows /\ flow[f] \in Flow /\ flow'[f] \in Flow /\ flow'[f] # None
             /\ flow[f].place = "open" /\ flow[f].listener = l
             /\ flow'[f].place = IF l \in Udp THEN "over" ELSE "open"
             /\ flow'[f].closed = TRUE
             /\ flow'[f].listener = flow[f].listener /\ flow'[f].client = flow[f].client
             /\ flow'[f].gen = flow[f].gen /\ flow'[f].rule = flow[f].rule
             /\ flow'[f].holds = flow[f].holds
  <2>1. f \in Flows /\ flow[f] \in Flow /\ flow[f].place = "open" /\ flow[f].listener = l
    BY <1>1, AliveTypes DEF At, FlowsOf
  <2>2. flow'[f] \in Flow
    BY <1>2, <2>1, ZenonT(30) DEF Flow
  <2>3. flow'[f] # None
    BY <2>2, FlowsAssumption
  <2>4. QED BY <1>2, <2>1, <2>2, <2>3, ZenonT(30) DEF Flow
<1>4. \A f \in Flows \ S : flow'[f] = flow[f]
  BY <1>2
<1>5. flow' \in [Flows -> Flow \cup {None}]
  BY <1>2, <1>3, <1>4 DEF TypeOK
<1>6. \A f \in Flows : IsGone(f) \/ GoesOn(f)
  BY <1>1, <1>3, <1>4 DEF IsGone, GoesOn, Alive
<1>7. KeepsSlots
  BY <1>3, <1>4 DEF KeepsSlots, Alive
<1>8. \A m, f : f \in At(m, "open") <=>
        f \in Flows /\ flow[f] # None /\ flow[f].listener = m /\ flow[f].place = "open"
  BY DEF At, FlowsOf, Alive
<1>9. \A m, f : f \in At(m, "open")' <=>
        f \in Flows /\ flow'[f] # None /\ flow'[f].listener = m /\ flow'[f].place = "open"
  BY DEF At, FlowsOf, Alive
<1>10. CASE l \notin Udp
  <2>1. sessions' = sessions
    BY <1>10 DEF CloseFlows
  <2>2. ASSUME NEW m \in Udp
        PROVE  At(m, "open")' = At(m, "open") /\ At(m, "open") \cap S = {}
    <3>1. At(m, "open") \cap S = {}
      BY <1>3, <1>8, <1>10
    <3>2. ASSUME NEW f \in Flows
          PROVE  f \in At(m, "open")' <=> f \in At(m, "open")
      <4>1. CASE f \in S
        <5>1. f \notin At(m, "open")
          BY <3>1, <4>1
        <5>2. flow'[f].listener # m
          <6>1. flow[f].listener = l /\ flow'[f].listener = flow[f].listener
            BY <4>1, <1>3
          <6>2. l # m
            BY <1>10
          <6>3. QED BY <6>1, <6>2
        <5>3. QED BY <5>1, <5>2, <1>9
      <4>2. CASE f \notin S
        BY <4>2, <1>4, <1>8, <1>9
      <4>3. QED BY <4>1, <4>2
    <3>3. QED BY <3>1, <3>2, <1>8, <1>9
  <2>3. \A m \in Udp : \A f \in At(m, "open") : flow'[f].client = flow[f].client
    BY <1>4, <2>2, AliveTypes
  <2>4. Mapped'
    BY <2>1, <2>2, <2>3, SameSessions
  <2>5. QED BY <1>3, <1>4, <1>5, <1>6, <1>7, <2>1, <2>4 DEF Steady, TypeOK
<1>11. CASE l \in Udp
  <2>1. /\ sessions' \in [Udp -> [Clients -> Flows \cup {None}]]
        /\ \A m \in Udp, c \in Clients :
             sessions'[m][c] = IF m = l /\ sessions[l][c] \in S THEN None ELSE sessions[m][c]
    BY <1>11 DEF CloseFlows, TypeOK
  <2>2. ASSUME NEW m \in Udp
        PROVE  At(m, "open")' = At(m, "open") \ S
    <3>1. ASSUME NEW f \in Flows
          PROVE  f \in At(m, "open")' <=> f \in At(m, "open") \ S
      <4>1. CASE f \in S
        <5>1. flow'[f].place # "open"
          BY <4>1, <1>3, <1>11
        <5>2. QED BY <4>1, <5>1, <1>9
      <4>2. CASE f \notin S
        BY <4>2, <1>4, <1>8, <1>9
      <4>3. QED BY <4>1, <4>2
    <3>2. QED BY <3>1, <1>8, <1>9
  <2>3. ASSUME NEW m \in Udp, NEW c \in Clients, sessions'[m][c] # None
        PROVE  sessions'[m][c] \in At(m, "open")' /\ flow'[sessions'[m][c]].client = c
    <3>1. /\ sessions'[m][c] = sessions[m][c] /\ (m = l => sessions[m][c] \notin S)
          /\ sessions[m][c] \in At(m, "open") /\ flow[sessions[m][c]].client = c
      BY <2>1, <2>3 DEF Mapped
    <3>2. sessions[m][c] \notin S /\ sessions[m][c] \in Flows
      BY <3>1, <1>3, AliveTypes DEF At, FlowsOf
    <3>3. QED BY <3>1, <3>2, <2>2, <1>4
  <2>4. ASSUME NEW m \in Udp, NEW f \in At(m, "open")'
        PROVE  sessions'[m][flow'[f].client] = f
    <3>1. f \in At(m, "open") /\ f \notin S /\ f \in Flows /\ flow[f] \in Flow
      BY <2>2, <2>4, AliveTypes
    <3>2. sessions[m][flow[f].client] = f /\ flow[f].client \in Clients
      BY <3>1 DEF Mapped, Flow
    <3>3. QED BY <3>1, <3>2, <2>1, <1>4
  <2>5. ASSUME NEW m \in Udp
        PROVE  Cardinality(SessionsOf(m)') <= SessionCap
    <3>1. SessionsOf(m)' \subseteq SessionsOf(m)
      BY <2>1 DEF SessionsOf
    <3>2. /\ IsFiniteSet(SessionsOf(m)) /\ Cardinality(SessionsOf(m)) \in Nat
          /\ IsFiniteSet(SessionsOf(m)') /\ Cardinality(SessionsOf(m)') \in Nat
          /\ Cardinality(SessionsOf(m)') <= Cardinality(SessionsOf(m))
      BY <3>1, SessionsCounted, FS_Subset, FS_CardinalityType
    <3>3. QED BY <3>2, LimitsAssumption DEF Mapped
  <2>6. Mapped'
    BY <2>3, <2>4, <2>5 DEF Mapped
  <2>7. QED BY <1>3, <1>4, <1>5, <1>6, <1>7, <2>1, <2>6 DEF Steady
<1>12. QED BY <1>10, <1>11

-----------------------------------------------------------------------------
(* Slots *)

\* The flows a tracker counts are finitely many, and so are their addresses.
LEMMA SlotsFinite ==
  ASSUME TypeOK, SlotsBalanced, NEW t \in TrackerIDs
  PROVE  /\ IsFiniteSet(Holders(t))
         /\ Busy(t) = {IPof[flow[f].client] : f \in Holders(t)}
         /\ IsFiniteSet(Busy(t))
         /\ \A i \in IPs : IsFiniteSet({f \in Holders(t) : IPof[flow[f].client] = i})
<1> DEFINE addresses == {IPof[flow[f].client] : f \in Holders(t)}
           at(i) == {f \in Holders(t) : IPof[flow[f].client] = i}
           address == [f \in Holders(t) |-> IPof[flow[f].client]]
<1>1. Holders(t) \subseteq Flows /\ Holders(t) \subseteq Alive
  BY DEF Holders, Alive
<1>2. IsFiniteSet(Holders(t))
  BY <1>1, FS_Subset, FlowsAssumption
<1>3. \A i \in IPs : IsFiniteSet(at(i))
  BY <1>2, FS_Subset
<1>4. \A f \in Holders(t) : IPof[flow[f].client] \in IPs
  BY <1>1, AliveTypes, ClientsAssumption DEF Flow
<1>5. ASSUME NEW i \in IPs PROVE tracker[t].ips[i] > 0 <=> at(i) # {}
  <2>1. tracker[t].ips[i] = Cardinality(at(i))
    BY DEF SlotsBalanced
  <2>2. Cardinality(at(i)) \in Nat /\ (Cardinality(at(i)) = 0 <=> at(i) = {})
    BY <1>3, FS_CardinalityType, FS_EmptySet
  <2>3. QED BY <2>1, <2>2
<1>6. Busy(t) = addresses
  BY <1>4, <1>5 DEF Busy
<1>7. address \in Surjection(Holders(t), addresses)
  BY DEF Surjection
<1>8. IsFiniteSet(addresses)
  BY <1>2, <1>7, FS_Surjection
<1>9. QED BY <1>2, <1>3, <1>6, <1>8

\* A flow takes a slot or gives it back.
LEMMA SlotSteady ==
  ASSUME TypeOK, NEW f \in Alive, NEW h \in SUBSET (flow[f].holds \cup {0, flow[f].rule}),
         flow' = [flow EXCEPT ![f].holds = h]
  PROVE  /\ Steady
         /\ flow'[f] # None /\ flow'[f].place = flow[f].place /\ flow'[f].holds = h
         /\ flow'[f].client = flow[f].client /\ flow'[f].listener = flow[f].listener
         /\ \A g \in Flows \ {f} : flow'[g] = flow[g]
<1>1. f \in Flows /\ flow[f] \in Flow /\ flow[f] # None /\ flow \in [Flows -> Flow \cup {None}]
  BY AliveTypes DEF TypeOK
<1>2. h \in SUBSET TrackerIDs
  BY <1>1, LimitsAssumption DEF Flow, TrackerIDs
<1>3. /\ flow' \in [Flows -> Flow \cup {None}] /\ flow'[f] \in Flow
      /\ \A g \in Flows \ {f} : flow'[g] = flow[g]
      /\ flow'[f] = [flow[f] EXCEPT !.holds = h]
  BY <1>1, <1>2 DEF Flow
<1>4. flow'[f] # None
  BY <1>3, FlowsAssumption
<1>5. /\ flow'[f].place = flow[f].place /\ flow'[f].closed = flow[f].closed
      /\ flow'[f].listener = flow[f].listener /\ flow'[f].client = flow[f].client
      /\ flow'[f].gen = flow[f].gen /\ flow'[f].rule = flow[f].rule
      /\ flow'[f].holds = h
  BY <1>1, <1>3 DEF Flow
<1>6. \A g \in Flows : IsGone(g) \/ GoesOn(g)
  BY <1>1, <1>3, <1>4, <1>5 DEF IsGone, GoesOn
<1>7. QED BY <1>3, <1>4, <1>5, <1>6 DEF Steady

\* What acquiring and releasing do to a tracker.
Tracker == [limit : Limit, active : Nat, ips : [IPs -> Nat]]
LEMMA AcquiredTracker ==
  ASSUME NEW u \in Tracker, NEW ip \in IPs
  PROVE  /\ Acquired(u, ip) \in Tracker
         /\ Acquired(u, ip).limit = u.limit
         /\ Acquired(u, ip).active = u.active + 1
         /\ \A i \in IPs : Acquired(u, ip).ips[i]
                             = IF i = ip THEN u.ips[i] + 1 ELSE u.ips[i]
<1> DEFINE r == Acquired(u, ip)
<1>1. u.active \in Nat /\ u.ips \in [IPs -> Nat] /\ u.ips[ip] \in Nat /\ u.limit \in Limit
  BY DEF Tracker
<1>2. /\ r.limit = u.limit /\ r.active = u.active + 1
      /\ r.ips = [u.ips EXCEPT ![ip] = u.ips[ip] + 1]
  BY <1>1 DEF Acquired, Tracker
<1>3. r \in Tracker
  <2> DEFINE ips == [u.ips EXCEPT ![ip] = u.ips[ip] + 1]
  <2>1. ips \in [IPs -> Nat] /\ u.active + 1 \in Nat
    BY <1>1
  <2>2. r = [u EXCEPT !.active = u.active + 1, !.ips = ips]
    BY <1>1 DEF Acquired, Tracker
  <2>3. \A a \in Nat, g \in [IPs -> Nat] : [u EXCEPT !.active = a, !.ips = g] \in Tracker
    BY DEF Tracker
  <2>4. QED BY <2>1, <2>2, <2>3
<1>4. QED BY <1>1, <1>2, <1>3

LEMMA ReleasedTracker ==
  ASSUME NEW u \in Tracker, NEW ip \in IPs, u.active > 0, u.ips[ip] > 0
  PROVE  /\ Released(u, ip) \in Tracker
         /\ Released(u, ip).limit = u.limit
         /\ Released(u, ip).active = u.active - 1
         /\ \A i \in IPs : Released(u, ip).ips[i]
                             = IF i = ip THEN u.ips[i] - 1 ELSE u.ips[i]
<1> DEFINE r == Released(u, ip)
<1>1. u.active \in Nat /\ u.ips \in [IPs -> Nat] /\ u.ips[ip] \in Nat /\ u.limit \in Limit
  BY DEF Tracker
<1>2. /\ r.limit = u.limit /\ r.active = u.active - 1
      /\ r.ips = [u.ips EXCEPT ![ip] = u.ips[ip] - 1]
  BY <1>1 DEF Released, Tracker
<1>3. r \in Tracker
  <2> DEFINE ips == [u.ips EXCEPT ![ip] = u.ips[ip] - 1]
  <2>1. ips \in [IPs -> Nat] /\ u.active - 1 \in Nat
    BY <1>1
  <2>2. r = [u EXCEPT !.active = u.active - 1, !.ips = ips]
    BY <1>1 DEF Released, Tracker
  <2>3. \A a \in Nat, g \in [IPs -> Nat] : [u EXCEPT !.active = a, !.ips = g] \in Tracker
    BY DEF Tracker
  <2>4. QED BY <2>1, <2>2, <2>3
<1>4. QED BY <1>1, <1>2, <1>3

\* A tracker that changes leaves the others as they are.
LEMMA OtherSlots ==
  ASSUME TypeOK, SlotsBalanced, Within, NEW f \in Alive, NEW t \in TrackerIDs,
         flow'[f] # None, flow'[f].client = flow[f].client,
         \A u \in TrackerIDs \ {t} : u \in flow'[f].holds <=> u \in flow[f].holds,
         \A g \in Flows \ {f} : flow'[g] = flow[g],
         \A u \in TrackerIDs \ {t} : tracker'[u] = tracker[u],
         tracker'[t].active = Cardinality(Holders(t)'),
         \A i \in IPs : tracker'[t].ips[i]
                          = Cardinality({g \in Holders(t)' : IPof[flow'[g].client] = i}),
         LET limit == tracker'[t].limit IN
           /\ limit.conns > 0 => tracker'[t].active <= limit.conns
           /\ limit.ips > 0 => Cardinality(Busy(t)') <= limit.ips
  PROVE  SlotsBalanced' /\ Within'
<1>1. ASSUME NEW u \in TrackerIDs \ {t}
      PROVE  Holders(u)' = Holders(u) /\ Busy(u)' = Busy(u)
  BY AliveTypes DEF Holders, Alive, Busy
<1>2. ASSUME NEW u \in TrackerIDs \ {t}, NEW i \in IPs
      PROVE  {g \in Holders(u)' : IPof[flow'[g].client] = i}
               = {g \in Holders(u) : IPof[flow[g].client] = i}
  BY <1>1 DEF Holders, Alive
<1>3. SlotsBalanced'
  <2>1. ASSUME NEW u \in TrackerIDs
        PROVE  /\ tracker'[u].active = Cardinality(Holders(u)')
               /\ \A i \in IPs : tracker'[u].ips[i]
                    = Cardinality({g \in Holders(u)' : IPof[flow'[g].client] = i})
    <3>1. CASE u = t
      BY <3>1
    <3>2. CASE u # t
      BY <3>2, <1>1, <1>2 DEF SlotsBalanced
    <3>3. QED BY <3>1, <3>2
  <2>2. QED BY <2>1 DEF SlotsBalanced
<1>4. Within'
  <2>1. ASSUME NEW u \in TrackerIDs
        PROVE  LET limit == tracker'[u].limit IN
               /\ limit.conns > 0 => tracker'[u].active <= limit.conns
               /\ limit.ips > 0 => Cardinality(Busy(u)') <= limit.ips
    <3>1. CASE u = t
      BY <3>1
    <3>2. CASE u # t
      BY <3>2, <1>1 DEF Within
    <3>3. QED BY <3>1, <3>2
  <2>2. QED BY <2>1 DEF Within
<1>5. QED BY <1>3, <1>4

\* A tracker admits a flow and counts it.
LEMMA CountSlots ==
  ASSUME TypeOK, SlotsBalanced, Within, NEW f \in Alive, NEW t \in TrackerIDs,
         t \in {0, flow[f].rule}, flow[f].holds \subseteq {0, flow[f].rule},
         t \notin flow[f].holds,
         Admits(tracker[t], IPof[flow[f].client]), Count(f, t)
  PROVE  /\ tracker' \in [TrackerIDs -> Tracker]
         /\ SlotsBalanced' /\ Within'
<1> DEFINE ip == IPof[flow[f].client]
           at(i) == {g \in Holders(t) : IPof[flow[g].client] = i}
<1>1. f \in Flows /\ flow[f] \in Flow /\ ip \in IPs
  BY AliveTypes, ClientsAssumption DEF Flow
<1>2. /\ flow'[f] # None /\ flow'[f].client = flow[f].client
      /\ flow'[f].holds = flow[f].holds \cup {t}
      /\ \A g \in Flows \ {f} : flow'[g] = flow[g]
  <2>1. flow' = [flow EXCEPT ![f].holds = flow[f].holds \cup {t}]
    BY DEF Count
  <2>2. QED BY <2>1, SlotSteady, ZenonT(30)
<1>3. /\ tracker[t] \in Tracker
      /\ tracker[t].limit.conns \in Nat /\ tracker[t].limit.ips \in Nat
      /\ tracker[t].active \in Nat /\ \A i \in IPs : tracker[t].ips[i] \in Nat
  BY DEF TypeOK, Limit, Tracker
<1>4. /\ tracker' \in [TrackerIDs -> Tracker]
      /\ \A u \in TrackerIDs \ {t} : tracker'[u] = tracker[u]
      /\ tracker'[t].limit = tracker[t].limit
      /\ tracker'[t].active = tracker[t].active + 1
      /\ \A i \in IPs : tracker'[t].ips[i]
                          = IF i = ip THEN tracker[t].ips[i] + 1 ELSE tracker[t].ips[i]
  <2>1. tracker' = [tracker EXCEPT ![t] = Acquired(tracker[t], ip)]
    BY DEF Count
  <2>2. tracker \in [TrackerIDs -> Tracker]
    BY DEF TypeOK, Tracker
  <2>3. tracker'[t] = Acquired(tracker[t], ip)
    BY <2>1, <2>2
  <2>4. QED BY <1>1, <1>3, <2>1, <2>2, <2>3, AcquiredTracker
<1>5. Holders(t)' = Holders(t) \cup {f} /\ f \notin Holders(t)
  BY <1>1, <1>2 DEF Holders, Alive
<1>6. \A i \in IPs : {g \in Holders(t)' : IPof[flow'[g].client] = i}
                       = IF i = ip THEN at(i) \cup {f} ELSE at(i)
  BY <1>1, <1>2, <1>5 DEF Holders, Alive
<1>7. tracker'[t].active = Cardinality(Holders(t)')
  <2>1. IsFiniteSet(Holders(t))
    BY SlotsFinite
  <2>2. Cardinality(Holders(t) \cup {f}) = Cardinality(Holders(t)) + 1
    BY <2>1, <1>5, FS_AddElement
  <2>3. QED BY <2>2, <1>4, <1>5 DEF SlotsBalanced
<1>8. ASSUME NEW i \in IPs
      PROVE  tracker'[t].ips[i] = Cardinality({g \in Holders(t)' : IPof[flow'[g].client] = i})
  <2>1. tracker[t].ips[i] = Cardinality(at(i)) /\ IsFiniteSet(at(i)) /\ f \notin at(i)
    BY <1>5, SlotsFinite DEF SlotsBalanced
  <2>2. Cardinality(at(i) \cup {f}) = Cardinality(at(i)) + 1
    BY <2>1, FS_AddElement
  <2>3. tracker[t].ips[i] \in Nat
    BY <1>3
  <2>4. QED BY <1>4, <1>6, <2>1, <2>2, <2>3
<1>9. tracker[t].limit.conns > 0 => tracker'[t].active <= tracker[t].limit.conns
  BY <1>3, <1>4 DEF Admits
<1>10. Busy(t)' = Busy(t) \cup {ip}
  BY <1>1, <1>3, <1>4 DEF Busy
<1>11. tracker[t].limit.ips > 0 => Cardinality(Busy(t)') <= tracker[t].limit.ips
  <2>1. IsFiniteSet(Busy(t)) /\ Cardinality(Busy(t)) \in Nat
    BY SlotsFinite, FS_CardinalityType
  <2>2. CASE tracker[t].ips[ip] > 0
    <3>1. Busy(t)' = Busy(t)
      BY <2>2, <1>1, <1>10 DEF Busy
    <3>2. QED BY <3>1 DEF Within
  <2>3. CASE tracker[t].limit.ips # 0 /\ Cardinality(Busy(t)) < tracker[t].limit.ips
    <3>1. Cardinality(Busy(t)') <= Cardinality(Busy(t)) + 1
      BY <1>10, <2>1, FS_AddElement
    <3>2. Cardinality(Busy(t)') \in Nat
      BY <1>10, <2>1, FS_AddElement, FS_CardinalityType
    <3>3. QED BY <2>1, <2>3, <3>1, <3>2, <1>3
  <2>4. CASE tracker[t].limit.ips = 0
    BY <2>4
  <2>5. QED BY <2>2, <2>3, <2>4 DEF Admits, Busy
<1>12. \A u \in TrackerIDs \ {t} : u \in flow'[f].holds <=> u \in flow[f].holds
  BY <1>2
<1>13. SlotsBalanced' /\ Within'
  BY <1>2, <1>4, <1>7, <1>8, <1>9, <1>11, <1>12, OtherSlots
<1>14. QED BY <1>4, <1>13

\* A flow gives a slot back: the tracker counts it no more.
LEMMA UncountSlots ==
  ASSUME TypeOK, SlotsBalanced, Within, NEW f \in Alive, NEW t \in TrackerIDs,
         t \in {0, flow[f].rule}, flow[f].holds \subseteq {0, flow[f].rule},
         t \in flow[f].holds, Uncount(f, t)
  PROVE  /\ tracker' \in [TrackerIDs -> Tracker]
         /\ SlotsBalanced' /\ Within'
<1> DEFINE ip == IPof[flow[f].client]
           at(i) == {g \in Holders(t) : IPof[flow[g].client] = i}
<1>1. f \in Flows /\ flow[f] \in Flow /\ ip \in IPs
  BY AliveTypes, ClientsAssumption DEF Flow
<1>2. /\ flow'[f] # None /\ flow'[f].client = flow[f].client
      /\ flow'[f].holds = flow[f].holds \ {t}
      /\ \A g \in Flows \ {f} : flow'[g] = flow[g]
  <2>1. flow' = [flow EXCEPT ![f].holds = flow[f].holds \ {t}]
    BY DEF Uncount
  <2>2. flow[f].holds \ {t} \in SUBSET (flow[f].holds \cup {0, flow[f].rule})
    OBVIOUS
  <2>3. QED BY <2>1, <2>2, SlotSteady
<1>3. /\ tracker[t] \in Tracker
      /\ tracker[t].limit.conns \in Nat /\ tracker[t].limit.ips \in Nat
      /\ tracker[t].active \in Nat /\ \A i \in IPs : tracker[t].ips[i] \in Nat
  BY DEF TypeOK, Limit, Tracker
<1>4. f \in Holders(t) /\ f \in at(ip)
  BY DEF Holders
<1>5. /\ IsFiniteSet(Holders(t)) /\ Cardinality(Holders(t)) \in Nat
      /\ Cardinality(Holders(t)) # 0 /\ IsFiniteSet(at(ip))
      /\ Cardinality(at(ip)) \in Nat /\ Cardinality(at(ip)) # 0
  <2>1. IsFiniteSet(Holders(t)) /\ IsFiniteSet(at(ip))
    BY <1>1, SlotsFinite
  <2>2. QED BY <2>1, <1>4, FS_CardinalityType, FS_EmptySet
<1>6. /\ tracker[t].active = Cardinality(Holders(t)) /\ tracker[t].active > 0
      /\ tracker[t].ips[ip] = Cardinality(at(ip)) /\ tracker[t].ips[ip] > 0
  BY <1>1, <1>5 DEF SlotsBalanced
<1>7. /\ tracker' \in [TrackerIDs -> Tracker]
      /\ \A u \in TrackerIDs \ {t} : tracker'[u] = tracker[u]
      /\ tracker'[t].limit = tracker[t].limit
      /\ tracker'[t].active = tracker[t].active - 1
      /\ \A i \in IPs : tracker'[t].ips[i]
                          = IF i = ip THEN tracker[t].ips[i] - 1 ELSE tracker[t].ips[i]
  <2>1. tracker' = [tracker EXCEPT ![t] = Released(tracker[t], ip)]
    BY DEF Uncount
  <2>2. tracker \in [TrackerIDs -> Tracker]
    BY DEF TypeOK, Tracker
  <2>3. tracker'[t] = Released(tracker[t], ip)
    BY <2>1, <2>2
  <2>4. QED BY <1>1, <1>3, <1>6, <2>1, <2>2, <2>3, ReleasedTracker
<1>8. Holders(t)' = Holders(t) \ {f}
  BY <1>1, <1>2, <1>4 DEF Holders, Alive
<1>9. \A i \in IPs : {g \in Holders(t)' : IPof[flow'[g].client] = i}
                       = IF i = ip THEN at(i) \ {f} ELSE at(i)
  BY <1>1, <1>2, <1>8 DEF Holders, Alive
<1>10. tracker'[t].active = Cardinality(Holders(t)')
  BY <1>4, <1>5, <1>6, <1>7, <1>8, FS_RemoveElement
<1>11. ASSUME NEW i \in IPs
       PROVE  tracker'[t].ips[i] = Cardinality({g \in Holders(t)' : IPof[flow'[g].client] = i})
  <2>1. tracker[t].ips[i] = Cardinality(at(i)) /\ tracker[t].ips[i] \in Nat
    BY <1>3 DEF SlotsBalanced
  <2>2. CASE i = ip
    <3>1. Cardinality(at(ip) \ {f}) = Cardinality(at(ip)) - 1
      BY <1>4, <1>5, FS_RemoveElement
    <3>2. QED BY <2>1, <2>2, <3>1, <1>7, <1>9, ZenonT(30)
  <2>3. CASE i # ip
    BY <2>1, <2>3, <1>7, <1>9
  <2>4. QED BY <2>2, <2>3
<1>12. tracker[t].limit.conns > 0 => tracker'[t].active <= tracker[t].limit.conns
  BY <1>3, <1>7 DEF Within
<1>13. tracker[t].limit.ips > 0 => Cardinality(Busy(t)') <= tracker[t].limit.ips
  <2>1. Busy(t)' \subseteq Busy(t)
    BY <1>3, <1>7 DEF Busy
  <2>2. IsFiniteSet(Busy(t))
    BY SlotsFinite
  <2>3. /\ Cardinality(Busy(t)') <= Cardinality(Busy(t))
        /\ Cardinality(Busy(t)) \in Nat /\ Cardinality(Busy(t)') \in Nat
    BY <2>1, <2>2, FS_Subset, FS_CardinalityType
  <2>4. QED BY <2>3, <1>3 DEF Within
<1>14. \A u \in TrackerIDs \ {t} : u \in flow'[f].holds <=> u \in flow[f].holds
  BY <1>2
<1>15. SlotsBalanced' /\ Within'
  BY <1>2, <1>7, <1>10, <1>11, <1>12, <1>13, <1>14, OtherSlots
<1>16. QED BY <1>7, <1>15

-----------------------------------------------------------------------------
(* The invariant holds of every state, one action at a time *)

\* It holds in the initial states.
LEMMA InitInvariant == ASSUME Init PROVE IInv
<1> USE DEF Init
<1>1. Alive = {} /\ \A l, p : At(l, p) = {} /\ FlowsOf(l) = {}
  BY DEF Alive, At, FlowsOf
<1>2. TypeOK
  <2>1. tracker \in [TrackerIDs -> [limit : Limit, active : Nat, ips : [IPs -> Nat]]]
    BY LimitsAssumption DEF NewTracker
  <2>2. applies \in 0 .. MaxApplies /\ config \in [gen : Nat, rule : TrackerIDs]
    BY LimitsAssumption DEF TrackerIDs
  <2>3. QED BY <2>1, <2>2 DEF TypeOK
<1>3. \A t \in TrackerIDs : Holders(t) = {} /\ Busy(t) = {}
  BY <1>1 DEF Holders, Busy, NewTracker
<1>4. SlotsBalanced
  <2>1. ASSUME NEW t \in TrackerIDs, NEW i \in IPs
        PROVE  {f \in Holders(t) : IPof[flow[f].client] = i} = {}
    BY <1>3
  <2>2. QED BY <1>3, <2>1, FS_EmptySet DEF SlotsBalanced, NewTracker
<1>5. Within
  <2>1. ASSUME NEW t \in TrackerIDs
        PROVE  /\ tracker[t].limit \in Limit /\ tracker[t].active = 0
               /\ Cardinality(Busy(t)) = 0
    BY <1>3, FS_EmptySet, LimitsAssumption DEF NewTracker
  <2>2. QED BY <2>1 DEF Within, Limit
<1>6. Numbered
  BY <1>1 DEF Numbered
<1>7. Mapped
  <2>1. \A l \in Udp : SessionsOf(l) = {}
    BY DEF SessionsOf
  <2>2. QED BY <1>1, <2>1, FS_EmptySet, LimitsAssumption, SMTT(30) DEF Mapped
<1>8. Signalling /\ Sweeping /\ OldFlowsOnNotice
  BY <1>1 DEF Signalling, Sweeping, OldFlowsOnNotice
<1>9. QED BY <1>2, <1>4, <1>5, <1>6, <1>7, <1>8 DEF IInv

\* Rules and slots as steady steps leave them.
LEMMA SteadyNumbered ==
  ASSUME TypeOK, Numbered, Steady, applies' = applies, config' = config,
         \A l \in Listeners : state'[l] = "active" => state[l] = "active"
  PROVE  Numbered'
<1>1. ASSUME NEW f \in Alive'
      PROVE  /\ flow'[f].rule \in 1 .. applies
             /\ flow'[f].holds \subseteq {0, flow'[f].rule}
  BY <1>1, SteadyFacts DEF Numbered, GoesOn
<1>2. QED BY <1>1 DEF Numbered

\* Closing as steps leave it that signal and sweep nobody.
LEMMA SteadySweeping ==
  ASSUME TypeOK, Steady, Signalling, Sweeping, missed \subseteq missed',
         UNCHANGED <<state, signalled, drainer, stopper, shutdown, toStop>>
  PROVE  Signalling' /\ Sweeping'
<1>1. \A l \in Listeners : Swept(l) => Swept(l)'
  BY SteadySwept
<1>2. \A l \in Listeners : FlowsOf(l)' \subseteq FlowsOf(l)
  BY SteadyFacts
<1>3. QED BY <1>1, <1>2 DEF Signalling, Sweeping

\* A step of a flow that moves no slot.
LEMMA FlowInvariant ==
  ASSUME IInv, Steady, KeepsSlots, tracker' = tracker,
         UNCHANGED <<runtime, closing, stop, missed>>,
         sessions' \in [Udp -> [Clients -> Flows \cup {None}]], Mapped'
  PROVE  IInv'
<1> USE DEF IInv, runtime, closing, stop
<1>1. TypeOK'
  BY DEF TypeOK, Steady
<1>2. SlotsBalanced' /\ Within'
  BY SteadySlots
<1>3. Numbered' /\ OldFlowsOnNotice'
  BY SteadyNumbered, SteadyNotice
<1>4. Signalling' /\ Sweeping'
  BY SteadySweeping
<1>5. QED BY <1>1, <1>2, <1>3, <1>4

\* A flow that is no open session ends.
LEMMA GiveUpInvariant ==
  ASSUME IInv, NEW f \in Alive, GiveUp(f),
         flow[f].listener \in Udp => flow[f].place # "open",
         UNCHANGED <<runtime, closing, sessions, stop, missed>>
  PROVE  IInv'
<1> USE DEF IInv
<1>1. /\ Steady /\ KeepsSlots /\ tracker' = tracker
      /\ flow'[f] # None /\ flow'[f].place = "over"
      /\ \A g \in Flows \ {f} : flow'[g] = flow[g]
  BY GiveUpSteady
<1>2. ASSUME NEW l \in Udp
      PROVE  /\ At(l, "open")' = At(l, "open")
             /\ \A g \in At(l, "open") : flow'[g].client = flow[g].client
  <2>1. f \notin At(l, "open") /\ f \notin At(l, "open")'
    BY <1>1 DEF At, FlowsOf
  <2>2. QED BY <1>1, <2>1 DEF At, FlowsOf, Alive
<1>3. Mapped'
  BY <1>2, SameSessions
<1>4. QED BY <1>1, <1>3, FlowInvariant DEF TypeOK

\* A connection is tracked.
LEMMA TrackInvariant ==
  ASSUME IInv, NEW f \in Flows, Track(f)
  PROVE  IInv'
<1> USE DEF IInv
<1>0. /\ f \in Alive /\ flow[f].place = "starting" /\ flow[f].listener \notin Udp
      /\ flow' = [flow EXCEPT ![f].place = "open"]
      /\ UNCHANGED <<runtime, closing, tracker, sessions, stop, missed>>
  BY DEF Track, Admitted
<1>1. /\ Steady /\ KeepsSlots
      /\ flow'[f] # None /\ flow'[f].place = "open"
      /\ \A g \in Flows \ {f} : flow'[g] = flow[g]
  BY <1>0, OpensSteady
<1>2. flow'[f].listener = flow[f].listener
  BY <1>0, <1>1, SteadyFacts DEF Alive, GoesOn
<1>3. ASSUME NEW l \in Udp
      PROVE  /\ At(l, "open")' = At(l, "open")
             /\ \A g \in At(l, "open") : flow'[g].client = flow[g].client
  <2>1. f \notin At(l, "open") /\ f \notin At(l, "open")'
    BY <1>0, <1>2 DEF At, FlowsOf
  <2>2. QED BY <1>1, <2>1 DEF At, FlowsOf, Alive
<1>4. Mapped'
  BY <1>0, <1>3, SameSessions
<1>5. QED BY <1>0, <1>1, <1>4, FlowInvariant DEF TypeOK

\* A dialled session is put in the map, or given up when the client has one by
\* now or the map is full.
LEMMA InsertInvariant ==
  ASSUME IInv, NEW f \in Flows, Insert(f)
  PROVE  IInv'
<1> DEFINE l == flow[f].listener
           c == flow[f].client
<1> USE DEF IInv
<1>0. /\ f \in Alive /\ flow[f].place = "starting" /\ l \in Udp
      /\ UNCHANGED <<runtime, closing, stop, missed>>
      /\ flow[f] \in Flow /\ c \in Clients
  BY AliveTypes DEF Insert, Admitted, Flow
<1>1. CASE GiveUp(f) /\ UNCHANGED sessions
  BY <1>0, <1>1, GiveUpInvariant
<1>2. CASE /\ sessions[l][c] = None /\ Cardinality(SessionsOf(l)) < SessionCap
           /\ sessions' = [sessions EXCEPT ![l][c] = f]
           /\ flow' = [flow EXCEPT ![f].place = "open"]
           /\ UNCHANGED tracker
  <2>1. /\ Steady /\ KeepsSlots
        /\ flow'[f] # None /\ flow'[f].place = "open"
        /\ \A g \in Flows \ {f} : flow'[g] = flow[g]
    BY <1>0, <1>2, OpensSteady
  <2>2. flow'[f].listener = l /\ flow'[f].client = c
    BY <1>0, <2>1, SteadyFacts DEF Alive, GoesOn
  <2>3. /\ sessions' \in [Udp -> [Clients -> Flows \cup {None}]]
        /\ \A m \in Udp, d \in Clients :
             sessions'[m][d] = IF m = l /\ d = c THEN f ELSE sessions[m][d]
    BY <1>0, <1>2 DEF TypeOK
  <2>4. ASSUME NEW m \in Udp
        PROVE  At(m, "open")' = IF m = l THEN At(m, "open") \cup {f} ELSE At(m, "open")
    BY <1>0, <2>1, <2>2 DEF At, FlowsOf, Alive
  <2>5. \A m \in Udp : f \notin At(m, "open")
    BY <1>0 DEF At
  <2>6. ASSUME NEW m \in Udp, NEW d \in Clients, sessions'[m][d] # None
        PROVE  sessions'[m][d] \in At(m, "open")' /\ flow'[sessions'[m][d]].client = d
    <3>1. CASE m = l /\ d = c
      BY <3>1, <2>2, <2>3, <2>4
    <3>2. CASE ~(m = l /\ d = c)
      <4>1. /\ sessions'[m][d] = sessions[m][d]
            /\ sessions[m][d] \in At(m, "open") /\ flow[sessions[m][d]].client = d
        BY <3>2, <2>3, <2>6 DEF Mapped
      <4>2. sessions[m][d] \in Flows /\ sessions[m][d] # f
        BY <4>1, <2>5, AliveTypes
      <4>3. QED BY <4>1, <4>2, <2>1, <2>4
    <3>3. QED BY <3>1, <3>2
  <2>7. ASSUME NEW m \in Udp, NEW g \in At(m, "open")'
        PROVE  sessions'[m][flow'[g].client] = g
    <3>1. CASE g = f
      <4>1. m = l
        BY <3>1, <2>2, <2>7 DEF At, FlowsOf
      <4>2. QED BY <3>1, <4>1, <2>2, <2>3, <1>0
    <3>2. CASE g # f
      <4>1. g \in At(m, "open") /\ g \in Flows /\ flow[g] \in Flow
        BY <3>2, <2>4, <2>7, AliveTypes
      <4>2. flow[g].client \in Clients /\ sessions[m][flow[g].client] = g /\ g # None
        BY <4>1, FlowsAssumption DEF Mapped, Flow
      <4>3. ~(m = l /\ flow[g].client = c)
        BY <4>2, <1>2
      <4>4. QED BY <3>2, <4>1, <4>2, <4>3, <2>1, <2>3
    <3>3. QED BY <3>1, <3>2
  <2>8. ASSUME NEW m \in Udp PROVE Cardinality(SessionsOf(m)') <= SessionCap
    <3>1. IsFiniteSet(SessionsOf(m)) /\ Cardinality(SessionsOf(m)) \in Nat
      BY SessionsCounted, FS_CardinalityType
    <3>2. CASE m # l
      <4>1. SessionsOf(m)' = SessionsOf(m)
        BY <3>2, <2>3 DEF SessionsOf
      <4>2. QED BY <4>1 DEF Mapped
    <3>3. CASE m = l
      <4>1. SessionsOf(m)' = SessionsOf(m) \cup {c} /\ c \notin SessionsOf(m)
        BY <3>3, <1>0, <1>2, <2>3, FlowsAssumption DEF SessionsOf
      <4>2. Cardinality(SessionsOf(m)') = Cardinality(SessionsOf(m)) + 1
        BY <4>1, <3>1, FS_AddElement
      <4>3. QED BY <4>2, <3>1, <3>3, <1>2, LimitsAssumption
    <3>4. QED BY <3>2, <3>3
  <2>9. Mapped'
    BY <2>6, <2>7, <2>8 DEF Mapped
  <2>10. QED BY <1>0, <1>2, <2>1, <2>3, <2>9, FlowInvariant
<1>3. QED BY <1>1, <1>2 DEF Insert

\* A flow takes a slot or gives it back, and the trackers stay right.
LEMMA SlotInvariant ==
  ASSUME IInv, NEW f \in Alive, NEW h \in SUBSET (flow[f].holds \cup {0, flow[f].rule}),
         flow' = [flow EXCEPT ![f].holds = h],
         tracker' \in [TrackerIDs -> Tracker], SlotsBalanced', Within',
         UNCHANGED <<runtime, closing, sessions, stop, missed>>
  PROVE  IInv'
<1> USE DEF IInv, runtime, closing, stop
<1>1. /\ Steady
      /\ flow'[f] # None /\ flow'[f].place = flow[f].place
      /\ flow'[f].client = flow[f].client /\ flow'[f].listener = flow[f].listener
      /\ \A g \in Flows \ {f} : flow'[g] = flow[g]
  BY SlotSteady
<1>2. ASSUME NEW l \in Udp
      PROVE  /\ At(l, "open")' = At(l, "open")
             /\ \A g \in At(l, "open") : flow'[g].client = flow[g].client
  BY <1>1 DEF At, FlowsOf, Alive
<1>3. Mapped'
  BY <1>2, SameSessions
<1>4. TypeOK'
  BY <1>1 DEF TypeOK, Steady, Tracker
<1>5. Numbered' /\ OldFlowsOnNotice'
  BY <1>1, SteadyNumbered, SteadyNotice
<1>6. Signalling' /\ Sweeping'
  BY <1>1, SteadySweeping
<1>7. QED BY <1>3, <1>4, <1>5, <1>6

\* A tracker that admits the flow counts it.
LEMMA CountInvariant ==
  ASSUME IInv, NEW f \in Alive, NEW t \in {0, flow[f].rule}, t \notin flow[f].holds,
         Admits(tracker[t], IPof[flow[f].client]), Count(f, t),
         UNCHANGED <<runtime, closing, sessions, stop, missed>>
  PROVE  IInv'
<1> USE DEF IInv
<1>1. /\ flow[f].holds \subseteq {0, flow[f].rule} /\ t \in TrackerIDs
  BY AliveTypes, LimitsAssumption DEF Numbered, Flow, TrackerIDs
<1>2. tracker' \in [TrackerIDs -> Tracker] /\ SlotsBalanced' /\ Within'
  BY <1>1, CountSlots
<1>3. flow' = [flow EXCEPT ![f].holds = flow[f].holds \cup {t}]
  BY DEF Count
<1>4. QED BY <1>2, <1>3, SlotInvariant

\* The rule's slot: taken, refused, or a blocked datagram.
LEMMA AcquireRuleInvariant ==
  ASSUME IInv, NEW f \in Flows, AcquireRule(f)
  PROVE  IInv'
<1>0. /\ f \in Alive /\ flow[f].place = "starting" /\ flow[f].holds = {}
      /\ UNCHANGED <<runtime, closing, sessions, stop, missed>>
  BY DEF AcquireRule
<1>1. CASE GiveUp(f)
  BY <1>0, <1>1, GiveUpInvariant
<1>2. CASE Admits(tracker[flow[f].rule], IPof[flow[f].client]) /\ Count(f, flow[f].rule)
  BY <1>0, <1>2, CountInvariant
<1>3. QED BY <1>1, <1>2 DEF AcquireRule

\* The tenant's slot: taken, or refused.
LEMMA AcquireTenantInvariant ==
  ASSUME IInv, NEW f \in Flows, AcquireTenant(f)
  PROVE  IInv'
<1>0. /\ f \in Alive /\ flow[f].place = "starting" /\ flow[f].holds = {flow[f].rule}
      /\ UNCHANGED <<runtime, closing, sessions, stop, missed>>
  BY DEF AcquireTenant
<1>1. CASE GiveUp(f)
  BY <1>0, <1>1, GiveUpInvariant
<1>2. CASE Admits(tracker[0], IPof[flow[f].client]) /\ Count(f, 0)
  <2>1. 0 \notin flow[f].holds
    BY <1>0 DEF IInv, Numbered
  <2>2. QED BY <1>0, <1>2, <2>1, CountInvariant
<1>3. QED BY <1>1, <1>2 DEF AcquireTenant

\* A session that could not be dialled, and a connection that ends, are over.
LEMMA EndsInvariant ==
  ASSUME IInv, NEW f \in Flows, DialFails(f) \/ EndConnection(f)
  PROVE  IInv'
<1>1. CASE DialFails(f)
  BY <1>1, GiveUpInvariant DEF DialFails, Admitted
<1>2. CASE EndConnection(f)
  BY <1>2, GiveUpInvariant DEF EndConnection
<1>3. QED BY <1>1, <1>2

\* A session ends: whoever takes it out of the map releases its slots.
LEMMA EndSessionInvariant ==
  ASSUME IInv, NEW f \in Flows, EndSession(f)
  PROVE  IInv'
<1> USE DEF IInv
<1>0. /\ f \in Alive /\ flow[f].place = "open"
      /\ CloseFlows(flow[f].listener, {f})
      /\ UNCHANGED <<runtime, closing, tracker, stop, missed>>
  BY DEF EndSession
<1>1. flow[f].listener \in Listeners /\ {f} \subseteq At(flow[f].listener, "open")
  BY <1>0, AliveTypes DEF Flow, At, FlowsOf
<1>2. /\ Steady /\ KeepsSlots /\ Mapped'
      /\ sessions' \in [Udp -> [Clients -> Flows \cup {None}]]
  BY <1>0, <1>1, CloseFlowsSteady
<1>3. QED BY <1>0, <1>2, FlowInvariant

\* A slot is given back.
LEMMA ReleaseInvariant ==
  ASSUME IInv, NEW f \in Flows, Release(f)
  PROVE  IInv'
<1> USE DEF IInv
<1>0. /\ f \in Alive /\ flow[f].holds # {}
      /\ Uncount(f, IF 0 \in flow[f].holds THEN 0 ELSE flow[f].rule)
      /\ UNCHANGED <<runtime, closing, sessions, stop, missed>>
  BY DEF Release
<1>1. PICK t : t = IF 0 \in flow[f].holds THEN 0 ELSE flow[f].rule
  OBVIOUS
<1>2. /\ flow[f].holds \subseteq {0, flow[f].rule} /\ t \in {0, flow[f].rule}
      /\ t \in flow[f].holds /\ t \in TrackerIDs
  BY <1>0, <1>1, AliveTypes, LimitsAssumption DEF Numbered, Flow, TrackerIDs
<1>3. Uncount(f, t)
  BY <1>0, <1>1
<1>4. tracker' \in [TrackerIDs -> Tracker] /\ SlotsBalanced' /\ Within'
  BY <1>0, <1>2, <1>3, UncountSlots
<1>5. flow' = [flow EXCEPT ![f].holds = flow[f].holds \ {t}]
  BY <1>3 DEF Uncount
<1>6. flow[f].holds \ {t} \in SUBSET (flow[f].holds \cup {0, flow[f].rule})
  OBVIOUS
<1>7. QED BY <1>0, <1>4, <1>5, <1>6, SlotInvariant

\* A flow is gone: the session in the map is never one that is over, so its read
\* loop has nothing left to release.
LEMMA GoneInvariant ==
  ASSUME IInv, NEW f \in Flows, Gone(f)
  PROVE  IInv'
<1> USE DEF IInv
<1>0. /\ f \in Alive /\ flow[f].place = "over" /\ flow[f].holds = {}
      /\ UNCHANGED <<runtime, closing, tracker, stop, missed>>
      /\ flow[f] \in Flow
  BY AliveTypes DEF Gone
<1>1. ASSUME flow[f].listener \in Udp, InMap(f) PROVE FALSE
  <2>1. flow[f].client \in Clients /\ f # None
    BY <1>0, FlowsAssumption DEF Flow
  <2>2. f \in At(flow[f].listener, "open")
    BY <1>1, <2>1 DEF InMap, Mapped
  <2>3. QED BY <2>2, <1>0 DEF At
<1>2. flow' = [flow EXCEPT ![f] = None] /\ sessions' = sessions
  BY <1>1 DEF Gone
<1>3. /\ flow' \in [Flows -> Flow \cup {None}] /\ flow'[f] = None
      /\ \A g \in Flows \ {f} : flow'[g] = flow[g]
  BY <1>2 DEF TypeOK
<1>4. \A g \in Flows : IsGone(g) \/ GoesOn(g)
  BY <1>0, <1>3 DEF IsGone, GoesOn
<1>5. Steady /\ KeepsSlots
  BY <1>3, <1>4 DEF Steady, KeepsSlots, Alive
<1>6. ASSUME NEW l \in Udp
      PROVE  /\ At(l, "open")' = At(l, "open")
             /\ \A g \in At(l, "open") : flow'[g].client = flow[g].client
  <2>1. f \notin At(l, "open") /\ f \notin At(l, "open")'
    BY <1>0, <1>3 DEF At, FlowsOf, Alive
  <2>2. QED BY <1>3, <2>1 DEF At, FlowsOf, Alive
<1>7. Mapped'
  BY <1>2, <1>6, SameSessions
<1>8. QED BY <1>0, <1>2, <1>5, <1>7, FlowInvariant DEF TypeOK

\* A connection is accepted, or a datagram asks for a session.
LEMMA BeginInvariant ==
  ASSUME IInv, NEW f \in Flows, NEW l \in Listeners, NEW c \in Clients, Begin(f, l, c)
  PROVE  IInv'
<1> DEFINE r == [listener |-> l, client |-> c, gen |-> config.gen, rule |-> config.rule,
                 place |-> "starting", holds |-> {}, closed |-> FALSE]
<1> USE DEF IInv, runtime, closing, stop
<1>0. /\ flow[f] = None /\ state[l] = "active" /\ l \notin signalled
      /\ flow' = [flow EXCEPT ![f] = r]
      /\ UNCHANGED <<applies, config, state, timers, signalled, drainer, stopper>>
      /\ UNCHANGED <<tracker, sessions, shutdown, toStop, stopping, missed>>
  BY DEF Begin
<1>1. /\ config.gen \in Nat /\ config.rule \in TrackerIDs /\ applies \in 0 .. MaxApplies
      /\ config.rule \in 1 .. applies
  BY <1>0, LimitsAssumption DEF TypeOK, Numbered, TrackerIDs
<1>2. /\ r \in Flow /\ r.listener = l /\ r.client = c /\ r.gen = config.gen
      /\ r.rule = config.rule /\ r.place = "starting" /\ r.holds = {} /\ r.closed = FALSE
  BY <1>1 DEF Flow
<1> HIDE DEF r
<1>3. /\ flow' \in [Flows -> Flow \cup {None}] /\ flow'[f] = r /\ r # None
      /\ \A g \in Flows \ {f} : flow'[g] = flow[g]
  BY <1>0, <1>2, FlowsAssumption DEF TypeOK
<1>4. TypeOK'
  BY <1>0, <1>3 DEF TypeOK
<1>5. Alive' = Alive \cup {f} /\ f \notin Alive /\ \A g \in Alive : flow'[g] = flow[g]
  BY <1>0, <1>3 DEF Alive
<1>6. Numbered'
  BY <1>0, <1>1, <1>2, <1>3, <1>5 DEF Numbered
<1>7. SlotsBalanced' /\ Within'
  <2>1. \A t \in TrackerIDs : Holders(t)' = Holders(t) /\ Busy(t)' = Busy(t)
    BY <1>0, <1>2, <1>3, <1>5 DEF Holders, Busy
  <2>2. \A t \in TrackerIDs : \A g \in Holders(t) : flow'[g] = flow[g]
    BY <1>5 DEF Holders
  <2>3. ASSUME NEW t \in TrackerIDs, NEW i \in IPs
        PROVE  {g \in Holders(t)' : IPof[flow'[g].client] = i}
                 = {g \in Holders(t) : IPof[flow[g].client] = i}
    BY <2>1, <2>2
  <2>4. SlotsBalanced'
    BY <2>1, <2>3, <1>0 DEF SlotsBalanced
  <2>5. QED BY <2>1, <2>4, <1>0 DEF Within
<1>8. ASSUME NEW m \in Udp
      PROVE  /\ At(m, "open")' = At(m, "open")
             /\ \A g \in At(m, "open") : flow'[g].client = flow[g].client
  <2>1. f \notin At(m, "open") /\ f \notin At(m, "open")'
    BY <1>2, <1>3, <1>5 DEF At, FlowsOf
  <2>2. QED BY <1>3, <2>1 DEF At, FlowsOf, Alive
<1>9. Mapped'
  BY <1>0, <1>8, SameSessions
<1>10. ASSUME NEW m \in Listeners, m # l
       PROVE  /\ FlowsOf(m)' = FlowsOf(m) /\ Live(m)' = Live(m)
              /\ \A g \in Live(m) : flow'[g] = flow[g]
  <2>1. FlowsOf(m)' = FlowsOf(m) /\ \A g \in FlowsOf(m) : flow'[g] = flow[g]
    BY <1>2, <1>3, <1>5, <1>10 DEF FlowsOf
  <2>2. QED BY <2>1 DEF Live, At
<1>11. Signalling' /\ Sweeping'
  <2>1. ASSUME NEW m \in Listeners, m # l PROVE Swept(m)' <=> Swept(m)
    BY <1>0, <1>10, <2>1 DEF Swept
  <2>2. Signalling'
    BY <1>0, <1>10 DEF Signalling
  <2>3. Sweeping'
    BY <1>0, <2>1 DEF Sweeping, Signalling
  <2>4. QED BY <2>2, <2>3
<1>12. OldFlowsOnNotice'
  <2>1. ASSUME NEW g \in Live(l)'
        PROVE  (g = f /\ flow'[g].gen = config.gen) \/ (g \in Live(l) /\ flow'[g] = flow[g])
    BY <2>1, <1>2, <1>3, <1>5 DEF Live, At, FlowsOf
  <2>2. ASSUME NEW m \in Listeners, NEW g \in Live(m)'
        PROVE  \/ flow'[g].closed
               \/ flow'[g].gen = config.gen /\ state[m] = "active"
               \/ flow'[g].gen \in timers[m]
               \/ drainer[m] = "waiting" \/ stopper[m] = "signalled" \/ m \in toStop
               \/ m \in missed
    <3>1. CASE m = l /\ g = f /\ flow'[g].gen = config.gen
      BY <3>1, <1>0
    <3>2. CASE g \in Live(m) /\ flow'[g] = flow[g]
      BY <3>2 DEF OldFlowsOnNotice, OnNotice, Live
    <3>3. QED BY <2>1, <2>2, <3>1, <3>2, <1>10
  <2>3. QED BY <2>2, <1>0 DEF OldFlowsOnNotice, OnNotice, Live
<1>13. QED BY <1>4, <1>6, <1>7, <1>9, <1>11, <1>12

\* What gives the flows of a listener notice lasts, or is replaced.
Lasts(l) ==
  /\ state[l] = "active" => state'[l] = "active"
  /\ timers[l] \subseteq timers'[l]
  /\ drainer[l] = "waiting" => drainer'[l] = "waiting" \/ stopper'[l] = "signalled"
  /\ stopper[l] = "signalled" => stopper'[l] = "signalled"
  /\ l \in toStop => l \in toStop' \/ stopper'[l] = "signalled"

LEMMA NoticeLasts ==
  ASSUME TypeOK, Steady, OldFlowsOnNotice, config' = config, missed \subseteq missed',
         \A l \in Listeners : Swept(l)' \/ FlowsOf(l) = {} \/ Lasts(l)
  PROVE  OldFlowsOnNotice'
<1>1. ASSUME NEW l \in Listeners, NEW f \in Live(l)'
      PROVE  \/ flow'[f].closed
             \/ flow'[f].gen = config'.gen /\ state'[l] = "active"
             \/ flow'[f].gen \in timers'[l]
             \/ drainer'[l] = "waiting" \/ stopper'[l] = "signalled" \/ l \in toStop'
             \/ l \in missed'
  <2>1. f \in Live(l) /\ f \in Alive'
    BY <1>1, SteadyFacts DEF Live, At, FlowsOf
  <2>2. flow'[f].gen = flow[f].gen /\ (flow[f].closed => flow'[f].closed)
    BY <2>1, SteadyFacts DEF GoesOn
  <2>3. CASE Swept(l)'
    BY <2>3, <1>1 DEF Swept
  <2>4. CASE FlowsOf(l) = {}
    BY <2>4, <2>1 DEF Live, At
  <2>5. CASE Lasts(l)
    BY <2>1, <2>2, <2>5 DEF OldFlowsOnNotice, OnNotice, Live, Lasts
  <2>6. QED BY <2>3, <2>4, <2>5
<1>2. QED BY <1>1 DEF OldFlowsOnNotice, OnNotice, Live

\* A step that closes flows or listeners: what is left to show.
LEMMA CloserInvariant ==
  ASSUME IInv, Steady, KeepsSlots, UNCHANGED <<applies, config, tracker>>,
         \A l \in Listeners : state'[l] = "active" => state[l] = "active",
         TypeOK', Mapped', Signalling', Sweeping', OldFlowsOnNotice'
  PROVE  IInv'
BY SteadySlots, SteadyNumbered DEF IInv

\* Nobody's flows change.
LEMMA StillInvariant ==
  ASSUME IInv, UNCHANGED <<applies, config, tracker, sessions, flow, missed>>
  PROVE  /\ Steady /\ KeepsSlots /\ Mapped'
         /\ \A l \in Listeners : Swept(l)' = Swept(l) /\ FlowsOf(l)' = FlowsOf(l)
<1>1. Steady /\ KeepsSlots
  BY UnchangedSteady DEF IInv
<1>2. Mapped'
  BY DEF IInv, Mapped, At, FlowsOf, Alive, SessionsOf
<1>3. QED BY <1>1, <1>2 DEF Swept, Live, At, FlowsOf, Alive

\* An Apply starts the listeners it adds.
LEMMA StageInvariant ==
  ASSUME IInv, NEW new \in SUBSET Listeners, Stage(new)
  PROVE  IInv'
<1> USE DEF IInv
<1>0. /\ new \subseteq InState("none")
      /\ state' = [l \in Listeners |-> IF l \in new THEN "warming" ELSE state[l]]
      /\ UNCHANGED <<applies, config, timers, signalled, drainer, stopper, tracker>>
      /\ UNCHANGED <<sessions, flow, shutdown, toStop, stopping, missed>>
  BY DEF Stage, closing, stop
<1>1. /\ Steady /\ KeepsSlots /\ Mapped'
      /\ \A l \in Listeners : Swept(l)' = Swept(l) /\ FlowsOf(l)' = FlowsOf(l)
  BY <1>0, StillInvariant
<1>2. TypeOK'
  BY <1>0 DEF TypeOK
<1>3. \A l \in new : state[l] = "none" /\ FlowsOf(l) = {}
  BY <1>0 DEF InState, Signalling
<1>4. Signalling' /\ Sweeping'
  BY <1>0, <1>1, <1>3 DEF Signalling, Sweeping
<1>5. \A l \in Listeners : FlowsOf(l) = {} \/ Lasts(l)
  BY <1>0, <1>3 DEF Lasts
<1>6. OldFlowsOnNotice'
  BY <1>0, <1>1, <1>5, NoticeLasts
<1>7. QED BY <1>0, <1>1, <1>2, <1>4, <1>6, CloserInvariant

\* It fails, and stops them.
LEMMA AbortInvariant ==
  ASSUME IInv, AbortApply
  PROVE  IInv'
<1> USE DEF IInv
<1>0. /\ state' = [l \in Listeners |->
                     IF state[l] = "warming" THEN "stopped" ELSE state[l]]
      /\ signalled' = signalled \cup InState("warming")
      /\ UNCHANGED <<applies, config, timers, drainer, stopper, tracker>>
      /\ UNCHANGED <<sessions, flow, shutdown, toStop, stopping, missed>>
  BY DEF AbortApply, stop
<1>1. /\ Steady /\ KeepsSlots /\ Mapped'
      /\ \A l \in Listeners : Swept(l)' = Swept(l) /\ FlowsOf(l)' = FlowsOf(l)
  BY <1>0, StillInvariant
<1>2. TypeOK'
  BY <1>0 DEF TypeOK, InState
<1>3. \A l \in InState("warming") : Swept(l) /\ FlowsOf(l) = {}
  BY DEF InState, Signalling, Swept, Live, At
<1>4. Signalling' /\ Sweeping'
  BY <1>0, <1>1, <1>3 DEF Signalling, Sweeping
<1>5. \A l \in Listeners : FlowsOf(l) = {} \/ Lasts(l)
  BY <1>0, <1>3 DEF Lasts, InState
<1>6. OldFlowsOnNotice'
  BY <1>0, <1>1, <1>5, NoticeLasts
<1>7. QED BY <1>0, <1>1, <1>2, <1>4, <1>6, CloserInvariant

\* The open flows of an old generation are closed, and none of it is starting.
LEMMA CloseGenerationInvariant ==
  ASSUME IInv, NEW l \in Listeners, NEW g \in timers[l], CloseGeneration(l, g)
  PROVE  IInv'
<1> DEFINE S == {f \in At(l, "open") : flow[f].gen = g}
<1> USE DEF IInv
<1>0. /\ timers' = [timers EXCEPT ![l] = @ \ {g}]
      /\ \A f \in At(l, "starting") : flow[f].gen # g
      /\ CloseFlows(l, S)
      /\ UNCHANGED <<applies, config, state, signalled, drainer, stopper, tracker>>
      /\ UNCHANGED <<shutdown, toStop, stopping, missed>>
  BY DEF CloseGeneration, closing, stop
<1>1. /\ Steady /\ KeepsSlots /\ Mapped'
      /\ sessions' \in [Udp -> [Clients -> Flows \cup {None}]]
      /\ \A f \in S : flow'[f].closed
  BY <1>0, CloseFlowsSteady
<1>2. /\ timers' \in [Listeners -> SUBSET Nat]
      /\ \A m \in Listeners : timers'[m] = IF m = l THEN timers[m] \ {g} ELSE timers[m]
  BY <1>0 DEF TypeOK
<1>3. TypeOK'
  BY <1>0, <1>1, <1>2 DEF TypeOK, Steady
<1>4. Signalling' /\ Sweeping'
  BY <1>0, <1>1, SteadySweeping
<1>5. OldFlowsOnNotice'
  <2>1. ASSUME NEW m \in Listeners, NEW f \in Live(m)'
        PROVE  \/ flow'[f].closed
               \/ flow'[f].gen = config.gen /\ state[m] = "active"
               \/ flow'[f].gen \in timers'[m]
               \/ drainer[m] = "waiting" \/ stopper[m] = "signalled" \/ m \in toStop
               \/ m \in missed
    <3>1. f \in Live(m) /\ f \in Alive'
      BY <2>1, <1>1, SteadyFacts DEF Live, At, FlowsOf
    <3>2. flow'[f].gen = flow[f].gen /\ (flow[f].closed => flow'[f].closed)
      BY <3>1, <1>1, SteadyFacts DEF GoesOn
    <3>3. CASE m = l /\ flow[f].gen = g
      BY <3>1, <3>3, <1>0, <1>1 DEF Live
    <3>4. CASE ~(m = l /\ flow[f].gen = g)
      BY <3>1, <3>2, <3>4, <1>2 DEF OldFlowsOnNotice, OnNotice, Live
    <3>5. QED BY <3>3, <3>4
  <2>2. QED BY <2>1, <1>0 DEF OldFlowsOnNotice, OnNotice, Live
<1>6. QED BY <1>0, <1>1, <1>3, <1>4, <1>5, CloserInvariant

\* The goroutine that would close a generation returns: the listener that was
\* signalled closes its flows itself, or has.
LEMMA CancelTimerInvariant ==
  ASSUME IInv, NEW l \in Listeners, NEW g \in timers[l], CancelTimer(l, g)
  PROVE  IInv'
<1> USE DEF IInv
<1>0. /\ l \in signalled /\ timers' = [timers EXCEPT ![l] = @ \ {g}]
      /\ UNCHANGED <<applies, config, state, signalled, drainer, stopper, tracker>>
      /\ UNCHANGED <<sessions, flow, shutdown, toStop, stopping, missed>>
  BY DEF CancelTimer, closing, stop
<1>1. /\ Steady /\ KeepsSlots /\ Mapped'
      /\ \A m \in Listeners : Swept(m)' = Swept(m) /\ FlowsOf(m)' = FlowsOf(m)
  BY <1>0, StillInvariant
<1>2. /\ timers' \in [Listeners -> SUBSET Nat]
      /\ \A m \in Listeners : timers'[m] = IF m = l THEN timers[m] \ {g} ELSE timers[m]
  BY <1>0 DEF TypeOK
<1>3. TypeOK'
  BY <1>0, <1>2 DEF TypeOK
<1>4. Signalling' /\ Sweeping'
  BY <1>0, <1>1 DEF Signalling, Sweeping
<1>5. OldFlowsOnNotice'
  <2>1. drainer[l] = "waiting" \/ stopper[l] = "signalled"
          \/ \A f \in Live(l) : flow[f].closed \/ l \in missed
    BY <1>0 DEF Sweeping, Swept
  <2>2. \A m \in Listeners : Live(m)' = Live(m)
    BY <1>0 DEF Live, At, FlowsOf, Alive
  <2>3. \A m \in Listeners : \A f \in Live(m) :
               \/ flow[f].closed
               \/ flow[f].gen = config.gen /\ state[m] = "active"
               \/ flow[f].gen \in timers'[m]
               \/ drainer[m] = "waiting" \/ stopper[m] = "signalled" \/ m \in toStop
               \/ m \in missed
    BY <2>1, <1>2 DEF OldFlowsOnNotice, OnNotice, Live
  <2>4. QED BY <2>2, <2>3, <1>0 DEF OldFlowsOnNotice, OnNotice, Live
<1>6. QED BY <1>0, <1>1, <1>3, <1>4, <1>5, CloserInvariant

\* Closing all flows of a listener leaves none but those that slip past.
LEMMA CloseAllSweeps ==
  ASSUME TypeOK, Mapped, NEW l \in Listeners, CloseAll(l)
  PROVE  /\ Steady /\ KeepsSlots /\ Mapped'
         /\ sessions' \in [Udp -> [Clients -> Flows \cup {None}]]
         /\ missed \subseteq missed' /\ missed' \subseteq Listeners
         /\ Swept(l)'
<1>1. /\ CloseFlows(l, At(l, "open"))
      /\ missed' = IF At(l, "starting") # {} THEN missed \cup {l} ELSE missed
  BY DEF CloseAll
<1>2. /\ Steady /\ KeepsSlots /\ Mapped'
      /\ sessions' \in [Udp -> [Clients -> Flows \cup {None}]]
      /\ \A f \in At(l, "open") : flow'[f].closed
  BY <1>1, CloseFlowsSteady
<1>3. missed \subseteq missed' /\ missed' \subseteq Listeners
  BY <1>1 DEF TypeOK
<1>4. ASSUME NEW f \in Live(l)' PROVE flow'[f].closed \/ l \in missed'
  <2>1. f \in Live(l)
    BY <1>2, <1>4, SteadyFacts
  <2>2. QED BY <2>1, <1>1, <1>2 DEF Live
<1>5. Swept(l)'
  BY <1>4 DEF Swept
<1>6. QED BY <1>2, <1>3, <1>5

\* A drain or a stop closes the flows of its listener.
LEMMA SweepInvariant ==
  ASSUME IInv, NEW l \in Listeners, DrainDeadline(l) \/ StopCloses(l)
  PROVE  IInv'
<1> USE DEF IInv
<1>0. /\ CloseAll(l)
      /\ UNCHANGED <<applies, config, state, timers, signalled, tracker>>
      /\ UNCHANGED <<shutdown, toStop, stopping>>
      /\ \/ /\ drainer[l] = "waiting" /\ l \notin Udp
            /\ drainer' = [drainer EXCEPT ![l] = "closed"] /\ UNCHANGED stopper
         \/ /\ stopper[l] = "signalled"
            /\ stopper' = [stopper EXCEPT ![l] = "closed"] /\ UNCHANGED drainer
  BY DEF DrainDeadline, StopCloses, runtime, stop
<1>1. /\ Steady /\ KeepsSlots /\ Mapped'
      /\ sessions' \in [Udp -> [Clients -> Flows \cup {None}]]
      /\ missed \subseteq missed' /\ missed' \subseteq Listeners
      /\ Swept(l)'
  BY <1>0, CloseAllSweeps
<1>2. /\ drainer' \in [Listeners -> {"no", "waiting", "closed"}]
      /\ stopper' \in [Listeners -> {"no", "signalled", "closed"}]
      /\ \A m \in Listeners \ {l} : drainer'[m] = drainer[m] /\ stopper'[m] = stopper[m]
      /\ stopper'[l] # "no" => stopper[l] # "no"
      /\ drainer'[l] # "no" => drainer[l] # "no"
  BY <1>0 DEF TypeOK
<1>3. TypeOK'
  BY <1>0, <1>1, <1>2 DEF TypeOK, Steady
<1>4. \A m \in Listeners : Swept(m) => Swept(m)'
  BY <1>1, SteadySwept
<1>5. \A m \in Listeners : FlowsOf(m)' \subseteq FlowsOf(m)
  BY <1>1, SteadyFacts
<1>6. Signalling'
  BY <1>0, <1>2, <1>5 DEF Signalling
<1>7. Sweeping'
  BY <1>0, <1>1, <1>2, <1>4 DEF Sweeping
<1>8. \A m \in Listeners : Swept(m)' \/ Lasts(m)
  BY <1>0, <1>1, <1>2 DEF Lasts
<1>9. OldFlowsOnNotice'
  BY <1>0, <1>1, <1>8, NoticeLasts
<1>10. QED BY <1>0, <1>1, <1>3, <1>6, <1>7, <1>9, CloserInvariant

\* A listener without flows is stopped.
LEMMA FinishedInvariant ==
  ASSUME IInv, NEW l \in Listeners, DrainDone(l) \/ StopDone(l)
  PROVE  IInv'
<1> USE DEF IInv
<1>0. /\ FlowsOf(l) = {} /\ state' = [state EXCEPT ![l] = "stopped"]
      /\ UNCHANGED <<applies, config, timers, signalled, drainer, stopper, tracker>>
      /\ UNCHANGED <<sessions, flow, shutdown, toStop, stopping, missed>>
  BY DEF DrainDone, StopDone, Finished, closing, stop
<1>1. /\ Steady /\ KeepsSlots /\ Mapped'
      /\ \A m \in Listeners : Swept(m)' = Swept(m) /\ FlowsOf(m)' = FlowsOf(m)
  BY <1>0, StillInvariant
<1>2. /\ state'[l] = "stopped" /\ \A m \in Listeners \ {l} : state'[m] = state[m]
  BY <1>0 DEF TypeOK
<1>3. TypeOK'
  BY <1>0 DEF TypeOK
<1>4. Signalling' /\ Sweeping'
  BY <1>0, <1>1, <1>2 DEF Signalling, Sweeping
<1>5. \A m \in Listeners : FlowsOf(m) = {} \/ Lasts(m)
  BY <1>0, <1>2 DEF Lasts
<1>6. OldFlowsOnNotice'
  BY <1>0, <1>1, <1>5, NoticeLasts
<1>7. \A m \in Listeners : state'[m] = "active" => state[m] = "active"
  BY <1>2
<1>8. QED BY <1>0, <1>1, <1>3, <1>4, <1>6, <1>7, CloserInvariant

\* A listener is told to stop, by the drain of a UDP listener or by Stop.
LEMMA SignalInvariant ==
  ASSUME IInv, NEW l \in Listeners, DrainUdp(l) \/ StopNext(l)
  PROVE  IInv'
<1> USE DEF IInv
<1>0. /\ StopSignals(l)
      /\ UNCHANGED <<applies, config, state, timers, tracker, sessions, flow>>
      /\ UNCHANGED <<shutdown, missed>>
      /\ \/ /\ l \in Udp /\ drainer' = [drainer EXCEPT ![l] = "closed"]
            /\ drainer[l] = "waiting" /\ UNCHANGED <<toStop, stopping>>
         \/ toStop' = toStop \ {l} /\ stopping' = l /\ UNCHANGED drainer
  BY DEF DrainUdp, StopNext, runtime, stop
<1>1. /\ Steady /\ KeepsSlots /\ Mapped'
      /\ \A m \in Listeners : Swept(m)' = Swept(m) /\ FlowsOf(m)' = FlowsOf(m)
  BY <1>0, StillInvariant
<1>2. /\ stopper' \in [Listeners -> {"no", "signalled", "closed"}]
      /\ drainer' \in [Listeners -> {"no", "waiting", "closed"}]
      /\ \A m \in Listeners \ {l} : drainer'[m] = drainer[m] /\ stopper'[m] = stopper[m]
      /\ stopper'[l] = "signalled" \/ (stopper'[l] = "closed" /\ stopper[l] = "closed")
      /\ stopper[l] = "signalled" => stopper'[l] = "signalled"
      /\ l \notin Udp => drainer'[l] = drainer[l]
      /\ signalled' = signalled \cup {l}
  BY <1>0 DEF StopSignals, TypeOK
<1>3. TypeOK'
  <2>1. signalled' \subseteq Listeners /\ toStop' \subseteq Listeners
        /\ stopping' \in Listeners \cup {None}
    BY <1>0, <1>2 DEF TypeOK
  <2>2. QED BY <1>0, <1>2, <2>1 DEF TypeOK
<1>4. Signalling'
  BY <1>0, <1>1, <1>2 DEF Signalling
<1>5. stopper'[l] = "signalled" \/ Swept(l)'
  BY <1>1, <1>2 DEF Sweeping
<1>6. Sweeping'
  BY <1>0, <1>1, <1>2, <1>5 DEF Sweeping
<1>7. \A m \in Listeners : Swept(m)' \/ Lasts(m)
  <2>1. ASSUME NEW m \in Listeners, m # l PROVE Lasts(m)
    BY <1>0, <1>2, <2>1 DEF Lasts
  <2>2. stopper'[l] = "signalled" => Lasts(l)
    BY <1>0 DEF Lasts
  <2>3. QED BY <1>5, <2>1, <2>2
<1>8. OldFlowsOnNotice'
  BY <1>0, <1>1, <1>7, NoticeLasts
<1>9. QED BY <1>0, <1>1, <1>3, <1>4, <1>6, <1>8, CloserInvariant

\* Runtime.Stop begins, and gets to the last flush.
LEMMA ShutdownInvariant ==
  ASSUME IInv, Shutdown \/ FinalFlush
  PROVE  IInv'
<1> USE DEF IInv
<1>0. /\ UNCHANGED <<applies, config, state, timers, signalled, drainer, stopper>>
      /\ UNCHANGED <<tracker, sessions, flow, missed, stopping>>
      /\ shutdown' \in {"stopping", "flushed"}
      /\ \/ toStop' = InState("active") \cup InState("draining") /\ shutdown = "no"
         \/ toStop' = toStop
  BY DEF Shutdown, FinalFlush, runtime, closing
<1>1. /\ Steady /\ KeepsSlots /\ Mapped'
      /\ \A m \in Listeners : Swept(m)' = Swept(m) /\ FlowsOf(m)' = FlowsOf(m)
  BY <1>0, StillInvariant
<1>2. TypeOK'
  BY <1>0 DEF TypeOK, InState
<1>3. Signalling' /\ Sweeping'
  BY <1>0, <1>1 DEF Signalling, Sweeping
<1>4. OldFlowsOnNotice'
  <2>1. \A l \in Listeners : Lasts(l)
    BY <1>0 DEF Lasts, Signalling
  <2>2. QED BY <1>0, <1>1, <2>1, NoticeLasts
<1>5. QED BY <1>0, <1>1, <1>2, <1>3, <1>4, CloserInvariant

\* The switch of an Apply: what was in use gets a timer or a drain, and a tracker
\* made for the rule counts nobody yet.
LEMMA ApplyInvariant ==
  ASSUME IInv, NEW kept \in SUBSET Listeners, NEW limit \in Limits,
         NEW changed \in BOOLEAN, Apply(kept, limit, changed)
  PROVE  IInv'
<1> DEFINE inUse == kept \cup InState("warming")
           drained == InState("active") \ kept
           fresh == Fresh(limit, changed)
           gen == IF fresh THEN config.gen + 1 ELSE config.gen
<1> USE DEF IInv
<1>0. /\ shutdown = "no" /\ applies < MaxApplies /\ kept \subseteq InState("active")
      /\ applies' = applies + 1
      /\ config' = [gen |-> gen, rule |-> IF inUse = {} THEN 0 ELSE TrackerFor(limit)]
      /\ tracker' = IF inUse # {} /\ TrackerFor(limit) = applies + 1
                      THEN [tracker EXCEPT ![applies + 1] = NewTracker(limit)]
                      ELSE tracker
      /\ UNCHANGED <<stopper, sessions, flow, shutdown, toStop, stopping, missed>>
  BY DEF Apply, Fresh, stop
<1>1. /\ applies \in 0 .. MaxApplies /\ config.gen \in Nat /\ config.rule \in TrackerIDs
      /\ MaxApplies \in Nat /\ limit \in Limit
  BY LimitsAssumption DEF TypeOK
<1>2. /\ state' \in [Listeners -> {"none", "warming", "active", "draining", "stopped"}]
      /\ \A l \in Listeners :
           state'[l] = IF l \in kept \/ state[l] = "warming" THEN "active"
                       ELSE IF state[l] = "active" THEN "draining" ELSE state[l]
  <2>1. state' = [l \in Listeners |-> CASE l \in inUse -> "active"
                                        [] l \in drained -> "draining"
                                        [] OTHER -> state[l]]
    BY DEF Apply, Fresh
  <2>2. ASSUME NEW l \in Listeners
        PROVE  state'[l] = IF l \in kept \/ state[l] = "warming" THEN "active"
                           ELSE IF state[l] = "active" THEN "draining" ELSE state[l]
    <3>1. CASE l \in inUse
      BY <2>1, <3>1 DEF InState
    <3>2. CASE l \notin inUse /\ l \in drained
      BY <2>1, <3>2 DEF InState
    <3>3. CASE l \notin inUse /\ l \notin drained
      <4>1. state'[l] = state[l]
        BY <2>1, <3>3
      <4>2. QED BY <3>3, <4>1 DEF InState
    <3>4. QED BY <3>1, <3>2, <3>3
  <2>3. \A l \in Listeners :
          state'[l] \in {"none", "warming", "active", "draining", "stopped"}
    BY <2>2 DEF TypeOK
  <2>4. state' = [l \in Listeners |-> state'[l]]
    BY <2>1
  <2>5. QED BY <2>2, <2>3, <2>4
<1>3. /\ timers' \in [Listeners -> SUBSET Nat]
      /\ \A l \in Listeners : timers[l] \subseteq timers'[l]
      /\ \A l \in kept : fresh => config.gen \in timers'[l]
  <2>1. timers' = [l \in Listeners |-> IF l \in kept /\ fresh
                                         THEN timers[l] \cup {config.gen} ELSE timers[l]]
    BY DEF Apply, Fresh, OldGeneration
  <2>2. QED BY <1>1, <2>1 DEF TypeOK
<1>4. /\ signalled' = signalled \cup (drained \ Udp)
      /\ drainer' = [l \in Listeners |-> IF l \in drained THEN "waiting" ELSE drainer[l]]
  BY DEF Apply, Fresh
<1>5. TrackerFor(limit) \in 1 .. applies + 1
  <2>1. config.rule # 0 => config.rule \in 1 .. applies
    BY <1>1 DEF Numbered, TrackerIDs
  <2>2. QED BY <1>1, <2>1 DEF TrackerFor
<1>6. /\ config' \in [gen : Nat, rule : TrackerIDs] /\ config'.gen = gen
      /\ config'.rule \in 0 .. applies' /\ (inUse # {} => config'.rule # 0)
      /\ applies' \in 0 .. MaxApplies
  BY <1>0, <1>1, <1>5 DEF TrackerIDs
<1>7. applies + 1 \in TrackerIDs
  BY <1>0, <1>1 DEF TrackerIDs
<1>8. /\ NewTracker(limit) \in Tracker /\ NewTracker(limit).limit = limit
      /\ NewTracker(limit).active = 0 /\ \A i \in IPs : NewTracker(limit).ips[i] = 0
  BY <1>1 DEF NewTracker, Tracker
<1>9. /\ tracker' \in [TrackerIDs -> Tracker]
      /\ \A t \in TrackerIDs \ {applies + 1} : tracker'[t] = tracker[t]
      /\ tracker'[applies + 1] \in {tracker[applies + 1], NewTracker(limit)}
  BY <1>0, <1>7, <1>8 DEF TypeOK, Tracker
<1>10. TypeOK'
  <2>1. signalled' \subseteq Listeners /\ drainer' \in [Listeners -> {"no", "waiting", "closed"}]
    BY <1>4 DEF TypeOK, InState
  <2>2. QED BY <2>1, <1>0, <1>2, <1>3, <1>6, <1>9 DEF TypeOK, Tracker
<1>11. /\ \A t : Holders(t)' = Holders(t)
       /\ \A l : FlowsOf(l)' = FlowsOf(l) /\ Live(l)' = Live(l)
       /\ \A l \in Listeners : Swept(l)' = Swept(l)
       /\ Alive' = Alive /\ Mapped'
  BY <1>0 DEF Holders, FlowsOf, Live, At, Swept, Alive, Mapped, SessionsOf
<1>12. Numbered'
  <2>1. \A l \in Listeners : state'[l] = "active" => inUse # {}
    BY <1>2 DEF InState
  <2>2. \A f \in Alive : flow[f].rule \in 1 .. applies'
    BY <1>0, <1>1 DEF Numbered
  <2>3. QED BY <2>1, <2>2, <1>0, <1>6, <1>11 DEF Numbered
<1>13. Holders(applies + 1) = {} /\ Busy(applies + 1) = {}
  <2>1. Holders(applies + 1) = {}
    BY <1>1 DEF Holders, Numbered
  <2>2. Busy(applies + 1) = {}
    BY <2>1, <1>7, SlotsFinite
  <2>3. QED BY <2>1, <2>2
<1>14. ASSUME NEW t, t = applies + 1 PROVE Busy(t)' = {}
  <2>1. CASE tracker'[t] = tracker[t]
    BY <2>1, <1>13, <1>14 DEF Busy
  <2>2. CASE tracker'[t] = NewTracker(limit)
    BY <2>2, <1>8 DEF Busy
  <2>3. QED BY <2>1, <2>2, <1>9, <1>14
<1>15. SlotsBalanced'
  <2>1. ASSUME NEW t \in TrackerIDs
        PROVE  /\ tracker'[t].active = Cardinality(Holders(t)')
               /\ \A i \in IPs : tracker'[t].ips[i]
                    = Cardinality({f \in Holders(t)' : IPof[flow'[f].client] = i})
    <3>1. \A i \in IPs : {f \in Holders(t)' : IPof[flow'[f].client] = i}
                            = {f \in Holders(t) : IPof[flow[f].client] = i}
      BY <1>0, <1>11
    <3>2. CASE tracker'[t] = tracker[t]
      BY <3>1, <3>2, <1>11 DEF SlotsBalanced
    <3>3. CASE t = applies + 1 /\ tracker'[t] = NewTracker(limit)
      <4>1. Holders(t)' = {}
        BY <3>3, <1>11, <1>13
      <4>2. QED BY <4>1, <3>3, <1>8, FS_EmptySet
    <3>4. QED BY <3>2, <3>3, <1>9
  <2>2. QED BY <2>1 DEF SlotsBalanced
<1>16. Within'
  <2>1. ASSUME NEW t \in TrackerIDs
        PROVE  LET u == tracker'[t] IN
               /\ u.limit.conns > 0 => u.active <= u.limit.conns
               /\ u.limit.ips > 0 => Cardinality(Busy(t)') <= u.limit.ips
    <3>1. CASE t # applies + 1
      <4>1. tracker'[t] = tracker[t] /\ Busy(t)' = Busy(t)
        BY <3>1, <1>9 DEF Busy
      <4>2. QED BY <4>1 DEF Within
    <3>2. CASE t = applies + 1
      <4>1. tracker'[t].active = 0 /\ Cardinality(Busy(t)') = 0
        <5>1. Holders(t)' = {} /\ Busy(t)' = {}
          BY <3>2, <1>11, <1>13, <1>14
        <5>2. tracker'[t].active = Cardinality(Holders(t)')
          BY <1>15 DEF SlotsBalanced
        <5>3. QED BY <5>1, <5>2, FS_EmptySet
      <4>2. tracker'[t].limit.conns \in Nat /\ tracker'[t].limit.ips \in Nat
        BY <1>9 DEF Tracker, Limit
      <4>3. QED BY <4>1, <4>2
    <3>3. QED BY <3>1, <3>2
  <2>2. QED BY <2>1 DEF Within
<1>17. Signalling' /\ Sweeping'
  <2>1. \A l \in Listeners : state'[l] \in {"none", "warming"} => state[l] = "none"
    BY <1>2 DEF TypeOK
  <2>2. \A l \in Listeners : /\ l \in drained => drainer'[l] = "waiting"
                             /\ l \notin drained => drainer'[l] = drainer[l]
    BY <1>4
  <2>3. Signalling'
    BY <2>1, <2>2, <1>0, <1>4, <1>11 DEF Signalling
  <2>4. Sweeping'
    BY <2>2, <1>0, <1>4, <1>11 DEF Sweeping
  <2>5. QED BY <2>3, <2>4
<1>18. OldFlowsOnNotice'
  <2>1. ASSUME NEW l \in Listeners, NEW f \in Live(l)
        PROVE  \/ flow[f].closed
               \/ flow[f].gen = config'.gen /\ state'[l] = "active"
               \/ flow[f].gen \in timers'[l]
               \/ drainer'[l] = "waiting" \/ stopper[l] = "signalled" \/ l \in toStop
               \/ l \in missed
    <3>1. CASE l \in drained
      BY <3>1, <1>4
    <3>2. CASE l \in kept
      <4>1. CASE fresh
        BY <3>2, <4>1, <1>3, <1>4 DEF OldFlowsOnNotice, OnNotice, Live, InState
      <4>2. CASE ~fresh
        <5>1. config'.gen = config.gen
          BY <4>2, <1>6
        <5>2. QED BY <3>2, <5>1, <1>2, <1>3, <1>4 DEF OldFlowsOnNotice, OnNotice, Live
      <4>3. QED BY <4>1, <4>2
    <3>3. CASE l \notin drained /\ l \notin kept
      <4>1. state[l] # "active"
        BY <3>3 DEF InState
      <4>2. QED BY <3>3, <4>1, <1>3, <1>4 DEF OldFlowsOnNotice, OnNotice, Live
    <3>4. QED BY <3>1, <3>2, <3>3
  <2>2. QED BY <2>1, <1>0, <1>11 DEF OldFlowsOnNotice, OnNotice, Live
<1>19. QED BY <1>10, <1>11, <1>12, <1>15, <1>16, <1>17, <1>18

\* Nothing happens.
LEMMA StutterInvariant ==
  ASSUME IInv, UNCHANGED vars
  PROVE  IInv'
<1> USE DEF IInv, vars, runtime, closing, stop
<1>1. /\ Steady /\ KeepsSlots /\ Mapped'
      /\ \A l \in Listeners : Swept(l)' = Swept(l) /\ FlowsOf(l)' = FlowsOf(l)
  BY StillInvariant
<1>2. TypeOK'
  BY DEF TypeOK
<1>3. Signalling' /\ Sweeping'
  BY <1>1 DEF Signalling, Sweeping
<1>4. OldFlowsOnNotice'
  BY <1>1, NoticeLasts DEF Lasts
<1>5. QED BY <1>1, <1>2, <1>3, <1>4, CloserInvariant

(***************************************************************************)
(* IInv is an inductive invariant of the specification.                    *)
(***************************************************************************)
THEOREM Inductive == Spec => []IInv
<1>1. ASSUME IInv, [Next]_vars PROVE IInv'
  <2>1. ASSUME NEW new \in SUBSET Listeners, Stage(new) PROVE IInv'
    BY <1>1, <2>1, StageInvariant
  <2>2. CASE AbortApply
    BY <1>1, <2>2, AbortInvariant
  <2>3. ASSUME NEW kept \in SUBSET Listeners, NEW limit \in Limits, NEW changed \in BOOLEAN,
               Apply(kept, limit, changed)
        PROVE  IInv'
    BY <1>1, <2>3, ApplyInvariant
  <2>4. ASSUME NEW f \in Flows, NEW l \in Listeners, NEW c \in Clients, Begin(f, l, c)
        PROVE  IInv'
    BY <1>1, <2>4, BeginInvariant
  <2>5. ASSUME NEW f \in Flows, FlowStep(f) PROVE IInv'
    <3>1. CASE AcquireRule(f)
      BY <1>1, <3>1, AcquireRuleInvariant
    <3>2. CASE AcquireTenant(f)
      BY <1>1, <3>2, AcquireTenantInvariant
    <3>3. CASE Track(f)
      BY <1>1, <3>3, TrackInvariant
    <3>4. CASE Insert(f)
      BY <1>1, <3>4, InsertInvariant
    <3>5. CASE DialFails(f) \/ EndConnection(f)
      BY <1>1, <3>5, EndsInvariant
    <3>6. CASE Release(f)
      BY <1>1, <3>6, ReleaseInvariant
    <3>7. CASE Gone(f)
      BY <1>1, <3>7, GoneInvariant
    <3>8. QED BY <2>5, <3>1, <3>2, <3>3, <3>4, <3>5, <3>6, <3>7 DEF FlowStep
  <2>6. ASSUME NEW f \in Flows, EndConnection(f) PROVE IInv'
    BY <1>1, <2>6, EndsInvariant
  <2>7. ASSUME NEW f \in Flows, EndSession(f) PROVE IInv'
    BY <1>1, <2>7, EndSessionInvariant
  <2>8. ASSUME NEW l \in Listeners, CloserStep(l) PROVE IInv'
    <3>1. ASSUME NEW g \in timers[l], CloseGeneration(l, g) PROVE IInv'
      BY <1>1, <3>1, CloseGenerationInvariant
    <3>2. ASSUME NEW g \in timers[l], CancelTimer(l, g) PROVE IInv'
      BY <1>1, <3>2, CancelTimerInvariant
    <3>3. CASE DrainDeadline(l) \/ StopCloses(l)
      BY <1>1, <3>3, SweepInvariant
    <3>4. CASE DrainDone(l) \/ StopDone(l)
      BY <1>1, <3>4, FinishedInvariant
    <3>5. CASE DrainUdp(l) \/ StopNext(l)
      BY <1>1, <3>5, SignalInvariant
    <3>6. QED BY <2>8, <3>1, <3>2, <3>3, <3>4, <3>5 DEF CloserStep
  <2>9. CASE Shutdown \/ FinalFlush
    BY <1>1, <2>9, ShutdownInvariant
  <2>10. CASE UNCHANGED vars
    BY <1>1, <2>10, StutterInvariant
  <2>11. QED
    BY <1>1, <2>1, <2>2, <2>3, <2>4, <2>5, <2>6, <2>7, <2>8, <2>9, <2>10 DEF Next
<1>2. QED BY <1>1, InitInvariant, PTL DEF Spec

-----------------------------------------------------------------------------
(* What the listeners promise *)

(***************************************************************************)
(* Every field of the runtime, its listeners, trackers and flows keeps its *)
(* type: a tracker's counters never fall below zero.                       *)
(***************************************************************************)
THEOREM TypeCorrect == Spec => []TypeOK
BY Inductive, PTL DEF IInv

(***************************************************************************)
(* Whichever refusal, failure, drain, stop or end of a connection or of a  *)
(* session ends a flow, a tracker counts just the flows that hold its      *)
(* slots, in all and per address: no slot leaks, none is given back twice. *)
(***************************************************************************)
THEOREM SlotsAreBalanced == Spec => []SlotsBalanced
BY Inductive, PTL DEF IInv

(***************************************************************************)
(* A flow belongs to the generation and the tracker handed out when it     *)
(* began; the tracker in use is only replaced together with the            *)
(* generation.                                                             *)
(***************************************************************************)
Generations ==
  \A f \in Alive : /\ flow[f].gen <= config.gen
                   /\ flow[f].gen = config.gen => config.rule \in {0, flow[f].rule}

\* In every other step a flow keeps the generation and tracker it was given.
Handed ==
  /\ config' = config
  /\ \A f \in Flows : flow'[f] # None =>
       flow[f] # None /\ flow'[f].gen = flow[f].gen /\ flow'[f].rule = flow[f].rule

LEMMA HandedGenerations ==
  ASSUME TypeOK, Generations, Handed
  PROVE  Generations'
<1>1. \A f \in Alive' : f \in Alive /\ flow'[f].gen = flow[f].gen
                                  /\ flow'[f].rule = flow[f].rule
  BY DEF Handed, Alive
<1>2. QED BY <1>1 DEF Generations, Handed

LEMMA FlowHanded ==
  ASSUME TypeOK, NEW f \in Alive,
         \/ GiveUp(f) \/ flow' = flow
         \/ \E t \in TrackerIDs : Count(f, t) \/ Uncount(f, t)
         \/ flow' = [flow EXCEPT ![f].place = "open"] \/ flow' = [flow EXCEPT ![f] = None]
         \/ flow' = [flow EXCEPT ![f].holds = {flow[f].rule, 0}]
  PROVE  \A g \in Flows : flow'[g] # None =>
           flow[g] # None /\ flow'[g].gen = flow[g].gen /\ flow'[g].rule = flow[g].rule
<1>1. flow \in [Flows -> Flow \cup {None}] /\ f \in Flows /\ flow[f] \in Flow
  BY AliveTypes DEF TypeOK, Alive
<1>2. \A g \in Flows : g # f => flow'[g] = flow[g]
  BY <1>1 DEF GiveUp, Count, Uncount
<1>3. CASE GiveUp(f)
  <2>1. flow'[f] = [flow[f] EXCEPT !.place = "over", !.closed = TRUE]
    BY <1>1, <1>3 DEF GiveUp
  <2>2. QED BY <1>1, <1>2, <2>1, ZenonT(30) DEF Flow, Alive
<1>4. ASSUME NEW t \in TrackerIDs, Count(f, t) \/ Uncount(f, t)
      PROVE  flow'[f].gen = flow[f].gen /\ flow'[f].rule = flow[f].rule
  <2>1. \E h : flow'[f] = [flow[f] EXCEPT !.holds = h]
    BY <1>1, <1>4 DEF Count, Uncount
  <2>2. QED BY <1>1, <2>1 DEF Flow
<1>5. CASE flow' = [flow EXCEPT ![f].place = "open"]
  BY <1>1, <1>2, <1>5 DEF Flow, Alive
<1>6. CASE flow' = [flow EXCEPT ![f].holds = {flow[f].rule, 0}]
  BY <1>1, <1>2, <1>6 DEF Flow, Alive
<1>7. CASE flow' = flow \/ flow' = [flow EXCEPT ![f] = None]
  BY <1>1, <1>2, <1>7
<1>8. QED BY <1>1, <1>2, <1>3, <1>4, <1>5, <1>6, <1>7 DEF Alive

LEMMA CloseFlowsHanded ==
  ASSUME TypeOK, NEW l \in Listeners, NEW S \in SUBSET Alive, CloseFlows(l, S)
  PROVE  \A g \in Flows : flow'[g] # None =>
           flow[g] # None /\ flow'[g].gen = flow[g].gen /\ flow'[g].rule = flow[g].rule
<1>1. ASSUME NEW g \in S
      PROVE  flow[g] # None /\ flow'[g].gen = flow[g].gen /\ flow'[g].rule = flow[g].rule
  <2>1. g \in Flows /\ flow[g] \in Flow /\ flow[g] # None
    BY AliveTypes
  <2>2. \/ flow'[g] = [flow[g] EXCEPT !.place = "over", !.closed = TRUE]
        \/ flow'[g] = [flow[g] EXCEPT !.closed = TRUE]
    BY <2>1 DEF CloseFlows
  <2>3. QED BY <2>1, <2>2 DEF Flow
<1>2. \A g \in Flows \ S : flow'[g] = flow[g]
  BY DEF CloseFlows
<1>3. QED BY <1>1, <1>2

LEMMA FlowGenerations ==
  ASSUME TypeOK, Generations, NEW f \in Flows,
         FlowStep(f) \/ EndConnection(f) \/ EndSession(f)
  PROVE  Generations'
<1>1. config' = config /\ f \in Alive
  BY DEF FlowStep, AcquireRule, AcquireTenant, Track, Insert, DialFails, Release, Gone,
         EndConnection, EndSession, runtime, Admitted
<1>2. flow[f].rule \in TrackerIDs /\ flow[f].listener \in Listeners /\ 0 \in TrackerIDs
  BY <1>1, AliveTypes, LimitsAssumption DEF Flow, TrackerIDs
<1>3. CASE EndSession(f)
  BY <1>1, <1>2, <1>3, CloseFlowsHanded, HandedGenerations DEF EndSession, Handed
<1>4. CASE FlowStep(f) \/ EndConnection(f)
  <2>1. \/ GiveUp(f) \/ flow' = flow
        \/ \E t \in TrackerIDs : Count(f, t) \/ Uncount(f, t)
        \/ flow' = [flow EXCEPT ![f].place = "open"] \/ flow' = [flow EXCEPT ![f] = None]
        \/ flow' = [flow EXCEPT ![f].holds = {flow[f].rule, 0}]
    BY <1>2, <1>4 DEF FlowStep, AcquireRule, AcquireTenant, Track, Insert, DialFails, Release,
                      Gone, EndConnection
  <2>2. QED BY <1>1, <2>1, FlowHanded, HandedGenerations DEF Handed
<1>5. QED BY <1>3, <1>4

LEMMA CloserGenerations ==
  ASSUME TypeOK, Generations, NEW l \in Listeners, CloserStep(l)
  PROVE  Generations'
<1>1. config' = config
  BY DEF CloserStep, CloseGeneration, CancelTimer, DrainDeadline, DrainDone, DrainUdp,
         StopCloses, StopDone, StopNext, Finished, runtime
<1>2. CASE flow' = flow
  BY <1>1, <1>2, HandedGenerations DEF Handed
<1>3. ASSUME NEW S \in SUBSET Alive, CloseFlows(l, S) PROVE Generations'
  BY <1>1, <1>3, CloseFlowsHanded, HandedGenerations DEF Handed
<1>4. At(l, "open") \subseteq Alive
  BY AliveTypes
<1>5. flow' = flow \/ \E S \in SUBSET Alive : CloseFlows(l, S)
  BY <1>4 DEF CloserStep, CloseGeneration, CancelTimer, DrainDeadline, DrainDone, DrainUdp,
         StopCloses, StopDone, StopNext, Finished, CloseAll
<1>6. QED BY <1>2, <1>3, <1>5

LEMMA BeginGenerations ==
  ASSUME TypeOK, Generations, NEW f \in Flows, NEW l \in Listeners, NEW c \in Clients,
         Begin(f, l, c)
  PROVE  Generations'
<1>1. config' = config /\ config.gen \in Nat
  BY DEF Begin, runtime, TypeOK
<1>2. /\ flow'[f].gen = config.gen /\ flow'[f].rule = config.rule
      /\ \A g \in Flows : g # f => flow'[g] = flow[g]
  BY DEF Begin, TypeOK
<1>3. ASSUME NEW g \in Alive', g # f PROVE g \in Alive /\ flow'[g] = flow[g]
  BY <1>2, <1>3 DEF Alive
<1>4. QED BY <1>1, <1>2, <1>3 DEF Generations

LEMMA ApplyGenerations ==
  ASSUME TypeOK, Generations, NEW kept \in SUBSET Listeners, NEW limit \in Limits,
         NEW changed \in BOOLEAN, Apply(kept, limit, changed)
  PROVE  Generations'
<1>1. flow' = flow /\ Alive' = Alive
  BY DEF Apply, Fresh, Alive
<1>2. config.gen \in Nat /\ \A f \in Alive : flow[f].gen \in Nat
  BY AliveTypes DEF TypeOK, Flow
<1>3. CASE config'.gen = config.gen + 1
  BY <1>1, <1>2, <1>3 DEF Generations
<1>4. CASE config'.gen = config.gen /\ config.rule # 0 /\ config'.rule \in {0, config.rule}
  BY <1>1, <1>2, <1>4 DEF Generations
<1>5. QED BY <1>3, <1>4 DEF Apply, Fresh

(***************************************************************************)
(* Flows keep the generation and the tracker they were given.              *)
(***************************************************************************)
THEOREM GenerationsHold == Spec => []Generations
<1>1. ASSUME Init PROVE Generations
  BY <1>1 DEF Init, Generations, Alive
<1>2. ASSUME TypeOK, Generations, [Next]_vars PROVE Generations'
  <2>1. CASE \E new \in SUBSET Listeners : Stage(new)
    BY <1>2, <2>1, HandedGenerations DEF Stage, Handed
  <2>2. CASE AbortApply \/ Shutdown \/ FinalFlush \/ UNCHANGED vars
    BY <1>2, <2>2, HandedGenerations
       DEF AbortApply, Shutdown, FinalFlush, vars, runtime, Handed
  <2>3. QED BY <1>2, <2>1, <2>2, ApplyGenerations, BeginGenerations, FlowGenerations,
               CloserGenerations DEF Next
<1>3. QED BY <1>1, <1>2, TypeCorrect, PTL DEF Spec

(***************************************************************************)
(* The limits of the rule and of the tenant hold, over TCP and UDP, for    *)
(* what each tracker counts; and for the rule's flows that are not about   *)
(* to be closed, whatever trackers the rule has had.                       *)
(***************************************************************************)
THEOREM LimitsAreHeld == Spec => []LimitsHold
<1>1. ASSUME IInv, Generations PROVE LimitsHold
  <2> USE <1>1 DEF IInv
  <2>1. ASSUME NEW t \in TrackerIDs PROVE Obeys(Holders(t), tracker[t].limit)
    <3>1. tracker[t].active = Cardinality(Holders(t))
      BY DEF SlotsBalanced
    <3>2. Busy(t) = {IPof[flow[f].client] : f \in Holders(t)}
      BY SlotsFinite
    <3>3. QED BY <3>1, <3>2 DEF Within, Obeys
  <2>2. ASSUME config.rule # 0 PROVE Obeys(LastingFlows, tracker[config.rule].limit)
    <3> DEFINE H == Holders(config.rule)
               A(F) == {IPof[flow[f].client] : f \in F}
    <3>1. LastingFlows \subseteq H
      <4>1. ASSUME NEW f \in LastingFlows PROVE f \in H
        <5>1. /\ f \in Alive /\ flow[f].rule \in flow[f].holds
              /\ flow[f].place \in {"open", "starting"} /\ flow[f].listener \in Listeners
          BY AliveTypes DEF LastingFlows, Flow
        <5>2. f \in Live(flow[f].listener) /\ ~OnNotice(flow[f].listener, f)
          BY <5>1 DEF LastingFlows, Live, At, FlowsOf
        <5>3. flow[f].gen = config.gen
          BY <5>1, <5>2 DEF OldFlowsOnNotice, Live
        <5>4. flow[f].rule = config.rule
          BY <5>1, <5>3, <2>2 DEF Generations
        <5>5. QED BY <5>1, <5>4 DEF Holders
      <4>2. QED BY <4>1
    <3>2. IsFiniteSet(H) /\ A(H) = Busy(config.rule) /\ config.rule \in TrackerIDs
      BY SlotsFinite DEF TypeOK
    <3>3. IsFiniteSet(A(H)) /\ A(LastingFlows) \subseteq A(H)
      BY <3>1, <3>2, SlotsFinite
    <3>4. /\ Cardinality(LastingFlows) <= Cardinality(H) /\ Cardinality(H) \in Nat
          /\ Cardinality(LastingFlows) \in Nat
      BY <3>1, <3>2, FS_Subset, FS_CardinalityType
    <3>5. /\ Cardinality(A(LastingFlows)) <= Cardinality(A(H)) /\ Cardinality(A(H)) \in Nat
          /\ Cardinality(A(LastingFlows)) \in Nat
      BY <3>3, FS_Subset, FS_CardinalityType
    <3>6. tracker[config.rule].limit \in Limit
      BY <3>2 DEF TypeOK
    <3>7. Obeys(H, tracker[config.rule].limit)
      BY <2>1, <3>2
    <3>8. QED BY <3>4, <3>5, <3>6, <3>7 DEF Obeys, Limit
  <2>3. QED BY <2>1, <2>2 DEF LimitsHold
<1>2. QED BY <1>1, Inductive, GenerationsHold, PTL

(***************************************************************************)
(* The datagrams of a client go to the session that lives, although the    *)
(* map is unlocked while the upstream is dialled, and the cap holds.       *)
(***************************************************************************)
THEOREM SessionsAreReachable == Spec => []SessionsReachable
<1>1. ASSUME IInv PROVE SessionsReachable
  <2> USE <1>1 DEF IInv
  <2>1. ASSUME NEW l \in Udp
        PROVE  Cardinality(At(l, "open")) <= SessionCap
    <3>1. /\ Cardinality(At(l, "open")) <= Cardinality(SessionsOf(l))
          /\ Cardinality(At(l, "open")) \in Nat /\ Cardinality(SessionsOf(l)) \in Nat
      BY SessionsCounted, FS_CardinalityType
    <3>2. QED BY <3>1, LimitsAssumption DEF Mapped
  <2>2. QED BY <2>1 DEF SessionsReachable, Mapped
<1>2. QED BY <1>1, Inductive, PTL

(***************************************************************************)
(* A flow of an old configuration is on notice: whatever Applies, drains   *)
(* and stops overlap, something that has not happened yet will close it,   *)
(* unless it was still being set up when its listener closed its flows.    *)
(***************************************************************************)
THEOREM OldFlowsEnd == Spec => []OldFlowsOnNotice
BY Inductive, PTL DEF IInv
=============================================================================
