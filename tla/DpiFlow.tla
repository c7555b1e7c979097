------------------------------- MODULE DpiFlow -------------------------------
(***************************************************************************)
(* Deep inspection of the connections of one rule: the agent's record of a *)
(* connection (dpiFlow), the decision of the policy, and the sidecar's     *)
(* bounded, expiring table of flows.  Agent and sidecar are processes that *)
(* restart on their own; they know a connection by its flow ID, a number   *)
(* that every agent process counts from one.                               *)
(***************************************************************************)
EXTENDS Naturals, Sequences

CONSTANTS
  Setups,          \* policies the rule, and options the sidecar may have
  InspectPackets,  \* packets the agent inspects of a connection
  TTL,             \* age at which an idle flow is forgotten
  QueueSize,       \* closed flows the agent remembers to report
  MaxConns,        \* bound: connections
  MaxFaults,       \* bound: restarts, and requests not answered in time
  None

\* Only blocking has a consequence: allow, observe, alert and limit are "pass".
Actions == {"pass", "block"}

\* asks says whether the sidecar is asked about a protocol the agent does not know
\* (shouldUseDPI, and that there is a sidecar), unknown what is done with it, low
\* what is done with a finding of little confidence ("keep": what is done without
\* it).  The sidecar remembers maxFlows flows, and makes up its mind about one after
\* maxPackets packets, which may be more than the agent inspects.
Setup == [asks : BOOLEAN, unknown : Actions, low : Actions \cup {"keep"},
          maxFlows : Nat \ {0}, maxPackets : Nat \ {0}]

ASSUME DpiConstants ==
  /\ Setups \subseteq Setup
  /\ {InspectPackets, TTL, QueueSize} \subseteq Nat \ {0}
  /\ {MaxConns, MaxFaults} \subseteq Nat

Conns == 1..MaxConns

\* Confidence below 50; nothing to object to; medium risk, or a group or high risk
\* under a policy that only observes; a group or high risk.
Findings == {"unsure", "clean", "noted", "bad"}
Verdict == [action : Actions, final : BOOLEAN, doubt : BOOLEAN, of : SUBSET Conns]
Conn == [who : Conns, packets : 0..InspectPackets,
         waiting : Actions \cup {None}, verdict : Verdict \cup {None},
         latched : BOOLEAN, disturbed : BOOLEAN, closed : BOOLEAN]
Flow == [packets : Nat, final : BOOLEAN, found : Findings,
         age : 0..TTL, of : SUBSET Conns]
Request == [kind : {"classify", "close"}, id : Conns, who : Conns]
ASSUME NoneIsNoRecord == None \notin Actions \cup Verdict \cup Conn \cup Flow

(***************************************************************************)
(*   setup     the policy of the rule and the options of the sidecar       *)
(*   opened    connections so far; a connection is its number (who)        *)
(*   sequence  nextDPIFlowID of the agent process                          *)
(*   conns     the connections of the process, by flow ID; one that is     *)
(*             closed may still have a packet to inspect (UDP).  waiting is  *)
(*             what is done with its packet without the sidecar's answer     *)
(*   closing   dpiClose, IDs whose flows are to be closed                  *)
(*   table     flows by ID and lru, the IDs from the longest unused        *)
(*   late      requests the agent no longer waits for                      *)
(*   faults    faults so far                                               *)
(*   leftover  IDs the sidecar knew when the agent restarted.              *)
(* The connections a flow or a verdict is of (of), disturbed and leftover  *)
(* are history, read by properties only.                                   *)
(***************************************************************************)
VARIABLES setup, opened, sequence, conns, closing, table, late, faults, leftover

vars == <<setup, opened, sequence, conns, closing, table, late, faults, leftover>>

EmptyTable == [flow |-> [id \in Conns |-> None], lru |-> <<>>]

Init ==
  /\ setup \in Setups
  /\ opened = 0 /\ sequence = 0
  /\ conns = [id \in Conns |-> None]
  /\ closing = <<>> /\ table = EmptyTable
  /\ late = {} /\ faults = 0 /\ leftover = {}

-----------------------------------------------------------------------------
(* The sidecar's table. *)

\* The list without the element of an ID it has.
Without(lru, id) ==
  LET n == CHOOSE n \in 1..Len(lru) : lru[n] = id
  IN SubSeq(lru, 1, n - 1) \o SubSeq(lru, n + 1, Len(lru))

\* removeFlowLocked
RemoveFlow(t, id) ==
  IF t.flow[id] = None THEN t
  ELSE [flow |-> [t.flow EXCEPT ![id] = None], lru |-> Without(t.lru, id)]

Remembered(t) == {id \in Conns : t.flow[id] # None}

\* Mutant: a flow that is not identified yet is kept.
ExpiredFinal(t, id) == t.flow[id] # None /\ t.flow[id].final /\ t.flow[id].age >= TTL

Expired(t, id) == t.flow[id] # None /\ t.flow[id].age >= TTL

\* expireLocked: from the front of the list up to the first flow that is not
\* expired.
Expire(t) ==
  LET gone == {n \in 1..Len(t.lru) : \A i \in 1..n : Expired(t, t.lru[i])}
      ids == {t.lru[n] : n \in gone}
  IN [flow |-> [id \in Conns |-> IF id \in ids THEN None ELSE t.flow[id]],
      lru |-> SubSeq(t.lru, 1 + (IF gone = {} THEN 0 ELSE CHOOSE n \in gone : n + 1 \notin gone),
                     Len(t.lru))]

\* ensureCapacityLocked: the flow unused for longest makes room.
EnsureCapacity(t) ==
  IF Len(t.lru) < setup.maxFlows THEN t ELSE RemoveFlow(t, Head(t.lru))

\* Mutant: a flow that is used keeps its place in the list.
TouchInPlace(t, id) == t

\* A flow that is used moves to the back of the list.
Touch(t, id) ==
  [t EXCEPT !.lru = Append(Without(@, id), id)]

NewFlow == [packets |-> 0, final |-> FALSE, found |-> "unsure", age |-> 0, of |-> {}]

\* Classify finds the flow of an ID or begins one.
Lookup(t, id) ==
  IF t.flow[id] # None THEN Touch(t, id)
  ELSE LET roomy == EnsureCapacity(t) IN
       [flow |-> [roomy.flow EXCEPT ![id] = NewFlow], lru |-> Append(roomy.lru, id)]

\* Mutant: nDPI is made to give up one packet late.
GivesUpLate(packets) == packets > setup.maxPackets

\* nDPI is made to give up, which is final, at the limit of packets.
GivesUp(packets) == packets >= setup.maxPackets

\* A flow identified is not processed again; else nDPI takes the packet.
Process(flow, who, stable, found) ==
  IF flow.final THEN [flow EXCEPT !.age = 0]
  ELSE [packets |-> flow.packets + 1, final |-> stable \/ GivesUp(flow.packets + 1),
        found |-> IF stable \/ GivesUp(flow.packets + 1) THEN found ELSE "unsure",
        age |-> 0, of |-> flow.of \cup {who}]

Classified(id, who, stable, found) ==
  [Lookup(Expire(table), id) EXCEPT !.flow[id] = Process(@, who, stable, found)]

-----------------------------------------------------------------------------
(* The policy. *)

\* ApplyPolicy on a packet for which the sidecar is asked: a protocol the agent
\* knows is not one that is blocked, for another the policy has an action.
Builtins == {"pass", setup.unknown}

\* ApplyDPI: a finding without consequence leaves what ApplyPolicy said, another
\* replaces it.
Decide(builtin, found) ==
  CASE found = "unsure" /\ setup.low # "keep" -> setup.low
    [] found = "noted" -> "pass"
    [] found = "bad" -> "block"
    [] OTHER -> builtin

\* An answer that is neither final nor confident.
Pending(flow, confident) == ~flow.final /\ ~confident

\* detectProtocolFlow with the sidecar's answer.
Answer(builtin, flow, found, confident) ==
  [action |-> IF Pending(flow, confident) THEN "pass" ELSE Decide(builtin, found),
   final |-> flow.final,
   doubt |-> found = "unsure" \/ ~(flow.final \/ confident),
   of |-> IF Pending(flow, confident) THEN {} ELSE flow.of]

\* detectProtocolFlow without one: what ApplyPolicy made of the packet stands.
Unanswered(builtin) ==
  [action |-> builtin, final |-> FALSE, doubt |-> TRUE, of |-> {}]

-----------------------------------------------------------------------------
(* The agent. *)

\* Mutant: the ID of a connection that has ended is given again.
NextIdReused(last) ==
  IF \E id \in 1..last : conns[id] = None
  THEN CHOOSE id \in 1..last : conns[id] = None ELSE last + 1

\* The flow ID of the next connection.
NextId(last) == last + 1

\* newDPIFlow
Open ==
  /\ opened < MaxConns /\ opened' = opened + 1
  /\ conns' = [conns EXCEPT ![NextId(sequence)] =
       [who |-> opened + 1, packets |-> 0, waiting |-> None, verdict |-> None,
        latched |-> FALSE, disturbed |-> FALSE, closed |-> FALSE]]
  /\ sequence' = IF NextId(sequence) > sequence THEN NextId(sequence) ELSE sequence
  /\ UNCHANGED <<setup, closing, table, late, faults, leftover>>

\* Mutant: one packet more is inspected.
InspectedOneMore(packets) == packets > InspectPackets

\* The last packet to inspect.
Inspected(packets) == packets >= InspectPackets

\* The end of inspect: the verdict stays when it is final and after the last
\* packet to inspect; one that blocks ends the connection, another is forgotten.
\* A closed connection that has its verdict is gone.
Concluded(conn, verdict) ==
  LET stays == verdict.final \/ Inspected(conn.packets) IN
  IF stays /\ conn.closed THEN None ELSE
  [conn EXCEPT !.waiting = None, !.latched = stays,
               !.verdict = IF stays \/ verdict.action = "block" THEN verdict ELSE None]

\* inspect: one packet of either direction at a time, and none once there is a
\* verdict to stay.  A protocol the agent knows is decided at once when the policy
\* blocks it, or inspects no deeper; so is the unknown when the sidecar is not asked
\* about it, but for this packet only.  Else the sidecar is asked.
Inspect(id) ==
  /\ conns[id] # None /\ ~conns[id].latched /\ conns[id].waiting = None
  /\ LET conn == [conns[id] EXCEPT !.packets = @ + 1] IN
     \/ setup.asks /\ \E builtin \in Builtins :
          conns' = [conns EXCEPT ![id] = [conn EXCEPT !.waiting = builtin]]
     \/ \E action \in Actions :
          conns' = [conns EXCEPT ![id] = Concluded(conn,
            [action |-> action, final |-> TRUE, doubt |-> FALSE, of |-> {}])]
     \/ ~setup.asks /\ conns' = [conns EXCEPT ![id] = Concluded(conn, Unanswered(setup.unknown))]
  /\ UNCHANGED <<setup, opened, sequence, closing, table, late, faults, leftover>>

Waiting(id) == conns[id] # None /\ conns[id].waiting # None

\* The sidecar classifies the packet and the agent has its answer.
Classify(id) ==
  /\ Waiting(id)
  /\ \E stable, confident \in BOOLEAN, found \in Findings :
       LET known == Expire(table).flow[id]
           conn == [conns[id] EXCEPT !.disturbed = @ \/
             (conns[id].packets > 1 /\ (known = None \/ conns[id].who \notin known.of))]
           after == Classified(id, conn.who, stable, found)
       IN /\ table' = after
          /\ conns' = [conns EXCEPT ![id] =
               Concluded(conn, Answer(conn.waiting, after.flow[id],
                 IF after.flow[id].final THEN after.flow[id].found ELSE found, confident))]
  /\ UNCHANGED <<setup, opened, sequence, closing, late, faults, leftover>>

\* No answer in time, or an error; the sidecar may yet get the request.
Timeout(id) ==
  /\ Waiting(id) /\ faults < MaxFaults
  /\ faults' = faults + 1
  /\ conns' = [conns EXCEPT ![id] =
       Concluded([@ EXCEPT !.disturbed = TRUE], Unanswered(@.waiting))]
  /\ late' = late \cup {[kind |-> "classify", id |-> id, who |-> conns[id].who]}
  /\ UNCHANGED <<setup, opened, sequence, closing, table, leftover>>

\* close: the ID is queued, or dropped when the queue is full.  A connection with
\* a verdict to stay is gone, another may have a packet under way.
Close(id) ==
  /\ conns[id] # None /\ ~conns[id].closed /\ conns[id].waiting = None
  /\ conns' = [conns EXCEPT ![id] =
       IF @.latched THEN None ELSE [@ EXCEPT !.closed = TRUE, !.verdict = None]]
  /\ closing' = IF Len(closing) < QueueSize THEN Append(closing, id) ELSE closing
  /\ UNCHANGED <<setup, opened, sequence, table, late, faults, leftover>>

\* closeDPIFlow in flushLoop; the request may fail or come late.
CloseFlow ==
  /\ closing # <<>>
  /\ closing' = Tail(closing)
  /\ \/ table' = RemoveFlow(table, Head(closing)) /\ UNCHANGED <<setup, late, faults>>
     \/ /\ faults < MaxFaults /\ faults' = faults + 1
        /\ late' = late \cup {[kind |-> "close", id |-> Head(closing), who |-> 1]}
        /\ UNCHANGED table
  /\ UNCHANGED <<setup, opened, sequence, conns, leftover>>

\* The agent is restarted; its numbers begin again.
AgentRestart ==
  /\ faults < MaxFaults /\ faults' = faults + 1
  /\ late' = late \cup {[kind |-> "classify", id |-> id, who |-> conns[id].who] :
                          id \in {c \in Conns : Waiting(c)}}
  /\ leftover' = leftover \cup Remembered(table) \cup {r.id : r \in late'}
  /\ sequence' = 0 /\ closing' = <<>>
  /\ conns' = [id \in Conns |-> None]
  /\ UNCHANGED <<setup, opened, table>>

-----------------------------------------------------------------------------
(* The sidecar on its own. *)

\* A request nobody waits for is carried out after all, or never was.
Late(r) ==
  /\ r \in late /\ late' = late \ {r}
  /\ \/ UNCHANGED table
     \/ r.kind = "close" /\ table' = RemoveFlow(table, r.id)
     \/ /\ r.kind = "classify"
        /\ \E stable \in BOOLEAN, found \in Findings :
             table' = Classified(r.id, r.who, stable, found)
  /\ UNCHANGED <<setup, opened, sequence, conns, closing, faults, leftover>>

Older(flow) == IF flow = None \/ flow.age = TTL THEN flow ELSE [flow EXCEPT !.age = @ + 1]

Tick ==
  /\ \E id \in Remembered(table) : table.flow[id].age < TTL
  /\ table' = [table EXCEPT !.flow = [id \in Conns |-> Older(@[id])]]
  /\ UNCHANGED <<setup, opened, sequence, conns, closing, late, faults, leftover>>

\* cleanupLoop
Cleanup ==
  /\ Expire(table) # table /\ table' = Expire(table)
  /\ UNCHANGED <<setup, opened, sequence, conns, closing, late, faults, leftover>>

SidecarRestart ==
  /\ faults < MaxFaults /\ faults' = faults + 1
  /\ table # EmptyTable /\ table' = EmptyTable
  /\ UNCHANGED <<setup, opened, sequence, conns, closing, late, leftover>>

-----------------------------------------------------------------------------
Next ==
  \/ Open \/ CloseFlow \/ AgentRestart
  \/ \E id \in Conns : Inspect(id) \/ Classify(id) \/ Timeout(id) \/ Close(id)
  \/ \E r \in late : Late(r)
  \/ Tick \/ Cleanup \/ SidecarRestart

\* Time passes and cleanupLoop runs; nothing else has to happen.
Spec == Init /\ [][Next]_vars /\ WF_vars(Tick) /\ WF_vars(Cleanup)

-----------------------------------------------------------------------------
(* Properties. *)

\* Every variable has its type; a connection keeps no more than the packets it
\* inspects.
TypeOK ==
  /\ setup \in Setups /\ opened \in 0..MaxConns /\ sequence \in 0..opened
  /\ conns \in [Conns -> Conn \cup {None}]
  /\ closing \in Seq(Conns) /\ Len(closing) <= QueueSize
  /\ table.flow \in [Conns -> Flow \cup {None}]
  /\ late \subseteq Request /\ faults \in 0..MaxFaults /\ leftover \subseteq Conns

\* README.md 128: every connection is inspected as a flow of its own.  What is
\* decided about one rests on its own packets, whatever requests come late or
\* are lost; except that of an ID the sidecar knew from an agent process before.
OwnVerdict ==
  \A id \in Conns \ leftover :
    conns[id] # None /\ conns[id].verdict # None
      => conns[id].verdict.of \subseteq {conns[id].who}

\* A verdict that stays is a stable identification, although the agent and the
\* sidecar count packets each for itself; unless a request failed or the sidecar
\* forgot the flow half-way, although it may have begun it again since.  It takes a
\* sidecar that is asked, and that needs no more packets than the agent inspects.
LatchedIsStable ==
  setup.asks /\ setup.maxPackets <= InspectPackets =>
    \A id \in Conns :
      conns[id] # None /\ conns[id].latched /\ ~conns[id].disturbed
        => conns[id].verdict.final

\* When the sidecar does not answer in time, is not stable or has little
\* confidence, a policy that lets unknown traffic pass lets it pass.
DoubtPasses ==
  \A id \in Conns :
    conns[id] # None /\ conns[id].verdict # None /\ conns[id].verdict.doubt
        /\ "block" \notin {setup.unknown, setup.low}
      => conns[id].verdict.action # "block"

\* README.md 128, on both sides: the policy is applied after a stable
\* identification, and in doubt the templates for games and authorised entry let
\* traffic pass.
VerdictsAreDue == LatchedIsStable /\ DoubtPasses

\* The list of the sidecar is the list of its flows, each once, within the limit,
\* from the longest unused: expireLocked, which stops at the first flow that is
\* not expired, misses none, and room is made where it does least harm.
TableSound ==
  LET lru == table.lru IN
  /\ {lru[i] : i \in 1..Len(lru)} = Remembered(table)
  /\ Len(lru) <= setup.maxFlows
  /\ \A i, j \in 1..Len(lru) : i < j =>
       lru[i] # lru[j] /\ table.flow[lru[i]].age >= table.flow[lru[j]].age

\* The sidecar forgets every flow in the end, also those whose closing the agent
\* dropped, lost in a restart, or overtook with a packet.
FlowsForgotten == <>[](Remembered(table) = {})
=============================================================================
